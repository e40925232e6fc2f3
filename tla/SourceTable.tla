----------------------------- MODULE SourceTable -----------------------------
(***************************************************************************)
(* What readers of the `source` table may rely on, whatever processes sync *)
(* the registry and migrate the schema at once: a row once there stays,    *)
(* its columns only take values some registry file gives them, except that *)
(* a source may be switched off, and a migration happens at one instant.   *)
(***************************************************************************)
EXTENDS Sequences, Naturals

CONSTANTS
  Ids,    \* source ids
  Files   \* versions of sources.yaml: sequences of [id, kind, params, rest, active]

VARIABLES
  rows,     \* source: id -> [kind, params, rest, active]
  revision  \* the schema's revision: 2 or 3

Kinds(rev) ==
  {"arxiv_category", "biorxiv", "rss", "openalex", "ror"} \cup IF rev = 3 THEN {"arxiv_oai"} ELSE {}

\* What the file says of a source, as a row.
Row(spec) == [kind |-> spec.kind, params |-> spec.params, rest |-> spec.rest, active |-> spec.active]

SpecsOf(file, id) == {file[i] : i \in {j \in DOMAIN file : file[j].id = id}}

\* A setSpec such as cs:cs:RO becomes the category cs.RO, as lists of segments.
Converted(row) ==
  IF row.kind = "arxiv_oai" /\ "set" \in DOMAIN row.params
  THEN [row EXCEPT !.kind = "arxiv_category", !.params = [category |-> Tail(row.params.set)]]
  ELSE row

KindsValid == \A id \in DOMAIN rows : rows[id].kind \in Kinds(revision)

Init == rows \in [{} -> {}] \/ \E file \in Files : \A id \in DOMAIN rows :
          \E spec \in SpecsOf(file, id) : rows[id] = Row(spec)

\* Some columns of some rows take the file's values, all of those of a new
\* row; of a row the file does not list, only `active` may change.
Sync(file) ==
  /\ revision' = revision /\ DOMAIN rows \subseteq DOMAIN rows'
  /\ \A id \in DOMAIN rows' :
       IF id \in DOMAIN rows
       THEN IF SpecsOf(file, id) = {}
            THEN rows'[id] \in {rows[id], [rows[id] EXCEPT !.active = FALSE]}
            ELSE \A spec \in SpecsOf(file, id), column \in DOMAIN rows[id] :
                   rows'[id][column] \in {rows[id][column], Row(spec)[column]}
       ELSE \E spec \in SpecsOf(file, id) : rows'[id] = Row(spec)

Upgrade == revision = 2 /\ revision' = 3 /\ rows' = rows

\* Every row there is at that instant is converted, and none is left over.
Downgrade ==
  /\ revision = 3 /\ revision' = 2
  /\ rows' = [id \in DOMAIN rows |-> Converted(rows[id])]
  /\ KindsValid'

Next == (\E file \in Files : Sync(file)) \/ Upgrade \/ Downgrade

Spec == Init /\ [][Next]_<<rows, revision>>
=============================================================================
