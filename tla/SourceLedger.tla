---------------------------- MODULE SourceLedger ----------------------------
(***************************************************************************)
(* What the ingestion database promises its readers, whoever writes to it  *)
(* and however a writer dies: the two tables fetch_run and source_document *)
(* only ever grow, and they grow by one whole poll at a time.  A poll      *)
(* arrives finished, with exactly the documents it was the first to find.  *)
(***************************************************************************)
EXTENDS Integers, FiniteSets

CONSTANTS Sources,     \* source ids
          Exts,        \* external ids a feed can use
          RunIds       \* primary keys of fetch_run

VARIABLES docs,        \* rows of source_document
          runs         \* rows of fetch_run

ledgerVars == <<docs, runs>>

Doc == [source : Sources, ext : Exts, run : RunIds]

Run == [id : RunIds, source : Sources, status : {"ok", "error"},
        fetched : Nat, new : Nat]

Stored(s, e) == \E d \in docs : d.source = s /\ d.ext = e

LInit == docs = {} /\ runs = {}

(***************************************************************************)
(* One poll of source s becomes visible, with the documents found by it    *)
(* that nobody had stored, whether or not it ended in an error.            *)
(***************************************************************************)
Record(r) ==
  /\ r \in Run
  /\ \A old \in runs : old.id # r.id
  /\ \E found \in SUBSET {e \in Exts : ~ Stored(r.source, e)} :
       /\ r.new = Cardinality(found)
       /\ r.new <= r.fetched
       /\ docs' = docs \cup [source : {r.source}, ext : found, run : {r.id}]
  /\ runs' = runs \cup {r}

LNext == \E r \in runs' \ runs : Record(r)

LSpec == LInit /\ [][LNext]_ledgerVars
=============================================================================
