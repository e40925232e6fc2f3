------------------------------- MODULE Registry -------------------------------
(***************************************************************************)
(* `sync_registry` as `radar sources sync` and `radar ingest` run it, in   *)
(* several processes with different versions of sources.yaml, while        *)
(* migration 0003 upgrades or downgrades the schema under them.            *)
(*                                                                         *)
(* A process reads the rows once, compares, and flushes the INSERTs of     *)
(* what is missing and the UPDATEs of the columns that differ; PostgreSQL  *)
(* locks a row from the statement that writes it to the end of its         *)
(* transaction, at READ COMMITTED.  `radar ingest` keeps the transaction   *)
(* open while it polls the first source, so anything may happen between    *)
(* the last statement and the commit.                                      *)
(***************************************************************************)
EXTENDS Integers, Sequences, FiniteSets, Functions

CONSTANTS
  Procs,      \* processes that sync
  Migrator,   \* the process that runs alembic
  Ids,        \* source ids, numbers: the ORM writes rows in the order of their keys
  Files,      \* versions of sources.yaml: sequences of [id, kind, params, rest, active]
  MaxStarts,  \* bound: syncs explored
  MaxMigrations  \* bound: migrations explored

Actors == Procs \cup {Migrator}

\* The segments of an empty string.
Empty(segments) == segments \in {<< >>, <<"">>}

\* SourceSpec: what params must hold for a kind.  setSpecs and categories are
\* lists of segments; one segment will do.
Usable(kind, params) ==
  /\ kind = "arxiv_category" => "category" \in DOMAIN params /\ ~Empty(params.category)
  /\ kind = "arxiv_oai" => "set" \in DOMAIN params /\ params.set \in Seq(STRING) /\ ~Empty(params.set)
  /\ kind = "rss" => "url" \in DOMAIN params

ASSUME RegistryConstants ==
  /\ Ids \subseteq Nat /\ IsFiniteSet(Ids) /\ Migrator \notin Procs
  /\ MaxStarts \in Nat /\ MaxMigrations \in Nat
  /\ \A file \in Files :
       /\ \A i \in DOMAIN file : file[i].id \in Ids /\ Usable(file[i].kind, file[i].params)
       /\ \A i, j \in DOMAIN file : file[i].id = file[j].id => i = j

VARIABLES
  rows, revision,  \* committed: source and the revision of the schema
  pc,      \* where each actor is; "idle" outside a transaction
  file,    \* the registry a process has loaded
  todo,    \* statements a flush, or the UPDATE of the downgrade, has still to make
  tx,      \* uncommitted: id -> the columns written, which locks the row
  alone,   \* observed: no sync of another file committed since the rows were read
  torn,    \* observed: the last sync that wrote anything was not alone
  starts, migrations  \* bounds: counted against MaxStarts, MaxMigrations

vars == <<rows, revision, pc, file, todo, tx, alone, torn, starts, migrations>>

Table == INSTANCE SourceTable WITH Ids <- Ids, Files <- Files, rows <- rows, revision <- revision
Kinds(rev) == Table!Kinds(rev)
Row(spec) == Table!Row(spec)
Columns == {"kind", "params", "rest", "active"}
Listed(f) == {f[i].id : i \in DOMAIN f}
Place(f, id) == CHOOSE i \in DOMAIN f : f[i].id = id
SpecOf(f, id) == f[Place(f, id)]

\* Columns over a row, or over nothing for a new one.
Overlay(columns, row) ==
  [c \in DOMAIN columns \cup DOMAIN row |-> IF c \in DOMAIN columns THEN columns[c] ELSE row[c]]

\* The table as the transaction of `a` sees it.
Seen(a) ==
  [id \in DOMAIN rows \cup DOMAIN tx[a] |->
     Overlay(IF id \in DOMAIN tx[a] THEN tx[a][id] ELSE << >>,
             IF id \in DOMAIN rows THEN rows[id] ELSE << >>)]

Init ==
  /\ revision \in {2, 3}
  /\ rows \in {<< >>} \cup {[id \in Listed(f) |-> Row(SpecOf(f, id))] : f \in Files}
  /\ Table!KindsValid
  /\ pc = [a \in Actors |-> "idle"] /\ file = [p \in Procs |-> << >>]
  /\ todo = [a \in Actors |-> << >>] /\ tx = [a \in Actors |-> << >>]
  /\ alone = [p \in Procs |-> TRUE] /\ torn = FALSE
  /\ starts = 0 /\ migrations = 0
-----------------------------------------------------------------------------
(* sync_registry *)

\* Mutant: a source that left the file loses its params as well.
TargetCleared(f, id) ==
  IF id \in Listed(f) THEN Row(SpecOf(f, id)) ELSE [active |-> FALSE, params |-> << >>]

\* What the row of a stored source should hold: all the file says of it, or
\* that it is not active.
Target(f, id) == IF id \in Listed(f) THEN Row(SpecOf(f, id)) ELSE [active |-> FALSE]

\* Mutant: a source listed again is not switched on again.
ChangedButActive(f, id) ==
  LET target == Target(f, id)
  IN  {c \in DOMAIN target : target[c] # rows[id][c] /\ (c = "active" => rows[id].active)}

\* The columns that differ from those read.
Changed(f, id) ==
  LET target == Target(f, id) IN {c \in DOMAIN target : target[c] # rows[id][c]}

\* The one statement a row needs, if any.
Needed(f) == {id \in Listed(f) \cup DOMAIN rows : id \in DOMAIN rows => Changed(f, id) # {}}
Statement(f, id) ==
  [id |-> id, insert |-> id \notin DOMAIN rows,
   columns |-> IF id \in DOMAIN rows THEN Changed(f, id) ELSE Columns]

\* The flush: UPDATEs in the order of the key, then INSERTs in that of the file.
Before(f, a, b) ==
  IF a \in DOMAIN rows THEN b \in DOMAIN rows => a < b
  ELSE b \notin DOMAIN rows /\ Place(f, a) < Place(f, b)

\* Every order of the elements of a finite set.
Orders(S) == Bijection(1..Cardinality(S), S)

\* load_registry and the SELECT, which waits for an ALTER TABLE that has the
\* table to itself.
Start(p) ==
  /\ pc[p] = "idle" /\ starts < MaxStarts /\ pc[Migrator] # "altered"
  /\ \E f \in Files :
       /\ file' = [file EXCEPT ![p] = f]
       /\ \E order \in Orders(Needed(f)) :
            /\ \A i, j \in DOMAIN order : i < j => Before(f, order[i], order[j])
            /\ todo' = [todo EXCEPT ![p] = [i \in DOMAIN order |-> Statement(f, order[i])]]
  /\ alone' = [alone EXCEPT ![p] = TRUE]
  /\ pc' = [pc EXCEPT ![p] = "flush"] /\ starts' = starts + 1
  /\ UNCHANGED <<rows, revision, tx, torn, migrations>>

\* The transaction of `a` ends; nothing of it stays.
Ends(a) ==
  /\ pc' = [pc EXCEPT ![a] = "idle"]
  /\ todo' = [todo EXCEPT ![a] = << >>] /\ tx' = [tx EXCEPT ![a] = << >>]

RollsBack(a) == Ends(a) /\ UNCHANGED <<rows, revision, file, alone, torn, starts, migrations>>

Locked(a, id) == \E b \in Actors \ {a} : id \in DOMAIN tx[b]

\* One statement of the flush.  An INSERT of a key stored meanwhile and a
\* kind the schema does not know are IntegrityErrors, which end the command.
Write(p) ==
  /\ pc[p] = "flush" /\ todo[p] # << >> /\ ~Locked(p, Head(todo[p]).id)
  /\ LET s == Head(todo[p])
         values == [c \in s.columns |-> Target(file[p], s.id)[c]]
     IN
     IF \/ s.insert /\ s.id \in DOMAIN rows
        \/ "kind" \in s.columns /\ values.kind \notin Kinds(revision)
     THEN RollsBack(p)
     ELSE /\ tx' = [tx EXCEPT ![p] = [id \in DOMAIN tx[p] \cup {s.id} |->
                      IF id = s.id THEN values ELSE tx[p][id]]]
          /\ todo' = [todo EXCEPT ![p] = Tail(todo[p])]
          /\ UNCHANGED <<rows, revision, pc, file, alone, torn, starts, migrations>>

\* Mutant: there is nothing to commit when nothing was written.
CommitChanges(p) ==
  /\ pc[p] = "flush" /\ todo[p] = << >> /\ tx[p] # << >>
  /\ rows' = Seen(p)
  /\ torn' = ~alone[p]
  /\ alone' = [q \in Procs |-> alone[q] /\ file[q] = file[p]]
  /\ Ends(p)
  /\ UNCHANGED <<revision, file, starts, migrations>>

\* session_scope commits, or ingest_all does for the first source.
Commit(p) ==
  /\ pc[p] = "flush" /\ todo[p] = << >>
  /\ rows' = Seen(p)
  /\ IF tx[p] = << >> THEN UNCHANGED <<alone, torn>>
     ELSE /\ torn' = ~alone[p]
          /\ alone' = [q \in Procs |-> alone[q] /\ file[q] = file[p]]
  /\ Ends(p)
  /\ UNCHANGED <<revision, file, starts, migrations>>
-----------------------------------------------------------------------------
(* Migration 0003, one transaction *)

StartUpgrade ==
  /\ pc[Migrator] = "idle" /\ migrations < MaxMigrations /\ revision = 2
  /\ pc' = [pc EXCEPT ![Migrator] = "alter"] /\ migrations' = migrations + 1
  /\ UNCHANGED <<rows, revision, file, todo, tx, alone, torn, starts>>

Convertible(row) == row.kind = "arxiv_oai" /\ "set" \in DOMAIN row.params

\* The UPDATE goes over the rows its snapshot holds, in the order of the heap.
StartDowngrade ==
  /\ pc[Migrator] = "idle" /\ migrations < MaxMigrations /\ revision = 3
  /\ \E order \in Orders({id \in DOMAIN rows : Convertible(rows[id])}) :
       todo' = [todo EXCEPT ![Migrator] = [i \in DOMAIN order |-> [id |-> order[i]]]]
  /\ pc' = [pc EXCEPT ![Migrator] = "convert"] /\ migrations' = migrations + 1
  /\ UNCHANGED <<rows, revision, file, tx, alone, torn, starts>>

\* Mutant: the kind goes back, the params stay.
ConversionOfKind(row) == [kind |-> "arxiv_category"]

\* cs:cs:RO becomes cs.RO: the first segment is dropped, of cs nothing stays.
Conversion(row) == [kind |-> "arxiv_category", params |-> [category |-> Tail(row.params.set)]]

\* A row another transaction changed meanwhile is looked at again.
Convert ==
  /\ pc[Migrator] = "convert" /\ todo[Migrator] # << >>
  /\ LET id == Head(todo[Migrator]).id IN
     /\ ~Locked(Migrator, id)
     /\ tx' = IF Convertible(rows[id])
              THEN [tx EXCEPT ![Migrator] = [i \in DOMAIN tx[Migrator] \cup {id} |->
                      IF i = id THEN Conversion(rows[id]) ELSE tx[Migrator][i]]]
              ELSE tx
  /\ todo' = [todo EXCEPT ![Migrator] = Tail(todo[Migrator])]
  /\ UNCHANGED <<rows, revision, pc, file, alone, torn, starts, migrations>>

\* RAISE EXCEPTION when a row could not be converted.
CheckConverted ==
  /\ pc[Migrator] = "convert" /\ todo[Migrator] = << >>
  /\ IF \E id \in DOMAIN Seen(Migrator) : Seen(Migrator)[id].kind = "arxiv_oai"
     THEN RollsBack(Migrator)
     ELSE /\ pc' = [pc EXCEPT ![Migrator] = "alter"]
          /\ UNCHANGED <<rows, revision, file, todo, tx, alone, torn, starts, migrations>>

\* Mutant: the constraint is created NOT VALID.
AlterUnvalidated ==
  /\ pc[Migrator] = "alter" /\ \A p \in Procs : pc[p] # "flush"
  /\ pc' = [pc EXCEPT ![Migrator] = "altered"]
  /\ UNCHANGED <<rows, revision, file, todo, tx, alone, torn, starts, migrations>>

\* ALTER TABLE waits for every transaction that has read the table, then the
\* new CHECK is evaluated on every row.
Alter ==
  /\ pc[Migrator] = "alter" /\ \A p \in Procs : pc[p] # "flush"
  /\ IF \A id \in DOMAIN Seen(Migrator) : Seen(Migrator)[id].kind \in Kinds(5 - revision)
     THEN /\ pc' = [pc EXCEPT ![Migrator] = "altered"]
          /\ UNCHANGED <<rows, revision, file, todo, tx, alone, torn, starts, migrations>>
     ELSE RollsBack(Migrator)

CommitMigration ==
  /\ pc[Migrator] = "altered"
  /\ rows' = Seen(Migrator) /\ revision' = 5 - revision
  /\ Ends(Migrator)
  /\ UNCHANGED <<file, alone, torn, starts, migrations>>
-----------------------------------------------------------------------------
(* PostgreSQL's waits, and faults *)

WaitsFor(a, b) ==
  \/ a # b /\ todo[a] # << >> /\ Head(todo[a]).id \in DOMAIN tx[b]
  \/ a = Migrator /\ pc[a] = "alter" /\ pc[b] = "flush"

\* A set in which everybody waits for somebody, and no smaller one within.
Stuck(S) == \A a \in S : \E b \in S : WaitsFor(a, b)
Deadlocked(a) ==
  \E S \in SUBSET Actors :
    a \in S /\ Stuck(S) /\ \A R \in (SUBSET S) \ {{}, S} : ~Stuck(R)

\* The server ends one of them.
Victim(a) == pc[a] # "idle" /\ Deadlocked(a) /\ RollsBack(a)

\* Interrupted, killed, or the connection is lost, before the commit.
Kill(a) == pc[a] # "idle" /\ RollsBack(a)

Sync(p) == Write(p) \/ Commit(p) \/ Victim(p)
Migrate ==
  Convert \/ CheckConverted \/ Alter \/ CommitMigration \/ Victim(Migrator)

Next ==
  \/ \E p \in Procs : Start(p) \/ Sync(p)
  \/ StartUpgrade \/ StartDowngrade \/ Migrate
  \/ \E a \in Actors : Kill(a)

\* A command goes on as long as it can; the server's detector runs.
Spec == Init /\ [][Next]_vars
FairSpec ==
  /\ Spec
  /\ \A p \in Procs : WF_vars(Sync(p))
  /\ WF_vars(Migrate)
-----------------------------------------------------------------------------
(* The types of the variables; every committed row has all its columns and a *)
(* kind that the CHECK of the revision in force allows, also one inserted    *)
(* between the downgrade's own test and its ALTER TABLE.                     *)
TypeOK ==
  /\ revision \in {2, 3} /\ DOMAIN rows \subseteq Ids
  /\ \A id \in DOMAIN rows : DOMAIN rows[id] = Columns
  /\ Table!KindsValid
  /\ \A p \in Procs : pc[p] \in {"idle", "flush"} /\ file[p] \in Files \cup {<< >>}
  /\ pc[Migrator] \in {"idle", "convert", "alter", "altered"}
  /\ \A a \in Actors : DOMAIN tx[a] \subseteq Ids
  /\ alone \in [Procs -> BOOLEAN] /\ torn \in BOOLEAN

(* Whatever commits in whatever order, readers of `source` see rows that are *)
(* never deleted, columns that some file gave them, and migrations that      *)
(* happen at once although the downgrade's UPDATE, its test and its ALTER    *)
(* TABLE are three statements.  (registry.py: "Rows are never deleted here"; *)
(* 0003: "Rows keep their ids, so documents stay attached")                  *)
TableSpec == Table!Spec

Mirrors(f, table) ==
  /\ Listed(f) \subseteq DOMAIN table
  /\ \A id \in DOMAIN table :
       IF id \in Listed(f) THEN table[id] = Row(SpecOf(f, id)) ELSE ~table[id].active

(* A sync that commits leaves the table as its file says, although it writes *)
(* only what differed from rows it read earlier, unless a sync of another    *)
(* file committed in between; syncs of the same file and migrations do no    *)
(* harm.  (sync_registry: "Upsert the registry into the source table")       *)
SyncMirrors ==
  [][\A p \in Procs : Commit(p) /\ alone[p] => Mirrors(file[p], rows')]_vars

\* All of a row is what file f says of it, or the conversion of that.
Given(f, id, row) ==
  id \in Listed(f) /\ row \in {Row(SpecOf(f, id)), Table!Converted(Row(SpecOf(f, id)))}

\* A setSpec of which the conversion leaves nothing.
Bare(spec) == spec.kind = "arxiv_oai" /\ Empty(Tail(spec.params.set))

(* Until two syncs of different files overlap, when their columns may mix    *)
(* till a sync is alone again, an active row is whole, converted or not, and *)
(* its params are what SourceSpec requires of its kind with one exception:   *)
(* the downgrade leaves a source whose setSpec has one segment, which        *)
(* SourceSpec accepts, with an empty category, which it does not.            *)
RowsUsable ==
  ~torn => \A id \in DOMAIN rows : rows[id].active =>
     \E f \in Files :
        /\ Given(f, id, rows[id])
        /\ Usable(rows[id].kind, rows[id].params)
             <=> ~(Bare(SpecOf(f, id)) /\ rows[id].kind = "arxiv_category")

(* A sync and a migration always come to an end, whatever they wait for.     *)
EveryTransactionEnds == \A a \in Actors : pc[a] # "idle" ~> pc[a] = "idle"
=============================================================================
