---------------------------- MODULE IngestProofs ----------------------------
(***************************************************************************)
(* Proofs about Ingest: the inductive invariant Inv, from it the safety     *)
(* properties of the tables and the refinement of SourceLedger; and PassInv *)
(* above it, from it those of the two passes of ingest_all and its summary. *)
(***************************************************************************)
EXTENDS Ingest, FiniteSetTheorems, FunctionTheorems, WellFoundedInduction, TLAPS

\* Only positions of the registry are ever left to poll.
LEMMA SelectedType == ASSUME NEW p \in Procs
                      PROVE  Selected(p) \subseteq DOMAIN Order /\ Failed(p) \subseteq DOMAIN Order
BY DEF Selected, Failed

\* Positions of the registry hold ids of the registry, and those are sources.
LEMMA RegistryType == /\ Registry \subseteq Sources
                      /\ \A i \in DOMAIN Order : Order[i] \in Registry
BY ConstantsOK DEF Registry

\* The rows a polling process adds are rows of the tables.
LEMMA RowType == ASSUME Inv, NEW p \in Procs, pc[p] = "insert"
                 PROVE  Row(p) \in Doc
BY RegistryType DEF Inv, TypeOK, Frame, Polling, Row, Doc, RunIds, Poll

LEMMA RunRowType == ASSUME Inv, NEW p \in Procs, pc[p] = "commit"
                    PROVE  RunRow(p) \in Run
BY RegistryType DEF Inv, TypeOK, Frame, Polling, RunRow, Run, RunIds, Poll

(***************************************************************************)
(* The three ways a frame of ingest_source changes.                        *)
(***************************************************************************)
LEMMA FrameSettled ==
  ASSUME NEW f \in Poll, NEW st \in {"running", "ok", "error"}
  PROVE  LET g == WithStatus(f, st)
         IN  /\ g \in Poll /\ g.status = st
             /\ g.source = f.source /\ g.ext = f.ext
             /\ g.fetched = f.fetched /\ g.new = f.new
BY DEF Poll, WithStatus

LEMMA FrameYield ==
  ASSUME NEW f \in Poll, NEW e \in Exts
  PROVE  LET g == Yielded(f, e)
         IN  /\ g \in Poll /\ g.source = f.source /\ g.ext = e
             /\ g.status = f.status /\ g.fetched = f.fetched + 1 /\ g.new = f.new
<1> DEFINE h == [f EXCEPT !.fetched = f.fetched + 1]
<1>1. /\ h \in Poll /\ h.source = f.source /\ h.ext = f.ext
      /\ h.status = f.status /\ h.fetched = f.fetched + 1 /\ h.new = f.new
  BY DEF Poll
<1>2. Yielded(f, e) = [h EXCEPT !.ext = e]
  BY DEF Yielded
<1> HIDE DEF h
<1> QED
  BY <1>1, <1>2 DEF Poll

LEMMA FrameRefused ==
  ASSUME NEW f \in Poll, NEW e \in Exts
  PROVE  LET g == WithStatus(Yielded(f, e), "error")
         IN  /\ g \in Poll /\ g.status = "error" /\ g.source = f.source
             /\ g.fetched = f.fetched + 1 /\ g.new = f.new
<1> DEFINE h == Yielded(f, e)
<1>1. h \in Poll /\ h.source = f.source /\ h.fetched = f.fetched + 1 /\ h.new = f.new
  BY FrameYield
<1> HIDE DEF h
<1>2. /\ WithStatus(h, "error") \in Poll /\ WithStatus(h, "error").status = "error"
      /\ WithStatus(h, "error").source = h.source
      /\ WithStatus(h, "error").fetched = h.fetched /\ WithStatus(h, "error").new = h.new
  BY <1>1, FrameSettled
<1> QED BY <1>1, <1>2 DEF h

LEMMA FrameInsert ==
  ASSUME NEW f \in Poll, NEW n \in Nat, NEW st, st = "ok" \/ st = f.status
  PROVE  /\ Inserted(f, n, st) \in Poll
         /\ Inserted(f, n, st).source = f.source
         /\ Inserted(f, n, st).ext = NoSource
         /\ Inserted(f, n, st).status = st
         /\ Inserted(f, n, st).fetched = f.fetched
         /\ Inserted(f, n, st).new = n
<1> DEFINE h == [f EXCEPT !.ext = NoSource]
           k == [h EXCEPT !.new = n]
<1>1. /\ h \in Poll /\ h.source = f.source /\ h.ext = NoSource
      /\ h.status = f.status /\ h.fetched = f.fetched /\ h.new = f.new
  BY DEF Poll
<1>2. Inserted(f, n, st) = [k EXCEPT !.status = st]
  BY DEF Inserted
<1> HIDE DEF h
<1>3. /\ k \in Poll /\ k.source = f.source /\ k.ext = NoSource
      /\ k.status = f.status /\ k.fetched = f.fetched /\ k.new = n
  BY <1>1 DEF Poll
<1> HIDE DEF k
<1>4. st \in {"none", "running", "ok", "error"}
  BY DEF Poll
<1> QED
  BY <1>2, <1>3, <1>4 DEF Poll

LEMMA TypeInit == Init => TypeOK
BY ConstantsOK DEF Init, TypeOK, Ended, NoPoll, Poll

(***************************************************************************)
(* Type correctness is preserved by every step from a state of Inv.        *)
(***************************************************************************)
LEMMA TypeStep == Inv /\ [Next]_vars => TypeOK'
<1> SUFFICES ASSUME Inv, [Next]_vars PROVE TypeOK'
  OBVIOUS
<1>0. TypeOK
  BY DEF Inv
<1> USE DEF Ended, Busy, Polling
<1>1. ASSUME NEW p \in Procs, Start(p) PROVE TypeOK'
  BY <1>0, <1>1, ConstantsOK, RegistryType DEF Start, Goto, dbVars, txVars, TypeOK, NoPoll, Poll
<1>2. ASSUME NEW p \in Procs, SyncRegistry(p) PROVE TypeOK'
  BY <1>0, <1>2, SelectedType DEF SyncRegistry, Goto, dbVars, TypeOK
<1>3. ASSUME NEW p \in Procs, Durable(p), pc[p] = "commit"
      PROVE sources' \subseteq Sources /\ docs' \subseteq Doc /\ runs' \subseteq Run
  BY <1>0, <1>3, RunRowType DEF Durable, TypeOK
<1>4. ASSUME NEW p \in Procs, NEW how \in {"raised", "killed"}, Dies(p, how),
             sources' \subseteq Sources /\ docs' \subseteq Doc /\ runs' \subseteq Run
      PROVE TypeOK'
  BY <1>0, <1>4 DEF Dies, EndTransaction, Goto, TypeOK, NoPoll, Poll
<1>5. ASSUME NEW p \in Procs, SyncRaises(p) \/ InsertAborts(p) \/ DeadlockVictim(p) \/ CommitRaises(p) \/ Kill(p)
      PROVE TypeOK'
  BY <1>0, <1>3, <1>4, <1>5 DEF SyncRaises, InsertAborts, DeadlockVictim, CommitRaises, Kill, TypeOK, dbVars
<1>6. ASSUME NEW p \in Procs, SkipHostless(p) PROVE TypeOK'
  BY <1>0, <1>6 DEF SkipHostless, dbVars, txVars, TypeOK
<1>7. ASSUME NEW p \in Procs, BeginPoll(p) PROVE TypeOK'
  <2>1. PICK i \in DOMAIN Order :
          /\ todo' = [todo EXCEPT ![p] = @ \ {i}]
          /\ poll' = [poll EXCEPT ![p] = Opened(Order[i])]
    BY <1>0, <1>7 DEF BeginPoll, Least, TypeOK
  <2>2. poll' \in [Procs -> Poll]
    BY <1>0, <2>1, RegistryType DEF TypeOK, Poll, Opened
  <2> QED
    BY <1>0, <1>7, <2>1, <2>2 DEF BeginPoll, Goto, dbVars, txVars, TypeOK
<1>8. ASSUME NEW p \in Procs, NEW outcome \in {"ok", "error"}, Settled(p, outcome), FeedUnchanged
      PROVE TypeOK'
  <2>1. WithStatus(poll[p], outcome) \in Poll
    <3>1. poll[p] \in Poll
      BY <1>0 DEF TypeOK
    <3> QED
      BY <3>1, FrameSettled
  <2> QED
    BY <1>0, <1>8, <2>1 DEF Settled, FeedUnchanged, Goto, dbVars, txVars, TypeOK
<1>9. ASSUME NEW p \in Procs, FeedEnds(p) \/ FeedRaises(p) PROVE TypeOK'
  BY <1>8, <1>9 DEF FeedEnds, FeedRaises
<1>10. ASSUME NEW p \in Procs, Discover(p) PROVE TypeOK'
  <2>1. \A e \in Exts : Yielded(poll[p], e) \in Poll
    <3>1. poll[p] \in Poll
      BY <1>0 DEF TypeOK
    <3> QED
      BY <3>1, FrameYield
  <2> QED
    BY <1>0, <1>10, <2>1 DEF Discover, FeedUnchanged, Goto, dbVars, txVars, TypeOK
<1>16. ASSUME NEW p \in Procs, InsertRefused(p) PROVE TypeOK'
  <2>1. \A e \in Exts : WithStatus(Yielded(poll[p], e), "error") \in Poll
    <3>1. poll[p] \in Poll
      BY <1>0 DEF TypeOK
    <3> QED
      BY <3>1, FrameRefused
  <2> QED
    BY <1>0, <1>16, <2>1 DEF InsertRefused, FeedUnchanged, Goto, dbVars, txVars, TypeOK
<1>11. ASSUME NEW p \in Procs, InsertDocument(p) PROVE TypeOK'
  <2>1. \A created \in BOOLEAN :
          Inserted(poll[p], CountNew(p, created),
                   IF LimitReached(p) THEN "ok" ELSE poll[p].status) \in Poll
    <3>1. poll[p] \in Poll /\ \A created \in BOOLEAN : CountNew(p, created) \in Nat
      BY <1>0 DEF TypeOK, Poll, CountNew
    <3> QED
      BY <3>1, FrameInsert
  <2>2. txDocs' \in [Procs -> SUBSET Doc]
    BY <1>0, <1>11, RowType DEF InsertDocument, TypeOK
  <2> QED
    BY <1>0, <1>11, <2>1, <2>2 DEF InsertDocument, Goto, dbVars, TypeOK
<1>12. ASSUME NEW p \in Procs, Commit(p) PROVE TypeOK'
  <2>1. polls' \in [Procs -> Seq(Run)]
    BY <1>0, <1>12, RunRowType DEF Commit, TypeOK
  <2> QED
    BY <1>0, <1>3, <1>12, <2>1 DEF Commit, EndTransaction, Goto, TypeOK, NoPoll, Poll
<1>13. ASSUME NEW p \in Procs, RetryFailed(p) PROVE TypeOK'
  BY <1>0, <1>13, SelectedType DEF RetryFailed, dbVars, txVars, TypeOK
<1>14. ASSUME NEW p \in Procs, Finish(p) PROVE TypeOK'
  BY <1>0, <1>14 DEF Finish, EndTransaction, Goto, TypeOK
<1>15. CASE UNCHANGED vars
  BY <1>0, <1>15 DEF vars, dbVars, txVars, TypeOK
<1> QED
  BY <1>1, <1>2, <1>5, <1>6, <1>7, <1>9, <1>10, <1>11, <1>12, <1>13, <1>14, <1>15, <1>16
  DEF Next, Advance, Disturb

(***************************************************************************)
(* What Inv says of one process, and that a step of another keeps it.      *)
(***************************************************************************)
FrameOrNone(p) == IF pc[p] \in Polling THEN Frame(p) ELSE txDocs[p] = {}

Same(q) == /\ pc'[q] = pc[q] /\ poll'[q] = poll[q] /\ serial'[q] = serial[q]
           /\ missing'[q] = missing[q]
           /\ txSources'[q] = txSources[q] /\ txDocs'[q] = txDocs[q]

LEMMA Bystander ==
  ASSUME Inv, NEW p \in Procs, NEW q \in Procs \ {p}, Same(q),
         \A r \in runs' : r \in runs \/ r.id[1] = p,
         sources \subseteq sources'
  PROVE  FrameOrNone(q)' /\ Synced(q)'
<1>1. FrameOrNone(q) /\ Synced(q)
  BY DEF Inv, FrameOrNone
<1>2. \A r \in runs : r.id = <<q, serial[q]>> => r.id[1] = q
  OBVIOUS
<1>3. FrameOrNone(q)'
  <2>1. CASE pc[q] \in Polling
    BY <1>1, <1>2, <2>1 DEF FrameOrNone, Frame, Same
  <2>2. CASE pc[q] \notin Polling
    BY <1>1, <2>2 DEF FrameOrNone, Same
  <2> QED BY <2>1, <2>2
<1>4. Synced(q)'
  BY <1>1 DEF Synced, Same
<1> QED BY <1>3, <1>4

\* The tables' part of Inv.
Tables == RunIdsUnique /\ NoDuplicateDocument /\ AuditMatchesStore /\ ProvenanceResolves

(***************************************************************************)
(* A step that commits no run and adds no document keeps the tables.       *)
(***************************************************************************)
LEMMA TablesQuiet ==
  ASSUME Inv, TypeOK',
         docs' = docs, runs' = runs, sources \subseteq sources',
         \A q \in Procs : serial[q] <= serial'[q] /\ txDocs'[q] \subseteq txDocs[q]
  PROVE  Tables'
<1>1. RunIdsUnique'
  BY DEF Inv, TypeOK, RunIdsUnique, Run, RunIds
<1>2. NoDuplicateDocument'
  BY DEF Inv, NoDuplicateDocument, UniqueKeys
<1>3. AuditMatchesStore'
  BY DEF Inv, AuditMatchesStore
<1>4. ProvenanceResolves'
  BY DEF Inv, ProvenanceResolves
<1> QED BY <1>1, <1>2, <1>3, <1>4 DEF Tables

(***************************************************************************)
(* Inserting a document: it waited for every other transaction that held   *)
(* its key, so the key is nobody else's, and the frame counts it.          *)
(***************************************************************************)
LEMMA TablesInsert ==
  ASSUME Inv, NEW p \in Procs, InsertDocument(p)
  PROVE  Tables'
<1>0. docs' = docs /\ runs' = runs /\ sources' = sources /\ serial' = serial
  BY DEF InsertDocument, dbVars
<1>1. NoDuplicateDocument'
  <2>1. txDocs \in [Procs -> SUBSET Doc]
    BY DEF Inv, TypeOK
  <2>2. CASE Stored(p)
    <3>1. txDocs' = txDocs
      BY <2>1, <2>2 DEF InsertDocument
    <3> QED BY <1>0, <3>1 DEF Inv, NoDuplicateDocument, UniqueKeys
  <2>3. CASE ~ Stored(p)
    <3>1. txDocs' = [txDocs EXCEPT ![p] = @ \cup {Row(p)}]
      BY <2>3 DEF InsertDocument
    <3>2. \A d \in docs \cup txDocs[p] : ~ (d.source = Row(p).source /\ d.ext = Row(p).ext)
      BY <2>3 DEF Stored, HasKey, Row
    <3>3. \A q \in Procs \ {p} : \A d \in txDocs[q] : ~ (d.source = Row(p).source /\ d.ext = Row(p).ext)
      BY DEF InsertDocument, Blocked, WaitsFor, HasKey, Row
    <3> QED
      BY <1>0, <2>1, <3>1, <3>2, <3>3 DEF Inv, NoDuplicateDocument, UniqueKeys
  <2> QED BY <2>2, <2>3
<1> QED
  BY <1>0, <1>1 DEF Inv, Tables, RunIdsUnique, AuditMatchesStore, ProvenanceResolves

(***************************************************************************)
(* Committing: the documents of the transaction are those of a run id that *)
(* no committed document names, so every run's count stays right.          *)
(***************************************************************************)
LEMMA TablesCommit ==
  ASSUME Inv, NEW p \in Procs, pc[p] = "commit", Durable(p), EndTransaction(p), serial' = serial
  PROVE  Tables'
<1> DEFINE id == <<p, serial[p]>>
<1>0. /\ TypeOK /\ Tables /\ Frame(p) /\ Synced(p)
      /\ RunRow(p).id = id /\ RunRow(p).source = poll[p].source
      /\ RunRow(p).status = poll[p].status /\ RunRow(p).new = poll[p].new
      /\ RunRow(p).fetched = poll[p].fetched
  BY DEF Inv, Tables, Polling, RunRow
<1>1. \A d \in docs : d.run # id
  BY <1>0 DEF Tables, ProvenanceResolves, Frame
<1>2. \A d \in txDocs[p] : d.run = id
  BY <1>0 DEF Frame
<1>3. RunIdsUnique'
  <2>1. id[1] = p /\ id[2] = serial[p] /\ serial[p] \in Nat
    BY <1>0 DEF TypeOK
  <2> QED
    BY <1>0, <2>1 DEF Tables, RunIdsUnique, Durable, Frame
<1>4. NoDuplicateDocument'
  <2>1. txDocs' = [txDocs EXCEPT ![p] = {}] /\ docs' = docs \cup txDocs[p]
    BY DEF EndTransaction, Durable
  <2> QED
    BY <1>0, <2>1, SMTT(30) DEF TypeOK, Tables, NoDuplicateDocument, UniqueKeys
<1>5. AuditMatchesStore'
  <2> SUFFICES ASSUME NEW r \in runs'
               PROVE  /\ r.status \in {"ok", "error"}
                      /\ r.new = Cardinality({d \in docs' : d.run = r.id})
                      /\ r.new <= r.fetched
    BY DEF AuditMatchesStore
  <2>1. CASE r \in runs
    <3>1. r.id # id
      BY <1>0, <2>1 DEF Frame
    <3>2. {d \in docs' : d.run = r.id} = {d \in docs : d.run = r.id}
      BY <1>2, <3>1 DEF Durable
    <3> QED BY <1>0, <2>1, <3>2 DEF Tables, AuditMatchesStore
  <2>2. CASE r = RunRow(p)
    <3>1. {d \in docs' : d.run = r.id} = txDocs[p]
      BY <1>0, <1>1, <1>2, <2>2 DEF Durable
    <3> QED BY <1>0, <2>2, <3>1 DEF Frame
  <2> QED BY <2>1, <2>2 DEF Durable
<1>6. ProvenanceResolves'
  BY <1>0, <1>2 DEF Tables, ProvenanceResolves, Durable, Frame, Synced, Polling
<1> QED BY <1>3, <1>4, <1>5, <1>6 DEF Tables

LEMMA InvInit == Init => Inv
<1> SUFFICES ASSUME Init PROVE Inv
  OBVIOUS
<1>1. \A p \in Procs : txDocs[p] = {} /\ pc[p] = "idle"
  BY DEF Init
<1>2. RunIdsUnique /\ AuditMatchesStore /\ ProvenanceResolves
  BY DEF Init, RunIdsUnique, AuditMatchesStore, ProvenanceResolves
<1>3. NoDuplicateDocument
  BY <1>1 DEF Init, NoDuplicateDocument, UniqueKeys
<1> QED
  BY <1>1, <1>2, <1>3, TypeInit DEF Inv, Polling, Synced

(***************************************************************************)
(* Every step preserves Inv: the process that moves re-establishes its own *)
(* frame, the others are bystanders, and the tables change by whole polls. *)
(***************************************************************************)
LEMMA InvStep == Inv /\ [Next]_vars => Inv'
<1> SUFFICES ASSUME Inv, [Next]_vars PROVE Inv'
  OBVIOUS
<1>0. TypeOK /\ TypeOK'
  BY TypeStep DEF Inv
<1>1. ASSUME NEW p \in Procs, \A q \in Procs \ {p} : Same(q),
             \A r \in runs' : r \in runs \/ r.id[1] = p,
             sources \subseteq sources', FrameOrNone(p)', Synced(p)', Tables'
      PROVE  Inv'
  BY <1>0, <1>1, Bystander DEF Inv, FrameOrNone, Tables
<1>2. ASSUME NEW p \in Procs, Start(p) \/ SyncRegistry(p) \/ SyncRaises(p) \/ SkipHostless(p)
                              \/ RetryFailed(p) \/ Kill(p) \/ InsertAborts(p) \/ DeadlockVictim(p)
                              \/ Finish(p)
      PROVE  Inv'
  <2> DEFINE Quiet == /\ docs' = docs /\ runs' = runs /\ sources \subseteq sources'
                      /\ serial' = serial
                      /\ \A q \in Procs \ {p} : Same(q)
                      /\ pc'[p] \notin Polling /\ txDocs'[p] = {} /\ Synced(p)'
  <2>0. /\ FrameOrNone(p) /\ Synced(p)
        /\ pc \in [Procs -> Ended \cup Busy] /\ todo \in [Procs -> SUBSET DOMAIN Order]
        /\ poll \in [Procs -> Poll] /\ missing \in [Procs -> SUBSET Sources]
        /\ txSources \in [Procs -> SUBSET Sources] /\ txDocs \in [Procs -> SUBSET Doc]
        /\ serial \in [Procs -> Nat]
    BY <1>0 DEF Inv, TypeOK, FrameOrNone
  <2> USE <2>0 DEF FrameOrNone, Synced, Same, Goto, Polling, Ended
  <2>1. CASE Start(p)
    <3>1. Quiet
      BY <2>1 DEF Start, dbVars, txVars
    <3> QED BY <1>0, <1>1, <3>1, TablesQuiet
  <2>2. CASE SyncRegistry(p)
    <3>1. Quiet
      BY <2>2 DEF SyncRegistry, dbVars
    <3> QED BY <1>0, <1>1, <3>1, TablesQuiet
  <2>3. ASSUME NEW how \in {"raised", "killed"}, Dies(p, how), UNCHANGED dbVars
        PROVE  Inv'
    <3>1. Quiet
      BY <2>3 DEF Dies, EndTransaction, dbVars
    <3>2. \A q \in Procs : serial[q] <= serial'[q] /\ txDocs'[q] \subseteq txDocs[q]
      BY <3>1
    <3> QED BY <1>0, <1>1, <3>1, <3>2, TablesQuiet
  <2>4. CASE SkipHostless(p) \/ RetryFailed(p)
    <3>1. Quiet
      BY <2>4 DEF SkipHostless, RetryFailed, dbVars, txVars
    <3> QED BY <1>0, <1>1, <3>1, TablesQuiet
  <2>5. CASE Finish(p)
    <3>1. Quiet
      BY <2>5 DEF Finish, EndTransaction
    <3>2. \A q \in Procs : serial[q] <= serial'[q] /\ txDocs'[q] \subseteq txDocs[q]
      BY <3>1
    <3> QED BY <1>0, <1>1, <3>1, <3>2, TablesQuiet
  <2> QED
    BY <1>2, <2>1, <2>2, <2>3, <2>4, <2>5 DEF SyncRaises, Kill, InsertAborts, DeadlockVictim
<1>3. ASSUME NEW p \in Procs, BeginPoll(p) PROVE Inv'
  <2>1. PICK i \in DOMAIN Order : poll' = [poll EXCEPT ![p] = Opened(Order[i])]
    BY <1>0, <1>3 DEF BeginPoll, Least, TypeOK
  <2>2. FrameOrNone(p)'
    <3>1. /\ pc'[p] = "feed" /\ txDocs'[p] = {} /\ runs' = runs
          /\ poll'[p].source \in Registry /\ poll'[p].new = 0 /\ poll'[p].fetched = 0
          /\ serial'[p] = serial[p] + 1 /\ serial[p] \in Nat
      BY <1>0, <1>3, <2>1, RegistryType, ZenonT(60) DEF Inv, TypeOK, BeginPoll, Goto, dbVars, txVars, Opened, Polling
    <3>2. \A r \in runs' : r.id # <<p, serial'[p]>>
      BY <3>1 DEF Inv, RunIdsUnique
    <3> QED BY <3>1, <3>2, FS_EmptySet DEF FrameOrNone, Frame, Polling
  <2>3. Synced(p)' /\ \A q \in Procs \ {p} : Same(q)
    BY <1>0, <1>3 DEF Inv, TypeOK, Synced, Same, BeginPoll, Goto, dbVars, txVars
  <2>4. Tables'
    BY <1>0, <1>3, TablesQuiet DEF BeginPoll, dbVars, txVars, TypeOK
  <2> QED BY <1>1, <1>3, <2>2, <2>3, <2>4 DEF BeginPoll, dbVars
<1>4. ASSUME NEW p \in Procs, FeedUnchanged, pc[p] \in Polling, pc'[p] \in {"insert", "commit"},
             \A q \in Procs \ {p} : Same(q),
             poll'[p].source = poll[p].source, poll'[p].new = poll[p].new,
             poll'[p].new <= poll'[p].fetched,
             pc'[p] = "insert" => poll'[p].ext \in Exts /\ poll'[p].new < poll'[p].fetched,
             pc'[p] = "commit" => poll'[p].status \in {"ok", "error"}
      PROVE  Inv'
  <2>1. FrameOrNone(p)' /\ Synced(p)'
    BY <1>4 DEF Inv, FrameOrNone, Frame, Synced, Polling, FeedUnchanged, dbVars, txVars
  <2>2. Tables'
    BY <1>0, <1>4, TablesQuiet DEF FeedUnchanged, dbVars, txVars, TypeOK
  <2> QED BY <1>1, <1>4, <2>1, <2>2 DEF FeedUnchanged, dbVars
<1>5. ASSUME NEW p \in Procs, FeedEnds(p) \/ FeedRaises(p) PROVE Inv'
  <2>1. PICK st \in {"ok", "error"} : Settled(p, st) /\ FeedUnchanged
    BY <1>5 DEF FeedEnds, FeedRaises
  <2>2. pc[p] \in Polling /\ poll[p] \in Poll /\ poll[p].new <= poll[p].fetched
    BY <1>0, <1>5 DEF FeedEnds, FeedRaises, Inv, TypeOK, Frame, Polling
  <2>3. poll'[p] = WithStatus(poll[p], st) /\ pc'[p] = "commit" /\ \A q \in Procs \ {p} : Same(q)
    BY <1>0, <2>1 DEF Settled, Goto, FeedUnchanged, dbVars, txVars, TypeOK, Same
  <2> QED BY <1>4, <2>1, <2>2, <2>3, FrameSettled
<1>6. ASSUME NEW p \in Procs, Discover(p) PROVE Inv'
  <2>1. PICK e \in Exts : poll' = [poll EXCEPT ![p] = Yielded(poll[p], e)]
    BY <1>6 DEF Discover
  <2>2. /\ pc[p] \in Polling /\ poll[p] \in Poll /\ poll[p].new <= poll[p].fetched
        /\ poll[p].new \in Nat /\ poll[p].fetched \in Nat
    BY <1>0, <1>6 DEF Discover, Inv, TypeOK, Frame, Polling, Poll
  <2>3. poll'[p] = Yielded(poll[p], e) /\ pc'[p] = "insert" /\ \A q \in Procs \ {p} : Same(q)
    BY <1>0, <1>6, <2>1 DEF Discover, Goto, FeedUnchanged, dbVars, txVars, TypeOK, Same
  <2> QED BY <1>4, <1>6, <2>2, <2>3, FrameYield DEF Discover
<1>11. ASSUME NEW p \in Procs, InsertRefused(p) PROVE Inv'
  <2>1. PICK e \in Exts : poll' = [poll EXCEPT ![p] = WithStatus(Yielded(poll[p], e), "error")]
    BY <1>11 DEF InsertRefused
  <2>2. /\ pc[p] \in Polling /\ poll[p] \in Poll /\ poll[p].new <= poll[p].fetched
        /\ poll[p].new \in Nat /\ poll[p].fetched \in Nat
    BY <1>0, <1>11 DEF InsertRefused, Inv, TypeOK, Frame, Polling, Poll
  <2>3. /\ poll'[p] = WithStatus(Yielded(poll[p], e), "error") /\ pc'[p] = "commit"
        /\ \A q \in Procs \ {p} : Same(q)
    BY <1>0, <1>11, <2>1 DEF InsertRefused, Goto, FeedUnchanged, dbVars, txVars, TypeOK, Same
  <2> QED BY <1>4, <1>11, <2>2, <2>3, FrameRefused DEF InsertRefused
<1>7. ASSUME NEW p \in Procs, InsertDocument(p) PROVE Inv'
  <2> DEFINE created == ~ Stored(p)
             st == IF LimitReached(p) THEN "ok" ELSE poll[p].status
  <2>1. /\ poll[p] \in Poll /\ Frame(p) /\ Synced(p)
        /\ poll[p].new \in Nat /\ poll[p].fetched \in Nat /\ poll[p].new < poll[p].fetched
        /\ st \in {"none", "running", "ok", "error"}
        /\ CountNew(p, created) \in Nat /\ CountNew(p, created) <= poll[p].fetched
    BY <1>0, <1>7 DEF InsertDocument, Inv, TypeOK, Frame, Polling, Poll, CountNew
  <2>2. /\ poll'[p] = Inserted(poll[p], CountNew(p, created), st)
        /\ pc'[p] = IF LimitReached(p) THEN "commit" ELSE "feed"
        /\ txDocs'[p] = IF created THEN txDocs[p] \cup {Row(p)} ELSE txDocs[p]
        /\ runs' = runs /\ sources' = sources /\ serial' = serial /\ txSources' = txSources
        /\ \A q \in Procs \ {p} : Same(q)
    BY <1>0, <1>7 DEF InsertDocument, Goto, dbVars, TypeOK, Same
  <2>3. /\ poll'[p].source = poll[p].source /\ poll'[p].new = CountNew(p, created)
        /\ poll'[p].fetched = poll[p].fetched /\ poll'[p].status = st
    <3>1. st = "ok" \/ st = poll[p].status
      OBVIOUS
    <3> HIDE DEF st
    <3> QED BY <2>1, <2>2, <3>1, FrameInsert
  <2>4. IsFiniteSet(txDocs'[p]) /\ CountNew(p, created) = Cardinality(txDocs'[p])
    <3>1. CASE created
      <4>1. Row(p) \notin txDocs[p]
        BY <3>1 DEF Stored, HasKey, Row
      <4>2. IsFiniteSet(txDocs[p]) /\ poll[p].new = Cardinality(txDocs[p])
        BY <2>1 DEF Frame
      <4>3. /\ IsFiniteSet(txDocs[p] \cup {Row(p)})
            /\ Cardinality(txDocs[p] \cup {Row(p)}) = Cardinality(txDocs[p]) + 1
        BY <4>1, <4>2, FS_AddElement
      <4> QED
        BY <2>2, <3>1, <4>2, <4>3 DEF CountNew
    <3>2. CASE ~ created
      BY <2>1, <2>2, <3>2 DEF Frame, CountNew
    <3> QED BY <3>1, <3>2
  <2>5. \A d \in txDocs'[p] : d.run = <<p, serial[p]>> /\ d.source = poll[p].source
    BY <2>1, <2>2 DEF Frame, Row
  <2>6. FrameOrNone(p)'
    BY <2>1, <2>2, <2>3, <2>4, <2>5 DEF FrameOrNone, Frame, Polling
  <2>7. Synced(p)'
    BY <1>7, <2>1, <2>2 DEF InsertDocument, Synced, Polling
  <2> QED BY <1>1, <1>7, <2>2, <2>6, <2>7, TablesInsert
<1>8. ASSUME NEW p \in Procs, Commit(p) \/ (pc[p] = "commit" /\ Durable(p) /\ Dies(p, "raised"))
      PROVE  Inv'
  <2>1. /\ pc[p] = "commit" /\ Durable(p) /\ EndTransaction(p) /\ serial' = serial
        /\ pc'[p] \in {"next", "raised"}
        /\ \A q \in Procs \ {p} : Same(q)
    BY <1>0, <1>8 DEF Commit, Dies, EndTransaction, Goto, TypeOK, Same
  <2>2. FrameOrNone(p)' /\ Synced(p)'
    BY <1>0, <2>1 DEF Inv, TypeOK, FrameOrNone, Synced, EndTransaction, Durable, Polling
  <2> QED BY <1>1, <2>1, <2>2, TablesCommit DEF Durable, RunRow
<1>9. ASSUME NEW p \in Procs, CommitRaises(p) PROVE Inv'
  <2>1. CASE Durable(p)
    BY <1>8, <1>9, <2>1 DEF CommitRaises
  <2>2. CASE UNCHANGED dbVars
    <3>1. /\ docs' = docs /\ runs' = runs /\ sources' = sources /\ serial' = serial
          /\ \A q \in Procs \ {p} : Same(q)
          /\ pc'[p] = "raised" /\ txDocs'[p] = {}
          /\ \A q \in Procs : serial[q] <= serial'[q] /\ txDocs'[q] \subseteq txDocs[q]
      BY <1>0, <1>9, <2>2 DEF CommitRaises, Dies, EndTransaction, Goto, dbVars, TypeOK, Same
    <3>2. FrameOrNone(p)' /\ Synced(p)'
      BY <3>1 DEF FrameOrNone, Synced, Polling
    <3> QED BY <1>0, <1>1, <3>1, <3>2, TablesQuiet
  <2> QED BY <1>9, <2>1, <2>2 DEF CommitRaises
<1>10. CASE UNCHANGED vars
  <2>1. /\ docs' = docs /\ runs' = runs /\ sources' = sources /\ serial' = serial
        /\ \A q \in Procs : Same(q)
    BY <1>10 DEF vars, dbVars, txVars, Same
  <2>2. ASSUME NEW q \in Procs PROVE FrameOrNone(q)' /\ Synced(q)'
    <3>1. FrameOrNone(q) /\ Synced(q)
      BY DEF Inv, FrameOrNone
    <3>2. FrameOrNone(q)'
      BY <2>1, <3>1 DEF FrameOrNone, Frame, Same
    <3>3. Synced(q)'
      BY <2>1, <3>1 DEF Synced, Same
    <3> QED BY <3>2, <3>3
  <2>3. Tables'
    BY <1>0, <2>1, TablesQuiet DEF Same, TypeOK
  <2> QED BY <1>0, <2>2, <2>3 DEF Inv, FrameOrNone, Tables
<1> QED
  BY <1>2, <1>3, <1>5, <1>6, <1>7, <1>8, <1>9, <1>10, <1>11 DEF Next, Advance, Disturb

(***************************************************************************)
(* Every reachable state satisfies the inductive invariant.                *)
(***************************************************************************)
THEOREM Invariance == Spec => []Inv
BY InvInit, InvStep, PTL DEF Spec

(***************************************************************************)
(* Hence the properties of the tables, for any number of processes,        *)
(* sources and documents and any placement of kills and faults.            *)
(***************************************************************************)
THEOREM TypeCorrect == Spec => []TypeOK
<1>1. Inv => TypeOK
  BY DEF Inv
<1> QED BY <1>1, Invariance, PTL

THEOREM DocumentsUnique == Spec => []NoDuplicateDocument
<1>1. Inv => NoDuplicateDocument
  BY DEF Inv
<1> QED BY <1>1, Invariance, PTL

THEOREM AuditCorrect == Spec => []AuditMatchesStore
<1>1. Inv => AuditMatchesStore
  BY DEF Inv
<1> QED BY <1>1, Invariance, PTL

THEOREM ProvenanceCorrect == Spec => []ProvenanceResolves
<1>1. Inv => ProvenanceResolves
  BY DEF Inv
<1> QED BY <1>1, Invariance, PTL

(***************************************************************************)
(* The refinement: a commit of a polled source is the ledger's Record step *)
(* for the run it commits, and every other step leaves the ledger alone.   *)
(***************************************************************************)
Found(p) == {d.ext : d \in txDocs[p]}

\* A poll's documents are counted by their external ids.
LEMMA FoundCount ==
  ASSUME Inv, NEW p \in Procs, pc[p] = "commit"
  PROVE  Cardinality(Found(p)) = poll[p].new
<1> DEFINE key == [d \in txDocs[p] |-> d.ext]
<1>1. IsFiniteSet(txDocs[p]) /\ poll[p].new = Cardinality(txDocs[p])
  BY DEF Inv, Frame, Polling
<1>2. \A a, b \in txDocs[p] : a.ext = b.ext => a = b
  BY DEF Inv, Frame, Polling, NoDuplicateDocument, UniqueKeys
<1>3. key \in [txDocs[p] -> Found(p)] /\ \A a, b \in txDocs[p] : key[a] = key[b] => a = b
  BY <1>2 DEF Found
<1>4. \A e \in Found(p) : \E d \in txDocs[p] : key[d] = e
  BY DEF Found
<1> HIDE DEF key
<1>5. key \in Bijection(txDocs[p], Found(p))
  BY <1>3, <1>4, Fun_IsBij
<1>6. ExistsBijection(txDocs[p], Found(p))
  BY <1>5 DEF ExistsBijection
<1> QED BY <1>1, <1>6, FS_Bijection

LEMMA CommitRecords ==
  ASSUME Inv, NEW p \in Procs, pc[p] = "commit", Durable(p)
  PROVE  Ledger!LNext
<1> DEFINE r == RunRow(p)
           id == <<p, serial[p]>>
<1>1. /\ Frame(p) /\ TypeOK /\ NoDuplicateDocument /\ ProvenanceResolves
      /\ r \in Run /\ r.id = id /\ r.source = poll[p].source
      /\ r.new = poll[p].new /\ r.fetched = poll[p].fetched
  BY RunRowType DEF Inv, Polling, RunRow
<1> HIDE DEF r, id
<1>2. \A old \in runs : old.id # r.id
  BY <1>1 DEF Frame, id
<1>3. \A d \in txDocs[p] : d \in Doc /\ d.run = id /\ d.source = r.source /\ d \notin docs
  BY <1>1, <1>2 DEF Frame, TypeOK, ProvenanceResolves, id
<1>4. Found(p) \in SUBSET {e \in Exts : ~ Ledger!Stored(r.source, e)}
  <2> SUFFICES ASSUME NEW d \in txDocs[p]
               PROVE  d.ext \in Exts /\ \A c \in docs : ~ (c.source = r.source /\ c.ext = d.ext)
    BY DEF Found, Ledger!Stored
  <2> QED BY <1>1, <1>3 DEF NoDuplicateDocument, UniqueKeys, Doc
<1>5. docs' = docs \cup [source : {r.source}, ext : Found(p), run : {r.id}]
  <2>1. \A d \in [source : {r.source}, ext : Found(p), run : {r.id}] : d \in txDocs[p]
    <3> SUFFICES ASSUME NEW d \in [source : {r.source}, ext : Found(p), run : {r.id}]
                 PROVE  d \in txDocs[p]
      OBVIOUS
    <3>1. PICK c \in txDocs[p] : c.ext = d.ext
      BY DEF Found
    <3>2. c \in Doc /\ c.source = d.source /\ c.run = d.run
      BY <1>1, <1>3
    <3>3. c = d
      BY <3>1, <3>2 DEF Doc
    <3> QED BY <3>3
  <2>2. \A d \in txDocs[p] : d \in [source : {r.source}, ext : Found(p), run : {r.id}]
    BY <1>1, <1>3 DEF Found, Doc
  <2> QED BY <2>1, <2>2 DEF Durable
<1>6. runs' = runs \cup {r} /\ r \in runs' \ runs
  BY <1>2 DEF Durable, r
<1>7. r.new = Cardinality(Found(p)) /\ r.new <= r.fetched
  BY <1>1, FoundCount DEF Frame
<1>8. Ledger!Record(r)
  <2>1. r \in Ledger!Run
    BY <1>1 DEF Ledger!Run, Run
  <2>2. \E found \in SUBSET {e \in Exts : ~ Ledger!Stored(r.source, e)} :
           /\ r.new = Cardinality(found)
           /\ r.new <= r.fetched
           /\ docs' = docs \cup [source : {r.source}, ext : found, run : {r.id}]
    BY <1>4, <1>5, <1>7
  <2>3. \A S : Ledger!Cardinality(S) = Cardinality(S)
    BY DEF Cardinality, Ledger!Cardinality
  <2> QED BY <1>2, <1>6, <2>1, <2>2, <2>3 DEF Ledger!Record
<1> QED BY <1>6, <1>8 DEF Ledger!LNext

LEMMA LedgerStep == Inv /\ [Next]_vars => [Ledger!LNext]_(Ledger!ledgerVars)
<1> SUFFICES ASSUME Inv, [Next]_vars, ~ (docs' = docs /\ runs' = runs)
             PROVE  Ledger!LNext
  BY DEF Ledger!ledgerVars
<1>1. PICK p \in Procs : Start(p) \/ Advance(p) \/ Disturb(p)
  BY DEF Next, vars, dbVars
<1>2. pc[p] = "commit" /\ Durable(p)
  BY <1>1 DEF Advance, Disturb, Start, SyncRegistry, SyncRaises, SkipHostless, BeginPoll, Discover, FeedEnds,
     FeedRaises, InsertDocument, InsertRefused, InsertAborts, DeadlockVictim, Commit, CommitRaises, RetryFailed,
     Finish, Kill, FeedUnchanged, dbVars
<1> QED BY <1>2, CommitRecords

(***************************************************************************)
(* Whatever overlaps or dies, readers see whole, finished polls arrive one *)
(* at a time and nothing else change.                                      *)
(***************************************************************************)
THEOREM LedgerRefined == Spec => LedgerSpec
<1>1. Init => Ledger!LInit
  BY DEF Init, Ledger!LInit
<1> QED
  BY <1>1, LedgerStep, Invariance, PTL DEF Spec, LedgerSpec, Ledger!LSpec
-----------------------------------------------------------------------------
(***************************************************************************)
(* The list of runs ingest_all builds.                                     *)
(***************************************************************************)
LEMMA RunList ==
  ASSUME NEW run \in Seq(Run)
  PROVE  /\ Len(run) \in Nat /\ DOMAIN run = 1..Len(run)
         /\ \A k \in 1..Len(run) : run[k] \in Run /\ run[k].status \in {"ok", "error"} /\ run[k].new \in Nat
<1>1. Len(run) \in Nat /\ DOMAIN run = 1..Len(run) /\ \A k \in 1..Len(run) : run[k] \in Run
  <2> HIDE DEF Run
  <2> QED OBVIOUS
<1> QED BY <1>1 DEF Run

LEMMA WalkStart == ASSUME NEW wanted PROVE Walked(<< >>, 0, 1, wanted, wanted)
BY DEF Walked, Distinct

\* A run is recorded: in the first pass it is one of the first n, else a retry.
LEMMA WalkRecord ==
  ASSUME NEW run \in Seq(Run), NEW r \in Run, NEW n \in Nat, NEW ps \in {1, 2}, NEW due, NEW wanted,
         Walked(run, n, ps, due, wanted), r.source \in due
  PROVE  Walked(Append(run, r), IF ps = 1 THEN n + 1 ELSE n, ps, due \ {r.source}, wanted)
<1> DEFINE more == Append(run, r)
           m == IF ps = 1 THEN n + 1 ELSE n
           left == due \ {r.source}
<1>1. Len(run) \in Nat /\ n \in 0..Len(run) /\ (ps = 1 => n = Len(run))
  BY RunList DEF Walked
<1>2. Len(more) = Len(run) + 1 /\ more[Len(run) + 1] = r /\ \A k \in 1..Len(run) : more[k] = run[k]
  <2> HIDE DEF Run
  <2> QED BY <1>1
<1> HIDE DEF more
<1>3. CASE ps = 1
  <2>1. m = Len(run) + 1 /\ n = Len(run)
    BY <1>1, <1>3
  <2>2. Distinct(more, 1..m)
    <3> SUFFICES ASSUME NEW k \in 1..m, NEW l \in 1..m, more[k].source = more[l].source
                 PROVE  k = l
      BY DEF Distinct
    <3>1. CASE k \in 1..n /\ l \in 1..n
      BY <1>2, <2>1, <3>1 DEF Walked, Distinct
    <3>2. CASE k = m /\ l \in 1..n
      BY <1>2, <1>3, <2>1, <3>2 DEF Walked
    <3>3. CASE l = m /\ k \in 1..n
      BY <1>2, <1>3, <2>1, <3>3 DEF Walked
    <3> QED BY <1>1, <2>1, <3>1, <3>2, <3>3
  <2>3. Distinct(more, (m + 1)..Len(more)) /\ m \in 0..Len(more)
    BY <1>1, <1>2, <2>1 DEF Distinct
  <2>4. ASSUME NEW k \in 1..m PROVE more[k].source \in wanted /\ more[k].source \notin left
    <3>1. CASE k \in 1..n
      BY <1>2, <1>3, <2>1, <3>1 DEF Walked
    <3>2. CASE k = m
      BY <1>2, <1>3, <2>1, <3>2 DEF Walked
    <3> QED BY <1>1, <2>1, <3>1, <3>2
  <2>5. ASSUME NEW s \in wanted, s \notin left PROVE \E k \in 1..m : more[k].source = s
    <3>1. CASE s = r.source
      <4>1. m \in 1..m /\ more[m].source = s
        BY <1>1, <1>2, <2>1, <3>1
      <4> QED BY <4>1
    <3>2. CASE s # r.source
      <4>1. PICK k \in 1..n : run[k].source = s
        BY <1>3, <2>5, <3>2 DEF Walked
      <4>2. k \in 1..m /\ more[k].source = s
        BY <1>1, <1>2, <2>1, <4>1
      <4> QED BY <4>2
    <3> QED BY <3>1, <3>2
  <2>6. left \subseteq wanted
    BY <1>3 DEF Walked
  <2>7. \A l \in (m + 1)..Len(more) : FALSE
    BY <1>1, <1>2, <2>1
  <2>8. m = Len(more)
    BY <1>2, <2>1
  <2>9. \A s \in wanted : s \in left \/ \E k \in 1..m : more[k].source = s
    BY <2>5
  <2> HIDE DEF m, left
  <2>10. Walked(more, m, 1, left, wanted)
    BY <2>2, <2>3, <2>4, <2>6, <2>7, <2>8, <2>9 DEF Walked
  <2> QED BY <1>3, <2>10 DEF more, m, left
<1>4. CASE ps = 2
  <2>1. m = n /\ \A k \in 1..n : more[k] = run[k]
    BY <1>1, <1>2, <1>4
  <2>2. \A s : FailedAmong(run, n, s) => FailedAmong(more, n, s)
    BY <2>1 DEF FailedAmong
  <2>3. Distinct(more, 1..n) /\ \A k \in 1..n : more[k].source \in wanted
    BY <2>1 DEF Walked, Distinct
  <2>4. Distinct(more, (n + 1)..Len(more))
    <3> SUFFICES ASSUME NEW k \in (n + 1)..Len(more), NEW l \in (n + 1)..Len(more),
                        more[k].source = more[l].source
                 PROVE  k = l
      BY DEF Distinct
    <3>1. CASE k \in (n + 1)..Len(run) /\ l \in (n + 1)..Len(run)
      BY <1>1, <1>2, <3>1 DEF Walked, Distinct
    <3>2. CASE k = Len(run) + 1 /\ l \in (n + 1)..Len(run)
      BY <1>1, <1>2, <1>4, <3>2 DEF Walked
    <3>3. CASE l = Len(run) + 1 /\ k \in (n + 1)..Len(run)
      BY <1>1, <1>2, <1>4, <3>3 DEF Walked
    <3> QED BY <1>1, <1>2, <3>1, <3>2, <3>3
  <2>5. ASSUME NEW l \in (n + 1)..Len(more) PROVE FailedAmong(more, n, more[l].source)
    <3>1. CASE l \in (n + 1)..Len(run)
      <4>1. FailedAmong(run, n, run[l].source) /\ more[l] = run[l]
        BY <1>1, <1>2, <3>1 DEF Walked
      <4> QED BY <2>2, <4>1
    <3>2. CASE l = Len(run) + 1
      BY <1>2, <1>4, <2>2, <3>2 DEF Walked
    <3> QED BY <1>1, <1>2, <3>1, <3>2
  <2>6. ASSUME NEW s \in wanted PROVE \E k \in 1..n : more[k].source = s
    BY <1>4, <2>1 DEF Walked
  <2>7. ASSUME NEW s \in left
        PROVE  FailedAmong(more, n, s) /\ \A l \in (n + 1)..Len(more) : more[l].source # s
    <3>1. FailedAmong(run, n, s) /\ \A l \in (n + 1)..Len(run) : run[l].source # s
      BY <1>4 DEF Walked
    <3>2. \A l \in (n + 1)..Len(more) : l \in (n + 1)..Len(run) \/ l = Len(run) + 1
      BY <1>1, <1>2
    <3> QED BY <1>1, <1>2, <2>2, <3>1, <3>2
  <2>8. ASSUME NEW k \in 1..n, more[k].status = "error"
        PROVE  more[k].source \in left \/ \E l \in (n + 1)..Len(more) : more[l].source = more[k].source
    <3>1. run[k].source \in due \/ \E l \in (n + 1)..Len(run) : run[l].source = run[k].source
      BY <1>4, <2>1, <2>8 DEF Walked
    <3>2. CASE more[k].source = r.source
      <4>1. Len(run) + 1 \in (n + 1)..Len(more) /\ more[Len(run) + 1].source = more[k].source
        BY <1>1, <1>2, <3>2
      <4> QED BY <4>1
    <3>3. CASE run[k].source \in due /\ more[k].source # r.source
      BY <2>1, <3>3
    <3>4. ASSUME NEW l \in (n + 1)..Len(run), run[l].source = run[k].source
          PROVE  l \in (n + 1)..Len(more) /\ more[l].source = more[k].source
      BY <1>1, <1>2, <2>1, <3>4
    <3> QED BY <3>1, <3>2, <3>3, <3>4
  <2>9. n \in 0..Len(more)
    BY <1>1, <1>2
  <2> HIDE DEF m, left
  <2>10. Walked(more, n, 2, left, wanted)
    <3> SUFFICES /\ \A l \in (n + 1)..Len(more) : FailedAmong(more, n, more[l].source)
                 /\ \A s \in wanted : \E k \in 1..n : more[k].source = s
                 /\ \A s \in left : FailedAmong(more, n, s) /\ \A l \in (n + 1)..Len(more) : more[l].source # s
                 /\ \A k \in 1..n : more[k].status = "error" =>
                      more[k].source \in left \/ \E l \in (n + 1)..Len(more) : more[l].source = more[k].source
      BY <2>3, <2>4, <2>9 DEF Walked
    <3> QED BY <2>5, <2>6, <2>7, <2>8
  <2> QED BY <1>4, <2>10 DEF more, m, left
<1> QED BY <1>3, <1>4

\* The second pass is due what failed in the first.
LEMMA WalkRetry ==
  ASSUME NEW run \in Seq(Run), NEW n \in Nat, NEW wanted, NEW due,
         Walked(run, n, 1, {}, wanted),
         \A s : s \in due <=> FailedAmong(run, Len(run), s)
  PROVE  Walked(run, n, 2, due, wanted)
<1>1. n = Len(run) /\ Len(run) \in Nat
  BY RunList DEF Walked
<1>2. \A s \in due : FailedAmong(run, n, s) /\ \A l \in (n + 1)..Len(run) : run[l].source # s
  BY <1>1
<1>3. \A k \in 1..n : run[k].status = "error" => run[k].source \in due
  BY <1>1 DEF FailedAmong
<1> QED BY <1>1, <1>2, <1>3 DEF Walked

\* What a walk says of two runs of one source.
LEMMA WalkRepeats ==
  ASSUME NEW run \in Seq(Run), NEW n \in Nat, NEW ps \in {1, 2}, NEW due, NEW wanted,
         Walked(run, n, ps, due, wanted),
         NEW k \in 1..Len(run), NEW l \in 1..Len(run), k < l, run[k].source = run[l].source
  PROVE  /\ k <= n /\ n < l /\ run[k].status = "error"
         /\ \A m \in 1..Len(run) : run[m].source = run[k].source => m \in {k, l}
         /\ \A s \in wanted : \E m \in 1..n : run[m].source = s
<1>1. Len(run) \in Nat /\ n \in 0..Len(run) /\ (ps = 1 => n = Len(run))
      /\ Distinct(run, 1..n) /\ Distinct(run, (n + 1)..Len(run))
  BY RunList DEF Walked
<1>2. k <= n /\ n < l
  BY <1>1 DEF Distinct
<1>3. PICK i \in 1..n : run[i].source = run[l].source /\ run[i].status = "error"
  <2>1. l \in (n + 1)..Len(run)
    BY <1>1, <1>2
  <2> QED BY <2>1 DEF Walked, FailedAmong
<1>4. i = k
  BY <1>1, <1>2, <1>3 DEF Distinct
<1>5. ASSUME NEW m \in 1..Len(run), run[m].source = run[k].source PROVE m \in {k, l}
  BY <1>1, <1>2, <1>5 DEF Distinct
<1>6. ps = 2
  BY <1>1, <1>2
<1>7. \A s \in wanted : \E m \in 1..n : run[m].source = s
  BY <1>6 DEF Walked
<1> QED BY <1>2, <1>3, <1>4, <1>5, <1>7
(***************************************************************************)
(* The steps of the two passes.                                            *)
(***************************************************************************)
InPass == {"next", "exited"} \cup Polling

\* What Walk(p) reads of p's memory.
Still(p) ==
  /\ pc'[p] = pc[p] /\ polls'[p] = polls[p] /\ call'[p] = call[p] /\ todo'[p] = todo[p]
  /\ pass'[p] = pass[p] /\ poll'[p].source = poll[p].source /\ serial'[p] = serial[p]

LEMMA WalkKept ==
  ASSUME NEW p \in Procs, Walk(p), Still(p), runs \subseteq runs'
  PROVE  Walk(p)'
<1>1. Base(p)' = Base(p) /\ Due(p)' = Due(p) /\ Wanted(p)' = Wanted(p) /\ Failed(p)' = Failed(p)
  BY DEF Still, Base, Due, Wanted, Polled, Selected, Failed
<1> QED BY <1>1 DEF Still, Walk

\* Nothing is left of an invocation that is over, or has not begun its passes.
LEMMA WalkNone ==
  ASSUME NEW p \in Procs, polls'[p] = <<>>, pc'[p] \notin InPass
  PROVE  Walk(p)'
BY DEF Walk, InPass

LEMMA WalkSync ==
  ASSUME PassInv, NEW p \in Procs, SyncRegistry(p)
  PROVE  Walk(p)'
<1>1. TypeOK /\ Walk(p)
  BY DEF PassInv, Inv
<1>2. polls[p] = <<>>
  BY <1>1 DEF SyncRegistry, Walk, Polling
<1>3. /\ pc'[p] = "next" /\ polls'[p] = <<>> /\ pass'[p] = 1
      /\ todo'[p] = Selected(p) /\ call' = call
  BY <1>1, <1>2 DEF SyncRegistry, Goto, TypeOK
<1>4. Due(p)' = Wanted(p)'
  BY <1>3 DEF Due, Wanted, Polled, Selected, Polling
<1>5. Walked(<<>>, 0, 1, Wanted(p)', Wanted(p)')
  BY WalkStart
<1> HIDE DEF Walked
<1>6. Walked(polls'[p], 0, pass'[p], Due(p)', Wanted(p)') /\ 0 \in 0..Len(polls'[p])
  BY <1>3, <1>4, <1>5
<1> QED BY <1>3, <1>6 DEF Walk, Polling

LEMMA WalkSkip ==
  ASSUME PassInv, NEW p \in Procs, SkipHostless(p)
  PROVE  Walk(p)'
<1>1. TypeOK /\ Walk(p) /\ pc[p] = "next"
  BY DEF PassInv, Inv, SkipHostless
<1>2. PICK i \in todo[p] : Order[i] \in Hostless /\ todo'[p] = todo[p] \ {i}
  BY <1>1 DEF SkipHostless, TypeOK, Least
<1>3. UNCHANGED <<runs, pc, polls, call, pass, poll, serial>>
  BY DEF SkipHostless, dbVars
<1>4. Base(p)' = Base(p) /\ Due(p)' = Due(p) /\ Wanted(p)' = Wanted(p)
  BY <1>2, <1>3 DEF Base, Due, Wanted, Polled, Selected
<1> QED BY <1>1, <1>3, <1>4 DEF Walk, Polling

LEMMA WalkBegin ==
  ASSUME PassInv, NEW p \in Procs, BeginPoll(p)
  PROVE  Walk(p)'
<1>1. TypeOK /\ Walk(p) /\ pc[p] = "next"
  BY DEF PassInv, Inv, BeginPoll
<1>2. PICK i \in todo[p] : /\ Order[i] \notin Hostless /\ todo'[p] = todo[p] \ {i}
                           /\ poll'[p].source = Order[i]
  BY <1>1 DEF BeginPoll, TypeOK, Least, Opened
<1>3. /\ UNCHANGED <<runs, polls, call, pass>>
      /\ pc'[p] = "feed" /\ serial'[p] = serial[p] + 1 /\ serial[p] \in Nat /\ Len(polls[p]) \in Nat
  <2>1. polls[p] \in Seq(Run)
    BY <1>1 DEF TypeOK
  <2>2. Len(polls[p]) \in Nat
    BY <2>1, RunList
  <2> QED BY <1>1, <2>2 DEF BeginPoll, dbVars, Goto, TypeOK
<1>4. i \in DOMAIN Order /\ \A j \in todo[p] : j \in DOMAIN Order /\ (Order[j] = Order[i] => j = i)
  BY <1>1, ConstantsOK DEF TypeOK
<1>5. Base(p)' = Base(p)
  BY <1>1, <1>3 DEF Base, Polling
<1>6. Due(p)' = Due(p)
  BY <1>1, <1>2, <1>3, <1>4 DEF Due, Polling
<1>7. Wanted(p)' = Wanted(p)
  BY <1>3 DEF Wanted, Polled, Selected
<1> QED BY <1>1, <1>2, <1>3, <1>4, <1>5, <1>6, <1>7 DEF Walk, Polling

\* ingest_source is left between two statements only at its end.
LEMMA WalkPoll ==
  ASSUME PassInv, NEW p \in Procs, pc[p] \in Polling, pc'[p] \in Polling,
         poll'[p].source = poll[p].source,
         UNCHANGED <<runs, polls, call, todo, pass, serial>>
  PROVE  Walk(p)'
<1>1. Walk(p)
  BY DEF PassInv
<1>2. Base(p)' = Base(p) /\ Due(p)' = Due(p) /\ Wanted(p)' = Wanted(p)
  BY DEF Base, Due, Wanted, Polled, Selected
<1>3. pc'[p] # "exited"
  BY DEF Polling
<1> QED BY <1>1, <1>2, <1>3 DEF Walk

LEMMA WalkCommit ==
  ASSUME PassInv, NEW p \in Procs, Commit(p)
  PROVE  Walk(p)'
<1> DEFINE r == RunRow(p)
           run == polls[p]
<1>1. /\ TypeOK /\ Walk(p) /\ pc[p] = "commit" /\ r \in Run
      /\ r.id = <<p, serial[p]>> /\ r.source = poll[p].source
  <2>1. r.id = <<p, serial[p]>> /\ r.source = poll[p].source
    BY DEF RunRow
  <2> QED BY <2>1, RunRowType DEF PassInv, Inv, Commit
<1>2. /\ pc'[p] = "next" /\ polls'[p] = Append(run, r)
      /\ r \in runs' /\ runs \subseteq runs' /\ UNCHANGED <<call, todo, pass, serial>>
  BY <1>1 DEF Commit, Durable, Goto, TypeOK
<1> HIDE DEF r
<1>3. run \in Seq(Run) /\ serial[p] \in Nat /\ pass[p] \in {1, 2}
  BY <1>1 DEF TypeOK
<1>4. Len(run) \in Nat
  BY <1>3, RunList
<1> HIDE DEF run
<1>5. Due(p)' = Due(p) \ {r.source} /\ r.source \in Due(p) /\ Wanted(p)' = Wanted(p)
  <2>1. \A i \in todo[p] : Order[i] # r.source
    BY <1>1 DEF Walk, Polling
  <2> QED BY <1>1, <1>2, <2>1 DEF Due, Wanted, Polled, Selected, Polling
<1>6. /\ DOMAIN Append(run, r) = 1..(Len(run) + 1) /\ Len(Append(run, r)) = Len(run) + 1
      /\ Append(run, r)[Len(run) + 1] = r /\ \A k \in 1..Len(run) : Append(run, r)[k] = run[k]
  <2> HIDE DEF Run
  <2> QED BY <1>1, <1>3
<1>7. Base(p)' = Base(p) /\ Base(p) = serial[p] - Len(run) - 1
  BY <1>1, <1>2, <1>3, <1>4, <1>6 DEF Base, Polling, run
<1>8. \A k \in DOMAIN polls'[p] : polls'[p][k] \in runs' /\ polls'[p][k].id = <<p, Base(p)' + k>>
  <2> SUFFICES ASSUME NEW k \in 1..(Len(run) + 1)
               PROVE  Append(run, r)[k] \in runs' /\ Append(run, r)[k].id = <<p, Base(p) + k>>
    BY <1>2, <1>6, <1>7
  <2>1. CASE k \in 1..Len(run)
    <3>1. run[k] \in runs /\ run[k].id = <<p, Base(p) + k>>
      BY <1>1, <1>3, <2>1, RunList DEF Walk, run
    <3> QED BY <1>2, <1>6, <2>1, <3>1
  <2>2. CASE k = Len(run) + 1
    <3>1. Base(p) + k = serial[p]
      BY <1>3, <1>4, <1>7, <2>2
    <3> QED BY <1>1, <1>2, <1>6, <2>2, <3>1
  <2> QED BY <1>4, <2>1, <2>2
<1>9. \E n \in 0..Len(polls'[p]) : Walked(polls'[p], n, pass'[p], Due(p)', Wanted(p)')
  <2>1. PICK n \in 0..Len(run) : Walked(run, n, pass[p], Due(p), Wanted(p))
    BY <1>1 DEF Walk, Polling, run
  <2> DEFINE m == IF pass[p] = 1 THEN n + 1 ELSE n
  <2>2. n \in Nat /\ m \in 0..(Len(run) + 1)
    BY <1>4
  <2>3. Walked(Append(run, r), m, pass[p], Due(p) \ {r.source}, Wanted(p))
    BY <1>1, <1>3, <1>5, <2>1, <2>2, WalkRecord
  <2> HIDE DEF m
  <2>4. Walked(polls'[p], m, pass'[p], Due(p)', Wanted(p)') /\ m \in 0..Len(polls'[p])
    BY <1>2, <1>5, <1>6, <2>2, <2>3
  <2> QED BY <2>4
<1> QED BY <1>2, <1>8, <1>9 DEF Walk, Polling
LEMMA WalkRetryStep ==
  ASSUME PassInv, NEW p \in Procs, RetryFailed(p)
  PROVE  Walk(p)'
<1> DEFINE run == polls[p]
<1>1. TypeOK /\ Walk(p) /\ pc[p] = "next" /\ todo[p] = {} /\ pass[p] = 1
  BY DEF PassInv, Inv, RetryFailed
<1>2. /\ todo'[p] = Failed(p) /\ pass'[p] = 2
      /\ UNCHANGED <<runs, pc, call, poll, polls, serial>>
  BY <1>1 DEF RetryFailed, TypeOK, dbVars
<1>3. run \in Seq(Run)
  BY <1>1 DEF TypeOK
<1>4. DOMAIN run = 1..Len(run)
  BY <1>3, RunList
<1>5. PICK n \in 0..Len(run) : Walked(run, n, 1, {}, Wanted(p))
  <2>1. Due(p) = {}
    BY <1>1 DEF Due, Polling
  <2> QED BY <1>1, <2>1 DEF Walk, Polling
<1>6. Base(p)' = Base(p) /\ Wanted(p)' = Wanted(p)
  BY <1>2 DEF Base, Wanted, Polled, Selected
<1> HIDE DEF run
<1>7. n \in Nat /\ n = Len(run)
  BY <1>3, <1>5, RunList DEF Walked
<1>8. \A s : s \in Due(p)' <=> FailedAmong(run, Len(run), s)
  <2>1. Due(p)' = {Order[i] : i \in {j \in Failed(p) : Order[j] \notin Hostless}}
    BY <1>1, <1>2 DEF Due, Polling
  <2>2. \A i \in Failed(p) : FailedAmong(run, Len(run), Order[i])
    BY <1>4 DEF Failed, FailedAmong, run
  <2>3. ASSUME NEW s, FailedAmong(run, Len(run), s) PROVE s \in Due(p)'
    <3>1. PICK k \in 1..Len(run) : run[k].source = s /\ run[k].status = "error"
      BY <2>3 DEF FailedAmong
    <3>2. s \in Wanted(p)
      BY <1>5, <1>7, <3>1 DEF Walked
    <3>3. PICK i \in Polled(p) : s = Order[i]
      BY <3>2 DEF Wanted
    <3>4. i \in Failed(p) /\ Order[i] \notin Hostless
      BY <1>4, <3>1, <3>3 DEF Polled, Failed, run
    <3> QED BY <2>1, <3>3, <3>4
  <2> QED BY <2>1, <2>2, <2>3
<1>9. Walked(run, n, 2, Due(p)', Wanted(p))
  BY <1>3, <1>5, <1>7, <1>8, WalkRetry
<1>10. Walked(polls'[p], n, pass'[p], Due(p)', Wanted(p)') /\ n \in 0..Len(polls'[p])
  BY <1>2, <1>5, <1>6, <1>9 DEF run
<1> QED BY <1>1, <1>2, <1>6, <1>10 DEF Walk, Polling

LEMMA WalkFinish ==
  ASSUME PassInv, NEW p \in Procs, Finish(p)
  PROVE  Walk(p)'
<1>1. TypeOK /\ Walk(p) /\ pc[p] = "next" /\ todo[p] = {} /\ (pass[p] = 2 \/ Failed(p) = {})
  BY DEF PassInv, Inv, Finish
<1>2. pc'[p] = "exited" /\ UNCHANGED <<runs, call, todo, pass, poll, polls, serial>>
  BY <1>1 DEF Finish, Goto, TypeOK
<1>3. /\ Base(p)' = Base(p) /\ Due(p)' = Due(p) /\ Wanted(p)' = Wanted(p)
      /\ Failed(p)' = Failed(p)
  BY <1>1, <1>2 DEF Base, Due, Wanted, Polled, Selected, Failed, Polling
<1> QED BY <1>1, <1>2, <1>3 DEF Walk, Polling

LEMMA PassInvInit == Init => PassInv
<1> SUFFICES ASSUME Init PROVE PassInv
  OBVIOUS
<1>1. \A p \in Procs : polls[p] = <<>> /\ pc[p] = "idle"
  BY DEF Init
<1>2. IsFiniteSet(docs)
  BY FS_EmptySet DEF Init
<1>3. \A p \in Procs : Walk(p)
  BY <1>1 DEF Walk, Polling
<1> QED BY <1>2, <1>3, InvInit DEF PassInv

LEMMA DocsFinite == PassInv /\ [Next]_vars => IsFiniteSet(docs')
<1> SUFFICES ASSUME PassInv, [Next]_vars, docs' # docs PROVE IsFiniteSet(docs')
  BY DEF PassInv
<1>1. PICK p \in Procs : Start(p) \/ Advance(p) \/ Disturb(p)
  BY DEF Next, vars, dbVars
<1>2. pc[p] = "commit" /\ docs' = docs \cup txDocs[p]
  BY <1>1 DEF Advance, Disturb, Start, SyncRegistry, SyncRaises, SkipHostless, BeginPoll, Discover, FeedEnds,
     FeedRaises, InsertDocument, InsertRefused, InsertAborts, DeadlockVictim, Commit, CommitRaises, RetryFailed,
     Finish, Kill, FeedUnchanged, dbVars, Durable
<1>3. IsFiniteSet(docs) /\ IsFiniteSet(txDocs[p])
  BY <1>2 DEF PassInv, Inv, Frame, Polling
<1> QED BY <1>2, <1>3, FS_Union

(***************************************************************************)
(* Every step preserves PassInv.                                           *)
(***************************************************************************)
LEMMA PassInvStep == PassInv /\ [Next]_vars => PassInv'
<1> SUFFICES ASSUME PassInv, [Next]_vars PROVE PassInv'
  OBVIOUS
<1>0. TypeOK /\ Inv' /\ IsFiniteSet(docs') /\ \A p \in Procs : Walk(p)
  BY InvStep, DocsFinite DEF PassInv, Inv
<1>1. ASSUME NEW p \in Procs, Start(p) \/ Advance(p) \/ Disturb(p)
      PROVE  Walk(p)' /\ runs \subseteq runs' /\ \A q \in Procs \ {p} : Still(q)
  <2> USE <1>0
  <2>1. CASE Start(p)
    <3>1. polls'[p] = <<>> /\ pc'[p] = "sync"
      BY <2>1 DEF Start, Goto, TypeOK
    <3>2. runs' = runs /\ \A q \in Procs \ {p} : Still(q)
      BY <2>1 DEF Start, Goto, TypeOK, Still, dbVars
    <3> QED BY <3>1, <3>2, WalkNone DEF InPass, Polling
  <2>2. CASE SyncRegistry(p)
    BY <2>2, WalkSync DEF SyncRegistry, Goto, TypeOK, Still, dbVars
  <2>3. CASE SyncRaises(p) \/ InsertAborts(p) \/ DeadlockVictim(p) \/ CommitRaises(p) \/ Kill(p)
    <3>1. /\ runs \subseteq runs'
          /\ \E how \in {"raised", "killed"} : Dies(p, how)
      BY <2>3 DEF SyncRaises, InsertAborts, DeadlockVictim, CommitRaises, Kill, Durable, dbVars
    <3>2. polls'[p] = <<>> /\ pc'[p] \in {"raised", "killed"} /\ \A q \in Procs \ {p} : Still(q)
      BY <3>1 DEF Dies, Goto, TypeOK, Still
    <3> QED BY <3>1, <3>2, WalkNone DEF InPass, Polling
  <2>4. CASE SkipHostless(p)
    BY <2>4, WalkSkip DEF SkipHostless, TypeOK, Still, dbVars
  <2>5. CASE BeginPoll(p)
    BY <2>5, WalkBegin DEF BeginPoll, Goto, TypeOK, Still, dbVars
  <2>6. ASSUME pc[p] \in Polling, pc'[p] \in Polling,
               poll'[p].source = poll[p].source, \A q \in Procs \ {p} : poll'[q] = poll[q] /\ pc'[q] = pc[q],
               UNCHANGED <<runs, polls, call, todo, pass, serial>>
        PROVE  Walk(p)' /\ runs \subseteq runs' /\ \A q \in Procs \ {p} : Still(q)
    BY <2>6, WalkPoll DEF Still
  <2>7. CASE FeedEnds(p) \/ FeedRaises(p)
    <3>1. PICK st \in {"ok", "error"} : Settled(p, st) /\ FeedUnchanged
      BY <2>7 DEF FeedEnds, FeedRaises
    <3>2. poll[p] \in Poll /\ poll'[p] = WithStatus(poll[p], st)
      BY <3>1 DEF Settled, TypeOK
    <3>3. poll'[p].source = poll[p].source
      BY <3>2, FrameSettled
    <3>4. /\ pc[p] \in Polling /\ pc'[p] \in Polling
          /\ \A q \in Procs \ {p} : poll'[q] = poll[q] /\ pc'[q] = pc[q]
          /\ UNCHANGED <<runs, polls, call, todo, pass, serial>>
      BY <2>7, <3>1 DEF FeedEnds, FeedRaises, Settled, Goto, FeedUnchanged, dbVars, TypeOK, Polling
    <3> QED BY <2>6, <3>3, <3>4
  <2>8. CASE Discover(p)
    <3>1. PICK e \in Exts : poll' = [poll EXCEPT ![p] = Yielded(poll[p], e)]
      BY <2>8 DEF Discover
    <3>2. poll[p] \in Poll /\ poll'[p] = Yielded(poll[p], e)
      BY <3>1 DEF TypeOK
    <3>3. poll'[p].source = poll[p].source
      BY <3>2, FrameYield
    <3>4. /\ pc[p] \in Polling /\ pc'[p] \in Polling
          /\ \A q \in Procs \ {p} : poll'[q] = poll[q] /\ pc'[q] = pc[q]
          /\ UNCHANGED <<runs, polls, call, todo, pass, serial>>
      BY <2>8, <3>1 DEF Discover, Goto, FeedUnchanged, dbVars, TypeOK, Polling
    <3> QED BY <2>6, <3>3, <3>4
  <2>13. CASE InsertRefused(p)
    <3>1. PICK e \in Exts : poll' = [poll EXCEPT ![p] = WithStatus(Yielded(poll[p], e), "error")]
      BY <2>13 DEF InsertRefused
    <3>2. poll[p] \in Poll /\ poll'[p] = WithStatus(Yielded(poll[p], e), "error")
      BY <3>1 DEF TypeOK
    <3>3. poll'[p].source = poll[p].source
      BY <3>2, FrameRefused
    <3>4. /\ pc[p] \in Polling /\ pc'[p] \in Polling
          /\ \A q \in Procs \ {p} : poll'[q] = poll[q] /\ pc'[q] = pc[q]
          /\ UNCHANGED <<runs, polls, call, todo, pass, serial>>
      BY <2>13, <3>1 DEF InsertRefused, Goto, FeedUnchanged, dbVars, TypeOK, Polling
    <3> QED BY <2>6, <3>3, <3>4
  <2>9. CASE InsertDocument(p)
    <3> DEFINE count == CountNew(p, ~ Stored(p))
               st == IF LimitReached(p) THEN "ok" ELSE poll[p].status
    <3>1. poll[p] \in Poll /\ poll'[p] = Inserted(poll[p], count, st)
      BY <2>9 DEF InsertDocument, TypeOK
    <3>2. count \in Nat /\ (st = "ok" \/ st = poll[p].status)
      BY <3>1 DEF Poll, CountNew
    <3> HIDE DEF count, st
    <3>3. poll'[p].source = poll[p].source
      BY <3>1, <3>2, FrameInsert
    <3>4. /\ pc[p] \in Polling /\ pc'[p] \in Polling
          /\ \A q \in Procs \ {p} : poll'[q] = poll[q] /\ pc'[q] = pc[q]
          /\ UNCHANGED <<runs, polls, call, todo, pass, serial>>
      BY <2>9 DEF InsertDocument, Goto, dbVars, TypeOK, Polling
    <3> QED BY <2>6, <3>3, <3>4
  <2>10. CASE Commit(p)
    BY <2>10, WalkCommit DEF Commit, Durable, Goto, TypeOK, Still
  <2>11. CASE RetryFailed(p)
    BY <2>11, WalkRetryStep DEF RetryFailed, TypeOK, Still, dbVars
  <2>12. CASE Finish(p)
    BY <2>12, WalkFinish DEF Finish, Goto, TypeOK, Still
  <2> QED
    BY <1>1, <2>1, <2>2, <2>3, <2>4, <2>5, <2>7, <2>8, <2>9, <2>10, <2>11, <2>12, <2>13 DEF Advance, Disturb
<1>2. ASSUME NEW p \in Procs, Start(p) \/ Advance(p) \/ Disturb(p) PROVE PassInv'
  BY <1>0, <1>1, <1>2, WalkKept DEF PassInv
<1>3. CASE UNCHANGED vars
  <2>1. runs' = runs /\ \A p \in Procs : Still(p)
    BY <1>3 DEF vars, dbVars, Still
  <2> QED BY <1>0, <2>1, WalkKept DEF PassInv
<1> QED BY <1>2, <1>3 DEF Next

THEOREM PassInvariance == Spec => []PassInv
BY PassInvInit, PassInvStep, PTL DEF Spec
(***************************************************************************)
(* Between two polls, the runs of the latest invocation are its list.      *)
(***************************************************************************)
LEMMA MineListed ==
  ASSUME PassInv, NEW p \in Procs, pc[p] \in {"next", "exited"}
  PROVE  /\ polls[p] \in Seq(Run) /\ Len(polls[p]) \in Nat
         /\ Mine(p) = {polls[p][k] : k \in 1..Len(polls[p])}
         /\ \A k \in 1..Len(polls[p]) :
              /\ polls[p][k] \in runs
              /\ polls[p][k].id = <<p, serial[p] - Len(polls[p]) + k>>
         /\ \E n \in 0..Len(polls[p]) : Walked(polls[p], n, pass[p], Due(p), Wanted(p))
<1> DEFINE run == polls[p]
           base == serial[p] - Len(run)
<1>1. TypeOK /\ RunIdsUnique /\ Walk(p) /\ run \in Seq(Run) /\ serial[p] \in Nat
  BY DEF PassInv, Inv, TypeOK
<1>2. Len(run) \in Nat /\ DOMAIN run = 1..Len(run)
  BY <1>1, RunList
<1>3. base \in Int /\ Base(p) = base
  BY <1>1, <1>2 DEF Base, Polling
<1>4. \A k \in 1..Len(run) : run[k] \in runs /\ run[k].id = <<p, base + k>>
  BY <1>1, <1>2, <1>3 DEF Walk
<1>5. \E n \in 0..Len(run) : Walked(run, n, pass[p], Due(p), Wanted(p))
  BY <1>1 DEF Walk, Polling
<1> HIDE DEF run
<1>6. \A k \in 1..Len(run) : run[k] \in Mine(p)
  BY <1>2, <1>3, <1>4 DEF Mine, run
<1>7. ASSUME NEW r \in Mine(p) PROVE \E k \in 1..Len(run) : r = run[k]
  <2>1. r \in runs /\ r.id[1] = p /\ r.id[2] > base /\ r.id \in RunIds
    BY <1>1 DEF Mine, TypeOK, Run, run
  <2>2. r.id[2] \in Nat /\ r.id[2] <= serial[p] /\ r.id = <<p, r.id[2]>>
    BY <1>1, <2>1 DEF RunIdsUnique, RunIds
  <2>3. r.id[2] - base \in 1..Len(run) /\ base + (r.id[2] - base) = r.id[2]
    BY <1>1, <1>2, <2>1, <2>2
  <2>4. run[r.id[2] - base] \in runs /\ run[r.id[2] - base].id = r.id
    BY <1>4, <2>2, <2>3
  <2>5. r = run[r.id[2] - base]
    BY <1>1, <2>1, <2>4 DEF RunIdsUnique
  <2> QED BY <2>3, <2>5
<1> QED BY <1>1, <1>2, <1>4, <1>5, <1>6, <1>7 DEF run

LEMMA Disciplined == PassInv => RetryDiscipline
<1> SUFFICES ASSUME PassInv, NEW p \in Procs, pc[p] \in {"next", "exited"},
                    NEW r \in Mine(p), NEW s \in Mine(p),
                    r.source = s.source, r.id[2] < s.id[2]
             PROVE  /\ r.status = "error"
                    /\ \A t \in Mine(p) : t.source = r.source => t \in {r, s}
                    /\ \A i \in Polled(p) : \E t \in Mine(p) : t.source = Order[i] /\ t.id[2] < s.id[2]
  BY DEF RetryDiscipline
<1> DEFINE run == polls[p]
           base == serial[p] - Len(run)
<1>1. /\ run \in Seq(Run) /\ Len(run) \in Nat
      /\ Mine(p) = {run[k] : k \in 1..Len(run)}
      /\ \A k \in 1..Len(run) : run[k].id[2] = base + k
  BY MineListed
<1>2. PICK n \in 0..Len(run) : Walked(run, n, pass[p], Due(p), Wanted(p))
  BY MineListed
<1>3. pass[p] \in {1, 2} /\ base \in Int
  BY <1>1 DEF PassInv, Inv, TypeOK
<1> HIDE DEF run, base
<1>4. PICK k \in 1..Len(run), l \in 1..Len(run) : r = run[k] /\ s = run[l]
  BY <1>1
<1>5. k < l
  BY <1>1, <1>3, <1>4
<1>6. /\ k <= n /\ n < l /\ run[k].status = "error"
      /\ \A m \in 1..Len(run) : run[m].source = run[k].source => m \in {k, l}
      /\ \A w \in Wanted(p) : \E m \in 1..n : run[m].source = w
  <2>1. n \in Nat
    BY <1>1
  <2>2. run[k].source = run[l].source
    BY <1>4
  <2> QED BY <1>1, <1>2, <1>3, <1>5, <2>1, <2>2, WalkRepeats, SMTT(30)
<1>7. ASSUME NEW t \in Mine(p), t.source = r.source PROVE t \in {r, s}
  <2>1. PICK m \in 1..Len(run) : t = run[m]
    BY <1>1
  <2> QED BY <1>4, <1>6, <1>7, <2>1
<1>8. ASSUME NEW i \in Polled(p)
      PROVE  \E t \in Mine(p) : t.source = Order[i] /\ t.id[2] < s.id[2]
  <2>1. Order[i] \in Wanted(p)
    BY DEF Wanted
  <2>2. PICK m \in 1..n : run[m].source = Order[i]
    BY <1>6, <2>1
  <2>3. m \in 1..Len(run) /\ m < l
    BY <1>1, <1>2, <1>6
  <2>4. run[m] \in Mine(p) /\ run[m].id[2] = base + m
    BY <1>1, <2>3
  <2>5. s.id[2] = base + l
    BY <1>1, <1>4
  <2>6. m \in Int /\ l \in Int /\ m < l
    BY <1>1, <2>3
  <2>7. base + m < base + l
    BY <1>3, <2>6
  <2> QED BY <2>2, <2>4, <2>5, <2>7
<1> QED BY <1>4, <1>6, <1>7, <1>8

(***************************************************************************)
(* No source is polled a second time without need, nor ever a third time.  *)
(***************************************************************************)
THEOREM RetriesDisciplined == Spec => []RetryDiscipline
BY Disciplined, PassInvariance, PTL
(***************************************************************************)
(* The summary.  Both passes are over: every wanted source was polled in   *)
(* the first, and in the second those that failed in it.                   *)
(***************************************************************************)
LEMMA SameCount ==
  ASSUME NEW S, NEW T, IsFiniteSet(T), NEW f \in [S -> T],
         \A x, y \in S : f[x] = f[y] => x = y,
         \A t \in T : \E x \in S : f[x] = t
  PROVE  IsFiniteSet(S) /\ Cardinality(S) = Cardinality(T)
<1>1. f \in Bijection(S, T)
  BY Fun_IsBij
<1>2. f \in Injection(S, T) /\ f \in Surjection(S, T)
  BY <1>1 DEF Bijection
<1> QED BY <1>2, FS_Injection

Over(run, n, ps, wanted) ==
  /\ Walked(run, n, ps, {}, wanted)
  /\ ps # 2 => \A k \in 1..Len(run) : run[k].status # "error"

\* Where each source's last run is in the list.
Finals(run) == {k \in DOMAIN run : \A l \in DOMAIN run : run[l].source = run[k].source => l <= k}

LEMMA WalkFinals ==
  ASSUME NEW run \in Seq(Run), NEW n \in Nat, NEW ps \in {1, 2}, NEW wanted, Over(run, n, ps, wanted)
  PROVE  /\ \A s \in wanted : \E k \in Finals(run) : run[k].source = s
         /\ \A k \in Finals(run) : run[k].source \in wanted
         /\ \A l \in (n + 1)..Len(run) : l \in Finals(run)
         /\ \A k \in Finals(run) : run[k].status = "error" => k \in (n + 1)..Len(run)
         /\ \A k, l \in Finals(run) : run[k].source = run[l].source => k = l
<1>1. /\ Len(run) \in Nat /\ DOMAIN run = 1..Len(run) /\ n \in 0..Len(run)
      /\ Distinct(run, 1..n) /\ Distinct(run, (n + 1)..Len(run))
  BY RunList DEF Over, Walked
<1>2. \A s \in wanted : \E k \in 1..n : run[k].source = s
  BY DEF Over, Walked
<1>3. \A l \in (n + 1)..Len(run) : l \in Finals(run)
  BY <1>1 DEF Finals, Distinct
<1>4. ASSUME NEW s \in wanted PROVE \E k \in Finals(run) : run[k].source = s
  <2>1. PICK k \in 1..n : run[k].source = s
    BY <1>2
  <2>2. CASE \E l \in (n + 1)..Len(run) : run[l].source = s
    BY <1>3, <2>2
  <2>3. CASE \A l \in (n + 1)..Len(run) : run[l].source # s
    <3>1. \A l \in 1..Len(run) : run[l].source = s => l = k
      BY <1>1, <2>1, <2>3 DEF Distinct
    <3> QED BY <1>1, <2>1, <3>1 DEF Finals
  <2> QED BY <2>2, <2>3
<1>5. ASSUME NEW k \in Finals(run) PROVE run[k].source \in wanted
  <2>1. CASE k \in 1..n
    BY <2>1 DEF Over, Walked
  <2>2. CASE k \in (n + 1)..Len(run)
    <3>1. FailedAmong(run, n, run[k].source)
      BY <2>2 DEF Over, Walked
    <3> QED BY <3>1 DEF FailedAmong, Over, Walked
  <2> QED BY <1>1, <2>1, <2>2 DEF Finals
<1>6. ASSUME NEW k \in Finals(run), run[k].status = "error" PROVE k \in (n + 1)..Len(run)
  <2>1. k \in 1..Len(run) /\ ps = 2
    BY <1>1, <1>6 DEF Finals, Over
  <2>2. SUFFICES ASSUME k \in 1..n PROVE FALSE
    BY <1>1, <2>1
  <2>3. \E l \in (n + 1)..Len(run) : run[l].source = run[k].source
    BY <1>6, <2>1, <2>2 DEF Over, Walked
  <2> QED BY <1>1, <2>2, <2>3 DEF Finals
<1>7. \A k, l \in Finals(run) : run[k].source = run[l].source => k = l
  BY <1>1 DEF Finals
<1> QED BY <1>3, <1>4, <1>5, <1>6, <1>7

\* As many sources as runs in the first pass, so the retries are the rest.
LEMMA WalkCount ==
  ASSUME NEW run \in Seq(Run), NEW n \in Nat, NEW ps \in {1, 2}, NEW wanted, Over(run, n, ps, wanted)
  PROVE  LET last == {run[k] : k \in Finals(run)}
             bad == {r \in last : r.status = "error"}
             won == {l \in (n + 1)..Len(run) : run[l].status = "ok"}
         IN  /\ IsFiniteSet(won)
             /\ Len(run) - Cardinality(last) - Cardinality(bad) = Cardinality(won)
<1> DEFINE last == {run[k] : k \in Finals(run)}
           bad == {r \in last : r.status = "error"}
           won == {l \in (n + 1)..Len(run) : run[l].status = "ok"}
           lost == {l \in (n + 1)..Len(run) : run[l].status = "error"}
<1>1. /\ Len(run) \in Nat /\ DOMAIN run = 1..Len(run) /\ n \in 0..Len(run)
      /\ Distinct(run, 1..n) /\ Distinct(run, (n + 1)..Len(run))
      /\ \A k \in 1..Len(run) : run[k].status \in {"ok", "error"}
  BY RunList DEF Over, Walked
<1>2. /\ \A s \in wanted : \E k \in Finals(run) : run[k].source = s
      /\ \A k \in Finals(run) : run[k].source \in wanted
      /\ \A l \in (n + 1)..Len(run) : l \in Finals(run)
      /\ \A k \in Finals(run) : run[k].status = "error" => k \in (n + 1)..Len(run)
      /\ \A k, l \in Finals(run) : run[k].source = run[l].source => k = l
  BY WalkFinals
<1>3. /\ \A s \in wanted : \E k \in 1..n : run[k].source = s
      /\ \A k \in 1..n : run[k].source \in wanted
  BY DEF Over, Walked
<1>4. IsFiniteSet(wanted) /\ Cardinality(wanted) = n
  <2>1. PICK f : f = [s \in wanted |-> CHOOSE k \in 1..n : run[k].source = s]
    OBVIOUS
  <2>2. \A s \in wanted : f[s] \in 1..n /\ run[f[s]].source = s
    BY <1>3, <2>1
  <2>3. f \in [wanted -> 1..n] /\ \A s, t \in wanted : f[s] = f[t] => s = t
    BY <2>1, <2>2
  <2>4. \A k \in 1..n : \E s \in wanted : f[s] = k
    BY <1>1, <1>3, <2>2 DEF Distinct
  <2> DEFINE first == 1..n
  <2>5. IsFiniteSet(first) /\ Cardinality(first) = n
    BY <1>1, FS_Interval
  <2>6. f \in [wanted -> first] /\ \A k \in first : \E s \in wanted : f[s] = k
    BY <2>3, <2>4
  <2> HIDE DEF first
  <2>7. IsFiniteSet(wanted) /\ Cardinality(wanted) = Cardinality(first)
    BY <2>3, <2>5, <2>6, SameCount, ZenonT(60)
  <2> QED BY <2>5, <2>7
<1>5. IsFiniteSet(last) /\ Cardinality(last) = n
  <2>1. PICK f : f = [r \in last |-> r.source]
    OBVIOUS
  <2>2. f \in [last -> wanted] /\ \A r, t \in last : f[r] = f[t] => r = t
    BY <1>2, <2>1
  <2>3. \A s \in wanted : \E r \in last : f[r] = s
    BY <1>2, <2>1
  <2> HIDE DEF last
  <2>4. IsFiniteSet(last) /\ Cardinality(last) = Cardinality(wanted)
    <3>1. IsFiniteSet(wanted)
      BY <1>4
    <3> QED BY <2>2, <2>3, <3>1, SameCount, SMTT(30)
  <2> QED BY <1>4, <2>4
<1>6. IsFiniteSet(won) /\ IsFiniteSet(lost) /\ Cardinality(won) + Cardinality(lost) = Len(run) - n
      /\ Cardinality(won) \in Nat /\ Cardinality(lost) \in Nat
  <2>1. IsFiniteSet((n + 1)..Len(run)) /\ Cardinality((n + 1)..Len(run)) = Len(run) - n
    <3>1. n + 1 \in Int /\ Len(run) \in Int /\ n <= Len(run)
      BY <1>1
    <3>2. /\ IsFiniteSet((n + 1)..Len(run))
          /\ Cardinality((n + 1)..Len(run)) = IF n + 1 > Len(run) THEN 0 ELSE Len(run) - (n + 1) + 1
      BY <3>1, FS_Interval
    <3> QED BY <3>1, <3>2
  <2>2. IsFiniteSet(won) /\ IsFiniteSet(lost)
    BY <2>1, FS_Subset
  <2>3. won \cup lost = (n + 1)..Len(run) /\ won \cap lost = {}
    BY <1>1
  <2> HIDE DEF won, lost
  <2>4. Cardinality(won \cup lost) = Cardinality(won) + Cardinality(lost) - Cardinality(won \cap lost)
    BY <2>2, FS_Union
  <2>5. Cardinality(won) \in Nat /\ Cardinality(lost) \in Nat
    BY <2>2, FS_CardinalityType
  <2>6. Cardinality(won \cap lost) = 0
    BY <2>3, FS_EmptySet
  <2>7. Cardinality(won \cup lost) = Len(run) - n
    BY <2>1, <2>3
  <2>8. Cardinality(won) + Cardinality(lost) = Len(run) - n
    BY <2>4, <2>5, <2>6, <2>7
  <2> QED BY <2>2, <2>5, <2>8
<1>7. Cardinality(bad) = Cardinality(lost)
  <2>1. \A r \in bad : \E l \in lost : run[l] = r
    BY <1>2
  <2>2. PICK f : f = [r \in bad |-> CHOOSE l \in lost : run[l] = r]
    OBVIOUS
  <2>3. \A r \in bad : f[r] \in lost /\ run[f[r]] = r
    BY <2>1, <2>2
  <2>4. f \in [bad -> lost] /\ \A r, t \in bad : f[r] = f[t] => r = t
    BY <2>2, <2>3
  <2>5. \A l \in lost : run[l] \in bad
    BY <1>2
  <2>6. \A l \in lost : \E r \in bad : f[r] = l
    <3> SUFFICES ASSUME NEW l \in lost PROVE f[run[l]] = l
      BY <2>5
    <3>1. f[run[l]] \in lost /\ run[f[run[l]]] = run[l]
      BY <2>3, <2>5
    <3> QED BY <1>1, <3>1 DEF Distinct
  <2> HIDE DEF bad, lost
  <2> QED BY <1>6, <2>4, <2>6, SameCount, ZenonT(60)
<1> HIDE DEF last, bad, won, lost
<1>8. IsFiniteSet(won) /\ Len(run) - Cardinality(last) - Cardinality(bad) = Cardinality(won)
  BY <1>1, <1>5, <1>6, <1>7
<1> QED BY <1>8 DEF last, bad, won
LEMMA ExitListed ==
  ASSUME PassInv, NEW p \in Procs, pc[p] = "exited"
  PROVE  \E n \in 0..Len(polls[p]) : Over(polls[p], n, pass[p], Wanted(p))
<1>1. TypeOK /\ todo[p] = {} /\ (pass[p] = 2 \/ Failed(p) = {})
  BY DEF PassInv, Inv, Walk
<1>2. PICK n \in 0..Len(polls[p]) : Walked(polls[p], n, pass[p], Due(p), Wanted(p))
  BY MineListed
<1>3. Due(p) = {}
  BY <1>1 DEF Due, Polling
<1>4. polls[p] \in Seq(Run) /\ pass[p] \in {1, 2}
  BY <1>1 DEF TypeOK
<1>5. ASSUME pass[p] # 2, NEW k \in 1..Len(polls[p]) PROVE polls[p][k].status # "error"
  <2>1. pass[p] = 1 /\ Failed(p) = {} /\ n = Len(polls[p])
    BY <1>1, <1>2, <1>4, <1>5 DEF Walked
  <2>2. polls[p][k].source \in Wanted(p)
    BY <1>2, <2>1 DEF Walked
  <2>3. PICK i \in Selected(p) : polls[p][k].source = Order[i]
    BY <2>2 DEF Wanted, Polled
  <2>4. k \in DOMAIN polls[p]
    BY <1>4, RunList
  <2> QED BY <2>1, <2>3, <2>4 DEF Failed
<1> QED BY <1>2, <1>3, <1>5 DEF Over

\* The outcome of a source, as the database and as the list have it.
LEMMA NewestListed ==
  ASSUME PassInv, NEW p \in Procs, pc[p] = "exited", NEW s
  PROVE  NewestOK(p, s) <=> \E k \in Finals(polls[p]) : polls[p][k].source = s /\ polls[p][k].status = "ok"
<1> DEFINE run == polls[p]
           base == serial[p] - Len(run)
<1>1. /\ Len(run) \in Nat /\ DOMAIN run = 1..Len(run)
      /\ Mine(p) = {run[k] : k \in 1..Len(run)}
      /\ \A k \in 1..Len(run) : run[k].id[2] = base + k
  BY MineListed, RunList
<1>2. base \in Int
  BY <1>1 DEF PassInv, Inv, TypeOK
<1> HIDE DEF run, base
<1>3. ASSUME NEW k \in 1..Len(run)
      PROVE  k \in Finals(run) <=> \A t \in Mine(p) : t.source = run[k].source => t.id[2] <= run[k].id[2]
  <2>1. \A l \in 1..Len(run) : run[l].id[2] <= run[k].id[2] <=> l <= k
    BY <1>1, <1>2
  <2>2. k \in Finals(run) <=> \A l \in 1..Len(run) : run[l].source = run[k].source => l <= k
    BY <1>1 DEF Finals
  <2>3. (\A t \in Mine(p) : t.source = run[k].source => t.id[2] <= run[k].id[2])
          <=> \A l \in 1..Len(run) : run[l].source = run[k].source => run[l].id[2] <= run[k].id[2]
    BY <1>1
  <2> QED BY <2>1, <2>2, <2>3
<1>4. Finals(run) \subseteq 1..Len(run)
  BY <1>1 DEF Finals
<1>5. ASSUME NewestOK(p, s)
      PROVE  \E k \in Finals(run) : run[k].source = s /\ run[k].status = "ok"
  <2>1. PICK r \in Mine(p) : /\ r.source = s /\ r.status = "ok"
                             /\ \A t \in Mine(p) : t.source = s => t.id[2] <= r.id[2]
    BY <1>5 DEF NewestOK
  <2>2. PICK k \in 1..Len(run) : r = run[k]
    BY <1>1
  <2> QED BY <1>3, <2>1, <2>2
<1>6. ASSUME NEW k \in Finals(run), run[k].source = s, run[k].status = "ok"
      PROVE  NewestOK(p, s)
  <2>1. k \in 1..Len(run) /\ run[k] \in Mine(p)
    BY <1>1, <1>4
  <2> QED BY <1>3, <1>6, <2>1 DEF NewestOK
<1> QED BY <1>5, <1>6 DEF run

LEMMA ExitTruthful ==
  ASSUME PassInv, NEW p \in Procs, pc[p] = "exited"
  PROVE  ExitCode(p) = 0 <=> \A i \in Polled(p) : NewestOK(p, Order[i])
<1> DEFINE run == polls[p]
<1>1. run \in Seq(Run) /\ pass[p] \in {1, 2} /\ DOMAIN run = 1..Len(run)
      /\ \A k \in 1..Len(run) : run[k].status \in {"ok", "error"}
  <2>1. run \in Seq(Run) /\ pass[p] \in {1, 2}
    BY DEF PassInv, Inv, TypeOK
  <2> QED BY <2>1, RunList
<1>2. PICK n \in Nat : Over(run, n, pass[p], Wanted(p))
  BY ExitListed
<1>3. /\ \A s \in Wanted(p) : \E k \in Finals(run) : run[k].source = s
      /\ \A k \in Finals(run) : run[k].source \in Wanted(p)
      /\ \A k, l \in Finals(run) : run[k].source = run[l].source => k = l
  BY <1>1, <1>2, WalkFinals
<1>4. ExitCode(p) = 0 <=> \A k \in Finals(run) : run[k].status # "error"
  BY DEF ExitCode, FailedOutcomes, Outcomes, Finals
<1>5. \A k \in Finals(run) : run[k].status \in {"ok", "error"}
  BY <1>1 DEF Finals
<1>6. \A s : NewestOK(p, s) <=> \E k \in Finals(run) : run[k].source = s /\ run[k].status = "ok"
  BY NewestListed
<1>7. (\A i \in Polled(p) : NewestOK(p, Order[i])) <=> \A s \in Wanted(p) : NewestOK(p, s)
  BY DEF Wanted
<1> HIDE DEF run
<1> QED BY <1>3, <1>4, <1>5, <1>6, <1>7
LEMMA RecoveredTruthful ==
  ASSUME PassInv, NEW p \in Procs, pc[p] = "exited"
  PROVE  Recovered(p) = Cardinality({i \in Polled(p) :
           /\ NewestOK(p, Order[i])
           /\ \E r \in Mine(p) : r.source = Order[i] /\ r.status = "error"})
<1> DEFINE run == polls[p]
           last == {run[k] : k \in Finals(run)}
           bad == {r \in last : r.status = "error"}
           saved == {i \in Polled(p) :
                       /\ NewestOK(p, Order[i])
                       /\ \E r \in Mine(p) : r.source = Order[i] /\ r.status = "error"}
<1>1. /\ run \in Seq(Run) /\ pass[p] \in {1, 2} /\ DOMAIN run = 1..Len(run) /\ Len(run) \in Nat
      /\ Mine(p) = {run[k] : k \in 1..Len(run)}
  <2>1. run \in Seq(Run) /\ pass[p] \in {1, 2}
    BY DEF PassInv, Inv, TypeOK
  <2> QED BY <2>1, RunList, MineListed
<1>2. PICK n \in Nat : n \in 0..Len(run) /\ Over(run, n, pass[p], Wanted(p))
  BY ExitListed
<1> DEFINE won == {l \in (n + 1)..Len(run) : run[l].status = "ok"}
<1>3. IsFiniteSet(won) /\ Len(run) - Cardinality(last) - Cardinality(bad) = Cardinality(won)
  BY <1>1, <1>2, WalkCount
<1>4. Recovered(p) = Len(run) - Cardinality(last) - Cardinality(bad)
  <2>1. Outcomes(p) = last /\ FailedOutcomes(p) = bad
    BY DEF Outcomes, FailedOutcomes, Finals
  <2> QED BY <2>1 DEF Recovered
<1>5. Cardinality(saved) = Cardinality(won)
  <2>1. \A s : NewestOK(p, s) <=> \E k \in Finals(run) : run[k].source = s /\ run[k].status = "ok"
    BY NewestListed
  <2>2. ASSUME NEW i \in saved PROVE \E l \in won : run[l].source = Order[i]
    <3>1. PICK k \in Finals(run) : run[k].source = Order[i] /\ run[k].status = "ok"
      BY <2>1
    <3>2. PICK m \in 1..Len(run) : run[m].source = Order[i] /\ run[m].status = "error"
      BY <1>1
    <3>3. k \in 1..Len(run) /\ m <= k /\ m # k
      BY <1>1, <3>1, <3>2 DEF Finals
    <3>4. n < k
      <4>1. m < k
        BY <1>1, <3>3
      <4>2. Walked(run, n, pass[p], {}, Wanted(p))
        BY <1>2 DEF Over
      <4> HIDE DEF run
      <4> QED BY <1>1, <1>2, <3>1, <3>2, <3>3, <4>1, <4>2, WalkRepeats
    <3>5. k \in won
      BY <1>1, <3>1, <3>3, <3>4
    <3> QED BY <3>1, <3>5
  <2>3. ASSUME NEW l \in won PROVE \E i \in saved : Order[i] = run[l].source
    <3>1. l \in (n + 1)..Len(run) /\ run[l].status = "ok" /\ l \in Finals(run)
      BY <1>1, <1>2, WalkFinals
    <3>2. FailedAmong(run, n, run[l].source)
      BY <1>2, <3>1 DEF Over, Walked
    <3>3. PICK k \in 1..n : run[k].source = run[l].source /\ run[k].status = "error"
      BY <3>2 DEF FailedAmong
    <3>4. run[k].source \in Wanted(p)
      BY <1>2 DEF Over, Walked
    <3>5. PICK i \in Polled(p) : Order[i] = run[l].source
      BY <3>3, <3>4 DEF Wanted
    <3>6. run[k] \in Mine(p)
      BY <1>1, <1>2
    <3>7. NewestOK(p, Order[i])
      BY <2>1, <3>1, <3>5
    <3> QED BY <3>3, <3>5, <3>6, <3>7
  <2>4. PICK f : f = [i \in saved |-> CHOOSE l \in won : run[l].source = Order[i]]
    OBVIOUS
  <2>5. \A i \in saved : f[i] \in won /\ run[f[i]].source = Order[i]
    BY <2>2, <2>4
  <2>6. \A i \in saved : i \in DOMAIN Order
    BY DEF Polled, Selected
  <2>7. f \in [saved -> won] /\ \A i, j \in saved : f[i] = f[j] => i = j
    <3> HIDE DEF saved, won
    <3> QED BY <2>4, <2>5, <2>6, ConstantsOK, SMTT(30)
  <2>8. ASSUME NEW l \in won PROVE \E i \in saved : f[i] = l
    <3>1. PICK i \in saved : Order[i] = run[l].source
      BY <2>3
    <3>2. f[i] \in won /\ run[f[i]].source = run[l].source
      BY <2>5, <3>1
    <3>3. f[i] = l
      BY <1>1, <1>2, <3>2 DEF Over, Walked, Distinct
    <3> QED BY <3>3
  <2> HIDE DEF saved, won
  <2>9. IsFiniteSet(won)
    BY <1>3
  <2> QED BY <2>7, <2>8, <2>9, SameCount
<1> HIDE DEF saved, won, last, bad, run
<1>6. Recovered(p) = Cardinality(saved)
  BY <1>3, <1>4, <1>5
<1> QED BY <1>6 DEF saved
(***************************************************************************)
(* A sum by recursion is the one function that satisfies its equation.     *)
(***************************************************************************)
LEMMA LeastNumber ==
  ASSUME NEW T, T \subseteq Nat, T # {}
  PROVE  \E m \in T : \A k \in T : m <= k
<1> DEFINE upto == {0..k : k \in T}
<1>1. PICK n \in T : 0..n \in upto
  OBVIOUS
<1>2. upto \subseteq FiniteSubsetsOf(Nat)
  <2> SUFFICES ASSUME NEW k \in T PROVE 0..k \in FiniteSubsetsOf(Nat)
    OBVIOUS
  <2>1. k \in Int /\ 0 \in Int /\ 0..k \subseteq Nat
    OBVIOUS
  <2>2. IsFiniteSet(0..k)
    BY <2>1, FS_Interval
  <2> QED BY <2>1, <2>2 DEF FiniteSubsetsOf
<1>3. IsWellFoundedOn(StrictSubsetOrdering(Nat), FiniteSubsetsOf(Nat))
  BY FS_StrictSubsetOrderingWellFounded
<1> HIDE DEF upto
<1>4. \E x \in upto : \A y \in upto : ~ (<<y, x>> \in StrictSubsetOrdering(Nat))
  BY <1>1, <1>2, <1>3, WFMin
<1>5. PICK x \in upto : \A y \in upto : ~ (<<y, x>> \in StrictSubsetOrdering(Nat))
  BY <1>4
<1>6. PICK m \in T : x = 0..m
  BY DEF upto
<1>7. ASSUME NEW k \in T PROVE m <= k
  <2>1. 0..k \in upto
    BY DEF upto
  <2>2. SUFFICES ASSUME k < m PROVE FALSE
    OBVIOUS
  <2>3. 0..k \subseteq 0..m /\ m \in 0..m /\ m \notin 0..k /\ 0..m \subseteq Nat
    BY <2>2
  <2>4. <<0..k, 0..m>> \in StrictSubsetOrdering(Nat)
    BY <2>3 DEF StrictSubsetOrdering
  <2> QED BY <1>5, <1>6, <2>1, <2>4
<1> QED BY <1>7

Sums(f, run, n) == \A k \in 0..n : f[k] = IF k = 0 THEN 0 ELSE f[k - 1] + run[k].new

LEMMA SumIs ==
  ASSUME NEW n \in Nat, NEW run, NEW sum, NEW g, Sums(sum, run, n), Sums(g, run, n)
  PROVE  sum[n] = g[n]
<1> DEFINE T == {k \in 0..n : sum[k] # g[k]}
<1>2. SUFFICES ASSUME T # {} PROVE FALSE
  <2>1. n \in 0..n
    OBVIOUS
  <2> QED BY <1>2, <2>1
<1>3. PICK m \in T : \A k \in T : m <= k
  <2>1. T \subseteq Nat
    OBVIOUS
  <2> HIDE DEF T
  <2> QED BY <1>2, <2>1, LeastNumber
<1>4. sum[0] = 0 /\ g[0] = 0 /\ m \in 0..n
  BY DEF Sums
<1>5. m # 0 /\ m - 1 \in 0..n
  BY <1>3, <1>4
<1>6. m - 1 \notin T
  BY <1>3, <1>5
<1>7. sum[m - 1] = g[m - 1]
  BY <1>5, <1>6
<1>8. sum[m] = sum[m - 1] + run[m].new /\ g[m] = g[m - 1] + run[m].new
  BY <1>4, <1>5 DEF Sums
<1> QED BY <1>3, <1>7, <1>8

LEMMA TotalTruthful ==
  ASSUME PassInv, NEW p \in Procs, pc[p] = "exited"
  PROVE  TotalNew(p) = Cardinality({d \in docs : \E r \in Mine(p) : r.id = d.run})
<1> DEFINE run == polls[p]
           base == serial[p] - Len(run)
           by(k) == {d \in docs : \E j \in 1..k : run[j].id = d.run}
           g == [k \in 0..Len(run) |-> Cardinality(by(k))]
<1>1. /\ Len(run) \in Nat
      /\ Mine(p) = {run[k] : k \in 1..Len(run)}
      /\ \A k \in 1..Len(run) : run[k] \in runs /\ run[k].id = <<p, base + k>>
  BY MineListed
<1>2. base \in Int /\ IsFiniteSet(docs) /\ AuditMatchesStore
  BY <1>1 DEF PassInv, Inv, TypeOK
<1> HIDE DEF run, base
<1>3. ASSUME NEW k \in 1..Len(run)
      PROVE  Cardinality(by(k)) = Cardinality(by(k - 1)) + run[k].new
  <2> DEFINE before == by(k - 1)
             own == {d \in docs : d.run = run[k].id}
  <2>1. k \in Nat /\ k - 1 \in Nat /\ \A j \in 1..(k - 1) : j \in 1..Len(run) /\ j # k
    BY <1>1
  <2>2. by(k) = before \cup own
    BY <2>1
  <2>3. before \cap own = {}
    <3>1. \A j \in 1..(k - 1) : run[j].id # run[k].id
      BY <1>1, <1>2, <2>1
    <3> QED BY <3>1
  <2>4. run[k].new = Cardinality(own)
    BY <1>1, <1>2 DEF AuditMatchesStore
  <2>5. IsFiniteSet(before) /\ IsFiniteSet(own)
    BY <1>2, FS_Subset
  <2> HIDE DEF before, own
  <2>6. Cardinality(before \cup own) = Cardinality(before) + Cardinality(own) - Cardinality(before \cap own)
    BY <2>5, FS_Union
  <2>7. Cardinality(before) \in Nat /\ Cardinality(own) \in Nat
    BY <2>5, FS_CardinalityType
  <2>8. Cardinality(before \cap own) = 0
    BY <2>3, FS_EmptySet
  <2>9. Cardinality(before \cup own) = Cardinality(before) + run[k].new
    BY <2>4, <2>6, <2>7, <2>8
  <2>10. before = by(k - 1)
    BY DEF before
  <2> HIDE DEF by
  <2> QED BY <2>2, <2>9, <2>10
<1>4. Cardinality(by(0)) = 0
  <2>1. by(0) = {}
    OBVIOUS
  <2> HIDE DEF by
  <2> QED BY <2>1, FS_EmptySet
<1> HIDE DEF by
<1>5. /\ g = [k \in 0..Len(run) |-> IF k = 0 THEN 0 ELSE g[k - 1] + run[k].new]
      /\ \A k \in 0..Len(run) : g[k] = IF k = 0 THEN 0 ELSE g[k - 1] + run[k].new
  <2>1. ASSUME NEW k \in 0..Len(run), k # 0
        PROVE  g[k] = g[k - 1] + run[k].new
    <3>1. k \in 1..Len(run) /\ k - 1 \in 0..Len(run)
      BY <1>1, <2>1
    <3> QED BY <1>3, <3>1
  <2>2. \A k \in 0..Len(run) : g[k] = IF k = 0 THEN 0 ELSE g[k - 1] + run[k].new
    BY <1>4, <2>1
  <2>3. DOMAIN g = 0..Len(run) /\ g = [k \in 0..Len(run) |-> g[k]]
    OBVIOUS
  <2> HIDE DEF g
  <2> QED BY <2>2, <2>3
<1> DEFINE sum == CHOOSE f : f = [k \in 0..Len(run) |-> IF k = 0 THEN 0 ELSE f[k - 1] + run[k].new]
<1>6. TotalNew(p) = sum[Len(run)]
  BY DEF TotalNew, run
<1>7. g[Len(run)] = Cardinality(by(Len(run)))
  BY <1>1
<1>8. by(Len(run)) = {d \in docs : \E r \in Mine(p) : r.id = d.run}
  BY <1>1 DEF by
<1> HIDE DEF g
<1>9. \A k \in 0..Len(run) : sum[k] = IF k = 0 THEN 0 ELSE sum[k - 1] + run[k].new
  <2>1. sum = [k \in 0..Len(run) |-> IF k = 0 THEN 0 ELSE sum[k - 1] + run[k].new]
    BY <1>5
  <2> HIDE DEF sum
  <2> QED BY <2>1
<1> HIDE DEF sum
<1>10. sum[Len(run)] = g[Len(run)]
  <2>1. Sums(sum, run, Len(run)) /\ Sums(g, run, Len(run))
    BY <1>5, <1>9 DEF Sums
  <2> QED BY <1>1, <2>1, SumIs
<1> QED BY <1>6, <1>7, <1>8, <1>10

(***************************************************************************)
(* What the command reports is what it did, for any registry and any       *)
(* other processes at work meanwhile.                                      *)
(***************************************************************************)
THEOREM SummaryCorrect == Spec => []SummaryTruthful
<1>1. PassInv => SummaryTruthful
  BY ExitTruthful, RecoveredTruthful, TotalTruthful DEF SummaryTruthful
<1> QED BY <1>1, PassInvariance, PTL
=============================================================================
