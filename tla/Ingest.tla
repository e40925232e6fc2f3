------------------------------- MODULE Ingest -------------------------------
(***************************************************************************)
(* The `radar ingest` command: cmd_ingest, sync_registry's inserts,        *)
(* ingest_all, ingest_source, insert_document and session_scope, run by    *)
(* one or more operating-system processes (the nightly workflow and a      *)
(* person at a terminal) against one PostgreSQL database.                  *)
(*                                                                         *)
(* Each process works in one transaction at a time.  The transaction is    *)
(* committed after every source, so it holds the rows sync_registry added  *)
(* (until the first commit), one fetch_run row and that run's documents.   *)
(* Only a document's key (source, external id) and the run that stored it  *)
(* are kept; its text, and the text of errors, are abstracted away.        *)
(***************************************************************************)
EXTENDS Integers, Sequences, FiniteSets

CONSTANTS Procs,        \* processes that may run the command
          Sources,      \* source ids
          Order,        \* registry.sources: the ids, in file order
          Active,       \* those with active: true
          Hostless,     \* host_for raises UnsupportedSourceKindError
          Unbuildable,  \* host_for succeeds, build_fetcher raises
          Exts,         \* external ids
          Calls,        \* command lines: [only, limit]
          NoSource,     \* --source not given
          NoLimit,      \* --limit not given
          Faults,       \* which of "insert", "commit", "kill" may happen
          MaxFetched,   \* bound: documents one poll can yield
          MaxStarts     \* bound: invocations of one process

ASSUME ConstantsOK ==
  /\ Order \in Seq(Sources)
  /\ \A i, j \in DOMAIN Order : Order[i] = Order[j] => i = j
  /\ NoSource \notin Sources
  /\ Calls # {}
  /\ Calls \subseteq [only : Sources \cup {NoSource}, limit : Nat \cup {NoLimit}]
  /\ MaxFetched \in Nat
  /\ MaxStarts \in Nat

VARIABLES
  \* the committed database
  sources,      \* ids in table source
  docs,         \* rows of source_document: [source, ext, run]
  runs,         \* rows of fetch_run
  \* each process's open transaction
  txSources,    \* source rows added, not yet committed
  txDocs,       \* documents added, not yet committed
  \* each process's memory
  pc,
  call,         \* the command line
  missing,      \* sync_registry: registry ids not in the rows it selected
  todo,         \* positions of Order still to poll in this pass
  pass,         \* 1: every source, 2: the retry of those that failed
  poll,         \* ingest_source's frame: run serial, source, counts, status
  polls,        \* ingest_all's list `runs`
  serial,       \* fetch_run ids this process has drawn so far
  starts        \* invocations so far

dbVars == <<sources, docs, runs>>
txVars == <<txSources, txDocs>>
vars == <<dbVars, txVars, pc, call, missing, todo, pass, poll, polls, serial, starts>>

RunIds == Procs \X Nat
Registry == {Order[i] : i \in DOMAIN Order}
Doc == [source : Sources, ext : Exts, run : RunIds]
Run == [id : RunIds, source : Sources, status : {"ok", "error"}, fetched : Nat, new : Nat]

Ended == {"idle", "exited", "raised", "killed"}
Polling == {"feed", "insert", "commit"}   \* in ingest_source
Busy == {"sync", "next"} \cup Polling
Poll == [source : Sources \cup {NoSource}, ext : Exts \cup {NoSource},
         status : {"none", "running", "ok", "error"}, fetched : Nat, new : Nat]
NoPoll == [source |-> NoSource, ext |-> NoSource, status |-> "none", fetched |-> 0, new |-> 0]
-----------------------------------------------------------------------------
(* What the process sees *)

\* The specs ingest_all loops over: the named source, or every active one.
Selected(p) ==
  {i \in DOMAIN Order : IF call[p].only = NoSource THEN Order[i] \in Active
                                                   ELSE Order[i] = call[p].only}

\* Registry.get raises KeyError for an id the file does not list.
Known(p) == call[p].only \in Registry \cup {NoSource}

\* Mutant: every source that was polled is polled again.
FailedOrNot(p) ==
  {i \in Selected(p) : \E k \in DOMAIN polls[p] : polls[p][k].source = Order[i]}

\* The specs whose run from the first pass is an ERROR.
Failed(p) ==
  {i \in Selected(p) : \E k \in DOMAIN polls[p] :
                          polls[p][k].source = Order[i] /\ polls[p][k].status = "error"}

Least(S) == {i \in S : \A j \in S : i <= j}

HasKey(D, s, e) == \E d \in D : d.source = s /\ d.ext = e

\* PostgreSQL makes an insert wait while another transaction holds the same
\* key uncommitted: whether it conflicts depends on how that one ends.
WaitsFor(p, q) ==
  /\ p # q
  /\ \/ pc[p] = "insert" /\ HasKey(txDocs[q], poll[p].source, poll[p].ext)
     \/ pc[p] = "sync" /\ missing[p] \cap txSources[q] # {}

Blocked(p) == \E q \in Procs : WaitsFor(p, q)

\* p is on a cycle of waiting transactions.
Deadlocked(p) ==
  \E C \in SUBSET Procs :
     /\ p \in C
     /\ \A a \in C : (\E b \in C : WaitsFor(a, b)) /\ (\E b \in C : WaitsFor(b, a))

\* How a step of the loop changes ingest_source's frame f.
Opened(s) == [source |-> s, ext |-> NoSource, status |-> "running", fetched |-> 0, new |-> 0]
Yielded(f, e) == [f EXCEPT !.fetched = @ + 1, !.ext = e]
Inserted(f, n, st) == [f EXCEPT !.ext = NoSource, !.new = n, !.status = st]
WithStatus(f, st) == [f EXCEPT !.status = st]

LimitReached(p) == call[p].limit # NoLimit /\ poll[p].fetched >= call[p].limit
-----------------------------------------------------------------------------
(* cmd_ingest's summary, computed from ingest_all's list of runs *)

\* Mutant: the first run of each source is reported.
FirstOutcomes(p) ==
  {polls[p][k] : k \in {k \in DOMAIN polls[p] :
                          \A l \in DOMAIN polls[p] :
                             polls[p][l].source = polls[p][k].source => k <= l}}

\* final: the last run of each source in the list.
Outcomes(p) ==
  {polls[p][k] : k \in {k \in DOMAIN polls[p] :
                          \A l \in DOMAIN polls[p] :
                             polls[p][l].source = polls[p][k].source => l <= k}}

FailedOutcomes(p) == {r \in Outcomes(p) : r.status = "error"}

Recovered(p) == Len(polls[p]) - Cardinality(Outcomes(p)) - Cardinality(FailedOutcomes(p))

TotalNew(p) ==
  LET sum[k \in 0..Len(polls[p])] == IF k = 0 THEN 0 ELSE sum[k - 1] + polls[p][k].new
  IN sum[Len(polls[p])]

ExitCode(p) == IF FailedOutcomes(p) # {} THEN 1 ELSE 0
-----------------------------------------------------------------------------
Init ==
  /\ sources = {} /\ docs = {} /\ runs = {}
  /\ txSources = [p \in Procs |-> {}]
  /\ txDocs = [p \in Procs |-> {}]
  /\ pc = [p \in Procs |-> "idle"]
  /\ call = [p \in Procs |-> CHOOSE c \in Calls : TRUE]
  /\ missing = [p \in Procs |-> {}]
  /\ todo = [p \in Procs |-> {}]
  /\ pass = [p \in Procs |-> 1]
  /\ poll = [p \in Procs |-> NoPoll]
  /\ polls = [p \in Procs |-> <<>>]
  /\ serial = [p \in Procs |-> 0]
  /\ starts = [p \in Procs |-> 0]

Goto(p, l) == pc' = [pc EXCEPT ![p] = l]

\* The transaction is over.  Alone, it had no effect: session.rollback, or the
\* server noticing that the client is gone.
EndTransaction(p) ==
  /\ txSources' = [txSources EXCEPT ![p] = {}]
  /\ txDocs' = [txDocs EXCEPT ![p] = {}]

\* The process is gone, with its memory, at the specs it had left in todo.
Dies(p, how) ==
  /\ EndTransaction(p)
  /\ poll' = [poll EXCEPT ![p] = NoPoll]
  /\ polls' = [polls EXCEPT ![p] = <<>>]
  /\ missing' = [missing EXCEPT ![p] = {}]
  /\ Goto(p, how)
  /\ UNCHANGED <<call, todo, pass, serial, starts>>

\* The process is started; sync_registry selects the rows that exist.
Start(p) ==
  /\ pc[p] \in Ended
  /\ starts[p] < MaxStarts
  /\ starts' = [starts EXCEPT ![p] = @ + 1]
  /\ \E c \in Calls : call' = [call EXCEPT ![p] = c]
  /\ missing' = [missing EXCEPT ![p] = Registry \ sources]
  /\ polls' = [polls EXCEPT ![p] = <<>>]
  /\ poll' = [poll EXCEPT ![p] = NoPoll]
  /\ Goto(p, "sync")
  /\ UNCHANGED <<dbVars, txVars, todo, pass, serial>>

\* sync_registry adds the rows it did not find and flushes; ingest_all looks
\* its specs up.
SyncRegistry(p) ==
  /\ pc[p] = "sync"
  /\ ~ Blocked(p)
  /\ Known(p) /\ missing[p] \cap sources = {}
  /\ txSources' = [txSources EXCEPT ![p] = missing[p]]
  /\ todo' = [todo EXCEPT ![p] = Selected(p)]
  /\ pass' = [pass EXCEPT ![p] = 1]
  /\ missing' = [missing EXCEPT ![p] = {}]
  /\ Goto(p, "next")
  /\ UNCHANGED <<dbVars, txDocs, call, poll, polls, serial, starts>>

\* Another process committed one of those rows since the select: the flush
\* violates source's primary key and nothing catches the IntegrityError.  Nor
\* the KeyError of a --source nobody knows, which takes the added rows along.
SyncRaises(p) ==
  /\ pc[p] = "sync"
  /\ ~ Blocked(p)
  /\ ~ Known(p) \/ missing[p] \cap sources # {}
  /\ Dies(p, "raised")
  /\ UNCHANGED dbVars

\* poll(): no host, so no run and no commit.
SkipHostless(p) ==
  /\ pc[p] = "next"
  /\ \E i \in Least(todo[p]) :
       /\ Order[i] \in Hostless
       /\ todo' = [todo EXCEPT ![p] = @ \ {i}]
  /\ UNCHANGED <<dbVars, txVars, pc, call, missing, pass, poll, polls, serial, starts>>

\* poll(): ingest_source adds a RUNNING fetch_run and flushes it.
BeginPoll(p) ==
  /\ pc[p] = "next"
  /\ \E i \in Least(todo[p]) :
       /\ Order[i] \notin Hostless
       /\ todo' = [todo EXCEPT ![p] = @ \ {i}]
       /\ poll' = [poll EXCEPT ![p] = Opened(Order[i])]
  /\ serial' = [serial EXCEPT ![p] = @ + 1]
  /\ Goto(p, "feed")
  /\ UNCHANGED <<dbVars, txVars, call, missing, pass, polls, starts>>

\* The loop of ingest_source is left: its status is set and the counts of
\* the `finally` clause go into the transaction, ready to be committed.
Settled(p, outcome) ==
  /\ poll' = [poll EXCEPT ![p] = WithStatus(poll[p], outcome)]
  /\ Goto(p, "commit")

FeedUnchanged == UNCHANGED <<dbVars, txVars, call, missing, todo, pass, polls, serial, starts>>

\* discover() yields one more document.
Discover(p) ==
  /\ pc[p] = "feed"
  /\ poll[p].source \notin Unbuildable
  /\ poll[p].fetched < MaxFetched
  /\ \E e \in Exts : poll' = [poll EXCEPT ![p] = Yielded(poll[p], e)]
  /\ Goto(p, "insert")
  /\ FeedUnchanged

\* discover() yields one more document, but insert_document raises before the
\* server sees the statement (a value the driver cannot encode): the
\* transaction is intact and the run an ERROR.
InsertRefused(p) ==
  /\ pc[p] = "feed"
  /\ poll[p].source \notin Unbuildable
  /\ poll[p].fetched < MaxFetched
  /\ \E e \in Exts : poll' = [poll EXCEPT ![p] = WithStatus(Yielded(poll[p], e), "error")]
  /\ Goto(p, "commit")
  /\ FeedUnchanged

\* Mutant: the status is left RUNNING at the end of the feed.
FeedEndsRunning(p) ==
  /\ pc[p] = "feed"
  /\ poll[p].source \notin Unbuildable
  /\ Settled(p, "running")
  /\ FeedUnchanged

\* discover() is exhausted.
FeedEnds(p) ==
  /\ pc[p] = "feed"
  /\ poll[p].source \notin Unbuildable
  /\ Settled(p, "ok")
  /\ FeedUnchanged

\* build_fetcher or discover() raises: recorded on the run.  The documents
\* inserted so far stay.
FeedRaises(p) ==
  /\ pc[p] = "feed"
  /\ Settled(p, "error")
  /\ FeedUnchanged

\* Mutant: only this poll's own documents are compared.
StoredHere(p) == HasKey(txDocs[p], poll[p].source, poll[p].ext)

\* The unique constraint: rows committed by anyone and those of this one.
Stored(p) == HasKey(docs \cup txDocs[p], poll[p].source, poll[p].ext)

Row(p) == [source |-> poll[p].source, ext |-> poll[p].ext, run |-> <<p, serial[p]>>]

\* Mutant: every document counts as new.
CountEvery(p, created) == poll[p].new + 1

CountNew(p, created) == IF created THEN poll[p].new + 1 ELSE poll[p].new

\* insert_document, once no other transaction is in the way: ON CONFLICT DO
\* NOTHING.  With --limit, the loop is left when the limit is reached.
InsertDocument(p) ==
  LET created == ~ Stored(p) IN
  /\ pc[p] = "insert"
  /\ ~ Blocked(p)
  /\ txDocs' = [txDocs EXCEPT ![p] = IF created THEN @ \cup {Row(p)} ELSE @]
  /\ poll' = [poll EXCEPT ![p] =
                 Inserted(poll[p], CountNew(p, created),
                          IF LimitReached(p) THEN "ok" ELSE poll[p].status)]
  /\ Goto(p, IF LimitReached(p) THEN "commit" ELSE "feed")
  /\ UNCHANGED <<dbVars, txSources, call, missing, todo, pass, polls, serial, starts>>

\* insert_document raises in the server: a rejected value or a lost
\* connection.  The server has rolled the transaction back, so the flush of
\* the `finally` clause raises too: it leaves ingest_source, ingest_all and
\* session_scope.
InsertAborts(p) ==
  /\ "insert" \in Faults
  /\ pc[p] = "insert"
  /\ Dies(p, "raised")
  /\ UNCHANGED dbVars

\* Mutant: the victim's insert is tried again in the transaction it has.
VictimInsists(p) ==
  /\ pc[p] = "insert" /\ Deadlocked(p)
  /\ UNCHANGED vars

\* The same, for the transaction the server picks to break a deadlock.
DeadlockVictim(p) ==
  /\ pc[p] = "insert" /\ Deadlocked(p)
  /\ Dies(p, "raised")
  /\ UNCHANGED dbVars

RunRow(p) == [id |-> <<p, serial[p]>>, source |-> poll[p].source, status |-> poll[p].status,
              fetched |-> poll[p].fetched, new |-> poll[p].new]

\* Mutant: a failed source's documents are discarded, its run is not.
DurableIfOK(p) ==
  /\ sources' = sources \cup txSources[p]
  /\ docs' = docs \cup IF poll[p].status = "ok" THEN txDocs[p] ELSE {}
  /\ runs' = runs \cup {RunRow(p)}

\* Mutant: a failed source's run is discarded, its documents are not.
DurableRunIfOK(p) ==
  /\ sources' = sources \cup txSources[p]
  /\ docs' = docs \cup txDocs[p]
  /\ runs' = runs \cup IF poll[p].status = "ok" THEN {RunRow(p)} ELSE {}

\* What a commit makes durable: everything of the transaction.
Durable(p) ==
  /\ sources' = sources \cup txSources[p]
  /\ docs' = docs \cup txDocs[p]
  /\ runs' = runs \cup {RunRow(p)}

\* poll(): session.commit() after the source.
Commit(p) ==
  /\ pc[p] = "commit"
  /\ Durable(p)
  /\ EndTransaction(p)
  /\ polls' = [polls EXCEPT ![p] = Append(@, RunRow(p))]
  /\ poll' = [poll EXCEPT ![p] = NoPoll]
  /\ Goto(p, "next")
  /\ UNCHANGED <<call, missing, todo, pass, serial, starts>>

\* The connection is lost in the flush or the commit; the client cannot know
\* whether the commit took effect.
CommitRaises(p) ==
  /\ "commit" \in Faults
  /\ pc[p] = "commit"
  /\ Durable(p) \/ UNCHANGED dbVars
  /\ Dies(p, "raised")

\* The first pass is over and sources failed: wait once, then poll them again.
RetryFailed(p) ==
  /\ pc[p] = "next"
  /\ todo[p] = {} /\ pass[p] = 1 /\ Failed(p) # {}
  /\ todo' = [todo EXCEPT ![p] = Failed(p)]
  /\ pass' = [pass EXCEPT ![p] = 2]
  /\ UNCHANGED <<dbVars, txVars, pc, call, missing, poll, polls, serial, starts>>


\* ingest_all returns; session_scope commits what is left of a transaction
\* (the rows of sync_registry when no source was polled).
Finish(p) ==
  /\ pc[p] = "next"
  /\ todo[p] = {} /\ (pass[p] = 2 \/ Failed(p) = {})
  /\ sources' = sources \cup txSources[p]
  /\ EndTransaction(p)
  /\ Goto(p, "exited")
  /\ UNCHANGED <<docs, runs, call, missing, todo, pass, poll, polls, serial, starts>>

\* The job's 30 minute limit, or a person's interrupt.
Kill(p) ==
  /\ "kill" \in Faults
  /\ pc[p] \in Busy
  /\ Dies(p, "killed")
  /\ UNCHANGED dbVars

\* A process's own steps and the server's; a feed may raise, or just end.
Advance(p) ==
  \/ SyncRegistry(p) \/ SyncRaises(p) \/ SkipHostless(p) \/ BeginPoll(p)
  \/ Discover(p) \/ FeedEnds(p) \/ FeedRaises(p)
  \/ InsertDocument(p) \/ DeadlockVictim(p)
  \/ Commit(p) \/ RetryFailed(p) \/ Finish(p)

\* What may go wrong at any time, and need not.
Disturb(p) == InsertRefused(p) \/ InsertAborts(p) \/ CommitRaises(p) \/ Kill(p)

Next == \E p \in Procs : Start(p) \/ Advance(p) \/ Disturb(p)

Spec == Init /\ [][Next]_vars

\* Requests have a timeout, feeds a page cap, and the server breaks deadlocks
\* by itself: a process that waits for another's insert has no other step.
FairSpec == Spec /\ \A p \in Procs : WF_vars(Advance(p))
-----------------------------------------------------------------------------
(* Properties *)

(* The types of the variables: what a process can hold between two steps. *)
TypeOK ==
  /\ sources \subseteq Sources
  /\ docs \subseteq Doc
  /\ runs \subseteq Run
  /\ txSources \in [Procs -> SUBSET Sources]
  /\ txDocs \in [Procs -> SUBSET Doc]
  /\ pc \in [Procs -> Ended \cup Busy]
  /\ call \in [Procs -> Calls]
  /\ missing \in [Procs -> SUBSET Sources]
  /\ todo \in [Procs -> SUBSET (DOMAIN Order)]
  /\ pass \in [Procs -> {1, 2}]
  /\ poll \in [Procs -> Poll]
  /\ polls \in [Procs -> Seq(Run)]
  /\ serial \in [Procs -> Nat]
  /\ starts \in [Procs -> 0..MaxStarts]

UniqueKeys(D) == \A a, b \in D : a.source = b.source /\ a.ext = b.ext => a = b

(* A document is stored once per (source, external id), whatever overlaps,   *)
(* dies half-way or polls the same window again: neither committed twice nor *)
(* held by two transactions at once.  (insert_document's ON CONFLICT clause) *)
NoDuplicateDocument ==
  /\ \A p \in Procs : UniqueKeys(docs \cup txDocs[p])
  /\ \A p, q \in Procs : p # q => UniqueKeys(txDocs[p] \cup txDocs[q])

(* The audit trail agrees with what is stored: a committed fetch_run is      *)
(* finished, and its new_count is the number of documents that name it.      *)
(* (ingest_source's counters and its `finally` clause)                       *)
AuditMatchesStore ==
  \A r \in runs :
     /\ r.status \in {"ok", "error"}
     /\ r.new = Cardinality({d \in docs : d.run = r.id})
     /\ r.new <= r.fetched

(* Provenance never dangles: a committed document names a committed run of   *)
(* the same source, and a committed run a committed source row.  (the order  *)
(* of sync_registry, the flushed fetch_run and the commit per source)        *)
ProvenanceResolves ==
  /\ \A d \in docs : \E r \in runs : r.id = d.run /\ r.source = d.source
  /\ \A r \in runs : r.source \in sources

\* The committed runs of p's latest invocation.
Mine(p) == {r \in runs : r.id[1] = p /\ r.id[2] > serial[p] - Len(polls[p])}

Polled(p) == {i \in Selected(p) : Order[i] \notin Hostless}

(* A source gets a second run in an invocation only if its first ended in an *)
(* error, and after every other selected source had been polled; it never    *)
(* gets a third.  (the two loops of ingest_all)                              *)
RetryDiscipline ==
  \A p \in Procs : pc[p] \in {"next", "exited"} =>
     \A r, s \in Mine(p) :
        r.source = s.source /\ r.id[2] < s.id[2] =>
           /\ r.status = "error"
           /\ \A t \in Mine(p) : t.source = r.source => t \in {r, s}
           /\ \A i \in Polled(p) : \E t \in Mine(p) : t.source = Order[i] /\ t.id[2] < s.id[2]

\* The newest committed run of source s in p's latest invocation is OK.
NewestOK(p, s) ==
  \E r \in Mine(p) : /\ r.source = s /\ r.status = "ok"
                    /\ \A t \in Mine(p) : t.source = s => t.id[2] <= r.id[2]

(* What the command reports is what the database shows: it exits 0 exactly   *)
(* when the newest run of every selected source is OK, the sources it calls  *)
(* recovered are those with an ERROR followed by an OK, and the documents it *)
(* calls new are those its runs stored.  (cmd_ingest's summary)              *)
SummaryTruthful ==
  \A p \in Procs : pc[p] = "exited" =>
     /\ ExitCode(p) = 0 <=> \A i \in Polled(p) : NewestOK(p, Order[i])
     /\ Recovered(p) = Cardinality({i \in Polled(p) : /\ NewestOK(p, Order[i])
                                                     /\ \E r \in Mine(p) : r.source = Order[i] /\ r.status = "error"})
     /\ TotalNew(p) = Cardinality({d \in docs : \E r \in Mine(p) : r.id = d.run})

\* What ties the transaction of a polling process to ingest_source's frame:
\* the uncommitted documents are those the frame counts, under a run id that
\* is not committed, of a source whose row is there when they are.
Frame(p) ==
  /\ poll[p].source \in Registry
  /\ pc[p] = "insert" => poll[p].ext \in Exts
  /\ pc[p] = "commit" => poll[p].status \in {"ok", "error"}
  /\ IsFiniteSet(txDocs[p])
  /\ poll[p].new = Cardinality(txDocs[p])
  /\ poll[p].new <= poll[p].fetched
  /\ pc[p] = "insert" => poll[p].new < poll[p].fetched
  /\ \A d \in txDocs[p] : d.run = <<p, serial[p]>> /\ d.source = poll[p].source
  /\ \A r \in runs : r.id # <<p, serial[p]>>

\* The rows sync_registry found missing, and adds, complete the registry.
Synced(p) ==
  /\ pc[p] = "sync" => Registry \subseteq sources \cup missing[p]
  /\ pc[p] \in {"next"} \cup Polling => Registry \subseteq sources \cup txSources[p]

RunIdsUnique ==
  /\ \A r \in runs : r.id[2] <= serial[r.id[1]]
  /\ \A r, s \in runs : r.id = s.id => r = s

(* The inductive invariant: between any two steps, each open transaction     *)
(* holds exactly what its frame of ingest_source accounts for, so that the   *)
(* next commit keeps the tables consistent.                                  *)
Inv ==
  /\ TypeOK
  /\ \A p \in Procs : IF pc[p] \in Polling THEN Frame(p) ELSE txDocs[p] = {}
  /\ \A p \in Procs : Synced(p)
  /\ RunIdsUnique
  /\ NoDuplicateDocument
  /\ AuditMatchesStore
  /\ ProvenanceResolves

FailedAmong(run, n, s) == \E k \in 1..n : run[k].source = s /\ run[k].status = "error"
Distinct(run, S) == \A k, l \in S : run[k].source = run[l].source => k = l

\* ingest_all's list `runs`, of which the first n are of the first pass:
\* `wanted` are the sources it polls, `due` those this pass has still to finish.
\* Each pass polls a source once, the second those that failed in the first.
Walked(run, n, ps, due, wanted) ==
  /\ n \in 0..Len(run) /\ (ps = 1 => n = Len(run))
  /\ Distinct(run, 1..n) /\ Distinct(run, (n + 1)..Len(run))
  /\ \A k \in 1..n : run[k].source \in wanted
  /\ \A l \in (n + 1)..Len(run) : FailedAmong(run, n, run[l].source)
  /\ \A s \in wanted : (ps = 1 /\ s \in due) \/ \E k \in 1..n : run[k].source = s
  /\ ps = 1 => due \subseteq wanted /\ \A k \in 1..n : run[k].source \notin due
  /\ ps # 1 =>
       /\ \A s \in due : FailedAmong(run, n, s) /\ \A l \in (n + 1)..Len(run) : run[l].source # s
       /\ \A k \in 1..n : run[k].status = "error" =>
            run[k].source \in due \/ \E l \in (n + 1)..Len(run) : run[l].source = run[k].source

Wanted(p) == {Order[i] : i \in Polled(p)}

Due(p) == {Order[i] : i \in {j \in todo[p] : Order[j] \notin Hostless}}
            \cup IF pc[p] \in Polling THEN {poll[p].source} ELSE {}

\* The fetch_run ids of p's latest invocation follow this one.
Base(p) == serial[p] - Len(polls[p]) - IF pc[p] \in Polling THEN 1 ELSE 0

\* What ties the list `runs` to the database and to the loops of ingest_all.
Walk(p) ==
  /\ \A k \in DOMAIN polls[p] : polls[p][k] \in runs /\ polls[p][k].id = <<p, Base(p) + k>>
  /\ IF pc[p] \in {"next", "exited"} \cup Polling
     THEN \E n \in 0..Len(polls[p]) : Walked(polls[p], n, pass[p], Due(p), Wanted(p))
     ELSE polls[p] = <<>>
  /\ pc[p] \in Polling => \A i \in todo[p] : Order[i] # poll[p].source
  /\ pc[p] = "exited" => todo[p] = {} /\ (pass[p] = 2 \/ Failed(p) = {})

(* The inductive invariant of ingest_all: as Inv, and each process's list of *)
(* runs is in the database, in the order its two passes over the registry    *)
(* must have left.                                                           *)
PassInv ==
  /\ Inv
  /\ IsFiniteSet(docs)
  /\ \A p \in Procs : Walk(p)

(* Readers of the two tables only ever see whole polls arrive.  (the commit  *)
(* per source; refinement of SourceLedger)                                   *)
Ledger ==
  INSTANCE SourceLedger WITH Sources <- Sources, Exts <- Exts, RunIds <- RunIds,
                             docs <- docs, runs <- runs
LedgerSpec == Ledger!LSpec

(* An invocation that is not killed comes to an end: processes that insert   *)
(* the same documents in opposite orders do not wait for each other forever. *)
EveryInvocationEnds == \A p \in Procs : pc[p] = "sync" ~> pc[p] \in Ended

(* The docstring of ingest_source: "Errors are caught and recorded on the    *)
(* run rather than raised, so one broken feed cannot abort a nightly         *)
(* ingestion covering the rest."                                             *)
ErrorsAreRecordedNotRaised == \A p \in Procs : pc[p] = "raised" => todo[p] = {}
=============================================================================
