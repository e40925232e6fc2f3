# FutureTech Radar: verification

TLA+ models of the FutureTech Radar pipeline, the TLC configurations that check
them on small instances, and proofs checked by TLAPS. Paths below are relative
to the repository (`src/radar/...`); module and definition names are in
`code style`. `PROJECT.json` holds the same information for tools: the lines each
definition stands for, the hazards, the runs, the mutants and the theorems.

    tlc -workers 2 -config IngestOverlap.cfg MCIngest     # a run
    tlapm IngestProofs.tla                                # the proofs

## 1. Inventory

The program is a nightly batch job and a few commands over one PostgreSQL
database. `radar ingest` polls sources and stores documents; the first triage
stage asks a language model which titles to keep; `radar label` draws and checks
a hand-labelled set. Extraction of claims, review and the web application are
designed and have tables, and no code yet.

| Component | State | Operations | Interacts with | What is hard | What makes it correct |
| --- | --- | --- | --- | --- | --- |
| Ingestion: `pipeline/ingest.py`, `cli.py` (`cmd_ingest`), `core/db.py` | one open transaction per process, the frame of `ingest_source`, the list of runs | sync the registry, poll every source, insert with ON CONFLICT DO NOTHING, commit per source, retry the failed ones, summarise | registry, fetchers, database | overlapping processes, waiting and deadlocking transactions, kills, lost commits, an aborted transaction in a `finally` clause | no document twice, the audit rows agree with the store, references resolve, retries are bounded, the summary is true |
| Registry: `registry.py`, `sources.yaml`, migration 0003 | `source` rows, the revision of the schema | insert missing, update changed, deactivate; upgrade, downgrade | ingestion, labelling, alembic | syncs of one file or of different ones at once, a migration under them, rows compared with what was read earlier | a sync that commits leaves the table as its file says; rows are never deleted and always of an allowed kind; nobody waits for ever |
| Rate limiter and HTTP client: `ratelimit.py`, `http.py` | a limiter per host with a lock and the time of its last permit; attempts and redirect hops of a `get` | `for_host`, `acquire`, `get`, redirects, retries, backoff | every fetcher | threads racing for a permit, an interval raised during a sleep, retries that start over | requests keep the interval the source asked for; the lock is given back |
| Paged fetchers: `fetchers/arxiv.py`, `arxiv_oai.py`, `biorxiv.py` | page, cursor or token, ids seen | `discover(since)` | HTTP client, ingestion | the listing changes during the walk, servers that lie about totals and tokens, papers listed in several versions or again after a revision | a walk that ends like a complete one missed no more than what was withdrawn behind it explains; no record twice; no endless walk |
| Feed fetcher: `fetchers/rss.py` | none | `discover(since)` | as above | entries fall off, entries without dates | see the window |
| Nightly workflow: `.github/workflows/ingest-daily.yml` | schedule, one waiting job | start `radar ingest --since 1d` | all of ingestion | late, skipped and hand-started runs; windows counted from now | windows that overlap leave no gap |
| Triage, stage one: `triage.py`, `cli.py` (`cmd_triage_estimate`) | the pending chunk, the halves still to ask about | `screen`, `_judge`, `parse_verdicts` | model client | answers that do not line up; candidates that skip the model | one outcome per candidate, in order, with its own verdict; bounded cost; an estimate that is no overstatement |
| Triage, stage two: `triage.py` | none | `triage_document` | model client | the shape of an answer is written down twice; fenced and cut answers | what the request allows is what the contract accepts |
| Model client: `llm.py` | usage totals | `complete` | triage | failure of a call | – |
| Labelling: `labelling.py`, `cli.py` (`cmd_label_*`) | the worksheet file | export with its counts and missing domains, check | database, a person | corpus and registry change under it, between its own reads too; labels lost | quotas, determinism, a true report, no overwriting |
| Contracts and grounding: `contracts.py`, `grounding.py` | none | validate a draft, verify a quote | (extraction, not written) | two statements of one rule | what the contract accepts, the database stores |
| Schema: `core/models/*.py`, `migrations/` | the tables | – | everything | NULL in CHECKs, SET NULL against CHECKs, cascades | grounding rules hold of every stored claim, evidence never dangles |
| Secret scripts: `scripts/set_secret.py`, `rotate_db_password.py` | the file `.env` | put a key, put a new password into every URL | each other | two of them at once, one of which read before its prompt; a script that dies | the file is whole; only the lines asked for change |
| Prefilter, settings, reports | – | – | – | pure functions | – |

Components interact by plain calls inside a process; processes interact only
through the database (the scripts through `.env`) and, through the limiter, through what
the servers allow.
There are no queues or callbacks. Threads exist only for users of the limiter:
its docstring promises safety for them, while the ingest command has one thread.

## 2. Modules

| Module | Models | Kind |
| --- | --- | --- |
| `SourceLedger` | what readers of `fetch_run` and `source_document` may rely on | abstract specification |
| `Ingest` | `cmd_ingest`, the inserts of `sync_registry`, `ingest_all`, `ingest_source`, `insert_document`, `session_scope`, in several processes; implements `SourceLedger` | detailed specification |
| `SourceTable` | what readers of `source` may rely on | abstract specification |
| `Registry` | `sync_registry` in several processes with different files, and migration 0003 in both directions; implements `SourceTable` | detailed specification |
| `Fetching` | `SafeHttpClient.get` over `LimiterRegistry` and `MinIntervalLimiter`, in several threads | specification |
| `Paging` | `discover` of the three paged fetchers against a server that changes | specification |
| `Coverage` | the workflow's schedule, `parse_since` and the window of each kind of fetcher | specification |
| `Triage` | `screen`, `_judge`, `parse_verdicts`, the estimate | specification |
| `Decisions` | stage two: `triage_document`, `parse_decision`, the schema of the request and the contract | specification |
| `Labelling` | `cmd_label_export`, `select_documents`, `coverage`, `missing_domains` beside ingestion and registry changes | specification |
| `Evidence` | the CHECKs and foreign keys of documents, claims, model calls and developments; the contract for drafts | specification |
| `Secrets` | `set_secret.py` and `rotate_db_password.py` over one `.env` | specification |
| `IngestProofs`, `RegistryProofs`, `FetchingProofs`, `LabellingProofs`, `EvidenceProofs`, `SecretsProofs` | theorems about the module each is named after | proofs |
| `TriageProofs` | theorems about `Triage` and `Decisions` | proofs |
| `FetcherProofs` | theorems about the two models of the fetchers, `Coverage` and `Paging` (whose `WalkInit`, `WalkNext` and `WalkSpec` are named apart from those of `Coverage`, so that one module can extend both) | proofs |
| `MCIngest`, `MCRegistry`, `MCFetching`, `MCPaging`, `MCTriage`, `MCLabelling`, `MCEvidence` | values of constants; `MCTriage` also puts `Decisions` beside `Triage` | for TLC |

### Correspondence with the code

**`Ingest`.** A process is `pc[p]` with the variables of the frames it is in:
`call` is the parsed command line, `missing` what `sync_registry` is about to
add, `todo` and `pass` the two loops of `ingest_all`, `poll` the frame of
`ingest_source`, `polls` the list it returns. `docs`, `runs` and `sources` are
committed rows, `txDocs` and `txSources` the open transaction. One action is
what happens between two points at which another process can act: `Start`,
`SyncRegistry`, `BeginPoll`, `Discover` (one document, the end or a failure of
the generator), `InsertDocument`, `Commit`, `RetryFailed`, `Finish`. The faults
are `InsertRefused` (a document the driver refuses before the server sees it, so
it never waits), `InsertAborts` (an error of the server), `CommitRaises` (lost, or
durable though the client saw an error) and `Kill`. PostgreSQL is external: an
insert waits for an uncommitted one of the same key (`WaitsFor`) and a cycle of
waits ends with one victim (`DeadlockVictim`). A `--source` the registry does not
know raises before anything is polled.

**`Registry`.** A process loads one of several versions of the file, reads the
rows and compares (`Start`: `Needed` and `Statement` are the inserts and the
`setattr`s of `sync_registry`), and then makes one statement after the other
(`Write`), in the order SQLAlchemy flushes them: UPDATEs in the order of the key,
only of the columns that differ from those read, then INSERTs in the order of the
file. `tx` holds what it wrote and locks the rows. The UPDATE of the downgrade
goes over the rows of its snapshot (`Convert`), looking again at one that changed
meanwhile, as READ COMMITTED does; `CheckConverted` is the RAISE EXCEPTION of
the migration, `Alter` the new CHECK, which waits for every transaction that has
read the table and keeps new ones out. A flush that finds its key taken or its
kind unknown ends the command, the detector ends one of a cycle of waits
(`Victim`), and anyone may be killed (`Kill`). `alone` and `torn` only observe.
In `Ingest` the registry is one version of the file and rows are only inserted,
which is all that its polls depend on.

**`SourceTable`.** Its `Sync` gives some columns of some rows the values of one
file, its `Downgrade` converts every row at one instant; nothing else happens to
the table. Several statements, locks and failures are left to `Registry`.

**`Fetching`.** Time is a `Tick` that ages the limiters and shortens the sleeps.
A thread goes through `validate`, `acquire` (and `sleep`, with the lock), `send`,
`flight`, `backoff`. The limiter belongs to the host of the *source*
(`home`), also for redirect hops elsewhere (`host`), as in `_get_once`. The
address check of `assert_url_is_safe` is an outcome chosen freely.

**`Paging`.** A request with its parsing is one step, because nothing of the
fetcher is shared. The server adds records (`Appear`) and takes some out
(`Withdraw`) between requests, chooses how long a page is where the protocol
lets it, may leave out totals or get them wrong, and repeat tokens. The listing is
a set with an order (`Precedes`); a record's `Place` is the number of records ahead
of it, so what is added or withdrawn there moves it, and a `Slice` is what a
request gets. A record is not a document: `paper` says whose it is, the
`external_id` of what it parses to. bioRxiv lists every version of a paper, and its
loop decides by the last one on a page (`Kept`, the `by_doi` of the code); OAI gives
a revised paper a new datestamp, a `Withdraw` followed by an `Appear`; Atom keeps the
ids it has seen (`AtomFresh`). `times` counts how often each record was yielded; the
order of the yields is left out, since nothing depends on it. `gaps` only observes
how many records went away behind the cursor. `ended` records how a walk ended: the
code ends in the same way for several of them, with status OK.

**`Coverage`.** A run is one step. A harvest floors `since` to its UTC day
(`From`), a feed holds `FeedSize` entries and keeps those without a date
(`Undated`). The job's start is late by the ticks `due` waits, or never (`Skip`).

**`Triage`.** `_judge` is recursive; here the recursion is the stack `todo`.
The generator's consumer may stop at any time, so what was yielded is checked
in every state. `sent` and `said` only observe.

**`Decisions`.** One request per document; an answer is a sequence of lines and an
object by what the contract and the schema tell apart. Nothing calls stage two
and it shares no state with stage one, so `MCTriage` explores it beside an input
without candidates, every payload in every text.

**`Labelling`.** The seeded generator is an arbitrary function `draw` from the
number of candidates to the indices taken, the same for every export, and a
candidate is taken by its `Rank` among those of its domain in the order of the
query (`Taken`, `InOrder`); what the
domains before have taken from Python's generator is left out, so two domains
with equally many candidates draw alike. Ingestion and registry changes happen
between the steps of an export: the query and the draw (`Select`), the lazy
fetch of each source when the worksheet is rendered (`Load`), the two further
reads for the report (`Report`), and the file (`Write`).

**`Secrets`.** A script is at its prompt, about to write, or about to replace.
`set_secret.py` reads the file after the prompt (`Enter`), `rotate_db_password.py`
before it (`Start`, `Rotate`). `Die` is an error or a kill before `os.replace`,
which is atomic. `current` only observes whether another script has replaced the
file since.

**`Evidence`.** Every writer is possible: the code that will write these tables
does not exist, and the schema is meant to bind it (claim.py). A statement that
violates a constraint has no effect. CHECKs are evaluated in SQL's three-valued
logic, and the properties read the rows in two-valued logic. Rows have the
columns constraints speak of.

## 3. Runs

| Run | Question | Bounds, and why they are enough |
| --- | --- | --- |
| `ingest_overlap` | Do two processes that ingest the same source at once, either of which may be killed, keep the tables consistent, and do both come to an end? | two processes, one source, two documents in either order, one invocation each: enough for a conflict, a wait, a deadlock and a loss between any two steps. The theorems cover every size. |
| `ingest_nightly` | Who is polled again, is the summary true, and do readers see whole polls? | one process run twice over a source of each sort (two that work, one without a host, one without a fetcher), each kind of command line, one that names a source nobody knows among them, every fault |
| `ingest_abort` (violation) | Is every error recorded on the run, as the docstring of `ingest_source` says? | as above, with one fault: an insert the server refuses |
| `fetch_polite` | Are requests under a limiter as far apart as the source asked, and is the limiter always given back? | two threads, two hosts, two sources of one host with different intervals, two attempts, one hop: a waiter, a sleeper and a raised interval meet |
| `paging` | What has a walk yielded when it looks complete? | five records on pages of one or two, three pages, two records of every shape, of five papers or of three in two ways (two versions next to each other, and apart), two withdrawals behind the cursor, totals from none to one too many |
| `coverage_daily` | Which documents can fall between two runs? | days of three ticks, until tick 11, two kinds of source, windows of one and two days; the last two runs are remembered, since the property is about consecutive ones |
| `coverage_ceiling` (violation) | Does the run after one cut short by `MAX_PAGES` reach back? | the schedule alone |
| `triage` | Outcomes, verdicts and cost under every answer; what becomes of a stage-two answer | up to five candidates, chunks of three, answers of up to three lines numbered up to four: a chunk is halved twice, in unequal halves; for stage two, texts of up to four lines and payloads at each limit of the contract |
| `evidence` | What can be stored, whatever is written and deleted? | three documents (a duplicate of a duplicate), one row of every other table, with symmetry |
| `labelling` | Quotas, determinism and labels under change | four documents of two sources, two of them copies of one preprint, two exports, one registry change |
| `registry` | What do readers see, and what has a sync achieved, while others sync and migrate? | two processes, the migrator, two sources, four versions of the file (two orders, other params, a source taken out, a changed kind, a source switched off), three syncs, two migrations: two overlapping syncs and a third alone, an upgrade and a downgrade; every mixture of locks, waits and kills of three actors. The theorems cover every size. |
| `secrets` | What is left of `.env` when scripts overlap and die? | two terminals, two URLs and one other key, two passwords, three scripts |

`MaxFetched`, `MaxStarts`, `MaxAge`, `MaxExports`, `MaxSyncs`, `MaxMigrations`, `MaxGaps`, `Horizon` and, for
the server, `PageSize` are bounds of the models; `MaxAttempts`, `MaxRedirects`,
`MaxPages`, `ChunkSize`, `PerDomain` are the program's own parameters, made small.

### What the passing runs show

*Ingestion.* `PassInv` is the invariant the proofs rest on, type correctness
included. `NoDuplicateDocument`: the ON CONFLICT clause is enough also while
the other transaction is open. `AuditMatchesStore`: `new_count` of a committed
run is exactly the number of documents that name it, also for a poll that failed
half-way. `ProvenanceResolves`. `RetryDiscipline`: at most one retry, of failed
sources only, after all others. `SummaryTruthful`: the exit code, the recovered
sources and the new documents printed are those the database shows.
`LedgerSpec`: readers only see whole polls arrive. `EveryInvocationEnds`.

*Registry.* `TableSpec`: readers see rows that are never deleted, columns some
file gave them, and migrations that happen at once. `TypeOK` includes the CHECK
on `kind`, also for a row synced between the downgrade's test and its ALTER TABLE.
`SyncMirrors`: a sync that commits leaves the table as its file says although it
wrote only what differed from rows it had read earlier, unless a sync of another
file committed in between; a migration in between does no harm, because it waits
for readers. `RowsUsable`: an active row is all of what some file says, or all of
its conversion, and has the params its kind needs with one exception, which the
property states: a `setSpec` of one segment, which `SourceSpec` accepts
(registry.py:56-69) although its message and `sources.yaml` know only longer ones,
becomes an empty category in the downgrade (0003_arxiv_oai_kind.py:59), which
`SourceSpec` does not accept. It holds until syncs of different files overlap; then
columns of both mix, the kind of one with the params of the other, until a sync is
alone again. `EveryTransactionEnds`.

*Fetching.* `RequestsSpaced` for every thread, retry and hop under one limiter;
`LimiterInv` is the invariant behind it; `LimiterNeverWedges`.

*Paging.* `Complete`: a walk that ended at the window's edge, the total or the last
token has missed, of the wanted records that are listed at its end (for Atom: and
were at its start), at most one for each record withdrawn or revised from behind its
cursor; none if there was no such. So an offset walk under a shrinking listing does
lose records, as many as `gaps` says and no more. A total that is too high does no
harm. One below what is listed, or none at all for Atom, ends a walk early
(`short`): the property says nothing of that ending, nor of those at an empty page
of Atom, the page ceiling or a repeated token. Each of these may lose documents, and
the run is recorded as OK all the same.
`NothingTwice` is about records: each is yielded at most once. A *paper* is yielded
twice by bioRxiv, once for each version listed, and by OAI if it is revised during
the walk; Atom yields it once. The code takes this on purpose: the insert is ON
CONFLICT DO NOTHING (arxiv_oai.py:27-30), and `NoDuplicateDocument` and
`AuditMatchesStore` of `Ingest` hold for a poll that yields a document again.
`WalkInv` is the inductive invariant behind both, with the types of the walk.

*Coverage.* `NoGap`: consecutive runs whose windows overlap, the later one
successful, leave nothing between them; for a harvest it suffices that no
calendar day is left out.

*Triage.* `OnePerInput`, `VerdictsAligned`, `RequestsBounded` (fewer than two
requests per title), `EstimateIsLowerBound` (what `radar triage estimate` prints
is at most what stage one sends; it sends more when candidates that skip the model
cut chunks short. With candidates that all skip it, the estimate is one request, of
`max(1, ...)` at cli.py:369, and none is sent: there the figure overstates, and the
property says so). `DecisionsParse`: an answer that the schema of the request
allows and that gives a reason becomes a decision, bare or fenced, and nothing
but one whole object does. The schema also allows an empty reason, which the
contract refuses; the property leaves that answer out.

*Evidence.* `ClaimsGrounded`, `EvidenceComplete`, `DraftsStorable`.

*Labelling.* `Stratified`, `Deterministic` (given distinct external ids, and the
same corpus: a nightly ingestion between two exports does change the sample),
`LabelsKept`. `ReportHonest`: the counts and missing domains printed are true of
the worksheet unless the registry was synced while the export was at work.

*Secrets.* `WholeFile`; `OthersKept`: a script changes the lines asked for and no
other unless the file was replaced after it read it. The gap is as long as a
person takes at the prompt of `rotate_db_password.py`.

### What the violations show

* `ingest_abort`: when PostgreSQL raises inside `insert_document`, the flush in
  the `finally` clause of `ingest_source` raises on the aborted transaction; the
  error is not recorded and the sources still to come are not polled, unlike the
  docstring says.
* `coverage_ceiling`: no run reads what an earlier one achieved, so `since` does
  assume what the comment at `MAX_PAGES` says it must not.

### Fairness

Three runs check liveness. `Ingest!FairSpec` is fair to `Advance` alone: a process
that can take a step of its own eventually does, and PostgreSQL's deadlock detector
runs. What goes wrong (`Disturb`: documents the driver refuses, errors of the server,
lost commits, kills) may happen and need not, so a process in a deadlock has no fair
step but that of the detector, and with a detector that ends nobody
`EveryInvocationEnds` fails (its mutant). Of feeds it assumes that a poll yields at
most `MaxFetched` documents, as the page ceilings guarantee. `Fetching!FairSpec`
assumes that time passes and that a thread that can go on does: a sleep ends, a
request is answered or times out (the client is built with a timeout). The
limiter's lock is not assumed to be fair, which is why the property is that
*someone* is served. `Registry!FairSpec` assumes that a process that can make a
statement, commit, or be ended by the detector eventually does, and the same of
the migration: nothing in a sync waits for a person or a server other than
PostgreSQL. Starts and kills are not fair. All other properties are safety
properties; where a run checks both, fairness excludes no finite behaviour.

## 4. Proofs

Every invariant and every action property that a passing run checks, and both
refinements, are proved for every value of the constants that satisfies the named
assumptions (`ConstantsOK` in `Ingest` and in `Fetching`, `RegistryConstants`,
`CoverageConstants`, `PagingConstants`, `TriageConstants`, `LabellingConstants`,
`EvidenceConstants`, `SecretsConstants`), which TLC evaluates in every run of the
module. They type the constants and say that numbers that count something are
positive; of the world they assume only that the registry file of `Ingest` and `Registry`
names each source once, with parameters `SourceSpec` accepts of its kind, and in
`Registry` finitely many of them (what `load_registry` has checked), that the
corpus of `Labelling` and each listing of `Paging` is finite, and of `Evidence`
that NULL is none of the words and keys.

| Theorem | Says |
| --- | --- |
| `IngestProofs!Invariance`, `PassInvariance` | `Spec => []Inv`, `Spec => []PassInv` |
| `TypeCorrect`, `DocumentsUnique`, `AuditCorrect`, `ProvenanceCorrect` | the invariants of the same subjects |
| `RetriesDisciplined`, `SummaryCorrect` | `RetryDiscipline` and `SummaryTruthful`, for any registry, any faults and any number of processes |
| `LedgerRefined` | `Spec => LedgerSpec`: `Ingest` implements `SourceLedger` |
| `FetchingProofs!FetchTypeCorrect`, `LimiterInvariance` | the types, with the bounds on attempts and hops, and `LimiterInv` |
| `Politeness` | `Spec => RequestsSpaced` |
| `RegistryProofs!TypeCorrect` | the types, with the CHECK on `kind` under concurrent syncs and migrations |
| `TableRefined` | `Spec => TableSpec`: `Registry` implements `SourceTable` |
| `SyncMirrored`, `RowsStayUsable` | `SyncMirrors` and `RowsUsable`, for setSpecs of any number of segments, one included |
| `FetcherProofs!TypeCorrect`, `OverlapLeavesNoGap` | the types of `Coverage`, and `NoGap` for days, schedules, windows and feeds of any size |
| `WalkInvariance`, `WalkComplete`, `WalkYieldsOnce` | `WalkInv`, `Complete` and `NothingTwice`, for listings, pages and ceilings of any size, any number of withdrawals, and papers with any number of versions and revisions |
| `TriageProofs!TypeCorrect`, `OutcomesInOrder`, `VerdictsStayAligned` | the types, `OnePerInput` and `VerdictsAligned`, for any input, chunk size and set of answers |
| `HalvingIsCheap`, `EstimateIsLeast` | `RequestsBounded` and `EstimateIsLowerBound` |
| `AnswersParse` | `StageTwo => []DecisionsParse` |
| `LabellingProofs!LabelsNeverLost` | `Spec => LabelsKept` |
| `TypeCorrect`, `SampleStratified`, `SampleDeterministic`, `ReportCorrect` | the types, `Stratified`, `Deterministic` and `ReportHonest`, for any corpus, quota and generator |
| `SecretsProofs!EnvAlwaysWhole`, `OtherLinesKept` | `WholeFile` and `OthersKept` |
| `EvidenceProofs!TypeCorrect`, `StoredClaimsAreGrounded`, `EvidenceIsComplete` | the types, `ClaimsGrounded` and `EvidenceComplete` |
| `AcceptedPasses`, `ContractMirrorsChecks` | every draft the contract accepts, with a verified quote of any length, passes the CHECKs; so `DraftsStorable` |

*Ingestion.* The tables alone are not inductive: a commit is right only if the
open transaction holds what the frame of `ingest_source` has counted. `Inv` adds
that (`Frame`), that the rows of the registry are there before the first poll
(`Synced`), that run ids are fresh (`RunIdsUnique`), and that no two transactions
hold the same key. Each action either leaves the tables alone (`TablesQuiet`),
adds one document to a transaction (`TablesInsert`) or commits (`TablesCommit`);
`Bystander` carries the frames of the other processes. The refinement follows
from `Inv` and from the only step that changes committed rows (`CommitRecords`).

*The two passes.* That a source is polled again only if it failed, and only after
all others, is a fact about the list `polls` and where the loops stand. `Walk`
states it: the list is what the first n turns of the first pass leave, in the order
of the registry, followed by one run for each source retried (`Walked`), and each
run is the row in the database. Every action adds a run or leaves list and loops
alone (`WalkRecord` and its like). The summary follows at the end: the runs that
still stand for their source are a bijection away from those the database calls
failed (`SameCount`), and the sum printed equals the number of documents because the
least prefix at which they differed would have a run whose count was wrong (`SumIs`,
from `LeastNumber`).

*Fetching.* A thread that has a permit and has not sent yet can only be overtaken
by one whose source asks for no interval: `PermitFresh` says so of the sleeper's
remaining nap, `LockKept` that the sleeper holds the lock and that its nap ends
no earlier than its source's interval, `IntervalKept` that the interval in force
is at least the one it asked for, because `for_host` never lowers it.

*Registry.* What commits depends on what the open transactions hold, so `Inv` says
of each (`Flushing`) that what it wrote and has still to write is what its file
says of rows that are stored, and all of it for rows that are not, with a kind
the revision in force allows; of the migration (`Migrating`) that the rows it
converted are locked and as it read them, and that once the table is altered
nobody is between two statements; and that no two of them hold a row (`Disjoint`).
The refinement follows: a commit is one `Sync` of the abstract table, the commit
of a migration its `Upgrade` or `Downgrade`, every other step a stutter.
`SyncMirrors` needs more, because a column is written only if it differed when
it was read: `Tracking` says that each column of each row is written, or still to
be written, or *is* what the file says (`Settled`), as long as only syncs of the
same file committed meanwhile; at the commit nothing is left to write.

*Coverage.* A document published after the earlier run began is within the
window of the later one: at once for a feed; for a harvest because flooring to
the day commutes with subtracting days (`DayShift`). In a feed that kept up, fewer
than `FeedSize` entries are newer than it (`NewestListed`), so it is listed. The
invariant adds the types of the log and that no run begins in the future.

*Paging.* The places of a listing are 0, 1, ... (`EveryPlaceTaken`: the place is an
injection into as many numbers as there are records), so a slice holds as many
records as it has places (`SliceSize`) and the bioRxiv cursor, which adds what it
got, is at the place after the last. `Behind` is what a cursor means: of what is due
and has a place below the cursor (`Lost`), at most `gaps` records have not been
yielded. A page only takes from what lies ahead (`PageLoses`). A new record at the
front moves others away from the start, and one at the end moves none; a withdrawal
behind the cursor moves every later record up by one, so one record at most, the one
at the cursor, falls behind it (`OnePlaceEach`), and `gaps` has grown by one. In a
listing that grows at its end a withdrawal may also leave the cursor beyond the end,
and a new record then appears behind it: `gaps` pays for that as well, by
cursor + |`Lost`| <= |listing| + `gaps`. A record older than the window has every
newer one ahead of it, which is why the edge may end an Atom walk. For the two
listings that grow at their end what has been yielded and is still listed lies below
the cursor, also when records are withdrawn. Atom does not have that, and needs its
seen set, which is one of papers: `Papered` says that Atom's records are of different
papers, and that what came after the first request is newer than all that was there,
so of two yielded records of one paper the second is a version or a revision
(`PaperOnce`).

*Triage.* `Inv` relates the chunk, the stack of spans and the verdicts in hand:
what is pending are the last candidates seen (`Queued`), the spans on the stack lie
side by side and cover what is left of the chunk (`Spans`), and the k-th verdict in
hand is what was said of the k-th candidate of the chunk (`Judged`). A halving keeps
the first two and an answer that lines up extends the third. The cost is a potential:
calls made, plus two for every title of the chunk without a verdict, minus the spans
still to ask about, stays below twice the titles screened (`Cost`), since a halving
makes one call and one span more. A span of a title asked about again is half as
long as the last (`Depth`), and each call is about one chunk at most (`Paid`), from
which the estimate of a screening with something to screen follows; without, `Cost`
says that there was no call.

*Labelling.* `NothingToLose`: while an export that was not forced is at work there
is no worksheet, because only an export makes one and there is one at a time. The
sample (`SampleInv`) is what the generator takes of the ranks of each domain's
candidates; the ranks are 1, 2, ... (`RankOnto`), so it takes as many documents as
numbers (`TakenCount`, `Quota`). Two exports of one corpus agree because its documents
have one order if no external id is there twice (`OneOrder`). The report is true
because what `coverage` and `missing_domains` read is what the draw read, as long as
the registry is quiet (`JobKnows`).

*Secrets.* `InHand`: a script whose file has not been replaced since it read it
holds that file with only the lines asked for changed, and at its prompt the file
itself.

*Evidence.* `ClaimsGrounded` and `EvidenceComplete` are inductive beside the
types. What needs an argument is that a CHECK with NULLs in it amounts to its
plain reading: `DateCheckIsPlain`, `ListCheckIsPlain`, `ForecastCheckIsPlain` and
`DuplicateCheckIsPlain` say so of each, given that NULL is none of the words and
keys. The last is also why deleting an original is refused while a duplicate
names it: the row SET NULL leaves would fail its CHECK. For `DraftsStorable` the
same is shown the other way round: `DatedPasses`, `ListedPasses`, `ForecastPasses`.

Only model-checked: liveness (`EveryInvocationEnds`, `LimiterNeverWedges`,
`EveryTransactionEnds`), which needs ENABLED and is out of the prover's reach, and
the two violations, which are counterexamples. The library's induction theorems take
an operator as a parameter, which the provers installed do not instantiate; where an
argument goes over the length of a list or the depth of a halving it is made by a
least counterexample instead (`LeastNumber`), and no module declares a RECURSIVE
operator. What is proved is proved of the models: the steps named as external stay
assumptions about PostgreSQL, the servers and the language model.

## 5. Not modelled

* Text: parsing of XML, HTML, YAML and dates beyond what the outcome is,
  normalisation of quotes, prompts, prices and token counts, log lines.
* The address checks of `http.py` beyond pass or raise, and byte limits; the cap a
  server's `Retry-After` lacks against the workflow's 30 minutes.
* Validation of the registry file beyond what `params` must hold.
* The prefilter: a pure function used by a report (ADR-0008 took it out).
* The check of a worksheet: a pure validation of one file.
* Technologies, organisations and review tables: nothing writes them, and
  `technology.merged_into` has the constraints of `duplicate_of`, which `Evidence`
  models and proves about.
* Migrations 0001 and 0002, which create empty tables; their constraints are those
  of the tables modelled.
* Settings, argument parsing, reports that write nothing; file modes of `.env`.

## 6. Plan

Done, in this order: `SourceLedger`, `Ingest` and its proofs; `Fetching` and its
proofs; `Paging`; `Coverage`; `Triage`; `Labelling`; `Evidence` and its proofs;
`SourceTable`, `Registry` and its proofs; `Secrets` and its proofs; the report of
`Labelling`; `Decisions`; the proofs of `Labelling` and `Coverage`; the proofs of
`Triage` and `Decisions`, of the two passes of `Ingest`, of the samples of
`Labelling`, of the contract in `Evidence`, and of `Paging`.

Next, modelling:

1. `Retry-After` and the workflow's time limit in one model with `Coverage`.
2. A composition of `Paging` with `Ingest`'s poll: which incomplete walks are
   recorded as OK.
3. The check of a worksheet against a database that went on; the review tables in
   `Evidence` once code writes them.

Next, proofs:

1. An abstract specification of `discover` (a walk yields a set of records, each
   once, and says whether it is complete), and that `Paging` implements it.
2. An abstract specification of `screen` (one outcome after the other, in order),
   and that `Triage` implements it.
