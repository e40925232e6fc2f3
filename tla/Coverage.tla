------------------------------ MODULE Coverage ------------------------------
(***************************************************************************)
(* The window of the nightly job: GitHub starts `radar ingest --since 1d`  *)
(* once a day, late or not at all, and each fetcher turns `since` into the *)
(* documents it asks for.  No run looks at what an earlier one achieved.   *)
(*                                                                         *)
(* One source.  Time is in ticks, Day of them to a UTC day; a document is  *)
(* the tick it was published at.  A run takes less than a tick.            *)
(***************************************************************************)
EXTENDS Integers, Sequences, FiniteSets

CONSTANTS
  Kinds,     \* "feed" (RssFetcher), "harvest" (ArxivOaiFetcher, BiorxivFetcher)
  Day,       \* ticks in a day
  Cron,      \* the tick of the day the schedule names
  Windows,   \* the days of --since in the runs started by hand
  FeedSize,  \* entries a feed file holds
  Undated,   \* the ticks at which a feed's entry carries no date that parses
  Horizon    \* bound: the last tick

ASSUME CoverageConstants ==
  /\ Kinds \subseteq {"feed", "harvest"}
  /\ Day \in Nat \ {0} /\ Cron \in 0..(Day - 1)
  /\ Windows \subseteq Nat \ {0} /\ Undated \subseteq Nat
  /\ FeedSize \in Nat /\ Horizon \in Nat /\ 2 * Day <= Horizon

VARIABLES
  kind, now,
  published,   \* the documents of the source
  stored,      \* those in source_document
  due,         \* a scheduled job waits to be started
  runs         \* the latest two fetch_run rows: [start, window, since, outcome]

vars == <<kind, now, published, stored, due, runs>>

DayOf(t) == t \div Day

Init ==
  /\ kind \in Kinds
  /\ now = 2 * Day /\ published = {} /\ stored = {}
  /\ due = FALSE /\ runs = << >>

Publish ==
  /\ published' = published \cup {now}
  /\ UNCHANGED <<kind, now, stored, due, runs>>

\* The schedule comes round once a day.  The concurrency group lets one job
\* wait; a second one takes its place.
Tick ==
  /\ now < Horizon
  /\ now' = now + 1
  /\ due' = (due \/ now' % Day = Cron)
  /\ UNCHANGED <<kind, published, stored, runs>>

\* The job is not started: the schedule is disabled, the database is not
\* configured, or GitHub drops the event.
Skip ==
  /\ due
  /\ due' = FALSE
  /\ UNCHANGED <<kind, now, published, stored, runs>>

\* Mutant: the harvest asks for the exact instant.
ExactFrom(since) == since

\* build_url of the OAI fetcher and discover of the bioRxiv one floor `since`
\* to its UTC date; a feed is filtered by the exact instant.
From(since) == IF kind = "harvest" THEN DayOf(since) * Day ELSE since

\* A feed holds its newest entries only.
Listed ==
  IF kind = "harvest" THEN published
  ELSE {d \in published : Cardinality({e \in published : e > d}) < FeedSize}

\* What parse_feed_datetime makes of an entry; a harvest is asked by date.
Dated(d) == kind = "harvest" \/ d \notin Undated

\* RssFetcher.discover keeps an entry without a date.
Found(since) == {d \in Listed : ~Dated(d) \/ d >= From(since)}

Latest(log) == IF Len(log) > 2 THEN Tail(log) ELSE log

\* Mutant: the days are added.
DaysAhead(w) == now + w * Day

ParseSince(w) == now - w * Day

\* cmd_ingest with --since <w>d, counted back from now.  A run that reaches
\* the page ceiling ends OK, one that fails is recorded as an error; what
\* either inserted before stays.
Run(w) ==
  LET since == ParseSince(w)
      row(outcome) == [start |-> now, window |-> w, since |-> since, outcome |-> outcome]
  IN  \/ /\ stored' = stored \cup Found(since)
         /\ runs' = Latest(Append(runs, row("ok")))
      \/ /\ \E part \in SUBSET Found(since) : stored' = stored \cup part
         /\ \E outcome \in (IF kind = "harvest" THEN {"cut", "error"} ELSE {"error"}) :
              runs' = Latest(Append(runs, row(outcome)))

Scheduled == due /\ Run(1) /\ due' = FALSE /\ UNCHANGED <<kind, now, published>>

\* workflow_dispatch, at most once a tick.
Dispatched ==
  /\ \A i \in DOMAIN runs : runs[i].start < now
  /\ \E w \in Windows : Run(w)
  /\ UNCHANGED <<kind, now, published, due>>

Next == Publish \/ Tick \/ Skip \/ Scheduled \/ Dispatched

Spec == Init /\ [][Next]_vars
-----------------------------------------------------------------------------
(* The types of the variables; a run reaches back from its own start.        *)
TypeOK ==
  /\ kind \in Kinds /\ now \in (2 * Day)..Horizon
  /\ published \subseteq (2 * Day)..now /\ stored \subseteq published
  /\ due \in BOOLEAN
  /\ Len(runs) <= 2
  /\ \A i \in DOMAIN runs :
       /\ runs[i].start \in (2 * Day)..now /\ runs[i].window \in Windows \cup {1}
       /\ runs[i].since \in Int /\ runs[i].since < runs[i].start
       /\ runs[i].outcome \in {"ok", "cut", "error"}

\* The earlier run began before the window of the later one was over: for a
\* feed to the instant, for a harvest on one of the window's calendar days.
Overlaps ==
  IF kind = "harvest"
  THEN DayOf(runs[2].start) - DayOf(runs[1].start) <= runs[2].window
  ELSE runs[2].start - runs[1].start <= runs[2].window * Day

\* No entry fell off the end of the feed between the two runs.
KeptUp == kind = "harvest" \/ Cardinality({d \in published : runs[1].start <= d}) <= FeedSize

(* Nothing published between two runs is missing when the later one          *)
(* succeeds and its window overlaps the earlier one.  For a harvest a        *)
(* delayed start is absorbed as long as no calendar day is left out.         *)
(* (parse_since, build_url's flooring, RssFetcher.discover's filter)         *)
NoGap ==
  Len(runs) = 2 /\ runs[2].outcome = "ok" /\ Overlaps /\ KeptUp
    => \A d \in published : runs[1].start <= d /\ d < runs[2].start => d \in stored

(* The comments at MAX_PAGES in arxiv_oai.py and biorxiv.py: a window that   *)
(* was cut short was "not fully harvested, and the next run's since must not *)
(* assume otherwise".                                                        *)
NextRunReachesBack ==
  Len(runs) = 2 /\ runs[1].outcome = "cut" => runs[2].since <= runs[1].since
=============================================================================
