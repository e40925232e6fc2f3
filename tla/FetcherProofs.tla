--------------------------- MODULE FetcherProofs ----------------------------
(***************************************************************************)
(* Proofs about the two models of the fetchers.  Coverage: consecutive     *)
(* runs whose windows overlap leave no document out, for days, schedules,  *)
(* windows and feeds of any size.  Paging: a walk that ends as a complete  *)
(* one does has missed at most one record for each that went away behind   *)
(* its cursor, and has yielded no record twice, for listings, pages and    *)
(* ceilings of any size and any number of versions and revisions.          *)
(***************************************************************************)
EXTENDS Coverage, Paging, FiniteSetTheorems, FunctionTheorems, TLAPS

(***************************************************************************)
(* The window of the nightly job (Coverage).                               *)
(***************************************************************************)
Rows == [start : Nat, window : Nat \ {0}, since : Int, outcome : {"ok", "cut", "error"}]

Inv ==
  /\ kind \in {"feed", "harvest"} /\ now \in Nat
  /\ published \subseteq 0..now /\ IsFiniteSet(published)
  /\ runs \in Seq(Rows) /\ Len(runs) <= 2
  /\ \A i \in DOMAIN runs : runs[i].start <= now
  /\ NoGap

(***************************************************************************)
(* Calendar days.                                                          *)
(***************************************************************************)
LEMMA DayBounds ==
  ASSUME NEW t \in Int
  PROVE  DayOf(t) \in Int /\ DayOf(t) * Day <= t /\ t < DayOf(t) * Day + Day
BY CoverageConstants DEF DayOf

LEMMA DayShift ==
  ASSUME NEW t \in Int, NEW w \in Int
  PROVE  DayOf(t - w * Day) * Day = DayOf(t) * Day - w * Day
<1> DEFINE a == DayOf(t - w * Day)
           b == DayOf(t) - w
<1>1. Day \in Nat /\ Day > 0 /\ w * Day \in Int
  BY CoverageConstants
<1>2. a \in Int /\ a * Day <= t - w * Day /\ t - w * Day < a * Day + Day
  BY <1>1, DayBounds
<1>3. b \in Int /\ b * Day = DayOf(t) * Day - w * Day
  BY <1>1, DayBounds
<1>4. b * Day <= t - w * Day /\ t - w * Day < b * Day + Day
  BY <1>1, <1>3, DayBounds
<1> HIDE DEF a, b
<1>5. a * Day < b * Day + Day /\ b * Day < a * Day + Day
  BY <1>1, <1>2, <1>3, <1>4
<1>6. a * Day < (b + 1) * Day /\ b * Day < (a + 1) * Day
  BY <1>1, <1>2, <1>3, <1>5
<1>7. a < b + 1 /\ b < a + 1
  BY <1>1, <1>2, <1>3, <1>6
<1>8. a = b
  BY <1>2, <1>3, <1>7
<1> QED BY <1>3, <1>8 DEF a, b

(***************************************************************************)
(* A feed that kept up lists what was published since the earlier run.     *)
(***************************************************************************)
LEMMA NewestListed ==
  ASSUME IsFiniteSet(published), published \subseteq Nat, NEW s \in Nat,
         Cardinality({d \in published : s <= d}) <= FeedSize,
         NEW d \in published, s <= d
  PROVE  Cardinality({e \in published : e > d}) < FeedSize
<1> DEFINE newer == {e \in published : e > d}
           since == {e \in published : s <= e}
<1>1. IsFiniteSet(since) /\ Cardinality(since) \in Nat
  BY FS_Subset, FS_CardinalityType
<1>2. newer \subseteq since /\ d \in since /\ d \notin newer
  <2>1. d \in Nat /\ \A e \in newer : e \in Nat /\ e > d /\ e \in published
    OBVIOUS
  <2>2. \A e \in newer : s <= e
    BY <2>1
  <2>3. ~(d > d)
    BY <2>1
  <2> QED BY <2>1, <2>2, <2>3
<1> HIDE DEF newer, since
<1>3. /\ IsFiniteSet(newer) /\ Cardinality(newer) <= Cardinality(since)
      /\ Cardinality(newer) # Cardinality(since)
  BY <1>1, <1>2, FS_Subset
<1>4. Cardinality(newer) \in Nat
  BY <1>3, FS_CardinalityType
<1>5. Cardinality(newer) < FeedSize
  BY <1>1, <1>3, <1>4, CoverageConstants DEF since
<1> QED BY <1>5 DEF newer

(***************************************************************************)
(* What a run takes.                                                       *)
(***************************************************************************)
\* The documents a successful run finds are those of its window.
LEMMA RunFinds ==
  ASSUME kind \in {"feed", "harvest"}, now \in Nat, published \subseteq 0..now,
         IsFiniteSet(published), NEW w \in Nat \ {0}, NEW s \in Nat,
         IF kind = "harvest" THEN DayOf(now) - DayOf(s) <= w ELSE now - s <= w * Day,
         kind = "harvest" \/ Cardinality({d \in published : s <= d}) <= FeedSize,
         NEW d \in published, s <= d
  PROVE  d \in Found(ParseSince(w))
<1>1. d \in Nat /\ Day \in Nat /\ Day > 0 /\ w * Day \in Int /\ published \subseteq Nat
  BY CoverageConstants
<1>2. CASE kind = "harvest"
  <2>1. From(ParseSince(w)) = DayOf(now) * Day - w * Day
    BY <1>2, DayShift DEF From, ParseSince
  <2>2. DayOf(now) \in Int /\ DayOf(s) \in Int /\ DayOf(s) * Day <= s
    BY DayBounds
  <2>3. DayOf(now) - w <= DayOf(s)
    BY <1>2, <2>2
  <2>4. (DayOf(now) - w) * Day <= DayOf(s) * Day
    BY <1>1, <2>2, <2>3
  <2>5. DayOf(now) * Day - w * Day <= DayOf(s) * Day
    BY <1>1, <2>2, <2>4
  <2>6. d >= From(ParseSince(w))
    BY <1>1, <2>1, <2>2, <2>5
  <2> QED BY <1>2, <2>6 DEF Found, Listed, Dated
<1>3. CASE kind = "feed"
  <2>1. d >= From(ParseSince(w))
    BY <1>1, <1>3 DEF From, ParseSince
  <2>2. Cardinality({e \in published : e > d}) < FeedSize
    BY <1>1, <1>3, NewestListed
  <2> QED BY <1>3, <2>1, <2>2 DEF Found, Listed
<1> QED BY <1>2, <1>3

LEMMA LogRows ==
  ASSUME NEW log \in Seq(Rows), NEW i \in DOMAIN log
  PROVE  log[i] \in Rows /\ log[i].start \in Nat
<1>1. log[i] \in Rows
  OBVIOUS
<1> QED BY <1>1 DEF Rows

LEMMA PairDomain ==
  ASSUME NEW pair \in Seq(Rows), Len(pair) = 2
  PROVE  DOMAIN pair = 1..2
OBVIOUS

\* The log after a run.
LEMMA LatestRuns ==
  ASSUME runs \in Seq(Rows), Len(runs) <= 2, NEW row \in Rows
  PROVE  LET log == Latest(Append(runs, row))
         IN  /\ log \in Seq(Rows) /\ Len(log) <= 2 /\ Len(log) >= 1 /\ log[Len(log)] = row
             /\ Len(log) = 2 => Len(runs) >= 1 /\ log[1] = runs[Len(runs)]
             /\ \A i \in DOMAIN log : log[i] = row \/ \E j \in DOMAIN runs : log[i] = runs[j]
<1> DEFINE longer == Append(runs, row)
<1>1. /\ Len(runs) \in Nat /\ longer \in Seq(Rows) /\ Len(longer) = Len(runs) + 1
      /\ longer[Len(runs) + 1] = row /\ \A i \in 1..Len(runs) : longer[i] = runs[i]
      /\ DOMAIN runs = 1..Len(runs) /\ DOMAIN longer = 1..(Len(runs) + 1)
  OBVIOUS
<1> HIDE DEF longer
<1>2. CASE Len(runs) = 2
  <2>1. Latest(longer) = Tail(longer)
    BY <1>1, <1>2 DEF Latest
  <2>2. /\ Tail(longer) \in Seq(Rows) /\ Len(Tail(longer)) = 2 /\ DOMAIN Tail(longer) = 1..2
        /\ Tail(longer)[1] = runs[2] /\ Tail(longer)[2] = row
    <3>1. /\ longer \in Seq(Rows) /\ Len(longer) = 3 /\ longer[2] = runs[2] /\ longer[3] = row
      BY <1>1, <1>2
    <3>2. /\ Tail(longer) \in Seq(Rows) /\ Len(Tail(longer)) = 2 /\ DOMAIN Tail(longer) = 1..2
      <4>1. longer # << >>
        BY <3>1
      <4>2. Tail(longer) \in Seq(Rows)
        BY <3>1, <4>1
      <4>3. Len(Tail(longer)) = 2
        BY <3>1
      <4> QED BY <4>2, <4>3, PairDomain
    <3>3. Tail(longer)[1] = longer[2] /\ Tail(longer)[2] = longer[3]
      BY <3>1, <3>2
    <3> QED BY <3>1, <3>2, <3>3
  <2>3. 2 \in DOMAIN runs
    BY <1>1, <1>2
  <2> QED BY <1>2, <2>1, <2>2, <2>3 DEF longer
<1>3. CASE Len(runs) # 2
  <2>1. Latest(longer) = longer
    BY <1>1, <1>3 DEF Latest
  <2> QED BY <1>1, <1>3, <2>1 DEF longer
<1> QED BY <1>2, <1>3

LEMMA InvRun ==
  ASSUME Inv, NEW w \in Nat \ {0}, Run(w), UNCHANGED <<kind, now, published>>
  PROVE  Inv'
<1> USE DEF Inv
<1> DEFINE row(outcome) == [start |-> now, window |-> w, since |-> ParseSince(w), outcome |-> outcome]
<1>1. PICK outcome \in {"ok", "cut", "error"} :
        /\ runs' = Latest(Append(runs, row(outcome))) /\ stored \subseteq stored'
        /\ outcome = "ok" => stored' = stored \cup Found(ParseSince(w))
  BY DEF Run
<1>2. row(outcome) \in Rows /\ row(outcome).start = now /\ row(outcome).window = w
      /\ row(outcome).outcome = outcome
  BY CoverageConstants DEF Rows, ParseSince
<1> DEFINE last == row(outcome)
<1> HIDE DEF row, last
<1>3. last \in Rows /\ last.start = now /\ last.window = w /\ last.outcome = outcome
      /\ runs' = Latest(Append(runs, last))
  BY <1>1, <1>2 DEF last
<1>4. /\ runs' \in Seq(Rows) /\ Len(runs') <= 2 /\ runs'[Len(runs')] = last
      /\ Len(runs') = 2 => Len(runs) >= 1 /\ runs'[1] = runs[Len(runs)]
      /\ \A i \in DOMAIN runs' : runs'[i] = last \/ \E j \in DOMAIN runs : runs'[i] = runs[j]
  BY <1>3, LatestRuns
<1>5. \A i \in DOMAIN runs' : runs'[i].start <= now
  BY <1>3, <1>4
<1>6. NoGap'
  <2> SUFFICES ASSUME Len(runs') = 2, runs'[2].outcome = "ok", Overlaps', KeptUp',
                      NEW d \in published, runs'[1].start <= d, d < runs'[2].start
               PROVE  d \in stored'
    BY DEF NoGap
  <2> DEFINE s == runs'[1].start
  <2>1. runs'[2] = last /\ 1 \in DOMAIN runs' /\ s \in Nat
    BY <1>4, LogRows
  <2>2. IF kind = "harvest" THEN DayOf(now) - DayOf(s) <= w ELSE now - s <= w * Day
    BY <1>3, <2>1 DEF Overlaps
  <2>3. kind = "harvest" \/ Cardinality({x \in published : s <= x}) <= FeedSize
    BY DEF KeptUp
  <2> HIDE DEF s
  <2>4. s <= d
    BY DEF s
  <2>5. d \in Found(ParseSince(w))
    BY <2>1, <2>2, <2>3, <2>4, RunFinds
  <2>6. outcome = "ok"
    BY <1>3, <2>1
  <2> QED BY <1>1, <2>5, <2>6
<1> QED BY <1>4, <1>5, <1>6

LEMMA InvInit == Init => Inv
<1> SUFFICES ASSUME Init PROVE Inv
  OBVIOUS
<1>1. kind \in {"feed", "harvest"} /\ now \in Nat
  BY CoverageConstants DEF Init
<1>2. published = {} /\ IsFiniteSet(published)
  BY FS_EmptySet DEF Init
<1>3. runs = << >>
  BY DEF Init
<1>4. runs \in Seq(Rows) /\ Len(runs) = 0 /\ DOMAIN runs = {}
  BY <1>3
<1> QED BY <1>1, <1>2, <1>4 DEF Inv, NoGap

\* What a run finds was published.
LEMMA FoundPublished ==
  ASSUME NEW since
  PROVE  Found(since) \subseteq published
BY DEF Found, Listed

LEMMA TypeInit == Init => TypeOK
<1> SUFFICES ASSUME Init PROVE TypeOK
  OBVIOUS
<1>1. now \in (2 * Day)..Horizon
  BY CoverageConstants DEF Init
<1>2. runs = << >>
  BY DEF Init
<1>3. Len(runs) = 0 /\ DOMAIN runs = {}
  BY <1>2
<1>4. kind \in Kinds /\ published = {} /\ stored = {} /\ due \in BOOLEAN
  BY DEF Init
<1> QED BY <1>1, <1>3, <1>4 DEF TypeOK

LEMMA TypeRun ==
  ASSUME Inv, TypeOK, NEW w \in Windows \cup {1}, Run(w), UNCHANGED <<kind, now, published>>,
         due' \in BOOLEAN
  PROVE  TypeOK'
<1> DEFINE row(outcome) == [start |-> now, window |-> w, since |-> ParseSince(w), outcome |-> outcome]
<1>1. PICK outcome \in {"ok", "cut", "error"} : runs' = Latest(Append(runs, row(outcome)))
  BY DEF Run
<1> DEFINE last == row(outcome)
<1>2. w \in Nat \ {0} /\ Day \in Nat \ {0} /\ now \in Int /\ w * Day \in Nat /\ w * Day > 0
  <2>1. w \in Nat \ {0} /\ Day \in Nat \ {0} /\ now \in Nat
    BY CoverageConstants DEF Inv
  <2>2. w * Day \in Nat /\ w * Day > 0
    BY <2>1
  <2> QED BY <2>1, <2>2
<1>3. /\ last \in Rows /\ last.start = now /\ last.window = w /\ last.outcome = outcome
      /\ last.since \in Int /\ last.since < now
  <2>1. ParseSince(w) \in Int /\ ParseSince(w) < now /\ now \in Nat
    BY <1>2 DEF ParseSince, Inv
  <2> QED BY <1>2, <2>1 DEF Rows
<1> HIDE DEF last
<1>4. /\ Len(runs') <= 2
      /\ \A i \in DOMAIN runs' : runs'[i] = last \/ \E j \in DOMAIN runs : runs'[i] = runs[j]
  BY <1>1, <1>3, LatestRuns DEF last, Inv
<1>5. stored' \subseteq published
  BY FoundPublished DEF Run, TypeOK
<1>6. now \in (2 * Day)..now
  BY <1>2, CoverageConstants DEF TypeOK
<1>7. ASSUME NEW i \in DOMAIN runs'
      PROVE  /\ runs'[i].start \in (2 * Day)..now /\ runs'[i].window \in Windows \cup {1}
             /\ runs'[i].since \in Int /\ runs'[i].since < runs'[i].start
             /\ runs'[i].outcome \in {"ok", "cut", "error"}
  BY <1>1, <1>3, <1>4, <1>6, <1>7 DEF TypeOK
<1> QED BY <1>4, <1>5, <1>7 DEF TypeOK

LEMMA TypeNext == Inv /\ TypeOK /\ [Next]_vars => TypeOK'
<1> SUFFICES ASSUME Inv, TypeOK, [Next]_vars PROVE TypeOK'
  OBVIOUS
<1>0. Day \in Nat /\ now \in (2 * Day)..Horizon
  BY CoverageConstants DEF TypeOK
<1>1. CASE Publish
  <2>1. published' \subseteq (2 * Day)..now /\ stored \subseteq published'
    BY <1>0, <1>1 DEF Publish, TypeOK
  <2> QED BY <1>1, <2>1 DEF Publish, TypeOK
<1>2. CASE Tick
  <2>1. now' \in (2 * Day)..Horizon /\ UNCHANGED <<kind, published, stored, runs>> /\ due' \in BOOLEAN
    BY <1>0, <1>2, CoverageConstants DEF Tick, TypeOK
  <2>2. (2 * Day)..now \subseteq (2 * Day)..now'
    BY <1>0, <1>2 DEF Tick
  <2> QED BY <2>1, <2>2 DEF TypeOK
<1>3. CASE Skip \/ UNCHANGED vars
  BY <1>3 DEF Skip, vars, TypeOK
<1>4. CASE Scheduled
  BY <1>4, TypeRun DEF Scheduled
<1>5. CASE Dispatched
  BY <1>5, TypeRun DEF Dispatched, TypeOK
<1> QED BY <1>1, <1>2, <1>3, <1>4, <1>5 DEF Next

\* More documents later do not make a feed have kept up.
LEMMA KeptUpBefore ==
  ASSUME IsFiniteSet(published), IsFiniteSet(published'), published \subseteq published',
         kind' = kind, runs' = runs, KeptUp'
  PROVE  KeptUp
<1>1. CASE kind = "harvest"
  BY <1>1 DEF KeptUp
<1>2. CASE kind # "harvest"
  <2> DEFINE before == {d \in published : runs[1].start <= d}
             after == {d \in published' : runs[1].start <= d}
  <2>1. before \subseteq after /\ Cardinality(after) <= FeedSize
    BY <1>2 DEF KeptUp
  <2>2. IsFiniteSet(after) /\ IsFiniteSet(before)
    BY FS_Subset
  <2> HIDE DEF before, after
  <2>3. Cardinality(before) <= Cardinality(after) /\ Cardinality(before) \in Nat /\ Cardinality(after) \in Nat
    BY <2>1, <2>2, FS_Subset, FS_CardinalityType
  <2>4. Cardinality(before) <= FeedSize
    BY <2>1, <2>3, CoverageConstants
  <2> QED BY <2>4 DEF KeptUp, before
<1> QED BY <1>1, <1>2

LEMMA InvNext == Inv /\ [Next]_vars => Inv'
<1> SUFFICES ASSUME Inv, [Next]_vars PROVE Inv'
  OBVIOUS
<1> USE DEF Inv
<1>1. CASE Publish
  <2>1. /\ published' = published \cup {now} /\ UNCHANGED <<kind, now, stored, runs>>
        /\ IsFiniteSet(published')
    BY <1>1, FS_AddElement DEF Publish
  <2>2. NoGap'
    <3> SUFFICES ASSUME Len(runs) = 2, runs[2].outcome = "ok", Overlaps', KeptUp',
                        NEW d \in published', runs[1].start <= d, d < runs[2].start
                 PROVE  d \in stored
      BY <2>1 DEF NoGap
    <3>1. Overlaps /\ KeptUp
      BY <2>1, KeptUpBefore DEF Overlaps
    <3>2. 2 \in DOMAIN runs /\ runs[2].start \in Nat
      BY LogRows
    <3>3. d \in published
      BY <2>1, <3>2
    <3> QED BY <3>1, <3>3 DEF NoGap
  <2> QED BY <2>1, <2>2
<1>2. CASE Tick
  <2>1. now' = now + 1 /\ UNCHANGED <<kind, published, stored, runs>>
    BY <1>2 DEF Tick
  <2>2. NoGap'
    BY <2>1 DEF NoGap, Overlaps, KeptUp
  <2>3. \A i \in DOMAIN runs : runs[i].start <= now'
    BY <2>1, LogRows
  <2> QED BY <2>1, <2>2, <2>3
<1>3. CASE Skip \/ UNCHANGED vars
  <2>1. UNCHANGED <<kind, now, published, stored, runs>>
    BY <1>3 DEF Skip, vars
  <2> QED BY <2>1 DEF NoGap, Overlaps, KeptUp
<1>4. CASE Scheduled
  BY <1>4, InvRun DEF Scheduled
<1>5. CASE Dispatched
  BY <1>5, InvRun, CoverageConstants DEF Dispatched
<1> QED BY <1>1, <1>2, <1>3, <1>4, <1>5 DEF Next

(* The store holds only what the source published, and every window of the   *)
(* log reaches back from the start of its run (parse_since), however far.    *)
THEOREM TypeCorrect == Spec => []TypeOK
BY InvInit, InvNext, TypeInit, TypeNext, PTL DEF Spec

(* Runs counted back from their own start, late or not, leave no document    *)
(* out as long as the windows of successful ones overlap; for a harvest,     *)
(* which asks for whole UTC days, as long as no day is left out.             *)
THEOREM OverlapLeavesNoGap == Spec => []NoGap
<1>1. Inv => NoGap
  BY DEF Inv
<1> QED BY <1>1, InvInit, InvNext, PTL DEF Spec
-----------------------------------------------------------------------------
(***************************************************************************)
(* The walk of a paged listing (Paging).                                   *)
(***************************************************************************)
(***************************************************************************)
(* The places of a listing are 0, 1, ..., up to its length.                *)
(***************************************************************************)
LEMMA AheadOf ==
  ASSUME IsFiniteSet(listing), NEW r
  PROVE  /\ Ahead(r) \subseteq listing /\ IsFiniteSet(Ahead(r))
         /\ Place(r) \in Nat /\ Cardinality(listing) \in Nat
<1>1. Ahead(r) \subseteq listing
  BY DEF Ahead
<1>2. IsFiniteSet(Ahead(r))
  BY <1>1, FS_Subset
<1> QED BY <1>1, <1>2, FS_CardinalityType DEF Place

LEMMA OneBeforeTheOther ==
  ASSUME NEW q \in Nat, NEW r \in Nat
  PROVE  /\ q # r => Precedes(q, r) \/ Precedes(r, q)
         /\ ~Precedes(r, r)
         /\ \A s \in Nat : Precedes(s, q) /\ Precedes(q, r) => Precedes(s, r)
BY DEF Precedes

LEMMA PlaceType ==
  ASSUME IsFiniteSet(listing), listing \subseteq Nat, NEW r \in listing
  PROVE  Place(r) \in 0..(Cardinality(listing) - 1)
<1>1. Ahead(r) \subseteq listing /\ r \notin Ahead(r) /\ Place(r) \in Nat /\ Cardinality(listing) \in Nat
  BY AheadOf, OneBeforeTheOther DEF Ahead
<1>2. Cardinality(Ahead(r)) <= Cardinality(listing) /\ Cardinality(Ahead(r)) # Cardinality(listing)
  BY <1>1, FS_Subset
<1> QED BY <1>1, <1>2 DEF Place

LEMMA PlaceGrows ==
  ASSUME IsFiniteSet(listing), listing \subseteq Nat, NEW q \in listing, NEW r \in listing, Precedes(q, r)
  PROVE  Place(q) < Place(r)
<1>1. q \in Nat /\ r \in Nat /\ IsFiniteSet(Ahead(r)) /\ Place(q) \in Nat /\ Place(r) \in Nat
  BY AheadOf
<1>2. Ahead(q) \subseteq Ahead(r)
  <2> SUFFICES ASSUME NEW s \in Ahead(q) PROVE s \in Ahead(r)
    OBVIOUS
  <2>1. s \in listing /\ s \in Nat /\ Precedes(s, q)
    BY DEF Ahead
  <2>2. Precedes(s, r)
    BY <1>1, <2>1, OneBeforeTheOther
  <2> QED BY <2>1, <2>2 DEF Ahead
<1>3. q \in Ahead(r) /\ q \notin Ahead(q)
  BY <1>1, OneBeforeTheOther DEF Ahead
<1>4. Cardinality(Ahead(q)) <= Cardinality(Ahead(r)) /\ Cardinality(Ahead(q)) # Cardinality(Ahead(r))
  BY <1>1, <1>2, <1>3, FS_Subset
<1> QED BY <1>1, <1>4 DEF Place

LEMMA OnePlaceEach ==
  ASSUME IsFiniteSet(listing), listing \subseteq Nat, NEW q \in listing, NEW r \in listing,
         Place(q) = Place(r)
  PROVE  q = r
<1>1. q \in Nat /\ r \in Nat /\ Place(q) \in Nat /\ Place(r) \in Nat
  BY AheadOf
<1>2. ~Precedes(q, r) /\ ~Precedes(r, q)
  <2>1. ~(Place(q) < Place(r)) /\ ~(Place(r) < Place(q))
    BY <1>1
  <2> QED BY <2>1, PlaceGrows
<1> QED BY <1>1, <1>2, OneBeforeTheOther

\* The records at the places of an interval are as many as its numbers.
LEMMA SameCount ==
  ASSUME NEW S, NEW T, IsFiniteSet(T), NEW f \in [S -> T],
         \A x, y \in S : f[x] = f[y] => x = y,
         \A t \in T : \E x \in S : f[x] = t
  PROVE  IsFiniteSet(S) /\ Cardinality(S) = Cardinality(T)
<1>1. f \in Bijection(S, T)
  BY Fun_IsBij
<1>2. f \in Injection(S, T) /\ f \in Surjection(S, T)
  BY <1>1 DEF Bijection
<1> QED BY <1>2, FS_Injection

LEMMA EveryPlaceTaken ==
  ASSUME IsFiniteSet(listing), listing \subseteq Nat, NEW k \in 0..(Cardinality(listing) - 1)
  PROVE  \E r \in listing : Place(r) = k
<1> DEFINE places == 0..(Cardinality(listing) - 1)
           place == [r \in listing |-> Place(r)]
<1>1. Cardinality(listing) \in Nat
  BY AheadOf
<1>2. IsFiniteSet(places) /\ Cardinality(listing) = Cardinality(places)
  <2>1. Cardinality(listing) - 1 \in Int /\ 0 \in Int
    BY <1>1
  <2>2. IsFiniteSet(places) /\ Cardinality(places) =
          IF 0 > Cardinality(listing) - 1 THEN 0 ELSE Cardinality(listing) - 1 - 0 + 1
    BY <2>1, FS_Interval
  <2> QED BY <1>1, <2>2
<1>3. \A r \in listing : Place(r) \in places
  BY PlaceType
<1>4. k \in places
  OBVIOUS
<1> HIDE DEF places
<1>5. place \in [listing -> places] /\ \A q, r \in listing : place[q] = place[r] => q = r
  BY <1>3, OnePlaceEach
<1>6. place \in Injection(listing, places)
  BY <1>5, Fun_IsInj
<1>7. place \in Surjection(listing, places)
  BY <1>2, <1>6, FS_Injection
<1>8. \E r \in listing : place[r] = k
  BY <1>4, <1>7 DEF Surjection
<1> QED BY <1>8

LEMMA SliceSize ==
  ASSUME IsFiniteSet(listing), listing \subseteq Nat, NEW at \in Nat, NEW n \in Nat
  PROVE  /\ Cardinality(Slice(at, n)) \in 0..n
         /\ Slice(at, n) = {r \in listing : Place(r) \in at..(at + Cardinality(Slice(at, n)) - 1)}
         /\ Cardinality(Slice(at, n)) = 0 => Cardinality(listing) <= at \/ n = 0
         /\ Cardinality(Slice(at, n)) # 0 => at + Cardinality(Slice(at, n)) <= Cardinality(listing)
<1> DEFINE len == Cardinality(listing)
           end == IF at + n <= len THEN at + n ELSE len
           found == {k \in at..(at + n - 1) : k < len}
           slice == Slice(at, n)
           place == [r \in slice |-> Place(r)]
<1>1. len \in Nat /\ \A r \in listing : Place(r) \in 0..(len - 1)
  BY AheadOf, PlaceType
<1>2. found = at..(end - 1) /\ end \in Int
  BY <1>1
<1>3. IsFiniteSet(found) /\ Cardinality(found) = IF at > end - 1 THEN 0 ELSE end - at
  <2>1. at \in Int /\ end - 1 \in Int
    BY <1>1
  <2>2. IsFiniteSet(at..(end - 1)) /\ Cardinality(at..(end - 1)) = IF at > end - 1 THEN 0 ELSE end - 1 - at + 1
    BY <2>1, FS_Interval
  <2>3. at \in Int /\ end \in Int
    BY <1>2
  <2> HIDE DEF found, end
  <2>4. end - 1 - at + 1 = end - at
    BY <2>3
  <2> QED BY <1>2, <2>2, <2>4
<1>4. \A r \in slice : Place(r) \in found
  BY <1>1 DEF Slice
<1>5. ASSUME NEW k \in found PROVE \E r \in slice : Place(r) = k
  <2>1. k \in 0..(len - 1) /\ k \in at..(at + n - 1)
    BY <1>1
  <2>2. PICK r \in listing : Place(r) = k
    BY <2>1, EveryPlaceTaken
  <2> QED BY <2>1, <2>2 DEF Slice
<1>6. slice \subseteq listing
  BY DEF Slice
<1> HIDE DEF found, slice
<1>7. place \in [slice -> found] /\ \A q, r \in slice : place[q] = place[r] => q = r
  BY <1>4, <1>6, OnePlaceEach
<1>8. \A k \in found : \E r \in slice : place[r] = k
  BY <1>5
<1> HIDE DEF place
<1>9. Cardinality(slice) = Cardinality(found)
  BY <1>3, <1>7, <1>8, SameCount
<1> HIDE DEF len, end
<1>10. len \in Nat /\ end = IF at + n <= len THEN at + n ELSE len
  BY <1>1 DEF end
<1>11. Cardinality(slice) = IF at > end - 1 THEN 0 ELSE end - at
  BY <1>3, <1>9
<1>12. /\ Cardinality(slice) \in 0..n /\ (Cardinality(slice) = 0 => len <= at \/ n = 0)
       /\ Cardinality(slice) # 0 => at + Cardinality(slice) <= len
  BY <1>10, <1>11
<1>13. \A k \in 0..(len - 1) : k \in at..(at + n - 1) <=> k \in at..(at + Cardinality(slice) - 1)
  BY <1>10, <1>11
<1>14. slice = {r \in listing : Place(r) \in at..(at + Cardinality(slice) - 1)}
  BY <1>1, <1>13 DEF slice, Slice, len
<1> QED BY <1>12, <1>14 DEF slice, len
-----------------------------------------------------------------------------
(***************************************************************************)
(* The steps of a walk.                                                    *)
(***************************************************************************)
LEMMA FewerCount ==
  ASSUME NEW S, NEW T, IsFiniteSet(T), S \subseteq T
  PROVE  /\ IsFiniteSet(S) /\ Cardinality(S) \in Nat /\ Cardinality(T) \in Nat
         /\ Cardinality(S) <= Cardinality(T)
BY FS_Subset, FS_CardinalityType

LEMMA OneMoreCount ==
  ASSUME NEW S, NEW T, IsFiniteSet(T), NEW x, S \subseteq T \cup {x}
  PROVE  /\ Cardinality(S) \in Nat /\ Cardinality(T) \in Nat
         /\ Cardinality(S) <= Cardinality(T) + 1
<1>1. /\ IsFiniteSet(T \cup {x}) /\ Cardinality(T) \in Nat
      /\ Cardinality(T \cup {x}) = IF x \in T THEN Cardinality(T) ELSE Cardinality(T) + 1
  BY FS_AddElement, FS_CardinalityType
<1>2. /\ Cardinality(S) \in Nat /\ Cardinality(T \cup {x}) \in Nat
      /\ Cardinality(S) <= Cardinality(T \cup {x})
  BY <1>1, FewerCount
<1> QED BY <1>1, <1>2

LEMMA WalkTypes ==
  ASSUME WalkInv
  PROVE  /\ IsFiniteSet(listing) /\ listing \subseteq Nat /\ listing \subseteq Records
         /\ page \in Nat /\ cursor \in Nat /\ PageSize \in Nat \ {0} /\ MaxPages \in Nat \ {0}
         /\ Since \in Nat /\ gaps \in Nat
<1>1. WalkTypeOK /\ IsFiniteSet(listing)
  BY DEF WalkInv
<1>2. PageSize \in Nat \ {0} /\ MaxPages \in Nat \ {0} /\ Since \in Nat /\ Records \subseteq Nat
  BY PagingConstants
<1>3. page \in 0..MaxPages /\ cursor \in Nat /\ listing \subseteq Records /\ gaps \in Nat
  BY <1>1 DEF WalkTypeOK
<1> QED BY <1>1, <1>2, <1>3

LEMMA LostCount ==
  ASSUME WalkInv
  PROVE  /\ Lost \subseteq listing /\ IsFiniteSet(Lost) /\ Cardinality(Lost) \in Nat
         /\ Cardinality(listing) \in Nat /\ Cardinality(Lost) <= gaps
<1>1. Lost \subseteq listing
  BY DEF Lost, Due
<1> QED BY <1>1, WalkTypes, FewerCount DEF WalkInv, Behind

LEMMA Adds ==
  ASSUME WalkTypeOK, NEW docs, docs \subseteq Records, Yield(docs)
  PROVE  /\ times' \in [Records -> Nat] /\ Yielded' = Yielded \cup docs
         /\ NothingTwice /\ docs \cap Yielded = {} => \A r \in Records : times'[r] <= 1
<1>1. /\ times \in [Records -> Nat] /\ times' \in [Records -> Nat]
      /\ \A r \in Records : times'[r] = IF r \in docs THEN times[r] + 1 ELSE times[r]
  <2>1. times \in [Records -> Nat]
    BY DEF WalkTypeOK
  <2> QED BY <2>1 DEF Yield
<1>2. Yielded' = Yielded \cup docs
  BY <1>1 DEF Yielded
<1>3. ASSUME NothingTwice, docs \cap Yielded = {}, NEW r \in Records PROVE times'[r] <= 1
  <2>1. times[r] \in Nat /\ times[r] <= 1 /\ (r \in docs => ~(times[r] > 0))
    BY <1>1, <1>3 DEF NothingTwice, Yielded
  <2> QED BY <1>1, <2>1
<1> QED BY <1>1, <1>2, <1>3

\* Of two yielded records of a paper the later one is another version, or was
\* listed again: either was in the listing with the other, or came after it.
LEMMA PaperOnce ==
  ASSUME Papered', fetcher' \in Protocols, first' \subseteq Records,
         \A r \in Records : times'[r] <= 1
  PROVE  NothingTwice'
<1> SUFFICES ASSUME NEW q \in Yielded', NEW r \in Yielded', paper'[q] = paper'[r], q < r,
                    fetcher' # "biorxiv", fetcher' = "oai" => r \in first'
             PROVE  FALSE
  BY DEF NothingTwice
<1>1. q \in Nat /\ r \in Nat /\ first' \subseteq Nat /\ q # r
  BY PagingConstants DEF Yielded
<1>2. CASE fetcher' = "atom"
  BY <1>1, <1>2 DEF Papered, OneEach
<1>3. CASE fetcher' = "oai"
  <2>1. r \in first' /\ OneEach(first)'
    BY <1>3 DEF Papered
  <2>2. q \in first' \/ r < q
    BY <2>1 DEF Papered
  <2>3. q \in first'
    BY <1>1, <2>2
  <2> QED BY <1>1, <2>1, <2>3 DEF OneEach
<1> QED BY <1>2, <1>3 DEF Protocols

\* Only the server moves a record.
LEMMA ServerStill ==
  ASSUME UNCHANGED serverVars
  PROVE  /\ \A r : Place(r)' = Place(r) /\ Wanted(r)' = Wanted(r)
         /\ Due' = Due /\ \A S : OneEach(S)' = OneEach(S)
<1>1. \A r : Ahead(r)' = Ahead(r)
  BY DEF serverVars, Ahead, Precedes
<1>2. \A r : Wanted(r)' = Wanted(r)
  BY DEF serverVars, Wanted, AtomParsed, OaiParsed, BiorxivParsed, Matches, SamePaper
<1>3. Due' = Due
  BY <1>2 DEF Due, serverVars
<1> QED BY <1>1, <1>2, <1>3 DEF Place, OneEach, serverVars

\* What a page must hold of the places from the cursor on.
Covers(docs, upto) ==
  \A r \in listing : r >= Since /\ Wanted(r) /\ cursor <= Place(r) /\ Place(r) < upto
                       => r \in docs \cup Yielded

CoversRest(docs) ==
  \A r \in listing : r >= Since /\ Wanted(r) /\ cursor <= Place(r) => r \in docs \cup Yielded

AtomAt(upto) == fetcher = "atom" => upto = (page + 1) * PageSize

\* A page of documents that were not yielded before.
PageOf(docs) ==
  /\ ended = "" /\ UNCHANGED serverVars /\ tokens' \subseteq Nat
  /\ docs \subseteq listing /\ docs \cap Yielded = {} /\ Yield(docs)

Within(docs, upto) ==
  fetcher # "atom" => upto <= Cardinality(listing) /\ \A r \in docs : Place(r) < upto

LEMMA PageYields ==
  ASSUME WalkInv, NEW docs, PageOf(docs), page' # 0 \/ (page' = page /\ ended' # "")
  PROVE  /\ times' \in [Records -> Nat] /\ Yielded' = Yielded \cup docs
         /\ Papered' /\ NothingTwice'
<1>1. /\ listing' = listing /\ first' = first /\ paper' = paper /\ fetcher' = fetcher
      /\ fetcher \in Protocols /\ first \subseteq Records
  BY PagingConstants DEF PageOf, serverVars, WalkInv, WalkTypeOK
<1>2. /\ times' \in [Records -> Nat] /\ Yielded' = Yielded \cup docs
      /\ \A r \in Records : times'[r] <= 1
  BY WalkTypes, Adds DEF WalkInv, PageOf
<1>3. listing' \cup Yielded' = listing \cup Yielded
  BY <1>1, <1>2 DEF PageOf
<1>4. listing' \cup first' \cup Yielded' = listing \cup first \cup Yielded
  BY <1>1, <1>3
<1>5. Papered
  BY DEF WalkInv
<1>6. Papered'
  <2>1. \A r \in listing' \cup Yielded' : r \in first' \/ \A q \in first' : q < r
    BY <1>1, <1>3, <1>5 DEF Papered
  <2>2. fetcher' = "atom" => OneEach(listing \cup first \cup Yielded)'
    <3> DEFINE all == listing \cup first \cup Yielded
    <3> SUFFICES ASSUME fetcher = "atom", NEW p \in all, NEW q \in all, paper[p] = paper[q]
                 PROVE  p = q
      BY <1>1, <1>4 DEF OneEach
    <3>1. OneEach(all)
      BY <1>5 DEF Papered
    <3> QED BY <3>1 DEF OneEach
  <2>3. fetcher' = "oai" => OneEach(listing)' /\ OneEach(first)'
    BY <1>1, <1>5 DEF Papered, OneEach
  <2>4. page' = 0 => page = 0 /\ ended' # ""
    OBVIOUS
  <2> QED BY <1>1, <1>5, <2>1, <2>2, <2>3, <2>4 DEF Papered
<1> QED BY <1>1, <1>2, <1>6, PaperOnce

\* A page takes records from those that are to come, not from those behind.
LEMMA PageLoses ==
  ASSUME WalkInv, NEW docs, NEW upto \in Nat, PageOf(docs), Yielded' = Yielded \cup docs,
         cursor' = upto, Covers(docs, upto)
  PROVE  Lost' \subseteq Lost /\ Cardinality(Lost') \in Nat /\ Cardinality(Lost') <= gaps
<1>1. Lost' \subseteq Lost
  <2> SUFFICES ASSUME NEW r \in Lost' PROVE r \in Lost
    OBVIOUS
  <2>1. r \in Due /\ r \notin Yielded \cup docs /\ Place(r) < upto
    BY ServerStill DEF Lost, PageOf
  <2>2. r \in listing /\ Place(r) \in Nat /\ cursor \in Nat
    BY <2>1, WalkTypes, AheadOf DEF Due
  <2>3. ~(cursor <= Place(r))
    BY <2>1, <2>2 DEF Covers, Due
  <2> QED BY <2>1, <2>2, <2>3 DEF Lost
<1>2. /\ IsFiniteSet(Lost) /\ Cardinality(Lost) \in Nat /\ Cardinality(Lost) <= gaps /\ gaps \in Nat
  BY LostCount, WalkTypes
<1>3. Cardinality(Lost') \in Nat /\ Cardinality(Lost') <= Cardinality(Lost)
  BY <1>1, <1>2, FewerCount
<1> QED BY <1>1, <1>2, <1>3

LEMMA MovesOn ==
  ASSUME WalkInv, NEW docs, NEW upto \in Nat, PageOf(docs), NextPage(upto),
         cursor <= upto, Covers(docs, upto), AtomAt(upto), Within(docs, upto)
  PROVE  WalkInv'
<1>0. /\ page \in Nat /\ cursor \in Nat /\ PageSize \in Nat /\ MaxPages \in Nat /\ gaps \in Nat
      /\ Cardinality(listing) \in Nat /\ \A r \in listing : Place(r) \in Nat
  BY WalkTypes, AheadOf
<1>1. /\ listing' = listing /\ fetcher' = fetcher /\ shape' = shape /\ first' = first
      /\ paper' = paper /\ gaps' = gaps /\ page' = page + 1 /\ cursor' = upto
      /\ ended' = IF page + 1 = MaxPages THEN "limit" ELSE ""
  BY DEF PageOf, serverVars, NextPage
<1>2. times' \in [Records -> Nat] /\ Yielded' = Yielded \cup docs /\ Papered' /\ NothingTwice'
  <2>1. page' = page + 1
    BY <1>1
  <2>2. page' # 0
    BY <1>0, <2>1
  <2> QED BY <2>2, PageYields
<1>3. WalkTypeOK'
  <2>1. page \in 0..MaxPages /\ page < MaxPages
    BY DEF PageOf, WalkInv, WalkTypeOK, Stands
  <2>2. page' \in 0..MaxPages
    <3>1. page' = page + 1
      BY <1>1
    <3> QED BY <2>1, <3>1, <1>0
  <2>3. ended' \in {"", "limit"}
    BY <1>1
  <2>4. /\ fetcher \in Fetchers /\ shape \in Shapes /\ paper \in Papers /\ listing \subseteq Records
        /\ first \subseteq Records
    BY DEF WalkInv, WalkTypeOK
  <2> QED BY <1>0, <1>1, <1>2, <2>2, <2>3, <2>4 DEF WalkTypeOK, PageOf
<1>4. ended' = "" => page' < MaxPages
  <2>1. page \in 0..MaxPages /\ page < MaxPages
    BY DEF PageOf, WalkInv, WalkTypeOK, Stands
  <2>2. ASSUME ended' = "" PROVE page' = page + 1 /\ page + 1 # MaxPages
    BY <1>1, <2>2
  <2>3. page + 1 # MaxPages => page + 1 < MaxPages
    BY <1>0, <2>1
  <2> QED BY <2>2, <2>3
<1>5. /\ fetcher' = "atom" => cursor' = page' * PageSize
      /\ page' # 0
  <2>1. page' = page + 1
    BY <1>1
  <2>2. page' # 0
    BY <1>0, <2>1
  <2>3. fetcher' = "atom" => cursor' = page' * PageSize
    BY <1>1, Zenon DEF AtomAt
  <2> QED BY <2>2, <2>3
<1>6. ASSUME fetcher # "atom", NEW r \in listing, r \in Yielded \cup docs
      PROVE  Place(r) < upto
  <2>1. CASE r \in docs
    BY <1>6, <2>1 DEF Within
  <2>2. CASE r \in Yielded
    <3>1. Place(r) < cursor
      BY <1>6, <2>2 DEF WalkInv, Behind, PageOf
    <3> QED BY <1>0, <1>6, <3>1
  <2> QED BY <1>6, <2>1, <2>2
<1>7. Behind'
  <2>1. Cardinality(Lost') \in Nat /\ Cardinality(Lost') <= gaps
    BY <1>1, <1>2, PageLoses
  <2>2. fetcher # "atom" => upto + Cardinality(Lost') <= Cardinality(listing) + gaps
    BY <1>0, <2>1 DEF Within
  <2>3. fetcher' # "atom" /\ ended' = "" => \A r \in listing' \cap Yielded' : Place(r)' < cursor'
    BY <1>1, <1>2, <1>6, ServerStill DEF PageOf
  <2> QED BY <1>1, <2>1, <2>2, <2>3 DEF Behind
<1>8. Complete'
  <2>1. ended' \notin {"edge", "total", "complete"}
    BY <1>1
  <2> QED BY <2>1 DEF Complete
<1>9. IsFiniteSet(listing')
  BY <1>1, WalkTypes
<1> QED BY <1>2, <1>3, <1>4, <1>5, <1>7, <1>8, <1>9 DEF WalkInv, Stands

\* The reasons a walk may end for.
Reasons == {"raised", "empty", "edge", "total", "short", "repeated", "complete"}

LEMMA Returns ==
  ASSUME WalkInv, NEW docs, NEW why \in Reasons, PageOf(docs), Stop(why),
         why \in {"edge", "total", "complete"} => CoversRest(docs)
  PROVE  WalkInv'
<1>0. cursor \in Nat /\ gaps \in Nat /\ \A r \in listing : Place(r) \in Nat
  BY WalkTypes, AheadOf
<1>1. /\ listing' = listing /\ fetcher' = fetcher /\ shape' = shape /\ first' = first
      /\ paper' = paper /\ gaps' = gaps /\ page' = page /\ cursor' = cursor /\ ended' = why
  BY DEF PageOf, serverVars, Stop
<1>2. why # "" /\ why \in {"", "raised", "empty", "edge", "total", "short",
                             "repeated", "complete", "limit"}
  BY DEF Reasons
<1>3. times' \in [Records -> Nat] /\ Yielded' = Yielded \cup docs /\ Papered' /\ NothingTwice'
  BY <1>1, <1>2, PageYields
<1>4. WalkTypeOK'
  BY <1>1, <1>2, <1>3 DEF WalkInv, WalkTypeOK, PageOf
<1>5. Behind'
  <2>1. Covers(docs, cursor)
    BY <1>0 DEF Covers
  <2>2. Cardinality(Lost') <= gaps
    BY <1>0, <1>1, <1>3, <2>1, PageLoses
  <2> QED BY <1>1, <1>2, <2>2 DEF Behind
<1>6. Complete'
  <2> SUFFICES ASSUME why \in {"edge", "total", "complete"}
               PROVE  Cardinality(Due \ (Yielded \cup docs)) <= gaps
    BY <1>1, <1>3, ServerStill DEF PageOf, Complete
  <2>1. Due \ (Yielded \cup docs) \subseteq Lost
    <3> SUFFICES ASSUME NEW r \in Due, r \notin Yielded \cup docs PROVE Place(r) < cursor
      BY DEF Lost
    <3>1. r \in listing /\ Place(r) \in Nat /\ cursor \in Nat
      BY <1>0 DEF Due
    <3>2. ~(cursor <= Place(r))
      BY <3>1 DEF CoversRest, Due
    <3> QED BY <3>1, <3>2
  <2>2. /\ IsFiniteSet(Lost) /\ Cardinality(Lost) \in Nat /\ Cardinality(Lost) <= gaps
    BY LostCount
  <2>3. /\ Cardinality(Due \ (Yielded \cup docs)) \in Nat
        /\ Cardinality(Due \ (Yielded \cup docs)) <= Cardinality(Lost)
    BY <2>1, <2>2, FewerCount
  <2> QED BY <1>0, <2>2, <2>3
<1>7. Stands' /\ IsFiniteSet(listing')
  BY <1>1, <1>2, WalkTypes DEF WalkInv, Stands
<1> QED BY <1>3, <1>4, <1>5, <1>6, <1>7 DEF WalkInv

LEMMA NoneYielded ==
  ASSUME WalkTypeOK, UNCHANGED times
  PROVE  Yield({})
BY DEF WalkTypeOK, Yield

LEMMA OfInterval ==
  ASSUME NEW at \in Nat, NEW n \in Nat, NEW k \in at..(at + n - 1)
  PROVE  k \in Nat /\ ~(k < at) /\ k < at + n
OBVIOUS

\* The documents of a slice that are not yielded yet, when the listing grows
\* at its end.
LEMMA SliceIsNew ==
  ASSUME WalkInv, ended = "", fetcher # "atom", NEW n \in Nat
  PROVE  Slice(cursor, n) \subseteq listing /\ Slice(cursor, n) \cap Yielded = {}
<1>1. Slice(cursor, n) \subseteq listing
  BY DEF Slice
<1>2. ASSUME NEW r \in Slice(cursor, n), r \in Yielded PROVE FALSE
  <2>1. r \in listing /\ Place(r) \in cursor..(cursor + n - 1)
    BY DEF Slice
  <2>2. Place(r) < cursor
    BY <1>2, <2>1 DEF WalkInv, Behind
  <2>3. Place(r) \in Nat /\ cursor \in Nat
    BY WalkTypes, AheadOf
  <2> QED BY <2>1, <2>2, <2>3, OfInterval
<1> QED BY <1>1, <1>2

LEMMA InSlice ==
  ASSUME WalkInv, NEW n \in Nat, NEW r \in listing, cursor <= Place(r), Place(r) < cursor + n
  PROVE  r \in Slice(cursor, n)
<1>1. Place(r) \in Nat /\ cursor \in Nat
  BY WalkTypes, AheadOf
<1>2. Place(r) \in cursor..(cursor + n - 1)
  BY <1>1
<1> QED BY <1>2 DEF Slice

LEMMA AtomStep == ASSUME WalkInv, AtomPage PROVE WalkInv'
<1> DEFINE docs == {r \in Slice(cursor, PageSize) : AtomParsed(r)}
           old == {r \in docs : HasDate(r) /\ r < Since}
           fresh == AtomFresh(Before(docs, old))
           upto == (page + 1) * PageSize
<1>1. /\ fetcher = "atom" /\ ended = "" /\ UNCHANGED serverVars /\ tokens' = tokens
      /\ \A r : Wanted(r) => AtomParsed(r)
  BY DEF AtomPage, Wanted
<1>2. /\ fresh \subseteq docs /\ fresh \subseteq listing
      /\ \A d \in Before(docs, old) : d \in listing /\ d \in Records
  BY WalkTypes DEF AtomFresh, Before, Slice
<1>3. fresh \cap Yielded = {} /\ \A d \in Before(docs, old) : d \in fresh \cup Yielded
  <2>1. ASSUME NEW d \in fresh PROVE d \notin Yielded
    BY <2>1 DEF AtomFresh, SamePaper
  <2>2. ASSUME NEW d \in Before(docs, old), d \notin fresh PROVE d \in Yielded
    <3>1. PICK q \in Yielded : paper[q] = paper[d]
      BY <2>2 DEF AtomFresh, SamePaper
    <3>2. OneEach(listing \cup first \cup Yielded)
      BY <1>1 DEF WalkInv, Papered
    <3>3. q = d
      BY <1>2, <3>1, <3>2 DEF OneEach
    <3> QED BY <3>3
  <2> QED BY <2>1, <2>2
<1>4. cursor = page * PageSize /\ page \in Nat /\ PageSize \in Nat /\ cursor \in Nat /\ tokens' \subseteq Nat
  BY <1>1, WalkTypes DEF WalkInv, WalkTypeOK, Stands
<1>5. upto = cursor + PageSize /\ upto \in Nat /\ cursor <= upto
  BY <1>4
<1>6. PICK total \in Totals :
        \/ docs = {} /\ Stop("empty") /\ UNCHANGED times
        \/ docs # {} /\ old # {} /\ Yield(fresh) /\ Stop("edge")
        \/ /\ docs # {} /\ old = {} /\ Yield(fresh)
           /\ IF upto >= total THEN Trusting(total, "total") ELSE NextPage(upto)
  BY DEF AtomPage
<1>7. CASE docs = {} /\ Stop("empty") /\ UNCHANGED times
  <2>1. PageOf({})
    BY <1>1, <1>4, <1>7, NoneYielded DEF PageOf, WalkInv
  <2>2. "empty" \in Reasons \ {"edge", "total", "complete"}
    BY DEF Reasons
  <2> QED BY <1>7, <2>1, <2>2, Returns
<1>8. ASSUME NEW r \in listing, r >= Since, Wanted(r), cursor <= Place(r), Place(r) < upto
      PROVE  r \in fresh \cup Yielded
  <2>1. r \in docs /\ r \in Nat /\ Since \in Nat
    <3>1. r \in Slice(cursor, PageSize)
      BY <1>4, <1>5, <1>8, InSlice
    <3> QED BY <1>1, <1>8, <3>1, WalkTypes
  <2>2. ASSUME NEW o \in old PROVE Precedes(r, o)
    <3>1. o \in Nat /\ o < Since
      BY WalkTypes DEF Slice
    <3>2. Precedes(r, o) <=> r > o
      BY <1>1 DEF Precedes
    <3> QED BY <1>8, <2>1, <3>1, <3>2
  <2>3. r \in Before(docs, old)
    BY <2>1, <2>2 DEF Before
  <2> QED BY <1>3, <2>3
<1>9. ASSUME Yield(fresh) PROVE PageOf(fresh)
  BY <1>1, <1>2, <1>3, <1>4, <1>9 DEF PageOf
<1>10. ASSUME NEW o \in old PROVE o \in listing /\ o \in Nat /\ o < Since /\ Place(o) < upto
  <2>1. o \in listing /\ o < Since /\ Place(o) \in cursor..(cursor + PageSize - 1)
    BY DEF Slice
  <2> QED BY <1>4, <1>5, <2>1, WalkTypes
<1> HIDE DEF upto, fresh
<1>11. CASE old # {} /\ Yield(fresh) /\ Stop("edge")
  <2>1. PICK o \in old : TRUE
    BY <1>11
  <2>2. CoversRest(fresh)
    <3> SUFFICES ASSUME NEW r \in listing, r >= Since, Wanted(r), cursor <= Place(r)
                 PROVE  r \in fresh \cup Yielded
      BY DEF CoversRest
    <3>1. /\ r \in Nat /\ Since \in Nat /\ Place(r) \in Nat /\ Place(o) \in Nat
          /\ o \in listing /\ o \in Nat /\ o < Since /\ Place(o) < upto
      BY <1>10, WalkTypes, AheadOf
    <3>2. Precedes(r, o)
      <4>1. Precedes(r, o) <=> r > o
        BY <1>1 DEF Precedes
      <4> QED BY <3>1, <4>1
    <3>3. Place(r) < Place(o)
      BY <3>1, <3>2, WalkTypes, PlaceGrows
    <3> QED BY <1>5, <1>8, <3>1, <3>3
  <2>3. "edge" \in Reasons
    BY DEF Reasons
  <2> QED BY <1>9, <1>11, <2>2, <2>3, Returns
<1>12. CASE old = {} /\ Yield(fresh) /\ upto >= total /\ Trusting(total, "total")
  <2> DEFINE why == IF total < Cardinality(listing) THEN "short" ELSE "total"
  <2>1. PageOf(fresh) /\ Stop(why) /\ why \in Reasons
    BY <1>9, <1>12 DEF Trusting, Reasons
  <2>2. ASSUME why # "short" PROVE CoversRest(fresh)
    <3> SUFFICES ASSUME NEW r \in listing, r >= Since, Wanted(r), cursor <= Place(r)
                 PROVE  r \in fresh \cup Yielded
      BY DEF CoversRest
    <3>1. Place(r) \in 0..(Cardinality(listing) - 1) /\ Cardinality(listing) \in Nat
      BY WalkTypes, PlaceType, AheadOf
    <3>2. total \in Int /\ ~(total < Cardinality(listing))
      BY <2>2, <3>1 DEF Totals
    <3>3. Place(r) < upto
      BY <1>5, <1>12, <3>1, <3>2
    <3> QED BY <1>8, <3>3
  <2>3. why \in {"edge", "total", "complete"} => why # "short"
    OBVIOUS
  <2> HIDE DEF why
  <2> QED BY <2>1, <2>2, <2>3, Returns
<1>13. CASE old = {} /\ Yield(fresh) /\ NextPage(upto)
  <2>1. Covers(fresh, upto)
    BY <1>8 DEF Covers
  <2>2. AtomAt(upto) /\ Within(fresh, upto)
    BY <1>1 DEF AtomAt, Within, upto
  <2> QED BY <1>5, <1>9, <1>13, <2>1, <2>2, MovesOn
<1> QED BY <1>6, <1>7, <1>11, <1>12, <1>13

LEMMA OaiStep == ASSUME WalkInv, OaiPage PROVE WalkInv'
<1>1. /\ fetcher = "oai" /\ ended = "" /\ fetcher # "atom" /\ UNCHANGED serverVars
      /\ \A r : Wanted(r) => OaiParsed(r)
  BY DEF OaiPage, Wanted
<1>2. PICK n \in 1..PageSize :
       /\ Yield({r \in Slice(cursor, n) : OaiParsed(r)})
       /\ \/ cursor + n >= Cardinality(listing) /\ Stop("complete") /\ UNCHANGED tokens
          \/ cursor + n < Cardinality(listing) /\ OaiFollow(cursor + n)
          \/ \E token \in tokens : OaiFollow(token)
  BY DEF OaiPage
<1> DEFINE docs == {r \in Slice(cursor, n) : OaiParsed(r)}
           upto == cursor + n
<1>3. /\ cursor \in Nat /\ n \in Nat /\ upto \in Nat /\ cursor <= upto
      /\ Cardinality(listing) \in Nat
  <2>1. cursor \in Nat /\ PageSize \in Nat /\ Cardinality(listing) \in Nat
    BY WalkTypes, AheadOf
  <2>2. n \in Nat
    BY <2>1
  <2> QED BY <2>1, <2>2
<1>4. docs \subseteq listing /\ docs \cap Yielded = {} /\ Yield(docs)
  BY <1>1, <1>2, <1>3, SliceIsNew
<1>5. ASSUME NEW r \in listing, Wanted(r), cursor <= Place(r), Place(r) < upto
      PROVE  r \in docs
  BY <1>1, <1>3, <1>5, InSlice
<1>6. tokens \subseteq Nat
  BY DEF WalkInv, WalkTypeOK
<1>7. ASSUME tokens' = tokens PROVE PageOf(docs)
  BY <1>1, <1>4, <1>6, <1>7 DEF PageOf
<1>8. \A r \in docs : Place(r) < upto
  BY <1>3, OfInterval DEF Slice
<1> HIDE DEF docs, upto
<1>9. CASE upto >= Cardinality(listing) /\ Stop("complete") /\ UNCHANGED tokens
  <2>1. CoversRest(docs)
    <3> SUFFICES ASSUME NEW r \in listing, Wanted(r), cursor <= Place(r) PROVE r \in docs
      BY DEF CoversRest
    <3>1. Place(r) \in 0..(Cardinality(listing) - 1)
      BY WalkTypes, PlaceType
    <3>2. Place(r) < upto
      BY <1>3, <1>9, <3>1
    <3> QED BY <1>5, <3>2
  <2>2. "complete" \in Reasons
    BY DEF Reasons
  <2> QED BY <1>7, <1>9, <2>1, <2>2, Returns
<1>10. CASE Stop("repeated") /\ UNCHANGED tokens
  <2>1. "repeated" \in Reasons \ {"edge", "total", "complete"}
    BY DEF Reasons
  <2> QED BY <1>7, <1>10, <2>1, Returns
<1>11. CASE upto < Cardinality(listing) /\ tokens' = tokens \cup {upto} /\ NextPage(upto)
  <2>1. tokens' \subseteq Nat
    BY <1>3, <1>6, <1>11
  <2>2. PageOf(docs)
    BY <1>1, <1>4, <2>1 DEF PageOf
  <2>3. Covers(docs, upto)
    BY <1>5 DEF Covers
  <2>4. upto <= Cardinality(listing)
    BY <1>3, <1>11
  <2>5. AtomAt(upto) /\ Within(docs, upto)
    BY <1>1, <1>8, <2>4 DEF AtomAt, Within
  <2> QED BY <1>3, <1>11, <2>2, <2>3, <2>5, MovesOn
<1>12. ASSUME NEW token \in tokens, OaiFollow(token) PROVE Stop("repeated") /\ UNCHANGED tokens
  BY <1>12 DEF OaiFollow
<1>13. ASSUME OaiFollow(upto), upto < Cardinality(listing)
       PROVE  WalkInv'
  BY <1>10, <1>11, <1>13 DEF OaiFollow
<1> QED BY <1>2, <1>9, <1>10, <1>12, <1>13 DEF upto

LEMMA BiorxivStep == ASSUME WalkInv, BiorxivPage PROVE WalkInv'
<1>1. /\ fetcher = "biorxiv" /\ ended = "" /\ fetcher # "atom" /\ UNCHANGED serverVars
      /\ tokens' = tokens
      /\ \A r : Wanted(r) => BiorxivParsed(r) /\ \A q \in SamePaper(Records, r) : Matches(q)
  BY DEF BiorxivPage, Wanted
<1>2. PICK n \in 1..PageSize, total \in Totals :
       LET collection == Slice(cursor, n)
           seen == cursor + Cardinality(collection)
       IN  /\ Yield(Kept(collection))
           /\ IF ~ BiorxivDone(Cardinality(collection), seen, total) THEN NextPage(seen)
              ELSE IF collection = {} THEN Stop("complete")
              ELSE Trusting(total, "complete")
  BY DEF BiorxivPage
<1> DEFINE slice == Slice(cursor, n)
           docs == Kept(slice)
           got == Cardinality(slice)
           upto == cursor + got
<1>3. cursor \in Nat /\ n \in Nat \ {0} /\ Cardinality(listing) \in Nat /\ total \in Nat
  <2>1. cursor \in Nat /\ PageSize \in Nat /\ Cardinality(listing) \in Nat
    BY WalkTypes, AheadOf
  <2>2. n \in Nat \ {0} /\ total \in Nat
    BY <2>1 DEF Totals
  <2> QED BY <2>1, <2>2
<1>4. /\ got \in Nat /\ slice = {r \in listing : Place(r) \in cursor..(cursor + got - 1)}
      /\ got = 0 => Cardinality(listing) <= cursor
      /\ got # 0 => upto <= Cardinality(listing)
  <2>1. /\ got \in 0..n /\ slice = {r \in listing : Place(r) \in cursor..(cursor + got - 1)}
        /\ got = 0 => Cardinality(listing) <= cursor \/ n = 0
        /\ got # 0 => upto <= Cardinality(listing)
    BY <1>3, WalkTypes, SliceSize
  <2> HIDE DEF got, slice
  <2> QED BY <1>3, <2>1
<1>5. /\ docs \subseteq slice /\ slice \subseteq listing /\ docs \cap Yielded = {} /\ Yield(docs)
      /\ slice = {} => got = 0
  BY <1>1, <1>2, <1>3, SliceIsNew, FS_EmptySet DEF Kept
<1>6. \/ BiorxivDone(got, upto, total) /\ slice = {} /\ Stop("complete")
      \/ BiorxivDone(got, upto, total) /\ slice # {} /\ Trusting(total, "complete")
      \/ ~BiorxivDone(got, upto, total) /\ NextPage(upto)
  BY <1>2
<1>7. PageOf(docs)
  <2>1. tokens' \subseteq Nat
    BY <1>1 DEF WalkInv, WalkTypeOK
  <2> QED BY <1>1, <1>5, <2>1 DEF PageOf
<1>8. ASSUME NEW r \in listing, Wanted(r), r \in slice PROVE r \in docs
  <2>1. Last(SamePaper(slice, r)) \subseteq SamePaper(Records, r)
    BY <1>5, WalkTypes DEF Last, SamePaper
  <2> QED BY <1>1, <1>8, <2>1 DEF Kept
<1> HIDE DEF got, slice, docs
<1>9. upto \in Nat /\ cursor <= upto
  BY <1>3, <1>4
<1>10. ASSUME NEW r \in listing, Wanted(r), cursor <= Place(r), Place(r) < upto
       PROVE  r \in docs
  <2>1. Place(r) \in Nat
    BY WalkTypes, AheadOf
  <2>2. Place(r) \in cursor..(cursor + got - 1)
    BY <1>3, <1>4, <1>10, <2>1
  <2> QED BY <1>4, <1>8, <1>10, <2>2
<1>11. \A r \in slice : Place(r) \in Nat /\ Place(r) < upto /\ got # 0
  <2>1. \A r \in slice : Place(r) \in cursor..(cursor + got - 1)
    BY <1>4
  <2> QED BY <1>3, <1>4, <2>1
<1> HIDE DEF upto
<1>12. ASSUME Cardinality(listing) <= cursor \/ Cardinality(listing) <= upto
       PROVE  CoversRest(docs)
  <2> SUFFICES ASSUME NEW r \in listing, Wanted(r), cursor <= Place(r) PROVE r \in docs
    BY DEF CoversRest
  <2>1. Place(r) \in 0..(Cardinality(listing) - 1)
    BY WalkTypes, PlaceType
  <2>2. Place(r) < upto
    BY <1>3, <1>9, <1>12, <2>1
  <2> QED BY <1>10, <2>2
<1>13. CASE slice = {} /\ Stop("complete")
  <2>1. CoversRest(docs)
    BY <1>4, <1>5, <1>12, <1>13
  <2>2. "complete" \in Reasons
    BY DEF Reasons
  <2> QED BY <1>7, <1>13, <2>1, <2>2, Returns
<1>14. CASE BiorxivDone(got, upto, total) /\ slice # {} /\ Trusting(total, "complete")
  <2> DEFINE why == IF total < Cardinality(listing) THEN "short" ELSE "complete"
  <2>1. Stop(why) /\ why \in Reasons
    BY <1>14 DEF Trusting, Reasons
  <2>2. ASSUME why # "short" PROVE CoversRest(docs)
    <3>1. upto >= total /\ ~(total < Cardinality(listing))
      BY <1>11, <1>14, <2>2 DEF BiorxivDone
    <3>2. Cardinality(listing) <= upto
      BY <1>3, <1>9, <3>1
    <3> QED BY <1>12, <3>2
  <2>3. why \in {"edge", "total", "complete"} => why # "short"
    OBVIOUS
  <2> HIDE DEF why
  <2> QED BY <1>7, <2>1, <2>2, <2>3, Returns
<1>15. CASE ~BiorxivDone(got, upto, total) /\ NextPage(upto)
  <2>1. Covers(docs, upto)
    BY <1>10 DEF Covers
  <2>2. upto <= Cardinality(listing)
    BY <1>4, <1>15 DEF BiorxivDone
  <2>3. AtomAt(upto) /\ Within(docs, upto)
    BY <1>1, <1>5, <1>11, <2>2 DEF AtomAt, Within
  <2> QED BY <1>7, <1>9, <1>15, <2>1, <2>3, MovesOn
<1> QED BY <1>6, <1>13, <1>14, <1>15

LEMMA RaisesStep == ASSUME WalkInv, Raises PROVE WalkInv'
<1>1. PageOf({}) /\ Stop("raised")
  BY NoneYielded DEF Raises, PageOf, WalkInv, WalkTypeOK
<1>2. "raised" \in Reasons \ {"edge", "total", "complete"}
  BY DEF Reasons
<1> QED BY <1>1, <1>2, Returns
-----------------------------------------------------------------------------
(***************************************************************************)
(* The steps of the server.                                                *)
(***************************************************************************)
\* A record keeps or loses its place as the records ahead of it come and go.
LEMMA PlaceMoves ==
  ASSUME IsFiniteSet(listing), IsFiniteSet(listing'), NEW r
  PROVE  /\ Ahead(r) \subseteq Ahead(r)' => Place(r) <= Place(r)'
         /\ Ahead(r)' \subseteq Ahead(r) => Place(r)' <= Place(r)
         /\ Place(r) \in Nat /\ Place(r)' \in Nat
<1>1. IsFiniteSet(Ahead(r)) /\ IsFiniteSet(Ahead(r)')
  <2>1. Ahead(r) \subseteq listing /\ Ahead(r)' \subseteq listing'
    BY DEF Ahead
  <2> QED BY <2>1, FS_Subset
<1>2. Place(r) = Cardinality(Ahead(r)) /\ Place(r)' = Cardinality(Ahead(r)')
  BY DEF Place
<1> QED BY <1>1, <1>2, FS_Subset, FS_CardinalityType

\* The server yields nothing.
LEMMA ServerYields ==
  ASSUME WalkInv, UNCHANGED times, WalkTypeOK', Papered'
  PROVE  NothingTwice'
<1>1. fetcher' \in Protocols /\ first' \subseteq Records
  BY PagingConstants DEF WalkTypeOK
<1>2. \A r \in Records : times'[r] <= 1
  BY DEF WalkInv, NothingTwice
<1> QED BY <1>1, <1>2, PaperOnce

LEMMA AppearStep == ASSUME WalkInv, Appear PROVE WalkInv'
<1>1. /\ ended = "" /\ fetcher' = fetcher /\ shape' = shape /\ paper' = paper /\ gaps' = gaps
      /\ page' = page /\ cursor' = cursor /\ tokens' = tokens /\ times' = times /\ ended' = ended
      /\ first' = IF page = 0 THEN listing' ELSE first
  BY DEF Appear
<1>2. PICK r \in Records :
        /\ \A q \in listing \cup first \cup Yielded : r > q
        /\ Listable(r)
        /\ listing' = listing \cup {r}
  BY DEF Appear
<1>3. /\ r \in Nat /\ listing \subseteq Nat /\ cursor \in Nat /\ gaps \in Nat
      /\ first \subseteq Nat /\ Yielded \subseteq Nat
  BY WalkTypes, PagingConstants DEF WalkInv, WalkTypeOK, Yielded
<1>4. r \notin listing /\ r \notin first /\ r \notin Yielded
  <2>1. ~(r > r)
    BY <1>3
  <2> QED BY <1>2, <2>1
<1>5. /\ IsFiniteSet(listing') /\ IsFiniteSet(listing)
      /\ Cardinality(listing) \in Nat /\ Cardinality(listing') = Cardinality(listing) + 1
  BY <1>2, <1>4, FS_AddElement, FS_CardinalityType DEF WalkInv
<1>6. /\ Yielded' = Yielded /\ \A q : Wanted(q)' = Wanted(q)
      /\ \A S : OneEach(S)' = OneEach(S)
  BY <1>1 DEF Yielded, Wanted, AtomParsed, OaiParsed, BiorxivParsed, Matches, SamePaper, OneEach
<1>7. WalkTypeOK'
  BY <1>1, <1>2 DEF WalkInv, WalkTypeOK
<1>8. Stands' /\ Complete'
  BY <1>1 DEF WalkInv, Stands, Complete
<1>9. \A q \in listing : Ahead(q) \subseteq Ahead(q)' /\ (fetcher # "atom" => Ahead(q)' = Ahead(q))
  <2> SUFFICES ASSUME NEW q \in listing
               PROVE  Ahead(q) \subseteq Ahead(q)' /\ (fetcher # "atom" => Ahead(q)' = Ahead(q))
    OBVIOUS
  <2>1. q \in Nat /\ ~(r < q)
    BY <1>2, <1>3
  <2> QED BY <1>1, <1>2, <2>1 DEF Ahead, Precedes
<1>10. ASSUME NEW q \in Lost', q \in listing, page # 0 PROVE q \in Lost
  <2>1. Place(q) <= Place(q)' /\ Place(q) \in Nat /\ Place(q)' \in Nat
    BY <1>5, <1>9, <1>10, PlaceMoves
  <2>2. Place(q)' < cursor /\ q \in Due \ Yielded
    BY <1>1, <1>6, <1>10 DEF Lost, Due
  <2> QED BY <1>3, <2>1, <2>2 DEF Lost
<1>11. CASE page = 0
  <2>1. cursor = 0 /\ first = listing /\ Yielded = {}
    BY <1>1, <1>11 DEF WalkInv, Stands, Papered
  <2>2. Lost' = {}
    <3> SUFFICES ASSUME NEW q \in Lost' PROVE FALSE
      OBVIOUS
    <3>1. Place(q)' \in Nat
      BY <1>5, PlaceMoves
    <3>2. Place(q)' < 0
      BY <1>1, <2>1 DEF Lost
    <3> QED BY <3>1, <3>2
  <2>3. Cardinality(Lost') = 0
    BY <2>2, FS_EmptySet
  <2>4. Behind'
    <3>1. Yielded' = {} /\ cursor' = 0 /\ gaps' = gaps
      BY <1>1, <1>6, <2>1
    <3>2. cursor' + Cardinality(Lost') <= Cardinality(listing') + gaps'
      BY <1>3, <1>5, <2>3, <3>1
    <3>3. Cardinality(Lost') <= gaps'
      BY <1>3, <2>3, <3>1
    <3> QED BY <3>1, <3>2, <3>3 DEF Behind
  <2>5. Papered'
    <3>1. first' = listing' /\ Yielded' = {}
      BY <1>1, <1>6, <1>11, <2>1
    <3>2. listing' \cup first' \cup Yielded' = listing'
      BY <3>1
    <3>3. fetcher # "biorxiv" => OneEach(listing) /\ SamePaper(listing, r) = {}
      <4>1. fetcher \in Protocols /\ listing \cup first \cup Yielded = listing
        BY <2>1, PagingConstants DEF WalkInv, WalkTypeOK
      <4> QED BY <1>2, <4>1 DEF WalkInv, Papered, Listable, Protocols
    <3>4. fetcher # "biorxiv" => OneEach(listing)'
      BY <1>1, <1>2, <3>3 DEF OneEach, SamePaper
    <3>5. /\ fetcher' = "atom" => OneEach(listing \cup first \cup Yielded)'
          /\ fetcher' = "oai" => OneEach(listing)' /\ OneEach(first)'
      BY <1>1, <3>1, <3>2, <3>4 DEF OneEach
    <3> QED BY <1>6, <3>1, <2>1, <3>5 DEF Papered
  <2> QED BY <1>1, <1>5, <1>7, <1>8, <2>4, <2>5, ServerYields DEF WalkInv
<1>12. CASE page # 0
  <2>1. first' = first
    BY <1>1, <1>12
  <2>2. Lost' \subseteq Lost \cup {r}
    BY <1>2, <1>10, <1>12 DEF Lost, Due
  <2>3. IsFiniteSet(Lost) /\ Cardinality(Lost) \in Nat /\ Cardinality(Lost) <= gaps
    BY LostCount
  <2>4. /\ Cardinality(Lost') \in Nat
        /\ Cardinality(Lost') <= Cardinality(Lost) + 1
        /\ r \notin Lost' => Cardinality(Lost') <= Cardinality(Lost)
    <3>1. /\ Cardinality(Lost') \in Nat /\ Cardinality(Lost') <= Cardinality(Lost) + 1
      BY <2>2, <2>3, OneMoreCount
    <3>2. ASSUME r \notin Lost' PROVE Cardinality(Lost') <= Cardinality(Lost)
      <4>1. Lost' \subseteq Lost
        BY <2>2, <3>2
      <4> QED BY <2>3, <4>1, FewerCount
    <3> QED BY <3>1, <3>2
  <2>5. ASSUME r \in Lost' PROVE fetcher # "atom" /\ Cardinality(listing) < cursor
    <3>1. fetcher # "atom"
      BY <1>1, <1>4, <2>1, <2>5 DEF Lost, Due
    <3>2. Ahead(r)' = listing
      <4>1. \A q \in listing : q < r
        BY <1>2, <1>3
      <4>2. ~(r < r)
        BY <1>3
      <4> QED BY <1>1, <1>2, <3>1, <4>1, <4>2 DEF Ahead, Precedes
    <3>3. Place(r)' = Cardinality(listing)
      BY <3>2 DEF Place
    <3>4. Place(r)' < cursor
      BY <1>1, <2>5 DEF Lost
    <3> QED BY <3>1, <3>3, <3>4
  <2>6. fetcher # "atom" => cursor + Cardinality(Lost) <= Cardinality(listing) + gaps
    BY <1>1 DEF WalkInv, Behind
  <2>7. ASSUME fetcher # "atom", NEW q \in listing' \cap Yielded PROVE Place(q)' < cursor
    <3>1. q \in listing /\ Ahead(q)' = Ahead(q)
      BY <1>2, <1>4, <1>9, <2>7
    <3>2. Place(q)' = Place(q)
      BY <3>1 DEF Place
    <3>3. Place(q) < cursor
      BY <1>1, <2>7, <3>1 DEF WalkInv, Behind
    <3> QED BY <3>2, <3>3
  <2>8. Behind'
    <3>1. Cardinality(Lost') <= gaps
      <4>1. CASE r \in Lost'
        BY <1>3, <1>5, <2>3, <2>4, <2>5, <2>6, <4>1
      <4>2. CASE r \notin Lost'
        BY <1>3, <2>3, <2>4, <4>2
      <4> QED BY <4>1, <4>2
    <3>2. fetcher # "atom" => cursor + Cardinality(Lost') <= Cardinality(listing') + gaps
      BY <1>3, <1>5, <2>3, <2>4, <2>6
    <3> QED BY <1>1, <1>6, <2>7, <3>1, <3>2 DEF Behind
  <2>9. Papered'
    <3>1. \A q \in listing' \cup Yielded' : q \in first' \/ \A o \in first' : o < q
      <4>1. \A o \in first : o < r
        BY <1>2, <1>3
      <4> QED BY <1>2, <1>6, <2>1, <4>1 DEF WalkInv, Papered
    <3>2. fetcher' = "atom" => OneEach(listing \cup first \cup Yielded)'
      <4> DEFINE all == listing \cup first \cup Yielded
      <4> SUFFICES ASSUME fetcher = "atom",
                          NEW p \in all \cup {r}, NEW q \in all \cup {r}, paper[p] = paper[q]
                   PROVE  p = q
        <5>1. listing' \cup first' \cup Yielded' = all \cup {r}
          BY <1>2, <1>6, <2>1
        <5> HIDE DEF all
        <5> QED BY <1>1, <5>1 DEF OneEach
      <4>1. OneEach(all) /\ \A o \in all : paper[o] # paper[r]
        BY <1>2 DEF WalkInv, Papered, Listable, SamePaper
      <4> HIDE DEF all
      <4> QED BY <4>1 DEF OneEach
    <3>3. fetcher' = "oai" => OneEach(listing)' /\ OneEach(first)'
      <4> SUFFICES ASSUME fetcher = "oai" PROVE OneEach(listing)' /\ OneEach(first)'
        BY <1>1
      <4>1. OneEach(listing) /\ OneEach(first) /\ \A q \in listing : paper[q] # paper[r]
        BY <1>2 DEF WalkInv, Papered, Listable, SamePaper
      <4>2. OneEach(listing)'
        BY <1>1, <1>2, <4>1 DEF OneEach
      <4>3. OneEach(first)'
        BY <1>1, <2>1, <4>1 DEF OneEach
      <4> QED BY <4>2, <4>3
    <3> QED BY <1>1, <1>12, <3>1, <3>2, <3>3 DEF Papered
  <2> QED BY <1>1, <1>5, <1>7, <1>8, <2>8, <2>9, ServerYields DEF WalkInv
<1> QED BY <1>11, <1>12

LEMMA WithdrawStep == ASSUME WalkInv, Withdraw PROVE WalkInv'
<1>1. /\ ended = "" /\ page # 0 /\ fetcher' = fetcher /\ shape' = shape /\ paper' = paper
      /\ page' = page /\ cursor' = cursor /\ tokens' = tokens /\ times' = times
      /\ ended' = ended /\ first' = first
  <2>1. page > 0 /\ page \in Nat
    BY WalkTypes DEF Withdraw
  <2>2. page # 0
    BY <2>1
  <2> QED BY <2>2 DEF Withdraw
<1>2. PICK x \in listing :
        /\ listing' = listing \ {x}
        /\ gaps' = IF Place(x) < cursor THEN gaps + 1 ELSE gaps
  BY DEF Withdraw
<1>3. /\ x \in Nat /\ listing \subseteq Nat /\ cursor \in Nat /\ gaps \in Nat
      /\ Place(x) \in 0..(Cardinality(listing) - 1)
  BY WalkTypes, PlaceType
<1>4. /\ IsFiniteSet(listing') /\ IsFiniteSet(listing)
      /\ Cardinality(listing) \in Nat /\ Cardinality(listing') = Cardinality(listing) - 1
  BY <1>2, FS_RemoveElement, FS_CardinalityType DEF WalkInv
<1>5. Yielded' = Yielded /\ Due' \subseteq Due
  <2>1. Yielded' = Yielded /\ \A q : Wanted(q)' = Wanted(q)
    BY <1>1 DEF Yielded, Wanted, AtomParsed, OaiParsed, BiorxivParsed, Matches, SamePaper
  <2> QED BY <1>1, <1>2, <2>1 DEF Due
<1>6. WalkTypeOK'
  <2>1. gaps' \in Nat
    BY <1>2, <1>3
  <2>2. listing' \subseteq listing
    BY <1>2
  <2> QED BY <1>1, <2>1, <2>2 DEF WalkInv, WalkTypeOK
<1>7. Stands' /\ Complete'
  BY <1>1 DEF WalkInv, Stands, Complete
<1>8. ASSUME NEW q \in listing'
      PROVE  /\ Place(q) \in Nat /\ Place(q)' \in Nat /\ Place(q)' <= Place(q) /\ Place(q) <= Place(q)' + 1
             /\ Place(q)' # Place(q) => Place(x) < Place(q)
  <2>1. Ahead(q)' = Ahead(q) \ {x}
    BY <1>1, <1>2 DEF Ahead, Precedes
  <2>2. /\ IsFiniteSet(Ahead(q)) /\ Place(q) \in Nat
    BY <1>4, AheadOf
  <2>3. Cardinality(Ahead(q) \ {x}) = IF x \in Ahead(q) THEN Cardinality(Ahead(q)) - 1 ELSE Cardinality(Ahead(q))
    BY <2>2, FS_RemoveElement
  <2>4. Place(q)' = IF x \in Ahead(q) THEN Place(q) - 1 ELSE Place(q)
    BY <2>1, <2>3 DEF Place
  <2>5. x \in Ahead(q) => Place(x) < Place(q)
    BY <1>2, <1>3, <1>4, PlaceGrows DEF Ahead
  <2>6. Place(q)' \in Nat
    BY <1>4, PlaceMoves
  <2> QED BY <2>2, <2>4, <2>5, <2>6
<1>9. ASSUME NEW q \in Lost'
      PROVE  q \in Lost \/ (q \in listing /\ Place(q) = cursor /\ Place(x) < cursor)
  <2>1. q \in listing' /\ q \in listing /\ q \in Due \ Yielded /\ Place(q)' < cursor
    BY <1>1, <1>2, <1>5 DEF Lost, Due
  <2>2. CASE Place(q) < cursor
    BY <2>1, <2>2 DEF Lost
  <2>3. CASE ~(Place(q) < cursor)
    <3>1. Place(q) = cursor /\ Place(x) < Place(q)
      BY <1>3, <1>8, <2>1, <2>3
    <3> QED BY <2>1, <3>1
  <2> QED BY <2>2, <2>3
<1>10. IsFiniteSet(Lost) /\ Cardinality(Lost) \in Nat /\ Cardinality(Lost) <= gaps
  BY LostCount
<1>11. fetcher # "atom" => cursor + Cardinality(Lost) <= Cardinality(listing) + gaps
  BY <1>1 DEF WalkInv, Behind
<1>12. /\ Cardinality(Lost') <= gaps'
       /\ fetcher # "atom" => cursor + Cardinality(Lost') <= Cardinality(listing') + gaps'
  <2>1. CASE Lost' \subseteq Lost
    <3>1. Cardinality(Lost') \in Nat /\ Cardinality(Lost') <= Cardinality(Lost)
      BY <1>10, <2>1, FewerCount
    <3> QED BY <1>2, <1>3, <1>4, <1>10, <1>11, <3>1
  <2>2. CASE ~(Lost' \subseteq Lost)
    <3>1. PICK y \in Lost' : y \in listing /\ Place(y) = cursor /\ Place(x) < cursor
      BY <1>9, <2>2
    <3>2. Lost' \subseteq Lost \cup {y}
      BY <1>3, <1>4, <1>9, <3>1, OnePlaceEach
    <3>3. Cardinality(Lost') \in Nat /\ Cardinality(Lost') <= Cardinality(Lost) + 1
      BY <1>10, <3>2, OneMoreCount
    <3>4. cursor <= Cardinality(listing) - 1
      BY <1>3, <1>4, <3>1, PlaceType
    <3> QED BY <1>2, <1>3, <1>4, <1>10, <3>1, <3>3, <3>4
  <2> QED BY <2>1, <2>2
<1>13. ASSUME fetcher # "atom", NEW q \in listing' \cap Yielded PROVE Place(q)' < cursor
  <2>1. Place(q) < cursor
    BY <1>1, <1>2, <1>13 DEF WalkInv, Behind
  <2> QED BY <1>3, <1>8, <2>1
<1>14. Behind'
  BY <1>1, <1>5, <1>12, <1>13 DEF Behind
<1>15. Papered'
  <2>1. Papered /\ listing' \subseteq listing /\ Yielded' = Yielded
    BY <1>2, <1>5 DEF WalkInv
  <2>2. \A r \in listing' \cup Yielded' : r \in first' \/ \A q \in first' : q < r
    BY <1>1, <2>1 DEF Papered
  <2>3. fetcher' = "atom" => OneEach(listing \cup first \cup Yielded)'
    <3>1. listing' \cup first' \cup Yielded' \subseteq listing \cup first \cup Yielded
      BY <1>1, <2>1
    <3> QED BY <1>1, <2>1, <3>1 DEF Papered, OneEach
  <2>4. fetcher' = "oai" => OneEach(listing)' /\ OneEach(first)'
    BY <1>1, <2>1 DEF Papered, OneEach
  <2> QED BY <1>1, <2>2, <2>3, <2>4 DEF Papered
<1> QED BY <1>1, <1>4, <1>6, <1>7, <1>14, <1>15, ServerYields DEF WalkInv

LEMMA WalkStarts == WalkInit => WalkInv
<1> SUFFICES ASSUME WalkInit PROVE WalkInv
  OBVIOUS
<1>1. PICK S \in SUBSET Records : IsFiniteSet(S) /\ listing = Windowed(S)
  BY DEF WalkInit
<1>2. listing \subseteq Records /\ IsFiniteSet(listing) /\ Cardinality(listing) \in Nat
  <2>1. listing \subseteq S
    BY <1>1 DEF Windowed
  <2> QED BY <1>1, <2>1, FS_Subset, FS_CardinalityType
<1>3. /\ first = listing /\ gaps = 0 /\ page = 0 /\ cursor = 0 /\ tokens = {}
      /\ times = [r \in Records |-> 0] /\ ended = "" /\ fetcher \in Fetchers /\ shape \in Shapes
      /\ paper \in Papers /\ (fetcher # "biorxiv" => OneEach(listing))
  BY DEF WalkInit
<1>4. page \in 0..MaxPages /\ page < MaxPages /\ cursor = page * PageSize
  <2>1. MaxPages \in Nat \ {0} /\ PageSize \in Nat /\ page = 0 /\ cursor = 0
    BY <1>3, PagingConstants
  <2>2. page \in 0..MaxPages /\ page < MaxPages
    BY <2>1
  <2>3. 0 = 0 * PageSize
    BY <2>1
  <2> QED BY <2>1, <2>2, <2>3
<1>5. \A r \in Records : times[r] = 0
  BY <1>3
<1>6. WalkTypeOK
  <2>1. times \in [Records -> Nat] /\ cursor \in Nat /\ tokens \subseteq Nat /\ gaps \in Nat
    BY <1>3
  <2>2. page \in 0..MaxPages
    BY <1>4
  <2> QED BY <1>2, <1>3, <2>1, <2>2, Zenon DEF WalkTypeOK
<1>7. Stands
  BY <1>3, <1>4 DEF Stands
<1>8. Yielded = {} /\ NothingTwice
  BY <1>5 DEF Yielded, NothingTwice
<1>9. Lost = {} /\ Cardinality(Lost) = 0
  <2>1. \A r : ~(Place(r) < 0)
    BY <1>2, AheadOf
  <2>2. Lost = {}
    BY <1>3, <2>1 DEF Lost
  <2> QED BY <2>2, FS_EmptySet
<1>10. Behind /\ Complete
  <2>1. cursor = 0 /\ gaps = 0 /\ Cardinality(listing) \in Nat
    BY <1>2, <1>3
  <2>2. cursor + Cardinality(Lost) <= Cardinality(listing) + gaps /\ Cardinality(Lost) <= gaps
    BY <1>9, <2>1
  <2> QED BY <1>3, <1>8, <2>2 DEF Behind, Complete
<1>11. Papered
  <2>1. listing \cup first \cup Yielded = listing
    BY <1>3, <1>8
  <2> QED BY <1>3, <1>8, <2>1 DEF Papered
<1> QED BY <1>2, <1>6, <1>7, <1>8, <1>10, <1>11 DEF WalkInv

LEMMA WalkStep == WalkInv /\ [WalkNext]_walkVars => WalkInv'
<1> SUFFICES ASSUME WalkInv, [WalkNext]_walkVars PROVE WalkInv'
  OBVIOUS
<1>1. CASE UNCHANGED walkVars
  <2>1. UNCHANGED serverVars /\ UNCHANGED <<page, cursor, tokens, times, ended>>
    BY <1>1 DEF walkVars, serverVars
  <2>2. Yielded' = Yielded
    BY <2>1 DEF Yielded
  <2>3. Lost' = Lost
    BY <2>1, <2>2, ServerStill DEF Lost
  <2>4. Behind' /\ Complete'
    BY <2>1, <2>2, <2>3, ServerStill DEF WalkInv, Behind, Complete, serverVars
  <2>5. Papered' /\ NothingTwice'
    <3>1. Papered /\ NothingTwice
      BY DEF WalkInv
    <3>2. OneEach(listing \cup first \cup Yielded)' = OneEach(listing \cup first \cup Yielded)
      BY <2>1, <2>2 DEF OneEach, serverVars
    <3>3. /\ OneEach(listing)' = OneEach(listing) /\ OneEach(first)' = OneEach(first)
      BY <2>1 DEF OneEach, serverVars
    <3>4. Papered'
      BY <2>1, <2>2, <3>1, <3>2, <3>3 DEF Papered, serverVars
    <3>5. NothingTwice'
      BY <2>1, <2>2, <3>1 DEF NothingTwice, serverVars
    <3> QED BY <3>4, <3>5
  <2> QED BY <2>1, <2>4, <2>5 DEF WalkInv, WalkTypeOK, Stands, serverVars
<1> QED
  BY <1>1, AppearStep, WithdrawStep, AtomStep, OaiStep, BiorxivStep, RaisesStep DEF WalkNext, Walk

(* Whatever the server adds, withdraws or answers between two requests: the  *)
(* loop stands below its ceiling, and what is behind its cursor has been     *)
(* yielded.  (discover of ArxivFetcher, ArxivOaiFetcher, BiorxivFetcher)     *)
THEOREM WalkInvariance == WalkSpec => []WalkInv
BY WalkStarts, WalkStep, PTL DEF WalkSpec

(* A walk that ends at the window edge, at a total that is no understatement *)
(* or without a token has missed at most one record for each that went away  *)
(* from behind its cursor: for listings, pages and ceilings of any size,     *)
(* whatever is added in front or behind.  (the discover of the fetchers)     *)
THEOREM WalkComplete == WalkSpec => []Complete
<1>1. WalkInv => Complete
  BY DEF WalkInv
<1> QED BY <1>1, WalkInvariance, PTL

(* No record is yielded twice: the seen set catches what shifts onto a later *)
(* page of Atom, and the cursors of the other two never step back over what  *)
(* they have yielded, although withdrawals move records towards them.  A     *)
(* paper is yielded twice only by bioRxiv, as another version of it, or by   *)
(* OAI, as a record that was listed after the walk began.  (the seen set of  *)
(* ArxivFetcher.discover; parse_record of the bioRxiv fetcher)               *)
THEOREM WalkYieldsOnce == WalkSpec => []NothingTwice
<1>1. WalkInv => NothingTwice
  BY DEF WalkInv
<1> QED BY <1>1, WalkInvariance, PTL
=============================================================================
