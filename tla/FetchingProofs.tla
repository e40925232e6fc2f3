--------------------------- MODULE FetchingProofs ---------------------------
(***************************************************************************)
(* Proofs about Fetching: type correctness, the invariant of the limiter's *)
(* lock, and from it that requests under one limiter are spaced, for any   *)
(* number of threads, hosts and sources.                                   *)
(***************************************************************************)
EXTENDS Fetching, TLAPS

\* The interval a limiter keeps is one some source declares, or none yet.
LEMMA StrictestType ==
  ASSUME NEW old \in -1..MaxAge, NEW s \in Sources
  PROVE  /\ Strictest(old, s.interval) \in -1..MaxAge
         /\ Strictest(old, s.interval) >= old
         /\ Strictest(old, s.interval) >= s.interval
         /\ s.host \in Hosts /\ s.interval \in 0..MaxAge
BY ConstantsOK DEF Strictest

LEMMA OlderType ==
  ASSUME NEW n \in 0..MaxAge
  PROVE  Older(n) \in 0..MaxAge /\ Older(n) >= n
BY ConstantsOK DEF Older

\* A sleep before a retry has a length.
LEMMA DelaysType == ASSUME NEW n \in Nat PROVE Delays(n) \subseteq Nat
<1>1. Jitter(n) \subseteq 0..Cap
  BY Zenon DEF Jitter
<1>2. 0..Cap \subseteq Nat /\ RetryAfters \subseteq Nat
  BY ConstantsOK
<1> QED BY <1>1, <1>2, Zenon DEF Delays

LEMMA RemainingType ==
  ASSUME TypeOK, NEW h \in Hosts
  PROVE  Remaining(h) \in Int
BY ConstantsOK DEF TypeOK, Remaining

LEMMA TypeInit == Init => TypeOK
BY ConstantsOK DEF Init, TypeOK, Steps

LEMMA ReturnType == ASSUME TypeOK, NEW t \in Threads, Return(t) PROVE TypeOK'
BY ConstantsOK DEF TypeOK, Return, Goto, Steps, limiterVars

LEMMA TypeStep == TypeOK /\ LimiterInv /\ [Next]_vars => TypeOK'
<1> SUFFICES ASSUME TypeOK, LimiterInv, [Next]_vars PROVE TypeOK'
  OBVIOUS
<1>1. CASE UNCHANGED vars
  BY <1>1 DEF TypeOK, vars, limiterVars, getVars, walkVars
<1>2. CASE Tick
  BY <1>2, OlderType DEF TypeOK, Tick, getVars, walkVars
<1>3. ASSUME NEW t \in Threads, Step(t) PROVE TypeOK'
  <2>1. CASE Get(t)
    <3>1. PICK s \in Sources :
             /\ interval' = [interval EXCEPT ![s.host] = Strictest(interval[s.host], s.interval)]
             /\ home' = [home EXCEPT ![t] = s.host]
             /\ host' = [host EXCEPT ![t] = s.host]
             /\ asked' = [asked EXCEPT ![t] = s.interval]
      BY <2>1 DEF Get
    <3>2. s.host \in Hosts /\ interval[s.host] \in -1..MaxAge
      BY StrictestType, ConstantsOK DEF TypeOK
    <3>3. Strictest(interval[s.host], s.interval) \in -1..MaxAge /\ s.interval \in 0..MaxAge
      BY <3>2, StrictestType
    <3> QED BY <2>1, <3>1, <3>2, <3>3 DEF TypeOK, Get, Goto, Steps
  <2>2. CASE Validate(t)
    BY <2>2 DEF TypeOK, Validate, Goto, Steps, limiterVars, getVars, walkVars
  <2>3. CASE Acquire(t)
    BY <2>3, ConstantsOK DEF TypeOK, LimiterInv, IntervalKept, Acquire, Remaining, Goto, Steps,
                             getVars, walkVars
  <2>4. CASE Wake(t)
    <3>1. /\ age' = [age EXCEPT ![home[t]] = 0]
          /\ holder' = [holder EXCEPT ![home[t]] = None]
      BY <2>4 DEF Wake
    <3>0. age \in [Hosts -> 0..MaxAge] /\ holder \in [Hosts -> Threads \cup {None}]
          /\ 0 \in 0..MaxAge
      BY ConstantsOK DEF TypeOK
    <3>4. age' \in [Hosts -> 0..MaxAge] /\ holder' \in [Hosts -> Threads \cup {None}]
      BY <3>0, <3>1
    <3>2. pc' = [pc EXCEPT ![t] = "send"]
      BY <2>4 DEF Wake, Goto
    <3>3. UNCHANGED <<interval, home, asked, host, attempt, hop, nap, quiet>>
      BY <2>4 DEF Wake, getVars, walkVars
    <3> QED BY <3>2, <3>3, <3>4 DEF TypeOK, Steps
  <2>5. CASE Send(t)
    <3>1. quiet' = [quiet EXCEPT ![home[t]] = 0]
      BY <2>5 DEF Send
    <3>0. quiet \in [Hosts -> 0..MaxAge] /\ 0 \in 0..MaxAge
      BY ConstantsOK DEF TypeOK
    <3>4. quiet' \in [Hosts -> 0..MaxAge]
      BY <3>0, <3>1
    <3>2. pc' = [pc EXCEPT ![t] = "flight"]
      BY <2>5 DEF Send, Goto
    <3>3. UNCHANGED <<interval, age, holder, home, asked, host, attempt, hop, nap>>
      BY <2>5 DEF Send, limiterVars, getVars, walkVars
    <3> QED BY <3>2, <3>3, <3>4 DEF TypeOK, Steps
  <2>6. CASE Redirect(t)
    BY <2>6, ConstantsOK DEF TypeOK, Redirect, Goto, Steps, limiterVars, getVars
  <2>7. CASE Backoff(t)
    <3>1. PICK d \in Delays(attempt[t]) : nap' = [nap EXCEPT ![t] = d]
      BY <2>7 DEF Backoff
    <3>2. d \in Nat
      BY DelaysType, ConstantsOK DEF TypeOK
    <3> QED BY <2>7, <3>1, <3>2 DEF TypeOK, Backoff, Goto, Steps, limiterVars, getVars, walkVars
  <2>8. CASE Retry(t)
    <3>1. attempt[t] < MaxAttempts - 1
      BY <2>8 DEF Retry, LimiterInv, AttemptLeft
    <3> QED BY <2>8, <3>1, ConstantsOK DEF TypeOK, Retry, Goto, Steps, limiterVars, getVars
  <2>9. CASE ValidateRaises(t) \/ Settle(t) \/ TooManyRedirects(t) \/ GiveUp(t)
    BY <2>9, ReturnType DEF ValidateRaises, Settle, TooManyRedirects, GiveUp
  <2> QED BY <1>3, <2>1, <2>2, <2>3, <2>4, <2>5, <2>6, <2>7, <2>8, <2>9 DEF Step
<1> QED BY <1>1, <1>2, <1>3 DEF Next

LEMMA LimiterInit == Init => LimiterInv
BY ConstantsOK DEF Init, LimiterInv, IntervalKept, LockKept, PermitFresh, AttemptLeft

\* A step of a thread that neither holds a permit nor waits for one, before or
\* after, and that leaves the limiters alone.
LEMMA OutsideStep ==
  ASSUME TypeOK, LimiterInv,
         NEW t \in Threads, NEW l \in Steps \ {"sleep", "send"},
         pc[t] \notin {"sleep", "send"},
         pc' = [pc EXCEPT ![t] = l],
         UNCHANGED <<interval, age, holder, quiet>>,
         \A u \in Threads \ {t} : /\ home'[u] = home[u] /\ asked'[u] = asked[u]
                                 /\ nap'[u] = nap[u] /\ attempt'[u] = attempt[u],
         l # "idle" => home'[t] \in Hosts /\ asked'[t] <= interval[home'[t]],
         l = "backoff" => attempt'[t] < MaxAttempts - 1
  PROVE  LimiterInv'
<1>1. /\ pc'[t] = l
      /\ \A u \in Threads \ {t} : pc'[u] = pc[u]
  BY DEF TypeOK
<1>2. IntervalKept'
  BY <1>1 DEF LimiterInv, IntervalKept
<1>3. LockKept'
  <2>1. \A u \in Threads : pc'[u] = "sleep" => holder'[home'[u]] = u
                                             /\ age'[home'[u]] + nap'[u] >= asked'[u]
    BY <1>1 DEF LimiterInv, LockKept
  <2>2. ASSUME NEW h \in Hosts, holder'[h] # None
        PROVE  holder'[h] \in Threads /\ pc'[holder'[h]] = "sleep" /\ home'[holder'[h]] = h
    BY <1>1, <2>2 DEF LimiterInv, LockKept
  <2> QED BY <2>1, <2>2 DEF LockKept
<1>4. PermitFresh'
  BY <1>1 DEF LimiterInv, PermitFresh
<1>5. AttemptLeft'
  BY <1>1 DEF LimiterInv, AttemptLeft
<1> QED BY <1>2, <1>3, <1>4, <1>5 DEF LimiterInv

\* for_host only ever raises an interval, so every other thread keeps its own.
LEMMA GetStep == ASSUME TypeOK, LimiterInv, NEW t \in Threads, Get(t) PROVE LimiterInv'
<1>1. PICK s \in Sources :
        /\ interval' = [interval EXCEPT ![s.host] = Strictest(interval[s.host], s.interval)]
        /\ home' = [home EXCEPT ![t] = s.host]
        /\ asked' = [asked EXCEPT ![t] = s.interval]
  BY DEF Get
<1>2. s.host \in Hosts /\ s.interval \in Nat /\ interval[s.host] \in -1..MaxAge
  BY ConstantsOK DEF TypeOK
<1>3. /\ Strictest(interval[s.host], s.interval) >= interval[s.host]
      /\ Strictest(interval[s.host], s.interval) >= s.interval
      /\ Strictest(interval[s.host], s.interval) \in Int
  BY <1>2 DEF Strictest
<1>4. /\ pc[t] = "idle" /\ pc'[t] = "validate"
      /\ home'[t] = s.host /\ asked'[t] = s.interval
      /\ \A u \in Threads \ {t} : /\ pc'[u] = pc[u]
                                 /\ home'[u] = home[u] /\ asked'[u] = asked[u]
      /\ UNCHANGED <<age, holder, attempt, nap, quiet>>
  BY <1>1 DEF TypeOK, Get, Goto
<1>5. \A h \in Hosts : interval'[h] >= interval[h] /\ interval'[h] \in Int /\ interval[h] \in Int
  BY <1>1, <1>2, <1>3 DEF TypeOK
<1>6. interval'[s.host] >= s.interval
  BY <1>1, <1>2, <1>3 DEF TypeOK
<1>7. IntervalKept'
  <2>1. ASSUME NEW u \in Threads, pc'[u] # "idle"
        PROVE  home'[u] \in Hosts /\ asked'[u] <= interval'[home'[u]]
    <3>1. CASE u = t
      BY <1>2, <1>4, <1>6, <3>1
    <3>2. CASE u # t
      <4>1. home[u] \in Hosts /\ asked[u] <= interval[home[u]] /\ asked[u] \in Int
        BY <1>4, <2>1, <3>2, ConstantsOK DEF LimiterInv, IntervalKept, TypeOK
      <4> QED BY <1>4, <1>5, <3>2, <4>1
    <3> QED BY <3>1, <3>2
  <2> QED BY <2>1 DEF IntervalKept
<1>8. LockKept'
  BY <1>4 DEF LimiterInv, LockKept
<1>9. PermitFresh'
  BY <1>4 DEF LimiterInv, PermitFresh
<1>10. AttemptLeft'
  BY <1>4 DEF LimiterInv, AttemptLeft
<1> QED BY <1>7, <1>8, <1>9, <1>10 DEF LimiterInv

\* Under the lock: a permit at once, or a sleep that is long enough.
LEMMA AcquireStep == ASSUME TypeOK, LimiterInv, NEW t \in Threads, Acquire(t) PROVE LimiterInv'
<1> DEFINE h == home[t]
<1>1. /\ pc[t] = "acquire" /\ holder[h] = None
      /\ h \in Hosts /\ asked[t] <= interval[h]
      /\ asked[t] \in Int /\ interval[h] \in Int /\ age[h] \in Int
      /\ UNCHANGED <<interval, home, asked, attempt, quiet>>
  BY ConstantsOK DEF Acquire, TypeOK, LimiterInv, IntervalKept, getVars, walkVars
<1>2. \A u \in Threads \ {t} : pc'[u] = pc[u]
  BY DEF Acquire, Goto, TypeOK
<1>3. \A u \in Threads : home[u] = h => pc[u] # "sleep"
  BY <1>1, ConstantsOK DEF LimiterInv, LockKept
<1>4. CASE interval[h] - age[h] > 0
  <2>1. /\ holder' = [holder EXCEPT ![h] = t]
        /\ nap' = [nap EXCEPT ![t] = interval[h] - age[h]]
        /\ pc'[t] = "sleep"
        /\ age' = age
    BY <1>4, <1>1 DEF Acquire, Remaining, Goto, TypeOK
  <2>2. IntervalKept'
    BY <1>1, <1>2 DEF LimiterInv, IntervalKept
  <2>3. LockKept'
    BY <1>1, <1>2, <1>3, <2>1 DEF LimiterInv, LockKept, TypeOK
  <2>4. PermitFresh'
    BY <1>1, <1>2, <2>1 DEF LimiterInv, PermitFresh, IntervalKept, TypeOK
  <2>5. AttemptLeft'
    BY <1>1, <1>2, <2>1 DEF LimiterInv, AttemptLeft
  <2> QED BY <2>2, <2>3, <2>4, <2>5 DEF LimiterInv
<1>5. CASE ~(interval[h] - age[h] > 0)
  <2>1. /\ holder' = holder /\ nap' = nap
        /\ age' = [age EXCEPT ![h] = 0]
        /\ pc'[t] = "send"
    BY <1>5, <1>1 DEF Acquire, Remaining, Goto, TypeOK
  <2>2. IntervalKept'
    BY <1>1, <1>2 DEF LimiterInv, IntervalKept
  <2>3. LockKept'
    BY <1>1, <1>2, <1>3, <2>1 DEF LimiterInv, LockKept, TypeOK
  <2>4. PermitFresh'
    BY <1>1, <1>2, <1>3, <1>5, <2>1, ConstantsOK DEF LimiterInv, PermitFresh, IntervalKept, TypeOK
  <2>5. AttemptLeft'
    BY <1>1, <1>2, <2>1 DEF LimiterInv, AttemptLeft
  <2> QED BY <2>2, <2>3, <2>4, <2>5 DEF LimiterInv
<1> QED BY <1>4, <1>5

\* Whoever wakes held the lock, so nobody else has a permit that is newer.
LEMMA WakeStep == ASSUME TypeOK, LimiterInv, NEW t \in Threads, Wake(t) PROVE LimiterInv'
<1> DEFINE h == home[t]
<1>1. /\ pc[t] = "sleep" /\ nap[t] = 0 /\ h \in Hosts
      /\ holder[h] = t /\ age[h] + nap[t] >= asked[t]
      /\ asked[t] \in Int /\ age[h] \in Nat /\ quiet[h] \in Int /\ quiet[h] >= age[h]
      /\ UNCHANGED <<interval, home, asked, attempt, nap, quiet>>
  BY ConstantsOK DEF Wake, TypeOK, LimiterInv, IntervalKept, LockKept, PermitFresh,
                     getVars, walkVars
<1>2. /\ age' = [age EXCEPT ![h] = 0]
      /\ holder' = [holder EXCEPT ![h] = None]
      /\ pc'[t] = "send"
      /\ \A u \in Threads \ {t} : pc'[u] = pc[u]
  BY DEF Wake, Goto, TypeOK
<1>3. \A u \in Threads \ {t} : home[u] = h => pc[u] # "sleep"
  BY <1>1 DEF LimiterInv, LockKept
<1>4. IntervalKept'
  BY <1>1, <1>2 DEF LimiterInv, IntervalKept
<1>5. LockKept'
  BY <1>1, <1>2, <1>3, ConstantsOK DEF LimiterInv, LockKept, TypeOK
<1>6. PermitFresh'
  <2>1. \A g \in Hosts : quiet'[g] >= age'[g]
    BY <1>1, <1>2 DEF LimiterInv, PermitFresh, TypeOK
  <2>2. \A u \in Threads : pc'[u] = "send" => age'[home'[u]] = 0 /\ quiet'[home'[u]] >= asked'[u]
    BY <1>1, <1>2 DEF LimiterInv, PermitFresh, TypeOK, IntervalKept
  <2>3. ASSUME NEW u \in Threads, NEW v \in Threads,
               u # v, pc'[u] = "send", home'[v] = home'[u]
        PROVE  /\ pc'[v] = "sleep" => nap'[v] >= asked'[u]
               /\ pc'[v] = "send" => asked'[u] = 0
    <3>1. asked[u] \in Nat /\ asked[t] \in Nat
      BY ConstantsOK DEF TypeOK
    <3>2. CASE u = t
      <4>1. pc'[v] # "sleep"
        BY <1>1, <1>2, <1>3, <2>3, <3>2
      <4>2. ASSUME pc[v] = "send" PROVE asked[t] = 0
        \* v's permit left age 0, and t slept no longer than nothing.
        BY <1>1, <1>2, <2>3, <3>1, <3>2, <4>2 DEF LimiterInv, PermitFresh
      <4> QED BY <1>1, <1>2, <2>3, <3>2, <4>1, <4>2
    <3>3. CASE u # t /\ v = t
      BY <1>1, <1>2, <2>3, <3>1, <3>3 DEF LimiterInv, PermitFresh
    <3>4. CASE u # t /\ v # t
      BY <1>1, <1>2, <2>3, <3>4 DEF LimiterInv, PermitFresh
    <3> QED BY <3>2, <3>3, <3>4
  <2> QED BY <2>1, <2>2, <2>3 DEF PermitFresh
<1>7. AttemptLeft'
  BY <1>1, <1>2 DEF LimiterInv, AttemptLeft
<1> QED BY <1>4, <1>5, <1>6, <1>7 DEF LimiterInv

\* Another permit under the same limiter is one of a source without an interval.
LEMMA SendStep == ASSUME TypeOK, LimiterInv, NEW t \in Threads, Send(t) PROVE LimiterInv'
<1>1. /\ pc[t] = "send" /\ home[t] \in Hosts /\ age[home[t]] = 0
      /\ quiet' = [quiet EXCEPT ![home[t]] = 0]
      /\ pc'[t] = "flight" /\ \A u \in Threads \ {t} : pc'[u] = pc[u]
      /\ UNCHANGED <<interval, age, holder, home, asked, attempt, nap>>
  BY DEF Send, Goto, TypeOK, LimiterInv, IntervalKept, PermitFresh, limiterVars, getVars, walkVars
<1>2. IntervalKept'
  BY <1>1 DEF LimiterInv, IntervalKept
<1>3. LockKept'
  BY <1>1 DEF LimiterInv, LockKept
<1>4. PermitFresh'
  <2>1. \A g \in Hosts : quiet'[g] >= age'[g]
    BY <1>1 DEF LimiterInv, PermitFresh, TypeOK
  <2>2. ASSUME NEW u \in Threads, pc'[u] = "send"
        PROVE  age'[home'[u]] = 0 /\ quiet'[home'[u]] >= asked'[u]
    <3>1. u # t /\ pc[u] = "send" /\ home[u] \in Hosts
      BY <1>1, <2>2 DEF LimiterInv, IntervalKept
    <3>2. home[u] = home[t] => asked[u] = 0
      BY <1>1, <3>1 DEF LimiterInv, PermitFresh
    <3> QED BY <1>1, <3>1, <3>2 DEF LimiterInv, PermitFresh, TypeOK
  <2> QED BY <1>1, <2>1, <2>2 DEF LimiterInv, PermitFresh
<1>5. AttemptLeft'
  BY <1>1 DEF LimiterInv, AttemptLeft
<1> QED BY <1>2, <1>3, <1>4, <1>5 DEF LimiterInv

\* While time passes a sleep shortens by what the age grows, up to MaxAge.
LEMMA TickStep == ASSUME TypeOK, LimiterInv, Tick PROVE LimiterInv'
<1>1. /\ \A t \in Threads : pc[t] # "send"
      /\ age' = [h \in Hosts |-> Older(age[h])]
      /\ quiet' = [h \in Hosts |-> Older(quiet[h])]
      /\ nap' = [t \in Threads |-> IF nap[t] > 0 THEN nap[t] - 1 ELSE 0]
      /\ UNCHANGED <<interval, holder, pc, home, asked, attempt>>
  BY DEF Tick, getVars, walkVars
<1>2. IntervalKept' /\ AttemptLeft'
  BY <1>1 DEF LimiterInv, IntervalKept, AttemptLeft
<1>3. LockKept'
  <2>1. ASSUME NEW t \in Threads, pc[t] = "sleep"
        PROVE  age'[home[t]] + nap'[t] >= asked[t]
    <3>1. home[t] \in Hosts /\ age[home[t]] + nap[t] >= asked[t]
      BY <2>1 DEF LimiterInv, IntervalKept, LockKept
    <3>2. age[home[t]] \in 0..MaxAge /\ nap[t] \in Nat /\ asked[t] \in 0..MaxAge /\ MaxAge \in Nat
      BY <3>1, ConstantsOK DEF TypeOK
    <3> QED BY <1>1, <3>1, <3>2 DEF Older
  <2> QED BY <1>1, <2>1 DEF LimiterInv, LockKept
<1>4. PermitFresh'
  <2>1. ASSUME NEW h \in Hosts PROVE quiet'[h] >= age'[h]
    <3>1. age[h] \in 0..MaxAge /\ quiet[h] \in 0..MaxAge /\ MaxAge \in Nat /\ quiet[h] >= age[h]
      BY ConstantsOK DEF TypeOK, LimiterInv, PermitFresh
    <3> QED BY <1>1, <3>1 DEF Older
  <2> QED BY <1>1, <2>1 DEF PermitFresh
<1> QED BY <1>2, <1>3, <1>4 DEF LimiterInv

LEMMA LimiterStep == TypeOK /\ LimiterInv /\ [Next]_vars => LimiterInv'
<1> SUFFICES ASSUME TypeOK, LimiterInv, [Next]_vars PROVE LimiterInv'
  OBVIOUS
<1>1. CASE UNCHANGED vars
  BY <1>1 DEF LimiterInv, IntervalKept, LockKept, PermitFresh, AttemptLeft,
              vars, limiterVars, getVars, walkVars
<1>2. CASE Tick
  BY <1>2, TickStep
<1>3. ASSUME NEW t \in Threads, Step(t) PROVE LimiterInv'
  <2>1. CASE Get(t)
    BY <2>1, GetStep
  <2>2. CASE Validate(t)
    <3>1. home[t] \in Hosts /\ asked[t] <= interval[home[t]]
      BY <2>2 DEF Validate, LimiterInv, IntervalKept
    <3> QED BY <2>2, <3>1, OutsideStep
            DEF Validate, Goto, Steps, limiterVars, getVars, walkVars
  <2>3. CASE Acquire(t)
    BY <2>3, AcquireStep
  <2>4. CASE Wake(t)
    BY <2>4, WakeStep
  <2>5. CASE Send(t)
    BY <2>5, SendStep
  <2>6. CASE Redirect(t)
    <3>1. home[t] \in Hosts /\ asked[t] <= interval[home[t]]
      BY <2>6 DEF Redirect, LimiterInv, IntervalKept
    <3> QED BY <2>6, <3>1, OutsideStep DEF Redirect, Goto, Steps, limiterVars, getVars
  <2>7. CASE Backoff(t)
    <3>1. /\ pc[t] = "flight" /\ attempt[t] < MaxAttempts - 1
          /\ home[t] \in Hosts /\ asked[t] <= interval[home[t]]
          /\ pc' = [pc EXCEPT ![t] = "backoff"]
          /\ UNCHANGED <<interval, age, holder, quiet, home, asked, attempt>>
      BY <2>7 DEF Backoff, Goto, LimiterInv, IntervalKept, limiterVars, getVars, walkVars
    <3>2. \A u \in Threads \ {t} : nap'[u] = nap[u]
      BY <2>7 DEF Backoff, TypeOK
    <3> QED BY <3>1, <3>2, OutsideStep DEF Steps
  <2>8. CASE Retry(t)
    <3>1. /\ pc[t] = "backoff"
          /\ home[t] \in Hosts /\ asked[t] <= interval[home[t]]
          /\ pc' = [pc EXCEPT ![t] = "validate"]
          /\ UNCHANGED <<interval, age, holder, quiet, home, asked, nap>>
      BY <2>8 DEF Retry, Goto, LimiterInv, IntervalKept, limiterVars, getVars
    <3>2. \A u \in Threads \ {t} : attempt'[u] = attempt[u]
      BY <2>8 DEF Retry, TypeOK
    <3> QED BY <3>1, <3>2, OutsideStep DEF Steps
  <2>9. CASE ValidateRaises(t) \/ Settle(t) \/ TooManyRedirects(t) \/ GiveUp(t)
    <3>1. Return(t) /\ pc[t] \in {"validate", "flight"}
      BY <2>9 DEF ValidateRaises, Settle, TooManyRedirects, GiveUp
    <3>2. /\ pc' = [pc EXCEPT ![t] = "idle"]
          /\ UNCHANGED <<interval, age, holder, quiet, nap>>
          /\ \A u \in Threads \ {t} : /\ home'[u] = home[u] /\ asked'[u] = asked[u]
                                     /\ attempt'[u] = attempt[u]
      BY <3>1 DEF Return, Goto, TypeOK, limiterVars
    <3> QED BY <3>1, <3>2, OutsideStep DEF Steps
  <2> QED BY <1>3, <2>1, <2>2, <2>3, <2>4, <2>5, <2>6, <2>7, <2>8, <2>9 DEF Step
<1> QED BY <1>1, <1>2, <1>3 DEF Next

(* The types hold in every behaviour.  (LimiterRegistry, SafeHttpClient.get)  *)
THEOREM FetchTypeCorrect == Spec => []TypeOK
<1>1. TypeOK /\ LimiterInv /\ [Next]_vars => TypeOK' /\ LimiterInv'
  BY TypeStep, LimiterStep
<1> QED BY <1>1, TypeInit, LimiterInit, PTL DEF Spec

(* The lock's invariant holds in every behaviour.  (MinIntervalLimiter)       *)
THEOREM LimiterInvariance == Spec => [](TypeOK /\ LimiterInv)
<1>1. TypeOK /\ LimiterInv /\ [Next]_vars => TypeOK' /\ LimiterInv'
  BY TypeStep, LimiterStep
<1> QED BY <1>1, TypeInit, LimiterInit, PTL DEF Spec

(* Requests under one limiter are spaced, for any number of threads and       *)
(* whatever they poll.  (MinIntervalLimiter.acquire, LimiterRegistry.for_host) *)
THEOREM Politeness == Spec => RequestsSpaced
<1>1. TypeOK /\ LimiterInv /\ [Next]_vars
        => [\A t \in Threads : Send(t) => quiet[home[t]] >= asked[t]]_vars
  <2> SUFFICES ASSUME TypeOK, LimiterInv, NEW t \in Threads, Send(t)
               PROVE  quiet[home[t]] >= asked[t]
    OBVIOUS
  <2> QED BY DEF Send, LimiterInv, PermitFresh
<1> QED BY <1>1, LimiterInvariance, PTL DEF Spec, RequestsSpaced
=============================================================================
