------------------------------ MODULE Fetching ------------------------------
(***************************************************************************)
(* SafeHttpClient.get over LimiterRegistry and MinIntervalLimiter: threads *)
(* that share one registry, as the module says they may, each polling a    *)
(* source at a time.  A source's client keeps the limiter of the source's  *)
(* own host for every request, redirect hops to other hosts included.      *)
(*                                                                         *)
(* Time is counted in ticks and kept as ages and countdowns, so that the   *)
(* clock itself needs no bound.  A URL is its host.                        *)
(***************************************************************************)
EXTENDS Integers, FiniteSets

CONSTANTS Threads, Hosts,
          Sources,      \* [host, interval]: what the registry file declares
          MaxAge,       \* bound: ages saturate here, above every interval
          MaxAttempts,  \* SafeHttpClient.max_attempts
          MaxRedirects, \* get's max_redirects
          Base, Cap,    \* DEFAULT_BACKOFF_BASE_SECONDS, MAX_BACKOFF_SECONDS
          RetryAfters,  \* numeric Retry-After headers servers send
          None          \* no thread, no host

ASSUME ConstantsOK ==
  /\ Sources \subseteq [host : Hosts, interval : Nat]
  /\ MaxAge \in Nat /\ \A s \in Sources : s.interval <= MaxAge
  /\ MaxAttempts \in Nat \ {0} /\ MaxRedirects \in Nat
  /\ Base \in Nat /\ Cap \in Nat
  /\ RetryAfters \subseteq Nat
  /\ None \notin Threads /\ None \notin Hosts

VARIABLES
  interval,   \* limiter of a host: min_interval, -1 when there is none yet
  age,        \* ticks since its _last_call (MaxAge when never)
  holder,     \* the thread inside `with self._lock`
  pc,
  home,       \* the host whose limiter the thread's client has
  host,       \* host of the URL about to be requested
  attempt, hop,
  nap,        \* ticks left in the current sleep
  asked,      \* the interval the source being polled asked for
  quiet       \* ticks since a request left under a host's limiter (observed)

limiterVars == <<interval, age, holder>>
getVars == <<home, asked>>
walkVars == <<host, attempt, hop>>
vars == <<limiterVars, pc, getVars, walkVars, nap, quiet>>

Steps == {"idle", "validate", "acquire", "sleep", "send", "flight", "backoff"}

Goto(t, l) == pc' = [pc EXCEPT ![t] = l]

Init ==
  /\ interval = [h \in Hosts |-> -1]
  /\ age = [h \in Hosts |-> MaxAge]
  /\ holder = [h \in Hosts |-> None]
  /\ pc = [t \in Threads |-> "idle"]
  /\ home = [t \in Threads |-> None]
  /\ host = [t \in Threads |-> None]
  /\ attempt = [t \in Threads |-> 0]
  /\ hop = [t \in Threads |-> 0]
  /\ nap = [t \in Threads |-> 0]
  /\ asked = [t \in Threads |-> 0]
  /\ quiet = [h \in Hosts |-> MaxAge]

\* Mutant: the limiter takes the interval of whoever asked last.
LatestInterval(old, wanted) == wanted

\* for_host keeps the strictest interval any source asked for.
Strictest(old, wanted) == IF wanted > old THEN wanted ELSE old

\* ingest_all's poll: the limiter of the source's host, then client.get.
Get(t) ==
  /\ pc[t] = "idle"
  /\ \E s \in Sources :
       /\ interval' = [interval EXCEPT ![s.host] = Strictest(@, s.interval)]
       /\ home' = [home EXCEPT ![t] = s.host]
       /\ host' = [host EXCEPT ![t] = s.host]
       /\ asked' = [asked EXCEPT ![t] = s.interval]
  /\ Goto(t, "validate")
  /\ UNCHANGED <<age, holder, attempt, hop, nap, quiet>>

\* get returns or raises, and its locals are gone.
Return(t) ==
  /\ Goto(t, "idle")
  /\ home' = [home EXCEPT ![t] = None]
  /\ host' = [host EXCEPT ![t] = None]
  /\ asked' = [asked EXCEPT ![t] = 0]
  /\ attempt' = [attempt EXCEPT ![t] = 0]
  /\ hop' = [hop EXCEPT ![t] = 0]
  /\ UNCHANGED <<limiterVars, nap, quiet>>

\* _get_once: every hop's URL is checked before it is requested.
Validate(t) ==
  /\ pc[t] = "validate"
  /\ Goto(t, "acquire")
  /\ UNCHANGED <<limiterVars, getVars, walkVars, nap, quiet>>

\* Its scheme is not allowed, or its host has a private address or, just
\* then, none at all: UnsafeUrlError.
ValidateRaises(t) == pc[t] = "validate" /\ Return(t)

Remaining(h) == interval[h] - age[h]

\* Mutant: the lock is taken only to read the state, not across the sleep.
AcquireUnlocked(t) ==
  LET h == home[t] IN
  /\ pc[t] = "acquire" /\ holder[h] = None
  /\ nap' = [nap EXCEPT ![t] = IF Remaining(h) > 0 THEN Remaining(h) ELSE 0]
  /\ age' = [age EXCEPT ![h] = IF Remaining(h) > 0 THEN @ ELSE 0]
  /\ Goto(t, IF Remaining(h) > 0 THEN "sleep" ELSE "send")
  /\ UNCHANGED <<interval, holder, getVars, walkVars, quiet>>

\* MinIntervalLimiter.acquire takes the lock.  When the interval has passed
\* it notes the call and releases; otherwise it sleeps, lock in hand.
Acquire(t) ==
  LET h == home[t] IN
  /\ pc[t] = "acquire" /\ holder[h] = None
  /\ \/ /\ Remaining(h) > 0
        /\ holder' = [holder EXCEPT ![h] = t]
        /\ nap' = [nap EXCEPT ![t] = Remaining(h)]
        /\ Goto(t, "sleep")
        /\ UNCHANGED age
     \/ /\ Remaining(h) <= 0
        /\ age' = [age EXCEPT ![h] = 0]
        /\ Goto(t, "send")
        /\ UNCHANGED <<holder, nap>>
  /\ UNCHANGED <<interval, getVars, walkVars, quiet>>

\* Mutant: the lock is not released on the path that slept.
WakeHolding(t) ==
  /\ pc[t] = "sleep" /\ nap[t] = 0
  /\ age' = [age EXCEPT ![home[t]] = 0]
  /\ Goto(t, "send")
  /\ UNCHANGED <<interval, holder, getVars, walkVars, nap, quiet>>

\* The sleep is over: acquire notes the call and releases the lock.
Wake(t) ==
  /\ pc[t] = "sleep" /\ nap[t] = 0
  /\ age' = [age EXCEPT ![home[t]] = 0]
  /\ holder' = [holder EXCEPT ![home[t]] = None]
  /\ Goto(t, "send")
  /\ UNCHANGED <<interval, getVars, walkVars, nap, quiet>>

\* The request leaves.
Send(t) ==
  /\ pc[t] = "send"
  /\ quiet' = [quiet EXCEPT ![home[t]] = 0]
  /\ Goto(t, "flight")
  /\ UNCHANGED <<limiterVars, getVars, walkVars, nap>>

\* A body, a status that is not worth retrying, a body over the cap, a
\* timeout, a lost connection, a redirect to nowhere: get ends at once.
Settle(t) == pc[t] = "flight" /\ Return(t)

\* Mutant: the limiter is asked once per walk, not once per hop.
RedirectUnlimited(t) ==
  /\ pc[t] = "flight" /\ hop[t] < MaxRedirects
  /\ \E h \in Hosts : host' = [host EXCEPT ![t] = h]
  /\ hop' = [hop EXCEPT ![t] = @ + 1]
  /\ Goto(t, "send")
  /\ UNCHANGED <<limiterVars, getVars, attempt, nap, quiet>>

\* Mutant: one hop more than max_redirects + 1.
RedirectOnceMore(t) ==
  /\ pc[t] = "flight" /\ hop[t] <= MaxRedirects
  /\ \E h \in Hosts : host' = [host EXCEPT ![t] = h]
  /\ hop' = [hop EXCEPT ![t] = @ + 1]
  /\ Goto(t, "validate")
  /\ UNCHANGED <<limiterVars, getVars, attempt, nap, quiet>>

\* A redirect to any host, and the next hop.
Redirect(t) ==
  /\ pc[t] = "flight" /\ hop[t] < MaxRedirects
  /\ \E h \in Hosts : host' = [host EXCEPT ![t] = h]
  /\ hop' = [hop EXCEPT ![t] = @ + 1]
  /\ Goto(t, "validate")
  /\ UNCHANGED <<limiterVars, getVars, attempt, nap, quiet>>

\* max_redirects + 1 requests, all redirected: UnsafeUrlError.
TooManyRedirects(t) == pc[t] = "flight" /\ hop[t] = MaxRedirects /\ Return(t)

\* backoff_delay: full jitter, exponential and capped.
Jitter(n) == {d \in 0..Cap : d <= Base * 2^n}

\* retry_after or backoff_delay: a header of 0 counts as none.
Delays(n) == Jitter(n) \cup (RetryAfters \ {0})

\* A transient status on the last attempt is raised.
GiveUp(t) == pc[t] = "flight" /\ attempt[t] = MaxAttempts - 1 /\ Return(t)

\* Any other transient status: sleep, outside the limiter.
Backoff(t) ==
  /\ pc[t] = "flight" /\ attempt[t] < MaxAttempts - 1
  /\ \E d \in Delays(attempt[t]) : nap' = [nap EXCEPT ![t] = d]
  /\ Goto(t, "backoff")
  /\ UNCHANGED <<limiterVars, getVars, walkVars, quiet>>

\* The next attempt starts over from the original URL.
Retry(t) ==
  /\ pc[t] = "backoff" /\ nap[t] = 0
  /\ attempt' = [attempt EXCEPT ![t] = @ + 1]
  /\ hop' = [hop EXCEPT ![t] = 0]
  /\ host' = [host EXCEPT ![t] = home[t]]
  /\ Goto(t, "validate")
  /\ UNCHANGED <<limiterVars, getVars, nap, quiet>>

Older(n) == IF n < MaxAge THEN n + 1 ELSE MaxAge

\* Time passes, though never between acquire's return and the request: the
\* two calls follow each other in _get_once, and a tick is longer than that.
Tick ==
  /\ \A t \in Threads : pc[t] # "send"
  /\ age' = [h \in Hosts |-> Older(age[h])]
  /\ quiet' = [h \in Hosts |-> Older(quiet[h])]
  /\ nap' = [t \in Threads |-> IF nap[t] > 0 THEN nap[t] - 1 ELSE 0]
  /\ UNCHANGED <<interval, holder, pc, getVars, walkVars>>

Step(t) ==
  \/ Get(t) \/ Validate(t) \/ ValidateRaises(t) \/ Acquire(t) \/ Wake(t) \/ Send(t)
  \/ Settle(t) \/ Redirect(t) \/ TooManyRedirects(t)
  \/ Backoff(t) \/ Retry(t) \/ GiveUp(t)

Next == Tick \/ \E t \in Threads : Step(t)

Spec == Init /\ [][Next]_vars

\* Time passes, and a thread that can go on does; requests have a timeout.
\* The lock is not assumed to be fair.
FairSpec == Spec /\ WF_vars(Tick) /\ \A t \in Threads : WF_vars(Step(t))
-----------------------------------------------------------------------------
(* The types of the variables; attempt and hop also bound the requests one   *)
(* get can make.                                                             *)
TypeOK ==
  /\ interval \in [Hosts -> -1..MaxAge]
  /\ age \in [Hosts -> 0..MaxAge]
  /\ holder \in [Hosts -> Threads \cup {None}]
  /\ pc \in [Threads -> Steps]
  /\ home \in [Threads -> Hosts \cup {None}]
  /\ host \in [Threads -> Hosts \cup {None}]
  /\ attempt \in [Threads -> 0..(MaxAttempts - 1)]
  /\ hop \in [Threads -> 0..MaxRedirects]
  /\ nap \in [Threads -> Nat]
  /\ asked \in [Threads -> 0..MaxAge]
  /\ quiet \in [Hosts -> 0..MaxAge]

(* The interval a source asked for is in force while it is polled.           *)
IntervalKept ==
  \A t \in Threads : pc[t] # "idle" => home[t] \in Hosts /\ asked[t] <= interval[home[t]]

(* Who sleeps inside acquire holds the lock, and nobody else does; the sleep *)
(* lasts until the source's own interval has passed since the last permit.   *)
LockKept ==
  /\ \A t \in Threads : pc[t] = "sleep" => /\ holder[home[t]] = t
                                          /\ age[home[t]] + nap[t] >= asked[t]
  /\ \A h \in Hosts : holder[h] # None => /\ holder[h] \in Threads
                                         /\ pc[holder[h]] = "sleep"
                                         /\ home[holder[h]] = h

(* Who is about to send has just been given its permit, long enough after    *)
(* the last request; nobody overtakes it, unless no interval was asked for.  *)
PermitFresh ==
  /\ \A h \in Hosts : quiet[h] >= age[h]
  /\ \A t \in Threads : pc[t] = "send" => /\ age[home[t]] = 0
                                         /\ quiet[home[t]] >= asked[t]
  /\ \A t, u \in Threads :
       t # u /\ pc[t] = "send" /\ home[u] = home[t]
         => /\ pc[u] = "sleep" => nap[u] >= asked[t]
            /\ pc[u] = "send" => asked[t] = 0

(* A backoff is always followed by an attempt that is left.                  *)
AttemptLeft == \A t \in Threads : pc[t] = "backoff" => attempt[t] < MaxAttempts - 1

(* The invariant behind RequestsSpaced: acquire's lock is held across its    *)
(* sleep, and the interval is read under it.  (MinIntervalLimiter.acquire)   *)
LimiterInv == IntervalKept /\ LockKept /\ PermitFresh /\ AttemptLeft

(* Two requests under one limiter are at least as far apart as the source    *)
(* that makes the second asked for, whatever thread, retry or redirect hop   *)
(* they come from.  (MinIntervalLimiter.acquire, LimiterRegistry.for_host,   *)
(* the acquire before every hop of _get_once)                                *)
RequestsSpaced == [][\A t \in Threads : Send(t) => quiet[home[t]] >= asked[t]]_vars

(* A thread that wants a permit does not wait for ever while nobody sends    *)
(* under its limiter: the lock is always given back.  (MinIntervalLimiter)   *)
LimiterNeverWedges ==
  \A h \in Hosts : (\E t \in Threads : pc[t] = "acquire" /\ home[t] = h)
                     ~> (\E t \in Threads : pc[t] = "flight" /\ home[t] = h)
=============================================================================
