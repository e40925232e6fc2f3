---------------------------- MODULE TriageProofs ----------------------------
(***************************************************************************)
(* Proofs about Triage and Decisions, for inputs, chunks and answers of    *)
(* any length.                                                             *)
(***************************************************************************)
EXTENDS Triage, Decisions, FiniteSetTheorems, SequenceTheorems, TLAPS

Docs == Nat \ {0}
Outcomes == [document : Docs, passed : BOOLEAN, screened : BOOLEAN]

Types ==
  /\ input \in Inputs /\ next \in 1..(Len(input) + 1)
  /\ pending \in Seq(Docs) /\ Len(pending) <= ChunkSize
  /\ todo \in Seq(Seq(Docs)) /\ verdicts \in Seq(BOOLEAN) /\ out \in Seq(Outcomes)
  /\ after \in {"loop", "pass", "ended"}
  /\ pc \in {"loop", "judge", "yield", "pass", "ended", "raised"}
  /\ calls \in Nat /\ sent \in [DOMAIN input -> Nat]
  /\ said \in [DOMAIN input -> Spoken \cup {"nothing"}]

\* Where `flush` returns to fits the candidate the loop is at.
Fits(where) ==
  /\ where = "pass" => next <= Len(input) /\ ~NeedsScreening(input[next])
  /\ where = "ended" => next = Len(input) + 1

Control ==
  /\ Fits(pc) /\ (pc \in {"judge", "yield"} => Fits(after))
  /\ pc = "loop" => Len(pending) < ChunkSize
  /\ pc \in {"pass", "ended"} => pending = << >>
  /\ pc \in {"loop", "pass", "ended"} => verdicts = << >>
  /\ todo # << >> <=> pc \in {"judge", "raised"}
  /\ pc = "yield" => verdicts # << >> /\ Len(verdicts) <= Len(pending)

\* What is pending are the last candidates seen.
Queued ==
  \A k \in DOMAIN pending :
    /\ pending[k] = next - 1 - Len(pending) + k
    /\ NeedsScreening(input[pending[k]])

\* Every candidate seen has been yielded, in its place, or is still waited for.
Waiting == IF pc = "yield" THEN Len(verdicts) ELSE Len(pending)
Progress ==
  /\ Len(out) + Waiting = next - 1
  /\ \A i \in DOMAIN out : out[i].document = i

\* The spans lie side by side, and are what is left of the chunk.
Contiguous(span) == \A k \in DOMAIN span : span[k] = span[1] + k - 1
End(span) == span[1] + Len(span)
Spans ==
  /\ \A i \in DOMAIN todo :
       /\ todo[i] # << >> /\ Contiguous(todo[i])
       /\ End(todo[i]) + Len(todo) - i <= next
       /\ i < Len(todo) => todo[i + 1][1] = End(todo[i])
       /\ \A j \in DOMAIN todo : i < j => End(todo[i]) <= todo[j][1]
  /\ todo # << >> =>
       /\ todo[1][1] = next - Len(pending) + Len(verdicts)
       /\ End(todo[Len(todo)]) = next

\* Nobody has asked about what is pending, or not yet seen.
Unsent ==
  \A d \in DOMAIN input :
    (IF pc \in {"judge", "yield", "raised"} THEN next ELSE next - Len(pending)) <= d => sent[d] = 0

\* The verdicts in hand are those said of the candidates in their place.
Verdict(d, passed) == said[d] # "nothing" /\ passed = (said[d] = "YES")
Judged ==
  \A k \in DOMAIN verdicts : Verdict(next - 1 - Waiting + k, verdicts[k])

Answered ==
  /\ \A i \in DOMAIN out :
       IF NeedsScreening(input[i]) THEN out[i].screened /\ Verdict(i, out[i].passed)
       ELSE ~out[i].screened /\ out[i].passed
  /\ \A d \in DOMAIN input : ~NeedsScreening(input[d]) => sent[d] = 0

\* The requests so far, and those still needed at most.
Before(n) == Cardinality({d \in 1..(n - 1) : NeedsScreening(input[d])})
Screened == Before(next)
Cost ==
  /\ Len(pending) <= Screened
  /\ pc \in {"loop", "pass", "ended"} /\ calls > 0 => calls < 2 * (Screened - Len(pending))
  /\ pc = "judge" => calls + 2 * (Len(pending) - Len(verdicts)) - Len(todo) < 2 * Screened
  /\ pc \in {"yield", "raised"} /\ calls > 0 => calls < 2 * Screened

\* Each request was about one chunk at most.
Unasked == IF pc = "yield" THEN 0 ELSE Len(pending)
Paid == Screened - Unasked <= calls * ChunkSize

\* A title that is asked about again is in half as long a span.
Depth ==
  /\ \A d \in DOMAIN input : sent[d] >= 2 => 2 ^ (sent[d] - 2) < ChunkSize
  /\ pc = "judge" =>
       \A i \in DOMAIN todo : \A d \in 1..Len(input) :
         todo[i][1] <= d /\ d < End(todo[i]) =>
           /\ sent[d] >= 1 => 2 ^ (sent[d] - 1) < ChunkSize
           /\ 2 ^ sent[d] * (Len(todo[i]) - 1) < ChunkSize

Inv ==
  /\ Types /\ Control /\ Queued /\ Progress /\ Spans /\ Unsent /\ Judged /\ Answered
  /\ Cost /\ Paid /\ Depth

-----------------------------------------------------------------------------
(***************************************************************************)
(* Numbers.                                                                *)
(***************************************************************************)
LEMMA LeastNumber ==
  ASSUME NEW T, T \subseteq Nat, T # {}
  PROVE \E m \in T : \A k \in T : m <= k
<1> DEFINE U == {0..k : k \in T}
<1>2. PICK n \in T : 0..n \in U
  OBVIOUS
<1>3. U \subseteq FiniteSubsetsOf(Nat)
  <2> SUFFICES ASSUME NEW k \in T PROVE 0..k \in FiniteSubsetsOf(Nat)
    OBVIOUS
  <2>1. k \in Int /\ 0 \in Int /\ 0..k \subseteq Nat
    OBVIOUS
  <2>2. IsFiniteSet(0..k)
    BY <2>1, FS_Interval
  <2> QED BY <2>1, <2>2 DEF FiniteSubsetsOf
<1>4. IsWellFoundedOn(StrictSubsetOrdering(Nat), FiniteSubsetsOf(Nat))
  BY FS_StrictSubsetOrderingWellFounded
<1> HIDE DEF U
<1>5. PICK x \in U : \A y \in U : ~(<<y, x>> \in StrictSubsetOrdering(Nat))
  BY <1>2, <1>3, <1>4, WFMin
<1>6. PICK m \in T : x = 0..m BY DEF U
<1>7. ASSUME NEW k \in T PROVE m <= k
  <2>1. 0..k \in U BY DEF U
  <2>2. ~(<<0..k, 0..m>> \in StrictSubsetOrdering(Nat)) BY <1>5, <1>6, <2>1
  <2>3. CASE k < m
    <3>1. 0..k \subseteq 0..m /\ m \in 0..m /\ m \notin 0..k BY <2>3
    <3>2. FALSE
      BY <2>2, <3>1 DEF StrictSubsetOrdering
    <3> QED BY <3>2
  <2> QED BY <2>3
<1> QED BY <1>7
LEMMA Doubling == ASSUME NEW n \in Nat PROVE 2 ^ (n + 1) = 2 * 2 ^ n /\ 2 ^ n \in Nat
<1> DEFINE S == 1..n
           T == {A \cup {n + 1} : A \in SUBSET S}
           f == [A \in SUBSET S |-> A \cup {n + 1}]
<1>1. IsFiniteSet(S) /\ Cardinality(S) = n /\ IsFiniteSet(1..(n + 1)) /\ Cardinality(1..(n + 1)) = n + 1
  BY FS_Interval
<1>2. /\ IsFiniteSet(SUBSET S) /\ Cardinality(SUBSET S) = 2 ^ n
      /\ Cardinality(SUBSET (1..(n + 1))) = 2 ^ (n + 1)
  BY <1>1, FS_SUBSET
<1>3. f \in Bijection(SUBSET S, T)
  <2>1. f \in Surjection(SUBSET S, T)
    <3>1. f \in [SUBSET S -> T] /\ \A t \in T : \E A \in SUBSET S : f[A] = t
      <4> HIDE DEF S
      <4> QED OBVIOUS
    <3> QED BY <3>1 DEF Surjection
  <2>2. ASSUME NEW A \in SUBSET S, NEW B \in SUBSET S, f[A] = f[B] PROVE A = B
    <3>1. n + 1 \notin A /\ n + 1 \notin B
      OBVIOUS
    <3> QED BY <2>2, <3>1
  <2>3. f \in [SUBSET S -> T] /\ \A A, B \in SUBSET S : f[A] = f[B] => A = B
    <3> HIDE DEF S
    <3>1. f \in [SUBSET S -> T]
      OBVIOUS
    <3> QED BY <2>2, <3>1
  <2>4. f \in Injection(SUBSET S, T)
    BY <2>3 DEF Injection, IsInjective
  <2> QED BY <2>1, <2>4 DEF Bijection
<1>4. IsFiniteSet(T) /\ Cardinality(T) = 2 ^ n
  BY <1>2, <1>3, FS_Bijection DEF ExistsBijection
<1>5. SUBSET (1..(n + 1)) = (SUBSET S) \cup T
  <2>1. 1..(n + 1) = S \cup {n + 1}
    OBVIOUS
  <2> HIDE DEF S
  <2>2. ASSUME NEW A \in SUBSET (S \cup {n + 1}) PROVE A \in (SUBSET S) \cup T
    <3>1. CASE n + 1 \in A
      <4>1. A \ {n + 1} \in SUBSET S /\ A = (A \ {n + 1}) \cup {n + 1}
        BY <3>1
      <4> QED BY <4>1
    <3>2. CASE n + 1 \notin A
      BY <3>2
    <3> QED BY <3>1, <3>2
  <2>3. ASSUME NEW A \in (SUBSET S) \cup T PROVE A \in SUBSET (S \cup {n + 1})
    OBVIOUS
  <2> QED BY <2>1, <2>2, <2>3
<1>6. (SUBSET S) \cap T = {}
  OBVIOUS
<1>7. Cardinality(SUBSET S) \in Nat
  BY <1>2, FS_CardinalityType
<1> HIDE DEF S, T
<1>8. Cardinality((SUBSET S) \cup T) = Cardinality(SUBSET S) + Cardinality(T) - Cardinality({})
  BY <1>2, <1>4, <1>6, FS_Union
<1>9. Cardinality({}) = 0
  BY FS_EmptySet
<1>10. 2 ^ (n + 1) = 2 ^ n + 2 ^ n /\ 2 ^ n \in Nat
  <2> DEFINE a == 2 ^ n
             b == 2 ^ (n + 1)
  <2>1. a \in Nat /\ b = a + a - 0
    BY <1>2, <1>4, <1>5, <1>7, <1>8, <1>9
  <2> HIDE DEF a, b
  <2>2. b = a + a /\ a \in Nat
    BY <2>1
  <2> QED BY <2>2 DEF a, b
<1> QED BY <1>10
-----------------------------------------------------------------------------
(***************************************************************************)
(* An answer that lines up.                                                *)
(***************************************************************************)
Aligned(text, expected) == ParseVerdicts(text, expected).error = "none"

LEMMA TextLines ==
  ASSUME NEW text \in Answers
  PROVE  /\ DOMAIN text \subseteq Nat
         /\ \A i \in DOMAIN text : i >= 1 /\ text[i].answer \in Spoken \cup {"other"}
<1> DEFINE Line == [number : Int, answer : Spoken \cup {"other"}]
<1>1. text \in Seq(Line)
  BY TriageConstants
<1> HIDE DEF Line
<1>2. DOMAIN text = 1..Len(text) /\ Len(text) \in Nat /\ \A i \in 1..Len(text) : text[i] \in Line
  BY <1>1
<1> QED BY <1>2 DEF Line

\* Every title has one line, which says YES or NO.
LEMMA OneLineEach ==
  ASSUME NEW text \in Answers, NEW expected \in Nat, Aligned(text, expected)
  PROVE  /\ ParseVerdicts(text, expected).verdicts
              = [k \in 1..expected |-> text[CHOOSE i \in DOMAIN text : text[i].number = k].answer = "YES"]
         /\ {text[i].number : i \in DOMAIN text} = 1..expected
         /\ \A i \in DOMAIN text : text[i].answer \in Spoken
         /\ \A i, j \in DOMAIN text : text[i].number = text[j].number => i = j
<1> DEFINE faulty == {i \in DOMAIN text : Fault(text, i) # "none"}
           first == CHOOSE i \in faulty : \A j \in faulty : i <= j
<1>1. DOMAIN text \subseteq Nat /\ \A i \in DOMAIN text : i >= 1
  BY TextLines
<1>2. faulty = {}
  <2> SUFFICES ASSUME faulty # {} PROVE FALSE
    OBVIOUS
  <2>1. faulty \subseteq Nat
    BY <1>1
  <2>2. first \in faulty
    <3> HIDE DEF faulty
    <3> QED BY <2>1, LeastNumber
  <2>3. Fault(text, first) # "none"
    BY <2>2
  <2>4. ParseVerdicts(text, expected).error = Fault(text, first)
    BY DEF ParseVerdicts
  <2> QED BY <2>3, <2>4 DEF Aligned
<1>3. {text[i].number : i \in DOMAIN text} = 1..expected
  BY <1>2 DEF Aligned, ParseVerdicts
<1>4. ParseVerdicts(text, expected).verdicts
        = [k \in 1..expected |-> text[CHOOSE i \in DOMAIN text : text[i].number = k].answer = "YES"]
  BY <1>2, <1>3 DEF ParseVerdicts
<1>5. ASSUME NEW i \in DOMAIN text PROVE Fault(text, i) = "none"
  BY <1>2
<1>6. \A i \in DOMAIN text : text[i].answer \in Spoken
  BY <1>5 DEF Fault
<1>7. ASSUME NEW i \in DOMAIN text, NEW j \in DOMAIN text, text[i].number = text[j].number, j < i
      PROVE  FALSE
  <2>1. j \in 1..(i - 1)
    BY <1>1, <1>7
  <2>2. Fault(text, i) # "none"
    BY <1>7, <2>1 DEF Fault
  <2> QED BY <1>5, <2>2
<1>8. ASSUME NEW i \in DOMAIN text, NEW j \in DOMAIN text, text[i].number = text[j].number
      PROVE  i = j
  <2>1. i \in Nat /\ j \in Nat /\ (i < j \/ j < i \/ i = j)
    BY <1>1
  <2> QED BY <1>7, <1>8, <2>1
<1> QED BY <1>3, <1>4, <1>6, <1>8

LEMMA FunctionIsSeq ==
  ASSUME NEW S, NEW n \in Nat, NEW f \in [1..n -> S]
  PROVE  f \in Seq(S) /\ Len(f) = n
OBVIOUS

LEMMA Joined ==
  ASSUME NEW S, NEW a \in Seq(S), NEW b \in Seq(S)
  PROVE  /\ a \o b \in Seq(S) /\ Len(a \o b) = Len(a) + Len(b)
         /\ DOMAIN (a \o b) = 1..(Len(a) + Len(b))
         /\ \A k \in 1..Len(a) : (a \o b)[k] = a[k]
         /\ \A k \in 1..Len(b) : (a \o b)[Len(a) + k] = b[k]
OBVIOUS

LEMMA Rest ==
  ASSUME NEW S, NEW s \in Seq(S), s # << >>
  PROVE  /\ Head(s) = s[1] /\ s[1] \in S /\ Len(s) \in Nat /\ Len(s) >= 1
         /\ Tail(s) \in Seq(S) /\ Len(Tail(s)) = Len(s) - 1 /\ DOMAIN Tail(s) = 1..(Len(s) - 1)
         /\ \A k \in 1..(Len(s) - 1) : Tail(s)[k] = s[k + 1]
         /\ Tail(s) = << >> <=> Len(s) = 1
<1>1. /\ Head(s) = s[1] /\ s[1] \in S /\ Len(s) \in Nat /\ Len(s) >= 1
      /\ Tail(s) \in Seq(S) /\ Len(Tail(s)) = Len(s) - 1 /\ DOMAIN Tail(s) = 1..(Len(s) - 1)
      /\ \A k \in 1..(Len(s) - 1) : Tail(s)[k] = s[k + 1]
  OBVIOUS
<1>2. \A t \in Seq(S) : t = << >> <=> Len(t) = 0
  OBVIOUS
<1>3. Tail(s) = << >> <=> Len(s) = 1
  <2> DEFINE t == Tail(s)
  <2>1. t \in Seq(S) /\ Len(t) = Len(s) - 1 /\ Len(s) \in Nat
    BY <1>1
  <2> HIDE DEF t
  <2>2. t = << >> <=> Len(s) = 1
    BY <1>2, <2>1, SMTT(30)
  <2> QED BY <2>2 DEF t
<1> QED BY <1>1, <1>3

\* The verdicts of an aligned answer are those heard of the titles in their
\* places; nothing is heard of others.
LEMMA HeardInPlace ==
  ASSUME NEW text \in Answers, NEW span \in Seq(Docs), span # << >>, Contiguous(span),
         Aligned(text, Len(span))
  PROVE  LET v == ParseVerdicts(text, Len(span)).verdicts
         IN  /\ v \in Seq(BOOLEAN) /\ Len(v) = Len(span)
             /\ \A k \in 1..Len(span) :
                  /\ Heard(text, span, span[k]) \in Spoken
                  /\ v[k] = (Heard(text, span, span[k]) = "YES")
             /\ \A d : d \in Int /\ ~(span[1] <= d /\ d < End(span)) => Heard(text, span, d) = said[d]
<1>1. DOMAIN span = 1..Len(span) /\ Len(span) \in Nat /\ Len(span) > 0
  OBVIOUS
<1>2. span[1] \in Nat
  BY <1>1 DEF Docs
<1> DEFINE v == ParseVerdicts(text, Len(span)).verdicts
           line(k) == CHOOSE i \in DOMAIN text : text[i].number = k
           heard(d) == {i \in DOMAIN text : \E k \in DOMAIN span : span[k] = d /\ text[i].number = k}
<1>3. /\ v = [k \in 1..Len(span) |-> text[line(k)].answer = "YES"]
      /\ {text[i].number : i \in DOMAIN text} = 1..Len(span)
      /\ \A i \in DOMAIN text : text[i].answer \in Spoken
      /\ \A i, j \in DOMAIN text : text[i].number = text[j].number => i = j
  BY <1>1, OneLineEach
<1>4. v \in Seq(BOOLEAN) /\ Len(v) = Len(span)
  <2> HIDE DEF v, line
  <2>1. v \in [1..Len(span) -> BOOLEAN]
    BY <1>3, Zenon
  <2> QED BY <1>1, <2>1, FunctionIsSeq
<1>5. ASSUME NEW k \in 1..Len(span)
      PROVE  Heard(text, span, span[k]) \in Spoken /\ v[k] = (Heard(text, span, span[k]) = "YES")
  <2>1. PICK i \in DOMAIN text : text[i].number = k
    BY <1>3
  <2>2. line(k) = i
    BY <1>3, <2>1
  <2>3. \A l \in DOMAIN span : span[l] = span[k] => l = k
    BY <1>1, <1>2 DEF Contiguous
  <2>4. heard(span[k]) = {i}
    <3>1. \A j \in heard(span[k]) : text[j].number = k /\ j \in DOMAIN text
      BY <2>3
    <3>2. i \in heard(span[k])
      BY <1>1, <2>1
    <3> QED BY <1>3, <2>1, <3>1, <3>2
  <2>5. Heard(text, span, span[k]) = text[i].answer
    <3> HIDE DEF heard
    <3>1. (CHOOSE j \in heard(span[k]) : TRUE) = i /\ heard(span[k]) # {}
      BY <2>4
    <3> QED BY <3>1 DEF Heard, heard
  <2>6. v[k] = (text[line(k)].answer = "YES")
    <3> HIDE DEF line, v
    <3> QED BY <1>3
  <2> QED BY <1>3, <2>2, <2>5, <2>6
<1>6. ASSUME NEW d \in Int, ~(span[1] <= d /\ d < End(span))
      PROVE  Heard(text, span, d) = said[d]
  <2>1. \A k \in DOMAIN span : span[k] # d
    BY <1>1, <1>2, <1>6 DEF Contiguous, End
  <2> QED BY <2>1 DEF Heard
<1> QED BY <1>4, <1>5, <1>6
-----------------------------------------------------------------------------
(***************************************************************************)
(* Spans.                                                                  *)
(***************************************************************************)
\* A request is about the titles of its span, once each.
LEMMA SentOnce ==
  ASSUME NEW span \in Seq(Docs), span # << >>, Contiguous(span),
         sent \in [DOMAIN input -> Nat], DOMAIN input \subseteq Nat
  PROVE  /\ Sent(span) \in [DOMAIN input -> Nat]
         /\ \A d \in DOMAIN input :
              Sent(span)[d] = IF span[1] <= d /\ d < End(span) THEN sent[d] + 1 ELSE sent[d]
<1>1. DOMAIN span = 1..Len(span) /\ Len(span) \in Nat /\ Len(span) > 0 /\ span[1] \in Nat
  BY DEF Docs
<1>2. \A k \in 1..Len(span) : span[k] = span[1] + k - 1
  BY <1>1 DEF Contiguous
<1>3. ASSUME NEW d \in DOMAIN input
      PROVE  Sent(span)[d] = IF span[1] <= d /\ d < End(span) THEN sent[d] + 1 ELSE sent[d]
  <2> DEFINE places == {i \in DOMAIN span : span[i] = d}
  <2>1. Sent(span)[d] = sent[d] + Cardinality(places) /\ sent[d] \in Nat /\ d \in Nat
    BY <1>3 DEF Sent
  <2>2. CASE span[1] <= d /\ d < End(span)
    <3>1. d - span[1] + 1 \in 1..Len(span)
      BY <1>1, <2>1, <2>2 DEF End
    <3>2. places = {d - span[1] + 1}
      <4>1. \A i \in 1..Len(span) : span[i] = d <=> i = d - span[1] + 1
        BY <1>1, <1>2, <2>1
      <4> QED BY <1>1, <3>1, <4>1
    <3>3. Cardinality(places) = 1
      BY <3>2, FS_Singleton
    <3> QED BY <2>1, <2>2, <3>3
  <2>3. CASE ~(span[1] <= d /\ d < End(span))
    <3>1. places = {}
      BY <1>1, <1>2, <2>1, <2>3 DEF End
    <3>2. Cardinality(places) = 0
      BY <3>1, FS_EmptySet
    <3> QED BY <2>1, <2>3, <3>2
  <2> QED BY <2>2, <2>3
<1>4. Sent(span) = [d \in DOMAIN input |-> Sent(span)[d]]
  BY DEF Sent
<1>5. \A d \in DOMAIN input : Sent(span)[d] \in Nat
  BY <1>3
<1> QED BY <1>3, <1>4, <1>5

\* The halves of a span lie side by side, each as long as half of it rounded up.
LEMMA HalvesMeet ==
  ASSUME NEW span \in Seq(Docs), Contiguous(span), Len(span) > 1
  PROVE  \E first, second \in Seq(Docs) :
           /\ Halves(span) = <<first, second>> /\ first # << >> /\ second # << >>
           /\ Contiguous(first) /\ Contiguous(second)
           /\ first[1] = span[1] /\ End(first) = second[1] /\ End(second) = End(span)
           /\ 2 * Len(first) <= Len(span) + 1 /\ 2 * Len(second) <= Len(span) + 1
           /\ Len(first) < Len(span)
<1> DEFINE middle == Len(span) \div 2
           first == SubSeq(span, 1, middle)
           second == SubSeq(span, middle + 1, Len(span))
<1>1. Len(span) \in Nat /\ DOMAIN span = 1..Len(span)
  OBVIOUS
<1>2. middle \in Nat /\ 2 * middle <= Len(span) /\ Len(span) <= 2 * middle + 1
  BY <1>1
<1> HIDE DEF middle
<1>3. middle >= 1 /\ middle < Len(span)
  BY <1>1, <1>2
<1>4. /\ first \in Seq(Docs) /\ Len(first) = middle
      /\ \A k \in 1..middle : first[k] = span[k]
  <2>1. \A k \in 1..middle : span[k] \in Docs
    BY <1>1, <1>2, <1>3
  <2> QED BY <1>2, <1>3, <2>1, SubSeqProperties
<1>5. /\ second \in Seq(Docs) /\ Len(second) = Len(span) - middle
      /\ \A k \in 1..(Len(span) - middle) : second[k] = span[middle + k]
  BY <1>1, <1>2, <1>3, SMTT(30)
<1>6. Halves(span) = <<first, second>>
  BY DEF Halves, middle
<1> HIDE DEF first, second
<1>7. (\A k \in 1..Len(span) : span[k] = span[1] + k - 1) /\ span[1] \in Nat
  <2>1. span[1] \in Docs
    BY <1>1, <1>3
  <2> QED BY <1>1, <2>1 DEF Contiguous, Docs
<1>8. /\ first # << >> /\ Contiguous(first) /\ first[1] = span[1] /\ End(first) = span[1] + middle
  BY <1>1, <1>2, <1>3, <1>4, <1>7, SMTT(30) DEF Contiguous, End
<1>9. /\ second # << >> /\ Contiguous(second) /\ second[1] = span[1] + middle /\ End(second) = End(span)
  <2>1. /\ 1 \in 1..(Len(span) - middle) /\ middle + 1 \in 1..Len(span)
        /\ second[1] = span[middle + 1] /\ DOMAIN second = 1..(Len(span) - middle)
    BY <1>1, <1>2, <1>3, <1>5
  <2>2. \A k \in 1..(Len(span) - middle) : second[k] = span[1] + middle + k - 1
    BY <1>1, <1>2, <1>3, <1>5, <1>7
  <2>3. second[1] = span[1] + middle
    BY <1>2, <1>3, <1>7, <2>1, <2>2
  <2>4. Contiguous(second)
    BY <1>1, <1>2, <1>3, <1>7, <2>1, <2>2, <2>3 DEF Contiguous
  <2>5. End(second) = End(span)
    BY <1>1, <1>2, <1>3, <1>5, <1>7, <2>3 DEF End
  <2>6. second # << >>
    BY <1>1, <1>2, <1>3, <1>5
  <2> QED BY <2>3, <2>4, <2>5, <2>6
<1> QED BY <1>1, <1>2, <1>3, <1>4, <1>5, <1>6, <1>8, <1>9
-----------------------------------------------------------------------------
(***************************************************************************)
(* Gathering a chunk.                                                      *)
(***************************************************************************)
\* What holds when a chunk is complete: the loop's invariant, but that the
\* chunk may be full.
Gathered ==
  /\ Types /\ Queued /\ Answered /\ verdicts = << >>
  /\ Len(out) + Len(pending) = next - 1 /\ \A i \in DOMAIN out : out[i].document = i
  /\ \A d \in DOMAIN input : next - Len(pending) <= d => sent[d] = 0
  /\ Len(pending) <= Screened
  /\ calls > 0 => calls < 2 * (Screened - Len(pending))
  /\ Screened - Len(pending) <= calls * ChunkSize
  /\ \A d \in DOMAIN input : sent[d] >= 2 => 2 ^ (sent[d] - 2) < ChunkSize

LEMMA Facts ==
  ASSUME Types
  PROVE  /\ input \in Seq(STRING) /\ Len(input) \in Nat /\ DOMAIN input = 1..Len(input)
         /\ next \in Nat /\ next >= 1 /\ ChunkSize \in Nat /\ ChunkSize >= 1
         /\ Len(pending) \in Nat /\ DOMAIN pending = 1..Len(pending)
         /\ Len(todo) \in Nat /\ DOMAIN todo = 1..Len(todo)
         /\ Len(verdicts) \in Nat /\ DOMAIN verdicts = 1..Len(verdicts)
         /\ Len(out) \in Nat /\ DOMAIN out = 1..Len(out)
         /\ \A i \in 1..Len(todo) : todo[i] \in Seq(Docs)
<1>1. input \in Seq(STRING)
  BY TriageConstants DEF Types
<1>2. ChunkSize \in Nat /\ ChunkSize >= 1
  BY TriageConstants
<1>3. next \in Nat /\ next >= 1
  BY <1>1 DEF Types
<1>4. Len(todo) \in Nat /\ DOMAIN todo = 1..Len(todo) /\ \A i \in 1..Len(todo) : todo[i] \in Seq(Docs)
  BY DEF Types
<1> QED BY <1>1, <1>2, <1>3, <1>4 DEF Types

LEMMA CountNext ==
  ASSUME NEW n \in Nat, n >= 1
  PROVE  /\ Before(n) \in Nat
         /\ Before(n + 1) = IF NeedsScreening(input[n]) THEN Before(n) + 1 ELSE Before(n)
<1> DEFINE S(m) == {d \in 1..(m - 1) : NeedsScreening(input[d])}
<1>1. IsFiniteSet(1..(n - 1)) /\ IsFiniteSet(S(n)) /\ Cardinality(S(n)) \in Nat
  <2>1. IsFiniteSet(1..(n - 1))
    BY FS_Interval
  <2>2. S(n) \subseteq 1..(n - 1)
    OBVIOUS
  <2> QED BY <2>1, <2>2, FS_Subset, FS_CardinalityType
<1>2. S(n + 1) = IF NeedsScreening(input[n]) THEN S(n) \cup {n} ELSE S(n)
  <2>1. 1..(n + 1 - 1) = (1..(n - 1)) \cup {n}
    OBVIOUS
  <2> QED BY <2>1
<1>3. n \notin S(n)
  OBVIOUS
<1> HIDE DEF S
<1>4. Cardinality(S(n + 1)) = IF NeedsScreening(input[n]) THEN Cardinality(S(n)) + 1 ELSE Cardinality(S(n))
  BY <1>1, <1>2, <1>3, FS_AddElement
<1> QED BY <1>1, <1>4 DEF Before, S

\* A chunk is asked about as one span.
LEMMA ChunkAsked ==
  Gathered /\ pc = "judge" /\ pending # << >> /\ todo = <<pending>> /\ Fits(after) => Inv
<1> SUFFICES ASSUME Gathered, pc = "judge", pending # << >>, todo = <<pending>>, Fits(after)
             PROVE  Inv
  OBVIOUS
<1> USE DEF Gathered
<1>1. /\ Len(pending) \in Nat /\ Len(pending) >= 1 /\ DOMAIN pending = 1..Len(pending)
      /\ next \in Nat /\ next >= 1 /\ ChunkSize \in Nat
      /\ Len(todo) = 1 /\ DOMAIN todo = {1} /\ todo[1] = pending
  BY Facts
<1>2. Types /\ Control
  BY DEF Control, Fits
<1>3. Queued /\ Progress /\ Answered
  BY DEF Progress, Waiting
<1>4. pending[1] = next - Len(pending) /\ Contiguous(pending) /\ End(pending) = next
  BY <1>1, SMTT(30) DEF Queued, Contiguous, End
<1>5. Spans
  BY <1>1, <1>4 DEF Spans
<1>6. Unsent
  BY <1>1, Facts DEF Unsent
<1>7. Judged
  BY DEF Judged
<1>8. Screened \in Nat /\ calls \in Nat
  BY <1>1, CountNext DEF Screened, Types
<1>9. Cost
  BY <1>1, <1>8 DEF Cost
<1>10. Paid
  BY DEF Paid, Unasked
<1>11. Depth
  <2> SUFFICES ASSUME NEW d \in 1..Len(input), pending[1] <= d, d < End(pending)
               PROVE  (sent[d] >= 1 => 2 ^ (sent[d] - 1) < ChunkSize)
                      /\ 2 ^ sent[d] * (Len(pending) - 1) < ChunkSize
    BY <1>1 DEF Depth
  <2>1. sent[d] = 0
    BY <1>4, Facts
  <2>2. 2 ^ sent[d] = 1
    BY <2>1
  <2>3. Len(pending) <= ChunkSize
    BY DEF Types
  <2> QED BY <1>1, <2>1, <2>2, <2>3
<1> QED BY <1>2, <1>3, <1>5, <1>6, <1>7, <1>9, <1>10, <1>11 DEF Inv

\* Nothing is asked about when the chunk is not full or there is none.
LEMMA NothingAsked ==
  Gathered /\ pc \in {"loop", "pass", "ended"} /\ Fits(pc) /\ todo = << >>
    /\ (pending = << >> \/ (pc = "loop" /\ Len(pending) < ChunkSize)) => Inv
<1> SUFFICES ASSUME Gathered, pc \in {"loop", "pass", "ended"}, Fits(pc), todo = << >>,
                    pending = << >> \/ (pc = "loop" /\ Len(pending) < ChunkSize)
             PROVE  Inv
  OBVIOUS
<1> USE DEF Gathered
<1>1. Types /\ ChunkSize \in Nat /\ ChunkSize >= 1
  BY Facts
<1>2. Control
  BY <1>1 DEF Control
<1>3. Queued /\ Progress /\ Answered /\ Spans /\ Unsent /\ Judged /\ Paid /\ Depth
  BY DEF Progress, Waiting, Spans, Unsent, Judged, Paid, Unasked, Depth
<1>4. Cost
  BY DEF Cost
<1> QED BY <1>1, <1>2, <1>3, <1>4 DEF Inv

LEMMA LoopGathered ==
  ASSUME Inv, pc = "loop"
  PROVE  Gathered /\ todo = << >>
<1>1. todo = << >> /\ verdicts = << >>
  BY DEF Inv, Control
<1>2. calls > 0 => calls < 2 * (Screened - Len(pending))
  BY DEF Inv, Cost
<1> QED BY <1>1, <1>2 DEF Inv, Gathered, Progress, Waiting, Unsent, Paid, Unasked, Depth, Cost

LEMMA InvInit == Init => Inv
<1> SUFFICES ASSUME Init PROVE Inv
  OBVIOUS
<1> USE DEF Init
<1>1. input \in Seq(STRING) /\ ChunkSize \in Nat /\ ChunkSize >= 1
  BY TriageConstants
<1>2. Types /\ Control
  BY <1>1 DEF Types, Control, Fits
<1>3. Queued /\ Progress /\ Spans /\ Unsent /\ Judged /\ Answered /\ Depth
  BY <1>1 DEF Queued, Progress, Waiting, Spans, Unsent, Judged, Answered, Depth
<1>4. Screened = 0
  <2>1. {d \in 1..(next - 1) : NeedsScreening(input[d])} = {}
    OBVIOUS
  <2> QED BY <2>1, FS_EmptySet DEF Screened, Before
<1>5. Cost /\ Paid
  BY <1>1, <1>4 DEF Cost, Paid, Unasked
<1> QED BY <1>2, <1>3, <1>5 DEF Inv

\* `flush` with what is gathered restores the invariant, whether it asks or not.
LEMMA Flushed ==
  ASSUME Gathered', NEW return \in {"loop", "pass", "ended"}, Fits(return)', todo = << >>,
         \/ Flush(pending', return)
         \/ pc' = "loop" /\ todo' = todo /\ (Len(pending) < ChunkSize)'
  PROVE  Inv'
<1>1. CASE pc' = "loop" /\ todo' = todo /\ (Len(pending) < ChunkSize)'
  <2>1. (Gathered /\ pc \in {"loop", "pass", "ended"} /\ Fits(pc) /\ todo = << >>
          /\ (pending = << >> \/ (pc = "loop" /\ Len(pending) < ChunkSize)))'
    BY <1>1 DEF Fits
  <2> QED BY <2>1, NothingAsked, PTL
<1>2. CASE Flush(pending', return)
  <2>1. CASE pending' = << >>
    <3>1. pc' = return /\ todo' = << >>
      BY <1>2, <2>1 DEF Flush
    <3>2. (Gathered /\ pc \in {"loop", "pass", "ended"} /\ Fits(pc) /\ todo = << >>
            /\ (pending = << >> \/ (pc = "loop" /\ Len(pending) < ChunkSize)))'
      BY <2>1, <3>1 DEF Fits
    <3> QED BY <3>2, NothingAsked, PTL
  <2>2. CASE pending' # << >>
    <3>1. pc' = "judge" /\ todo' = <<pending'>> /\ after' = return
      BY <1>2, <2>2 DEF Flush
    <3>2. (Gathered /\ pc = "judge" /\ pending # << >> /\ todo = <<pending>> /\ Fits(after))'
      BY <2>2, <3>1 DEF Fits
    <3> QED BY <3>2, ChunkAsked, PTL
  <2> QED BY <2>1, <2>2
<1> QED BY <1>1, <1>2

LEMMA GatherStep == ASSUME Inv, Gather PROVE Inv'
<1>1. Gathered /\ todo = << >> /\ Control
  BY LoopGathered DEF Gather, Inv
<1>2. /\ next' = next + 1 /\ pending' = Append(pending, next) /\ NeedsScreening(input[next])
      /\ next <= Len(input) /\ pc = "loop"
      /\ UNCHANGED <<input, verdicts, out, calls, sent, said>>
      /\ \/ Full(pending') /\ Flush(pending', "loop")
         \/ ~Full(pending') /\ UNCHANGED <<pc, todo, after>>
  BY DEF Gather, Flush
<1>3. /\ input \in Seq(STRING) /\ Len(input) \in Nat /\ DOMAIN input = 1..Len(input)
      /\ next \in Nat /\ next >= 1 /\ ChunkSize \in Nat /\ ChunkSize >= 1
      /\ Len(pending) \in Nat /\ DOMAIN pending = 1..Len(pending) /\ calls \in Nat
      /\ DOMAIN out = 1..Len(out) /\ Len(out) \in Nat
  BY <1>1, Facts DEF Gathered, Types
<1>4. /\ pending' \in Seq(Docs) /\ Len(pending') = Len(pending) + 1 /\ DOMAIN pending' = 1..Len(pending')
      /\ pending'[Len(pending) + 1] = next /\ \A k \in 1..Len(pending) : pending'[k] = pending[k]
  <2>1. next \in Docs /\ pending \in Seq(Docs)
    BY <1>1, <1>3 DEF Docs, Gathered, Types
  <2> QED BY <1>2, <1>3, <2>1
<1>5. Len(pending) < ChunkSize
  BY <1>1, <1>2 DEF Control
<1>6. Types'
  <2>1. /\ input' \in Inputs /\ (next \in 1..(Len(input) + 1))'
        /\ (pending \in Seq(Docs) /\ Len(pending) <= ChunkSize)'
        /\ (verdicts \in Seq(BOOLEAN) /\ out \in Seq(Outcomes) /\ calls \in Nat)'
        /\ (sent \in [DOMAIN input -> Nat] /\ said \in [DOMAIN input -> Spoken \cup {"nothing"}])'
    BY <1>1, <1>2, <1>3, <1>4, <1>5 DEF Gathered, Types
  <2>2. todo \in Seq(Seq(Docs)) /\ after \in {"loop", "pass", "ended"}
    BY <1>1 DEF Gathered, Types
  <2>3. /\ todo' \in Seq(Seq(Docs)) /\ after' \in {"loop", "pass", "ended"}
        /\ pc' \in {"loop", "judge", "yield", "pass", "ended", "raised"}
    <3>1. <<pending'>> \in Seq(Seq(Docs))
      BY <1>4
    <3> QED BY <1>2, <2>2, <3>1 DEF Flush
  <2> QED BY <2>1, <2>3 DEF Types
<1>7. Queued'
  <2>1. ASSUME NEW k \in 1..Len(pending')
        PROVE  pending'[k] = next' - 1 - Len(pending') + k /\ NeedsScreening(input[pending'[k]])
    <3>1. CASE k = Len(pending) + 1
      BY <1>2, <1>3, <1>4, <3>1
    <3>2. CASE k \in 1..Len(pending)
      <4>1. pending[k] = next - 1 - Len(pending) + k /\ NeedsScreening(input[pending[k]])
        BY <1>1, <1>3, <3>2 DEF Gathered, Queued
      <4>2. pending'[k] = pending[k] /\ input' = input
        BY <1>2, <1>4, <3>2
      <4> QED BY <1>2, <1>3, <1>4, <4>1, <4>2
    <3> QED BY <1>3, <1>4, <3>1, <3>2
  <2> QED BY <1>2, <1>4, <2>1 DEF Queued
<1>8. Answered'
  BY <1>1, <1>2 DEF Gathered, Answered, Verdict
<1>9. Screened' = Screened + 1 /\ Screened \in Nat
  <2>1. Screened' = Before(next + 1)
    BY <1>2 DEF Screened, Before
  <2> QED BY <1>2, <1>3, <2>1, CountNext DEF Screened
<1>10. next' - Len(pending') = next - Len(pending)
  BY <1>2, <1>3, <1>4
<1>11. Gathered'
  <2>1. (Len(out) + Len(pending) = next - 1 /\ (\A i \in DOMAIN out : out[i].document = i))'
    BY <1>1, <1>2, <1>3, <1>4 DEF Gathered
  <2>2. (\A d \in DOMAIN input : next - Len(pending) <= d => sent[d] = 0)'
    BY <1>1, <1>2, <1>10 DEF Gathered
  <2>3. Screened' - Len(pending') = Screened - Len(pending)
    BY <1>3, <1>4, <1>9
  <2>4. (/\ Len(pending) <= Screened
         /\ calls > 0 => calls < 2 * (Screened - Len(pending))
         /\ Screened - Len(pending) <= calls * ChunkSize)'
    <3>1. /\ Len(pending) <= Screened
          /\ calls > 0 => calls < 2 * (Screened - Len(pending))
          /\ Screened - Len(pending) <= calls * ChunkSize
      BY <1>1 DEF Gathered
    <3>2. Len(pending') <= Screened'
      BY <1>3, <1>4, <1>9, <3>1
    <3>3. calls' > 0 => calls' < 2 * (Screened' - Len(pending'))
      BY <1>2, <2>3, <3>1
    <3>4. Screened' - Len(pending') <= calls' * ChunkSize
      BY <1>2, <2>3, <3>1
    <3> QED BY <3>2, <3>3, <3>4
  <2>5. (verdicts = << >> /\ \A d \in DOMAIN input : sent[d] >= 2 => 2 ^ (sent[d] - 2) < ChunkSize)'
    BY <1>1, <1>2 DEF Gathered
  <2> QED BY <1>6, <1>7, <1>8, <2>1, <2>2, <2>4, <2>5 DEF Gathered
<1>12. \/ Flush(pending', "loop")
       \/ pc' = "loop" /\ todo' = todo /\ (Len(pending) < ChunkSize)'
  BY <1>2, <1>3, <1>4 DEF Full
<1>13. Fits("loop")'
  BY DEF Fits
<1> QED BY <1>1, <1>11, <1>12, <1>13, Flushed

\* The two flushes of what was pending before.
LEMMA FlushStep ==
  ASSUME Inv, pc = "loop", NEW return \in {"pass", "ended"}, Fits(return), Flush(pending, return),
         UNCHANGED <<input, next, verdicts, out, calls, sent, said>>
  PROVE  Inv'
<1>1. Gathered /\ todo = << >>
  BY LoopGathered
<1>2. pending' = pending
  BY DEF Flush
<1>3. Types'
  <2>1. Types
    BY <1>1 DEF Gathered
  <2>2. /\ todo' \in Seq(Seq(Docs)) /\ after' \in {"loop", "pass", "ended"}
        /\ pc' \in {"loop", "judge", "yield", "pass", "ended", "raised"}
    <3>1. pending \in Seq(Docs) /\ todo \in Seq(Seq(Docs)) /\ after \in {"loop", "pass", "ended"}
      BY <2>1 DEF Types
    <3>2. <<pending>> \in Seq(Seq(Docs))
      BY <3>1
    <3> QED BY <3>1, <3>2 DEF Flush
  <2> QED BY <1>2, <2>1, <2>2 DEF Types
<1>4. Gathered'
  BY <1>1, <1>2, <1>3 DEF Gathered, Queued, Answered, Verdict, Screened, Before
<1>5. Fits(return)'
  BY DEF Fits
<1>6. Flush(pending', return)
  BY <1>2
<1> QED BY <1>1, <1>4, <1>5, <1>6, Flushed

LEMMA BypassStep == ASSUME Inv, Bypass PROVE Inv'
<1>1. Fits("pass") /\ pc = "loop" /\ Flush(pending, "pass")
      /\ UNCHANGED <<input, next, verdicts, out, calls, sent, said>>
  BY DEF Bypass, Fits
<1> QED BY <1>1, FlushStep

LEMMA DrainStep == ASSUME Inv, Drain PROVE Inv'
<1>1. next = Len(input) + 1
  <2>1. Len(input) \in Nat /\ next \in 1..(Len(input) + 1) /\ next > Len(input)
    BY Facts DEF Drain, Inv, Types
  <2> QED BY <2>1
<1>2. Fits("ended") /\ pc = "loop" /\ Flush(pending, "ended")
      /\ UNCHANGED <<input, next, verdicts, out, calls, sent, said>>
  BY <1>1 DEF Drain, Fits
<1> QED BY <1>2, FlushStep
LEMMA PassStep == ASSUME Inv, Pass PROVE Inv'
<1> DEFINE o == [document |-> next, passed |-> TRUE, screened |-> FALSE]
<1>1. /\ out' = Append(out, o) /\ next' = next + 1 /\ pc' = "loop"
      /\ UNCHANGED <<input, pending, todo, verdicts, after, calls, sent, said>>
  BY DEF Pass
<1>2. /\ next <= Len(input) /\ ~NeedsScreening(input[next])
      /\ pending = << >> /\ verdicts = << >> /\ todo = << >>
  BY DEF Inv, Control, Fits, Pass
<1>3. Types
  BY DEF Inv
<1>4. next \in Nat /\ next >= 1 /\ Len(input) \in Nat /\ DOMAIN input = 1..Len(input) /\ Len(out) \in Nat
  BY <1>3, Facts
<1>5. o \in Outcomes
  BY <1>4 DEF Outcomes, Docs
<1> HIDE DEF o
<1>6. out' \in Seq(Outcomes) /\ Len(out') = Len(out) + 1 /\ DOMAIN out' = 1..(Len(out) + 1)
      /\ DOMAIN out = 1..Len(out)
      /\ out'[Len(out) + 1] = o /\ \A i \in 1..Len(out) : out'[i] = out[i]
  <2>1. out \in Seq(Outcomes)
    BY <1>3 DEF Types
  <2> QED BY <1>1, <1>4, <1>5, <2>1
<1>7. Types'
  BY <1>1, <1>2, <1>3, <1>4, <1>6 DEF Types
<1>8. Len(out) = next - 1 /\ \A i \in DOMAIN out : out[i].document = i
  BY <1>2, <1>4 DEF Inv, Progress, Waiting, Pass
<1>9. o.document = next /\ o.passed /\ ~o.screened
  BY DEF o
<1>10. Answered'
  <2>1. ASSUME NEW i \in DOMAIN out'
        PROVE  IF NeedsScreening(input[i]) THEN out'[i].screened /\ Verdict(i, out'[i].passed)
               ELSE ~out'[i].screened /\ out'[i].passed
    <3>1. CASE i \in DOMAIN out
      BY <1>6, <3>1 DEF Inv, Answered
    <3>2. CASE i = next
      <4>1. out'[i] = o /\ ~NeedsScreening(input[i])
        BY <1>2, <1>4, <1>6, <1>8, <3>2
      <4> QED BY <1>9, <4>1
    <3> QED BY <1>4, <1>6, <1>8, <3>1, <3>2
  <2> QED BY <1>1, <2>1 DEF Inv, Answered, Verdict
<1>11. \A i \in DOMAIN out' : out'[i].document = i
  BY <1>4, <1>6, <1>8, <1>9
<1>12. Screened' = Screened
  <2>1. Screened' = Before(next + 1)
    BY <1>1 DEF Screened, Before
  <2> QED BY <1>2, <1>4, <2>1, CountNext DEF Screened
<1>13. Gathered'
  <2>1. (Len(out) + Len(pending) = next - 1)' /\ Queued' /\ (verdicts = << >>)'
    BY <1>1, <1>2, <1>4, <1>6, <1>8 DEF Queued
  <2>2. (\A d \in DOMAIN input : next - Len(pending) <= d => sent[d] = 0)'
    BY <1>1, <1>2, <1>4 DEF Inv, Unsent, Pass
  <2>3. (/\ Len(pending) <= Screened
         /\ calls > 0 => calls < 2 * (Screened - Len(pending))
         /\ Screened - Len(pending) <= calls * ChunkSize)'
    BY <1>1, <1>2, <1>12 DEF Inv, Cost, Paid, Unasked, Pass
  <2>4. (\A d \in DOMAIN input : sent[d] >= 2 => 2 ^ (sent[d] - 2) < ChunkSize)'
    BY <1>1 DEF Inv, Depth
  <2> QED BY <1>7, <1>10, <1>11, <2>1, <2>2, <2>3, <2>4 DEF Gathered
<1>14. (Gathered /\ pc \in {"loop", "pass", "ended"} /\ Fits(pc) /\ todo = << >>
          /\ (pending = << >> \/ (pc = "loop" /\ Len(pending) < ChunkSize)))'
  BY <1>1, <1>2, <1>13 DEF Fits
<1> QED BY <1>14, NothingAsked, PTL
-----------------------------------------------------------------------------
(***************************************************************************)
(* Asking about a span.                                                    *)
(***************************************************************************)
\* The span asked about is the first of what is left of the chunk.
LEMMA Asked ==
  ASSUME Inv, pc = "judge"
  PROVE  /\ Head(todo) = todo[1] /\ Len(todo) >= 1
         /\ todo[1] \in Seq(Docs) /\ todo[1] # << >> /\ Contiguous(todo[1])
         /\ todo[1][1] = next - Len(pending) + Len(verdicts) /\ End(todo[1]) <= next
         /\ Len(todo) <= Len(pending) - Len(verdicts)
         /\ Len(out) + Len(pending) = next - 1
         /\ \A d \in Int :
              todo[1][1] <= d /\ d < End(todo[1]) => d \in DOMAIN input /\ NeedsScreening(input[d])
<1>1. Types /\ todo # << >>
  BY DEF Inv, Control
<1>2. /\ Len(input) \in Nat /\ DOMAIN input = 1..Len(input) /\ next \in Nat /\ next >= 1
      /\ Len(pending) \in Nat /\ DOMAIN pending = 1..Len(pending) /\ Len(verdicts) \in Nat
      /\ Len(todo) \in Nat /\ DOMAIN todo = 1..Len(todo) /\ Len(out) \in Nat
      /\ \A i \in 1..Len(todo) : todo[i] \in Seq(Docs)
  BY <1>1, Facts
<1>3. todo \in Seq(Seq(Docs)) /\ next <= Len(input) + 1
  BY <1>1, <1>2 DEF Types
<1>4. Len(todo) >= 1 /\ Head(todo) = todo[1] /\ 1 \in DOMAIN todo
  BY <1>1, <1>2, <1>3
<1>5. /\ todo[1] \in Seq(Docs) /\ todo[1] # << >> /\ Contiguous(todo[1])
      /\ End(todo[1]) + Len(todo) - 1 <= next
      /\ todo[1][1] = next - Len(pending) + Len(verdicts)
  BY <1>1, <1>2, <1>4 DEF Inv, Spans
<1>6. Len(todo[1]) \in Nat /\ Len(todo[1]) >= 1 /\ todo[1][1] \in Nat /\ End(todo[1]) = todo[1][1] + Len(todo[1])
  <2>1. Len(todo[1]) \in Nat /\ Len(todo[1]) >= 1 /\ todo[1][1] \in Docs
    BY <1>5
  <2> QED BY <2>1 DEF End, Docs
<1>7. End(todo[1]) <= next /\ Len(todo) <= Len(pending) - Len(verdicts)
  BY <1>2, <1>4, <1>5, <1>6
<1>8. Len(out) + Len(pending) = next - 1
  BY DEF Inv, Progress, Waiting
<1>9. ASSUME NEW d \in Int, todo[1][1] <= d, d < End(todo[1])
      PROVE  d \in DOMAIN input /\ NeedsScreening(input[d])
  <2> DEFINE k == d - (next - 1 - Len(pending))
  <2>1. d >= next - Len(pending) /\ d < next
    <3>1. d >= next - Len(pending) + Len(verdicts)
      BY <1>5, <1>9
    <3>2. d < next
      BY <1>2, <1>6, <1>7, <1>9
    <3> QED BY <1>2, <3>1, <3>2
  <2>2. k \in DOMAIN pending /\ next - 1 - Len(pending) + k = d
    BY <1>2, <2>1
  <2>3. d \in DOMAIN input
    BY <1>2, <1>3, <1>8, <2>1
  <2> HIDE DEF k
  <2> QED BY <2>2, <2>3 DEF Inv, Queued
<1> QED BY <1>4, <1>5, <1>7, <1>8, <1>9

LEMMA Counted ==
  ASSUME Inv, pc = "judge", sent' = Sent(Head(todo))
  PROVE  /\ sent' \in [DOMAIN input -> Nat]
         /\ \A d \in DOMAIN input :
              /\ sent[d] \in Nat /\ d \in Nat
              /\ sent'[d] = IF todo[1][1] <= d /\ d < End(todo[1]) THEN sent[d] + 1 ELSE sent[d]
              /\ ~NeedsScreening(input[d]) => sent'[d] = 0
              /\ next <= d => sent'[d] = 0
              /\ sent'[d] >= 2 => 2 ^ (sent'[d] - 2) < ChunkSize
<1>1. Types
  BY DEF Inv
<1>2. /\ Head(todo) = todo[1] /\ todo[1] \in Seq(Docs) /\ todo[1] # << >> /\ Contiguous(todo[1])
      /\ End(todo[1]) <= next /\ 1 \in DOMAIN todo
      /\ \A d \in Int :
           todo[1][1] <= d /\ d < End(todo[1]) => d \in DOMAIN input /\ NeedsScreening(input[d])
  BY <1>1, Asked, Facts
<1>3. sent \in [DOMAIN input -> Nat] /\ DOMAIN input = 1..Len(input) /\ Len(input) \in Nat
      /\ next \in Nat
  BY <1>1, Facts DEF Types
<1>4. /\ sent' \in [DOMAIN input -> Nat]
      /\ \A d \in DOMAIN input :
           sent'[d] = IF todo[1][1] <= d /\ d < End(todo[1]) THEN sent[d] + 1 ELSE sent[d]
  BY <1>2, <1>3, SentOnce
<1>5. ASSUME NEW d \in DOMAIN input
      PROVE  /\ ~NeedsScreening(input[d]) => sent'[d] = 0
             /\ next <= d => sent'[d] = 0
             /\ sent'[d] >= 2 => 2 ^ (sent'[d] - 2) < ChunkSize
  <2>1. CASE todo[1][1] <= d /\ d < End(todo[1])
    <3>1. NeedsScreening(input[d])
      BY <1>2, <1>3, <2>1
    <3>2. ~(next <= d)
      <4>1. todo[1][1] \in Nat /\ Len(todo[1]) \in Nat
        BY <1>2 DEF Docs
      <4> QED BY <1>2, <1>3, <2>1, <4>1 DEF End
    <3>3. sent[d] >= 1 => 2 ^ (sent[d] - 1) < ChunkSize
      BY <1>2, <1>3, <2>1 DEF Inv, Depth
    <3>4. sent'[d] = sent[d] + 1 /\ sent[d] \in Nat
      BY <1>3, <1>4, <2>1
    <3>5. sent'[d] >= 2 => sent'[d] - 2 = sent[d] - 1 /\ sent[d] >= 1
      BY <3>4
    <3>6. sent'[d] >= 2 => 2 ^ (sent'[d] - 2) < ChunkSize
      BY <3>3, <3>5
    <3> QED BY <3>1, <3>2, <3>6
  <2>2. CASE ~(todo[1][1] <= d /\ d < End(todo[1]))
    <3>1. sent'[d] = sent[d]
      BY <1>4, <2>2
    <3>2. next <= d => sent[d] = 0
      BY DEF Inv, Unsent
    <3>3. sent[d] >= 2 => 2 ^ (sent[d] - 2) < ChunkSize
      BY DEF Inv, Depth
    <3>4. ~NeedsScreening(input[d]) => sent[d] = 0
      BY DEF Inv, Answered
    <3> QED BY <3>1, <3>2, <3>3, <3>4
  <2> QED BY <2>1, <2>2
<1> QED BY <1>3, <1>4, <1>5
\* An exception ends the walk: nothing is yielded or asked any more.
LEMMA Raised ==
  ASSUME Inv, pc = "judge", pc' = "raised", sent' = Sent(Head(todo)),
         calls' \in {calls, calls + 1},
         UNCHANGED <<input, next, pending, todo, verdicts, out, after, said>>
  PROVE  Inv'
<1>1. Types /\ calls \in Nat
  BY DEF Inv, Types
<1>2. /\ next \in Nat /\ Len(pending) \in Nat /\ Len(verdicts) \in Nat /\ Len(todo) \in Nat
      /\ Len(todo) >= 1 /\ Len(todo) <= Len(pending) - Len(verdicts)
      /\ ChunkSize \in Nat
  BY <1>1, Asked, Facts
<1>3. /\ sent' \in [DOMAIN input -> Nat]
      /\ \A d \in DOMAIN input :
           /\ ~NeedsScreening(input[d]) => sent'[d] = 0
           /\ next <= d => sent'[d] = 0
           /\ sent'[d] >= 2 => 2 ^ (sent'[d] - 2) < ChunkSize
  BY Counted
<1>4. Types'
  BY <1>1, <1>3 DEF Types
<1>5. Control' /\ Queued' /\ Spans'
  BY DEF Inv, Control, Fits, Queued, Spans, Contiguous, End
<1>6. Progress' /\ Judged'
  BY DEF Inv, Progress, Judged, Waiting, Verdict
<1>7. Unsent' /\ Answered' /\ Depth'
  <2>1. Unsent'
    BY <1>3 DEF Unsent
  <2>2. Answered'
    BY <1>3 DEF Inv, Answered, Verdict
  <2>3. Depth'
    BY <1>3 DEF Depth
  <2> QED BY <2>1, <2>2, <2>3
<1>8. Screened' = Screened /\ Screened \in Nat
  <2>1. Screened' = Screened
    BY DEF Screened, Before
  <2>2. next >= 1
    BY <1>1, Facts
  <2> QED BY <1>2, <2>1, <2>2, CountNext DEF Screened
<1>9. Cost'
  <2>1. calls + 2 * (Len(pending) - Len(verdicts)) - Len(todo) < 2 * Screened /\ Len(pending) <= Screened
    BY DEF Inv, Cost
  <2>2. calls' < 2 * Screened
    BY <1>1, <1>2, <1>8, <2>1
  <2> QED BY <1>8, <2>1, <2>2 DEF Cost
<1>10. Paid'
  <2>1. Screened - Len(pending) <= calls * ChunkSize
    BY DEF Inv, Paid, Unasked
  <2>2. (calls + 1) * ChunkSize = calls * ChunkSize + ChunkSize /\ calls * ChunkSize \in Nat
    BY <1>1, <1>2
  <2>3. Screened - Len(pending) <= calls' * ChunkSize
    <3>1. CASE calls' = calls
      BY <2>1, <3>1
    <3>2. CASE calls' = calls + 1
      <4>1. Screened - Len(pending) <= (calls + 1) * ChunkSize
        BY <1>2, <1>8, <2>1, <2>2
      <4> QED BY <3>2, <4>1
    <3> QED BY <3>1, <3>2
  <2> QED BY <1>8, <2>3 DEF Paid, Unasked
<1> QED BY <1>4, <1>5, <1>6, <1>7, <1>9, <1>10 DEF Inv

LEMMA ModelErrorStep == ASSUME Inv, ModelError PROVE Inv'
<1>1. calls' \in {calls, calls + 1}
  BY DEF ModelError
<1> QED BY <1>1, Raised DEF ModelError

LEMMA YieldStep == ASSUME Inv, Yield PROVE Inv'
<1> DEFINE d == pending[Len(pending) - Len(verdicts) + 1]
           o == [document |-> d, passed |-> Head(verdicts), screened |-> TRUE]
<1>1. /\ out' = Append(out, o) /\ verdicts' = Tail(verdicts) /\ pc = "yield"
      /\ \/ Len(verdicts) = 1 /\ pending' = << >> /\ pc' = after
         \/ Len(verdicts) # 1 /\ pending' = pending /\ pc' = pc
      /\ UNCHANGED <<input, next, todo, after, calls, sent, said>>
  BY DEF Yield
<1>2. Types /\ verdicts # << >> /\ Len(verdicts) <= Len(pending) /\ todo = << >> /\ Fits(after)
  BY <1>1 DEF Inv, Control
<1>3. /\ next \in Nat /\ next >= 1 /\ Len(input) \in Nat /\ DOMAIN input = 1..Len(input)
      /\ Len(out) \in Nat /\ DOMAIN out = 1..Len(out)
      /\ Len(pending) \in Nat /\ DOMAIN pending = 1..Len(pending)
      /\ Len(verdicts) \in Nat /\ DOMAIN verdicts = 1..Len(verdicts) /\ ChunkSize \in Nat /\ ChunkSize >= 1
  BY <1>2, Facts
<1>4. /\ Len(verdicts) >= 1 /\ Head(verdicts) = verdicts[1] /\ verdicts[1] \in BOOLEAN
      /\ verdicts' \in Seq(BOOLEAN) /\ Len(verdicts') = Len(verdicts) - 1
      /\ DOMAIN verdicts' = 1..(Len(verdicts) - 1)
      /\ \A k \in 1..(Len(verdicts) - 1) : verdicts'[k] = verdicts[k + 1]
  <2>1. verdicts \in Seq(BOOLEAN)
    BY <1>2 DEF Types
  <2> QED BY <1>1, <1>2, <1>3, <2>1
<1>5. Len(out) + Len(verdicts) = next - 1 /\ \A i \in DOMAIN out : out[i].document = i
  BY <1>1 DEF Inv, Progress, Waiting
<1>6. d = Len(out) + 1 /\ NeedsScreening(input[d])
  <2>1. Len(pending) - Len(verdicts) + 1 \in DOMAIN pending
    BY <1>2, <1>3, <1>4
  <2>2. d = next - 1 - Len(pending) + (Len(pending) - Len(verdicts) + 1) /\ NeedsScreening(input[d])
    BY <2>1 DEF Inv, Queued
  <2> QED BY <1>3, <1>5, <2>2
<1>7. Verdict(d, verdicts[1])
  <2>1. Verdict(next - 1 - Len(verdicts) + 1, verdicts[1])
    <3>1. 1 \in DOMAIN verdicts /\ Waiting = Len(verdicts)
      BY <1>1, <1>3, <1>4 DEF Waiting
    <3> QED BY <3>1 DEF Inv, Judged
  <2>2. next - 1 - Len(verdicts) + 1 = Len(out) + 1
    BY <1>3, <1>5
  <2> QED BY <1>6, <2>1, <2>2
<1>8. /\ o.document = Len(out) + 1 /\ o.passed = verdicts[1] /\ o.screened /\ o \in Outcomes
  BY <1>3, <1>4, <1>6 DEF Outcomes, Docs
<1> HIDE DEF d, o
<1>9. /\ out' \in Seq(Outcomes) /\ Len(out') = Len(out) + 1 /\ DOMAIN out' = 1..(Len(out) + 1)
      /\ out'[Len(out) + 1] = o /\ \A i \in 1..Len(out) : out'[i] = out[i]
  <2>1. out \in Seq(Outcomes)
    BY <1>2 DEF Types
  <2> QED BY <1>1, <1>3, <1>8, <2>1
<1>10. Answered'
  <2>1. ASSUME NEW i \in DOMAIN out'
        PROVE  IF NeedsScreening(input[i]) THEN out'[i].screened /\ Verdict(i, out'[i].passed)
               ELSE ~out'[i].screened /\ out'[i].passed
    <3>1. CASE i \in DOMAIN out
      BY <1>3, <1>9, <3>1 DEF Inv, Answered
    <3>2. CASE i = Len(out) + 1
      BY <1>6, <1>7, <1>8, <1>9, <3>2
    <3> QED BY <1>3, <1>9, <3>1, <3>2
  <2> QED BY <1>1, <2>1 DEF Inv, Answered, Verdict
<1>11. \A i \in DOMAIN out' : out'[i].document = i
  BY <1>3, <1>5, <1>8, <1>9
<1>12. Types'
  <2>1. pending' \in Seq(Docs) /\ Len(pending') <= ChunkSize /\ pc' \in {"loop", "pass", "ended", "yield"}
    <3>1. /\ pending \in Seq(Docs) /\ Len(pending) <= ChunkSize /\ after \in {"loop", "pass", "ended"}
          /\ << >> \in Seq(Docs) /\ Len(<< >>) <= ChunkSize
      BY <1>2, <1>3 DEF Types
    <3> QED BY <1>1, <3>1
  <2> QED BY <1>1, <1>2, <1>4, <1>9, <2>1 DEF Types
<1>13. Screened' = Screened /\ Screened \in Nat
  BY <1>1, <1>3, CountNext DEF Screened, Before
<1>14. CASE Len(verdicts) = 1
  <2>1. pending' = << >> /\ pc' = after /\ verdicts' = << >>
    BY <1>1, <1>4, <1>14
  <2>2. (Len(out) + Len(pending) = next - 1)' /\ Queued'
    BY <1>1, <1>3, <1>5, <1>9, <1>14, <2>1 DEF Queued
  <2>3. (\A i \in DOMAIN input : next - Len(pending) <= i => sent[i] = 0)'
    BY <1>1, <1>3, <2>1 DEF Inv, Unsent
  <2>4. (/\ Len(pending) <= Screened
         /\ calls > 0 => calls < 2 * (Screened - Len(pending))
         /\ Screened - Len(pending) <= calls * ChunkSize)'
    BY <1>1, <1>13, <2>1 DEF Inv, Cost, Paid, Unasked
  <2>5. (\A i \in DOMAIN input : sent[i] >= 2 => 2 ^ (sent[i] - 2) < ChunkSize)'
    BY <1>1 DEF Inv, Depth
  <2>6. Gathered'
    BY <1>10, <1>11, <1>12, <2>1, <2>2, <2>3, <2>4, <2>5 DEF Gathered
  <2>7. pc' \in {"loop", "pass", "ended"} /\ Fits(pc)'
    BY <1>1, <1>2, <2>1 DEF Types, Fits
  <2>8. (Gathered /\ pc \in {"loop", "pass", "ended"} /\ Fits(pc) /\ todo = << >>
          /\ (pending = << >> \/ (pc = "loop" /\ Len(pending) < ChunkSize)))'
    BY <1>1, <1>2, <2>1, <2>6, <2>7
  <2> QED BY <2>8, NothingAsked, PTL
<1>15. CASE Len(verdicts) # 1
  <2>1. pending' = pending /\ pc' = "yield" /\ verdicts' # << >>
    BY <1>1, <1>3, <1>4, <1>15
  <2>2. Control'
    BY <1>1, <1>2, <1>3, <1>4, <2>1 DEF Control, Fits
  <2>3. Queued' /\ Spans' /\ Unsent'
    BY <1>1, <1>2, <2>1 DEF Inv, Queued, Spans, Unsent
  <2>4. Progress'
    BY <1>1, <1>3, <1>4, <1>5, <1>9, <1>11, <2>1 DEF Progress, Waiting
  <2>5. Judged'
    <3>1. ASSUME NEW k \in DOMAIN verdicts'
          PROVE  Verdict(next - 1 - Len(verdicts') + k, verdicts'[k])
      <4>1. k + 1 \in DOMAIN verdicts /\ verdicts'[k] = verdicts[k + 1]
        BY <1>3, <1>4
      <4>2. Verdict(next - 1 - Len(verdicts) + (k + 1), verdicts[k + 1])
        BY <1>1, <4>1 DEF Inv, Judged, Waiting
      <4>3. next - 1 - Len(verdicts) + (k + 1) = next - 1 - Len(verdicts') + k
        BY <1>3, <1>4
      <4> QED BY <4>1, <4>2, <4>3
    <3> QED BY <1>1, <2>1, <3>1 DEF Judged, Waiting, Verdict
  <2>6. Cost' /\ Paid' /\ Depth'
    <3>1. Cost'
      BY <1>1, <1>13, <2>1 DEF Inv, Cost
    <3>2. Paid'
      BY <1>1, <1>13, <2>1 DEF Inv, Paid, Unasked
    <3>3. Depth'
      BY <1>1, <2>1 DEF Inv, Depth
    <3> QED BY <3>1, <3>2, <3>3
  <2> QED BY <1>10, <1>12, <2>2, <2>3, <2>4, <2>5, <2>6 DEF Inv
<1> QED BY <1>14, <1>15
\* The half of a span is asked about again: its titles have been in one more
\* request, and the potential of Depth is no larger.
LEMMA Shrink ==
  ASSUME NEW s \in Nat, NEW long \in Nat, NEW short \in Nat, NEW bound \in Nat,
         long > 1, short >= 1, 2 * short <= long + 1, 2 ^ s * (long - 1) < bound
  PROVE  2 ^ s < bound /\ 2 ^ (s + 1) * (short - 1) < bound
<1> DEFINE p == 2 ^ s
<1>1. p \in Nat /\ 2 ^ (s + 1) = 2 * p
  BY Doubling
<1>2. p * (long - 1) < bound
  OBVIOUS
<1> HIDE DEF p
<1>3. p * (long - 1) = p + p * (long - 2) /\ p * (long - 2) >= 0
  BY <1>1
<1>4. p < bound
  BY <1>1, <1>2, <1>3
<1>5. (2 * p) * (short - 1) = p * (2 * (short - 1))
  BY <1>1
<1>6. p * (2 * (short - 1)) <= p * (long - 1)
  <2> DEFINE gap == long - 1 - 2 * (short - 1)
  <2>1. gap \in Nat /\ long - 1 = 2 * (short - 1) + gap
    OBVIOUS
  <2> HIDE DEF gap
  <2>2. p * (2 * (short - 1) + gap) = p * (2 * (short - 1)) + p * gap /\ p * gap >= 0
    BY <1>1, <2>1
  <2>3. p * (2 * (short - 1)) \in Int /\ p * gap \in Int
    BY <1>1, <2>1
  <2> QED BY <2>1, <2>2, <2>3
<1>7. (2 * p) * (short - 1) < bound
  <2> DEFINE x == p * (2 * (short - 1))
             y == p * (long - 1)
  <2>1. x \in Int /\ y \in Int
    BY <1>1
  <2>2. x <= y /\ y < bound /\ (2 * p) * (short - 1) = x
    BY <1>2, <1>5, <1>6
  <2> HIDE DEF x, y
  <2> QED BY <2>1, <2>2
<1> QED BY <1>1, <1>4, <1>7 DEF p

\* An aligned answer: the verdicts of the span follow those in hand.
Accepted(text) ==
  /\ Aligned(text, Len(todo[1]))
  /\ calls' = calls + 1 /\ sent' = Sent(Head(todo))
  /\ verdicts' = verdicts \o ParseVerdicts(text, Len(todo[1])).verdicts
  /\ todo' = Tail(todo) /\ pc' = IF Len(todo) = 1 THEN "yield" ELSE "judge"
  /\ said' = [d \in DOMAIN said |-> Heard(text, todo[1], d)]
  /\ UNCHANGED <<input, next, pending, out, after>>

LEMMA AlignedStep ==
  ASSUME Inv, pc = "judge", NEW text \in Answers, Accepted(text)
  PROVE  Inv'
<1> DEFINE span == todo[1]
           v == ParseVerdicts(text, Len(span)).verdicts
<1>answer. /\ calls' = calls + 1 /\ sent' = Sent(Head(todo)) /\ verdicts' = verdicts \o v
           /\ todo' = Tail(todo) /\ pc' = IF Len(todo) = 1 THEN "yield" ELSE "judge"
           /\ said' = [d \in DOMAIN said |-> Heard(text, span, d)] /\ Aligned(text, Len(span))
  BY DEF Accepted
<1>frame. UNCHANGED <<input, next, pending, out, after>>
  BY DEF Accepted
<1>1. Types
  BY DEF Inv
<1>2. /\ Len(input) \in Nat /\ DOMAIN input = 1..Len(input) /\ next \in Nat /\ next >= 1
      /\ Len(pending) \in Nat /\ DOMAIN pending = 1..Len(pending) /\ ChunkSize \in Nat
      /\ Len(verdicts) \in Nat /\ DOMAIN verdicts = 1..Len(verdicts)
      /\ Len(todo) \in Nat /\ DOMAIN todo = 1..Len(todo) /\ Len(out) \in Nat /\ DOMAIN out = 1..Len(out)
  BY <1>1, Facts
<1>3. /\ Len(todo) >= 1 /\ span \in Seq(Docs) /\ span # << >> /\ Contiguous(span)
      /\ span[1] = next - Len(pending) + Len(verdicts) /\ End(span) <= next
      /\ Len(todo) <= Len(pending) - Len(verdicts)
      /\ Len(out) + Len(pending) = next - 1
  BY Asked
<1>4. /\ Len(span) \in Nat /\ Len(span) >= 1 /\ span[1] \in Nat /\ End(span) = span[1] + Len(span)
      /\ DOMAIN span = 1..Len(span)
  BY <1>3 DEF End, Docs
<1>5. /\ v \in Seq(BOOLEAN) /\ Len(v) = Len(span)
      /\ \A k \in 1..Len(span) :
           Heard(text, span, span[k]) \in Spoken /\ v[k] = (Heard(text, span, span[k]) = "YES")
      /\ \A d : d \in Int /\ ~(span[1] <= d /\ d < End(span)) => Heard(text, span, d) = said[d]
  BY <1>3, <1>answer, HeardInPlace
<1>first. span = todo[1]
  OBVIOUS
<1> HIDE DEF v, span
<1>6. /\ verdicts' \in Seq(BOOLEAN) /\ Len(verdicts') = Len(verdicts) + Len(span)
      /\ DOMAIN verdicts' = 1..(Len(verdicts) + Len(span))
      /\ \A k \in 1..Len(verdicts) : verdicts'[k] = verdicts[k]
      /\ \A k \in 1..Len(span) : verdicts'[Len(verdicts) + k] = v[k]
  <2>1. verdicts \in Seq(BOOLEAN) /\ verdicts' = verdicts \o v
    BY <1>1, <1>answer DEF Types
  <2>2. v \in Seq(BOOLEAN) /\ Len(v) = Len(span)
    BY <1>5
  <2>3. ASSUME NEW B, verdicts \in Seq(B), v \in Seq(B)
        PROVE  /\ verdicts \o v \in Seq(B) /\ Len(verdicts \o v) = Len(verdicts) + Len(v)
               /\ DOMAIN (verdicts \o v) = 1..(Len(verdicts) + Len(v))
               /\ \A k \in 1..Len(verdicts) : (verdicts \o v)[k] = verdicts[k]
               /\ \A k \in 1..Len(v) : (verdicts \o v)[Len(verdicts) + k] = v[k]
    BY <2>3, Joined
  <2> QED BY <2>1, <2>2, <2>3, Zenon
<1>length. Len(verdicts') = Len(verdicts) + Len(span) /\ Len(verdicts') \in Nat
  BY <1>2, <1>4, <1>6
<1>7. /\ todo' \in Seq(Seq(Docs)) /\ Len(todo') = Len(todo) - 1 /\ DOMAIN todo' = 1..(Len(todo) - 1)
      /\ \A i \in 1..(Len(todo) - 1) : todo'[i] = todo[i + 1]
      /\ todo' = << >> <=> Len(todo) = 1
  <2>1. todo \in Seq(Seq(Docs)) /\ todo # << >>
    BY <1>1, <1>2, <1>3 DEF Types
  <2> QED BY <1>answer, <2>1, Rest
<1>8. /\ sent' \in [DOMAIN input -> Nat]
      /\ \A d \in DOMAIN input :
           /\ sent'[d] = IF span[1] <= d /\ d < End(span) THEN sent[d] + 1 ELSE sent[d]
           /\ ~NeedsScreening(input[d]) => sent'[d] = 0
           /\ next <= d => sent'[d] = 0
           /\ sent'[d] >= 2 => 2 ^ (sent'[d] - 2) < ChunkSize
  BY <1>answer, <1>first, Counted
<1>9. said \in [DOMAIN input -> Spoken \cup {"nothing"}]
  BY <1>1 DEF Types
<1>10. ASSUME NEW d \in DOMAIN input, ~(span[1] <= d /\ d < End(span))
       PROVE  said'[d] = said[d]
  BY <1>2, <1>5, <1>9, <1>10, <1>answer
<1>11. ASSUME NEW k \in 1..Len(span)
       PROVE  span[k] \in DOMAIN input /\ said'[span[k]] \in Spoken /\ v[k] = (said'[span[k]] = "YES")
              /\ span[k] = span[1] + k - 1
  <2>1. span[k] = span[1] + k - 1
    BY <1>3, <1>4 DEF Contiguous
  <2>2. span[k] \in DOMAIN input
    <3>1. span[k] \in Int /\ span[1] <= span[k] /\ span[k] < End(span)
      BY <1>4, <2>1
    <3> QED BY <1>first, <3>1, Asked
  <2>3. said'[span[k]] = Heard(text, span, span[k])
    BY <1>9, <1>answer, <2>2
  <2> QED BY <1>5, <2>1, <2>2, <2>3
<1>place. \A k \in 1..Len(span) : span[k] = span[1] + k - 1
  BY <1>11
<1>12. Types'
  <2>1. ASSUME NEW d \in DOMAIN input PROVE said'[d] \in Spoken \cup {"nothing"}
    <3>1. CASE span[1] <= d /\ d < End(span)
      <4>1. d - span[1] + 1 \in 1..Len(span)
        BY <1>2, <1>4, <3>1
      <4>2. span[d - span[1] + 1] = d
        BY <1>2, <1>4, <1>place, <4>1
      <4> QED BY <1>11, <4>1, <4>2
    <3>2. CASE ~(span[1] <= d /\ d < End(span))
      BY <1>9, <1>10, <3>2
    <3> QED BY <3>1, <3>2
  <2>2. said' \in [DOMAIN input' -> Spoken \cup {"nothing"}]
    BY <1>9, <1>answer, <1>frame, <2>1
  <2>3. calls' \in Nat /\ sent' \in [DOMAIN input' -> Nat] /\ pc' \in {"judge", "yield"}
    BY <1>1, <1>8, <1>answer, <1>frame DEF Types
  <2> QED BY <1>1, <1>6, <1>7, <1>frame, <2>2, <2>3 DEF Types
<1>13. Len(todo) = 1 => End(span) = next
  <2>1. todo # << >>
    BY <1>3
  <2> QED BY <1>first, <2>1 DEF Inv, Spans
<1>14. Control'
  <2>1. verdicts' # << >>
    BY <1>2, <1>4, <1>6
  <2>2. pc' = "yield" => Len(verdicts') <= Len(pending)
    BY <1>2, <1>3, <1>4, <1>length, <1>13, <1>answer
  <2>3. todo' # << >> <=> pc' = "judge"
    BY <1>7, <1>answer
  <2>4. Fits(after)'
    BY <1>frame DEF Inv, Control, Fits
  <2>5. pc' \in {"judge", "yield"} /\ pending' = pending
    BY <1>answer, <1>frame
  <2>6. Fits(pc)'
    BY <2>5 DEF Fits
  <2> QED BY <2>1, <2>2, <2>3, <2>4, <2>5, <2>6 DEF Control
<1>15. Waiting' = Len(pending) /\ Waiting = Len(pending)
  <2>1. pc' = "yield" => Len(todo) = 1
    BY <1>answer
  <2>2. Len(todo) = 1 => Len(verdicts') = Len(pending)
    <3>1. /\ next \in Nat /\ Len(pending) \in Nat /\ Len(verdicts) \in Nat /\ Len(span) \in Nat
          /\ span[1] \in Nat /\ Len(verdicts') \in Nat
      BY <1>2, <1>4, <1>length
    <3>2. span[1] = next - Len(pending) + Len(verdicts) /\ Len(verdicts') = Len(verdicts) + Len(span)
      BY <1>3, <1>length
    <3>3. Len(todo) = 1 => span[1] + Len(span) = next
      BY <1>4, <1>13
    <3> QED BY <3>1, <3>2, <3>3
  <2> QED BY <1>frame, <2>1, <2>2 DEF Waiting
<1>16. Queued' /\ Progress' /\ Unsent'
  <2>1. Queued'
    BY <1>frame DEF Inv, Queued
  <2>2. Progress'
    BY <1>15, <1>frame DEF Inv, Progress
  <2>3. Unsent'
    BY <1>8, <1>answer, <1>frame DEF Unsent
  <2> QED BY <2>1, <2>2, <2>3
<1>17. Spans'
  <2>1. ASSUME NEW i \in DOMAIN todo'
        PROVE  /\ todo'[i] # << >> /\ Contiguous(todo'[i])
               /\ End(todo'[i]) + Len(todo') - i <= next
               /\ i < Len(todo') => todo'[i + 1][1] = End(todo'[i])
               /\ \A j \in DOMAIN todo' : i < j => End(todo'[i]) <= todo'[j][1]
    <3>1. i + 1 \in DOMAIN todo /\ todo'[i] = todo[i + 1] /\ i \in Nat
      BY <1>2, <1>7
    <3>2. /\ todo[i + 1] # << >> /\ Contiguous(todo[i + 1])
          /\ End(todo[i + 1]) + Len(todo) - (i + 1) <= next
          /\ i + 1 < Len(todo) => todo[(i + 1) + 1][1] = End(todo[i + 1])
          /\ \A j \in DOMAIN todo : i + 1 < j => End(todo[i + 1]) <= todo[j][1]
      BY <3>1 DEF Inv, Spans
    <3>3. Len(todo) - (i + 1) = Len(todo') - i
      BY <1>2, <1>7, <3>1
    <3>4. End(todo[i + 1]) + Len(todo') - i <= next
      <4>1. End(todo[i + 1]) \in Int
        <5>1. todo[i + 1] \in Seq(Docs) /\ todo[i + 1] # << >>
          BY <1>1, <1>2, <3>1, <3>2, Facts
        <5> QED BY <5>1 DEF End, Docs
      <4> QED BY <1>2, <1>7, <3>1, <3>2, <3>3, <4>1
    <3>5. i < Len(todo') => todo'[i + 1][1] = End(todo'[i])
      <4>1. ASSUME i < Len(todo')
            PROVE  todo'[i + 1] = todo[(i + 1) + 1] /\ i + 1 < Len(todo)
        BY <1>2, <1>7, <3>1, <4>1, SMTT(30)
      <4> QED BY <3>1, <3>2, <4>1
    <3>6. ASSUME NEW j \in DOMAIN todo', i < j PROVE End(todo'[i]) <= todo'[j][1]
      <4>1. j + 1 \in DOMAIN todo /\ todo'[j] = todo[j + 1] /\ i + 1 < j + 1
        <5>1. j \in 1..(Len(todo) - 1) /\ i < j
          BY <1>7, <3>6
        <5>2. j + 1 \in DOMAIN todo /\ i + 1 < j + 1
          BY <1>2, <3>1, <5>1
        <5>3. todo'[j] = todo[j + 1]
          BY <1>7, <5>1
        <5> QED BY <5>2, <5>3
      <4> QED BY <3>1, <3>2, <4>1
    <3> QED BY <3>1, <3>2, <3>4, <3>5, <3>6
  <2>2. ASSUME todo' # << >>
        PROVE  /\ todo'[1][1] = next - Len(pending) + Len(verdicts')
               /\ End(todo'[Len(todo')]) = next
    <3>1. Len(todo) >= 2
      BY <1>2, <1>3, <1>7, <2>2
    <3>2. todo'[1] = todo[2] /\ todo'[Len(todo')] = todo[Len(todo)] /\ todo # << >>
      BY <1>2, <1>7, <3>1
    <3>3. todo[2][1] = End(todo[1]) /\ End(todo[Len(todo)]) = next
      <4>1. 1 \in DOMAIN todo /\ 1 < Len(todo) /\ todo[1 + 1] = todo[2]
        BY <1>2, <3>1
      <4>2. todo[1 + 1][1] = End(todo[1])
        BY <4>1 DEF Inv, Spans
      <4> QED BY <3>2, <4>1, <4>2 DEF Inv, Spans
    <3>4. End(span) = next - Len(pending) + Len(verdicts')
      BY <1>2, <1>3, <1>4, <1>length
    <3> QED BY <1>first, <3>2, <3>3, <3>4
  <2> QED BY <1>frame, <2>1, <2>2 DEF Spans, Contiguous, End
<1>18. Judged'
  <2>1. ASSUME NEW k \in DOMAIN verdicts'
        PROVE  /\ said'[next - 1 - Len(pending) + k] # "nothing"
               /\ verdicts'[k] = (said'[next - 1 - Len(pending) + k] = "YES")
    <3>1. CASE k \in 1..Len(verdicts)
      <4> DEFINE d == next - 1 - Len(pending) + k
      <4>1. Verdict(d, verdicts[k])
        BY <1>2, <1>15, <3>1 DEF Inv, Judged
      <4>2. d \in DOMAIN input /\ d < span[1]
        <5>1. d = Len(out) + k /\ d < span[1] /\ d < next
          BY <1>2, <1>3, <3>1
        <5>2. d \in 1..Len(input)
          BY <1>1, <1>2, <3>1, <5>1 DEF Types
        <5> QED BY <1>2, <5>1, <5>2
      <4>3. said'[d] = said[d]
        BY <1>2, <1>4, <1>10, <4>2
      <4>4. verdicts'[k] = verdicts[k]
        BY <1>6, <3>1
      <4>5. said[d] # "nothing" /\ verdicts[k] = (said[d] = "YES")
        BY <4>1 DEF Verdict
      <4> QED BY <4>3, <4>4, <4>5, Zenon
    <3>2. CASE k \in (Len(verdicts) + 1)..(Len(verdicts) + Len(span))
      <4> DEFINE j == k - Len(verdicts)
      <4>1. j \in 1..Len(span) /\ k = Len(verdicts) + j
        BY <1>2, <1>4, <3>2
      <4>2. verdicts'[k] = v[j] /\ span[j] = next - 1 - Len(pending) + k
        <5>1. verdicts'[Len(verdicts) + j] = v[j] /\ span[j] = span[1] + j - 1
          BY <1>6, <1>11, <4>1
        <5> QED BY <1>2, <1>3, <4>1, <5>1, SMTT(30)
      <4>3. said'[span[j]] \in Spoken /\ v[j] = (said'[span[j]] = "YES")
        BY <1>11, <4>1
      <4>4. said'[span[j]] # "nothing" /\ verdicts'[k] = (said'[span[j]] = "YES")
        BY <4>2, <4>3 DEF Spoken
      <4> QED BY <4>2, <4>4, Zenon
    <3> QED BY <1>2, <1>4, <1>6, <3>1, <3>2
  <2>2. Waiting' = Len(pending') /\ next' = next /\ pending' = pending
    BY <1>15, <1>frame
  <2> QED BY <2>1, <2>2, Zenon DEF Judged, Verdict
<1>19. Answered'
  <2>1. ASSUME NEW i \in DOMAIN out PROVE i \in DOMAIN input /\ said'[i] = said[i]
    <3>1. i \in 1..Len(input) /\ i < span[1]
      BY <1>1, <1>2, <1>3 DEF Types
    <3> QED BY <1>2, <1>4, <1>10, <3>1
  <2>2. \A i \in DOMAIN out :
          IF NeedsScreening(input[i]) THEN out[i].screened /\ Verdict(i, out[i].passed)'
          ELSE ~out[i].screened /\ out[i].passed
    BY <1>frame, <2>1 DEF Inv, Answered, Verdict
  <2> QED BY <1>8, <1>frame, <2>2 DEF Answered
<1>20. Screened' = Screened /\ Screened \in Nat /\ calls \in Nat
  BY <1>1, <1>2, <1>frame, CountNext DEF Screened, Before, Types
<1>21. Cost'
  <2>1. calls + 2 * (Len(pending) - Len(verdicts)) - Len(todo) < 2 * Screened /\ Len(pending) <= Screened
    BY DEF Inv, Cost
  <2>2. pc' = "judge" =>
          calls' + 2 * (Len(pending) - Len(verdicts')) - Len(todo') < 2 * Screened
    BY <1>2, <1>4, <1>length, <1>7, <1>20, <1>answer, <2>1
  <2>3. pc' = "yield" => calls' < 2 * Screened
    BY <1>2, <1>3, <1>20, <1>answer, <2>1
  <2> QED BY <1>20, <1>answer, <1>frame, <2>1, <2>2, <2>3 DEF Cost
<1>22. Paid'
  <2>1. Screened - Len(pending) <= calls * ChunkSize
    BY DEF Inv, Paid, Unasked
  <2>2. calls' * ChunkSize = calls * ChunkSize + ChunkSize /\ calls * ChunkSize \in Nat
    BY <1>2, <1>20, <1>answer
  <2>3. Len(pending) <= ChunkSize
    BY <1>1 DEF Types
  <2>4. Screened - Unasked' <= calls' * ChunkSize
    <3>1. Unasked' \in {0, Len(pending)}
      BY <1>frame DEF Unasked
    <3> QED BY <1>2, <1>20, <2>1, <2>2, <2>3, <3>1
  <2> QED BY <1>20, <2>4 DEF Paid
<1>23. Depth'
  <2>1. ASSUME NEW i \in DOMAIN todo', NEW d \in 1..Len(input),
               todo'[i][1] <= d, d < End(todo'[i])
        PROVE  /\ sent'[d] >= 1 => 2 ^ (sent'[d] - 1) < ChunkSize
               /\ 2 ^ sent'[d] * (Len(todo'[i]) - 1) < ChunkSize
    <3>1. i + 1 \in DOMAIN todo /\ todo'[i] = todo[i + 1] /\ 1 \in DOMAIN todo /\ 1 < i + 1
      BY <1>2, <1>7, SMTT(30)
    <3>2. End(span) <= todo'[i][1]
      BY <1>first, <3>1 DEF Inv, Spans
    <3>3. ~(d < End(span))
      <4>1. End(span) \in Int /\ todo'[i][1] \in Int
        <5>1. todo[i + 1] \in Seq(Docs) /\ todo[i + 1] # << >>
          BY <1>1, <1>2, <3>1, Facts DEF Inv, Spans
        <5> QED BY <1>4, <3>1, <5>1 DEF Docs
      <4> QED BY <2>1, <3>2, <4>1
    <3>4. sent'[d] = sent[d]
      BY <1>2, <1>8, <3>3
    <3> QED BY <2>1, <3>1, <3>4 DEF Inv, Depth
  <2> QED BY <1>8, <1>frame, <2>1 DEF Depth, End
<1> QED BY <1>12, <1>14, <1>16, <1>17, <1>18, <1>19, <1>21, <1>22, <1>23 DEF Inv
\* A misaligned one: the halves take the place of the span.
Halved ==
  /\ Len(todo[1]) > 1 /\ calls' = calls + 1 /\ sent' = Sent(Head(todo))
  /\ todo' = Halves(todo[1]) \o Tail(todo)
  /\ UNCHANGED <<input, next, pending, verdicts, out, after, pc, said>>

LEMMA HalvedStep ==
  ASSUME Inv, pc = "judge", Halved
  PROVE  Inv'
<1> DEFINE span == todo[1]
<1>1. Types
  BY DEF Inv
<1>2. /\ Len(input) \in Nat /\ DOMAIN input = 1..Len(input) /\ next \in Nat /\ next >= 1
      /\ Len(pending) \in Nat /\ ChunkSize \in Nat /\ Len(verdicts) \in Nat
      /\ Len(todo) \in Nat /\ DOMAIN todo = 1..Len(todo)
  BY <1>1, Facts
<1>3. /\ Len(todo) >= 1 /\ span \in Seq(Docs) /\ span # << >> /\ Contiguous(span)
      /\ span[1] = next - Len(pending) + Len(verdicts) /\ End(span) <= next
      /\ Len(todo) <= Len(pending) - Len(verdicts)
      /\ Len(out) + Len(pending) = next - 1
  BY Asked
<1>4. /\ Len(span) \in Nat /\ Len(span) > 1 /\ span[1] \in Nat /\ End(span) = span[1] + Len(span)
  BY <1>3 DEF End, Docs, Halved
<1>frame. /\ UNCHANGED <<input, next, pending, verdicts, out, after, pc, said>>
          /\ calls' = calls + 1 /\ sent' = Sent(Head(todo))
  BY DEF Halved
<1>5. PICK first \in Seq(Docs), second \in Seq(Docs) :
        /\ Halves(span) = <<first, second>> /\ first # << >> /\ second # << >>
        /\ Contiguous(first) /\ Contiguous(second)
        /\ first[1] = span[1] /\ End(first) = second[1] /\ End(second) = End(span)
        /\ 2 * Len(first) <= Len(span) + 1 /\ 2 * Len(second) <= Len(span) + 1
  BY <1>3, <1>4, HalvesMeet
<1>6. /\ Len(first) \in Nat /\ Len(first) >= 1 /\ first[1] \in Nat /\ End(first) = first[1] + Len(first)
      /\ Len(second) \in Nat /\ Len(second) >= 1 /\ second[1] \in Nat /\ End(second) = second[1] + Len(second)
  BY <1>5, SMTT(30) DEF End, Docs
<1>7. /\ todo' \in Seq(Seq(Docs)) /\ Len(todo') = Len(todo) + 1 /\ DOMAIN todo' = 1..(Len(todo) + 1)
      /\ todo'[1] = first /\ todo'[2] = second
      /\ \A i \in 3..(Len(todo) + 1) : todo'[i] = todo[i - 1]
  <2> DEFINE S == Seq(Docs)
             a == <<first, second>>
             b == Tail(todo)
  <2>1. /\ a \in Seq(S) /\ Len(a) = 2 /\ a[1] = first /\ a[2] = second
    BY <1>5
  <2>2. todo \in Seq(S) /\ todo # << >> /\ todo' = a \o b
    BY <1>1, <1>2, <1>3, <1>5 DEF Types, Halved
  <2> HIDE DEF S, a
  <2>3. b \in Seq(S) /\ Len(b) = Len(todo) - 1 /\ \A k \in 1..(Len(todo) - 1) : b[k] = todo[k + 1]
    BY <2>2, Rest
  <2> HIDE DEF b
  <2>4. /\ a \o b \in Seq(S) /\ Len(a \o b) = Len(a) + Len(b)
        /\ DOMAIN (a \o b) = 1..(Len(a) + Len(b))
        /\ \A k \in 1..Len(a) : (a \o b)[k] = a[k]
        /\ \A k \in 1..Len(b) : (a \o b)[Len(a) + k] = b[k]
    <3>1. a \in Seq(S) /\ b \in Seq(S)
      BY <2>1, <2>3
    <3>2. ASSUME NEW B, a \in Seq(B), b \in Seq(B)
          PROVE  /\ a \o b \in Seq(B) /\ Len(a \o b) = Len(a) + Len(b)
                 /\ DOMAIN (a \o b) = 1..(Len(a) + Len(b))
                 /\ \A k \in 1..Len(a) : (a \o b)[k] = a[k]
                 /\ \A k \in 1..Len(b) : (a \o b)[Len(a) + k] = b[k]
      BY <3>2, Joined
    <3> QED BY <3>1, <3>2, Zenon
  <2>5. ASSUME NEW i \in 3..(Len(todo) + 1) PROVE todo'[i] = todo[i - 1]
    <3>1. i - 2 \in 1..Len(b) /\ 2 + (i - 2) = i /\ (i - 2) + 1 = i - 1 /\ i - 2 \in 1..(Len(todo) - 1)
      BY <1>2, <2>3
    <3>2. todo'[2 + (i - 2)] = b[i - 2] /\ b[i - 2] = todo[(i - 2) + 1]
      BY <2>1, <2>2, <2>3, <2>4, <3>1
    <3> QED BY <3>1, <3>2
  <2>6. Len(todo') = Len(todo) + 1 /\ DOMAIN todo' = 1..(Len(todo) + 1) /\ todo' \in Seq(S)
    BY <1>2, <2>1, <2>2, <2>3, <2>4
  <2>7. todo'[1] = first /\ todo'[2] = second
    BY <2>1, <2>2, <2>4
  <2> QED BY <2>5, <2>6, <2>7 DEF S
<1>shift. /\ DOMAIN todo' = 1..(Len(todo) + 1) /\ Len(todo') = Len(todo) + 1
          /\ \A j \in DOMAIN todo' :
               3 <= j => j - 1 \in DOMAIN todo /\ todo'[j] = todo[j - 1] /\ 1 < j - 1
  <2>1. ASSUME NEW j \in 1..(Len(todo) + 1), 3 <= j
        PROVE  j \in 3..(Len(todo) + 1) /\ j - 1 \in DOMAIN todo /\ 1 < j - 1
    BY <1>2, <2>1
  <2> QED BY <1>7, <2>1
<1>first. span = todo[1]
  OBVIOUS
<1> HIDE DEF span
<1>8. /\ sent' \in [DOMAIN input -> Nat]
      /\ \A d \in DOMAIN input :
           /\ sent[d] \in Nat /\ d \in Nat
           /\ sent'[d] = IF span[1] <= d /\ d < End(span) THEN sent[d] + 1 ELSE sent[d]
           /\ ~NeedsScreening(input[d]) => sent'[d] = 0
           /\ next <= d => sent'[d] = 0
           /\ sent'[d] >= 2 => 2 ^ (sent'[d] - 2) < ChunkSize
  BY <1>frame, <1>first, Counted
<1>9. Types'
  <2>1. calls' \in Nat /\ sent' \in [DOMAIN input' -> Nat]
    BY <1>1, <1>8, <1>frame DEF Types
  <2> QED BY <1>1, <1>7, <1>frame, <2>1 DEF Types
<1>10. Control'
  <2>1. todo' # << >>
    BY <1>2, <1>7
  <2> QED BY <1>frame, <2>1 DEF Inv, Control, Fits
<1>11. Queued' /\ Progress' /\ Judged' /\ Unsent' /\ Answered'
  <2>1. Queued' /\ Progress' /\ Judged'
    BY <1>frame DEF Inv, Queued, Progress, Judged, Waiting, Verdict
  <2>2. Unsent'
    BY <1>8, <1>frame DEF Unsent
  <2>3. Answered'
    BY <1>8, <1>frame DEF Inv, Answered, Verdict
  <2> QED BY <2>1, <2>2, <2>3
<1>12. ASSUME NEW i \in DOMAIN todo
       PROVE  /\ todo[i] # << >> /\ Contiguous(todo[i])
              /\ End(todo[i]) + Len(todo) - i <= next
              /\ i < Len(todo) => todo[i + 1][1] = End(todo[i])
              /\ \A j \in DOMAIN todo : i < j => End(todo[i]) <= todo[j][1]
              /\ todo[i][1] \in Nat /\ End(todo[i]) \in Nat
  <2>1. todo[i] \in Seq(Docs) /\ todo[i] # << >>
    BY <1>1, <1>2, <1>12, Facts DEF Inv, Spans
  <2>2. todo[i][1] \in Nat /\ End(todo[i]) \in Nat
    BY <2>1 DEF End, Docs
  <2> QED BY <2>1, <2>2 DEF Inv, Spans
<1>13. /\ End(span) + Len(todo) - 1 <= next
       /\ 1 < Len(todo) => todo[2][1] = End(span)
       /\ \A j \in DOMAIN todo : 1 < j => End(span) <= todo[j][1]
       /\ End(todo[Len(todo)]) = next
  <2>1. 1 \in DOMAIN todo /\ todo # << >>
    BY <1>2, <1>3
  <2>2. End(todo[Len(todo)]) = next
    BY <2>1 DEF Inv, Spans
  <2>3. 1 < Len(todo) => todo[1 + 1][1] = End(span)
    BY <1>12, <1>first, <2>1
  <2>4. /\ End(span) + Len(todo) - 1 <= next
        /\ \A j \in DOMAIN todo : 1 < j => End(span) <= todo[j][1]
    BY <1>12, <1>first, <2>1, Zenon
  <2> QED BY <2>2, <2>3, <2>4
<1>14. Spans'
  <2>1. ASSUME NEW i \in DOMAIN todo'
        PROVE  /\ todo'[i] # << >> /\ Contiguous(todo'[i])
               /\ End(todo'[i]) + Len(todo') - i <= next
               /\ i < Len(todo') => todo'[i + 1][1] = End(todo'[i])
               /\ \A j \in DOMAIN todo' : i < j => End(todo'[i]) <= todo'[j][1]
    <3>1. i \in Nat
      BY <1>2, <1>shift
    <3>2. CASE i = 1
      <4>1. todo'[i] = first /\ todo'[i + 1] = second
        BY <1>7, <3>2
      <4>2. End(first) + Len(todo') - i <= next
        <5>1. End(first) <= End(span) - 1 /\ End(span) + Len(todo) - 1 <= next
          BY <1>4, <1>5, <1>6, <1>13
        <5> QED BY <1>2, <1>4, <1>6, <1>shift, <3>2, <5>1, SMTT(30)
      <4>3. ASSUME NEW j \in DOMAIN todo', i < j PROVE End(first) <= todo'[j][1]
        <5>1. CASE j = 2
          <6>1. todo'[2] = second /\ End(first) = second[1] /\ second[1] \in Nat
            BY <1>5, <1>6, <1>7
          <6> QED BY <5>1, <6>1
        <5>2. CASE 3 <= j
          <6>1. End(span) <= todo[j - 1][1] /\ todo'[j] = todo[j - 1] /\ todo[j - 1][1] \in Nat
            BY <1>12, <1>13, <1>shift, <5>2
          <6>2. End(first) <= End(span)
            BY <1>5, <1>6
          <6> QED BY <1>4, <1>6, <6>1, <6>2
        <5> QED BY <1>2, <1>7, <3>2, <4>3, <5>1, <5>2
      <4> QED BY <1>5, <4>1, <4>2, <4>3
    <3>3. CASE i = 2
      <4>1. todo'[i] = second /\ End(second) = End(span)
        BY <1>5, <1>7, <3>3
      <4>2. End(second) + Len(todo') - i <= next
        BY <1>2, <1>4, <1>shift, <1>13, <3>3, <4>1
      <4>3. ASSUME NEW j \in DOMAIN todo', i < j PROVE End(second) <= todo'[j][1]
        <5>1. 3 <= j
          BY <1>2, <1>shift, <3>3, <4>3
        <5> QED BY <1>13, <1>shift, <4>1, <5>1
      <4>4. ASSUME i < Len(todo') PROVE todo'[i + 1][1] = End(second)
        <5>1. 3 \in DOMAIN todo' /\ 3 = i + 1 /\ 3 - 1 = 2 /\ 1 < Len(todo)
          BY <1>2, <1>shift, <3>3, <4>4
        <5>2. todo'[i + 1] = todo[2]
          BY <1>shift, <5>1
        <5> QED BY <1>13, <4>1, <5>1, <5>2
      <4> QED BY <1>5, <4>1, <4>2, <4>3, <4>4
    <3>4. CASE 3 <= i
      <4>1. i - 1 \in DOMAIN todo /\ todo'[i] = todo[i - 1] /\ i \in Nat
        BY <1>shift, <3>1, <3>4
      <4>2. End(todo'[i]) + Len(todo') - i <= next
        <5>1. End(todo[i - 1]) + Len(todo) - (i - 1) <= next /\ End(todo[i - 1]) \in Nat
          BY <1>12, <4>1
        <5> QED BY <1>2, <1>shift, <4>1, <5>1
      <4>3. ASSUME NEW j \in DOMAIN todo', i < j PROVE End(todo'[i]) <= todo'[j][1]
        <5>1. 3 <= j /\ i - 1 < j - 1
          BY <1>2, <1>shift, <3>4, <4>1, <4>3
        <5> QED BY <1>12, <1>shift, <4>1, <5>1
      <4>4. ASSUME i < Len(todo') PROVE todo'[i + 1][1] = End(todo'[i])
        <5>1. todo'[i + 1] = todo[(i - 1) + 1] /\ i - 1 < Len(todo)
          <6>1. i + 1 \in DOMAIN todo' /\ 3 <= i + 1 /\ (i + 1) - 1 = (i - 1) + 1 /\ i - 1 < Len(todo)
            BY <1>2, <1>shift, <3>4, <4>1, <4>4
          <6> QED BY <1>shift, <6>1
        <5> QED BY <1>12, <4>1, <5>1
      <4> QED BY <1>12, <4>1, <4>2, <4>3, <4>4
    <3>5. i = 1 \/ i = 2 \/ 3 <= i
      BY <1>2, <1>shift
    <3> QED BY <3>2, <3>3, <3>4, <3>5
  <2>2. /\ todo'[1][1] = next - Len(pending) + Len(verdicts)
        /\ End(todo'[Len(todo')]) = next
    <3>1. todo'[1][1] = span[1]
      BY <1>5, <1>7
    <3>2. CASE Len(todo) = 1
      BY <1>3, <1>5, <1>7, <1>13, <1>first, <3>1, <3>2
    <3>3. CASE Len(todo) >= 2
      <4>1. todo'[Len(todo')] = todo[Len(todo)]
        <5>1. Len(todo) + 1 \in DOMAIN todo' /\ 3 <= Len(todo) + 1 /\ (Len(todo) + 1) - 1 = Len(todo)
          BY <1>2, <1>shift, <3>3
        <5> QED BY <1>shift, <5>1
      <4> QED BY <1>3, <1>13, <3>1, <4>1
    <3> QED BY <1>2, <1>3, <3>2, <3>3
  <2> QED BY <1>frame, <2>1, <2>2 DEF Spans, Contiguous, End
<1>15. Screened' = Screened /\ Screened \in Nat /\ calls \in Nat
  BY <1>1, <1>2, <1>frame, CountNext DEF Screened, Before, Types
<1>16. Cost' /\ Paid'
  <2>1. calls + 2 * (Len(pending) - Len(verdicts)) - Len(todo) < 2 * Screened /\ Len(pending) <= Screened
    BY DEF Inv, Cost
  <2>2. calls' + 2 * (Len(pending) - Len(verdicts)) - Len(todo') < 2 * Screened
    BY <1>2, <1>7, <1>15, <1>frame, <2>1
  <2>3. Cost'
    BY <1>15, <1>frame, <2>1, <2>2 DEF Cost
  <2>4. Screened - Len(pending) <= calls * ChunkSize
    BY DEF Inv, Paid, Unasked
  <2>5. calls' * ChunkSize = calls * ChunkSize + ChunkSize /\ calls * ChunkSize \in Nat
    BY <1>2, <1>15, <1>frame
  <2>6. Screened - Len(pending) <= calls' * ChunkSize
    BY <1>2, <1>15, <2>4, <2>5
  <2> QED BY <1>15, <1>frame, <2>3, <2>6 DEF Paid, Unasked
<1>17. Depth'
  <2>1. ASSUME NEW i \in DOMAIN todo', NEW d \in 1..Len(input),
               todo'[i][1] <= d, d < End(todo'[i])
        PROVE  /\ sent'[d] >= 1 => 2 ^ (sent'[d] - 1) < ChunkSize
               /\ 2 ^ sent'[d] * (Len(todo'[i]) - 1) < ChunkSize
    <3>1. CASE i \in {1, 2}
      <4>1. span[1] <= d /\ d < End(span)
        <5>1. CASE i = 1
          <6>1. first[1] <= d /\ d < End(first)
            BY <1>7, <2>1, <5>1
          <6> QED BY <1>4, <1>5, <1>6, <6>1
        <5>2. CASE i = 2
          <6>1. second[1] <= d /\ d < End(second)
            BY <1>7, <2>1, <5>2
          <6> QED BY <1>4, <1>5, <1>6, <6>1
        <5> QED BY <3>1, <5>1, <5>2
      <4>2. 2 ^ sent[d] * (Len(span) - 1) < ChunkSize
        <5>1. 1 \in DOMAIN todo
          BY <1>2, <1>3
        <5> QED BY <1>first, <4>1, <5>1 DEF Inv, Depth
      <4>3. Len(todo'[i]) \in Nat /\ Len(todo'[i]) >= 1 /\ 2 * Len(todo'[i]) <= Len(span) + 1
        BY <1>5, <1>6, <1>7, <3>1
      <4>4. sent[d] \in Nat /\ sent'[d] = sent[d] + 1 /\ sent'[d] - 1 = sent[d]
        BY <1>2, <1>8, <4>1, SMTT(30)
      <4>5. 2 ^ sent[d] < ChunkSize /\ 2 ^ (sent[d] + 1) * (Len(todo'[i]) - 1) < ChunkSize
        BY <1>2, <1>4, <4>2, <4>3, <4>4, Shrink
      <4> QED BY <4>4, <4>5
    <3>2. CASE 3 <= i
      <4>1. i - 1 \in DOMAIN todo /\ todo'[i] = todo[i - 1] /\ 1 < i - 1
        BY <1>shift, <3>2
      <4>2. End(span) <= todo'[i][1] /\ todo'[i][1] \in Nat
        BY <1>12, <1>13, <4>1
      <4>3. sent'[d] = sent[d]
        <5>1. ~(d < End(span)) /\ d \in DOMAIN input
          BY <1>2, <1>4, <2>1, <4>2
        <5> QED BY <1>8, <5>1
      <4> QED BY <2>1, <4>1, <4>3 DEF Inv, Depth
    <3>3. i \in {1, 2} \/ 3 <= i
      BY <1>2, <1>shift
    <3> QED BY <3>1, <3>2, <3>3
  <2> QED BY <1>8, <1>frame, <2>1 DEF Depth, End
<1> QED BY <1>9, <1>10, <1>11, <1>14, <1>16, <1>17 DEF Inv

LEMMA AnswerStep == ASSUME Inv, Answer PROVE Inv'
<1> DEFINE span == Head(todo)
<1>1. pc = "judge" /\ span = todo[1] /\ UNCHANGED <<input, next, pending, out, after>>
  BY Asked DEF Answer
<1>2. PICK text \in Answers :
        LET parsed == ParseVerdicts(text, Len(span)) IN
        /\ calls' = calls + 1 /\ sent' = Sent(span)
        /\ \/ /\ parsed.error = "none"
              /\ verdicts' = verdicts \o parsed.verdicts
              /\ todo' = Tail(todo)
              /\ pc' = IF Len(todo) = 1 THEN "yield" ELSE "judge"
              /\ said' = [d \in DOMAIN said |-> Heard(text, span, d)]
           \/ /\ parsed.error = "misaligned" /\ Len(span) > 1
              /\ todo' = Halves(span) \o Tail(todo)
              /\ UNCHANGED <<verdicts, pc, said>>
           \/ pc' = "raised" /\ UNCHANGED <<verdicts, todo, said>>
  BY Zenon DEF Answer
<1> DEFINE parsed == ParseVerdicts(text, Len(span))
<1>3. CASE /\ parsed.error = "none" /\ verdicts' = verdicts \o parsed.verdicts /\ todo' = Tail(todo)
           /\ pc' = IF Len(todo) = 1 THEN "yield" ELSE "judge"
           /\ said' = [d \in DOMAIN said |-> Heard(text, span, d)]
  <2>1. Accepted(text)
    BY <1>1, <1>2, <1>3 DEF Accepted, Aligned
  <2> QED BY <1>1, <2>1, AlignedStep
<1>4. CASE Len(span) > 1 /\ todo' = Halves(span) \o Tail(todo) /\ UNCHANGED <<verdicts, pc, said>>
  <2>1. Halved
    BY <1>1, <1>2, <1>4 DEF Halved
  <2> QED BY <1>1, <2>1, HalvedStep
<1>5. CASE pc' = "raised" /\ UNCHANGED <<verdicts, todo, said>>
  <2>1. sent' = Sent(Head(todo)) /\ calls' \in {calls, calls + 1}
    BY <1>2
  <2> QED BY <1>1, <1>5, <2>1, Raised
<1> QED BY <1>2, <1>3, <1>4, <1>5
LEMMA InvNext == Inv /\ [Next]_vars => Inv'
<1> SUFFICES ASSUME Inv, [Next]_vars PROVE Inv'
  OBVIOUS
<1>1. CASE Gather
  BY <1>1, GatherStep
<1>2. CASE Bypass
  BY <1>2, BypassStep
<1>3. CASE Pass
  BY <1>3, PassStep
<1>4. CASE Drain
  BY <1>4, DrainStep
<1>5. CASE Answer
  BY <1>5, AnswerStep
<1>6. CASE ModelError
  BY <1>6, ModelErrorStep
<1>7. CASE Yield
  BY <1>7, YieldStep
<1>8. CASE UNCHANGED vars
  <2>1. Types' /\ Control' /\ Queued'
    BY <1>8 DEF vars, Inv, Types, Control, Fits, Queued
  <2>2. Progress' /\ Spans' /\ Unsent'
    BY <1>8 DEF vars, Inv, Progress, Waiting, Spans, Contiguous, End, Unsent
  <2>3. Judged' /\ Answered'
    BY <1>8 DEF vars, Inv, Judged, Answered, Waiting, Verdict
  <2>4. Cost' /\ Paid' /\ Depth'
    BY <1>8 DEF vars, Inv, Cost, Paid, Unasked, Depth, End, Screened, Before
  <2> QED BY <2>1, <2>2, <2>3, <2>4 DEF Inv
<1> QED BY <1>1, <1>2, <1>3, <1>4, <1>5, <1>6, <1>7, <1>8 DEF Next

LEMMA InvAlways == Spec => []Inv
BY InvInit, InvNext, PTL DEF Spec
-----------------------------------------------------------------------------
(***************************************************************************)
(* What it promises.                                                       *)
(***************************************************************************)
LEMMA InvTypeOK == Inv => TypeOK
<1> SUFFICES ASSUME Inv PROVE TypeOK
  OBVIOUS
<1>1. Types
  BY DEF Inv
<1>2. /\ Len(input) \in Nat /\ DOMAIN input = 1..Len(input) /\ next \in Nat
      /\ Len(pending) \in Nat /\ DOMAIN pending = 1..Len(pending) /\ Len(verdicts) \in Nat
      /\ Len(todo) \in Nat /\ DOMAIN todo = 1..Len(todo) /\ Len(out) \in Nat /\ DOMAIN out = 1..Len(out)
      /\ next <= Len(input) + 1
  BY <1>1, Facts DEF Types
<1>3. pending \in Seq(DOMAIN input)
  <2>1. ASSUME NEW k \in 1..Len(pending) PROVE pending[k] \in DOMAIN input
    <3>1. pending[k] \in Docs
      BY <1>1 DEF Types
    <3>2. pending[k] = next - 1 - Len(pending) + k
      BY <1>2 DEF Inv, Queued
    <3> QED BY <1>2, <3>1, <3>2 DEF Docs
  <2>2. pending \in [1..Len(pending) -> DOMAIN input]
    BY <1>1, <1>2, <2>1 DEF Types
  <2> QED BY <1>2, <2>2, FunctionIsSeq
<1>4. ASSUME NEW i \in DOMAIN todo
      PROVE  /\ todo[i] \in Seq(Docs) /\ todo[i] # << >> /\ Contiguous(todo[i]) /\ Len(todo[i]) \in Nat
             /\ todo[i][1] \in Nat /\ todo[i][1] >= 1 /\ Len(todo[i]) >= 1
             /\ todo[i][1] + Len(todo[i]) <= next
  <2>1. todo[i] \in Seq(Docs) /\ todo[i] # << >> /\ Contiguous(todo[i]) /\ End(todo[i]) + Len(todo) - i <= next
    BY <1>1, <1>2, Facts DEF Inv, Spans
  <2>2. Len(todo[i]) \in Nat /\ todo[i][1] \in Nat /\ todo[i][1] >= 1 /\ Len(todo[i]) >= 1
    BY <2>1 DEF Docs
  <2> QED BY <1>2, <2>1, <2>2 DEF End
<1>5. ASSUME NEW i \in DOMAIN todo PROVE todo[i] \in Seq(DOMAIN input) /\ todo[i] # << >>
  <2> DEFINE span == todo[i]
  <2>1. ASSUME NEW k \in 1..Len(span) PROVE span[k] \in DOMAIN input
    <3>1. span[k] = span[1] + k - 1
      BY <1>4 DEF Contiguous
    <3> QED BY <1>2, <1>4, <3>1, SMTT(30)
  <2>2. span \in [1..Len(span) -> DOMAIN input]
    <3>1. span \in [1..Len(span) -> Docs]
      BY <1>4
    <3> QED BY <2>1, <3>1
  <2> QED BY <1>4, <2>2, FunctionIsSeq
<1>6. Len(verdicts) <= Len(pending)
  <2>1. CASE pc \in {"judge", "raised"}
    <3>1. 1 \in DOMAIN todo /\ todo[1][1] = next - Len(pending) + Len(verdicts)
      BY <1>1, <1>2, <2>1 DEF Inv, Control, Spans, Types
    <3> QED BY <1>2, <1>4, <3>1
  <2>2. CASE pc = "yield"
    BY <2>2 DEF Inv, Control
  <2>3. CASE pc \in {"loop", "pass", "ended"}
    <3>1. verdicts = << >>
      BY <2>3 DEF Inv, Control
    <3> QED BY <1>2, <3>1
  <2> QED BY <1>1, <2>1, <2>2, <2>3 DEF Types
<1>7. ASSUME NEW i \in DOMAIN out
      PROVE  out[i].document \in DOMAIN input /\ out[i].passed \in BOOLEAN /\ out[i].screened \in BOOLEAN
  <2>1. out[i] \in Outcomes /\ out[i].document = i
    BY <1>1, <1>2 DEF Types, Inv, Progress
  <2>2. Waiting \in Nat
    BY <1>2 DEF Waiting
  <2>3. i \in DOMAIN input
    BY <1>2, <2>2 DEF Inv, Progress
  <2> QED BY <2>1, <2>3 DEF Outcomes
<1> QED BY <1>1, <1>3, <1>5, <1>6, <1>7 DEF Types, TypeOK

LEMMA InvOnePerInput == Inv => OnePerInput
<1> SUFFICES ASSUME Inv PROVE OnePerInput
  OBVIOUS
<1>1. \A i \in DOMAIN out : out[i].document = i
  BY DEF Inv, Progress
<1>2. ASSUME pc = "ended" PROVE Len(out) = Len(input)
  <2>1. next = Len(input) + 1 /\ pending = << >>
    BY <1>2 DEF Inv, Control, Fits
  <2>2. Len(out) + 0 = next - 1
    BY <1>2, <2>1 DEF Inv, Progress, Waiting
  <2>3. Len(out) \in Nat /\ Len(input) \in Nat
    BY Facts DEF Inv
  <2> QED BY <2>1, <2>2, <2>3
<1> QED BY <1>1, <1>2 DEF OnePerInput

LEMMA InvVerdictsAligned == Inv => VerdictsAligned
<1> SUFFICES ASSUME Inv, NEW i \in DOMAIN out
             PROVE  IF out[i].screened
                    THEN out[i].passed = (said[i] = "YES") /\ said[i] # "nothing"
                    ELSE out[i].passed /\ sent[i] = 0
  BY DEF VerdictsAligned, Inv, Progress
<1>1. i \in DOMAIN input
  <2>1. out[i].document \in DOMAIN input /\ out[i].document = i
    BY InvTypeOK DEF TypeOK, Inv, Progress
  <2> QED BY <2>1
<1>2. IF NeedsScreening(input[i])
      THEN out[i].screened /\ said[i] # "nothing" /\ out[i].passed = (said[i] = "YES")
      ELSE ~out[i].screened /\ out[i].passed
  BY Zenon DEF Inv, Answered, Verdict
<1>3. ~NeedsScreening(input[i]) => sent[i] = 0
  BY <1>1 DEF Inv, Answered
<1> QED BY <1>2, <1>3, Zenon

LEMMA InvRequestsBounded == Inv => RequestsBounded
<1> SUFFICES ASSUME Inv PROVE RequestsBounded
  OBVIOUS
<1>1. Types /\ calls \in Nat
  BY DEF Inv, Types
<1>2. Len(pending) \in Nat /\ Screened \in Nat
  BY <1>1, Facts, CountNext DEF Screened
<1>3. ASSUME calls > 0 PROVE calls < 2 * Screened
  <2>1. CASE pc \in {"loop", "pass", "ended"}
    <3>1. calls < 2 * (Screened - Len(pending))
      BY <1>3, <2>1 DEF Inv, Cost
    <3> QED BY <1>1, <1>2, <3>1
  <2>2. CASE pc = "judge"
    <3>1. calls + 2 * (Len(pending) - Len(verdicts)) - Len(todo) < 2 * Screened
      BY <2>2 DEF Inv, Cost
    <3>2. Len(todo) >= 1 /\ Len(todo) <= Len(pending) - Len(verdicts) /\ Len(todo) \in Nat /\ Len(verdicts) \in Nat
      BY <1>1, <2>2, Asked, Facts
    <3> QED BY <1>1, <1>2, <3>1, <3>2
  <2>3. CASE pc \in {"yield", "raised"}
    BY <1>3, <2>3 DEF Inv, Cost
  <2> QED BY <1>1, <2>1, <2>2, <2>3 DEF Types
<1>4. \A d \in DOMAIN input : sent[d] >= 2 => 2 ^ (sent[d] - 2) < ChunkSize
  BY DEF Inv, Depth
<1> QED BY <1>3, <1>4 DEF RequestsBounded, Screened, Before

\* Rounding up never exceeds a number of chunks that holds them all.
LEMMA RoundedUp ==
  ASSUME NEW titles \in Nat, NEW n \in Nat, n > 0, titles <= n * ChunkSize
  PROVE  Chunks(titles) <= n
<1>1. ChunkSize \in Nat /\ ChunkSize >= 1
  BY TriageConstants
<1> DEFINE c == ChunkSize
           x == titles + c - 1
           q == x \div c
<1>2. x \in Nat /\ c \in Nat /\ c >= 1
  BY <1>1
<1> HIDE DEF c
<1>3. q \in Int /\ q * c <= x
  <2> HIDE DEF x
  <2> QED BY <1>2
<1>4. x < (n + 1) * c
  <2>1. (n + 1) * c = n * c + c /\ n * c \in Nat
    BY <1>2
  <2>2. titles <= n * c
    BY DEF c
  <2> QED BY <1>2, <2>1, <2>2
<1> HIDE DEF q, x
<1>5. q <= n
  <2> SUFFICES ASSUME q >= n + 1 PROVE FALSE
    BY <1>3
  <2>1. q * c >= (n + 1) * c
    <3>1. q - (n + 1) \in Nat /\ q = (n + 1) + (q - (n + 1))
      BY <1>3
    <3> DEFINE r == q - (n + 1)
    <3>2. r \in Nat /\ q = (n + 1) + r
      BY <3>1
    <3> HIDE DEF r
    <3>3. q * c = (n + 1) * c + r * c /\ r * c >= 0
      BY <1>2, <3>2
    <3>4. (n + 1) * c \in Int /\ r * c \in Int
      BY <1>2, <3>2
    <3> QED BY <3>3, <3>4
  <2>2. q * c \in Int /\ (n + 1) * c \in Int
    BY <1>2, <1>3
  <2> QED BY <1>2, <1>3, <1>4, <2>1, <2>2
<1> QED BY <1>5 DEF Chunks, q, x, c

LEMMA InvEstimate == Inv => EstimateIsLowerBound
<1> DEFINE titles == {d \in DOMAIN input : NeedsScreening(input[d])}
<1> SUFFICES ASSUME Inv, pc = "ended"
             PROVE  /\ titles # {} => Estimate <= calls
                    /\ titles = {} => Estimate = 1 /\ calls = 0
  BY DEF EstimateIsLowerBound
<1>1. next = Len(input) + 1 /\ pending = << >>
  BY DEF Inv, Control, Fits
<1>2. Types /\ Len(input) \in Nat /\ DOMAIN input = 1..Len(input) /\ calls \in Nat /\ next \in Nat /\ next >= 1
  BY Facts DEF Inv, Types
<1>3. Estimate = Chunks(Screened) /\ Screened = Cardinality(titles)
  <2>1. next - 1 = Len(input)
    BY <1>1, <1>2
  <2> QED BY <1>2, <2>1 DEF Estimate, Screened, Before
<1>4. Screened \in Nat
  BY <1>2, CountNext DEF Screened
<1>5. Screened <= calls * ChunkSize
  <2>1. Screened - 0 <= calls * ChunkSize
    BY <1>1 DEF Inv, Paid, Unasked
  <2> QED BY <1>4, <2>1
<1>6. ChunkSize \in Nat /\ IsFiniteSet(titles)
  <2>1. IsFiniteSet(1..Len(input)) /\ titles \subseteq 1..Len(input)
    BY <1>2, FS_Interval
  <2> QED BY <2>1, TriageConstants, FS_Subset
<1>7. CASE titles # {}
  <2>1. Screened # 0
    BY <1>3, <1>6, <1>7, FS_EmptySet
  <2>2. calls > 0
    <3> SUFFICES ASSUME calls = 0 PROVE FALSE
      BY <1>2
    <3>1. calls * ChunkSize = 0
      BY <1>6
    <3> QED BY <1>4, <1>5, <2>1, <3>1
  <2> QED BY <1>2, <1>3, <1>4, <1>5, <1>7, <2>2, RoundedUp
<1>8. CASE titles = {}
  <2>1. Screened = 0
    BY <1>3, <1>8, FS_EmptySet
  <2>2. calls > 0 => calls < 2 * (Screened - Len(pending))
    BY DEF Inv, Cost
  <2>3. calls = 0
    BY <1>1, <1>2, <2>1, <2>2
  <2>4. Estimate = 1
    BY <1>3, <1>6, <2>1 DEF Chunks
  <2> QED BY <1>8, <2>3, <2>4
<1> QED BY <1>7, <1>8

(* The chunk being gathered never outgrows chunk_size, and what is asked     *)
(* about and yielded is always a candidate.                                  *)
THEOREM TypeCorrect == Spec => []TypeOK
BY InvAlways, InvTypeOK, PTL

(* `screen` yields one outcome per candidate in input order, whatever is     *)
(* halved, and a prefix of them when an exception ends it.                   *)
THEOREM OutcomesInOrder == Spec => []OnePerInput
BY InvAlways, InvOnePerInput, PTL

(* No verdict of parse_verdicts reaches another title than the one whose     *)
(* number it carried, through _judge's halves and flush's zip.               *)
THEOREM VerdictsStayAligned == Spec => []VerdictsAligned
BY InvAlways, InvVerdictsAligned, PTL

(* Halving costs fewer than two requests per title, and no title is in more  *)
(* than one request per halving of chunk_size.                               *)
THEOREM HalvingIsCheap == Spec => []RequestsBounded
BY InvAlways, InvRequestsBounded, PTL

(* A screening that ends has sent at least as many requests as               *)
(* cmd_triage_estimate prints; with nothing to screen it has sent none, and  *)
(* the estimate prints one.  (max(1, ...) of the estimate)                   *)
THEOREM EstimateIsLeast == Spec => []EstimateIsLowerBound
BY InvAlways, InvEstimate, PTL
-----------------------------------------------------------------------------
(***************************************************************************)
(* Stage two.                                                              *)
(***************************************************************************)
Responses == [truncated : BOOLEAN, text : Texts]
Answering == answers = << >> \/ \E response \in Responses : answers = <<response>>

LEMMA TextSequences ==
  ASSUME NEW text \in Texts
  PROVE  text \in Seq(Lines) /\ Len(text) \in Nat /\ DOMAIN text = 1..Len(text)
<1>1. PICK n \in 0..4 : text \in [1..n -> Lines]
  BY DEF Texts
<1> HIDE DEF Lines
<1> QED BY <1>1

\* What is read as an object is one line, with at most a fence around it.
LEMMA BodyIsObject ==
  ASSUME NEW text \in Texts
  PROVE  /\ text \in {<<"object">>, <<"fence", "object", "fence">>} => Body(text) = <<"object">>
         /\ Body(text) = <<"object">> =>
              \E n \in DOMAIN text : text[n] = "object" /\ \A k \in DOMAIN text \ {n} : text[k] \in FenceLines
<1>1. text \in Seq(Lines) /\ Len(text) \in Nat /\ DOMAIN text = 1..Len(text)
  BY TextSequences
<1>2. ASSUME text = <<"object">> PROVE Body(text) = <<"object">>
  BY <1>2 DEF Body, FenceLines
<1>3. ASSUME text = <<"fence", "object", "fence">> PROVE Body(text) = <<"object">>
  <2>1. text[1] \in FenceLines /\ text[3] \in FenceLines /\ Len(text) = 3 /\ text # << >>
    BY <1>3 DEF FenceLines
  <2>2. Body(text) = SubSeq(text, 2, 2)
    BY <2>1 DEF Body
  <2>3. SubSeq(text, 2, 2) = <<"object">>
    <3> DEFINE s == SubSeq(text, 2, 2)
    <3>1. text \in Seq(Lines) /\ Len(text) = 3 /\ text[2] = "object"
      BY <1>1, <1>3
    <3>2. s \in Seq(Lines) /\ Len(s) = 1 /\ s[1] = text[2]
      <4> HIDE DEF Lines
      <4> QED BY <3>1
    <3> HIDE DEF s
    <3>3. s = <<"object">>
      BY <3>1, <3>2
    <3> QED BY <3>3 DEF s
  <2> QED BY <2>2, <2>3
<1>4. ASSUME Body(text) = <<"object">>
      PROVE  \E n \in DOMAIN text : text[n] = "object" /\ \A k \in DOMAIN text \ {n} : text[k] \in FenceLines
  <2>1. CASE text = << >> \/ text[1] \notin FenceLines
    <3>1. text = <<"object">>
      BY <1>4, <2>1 DEF Body
    <3> QED BY <3>1
  <2>2. CASE text # << >> /\ text[1] \in FenceLines
    <3> DEFINE last == IF text[Len(text)] \in FenceLines THEN Len(text) - 1 ELSE Len(text)
               body == SubSeq(text, 2, last)
    <3>1. body = <<"object">>
      BY <1>4, <2>2 DEF Body
    <3>2. Len(text) >= 1 /\ last \in Nat /\ last <= Len(text)
      BY <1>1, <2>2
    <3>3. last = 2 /\ text[2] = "object"
      <4> HIDE DEF last, Lines
      <4>1. /\ Len(body) = IF 2 <= last THEN last - 1 ELSE 0
            /\ \A k \in 1..(last - 1) : body[k] = text[k + 1]
        BY <1>1, <3>2
      <4> HIDE DEF body
      <4>2. Len(body) = 1 /\ body[1] = "object"
        BY <3>1
      <4>3. last = 2
        <5>1. last \in Nat /\ Len(body) = (IF 2 <= last THEN last - 1 ELSE 0) /\ Len(body) = 1
          BY <3>2, <4>1, <4>2
        <5>2. 2 <= last
          BY <5>1
        <5>3. last - 1 = 1
          BY <5>1, <5>2
        <5> QED BY <5>1, <5>3
      <4>4. body[1] = text[1 + 1]
        BY <4>1, <4>3
      <4> QED BY <4>2, <4>3, <4>4
    <3>4. \A k \in DOMAIN text \ {2} : text[k] \in FenceLines
      <4>1. CASE text[Len(text)] \in FenceLines
        <5>1. last = Len(text) - 1
          BY <4>1
        <5>2. Len(text) = 3 /\ DOMAIN text = 1..3
          <6>1. Len(text) - 1 = 2 /\ Len(text) \in Nat
            BY <1>1, <3>3, <5>1
          <6>2. Len(text) = 3
            BY <6>1
          <6> QED BY <1>1, <6>2
        <5> QED BY <2>2, <4>1, <5>2
      <4>2. CASE text[Len(text)] \notin FenceLines
        <5>1. Len(text) = 2 /\ DOMAIN text = 1..2
          BY <1>1, <3>3, <4>2
        <5> QED BY <2>2, <5>1
      <4> QED BY <4>1, <4>2
    <3>5. 2 \in DOMAIN text
      BY <1>1, <3>2, <3>3
    <3> QED BY <3>3, <3>4, <3>5
  <2> QED BY <2>1, <2>2
<1> QED BY <1>2, <1>3, <1>4

LEMMA AnsweringInit == StageTwoInit => Answering
BY DEF StageTwoInit, Answering

LEMMA AnsweringNext == Answering /\ [TriageDocument]_answers => Answering'
BY DEF Answering, TriageDocument, Responses

\* The contract accepts what the schema allows, once there is a reason.
LEMMA SchemaFits ==
  ASSUME NEW payload \in Payloads, Schema(payload), payload.reason > 0
  PROVE  Contract(payload)
<1>1. payload.reason \in {0, 1, 400, 401} /\ payload.reason <= 400
  BY DEF Payloads, Schema
<1>2. payload.reason \in 1..400
  BY <1>1
<1> QED BY <1>2 DEF Schema, Contract

LEMMA AnsweringParses == Answering => DecisionsParse
<1> SUFFICES ASSUME Answering, NEW i \in DOMAIN answers, NEW payload \in Payloads
             PROVE  LET text == answers[i].text
                        outcome == Outcome(answers[i], payload)
                    IN  /\ /\ ~answers[i].truncated /\ text \in {<<"object">>, <<"fence", "object", "fence">>}
                           /\ Schema(payload) /\ payload.reason > 0
                           => outcome = "decision"
                        /\ outcome = "decision" =>
                             /\ ~answers[i].truncated
                             /\ \E n \in DOMAIN text :
                                  text[n] = "object" /\ \A k \in DOMAIN text \ {n} : text[k] \in FenceLines
  BY Zenon DEF DecisionsParse
<1>1. PICK response \in Responses : answers[i] = response
  BY DEF Answering
<1>2. response.text \in Texts /\ response.truncated \in BOOLEAN
  BY DEF Responses
<1>3. ASSUME ~response.truncated, response.text \in {<<"object">>, <<"fence", "object", "fence">>},
             Schema(payload), payload.reason > 0
      PROVE  Outcome(response, payload) = "decision"
  BY <1>2, <1>3, BodyIsObject, SchemaFits DEF Outcome, ParseDecision
<1>4. ASSUME Outcome(response, payload) = "decision"
      PROVE  ~response.truncated /\ Body(response.text) = <<"object">>
  BY <1>4 DEF Outcome, ParseDecision
<1> QED BY <1>1, <1>2, <1>3, <1>4, BodyIsObject

(* An answer that the schema of the request allows and that gives a reason   *)
(* is a decision; a fragment, or a text with anything beside its object and  *)
(* a fence, never is.  (triage_document, parse_decision, TriageDecision)     *)
THEOREM AnswersParse == StageTwo => []DecisionsParse
BY AnsweringInit, AnsweringNext, AnsweringParses, PTL DEF StageTwo
=============================================================================
