--------------------------- MODULE LabellingProofs ---------------------------
(***************************************************************************)
(* Proofs about Labelling, for any corpus, registry and number of exports: *)
(* an export that is not forced never discards a label; and, from the      *)
(* inductive invariant SampleInv, what a sample holds and what is said of  *)
(* it.                                                                     *)
(***************************************************************************)
EXTENDS Labelling, FiniteSetTheorems, FunctionTheorems, TLAPS

\* An export that is not forced began without a worksheet, and none appears
\* while it is at work; only entries of the worksheet are labelled.
NothingToLose ==
  /\ labelled \subseteq sheet
  /\ job.pc # "idle" /\ ~job.force => sheet = {}

LEMMA NothingInit == Init => NothingToLose
BY DEF Init, NothingToLose, Idle

LEMMA NothingNext == NothingToLose /\ [Next]_vars => NothingToLose'
<1> SUFFICES ASSUME NothingToLose, [Next]_vars PROVE NothingToLose'
  OBVIOUS
<1>1. CASE Ingest
  BY <1>1 DEF NothingToLose, Ingest
<1>2. CASE SyncRegistry
  BY <1>2 DEF NothingToLose, SyncRegistry
<1>3. ASSUME NEW force \in BOOLEAN, Export(force) PROVE NothingToLose'
  BY <1>3 DEF NothingToLose, Export, Idle
<1>4. CASE Select
  <2>1. PICK rows \in Rows :
          IF Sample(rows, Corpus) = {} THEN job' = Idle /\ UNCHANGED exports
          ELSE /\ job' = [job EXCEPT !.pc = "load", !.sample = Sample(rows, Corpus), !.corpus = Corpus, !.quiet = TRUE]
               /\ exports' = exports \cup {[corpus |-> Corpus, sample |-> Sample(rows, Corpus)]}
    BY <1>4 DEF Select
  <2>2. job.pc = "select" /\ UNCHANGED <<sheet, labelled>>
    BY <1>4 DEF Select
  <2>3. CASE job' = Idle
    BY <2>2, <2>3 DEF NothingToLose, Idle
  <2>4. CASE job' = [job EXCEPT !.pc = "load", !.sample = Sample(rows, Corpus), !.corpus = Corpus, !.quiet = TRUE]
    <3> DEFINE sample == Sample(rows, Corpus)
               corpus == Corpus
    <3>1. job' = [job EXCEPT !.pc = "load", !.sample = sample, !.corpus = corpus, !.quiet = TRUE]
      BY <2>4
    <3> HIDE DEF sample, corpus
    <3> QED BY <3>1, <2>2 DEF NothingToLose
  <2> QED BY <2>1, <2>3, <2>4
<1>5. CASE Load
  BY <1>5 DEF NothingToLose, Load
<1>6. CASE Report
  BY <1>6 DEF NothingToLose, Report
<1>7. CASE Write
  BY <1>7 DEF NothingToLose, Write, Idle
<1>8. CASE Label
  BY <1>8 DEF NothingToLose, Label
<1>9. CASE UNCHANGED vars
  BY <1>9 DEF NothingToLose, vars
<1> QED BY <1>1, <1>2, <1>3, <1>4, <1>5, <1>6, <1>7, <1>8, <1>9 DEF Next

LEMMA OnlyWriteDiscards ==
  NothingToLose /\ [Next]_vars => labelled \subseteq labelled' \/ job.force
<1> SUFFICES ASSUME NothingToLose, [Next]_vars PROVE labelled \subseteq labelled' \/ job.force
  OBVIOUS
<1>1. CASE Write
  BY <1>1 DEF NothingToLose, Write
<1>2. CASE Label
  BY <1>2 DEF Label
<1>3. CASE Ingest \/ SyncRegistry \/ Select \/ Load \/ Report \/ UNCHANGED vars
  BY <1>3 DEF Ingest, SyncRegistry, Select, Load, Report, vars
<1>4. CASE \E force \in BOOLEAN : Export(force)
  BY <1>4 DEF Export
<1> QED BY <1>1, <1>2, <1>3, <1>4 DEF Next

(* cmd_label_export: "Overwriting would discard labelling work, so this      *)
(* refuses by default."  The check is made once, before the sample is drawn, *)
(* and is enough at whatever point the person fills in entries.              *)
THEOREM LabelsNeverLost == Spec => LabelsKept
<1>1. NothingToLose /\ [Next]_vars => [labelled \subseteq labelled' \/ job.force]_vars
  BY OnlyWriteDiscards
<1> QED BY <1>1, NothingInit, NothingNext, PTL DEF Spec, LabelsKept
-----------------------------------------------------------------------------
(***************************************************************************)
(* Counting.                                                               *)
(***************************************************************************)
LEMMA SameCount ==
  ASSUME NEW S, NEW T, IsFiniteSet(T), NEW f \in [S -> T],
         \A x, y \in S : f[x] = f[y] => x = y,
         \A t \in T : \E x \in S : f[x] = t
  PROVE  IsFiniteSet(S) /\ Cardinality(S) = Cardinality(T)
<1>1. f \in Bijection(S, T)
  BY Fun_IsBij
<1>2. f \in Injection(S, T) /\ f \in Surjection(S, T)
  BY <1>1 DEF Bijection
<1> QED BY <1>2, FS_Injection

\* An injection between sets of one size misses nothing.
LEMMA NothingMissed ==
  ASSUME NEW S, NEW T, IsFiniteSet(T), NEW f \in [S -> T],
         \A x, y \in S : f[x] = f[y] => x = y, Cardinality(S) = Cardinality(T)
  PROVE  \A t \in T : \E x \in S : f[x] = t
<1>1. f \in Injection(S, T)
  BY Fun_IsInj
<1>2. f \in Surjection(S, T)
  BY <1>1, FS_Injection
<1> QED BY <1>2 DEF Surjection

LEMMA UpTo == ASSUME NEW n \in Nat PROVE IsFiniteSet(1..n) /\ Cardinality(1..n) = n
BY FS_Interval

(***************************************************************************)
(* The ranks of a list of candidates are 1, 2, ..., so that the generator  *)
(* takes as many documents as it takes numbers.                            *)
(***************************************************************************)
LEMMA RankType ==
  ASSUME NEW S, IsFiniteSet(S), S \subseteq Nat, NEW i \in S
  PROVE  Rank(S, i) \in 1..Cardinality(S)
<1> DEFINE upto == {j \in S : j <= i}
<1>1. IsFiniteSet(upto) /\ Cardinality(upto) <= Cardinality(S) /\ i \in upto
  BY FS_Subset
<1> HIDE DEF upto
<1>2. Cardinality(upto) \in Nat /\ Cardinality(upto) # 0 /\ Cardinality(S) \in Nat
  BY <1>1, FS_CardinalityType, FS_EmptySet
<1>3. Rank(S, i) = Cardinality(upto)
  BY DEF Rank, upto
<1> QED BY <1>1, <1>2, <1>3

LEMMA RankGrows ==
  ASSUME NEW S, IsFiniteSet(S), S \subseteq Nat, NEW i \in S, NEW j \in S, i < j
  PROVE  Rank(S, i) # Rank(S, j)
<1> DEFINE below == {k \in S : k <= i}
           upto == {k \in S : k <= j}
<1>0. i \in Nat /\ j \in Nat /\ \A k \in S : k \in Nat
  OBVIOUS
<1>1. below \subseteq upto /\ j \in upto /\ j \notin below
  <2>1. \A k \in S : k <= i => k <= j
    BY <1>0
  <2>2. j <= j /\ ~ (j <= i)
    BY <1>0
  <2> QED BY <2>1, <2>2
<1>2. IsFiniteSet(upto)
  BY FS_Subset
<1>3. Rank(S, i) = Cardinality(below) /\ Rank(S, j) = Cardinality(upto)
  BY DEF Rank
<1> HIDE DEF below, upto
<1>4. Cardinality(upto) = Cardinality(below) => upto = below
  BY <1>1, <1>2, FS_Subset
<1> QED BY <1>1, <1>3, <1>4

LEMMA RankOnto ==
  ASSUME NEW S, IsFiniteSet(S), S \subseteq Nat
  PROVE  /\ \A i, j \in S : Rank(S, i) = Rank(S, j) => i = j
         /\ \A r \in 1..Cardinality(S) : \E i \in S : Rank(S, i) = r
<1> DEFINE ranks == 1..Cardinality(S)
           rank == [i \in S |-> Rank(S, i)]
<1>1. Cardinality(S) \in Nat
  BY FS_CardinalityType
<1>2. IsFiniteSet(ranks) /\ Cardinality(S) = Cardinality(ranks)
  BY <1>1, UpTo
<1>3. \A i \in S : Rank(S, i) \in ranks
  BY RankType
<1>4. ASSUME NEW i \in S, NEW j \in S, Rank(S, i) = Rank(S, j) PROVE i = j
  <2>1. i \in Nat /\ j \in Nat
    OBVIOUS
  <2>2. ~ (i < j) /\ ~ (j < i)
    BY <1>4, RankGrows
  <2> QED BY <2>1, <2>2
<1> HIDE DEF ranks
<1>5. rank \in [S -> ranks]
  BY <1>3
<1>6. \A i, j \in S : rank[i] = rank[j] => i = j
  BY <1>4
<1> HIDE DEF rank
<1>7. \A r \in ranks : \E i \in S : rank[i] = r
  <2> DEFINE R == S
  <2>1. IsFiniteSet(ranks) /\ Cardinality(R) = Cardinality(ranks) /\ rank \in [R -> ranks]
    BY <1>2, <1>5
  <2>2. \A i, j \in R : rank[i] = rank[j] => i = j
    BY <1>6
  <2> HIDE DEF R
  <2>3. \A r \in ranks : \E i \in R : rank[i] = r
    BY <2>1, <2>2, NothingMissed
  <2> QED BY <2>3 DEF R
<1> QED BY <1>4, <1>7 DEF rank, ranks

LEMMA TakenCount ==
  ASSUME NEW S, IsFiniteSet(S), S \subseteq Nat, draw[Cardinality(S)] \subseteq 1..Cardinality(S)
  PROVE  IsFiniteSet(Taken(S)) /\ Cardinality(Taken(S)) = Cardinality(draw[Cardinality(S)])
<1> DEFINE drawn == draw[Cardinality(S)]
           chosen == [i \in Taken(S) |-> Rank(S, i)]
<1>1. IsFiniteSet(drawn)
  BY FS_CardinalityType, UpTo, FS_Subset
<1>2. /\ \A i, j \in S : Rank(S, i) = Rank(S, j) => i = j
      /\ \A r \in drawn : \E i \in S : Rank(S, i) = r
  BY RankOnto
<1>3. chosen \in [Taken(S) -> drawn] /\ \A i, j \in Taken(S) : chosen[i] = chosen[j] => i = j
  BY <1>2 DEF Taken
<1>4. \A r \in drawn : \E i \in Taken(S) : chosen[i] = r
  <2> SUFFICES ASSUME NEW r \in drawn PROVE \E i \in Taken(S) : chosen[i] = r
    OBVIOUS
  <2>1. PICK i \in S : Rank(S, i) = r
    BY <1>2
  <2>2. i \in Taken(S)
    BY <2>1 DEF Taken
  <2> QED BY <2>1, <2>2
<1> HIDE DEF chosen, drawn
<1>5. IsFiniteSet(Taken(S)) /\ Cardinality(Taken(S)) = Cardinality(drawn)
  BY <1>1, <1>3, <1>4, SameCount
<1> QED BY <1>5 DEF drawn

(***************************************************************************)
(* The rows of the query list what it found, each document once.           *)
(***************************************************************************)
LEMMA RowsList ==
  ASSUME NEW found, IsFiniteSet(found), NEW rows \in InOrder(found)
  PROVE  /\ Cardinality(found) \in Nat /\ DOMAIN rows = 1..Cardinality(found)
         /\ rows \in [1..Cardinality(found) -> found]
         /\ \A i, j \in DOMAIN rows : rows[i] = rows[j] => i = j
         /\ \A d \in found : \E i \in DOMAIN rows : rows[i] = d
<1> DEFINE n == Cardinality(found)
           places == 1..n
<1>1. n \in Nat
  BY FS_CardinalityType
<1>2. rows \in [places -> found] /\ \A i, j \in places : i < j => rows[i] # rows[j]
  BY DEF InOrder
<1>3. \A i, j \in places : rows[i] = rows[j] => i = j
  BY <1>1, <1>2
<1>4. Cardinality(places) = n
  BY <1>1, UpTo
<1> HIDE DEF places
<1>5. \A d \in found : \E i \in places : rows[i] = d
  BY <1>2, <1>3, <1>4, NothingMissed
<1> QED BY <1>1, <1>2, <1>3, <1>5 DEF places

\* The rows of the candidates of a domain.
OfDomain(rows, home, domain) == {k \in DOMAIN rows : home[rows[k]] = domain}

LEMMA SampleIs ==
  ASSUME NEW found, IsFiniteSet(found), NEW rows \in InOrder(found), NEW home
  PROVE  /\ Sample(rows, home) \subseteq found
         /\ \A i \in DOMAIN rows :
              rows[i] \in Sample(rows, home) <=> i \in Taken(OfDomain(rows, home, home[rows[i]]))
<1>1. /\ DOMAIN rows = 1..Cardinality(found) /\ rows \in [1..Cardinality(found) -> found]
      /\ \A i, j \in DOMAIN rows : rows[i] = rows[j] => i = j
  BY RowsList
<1>2. \A domain : Taken(OfDomain(rows, home, domain)) \subseteq OfDomain(rows, home, domain)
  BY DEF Taken
<1>3. Sample(rows, home) =
        {rows[i] : i \in UNION {Taken(OfDomain(rows, home, domain)) :
                                domain \in {home[rows[k]] : k \in DOMAIN rows}}}
  BY DEF Sample, OfDomain
<1>4. ASSUME NEW d \in Sample(rows, home)
      PROVE  \E i \in DOMAIN rows : d = rows[i] /\ i \in Taken(OfDomain(rows, home, home[d]))
  <2>1. PICK domain \in {home[rows[k]] : k \in DOMAIN rows} :
          \E i \in Taken(OfDomain(rows, home, domain)) : d = rows[i]
    BY <1>3
  <2>2. PICK i \in Taken(OfDomain(rows, home, domain)) : d = rows[i]
    BY <2>1
  <2>3. i \in DOMAIN rows /\ home[rows[i]] = domain
    BY <1>2 DEF OfDomain
  <2> QED BY <2>2, <2>3
<1>5. ASSUME NEW i \in DOMAIN rows, i \in Taken(OfDomain(rows, home, home[rows[i]]))
      PROVE  rows[i] \in Sample(rows, home)
  BY <1>3, <1>5
<1>6. ASSUME NEW i \in DOMAIN rows, rows[i] \in Sample(rows, home)
      PROVE  i \in Taken(OfDomain(rows, home, home[rows[i]]))
  BY <1>1, <1>4, <1>6
<1>7. Sample(rows, home) \subseteq found
  BY <1>1, <1>4
<1> QED BY <1>5, <1>6, <1>7
(***************************************************************************)
(* The quota of a domain: its documents are as many as its rows, and those *)
(* sampled as many as its rows taken.                                      *)
(***************************************************************************)
DrawKnown ==
  /\ draw \in [0..Cardinality(Quotable) -> SUBSET (1..Cardinality(Quotable))]
  /\ \A n \in DOMAIN draw :
       draw[n] \subseteq 1..n /\ Cardinality(draw[n]) = Least(PerDomain, n)

LEMMA QuotableFinite ==
  ASSUME NEW found, found \subseteq Quotable
  PROVE  IsFiniteSet(found) /\ Cardinality(found) \in 0..Cardinality(Quotable)
<1>1. IsFiniteSet(Quotable)
  BY LabellingConstants, FS_Subset DEF Quotable
<1>2. IsFiniteSet(found) /\ Cardinality(found) <= Cardinality(Quotable)
  BY <1>1, FS_Subset
<1> QED BY <1>1, <1>2, FS_CardinalityType

InDomain(S, home, domain) == {d \in S : home[d] = domain}

LEMMA Quota ==
  ASSUME NEW found, found \subseteq Quotable, NEW rows \in InOrder(found), NEW home, NEW domain, DrawKnown
  PROVE  Cardinality(InDomain(Sample(rows, home), home, domain))
           = Least(PerDomain, Cardinality(InDomain(found, home, domain)))
<1> DEFINE of == {d \in found : home[d] = domain}
           sampled == {d \in Sample(rows, home) : home[d] = domain}
           S == OfDomain(rows, home, domain)
           n == Cardinality(found)
<1>0. IsFiniteSet(found)
  BY QuotableFinite
<1>1. /\ n \in Nat /\ DOMAIN rows = 1..n /\ rows \in [1..n -> found]
      /\ \A i, j \in DOMAIN rows : rows[i] = rows[j] => i = j
      /\ \A d \in found : \E i \in DOMAIN rows : rows[i] = d
  BY <1>0, RowsList
<1>2. /\ Sample(rows, home) \subseteq found
      /\ \A i \in DOMAIN rows :
           rows[i] \in Sample(rows, home) <=> i \in Taken(OfDomain(rows, home, home[rows[i]]))
  BY <1>0, SampleIs
<1>3. /\ S \subseteq 1..n /\ S \subseteq Nat /\ IsFiniteSet(S)
      /\ \A i \in DOMAIN rows : i \in S <=> home[rows[i]] = domain
  <2>1. S \subseteq 1..n /\ S \subseteq Nat /\ \A i \in DOMAIN rows : i \in S <=> home[rows[i]] = domain
    BY <1>1 DEF OfDomain
  <2> QED BY <1>1, <2>1, UpTo, FS_Subset
<1>4. Cardinality(S) = Cardinality(of)
  <2> DEFINE f == [i \in S |-> rows[i]]
  <2>1. IsFiniteSet(of)
    BY <1>0, FS_Subset
  <2>2. f \in [S -> of] /\ (\A i, j \in S : f[i] = f[j] => i = j) /\ \A d \in of : \E i \in S : f[i] = d
    <3> HIDE DEF S, n
    <3> QED BY <1>1, <1>3
  <2> HIDE DEF f, S, of
  <2> QED BY <2>1, <2>2, SameCount
<1>5. Cardinality(Taken(S)) = Cardinality(sampled)
  <2> DEFINE f == [i \in Taken(S) |-> rows[i]]
  <2>1. IsFiniteSet(sampled)
    BY <1>0, <1>2, FS_Subset
  <2>2. Taken(S) \subseteq S
    BY DEF Taken
  <2>3. \A i \in Taken(S) : i \in DOMAIN rows /\ rows[i] \in sampled
    BY <1>1, <1>2, <1>3, <2>2
  <2>4. \A i, j \in Taken(S) : rows[i] = rows[j] => i = j
    BY <1>1, <2>3
  <2>5. ASSUME NEW d \in sampled PROVE \E i \in Taken(S) : rows[i] = d
    <3>1. PICK i \in DOMAIN rows : rows[i] = d
      BY <1>1, <1>2
    <3> QED BY <1>2, <3>1
  <2>6. f \in [Taken(S) -> sampled] /\ (\A i, j \in Taken(S) : f[i] = f[j] => i = j)
        /\ \A d \in sampled : \E i \in Taken(S) : f[i] = d
    BY <2>3, <2>4, <2>5
  <2> DEFINE T == Taken(S)
  <2> HIDE DEF f, T, sampled
  <2>7. Cardinality(T) = Cardinality(sampled)
    BY <2>1, <2>6, SameCount DEF T
  <2> QED BY <2>7 DEF T
<1>6. Cardinality(S) \in DOMAIN draw
  <2>1. of \subseteq Quotable
    OBVIOUS
  <2>2. Cardinality(of) \in 0..Cardinality(Quotable)
    BY <2>1, QuotableFinite
  <2> QED BY <1>4, <2>2 DEF DrawKnown
<1>7. /\ draw[Cardinality(S)] \subseteq 1..Cardinality(S)
      /\ Cardinality(draw[Cardinality(S)]) = Least(PerDomain, Cardinality(S))
  BY <1>6 DEF DrawKnown
<1> HIDE DEF S
<1>8. Cardinality(Taken(S)) = Least(PerDomain, Cardinality(S))
  BY <1>3, <1>7, TakenCount
<1> QED BY <1>4, <1>5, <1>8 DEF InDomain
(***************************************************************************)
(* Without two documents of one external_id, the query has one answer.     *)
(***************************************************************************)
LEMMA PlaceOf ==
  ASSUME NEW found, found \subseteq Quotable,
         \A c, d \in found : c.external_id = d.external_id => c = d,
         NEW rows \in InOrder(found), NEW i \in DOMAIN rows
  PROVE  Cardinality({d \in found : d.external_id <= rows[i].external_id}) = i
<1> DEFINE upto == {d \in found : d.external_id <= rows[i].external_id}
           places == 1..i
           f == [j \in places |-> rows[j]]
<1>0. IsFiniteSet(found)
  BY QuotableFinite
<1>1. /\ Cardinality(found) \in Nat /\ DOMAIN rows = 1..Cardinality(found)
      /\ rows \in [DOMAIN rows -> found]
      /\ \A j, k \in DOMAIN rows : rows[j] = rows[k] => j = k
      /\ \A d \in found : \E j \in DOMAIN rows : rows[j] = d
  BY <1>0, RowsList
<1>2. \A d \in found : d.external_id \in Int
  BY LabellingConstants DEF Quotable
<1>3. \A j, k \in DOMAIN rows : j < k => rows[j].external_id <= rows[k].external_id
  BY <1>1 DEF InOrder
<1>4. i \in Nat /\ i >= 1 /\ places \subseteq DOMAIN rows
  BY <1>1
<1>5. \A j \in places : rows[j] \in upto
  <2> SUFFICES ASSUME NEW j \in places PROVE rows[j].external_id <= rows[i].external_id
    BY <1>1, <1>4
  <2>1. j < i \/ j = i
    BY <1>4
  <2>2. rows[i].external_id \in Int
    BY <1>1, <1>2
  <2> QED BY <1>3, <1>4, <2>1, <2>2
<1>6. ASSUME NEW d \in upto PROVE \E j \in places : rows[j] = d
  <2>1. PICK j \in DOMAIN rows : rows[j] = d
    BY <1>1
  <2>2. ASSUME i < j PROVE FALSE
    <3>1. rows[i].external_id <= d.external_id
      BY <1>3, <2>1, <2>2
    <3>2. rows[i].external_id = d.external_id
      BY <1>1, <1>2, <3>1
    <3>3. rows[i] = d
      BY <1>1, <3>2
    <3> QED BY <1>1, <1>4, <2>1, <2>2, <3>3
  <2>3. j \in places
    BY <1>1, <1>4, <2>2
  <2> QED BY <2>1, <2>3
<1>7. IsFiniteSet(upto)
  BY <1>0, FS_Subset
<1>8. f \in [places -> upto] /\ (\A j, k \in places : f[j] = f[k] => j = k)
      /\ \A d \in upto : \E j \in places : f[j] = d
  <2> HIDE DEF upto, places
  <2> QED BY <1>1, <1>4, <1>5, <1>6
<1>9. Cardinality(places) = i
  BY <1>4, UpTo
<1> HIDE DEF f, upto, places
<1>10. Cardinality(places) = Cardinality(upto)
  BY <1>7, <1>8, SameCount
<1> QED BY <1>9, <1>10 DEF upto

LEMMA OneOrder ==
  ASSUME NEW found, found \subseteq Quotable,
         \A c, d \in found : c.external_id = d.external_id => c = d,
         NEW rows \in InOrder(found), NEW other \in InOrder(found)
  PROVE  rows = other
<1>1. IsFiniteSet(found)
  BY QuotableFinite
<1>2. /\ DOMAIN rows = DOMAIN other
      /\ rows \in [DOMAIN rows -> found] /\ other \in [DOMAIN rows -> found]
      /\ \A d \in found : \E j \in DOMAIN rows : other[j] = d
  BY <1>1, RowsList
<1>3. ASSUME NEW i \in DOMAIN rows PROVE rows[i] = other[i]
  <2>1. PICK j \in DOMAIN rows : other[j] = rows[i]
    BY <1>2
  <2>2. i = Cardinality({d \in found : d.external_id <= rows[i].external_id})
    BY PlaceOf
  <2>3. j = Cardinality({d \in found : d.external_id <= other[j].external_id})
    BY <1>2, PlaceOf
  <2> QED BY <2>1, <2>2, <2>3
<1> QED BY <1>2, <1>3

(***************************************************************************)
(* What the invariant says of the exports.                                 *)
(***************************************************************************)
LEMMA QuotaOfExport ==
  ASSUME SampleInv, NEW e \in exports, NEW domain
  PROVE  Cardinality(InDomain(e.sample, e.corpus, domain))
           = Least(PerDomain, Cardinality(InDomain(DOMAIN e.corpus, e.corpus, domain)))
<1>1. DrawKnown
  BY DEF SampleInv, DrawKnown
<1>2. DrawnInOrder(e)
  BY DEF SampleInv
<1>3. PICK rows \in InOrder(DOMAIN e.corpus) : e.sample = Sample(rows, e.corpus)
  BY <1>2 DEF DrawnInOrder
<1>4. DOMAIN e.corpus \subseteq Quotable
  BY <1>2 DEF DrawnInOrder
<1> QED BY <1>1, <1>3, <1>4, Quota

LEMMA SampledEvenly == SampleInv => Stratified
<1> SUFFICES ASSUME SampleInv, NEW e \in exports, NEW domain
             PROVE  Cardinality({d \in e.sample : e.corpus[d] = domain})
                      = Least(PerDomain, Cardinality({d \in DOMAIN e.corpus : e.corpus[d] = domain}))
  BY DEF Stratified
<1> QED BY QuotaOfExport DEF InDomain

LEMMA SampledAlike == SampleInv => Deterministic
<1> SUFFICES ASSUME SampleInv, NEW e \in exports, NEW f \in exports, e.corpus = f.corpus,
                    \A c, d \in DOMAIN e.corpus : c.external_id = d.external_id => c = d
             PROVE  e.sample = f.sample
  BY DEF Deterministic
<1>1. DrawnInOrder(e) /\ DrawnInOrder(f)
  BY DEF SampleInv
<1>2. PICK rows \in InOrder(DOMAIN e.corpus) : e.sample = Sample(rows, e.corpus)
  BY <1>1 DEF DrawnInOrder
<1>3. PICK other \in InOrder(DOMAIN e.corpus) : f.sample = Sample(other, e.corpus)
  BY <1>1 DEF DrawnInOrder
<1>4. DOMAIN e.corpus \subseteq Quotable
  BY <1>1 DEF DrawnInOrder
<1>5. rows = other
  BY <1>4, OneOrder
<1> QED BY <1>2, <1>3, <1>5

LEMMA CountsHonest == SampleInv => ReportHonest
<1> SUFFICES ASSUME SampleInv, job.pc = "write", job.quiet
             PROVE  /\ \A domain \in {job.corpus[d] : d \in job.sample} \cup DOMAIN job.counts :
                         /\ domain \in DOMAIN job.counts
                         /\ job.counts[domain] = Cardinality({d \in job.sample : job.corpus[d] = domain})
                    /\ \A d \in DOMAIN job.corpus : job.corpus[d] \notin job.absent
  BY DEF ReportHonest
<1> DEFINE sample == job.sample
           corpus == job.corpus
<1>1. /\ [corpus |-> corpus, sample |-> sample] \in exports
      /\ \A d \in DOMAIN corpus : corpus[d] = Primary(d)
      /\ \A s \in DOMAIN job.loaded : job.loaded[s] = domains[s]
      /\ DOMAIN job.loaded = {d.source : d \in sample}
      /\ job.counts = Coverage(sample, job.loaded)
      /\ job.absent = Declared \ DOMAIN job.counts
  BY DEF SampleInv, JobKnows
<1>2. sample \subseteq DOMAIN corpus /\ DOMAIN corpus \subseteq Quotable
  BY <1>1 DEF SampleInv, TypeOK, DrawnInOrder
<1> HIDE DEF sample, corpus
<1>3. \A d \in sample : First(job.loaded[d.source]) = corpus[d]
  BY <1>1, <1>2 DEF Primary
<1>4. /\ DOMAIN job.counts = {corpus[d] : d \in sample}
      /\ \A domain \in DOMAIN job.counts :
           job.counts[domain] = Cardinality({d \in sample : corpus[d] = domain})
  <2>1. \A domain : {d \in sample : First(job.loaded[d.source]) = domain} = InDomain(sample, corpus, domain)
    BY <1>3 DEF InDomain
  <2>2. {First(job.loaded[d.source]) : d \in sample} = {corpus[d] : d \in sample}
    BY <1>3
  <2>3. job.counts = [domain \in {corpus[d] : d \in sample} |-> Cardinality(InDomain(sample, corpus, domain))]
    BY <1>1, <2>1, <2>2 DEF Coverage
  <2> QED BY <2>3 DEF InDomain
<1>5. ASSUME NEW d \in DOMAIN corpus PROVE corpus[d] \in DOMAIN job.counts
  <2> DEFINE taken == InDomain(sample, corpus, corpus[d])
             had == InDomain(DOMAIN corpus, corpus, corpus[d])
             e == [corpus |-> corpus, sample |-> sample]
  <2>1. Cardinality(taken) = Least(PerDomain, Cardinality(had))
    <3>1. e \in exports /\ e.corpus = corpus /\ e.sample = sample
      BY <1>1
    <3> HIDE DEF e
    <3> QED BY <3>1, QuotaOfExport
  <2>2. IsFiniteSet(had) /\ d \in had
    BY <1>2, QuotableFinite, FS_Subset DEF InDomain
  <2> HIDE DEF had, taken
  <2>3. Cardinality(had) \in Nat /\ Cardinality(had) # 0
    BY <2>2, FS_CardinalityType, FS_EmptySet
  <2>4. Cardinality(taken) # 0
    BY <2>1, <2>3, LabellingConstants DEF Least
  <2>5. taken # {}
    BY <2>4, FS_EmptySet
  <2> QED BY <1>4, <2>5 DEF taken, InDomain
<1> QED BY <1>1, <1>4, <1>5 DEF sample, corpus
(***************************************************************************)
(* The inductive invariant.                                                *)
(***************************************************************************)
LEMMA SampleInit == Init => SampleInv
<1> SUFFICES ASSUME Init PROVE SampleInv
  OBVIOUS
<1>1. TypeOK
  BY LabellingConstants DEF Init, TypeOK, Idle
<1> QED BY <1>1 DEF Init, SampleInv, Idle

\* The generator is what it was, and an export drew what it drew.
LEMMA DrawnKept ==
  ASSUME draw' = draw, NEW e, DrawnInOrder(e)
  PROVE  DrawnInOrder(e)'
<1>1. \A S : Taken(S)' = Taken(S)
  BY DEF Taken
<1>2. ASSUME NEW rows, NEW home PROVE Sample(rows, home)' = Sample(rows, home)
  <2> DEFINE homes == {home[rows[k]] : k \in DOMAIN rows}
             now == UNION {Taken(OfDomain(rows, home, domain)) : domain \in homes}
             next == UNION {Taken(OfDomain(rows, home, domain))' : domain \in homes}
  <2>1. now = next
    BY <1>1
  <2>2. Sample(rows, home) = {rows[i] : i \in now} /\ Sample(rows, home)' = {rows[i] : i \in next}
    BY DEF Sample, OfDomain
  <2> HIDE DEF now, next
  <2> QED BY <2>1, <2>2
<1> QED BY <1>2 DEF DrawnInOrder

\* As long as the fields of the job that JobKnows reads stay as they are.
LEMMA KnowsKept ==
  ASSUME JobKnows, exports \subseteq exports',
         job'.corpus = job.corpus, job'.sample = job.sample, job'.loaded = job.loaded,
         job'.counts = job.counts, job'.absent = job.absent, job'.pc = job.pc,
         job'.quiet => job.quiet /\ domains' = domains /\ active' = active
  PROVE  JobKnows'
<1>1. ASSUME job'.quiet PROVE (\A d : Primary(d)' = Primary(d)) /\ Declared' = Declared
  BY <1>1 DEF Primary, Declared
<1>2. \A S, l : Coverage(S, l)' = Coverage(S, l)
  BY DEF Coverage
<1> QED BY <1>1, <1>2 DEF JobKnows

LEMMA SampleStep == SampleInv /\ [Next]_vars => SampleInv'
<1> SUFFICES ASSUME SampleInv, [Next]_vars PROVE SampleInv'
  OBVIOUS
<1>0. TypeOK /\ DOMAIN job = DOMAIN Idle /\ DrawKnown /\ \A e \in exports : DrawnInOrder(e)
  BY DEF SampleInv, DrawKnown
<1>1. draw' = draw
  BY DEF Next, vars, Ingest, SyncRegistry, Export, Select, Load, Report, Write, Label
<1>2. ASSUME TypeOK', DOMAIN job' = DOMAIN Idle, \A e \in exports' \ exports : DrawnInOrder(e)',
             IF job'.pc \in {"load", "write"} THEN JobKnows' ELSE job'.loaded = << >>
      PROVE  SampleInv'
  <2>1. \A e \in exports : DrawnInOrder(e)'
    BY <1>0, <1>1, DrawnKept
  <2>2. DrawKnown'
    BY <1>0, <1>1 DEF DrawKnown
  <2> QED BY <1>2, <2>1, <2>2 DEF SampleInv, DrawKnown
<1>3. ASSUME job' = job, exports' = exports, domains' = domains, active' = active, TypeOK'
      PROVE  SampleInv'
  BY <1>0, <1>2, <1>3, KnowsKept DEF SampleInv
<1>4. CASE Ingest
  <2>1. TypeOK'
    BY <1>0, <1>4 DEF Ingest, TypeOK
  <2> QED BY <1>3, <1>4, <2>1 DEF Ingest
<1>5. CASE SyncRegistry
  <2>1. /\ job' = [job EXCEPT !.quiet = FALSE] /\ exports' = exports
        /\ UNCHANGED <<docs, sheet, labelled, starts>> /\ syncs' = syncs + 1 /\ syncs < MaxSyncs
        /\ domains' \in [Sources -> Tags] /\ active' \subseteq Sources
    BY <1>0, <1>5 DEF SyncRegistry, TypeOK
  <2>2. /\ DOMAIN job' = DOMAIN Idle /\ job'.quiet = FALSE
        /\ job'.pc = job.pc /\ job'.sample = job.sample /\ job'.loaded = job.loaded
        /\ job'.corpus = job.corpus /\ job'.counts = job.counts /\ job'.absent = job.absent
    BY <1>0, <2>1 DEF Idle
  <2>3. TypeOK'
    BY <1>0, <2>1, <2>2, LabellingConstants DEF TypeOK
  <2> QED BY <1>2, <2>1, <2>2, <2>3, KnowsKept DEF SampleInv
<1>6. ASSUME NEW force \in BOOLEAN, Export(force) PROVE SampleInv'
  <2>1. /\ job' = [Idle EXCEPT !.pc = "select", !.force = force]
        /\ starts' = starts + 1 /\ starts < MaxExports
        /\ UNCHANGED <<docs, domains, active, sheet, labelled, exports, syncs>>
    BY <1>6 DEF Export
  <2>2. /\ DOMAIN job' = DOMAIN Idle /\ job'.pc = "select" /\ job'.sample = {} /\ job'.loaded = << >>
    BY <2>1 DEF Idle
  <2>3. TypeOK'
    BY <1>0, <2>1, <2>2, LabellingConstants DEF TypeOK
  <2> QED BY <1>2, <2>1, <2>2, <2>3
<1>7. ASSUME job' = Idle, exports' = exports, TypeOK' PROVE SampleInv'
  BY <1>2, <1>7 DEF Idle
<1>8. CASE Select
  <2> DEFINE found == docs \cap Quotable
  <2>1. PICK rows \in InOrder(found) :
          IF Sample(rows, Corpus) = {} THEN job' = Idle /\ UNCHANGED exports
          ELSE /\ job' = [job EXCEPT !.pc = "load", !.sample = Sample(rows, Corpus), !.corpus = Corpus, !.quiet = TRUE]
               /\ exports' = exports \cup {[corpus |-> Corpus, sample |-> Sample(rows, Corpus)]}
    BY <1>8 DEF Select, Rows
  <2>2. job.pc = "select" /\ job.loaded = << >> /\ UNCHANGED <<docs, domains, active, sheet, labelled, starts, syncs>>
    BY <1>8 DEF Select, SampleInv
  <2>3. CASE job' = Idle /\ exports' = exports
    <3>1. TypeOK'
      BY <1>0, <2>2, <2>3 DEF TypeOK, Idle
    <3> QED BY <1>7, <2>3, <3>1
  <2> DEFINE corpus == Corpus
             sample == Sample(rows, corpus)
             e == [corpus |-> corpus, sample |-> sample]
  <2>4. DOMAIN corpus = found /\ found \subseteq Quotable /\ \A d \in found : corpus[d] = Primary(d)
    BY DEF Corpus
  <2>5. sample \subseteq found
    BY <2>4, QuotableFinite, SampleIs
  <2>6. e.corpus = corpus /\ e.sample = sample
    OBVIOUS
  <2>7. DrawnInOrder(e)
    <3> HIDE DEF e, corpus
    <3> QED BY <2>4, <2>6 DEF DrawnInOrder
  <2>8. CASE /\ job' = [job EXCEPT !.pc = "load", !.sample = sample, !.corpus = corpus, !.quiet = TRUE]
             /\ exports' = exports \cup {e}
    <3> HIDE DEF e, sample, corpus
    <3>1. /\ DOMAIN job' = DOMAIN Idle /\ job'.pc = "load" /\ job'.sample = sample
          /\ job'.corpus = corpus /\ job'.quiet = TRUE /\ job'.loaded = << >>
      BY <1>0, <2>2, <2>8 DEF Idle
    <3>2. TypeOK'
      BY <1>0, <2>2, <2>4, <2>5, <2>6, <2>8, <3>1 DEF TypeOK
    <3>3. \A x \in exports' \ exports : DrawnInOrder(x)'
      <4> SUFFICES ASSUME NEW x, x = e PROVE DrawnInOrder(x)'
        BY <2>8
      <4>1. DrawnInOrder(x)
        BY <2>7
      <4> QED BY <1>1, <4>1, DrawnKept
    <3>4. JobKnows'
      <4>1. [corpus |-> job'.corpus, sample |-> job'.sample] \in exports'
        BY <2>8, <3>1 DEF e
      <4>2. \A d \in found : corpus[d] = Primary(d)'
        BY <2>2, <2>4 DEF Primary
      <4>3. DOMAIN job'.loaded = {}
        BY <3>1
      <4> QED BY <2>4, <3>1, <4>1, <4>2, <4>3 DEF JobKnows
    <3> QED BY <1>2, <2>8, <3>1, <3>2, <3>3, <3>4
  <2> QED BY <2>1, <2>3, <2>8
<1>9. CASE Load
  <2>1. PICK s \in {d.source : d \in job.sample} \ DOMAIN job.loaded :
          job' = [job EXCEPT !.loaded =
                   [t \in DOMAIN job.loaded \cup {s} |-> IF t = s THEN domains[s] ELSE job.loaded[t]]]
    BY <1>9 DEF Load
  <2>2. job.pc = "load" /\ JobKnows /\ UNCHANGED <<docs, domains, active, sheet, labelled, exports, starts, syncs>>
    BY <1>9 DEF Load, SampleInv
  <2> DEFINE l == [t \in DOMAIN job.loaded \cup {s} |-> IF t = s THEN domains[s] ELSE job.loaded[t]]
  <2>3. DOMAIN l = DOMAIN job.loaded \cup {s} /\ l[s] = domains[s] /\ \A t \in DOMAIN job.loaded : l[t] = job.loaded[t]
    BY <2>1
  <2>4. job' = [job EXCEPT !.loaded = l]
    BY <2>1
  <2> HIDE DEF l
  <2>5. /\ DOMAIN job' = DOMAIN Idle /\ job'.pc = "load" /\ job'.sample = job.sample
        /\ job'.corpus = job.corpus /\ job'.quiet = job.quiet /\ job'.loaded = l
    BY <1>0, <2>2, <2>4 DEF Idle
  <2>6. s \in Sources
    BY <1>0, <2>1 DEF TypeOK, Sources
  <2>7. TypeOK'
    BY <1>0, <2>2, <2>3, <2>5, <2>6 DEF TypeOK
  <2>8. JobKnows'
    BY <2>1, <2>2, <2>3, <2>5 DEF JobKnows, Primary
  <2> QED BY <1>2, <2>2, <2>5, <2>7, <2>8
<1>10. CASE Report
  <2> DEFINE counts == Coverage(job.sample, job.loaded)
             absent == Declared \ DOMAIN counts
  <2>1. job' = [job EXCEPT !.pc = "write", !.counts = counts, !.absent = absent]
    BY <1>10 DEF Report
  <2>2. /\ job.pc = "load" /\ JobKnows /\ {d.source : d \in job.sample} = DOMAIN job.loaded
        /\ UNCHANGED <<docs, domains, active, sheet, labelled, exports, starts, syncs>>
    BY <1>10 DEF Report, SampleInv
  <2>3. Declared' = Declared /\ (\A d : Primary(d)' = Primary(d)) /\ \A S, l : Coverage(S, l)' = Coverage(S, l)
    BY <2>2 DEF Declared, Primary, Coverage
  <2>4. counts = Coverage(job.sample, job.loaded) /\ absent = Declared \ DOMAIN counts
    OBVIOUS
  <2> HIDE DEF counts, absent
  <2>5. /\ DOMAIN job' = DOMAIN Idle /\ job'.pc = "write" /\ job'.sample = job.sample
        /\ job'.corpus = job.corpus /\ job'.quiet = job.quiet /\ job'.loaded = job.loaded
        /\ job'.counts = counts /\ job'.absent = absent
    BY <1>0, <2>1 DEF Idle
  <2>6. TypeOK'
    BY <1>0, <2>2, <2>5 DEF TypeOK
  <2>7. JobKnows'
    <3>1. Coverage(job.sample, job.loaded)' = counts /\ (Declared \ DOMAIN job.counts)' = absent
      BY <2>3, <2>4, <2>5
    <3> QED BY <2>2, <2>3, <2>5, <3>1 DEF JobKnows
  <2> QED BY <1>2, <2>2, <2>5, <2>6, <2>7
<1>11. CASE Write
  <2>1. TypeOK'
    BY <1>0, <1>11 DEF Write, TypeOK, Idle
  <2> QED BY <1>7, <1>11, <2>1 DEF Write
<1>12. CASE Label
  <2>1. TypeOK'
    BY <1>0, <1>12 DEF Label, TypeOK
  <2> QED BY <1>3, <1>12, <2>1 DEF Label
<1>13. CASE UNCHANGED vars
  <2>1. TypeOK'
    BY <1>0, <1>13 DEF vars, TypeOK
  <2> QED BY <1>3, <1>13, <2>1 DEF vars
<1> QED BY <1>4, <1>5, <1>6, <1>8, <1>9, <1>10, <1>11, <1>12, <1>13 DEF Next

(***************************************************************************)
(* Every reachable state satisfies the inductive invariant.                *)
(***************************************************************************)
THEOREM SampleInvariance == Spec => []SampleInv
BY SampleInit, SampleStep, PTL DEF Spec
THEOREM TypeCorrect == Spec => []TypeOK
<1>1. SampleInv => TypeOK
  BY DEF SampleInv
<1> QED BY <1>1, SampleInvariance, PTL

(***************************************************************************)
(* Every domain gets its quota and no more, whatever its sources declare   *)
(* besides.                                                                *)
(***************************************************************************)
THEOREM SampleStratified == Spec => []Stratified
BY SampledEvenly, SampleInvariance, PTL

(***************************************************************************)
(* One corpus, one sample, as long as the order of the query says which    *)
(* document comes first.                                                   *)
(***************************************************************************)
THEOREM SampleDeterministic == Spec => []Deterministic
BY SampledAlike, SampleInvariance, PTL

(***************************************************************************)
(* What is printed is true of the worksheet, if the registry was left      *)
(* alone meanwhile.                                                        *)
(***************************************************************************)
THEOREM ReportCorrect == Spec => []ReportHonest
BY CountsHonest, SampleInvariance, PTL
=============================================================================
