------------------------------ MODULE Labelling ------------------------------
(***************************************************************************)
(* The hand-labelled evaluation set: `radar label export` draws a sample   *)
(* of the stored documents, stratified by domain, into a worksheet that a  *)
(* person fills in over days, while nightly ingestion adds documents and   *)
(* registry syncs change the domains of sources.                           *)
(*                                                                         *)
(* The generator seeded with one seed is the function `draw`: the indices  *)
(* it takes out of n candidates.  Every export uses the same seed.  What   *)
(* the domains before it have taken from the generator is left out.        *)
(***************************************************************************)
EXTENDS Integers, Sequences, FiniteSets

CONSTANTS
  Documents,   \* the documents there may be: [source, external_id, abstract]
  Tags,        \* the domain lists a source may declare: sequences of domains
  Unassigned,  \* the domain of a source that declares none
  PerDomain,   \* --per-domain
  MaxExports,  \* bound: exports explored
  MaxSyncs     \* bound: changes of the registry explored

ASSUME LabellingConstants ==
  /\ IsFiniteSet(Documents)
  /\ \A d \in Documents : d.external_id \in Int /\ d.abstract \in BOOLEAN
  /\ PerDomain \in Nat \ {0} /\ MaxExports \in Nat /\ MaxSyncs \in Nat

Sources == {d.source : d \in Documents}
Quotable == {d \in Documents : d.abstract}
Least(a, b) == IF a < b THEN a ELSE b

VARIABLES
  docs,      \* source_document
  domains,   \* source.domains
  active,    \* source.active: the sources that are
  draw,      \* what the seeded generator takes out of n candidates
  sheet,     \* the worksheet: its documents, {} when there is no file
  labelled,  \* those the person has labelled
  job,       \* the export at work
  exports,   \* observed: what each export saw and drew, [corpus, sample]
  starts, syncs  \* bounds: counted against MaxExports and MaxSyncs

vars == <<docs, domains, active, draw, sheet, labelled, job, exports, starts, syncs>>

\* `loaded` are the sources `document.source` has fetched so far, `counts` and
\* `absent` what will be printed; `corpus` and `quiet` observe what was drawn
\* from and whether the registry has been left alone since.
Idle == [pc |-> "idle", force |-> FALSE, sample |-> {}, loaded |-> << >>,
         counts |-> << >>, absent |-> {}, corpus |-> << >>, quiet |-> TRUE]

Init ==
  /\ docs = {} /\ domains \in [Sources -> Tags] /\ active = Sources
  /\ draw \in [0..Cardinality(Quotable) -> SUBSET (1..Cardinality(Quotable))]
  /\ \A n \in DOMAIN draw :
       draw[n] \subseteq 1..n /\ Cardinality(draw[n]) = Least(PerDomain, n)
  /\ sheet = {} /\ labelled = {} /\ job = Idle /\ exports = {}
  /\ starts = 0 /\ syncs = 0

First(tags) == IF tags = << >> THEN Unassigned ELSE Head(tags)
Primary(d) == First(domains[d.source])

\* Mutant: the query has no ORDER BY.
UnorderedRows ==
  LET found == docs \cap Quotable
      n == Cardinality(found)
  IN  {rows \in [1..n -> found] : \A i, j \in 1..n : i < j => rows[i] # rows[j]}

\* The rows of the query: those with an abstract, in the order of external_id.
\* It says nothing of two rows with the same one.
InOrder(found) ==
  LET n == Cardinality(found)
  IN  {rows \in [1..n -> found] :
         \A i, j \in 1..n : i < j =>
           rows[i] # rows[j] /\ rows[i].external_id <= rows[j].external_id}

Rows == InOrder(docs \cap Quotable)

\* Out of a list of candidates, given by their rows, what the generator takes.
Rank(candidates, i) == Cardinality({j \in candidates : j <= i})
Taken(candidates) == {i \in candidates : Rank(candidates, i) \in draw[Cardinality(candidates)]}

\* Mutant: a document fills the quota of every domain of its source.
EveryTag(rows, home) ==
  LET declares(i, domain) ==
        \E t \in DOMAIN domains[rows[i].source] : domains[rows[i].source][t] = domain
  IN  {rows[i] : i \in UNION {Taken({k \in DOMAIN rows : declares(k, domain)}) :
                              domain \in UNION {{domains[s][t] : t \in DOMAIN domains[s]} : s \in Sources}}}

\* select_documents: those taken in each domain, home[d] being the domain the
\* document d counts towards.
Sample(rows, home) ==
  {rows[i] : i \in UNION {Taken({k \in DOMAIN rows : home[rows[k]] = domain}) :
                          domain \in {home[rows[k]] : k \in DOMAIN rows}}}

Corpus == [d \in docs \cap Quotable |-> Primary(d)]

Ingest ==
  /\ \E d \in Documents \ docs : docs' = docs \cup {d}
  /\ UNCHANGED <<domains, active, draw, sheet, labelled, job, exports, starts, syncs>>

\* A sync gives a source other domains, or deactivates it.
SyncRegistry ==
  /\ syncs < MaxSyncs
  /\ \E s \in Sources :
       \/ /\ \E tags \in Tags : tags # domains[s] /\ domains' = [domains EXCEPT ![s] = tags]
          /\ UNCHANGED active
       \/ active' = active \ {s} /\ active' # active /\ UNCHANGED domains
  /\ syncs' = syncs + 1 /\ job' = [job EXCEPT !.quiet = FALSE]
  /\ UNCHANGED <<docs, draw, sheet, labelled, exports, starts>>

\* Mutant: an existing file is no reason to refuse.
ExportOver(force) ==
  /\ job.pc = "idle" /\ starts < MaxExports
  /\ job' = [Idle EXCEPT !.pc = "select", !.force = force]
  /\ starts' = starts + 1
  /\ UNCHANGED <<docs, domains, active, draw, sheet, labelled, exports, syncs>>

\* cmd_label_export refuses to replace a file unless told to.
Export(force) ==
  /\ job.pc = "idle" /\ starts < MaxExports
  /\ sheet = {} \/ force
  /\ job' = [Idle EXCEPT !.pc = "select", !.force = force]
  /\ starts' = starts + 1
  /\ UNCHANGED <<docs, domains, active, draw, sheet, labelled, exports, syncs>>

\* Without documents it returns before it writes.
Select ==
  /\ job.pc = "select"
  /\ \E rows \in Rows :
       LET sample == Sample(rows, Corpus) IN
       IF sample = {} THEN job' = Idle /\ UNCHANGED exports
       ELSE /\ job' = [job EXCEPT !.pc = "load", !.sample = sample, !.corpus = Corpus, !.quiet = TRUE]
            /\ exports' = exports \cup {[corpus |-> Corpus, sample |-> sample]}
  /\ UNCHANGED <<docs, domains, active, draw, sheet, labelled, starts, syncs>>

\* render_worksheet is the first to ask a document for its source, which the
\* session then fetches, once, one source after the other.
Load ==
  /\ job.pc = "load"
  /\ \E s \in {d.source : d \in job.sample} \ DOMAIN job.loaded :
       job' = [job EXCEPT !.loaded =
                [t \in DOMAIN job.loaded \cup {s} |-> IF t = s THEN domains[s] ELSE job.loaded[t]]]
  /\ UNCHANGED <<docs, domains, active, draw, sheet, labelled, exports, starts, syncs>>

\* Mutant: a document counts towards every domain its source declares.
CoverageOfTags(sample, loaded) ==
  LET tags(d) == {loaded[d.source][i] : i \in DOMAIN loaded[d.source]}
  IN  [domain \in UNION {tags(d) : d \in sample} |-> Cardinality({d \in sample : domain \in tags(d)})]

\* coverage: documents per primary domain, as the sources were when fetched.
Coverage(sample, loaded) ==
  [domain \in {First(loaded[d.source]) : d \in sample} |->
     Cardinality({d \in sample : First(loaded[d.source]) = domain})]

\* missing_domains reads the active sources anew.
Declared == UNION {{domains[s][i] : i \in DOMAIN domains[s]} : s \in active}

Report ==
  /\ job.pc = "load" /\ {d.source : d \in job.sample} = DOMAIN job.loaded
  /\ LET counts == Coverage(job.sample, job.loaded)
     IN  job' = [job EXCEPT !.pc = "write", !.counts = counts, !.absent = Declared \ DOMAIN counts]
  /\ UNCHANGED <<docs, domains, active, draw, sheet, labelled, exports, starts, syncs>>

\* Mutant: the labels of the old worksheet are carried over.
WriteKeeping ==
  /\ job.pc = "write"
  /\ sheet' = job.sample /\ job' = Idle
  /\ UNCHANGED <<docs, domains, active, draw, labelled, exports, starts, syncs>>

\* A new worksheet holds no labels.
Write ==
  /\ job.pc = "write"
  /\ sheet' = job.sample /\ labelled' = {} /\ job' = Idle
  /\ UNCHANGED <<docs, domains, active, draw, exports, starts, syncs>>

\* The person fills in an entry.
Label ==
  /\ \E d \in sheet \ labelled : labelled' = labelled \cup {d}
  /\ UNCHANGED <<docs, domains, active, draw, sheet, job, exports, starts, syncs>>

Next ==
  \/ Ingest \/ SyncRegistry
  \/ \E force \in BOOLEAN : Export(force)
  \/ Select \/ Load \/ Report \/ Write \/ Label

Spec == Init /\ [][Next]_vars
-----------------------------------------------------------------------------
(* The types of the variables; only documents of the worksheet are labelled. *)
TypeOK ==
  /\ docs \subseteq Documents /\ domains \in [Sources -> Tags]
  /\ sheet \subseteq docs /\ labelled \subseteq sheet
  /\ active \subseteq Sources /\ job.pc \in {"idle", "select", "load", "write"}
  /\ job.sample \subseteq docs /\ DOMAIN job.loaded \subseteq Sources
  /\ \A e \in exports : e.sample \subseteq DOMAIN e.corpus
  /\ starts \in 0..MaxExports /\ syncs \in 0..MaxSyncs

(* "Each document counts towards exactly one domain": every domain gets its  *)
(* whole quota, as far as it has documents, and nothing beyond it, whatever  *)
(* other domains the sources declare.  (select_documents)                    *)
Stratified ==
  \A e \in exports : \A domain \in {e.corpus[d] : d \in DOMAIN e.corpus} :
    LET of(S) == Cardinality({d \in S : e.corpus[d] = domain})
    IN  of(e.sample) = Least(PerDomain, of(DOMAIN e.corpus))

(* Two exports over the same documents in the same domains draw the same     *)
(* sample, provided no two documents share an external_id: the order of the  *)
(* rows is then the same.  (select_documents: "deterministically")           *)
Deterministic ==
  \A e, f \in exports :
    /\ e.corpus = f.corpus
    /\ \A c, d \in DOMAIN e.corpus : c.external_id = d.external_id => c = d
    => e.sample = f.sample

\* What an export drew is what the generator takes, in each domain, out of the
\* rows of the query as they were.
DrawnInOrder(e) ==
  /\ DOMAIN e.corpus \subseteq Quotable
  /\ \E rows \in InOrder(DOMAIN e.corpus) : e.sample = Sample(rows, e.corpus)

\* What the export at work knows of what it drew.
JobKnows ==
  /\ [corpus |-> job.corpus, sample |-> job.sample] \in exports
  /\ DOMAIN job.loaded \subseteq {d.source : d \in job.sample}
  /\ job.quiet =>
       /\ \A d \in DOMAIN job.corpus : job.corpus[d] = Primary(d)
       /\ \A s \in DOMAIN job.loaded : job.loaded[s] = domains[s]
       /\ job.pc = "write" => /\ DOMAIN job.loaded = {d.source : d \in job.sample}
                              /\ job.counts = Coverage(job.sample, job.loaded)
                              /\ job.absent = Declared \ DOMAIN job.counts

(* The inductive invariant: every export drew from the corpus it saw what    *)
(* the one generator takes, and while the registry is left alone the sources *)
(* it has fetched are as they were when it drew.                             *)
SampleInv ==
  /\ TypeOK
  /\ DOMAIN job = DOMAIN Idle
  /\ draw \in [0..Cardinality(Quotable) -> SUBSET (1..Cardinality(Quotable))]
  /\ \A n \in DOMAIN draw :
       draw[n] \subseteq 1..n /\ Cardinality(draw[n]) = Least(PerDomain, n)
  /\ \A e \in exports : DrawnInOrder(e)
  /\ IF job.pc \in {"load", "write"} THEN JobKnows ELSE job.loaded = << >>

(* Labels are never lost to an export that was not forced, at whatever point *)
(* of its work the person fills in entries.  (cmd_label_export: "this        *)
(* refuses by default")                                                      *)
LabelsKept == [][labelled \subseteq labelled' \/ job.force]_vars

(* What the export prints is true of the worksheet it writes: the counts are *)
(* those of the sample, and a domain reported as without documents has none  *)
(* that could have been drawn.  The sources are read three times for it, so  *)
(* it is so only if the registry was left alone in between.  (coverage: "so  *)
(* the number printed to the person matches the number that was sampled")    *)
ReportHonest ==
  job.pc = "write" /\ job.quiet =>
    /\ \A domain \in {job.corpus[d] : d \in job.sample} \cup DOMAIN job.counts :
         /\ domain \in DOMAIN job.counts
         /\ job.counts[domain] = Cardinality({d \in job.sample : job.corpus[d] = domain})
    /\ \A d \in DOMAIN job.corpus : job.corpus[d] \notin job.absent
=============================================================================
