------------------------------- MODULE Triage -------------------------------
(***************************************************************************)
(* Stage one of triage (triage.py): `screen` walks a list of candidates,   *)
(* gathers the arXiv titles into chunks, asks the model about one chunk    *)
(* per request and yields one outcome per candidate.  An answer whose      *)
(* numbers do not line up with the titles is thrown away and the chunk is  *)
(* asked again in two halves (`_judge`); its recursion is the stack `todo`.*)
(*                                                                         *)
(* A candidate is its position in the input.  What the model answers is    *)
(* the environment's choice.                                               *)
(***************************************************************************)
EXTENDS Integers, Sequences, FiniteSets

CONSTANTS
  Inputs,     \* the inputs explored: sequences of source kinds
  ChunkSize,  \* chunk_size
  Answers     \* the texts explored: sequences of lines

Bulk == {"arxiv_oai", "arxiv_category"}
Spoken == {"YES", "NO"}

\* A line is [number, answer].  Its number is NoNumber when it does not begin
\* with "<digits>:", and -1 when int() does not take what isdigit() does.
NoNumber == -2
ASSUME TriageConstants ==
  /\ ChunkSize \in Nat \ {0}
  /\ \A input \in Inputs : input \in Seq(STRING)
  /\ Answers \subseteq Seq([number : Int, answer : Spoken \cup {"other"}])

VARIABLES
  input,
  next,      \* the candidate the loop is at
  pending,   \* the candidates of the chunk being gathered
  todo,      \* the spans of the chunk still to be asked about, leftmost first
  verdicts,  \* the verdicts `_judge` has returned so far
  out,       \* what was yielded: [document, passed, screened]
  after,     \* where `flush` returns to
  pc,
  calls,     \* usage.calls
  sent,      \* observed: the requests each title was part of
  said       \* observed: what an aligned answer said of each candidate

vars == <<input, next, pending, todo, verdicts, out, after, pc, calls, sent, said>>

NeedsScreening(kind) == kind \in Bulk

\* What the line at i makes parse_verdicts raise, "none" when nothing.
Fault(text, i) ==
  CASE text[i].number = -1 -> "value_error"
    [] text[i].number = NoNumber -> "misaligned"
    [] text[i].answer \notin Spoken -> "unreadable"
    [] \E j \in 1..(i - 1) : text[j].number = text[i].number -> "misaligned"
    [] OTHER -> "none"

\* Mutant: the verdicts are read in the order of the lines.
ByPosition(text, expected) ==
  IF Len(text) # expected \/ \E i \in DOMAIN text : Fault(text, i) # "none"
  THEN [error |-> "misaligned", verdicts |-> << >>]
  ELSE [error |-> "none", verdicts |-> [k \in 1..expected |-> text[k].answer = "YES"]]

\* The lines are read in order and the first fault is the one raised; then the
\* numbers must be those of the titles.
ParseVerdicts(text, expected) ==
  LET faulty  == {i \in DOMAIN text : Fault(text, i) # "none"}
      first   == CHOOSE i \in faulty : \A j \in faulty : i <= j
      numbers == {text[i].number : i \in DOMAIN text}
      line(k) == CHOOSE i \in DOMAIN text : text[i].number = k
  IN  IF faulty # {} THEN [error |-> Fault(text, first), verdicts |-> << >>]
      ELSE IF numbers # 1..expected THEN [error |-> "misaligned", verdicts |-> << >>]
      ELSE [error |-> "none", verdicts |-> [k \in 1..expected |-> text[line(k)].answer = "YES"]]

\* Mutant: the first half keeps one title of the second.
Overlapping(span) ==
  LET middle == Len(span) \div 2
  IN  <<SubSeq(span, 1, middle + 1), SubSeq(span, middle + 1, Len(span))>>

Halves(span) ==
  LET middle == Len(span) \div 2
  IN  <<SubSeq(span, 1, middle), SubSeq(span, middle + 1, Len(span))>>

\* Mutant: a chunk is sent when it holds one title more.
Overfull(chunk) == Len(chunk) > ChunkSize

Full(chunk) == Len(chunk) >= ChunkSize

Init ==
  /\ input \in Inputs
  /\ next = 1 /\ pending = << >> /\ todo = << >> /\ verdicts = << >> /\ out = << >>
  /\ after = "loop" /\ pc = "loop" /\ calls = 0
  /\ sent = [d \in DOMAIN input |-> 0]
  /\ said = [d \in DOMAIN input |-> "nothing"]

\* `yield from flush()`: nothing to do when nothing is pending.
Flush(chunk, return) ==
  /\ pending' = chunk
  /\ IF chunk = << >> THEN pc' = return /\ UNCHANGED <<todo, after>>
     ELSE pc' = "judge" /\ todo' = <<chunk>> /\ after' = return

\* A candidate to be screened joins the chunk.
Gather ==
  /\ pc = "loop" /\ next <= Len(input) /\ NeedsScreening(input[next])
  /\ next' = next + 1
  /\ LET chunk == Append(pending, next)
     IN  IF Full(chunk) THEN Flush(chunk, "loop")
         ELSE pending' = chunk /\ UNCHANGED <<pc, todo, after>>
  /\ UNCHANGED <<input, verdicts, out, calls, sent, said>>

\* Mutant: what was queued before stays queued.
BypassQueue ==
  /\ pc = "loop" /\ next <= Len(input) /\ ~NeedsScreening(input[next])
  /\ pc' = "pass"
  /\ UNCHANGED <<input, next, pending, todo, verdicts, out, after, calls, sent, said>>

\* One that is not: anything already queued was seen first.
Bypass ==
  /\ pc = "loop" /\ next <= Len(input) /\ ~NeedsScreening(input[next])
  /\ Flush(pending, "pass")
  /\ UNCHANGED <<input, next, verdicts, out, calls, sent, said>>

Pass ==
  /\ pc = "pass"
  /\ out' = Append(out, [document |-> next, passed |-> TRUE, screened |-> FALSE])
  /\ next' = next + 1 /\ pc' = "loop"
  /\ UNCHANGED <<input, pending, todo, verdicts, after, calls, sent, said>>

\* The flush after the loop.
Drain ==
  /\ pc = "loop" /\ next > Len(input)
  /\ Flush(pending, "ended")
  /\ UNCHANGED <<input, next, verdicts, out, calls, sent, said>>

Sent(span) == [d \in DOMAIN sent |-> sent[d] + Cardinality({i \in DOMAIN span : span[i] = d})]

\* What the line numbered with the place of `d` says.
Heard(text, span, d) ==
  LET lines == {i \in DOMAIN text : \E k \in DOMAIN span : span[k] = d /\ text[i].number = k}
  IN  IF lines = {} THEN said[d] ELSE text[CHOOSE i \in lines : TRUE].answer

\* One call of `_judge`: request, usage.record, parse.
Answer ==
  /\ pc = "judge"
  /\ LET span == Head(todo) IN
     \E text \in Answers :
       LET parsed == ParseVerdicts(text, Len(span)) IN
       /\ calls' = calls + 1 /\ sent' = Sent(span)
       /\ \/ /\ parsed.error = "none"
             /\ verdicts' = verdicts \o parsed.verdicts
             /\ todo' = Tail(todo)
             /\ pc' = IF Len(todo) = 1 THEN "yield" ELSE "judge"
             /\ said' = [d \in DOMAIN said |-> Heard(text, span, d)]
          \/ /\ parsed.error = "misaligned" /\ Len(span) > 1
             /\ todo' = Halves(span) \o Tail(todo)
             /\ UNCHANGED <<verdicts, pc, said>>
          \/ /\ parsed.error = "misaligned" => Len(span) = 1
             /\ parsed.error # "none"
             /\ pc' = "raised"
             /\ UNCHANGED <<verdicts, todo, said>>
  /\ UNCHANGED <<input, next, pending, out, after>>

\* client.complete raises: a refusal, a rate limit, the network.
ModelError ==
  /\ pc = "judge"
  /\ pc' = "raised" /\ sent' = Sent(Head(todo))
  /\ UNCHANGED <<input, next, pending, todo, verdicts, out, after, calls, said>>

\* `flush` yields a verdict; after the last the chunk is cleared.
Yield ==
  /\ pc = "yield"
  /\ LET d == pending[Len(pending) - Len(verdicts) + 1]
     IN  out' = Append(out, [document |-> d, passed |-> Head(verdicts), screened |-> TRUE])
  /\ verdicts' = Tail(verdicts)
  /\ IF Len(verdicts) = 1 THEN pending' = << >> /\ pc' = after ELSE UNCHANGED <<pending, pc>>
  /\ UNCHANGED <<input, next, todo, after, calls, sent, said>>

Next == Gather \/ Bypass \/ Pass \/ Drain \/ Answer \/ ModelError \/ Yield

Spec == Init /\ [][Next]_vars
-----------------------------------------------------------------------------
Chunks(titles) ==
  IF titles <= ChunkSize THEN 1 ELSE (titles + ChunkSize - 1) \div ChunkSize

\* Mutant: every candidate is counted, also those that skip the model.
EstimateAll == Chunks(Len(input))

\* cmd_triage_estimate: the screened candidates in chunks, rounded up.
Estimate == Chunks(Cardinality({d \in DOMAIN input : NeedsScreening(input[d])}))

(* The types of the variables; a chunk never outgrows chunk_size.            *)
TypeOK ==
  /\ input \in Inputs /\ next \in 1..(Len(input) + 1)
  /\ pending \in Seq(DOMAIN input) /\ Len(pending) <= ChunkSize
  /\ \A i \in DOMAIN todo : todo[i] \in Seq(DOMAIN input) /\ todo[i] # << >>
  /\ verdicts \in Seq(BOOLEAN) /\ Len(verdicts) <= Len(pending)
  /\ \A i \in DOMAIN out :
       out[i].document \in DOMAIN input /\ out[i].passed \in BOOLEAN /\ out[i].screened \in BOOLEAN
  /\ after \in {"loop", "pass", "ended"}
  /\ pc \in {"loop", "judge", "yield", "pass", "ended", "raised"}
  /\ calls \in Nat /\ sent \in [DOMAIN input -> Nat]
  /\ said \in [DOMAIN input -> Spoken \cup {"nothing"}]

(* `screen` yields "one outcome per document in input order": what was       *)
(* yielded is at every moment, also when the generator is abandoned by an    *)
(* exception, the outcomes of the first candidates, and of all of them when  *)
(* it ends.                                                                  *)
OnePerInput ==
  /\ \A i \in DOMAIN out : out[i].document = i
  /\ pc = "ended" => Len(out) = Len(input)

(* No verdict moves to another document: whatever was missing, repeated or   *)
(* out of order in the answers and however often a chunk was halved, a       *)
(* screened candidate passes exactly when an aligned answer said YES to the  *)
(* line numbered with its place in that request.  (parse_verdicts, _judge)   *)
VerdictsAligned ==
  \A i \in DOMAIN out :
    IF out[i].screened
    THEN out[i].passed = (said[out[i].document] = "YES") /\ said[out[i].document] # "nothing"
    ELSE out[i].passed /\ sent[out[i].document] = 0

(* What a model that never lines up can cost: fewer than two requests per    *)
(* title, and no title in more than one request per halving of the chunk.    *)
(* (_judge: "the one real risk of batching")                                 *)
RequestsBounded ==
  /\ calls > 0 => calls < 2 * Cardinality({d \in 1..(next - 1) : NeedsScreening(input[d])})
  /\ \A d \in DOMAIN input : sent[d] >= 2 => 2 ^ (sent[d] - 2) < ChunkSize

(* cmd_triage_estimate prints no more requests than stage one sends when it  *)
(* comes to its end: short chunks sent early for a candidate that skips the  *)
(* model, and halves asked again, only add to them.  With nothing to screen  *)
(* it prints one, and none is sent.  (max(1, ...) of the estimate)           *)
EstimateIsLowerBound ==
  pc = "ended" =>
    IF \E d \in DOMAIN input : NeedsScreening(input[d])
    THEN Estimate <= calls
    ELSE Estimate = 1 /\ calls = 0
=============================================================================
