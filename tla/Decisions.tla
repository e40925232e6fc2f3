----------------------------- MODULE Decisions -----------------------------
(***************************************************************************)
(* Stage two of triage (triage.py, from line 342): one request per         *)
(* document, whose answer is stripped of a code fence, read as JSON and    *)
(* validated.  The shape of a decision is written down twice, as the       *)
(* schema sent with the request and as the contract the answer is          *)
(* validated against (TriageDecision of contracts.py).                     *)
(*                                                                         *)
(* A text is the sequence of its lines, blank ones at its ends stripped;   *)
(* an object stands on one line.                                           *)
(***************************************************************************)
EXTENDS Integers, Sequences

Fields == {"relevant", "confidence", "reason", "domains", "technology_mentions"}
Confidences == {"high", "medium", "low"}

\* What a model may put into the object: the fields it leaves out, whether it
\* invents one, the length of the reason, whether the domains are of the six.
Payloads ==
  [missing : SUBSET Fields, invented : BOOLEAN, confidence : Confidences \cup {"very high"},
   reason : {0, 1, 400, 401}, domains : {"listed", "unlisted"}]

FenceLines == {"fence", "fenced object"}
Lines == FenceLines \cup {"object", "object, fence", "prose"}
Texts == UNION {[1..n -> Lines] : n \in 0..4}

\* TRIAGE_DECISION_SCHEMA
Schema(payload) ==
  /\ payload.missing = {} /\ ~payload.invented
  /\ payload.confidence \in Confidences /\ payload.reason <= 400
  /\ payload.domains = "listed"

\* Mutant: the contract gives a sentence less room than the schema.
ContractShorter(payload) ==
  /\ payload.missing \subseteq {"domains", "technology_mentions"} /\ ~payload.invented
  /\ payload.confidence \in Confidences /\ payload.reason \in 1..280

\* TriageDecision: two fields have defaults, the domains are any strings.
Contract(payload) ==
  /\ payload.missing \subseteq {"domains", "technology_mentions"} /\ ~payload.invented
  /\ payload.confidence \in Confidences /\ payload.reason \in 1..400

\* The fence's first line always goes, its last only where it is a fence too.
Body(text) ==
  IF text = << >> \/ text[1] \notin FenceLines THEN text
  ELSE SubSeq(text, 2, IF text[Len(text)] \in FenceLines THEN Len(text) - 1 ELSE Len(text))

ParseDecision(text, payload) ==
  IF Body(text) # <<"object">> THEN "not JSON"
  ELSE IF ~Contract(payload) THEN "does not satisfy the contract"
  ELSE "decision"

VARIABLE answers  \* what requests were answered: sequence of [truncated, text]

StageTwoInit == answers = << >>

\* One request; its document then has a decision or an error, and is not asked
\* about again.
TriageDocument ==
  answers = << >> /\ \E response \in [truncated : BOOLEAN, text : Texts] : answers' = <<response>>

StageTwo == StageTwoInit /\ [][TriageDocument]_answers

\* A truncated answer is an error and is not parsed.
Outcome(response, payload) ==
  IF response.truncated THEN "truncated" ELSE ParseDecision(response.text, payload)
-----------------------------------------------------------------------------
(* The two shapes agree where it matters: an answer the schema allows, that  *)
(* gives a reason, and that is whole, bare or in a code fence, becomes a     *)
(* decision and not a TriageParseError; and no decision is read out of a     *)
(* text that holds anything but one object and its fence, or out of a        *)
(* fragment.  (triage.py:415-442, 491-515)                                   *)
DecisionsParse ==
  \A i \in DOMAIN answers, payload \in Payloads :
    LET text == answers[i].text
        outcome == Outcome(answers[i], payload)
    IN  /\ /\ ~answers[i].truncated /\ text \in {<<"object">>, <<"fence", "object", "fence">>}
           /\ Schema(payload) /\ payload.reason > 0
           => outcome = "decision"
        /\ outcome = "decision" =>
             /\ ~answers[i].truncated
             /\ \E n \in DOMAIN text :
                  text[n] = "object" /\ \A k \in DOMAIN text \ {n} : text[k] \in FenceLines
=============================================================================
