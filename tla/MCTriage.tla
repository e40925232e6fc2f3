------------------------------ MODULE MCTriage ------------------------------
(***************************************************************************)
(* Inputs of up to five candidates of the two kinds, answers of up to      *)
(* three lines that number one title more than a chunk holds, or from 0.   *)
(* Stage two shares no state with stage one: it is explored beside an      *)
(* empty input.                                                            *)
(***************************************************************************)
EXTENDS Triage, Decisions

MCInputs == UNION {[1..n -> {"arxiv_oai", "rss"}] : n \in 0..5}

MCLines ==
  [number : 1..4, answer : Spoken]
    \cup {[number |-> 0, answer |-> "YES"], [number |-> 0, answer |-> "other"],
          [number |-> NoNumber, answer |-> "YES"], [number |-> -1, answer |-> "YES"]}

MCAnswers == UNION {[1..n -> MCLines] : n \in 0..3}

MCInit == Init /\ StageTwoInit

MCSpec ==
  /\ MCInit
  /\ [][ \/ Next /\ UNCHANGED answers
         \/ input = << >> /\ TriageDocument /\ UNCHANGED vars ]_<<vars, answers>>
=============================================================================
