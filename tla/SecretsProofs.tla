---------------------------- MODULE SecretsProofs ----------------------------
(***************************************************************************)
(* Proofs about Secrets: .env is always whole, and a script changes no     *)
(* line but those it was asked to unless the file was replaced under it,   *)
(* for any number of scripts and keys.                                     *)
(***************************************************************************)
EXTENDS Secrets, TLAPS

Types ==
  /\ env \in [lines : [Keys -> Value], whole : {TRUE}]
  /\ pc \in [Procs -> {"idle", "prompt", "write", "replace"}]
  /\ job \in [Procs -> Keys \cup {"rotate"}]
  /\ lines \in [Procs -> [Keys -> Value]]
  /\ current \in [Procs -> BOOLEAN]

LEMMA TypesInit == Init => Types
<1> SUFFICES ASSUME Init PROVE Types
  OBVIOUS
<1>1. {Absent} \cup [rest : {"url"}, secret : {None}] \subseteq Value
  BY DEF Value, Absent
<1>2. /\ env = [lines |-> env.lines, whole |-> TRUE]
      /\ env.lines \in [Keys -> {Absent} \cup [rest : {"url"}, secret : {None}]]
  BY DEF Init
<1>3. env.lines \in [Keys -> Value]
  BY <1>1, <1>2
<1> QED BY <1>2, <1>3 DEF Init, Types

LEMMA TypesNext == Types /\ [Next]_vars => Types'
<1> SUFFICES ASSUME Types, [Next]_vars PROVE Types'
  OBVIOUS
<1>1. ASSUME NEW p \in Procs, Start(p) PROVE Types'
  <2>1. PICK j \in Keys \cup {"rotate"} : job' = [job EXCEPT ![p] = j]
    BY <1>1 DEF Start
  <2>2. env.lines \in [Keys -> Value]
    BY DEF Types
  <2>3. job' \in [Procs -> Keys \cup {"rotate"}]
    BY <2>1 DEF Types
  <2>4. lines' \in [Procs -> [Keys -> Value]]
    BY <1>1, <2>2 DEF Types, Start
  <2> QED BY <1>1, <2>3, <2>4 DEF Types, Start, Goes
<1>2. ASSUME NEW p \in Procs, Refuse(p) PROVE Types'
  BY <1>2 DEF Types, Refuse, Goes
<1>3. ASSUME NEW p \in Procs, Rotate(p) PROVE Types'
  <2>1. PICK password \in Typed :
          lines' = [lines EXCEPT ![p] = [key \in Keys |->
            IF key \in Filled(p) THEN [rest |-> "url", secret |-> password] ELSE lines[p][key]]]
    BY <1>3 DEF Rotate
  <2>2. [rest |-> "url", secret |-> password] \in Value
    BY DEF Value
  <2>3. lines' \in [Procs -> [Keys -> Value]]
    BY <2>1, <2>2 DEF Types
  <2> QED BY <1>3, <2>3 DEF Types, Rotate, Goes
<1>4. ASSUME NEW p \in Procs, Write(p) PROVE Types'
  BY <1>4 DEF Types, Write, Goes
<1>5. ASSUME NEW p \in Procs, Replace(p) PROVE Types'
  BY <1>5 DEF Types, Replace, Goes
<1>6. ASSUME NEW p \in Procs, Die(p) PROVE Types'
  BY <1>6 DEF Types, Die
<1>7. ASSUME NEW p \in Procs, NEW key \in Keys, Enter(p, key) PROVE Types'
  <2>1. PICK v \in Entered : lines' = [lines EXCEPT ![p] = [env.lines EXCEPT ![key] = v]]
    BY <1>7 DEF Enter
  <2>2. env.lines \in [Keys -> Value] /\ v \in Value
    BY DEF Types, Entered
  <2>3. [env.lines EXCEPT ![key] = v] \in [Keys -> Value]
    BY <2>2
  <2>4. lines' \in [Procs -> [Keys -> Value]]
    BY <2>1, <2>3 DEF Types
  <2> QED BY <1>7, <2>4 DEF Types, Enter, Goes
<1>8. CASE UNCHANGED vars
  BY <1>8 DEF Types, vars
<1> QED BY <1>1, <1>2, <1>3, <1>4, <1>5, <1>6, <1>7, <1>8 DEF Next

(* Nothing but os.replace touches the file, so no death leaves part of it.   *)
(* (the temporary file of both scripts)                                      *)
THEOREM EnvAlwaysWhole == Spec => []WholeFile
<1>1. Types => WholeFile
  BY DEF Types, WholeFile
<1> QED BY <1>1, TypesInit, TypesNext, PTL DEF Spec
-----------------------------------------------------------------------------
\* The lines a script is asked to change.
Asked(p) == IF job[p] = "rotate" THEN {k \in UrlKeys : env.lines[k].rest # "none"} ELSE {job[p]}

\* What a script that works on the current file has in hand: at its prompt the
\* file, afterwards the file with only the lines asked for changed.
Faithful(p) ==
  /\ pc[p] = "prompt" => lines[p] = env.lines
  /\ pc[p] \in {"write", "replace"} =>
       /\ \A k \in Keys \ Asked(p) : lines[p][k] = env.lines[k]
       /\ job[p] = "rotate" => \A k, l \in Asked(p) : lines[p][k] = lines[p][l]

InHand == \A p \in Procs : current[p] => Faithful(p)

LEMMA InHandInit == Init => InHand
BY DEF Init, InHand, Faithful

\* A script that does not take the step, over a file that stays, is as before.
LEMMA Others ==
  ASSUME InHand, NEW q \in Procs, env' = env, pc'[q] = pc[q], job'[q] = job[q],
         lines'[q] = lines[q], current'[q] = current[q]
  PROVE  current'[q] => Faithful(q)'
<1>1. Asked(q)' = Asked(q)
  BY DEF Asked
<1>2. Faithful(q)' = Faithful(q)
  BY <1>1 DEF Faithful
<1> QED BY <1>2, Zenon DEF InHand

LEMMA InHandNext == Types /\ InHand /\ [Next]_vars => InHand'
<1> SUFFICES ASSUME Types, InHand, [Next]_vars PROVE InHand'
  OBVIOUS
<1>1. ASSUME NEW p \in Procs, Start(p) PROVE InHand'
  <2>1. Faithful(p)'
    BY <1>1 DEF Types, Start, Goes, Faithful
  <2>2. ASSUME NEW q \in Procs \ {p} PROVE current'[q] => Faithful(q)'
    <3>1. env' = env /\ pc'[q] = pc[q] /\ job'[q] = job[q] /\ lines'[q] = lines[q]
          /\ current'[q] = current[q]
      BY <1>1 DEF Types, Start, Goes
    <3> QED BY <3>1, Others
  <2> QED BY <2>1, <2>2 DEF InHand
<1>2. ASSUME NEW p \in Procs, Refuse(p) \/ Die(p) PROVE InHand'
  <2>1. Faithful(p)'
    BY <1>2 DEF Types, Refuse, Die, Goes, Faithful
  <2>2. ASSUME NEW q \in Procs \ {p} PROVE current'[q] => Faithful(q)'
    <3>1. env' = env /\ pc'[q] = pc[q] /\ job'[q] = job[q] /\ lines'[q] = lines[q]
          /\ current'[q] = current[q]
      BY <1>2 DEF Types, Refuse, Die, Goes
    <3> QED BY <3>1, Others
  <2> QED BY <2>1, <2>2 DEF InHand
<1>3. ASSUME NEW p \in Procs, Rotate(p) PROVE InHand'
  <2>1. PICK password \in Typed :
          lines' = [lines EXCEPT ![p] = [key \in Keys |->
            IF key \in Filled(p) THEN [rest |-> "url", secret |-> password] ELSE lines[p][key]]]
    BY <1>3 DEF Rotate
  <2>2. ASSUME current[p] PROVE Faithful(p)'
    <3>1. lines[p] = env.lines /\ job'[p] = "rotate" /\ job[p] = "rotate" /\ env' = env
      BY <1>3, <2>2 DEF Types, InHand, Faithful, Rotate, Goes
    <3>2. Filled(p) = Asked(p)
      BY <3>1 DEF Types, Value, Filled, Asked, Keys
    <3>3. Asked(p)' = Asked(p)
      BY <3>1 DEF Asked
    <3>4. \A k \in Keys : lines'[p][k] =
            IF k \in Asked(p) THEN [rest |-> "url", secret |-> password] ELSE env.lines[k]
      BY <2>1, <3>1, <3>2 DEF Types
    <3>5. Asked(p) \subseteq Keys
      BY <3>1 DEF Asked, Keys
    <3>6. pc'[p] = "write"
      BY <1>3 DEF Types, Rotate, Goes
    <3> QED BY <3>1, <3>3, <3>4, <3>5, <3>6 DEF Faithful
  <2>3. ASSUME NEW q \in Procs \ {p} PROVE current'[q] => Faithful(q)'
    <3>1. env' = env /\ pc'[q] = pc[q] /\ job'[q] = job[q] /\ lines'[q] = lines[q]
          /\ current'[q] = current[q]
      BY <1>3 DEF Types, Rotate, Goes
    <3> QED BY <3>1, Others
  <2>4. current' = current
    BY <1>3 DEF Rotate
  <2> QED BY <2>2, <2>3, <2>4 DEF InHand
<1>4. ASSUME NEW p \in Procs, Write(p) PROVE InHand'
  <2>1. /\ env' = env /\ job' = job /\ lines' = lines /\ current' = current
        /\ pc[p] = "write" /\ pc'[p] = "replace" /\ \A q \in Procs \ {p} : pc'[q] = pc[q]
    BY <1>4 DEF Types, Write, Goes
  <2> QED BY <2>1 DEF InHand, Faithful, Asked
<1>5. ASSUME NEW p \in Procs, Replace(p) PROVE InHand'
  BY <1>5 DEF InHand, Replace
<1>6. ASSUME NEW p \in Procs, NEW key \in Keys, Enter(p, key) PROVE InHand'
  <2>1. PICK v \in Entered : lines' = [lines EXCEPT ![p] = [env.lines EXCEPT ![key] = v]]
    BY <1>6 DEF Enter
  <2>2. job'[p] = key /\ key # "rotate" /\ env' = env /\ pc'[p] = "write"
    BY <1>6, SecretsConstants DEF Types, Enter, Goes
  <2>3. \A k \in Keys \ {key} : lines'[p][k] = env.lines[k]
    BY <2>1 DEF Types
  <2>4. Faithful(p)'
    BY <2>2, <2>3 DEF Faithful, Asked
  <2>5. ASSUME NEW q \in Procs \ {p} PROVE current'[q] => Faithful(q)'
    <3>1. env' = env /\ pc'[q] = pc[q] /\ job'[q] = job[q] /\ lines'[q] = lines[q]
          /\ current'[q] = current[q]
      BY <1>6 DEF Types, Enter, Goes
    <3> QED BY <3>1, Others
  <2> QED BY <2>4, <2>5 DEF InHand
<1>7. CASE UNCHANGED vars
  BY <1>7 DEF InHand, Faithful, Asked, vars
<1> QED BY <1>1, <1>2, <1>3, <1>4, <1>5, <1>6, <1>7 DEF Next

LEMMA ReplaceKeepsOthers ==
  Types /\ InHand => \A p \in Procs : Replace(p) /\ current[p] =>
    /\ \A k \in Keys \ Asked(p) : env'.lines[k] = env.lines[k]
    /\ job[p] = "rotate" => \A k, l \in Asked(p) : env'.lines[k] = env'.lines[l]
<1> SUFFICES ASSUME Types, InHand, NEW p \in Procs, Replace(p), current[p]
             PROVE  /\ \A k \in Keys \ Asked(p) : env'.lines[k] = env.lines[k]
                    /\ job[p] = "rotate" => \A k, l \in Asked(p) : env'.lines[k] = env'.lines[l]
  OBVIOUS
<1>1. Faithful(p) /\ pc[p] = "replace" /\ env'.lines = lines[p]
  BY DEF InHand, Replace, Goes
<1> QED BY <1>1 DEF Faithful

(* set_secret.py: "every other line in .env is untouched"; a rotation gives  *)
(* every database URL the same password.  It is so whenever nobody replaced  *)
(* the file after the script had read it.                                    *)
THEOREM OtherLinesKept == Spec => OthersKept
<1>1. Types /\ InHand => [\A p \in Procs : Replace(p) /\ current[p] =>
        LET asked == IF job[p] = "rotate" THEN {k \in UrlKeys : env.lines[k].rest # "none"} ELSE {job[p]}
        IN  /\ \A k \in Keys \ asked : env'.lines[k] = env.lines[k]
            /\ job[p] = "rotate" => \A k, l \in asked : env'.lines[k] = env'.lines[l]]_vars
  BY ReplaceKeepsOthers DEF Asked
<1> QED BY <1>1, TypesInit, TypesNext, InHandInit, InHandNext, PTL DEF Spec, OthersKept
=============================================================================
