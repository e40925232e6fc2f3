------------------------------- MODULE Secrets -------------------------------
(***************************************************************************)
(* The two scripts that rewrite .env: set_secret.py puts one key, and      *)
(* rotate_db_password.py a new password into every database URL.  Both     *)
(* compose the whole file from what they read and replace it through a     *)
(* temporary file.  rotate_db_password.py reads before it prompts and      *)
(* set_secret.py after, and nothing keeps two of them apart.               *)
(***************************************************************************)
EXTENDS Naturals, FiniteSets

CONSTANTS
  Procs,     \* terminals a script may run in
  UrlKeys,   \* keys whose value is a database URL: RADAR_DATABASE_URL, RADAR_TEST_DATABASE_URL
  OtherKeys, \* RADAR_ANTHROPIC_API_KEY, RADAR_CRAWLER_CONTACT
  Typed,     \* what a person may type
  MaxStarts  \* bound: scripts started

Keys == UrlKeys \cup OtherKeys
None == "none"

\* A value is what the password, or the whole of a value that is no URL, was
\* typed as; a URL also has the rest of it.  `rest` is "junk" without a host
\* or a user, and "none" when there is no line or nothing on it.
Value == [rest : {"none", "url", "junk"}, secret : Typed \cup {None}]
Absent == [rest |-> "none", secret |-> None]
Entered == {v \in Value : v.rest # "none" /\ v.secret # None}
Urls == {v \in Value : v.rest = "url"}

ASSUME SecretsConstants ==
  /\ UrlKeys \cap OtherKeys = {} /\ "rotate" \notin Keys
  /\ MaxStarts \in Nat /\ None \notin Typed

VARIABLES
  env,      \* the file: [lines, whole]
  pc,       \* where each script is
  job,      \* what it was started for: a key, or "rotate"
  lines,    \* what it composed, or read before the prompt
  current,  \* observed: the file has not been replaced since the script read it
  starts    \* bound: counted against MaxStarts

vars == <<env, pc, job, lines, current, starts>>

Init ==
  /\ env \in [lines : [Keys -> {Absent} \cup [rest : {"url"}, secret : {None}]], whole : {TRUE}]
  /\ pc = [p \in Procs |-> "idle"] /\ job = [p \in Procs |-> "rotate"]
  /\ lines = [p \in Procs |-> env.lines]
  /\ current = [p \in Procs |-> TRUE] /\ starts = 0

Goes(p, from, to) == pc[p] = from /\ pc' = [pc EXCEPT ![p] = to]

\* rotate_db_password.py reads the file here, set_secret.py does not yet.
Start(p) ==
  /\ Goes(p, "idle", "prompt") /\ starts < MaxStarts /\ starts' = starts + 1
  /\ \E j \in Keys \cup {"rotate"} : job' = [job EXCEPT ![p] = j]
  /\ lines' = [lines EXCEPT ![p] = env.lines]
  /\ current' = [current EXCEPT ![p] = TRUE]
  /\ UNCHANGED <<env>>

\* Empty, two different entries, a newline, or an interrupt at the prompt.
Refuse(p) ==
  /\ Goes(p, "prompt", "idle")
  /\ UNCHANGED <<env, job, lines, current, starts>>

\* Mutant: every other line is written as it was at the prompt.
EnterEarly(p, key) ==
  /\ job[p] = key /\ Goes(p, "prompt", "write")
  /\ \E v \in Entered : lines' = [lines EXCEPT ![p] = [lines[p] EXCEPT ![key] = v]]
  /\ current' = [current EXCEPT ![p] = TRUE]
  /\ UNCHANGED <<env, job, starts>>

\* set_secret.py: the file is read and its line for the key replaced or added.
Enter(p, key) ==
  /\ job[p] = key /\ Goes(p, "prompt", "write")
  /\ \E v \in Entered : lines' = [lines EXCEPT ![p] = [env.lines EXCEPT ![key] = v]]
  /\ current' = [current EXCEPT ![p] = TRUE]
  /\ UNCHANGED <<env, job, starts>>

\* The lines rotate_db_password.py looks at: those with a value.
Filled(p) == {key \in UrlKeys : lines[p][key].rest \in {"url", "junk"}}

\* Every URL gets the password; one without a host or user ends the script,
\* and so does a file without any, before anything is written.
Rotate(p) ==
  /\ job[p] = "rotate" /\ Goes(p, "prompt", "write")
  /\ Filled(p) # {} /\ \A key \in Filled(p) : lines[p][key] \in Urls
  /\ \E password \in Typed :
       lines' = [lines EXCEPT ![p] = [key \in Keys |->
         IF key \in Filled(p) THEN [rest |-> "url", secret |-> password] ELSE lines[p][key]]]
  /\ UNCHANGED <<env, job, current, starts>>

\* Mutant: the file is written in place.
WriteInPlace(p) ==
  /\ Goes(p, "write", "replace") /\ env' = [env EXCEPT !.whole = FALSE]
  /\ UNCHANGED <<job, lines, current, starts>>

\* mkstemp and the write.
Write(p) ==
  /\ Goes(p, "write", "replace")
  /\ UNCHANGED <<env, job, lines, current, starts>>

\* os.replace
Replace(p) ==
  /\ Goes(p, "replace", "idle")
  /\ env' = [lines |-> lines[p], whole |-> TRUE]
  /\ current' = [q \in Procs |-> FALSE]
  /\ UNCHANGED <<job, lines, starts>>

\* An error, a full disk or ctrl-C in the write, after which the handler
\* removes the temporary file, or a kill, which leaves it.
Die(p) ==
  /\ pc[p] \in {"write", "replace"} /\ pc' = [pc EXCEPT ![p] = "idle"]
  /\ UNCHANGED <<env, job, lines, current, starts>>

Next ==
  \E p \in Procs :
    \/ Start(p) \/ Refuse(p) \/ Rotate(p) \/ Write(p) \/ Replace(p) \/ Die(p)
    \/ \E key \in Keys : Enter(p, key)

Spec == Init /\ [][Next]_vars
-----------------------------------------------------------------------------
(* Whenever the program is started, and whenever a script dies, .env is a    *)
(* file that some script composed to the end.  (rotate_db_password.py: "an   *)
(* interrupted run cannot leave a half-written .env")                        *)
WholeFile == env.whole

(* A script changes what it was asked to and no other line, however long it  *)
(* waited at its prompts: one that rotates leaves no URL with an old         *)
(* password.  It is so unless another script replaced the file after this    *)
(* one had read it, which loses what the other wrote.  (set_secret.py:       *)
(* "every other line in .env is untouched")                                  *)
OthersKept ==
  [][\A p \in Procs : Replace(p) /\ current[p] =>
       LET asked == IF job[p] = "rotate" THEN {k \in UrlKeys : env.lines[k].rest # "none"} ELSE {job[p]}
       IN  /\ \A k \in Keys \ asked : env'.lines[k] = env.lines[k]
           /\ job[p] = "rotate" => \A k, l \in asked : env'.lines[k] = env'.lines[l]]_vars
=============================================================================
