--------------------------- MODULE EvidenceProofs ---------------------------
(***************************************************************************)
(* Proofs about Evidence: the types of the tables, that the CHECKs, which  *)
(* SQL evaluates with NULLs, amount to the grounding rules, and that no    *)
(* order of writes and deletions leaves a claim without its document or    *)
(* its model call, for any number of rows.                                 *)
(***************************************************************************)
EXTENDS Evidence, TLAPS

\* A CHECK on a nullable date passes only where the basis is a listed one.
LEMMA DateCheckIsPlain ==
  ASSUME NEW date, NEW basis, Passes(DateHasBasis(date, basis))
  PROVE  Dated(date, basis)
<1>1. CASE date = NULL
  BY <1>1 DEF Dated
<1>2. CASE date # NULL /\ basis = NULL
  BY <1>2 DEF Passes, DateHasBasis, Dated, Or3, And3, Not3, IsNull, In3, Truth
<1>3. CASE date # NULL /\ basis # NULL
  BY <1>3 DEF Passes, DateHasBasis, Dated, Or3, And3, Not3, IsNull, In3, Truth
<1> QED BY <1>1, <1>2, <1>3

\* A nullable column that must be listed, and is not NULL, is listed.
LEMMA ListCheckIsPlain ==
  ASSUME NEW x, NEW S, x # NULL, Passes(In3(x, S))
  PROVE  x \in S
BY DEF Passes, In3, Truth

\* The CHECK on a forecast passes only where its label is another one.
LEMMA ForecastCheckIsPlain ==
  ASSUME NEW said \in Said, Passes(ForecastNotObserved(said)), said.claim_type \in ForecastTypes
  PROVE  said.epistemic_label # "observed_fact"
<1>1. said.claim_type # NULL /\ said.epistemic_label # NULL /\ "observed_fact" # NULL
  BY EvidenceConstants DEF Said, ClaimTypes, EpistemicLabels
<1>2. SUFFICES ASSUME said.epistemic_label = "observed_fact" PROVE FALSE
  OBVIOUS
<1>3. In3(said.claim_type, ForecastTypes) = "true"
  BY <1>1 DEF In3, Truth
<1>4. Eq3(said.epistemic_label, "observed_fact") = "true"
  BY <1>1, <1>2 DEF Eq3, Truth
<1>5. ForecastNotObserved(said) = "false"
  BY <1>3, <1>4 DEF ForecastNotObserved, Or3, And3, Not3
<1> QED BY <1>5 DEF Passes

\* What a claim that passed its CHECKs says.
SaidGrounded(said) ==
  /\ said.quote_verified
  /\ said.claim_type \in ClaimTypes
  /\ said.claim_type \in ForecastTypes => said.epistemic_label \in EpistemicLabels \ {"observed_fact"}
  /\ Dated(said.date_referenced, said.date_basis)

LEMMA ChecksGround ==
  ASSUME NEW said \in Said, ClaimChecks(said)
  PROVE  SaidGrounded(said)
<1>1. said.claim_type # NULL /\ said.epistemic_label # NULL
  BY EvidenceConstants DEF Said, ClaimTypes, EpistemicLabels
<1>2. said.quote_verified /\ Passes(DateHasBasis(said.date_referenced, said.date_basis))
      /\ Passes(In3(said.claim_type, ClaimTypes)) /\ Passes(In3(said.epistemic_label, EpistemicLabels))
      /\ Passes(ForecastNotObserved(said))
  BY DEF ClaimChecks
<1>3. said.claim_type \in ClaimTypes /\ said.epistemic_label \in EpistemicLabels
  BY <1>1, <1>2, ListCheckIsPlain
<1>4. Dated(said.date_referenced, said.date_basis)
  BY <1>2, DateCheckIsPlain
<1> QED BY <1>2, <1>3, <1>4, ForecastCheckIsPlain DEF SaidGrounded

\* A row that stands as a duplicate names another document.
LEMMA DuplicateCheckIsPlain ==
  ASSUME NEW key \in Documents, NEW row \in DocumentRow, DocumentChecks(key, row),
         row.lifecycle = "duplicate"
  PROVE  row.duplicate_of # NULL /\ row.duplicate_of # key
<1>1. NULL # "duplicate" /\ key # NULL
  BY EvidenceConstants DEF Lifecycles
<1>2. row.duplicate_of # NULL
  <2> SUFFICES ASSUME row.duplicate_of = NULL PROVE FALSE
    OBVIOUS
  <2>1. Eq3(row.lifecycle, "duplicate") = "true" /\ IsNull(row.duplicate_of) = "true"
    BY <1>1 DEF Eq3, IsNull, Truth
  <2>2. Or3(Not3(Eq3(row.lifecycle, "duplicate")), Not3(IsNull(row.duplicate_of))) = "false"
    BY <2>1 DEF Or3, And3, Not3
  <2> QED BY <2>2 DEF DocumentChecks, Passes
<1>3. row.duplicate_of # key
  <2> SUFFICES ASSUME row.duplicate_of = key PROVE FALSE
    OBVIOUS
  <2>1. Eq3(row.duplicate_of, key) = "true" /\ IsNull(row.duplicate_of) = "false"
    BY <1>1 DEF Eq3, IsNull, Truth
  <2>2. Or3(IsNull(row.duplicate_of), Not3(Eq3(row.duplicate_of, key))) = "false"
    BY <2>1 DEF Or3, And3, Not3
  <2> QED BY <2>2 DEF DocumentChecks, Passes
<1> QED BY <1>2, <1>3
-----------------------------------------------------------------------------
(* The types of the tables.                                                  *)
LEMMA TypeInit == Init => TypeOK
BY DEF Init, TypeOK

LEMMA TypeNext == TypeOK /\ [Next]_vars => TypeOK'
<1> SUFFICES ASSUME TypeOK, [Next]_vars PROVE TypeOK'
  OBVIOUS
<1>1. ASSUME NEW key \in Documents, WriteDocument(key) PROVE TypeOK'
  BY <1>1 DEF TypeOK, WriteDocument, With
<1>2. ASSUME NEW key \in Documents, DeleteDocument(key) PROVE TypeOK'
  BY <1>2 DEF TypeOK, DeleteDocument, Without, DocumentRow
<1>3. ASSUME NEW key \in Claims, WriteClaim(key) PROVE TypeOK'
  BY <1>3 DEF TypeOK, WriteClaim, With, ClaimRow
<1>4. ASSUME NEW key \in Claims, DeleteClaim(key) PROVE TypeOK'
  BY <1>4 DEF TypeOK, DeleteClaim, Without
<1>5. ASSUME NEW key \in Runs, WriteRun(key) PROVE TypeOK'
  BY <1>5 DEF TypeOK, WriteRun
<1>6. ASSUME NEW key \in Runs, DeleteRun(key) PROVE TypeOK'
  BY <1>6 DEF TypeOK, DeleteRun, DevelopmentRow
<1>7. ASSUME NEW key \in Developments, WriteDevelopment(key) PROVE TypeOK'
  BY <1>7 DEF TypeOK, WriteDevelopment, With
<1>8. ASSUME NEW key \in Developments, DeleteDevelopment(key) PROVE TypeOK'
  BY <1>8 DEF TypeOK, DeleteDevelopment, Without
<1>9. ASSUME UNCHANGED vars PROVE TypeOK'
  BY <1>9 DEF vars, TypeOK
<1> QED BY <1>1, <1>2, <1>3, <1>4, <1>5, <1>6, <1>7, <1>8, <1>9 DEF Next

(* Whatever is written, in whatever order, the rows of the evidence keep     *)
(* their types (the tables of claim.py, source_document.py, development.py). *)
THEOREM TypeCorrect == Spec => []TypeOK
BY TypeInit, TypeNext, PTL DEF Spec
-----------------------------------------------------------------------------
(* The grounding of what is stored.                                          *)
LEMMA GroundedInit == Init => ClaimsGrounded
BY DEF Init, ClaimsGrounded

LEMMA GroundedNext == TypeOK /\ ClaimsGrounded /\ [Next]_vars => ClaimsGrounded'
<1> SUFFICES ASSUME TypeOK, ClaimsGrounded, [Next]_vars PROVE ClaimsGrounded'
  OBVIOUS
<1>0. /\ \A c \in DOMAIN claims : SaidGrounded(claims[c].said)
      /\ \A g \in DOMAIN developments : Dated(developments[g].occurred_on, developments[g].occurred_basis)
  BY DEF ClaimsGrounded, SaidGrounded
<1> SUFFICES /\ \A c \in DOMAIN claims' : SaidGrounded(claims'[c].said)
             /\ \A g \in DOMAIN developments' :
                  Dated(developments'[g].occurred_on, developments'[g].occurred_basis)
  BY DEF ClaimsGrounded, SaidGrounded
<1>1. ASSUME UNCHANGED <<claims, developments>>
      PROVE  /\ \A c \in DOMAIN claims' : SaidGrounded(claims'[c].said)
             /\ \A g \in DOMAIN developments' :
                  Dated(developments'[g].occurred_on, developments'[g].occurred_basis)
  BY <1>0, <1>1
<1>2. CASE \E key \in Documents : WriteDocument(key)
  BY <1>1, <1>2 DEF WriteDocument
<1>3. CASE \E key \in Documents : DeleteDocument(key)
  BY <1>0, <1>3 DEF DeleteDocument, Without
<1>4. CASE \E key \in Claims : WriteClaim(key)
  BY <1>0, <1>4, ChecksGround DEF WriteClaim, With, ClaimRow
<1>5. CASE \E key \in Claims : DeleteClaim(key)
  BY <1>0, <1>5 DEF DeleteClaim, Without
<1>6. CASE \E key \in Runs : WriteRun(key)
  BY <1>1, <1>6 DEF WriteRun
<1>7. CASE \E key \in Runs : DeleteRun(key)
  BY <1>0, <1>7 DEF DeleteRun, TypeOK, DevelopmentRow
<1>8. CASE \E key \in Developments : WriteDevelopment(key)
  BY <1>0, <1>8, DateCheckIsPlain DEF WriteDevelopment, With, DevelopmentChecks
<1>9. CASE \E key \in Developments : DeleteDevelopment(key)
  BY <1>0, <1>9 DEF DeleteDevelopment, Without, TypeOK
<1>10. CASE UNCHANGED vars
  BY <1>1, <1>10 DEF vars
<1> QED BY <1>2, <1>3, <1>4, <1>5, <1>6, <1>7, <1>8, <1>9, <1>10 DEF Next

(* The CHECKs of claim.py and development.py, three-valued as they are,      *)
(* admit no row that breaks the rules their comments give in plain words.    *)
THEOREM StoredClaimsAreGrounded == Spec => []ClaimsGrounded
BY TypeInit, TypeNext, GroundedInit, GroundedNext, PTL DEF Spec
-----------------------------------------------------------------------------
(* The evidence of what is stored.                                           *)
ClaimHeld(c) ==
  /\ claims[c].document_id \in DOMAIN documents
  /\ claims[c].analysis_run_id \in runs
  /\ Refers(claims[c].development_id, DOMAIN developments)

DuplicateHeld(d) ==
  documents[d].lifecycle = "duplicate" => documents[d].duplicate_of \in DOMAIN documents \ {d}

LEMMA CompleteInit == Init => EvidenceComplete
BY DEF Init, EvidenceComplete

LEMMA CompleteNext == TypeOK /\ EvidenceComplete /\ [Next]_vars => EvidenceComplete'
<1> SUFFICES ASSUME TypeOK, EvidenceComplete, [Next]_vars PROVE EvidenceComplete'
  OBVIOUS
<1>0. /\ \A c \in DOMAIN claims : ClaimHeld(c)
      /\ \A d \in DOMAIN documents : DuplicateHeld(d)
  BY DEF EvidenceComplete, ClaimHeld, DuplicateHeld
<1> SUFFICES /\ \A c \in DOMAIN claims' : ClaimHeld(c)'
             /\ \A d \in DOMAIN documents' : DuplicateHeld(d)'
  BY DEF EvidenceComplete, ClaimHeld, DuplicateHeld
<1>1. ASSUME UNCHANGED documents PROVE \A d \in DOMAIN documents' : DuplicateHeld(d)'
  BY <1>0, <1>1 DEF DuplicateHeld
<1>2. ASSUME NEW key \in Documents, WriteDocument(key)
      PROVE  /\ \A c \in DOMAIN claims' : ClaimHeld(c)'
             /\ \A d \in DOMAIN documents' : DuplicateHeld(d)'
  <2>1. PICK row \in DocumentRow :
          /\ DocumentChecks(key, row) /\ Refers(row.duplicate_of, DOMAIN documents \cup {key})
          /\ documents' = With(documents, key, row) /\ UNCHANGED <<claims, runs, developments>>
    BY <1>2 DEF WriteDocument
  <2>2. /\ DOMAIN documents' = DOMAIN documents \cup {key}
        /\ documents'[key] = row /\ \A d \in DOMAIN documents \ {key} : documents'[d] = documents[d]
    BY <2>1 DEF With
  <2>3. \A c \in DOMAIN claims' : ClaimHeld(c)'
    BY <1>0, <2>1, <2>2 DEF ClaimHeld
  <2>4. DuplicateHeld(key)'
    BY <2>1, <2>2, DuplicateCheckIsPlain DEF DuplicateHeld, Refers
  <2>5. \A d \in DOMAIN documents \ {key} : DuplicateHeld(d)'
    BY <1>0, <2>2 DEF DuplicateHeld
  <2> QED BY <2>2, <2>3, <2>4, <2>5
<1>3. ASSUME NEW key \in Documents, DeleteDocument(key)
      PROVE  /\ \A c \in DOMAIN claims' : ClaimHeld(c)'
             /\ \A d \in DOMAIN documents' : DuplicateHeld(d)'
  <2>1. DOMAIN documents' = DOMAIN documents \ {key}
    BY <1>3 DEF DeleteDocument
  <2>2. \A c \in DOMAIN claims' : ClaimHeld(c)'
    BY <1>0, <1>3, <2>1 DEF DeleteDocument, Without, ClaimHeld
  <2>3. ASSUME NEW d \in DOMAIN documents', documents'[d].lifecycle = "duplicate"
        PROVE  documents'[d].duplicate_of \in DOMAIN documents' \ {d}
    <3>1. d \in DOMAIN documents \ {key} /\ d \in Documents /\ documents[d] \in DocumentRow
      BY <2>1 DEF TypeOK
    <3>2. documents[d].lifecycle = "duplicate"
      BY <1>3, <2>3, <3>1 DEF DeleteDocument, DocumentRow
    <3>3. documents[d].duplicate_of \in DOMAIN documents \ {d}
      BY <1>0, <3>1, <3>2 DEF DuplicateHeld
    <3>4. documents[d].duplicate_of # key
      <4> SUFFICES ASSUME documents[d].duplicate_of = key PROVE FALSE
        OBVIOUS
      <4>1. documents'[d] = [documents[d] EXCEPT !.duplicate_of = NULL]
        BY <1>3, <3>1 DEF DeleteDocument
      <4>2. documents'[d] \in DocumentRow /\ documents'[d].duplicate_of = NULL
        BY <3>1, <4>1 DEF DocumentRow
      <4>3. documents'[d] # documents[d]
        BY <4>2, EvidenceConstants
      <4>4. DocumentChecks(d, documents'[d])
        BY <1>3, <2>1, <4>3 DEF DeleteDocument
      <4> QED BY <2>3, <3>1, <4>2, <4>4, DuplicateCheckIsPlain
    <3>5. documents'[d] = documents[d]
      BY <1>3, <3>1, <3>4 DEF DeleteDocument
    <3> QED BY <2>1, <3>3, <3>4, <3>5
  <2> QED BY <2>2, <2>3 DEF DuplicateHeld
<1>4. ASSUME NEW key \in Claims, WriteClaim(key)
      PROVE  UNCHANGED documents /\ \A c \in DOMAIN claims' : ClaimHeld(c)'
  BY <1>0, <1>4 DEF WriteClaim, With, ClaimRow, ClaimHeld, Refers
<1>5. ASSUME NEW key \in Claims, DeleteClaim(key)
      PROVE  UNCHANGED documents /\ \A c \in DOMAIN claims' : ClaimHeld(c)'
  BY <1>0, <1>5 DEF DeleteClaim, Without, ClaimHeld
<1>6. ASSUME NEW key \in Runs, WriteRun(key)
      PROVE  UNCHANGED documents /\ \A c \in DOMAIN claims' : ClaimHeld(c)'
  BY <1>0, <1>6 DEF WriteRun, ClaimHeld
<1>7. ASSUME NEW key \in Runs, DeleteRun(key)
      PROVE  UNCHANGED documents /\ \A c \in DOMAIN claims' : ClaimHeld(c)'
  BY <1>0, <1>7 DEF DeleteRun, ClaimHeld
<1>8. ASSUME NEW key \in Developments, WriteDevelopment(key)
      PROVE  UNCHANGED documents /\ \A c \in DOMAIN claims' : ClaimHeld(c)'
  BY <1>0, <1>8 DEF WriteDevelopment, With, ClaimHeld, Refers
<1>9. ASSUME NEW key \in Developments, DeleteDevelopment(key)
      PROVE  UNCHANGED documents /\ \A c \in DOMAIN claims' : ClaimHeld(c)'
  BY <1>0, <1>9 DEF DeleteDevelopment, Without, ClaimHeld, Refers, TypeOK
<1>10. ASSUME UNCHANGED vars
       PROVE  UNCHANGED documents /\ \A c \in DOMAIN claims' : ClaimHeld(c)'
  BY <1>0, <1>10 DEF vars, ClaimHeld
<1> QED
  BY <1>1, <1>2, <1>3, <1>4, <1>5, <1>6, <1>7, <1>8, <1>9, <1>10 DEF Next

(* CASCADE, RESTRICT and SET NULL, with the CHECKs that follow a SET NULL,   *)
(* are enough: no sequence of deletions orphans a stored claim, or leaves a  *)
(* duplicate without its original.                                           *)
THEOREM EvidenceIsComplete == Spec => []EvidenceComplete
BY TypeInit, TypeNext, CompleteInit, CompleteNext, PTL DEF Spec
-----------------------------------------------------------------------------
(* What the contract accepts passes the CHECKs.                              *)

\* None of the constants a CHECK compares with is NULL.
LEMMA WordsNotNull ==
  /\ "observed_fact" # NULL
  /\ \A t \in ClaimTypes : t # NULL
  /\ \A l \in EpistemicLabels : l # NULL
BY EvidenceConstants DEF EpistemicLabels

\* A listed value that is not NULL passes a CHECK on the list.
LEMMA ListedPasses ==
  ASSUME NEW x, NEW S, x # NULL, x \in S
  PROVE  Passes(In3(x, S))
BY DEF Passes, In3, Truth

\* A date with a listed basis, or no date at all, passes.
LEMMA DatedPasses ==
  ASSUME NEW date, NEW basis \in DateBases \cup {NULL}, date # NULL => basis # NULL
  PROVE  Passes(DateHasBasis(date, basis))
<1>1. CASE date = NULL
  <2>1. IsNull(date) = "true"
    BY <1>1 DEF IsNull, Truth
  <2>2. Or3(IsNull(date), And3(Not3(IsNull(basis)), In3(basis, DateBases))) = "true"
    BY <2>1 DEF Or3, And3, Not3
  <2> QED BY <2>2 DEF Passes, DateHasBasis
<1>2. CASE date # NULL
  <2>1. basis # NULL /\ basis \in DateBases
    BY <1>2
  <2>2. Not3(IsNull(basis)) = "true" /\ In3(basis, DateBases) = "true"
    BY <2>1 DEF IsNull, Not3, In3, Truth
  <2>3. And3(Not3(IsNull(basis)), In3(basis, DateBases)) = "true"
    BY <2>2 DEF And3
  <2>4. Or3(IsNull(date), And3(Not3(IsNull(basis)), In3(basis, DateBases))) = "true"
    BY <2>3 DEF Or3, And3, Not3
  <2> QED BY <2>4 DEF Passes, DateHasBasis
<1> QED BY <1>1, <1>2

\* A claim that is no forecast, or not labelled as observed, passes.
LEMMA ForecastPasses ==
  ASSUME NEW said, said.claim_type \in ClaimTypes, said.epistemic_label \in EpistemicLabels,
         said.claim_type \in ForecastTypes => said.epistemic_label # "observed_fact"
  PROVE  Passes(ForecastNotObserved(said))
<1>1. said.claim_type # NULL /\ said.epistemic_label # NULL /\ "observed_fact" # NULL
  BY WordsNotNull
<1>2. CASE said.claim_type \in ForecastTypes
  <2>1. Not3(Eq3(said.epistemic_label, "observed_fact")) = "true"
    BY <1>1, <1>2 DEF Eq3, Truth, Not3
  <2>2. ForecastNotObserved(said) = "true"
    BY <2>1 DEF ForecastNotObserved, Or3, And3, Not3
  <2> QED BY <2>2 DEF Passes
<1>3. CASE said.claim_type \notin ForecastTypes
  <2>1. Not3(In3(said.claim_type, ForecastTypes)) = "true"
    BY <1>1, <1>3 DEF In3, Truth, Not3
  <2>2. ForecastNotObserved(said) = "true"
    BY <2>1 DEF ForecastNotObserved, Or3, And3, Not3
  <2> QED BY <2>2 DEF Passes
<1> QED BY <1>2, <1>3

\* The drafts of the contract, with quotes of every length.
AnyDraft ==
  [raw : Nat, normal : Nat, found : BOOLEAN,
   claim_type : ClaimTypes, epistemic_label : EpistemicLabels,
   date_referenced : {"day", NULL}, date_basis : DateBases \cup {NULL}, metrics_quoted : BOOLEAN]

(* Whatever a model returns: a draft the contract accepts (ExtractedClaim), *)
(* with its quote verified (verify_quote), makes a row that passes every     *)
(* CHECK of the claim table, for quotes of any length.                       *)
THEOREM AcceptedPasses ==
  ASSUME NEW draft \in AnyDraft, Accepts(draft), VerifyQuote(draft)
  PROVE  ClaimChecks(Row(draft))
<1> DEFINE said == Row(draft)
<1>1. /\ said.quote_verified = VerifyQuote(draft) /\ said.quote_length = draft.raw
      /\ said.claim_type = draft.claim_type /\ said.epistemic_label = draft.epistemic_label
      /\ said.date_referenced = draft.date_referenced /\ said.date_basis = draft.date_basis
  BY DEF Row
<1>2. /\ said.claim_type \in ClaimTypes /\ said.epistemic_label \in EpistemicLabels
      /\ said.date_basis \in DateBases \cup {NULL}
  BY <1>1 DEF AnyDraft
<1> HIDE DEF said
<1>3. said.quote_length > 0
  BY <1>1 DEF Accepts, AnyDraft, MinQuote, MaxQuote
<1>4. said.quote_verified
  BY <1>1
<1>5. said.date_referenced # NULL => said.date_basis # NULL
  BY <1>1 DEF Accepts
<1>6. said.claim_type \in ForecastTypes => said.epistemic_label # "observed_fact"
  BY <1>1 DEF Accepts
<1>7. Passes(DateHasBasis(said.date_referenced, said.date_basis))
  BY <1>2, <1>5, DatedPasses
<1>8. Passes(In3(said.claim_type, ClaimTypes)) /\ Passes(In3(said.epistemic_label, EpistemicLabels))
  BY <1>2, WordsNotNull, ListedPasses
<1>9. Passes(ForecastNotObserved(said))
  BY <1>2, <1>6, ForecastPasses
<1> QED BY <1>3, <1>4, <1>7, <1>8, <1>9 DEF ClaimChecks, said

(* So the contract mirrors the CHECKs, as contracts.py says: the database    *)
(* never refuses a draft that the contract accepted and whose quote holds.   *)
THEOREM ContractMirrorsChecks == Spec => []DraftsStorable
<1>1. Drafts \subseteq AnyDraft
  BY DEF Drafts, AnyDraft
<1>2. Refused = {}
  BY <1>1, AcceptedPasses DEF Refused, Extracted
<1>3. DraftsStorable
  BY <1>2 DEF DraftsStorable
<1> QED BY <1>3, PTL
=============================================================================
