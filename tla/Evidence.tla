------------------------------ MODULE Evidence ------------------------------
(***************************************************************************)
(* The schema of the evidence: documents, claims, the model calls they     *)
(* come from and the developments they are gathered under, with the CHECK  *)
(* and FOREIGN KEY constraints of the models.  Any writer may issue any    *)
(* statement; one that violates a constraint changes nothing.              *)
(*                                                                         *)
(* SQL's logic has a third value and a CHECK refuses only FALSE, so the    *)
(* CHECKs are evaluated in it and the properties read the rows without it. *)
(* Beside them stands the contract for what a model may return, which is   *)
(* meant to mirror the CHECKs (contracts.py).                              *)
(***************************************************************************)
EXTENDS Naturals

CONSTANTS
  Documents, Claims, Runs, Developments,  \* the keys rows may take
  NULL

VARIABLES
  documents,     \* source_document: key -> row
  claims,        \* claim: key -> row
  runs,          \* analysis_run: the keys stored
  developments   \* development: key -> row

vars == <<documents, claims, runs, developments>>
-----------------------------------------------------------------------------
(* SQL's three-valued logic, the third value being NULL.                     *)
Truth(b) == IF b THEN "true" ELSE "false"
Not3(a) == CASE a = "true" -> "false" [] a = "false" -> "true" [] OTHER -> "null"
And3(a, b) == IF "false" \in {a, b} THEN "false" ELSE IF "null" \in {a, b} THEN "null" ELSE "true"
Or3(a, b) == Not3(And3(Not3(a), Not3(b)))
IsNull(x) == Truth(x = NULL)
In3(x, S) == IF x = NULL THEN "null" ELSE Truth(x \in S)
Eq3(x, y) == IF NULL \in {x, y} THEN "null" ELSE Truth(x = y)
Passes(check) == check # "false"
-----------------------------------------------------------------------------
ClaimTypes == {"measured_result", "demonstration", "deployment", "regulatory_event",
  "funding_or_investment", "self_reported_claim", "expectation", "expert_forecast", "opinion"}
EpistemicLabels == {"observed_fact", "source_expectation", "expert_forecast"}
DateBases == {"document_metadata", "quoted_text"}
ForecastTypes == {"expectation", "expert_forecast"}
Lifecycles == {"fetched", "duplicate"}  \* of those a document can have, two

\* NULL is none of the keys and none of the words a column may hold.
ASSUME EvidenceConstants ==
  NULL \notin UNION {Documents, Runs, Developments, ClaimTypes, EpistemicLabels, Lifecycles, {"rumour"}}

\* Mutant: without the IS NOT NULL test the check is NULL when the basis is.
BasisListed(date, basis) == Or3(IsNull(date), In3(basis, DateBases))

\* CHECK date_has_basis of a claim, occurred_has_basis of a development.
DateHasBasis(date, basis) ==
  Or3(IsNull(date), And3(Not3(IsNull(basis)), In3(basis, DateBases)))

ForecastNotObserved(claim) ==
  Or3(Not3(In3(claim.claim_type, ForecastTypes)), Not3(Eq3(claim.epistemic_label, "observed_fact")))

ClaimChecks(claim) ==
  /\ claim.quote_verified /\ claim.quote_length > 0
  /\ Passes(DateHasBasis(claim.date_referenced, claim.date_basis))
  /\ Passes(In3(claim.claim_type, ClaimTypes))
  /\ Passes(In3(claim.epistemic_label, EpistemicLabels))
  /\ Passes(ForecastNotObserved(claim))

DocumentChecks(key, document) ==
  /\ Passes(Or3(IsNull(document.duplicate_of), Not3(Eq3(document.duplicate_of, key))))
  /\ Passes(Or3(Not3(Eq3(document.lifecycle, "duplicate")), Not3(IsNull(document.duplicate_of))))

DevelopmentChecks(development) ==
  Passes(DateHasBasis(development.occurred_on, development.occurred_basis))

\* A FOREIGN KEY is satisfied by NULL or by a stored row.
Refers(key, stored) == key = NULL \/ key \in stored
-----------------------------------------------------------------------------
DocumentRow == [lifecycle : Lifecycles, duplicate_of : Documents \cup {NULL}]
DevelopmentRow ==
  [occurred_on : {"day", NULL}, occurred_basis : {"quoted_text", NULL}, summary_run_id : Runs \cup {NULL}]

\* What a claim says: one type of each sort, and values outside the lists.
Said ==
  [quote_verified : BOOLEAN, quote_length : {0, 24},
   claim_type : {"measured_result", "expectation", "rumour"},
   epistemic_label : {"observed_fact", "source_expectation"},
   date_referenced : {"day", NULL}, date_basis : {"quoted_text", "a guess", NULL}]

ClaimRow(said, d, r, g) ==
  [said |-> said, document_id |-> d, analysis_run_id |-> r, development_id |-> g]

With(table, key, row) == [k \in DOMAIN table \cup {key} |-> IF k = key THEN row ELSE table[k]]
Without(table, keys) == [k \in DOMAIN table \ keys |-> table[k]]

Init == documents = << >> /\ claims = << >> /\ runs = {} /\ developments = << >>

\* INSERT or UPDATE: the constraints are those of the row that results.
WriteDocument(key) ==
  \E row \in DocumentRow :
    /\ DocumentChecks(key, row)
    /\ Refers(row.duplicate_of, DOMAIN documents \cup {key})
    /\ documents' = With(documents, key, row)
    /\ UNCHANGED <<claims, runs, developments>>

\* Mutant: analysis_run_id may be NULL.
WriteUnattributed(key) ==
  \E said \in Said, d \in DOMAIN documents, r \in runs \cup {NULL}, g \in DOMAIN developments \cup {NULL} :
    /\ ClaimChecks(said)
    /\ claims' = With(claims, key, ClaimRow(said, d, r, g))
    /\ UNCHANGED <<documents, runs, developments>>

WriteClaim(key) ==
  \E said \in Said, d \in DOMAIN documents, r \in runs, g \in DOMAIN developments \cup {NULL} :
    /\ ClaimChecks(said)
    /\ claims' = With(claims, key, ClaimRow(said, d, r, g))
    /\ UNCHANGED <<documents, runs, developments>>

WriteRun(key) ==
  runs' = runs \cup {key} /\ UNCHANGED <<documents, claims, developments>>

WriteDevelopment(key) ==
  \E row \in DevelopmentRow :
    /\ DevelopmentChecks(row) /\ Refers(row.summary_run_id, runs)
    /\ developments' = With(developments, key, row)
    /\ UNCHANGED <<documents, claims, runs>>

DeleteClaim(key) ==
  /\ key \in DOMAIN claims
  /\ claims' = Without(claims, {key})
  /\ UNCHANGED <<documents, runs, developments>>

\* Mutant: ON DELETE SET NULL is not followed by the CHECKs.
DeleteUnchecked(key) ==
  /\ key \in DOMAIN documents
  /\ documents' = [d \in DOMAIN documents \ {key} |->
       IF documents[d].duplicate_of = key THEN [documents[d] EXCEPT !.duplicate_of = NULL]
       ELSE documents[d]]
  /\ claims' = Without(claims, {c \in DOMAIN claims : claims[c].document_id = key})
  /\ UNCHANGED <<runs, developments>>

\* Its claims go with it (CASCADE); what it was the original of is SET NULL,
\* an update the CHECKs may refuse, and the DELETE with it.
DeleteDocument(key) ==
  /\ key \in DOMAIN documents
  /\ LET left == [d \in DOMAIN documents \ {key} |->
           IF documents[d].duplicate_of = key THEN [documents[d] EXCEPT !.duplicate_of = NULL]
           ELSE documents[d]]
     IN  /\ \A d \in DOMAIN left : left[d] = documents[d] \/ DocumentChecks(d, left[d])
         /\ documents' = left
  /\ claims' = Without(claims, {c \in DOMAIN claims : claims[c].document_id = key})
  /\ UNCHANGED <<runs, developments>>

\* Mutant: the claims that come from the call do not hold it.
DeleteHeldRun(key) ==
  /\ key \in runs
  /\ runs' = runs \ {key}
  /\ developments' = [g \in DOMAIN developments |->
       IF developments[g].summary_run_id = key THEN [developments[g] EXCEPT !.summary_run_id = NULL]
       ELSE developments[g]]
  /\ UNCHANGED <<documents, claims>>

\* RESTRICT for a claim, SET NULL for a development's summary.
DeleteRun(key) ==
  /\ key \in runs /\ \A c \in DOMAIN claims : claims[c].analysis_run_id # key
  /\ runs' = runs \ {key}
  /\ developments' = [g \in DOMAIN developments |->
       IF developments[g].summary_run_id = key THEN [developments[g] EXCEPT !.summary_run_id = NULL]
       ELSE developments[g]]
  /\ UNCHANGED <<documents, claims>>

DeleteDevelopment(key) ==
  /\ key \in DOMAIN developments
  /\ developments' = Without(developments, {key})
  /\ claims' = [c \in DOMAIN claims |->
       IF claims[c].development_id = key THEN [claims[c] EXCEPT !.development_id = NULL] ELSE claims[c]]
  /\ UNCHANGED <<documents, runs>>

Next ==
  \/ \E key \in Documents : WriteDocument(key) \/ DeleteDocument(key)
  \/ \E key \in Claims : WriteClaim(key) \/ DeleteClaim(key)
  \/ \E key \in Runs : WriteRun(key) \/ DeleteRun(key)
  \/ \E key \in Developments : WriteDevelopment(key) \/ DeleteDevelopment(key)

Spec == Init /\ [][Next]_vars
-----------------------------------------------------------------------------
(* What a model may return, and the verification of its quote.  A quote is   *)
(* its length, its length once normalised, and whether the document holds it.*)
MinQuote == 24
MaxQuote == 600

Drafts ==
  [raw : {23, 24, 601}, normal : {23, 24, 601}, found : BOOLEAN,
   claim_type : ClaimTypes, epistemic_label : EpistemicLabels,
   date_referenced : {"day", NULL}, date_basis : DateBases \cup {NULL}, metrics_quoted : BOOLEAN]

\* Mutant: the validator of the date is dropped.
AcceptsUndated(draft) ==
  /\ draft.raw \in MinQuote..MaxQuote /\ draft.metrics_quoted
  /\ draft.claim_type \in ForecastTypes => draft.epistemic_label # "observed_fact"

Accepts(draft) ==
  /\ draft.raw \in MinQuote..MaxQuote /\ draft.metrics_quoted
  /\ draft.date_referenced # NULL => draft.date_basis # NULL
  /\ draft.claim_type \in ForecastTypes => draft.epistemic_label # "observed_fact"

VerifyQuote(draft) == draft.normal \in MinQuote..MaxQuote /\ draft.found

Row(draft) ==
  [quote_verified |-> VerifyQuote(draft), quote_length |-> draft.raw,
   claim_type |-> draft.claim_type, epistemic_label |-> draft.epistemic_label,
   date_referenced |-> draft.date_referenced, date_basis |-> draft.date_basis]
-----------------------------------------------------------------------------
(* The types of the tables.                                                  *)
TypeOK ==
  /\ DOMAIN documents \subseteq Documents /\ DOMAIN claims \subseteq Claims
  /\ runs \subseteq Runs /\ DOMAIN developments \subseteq Developments
  /\ \A d \in DOMAIN documents : documents[d] \in DocumentRow
  /\ \A g \in DOMAIN developments : developments[g] \in DevelopmentRow
  /\ \A c \in DOMAIN claims :
       claims[c] \in [said : Said, document_id : Documents, analysis_run_id : Runs,
                      development_id : Developments \cup {NULL}]

Dated(date, basis) == date # NULL => basis \in DateBases

(* The grounding rules as claim.py states them of every stored claim, read   *)
(* in plain logic: it is verified, a date says where it came from, a         *)
(* forecast is not an observed fact.  That the CHECKs, evaluated with NULLs, *)
(* amount to this is what their comment is about; the same for the date of   *)
(* a development.                                                            *)
ClaimsGrounded ==
  /\ \A c \in DOMAIN claims :
       LET said == claims[c].said IN
       /\ said.quote_verified
       /\ said.claim_type \in ClaimTypes
       /\ said.claim_type \in ForecastTypes => said.epistemic_label \in EpistemicLabels \ {"observed_fact"}
       /\ Dated(said.date_referenced, said.date_basis)
  /\ \A g \in DOMAIN developments : Dated(developments[g].occurred_on, developments[g].occurred_basis)

(* Whatever is deleted in whatever order, "why does it say this?" can be     *)
(* answered: a stored claim's document and model call are stored, and a      *)
(* duplicate names another stored document.                                  *)
EvidenceComplete ==
  /\ \A c \in DOMAIN claims :
       /\ claims[c].document_id \in DOMAIN documents
       /\ claims[c].analysis_run_id \in runs
       /\ Refers(claims[c].development_id, DOMAIN developments)
  /\ \A d \in DOMAIN documents : documents[d].lifecycle = "duplicate" =>
       documents[d].duplicate_of \in DOMAIN documents \ {d}

Extracted == {draft \in Drafts : Accepts(draft) /\ VerifyQuote(draft)}
Refused == {draft \in Extracted : ~ClaimChecks(Row(draft))}

(* "Validation mirrors the database CHECK constraints": wherever there is a  *)
(* document and a model call to attribute it to, the database stores every   *)
(* draft that the contract accepts and whose quote is verified.              *)
DraftsStorable == DOMAIN documents # {} /\ runs # {} => Refused = {}
=============================================================================
