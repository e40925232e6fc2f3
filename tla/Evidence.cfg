SPECIFICATION Spec
CONSTANTS
  Documents = {d1, d2, d3}
  Claims = {c1}
  Runs = {r1}
  Developments = {g1}
  NULL = NULL
SYMMETRY DocumentSymmetry
INVARIANTS TypeOK ClaimsGrounded EvidenceComplete DraftsStorable
