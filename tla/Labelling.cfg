\* Everything there is to ingest and to export runs out.
SPECIFICATION Spec
CONSTANTS
  Documents <- MCDocuments
  Tags <- MCTags
  Unassigned = "unassigned"
  PerDomain = 1
  MaxExports = 2
  MaxSyncs = 1
INVARIANTS TypeOK Stratified Deterministic ReportHonest
PROPERTY LabelsKept
CHECK_DEADLOCK FALSE
