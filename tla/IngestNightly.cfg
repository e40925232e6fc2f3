SPECIFICATION Spec
CONSTANTS
  Procs = {p}
  Sources = {"a", "b", "c", "d", "e"}
  Order <- NightlyOrder
  Active = {"a", "b"}
  Hostless = {"c"}
  Unbuildable = {"d"}
  Exts = {x}
  Calls <- NightlyCalls
  NoSource = NoSource
  NoLimit = NoLimit
  Faults = {"insert", "commit", "kill"}
  MaxFetched = 1
  MaxStarts = 2
INVARIANTS PassInv RetryDiscipline SummaryTruthful
PROPERTY LedgerSpec
\* A process may stay idle after MaxStarts invocations.
CHECK_DEADLOCK FALSE
