SPECIFICATION FairSpec
CONSTANTS
  Procs = {p, q}
  Sources = {"a"}
  Order <- OverlapOrder
  Active = {"a"}
  Hostless = {}
  Unbuildable = {}
  Exts = {x, y}
  Calls <- OverlapCalls
  NoSource = NoSource
  NoLimit = NoLimit
  Faults = {"kill"}
  MaxFetched = 2
  MaxStarts = 1
INVARIANTS TypeOK NoDuplicateDocument AuditMatchesStore ProvenanceResolves
PROPERTY EveryInvocationEnds
\* A process may stay idle after MaxStarts invocations.
CHECK_DEADLOCK FALSE
