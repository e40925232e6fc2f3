SPECIFICATION Spec
CONSTANTS
  Procs = {p}
  Sources = {"a", "b", "c", "d", "e"}
  Order <- NightlyOrder
  Active = {"a", "b"}
  Hostless = {"c"}
  Unbuildable = {"d"}
  Exts = {x}
  Calls <- NightlyCalls
  NoSource = NoSource
  NoLimit = NoLimit
  Faults = {"insert"}
  MaxFetched = 1
  MaxStarts = 1
INVARIANT ErrorsAreRecordedNotRaised
\* A process may stay idle after MaxStarts invocations.
CHECK_DEADLOCK FALSE
