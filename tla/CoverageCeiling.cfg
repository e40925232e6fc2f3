\* The nightly schedule alone: no run is dispatched by hand.
SPECIFICATION Spec
CONSTANTS
  Kinds = {"feed", "harvest"}
  Day = 3
  Cron = 1
  Windows = {}
  FeedSize = 2
  Undated = {7}
  Horizon = 12
INVARIANT NextRunReachesBack
CHECK_DEADLOCK FALSE
