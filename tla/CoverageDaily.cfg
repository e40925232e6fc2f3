\* The horizon is a bound, so the system stops there.
SPECIFICATION Spec
CONSTANTS
  Kinds = {"feed", "harvest"}
  Day = 3
  Cron = 1
  Windows = {1, 2}
  FeedSize = 2
  Undated = {7}
  Horizon = 11
INVARIANTS TypeOK NoGap
CHECK_DEADLOCK FALSE
