\* The scripts run out.
SPECIFICATION Spec
CONSTANTS
  Procs = {t1, t2}
  UrlKeys = {"RADAR_DATABASE_URL", "RADAR_TEST_DATABASE_URL"}
  OtherKeys = {"RADAR_ANTHROPIC_API_KEY"}
  Typed = {"s1", "s2"}
  MaxStarts = 3
INVARIANT WholeFile
PROPERTY OthersKept
CHECK_DEADLOCK FALSE
