SPECIFICATION FairSpec
CONSTANTS
  Threads = {t1, t2}
  Hosts = {"arxiv", "blog"}
  Sources <- MCSources
  MaxAge = 2
  MaxAttempts = 2
  MaxRedirects = 1
  Base = 1
  Cap = 1
  RetryAfters = {0, 2}
  None = None
INVARIANTS TypeOK LimiterInv
PROPERTIES RequestsSpaced LimiterNeverWedges
