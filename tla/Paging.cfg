\* The server stops changing when the walk has ended, so the system stops.
SPECIFICATION WalkSpec
CONSTANTS
  Fetchers = {"atom", "oai", "biorxiv"}
  Records = {1, 2, 3, 4, 5}
  Shapes <- MCShapes
  Papers <- MCPapers
  Since = 2
  PageSize = 2
  MaxPages = 3
  MaxGaps = 2
INVARIANTS WalkInv Complete NothingTwice
CHECK_DEADLOCK FALSE
