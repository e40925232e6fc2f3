\* Starts and migrations run out.
SPECIFICATION FairSpec
CONSTANTS
  Procs = {p1, p2}
  Migrator = alembic
  Ids = {1, 2}
  Files <- MCFiles
  MaxStarts = 3
  MaxMigrations = 2
INVARIANTS TypeOK 
PROPERTIES TableSpec SyncMirrors EveryTransactionEnds
CHECK_DEADLOCK FALSE
