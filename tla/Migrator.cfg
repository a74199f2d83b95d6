CONSTANTS
  Heights = {1, 2, 65536}
  WithStmt = {2}
  Width = 3
  Torn = Torn
  NoBlock = NoBlock
  Failures = {"scan", "read", "readStmt", "write", "seek", "unlink"}
  MaxRuns = 2
SPECIFICATION FairSpec
CHECK_DEADLOCK FALSE
INVARIANTS TypeOK BlockNeverLost StatementNeverLost CompletedMeansMigrated
PROPERTY MigrationEnds
