CONSTANTS
  Sessions = {s1, s2, s3}
  Texts <- MCTexts
  MockTables <- MCMockTables
SPECIFICATION FairSpec
CHECK_DEADLOCK FALSE
INVARIANTS
  CreatedOnce
PROPERTIES
  SessionsAndCheckpointEnd
