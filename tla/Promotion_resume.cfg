CONSTANTS
  MaxCommit = 3
  MaxAttempts = 1
  MaxFolds = 1
  Mishaps = {"remote"}
SPECIFICATION FairSpec
PROPERTIES Resumable
CHECK_DEADLOCK FALSE
