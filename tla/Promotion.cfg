CONSTANTS
  MaxCommit = 4
  MaxAttempts = 2
  MaxFolds = 2
  Mishaps = {"remote", "advance", "failure", "restart"}
SPECIFICATION Spec
INVARIANTS TypeOK HeadBack
PROPERTIES ImplementsLedger NothingLost Landed PromoteBounded
CHECK_DEADLOCK FALSE
