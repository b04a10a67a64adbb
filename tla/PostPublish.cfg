SPECIFICATION FairSpec
CONSTANTS
  Page = {p1}
  Type = {t1}
  MaxRun = 3
  MaxRetries = 1
  MaxPublications = 2
  MaxCrashes = 1
  OnePublisher = TRUE
INVARIANTS TypeOK SuccessIsHonest
PROPERTY ActionsAreSettled
CHECK_DEADLOCK FALSE
