SPECIFICATION Spec
CONSTANTS
  Page = {p1}
  Type = {t1}
  MaxRun = 3
  MaxRetries = 1
  MaxPublications = 1
  MaxCrashes = 0
  OnePublisher = TRUE
PROPERTY SuccessIsFinal
CHECK_DEADLOCK FALSE
