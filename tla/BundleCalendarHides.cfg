\* A page and the release calendar page fail in one manual publication.
SPECIFICATION Spec
CONSTANTS
  Bundle = {b1}
  Page = {p1}
  Web = {w1}
  Cron = {}
  WithDatasets = {}
  WithCalendar = {b1}
  MaxVersion = 1
  MaxTime = 1
  IncludeFuture = 1
SYMMETRY Symmetry
INVARIANTS PublishedIsLive
CHECK_DEADLOCK FALSE
