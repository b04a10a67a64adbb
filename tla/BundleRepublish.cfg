\* A bundle that stays approved is published again.
SPECIFICATION Spec
CONSTANTS
  Bundle = {b1}
  Page = {p1}
  Web = {w1}
  Cron = {k1}
  WithDatasets = {}
  WithCalendar = {b1}
  MaxVersion = 2
  MaxTime = 1
  IncludeFuture = 1
SYMMETRY Symmetry
INVARIANTS LiveWasReviewed
CHECK_DEADLOCK FALSE
