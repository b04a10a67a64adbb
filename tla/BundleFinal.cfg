\* A stale or late request against a published bundle.
SPECIFICATION Spec
CONSTANTS
  Bundle = {b1}
  Page = {p1}
  Web = {w1}
  Cron = {k1}
  WithDatasets = {}
  WithCalendar = {}
  MaxVersion = 2
  MaxTime = 1
  IncludeFuture = 1
SYMMETRY Symmetry
PROPERTIES PublishedIsFinal
CHECK_DEADLOCK FALSE
