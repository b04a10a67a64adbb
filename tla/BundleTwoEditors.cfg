\* Two requests put the same page into two bundles.
SPECIFICATION Spec
CONSTANTS
  Bundle = {b1, b2}
  Page = {p1}
  Web = {w1, w2}
  Cron = {}
  WithDatasets = {}
  WithCalendar = {}
  MaxVersion = 1
  MaxTime = 1
  IncludeFuture = 1
SYMMETRY Symmetry
INVARIANTS OneActiveBundle
CHECK_DEADLOCK FALSE
