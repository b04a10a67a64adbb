\* One admin request at a time beside the scheduled command, two bundles that want one page.
SPECIFICATION FairSpec
CONSTANTS
  Bundle = {b1, b2}
  Page = {p1}
  Web = {w1}
  Cron = {k1}
  WithDatasets = {}
  WithCalendar = {}
  MaxVersion = 1
  MaxTime = 1
  IncludeFuture = 1
INVARIANTS OneActiveBundle
PROPERTIES DueBundleIsHandled
CHECK_DEADLOCK FALSE
