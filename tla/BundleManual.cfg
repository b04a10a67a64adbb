\* One admin request at a time, publishing by hand, no scheduled command.
SPECIFICATION Spec
CONSTANTS
  Bundle = {b1}
  Page = {p1, p2}
  Web = {w1}
  Cron = {}
  WithDatasets = {}
  WithCalendar = {}
  MaxVersion = 2
  MaxTime = 1
  IncludeFuture = 1
SYMMETRY Symmetry
INVARIANTS LiveWasReviewed PublishedIsLive
PROPERTIES ApprovedWhenReady ApprovedPagesLocked FollowsStatusFlow
CHECK_DEADLOCK FALSE
