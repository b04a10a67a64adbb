\* Two admin requests beside a publish_bundles process.
SPECIFICATION Spec
CONSTANTS
  Bundle = {b1}
  Page = {p1}
  Web = {w1, w2}
  Cron = {k1}
  WithDatasets = {}
  WithCalendar = {b1}
  MaxVersion = 1
  MaxTime = 1
  IncludeFuture = 1
SYMMETRY Symmetry
INVARIANTS TypeOK ApprovalStamp
CHECK_DEADLOCK FALSE
