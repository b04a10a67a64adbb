\* Two bundles, a pool of two workers; the first bundle may be published twice.
SPECIFICATION Spec
CONSTANTS
  Bundle = {b1, b2}
  Worker = {w1, w2}
  MaxTask = 6
  MaxFailures = 1
SYMMETRY Symmetry
INVARIANTS TypeOK NeverStuck InOrder PublicationIsTold
CHECK_DEADLOCK FALSE
