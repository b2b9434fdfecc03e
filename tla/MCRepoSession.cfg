CONSTANTS
  Request = {r1, r2}
  PlainCaller = {pc}
  NoRequest = none
  FetchId = {f1}
  MaxGeneration = 3
  MaxReaders = 2
SPECIFICATION Spec
SYMMETRY MCSymmetry
CHECK_DEADLOCK FALSE
INVARIANTS TypeOK NothingLeaks  InFlightIsCancellable
PROPERTIES LiveNeverGoesBack EndKeepsLiveReaders
