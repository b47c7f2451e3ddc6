SPECIFICATION Spec
CONSTANTS
  Images = {i1}
  Videos = {}
  Requests = {r1}
  Posters = {}
  Workers = {w1, w2}
  CrashProne = {}
  NumRetries = 1
  MaxQueue = 2
  None = None
SYMMETRY MediaSymmetry
INVARIANTS
  DoneIsReady
