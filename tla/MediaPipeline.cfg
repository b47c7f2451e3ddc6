SPECIFICATION FairSpec
CONSTANTS
  Images = {i1}
  Videos = {}
  Requests = {r1}
  Posters = {k1}
  Workers = {w1}
  CrashProne = {w1}
  NumRetries = 1
  MaxQueue = 2
  None = None
INVARIANTS
  TypeOK
  ThumbStored
  JobsAreCompletedImages
  PostedAreCompleted
  ProcessingIsOwned
PROPERTIES
  ReadyWithdrawnByHolder
  JobsResolve
  ProcessingEnds
