SPECIFICATION Spec
CONSTANTS
  Users = {alice, bob}
  Authors = {alice}
  Posters = {p1, p2}
  Readers = {bob}
  Limit = 1
  MaxPosts = 3
  MayAbort = TRUE
  MayEvict = FALSE
SYMMETRY SlotSymmetry
INVARIANTS
  TypeOK
  DeliveredToFollowers
  CacheCoversTimeline
  ScrollComplete
PROPERTIES
  ImplementsDelivery
