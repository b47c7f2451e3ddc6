SPECIFICATION Spec
CONSTANTS
  Users = {alice, bob}
  Authors = {alice}
  Posters = {p1}
  Readers = {bob}
  Limit = 2
  MaxPosts = 2
  MayAbort = FALSE
  MayEvict = TRUE
INVARIANTS
  ScrollComplete
