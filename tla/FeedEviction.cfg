SPECIFICATION FairSpec
CONSTANTS
  Users = {alice, bob}
  Authors = {alice, bob}
  Posters = {p1}
  Readers = {bob}
  Limit = 1
  MaxPosts = 2
  MayAbort = FALSE
  MayEvict = TRUE
PROPERTIES
  PostsArrive
  ScrollsEnd
