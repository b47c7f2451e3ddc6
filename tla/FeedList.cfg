SPECIFICATION Spec
CONSTANTS
  Limit = 2
  MaxPosts = 4
  MaxDrafts = 2
  MaxRefreshes = 2
INVARIANTS
  TypeOK
  ListIsFeed
  OwnPostsShown
  TextIsPosted
