----------------------------- MODULE FeedFanout -----------------------------
(***************************************************************************)
(* Fan-out on write and cache-aside reads: POST /posts (api/posts.py),     *)
(* FeedService (feed/service.py), follow and unfollow, and GET /feed       *)
(* (api/feed.py), over two stores that are not written atomically:         *)
(* timeline_entries in Postgres and the sorted sets feed:{user} in Redis.  *)
(*                                                                         *)
(* Post ids come from one sequence: a post is its index in `posts`.  Every *)
(* post modelled here carries an attachment; a post that has none takes    *)
(* the same steps.  Posts and users are never deleted by the API.          *)
(***************************************************************************)
EXTENDS Naturals, Sequences, FiniteSets

CONSTANTS Users,
          Authors,      \* the users who post, and are followed
          Posters,      \* slots for concurrent POST /posts
          Readers,      \* the users who scroll through their feed
          Limit,        \* page size of GET /feed
          MaxPosts,     \* bound: posts ever created
          MayAbort,     \* requests may end before their last commit
          MayEvict      \* Redis may drop a feed key

ASSUME BoundsAssumption == Limit \in Nat \ {0} /\ MaxPosts \in Nat
ASSUME UsersAssumption == Readers \subseteq Users /\ Authors \subseteq Users
ASSUME FaultsAssumption == MayAbort \in BOOLEAN /\ MayEvict \in BOOLEAN

VARIABLES
  follows,    \* rows of follows: <<follower, followee>>
  posts,      \* committed posts, by id: the author
  timeline,   \* committed timeline_entries: per user, post ids
  linked,     \* posts whose post_attachments rows are committed
  cache,      \* per user, the members of feed:{user}; {} if no key
  acked,      \* posts whose 201 was sent
  pr,         \* per slot: where create_post is, and what it loaded
  rd,         \* per reader: where a scroll is
  steady,     \* history: who followed the author ever since it was created
  window      \* history: who followed the author at some time since then

db == <<follows, posts, timeline, linked>>
history == <<steady, window>>
vars == <<follows, posts, timeline, linked, cache, acked, pr, rd, steady, window>>

PostIds == 1..MaxPosts
Ids == 1..Len(posts)
NoPost == 0
NoCursor == MaxPosts + 1     \* before = None: every id is below it

FollowersOf(u) == {f \in Users : <<f, u>> \in follows}

IdlePost == [pc |-> "idle", post |-> NoPost, to |-> {}]
IdleRead == [pc |-> "idle", before |-> NoCursor, page |-> {}, got |-> {}, want |-> {}]

Init ==
  /\ follows = {}
  /\ posts = <<>>
  /\ timeline = [u \in Users |-> {}]
  /\ linked = {}
  /\ cache = [u \in Users |-> {}]
  /\ acked = {}
  /\ pr = [k \in Posters |-> IdlePost]
  /\ rd = [u \in Readers |-> IdleRead]
  /\ steady = [p \in PostIds |-> {}]
  /\ window = [p \in PostIds |-> {}]
-----------------------------------------------------------------------------
(* The social graph. *)

\* Posts that are committed but whose followers are not listed yet.
Unlisted(e) == {p \in Ids : /\ posts[p] = e
                            /\ \E k \in Posters : pr[k].pc = "created" /\ pr[k].post = p}

\* POST /users/{e}/follow.  A second row violates the primary key: 409.
Follow(f, e) ==
  /\ f # e
  /\ <<f, e>> \notin follows
  /\ follows' = follows \cup {<<f, e>>}
  /\ window' = [p \in PostIds |-> IF p \in Unlisted(e) THEN window[p] \cup {f}
                                                       ELSE window[p]]
  /\ UNCHANGED <<posts, timeline, linked, cache, acked, pr, rd, steady>>

\* DELETE /users/{e}/follow: the row goes when the DELETE commits.
Unfollow(f, e) ==
  /\ <<f, e>> \in follows
  /\ follows' = follows \ {<<f, e>>}
  /\ steady' = [p \in PostIds |-> IF p \in Unlisted(e) THEN steady[p] \ {f}
                                                       ELSE steady[p]]
  /\ UNCHANGED <<posts, timeline, linked, cache, acked, pr, rd, window>>
-----------------------------------------------------------------------------
(* POST /posts. *)

\* Faulty variant: the post is not committed before it is fanned out.
CreatePostUncommitted(k, u) ==
  /\ pr[k].pc = "idle"
  /\ Len(posts) < MaxPosts
  /\ pr' = [pr EXCEPT ![k] = [pc |-> "created", post |-> Len(posts) + 1, to |-> {}]]
  /\ UNCHANGED <<db, cache, acked, rd, history>>

\* PostRepository.create commits the post before anything else is written.
CreatePost(k, u) ==
  /\ pr[k].pc = "idle"
  /\ Len(posts) < MaxPosts
  /\ posts' = Append(posts, u)
  /\ pr' = [pr EXCEPT ![k] = [pc |-> "created", post |-> Len(posts) + 1, to |-> {}]]
  /\ steady' = [steady EXCEPT ![Len(posts) + 1] = FollowersOf(u)]
  /\ window' = [window EXCEPT ![Len(posts) + 1] = FollowersOf(u)]
  /\ UNCHANGED <<follows, timeline, linked, cache, acked, rd>>

\* Faulty variant: lists whom the author follows.
ListFollowees(k) ==
  /\ pr[k].pc = "created"
  /\ pr' = [pr EXCEPT ![k].pc = "listed",
                      ![k].to = {e \in Users : <<posts[pr[k].post], e>> \in follows}]
  /\ UNCHANGED <<db, cache, acked, rd, history>>

\* The post_attachments rows are flushed, the followers listed and the
\* timeline rows inserted: nobody else sees the rows before the commit.
ListFollowers(k) ==
  /\ pr[k].pc = "created"
  /\ pr' = [pr EXCEPT ![k].pc = "listed", ![k].to = FollowersOf(posts[pr[k].post])]
  /\ UNCHANGED <<db, cache, acked, rd, history>>

Recipients(k) == pr[k].to \cup {posts[pr[k].post]}

\* One MULTI/EXEC with a ZADD per recipient, before the commit.
CacheFanout(k) ==
  /\ pr[k].pc = "listed"
  /\ cache' = [u \in Users |-> IF u \in Recipients(k) THEN cache[u] \cup {pr[k].post}
                                                      ELSE cache[u]]
  /\ pr' = [pr EXCEPT ![k].pc = "cached"]
  /\ UNCHANGED <<db, acked, rd, history>>

\* Faulty variant: the commit need not wait for Redis.
CommitFirst(k) ==
  /\ pr[k].pc \in {"listed", "cached"}
  /\ timeline' = [u \in Users |-> IF u \in Recipients(k) THEN timeline[u] \cup {pr[k].post}
                                                         ELSE timeline[u]]
  /\ linked' = linked \cup {pr[k].post}
  /\ pr' = [pr EXCEPT ![k].pc = "committed"]
  /\ UNCHANGED <<follows, posts, cache, acked, rd, history>>

\* fan_out_post commits the links and the timeline rows together.
CommitFanout(k) ==
  /\ pr[k].pc = "cached"
  /\ timeline' = [u \in Users |-> IF u \in Recipients(k) THEN timeline[u] \cup {pr[k].post}
                                                         ELSE timeline[u]]
  /\ linked' = linked \cup {pr[k].post}
  /\ pr' = [pr EXCEPT ![k].pc = "committed"]
  /\ UNCHANGED <<follows, posts, cache, acked, rd, history>>

\* Faulty variant: the response does not wait for the commit.
RespondEarly(k) ==
  /\ pr[k].pc \in {"cached", "committed"}
  /\ acked' = acked \cup {pr[k].post}
  /\ pr' = [pr EXCEPT ![k] = IdlePost]
  /\ UNCHANGED <<db, cache, rd, history>>

Respond(k) ==
  /\ pr[k].pc = "committed"
  /\ acked' = acked \cup {pr[k].post}
  /\ pr' = [pr EXCEPT ![k] = IdlePost]
  /\ UNCHANGED <<db, cache, rd, history>>

\* A Redis or database error (500), or the API process dying: the open
\* transaction is rolled back, and what Redis was told stays.
PostAborts(k) ==
  /\ MayAbort
  /\ pr[k].pc # "idle"
  /\ pr' = [pr EXCEPT ![k] = IdlePost]
  /\ UNCHANGED <<db, cache, acked, rd, history>>

\* Redis evicts or loses the key.
Evict(u) ==
  /\ MayEvict
  /\ cache[u] # {}
  /\ cache' = [cache EXCEPT ![u] = {}]
  /\ UNCHANGED <<db, acked, pr, rd, history>>
-----------------------------------------------------------------------------
(* GET /feed: one request per page, the next one when the user asks for it. *)

\* Faulty variant: an inclusive bound.
PageInclusive(S, before) ==
  LET below == {p \in S : p <= before}
  IN  {p \in below : Cardinality({q \in below : q > p}) < Limit}

\* The newest Limit ids of S below the cursor: ZREVRANGE, ZREVRANGEBYSCORE
\* with an exclusive bound, and ORDER BY post_id DESC LIMIT alike.
Page(S, before) ==
  LET below == {p \in S : p < before}
  IN  {p \in below : Cardinality({q \in below : q > p}) < Limit}

\* The first page, of a visit or of a reload.
ReadStart(u) ==
  /\ rd[u].pc \in {"idle", "more", "done"}
  /\ rd' = [rd EXCEPT ![u] = [pc |-> "cache", before |-> NoCursor, page |-> {},
                              got |-> {}, want |-> timeline[u]]]
  /\ UNCHANGED <<db, cache, acked, pr, history>>

\* A click on "Load older posts": a request of its own, before the last cursor.
ReadMore(u) ==
  /\ rd[u].pc = "more"
  /\ rd' = [rd EXCEPT ![u].pc = "cache"]
  /\ UNCHANGED <<db, cache, acked, pr, history>>

\* Any member in range is taken for the whole answer.
ReadCache(u) ==
  /\ rd[u].pc = "cache"
  /\ Page(cache[u], rd[u].before) # {}
  /\ rd' = [rd EXCEPT ![u].pc = "hydrate", ![u].page = Page(cache[u], rd[u].before)]
  /\ UNCHANGED <<db, cache, acked, pr, history>>

ReadMiss(u) ==
  /\ rd[u].pc = "cache"
  /\ Page(cache[u], rd[u].before) = {}
  /\ rd' = [rd EXCEPT ![u].pc = "timeline"]
  /\ UNCHANGED <<db, cache, acked, pr, history>>

ReadTimeline(u) ==
  /\ rd[u].pc = "timeline"
  /\ rd' = [rd EXCEPT ![u].pc = "hydrate", ![u].page = Page(timeline[u], rd[u].before)]
  /\ UNCHANGED <<db, cache, acked, pr, history>>

\* Faulty variant: the next cursor is one below the last id.
HydrateSkipping(u) ==
  LET items == rd[u].page \cap Ids IN
  /\ rd[u].pc = "hydrate"
  /\ rd' = [rd EXCEPT ![u] =
       [pc |-> IF Cardinality(items) = Limit THEN "more" ELSE "done",
        before |-> IF Cardinality(items) = Limit
                     THEN (CHOOSE p \in items : \A q \in items : p <= q) - 1
                     ELSE NoCursor,
        page |-> {}, got |-> rd[u].got \cup items, want |-> rd[u].want]]
  /\ UNCHANGED <<db, cache, acked, pr, history>>

\* hydrate keeps the ids whose post exists.  The answer to a full page has a
\* next cursor, its last id; a short page ends the scroll.
Hydrate(u) ==
  LET items == rd[u].page \cap Ids IN
  /\ rd[u].pc = "hydrate"
  /\ rd' = [rd EXCEPT ![u] =
       [pc |-> IF Cardinality(items) = Limit THEN "more" ELSE "done",
        before |-> IF Cardinality(items) = Limit
                     THEN CHOOSE p \in items : \A q \in items : p <= q
                     ELSE NoCursor,
        page |-> {}, got |-> rd[u].got \cup items, want |-> rd[u].want]]
  /\ UNCHANGED <<db, cache, acked, pr, history>>
-----------------------------------------------------------------------------
PosterStep(k) ==
  \/ ListFollowers(k)
  \/ CacheFanout(k)
  \/ CommitFanout(k)
  \/ Respond(k)

ReaderStep(u) ==
  \/ ReadCache(u)
  \/ ReadMiss(u)
  \/ ReadTimeline(u)
  \/ Hydrate(u)

Next ==
  \/ \E f \in Users : \E e \in Authors : Follow(f, e) \/ Unfollow(f, e)
  \/ \E k \in Posters : \E u \in Authors : CreatePost(k, u)
  \/ \E k \in Posters : PosterStep(k) \/ PostAborts(k)
  \/ \E u \in Users : Evict(u)
  \/ \E u \in Readers : ReadStart(u) \/ ReadMore(u) \/ ReaderStep(u)

Spec == Init /\ [][Next]_vars

\* A request that is being served runs on.  Nothing is promised of clients:
\* nobody has to post, to scroll or to ask for the next page.
FairSpec ==
  /\ Spec
  /\ \A k \in Posters : WF_vars(PosterStep(k))
  /\ \A u \in Readers : WF_vars(ReaderStep(u))
-----------------------------------------------------------------------------
PostRecord ==
  [pc : {"idle", "created", "listed", "cached", "committed"},
   post : {NoPost} \cup PostIds, to : SUBSET Users]
ReadRecord ==
  [pc : {"idle", "cache", "timeline", "hydrate", "more", "done"},
   before : 1..NoCursor, page : SUBSET PostIds, got : SUBSET PostIds,
   want : SUBSET PostIds]

\* Every variable holds a value of its kind, and a request that is being
\* served names a committed post.
TypeOK ==
  /\ follows \subseteq Users \X Users
  /\ posts \in Seq(Users) /\ Len(posts) <= MaxPosts
  /\ timeline \in [Users -> SUBSET Ids]
  /\ linked \subseteq Ids
  /\ cache \in [Users -> SUBSET Ids]
  /\ acked \subseteq Ids
  /\ pr \in [Posters -> PostRecord]
  /\ rd \in [Readers -> ReadRecord]
  /\ steady \in [PostIds -> SUBSET Users]
  /\ window \in [PostIds -> SUBSET Users]
  /\ \A k \in Posters : pr[k].pc # "idle" => pr[k].post \in Ids
-----------------------------------------------------------------------------
(* Safety. *)

\* Once the author is told 201, the post is durably in the timeline of the
\* author and of everyone who followed throughout: the fan-out is in the
\* request path (posts.py:76-80, service.py:3-7), although feed spec.md:45-47
\* asks for a 201 before it.  And nobody got the post, durably or from the
\* cache, who never followed while it was being fanned out (feed
\* spec.md:11-13 and 26-28).
DeliveredToFollowers ==
  \A p \in Ids :
    /\ p \in acked => \A u \in steady[p] \cup {posts[p]} : p \in timeline[u]
    /\ \A u \in Users :
         p \in timeline[u] \cup cache[u] => u \in window[p] \cup {posts[p]}

\* As long as Redis drops nothing, the cache is never behind the durable
\* timeline: ZADD precedes the commit (service.py:50-59).
CacheCoversTimeline == \A u \in Users : timeline[u] \subseteq cache[u]

\* A scroll has shown, down to its cursor or to the end, every post that was
\* in the timeline when it began, and no page repeats a post of an earlier
\* one, whatever was posted meanwhile and whichever store a page came from
\* (service.py:62-86, feed.py:73-78).
ScrollComplete ==
  \A u \in Readers :
    /\ rd[u].pc = "done" => rd[u].want \subseteq rd[u].got
    /\ rd[u].pc = "more" => \A p \in rd[u].want : p >= rd[u].before => p \in rd[u].got
    /\ rd[u].pc = "hydrate" => rd[u].page \cap rd[u].got = {}

\* A committed post reaches its author's timeline, when no request dies.
PostsArrive ==
  \A u \in Users : \A p \in PostIds :
    (p \in Ids /\ posts[p] = u) ~> (p \in timeline[u])

\* A page that is asked for is answered, and a user who goes on asking for
\* older posts comes to the end: an endless run of next pages takes endlessly
\* many reloads, whatever is posted and evicted meanwhile (feed.py:73-78).
ScrollsEnd ==
  \A u \in Readers :
    /\ (rd[u].pc = "cache") ~> (rd[u].pc \in {"more", "done"})
    /\ []<><<ReadMore(u)>>_vars => []<><<ReadStart(u)>>_vars

\* Delivery is atomic, at most once, and precedes the acknowledgement: the
\* fan-out is in the request path (service.py:3-7), although feed
\* spec.md:45-47 asks for a 201 before it.
Delivery == INSTANCE FeedDelivery WITH delivered <- linked
ImplementsDelivery == Delivery!DSpec
=============================================================================
