-------------------------- MODULE FeedFanout_proofs --------------------------
(***************************************************************************)
(* Proofs about FeedFanout for any users, authors, concurrent requests,    *)
(* page size and number of posts, with aborts and, where the property      *)
(* allows it, evictions.                                                   *)
(*                                                                         *)
(* The invariant follows a post through create_post: a slot owns its post, *)
(* which is not delivered before the commit; the followers it listed lie   *)
(* between those who followed throughout and those who ever did; and what  *)
(* was acknowledged is where it was to go.  From it follow the delivery    *)
(* property and the refinement of FeedDelivery; two shorter invariants     *)
(* give the rest.                                                          *)
(***************************************************************************)
EXTENDS FeedFanout, FiniteSetTheorems, WellFoundedInduction, TLAPS

\* No two requests work on one post.
OwnPost ==
  \A k, l \in Posters :
    pr[k].pc # "idle" /\ pr[l].pc # "idle" /\ pr[k].post = pr[l].post => k = l

\* Before the listing, who follows lies between the two histories.
CreatedOK ==
  \A k \in Posters : pr[k].pc = "created" =>
    /\ steady[pr[k].post] \subseteq FollowersOf(posts[pr[k].post])
    /\ FollowersOf(posts[pr[k].post]) \subseteq window[pr[k].post]

\* After it, who was listed does.
ListedOK ==
  \A k \in Posters : pr[k].pc \in {"listed", "cached", "committed"} =>
    /\ steady[pr[k].post] \subseteq pr[k].to
    /\ pr[k].to \subseteq window[pr[k].post]

\* A post is linked, and delivered, by the commit of its slot.
UndeliveredOK ==
  \A k \in Posters :
    pr[k].pc \in {"created", "listed", "cached"} => pr[k].post \notin linked

CommittedOK ==
  \A k \in Posters : pr[k].pc = "committed" =>
    /\ pr[k].post \in linked
    /\ \A u \in Recipients(k) : pr[k].post \in timeline[u]

AckedOK == acked \subseteq linked

\* The inductive invariant.
IInv ==
  /\ TypeOK
  /\ OwnPost
  /\ CreatedOK
  /\ ListedOK
  /\ UndeliveredOK
  /\ CommittedOK
  /\ AckedOK
  /\ DeliveredToFollowers
-----------------------------------------------------------------------------
Less == {ss \in Nat \X Nat : ss[1] < ss[2]}

\* A non-empty set of naturals has a least element: the cursor of a page.
LEMMA LeastElement ==
  ASSUME NEW S \in SUBSET Nat, S # {}
  PROVE  \E p \in S : \A q \in S : p <= q
<1>1. IsWellFoundedOn(Less, Nat)
  BY NatLessThanWellFounded DEF OpToRel, Less
<1>2. PICK p \in S : \A q \in S : ~(<<q, p>> \in Less)
  BY <1>1, WFMin
<1>3. \A q \in S : ~(q < p)
  BY <1>2 DEF Less
<1> QED BY <1>3

\* The bounds, and the ids they give.
LEMMA Bounds ==
  /\ MaxPosts \in Nat /\ Limit \in Nat /\ Limit > 0
  /\ NoCursor = MaxPosts + 1 /\ PostIds = 1..MaxPosts /\ NoPost = 0
  /\ Authors \subseteq Users /\ Readers \subseteq Users
BY BoundsAssumption, UsersAssumption DEF NoCursor, PostIds, NoPost

\* An appended post is the only new one.
LEMMA AppendPost ==
  ASSUME NEW s \in Seq(Users), NEW u \in Users
  PROVE  /\ Append(s, u) \in Seq(Users)
         /\ Len(Append(s, u)) = Len(s) + 1
         /\ Append(s, u)[Len(s) + 1] = u
         /\ \A i \in 1..Len(s) : Append(s, u)[i] = s[i]
OBVIOUS

\* The last id of a full page is one of its ids: a page is not empty.
LEMMA LastOfPage ==
  ASSUME NEW S \in SUBSET PostIds, Cardinality(S) = Limit
  PROVE  (CHOOSE p \in S : \A q \in S : p <= q) \in 1..MaxPosts
<1>1. S # {}
  BY FS_EmptySet, Bounds
<1>2. S \in SUBSET Nat /\ S \subseteq 1..MaxPosts
  BY Bounds
<1>3. \E p \in S : \A q \in S : p <= q
  BY <1>1, <1>2, LeastElement
<1>4. (CHOOSE p \in S : \A q \in S : p <= q) \in S
  BY <1>3
<1> QED BY <1>2, <1>4

\* A page of a set of ids is a set of them.
LEMMA PageIsSubset == \A S, b : Page(S, b) \subseteq S
BY DEF Page

\* Every initial state satisfies the invariant.
LEMMA InitInvariant == Init => IInv
<1> SUFFICES ASSUME Init PROVE IInv
  OBVIOUS
<1> USE Bounds DEF Init
<1>1. TypeOK
  BY DEF TypeOK, IdlePost, IdleRead, PostRecord, ReadRecord, Ids
<1>2. OwnPost /\ CreatedOK /\ ListedOK /\ UndeliveredOK /\ CommittedOK
  BY DEF OwnPost, CreatedOK, ListedOK, UndeliveredOK, CommittedOK, IdlePost
<1>3. AckedOK /\ DeliveredToFollowers
  BY DEF AckedOK, DeliveredToFollowers, Ids
<1> QED BY <1>1, <1>2, <1>3 DEF IInv
-----------------------------------------------------------------------------
(* Type correctness. *)

\* A step of a scroll changes the reader's record only, and keeps its type.
LEMMA ReaderTypes ==
  ASSUME TypeOK, NEW u \in Readers, ReadStart(u) \/ ReadMore(u) \/ ReaderStep(u)
  PROVE  TypeOK'
<1> USE Bounds DEF TypeOK, ReadRecord, db, history, Ids
<1>0. timeline[u] \subseteq PostIds /\ cache[u] \subseteq PostIds /\ rd[u] \in ReadRecord
  OBVIOUS
<1>1. CASE ReadStart(u)
  BY <1>0, <1>1 DEF ReadStart
<1>2. CASE ReadCache(u)
  <2>1. Page(cache[u], rd[u].before) \subseteq PostIds
    BY <1>0, PageIsSubset
  <2> QED BY <1>0, <1>2, <2>1 DEF ReadCache
<1>3. CASE ReadMiss(u)
  BY <1>0, <1>3 DEF ReadMiss
<1>4. CASE ReadTimeline(u)
  <2>1. Page(timeline[u], rd[u].before) \subseteq PostIds
    BY <1>0, PageIsSubset
  <2> QED BY <1>0, <1>4, <2>1 DEF ReadTimeline
<1>5. CASE Hydrate(u)
  <2> DEFINE items == rd[u].page \cap Ids
             next == IF Cardinality(items) = Limit
                       THEN CHOOSE p \in items : \A q \in items : p <= q
                       ELSE NoCursor
  <2>1. items \in SUBSET PostIds
    BY <1>0
  <2>4. next \in 1..NoCursor
    <3> HIDE DEF items
    <3>1. CASE Cardinality(items) = Limit
      BY <2>1, <3>1, LastOfPage
    <3>2. CASE Cardinality(items) # Limit
      BY <3>2
    <3> QED BY <3>1, <3>2
  <2>5. rd' = [rd EXCEPT ![u] =
                 [pc |-> IF Cardinality(items) = Limit THEN "more" ELSE "done",
                  before |-> next, page |-> {}, got |-> rd[u].got \cup items,
                  want |-> rd[u].want]]
    BY <1>5 DEF Hydrate
  <2>6. rd' \in [Readers -> ReadRecord]
    <3> HIDE DEF items, next
    <3> QED BY <1>0, <2>1, <2>4, <2>5
  <2> QED BY <1>5, <2>6 DEF Hydrate
<1>6. CASE ReadMore(u)
  BY <1>0, <1>6 DEF ReadMore
<1> QED BY <1>1, <1>2, <1>3, <1>4, <1>5, <1>6 DEF ReaderStep

\* A step of create_post keeps the types.
LEMMA PosterTypes ==
  ASSUME TypeOK, NEW k \in Posters, PosterStep(k) \/ PostAborts(k)
  PROVE  TypeOK'
<1> USE Bounds DEF TypeOK, PostRecord, db, history, Ids
<1>0. pr[k] \in PostRecord /\ (pr[k].pc # "idle" => pr[k].post \in 1..Len(posts))
  OBVIOUS
<1>1. CASE ListFollowers(k)
  BY <1>0, <1>1 DEF ListFollowers, FollowersOf
<1>2. CASE CacheFanout(k)
  BY <1>0, <1>2 DEF CacheFanout
<1>3. CASE CommitFanout(k)
  BY <1>0, <1>3 DEF CommitFanout
<1>4. CASE Respond(k)
  BY <1>0, <1>4 DEF Respond, IdlePost
<1>5. CASE PostAborts(k)
  BY <1>0, <1>5 DEF PostAborts, IdlePost
<1> QED BY <1>1, <1>2, <1>3, <1>4, <1>5 DEF PosterStep

\* A new post keeps the types.
LEMMA CreateTypes ==
  ASSUME TypeOK, NEW k \in Posters, NEW u \in Authors, CreatePost(k, u)
  PROVE  TypeOK'
<1> USE Bounds DEF TypeOK, PostRecord, db, history
<1>1. posts' \in Seq(Users) /\ Len(posts') = Len(posts) + 1 /\ Len(posts') <= MaxPosts
  BY AppendPost DEF CreatePost
<1>2. Ids \subseteq Ids' /\ Len(posts) + 1 \in Ids' /\ Len(posts) + 1 \in PostIds
  BY <1>1 DEF Ids
<1>3. pr' \in [Posters -> PostRecord]
  BY <1>2 DEF CreatePost
<1>4. \A l \in Posters : pr'[l].pc # "idle" => pr'[l].post \in Ids'
  BY <1>2 DEF CreatePost
<1>5. steady' \in [PostIds -> SUBSET Users] /\ window' \in [PostIds -> SUBSET Users]
  BY DEF CreatePost, FollowersOf
<1> QED BY <1>1, <1>2, <1>3, <1>4, <1>5 DEF CreatePost

\* Every step keeps the types.
LEMMA TypeStep == TypeOK /\ [Next]_vars => TypeOK'
<1> SUFFICES ASSUME TypeOK, [Next]_vars PROVE TypeOK'
  OBVIOUS
<1> USE Bounds
<1>1. ASSUME NEW f \in Users, NEW e \in Authors, Follow(f, e) PROVE TypeOK'
  BY <1>1 DEF Follow, TypeOK, Ids
<1>2. ASSUME NEW f \in Users, NEW e \in Authors, Unfollow(f, e) PROVE TypeOK'
  BY <1>2 DEF Unfollow, TypeOK, Ids
<1>3. ASSUME NEW u \in Users, Evict(u) PROVE TypeOK'
  BY <1>3 DEF Evict, TypeOK, db, history, Ids
<1>4. CASE UNCHANGED vars
  BY <1>4 DEF vars, TypeOK, Ids
<1> QED BY <1>1, <1>2, <1>3, <1>4, ReaderTypes, PosterTypes, CreateTypes DEF Next

\* The specification keeps its types.
THEOREM TypeCorrect == Spec => []TypeOK
<1>1. Init => TypeOK
  BY InitInvariant DEF IInv
<1> QED BY <1>1, TypeStep, PTL DEF Spec
-----------------------------------------------------------------------------
(* The invariant, action by action. *)

\* What a request in flight works on is a post, by a user.
LEMMA InFlight ==
  ASSUME TypeOK, NEW k \in Posters, pr[k].pc # "idle"
  PROVE  /\ pr[k].post \in Ids /\ pr[k].post \in PostIds
         /\ posts[pr[k].post] \in Users
         /\ pr[k].to \subseteq Users
<1> USE Bounds DEF TypeOK, PostRecord, Ids
<1>1. pr[k] \in PostRecord /\ pr[k].post \in 1..Len(posts)
  OBVIOUS
<1>2. Len(posts) \in Nat /\ Len(posts) <= MaxPosts
  OBVIOUS
<1>3. posts[pr[k].post] \in Users
  BY <1>1
<1> QED BY <1>1, <1>2, <1>3

\* A scroll touches nothing the invariant speaks of.
LEMMA ReaderInvariant ==
  ASSUME IInv, UNCHANGED <<db, cache, acked, pr, history>>
  PROVE  /\ OwnPost' /\ CreatedOK' /\ ListedOK' /\ UndeliveredOK'
         /\ CommittedOK' /\ AckedOK' /\ DeliveredToFollowers'
BY DEF IInv, db, history, OwnPost, CreatedOK, ListedOK, UndeliveredOK, CommittedOK,
       AckedOK, DeliveredToFollowers, FollowersOf, Recipients, Ids

\* A follower who comes or goes is one of the window, or none of the steady.
LEMMA GraphInvariant ==
  ASSUME IInv, NEW f \in Users, NEW e \in Authors, Follow(f, e) \/ Unfollow(f, e)
  PROVE  /\ OwnPost' /\ CreatedOK' /\ ListedOK' /\ UndeliveredOK'
         /\ CommittedOK' /\ AckedOK' /\ DeliveredToFollowers'
<1> USE DEF IInv
<1>1. UNCHANGED <<posts, timeline, linked, cache, acked, pr>>
  BY DEF Follow, Unfollow
<1>2. OwnPost' /\ UndeliveredOK' /\ CommittedOK' /\ AckedOK'
  BY <1>1 DEF OwnPost, UndeliveredOK, CommittedOK, AckedOK, Recipients
<1>3. \A p \in PostIds : steady'[p] \subseteq steady[p] /\ window[p] \subseteq window'[p]
  BY DEF Follow, Unfollow, TypeOK
<1>4. ListedOK'
  BY <1>1, <1>3, InFlight DEF ListedOK
<1>5. CreatedOK'
  <2> SUFFICES ASSUME NEW k \in Posters, pr[k].pc = "created"
               PROVE  /\ steady'[pr[k].post] \subseteq FollowersOf(posts[pr[k].post])'
                      /\ FollowersOf(posts[pr[k].post])' \subseteq window'[pr[k].post]
    BY <1>1 DEF CreatedOK
  <2> DEFINE p == pr[k].post
             a == posts[p]
  <2>1. /\ p \in Ids /\ p \in PostIds
        /\ steady[p] \subseteq FollowersOf(a) /\ FollowersOf(a) \subseteq window[p]
        /\ steady[p] \subseteq Users /\ window[p] \subseteq Users
    BY InFlight DEF CreatedOK, TypeOK
  <2>2. a = e => p \in Unlisted(e)
    BY <2>1 DEF Unlisted
  <2> HIDE DEF p, a
  <2>3. /\ steady'[p] \subseteq {u \in Users : <<u, a>> \in follows'}
        /\ {u \in Users : <<u, a>> \in follows'} \subseteq window'[p]
    <3>1. CASE Follow(f, e)
      BY <2>1, <2>2, <3>1 DEF Follow, FollowersOf, TypeOK
    <3>2. CASE Unfollow(f, e)
      BY <2>1, <2>2, <3>2 DEF Unfollow, FollowersOf, TypeOK
    <3> QED BY <3>1, <3>2
  <2> QED BY <1>1, <2>3 DEF FollowersOf, p, a
<1>6. DeliveredToFollowers'
  <2>1. Ids' = Ids /\ Ids \subseteq PostIds
    BY <1>1, Bounds DEF Ids, TypeOK
  <2> QED BY <1>1, <1>3, <2>1 DEF DeliveredToFollowers
<1> QED BY <1>2, <1>4, <1>5, <1>6

\* A new post is in nobody's timeline, cache or request.
LEMMA CreateInvariant ==
  ASSUME IInv, NEW k \in Posters, NEW u \in Authors, CreatePost(k, u)
  PROVE  /\ OwnPost' /\ CreatedOK' /\ ListedOK' /\ UndeliveredOK'
         /\ CommittedOK' /\ AckedOK' /\ DeliveredToFollowers'
<1> USE Bounds DEF IInv
<1> DEFINE n == Len(posts) + 1
<1>1. /\ n \in PostIds /\ n \notin Ids /\ Ids' = Ids \cup {n} /\ Ids \subseteq PostIds
      /\ posts'[n] = u /\ \A p \in Ids : posts'[p] = posts[p]
  <2>1. posts \in Seq(Users) /\ u \in Users /\ Len(posts) \in Nat /\ posts' = Append(posts, u)
    BY DEF CreatePost, TypeOK
  <2>2. Len(posts') = n /\ posts'[n] = u /\ \A i \in 1..Len(posts) : posts'[i] = posts[i]
    BY <2>1, AppendPost
  <2> QED BY <2>1, <2>2 DEF Ids, CreatePost
<1> HIDE DEF n
<1>2. /\ pr' = [pr EXCEPT ![k] = [pc |-> "created", post |-> n, to |-> {}]]
      /\ UNCHANGED <<follows, timeline, linked, cache, acked>>
      /\ steady' = [steady EXCEPT ![n] = FollowersOf(u)]
      /\ window' = [window EXCEPT ![n] = FollowersOf(u)]
  BY DEF CreatePost, n
<1>3. /\ pr'[k] = [pc |-> "created", post |-> n, to |-> {}]
      /\ \A l \in Posters : l # k => pr'[l] = pr[l]
      /\ steady'[n] = FollowersOf(u) /\ window'[n] = FollowersOf(u)
      /\ \A p \in Ids : steady'[p] = steady[p] /\ window'[p] = window[p]
  BY <1>1, <1>2 DEF TypeOK
<1>4. \A l \in Posters : pr[l].pc # "idle" => pr[l].post \in Ids
  BY DEF TypeOK
<1>5. \A v : FollowersOf(v)' = FollowersOf(v)
  BY <1>2 DEF FollowersOf
<1>6. OwnPost'
  BY <1>1, <1>3, <1>4 DEF OwnPost
<1>7. CreatedOK'
  <2> SUFFICES ASSUME NEW l \in Posters, pr'[l].pc = "created"
               PROVE  /\ steady'[pr'[l].post] \subseteq FollowersOf(posts'[pr'[l].post])
                      /\ FollowersOf(posts'[pr'[l].post]) \subseteq window'[pr'[l].post]
    BY <1>5 DEF CreatedOK, FollowersOf
  <2>1. CASE l = k
    BY <1>1, <1>3, <2>1
  <2>2. CASE l # k
    <3>1. pr'[l] = pr[l] /\ pr[l].post \in Ids
      BY <1>3, <1>4, <2>2
    <3>2. /\ posts'[pr[l].post] = posts[pr[l].post]
          /\ steady'[pr[l].post] = steady[pr[l].post]
          /\ window'[pr[l].post] = window[pr[l].post]
      BY <1>1, <1>3, <3>1
    <3> QED BY <3>1, <3>2 DEF CreatedOK
  <2> QED BY <2>1, <2>2
<1>8. ListedOK'
  BY <1>3, <1>4 DEF ListedOK
<1>9. UndeliveredOK'
  BY <1>1, <1>2, <1>3 DEF UndeliveredOK, TypeOK
<1>10. CommittedOK'
  <2>1. \A l \in Posters : pr'[l].pc = "committed" =>
          pr'[l] = pr[l] /\ Recipients(l)' = Recipients(l)
    <3> SUFFICES ASSUME NEW l \in Posters, pr'[l].pc = "committed"
                 PROVE  pr'[l] = pr[l] /\ Recipients(l)' = Recipients(l)
      OBVIOUS
    <3>1. pr'[l] = pr[l]
      BY <1>3
    <3>2. posts'[pr[l].post] = posts[pr[l].post]
      BY <1>1, <1>4, <3>1
    <3> QED BY <3>1, <3>2 DEF Recipients
  <2> QED BY <1>2, <2>1 DEF CommittedOK
<1>11. AckedOK'
  BY <1>2 DEF AckedOK
<1>12. DeliveredToFollowers'
  <2>1. n \notin acked /\ \A v \in Users : n \notin timeline[v] \cup cache[v]
    BY <1>1 DEF TypeOK
  <2> QED BY <1>1, <1>2, <1>3, <2>1 DEF DeliveredToFollowers
<1> QED BY <1>6, <1>7, <1>8, <1>9, <1>10, <1>11, <1>12

\* The listing is of those who follow, and takes one moment.
LEMMA ListInvariant ==
  ASSUME IInv, NEW k \in Posters, ListFollowers(k)
  PROVE  /\ OwnPost' /\ CreatedOK' /\ ListedOK' /\ UndeliveredOK'
         /\ CommittedOK' /\ AckedOK' /\ DeliveredToFollowers'
<1> USE DEF IInv
<1>1. /\ pr[k].pc = "created"
      /\ UNCHANGED <<follows, posts, timeline, linked, cache, acked, steady, window>>
      /\ \A l \in Posters : pr'[l].post = pr[l].post
      /\ \A l \in Posters : l # k => pr'[l] = pr[l]
      /\ pr'[k].pc = "listed" /\ pr'[k].to = FollowersOf(posts[pr[k].post])
  BY DEF ListFollowers, TypeOK, PostRecord, db, history
<1>2. OwnPost'
  BY <1>1 DEF OwnPost
<1>3. CreatedOK' /\ ListedOK'
  BY <1>1 DEF CreatedOK, ListedOK, FollowersOf
<1>4. UndeliveredOK' /\ CommittedOK' /\ AckedOK'
  BY <1>1 DEF UndeliveredOK, CommittedOK, AckedOK, Recipients
<1>5. DeliveredToFollowers'
  BY <1>1 DEF DeliveredToFollowers, Ids
<1> QED BY <1>2, <1>3, <1>4, <1>5

\* What reaches a cache reaches the author's or a listed follower's.
LEMMA CacheInvariant ==
  ASSUME IInv, NEW k \in Posters, CacheFanout(k)
  PROVE  /\ OwnPost' /\ CreatedOK' /\ ListedOK' /\ UndeliveredOK'
         /\ CommittedOK' /\ AckedOK' /\ DeliveredToFollowers'
<1> USE DEF IInv
<1>1. /\ pr[k].pc = "listed"
      /\ UNCHANGED <<follows, posts, timeline, linked, acked, steady, window>>
      /\ \A l \in Posters : pr'[l].post = pr[l].post /\ pr'[l].to = pr[l].to
      /\ \A l \in Posters : l # k => pr'[l] = pr[l]
      /\ pr'[k].pc = "cached"
      /\ \A u \in Users : cache'[u] = IF u \in Recipients(k) THEN cache[u] \cup {pr[k].post}
                                                             ELSE cache[u]
  BY DEF CacheFanout, TypeOK, PostRecord, db, history
<1>2. OwnPost'
  BY <1>1 DEF OwnPost
<1>3. CreatedOK' /\ ListedOK'
  BY <1>1 DEF CreatedOK, ListedOK, FollowersOf
<1>4. UndeliveredOK' /\ CommittedOK' /\ AckedOK'
  BY <1>1 DEF UndeliveredOK, CommittedOK, AckedOK, Recipients
<1>5. DeliveredToFollowers'
  <2>1. \A u \in Recipients(k) : u \in window[pr[k].post] \cup {posts[pr[k].post]}
    BY <1>1 DEF ListedOK, Recipients
  <2> SUFFICES ASSUME NEW p \in Ids
               PROVE  /\ p \in acked => \A u \in steady[p] \cup {posts[p]} : p \in timeline[u]
                      /\ \A u \in Users :
                           p \in timeline[u] \cup cache'[u] => u \in window[p] \cup {posts[p]}
    BY <1>1 DEF DeliveredToFollowers, Ids
  <2>2. p \in acked => \A u \in steady[p] \cup {posts[p]} : p \in timeline[u]
    BY DEF DeliveredToFollowers
  <2>3. ASSUME NEW u \in Users, p \in timeline[u] \cup cache'[u]
        PROVE  u \in window[p] \cup {posts[p]}
    <3>1. CASE p \in timeline[u] \cup cache[u]
      BY <3>1 DEF DeliveredToFollowers
    <3>2. CASE p \notin timeline[u] \cup cache[u]
      <4>1. u \in Recipients(k) /\ p = pr[k].post
        BY <1>1, <2>3, <3>2
      <4> QED BY <2>1, <4>1
    <3> QED BY <3>1, <3>2
  <2> QED BY <2>2, <2>3
<1> QED BY <1>2, <1>3, <1>4, <1>5

\* So does what reaches a timeline, and the post is linked with it.
LEMMA CommitInvariant ==
  ASSUME IInv, NEW k \in Posters, CommitFanout(k)
  PROVE  /\ OwnPost' /\ CreatedOK' /\ ListedOK' /\ UndeliveredOK'
         /\ CommittedOK' /\ AckedOK' /\ DeliveredToFollowers'
<1> USE DEF IInv
<1>1. /\ pr[k].pc = "cached"
      /\ UNCHANGED <<follows, posts, cache, acked, steady, window>>
      /\ \A l \in Posters : pr'[l].post = pr[l].post /\ pr'[l].to = pr[l].to
      /\ \A l \in Posters : l # k => pr'[l] = pr[l]
      /\ pr'[k].pc = "committed"
      /\ linked' = linked \cup {pr[k].post}
      /\ \A u \in Users : timeline'[u] = IF u \in Recipients(k)
                                           THEN timeline[u] \cup {pr[k].post}
                                           ELSE timeline[u]
  BY DEF CommitFanout, TypeOK, PostRecord, history
<1>2. OwnPost'
  BY <1>1 DEF OwnPost
<1>3. CreatedOK' /\ ListedOK'
  BY <1>1 DEF CreatedOK, ListedOK, FollowersOf
<1>4. UndeliveredOK'
  <2>1. \A l \in Posters : l # k /\ pr[l].pc # "idle" => pr[l].post # pr[k].post
    BY <1>1 DEF OwnPost
  <2> QED BY <1>1, <2>1 DEF UndeliveredOK
<1>5. CommittedOK'
  <2> SUFFICES ASSUME NEW l \in Posters, pr'[l].pc = "committed"
               PROVE  /\ pr'[l].post \in linked'
                      /\ \A u \in Recipients(l)' : pr'[l].post \in timeline'[u]
    BY DEF CommittedOK
  <2>1. Recipients(l)' = Recipients(l) /\ Recipients(l) \subseteq Users
    BY <1>1, InFlight DEF Recipients
  <2>2. CASE l = k
    BY <1>1, <2>1, <2>2
  <2>3. CASE l # k
    BY <1>1, <2>1, <2>3 DEF CommittedOK
  <2> QED BY <2>2, <2>3
<1>6. AckedOK'
  BY <1>1 DEF AckedOK
<1>7. DeliveredToFollowers'
  <2>1. \A u \in Recipients(k) : u \in window[pr[k].post] \cup {posts[pr[k].post]}
    BY <1>1 DEF ListedOK, Recipients
  <2>2. \A p \in Ids : steady[p] \cup {posts[p]} \subseteq Users
    BY Bounds DEF TypeOK, Ids
  <2> SUFFICES ASSUME NEW p \in Ids
               PROVE  /\ p \in acked => \A u \in steady[p] \cup {posts[p]} : p \in timeline'[u]
                      /\ \A u \in Users :
                           p \in timeline'[u] \cup cache[u] => u \in window[p] \cup {posts[p]}
    BY <1>1 DEF DeliveredToFollowers, Ids
  <2>3. ASSUME p \in acked, NEW u \in steady[p] \cup {posts[p]}
        PROVE  p \in timeline'[u]
    <3>1. u \in Users /\ p \in timeline[u]
      BY <2>2, <2>3 DEF DeliveredToFollowers
    <3> QED BY <1>1, <3>1
  <2>4. ASSUME NEW u \in Users, p \in timeline'[u] \cup cache[u]
        PROVE  u \in window[p] \cup {posts[p]}
    <3>1. CASE p \in timeline[u] \cup cache[u]
      BY <3>1 DEF DeliveredToFollowers
    <3>2. CASE p \notin timeline[u] \cup cache[u]
      <4>1. u \in Recipients(k) /\ p = pr[k].post
        BY <1>1, <2>4, <3>2
      <4> QED BY <2>1, <4>1
    <3> QED BY <3>1, <3>2
  <2> QED BY <2>3, <2>4
<1> QED BY <1>2, <1>3, <1>4, <1>5, <1>6, <1>7

\* What is acknowledged was committed for all who are owed it; and a request
\* that dies takes nothing along.
LEMMA EndInvariant ==
  ASSUME IInv, NEW k \in Posters, Respond(k) \/ PostAborts(k)
  PROVE  /\ OwnPost' /\ CreatedOK' /\ ListedOK' /\ UndeliveredOK'
         /\ CommittedOK' /\ AckedOK' /\ DeliveredToFollowers'
<1> USE DEF IInv
<1>1. /\ UNCHANGED <<follows, posts, timeline, linked, cache, steady, window>>
      /\ \A l \in Posters : l # k => pr'[l] = pr[l]
      /\ pr'[k].pc = "idle"
  BY DEF Respond, PostAborts, IdlePost, TypeOK, PostRecord, db, history
<1>2. \/ acked' = acked
      \/ pr[k].pc = "committed" /\ acked' = acked \cup {pr[k].post}
  BY DEF Respond, PostAborts
<1>3. OwnPost'
  BY <1>1 DEF OwnPost
<1>4. CreatedOK' /\ ListedOK'
  BY <1>1 DEF CreatedOK, ListedOK, FollowersOf
<1>5. UndeliveredOK' /\ CommittedOK'
  BY <1>1 DEF UndeliveredOK, CommittedOK, Recipients
<1>6. AckedOK'
  BY <1>1, <1>2 DEF AckedOK, CommittedOK
<1>7. DeliveredToFollowers'
  <2>1. pr[k].pc = "committed" =>
          \A u \in steady[pr[k].post] \cup {posts[pr[k].post]} : pr[k].post \in timeline[u]
    BY DEF CommittedOK, ListedOK, Recipients
  <2> QED BY <1>1, <1>2, <2>1 DEF DeliveredToFollowers, Ids
<1> QED BY <1>3, <1>4, <1>5, <1>6, <1>7

\* An eviction only takes away.
LEMMA EvictInvariant ==
  ASSUME IInv, NEW v \in Users, Evict(v)
  PROVE  /\ OwnPost' /\ CreatedOK' /\ ListedOK' /\ UndeliveredOK'
         /\ CommittedOK' /\ AckedOK' /\ DeliveredToFollowers'
<1> USE DEF IInv
<1>1. /\ UNCHANGED <<follows, posts, timeline, linked, acked, pr, steady, window>>
      /\ \A u \in Users : cache'[u] \subseteq cache[u]
  BY DEF Evict, TypeOK, db, history
<1>2. OwnPost' /\ CreatedOK' /\ ListedOK' /\ UndeliveredOK' /\ CommittedOK' /\ AckedOK'
  BY <1>1 DEF OwnPost, CreatedOK, ListedOK, UndeliveredOK, CommittedOK, AckedOK,
              FollowersOf, Recipients
<1>3. DeliveredToFollowers'
  BY <1>1 DEF DeliveredToFollowers, Ids
<1> QED BY <1>2, <1>3

\* Every step preserves the invariant.
LEMMA StepInvariant == IInv /\ [Next]_vars => IInv'
<1> SUFFICES ASSUME IInv, [Next]_vars PROVE IInv'
  OBVIOUS
<1> DEFINE Rest == /\ OwnPost /\ CreatedOK /\ ListedOK /\ UndeliveredOK
                   /\ CommittedOK /\ AckedOK /\ DeliveredToFollowers
<1>1. TypeOK'
  BY TypeStep DEF IInv
<1>2. Rest'
  <2>1. ASSUME NEW f \in Users, NEW e \in Authors, Follow(f, e) \/ Unfollow(f, e)
        PROVE  Rest'
    BY <2>1, GraphInvariant
  <2>2. ASSUME NEW k \in Posters, NEW u \in Authors, CreatePost(k, u)
        PROVE  Rest'
    BY <2>2, CreateInvariant
  <2>3. ASSUME NEW k \in Posters, PosterStep(k) \/ PostAborts(k)
        PROVE  Rest'
    BY <2>3, ListInvariant, CacheInvariant, CommitInvariant, EndInvariant DEF PosterStep
  <2>4. ASSUME NEW u \in Users, Evict(u)
        PROVE  Rest'
    BY <2>4, EvictInvariant
  <2>5. ASSUME NEW u \in Readers, ReadStart(u) \/ ReadMore(u) \/ ReaderStep(u)
        PROVE  Rest'
    <3>1. UNCHANGED <<db, cache, acked, pr, history>>
      BY <2>5 DEF ReadStart, ReadMore, ReaderStep, ReadCache, ReadMiss, ReadTimeline, Hydrate
    <3> QED BY <3>1, ReaderInvariant
  <2>6. CASE UNCHANGED vars
    BY <2>6, ReaderInvariant DEF vars, db, history
  <2> HIDE DEF Rest
  <2> QED BY <2>1, <2>2, <2>3, <2>4, <2>5, <2>6 DEF Next
<1> QED BY <1>1, <1>2 DEF IInv

\* The inductive invariant holds throughout.
THEOREM Invariant == Spec => []IInv
BY InitInvariant, StepInvariant, PTL DEF Spec

\* Whoever is told 201 has posted to all who followed throughout, and nobody
\* gets a post who never followed while it was fanned out.
THEOREM Delivered == Spec => []DeliveredToFollowers
<1>1. IInv => DeliveredToFollowers
  BY DEF IInv
<1> QED BY <1>1, Invariant, PTL
-----------------------------------------------------------------------------
(* No author is listed among their own followers. *)

NoSelfFollow == \A u \in Users : <<u, u>> \notin follows

\* The author is not listed for the fan-out: else the bulk insert would hit the
\* primary key of timeline_entries (service.py:46-51).
RecipientsDistinct ==
  \A k \in Posters : pr[k].pc = "listed" => posts[pr[k].post] \notin pr[k].to

\* Nobody follows themselves, so no listing holds the author.
THEOREM Distinct == Spec => []RecipientsDistinct
<1> DEFINE I == NoSelfFollow /\ RecipientsDistinct
<1>1. Init => I
  BY DEF Init, NoSelfFollow, RecipientsDistinct, IdlePost
<1>2. IInv /\ I /\ [Next]_vars => I'
  <2> SUFFICES ASSUME IInv, I, [Next]_vars PROVE I'
    OBVIOUS
  <2>0. TypeOK
    BY DEF IInv
  <2>1. ASSUME NEW f \in Users, NEW e \in Authors, Follow(f, e) \/ Unfollow(f, e)
        PROVE  I'
    BY <2>1 DEF Follow, Unfollow, NoSelfFollow, RecipientsDistinct
  <2>2. ASSUME NEW k \in Posters, NEW u \in Authors, CreatePost(k, u)
        PROVE  I'
    <3>1. NoSelfFollow'
      BY <2>2 DEF CreatePost, NoSelfFollow
    <3>2. ASSUME NEW l \in Posters, pr'[l].pc = "listed"
          PROVE  posts'[pr'[l].post] \notin pr'[l].to
      <4>1. pr'[l] = pr[l]
        BY <2>0, <2>2, <3>2 DEF CreatePost, TypeOK
      <4>2. pr[l].post \in Ids
        BY <2>0, <3>2, <4>1, InFlight
      <4>3. posts'[pr[l].post] = posts[pr[l].post]
        BY <2>0, <2>2, <4>2, AppendPost, Bounds DEF CreatePost, TypeOK, Ids
      <4> QED BY <3>2, <4>1, <4>3 DEF RecipientsDistinct
    <3> QED BY <3>1, <3>2 DEF RecipientsDistinct
  <2>3. ASSUME NEW k \in Posters, PosterStep(k) \/ PostAborts(k)
        PROVE  I'
    <3>1. UNCHANGED <<follows, posts>>
      BY <2>3 DEF PosterStep, ListFollowers, CacheFanout, CommitFanout, Respond,
                  PostAborts, db
    <3>2. \A l \in Posters : pr'[l].pc = "listed" =>
            \/ pr'[l] = pr[l]
            \/ pr'[l].to = FollowersOf(posts[pr'[l].post])
      <4>1. CASE ListFollowers(k)
        BY <2>0, <4>1 DEF ListFollowers, TypeOK, PostRecord
      <4>2. CASE CacheFanout(k) \/ CommitFanout(k) \/ Respond(k) \/ PostAborts(k)
        BY <2>0, <4>2 DEF CacheFanout, CommitFanout, Respond, PostAborts, IdlePost,
                          TypeOK, PostRecord
      <4> QED BY <2>3, <4>1, <4>2 DEF PosterStep
    <3> QED BY <3>1, <3>2 DEF NoSelfFollow, RecipientsDistinct, FollowersOf
  <2>4. ASSUME UNCHANGED <<follows, posts, pr>>
        PROVE  I'
    BY <2>4 DEF NoSelfFollow, RecipientsDistinct
  <2>5. ASSUME NEW u \in Users, Evict(u) PROVE UNCHANGED <<follows, posts, pr>>
    BY <2>5 DEF Evict, db
  <2>6. ASSUME NEW u \in Readers, ReadStart(u) \/ ReadMore(u) \/ ReaderStep(u)
        PROVE  UNCHANGED <<follows, posts, pr>>
    BY <2>6 DEF ReadStart, ReadMore, ReaderStep, ReadCache, ReadMiss, ReadTimeline, Hydrate, db
  <2>7. UNCHANGED vars => UNCHANGED <<follows, posts, pr>>
    BY DEF vars
  <2> HIDE DEF I
  <2> QED BY <2>1, <2>2, <2>3, <2>4, <2>5, <2>6, <2>7 DEF Next
<1>3. I => RecipientsDistinct
  OBVIOUS
<1> HIDE DEF I
<1> QED BY <1>1, <1>2, <1>3, Invariant, PTL DEF Spec
-----------------------------------------------------------------------------
(* The cache without evictions. *)

\* Between Redis and the commit, a post is cached for all it will reach.
CachedOK ==
  \A k \in Posters : pr[k].pc = "cached" =>
    \A u \in Recipients(k) : pr[k].post \in cache[u]

\* If Redis drops nothing, whatever a timeline has, the cache has.
THEOREM CacheCovers ==
  ASSUME MayEvict = FALSE
  PROVE  Spec => []CacheCoversTimeline
<1> DEFINE I == CachedOK /\ CacheCoversTimeline
<1>1. Init => I
  BY DEF Init, CachedOK, CacheCoversTimeline, IdlePost
<1>2. IInv /\ I /\ [Next]_vars => I'
  <2> SUFFICES ASSUME IInv, I, [Next]_vars PROVE I'
    OBVIOUS
  <2>0. TypeOK
    BY DEF IInv
  <2>1. ASSUME UNCHANGED <<posts, timeline, cache, pr>>
        PROVE  I'
    BY <2>1 DEF CachedOK, CacheCoversTimeline, Recipients
  <2>2. ASSUME NEW k \in Posters, NEW u \in Authors, CreatePost(k, u)
        PROVE  I'
    <3>1. CacheCoversTimeline'
      BY <2>2 DEF CreatePost, CacheCoversTimeline
    <3>2. ASSUME NEW l \in Posters, pr'[l].pc = "cached"
          PROVE  \A v \in Recipients(l)' : pr'[l].post \in cache'[v]
      <4>1. pr'[l] = pr[l]
        BY <2>0, <2>2, <3>2 DEF CreatePost, TypeOK
      <4>2. pr[l].post \in Ids
        BY <2>0, <3>2, <4>1, InFlight
      <4>3. posts'[pr[l].post] = posts[pr[l].post]
        BY <2>0, <2>2, <4>2, AppendPost, Bounds DEF CreatePost, TypeOK, Ids
      <4>4. cache' = cache
        BY <2>2 DEF CreatePost
      <4> QED BY <3>2, <4>1, <4>3, <4>4 DEF CachedOK, Recipients
    <3> QED BY <3>1, <3>2 DEF CachedOK
  <2>3. ASSUME NEW k \in Posters,
               ListFollowers(k) \/ Respond(k) \/ PostAborts(k)
        PROVE  I'
    <3>1. UNCHANGED <<posts, timeline, cache>>
      BY <2>3 DEF ListFollowers, Respond, PostAborts, db
    <3>2. \A l \in Posters : pr'[l].pc = "cached" => pr'[l] = pr[l]
      BY <2>0, <2>3 DEF ListFollowers, Respond, PostAborts, IdlePost, TypeOK, PostRecord
    <3> QED BY <3>1, <3>2 DEF CachedOK, CacheCoversTimeline, Recipients
  <2>4. ASSUME NEW k \in Posters, CacheFanout(k)
        PROVE  I'
    <3>1. /\ UNCHANGED <<posts, timeline>>
          /\ \A l \in Posters : pr'[l].post = pr[l].post /\ pr'[l].to = pr[l].to
          /\ \A l \in Posters : l # k => pr'[l] = pr[l]
          /\ \A u \in Users : cache[u] \subseteq cache'[u]
          /\ \A u \in Users : u \in Recipients(k) => pr[k].post \in cache'[u]
      BY <2>0, <2>4 DEF CacheFanout, TypeOK, PostRecord, db
    <3>2. CacheCoversTimeline'
      BY <3>1 DEF CacheCoversTimeline
    <3>3. ASSUME NEW l \in Posters, pr'[l].pc = "cached", NEW u \in Recipients(l)'
          PROVE  pr'[l].post \in cache'[u]
      <4>1. u \in Recipients(l)
        BY <3>1, <3>3 DEF Recipients
      <4>2. pr[l].pc # "idle"
        BY <2>4, <3>1, <3>3 DEF CacheFanout
      <4>3. u \in Users
        BY <2>0, <4>1, <4>2, InFlight DEF Recipients
      <4> QED BY <3>1, <3>3, <4>1, <4>3 DEF CachedOK
    <3> QED BY <3>2, <3>3 DEF CachedOK
  <2>5. ASSUME NEW k \in Posters, CommitFanout(k)
        PROVE  I'
    <3>1. /\ pr[k].pc = "cached"
          /\ UNCHANGED <<posts, cache>>
          /\ \A l \in Posters : pr'[l].pc = "cached" => pr'[l] = pr[l]
          /\ \A u \in Users : timeline'[u] = IF u \in Recipients(k)
                                               THEN timeline[u] \cup {pr[k].post}
                                               ELSE timeline[u]
      BY <2>0, <2>5 DEF CommitFanout, TypeOK, PostRecord
    <3>2. CacheCoversTimeline'
      BY <3>1 DEF CacheCoversTimeline, CachedOK
    <3>3. CachedOK'
      BY <3>1 DEF CachedOK, Recipients
    <3> QED BY <3>2, <3>3
  <2>6. \A u \in Users : ~Evict(u)
    BY DEF Evict
  <2>7. ASSUME NEW u \in Readers, ReadStart(u) \/ ReadMore(u) \/ ReaderStep(u)
        PROVE  UNCHANGED <<posts, timeline, cache, pr>>
    BY <2>7 DEF ReadStart, ReadMore, ReaderStep, ReadCache, ReadMiss, ReadTimeline, Hydrate, db
  <2>8. ASSUME NEW f \in Users, NEW e \in Authors, Follow(f, e) \/ Unfollow(f, e)
        PROVE  UNCHANGED <<posts, timeline, cache, pr>>
    BY <2>8 DEF Follow, Unfollow
  <2>9. UNCHANGED vars => UNCHANGED <<posts, timeline, cache, pr>>
    BY DEF vars
  <2> HIDE DEF I
  <2> QED BY <2>1, <2>2, <2>3, <2>4, <2>5, <2>6, <2>7, <2>8, <2>9 DEF Next, PosterStep
<1>3. I => CacheCoversTimeline
  OBVIOUS
<1> HIDE DEF I
<1> QED BY <1>1, <1>2, <1>3, Invariant, PTL DEF Spec
-----------------------------------------------------------------------------
(* Scrolls without evictions. *)

LEMMA GreatestElement ==
  ASSUME NEW S \in SUBSET PostIds, S # {}
  PROVE  \E p \in S : \A q \in S : q <= p
<1> DEFINE T == {MaxPosts - p : p \in S}
<1>1. S \subseteq 1..MaxPosts /\ T # {} /\ T \in SUBSET Nat
  <2>1. \A p \in S : p \in 1..MaxPosts /\ MaxPosts - p \in Nat
    BY Bounds
  <2> QED BY <2>1
<1>2. PICK t \in T : \A x \in T : t <= x
  <2> HIDE DEF T
  <2> QED BY <1>1, LeastElement
<1>3. PICK p \in S : t = MaxPosts - p
  OBVIOUS
<1>4. \A q \in S : MaxPosts - p <= MaxPosts - q
  BY <1>2, <1>3
<1> QED BY <1>1, <1>4, Bounds

\* A page has no gap, and a page that is not full has all that is below.
LEMMA PageHasNoGap ==
  ASSUME NEW S \in SUBSET PostIds, NEW b \in 1..NoCursor
  PROVE  LET P == Page(S, b)
             m == CHOOSE p \in P : \A q \in P : p <= q
         IN  /\ \A p \in P : p \in S /\ p < b
             /\ Cardinality(P) = Limit => m \in P /\ \A p \in P : m <= p
             /\ Cardinality(P) = Limit => \A p \in S : m <= p /\ p < b => p \in P
             /\ Cardinality(P) # Limit => \A p \in S : p < b => p \in P
<1> DEFINE below == {p \in S : p < b}
           Above(p) == {q \in below : q > p}
           P == Page(S, b)
           m == CHOOSE p \in P : \A q \in P : p <= q
<1>1. P = {p \in below : Cardinality(Above(p)) < Limit}
  BY DEF Page
<1>2. S \subseteq 1..MaxPosts /\ IsFiniteSet(S) /\ S \subseteq Nat
  <2>1. IsFiniteSet(1..MaxPosts)
    BY Bounds, FS_Interval
  <2>2. S \subseteq 1..MaxPosts
    BY Bounds
  <2>3. IsFiniteSet(S)
    BY <2>1, <2>2, FS_Subset
  <2> QED BY <2>2, <2>3
<1>3. IsFiniteSet(below) /\ P \subseteq below /\ below \subseteq S
  BY <1>1, <1>2, FS_Subset
<1>4. /\ IsFiniteSet(P) /\ Cardinality(P) \in Nat
      /\ \A p : IsFiniteSet(Above(p)) /\ Cardinality(Above(p)) \in Nat
  <2>1. \A p : Above(p) \subseteq below
    OBVIOUS
  <2> QED BY <1>3, <2>1, FS_Subset, FS_CardinalityType
<1>5. P # {} => m \in P /\ \A p \in P : m <= p
  <2>1. P \in SUBSET Nat
    BY <1>2, <1>3
  <2>2. P # {} => \E p \in P : \A q \in P : p <= q
    <3> HIDE DEF P
    <3> QED BY <2>1, LeastElement
  <2> QED BY <2>2
<1>6. Cardinality(P) = Limit => P # {}
  <2>1. Cardinality({}) = 0
    BY FS_EmptySet
  <2>2. ASSUME P = {} PROVE Cardinality(P) = 0
    BY <2>1, <2>2
  <2> HIDE DEF P
  <2> QED BY <2>2, Bounds
<1>7. Cardinality(P) <= Limit
  <2>1. CASE P = {}
    <3>1. Cardinality({}) = 0
      BY FS_EmptySet
    <3> QED BY <2>1, <3>1, Bounds
  <2>2. CASE P # {}
    <3>1. m \in P /\ \A p \in P : m <= p
      BY <1>5, <2>2
    <3>2. Cardinality(Above(m)) < Limit /\ m \in Nat
      BY <1>1, <1>2, <1>3, <3>1
    <3>3. P \subseteq Above(m) \cup {m}
      <4>1. ASSUME NEW p \in P, p # m PROVE p > m /\ p \in below
        <5>1. m <= p /\ m \in Nat /\ p \in Nat /\ p \in below
          BY <1>2, <1>3, <3>1
        <5> HIDE DEF m, P
        <5> QED BY <4>1, <5>1
      <4> QED BY <4>1
    <3>4. /\ IsFiniteSet(Above(m) \cup {m})
          /\ Cardinality(Above(m) \cup {m}) = Cardinality(Above(m)) + 1
      <4>1. m \notin Above(m)
        BY <3>2
      <4> HIDE DEF Above, m
      <4> QED BY <1>4, <4>1, FS_AddElement
    <3>5. Cardinality(P) <= Cardinality(Above(m) \cup {m})
      <4> HIDE DEF Above, m, P
      <4> QED BY <3>3, <3>4, FS_Subset
    <3> HIDE DEF Above, m, P
    <3> QED BY <1>4, <3>2, <3>4, <3>5, Bounds
  <2> QED BY <2>1, <2>2
<1>8. ASSUME Cardinality(P) = Limit, NEW p \in S, m <= p, p < b PROVE p \in P
  <2>1. m \in P /\ m \in below /\ m \in Nat /\ Cardinality(Above(m)) < Limit
    BY <1>1, <1>2, <1>3, <1>5, <1>6, <1>8
  <2>2. Above(p) \subseteq Above(m) /\ p \in below
    <3>1. p \in Nat /\ b \in Nat /\ \A q \in below : q \in Nat
      BY <1>2, Bounds
    <3> HIDE DEF m
    <3>2. p \in below
      BY <1>8
    <3>3. \A q \in below : q > p => q > m
      BY <1>8, <2>1, <3>1
    <3> QED BY <3>2, <3>3
  <2>3. Cardinality(Above(p)) <= Cardinality(Above(m))
    <3> HIDE DEF Above, m
    <3> QED BY <1>4, <2>2, FS_Subset
  <2>4. Cardinality(Above(p)) < Limit
    <3> HIDE DEF Above, m
    <3> QED BY <1>4, <2>1, <2>3, Bounds
  <2> QED BY <1>1, <2>2, <2>4
<1>9. ASSUME Cardinality(P) # Limit, NEW p0 \in S, p0 < b, p0 \notin P PROVE FALSE
  <2> DEFINE missing == below \ P
  <2>1. missing # {} /\ missing \in SUBSET PostIds
    BY <1>9
  <2>2. PICK p \in missing : \A q \in missing : q <= p
    <3> HIDE DEF missing
    <3> QED BY <2>1, GreatestElement
  <2>3. Above(p) \subseteq P
    <3>1. ASSUME NEW q \in below, q > p, q \notin P PROVE FALSE
      <4>1. q \in missing /\ q <= p /\ q \in Nat /\ p \in Nat
        BY <1>2, <1>3, <2>2, <3>1
      <4> QED BY <3>1, <4>1
    <3> QED BY <3>1
  <2>4. ~(Cardinality(Above(p)) < Limit)
    BY <1>1, <2>2
  <2>5. Cardinality(Above(p)) <= Cardinality(P)
    <3> HIDE DEF Above, P
    <3> QED BY <1>4, <2>3, FS_Subset
  <2> HIDE DEF Above, P
  <2> QED BY <1>4, <1>7, <1>9, <2>4, <2>5, Bounds
<1> QED
  <2>1. \A p \in P : p \in S /\ p < b
    BY <1>3
  <2> HIDE DEF P, m
  <2>2. Cardinality(P) = Limit => m \in P /\ \A p \in P : m <= p
    BY <1>5, <1>6
  <2>3. Cardinality(P) = Limit => \A p \in S : m <= p /\ p < b => p \in P
    BY <1>8
  <2>4. Cardinality(P) # Limit => \A p \in S : p < b => p \in P
    BY <1>9
  <2> QED BY <2>1, <2>2, <2>3, <2>4 DEF P, m

\* A scroll has shown all it must down to its cursor, and only that; the page in
\* hand is one of a set that has the whole timeline of when the scroll began.
ScrollOK ==
  \A u \in Readers :
    /\ rd[u].pc # "idle" => rd[u].want \subseteq timeline[u]
    /\ rd[u].pc \in {"cache", "timeline", "hydrate", "more"} =>
         /\ \A p \in rd[u].want : rd[u].before <= p => p \in rd[u].got
         /\ \A p \in rd[u].got : rd[u].before <= p
    /\ rd[u].pc = "hydrate" => \E S \in SUBSET Ids :
         rd[u].want \subseteq S /\ rd[u].page = Page(S, rd[u].before)
    /\ rd[u].pc = "done" => rd[u].want \subseteq rd[u].got

\* The step of a scroll.
LEMMA ScrollStep ==
  ASSUME TypeOK, CacheCoversTimeline, ScrollOK,
         NEW u \in Readers, ReadStart(u) \/ ReadMore(u) \/ ReaderStep(u)
  PROVE  ScrollOK'
<1> USE Bounds
<1>0. /\ UNCHANGED <<posts, timeline>> /\ rd \in [Readers -> ReadRecord]
      /\ \A v \in Readers \ {u} : rd'[v] = rd[v]
      /\ timeline[u] \in SUBSET Ids /\ cache[u] \in SUBSET Ids /\ timeline[u] \subseteq cache[u]
      /\ Ids \subseteq PostIds
  BY DEF TypeOK, ReadStart, ReadMore, ReaderStep, ReadCache, ReadMiss, ReadTimeline, Hydrate, db, Ids,
         CacheCoversTimeline
<1>r. /\ rd[u].before \in 1..NoCursor /\ rd[u].want \in SUBSET PostIds
      /\ rd[u].got \in SUBSET PostIds /\ rd[u].page \in SUBSET PostIds
  BY <1>0 DEF ReadRecord
<1>s. /\ rd[u].pc # "idle" => rd[u].want \subseteq timeline[u]
      /\ rd[u].pc \in {"cache", "timeline", "hydrate", "more"} =>
           /\ \A p \in rd[u].want : rd[u].before <= p => p \in rd[u].got
           /\ \A p \in rd[u].got : rd[u].before <= p
      /\ rd[u].pc = "hydrate" => \E S \in SUBSET Ids :
           rd[u].want \subseteq S /\ rd[u].page = Page(S, rd[u].before)
  BY DEF ScrollOK
<1>q. SUFFICES
        /\ rd'[u].pc # "idle" => rd'[u].want \subseteq timeline[u]
        /\ rd'[u].pc \in {"cache", "timeline", "hydrate", "more"} =>
             /\ \A p \in rd'[u].want : rd'[u].before <= p => p \in rd'[u].got
             /\ \A p \in rd'[u].got : rd'[u].before <= p
        /\ rd'[u].pc = "hydrate" => \E S \in SUBSET Ids :
             rd'[u].want \subseteq S /\ rd'[u].page = Page(S, rd'[u].before)
        /\ rd'[u].pc = "done" => rd'[u].want \subseteq rd'[u].got
  <2>1. Ids' = Ids
    BY <1>0 DEF Ids
  <2> QED BY <1>0, <2>1 DEF ScrollOK
<1>1. CASE ReadStart(u)
  <2>1. /\ rd'[u].pc = "cache" /\ rd'[u].before = NoCursor
        /\ rd'[u].got = {} /\ rd'[u].want = timeline[u]
    BY <1>0, <1>1 DEF ReadStart
  <2>2. \A p \in timeline[u] : ~(NoCursor <= p)
    <3>1. \A p \in timeline[u] : p \in 1..MaxPosts
      BY <1>0
    <3> QED BY <3>1
  <2> QED BY <2>1, <2>2
<1>2. CASE ReadCache(u)
  <2>1. /\ rd[u].pc = "cache" /\ rd'[u].pc = "hydrate"
        /\ rd'[u].page = Page(cache[u], rd[u].before)
        /\ rd'[u].before = rd[u].before /\ rd'[u].got = rd[u].got /\ rd'[u].want = rd[u].want
    BY <1>0, <1>2 DEF ReadCache, ReadRecord
  <2> QED BY <1>0, <1>s, <2>1
<1>3. CASE ReadMiss(u)
  <2>1. /\ rd[u].pc = "cache" /\ rd'[u].pc = "timeline"
        /\ rd'[u].before = rd[u].before /\ rd'[u].got = rd[u].got /\ rd'[u].want = rd[u].want
    BY <1>0, <1>3 DEF ReadMiss, ReadRecord
  <2> QED BY <1>s, <2>1
<1>4. CASE ReadTimeline(u)
  <2>1. /\ rd[u].pc = "timeline" /\ rd'[u].pc = "hydrate"
        /\ rd'[u].page = Page(timeline[u], rd[u].before)
        /\ rd'[u].before = rd[u].before /\ rd'[u].got = rd[u].got /\ rd'[u].want = rd[u].want
    BY <1>0, <1>4 DEF ReadTimeline, ReadRecord
  <2> QED BY <1>0, <1>s, <2>1
<1>5. CASE Hydrate(u)
  <2> DEFINE P == rd[u].page
             b == rd[u].before
             m == CHOOSE p \in P : \A q \in P : p <= q
  <2>0. rd[u].pc = "hydrate"
    BY <1>5 DEF Hydrate
  <2>1. PICK S \in SUBSET Ids : rd[u].want \subseteq S /\ P = Page(S, b)
    BY <1>s, <2>0
  <2>2. P \cap Ids = P
    BY <2>1, PageIsSubset
  <2>3. /\ \A p \in P : p \in S /\ p < b
        /\ Cardinality(P) = Limit => m \in P /\ \A p \in P : m <= p
        /\ Cardinality(P) = Limit => \A p \in S : m <= p /\ p < b => p \in P
        /\ Cardinality(P) # Limit => \A p \in S : p < b => p \in P
    <3>1. S \in SUBSET PostIds /\ b \in 1..NoCursor
      BY <1>0, <1>r
    <3>2. LET Q == Page(S, b)
              l == CHOOSE p \in Q : \A q \in Q : p <= q
          IN  /\ \A p \in Q : p \in S /\ p < b
              /\ Cardinality(Q) = Limit => l \in Q /\ \A p \in Q : l <= p
              /\ Cardinality(Q) = Limit => \A p \in S : l <= p /\ p < b => p \in Q
              /\ Cardinality(Q) # Limit => \A p \in S : p < b => p \in Q
      <4> HIDE DEF b
      <4> QED BY <3>1, PageHasNoGap
    <3> QED BY <2>1, <3>2
  <2>4. /\ \A p \in rd[u].want : b <= p => p \in rd[u].got
        /\ \A p \in rd[u].got : b <= p
    BY <1>s, <2>0
  <2>5. rd' = [rd EXCEPT ![u] =
                 [pc |-> IF Cardinality(P) = Limit THEN "more" ELSE "done",
                  before |-> IF Cardinality(P) = Limit THEN m ELSE NoCursor,
                  page |-> {}, got |-> rd[u].got \cup P, want |-> rd[u].want]]
    <3> DEFINE I == rd[u].page \cap Ids
    <3>1. rd' = [rd EXCEPT ![u] =
                  [pc |-> IF Cardinality(I) = Limit THEN "more" ELSE "done",
                   before |-> IF Cardinality(I) = Limit
                                THEN CHOOSE p \in I : \A q \in I : p <= q ELSE NoCursor,
                   page |-> {}, got |-> rd[u].got \cup I, want |-> rd[u].want]]
      BY <1>5 DEF Hydrate
    <3>2. I = P
      BY <2>2
    <3> HIDE DEF I, P
    <3> QED BY <3>1, <3>2
  <2>6. /\ rd'[u].want = rd[u].want /\ rd'[u].got = rd[u].got \cup P
        /\ rd'[u].pc = IF Cardinality(P) = Limit THEN "more" ELSE "done"
        /\ rd'[u].before = IF Cardinality(P) = Limit THEN m ELSE NoCursor
    <3> HIDE DEF P, m
    <3> QED BY <1>0, <2>5
  <2>7. b \in Nat /\ (\A p \in rd[u].want \cup rd[u].got \cup P : p \in Nat)
    BY <1>r
  <2> HIDE DEF P, b, m
  <2>8. CASE Cardinality(P) = Limit
    <3>1. m \in P /\ m \in Nat /\ m < b
      BY <2>3, <2>7, <2>8
    <3>2. ASSUME NEW p \in rd[u].want, m <= p PROVE p \in rd[u].got \cup P
      BY <2>1, <2>3, <2>4, <2>7, <2>8, <3>2
    <3>3. ASSUME NEW p \in rd[u].got \cup P PROVE m <= p
      BY <2>3, <2>4, <2>7, <2>8, <3>1
    <3>4. rd'[u].pc = "more" /\ rd'[u].before = m
      BY <2>6, <2>8
    <3> QED BY <1>s, <2>0, <2>6, <3>2, <3>3, <3>4
  <2>9. CASE Cardinality(P) # Limit
    <3>1. ASSUME NEW p \in rd[u].want PROVE p \in rd[u].got \cup P
      BY <2>1, <2>3, <2>4, <2>7, <2>9
    <3>2. rd'[u].pc = "done"
      BY <2>6, <2>9
    <3> QED BY <1>s, <2>0, <2>6, <3>1, <3>2
  <2> QED BY <2>8, <2>9
<1>6. CASE ReadMore(u)
  <2>1. /\ rd[u].pc = "more" /\ rd'[u].pc = "cache"
        /\ rd'[u].before = rd[u].before /\ rd'[u].got = rd[u].got /\ rd'[u].want = rd[u].want
    BY <1>0, <1>6 DEF ReadMore, ReadRecord
  <2> QED BY <1>s, <2>1
<1> QED BY <1>1, <1>2, <1>3, <1>4, <1>5, <1>6 DEF ReaderStep

\* If Redis drops nothing, a scroll shows what was in the timeline when it began,
\* each post once, whatever page comes from whatever store.
THEOREM ScrollsAreComplete ==
  ASSUME MayEvict = FALSE
  PROVE  Spec => []ScrollComplete
<1> DEFINE K == TypeOK /\ CacheCoversTimeline
<1>1. Init => ScrollOK
  BY DEF Init, ScrollOK, IdleRead
<1>2. K /\ ScrollOK /\ [Next]_vars => ScrollOK'
  <2> SUFFICES ASSUME TypeOK, CacheCoversTimeline, ScrollOK, [Next]_vars PROVE ScrollOK'
    OBVIOUS
  <2>1. ASSUME UNCHANGED rd, Ids \subseteq Ids', \A u \in Users : timeline[u] \subseteq timeline'[u]
        PROVE  ScrollOK'
    BY <2>1, Bounds DEF ScrollOK
  <2>2. ASSUME NEW k \in Posters, NEW u \in Authors, CreatePost(k, u)
        PROVE  ScrollOK'
    <3>1. Len(posts') = Len(posts) + 1 /\ UNCHANGED <<rd, timeline>>
      BY <2>2, AppendPost, Bounds DEF CreatePost, TypeOK
    <3>2. Ids \subseteq Ids'
      BY <3>1 DEF Ids, TypeOK
    <3> QED BY <2>1, <3>1, <3>2
  <2>3. ASSUME NEW k \in Posters, PosterStep(k) \/ PostAborts(k)
        PROVE  ScrollOK'
    <3>1. UNCHANGED <<rd, posts>> /\ \A u \in Users : timeline[u] \subseteq timeline'[u]
      BY <2>3 DEF PosterStep, ListFollowers, CacheFanout, CommitFanout, Respond, PostAborts, db
    <3> QED BY <2>1, <3>1 DEF Ids
  <2>4. ASSUME UNCHANGED <<rd, posts, timeline>> PROVE ScrollOK'
    BY <2>1, <2>4 DEF Ids
  <2>5. ASSUME NEW f \in Users, NEW e \in Authors, Follow(f, e) \/ Unfollow(f, e)
        PROVE  UNCHANGED <<rd, posts, timeline>>
    BY <2>5 DEF Follow, Unfollow
  <2>6. ASSUME NEW u \in Users, Evict(u) PROVE UNCHANGED <<rd, posts, timeline>>
    BY <2>6 DEF Evict, db
  <2>7. UNCHANGED vars => UNCHANGED <<rd, posts, timeline>>
    BY DEF vars
  <2> QED BY <2>2, <2>3, <2>4, <2>5, <2>6, <2>7, ScrollStep DEF Next
<1>3. K /\ ScrollOK => ScrollComplete
  <2> SUFFICES ASSUME TypeOK, ScrollOK, NEW u \in Readers, rd[u].pc = "hydrate",
                      NEW p \in rd[u].page, p \in rd[u].got
               PROVE  FALSE
    BY DEF ScrollComplete, ScrollOK
  <2>1. PICK S \in SUBSET Ids : rd[u].page = Page(S, rd[u].before)
    BY DEF ScrollOK
  <2>2. p < rd[u].before /\ rd[u].before <= p
    BY <2>1 DEF Page, ScrollOK
  <2>3. p \in Nat /\ rd[u].before \in Nat
    BY Bounds DEF TypeOK, ReadRecord
  <2> QED BY <2>2, <2>3
<1>4. Spec => []K
  BY TypeCorrect, CacheCovers, PTL
<1> HIDE DEF K
<1> QED BY <1>1, <1>2, <1>3, <1>4, PTL DEF Spec
-----------------------------------------------------------------------------
(* Refinement. *)

\* Every step of the two stores is a step of the promise, or none.
LEMMA RefineStep == IInv /\ [Next]_vars => [Delivery!DNext]_Delivery!dvars
<1> SUFFICES ASSUME IInv, [Next]_vars PROVE [Delivery!DNext]_Delivery!dvars
  OBVIOUS
<1> USE DEF Delivery!dvars
<1>1. ASSUME UNCHANGED <<posts, timeline, linked, acked>>
      PROVE  [Delivery!DNext]_Delivery!dvars
  BY <1>1
<1>2. ASSUME NEW k \in Posters, NEW u \in Authors, CreatePost(k, u)
      PROVE  Delivery!DNext
  <2>1. Delivery!Publish(u)
    BY <1>2 DEF CreatePost, Delivery!Publish
  <2> QED BY <2>1, Bounds DEF Delivery!DNext
<1>3. ASSUME NEW k \in Posters, CommitFanout(k)
      PROVE  Delivery!DNext
  <2>1. pr[k].pc = "cached" /\ pr[k].pc # "idle"
    BY <1>3 DEF CommitFanout
  <2>2. pr[k].post \in Ids /\ pr[k].post \in PostIds /\ pr[k].to \subseteq Users
    BY <2>1, InFlight DEF IInv
  <2>3. pr[k].post \notin linked
    BY <2>1 DEF IInv, UndeliveredOK
  <2>4. Delivery!Deliver(pr[k].post, pr[k].to)
    BY <1>3, <2>2, <2>3 DEF CommitFanout, Recipients, Ids, Delivery!Deliver
  <2> QED BY <2>2, <2>4, Bounds DEF Delivery!DNext
<1>4. ASSUME NEW k \in Posters, Respond(k)
      PROVE  Delivery!DNext
  <2>1. pr[k].pc = "committed" /\ pr[k].pc # "idle"
    BY <1>4 DEF Respond
  <2>2. pr[k].post \in PostIds
    BY <2>1, InFlight DEF IInv
  <2>3. pr[k].post \in linked
    BY <2>1 DEF IInv, CommittedOK
  <2>4. Delivery!Acknowledge(pr[k].post)
    BY <1>4, <2>3 DEF Respond, db, Delivery!Acknowledge
  <2> QED BY <2>2, <2>4, Bounds DEF Delivery!DNext
<1>5. ASSUME NEW k \in Posters, ListFollowers(k) \/ CacheFanout(k) \/ PostAborts(k)
      PROVE  UNCHANGED <<posts, timeline, linked, acked>>
  BY <1>5 DEF ListFollowers, CacheFanout, PostAborts, db
<1>6. ASSUME NEW f \in Users, NEW e \in Authors, Follow(f, e) \/ Unfollow(f, e)
      PROVE  UNCHANGED <<posts, timeline, linked, acked>>
  BY <1>6 DEF Follow, Unfollow
<1>7. ASSUME NEW u \in Users, Evict(u)
      PROVE  UNCHANGED <<posts, timeline, linked, acked>>
  BY <1>7 DEF Evict, db
<1>8. ASSUME NEW u \in Readers, ReadStart(u) \/ ReadMore(u) \/ ReaderStep(u)
      PROVE  UNCHANGED <<posts, timeline, linked, acked>>
  BY <1>8 DEF ReadStart, ReadMore, ReaderStep, ReadCache, ReadMiss, ReadTimeline, Hydrate, db
<1>9. UNCHANGED vars => UNCHANGED <<posts, timeline, linked, acked>>
  BY DEF vars
<1> QED
  BY <1>1, <1>2, <1>3, <1>4, <1>5, <1>6, <1>7, <1>8, <1>9 DEF Next, PosterStep

\* create_post keeps the promise of the feed: one delivery, all at once, and
\* success told only afterwards.
THEOREM Refinement == Spec => ImplementsDelivery
<1>1. Init => Delivery!DInit
  BY DEF Init, Delivery!DInit
<1> QED BY <1>1, RefineStep, Invariant, PTL DEF Spec, ImplementsDelivery, Delivery!DSpec
=============================================================================
