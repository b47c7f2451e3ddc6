---------------------------- MODULE FeedDelivery ----------------------------
(***************************************************************************)
(* What the feed promises, with no word of sessions, transactions or the   *)
(* cache: a post is published by its author, and is delivered at most once *)
(* and all at once, to its author and to a set of other users.  The author *)
(* is told of success only after that: the fan-out is in the request path  *)
(* (feed/service.py:3-7), where feed spec.md:45-47 wants a 201 before it.  *)
(* A published post may stay undelivered forever.                          *)
(***************************************************************************)
EXTENDS Naturals, Sequences

CONSTANTS Users, MaxPosts

VARIABLES
  posts,      \* authors of the published posts; a post's id is its index
  timeline,   \* per user, the ids delivered to that user
  delivered,  \* ids whose delivery took place
  acked       \* ids whose author was told 201

dvars == <<posts, timeline, delivered, acked>>

DInit ==
  /\ posts = <<>>
  /\ timeline = [u \in Users |-> {}]
  /\ delivered = {}
  /\ acked = {}

Publish(u) ==
  /\ Len(posts) < MaxPosts
  /\ posts' = Append(posts, u)
  /\ UNCHANGED <<timeline, delivered, acked>>

Deliver(p, others) ==
  /\ p \in 1..Len(posts) /\ p \notin delivered
  /\ timeline' = [u \in Users |->
                    IF u \in others \cup {posts[p]} THEN timeline[u] \cup {p}
                                                    ELSE timeline[u]]
  /\ delivered' = delivered \cup {p}
  /\ UNCHANGED <<posts, acked>>

Acknowledge(p) ==
  /\ p \in delivered
  /\ acked' = acked \cup {p}
  /\ UNCHANGED <<posts, timeline, delivered>>

DNext ==
  \/ \E u \in Users : Publish(u)
  \/ \E p \in 1..MaxPosts : \E others \in SUBSET Users : Deliver(p, others)
  \/ \E p \in 1..MaxPosts : Acknowledge(p)

DSpec == DInit /\ [][DNext]_dvars
=============================================================================
