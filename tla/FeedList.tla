------------------------------ MODULE FeedList ------------------------------
(***************************************************************************)
(* The home page of the frontend (pages/FeedPage.tsx with                  *)
(* components/Composer.tsx): a list that is replaced by every refresh and  *)
(* extended by "Load older posts", and a box whose text is posted and      *)
(* followed by a refresh.  Answers come in any order, or not at all.       *)
(*                                                                         *)
(* The server is what FeedFanout shows of it while no feed key is lost: a  *)
(* post gets its id when it is inserted, enters the feed of the user at    *)
(* some later time, the author's own before the 201, and never leaves it.  *)
(* A request that fails may have been served, or be served later.          *)
(***************************************************************************)
EXTENDS NewestFirst

CONSTANTS Limit,        \* page size, 20 in the code
          MaxPosts,     \* bound: posts ever inserted
          MaxDrafts,    \* bound: texts typed in one visit of the page
          MaxRefreshes  \* bound: refreshes in flight

ASSUME LimitAssumption == Limit \in Nat \ {0}
ASSUME BoundsAssumption ==
  MaxPosts \in Nat /\ MaxDrafts \in Nat /\ MaxRefreshes \in Nat \ {0}

VARIABLES
  posts,      \* inserted posts, by id: the draft of this page it holds, or 0
  feed,       \* ids in the feed of the user
  refreshes,  \* refreshes in flight, oldest first
  more,       \* <<>>, or the load-more in flight (loadingMore)
  shown,      \* posts: ids, as rendered
  cursor,     \* nextCursor, 0 for null
  text,       \* the draft in the box, 0 if it is empty
  drafts,     \* drafts typed in this visit
  composer,   \* the submit in flight: [pc, draft, id]
  basis,      \* history: the feed as the last resolved refresh saw it
  posted,     \* history: ids the page was told 201 for
  races       \* history: which races this visit of the page has seen

server == <<posts, feed>>
list == <<refreshes, more, shown, cursor, basis>>
box == <<text, drafts, composer, posted>>
vars == <<posts, feed, refreshes, more, shown, cursor, text, drafts, composer,
          basis, posted, races>>

Ids == 1..Len(posts)
NoCursor == MaxPosts + 1
IdleComposer == [pc |-> "idle", draft |-> 0, id |-> 0]

\* GET /feed with a cursor: not answered, and then the feed it was answered from.
Request(before) == [before |-> before, done |-> FALSE, seen |-> {}]

\* The newest Limit ids below the cursor, and the next cursor of a full page.
Page(r) == Newest({p \in r.seen : p < r.before}, Limit)
NextCursor(r) == IF Len(Page(r)) = Limit THEN Last(Page(r)) ELSE 0

Init ==
  /\ posts = <<>> /\ feed = {}
  /\ refreshes = <<Request(NoCursor)>> /\ more = <<>>
  /\ shown = <<>> /\ cursor = 0
  /\ text = 0 /\ drafts = 0 /\ composer = IdleComposer
  /\ basis = {} /\ posted = {} /\ races = {}
-----------------------------------------------------------------------------
(* The server. *)

\* Somebody the user follows posts, or another page of the user does.
InsertOther ==
  /\ Len(posts) < MaxPosts
  /\ posts' = Append(posts, 0)
  /\ UNCHANGED <<feed, list, box, races>>

\* create_post for this page: the post is committed before the fan-out.
Insert ==
  /\ composer.pc = "posting"
  /\ Len(posts) < MaxPosts
  /\ posts' = Append(posts, composer.draft)
  /\ composer' = [composer EXCEPT !.pc = "inserted", !.id = Len(posts) + 1]
  /\ UNCHANGED <<feed, list, text, drafts, posted, races>>

\* fan_out_post; not always in the order of ids.
Deliver(p) ==
  /\ p \in Ids \ feed
  /\ feed' = feed \cup {p}
  /\ UNCHANGED <<posts, list, box, races>>

Answered(r) == [r EXCEPT !.done = TRUE, !.seen = feed]

AnswerRefresh(i) ==
  /\ ~refreshes[i].done
  /\ refreshes' = [refreshes EXCEPT ![i] = Answered(@)]
  /\ UNCHANGED <<server, more, shown, cursor, basis, box, races>>

AnswerMore ==
  /\ more # <<>> /\ ~Head(more).done
  /\ more' = [more EXCEPT ![1] = Answered(@)]
  /\ UNCHANGED <<server, refreshes, shown, cursor, basis, box, races>>
-----------------------------------------------------------------------------
(* FeedPage. *)

\* refresh, after its await: the answer replaces the list, whatever it is by
\* then and whatever is being loaded for it.
ResolveRefresh(i) ==
  /\ refreshes[i].done
  /\ shown' = Page(refreshes[i])
  /\ cursor' = NextCursor(refreshes[i])
  /\ basis' = refreshes[i].seen
  /\ races' = races \cup (IF more # <<>> THEN {"crossed"} ELSE {})
                    \cup (IF basis \subseteq refreshes[i].seen THEN {} ELSE {"reordered"})
  /\ refreshes' = RemoveAt(refreshes, i)
  /\ UNCHANGED <<server, more, box>>

FailRefresh(i) ==
  /\ refreshes' = RemoveAt(refreshes, i)
  /\ races' = races \cup {"failed"}
  /\ UNCHANGED <<server, more, shown, cursor, basis, box>>

\* Faulty variant: the button works while a page is being loaded.
LoadMoreAgain ==
  /\ cursor # 0 /\ Len(more) < 2
  /\ more' = Append(more, Request(cursor))
  /\ UNCHANGED <<server, refreshes, shown, cursor, basis, box, races>>

LoadMore ==
  /\ cursor # 0 /\ more = <<>>
  /\ more' = <<Request(cursor)>>
  /\ UNCHANGED <<server, refreshes, shown, cursor, basis, box, races>>

\* loadMore, after its await: the page is appended to the list of that moment.
ResolveMore ==
  /\ more # <<>> /\ Head(more).done
  /\ shown' = shown \o Page(Head(more))
  /\ cursor' = NextCursor(Head(more))
  /\ more' = Tail(more)
  /\ UNCHANGED <<server, refreshes, basis, box, races>>

FailMore ==
  /\ more # <<>>
  /\ more' = Tail(more)
  /\ UNCHANGED <<server, refreshes, shown, cursor, basis, box, races>>

\* The user leaves for another page and comes back: answers to the old page
\* go nowhere, and its post is one of the others'.
Remount ==
  /\ posts' = [p \in Ids |-> 0]
  /\ refreshes' = <<Request(NoCursor)>> /\ more' = <<>>
  /\ shown' = <<>> /\ cursor' = 0
  /\ text' = 0 /\ drafts' = 0 /\ composer' = IdleComposer
  /\ basis' = {} /\ posted' = {} /\ races' = {}
  /\ UNCHANGED feed
-----------------------------------------------------------------------------
(* Composer. *)

\* A text typed into the empty box, or over one that is being posted: the box
\* is not disabled meanwhile.
Type ==
  /\ text = 0 \/ composer.pc # "idle"
  /\ drafts < MaxDrafts
  /\ drafts' = drafts + 1
  /\ text' = drafts + 1
  /\ races' = races \cup (IF composer.pc # "idle" THEN {"retyped"} ELSE {})
  /\ UNCHANGED <<server, list, composer, posted>>

\* Faulty variant: the box is cleared when the request is sent.
SubmitClears ==
  /\ text # 0 /\ composer.pc = "idle"
  /\ composer' = [IdleComposer EXCEPT !.pc = "posting", !.draft = text]
  /\ text' = 0
  /\ UNCHANGED <<server, list, drafts, posted, races>>

\* The button is disabled while a submit is in flight.
Submit ==
  /\ text # 0 /\ composer.pc = "idle"
  /\ composer' = [IdleComposer EXCEPT !.pc = "posting", !.draft = text]
  /\ UNCHANGED <<server, list, text, drafts, posted, races>>

\* Faulty variants: no refresh; the 201 does not wait for the fan-out.
AcceptedQuietly ==
  /\ composer.pc = "inserted" /\ composer.id \in feed
  /\ text' = 0
  /\ posted' = posted \cup {composer.id}
  /\ composer' = IdleComposer
  /\ UNCHANGED <<server, list, drafts, races>>

AcceptedEarly ==
  /\ composer.pc = "inserted"
  /\ Len(refreshes) < MaxRefreshes
  /\ text' = 0
  /\ posted' = posted \cup {composer.id}
  /\ refreshes' = Append(refreshes, Request(NoCursor))
  /\ composer' = IdleComposer
  /\ UNCHANGED <<server, more, shown, cursor, basis, drafts, races>>

\* 201: the box is cleared, whatever it holds by then, and onPosted refreshes.
Accepted ==
  /\ composer.pc = "inserted" /\ composer.id \in feed
  /\ Len(refreshes) < MaxRefreshes
  /\ text' = 0
  /\ posted' = posted \cup {composer.id}
  /\ refreshes' = Append(refreshes, Request(NoCursor))
  /\ composer' = IdleComposer
  /\ UNCHANGED <<server, more, shown, cursor, basis, drafts, races>>

\* An error answer, or none, whatever the server did: the text stays.
Refused ==
  /\ composer.pc # "idle"
  /\ composer' = IdleComposer
  /\ races' = races \cup {"refused"}
  /\ UNCHANGED <<server, list, text, drafts, posted>>
-----------------------------------------------------------------------------
Next ==
  \/ InsertOther
  \/ Insert
  \/ \E p \in Ids : Deliver(p)
  \/ \E i \in 1..Len(refreshes) : AnswerRefresh(i) \/ ResolveRefresh(i) \/ FailRefresh(i)
  \/ AnswerMore
  \/ LoadMore
  \/ ResolveMore
  \/ FailMore
  \/ Remount
  \/ Type
  \/ Submit
  \/ Accepted
  \/ Refused

Spec == Init /\ [][Next]_vars
-----------------------------------------------------------------------------
RequestRecord == [before : Ids \cup {NoCursor}, done : BOOLEAN, seen : SUBSET feed]

\* Every variable holds a value of its kind; what is shown, or was accepted,
\* is in the feed.
TypeOK ==
  /\ posts \in Seq(0..MaxDrafts) /\ Len(posts) <= MaxPosts
  /\ feed \subseteq Ids
  /\ refreshes \in Seq(RequestRecord) /\ Len(refreshes) <= MaxRefreshes
  /\ more \in Seq(RequestRecord) /\ Len(more) <= 1
  /\ shown \in Seq(feed) /\ cursor \in feed \cup {0}
  /\ drafts \in 0..MaxDrafts /\ text \in 0..drafts
  /\ composer \in [pc : {"idle", "posting", "inserted"}, draft : 0..drafts, id : {0} \cup Ids]
  /\ basis \subseteq feed /\ posted \subseteq feed
  /\ races \subseteq {"crossed", "reordered", "failed", "retyped", "refused"}
-----------------------------------------------------------------------------
(* Safety. *)

\* The list is the feed from the newest post down to the cursor: it descends,
\* without repetition, unless an older refresh came after a newer one, and
\* lacks no post that its refresh saw, unless a refresh came while a page was
\* being loaded (FeedPage.tsx:20, 33; posts are keyed by their id).
ListIsFeed ==
  /\ "reordered" \notin races => Descends(shown)
  /\ "crossed" \notin races =>
       \A p \in basis : Contains(shown, p) \/ (cursor # 0 /\ p < cursor)

\* When the refreshes have come, in order and without a failure, each post of
\* the user's is in the list, or a page of newer ones is (Composer.tsx:18-20).
OwnPostsShown ==
  refreshes = <<>> /\ races \cap {"reordered", "failed"} = {} =>
    \A p \in posted :
      Contains(shown, p) \/ Cardinality({q \in ToSet(shown) : q > p}) >= Limit

\* What was typed is in the box or in the feed, unless the box was typed in
\* while its text was being posted; and it is there once, unless a request
\* that failed had been served and was repeated (Composer.tsx:14-24).
TextIsPosted ==
  \A d \in 1..drafts :
    LET copies == {p \in Ids : posts[p] = d} IN
      /\ "retyped" \notin races => d = text \/ copies \cap feed # {}
      /\ "refused" \notin races => Cardinality(copies) <= 1
=============================================================================
