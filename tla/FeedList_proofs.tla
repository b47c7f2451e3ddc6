--------------------------- MODULE FeedList_proofs ---------------------------
(***************************************************************************)
(* Proofs about FeedList for any page size and number of posts, drafts and *)
(* refreshes.                                                              *)
(*                                                                         *)
(* What becomes of a text is decided between the box, the submit in flight *)
(* and the posts of the server; which page the list shows plays no part.   *)
(* That the list is the feed down to its cursor needs what a load-more in  *)
(* flight may count on: a full page of what the last refresh saw is at or  *)
(* above its cursor, so a refresh that overtakes it shows nothing below.   *)
(***************************************************************************)
EXTENDS FeedList, NewestFirst_proofs

\* The kinds of what a text goes through.
Kinds ==
  /\ posts \in Seq(Nat) /\ feed \subseteq Ids
  /\ drafts \in Nat /\ text \in 0..drafts
  /\ \A p \in Ids : posts[p] <= drafts
  /\ composer \in [pc : {"idle", "posting", "inserted"}, draft : 0..drafts, id : Nat]
  /\ composer.pc # "idle" => composer.draft # 0
  /\ composer.pc = "inserted" => composer.id \in Ids /\ posts[composer.id] = composer.draft

\* A text is in the box, also while it is posted, until it is in the feed.
Kept ==
  "retyped" \notin races =>
    /\ composer.pc # "idle" => composer.draft = text
    /\ \A d \in 1..drafts : d = text \/ \E p \in feed : posts[p] = d

\* A text is inserted once; one that waits to be posted is in no post.
Once ==
  "refused" \notin races =>
    /\ \A p, q \in Ids : posts[p] = posts[q] /\ posts[p] # 0 => p = q
    /\ \A p \in Ids : /\ composer.pc = "idle" /\ text # 0 => posts[p] # text
                      /\ composer.pc = "posting" => posts[p] # composer.draft

TextInv == Kinds /\ Kept /\ Once
-----------------------------------------------------------------------------
LEMMA InitText == Init => TextInv
BY DEF Init, TextInv, Kinds, Kept, Once, Ids, IdleComposer

\* A post that is appended.
LEMMA AppendedPost ==
  ASSUME Kinds, NEW d \in Nat, posts' = Append(posts, d)
  PROVE  /\ posts' \in Seq(Nat) /\ Ids' = Ids \cup {Len(posts) + 1}
         /\ Len(posts) \in Nat /\ Len(posts) + 1 \notin Ids
         /\ posts'[Len(posts) + 1] = d
         /\ \A p \in Ids : posts'[p] = posts[p] /\ posts[p] \in Nat
BY DEF Kinds, Ids

\* What a post, of this page or another, does to the kinds.
LEMMA AppendKinds ==
  ASSUME Kinds, NEW d \in 0..drafts, posts' = Append(posts, d),
         UNCHANGED <<feed, drafts, text>>,
         \/ composer' = composer
         \/ /\ composer.pc = "posting" /\ d = composer.draft
            /\ composer' = [composer EXCEPT !.pc = "inserted", !.id = Len(posts) + 1]
  PROVE  Kinds'
<1>0. drafts \in Nat /\ d \in Nat /\ d <= drafts
  BY DEF Kinds
<1>1. /\ posts' \in Seq(Nat) /\ Ids' = Ids \cup {Len(posts) + 1} /\ Len(posts) \in Nat
      /\ posts'[Len(posts) + 1] = d
      /\ \A p \in Ids : posts'[p] = posts[p]
  BY <1>0, AppendedPost
<1>2. \A p \in Ids' : posts'[p] <= drafts
  <2>1. \A p \in Ids : posts[p] <= drafts
    BY DEF Kinds
  <2> QED BY <1>0, <1>1, <2>1
<1>3. feed \subseteq Ids'
  BY <1>1 DEF Kinds
<1>4. CASE composer' = composer
  BY <1>1, <1>2, <1>3, <1>4 DEF Kinds
<1>5. CASE /\ composer.pc = "posting" /\ d = composer.draft
           /\ composer' = [composer EXCEPT !.pc = "inserted", !.id = Len(posts) + 1]
  <2>1. /\ composer' \in [pc : {"idle", "posting", "inserted"}, draft : 0..drafts, id : Nat]
        /\ composer'.pc = "inserted" /\ composer'.id = Len(posts) + 1 /\ composer'.draft = d
        /\ d # 0
    <3>1. /\ composer \in [pc : {"idle", "posting", "inserted"}, draft : 0..drafts, id : Nat]
          /\ composer.draft # 0
      BY <1>5 DEF Kinds
    <3>2. Len(posts) + 1 \in Nat
      BY <1>1
    <3> QED BY <1>5, <3>1, <3>2
  <2> QED BY <1>1, <1>2, <1>3, <2>1 DEF Kinds
<1> QED BY <1>4, <1>5

\* Posts of others.
LEMMA OtherText == TextInv /\ InsertOther => TextInv'
<1> SUFFICES ASSUME TextInv, InsertOther PROVE TextInv'
  OBVIOUS
<1>1. /\ posts' = Append(posts, 0)
      /\ UNCHANGED <<feed, text, drafts, composer, races>>
  BY DEF InsertOther, box
<1>2. /\ posts' \in Seq(Nat) /\ Ids' = Ids \cup {Len(posts) + 1}
      /\ posts'[Len(posts) + 1] = 0 /\ Len(posts) + 1 \notin Ids
      /\ \A p \in Ids : posts'[p] = posts[p]
  BY <1>1, AppendedPost DEF TextInv
<1>3. Kinds'
  <2>1. 0 \in 0..drafts
    BY DEF TextInv, Kinds
  <2> QED BY <1>1, <2>1, AppendKinds DEF TextInv
<1>4. Kept'
  BY <1>1, <1>2 DEF TextInv, Kinds, Kept
<1>5. Once'
  <2>1. "refused" \notin races => \A p, q \in Ids' : posts'[p] = posts'[q] /\ posts'[p] # 0 => p = q
    BY <1>2 DEF TextInv, Once
  <2>2. composer.pc = "posting" => composer.draft # 0
    BY DEF TextInv, Kinds
  <2> QED BY <1>1, <1>2, <2>1, <2>2 DEF TextInv, Once
<1> QED BY <1>3, <1>4, <1>5 DEF TextInv

\* The post of this page.
LEMMA InsertText == TextInv /\ Insert => TextInv'
<1> SUFFICES ASSUME TextInv, Insert PROVE TextInv'
  OBVIOUS
<1> DEFINE d == composer.draft
<1>1. /\ composer.pc = "posting" /\ posts' = Append(posts, d) /\ d \in 0..drafts /\ drafts \in Nat
      /\ composer' = [composer EXCEPT !.pc = "inserted", !.id = Len(posts) + 1]
      /\ UNCHANGED <<feed, text, drafts, races>>
  BY DEF Insert, TextInv, Kinds
<1>2. /\ posts' \in Seq(Nat) /\ Ids' = Ids \cup {Len(posts) + 1}
      /\ posts'[Len(posts) + 1] = d /\ Len(posts) + 1 \notin Ids
      /\ \A p \in Ids : posts'[p] = posts[p]
  <2>1. d \in Nat
    BY <1>1
  <2> HIDE DEF d
  <2> QED BY <1>1, <2>1, AppendedPost DEF TextInv
<1>3. Kinds'
  BY <1>1, AppendKinds DEF TextInv
<1>4. composer'.pc = "inserted" /\ composer'.draft = d
  BY <1>1 DEF TextInv, Kinds
<1>5. Kept'
  <2>1. \A p \in feed : posts'[p] = posts[p]
    BY <1>2 DEF TextInv, Kinds
  <2>2. "retyped" \notin races => d = text /\ \A e \in 1..drafts : e = text \/ \E p \in feed : posts[p] = e
    BY <1>1 DEF TextInv, Kept
  <2>3. UNCHANGED <<feed, text, drafts, races>> /\ composer'.draft = d
    BY <1>1, <1>4
  <2> HIDE DEF d
  <2>4. "retyped" \notin races => \A e \in 1..drafts : e = text \/ \E p \in feed : posts'[p] = e
    BY <2>1, <2>2
  <2> QED BY <2>2, <2>3, <2>4 DEF Kept
<1>6. Once'
  <2>1. "refused" \notin races => \A p \in Ids : posts[p] # d
    BY <1>1 DEF TextInv, Once
  <2>2. "refused" \notin races => \A p, q \in Ids' : posts'[p] = posts'[q] /\ posts'[p] # 0 => p = q
    BY <1>2, <2>1 DEF TextInv, Once
  <2> QED BY <1>1, <1>4, <2>2 DEF Once
<1> QED BY <1>3, <1>5, <1>6 DEF TextInv

\* The box.
LEMMA BoxText ==
  ASSUME TextInv, Type \/ Submit \/ Accepted \/ Refused
  PROVE  TextInv'
<1>0. /\ UNCHANGED <<posts, feed>> /\ Ids' = Ids
      /\ composer \in [pc : {"idle", "posting", "inserted"}, draft : 0..drafts, id : Nat]
  BY DEF Type, Submit, Accepted, Refused, server, Ids, TextInv, Kinds
<1>1. CASE Type
  <2>1. /\ drafts' = drafts + 1 /\ text' = drafts + 1 /\ UNCHANGED composer
        /\ races' = races \cup (IF composer.pc # "idle" THEN {"retyped"} ELSE {})
        /\ text = 0 \/ composer.pc # "idle"
    BY <1>1 DEF Type
  <2>2. Kinds'
    <3>1. /\ \A p \in Ids : posts[p] \in Nat /\ posts[p] <= drafts
          /\ drafts \in Nat
      BY DEF TextInv, Kinds, Ids
    <3>2. \A p \in Ids : posts[p] <= drafts + 1
      BY <3>1
    <3>3. composer \in [pc : {"idle", "posting", "inserted"}, draft : 0..(drafts + 1), id : Nat]
      BY <1>0, <3>1
    <3> QED BY <1>0, <2>1, <3>1, <3>2, <3>3 DEF TextInv, Kinds
  <2>3. Kept'
    BY <1>0, <2>1 DEF TextInv, Kinds, Kept
  <2>4. Once'
    BY <1>0, <2>1 DEF TextInv, Kinds, Once
  <2> QED BY <2>2, <2>3, <2>4 DEF TextInv
<1>2. CASE Submit
  <2>1. /\ text # 0 /\ composer.pc = "idle" /\ UNCHANGED <<text, drafts, races>>
        /\ composer' = [pc |-> "posting", draft |-> text, id |-> 0]
    BY <1>2 DEF Submit, IdleComposer
  <2> QED BY <1>0, <2>1 DEF TextInv, Kinds, Kept, Once
<1>3. CASE Accepted
  <2>1. /\ composer.pc = "inserted" /\ composer.id \in feed /\ text' = 0
        /\ UNCHANGED <<drafts, races>> /\ composer' = [pc |-> "idle", draft |-> 0, id |-> 0]
    BY <1>3 DEF Accepted, IdleComposer
  <2>2. Kinds'
    BY <1>0, <2>1 DEF TextInv, Kinds
  <2>3. Kept'
    BY <1>0, <2>1 DEF TextInv, Kinds, Kept
  <2>4. Once'
    BY <1>0, <2>1 DEF TextInv, Kinds, Once
  <2> QED BY <2>2, <2>3, <2>4 DEF TextInv
<1>4. CASE Refused
  <2>1. /\ UNCHANGED <<text, drafts>> /\ races' = races \cup {"refused"}
        /\ composer' = [pc |-> "idle", draft |-> 0, id |-> 0]
    BY <1>4 DEF Refused, IdleComposer
  <2> QED BY <1>0, <2>1 DEF TextInv, Kinds, Kept, Once
<1> QED BY <1>1, <1>2, <1>3, <1>4

\* A new visit starts with an empty box, and posts of earlier ones are others'.
LEMMA RemountText == TextInv /\ Remount => TextInv'
<1> SUFFICES ASSUME TextInv, Remount PROVE TextInv'
  OBVIOUS
<1>1. /\ posts' = [p \in Ids |-> 0] /\ feed' = feed /\ text' = 0 /\ drafts' = 0
      /\ composer' = [pc |-> "idle", draft |-> 0, id |-> 0]
  BY DEF Remount, IdleComposer
<1>2. posts' \in Seq(Nat) /\ Len(posts') = Len(posts) /\ \A p \in Ids : posts'[p] = 0
  <2>1. Len(posts) \in Nat
    BY DEF TextInv, Kinds
  <2> QED BY <1>1, <2>1 DEF Ids
<1>3. Ids' = Ids
  BY <1>2 DEF Ids
<1> QED BY <1>1, <1>2, <1>3 DEF TextInv, Kinds, Kept, Once

\* Steps of the list and of the fan-out.
LEMMA OtherSteps ==
  ASSUME TextInv, UNCHANGED <<posts, text, drafts, composer>>,
         feed \subseteq feed', feed' \subseteq Ids, races \subseteq races'
  PROVE  TextInv'
<1>1. Ids' = Ids
  BY DEF Ids
<1> QED BY <1>1 DEF TextInv, Kinds, Kept, Once

LEMMA StepText == TextInv /\ [Next]_vars => TextInv'
<1> SUFFICES ASSUME TextInv, [Next]_vars PROVE TextInv'
  OBVIOUS
<1>0. feed \subseteq Ids
  BY DEF TextInv, Kinds
<1>1. ASSUME NEW p \in Ids, Deliver(p) PROVE TextInv'
  BY <1>0, <1>1, OtherSteps DEF Deliver, box
<1>2. CASE AnswerMore \/ LoadMore \/ ResolveMore \/ FailMore
  BY <1>0, <1>2, OtherSteps DEF AnswerMore, LoadMore, ResolveMore, FailMore, server, box
<1>3. ASSUME NEW i \in 1..Len(refreshes),
             AnswerRefresh(i) \/ ResolveRefresh(i) \/ FailRefresh(i)
      PROVE  TextInv'
  BY <1>0, <1>3, OtherSteps DEF AnswerRefresh, ResolveRefresh, FailRefresh, server, box
<1>4. CASE UNCHANGED vars
  BY <1>0, <1>4, OtherSteps DEF vars
<1> QED BY <1>1, <1>2, <1>3, <1>4, OtherText, InsertText, BoxText, RemountText DEF Next

\* A typed text ends up in the feed, or stays in the box, and it ends up there
\* once, for any number of posts, drafts and requests in flight.
THEOREM TextIsPostedHolds == Spec => []TextIsPosted
<1>1. TextInv => TextIsPosted
  <2> SUFFICES ASSUME TextInv, NEW d \in 1..drafts
               PROVE  LET copies == {p \in Ids : posts[p] = d} IN
                        /\ "retyped" \notin races => d = text \/ copies \cap feed # {}
                        /\ "refused" \notin races => Cardinality(copies) <= 1
    BY DEF TextIsPosted
  <2> DEFINE copies == {p \in Ids : posts[p] = d}
  <2>0. d # 0 /\ feed \subseteq Ids
    BY DEF TextInv, Kinds
  <2>1. ASSUME "retyped" \notin races PROVE d = text \/ copies \cap feed # {}
    BY <2>0, <2>1 DEF TextInv, Kept
  <2>2. ASSUME "refused" \notin races PROVE Cardinality(copies) <= 1
    <3>1. \A p, q \in copies : p = q
      BY <2>0, <2>2 DEF TextInv, Once
    <3>2. CASE copies = {}
      <4>1. Cardinality({}) = 0
        BY FS_EmptySet
      <4>2. Cardinality(copies) = 0
        BY <3>2, <4>1
      <4> QED BY <4>2
    <3>3. CASE copies # {}
      <4>1. PICK p \in copies : TRUE
        BY <3>3
      <4>2. copies = {p}
        <5> HIDE DEF copies
        <5> QED BY <3>1, <4>1
      <4>3. Cardinality({p}) = 1
        BY FS_Singleton
      <4>4. Cardinality(copies) = 1
        BY <4>2, <4>3
      <4> QED BY <4>4
    <3> QED BY <3>2, <3>3
  <2> QED BY <2>1, <2>2
<1> QED BY <1>1, InitText, StepText, PTL DEF Spec
-----------------------------------------------------------------------------
(* The list. *)

\* The parts of the type invariant.
ServerKinds == posts \in Seq(0..MaxDrafts) /\ Len(posts) <= MaxPosts /\ feed \subseteq Ids
ListKinds ==
  /\ refreshes \in Seq(RequestRecord) /\ Len(refreshes) <= MaxRefreshes
  /\ more \in Seq(RequestRecord) /\ Len(more) <= 1
  /\ shown \in Seq(feed) /\ cursor \in feed \cup {0} /\ basis \subseteq feed
BoxKinds ==
  /\ drafts \in 0..MaxDrafts /\ text \in 0..drafts
  /\ composer \in [pc : {"idle", "posting", "inserted"}, draft : 0..drafts, id : {0} \cup Ids]
  /\ posted \subseteq feed
RaceKinds == races \subseteq {"crossed", "reordered", "failed", "retyped", "refused"}

LEMMA TypeParts == TypeOK <=> ServerKinds /\ ListKinds /\ BoxKinds /\ RaceKinds
BY DEF TypeOK, ServerKinds, ListKinds, BoxKinds, RaceKinds

\* The bounds, and the ids they give.
LEMMA Bounds ==
  ASSUME TypeOK
  PROVE  /\ Limit \in Nat /\ Limit > 0 /\ MaxPosts \in Nat /\ MaxRefreshes \in Nat
         /\ MaxRefreshes > 0 /\ MaxDrafts \in Nat
         /\ NoCursor = MaxPosts + 1 /\ Len(posts) \in Nat /\ Ids = 1..Len(posts)
         /\ feed \subseteq Nat /\ IsFiniteSet(feed) /\ \A p \in feed : p > 0 /\ p < NoCursor
<1>1. /\ Limit \in Nat /\ Limit > 0 /\ MaxPosts \in Nat /\ MaxRefreshes \in Nat
      /\ MaxRefreshes > 0 /\ MaxDrafts \in Nat /\ NoCursor = MaxPosts + 1
  BY LimitAssumption, BoundsAssumption DEF NoCursor
<1>2. Len(posts) \in Nat /\ Ids = 1..Len(posts) /\ feed \in SUBSET Ids /\ Len(posts) <= MaxPosts
  BY DEF TypeOK, Ids
<1>3. IsFiniteSet(Ids)
  BY <1>2, FS_Interval
<1>4. IsFiniteSet(feed)
  BY <1>2, <1>3, FS_Subset
<1>5. feed \subseteq Nat /\ \A p \in feed : p > 0 /\ p < NoCursor
  BY <1>1, <1>2
<1> QED BY <1>1, <1>2, <1>4, <1>5

\* A page of an answer.
LEMMA PageProperties ==
  ASSUME TypeOK, NEW r \in RequestRecord
  PROVE  /\ Page(r) \in Seq(feed) /\ Page(r) \in Seq(r.seen) /\ Page(r) \in Seq(Nat)
         /\ Len(Page(r)) \in 0..Limit
         /\ \A i \in 1..Len(Page(r)) : Page(r)[i] \in r.seen /\ Page(r)[i] < r.before
         /\ Descends(Page(r)) /\ IsInjective(Page(r))
         /\ \A p \in r.seen : p < r.before =>
              \/ Contains(Page(r), p)
              \/ Len(Page(r)) = Limit /\ \A i \in 1..Limit : Page(r)[i] > p
         /\ NextCursor(r) \in r.seen \cup {0}
         /\ NextCursor(r) # 0 => Len(Page(r)) = Limit /\ NextCursor(r) = Page(r)[Limit]
         /\ NextCursor(r) = 0 => Len(Page(r)) < Limit
<1> DEFINE S == {p \in r.seen : p < r.before}
           s == Page(r)
<1>1. r.seen \in SUBSET feed
  BY DEF RequestRecord
<1>2. S \in SUBSET Nat /\ IsFiniteSet(S)
  <2>1. S \in SUBSET feed
    BY <1>1
  <2> HIDE DEF S
  <2> QED BY <2>1, Bounds, FS_Subset
<1>3. s = Newest(S, Limit)
  BY DEF Page
<1>4. Limit \in Nat /\ Limit > 0
  BY Bounds
<1>5. /\ s \in Seq(S) /\ Len(s) \in 0..Limit /\ Descends(s) /\ IsInjective(s)
      /\ \A x \in S : Contains(s, x) \/ (Len(s) = Limit /\ \A i \in 1..Limit : s[i] > x)
  <2> HIDE DEF S, s
  <2> QED BY <1>2, <1>3, <1>4, NewestProperties
<1>6. S \in SUBSET r.seen /\ S \in SUBSET feed
  BY <1>1
<1>7. s \in Seq(feed) /\ s \in Seq(r.seen) /\ s \in Seq(Nat)
  <2> HIDE DEF S, s
  <2> QED BY <1>2, <1>5, <1>6, SeqOfMore
<1>8. \A i \in 1..Len(s) : s[i] \in S
  <2> HIDE DEF S, s
  <2> QED BY <1>5
<1>9. NextCursor(r) = IF Len(s) = Limit THEN s[Limit] ELSE 0
  BY DEF NextCursor, Last
<1>10. Len(s) = Limit => s[Limit] \in r.seen /\ s[Limit] # 0
  <2>1. Len(s) = Limit => Limit \in 1..Len(s)
    BY <1>4
  <2>2. \A p \in r.seen : p # 0
    BY <1>1, Bounds
  <2> HIDE DEF s
  <2> QED BY <1>8, <2>1, <2>2
<1>11. /\ NextCursor(r) \in r.seen \cup {0}
       /\ NextCursor(r) # 0 => Len(s) = Limit /\ NextCursor(r) = s[Limit]
       /\ NextCursor(r) = 0 => Len(s) < Limit
  <2> HIDE DEF s
  <2> QED BY <1>4, <1>5, <1>9, <1>10
<1>12. \A p \in r.seen : p < r.before => Contains(s, p) \/ (Len(s) = Limit /\ \A i \in 1..Limit : s[i] > p)
  BY <1>5
<1> QED BY <1>5, <1>7, <1>8, <1>11, <1>12

\* A request in flight is one of the feed it will be answered from.
LEMMA RequestKinds ==
  ASSUME TypeOK
  PROVE  /\ Request(NoCursor) \in RequestRecord
         /\ cursor # 0 => Request(cursor) \in RequestRecord
         /\ \A r \in RequestRecord : Answered(r) \in RequestRecord
         /\ \A r \in RequestRecord : Answered(r).before = r.before /\ Answered(r).done
                                     /\ Answered(r).seen = feed
<1>1. feed \subseteq Ids /\ cursor \in feed \cup {0}
  BY DEF TypeOK
<1> QED BY <1>1 DEF Request, RequestRecord, Answered

\* What the server inserts and delivers.
LEMMA GrowKinds ==
  ASSUME TypeOK, Ids \subseteq Ids', feed \subseteq feed', UNCHANGED list
  PROVE  ListKinds'
<1>1. RequestRecord \in SUBSET RequestRecord' /\ feed \in SUBSET feed'
  BY DEF RequestRecord
<1>2. refreshes \in Seq(RequestRecord') /\ more \in Seq(RequestRecord') /\ shown \in Seq(feed')
  BY <1>1, SeqOfMore DEF TypeOK
<1> QED BY <1>1, <1>2 DEF TypeOK, ListKinds, list

LEMMA ServerType ==
  ASSUME TypeOK, InsertOther \/ Insert \/ \E p \in Ids : Deliver(p)
  PROVE  TypeOK'
<1>0. /\ ServerKinds /\ ListKinds /\ BoxKinds /\ RaceKinds
      /\ Ids = 1..Len(posts) /\ Len(posts) \in Nat /\ MaxPosts \in Nat /\ MaxDrafts \in Nat
  BY TypeParts, Bounds
<1>1. ASSUME NEW d \in 0..MaxDrafts, posts' = Append(posts, d), feed' = feed,
             Len(posts) < MaxPosts
      PROVE  ServerKinds' /\ Ids' = Ids \cup {Len(posts) + 1} /\ feed \subseteq feed'
  <2>1. posts' \in Seq(0..MaxDrafts) /\ Len(posts') = Len(posts) + 1
    BY <1>0, <1>1 DEF ServerKinds
  <2>2. Ids' = Ids \cup {Len(posts) + 1}
    BY <1>0, <2>1 DEF Ids
  <2> QED BY <1>0, <1>1, <2>1, <2>2 DEF ServerKinds
<1>2. CASE InsertOther
  <2>1. posts' = Append(posts, 0) /\ Len(posts) < MaxPosts /\ UNCHANGED <<feed, list, box, races>>
    BY <1>2 DEF InsertOther
  <2>2. 0 \in 0..MaxDrafts
    BY <1>0
  <2>3. ServerKinds' /\ Ids \subseteq Ids' /\ feed \subseteq feed'
    BY <1>1, <2>1, <2>2
  <2>4. ListKinds'
    BY <2>1, <2>3, GrowKinds
  <2>5. BoxKinds' /\ RaceKinds'
    BY <1>0, <2>1, <2>3 DEF BoxKinds, RaceKinds, box
  <2> QED BY <2>3, <2>4, <2>5, TypeParts DEF TypeOK, ServerKinds, ListKinds, BoxKinds, RaceKinds
<1>3. CASE Insert
  <2>1. /\ posts' = Append(posts, composer.draft) /\ Len(posts) < MaxPosts
        /\ composer' = [composer EXCEPT !.pc = "inserted", !.id = Len(posts) + 1]
        /\ UNCHANGED <<feed, list, text, drafts, posted, races>>
    BY <1>3 DEF Insert
  <2>2. composer.draft \in 0..MaxDrafts
    BY <1>0 DEF BoxKinds
  <2>3. ServerKinds' /\ Ids' = Ids \cup {Len(posts) + 1} /\ feed \subseteq feed'
    BY <1>1, <2>1, <2>2
  <2>4. ListKinds'
    BY <2>1, <2>3, GrowKinds
  <2>5. composer' \in [pc : {"idle", "posting", "inserted"}, draft : 0..drafts, id : {0} \cup Ids']
    BY <1>0, <2>1, <2>3 DEF BoxKinds
  <2>6. BoxKinds' /\ RaceKinds'
    BY <1>0, <2>1, <2>5 DEF BoxKinds, RaceKinds
  <2> QED BY <2>3, <2>4, <2>6 DEF TypeOK, ServerKinds, ListKinds, BoxKinds, RaceKinds
<1>4. ASSUME NEW p \in Ids, Deliver(p) PROVE TypeOK'
  <2>1. feed' = feed \cup {p} /\ UNCHANGED <<posts, list, box, races>>
    BY <1>4 DEF Deliver
  <2>2. Ids' = Ids /\ feed \subseteq feed'
    BY <2>1 DEF Ids
  <2>3. ListKinds'
    BY <2>1, <2>2, GrowKinds
  <2>4. ServerKinds' /\ BoxKinds' /\ RaceKinds'
    BY <1>0, <2>1, <2>2 DEF ServerKinds, BoxKinds, RaceKinds, box
  <2> QED BY <2>3, <2>4 DEF TypeOK, ServerKinds, ListKinds, BoxKinds, RaceKinds
<1> QED BY <1>2, <1>3, <1>4

\* Steps that leave the server and the box alone.
LEMMA ListFrame ==
  ASSUME TypeOK, UNCHANGED <<server, box>>, ListKinds', RaceKinds'
  PROVE  TypeOK'
<1>1. Ids' = Ids
  BY DEF server, Ids
<1> QED BY <1>1 DEF TypeOK, ServerKinds, ListKinds, BoxKinds, RaceKinds, server, box

LEMMA ListKindsFrame ==
  ASSUME UNCHANGED <<posts, feed>>
  PROVE  RequestRecord' = RequestRecord
BY DEF RequestRecord, Ids

\* Answers, and what becomes of them.
LEMMA ListType ==
  ASSUME TypeOK,
         \/ \E i \in 1..Len(refreshes) : AnswerRefresh(i) \/ ResolveRefresh(i) \/ FailRefresh(i)
         \/ AnswerMore \/ LoadMore \/ ResolveMore \/ FailMore
  PROVE  TypeOK'
<1>0. ListKinds /\ RaceKinds
  BY TypeParts
<1>1. ASSUME UNCHANGED <<posts, feed>>
      PROVE  RequestRecord' = RequestRecord
  BY <1>1, ListKindsFrame
<1>2. ASSUME NEW i \in 1..Len(refreshes), AnswerRefresh(i) PROVE TypeOK'
  <2>1. /\ refreshes' = [refreshes EXCEPT ![i] = Answered(refreshes[i])]
        /\ UNCHANGED <<server, more, shown, cursor, basis, box, races>>
    BY <1>2 DEF AnswerRefresh
  <2>2. Answered(refreshes[i]) \in RequestRecord
    BY <1>0, RequestKinds DEF ListKinds
  <2>3. refreshes' \in Seq(RequestRecord) /\ Len(refreshes') = Len(refreshes)
    BY <1>0, <2>1, <2>2, ReplacedEntry DEF ListKinds
  <2>4. ListKinds' /\ RaceKinds'
    BY <1>0, <1>1, <2>1, <2>3 DEF ListKinds, RaceKinds, server
  <2> QED BY <2>1, <2>4, ListFrame
<1>3. ASSUME NEW i \in 1..Len(refreshes), ResolveRefresh(i) PROVE TypeOK'
  <2> DEFINE r == refreshes[i]
  <2>1. /\ shown' = Page(r) /\ cursor' = NextCursor(r) /\ basis' = r.seen
        /\ races' = races \cup (IF more # <<>> THEN {"crossed"} ELSE {})
                          \cup (IF basis \subseteq r.seen THEN {} ELSE {"reordered"})
        /\ refreshes' = RemoveAt(refreshes, i)
        /\ UNCHANGED <<server, more, box>>
    BY <1>3 DEF ResolveRefresh
  <2>2. r \in RequestRecord /\ r.seen \subseteq feed
    <3>1. r \in RequestRecord
      BY <1>0 DEF ListKinds
    <3> QED BY <3>1 DEF RequestRecord
  <2>3. shown' \in Seq(feed) /\ cursor' \in feed \cup {0}
    <3> HIDE DEF r
    <3> QED BY <2>1, <2>2, PageProperties
  <2>4. refreshes' \in Seq(RequestRecord) /\ Len(refreshes') = Len(refreshes) - 1
    BY <1>0, <2>1, RemoveAtProperties DEF ListKinds
  <2>5. Len(refreshes') <= MaxRefreshes
    BY <1>0, <2>4, Bounds DEF ListKinds
  <2>6. RaceKinds'
    BY <1>0, <2>1 DEF RaceKinds
  <2>7. ListKinds'
    <3> HIDE DEF r
    <3> QED BY <1>0, <1>1, <2>1, <2>2, <2>3, <2>4, <2>5 DEF ListKinds, server
  <2> QED BY <2>1, <2>6, <2>7, ListFrame
<1>4. ASSUME NEW i \in 1..Len(refreshes), FailRefresh(i) PROVE TypeOK'
  <2>1. /\ refreshes' = RemoveAt(refreshes, i) /\ races' = races \cup {"failed"}
        /\ UNCHANGED <<server, more, shown, cursor, basis, box>>
    BY <1>4 DEF FailRefresh
  <2>2. refreshes' \in Seq(RequestRecord) /\ Len(refreshes') = Len(refreshes) - 1
    BY <1>0, <2>1, RemoveAtProperties DEF ListKinds
  <2>3. Len(refreshes') <= MaxRefreshes
    BY <1>0, <2>2, Bounds DEF ListKinds
  <2>4. ListKinds' /\ RaceKinds'
    BY <1>0, <1>1, <2>1, <2>2, <2>3 DEF ListKinds, RaceKinds, server
  <2> QED BY <2>1, <2>4, ListFrame
<1>5. CASE AnswerMore
  <2>1. /\ more # <<>> /\ more' = [more EXCEPT ![1] = Answered(more[1])]
        /\ UNCHANGED <<server, refreshes, shown, cursor, basis, box, races>>
    BY <1>5 DEF AnswerMore
  <2>2. 1 \in 1..Len(more) /\ more[1] \in RequestRecord
    BY <1>0, <2>1 DEF ListKinds
  <2>3. more' \in Seq(RequestRecord) /\ Len(more') = Len(more)
    BY <1>0, <2>1, <2>2, RequestKinds, ReplacedEntry DEF ListKinds
  <2>4. ListKinds' /\ RaceKinds'
    BY <1>0, <1>1, <2>1, <2>3 DEF ListKinds, RaceKinds, server
  <2> QED BY <2>1, <2>4, ListFrame
<1>6. CASE LoadMore
  <2>1. /\ cursor # 0 /\ more' = <<Request(cursor)>>
        /\ UNCHANGED <<server, refreshes, shown, cursor, basis, box, races>>
    BY <1>6 DEF LoadMore
  <2>2. more' \in Seq(RequestRecord) /\ Len(more') = 1
    BY <2>1, RequestKinds
  <2>3. ListKinds' /\ RaceKinds'
    BY <1>0, <1>1, <2>1, <2>2 DEF ListKinds, RaceKinds, server
  <2> QED BY <2>1, <2>3, ListFrame
<1>7. CASE ResolveMore
  <2>1. /\ more # <<>> /\ shown' = shown \o Page(more[1]) /\ cursor' = NextCursor(more[1])
        /\ more' = Tail(more)
        /\ UNCHANGED <<server, refreshes, basis, box, races>>
    BY <1>7 DEF ResolveMore
  <2>2. more[1] \in RequestRecord /\ more[1].seen \subseteq feed
    <3>1. more[1] \in RequestRecord
      BY <1>0, <2>1 DEF ListKinds
    <3> QED BY <3>1 DEF RequestRecord
  <2>3. Page(more[1]) \in Seq(feed) /\ NextCursor(more[1]) \in feed \cup {0}
    BY <2>2, PageProperties
  <2>4. shown' \in Seq(feed) /\ more' \in Seq(RequestRecord) /\ Len(more') <= 1
    BY <1>0, <2>1, <2>3 DEF ListKinds
  <2>5. ListKinds' /\ RaceKinds'
    BY <1>0, <1>1, <2>1, <2>3, <2>4 DEF ListKinds, RaceKinds, server
  <2> QED BY <2>1, <2>5, ListFrame
<1>8. CASE FailMore
  <2>1. /\ more # <<>> /\ more' = Tail(more)
        /\ UNCHANGED <<server, refreshes, shown, cursor, basis, box, races>>
    BY <1>8 DEF FailMore
  <2>2. more' \in Seq(RequestRecord) /\ Len(more') <= 1
    BY <1>0, <2>1 DEF ListKinds
  <2>3. ListKinds' /\ RaceKinds'
    BY <1>0, <1>1, <2>1, <2>2 DEF ListKinds, RaceKinds, server
  <2> QED BY <2>1, <2>3, ListFrame
<1> QED BY <1>2, <1>3, <1>4, <1>5, <1>6, <1>7, <1>8

\* The box, and a new visit.
LEMMA BoxType ==
  ASSUME TypeOK, Type \/ Submit \/ Accepted \/ Refused \/ Remount
  PROVE  TypeOK'
<1>0. /\ ServerKinds /\ ListKinds /\ BoxKinds /\ RaceKinds
      /\ MaxDrafts \in Nat /\ MaxRefreshes \in Nat /\ MaxRefreshes > 0 /\ Len(posts) \in Nat
      /\ Request(NoCursor) \in RequestRecord /\ drafts \in Nat
  <2>1. ServerKinds /\ ListKinds /\ BoxKinds /\ RaceKinds
    BY TypeParts
  <2> QED BY <2>1, Bounds, RequestKinds DEF BoxKinds
<1>1. ASSUME UNCHANGED <<server, list>>, BoxKinds', RaceKinds' PROVE TypeOK'
  <2>1. ListKinds' /\ ServerKinds'
    BY <1>0, <1>1, ListKindsFrame DEF ListKinds, ServerKinds, server, list, Ids
  <2> QED BY <1>1, <2>1 DEF TypeOK, ServerKinds, ListKinds, BoxKinds, RaceKinds
<1>2. CASE Type
  <2>1. /\ drafts < MaxDrafts /\ drafts' = drafts + 1 /\ text' = drafts + 1
        /\ races' = races \cup (IF composer.pc # "idle" THEN {"retyped"} ELSE {})
        /\ UNCHANGED <<server, list, composer, posted>>
    BY <1>2 DEF Type
  <2>2. Ids' = Ids
    BY <2>1 DEF server, Ids
  <2>3. composer \in [pc : {"idle", "posting", "inserted"}, draft : 0..(drafts + 1), id : {0} \cup Ids]
    BY <1>0 DEF BoxKinds
  <2>4. drafts + 1 \in 0..MaxDrafts /\ drafts + 1 \in 0..(drafts + 1)
    BY <1>0, <2>1
  <2>5. BoxKinds' /\ RaceKinds'
    BY <1>0, <2>1, <2>2, <2>3, <2>4 DEF BoxKinds, RaceKinds, server
  <2> QED BY <1>1, <2>1, <2>5
<1>3. CASE Submit
  <2>1. /\ composer' = [pc |-> "posting", draft |-> text, id |-> 0]
        /\ UNCHANGED <<server, list, text, drafts, posted, races>>
    BY <1>3 DEF Submit, IdleComposer
  <2>2. Ids' = Ids
    BY <2>1 DEF server, Ids
  <2>3. BoxKinds' /\ RaceKinds'
    BY <1>0, <2>1, <2>2 DEF BoxKinds, RaceKinds, server
  <2> QED BY <1>1, <2>1, <2>3
<1>4. CASE Refused
  <2>1. /\ composer' = [pc |-> "idle", draft |-> 0, id |-> 0] /\ races' = races \cup {"refused"}
        /\ UNCHANGED <<server, list, text, drafts, posted>>
    BY <1>4 DEF Refused, IdleComposer
  <2>2. Ids' = Ids
    BY <2>1 DEF server, Ids
  <2>3. BoxKinds' /\ RaceKinds'
    BY <1>0, <2>1, <2>2 DEF BoxKinds, RaceKinds, server
  <2> QED BY <1>1, <2>1, <2>3
<1>5. CASE Accepted
  <2>1. /\ composer.id \in feed /\ Len(refreshes) < MaxRefreshes /\ text' = 0
        /\ posted' = posted \cup {composer.id}
        /\ refreshes' = Append(refreshes, Request(NoCursor))
        /\ composer' = [pc |-> "idle", draft |-> 0, id |-> 0]
        /\ UNCHANGED <<server, more, shown, cursor, basis, drafts, races>>
    BY <1>5 DEF Accepted, IdleComposer
  <2>2. Ids' = Ids /\ RequestRecord' = RequestRecord
    BY <2>1, ListKindsFrame DEF server, Ids
  <2>3. refreshes' \in Seq(RequestRecord) /\ Len(refreshes') = Len(refreshes) + 1
    BY <1>0, <2>1, AppendedEntry DEF ListKinds
  <2>4. Len(refreshes') <= MaxRefreshes
    BY <1>0, <2>1, <2>3 DEF ListKinds
  <2>5. BoxKinds' /\ RaceKinds'
    BY <1>0, <2>1, <2>2 DEF BoxKinds, RaceKinds, server
  <2>6. ListKinds' /\ ServerKinds'
    BY <1>0, <2>1, <2>2, <2>3, <2>4 DEF ListKinds, ServerKinds, server
  <2> QED BY <2>5, <2>6 DEF TypeOK, ServerKinds, ListKinds, BoxKinds, RaceKinds
<1>6. CASE Remount
  <2>1. /\ posts' = [p \in Ids |-> 0] /\ refreshes' = <<Request(NoCursor)>> /\ more' = <<>>
        /\ shown' = <<>> /\ cursor' = 0 /\ text' = 0 /\ drafts' = 0
        /\ composer' = [pc |-> "idle", draft |-> 0, id |-> 0]
        /\ basis' = {} /\ posted' = {} /\ races' = {} /\ feed' = feed
    BY <1>6 DEF Remount, IdleComposer
  <2>2. posts' \in Seq(0..MaxDrafts) /\ Len(posts') = Len(posts)
    BY <1>0, <2>1 DEF Ids
  <2>3. Ids' = Ids /\ RequestRecord' = RequestRecord
    BY <2>1, <2>2 DEF Ids, RequestRecord
  <2>4. ServerKinds'
    BY <1>0, <2>1, <2>2, <2>3 DEF ServerKinds
  <2>5. refreshes' \in Seq(RequestRecord') /\ Len(refreshes') = 1 /\ more' \in Seq(RequestRecord')
    BY <1>0, <2>1, <2>3
  <2>6. ListKinds'
    BY <1>0, <2>1, <2>5 DEF ListKinds
  <2>7. BoxKinds' /\ RaceKinds'
    BY <1>0, <2>1, <2>3 DEF BoxKinds, RaceKinds
  <2> QED BY <2>4, <2>6, <2>7 DEF TypeOK, ServerKinds, ListKinds, BoxKinds, RaceKinds
<1> QED BY <1>2, <1>3, <1>4, <1>5, <1>6

LEMMA InitType == Init => TypeOK
<1> SUFFICES ASSUME Init PROVE TypeOK
  OBVIOUS
<1>1. /\ Ids = {} /\ MaxDrafts \in Nat /\ MaxRefreshes \in Nat /\ MaxRefreshes > 0 /\ MaxPosts \in Nat
  BY BoundsAssumption DEF Init, Ids
<1>2. Request(NoCursor) \in RequestRecord
  BY DEF Request, RequestRecord
<1>3. posts \in Seq(0..MaxDrafts) /\ Len(posts) = 0 /\ shown \in Seq(feed) /\ more \in Seq(RequestRecord)
      /\ Len(more) = 0
  BY DEF Init
<1>4. refreshes \in Seq(RequestRecord) /\ Len(refreshes) = 1
  BY <1>2 DEF Init
<1> QED BY <1>1, <1>3, <1>4 DEF Init, TypeOK, IdleComposer

LEMMA StepType == TypeOK /\ [Next]_vars => TypeOK'
<1> SUFFICES ASSUME TypeOK, [Next]_vars PROVE TypeOK'
  OBVIOUS
<1>1. CASE UNCHANGED vars
  BY <1>1 DEF vars, TypeOK, Ids, RequestRecord
<1>2. CASE Next
  BY <1>2, ServerType, ListType, BoxType DEF Next
<1> QED BY <1>1, <1>2

\* Every variable keeps its kind, and what is shown or was accepted is in the
\* feed, for any number of posts, drafts and requests in flight.
THEOREM TypeIsInvariant == Spec => []TypeOK
BY InitType, StepType, PTL DEF Spec
-----------------------------------------------------------------------------
(* What the list and the requests in flight may count on. *)

\* A refresh asks for the first page.
Sent == \A i \in 1..Len(refreshes) : refreshes[i].before = NoCursor

\* A full page of what the last refresh saw is at b or above.
FullAbove(b) == Cardinality({p \in basis : p >= b}) >= Limit

\* While refreshes come in order: the list ends at the cursor, and nothing of
\* it is below the cursor of the page that is being loaded.
Ordered ==
  "reordered" \notin races =>
    /\ Descends(shown)
    /\ cursor # 0 => FullAbove(cursor) /\ \A i \in 1..Len(shown) : shown[i] >= cursor
    /\ more # <<>> => /\ FullAbove(more[1].before)
                      /\ \A i \in 1..Len(shown) : shown[i] >= more[1].before

\* While none comes during a load: the list lacks nothing above the cursor,
\* and what is loaded is the page below it, of at least that feed.
Complete ==
  "crossed" \notin races =>
    /\ \A p \in basis : Contains(shown, p) \/ (cursor # 0 /\ p < cursor)
    /\ more # <<>> => /\ more[1].before = cursor /\ cursor # 0
                      /\ more[1].done => basis \subseteq more[1].seen

\* An accepted post is in a refresh that is under way, or in the list, unless
\* a page of newer ones is.
Listed(p) == Contains(shown, p) \/ Cardinality({q \in ToSet(shown) : q > p}) >= Limit
Awaited ==
  races \cap {"reordered", "failed"} = {} =>
    \A p \in posted :
      \/ \E i \in 1..Len(refreshes) : refreshes[i].done => p \in refreshes[i].seen
      \/ p \in basis /\ Listed(p)

ListInv == TypeOK /\ Sent /\ Ordered /\ Complete /\ Awaited
-----------------------------------------------------------------------------
\* Steps that leave the list alone.
LEMMA InvFrame ==
  ASSUME ListInv, UNCHANGED <<list, posted>>, races \subseteq races'
  PROVE  Sent' /\ Ordered' /\ Complete' /\ Awaited'
BY DEF ListInv, Sent, Ordered, Complete, Awaited, Listed, FullAbove, list

\* More of the feed is at b or above when more of it was seen.
LEMMA FullAboveGrows ==
  ASSUME TypeOK, NEW A \in SUBSET feed, NEW C \in SUBSET A
  PROVE  Cardinality(C) >= Limit => Cardinality(A) >= Limit
<1>1. IsFiniteSet(A)
  BY Bounds, FS_Subset
<1>2. IsFiniteSet(C) /\ Cardinality(C) <= Cardinality(A)
  BY <1>1, FS_Subset
<1>3. Cardinality(A) \in Nat /\ Cardinality(C) \in Nat
  BY <1>1, <1>2, FS_CardinalityType
<1> QED BY <1>2, <1>3, Bounds

\* A first page of at least the feed that the last refresh saw shows nothing
\* below a cursor with a full page above it.
LEMMA PageAbove ==
  ASSUME TypeOK, NEW r \in RequestRecord, r.before = NoCursor, basis \subseteq r.seen,
         NEW b \in Nat, FullAbove(b)
  PROVE  /\ \A i \in 1..Len(Page(r)) : Page(r)[i] >= b
         /\ Cardinality({p \in r.seen : p >= b}) >= Limit
<1> DEFINE s == Page(r)
           A == {p \in basis : p >= b}
<1>0. /\ r.seen \in SUBSET feed /\ feed \subseteq Nat /\ \A p \in feed : p < NoCursor
      /\ Limit \in Nat /\ Cardinality(A) >= Limit
  BY Bounds DEF RequestRecord, FullAbove
<1>1. /\ s \in Seq(feed) /\ s \in Seq(Nat) /\ Len(s) \in 0..Limit /\ IsInjective(s)
      /\ \A p \in r.seen : Contains(s, p) \/ (Len(s) = Limit /\ \A i \in 1..Limit : s[i] > p)
  BY <1>0, PageProperties
<1>2. ASSUME NEW i \in 1..Len(s), ~(s[i] >= b) PROVE FALSE
  <2> HIDE DEF s
  <2>1. s[i] \in Nat /\ s[i] < b
    BY <1>1, <1>2
  <2>2. ASSUME NEW p \in A PROVE p \in ToSet(s) \ {s[i]}
    <3>0. p \in r.seen /\ p >= b
      OBVIOUS
    <3>1. p \in Nat /\ p \in r.seen /\ s[i] < p
      <4>1. p \in Nat
        BY <1>0, <3>0
      <4> HIDE DEF A
      <4> QED BY <2>1, <3>0, <4>1
    <3>2. Contains(s, p)
      BY <1>1, <3>1
    <3> QED BY <1>1, <3>1, <3>2 DEF Contains, ToSet
  <2>3. IsFiniteSet(ToSet(s)) /\ Cardinality(ToSet(s)) = Len(s)
    BY <1>1, InjectiveCardinality
  <2>4. s[i] \in ToSet(s)
    BY DEF ToSet
  <2>5. /\ IsFiniteSet(ToSet(s) \ {s[i]})
        /\ Cardinality(ToSet(s) \ {s[i]}) = Len(s) - 1
    BY <2>3, <2>4, FS_RemoveElement
  <2>6. A \in SUBSET (ToSet(s) \ {s[i]})
    BY <2>2
  <2>7. IsFiniteSet(A) /\ Cardinality(A) <= Len(s) - 1
    <3> HIDE DEF A
    <3> QED BY <2>5, <2>6, FS_Subset
  <2>8. Cardinality(A) \in Nat
    <3> HIDE DEF A
    <3> QED BY <2>7, FS_CardinalityType
  <2> HIDE DEF A
  <2> QED BY <1>0, <1>1, <2>7, <2>8
<1>3. Cardinality({p \in r.seen : p >= b}) >= Limit
  <2> DEFINE D == {p \in r.seen : p >= b}
  <2>1. D \in SUBSET feed /\ A \in SUBSET D
    BY <1>0
  <2> HIDE DEF A, D
  <2>2. Cardinality(D) >= Limit
    BY <1>0, <2>1, FullAboveGrows
  <2> QED BY <2>2 DEF D
<1> QED BY <1>2, <1>3

\* The cursor of a page has the page at it or above.
LEMMA PageIsAboveCursor ==
  ASSUME TypeOK, NEW r \in RequestRecord, NextCursor(r) # 0
  PROVE  /\ \A i \in 1..Len(Page(r)) : Page(r)[i] >= NextCursor(r)
         /\ Cardinality({p \in r.seen : p >= NextCursor(r)}) >= Limit
<1> DEFINE s == Page(r)
           c == NextCursor(r)
           D == {p \in r.seen : p >= c}
<1>0. r.seen \in SUBSET feed /\ Limit \in Nat /\ Limit > 0
  BY Bounds DEF RequestRecord
<1>1. /\ s \in Seq(r.seen) /\ s \in Seq(Nat) /\ IsInjective(s) /\ Descends(s)
      /\ Len(s) = Limit /\ c = s[Limit]
  BY PageProperties
<1> HIDE DEF s, c
<1>2. ASSUME NEW i \in 1..Len(s) PROVE s[i] >= c
  <2>1. s[i] \in Nat /\ s[Limit] \in Nat
    BY <1>0, <1>1
  <2>2. CASE i = Limit
    BY <1>1, <2>1, <2>2
  <2>3. CASE i # Limit
    <3>1. i < Limit /\ i \in DOMAIN s /\ Limit \in DOMAIN s
      BY <1>0, <1>1, <2>3
    <3>2. s[i] > s[Limit]
      BY <1>1, <3>1 DEF Descends
    <3> QED BY <1>1, <2>1, <3>2
  <2> QED BY <2>2, <2>3
<1>3. ToSet(s) \in SUBSET D
  BY <1>1, <1>2 DEF ToSet
<1>4. Cardinality(ToSet(s)) = Limit
  BY <1>1, InjectiveCardinality
<1>5. Cardinality(D) >= Limit
  <2>1. D \in SUBSET feed
    BY <1>0
  <2> HIDE DEF D
  <2>2. Cardinality(ToSet(s)) >= Limit
    BY <1>0, <1>4
  <2> QED BY <1>3, <2>1, <2>2, FullAboveGrows
<1> QED BY <1>2, <1>5 DEF s, c

\* A post that was seen is on the page, or a page of newer ones is.
LEMMA SeenIsListed ==
  ASSUME TypeOK, NEW r \in RequestRecord, r.before = NoCursor, NEW p \in r.seen
  PROVE  Contains(Page(r), p) \/ Cardinality({q \in ToSet(Page(r)) : q > p}) >= Limit
<1> DEFINE s == Page(r)
<1>0. p \in feed /\ p < NoCursor /\ Limit \in Nat
  BY Bounds DEF RequestRecord
<1>1. /\ s \in Seq(Nat) /\ IsInjective(s)
      /\ Contains(s, p) \/ (Len(s) = Limit /\ \A i \in 1..Limit : s[i] > p)
  BY <1>0, PageProperties
<1> HIDE DEF s
<1>2. ASSUME ~Contains(s, p) PROVE Cardinality({q \in ToSet(s) : q > p}) >= Limit
  <2>1. {q \in ToSet(s) : q > p} = ToSet(s)
    BY <1>1, <1>2 DEF ToSet
  <2>2. Cardinality(ToSet(s)) = Limit
    BY <1>1, <1>2, InjectiveCardinality
  <2>3. Cardinality({q \in ToSet(s) : q > p}) = Limit
    BY <2>1, <2>2
  <2> QED BY <1>0, <2>3
<1> QED BY <1>2 DEF s
-----------------------------------------------------------------------------
\* The answer of a refresh replaces the list.
LEMMA ResolveRefreshInv ==
  ASSUME ListInv, NEW i \in 1..Len(refreshes), ResolveRefresh(i)
  PROVE  Sent' /\ Ordered' /\ Complete' /\ Awaited'
<1> DEFINE r == refreshes[i]
<1>0. /\ TypeOK /\ r \in RequestRecord /\ r.before = NoCursor /\ r.seen \in SUBSET feed
      /\ refreshes \in Seq(RequestRecord) /\ more \in Seq(RequestRecord)
  <2>1. r \in RequestRecord
    BY DEF ListInv, TypeOK
  <2> QED BY <2>1 DEF ListInv, TypeOK, Sent, RequestRecord
<1>1. /\ r.done /\ shown' = Page(r) /\ cursor' = NextCursor(r) /\ basis' = r.seen
      /\ races' = races \cup (IF more # <<>> THEN {"crossed"} ELSE {})
                        \cup (IF basis \subseteq r.seen THEN {} ELSE {"reordered"})
      /\ refreshes' = RemoveAt(refreshes, i) /\ more' = more /\ posted' = posted
  BY DEF ResolveRefresh, box
<1>2. /\ Len(refreshes') = Len(refreshes) - 1
      /\ \A j \in 1..(i - 1) : refreshes'[j] = refreshes[j]
      /\ \A j \in i..(Len(refreshes) - 1) : refreshes'[j] = refreshes[j + 1]
      /\ \A j \in 1..Len(refreshes') : \E k \in 1..Len(refreshes) : refreshes'[j] = refreshes[k]
  BY <1>0, <1>1, RemoveAtProperties
<1>3. /\ Page(r) \in Seq(feed) /\ Len(Page(r)) \in 0..Limit
      /\ Descends(Page(r))
      /\ \A p \in r.seen : Contains(Page(r), p)
                           \/ (Len(Page(r)) = Limit /\ \A j \in 1..Limit : Page(r)[j] > p)
      /\ NextCursor(r) # 0 => Len(Page(r)) = Limit /\ NextCursor(r) = Page(r)[Limit]
      /\ NextCursor(r) = 0 => Len(Page(r)) < Limit
      /\ Limit \in Nat /\ Limit > 0 /\ feed \subseteq Nat
  <2>1. \A p \in r.seen : p < NoCursor
    BY <1>0, Bounds
  <2> HIDE DEF r
  <2> QED BY <1>0, <2>1, Bounds, PageProperties
<1> HIDE DEF r
<1>4. Sent'
  BY <1>2, <1>0 DEF ListInv, Sent, NoCursor
<1>5. Ordered'
  <2> SUFFICES ASSUME "reordered" \notin races'
               PROVE  /\ Descends(shown')
                      /\ cursor' # 0 => /\ Cardinality({p \in basis' : p >= cursor'}) >= Limit
                                        /\ \A j \in 1..Len(shown') : shown'[j] >= cursor'
                      /\ more' # <<>> => /\ Cardinality({p \in basis' : p >= more'[1].before}) >= Limit
                                         /\ \A j \in 1..Len(shown') : shown'[j] >= more'[1].before
    BY DEF Ordered, FullAbove
  <2>1. basis \subseteq r.seen /\ "reordered" \notin races
    BY <1>1
  <2>2. cursor' # 0 => /\ Cardinality({p \in basis' : p >= cursor'}) >= Limit
                       /\ \A j \in 1..Len(shown') : shown'[j] >= cursor'
    BY <1>0, <1>1, PageIsAboveCursor
  <2>3. ASSUME more # <<>>
        PROVE  /\ Cardinality({p \in r.seen : p >= more[1].before}) >= Limit
               /\ \A j \in 1..Len(Page(r)) : Page(r)[j] >= more[1].before
    <3>1. more[1].before \in Nat
      <4>1. more[1] \in RequestRecord
        BY <1>0, <2>3
      <4>2. NoCursor \in Nat /\ Ids \subseteq Nat
        BY <1>0, Bounds
      <4> QED BY <4>1, <4>2 DEF RequestRecord
    <3>2. FullAbove(more[1].before)
      BY <2>1, <2>3 DEF ListInv, Ordered
    <3> QED BY <1>0, <2>1, <3>1, <3>2, PageAbove
  <2> QED BY <1>1, <1>3, <2>2, <2>3
<1>6. Complete'
  <2> SUFFICES ASSUME "crossed" \notin races'
               PROVE  /\ \A p \in basis' : Contains(shown', p) \/ (cursor' # 0 /\ p < cursor')
                      /\ more' = <<>>
    BY DEF Complete
  <2>1. more = <<>>
    BY <1>1
  <2>2. ASSUME NEW p \in r.seen, ~Contains(Page(r), p)
        PROVE  NextCursor(r) # 0 /\ p < NextCursor(r)
    <3>1. Len(Page(r)) = Limit /\ Page(r)[Limit] > p
      BY <1>3, <2>2
    <3>2. NextCursor(r) # 0
      BY <1>3, <3>1
    <3>3. NextCursor(r) \in Nat /\ p \in Nat /\ NextCursor(r) = Page(r)[Limit]
      <4>1. NextCursor(r) = Page(r)[Limit] /\ Limit \in 1..Len(Page(r))
        BY <1>3, <3>1, <3>2
      <4>2. Page(r)[Limit] \in feed
        BY <1>3, <4>1
      <4> QED BY <1>0, <1>3, <4>1, <4>2
    <3> QED BY <3>1, <3>2, <3>3
  <2> QED BY <1>1, <2>1, <2>2
<1>7. Awaited'
  <2> SUFFICES ASSUME races' \cap {"reordered", "failed"} = {}, NEW p \in posted'
               PROVE  \/ \E j \in 1..Len(refreshes') : refreshes'[j].done => p \in refreshes'[j].seen
                      \/ p \in basis' /\ Listed(p)'
    BY DEF Awaited
  <2>1. basis \subseteq r.seen /\ races \cap {"reordered", "failed"} = {} /\ p \in posted
    BY <1>1
  <2>2. ASSUME p \in r.seen PROVE p \in basis' /\ Listed(p)'
    <3>1. Contains(Page(r), p) \/ Cardinality({q \in ToSet(Page(r)) : q > p}) >= Limit
      BY <1>0, <2>2, SeenIsListed
    <3> QED BY <1>1, <2>2, <3>1 DEF Listed
  <2>3. CASE \E j \in 1..Len(refreshes) : refreshes[j].done => p \in refreshes[j].seen
    <3>1. PICK j \in 1..Len(refreshes) : refreshes[j].done => p \in refreshes[j].seen
      BY <2>3
    <3>2. CASE j = i
      BY <1>1, <2>2, <3>1, <3>2 DEF r
    <3>3. CASE j < i
      <4>1. j \in 1..Len(refreshes') /\ refreshes'[j] = refreshes[j]
        BY <1>0, <1>2, <3>3
      <4> QED BY <3>1, <4>1
    <3>4. CASE j > i
      <4>1. j - 1 \in 1..Len(refreshes') /\ j - 1 \in i..(Len(refreshes) - 1)
        BY <1>0, <1>2, <3>4
      <4>2. refreshes'[j - 1] = refreshes[(j - 1) + 1]
        BY <1>2, <4>1
      <4>3. (j - 1) + 1 = j
        OBVIOUS
      <4> QED BY <3>1, <4>1, <4>2, <4>3
    <3> QED BY <3>2, <3>3, <3>4
  <2>4. CASE p \in basis
    BY <2>1, <2>2, <2>4
  <2> QED BY <2>1, <2>3, <2>4 DEF ListInv, Awaited
<1> QED BY <1>4, <1>5, <1>6, <1>7

\* An answer is of the feed of its moment.
LEMMA AnswerInv ==
  ASSUME ListInv, AnswerMore \/ \E i \in 1..Len(refreshes) : AnswerRefresh(i)
  PROVE  Sent' /\ Ordered' /\ Complete' /\ Awaited'
<1>0. /\ TypeOK /\ refreshes \in Seq(RequestRecord) /\ more \in Seq(RequestRecord) /\ Len(more) <= 1
      /\ basis \subseteq feed /\ posted \subseteq feed
  BY DEF ListInv, TypeOK
<1>1. CASE AnswerMore
  <2>1. /\ more # <<>> /\ more' = [more EXCEPT ![1] = Answered(more[1])]
        /\ UNCHANGED <<refreshes, shown, cursor, basis, posted, races>>
    BY <1>1 DEF AnswerMore, box
  <2>2. more[1] \in RequestRecord /\ 1 \in 1..Len(more)
    BY <1>0, <2>1
  <2>3. /\ more'[1] = Answered(more[1])
        /\ more'[1].before = more[1].before /\ more'[1].seen = feed
    BY <1>0, <2>1, <2>2, RequestKinds, ReplacedEntry
  <2>4. Sent' /\ Ordered' /\ Awaited'
    BY <2>1, <2>3 DEF ListInv, Sent, Ordered, Awaited, Listed, FullAbove
  <2>5. Complete'
    BY <1>0, <2>1, <2>3 DEF ListInv, Complete
  <2> QED BY <2>4, <2>5
<1>2. ASSUME NEW i \in 1..Len(refreshes), AnswerRefresh(i)
      PROVE  Sent' /\ Ordered' /\ Complete' /\ Awaited'
  <2>1. /\ refreshes' = [refreshes EXCEPT ![i] = Answered(refreshes[i])]
        /\ UNCHANGED <<more, shown, cursor, basis, posted, races>>
    BY <1>2 DEF AnswerRefresh, box
  <2>2. refreshes[i] \in RequestRecord
    BY <1>0
  <2>3. Answered(refreshes[i]) \in RequestRecord
    BY <1>0, <2>2, RequestKinds
  <2>4. /\ Len(refreshes') = Len(refreshes) /\ refreshes'[i] = Answered(refreshes[i])
        /\ \A j \in 1..Len(refreshes) : j # i => refreshes'[j] = refreshes[j]
    BY <1>0, <2>1, <2>3, ReplacedEntry
  <2>5. refreshes'[i].before = refreshes[i].before /\ refreshes'[i].seen = feed
    BY <1>0, <2>2, <2>4, RequestKinds
  <2>6. Sent'
    BY <2>4, <2>5 DEF ListInv, Sent, NoCursor
  <2>7. Ordered' /\ Complete'
    BY <2>1 DEF ListInv, Ordered, Complete, FullAbove
  <2>8. Awaited'
    <3> SUFFICES ASSUME races \cap {"reordered", "failed"} = {}, NEW p \in posted
                 PROVE  \/ \E j \in 1..Len(refreshes') : refreshes'[j].done => p \in refreshes'[j].seen
                        \/ p \in basis /\ Listed(p)
      BY <2>1 DEF Awaited, Listed
    <3>1. p \in refreshes'[i].seen
      BY <1>0, <2>5
    <3> QED BY <2>4, <3>1
  <2> QED BY <2>6, <2>7, <2>8
<1> QED BY <1>1, <1>2

\* An older page is asked for: that below the cursor.
LEMMA LoadMoreInv ==
  ASSUME ListInv, LoadMore
  PROVE  Sent' /\ Ordered' /\ Complete' /\ Awaited'
<1>1. /\ cursor # 0 /\ more' = <<Request(cursor)>>
      /\ UNCHANGED <<refreshes, shown, cursor, basis, posted, races>>
  BY DEF LoadMore, box
<1>2. more'[1].before = cursor /\ ~more'[1].done
  BY <1>1 DEF Request
<1>3. Sent' /\ Awaited'
  BY <1>1 DEF ListInv, Sent, Awaited, Listed
<1>4. Ordered'
  BY <1>1, <1>2 DEF ListInv, Ordered, FullAbove
<1>5. Complete'
  BY <1>1, <1>2 DEF ListInv, Complete
<1> QED BY <1>3, <1>4, <1>5

\* A list that is extended has what it had.
LEMMA ListedGrows ==
  ASSUME NEW s \in Seq(Nat), NEW t \in Seq(Nat), NEW p \in Nat,
         Contains(s, p) \/ Cardinality({q \in ToSet(s) : q > p}) >= Limit, Limit \in Nat
  PROVE  Contains(s \o t, p) \/ Cardinality({q \in ToSet(s \o t) : q > p}) >= Limit
<1> DEFINE u == s \o t
<1>1. /\ u \in Seq(Nat) /\ DOMAIN s = 1..Len(s)
      /\ \A i \in 1..Len(s) : i \in DOMAIN u /\ u[i] = s[i]
  OBVIOUS
<1> HIDE DEF u
<1>2. ToSet(s) \subseteq ToSet(u)
  BY <1>1 DEF ToSet
<1> QED BY <1>1, <1>2, NewerGrow DEF u

\* An older page is appended.
LEMMA ResolveMoreInv ==
  ASSUME ListInv, ResolveMore
  PROVE  Sent' /\ Ordered' /\ Complete' /\ Awaited'
<1> DEFINE r == more[1]
           s == Page(r)
           c == NextCursor(r)
<1>0. /\ more # <<>> /\ r.done /\ shown' = shown \o s /\ cursor' = c /\ more' = Tail(more)
      /\ UNCHANGED <<refreshes, basis, posted, races>>
  BY DEF ResolveMore, box
<1>1. /\ TypeOK /\ shown \in Seq(feed) /\ r \in RequestRecord /\ r.seen \in SUBSET feed
      /\ more' = <<>> /\ feed \subseteq Nat /\ Limit \in Nat /\ Limit > 0
      /\ basis \in SUBSET feed /\ posted \in SUBSET feed
  <2>1. TypeOK /\ shown \in Seq(feed) /\ more \in Seq(RequestRecord) /\ Len(more) <= 1
        /\ basis \in SUBSET feed /\ posted \in SUBSET feed
    BY DEF ListInv, TypeOK
  <2>2. r \in RequestRecord /\ more' = <<>>
    BY <1>0, <2>1
  <2>3. r.seen \in SUBSET feed
    BY <2>2 DEF RequestRecord
  <2>4. feed \subseteq Nat /\ Limit \in Nat /\ Limit > 0
    BY <2>1, Bounds
  <2> QED BY <2>1, <2>2, <2>3, <2>4
<1>2. /\ s \in Seq(Nat) /\ Len(s) \in 0..Limit /\ Descends(s)
      /\ \A i \in 1..Len(s) : s[i] \in r.seen /\ s[i] < r.before
      /\ \A p \in r.seen : p < r.before =>
           Contains(s, p) \/ (Len(s) = Limit /\ \A i \in 1..Limit : s[i] > p)
      /\ c # 0 => Len(s) = Limit /\ c = s[Limit]
      /\ c = 0 => Len(s) < Limit
  <2> HIDE DEF r
  <2> QED BY <1>1, PageProperties
<1>3. r.before \in Nat
  <2>1. NoCursor \in Nat /\ Ids \subseteq Nat
    BY <1>1, Bounds
  <2> HIDE DEF r
  <2> QED BY <1>1, <2>1 DEF RequestRecord
<1>4. shown \in Seq(Nat)
  BY <1>1, SeqOfMore
<1>5. /\ shown' \in Seq(Nat) /\ Len(shown') = Len(shown) + Len(s)
      /\ \A i \in 1..Len(shown) : shown'[i] = shown[i] /\ shown[i] \in Nat
      /\ \A i \in 1..Len(s) : shown'[Len(shown) + i] = s[i]
      /\ \A i \in 1..Len(shown') : i > Len(shown) => i - Len(shown) \in 1..Len(s)
                                                    /\ shown'[i] = s[i - Len(shown)]
  <2> HIDE DEF s
  <2> QED BY <1>0, <1>2, <1>4
<1>6. Sent'
  BY <1>0 DEF ListInv, Sent
<1>7. ASSUME "reordered" \notin races
      PROVE  /\ Descends(shown')
             /\ c # 0 => /\ Cardinality({p \in basis : p >= c}) >= Limit
                         /\ \A i \in 1..Len(shown') : shown'[i] >= c
  <2>1. /\ Descends(shown) /\ FullAbove(r.before)
        /\ \A i \in 1..Len(shown) : shown[i] >= r.before
    BY <1>0, <1>7 DEF ListInv, Ordered
  <2> HIDE DEF r, s, c
  <2>2. Descends(shown')
    <3> SUFFICES ASSUME NEW i \in 1..Len(shown'), NEW j \in 1..Len(shown'), i < j
                 PROVE  shown'[i] > shown'[j]
      BY <1>5 DEF Descends
    <3> DEFINE a == i - Len(shown)
               b == j - Len(shown)
    <3>1. CASE j <= Len(shown)
      <4>1. i \in 1..Len(shown) /\ j \in 1..Len(shown) /\ DOMAIN shown = 1..Len(shown)
        BY <1>4, <3>1
      <4>2. shown[i] > shown[j]
        BY <2>1, <4>1 DEF Descends
      <4> QED BY <1>5, <4>1, <4>2
    <3>2. CASE i <= Len(shown) /\ j > Len(shown)
      <4>1. b \in 1..Len(s) /\ shown'[j] = s[b] /\ shown'[i] = shown[i] /\ i \in 1..Len(shown)
        BY <1>5, <3>2
      <4>2. shown[i] >= r.before /\ s[b] < r.before /\ s[b] \in Nat /\ shown[i] \in Nat
        <5>1. shown[i] >= r.before /\ shown[i] \in Nat
          BY <1>5, <2>1, <4>1
        <5>2. s[b] < r.before /\ s[b] \in Nat
          <6> HIDE DEF b
          <6> QED BY <1>2, <4>1
        <5> QED BY <5>1, <5>2
      <4> QED BY <1>3, <4>1, <4>2
    <3>3. CASE i > Len(shown)
      <4>1. /\ a \in 1..Len(s) /\ b \in 1..Len(s) /\ a < b
            /\ shown'[i] = s[a] /\ shown'[j] = s[b]
        BY <1>5, <3>3
      <4> HIDE DEF a, b
      <4> QED BY <1>2, <4>1 DEF Descends
    <3> QED BY <1>5, <3>1, <3>2, <3>3
  <2>3. ASSUME c # 0
        PROVE  /\ Cardinality({p \in basis : p >= c}) >= Limit
               /\ \A i \in 1..Len(shown') : shown'[i] >= c
    <3>1. Len(s) = Limit /\ c = s[Limit] /\ Limit \in 1..Len(s) /\ c < r.before /\ c \in Nat
      BY <1>1, <1>2, <2>3
    <3>2. \A i \in 1..Len(s) : s[i] >= c
      BY <1>1, <2>3, PageIsAboveCursor DEF s, c
    <3>3. \A i \in 1..Len(shown') : shown'[i] >= c
      <4> SUFFICES ASSUME NEW i \in 1..Len(shown') PROVE shown'[i] >= c
        OBVIOUS
      <4>1. CASE i > Len(shown)
        BY <1>5, <3>2, <4>1
      <4>2. CASE i <= Len(shown)
        <5>1. i \in 1..Len(shown) /\ shown'[i] = shown[i] /\ shown[i] \in Nat
          BY <1>5, <4>2
        <5> QED BY <1>3, <2>1, <3>1, <5>1
      <4> QED BY <1>5, <4>1, <4>2
    <3>4. Cardinality({p \in basis : p >= c}) >= Limit
      <4> DEFINE A == {p \in basis : p >= r.before}
                 B == {p \in basis : p >= c}
      <4>1. B \in SUBSET feed /\ A \in SUBSET B
        <5>1. \A p \in basis : p \in Nat
          BY <1>1
        <5>2. \A p \in basis : p >= r.before => p >= c
          BY <1>3, <3>1, <5>1
        <5> QED BY <1>1, <5>2
      <4>2. Cardinality(A) >= Limit
        BY <2>1 DEF FullAbove
      <4> HIDE DEF A, B
      <4>3. Cardinality(B) >= Limit
        BY <1>1, <4>1, <4>2, FullAboveGrows
      <4> QED BY <4>3 DEF B
    <3> QED BY <3>3, <3>4
  <2> QED BY <2>2, <2>3
<1>8. Ordered'
  BY <1>0, <1>1, <1>7 DEF Ordered, FullAbove
<1>9. Complete'
  <2> SUFFICES ASSUME "crossed" \notin races, NEW p \in basis, ~Contains(shown', p)
               PROVE  c # 0 /\ p < c
    BY <1>0, <1>1 DEF Complete
  <2>1. /\ r.before = cursor /\ cursor # 0 /\ basis \subseteq r.seen
        /\ Contains(shown, p) \/ p < cursor
    BY <1>0 DEF ListInv, Complete
  <2> HIDE DEF r, s, c
  <2>2. ~Contains(shown, p) /\ ~Contains(s, p)
    <3>1. \A i \in 1..Len(shown) : shown'[i] = shown[i] /\ i \in 1..Len(shown')
      BY <1>2, <1>5
    <3>2. \A i \in 1..Len(s) : shown'[Len(shown) + i] = s[i] /\ Len(shown) + i \in 1..Len(shown')
      BY <1>2, <1>4, <1>5
    <3> QED BY <3>1, <3>2 DEF Contains
  <2>3. p \in r.seen /\ p < r.before
    BY <2>1, <2>2
  <2>4. Len(s) = Limit /\ \A i \in 1..Limit : s[i] > p
    BY <1>2, <2>2, <2>3
  <2>5. c # 0
    BY <1>1, <1>2, <2>4
  <2> QED BY <1>1, <1>2, <2>4, <2>5
<1>10. Awaited'
  <2> SUFFICES ASSUME races \cap {"reordered", "failed"} = {}, NEW p \in posted
               PROVE  \/ \E j \in 1..Len(refreshes) : refreshes[j].done => p \in refreshes[j].seen
                      \/ p \in basis /\ Listed(p)'
    BY <1>0 DEF Awaited
  <2>1. Listed(p) => Listed(p)'
    <3>1. p \in Nat
      BY <1>1
    <3> HIDE DEF s
    <3> QED BY <1>0, <1>1, <1>2, <1>4, <3>1, ListedGrows DEF Listed
  <2> QED BY <2>1 DEF ListInv, Awaited
<1> QED BY <1>6, <1>8, <1>9, <1>10

\* Requests fail, a new visit starts, a post is accepted.
LEMMA OtherInv ==
  ASSUME ListInv,
         FailMore \/ Remount \/ Accepted \/ \E i \in 1..Len(refreshes) : FailRefresh(i)
  PROVE  Sent' /\ Ordered' /\ Complete' /\ Awaited'
<1>0. /\ TypeOK /\ refreshes \in Seq(RequestRecord) /\ more \in Seq(RequestRecord) /\ Len(more) <= 1
      /\ Request(NoCursor) \in RequestRecord
  BY RequestKinds DEF ListInv, TypeOK
<1>1. CASE FailMore
  <2>1. more' = <<>> /\ UNCHANGED <<refreshes, shown, cursor, basis, posted, races>>
    BY <1>0, <1>1 DEF FailMore, box
  <2> QED BY <2>1 DEF ListInv, Sent, Ordered, Complete, Awaited, Listed, FullAbove
<1>2. CASE Remount
  <2>1. /\ refreshes' = <<Request(NoCursor)>> /\ more' = <<>> /\ shown' = <<>> /\ cursor' = 0
        /\ basis' = {} /\ posted' = {}
    BY <1>2 DEF Remount
  <2>2. Len(refreshes') = 1 /\ refreshes'[1].before = NoCursor
    BY <2>1 DEF Request
  <2>3. Sent'
    BY <2>2 DEF Sent, NoCursor
  <2> QED BY <2>1, <2>3 DEF Ordered, Complete, Awaited, Descends
<1>3. CASE Accepted
  <2>1. /\ posted' = posted \cup {composer.id} /\ refreshes' = Append(refreshes, Request(NoCursor))
        /\ UNCHANGED <<more, shown, cursor, basis, races>>
    BY <1>3 DEF Accepted
  <2>2. /\ Len(refreshes') = Len(refreshes) + 1
        /\ \A j \in 1..Len(refreshes) : refreshes'[j] = refreshes[j]
        /\ refreshes'[Len(refreshes) + 1] = Request(NoCursor)
    BY <1>0, <2>1, AppendedEntry
  <2>3. Request(NoCursor).before = NoCursor /\ ~Request(NoCursor).done
    BY DEF Request
  <2>4. /\ Len(refreshes) \in Nat /\ Len(refreshes) + 1 \in 1..Len(refreshes')
        /\ \A j \in 1..Len(refreshes') : j \in 1..Len(refreshes) \/ j = Len(refreshes) + 1
        /\ \A j \in 1..Len(refreshes) : j \in 1..Len(refreshes')
    BY <1>0, <2>2
  <2>5. Sent'
    <3>1. \A j \in 1..Len(refreshes') : refreshes'[j].before = NoCursor
      BY <2>2, <2>3, <2>4 DEF ListInv, Sent
    <3> QED BY <3>1 DEF Sent, NoCursor
  <2>6. Ordered' /\ Complete'
    BY <2>1 DEF ListInv, Ordered, Complete, FullAbove
  <2>7. Awaited'
    <3> SUFFICES ASSUME NEW p \in posted'
                 PROVE  \E j \in 1..Len(refreshes') : refreshes'[j].done => p \in refreshes'[j].seen
      BY DEF Awaited
    <3> QED BY <2>2, <2>3, <2>4
  <2> QED BY <2>5, <2>6, <2>7
<1>4. ASSUME NEW i \in 1..Len(refreshes), FailRefresh(i)
      PROVE  Sent' /\ Ordered' /\ Complete' /\ Awaited'
  <2>1. /\ refreshes' = RemoveAt(refreshes, i) /\ races' = races \cup {"failed"}
        /\ UNCHANGED <<more, shown, cursor, basis, posted>>
    BY <1>4 DEF FailRefresh, box
  <2>2. \A j \in 1..Len(refreshes') : \E k \in 1..Len(refreshes) : refreshes'[j] = refreshes[k]
    BY <1>0, <2>1, RemoveAtProperties
  <2>3. Sent'
    BY <2>2 DEF ListInv, Sent, NoCursor
  <2>4. Ordered' /\ Complete' /\ Awaited'
    BY <2>1 DEF ListInv, Ordered, Complete, Awaited, FullAbove
  <2> QED BY <2>3, <2>4
<1> QED BY <1>1, <1>2, <1>3, <1>4

LEMMA InitInv == Init => ListInv
<1> SUFFICES ASSUME Init PROVE ListInv
  OBVIOUS
<1>1. /\ refreshes = <<Request(NoCursor)>> /\ more = <<>> /\ shown = <<>> /\ cursor = 0
      /\ basis = {} /\ posted = {}
  BY DEF Init
<1>2. Sent
  BY <1>1 DEF Sent, Request
<1>3. Ordered /\ Complete /\ Awaited
  BY <1>1 DEF Ordered, Complete, Awaited, Descends
<1> QED BY <1>2, <1>3, InitType DEF ListInv

LEMMA StepInv == ListInv /\ [Next]_vars => ListInv'
<1> SUFFICES ASSUME ListInv, [Next]_vars PROVE ListInv'
  OBVIOUS
<1>1. TypeOK'
  BY StepType DEF ListInv
<1>2. CASE \/ InsertOther \/ Insert \/ \E p \in Ids : Deliver(p)
           \/ Type \/ Submit \/ Refused \/ UNCHANGED vars
  BY <1>1, <1>2, InvFrame
     DEF InsertOther, Insert, Deliver, Type, Submit, Refused, vars, list, box, ListInv
<1>3. CASE \/ AnswerMore \/ LoadMore \/ ResolveMore \/ FailMore \/ Remount \/ Accepted
           \/ \E i \in 1..Len(refreshes) : AnswerRefresh(i) \/ ResolveRefresh(i) \/ FailRefresh(i)
  BY <1>1, <1>3, AnswerInv, LoadMoreInv, ResolveMoreInv, ResolveRefreshInv, OtherInv DEF ListInv
<1> QED BY <1>2, <1>3 DEF Next

LEMMA ListInvHolds == Spec => []ListInv
BY InitInv, StepInv, PTL DEF Spec

\* The list is the feed from the newest post down to the cursor, outside the
\* two races the page has, for any page size.
THEOREM ListIsFeedHolds == Spec => []ListIsFeed
<1>1. ListInv => ListIsFeed
  BY DEF ListInv, Ordered, Complete, ListIsFeed
<1> QED BY <1>1, ListInvHolds, PTL

\* An accepted post of the user's is in the list once the refreshes have come,
\* or a whole page of newer ones is, for any number of refreshes in flight.
THEOREM OwnPostsShownHolds == Spec => []OwnPostsShown
<1>1. ListInv => OwnPostsShown
  <2> SUFFICES ASSUME ListInv, refreshes = <<>>, races \cap {"reordered", "failed"} = {},
                      NEW p \in posted
               PROVE  Listed(p)
    BY DEF OwnPostsShown, Listed
  <2> QED BY DEF ListInv, Awaited
<1> QED BY <1>1, ListInvHolds, PTL
=============================================================================
