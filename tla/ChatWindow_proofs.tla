-------------------------- MODULE ChatWindow_proofs --------------------------
(***************************************************************************)
(* Proofs about ChatWindow for any set of chats, page size and number of   *)
(* messages and requests.                                                  *)
(*                                                                         *)
(* While the user does not hurry there is at most one history in flight,   *)
(* for the chat that frames are compared with, so that what is shown and   *)
(* what will be shown are of one chat.  Every frame sends a request for    *)
(* the list of chats; of the requests since, none is answered from before  *)
(* the message, and if they resolve in order the last one decides.         *)
(***************************************************************************)
EXTENDS ChatWindow, NewestFirst_proofs

\* The requests; only one for messages is for a chat.
FetchRecord ==
  {f \in [kind : {"messages", "chats"}, chat : Chats \cup {NoChat}, done : BOOLEAN,
          page : Seq(Ids), previews : [Chats -> {0} \cup Ids]] :
     f.kind = "messages" <=> f.chat \in Chats}

\* The parts of the type invariant; no message is on its way twice.
ServerKinds == stored \in Seq(Chats) /\ unsent \subseteq Ids
WireKinds ==
  /\ frames \in Seq(Ids \ (unsent \cup received)) /\ IsInjective(frames)
  /\ received \subseteq Ids \ unsent
  /\ ws \in {"connecting", "open", "closed"}
PageKinds ==
  /\ route \in Chats \cup {NoChat} /\ ref \in Chats \cup {NoChat}
  /\ fetches \in Seq(FetchRecord)
  /\ shown \in Seq(Ids) /\ list \in [Chats -> {0} \cup Ids]
  /\ races \subseteq {"hurried", "overtaken", "reordered", "failed"}
Kinds == ServerKinds /\ WireKinds /\ PageKinds
-----------------------------------------------------------------------------
LEMMA KindsAreTypes == Kinds => TypeOK
BY DEF Kinds, ServerKinds, WireKinds, PageKinds, TypeOK, FetchRecord

LEMMA IdsAreNaturals ==
  ASSUME ServerKinds
  PROVE  /\ Len(stored) \in Nat /\ Ids = 1..Len(stored) /\ Ids \subseteq Nat /\ 0 \notin Ids
         /\ IsFiniteSet(Ids) /\ \A m \in Ids : stored[m] \in Chats
<1>1. Len(stored) \in Nat /\ Ids = 1..Len(stored) /\ \A m \in Ids : stored[m] \in Chats
  BY DEF ServerKinds, Ids
<1>2. IsFiniteSet(1..Len(stored))
  BY <1>1, FS_Interval
<1> QED BY <1>1, <1>2

LEMMA ChatRows ==
  ASSUME ServerKinds, NEW c
  PROVE  InChat(c) \in SUBSET Ids /\ InChat(c) \in SUBSET Nat /\ IsFiniteSet(InChat(c))
<1>1. InChat(c) \in SUBSET Ids
  BY DEF InChat
<1> QED BY <1>1, IdsAreNaturals, FS_Subset

\* A message is in a list, or a full page of newer ones is.
Covers(s, m) == Contains(s, m) \/ Cardinality({n \in ToSet(s) : n > m}) >= Limit

\* A history lists messages of its chat, and lacks none but for newer ones.
LEMMA HistoryProperties ==
  ASSUME ServerKinds, NEW c
  PROVE  /\ History(c) \in Seq(Ids) /\ IsInjective(History(c))
         /\ \A j \in 1..Len(History(c)) : stored[History(c)[j]] = c
         /\ \A m \in InChat(c) : Covers(History(c), m)
<1> DEFINE s == History(c)
           S == InChat(c)
<1>0. Limit \in Nat /\ S \in SUBSET Ids /\ S \in SUBSET Nat /\ IsFiniteSet(S)
  BY BoundsAssumption, ChatRows
<1>1. s = Newest(S, Limit)
  BY DEF History
<1>2. \A m \in S : stored[m] = c
  BY DEF InChat
<1> HIDE DEF s, S
<1>3. /\ s \in Seq(S) /\ Len(s) \in 0..Limit /\ IsInjective(s)
      /\ \A m \in S : Contains(s, m) \/ (Len(s) = Limit /\ \A i \in 1..Limit : s[i] > m)
  BY <1>0, <1>1, NewestProperties
<1>4. s \in Seq(Ids) /\ \A j \in 1..Len(s) : stored[s[j]] = c
  <2>1. \A j \in 1..Len(s) : s[j] \in S
    BY <1>3
  <2>2. s \in Seq(Ids)
    BY <1>0, <1>3, SeqOfMore
  <2> QED BY <1>2, <2>1, <2>2
<1>5. ASSUME NEW m \in S, ~Contains(s, m) PROVE Covers(s, m)
  <2>1. {n \in ToSet(s) : n > m} = ToSet(s)
    BY <1>3, <1>5 DEF ToSet
  <2>2. Cardinality(ToSet(s)) = Limit
    BY <1>3, <1>5, InjectiveCardinality
  <2>3. Cardinality({n \in ToSet(s) : n > m}) = Limit
    BY <2>1, <2>2
  <2> QED BY <1>0, <2>3 DEF Covers
<1>6. \A m \in S : Covers(s, m)
  BY <1>5 DEF Covers
<1> QED BY <1>3, <1>4, <1>6 DEF s, S

\* The list of chats shows the newest message of each.
LEMMA PreviewsProperties ==
  ASSUME ServerKinds
  PROVE  /\ Previews \in [Chats -> {0} \cup Ids]
         /\ \A m \in Ids : Previews[stored[m]] >= m
<1>1. ASSUME NEW c \in Chats, InChat(c) # {}
      PROVE  /\ Descending(InChat(c))[1] \in InChat(c)
             /\ \A m \in InChat(c) : Descending(InChat(c))[1] >= m
  <2> DEFINE S == InChat(c)
             d == Descending(S)
  <2>1. S \in SUBSET Nat /\ IsFiniteSet(S) /\ S # {}
    BY <1>1, ChatRows
  <2> HIDE DEF S
  <2>2. /\ Cardinality(S) \in Nat /\ d \in [1..Cardinality(S) -> S] /\ Descends(d)
        /\ \A x \in S : \E i \in 1..Cardinality(S) : d[i] = x
    BY <2>1, DescendingProperties
  <2> HIDE DEF d
  <2>3. 1 \in 1..Cardinality(S)
    <3>1. PICK x \in S : TRUE
      BY <2>1
    <3>2. PICK i \in 1..Cardinality(S) : d[i] = x
      BY <2>2, <3>1
    <3> QED BY <2>2, <3>2
  <2>4. ASSUME NEW m \in S PROVE d[1] >= m
    <3>1. PICK i \in 1..Cardinality(S) : d[i] = m
      BY <2>2
    <3>2. d[1] \in Nat /\ m \in Nat
      BY <2>1, <2>2, <2>3
    <3>3. i = 1 \/ d[1] > d[i]
      BY <2>2, <2>3 DEF Descends
    <3> QED BY <3>1, <3>2, <3>3
  <2> QED BY <2>2, <2>3, <2>4 DEF d, S
<1>2. Previews \in [Chats -> {0} \cup Ids]
  <2>1. \A c \in Chats : InChat(c) # {} => Descending(InChat(c))[1] \in Ids
    BY <1>1, ChatRows
  <2> QED BY <2>1 DEF Previews
<1>3. ASSUME NEW m \in Ids PROVE Previews[stored[m]] >= m
  <2>1. stored[m] \in Chats /\ m \in InChat(stored[m])
    BY IdsAreNaturals DEF InChat
  <2>2. Previews[stored[m]] = Descending(InChat(stored[m]))[1]
    BY <2>1 DEF Previews
  <2> QED BY <1>1, <2>1, <2>2
<1> QED BY <1>2, <1>3

\* A request is of its kind when it is sent and when it is answered.
LEMMA RequestKinds ==
  ASSUME ServerKinds
  PROVE  /\ ListLoad \in FetchRecord /\ \A c \in Chats : LoadOf(c) \in FetchRecord
         /\ NoPreviews \in [Chats -> {0} \cup Ids]
         /\ \A c \in Chats \cup {NoChat} : MountLoads(c) \in Seq(FetchRecord)
         /\ \A f \in FetchRecord : Answered(f) \in FetchRecord
<1>1. NoPreviews \in [Chats -> {0} \cup Ids] /\ <<>> \in Seq(Ids)
  BY DEF NoPreviews
<1>2. ASSUME NEW c \in Chats PROVE LoadOf(c) \in FetchRecord
  BY <1>1 DEF LoadOf, FetchRecord
<1>3. ListLoad \in FetchRecord
  BY <1>1, ChatsAssumption DEF ListLoad, LoadOf, FetchRecord
<1>4. ASSUME NEW c \in Chats \cup {NoChat} PROVE MountLoads(c) \in Seq(FetchRecord)
  BY <1>2, <1>3 DEF MountLoads
<1>5. ASSUME NEW f \in FetchRecord PROVE Answered(f) \in FetchRecord
  <2>1. History(f.chat) \in Seq(Ids) /\ Previews \in [Chats -> {0} \cup Ids]
    BY HistoryProperties, PreviewsProperties
  <2> HIDE DEF History, Previews
  <2> QED BY <1>1, <2>1 DEF Answered, FetchRecord
<1> QED BY <1>1, <1>2, <1>3, <1>4, <1>5
-----------------------------------------------------------------------------
(* Type correctness. *)

\* Steps that leave the rows alone.
LEMMA SameRows ==
  ASSUME UNCHANGED stored
  PROVE  Ids' = Ids /\ FetchRecord' = FetchRecord
BY DEF Ids, FetchRecord

\* A row is appended.
LEMMA StoredRow ==
  ASSUME Kinds, NEW c \in Chats, Store(c)
  PROVE  /\ Kinds' /\ Ids \subseteq Ids' /\ \A m \in Ids : stored'[m] = stored[m]
         /\ UNCHANGED <<ref, fetches, shown, list, received, races>>
<1>0. /\ ServerKinds /\ WireKinds /\ PageKinds /\ Ids = 1..Len(stored) /\ Len(stored) \in Nat
  BY IdsAreNaturals DEF Kinds
<1>1. /\ stored' = Append(stored, c) /\ unsent' = unsent \cup {Len(stored) + 1}
      /\ UNCHANGED <<frames, ws, route, ref, fetches, shown, list, received, races>>
  BY DEF Store
<1>2. /\ stored' \in Seq(Chats) /\ Len(stored') = Len(stored) + 1
      /\ \A m \in Ids : stored'[m] = stored[m]
  BY <1>0, <1>1 DEF ServerKinds
<1>3. Ids' = Ids \cup {Len(stored) + 1} /\ Len(stored) + 1 \notin Ids
  BY <1>0, <1>2 DEF Ids
<1>4. ServerKinds'
  BY <1>0, <1>1, <1>2, <1>3 DEF ServerKinds
<1>5. WireKinds'
  <2>1. (Ids \ (unsent \cup received)) \in SUBSET (Ids' \ (unsent' \cup received'))
    BY <1>1, <1>3
  <2>2. frames' \in Seq(Ids' \ (unsent' \cup received'))
    BY <1>0, <1>1, <2>1, SeqOfMore DEF WireKinds
  <2>3. received' \subseteq Ids' \ unsent'
    BY <1>0, <1>1, <1>3 DEF WireKinds
  <2> QED BY <1>0, <1>1, <2>2, <2>3 DEF WireKinds
<1>6. PageKinds'
  <2>1. FetchRecord \in SUBSET FetchRecord'
    <3> SUFFICES ASSUME NEW f \in FetchRecord PROVE f \in FetchRecord'
      OBVIOUS
    <3>1. /\ f \in [kind : {"messages", "chats"}, chat : Chats \cup {NoChat}, done : BOOLEAN,
                    page : Seq(Ids), previews : [Chats -> {0} \cup Ids]]
          /\ f.kind = "messages" <=> f.chat \in Chats
      BY DEF FetchRecord
    <3>2. f.page \in Seq(Ids') /\ f.previews \in [Chats -> {0} \cup Ids']
      BY <1>3, <3>1, SeqOfMore
    <3>3. f \in [kind : {"messages", "chats"}, chat : Chats \cup {NoChat}, done : BOOLEAN,
                 page : Seq(Ids'), previews : [Chats -> {0} \cup Ids']]
      BY <3>1, <3>2
    <3> QED BY <3>1, <3>3 DEF FetchRecord
  <2>2. fetches' \in Seq(FetchRecord') /\ shown' \in Seq(Ids')
    BY <1>0, <1>1, <1>3, <2>1, SeqOfMore DEF PageKinds
  <2>3. list' \in [Chats -> {0} \cup Ids']
    BY <1>0, <1>1, <1>3 DEF PageKinds
  <2> QED BY <1>0, <1>1, <2>2, <2>3 DEF PageKinds
<1> QED BY <1>1, <1>2, <1>3, <1>4, <1>5, <1>6 DEF Kinds

\* Publication and the socket.
LEMMA WireType ==
  ASSUME Kinds, WsOpen \/ WsClose \/ (\E m \in unsent : Publish(m))
  PROVE  /\ Kinds' /\ UNCHANGED <<stored, ref, fetches, shown, list, received, races>>
<1>0. ServerKinds /\ WireKinds /\ PageKinds
  BY DEF Kinds
<1>1. ASSUME UNCHANGED <<stored, route, ref, fetches, shown, list, received, races>>,
             unsent' \subseteq Ids, WireKinds'
      PROVE  Kinds'
  BY <1>0, <1>1, SameRows DEF Kinds, ServerKinds, PageKinds
<1>2. CASE WsOpen
  BY <1>0, <1>1, <1>2, SameRows DEF WsOpen, server, ServerKinds, WireKinds
<1>3. CASE WsClose
  BY <1>0, <1>1, <1>3, SameRows DEF WsClose, server, ServerKinds, WireKinds, IsInjective
<1>4. ASSUME NEW m \in unsent, Publish(m)
      PROVE  Kinds' /\ UNCHANGED <<stored, ref, fetches, shown, list, received, races>>
  <2>1. /\ unsent' = unsent \ {m} /\ frames' \in {frames, Append(frames, m)}
        /\ UNCHANGED <<stored, ws, route, ref, fetches, shown, list, received, races>>
    BY <1>4 DEF Publish
  <2> DEFINE F == Ids \ (unsent' \cup received)
  <2>2. Ids' = Ids
    BY <2>1, SameRows
  <2>3. m \in F /\ (Ids \ (unsent \cup received)) \in SUBSET F
    BY <1>0, <2>1 DEF ServerKinds, WireKinds
  <2>4. frames \in Seq(F) /\ \A i \in 1..Len(frames) : frames[i] # m
    <3>1. \A i \in 1..Len(frames) : frames[i] \in Ids \ (unsent \cup received)
      BY <1>0 DEF WireKinds
    <3>2. frames \in Seq(F)
      <4> HIDE DEF F
      <4> QED BY <1>0, <2>3, SeqOfMore DEF WireKinds
    <3> QED BY <3>1, <3>2
  <2>5. frames' \in Seq(F) /\ IsInjective(frames')
    <3> HIDE DEF F
    <3>1. Append(frames, m) \in Seq(F) /\ IsInjective(Append(frames, m))
      <4>1. /\ Append(frames, m) \in Seq(F) /\ Len(Append(frames, m)) = Len(frames) + 1
            /\ \A j \in 1..Len(frames) : Append(frames, m)[j] = frames[j]
            /\ Append(frames, m)[Len(frames) + 1] = m
        BY <2>3, <2>4, AppendedEntry
      <4>2. DOMAIN Append(frames, m) = 1..(Len(frames) + 1) /\ DOMAIN frames = 1..Len(frames)
            /\ Len(frames) \in Nat
        BY <2>4, <4>1
      <4>3. \A j \in 1..(Len(frames) + 1) : j \in 1..Len(frames) \/ j = Len(frames) + 1
        BY <4>2
      <4>4. IsInjective(frames)
        BY <1>0 DEF WireKinds
      <4>5. IsInjective(Append(frames, m))
        BY <2>4, <4>1, <4>2, <4>3, <4>4 DEF IsInjective
      <4> QED BY <4>1, <4>5
    <3> QED BY <1>0, <2>1, <2>4, <3>1 DEF WireKinds
  <2>6. WireKinds'
    BY <1>0, <2>1, <2>2, <2>5 DEF WireKinds
  <2>7. unsent' \subseteq Ids
    BY <1>0, <2>1 DEF ServerKinds
  <2> QED BY <1>1, <2>1, <2>6, <2>7
<1>5. UNCHANGED <<stored, ref, fetches, shown, list, received, races>>
  BY <1>4 DEF WsOpen, WsClose, server
<1> QED BY <1>2, <1>3, <1>4, <1>5

\* A message comes through the socket: it is no more on its way.
LEMMA ReceivedFrame ==
  ASSUME Kinds, OnMessage
  PROVE  /\ Head(frames) \in Ids /\ received' = received \cup {Head(frames)}
         /\ WireKinds'
<1> DEFINE m == Head(frames)
           F == Ids \ (unsent \cup received)
           G == Ids \ (unsent \cup received')
<1>0. ServerKinds /\ WireKinds /\ PageKinds
  BY DEF Kinds
<1>1. /\ frames # <<>> /\ received' = received \cup {m} /\ frames' = Tail(frames)
      /\ UNCHANGED <<stored, unsent, ws>>
  BY DEF OnMessage, server
<1>2. m \in F /\ m = frames[1] /\ Len(frames) \in Nat /\ 1 \in 1..Len(frames)
  BY <1>0, <1>1 DEF WireKinds
<1>3. /\ Len(Tail(frames)) = Len(frames) - 1
      /\ \A i \in 1..(Len(frames) - 1) : Tail(frames)[i] = frames[i + 1] /\ i + 1 \in 1..Len(frames)
                                         /\ frames[i + 1] \in F
  BY <1>0, <1>1 DEF WireKinds
<1>4. DOMAIN frames = 1..Len(frames) /\ DOMAIN Tail(frames) = 1..(Len(frames) - 1)
  BY <1>0, <1>1, <1>3 DEF WireKinds
<1>5. IsInjective(Tail(frames))
  <2> SUFFICES ASSUME NEW i \in 1..(Len(frames) - 1), NEW j \in 1..(Len(frames) - 1),
                      Tail(frames)[i] = Tail(frames)[j]
               PROVE  i = j
    BY <1>4 DEF IsInjective
  <2>1. frames[i + 1] = frames[j + 1] /\ i + 1 \in DOMAIN frames /\ j + 1 \in DOMAIN frames
    BY <1>3, <1>4
  <2>2. i + 1 = j + 1
    BY <1>0, <2>1 DEF WireKinds, IsInjective
  <2> QED BY <2>2
<1>6. Tail(frames) \in Seq(G)
  <2>1. \A i \in 1..(Len(frames) - 1) : frames[i + 1] # m
    <3> SUFFICES ASSUME NEW i \in 1..(Len(frames) - 1), frames[i + 1] = frames[1] PROVE FALSE
      BY <1>2
    <3>1. i + 1 \in DOMAIN frames /\ 1 \in DOMAIN frames
      BY <1>2, <1>3, <1>4
    <3>2. i + 1 = 1
      BY <1>0, <3>1 DEF WireKinds, IsInjective
    <3> QED BY <3>2
  <2>2. \A i \in 1..(Len(frames) - 1) : Tail(frames)[i] \in G
    BY <1>1, <1>3, <2>1
  <2>3. Tail(frames) \in Seq(F)
    BY <1>0, <1>1 DEF WireKinds
  <2> HIDE DEF F, G
  <2>4. \A i \in 1..Len(Tail(frames)) : Tail(frames)[i] \in G
    BY <1>3, <2>2
  <2> QED BY <2>3, <2>4, SeqByElements
<1>7. received' \subseteq Ids \ unsent
  BY <1>0, <1>1, <1>2 DEF WireKinds
<1>8. WireKinds'
  <2>1. Ids' = Ids
    BY <1>1, SameRows
  <2> QED BY <1>0, <1>1, <1>5, <1>6, <1>7, <2>1 DEF WireKinds
<1> QED BY <1>1, <1>2, <1>8

\* Steps of the page that leave the server and the frames alone.
LEMMA PageFrame ==
  ASSUME Kinds, UNCHANGED <<stored, unsent>>, WireKinds',
         route' \in Chats \cup {NoChat}, ref' \in Chats \cup {NoChat},
         fetches' \in Seq(FetchRecord), shown' \in Seq(Ids),
         list' \in [Chats -> {0} \cup Ids],
         races' \subseteq {"hurried", "overtaken", "reordered", "failed"}
  PROVE  Kinds'
BY SameRows DEF Kinds, ServerKinds, PageKinds

LEMMA SameWire ==
  ASSUME Kinds, UNCHANGED <<stored, unsent, frames, ws, received>>
  PROVE  WireKinds'
BY SameRows DEF Kinds, WireKinds

\* What is requested, answered and resolved.
LEMMA PageType ==
  ASSUME Kinds,
         \/ \E c \in Chats \cup {NoChat} : Navigate(c) \/ Remount(c)
         \/ \E c \in Chats : OpenChat(c)
         \/ RunEffects \/ OnMessage
         \/ \E i \in 1..Len(fetches) : Answer(i) \/ Resolve(i) \/ Fail(i)
  PROVE  Kinds'
<1>0. /\ ServerKinds /\ WireKinds /\ PageKinds
      /\ route \in Chats \cup {NoChat} /\ ref \in Chats \cup {NoChat}
      /\ fetches \in Seq(FetchRecord) /\ shown \in Seq(Ids)
      /\ list \in [Chats -> {0} \cup Ids]
      /\ races \subseteq {"hurried", "overtaken", "reordered", "failed"}
  BY DEF Kinds, PageKinds
<1>1. /\ ListLoad \in FetchRecord /\ \A c \in Chats : LoadOf(c) \in FetchRecord
      /\ NoPreviews \in [Chats -> {0} \cup Ids]
      /\ \A c \in Chats \cup {NoChat} : MountLoads(c) \in Seq(FetchRecord)
      /\ \A f \in FetchRecord : Answered(f) \in FetchRecord
  BY <1>0, RequestKinds
<1>2. ASSUME NEW c \in Chats \cup {NoChat}, Navigate(c) PROVE Kinds'
  BY <1>0, <1>2, SameWire, PageFrame DEF Navigate, server
<1>3. ASSUME NEW c \in Chats \cup {NoChat}, Remount(c) PROVE Kinds'
  <2>1. /\ frames' = <<>> /\ ws' = "connecting" /\ route' = c /\ ref' = c
        /\ fetches' = MountLoads(c) /\ shown' = <<>> /\ list' = NoPreviews
        /\ received' = {} /\ races' = {} /\ UNCHANGED <<stored, unsent>>
    BY <1>3 DEF Remount, server
  <2>2. WireKinds'
    BY <2>1 DEF WireKinds, IsInjective
  <2> QED BY <1>1, <2>1, <2>2, PageFrame
<1>4. ASSUME NEW c \in Chats, OpenChat(c) PROVE Kinds'
  <2>1. /\ route' = c /\ fetches' = Append(fetches, ListLoad)
        /\ UNCHANGED <<stored, unsent, frames, ws, ref, shown, list, received, races>>
    BY <1>4 DEF OpenChat, server
  <2>2. fetches' \in Seq(FetchRecord)
    BY <1>0, <1>1, <2>1, AppendedEntry
  <2> QED BY <1>0, <2>1, <2>2, SameWire, PageFrame
<1>5. CASE RunEffects
  <2>1. /\ ref' = route
        /\ \/ route = NoChat /\ shown' = <<>> /\ fetches' = fetches
           \/ route # NoChat /\ shown' = shown /\ fetches' = Append(fetches, LoadOf(route))
        /\ races' = races \cup (IF Loading THEN {"hurried"} ELSE {})
        /\ UNCHANGED <<stored, unsent, frames, ws, route, list, received>>
    BY <1>5 DEF RunEffects, server
  <2>2. CASE route = NoChat
    <3>1. fetches' = fetches /\ shown' = <<>>
      BY <2>1, <2>2
    <3>2. <<>> \in Seq(Ids)
      OBVIOUS
    <3>3. fetches' \in Seq(FetchRecord) /\ shown' \in Seq(Ids)
      BY <1>0, <3>1, <3>2
    <3>4. races' \subseteq {"hurried", "overtaken", "reordered", "failed"}
      BY <1>0, <2>1
    <3> QED BY <1>0, <2>1, <3>3, <3>4, SameWire, PageFrame
  <2>3. CASE route # NoChat
    <3>1. fetches' = Append(fetches, LoadOf(route)) /\ shown' = shown /\ route \in Chats
      BY <1>0, <2>1, <2>3
    <3>2. LoadOf(route) \in FetchRecord
      BY <1>1, <3>1
    <3>3. fetches' \in Seq(FetchRecord) /\ shown' \in Seq(Ids)
      BY <1>0, <3>1, <3>2, AppendedEntry
    <3>4. races' \subseteq {"hurried", "overtaken", "reordered", "failed"}
      BY <1>0, <2>1
    <3> QED BY <1>0, <2>1, <3>3, <3>4, SameWire, PageFrame
  <2> QED BY <2>2, <2>3
<1>6. CASE OnMessage
  <2> DEFINE m == Head(frames)
  <2>1. /\ shown' = IF stored[m] = ref THEN <<m>> \o Without(shown, m) ELSE shown
        /\ races' = races \cup (IF Loading THEN {"overtaken"} ELSE {})
        /\ fetches' = Append(fetches, ListLoad)
        /\ UNCHANGED <<stored, unsent, route, ref, list>>
    BY <1>6 DEF OnMessage, server
  <2>2. WireKinds' /\ m \in Ids
    BY <1>6, ReceivedFrame
  <2>3. fetches' \in Seq(FetchRecord)
    BY <1>0, <1>1, <2>1, AppendedEntry
  <2>4. shown' \in Seq(Ids)
    <3>1. Without(shown, m) \in Seq(Ids)
      BY <1>0, WithoutProperties
    <3> HIDE DEF m
    <3> QED BY <1>0, <2>1, <2>2, <3>1
  <2>5. races' \subseteq {"hurried", "overtaken", "reordered", "failed"}
    BY <1>0, <2>1
  <2> HIDE DEF m
  <2> QED BY <1>0, <2>1, <2>2, <2>3, <2>4, <2>5, PageFrame
<1>7. ASSUME NEW i \in 1..Len(fetches), Answer(i) PROVE Kinds'
  <2>1. /\ fetches' = [fetches EXCEPT ![i] = Answered(fetches[i])]
        /\ UNCHANGED <<stored, unsent, frames, ws, route, ref, shown, list, received, races>>
    BY <1>7 DEF Answer, server
  <2>2. Answered(fetches[i]) \in FetchRecord
    BY <1>0, <1>1
  <2>3. fetches' \in Seq(FetchRecord)
    BY <1>0, <2>1, <2>2, ReplacedEntry
  <2> QED BY <1>0, <2>1, <2>3, SameWire, PageFrame
<1>8. ASSUME NEW i \in 1..Len(fetches), Resolve(i) PROVE Kinds'
  <2>1. /\ \/ shown' = fetches[i].page /\ list' = list
           \/ shown' = shown /\ list' = fetches[i].previews
        /\ races' \subseteq races \cup {"reordered"}
        /\ fetches' = RemoveAt(fetches, i)
        /\ UNCHANGED <<stored, unsent, frames, ws, route, ref, received>>
    BY <1>8 DEF Resolve, server
  <2>2. fetches[i].page \in Seq(Ids) /\ fetches[i].previews \in [Chats -> {0} \cup Ids]
    <3>1. fetches[i] \in FetchRecord
      BY <1>0
    <3> QED BY <3>1 DEF FetchRecord
  <2>3. fetches' \in Seq(FetchRecord)
    BY <1>0, <2>1, RemoveAtProperties
  <2>4. races' \subseteq {"hurried", "overtaken", "reordered", "failed"}
    BY <1>0, <2>1
  <2> QED BY <1>0, <2>1, <2>2, <2>3, <2>4, SameWire, PageFrame
<1>9. ASSUME NEW i \in 1..Len(fetches), Fail(i) PROVE Kinds'
  <2>1. /\ fetches' = RemoveAt(fetches, i) /\ races' = races \cup {"failed"}
        /\ UNCHANGED <<stored, unsent, frames, ws, route, ref, shown, list, received>>
    BY <1>9 DEF Fail, server
  <2>2. fetches' \in Seq(FetchRecord)
    BY <1>0, <2>1, RemoveAtProperties
  <2>3. races' \subseteq {"hurried", "overtaken", "reordered", "failed"}
    BY <1>0, <2>1
  <2> QED BY <1>0, <2>1, <2>2, <2>3, SameWire, PageFrame
<1> QED BY <1>2, <1>3, <1>4, <1>5, <1>6, <1>7, <1>8, <1>9

\* A message is sent into the active chat, or stored for another tab or user.
LEMMA SendIsStore ==
  ASSUME Kinds, Send
  PROVE  \E c \in Chats : Store(c)
BY DEF Send, Kinds, PageKinds

LEMMA InitKinds == Init => Kinds
<1> SUFFICES ASSUME Init PROVE Kinds
  OBVIOUS
<1>1. ServerKinds
  BY DEF Init, ServerKinds
<1>2. fetches \in Seq(FetchRecord) /\ NoPreviews \in [Chats -> {0} \cup Ids]
  BY <1>1, RequestKinds DEF Init
<1>3. WireKinds /\ PageKinds
  BY <1>2 DEF Init, WireKinds, PageKinds, IsInjective
<1> QED BY <1>1, <1>3 DEF Kinds

LEMMA StepKinds == Kinds /\ [Next]_vars => Kinds'
<1> SUFFICES ASSUME Kinds, [Next]_vars PROVE Kinds'
  OBVIOUS
<1>1. CASE UNCHANGED vars
  BY <1>1, SameRows DEF vars, Kinds, ServerKinds, WireKinds, PageKinds
<1>2. CASE (\E c \in Chats : Store(c)) \/ Send
  BY <1>2, StoredRow, SendIsStore
<1>3. CASE WsOpen \/ WsClose \/ \E m \in unsent : Publish(m)
  BY <1>3, WireType
<1>4. CASE \/ \E c \in Chats \cup {NoChat} : Navigate(c) \/ Remount(c)
           \/ \E c \in Chats : OpenChat(c)
           \/ RunEffects \/ OnMessage
           \/ \E i \in 1..Len(fetches) : Answer(i) \/ Resolve(i) \/ Fail(i)
  BY <1>4, PageType
<1> QED BY <1>1, <1>2, <1>3, <1>4 DEF Next

\* Every variable keeps its kind, and a frame is of a published message that
\* the page has not handled, for any number of messages and requests.
THEOREM TypeIsInvariant == Spec => []TypeOK
BY InitKinds, StepKinds, KindsAreTypes, PTL DEF Spec
-----------------------------------------------------------------------------
(* What is shown, and what may come. *)

\* What is shown has no repetition; a history is of one chat and has none.
InOneChat ==
  /\ IsInjective(shown)
  /\ \A i \in 1..Len(fetches) :
       /\ IsInjective(fetches[i].page)
       /\ \A j \in 1..Len(fetches[i].page) : stored[fetches[i].page[j]] = fetches[i].chat

\* While the user does not hurry, at most one history is awaited, of the chat
\* that frames are compared with; if none is, only that chat is shown.
IsHistory(i) == fetches[i].kind = "messages"
Following ==
  races \cap {"hurried", "failed"} = {} =>
    /\ \A i, j \in 1..Len(fetches) : IsHistory(i) /\ IsHistory(j) => i = j
    /\ \A i \in 1..Len(fetches) : IsHistory(i) => fetches[i].chat = ref
    /\ ~Loading => \A i \in 1..Len(shown) : stored[shown[i]] = ref

\* While no frame comes during a load either, what came is in the history
\* that is awaited once it is answered, and is shown if none is.
Caught ==
  races \cap {"hurried", "failed", "overtaken"} = {} =>
    \A m \in received : stored[m] = ref =>
      /\ ~Loading => Covers(shown, m)
      /\ \A i \in 1..Len(fetches) : IsHistory(i) /\ fetches[i].done => Covers(fetches[i].page, m)

\* Of the requests for the list of chats, those from some one on are answered
\* after a message that came; there is such a one, or the list is as new.
Sees(i, m) ==
  fetches[i].kind = "chats" /\ fetches[i].done => fetches[i].previews[stored[m]] >= m
Previewed ==
  races \cap {"failed", "reordered"} = {} =>
    \A m \in received :
      \/ list[stored[m]] >= m /\ \A i \in 1..Len(fetches) : Sees(i, m)
      \/ \E k \in 1..Len(fetches) :
           fetches[k].kind = "chats" /\ \A i \in k..Len(fetches) : Sees(i, m)

IInv == Kinds /\ InOneChat /\ Following /\ Caught /\ Previewed
-----------------------------------------------------------------------------
(* What the steps do to the requests. *)

LEMMA SentRequest ==
  /\ ListLoad.kind = "chats" /\ ~ListLoad.done /\ ListLoad.page = <<>>
  /\ \A c : /\ LoadOf(c).kind = "messages" /\ LoadOf(c).chat = c
            /\ ~LoadOf(c).done /\ LoadOf(c).page = <<>>
BY DEF ListLoad, LoadOf

LEMMA MountedRequests ==
  ASSUME NEW c
  PROVE  \A i \in 1..Len(MountLoads(c)) :
           /\ MountLoads(c)[i].page = <<>> /\ ~MountLoads(c)[i].done
           /\ MountLoads(c)[i].kind = "messages" => i = 2 /\ MountLoads(c)[i].chat = c
<1>1. CASE c = NoChat
  <2>1. MountLoads(c) = <<ListLoad>>
    BY <1>1 DEF MountLoads
  <2> QED BY <2>1, SentRequest
<1>2. CASE c # NoChat
  <2>1. MountLoads(c) = <<ListLoad, LoadOf(c)>>
    BY <1>2 DEF MountLoads
  <2>2. /\ Len(MountLoads(c)) = 2 /\ MountLoads(c)[1] = ListLoad /\ MountLoads(c)[2] = LoadOf(c)
        /\ \A i \in 1..2 : i = 1 \/ i = 2
    BY <2>1
  <2> QED BY <2>2, SentRequest
<1> QED BY <1>1, <1>2

LEMMA RequestAppended ==
  ASSUME Kinds, NEW x \in FetchRecord, fetches' = Append(fetches, x)
  PROVE  /\ Len(fetches) \in Nat /\ Len(fetches') = Len(fetches) + 1
         /\ fetches'[Len(fetches) + 1] = x
         /\ \A j \in 1..Len(fetches) : fetches'[j] = fetches[j] /\ j \in 1..Len(fetches')
         /\ \A j \in 1..Len(fetches') : j \in 1..Len(fetches) \/ j = Len(fetches) + 1
         /\ Len(fetches) + 1 \in 1..Len(fetches')
<1>1. fetches \in Seq(FetchRecord) /\ Len(fetches) \in Nat
  BY DEF Kinds, PageKinds
<1>2. /\ Len(fetches') = Len(fetches) + 1 /\ fetches'[Len(fetches) + 1] = x
      /\ \A j \in 1..Len(fetches) : fetches'[j] = fetches[j]
  BY <1>1, AppendedEntry
<1> QED BY <1>1, <1>2

LEMMA RequestAnswered ==
  ASSUME Kinds, NEW i \in 1..Len(fetches), Answer(i)
  PROVE  /\ Len(fetches') = Len(fetches)
         /\ \A j \in 1..Len(fetches) : j # i => fetches'[j] = fetches[j]
         /\ fetches'[i].kind = fetches[i].kind /\ fetches'[i].chat = fetches[i].chat
         /\ fetches'[i].page = IF IsHistory(i) THEN History(fetches[i].chat) ELSE <<>>
         /\ fetches[i].kind = "chats" => fetches'[i].previews = Previews
         /\ UNCHANGED <<stored, ref, shown, list, received, races>>
<1>1. /\ fetches' = [fetches EXCEPT ![i] = Answered(fetches[i])]
      /\ UNCHANGED <<stored, ref, shown, list, received, races>>
  BY DEF Answer, server
<1>2. /\ fetches \in Seq(FetchRecord) /\ fetches[i] \in FetchRecord
      /\ Answered(fetches[i]) \in FetchRecord
  <2>1. fetches \in Seq(FetchRecord) /\ ServerKinds
    BY DEF Kinds, PageKinds
  <2>2. fetches[i] \in FetchRecord
    BY <2>1
  <2> QED BY <2>1, <2>2, RequestKinds
<1>3. /\ Len(fetches') = Len(fetches) /\ fetches'[i] = Answered(fetches[i])
      /\ \A j \in 1..Len(fetches) : j # i => fetches'[j] = fetches[j]
  BY <1>1, <1>2, ReplacedEntry
<1>4. /\ Answered(fetches[i]).kind = fetches[i].kind /\ Answered(fetches[i]).chat = fetches[i].chat
      /\ Answered(fetches[i]).page = IF IsHistory(i) THEN History(fetches[i].chat) ELSE <<>>
      /\ fetches[i].kind = "chats" => Answered(fetches[i]).previews = Previews
  <2> HIDE DEF History, Previews
  <2> QED BY <1>2 DEF Answered, FetchRecord, IsHistory
<1> QED BY <1>1, <1>3, <1>4

LEMMA RequestRemoved ==
  ASSUME Kinds, NEW i \in 1..Len(fetches), fetches' = RemoveAt(fetches, i)
  PROVE  /\ Len(fetches) \in Nat /\ Len(fetches') = Len(fetches) - 1
         /\ \A j \in 1..Len(fetches) : /\ j < i => j \in 1..Len(fetches') /\ fetches'[j] = fetches[j]
                                       /\ j > i => /\ j - 1 \in 1..Len(fetches')
                                                   /\ fetches'[j - 1] = fetches[j]
         /\ \A j \in 1..Len(fetches') : /\ j \in 1..Len(fetches) /\ j + 1 \in 1..Len(fetches)
                                        /\ j < i => fetches'[j] = fetches[j]
                                        /\ j >= i => fetches'[j] = fetches[j + 1]
<1>1. fetches \in Seq(FetchRecord) /\ Len(fetches) \in Nat
  BY DEF Kinds, PageKinds
<1>2. /\ Len(fetches') = Len(fetches) - 1
      /\ \A j \in 1..(i - 1) : fetches'[j] = fetches[j]
      /\ \A j \in i..(Len(fetches) - 1) : fetches'[j] = fetches[j + 1]
  BY <1>1, RemoveAtProperties
<1>3. ASSUME NEW j \in 1..Len(fetches')
      PROVE  /\ j \in 1..Len(fetches) /\ j + 1 \in 1..Len(fetches)
             /\ j < i => fetches'[j] = fetches[j]
             /\ j >= i => fetches'[j] = fetches[j + 1]
  BY <1>1, <1>2
<1>4. ASSUME NEW j \in 1..Len(fetches), j < i
      PROVE  j \in 1..Len(fetches') /\ fetches'[j] = fetches[j]
  BY <1>1, <1>2, <1>4
<1>5. ASSUME NEW j \in 1..Len(fetches), j > i
      PROVE  j - 1 \in 1..Len(fetches') /\ fetches'[j - 1] = fetches[j]
  <2>1. j - 1 \in i..(Len(fetches) - 1) /\ (j - 1) + 1 = j
    BY <1>1, <1>5
  <2>2. fetches'[j - 1] = fetches[(j - 1) + 1]
    BY <1>2, <2>1
  <2> QED BY <1>1, <1>2, <2>1, <2>2
<1> QED BY <1>1, <1>2, <1>3, <1>4, <1>5
\* What remains is of the other requests.
LEMMA RequestKept ==
  ASSUME Kinds, NEW i \in 1..Len(fetches), fetches' = RemoveAt(fetches, i)
  PROVE  \A j \in 1..Len(fetches') :
           \E k \in 1..Len(fetches) : k # i /\ fetches'[j] = fetches[k]
<1> SUFFICES ASSUME NEW j \in 1..Len(fetches')
             PROVE  \E k \in 1..Len(fetches) : k # i /\ fetches'[j] = fetches[k]
  OBVIOUS
<1>1. /\ j \in 1..Len(fetches) /\ j + 1 \in 1..Len(fetches) /\ i \in Nat /\ j \in Nat
      /\ j < i => fetches'[j] = fetches[j]
      /\ j >= i => fetches'[j] = fetches[j + 1]
  BY RequestRemoved
<1>2. CASE j < i
  BY <1>1, <1>2
<1>3. CASE j >= i
  <2>1. j + 1 # i
    BY <1>1, <1>3
  <2> QED BY <1>1, <1>3, <2>1
<1> QED BY <1>1, <1>2, <1>3
-----------------------------------------------------------------------------
(* The steps. *)

LEMMA PageFacts ==
  ASSUME Kinds
  PROVE  /\ ServerKinds /\ received \in SUBSET Ids /\ Ids \in SUBSET Nat
         /\ shown \in Seq(Ids) /\ \A j \in 1..Len(shown) : shown[j] \in Ids
         /\ \A m \in Ids : stored[m] \in Chats
         /\ \A i \in 1..Len(fetches) :
              /\ fetches[i].kind \in {"messages", "chats"} /\ fetches[i].page \in Seq(Ids)
              /\ \A j \in 1..Len(fetches[i].page) : fetches[i].page[j] \in Ids
              /\ IsHistory(i) => fetches[i].chat \in Chats
<1>1. ServerKinds /\ received \in SUBSET Ids /\ shown \in Seq(Ids) /\ fetches \in Seq(FetchRecord)
  BY DEF Kinds, WireKinds, PageKinds
<1>2. \A j \in 1..Len(shown) : shown[j] \in Ids
  BY <1>1
<1>3. ASSUME NEW i \in 1..Len(fetches)
      PROVE  /\ fetches[i].kind \in {"messages", "chats"} /\ fetches[i].page \in Seq(Ids)
             /\ \A j \in 1..Len(fetches[i].page) : fetches[i].page[j] \in Ids
             /\ IsHistory(i) => fetches[i].chat \in Chats
  <2>1. fetches[i] \in FetchRecord
    BY <1>1
  <2>2. fetches[i].kind \in {"messages", "chats"} /\ fetches[i].page \in Seq(Ids)
        /\ (fetches[i].kind = "messages" => fetches[i].chat \in Chats)
    BY <2>1 DEF FetchRecord
  <2>3. \A j \in 1..Len(fetches[i].page) : fetches[i].page[j] \in Ids
    BY <2>2
  <2> QED BY <2>2, <2>3 DEF IsHistory
<1> QED BY <1>1, <1>2, <1>3, IdsAreNaturals

\* Rows are only added, and the page does nothing.
LEMMA PageIdle ==
  ASSUME IInv, Kinds', Ids \subseteq Ids', \A m \in Ids : stored'[m] = stored[m],
         UNCHANGED <<ref, fetches, shown, list, received, races>>
  PROVE  IInv'
<1>0. /\ received \in SUBSET Ids /\ \A j \in 1..Len(shown) : shown[j] \in Ids
      /\ \A i \in 1..Len(fetches) : \A j \in 1..Len(fetches[i].page) : fetches[i].page[j] \in Ids
  BY PageFacts DEF IInv
<1>1. InOneChat'
  BY <1>0 DEF IInv, InOneChat
<1>2. Following'
  BY <1>0 DEF IInv, Following, Loading, IsHistory
<1>3. Caught'
  BY <1>0 DEF IInv, Caught, Loading, IsHistory, Covers
<1>4. Previewed'
  BY <1>0 DEF IInv, Previewed, Sees
<1> QED BY <1>1, <1>2, <1>3, <1>4 DEF IInv

\* Init and Remount: nothing is shown, and at most one history is awaited.
Mounted == fetches = MountLoads(ref) /\ shown = <<>> /\ received = {}
LEMMA PageMounted == Mounted => InOneChat /\ Following /\ Caught /\ Previewed
<1> SUFFICES ASSUME Mounted PROVE InOneChat /\ Following /\ Caught /\ Previewed
  OBVIOUS
<1>1. \A i \in 1..Len(fetches) :
        fetches[i].page = <<>> /\ (IsHistory(i) => i = 2 /\ fetches[i].chat = ref)
  BY MountedRequests DEF Mounted, IsHistory
<1>2. InOneChat
  BY <1>1 DEF Mounted, InOneChat, IsInjective
<1>3. Following
  BY <1>1 DEF Mounted, Following
<1> QED BY <1>2, <1>3 DEF Mounted, Caught, Previewed

\* A request for the list of chats is sent.
LEMMA ListRequested ==
  ASSUME IInv, fetches' = Append(fetches, ListLoad), UNCHANGED stored
  PROVE  /\ Loading' = Loading
         /\ \A i \in 1..Len(fetches') : IsHistory(i)' => i \in 1..Len(fetches) /\ IsHistory(i)
                                                         /\ fetches'[i] = fetches[i]
         /\ \A i \in 1..Len(fetches') :
              (i \in 1..Len(fetches) /\ fetches'[i] = fetches[i]) \/ fetches'[i].page = <<>>
         /\ \A m : \A i \in 1..Len(fetches') :
              Sees(i, m)' \/ (i \in 1..Len(fetches) /\ ~Sees(i, m))
<1> DEFINE n == Len(fetches)
<1>0. Kinds /\ ListLoad \in FetchRecord
  BY RequestKinds DEF IInv, Kinds
<1>1. /\ fetches'[n + 1] = ListLoad /\ n + 1 \in 1..Len(fetches')
      /\ \A j \in 1..n : fetches'[j] = fetches[j] /\ j \in 1..Len(fetches')
      /\ \A j \in 1..Len(fetches') : j \in 1..n \/ j = n + 1
  BY <1>0, RequestAppended
<1> HIDE DEF n
<1>2. \A i \in 1..Len(fetches') : IsHistory(i)' => i \in 1..n /\ IsHistory(i)
                                                   /\ fetches'[i] = fetches[i]
  BY <1>1, SentRequest DEF IsHistory
<1>3. Loading' = Loading
  BY <1>1, <1>2, SentRequest DEF Loading, IsHistory, n
<1>4. \A i \in 1..Len(fetches') :
        (i \in 1..n /\ fetches'[i] = fetches[i]) \/ fetches'[i].page = <<>>
  BY <1>1, SentRequest
<1>5. \A m : \A i \in 1..Len(fetches') : Sees(i, m)' \/ (i \in 1..n /\ ~Sees(i, m))
  BY <1>1, SentRequest DEF Sees
<1> QED BY <1>2, <1>3, <1>4, <1>5 DEF n

\* openChat: the list of chats is loaded and nothing else changes.
LEMMA StepOpenChat ==
  ASSUME IInv, NEW c \in Chats, OpenChat(c)
  PROVE  InOneChat' /\ Following' /\ Caught' /\ Previewed'
<1>0. /\ fetches' = Append(fetches, ListLoad)
      /\ UNCHANGED <<stored, ref, shown, list, received, races>>
  BY DEF OpenChat, server
<1>1. /\ Loading' = Loading
      /\ \A i \in 1..Len(fetches') : IsHistory(i)' => i \in 1..Len(fetches) /\ IsHistory(i)
                                                      /\ fetches'[i] = fetches[i]
      /\ \A i \in 1..Len(fetches') :
           (i \in 1..Len(fetches) /\ fetches'[i] = fetches[i]) \/ fetches'[i].page = <<>>
      /\ \A m : \A i \in 1..Len(fetches') :
           Sees(i, m)' \/ (i \in 1..Len(fetches) /\ ~Sees(i, m))
  BY <1>0, ListRequested
<1>2. InOneChat'
  BY <1>0, <1>1 DEF IInv, InOneChat, IsInjective
<1>3. Following'
  BY <1>0, <1>1 DEF IInv, Following
<1>4. Caught'
  BY <1>0, <1>1 DEF IInv, Caught, Covers
<1>5. Previewed'
  <2> SUFFICES ASSUME races \cap {"failed", "reordered"} = {}, NEW m \in received
               PROVE  \/ list[stored[m]] >= m /\ \A i \in 1..Len(fetches') : Sees(i, m)'
                      \/ \E k \in 1..Len(fetches') : /\ fetches'[k].kind = "chats"
                                                     /\ \A i \in k..Len(fetches') : Sees(i, m)'
    BY <1>0 DEF Previewed
  <2>1. /\ Len(fetches) \in Nat /\ Len(fetches') = Len(fetches) + 1
        /\ fetches'[Len(fetches) + 1] = ListLoad /\ Len(fetches) + 1 \in 1..Len(fetches')
    BY <1>0, RequestAppended, RequestKinds DEF IInv, Kinds
  <2>2. \A i \in (Len(fetches) + 1)..Len(fetches') : Sees(i, m)'
    BY <1>1, <2>1
  <2> QED BY <2>1, <2>2, SentRequest
<1> QED BY <1>2, <1>3, <1>4, <1>5

\* The effects on [chatId]: the history of the new chat is awaited, and the
\* only one unless the user hurried.
LEMMA StepRunEffects ==
  ASSUME IInv, RunEffects
  PROVE  InOneChat' /\ Following' /\ Caught' /\ Previewed'
<1>0. /\ ref' = route /\ UNCHANGED <<stored, list, received>>
      /\ \/ route = NoChat /\ shown' = <<>> /\ fetches' = fetches
         \/ route # NoChat /\ shown' = shown /\ fetches' = Append(fetches, LoadOf(route))
      /\ races' = races \cup (IF Loading THEN {"hurried"} ELSE {})
      /\ Kinds /\ route \in Chats \cup {NoChat}
  BY DEF RunEffects, server, IInv, Kinds, PageKinds
<1>1. \A m \in received : stored[m] \in Chats
  BY <1>0, PageFacts
<1>2. races \subseteq races' /\ ("hurried" \notin races' => ~Loading)
  BY <1>0
<1>3. CASE route = NoChat
  <2>1. shown' = <<>> /\ fetches' = fetches
    BY <1>0, <1>3
  <2>2. InOneChat'
    BY <1>0, <2>1 DEF IInv, InOneChat, IsInjective
  <2>3. Following'
    <3> SUFFICES ASSUME races' \cap {"hurried", "failed"} = {}
                 PROVE  \A i \in 1..Len(fetches) : ~IsHistory(i)
      BY <1>0, <2>1 DEF Following, IsHistory
    <3> QED BY <1>2 DEF Loading, IsHistory
  <2>4. Caught'
    BY <1>0, <1>1, <1>3, ChatsAssumption DEF Caught
  <2>5. Previewed'
    BY <1>0, <1>2, <2>1 DEF IInv, Previewed, Sees
  <2> QED BY <2>2, <2>3, <2>4, <2>5
<1>4. CASE route # NoChat
  <2> DEFINE n == Len(fetches)
  <2>1. shown' = shown /\ fetches' = Append(fetches, LoadOf(route)) /\ route \in Chats
    BY <1>0, <1>4
  <2>2. LoadOf(route) \in FetchRecord
    BY <1>0, <2>1, RequestKinds DEF Kinds
  <2>3. /\ n \in Nat /\ Len(fetches') = n + 1
        /\ fetches'[n + 1] = LoadOf(route) /\ n + 1 \in 1..Len(fetches')
        /\ \A j \in 1..n : fetches'[j] = fetches[j] /\ j \in 1..Len(fetches')
        /\ \A j \in 1..Len(fetches') : j \in 1..n \/ j = n + 1
    BY <1>0, <2>1, <2>2, RequestAppended
  <2> HIDE DEF n
  <2>4. /\ fetches'[n + 1].kind = "messages" /\ fetches'[n + 1].chat = route
        /\ ~fetches'[n + 1].done /\ fetches'[n + 1].page = <<>>
    BY <2>3, SentRequest
  <2>5. Loading'
    BY <2>3, <2>4 DEF Loading
  <2>6. ~Loading => \A j \in 1..Len(fetches') : IsHistory(j)' => j = n + 1
    BY <2>3 DEF Loading, IsHistory, n
  <2>7. InOneChat'
    BY <1>0, <2>1, <2>3, <2>4 DEF IInv, InOneChat, IsInjective, n
  <2>8. Following'
    BY <1>0, <1>2, <2>4, <2>5, <2>6 DEF Following
  <2>9. Caught'
    BY <1>0, <1>2, <2>4, <2>5, <2>6 DEF Caught
  <2>10. Previewed'
    <3> SUFFICES ASSUME races \cap {"failed", "reordered"} = {}, NEW m \in received
                 PROVE  \/ list[stored[m]] >= m /\ \A i \in 1..Len(fetches') : Sees(i, m)'
                        \/ \E k \in 1..Len(fetches') : /\ fetches'[k].kind = "chats"
                                                       /\ \A i \in k..Len(fetches') : Sees(i, m)'
      BY <1>0, <1>2 DEF Previewed
    <3>1. \A i \in 1..Len(fetches') : Sees(i, m)' \/ (i \in 1..n /\ ~Sees(i, m))
      BY <1>0, <2>3, <2>4 DEF Sees
    <3>2. CASE list[stored[m]] >= m /\ \A i \in 1..Len(fetches) : Sees(i, m)
      BY <3>1, <3>2 DEF n
    <3>3. CASE \E k \in 1..Len(fetches) :
                 fetches[k].kind = "chats" /\ \A i \in k..Len(fetches) : Sees(i, m)
      <4>1. PICK k \in 1..n : fetches[k].kind = "chats" /\ \A i \in k..n : Sees(i, m)
        BY <3>3 DEF n
      <4>2. \A i \in k..Len(fetches') : Sees(i, m)'
        BY <2>3, <3>1, <4>1
      <4> QED BY <2>3, <4>1, <4>2
    <3> QED BY <3>2, <3>3 DEF IInv, Previewed
  <2> QED BY <2>7, <2>8, <2>9, <2>10
<1> QED BY <1>3, <1>4

\* A message comes: in the active chat it is shown first and once, and the
\* list of chats that is loaded for it will have it.
LEMMA StepOnMessage ==
  ASSUME IInv, OnMessage
  PROVE  InOneChat' /\ Following' /\ Caught' /\ Previewed'
<1> DEFINE m == Head(frames)
<1>0. /\ shown' = IF stored[m] = ref THEN <<m>> \o Without(shown, m) ELSE shown
      /\ races' = races \cup (IF Loading THEN {"overtaken"} ELSE {})
      /\ fetches' = Append(fetches, ListLoad)
      /\ UNCHANGED <<stored, ref, list>>
      /\ Kinds
  BY DEF OnMessage, server, IInv
<1>1. m \in Ids /\ received' = received \cup {m}
  BY <1>0, ReceivedFrame
<1>2. shown \in Seq(Ids) /\ received \in SUBSET Ids /\ Ids \in SUBSET Nat
  BY <1>0, PageFacts
<1> HIDE DEF m
<1>3. /\ Loading' = Loading
      /\ \A i \in 1..Len(fetches') : IsHistory(i)' => i \in 1..Len(fetches) /\ IsHistory(i)
                                                      /\ fetches'[i] = fetches[i]
      /\ \A i \in 1..Len(fetches') :
           (i \in 1..Len(fetches) /\ fetches'[i] = fetches[i]) \/ fetches'[i].page = <<>>
      /\ \A x : \A i \in 1..Len(fetches') :
           Sees(i, x)' \/ (i \in 1..Len(fetches) /\ ~Sees(i, x))
  BY <1>0, ListRequested
<1>4. /\ shown' \in Seq(Ids) /\ IsInjective(shown')
      /\ ToSet(shown) \in SUBSET ToSet(shown')
      /\ stored[m] = ref => Contains(shown', m)
      /\ \A j \in 1..Len(shown') : (shown'[j] = m /\ stored[m] = ref) \/ shown'[j] \in ToSet(shown)
  <2>1. CASE stored[m] # ref
    <3>1. shown' = shown
      BY <1>0, <2>1
    <3>2. \A j \in 1..Len(shown) : shown[j] \in ToSet(shown)
      BY <1>2 DEF ToSet
    <3> QED BY <1>2, <2>1, <3>1, <3>2 DEF IInv, InOneChat
  <2>2. CASE stored[m] = ref
    <3> DEFINE w == Without(shown, m)
    <3>1. /\ w \in Seq(Ids) /\ ToSet(w) = ToSet(shown) \ {m}
          /\ IsInjective(shown) => IsInjective(w)
      BY <1>2, WithoutProperties
    <3>2. IsInjective(w)
      BY <3>1 DEF IInv, InOneChat
    <3>3. shown' = <<m>> \o w
      BY <1>0, <2>2
    <3> HIDE DEF w
    <3>4. /\ shown' \in Seq(Ids) /\ Len(shown') = Len(w) + 1 /\ Len(w) \in Nat
          /\ shown'[1] = m /\ \A j \in 1..Len(w) : shown'[j + 1] = w[j]
      BY <1>1, <3>1, <3>3
    <3>5. /\ DOMAIN shown' = 1..Len(shown') /\ DOMAIN w = 1..Len(w)
          /\ \A j \in 1..Len(shown') : j = 1 \/ (j - 1 \in 1..Len(w) /\ shown'[j] = w[j - 1])
          /\ \A j \in 1..Len(w) : j + 1 \in 1..Len(shown')
      <4>1. ASSUME NEW j \in 1..Len(shown'), j # 1
            PROVE  j - 1 \in 1..Len(w) /\ shown'[j] = w[j - 1]
        <5>1. j - 1 \in 1..Len(w) /\ (j - 1) + 1 = j
          BY <3>4, <4>1
        <5> QED BY <3>4, <5>1
      <4> QED BY <3>1, <3>4, <4>1
    <3>6. \A j \in 1..Len(w) : w[j] \in ToSet(shown) /\ w[j] # m
      <4>1. \A j \in 1..Len(w) : w[j] \in ToSet(w)
        BY <3>5 DEF ToSet
      <4> QED BY <3>1, <4>1
    <3>7. IsInjective(shown')
      <4> SUFFICES ASSUME NEW i \in 1..Len(shown'), NEW j \in 1..Len(shown'),
                          shown'[i] = shown'[j]
                   PROVE  i = j
        BY <3>5 DEF IsInjective
      <4>1. CASE i = 1 \/ j = 1
        BY <3>4, <3>5, <3>6, <4>1
      <4>2. CASE i # 1 /\ j # 1
        <5>1. i - 1 \in DOMAIN w /\ j - 1 \in DOMAIN w /\ w[i - 1] = w[j - 1]
          BY <3>5, <4>2
        <5>2. i - 1 = j - 1
          BY <3>2, <5>1 DEF IsInjective
        <5> QED BY <5>2
      <4> QED BY <4>1, <4>2
    <3>8. ToSet(shown) \in SUBSET ToSet(shown')
      <4> SUFFICES ASSUME NEW x \in ToSet(shown) PROVE x \in ToSet(shown')
        OBVIOUS
      <4>1. CASE x = m
        BY <3>4, <3>5, <4>1 DEF ToSet
      <4>2. CASE x # m
        <5>1. PICK j \in 1..Len(w) : w[j] = x
          BY <3>1, <3>5, <4>2 DEF ToSet
        <5>2. j + 1 \in DOMAIN shown' /\ shown'[j + 1] = x
          BY <3>4, <3>5, <5>1
        <5> QED BY <5>2 DEF ToSet
      <4> QED BY <4>1, <4>2
    <3>9. Contains(shown', m)
      <4>1. 1 \in 1..Len(shown')
        BY <3>4
      <4> QED BY <3>4, <4>1 DEF Contains
    <3>10. \A j \in 1..Len(shown') : shown'[j] = m \/ shown'[j] \in ToSet(shown)
      BY <3>4, <3>5, <3>6
    <3> QED BY <2>2, <3>4, <3>7, <3>8, <3>9, <3>10
  <2> QED BY <2>1, <2>2
<1>5. InOneChat'
  BY <1>0, <1>3, <1>4 DEF IInv, InOneChat, IsInjective
<1>6. Following'
  <2> SUFFICES ASSUME races \cap {"hurried", "failed"} = {}
               PROVE  /\ \A i, j \in 1..Len(fetches') : IsHistory(i)' /\ IsHistory(j)' => i = j
                      /\ \A i \in 1..Len(fetches') : IsHistory(i)' => fetches'[i].chat = ref
                      /\ ~Loading => \A i \in 1..Len(shown') : stored[shown'[i]] = ref
    BY <1>0, <1>3 DEF Following
  <2>1. \A x \in ToSet(shown) : \E i \in 1..Len(shown) : shown[i] = x
    BY <1>2 DEF ToSet
  <2>2. /\ \A i, j \in 1..Len(fetches) : IsHistory(i) /\ IsHistory(j) => i = j
        /\ \A i \in 1..Len(fetches) : IsHistory(i) => fetches[i].chat = ref
        /\ ~Loading => \A i \in 1..Len(shown) : stored[shown[i]] = ref
    BY DEF IInv, Following
  <2>3. ~Loading => \A i \in 1..Len(shown') : stored[shown'[i]] = ref
    BY <1>4, <2>1, <2>2
  <2>4. /\ \A i, j \in 1..Len(fetches') : IsHistory(i)' /\ IsHistory(j)' => i = j
        /\ \A i \in 1..Len(fetches') : IsHistory(i)' => fetches'[i].chat = ref
    BY <1>3, <2>2
  <2> QED BY <2>3, <2>4
<1>7. ASSUME NEW x \in received, Covers(shown, x) PROVE Covers(shown', x)
  <2>1. shown \in Seq(Nat) /\ shown' \in Seq(Nat) /\ x \in Nat /\ Limit \in Nat
    BY <1>2, <1>4, SeqOfMore, BoundsAssumption
  <2> QED BY <1>4, <1>7, <2>1, NewerGrow DEF Covers
<1>8. Caught'
  <2> SUFFICES ASSUME races' \cap {"hurried", "failed", "overtaken"} = {},
                      NEW x \in received', stored[x] = ref
               PROVE  /\ ~Loading => Covers(shown', x)
                      /\ \A i \in 1..Len(fetches') :
                           IsHistory(i)' /\ fetches'[i].done => Covers(fetches'[i].page, x)
    BY <1>0, <1>3 DEF Caught, Covers
  <2>1. ~Loading /\ races \cap {"hurried", "failed", "overtaken"} = {}
    BY <1>0
  <2>2. \A i \in 1..Len(fetches') : ~IsHistory(i)'
    BY <1>3, <2>1 DEF Loading, IsHistory
  <2>3. Covers(shown', x)
    <3>1. CASE x = m
      BY <1>4, <3>1 DEF Covers
    <3>2. CASE x \in received
      <4>1. Covers(shown, x)
        BY <2>1, <3>2 DEF IInv, Caught
      <4> QED BY <1>7, <3>2, <4>1
    <3> QED BY <1>1, <3>1, <3>2
  <2> QED BY <2>2, <2>3
<1>9. Previewed'
  <2>1. /\ Len(fetches) \in Nat /\ Len(fetches') = Len(fetches) + 1
        /\ fetches'[Len(fetches) + 1] = ListLoad /\ Len(fetches) + 1 \in 1..Len(fetches')
    BY <1>0, RequestAppended, RequestKinds DEF Kinds
  <2>2. \A x \in received' : \A i \in (Len(fetches) + 1)..Len(fetches') : Sees(i, x)'
    BY <1>3, <2>1
  <2>3. \A x \in received' : \E k \in 1..Len(fetches') :
          fetches'[k].kind = "chats" /\ \A i \in k..Len(fetches') : Sees(i, x)'
    BY <2>1, <2>2, SentRequest
  <2> QED BY <2>3 DEF Previewed
<1> QED BY <1>5, <1>6, <1>8, <1>9

\* The server answers: with all the rows there are.
LEMMA StepAnswer ==
  ASSUME IInv, NEW i \in 1..Len(fetches), Answer(i)
  PROVE  InOneChat' /\ Following' /\ Caught' /\ Previewed'
<1>0. /\ Len(fetches') = Len(fetches)
      /\ \A j \in 1..Len(fetches) : j # i => fetches'[j] = fetches[j]
      /\ fetches'[i].kind = fetches[i].kind /\ fetches'[i].chat = fetches[i].chat
      /\ fetches'[i].page = IF IsHistory(i) THEN History(fetches[i].chat) ELSE <<>>
      /\ fetches[i].kind = "chats" => fetches'[i].previews = Previews
      /\ UNCHANGED <<stored, ref, shown, list, received, races>>
      /\ Kinds
  BY RequestAnswered DEF IInv
<1>1. ServerKinds /\ received \in SUBSET Ids
  BY <1>0, PageFacts
<1>2. /\ \A c : /\ IsInjective(History(c))
                /\ \A j \in 1..Len(History(c)) : stored[History(c)[j]] = c
                /\ \A m \in InChat(c) : Covers(History(c), m)
      /\ \A m \in received : Previews[stored[m]] >= m
  BY <1>1, HistoryProperties, PreviewsProperties
<1>3. \A j \in 1..Len(fetches) :
        fetches'[j].kind = fetches[j].kind /\ fetches'[j].chat = fetches[j].chat
  BY <1>0
<1>4. Loading' = Loading
  BY <1>0, <1>3 DEF Loading
<1>5. InOneChat'
  BY <1>0, <1>2 DEF IInv, InOneChat, IsInjective
<1>6. Following'
  BY <1>0, <1>3, <1>4 DEF IInv, Following, IsHistory
<1>7. Caught'
  <2> SUFFICES ASSUME races \cap {"hurried", "failed", "overtaken"} = {},
                      NEW m \in received, stored[m] = ref
               PROVE  /\ ~Loading => Covers(shown, m)
                      /\ \A j \in 1..Len(fetches) :
                           IsHistory(j)' /\ fetches'[j].done => Covers(fetches'[j].page, m)
    BY <1>0, <1>4 DEF Caught, Covers
  <2>1. ASSUME NEW j \in 1..Len(fetches), IsHistory(j)', fetches'[j].done
        PROVE  Covers(fetches'[j].page, m)
    <3>1. IsHistory(j)
      BY <1>3, <2>1 DEF IsHistory
    <3>2. CASE j # i
      BY <1>0, <2>1, <3>1, <3>2 DEF IInv, Caught
    <3>3. CASE j = i
      <4>1. fetches[i].chat = ref
        BY <3>1, <3>3 DEF IInv, Following
      <4>2. m \in InChat(ref)
        BY <1>1 DEF InChat
      <4>3. fetches'[j].page = History(ref)
        BY <1>0, <3>1, <3>3, <4>1
      <4> QED BY <1>2, <4>2, <4>3
    <3> QED BY <3>2, <3>3
  <2> QED BY <2>1 DEF IInv, Caught
<1>8. Previewed'
  <2>1. \A m \in received : \A j \in 1..Len(fetches) : Sees(j, m) => Sees(j, m)'
    BY <1>0, <1>2, <1>3 DEF Sees
  <2> QED BY <1>0, <1>3, <2>1 DEF IInv, Previewed
<1> QED BY <1>5, <1>6, <1>7, <1>8

\* A request fails: what is shown and listed is no more promised.
LEMMA StepFail ==
  ASSUME IInv, NEW i \in 1..Len(fetches), Fail(i)
  PROVE  InOneChat' /\ Following' /\ Caught' /\ Previewed'
<1>0. /\ fetches' = RemoveAt(fetches, i) /\ races' = races \cup {"failed"}
      /\ UNCHANGED <<stored, shown>> /\ Kinds
  BY DEF Fail, server, IInv
<1>1. \A j \in 1..Len(fetches') : \E k \in 1..Len(fetches) : fetches'[j] = fetches[k]
  BY <1>0, RequestRemoved, RemoveAtProperties DEF Kinds, PageKinds
<1>2. InOneChat'
  BY <1>0, <1>1 DEF IInv, InOneChat, IsInjective
<1>3. Following' /\ Caught' /\ Previewed'
  BY <1>0 DEF Following, Caught, Previewed
<1> QED BY <1>2, <1>3

\* A history arrives and is shown: the only one, unless the user hurried.
LEMMA StepResolveHistory ==
  ASSUME IInv, NEW i \in 1..Len(fetches), Resolve(i), IsHistory(i)
  PROVE  InOneChat' /\ Following' /\ Caught' /\ Previewed'
<1>0. /\ fetches[i].done /\ shown' = fetches[i].page
      /\ fetches' = RemoveAt(fetches, i) /\ races \subseteq races'
      /\ UNCHANGED <<stored, ref, list, received>> /\ Kinds
  BY DEF Resolve, server, IInv, IsHistory
<1>1. /\ Len(fetches) \in Nat /\ Len(fetches') = Len(fetches) - 1
      /\ \A j \in 1..Len(fetches) : /\ j < i => j \in 1..Len(fetches') /\ fetches'[j] = fetches[j]
                                    /\ j > i => /\ j - 1 \in 1..Len(fetches')
                                                /\ fetches'[j - 1] = fetches[j]
      /\ \A j \in 1..Len(fetches') : /\ j \in 1..Len(fetches) /\ j + 1 \in 1..Len(fetches)
                                     /\ j < i => fetches'[j] = fetches[j]
                                     /\ j >= i => fetches'[j] = fetches[j + 1]
  BY <1>0, RequestRemoved
<1>2. \A j \in 1..Len(fetches') :
        \E k \in 1..Len(fetches) : k # i /\ fetches'[j] = fetches[k]
  BY <1>0, RequestKept
<1>3. InOneChat'
  <2>1. \A k \in 1..Len(fetches) :
          /\ IsInjective(fetches[k].page)
          /\ \A j \in 1..Len(fetches[k].page) : stored[fetches[k].page[j]] = fetches[k].chat
    BY DEF IInv, InOneChat
  <2>2. \A j \in 1..Len(fetches') :
          /\ IsInjective(fetches'[j].page)
          /\ \A l \in 1..Len(fetches'[j].page) : stored'[fetches'[j].page[l]] = fetches'[j].chat
    BY <1>0, <1>2, <2>1
  <2>3. IsInjective(shown')
    BY <1>0, <2>1
  <2> QED BY <2>2, <2>3 DEF InOneChat, IsInjective
<1>4. ASSUME races \cap {"hurried", "failed"} = {}
      PROVE  /\ \A j \in 1..Len(fetches') : ~IsHistory(j)'
             /\ fetches[i].chat = ref
  <2>1. \A k \in 1..Len(fetches) : k # i => fetches[k].kind # "messages"
    BY <1>4 DEF IInv, Following, IsHistory
  <2> QED BY <1>2, <1>4, <2>1 DEF IInv, Following, IsHistory
<1>5. Following'
  BY <1>0, <1>4 DEF IInv, InOneChat, Following
<1>6. Caught'
  <2> SUFFICES ASSUME races \cap {"hurried", "failed", "overtaken"} = {},
                      NEW m \in received, stored[m] = ref
               PROVE  /\ Covers(shown', m)
                      /\ \A j \in 1..Len(fetches') : ~IsHistory(j)'
    BY <1>0 DEF Caught, Covers
  <2> QED BY <1>0, <1>4 DEF IInv, Caught
<1>7. Previewed'
  <2> SUFFICES ASSUME races \cap {"failed", "reordered"} = {}, NEW m \in received
               PROVE  \/ list[stored[m]] >= m /\ \A j \in 1..Len(fetches') : Sees(j, m)'
                      \/ \E k \in 1..Len(fetches') : /\ fetches'[k].kind = "chats"
                                                     /\ \A j \in k..Len(fetches') : Sees(j, m)'
    BY <1>0 DEF Previewed
  <2>1. CASE list[stored[m]] >= m /\ \A j \in 1..Len(fetches) : Sees(j, m)
    <3>1. \A j \in 1..Len(fetches') : Sees(j, m)'
      BY <1>0, <1>2, <2>1 DEF Sees
    <3> QED BY <2>1, <3>1
  <2>2. CASE \E k \in 1..Len(fetches) :
               fetches[k].kind = "chats" /\ \A j \in k..Len(fetches) : Sees(j, m)
    <3>1. PICK k \in 1..Len(fetches) :
            fetches[k].kind = "chats" /\ \A j \in k..Len(fetches) : Sees(j, m)
      BY <2>2
    <3>2. k # i
      BY <3>1 DEF IsHistory
    <3> DEFINE h == IF k < i THEN k ELSE k - 1
    <3>3. h \in 1..Len(fetches') /\ fetches'[h] = fetches[k]
      BY <1>1, <3>2
    <3>4. \A j \in h..Len(fetches') : \E l \in k..Len(fetches) : fetches'[j] = fetches[l]
      <4> SUFFICES ASSUME NEW j \in h..Len(fetches')
                   PROVE  \E l \in k..Len(fetches) : fetches'[j] = fetches[l]
        OBVIOUS
      <4>1. j \in 1..Len(fetches')
        BY <3>3
      <4>2. CASE j < i
        <5>1. k < i /\ j \in k..Len(fetches)
          BY <1>1, <3>2, <4>1, <4>2
        <5> QED BY <1>1, <4>1, <4>2, <5>1
      <4>3. CASE j >= i
        <5>1. j + 1 \in k..Len(fetches)
          BY <1>1, <3>2, <4>1, <4>3
        <5> QED BY <1>1, <4>1, <4>3, <5>1
      <4> QED BY <1>1, <4>1, <4>2, <4>3
    <3>5. \A j \in h..Len(fetches') : Sees(j, m)'
      BY <1>0, <3>1, <3>4 DEF Sees
    <3> QED BY <3>1, <3>3, <3>5
  <2> QED BY <2>1, <2>2 DEF IInv, Previewed
<1> QED BY <1>3, <1>5, <1>6, <1>7

\* A list of chats arrives.  If none asked for earlier is awaited, either it
\* has a message that came, or a later one will.
LEMMA StepResolveList ==
  ASSUME IInv, NEW i \in 1..Len(fetches), Resolve(i), ~IsHistory(i)
  PROVE  InOneChat' /\ Following' /\ Caught' /\ Previewed'
<1>0. /\ fetches[i].done /\ list' = fetches[i].previews
      /\ fetches' = RemoveAt(fetches, i) /\ races \subseteq races'
      /\ (\E j \in 1..(i - 1) : fetches[j].kind = fetches[i].kind) => "reordered" \in races'
      /\ UNCHANGED <<stored, ref, shown, received>> /\ Kinds
  BY DEF Resolve, server, IInv, IsHistory
<1>1. /\ Len(fetches) \in Nat /\ Len(fetches') = Len(fetches) - 1
      /\ \A j \in 1..Len(fetches) : /\ j < i => j \in 1..Len(fetches') /\ fetches'[j] = fetches[j]
                                    /\ j > i => /\ j - 1 \in 1..Len(fetches')
                                                /\ fetches'[j - 1] = fetches[j]
      /\ \A j \in 1..Len(fetches') : /\ j \in 1..Len(fetches) /\ j + 1 \in 1..Len(fetches)
                                     /\ j < i => fetches'[j] = fetches[j]
                                     /\ j >= i => fetches'[j] = fetches[j + 1]
  BY <1>0, RequestRemoved
<1>2. \A j \in 1..Len(fetches') :
        \E k \in 1..Len(fetches) : k # i /\ fetches'[j] = fetches[k]
  BY <1>0, RequestKept
<1>3. \A j \in 1..Len(fetches) : fetches[j].kind \in {"messages", "chats"}
  BY <1>0, PageFacts
<1>4. Loading' = Loading
  <2>1. ASSUME Loading PROVE Loading'
    <3>1. PICK k \in 1..Len(fetches) : IsHistory(k)
      BY <2>1 DEF Loading, IsHistory
    <3>2. \E j \in 1..Len(fetches') : fetches'[j] = fetches[k]
      <4>1. k # i /\ k \in Nat /\ i \in Nat
        BY <1>1, <3>1
      <4>2. k < i \/ k > i
        BY <4>1
      <4> QED BY <1>1, <4>2
    <3> QED BY <3>1, <3>2 DEF Loading, IsHistory
  <2>2. ASSUME Loading' PROVE Loading
    BY <1>2, <2>2 DEF Loading
  <2>3. Loading \in BOOLEAN /\ Loading' \in BOOLEAN
    BY DEF Loading
  <2> QED BY <2>1, <2>2, <2>3
<1>5. InOneChat'
  BY <1>0, <1>2 DEF IInv, InOneChat, IsInjective
<1>6. Following'
  <2> SUFFICES ASSUME races \cap {"hurried", "failed"} = {}
               PROVE  /\ \A j, k \in 1..Len(fetches') : IsHistory(j)' /\ IsHistory(k)' => j = k
                      /\ \A j \in 1..Len(fetches') : IsHistory(j)' => fetches'[j].chat = ref
                      /\ ~Loading => \A j \in 1..Len(shown) : stored[shown[j]] = ref
    BY <1>0, <1>4 DEF Following
  <2>1. \A j, k \in 1..Len(fetches) : IsHistory(j) /\ IsHistory(k) => j = k
    BY DEF IInv, Following
  <2>2. ASSUME NEW j \in 1..Len(fetches'), NEW k \in 1..Len(fetches'), IsHistory(j)', IsHistory(k)'
        PROVE  j = k
    <3> DEFINE g(l) == IF l < i THEN l ELSE l + 1
    <3>1. \A l \in 1..Len(fetches') : g(l) \in 1..Len(fetches) /\ fetches'[l] = fetches[g(l)]
      BY <1>1
    <3>2. IsHistory(g(j)) /\ IsHistory(g(k))
      BY <2>2, <3>1 DEF IsHistory
    <3>3. g(j) = g(k)
      <4> HIDE DEF g
      <4> QED BY <2>1, <3>1, <3>2
    <3>4. j \in Nat /\ k \in Nat /\ i \in Nat
      BY <1>1
    <3> QED BY <3>3, <3>4
  <2> QED BY <1>2, <2>2 DEF IInv, Following, IsHistory
<1>7. Caught'
  BY <1>0, <1>2, <1>4 DEF IInv, Caught, Covers, IsHistory
<1>8. Previewed'
  <2> SUFFICES ASSUME races' \cap {"failed", "reordered"} = {}, NEW m \in received
               PROVE  \/ list'[stored[m]] >= m /\ \A j \in 1..Len(fetches') : Sees(j, m)'
                      \/ \E k \in 1..Len(fetches') : /\ fetches'[k].kind = "chats"
                                                     /\ \A j \in k..Len(fetches') : Sees(j, m)'
    BY <1>0 DEF Previewed
  <2>1. fetches[i].kind = "chats" /\ \A j \in 1..(i - 1) : fetches[j].kind # "chats"
    BY <1>0, <1>3 DEF IsHistory
  <2>2. \A j \in 1..(i - 1) : Sees(j, m)
    BY <2>1 DEF Sees
  <2>3. CASE \A j \in i..Len(fetches) : Sees(j, m)
    <3>1. list'[stored[m]] >= m
      BY <1>0, <2>1, <2>3 DEF Sees
    <3>2. \A j \in 1..Len(fetches) : Sees(j, m)
      BY <2>2, <2>3
    <3>3. \A j \in 1..Len(fetches') : Sees(j, m)'
      BY <1>0, <1>2, <3>2 DEF Sees
    <3> QED BY <3>1, <3>3
  <2>4. CASE \E k \in 1..Len(fetches) :
               k > i /\ fetches[k].kind = "chats" /\ \A j \in k..Len(fetches) : Sees(j, m)
    <3>1. PICK k \in 1..Len(fetches) :
            k > i /\ fetches[k].kind = "chats" /\ \A j \in k..Len(fetches) : Sees(j, m)
      BY <2>4
    <3>2. k - 1 \in 1..Len(fetches') /\ fetches'[k - 1] = fetches[k]
      BY <1>1, <3>1
    <3>3. ASSUME NEW j \in (k - 1)..Len(fetches') PROVE Sees(j, m)'
      <4>1. j \in 1..Len(fetches') /\ j >= i /\ j + 1 \in k..Len(fetches)
        BY <1>1, <3>1, <3>2
      <4>2. fetches'[j] = fetches[j + 1] /\ Sees(j + 1, m)
        BY <1>1, <3>1, <4>1
      <4> QED BY <1>0, <4>2 DEF Sees
    <3> QED BY <3>1, <3>2, <3>3
  <2>5. \/ \A j \in i..Len(fetches) : Sees(j, m)
        \/ \E k \in 1..Len(fetches) :
             k > i /\ fetches[k].kind = "chats" /\ \A j \in k..Len(fetches) : Sees(j, m)
    <3>1. CASE \A j \in 1..Len(fetches) : Sees(j, m)
      BY <3>1
    <3>2. CASE \E k \in 1..Len(fetches) :
                 fetches[k].kind = "chats" /\ \A j \in k..Len(fetches) : Sees(j, m)
      <4>1. PICK k \in 1..Len(fetches) :
              fetches[k].kind = "chats" /\ \A j \in k..Len(fetches) : Sees(j, m)
        BY <3>2
      <4>2. k = i \/ k > i
        BY <2>1, <4>1
      <4> QED BY <4>1, <4>2
    <3>3. races \cap {"failed", "reordered"} = {}
      BY <1>0
    <3> QED BY <3>1, <3>2, <3>3 DEF IInv, Previewed
  <2> QED BY <2>3, <2>4, <2>5
<1> QED BY <1>5, <1>6, <1>7, <1>8
-----------------------------------------------------------------------------
(* The invariant, and what it says when nothing is awaited. *)

LEMMA InitIInv == Init => IInv
BY InitKinds, PageMounted DEF Init, Mounted, IInv

LEMMA StepIInv == IInv /\ [Next]_vars => IInv'
<1> SUFFICES ASSUME IInv, [Next]_vars PROVE IInv'
  OBVIOUS
<1>0. Kinds /\ Kinds'
  BY StepKinds DEF IInv
<1>1. ASSUME UNCHANGED stored, UNCHANGED <<ref, fetches, shown, list, received, races>>
      PROVE  IInv'
  BY <1>0, <1>1, PageIdle, SameRows
<1>2. CASE UNCHANGED vars
  BY <1>1, <1>2 DEF vars
<1>3. CASE (\E c \in Chats : Store(c)) \/ Send
  <2>1. PICK c \in Chats : Store(c)
    BY <1>0, <1>3, SendIsStore
  <2>2. /\ Ids \subseteq Ids' /\ \A m \in Ids : stored'[m] = stored[m]
        /\ UNCHANGED <<ref, fetches, shown, list, received, races>>
    BY <1>0, <2>1, StoredRow
  <2> QED BY <1>0, <2>2, PageIdle
<1>4. CASE WsOpen \/ WsClose \/ \E m \in unsent : Publish(m)
  BY <1>0, <1>1, <1>4, WireType
<1>5. CASE \E c \in Chats \cup {NoChat} : Navigate(c)
  BY <1>1, <1>5 DEF Navigate, server
<1>6. CASE \E c \in Chats \cup {NoChat} : Remount(c)
  <2>1. PICK c \in Chats \cup {NoChat} : Remount(c)
    BY <1>6
  <2>2. Mounted'
    BY <2>1 DEF Remount, Mounted
  <2>3. (InOneChat /\ Following /\ Caught /\ Previewed)'
    BY <2>2, PageMounted, PTL
  <2> QED BY <1>0, <2>3 DEF IInv
<1>7. CASE \E c \in Chats : OpenChat(c)
  BY <1>0, <1>7, StepOpenChat DEF IInv
<1>8. CASE RunEffects
  BY <1>0, <1>8, StepRunEffects DEF IInv
<1>9. CASE OnMessage
  BY <1>0, <1>9, StepOnMessage DEF IInv
<1>10. CASE \E i \in 1..Len(fetches) : Answer(i) \/ Resolve(i) \/ Fail(i)
  BY <1>0, <1>10, StepAnswer, StepFail, StepResolveHistory, StepResolveList DEF IInv
<1> QED BY <1>2, <1>3, <1>4, <1>5, <1>6, <1>7, <1>8, <1>9, <1>10 DEF Next

LEMMA IInvHolds == Spec => []IInv
BY InitIInv, StepIInv, PTL DEF Spec

\* No message is shown twice, in whatever order answers and frames come
\* (ChatsPage.tsx:75-78).
THEOREM NoRepeatsHolds == Spec => []NoRepeats
<1>1. IInv => NoRepeats
  BY DEF IInv, InOneChat, NoRepeats
<1> QED BY <1>1, IInvHolds, PTL

\* A user who waits for a history before switching sees messages of the
\* active chat only once it is loaded (ChatsPage.tsx:74, 97-104).
THEOREM OnlyActiveChatHolds == Spec => []OnlyActiveChat
<1>1. IInv => OnlyActiveChat
  BY DEF IInv, Following, OnlyActiveChat, Settled
<1> QED BY <1>1, IInvHolds, PTL

\* What the socket brought for the active chat stays shown, or a page of
\* newer messages is, through every switch that no frame overtakes.
THEOREM ReceivedIsShownHolds == Spec => []ReceivedIsShown
<1>1. IInv => ReceivedIsShown
  BY DEF IInv, Caught, Covers, ReceivedIsShown, Settled
<1> QED BY <1>1, IInvHolds, PTL

\* The previews are as new as what the socket brought once the last list is
\* loaded, if the lists come in order (ChatsPage.tsx:80).
THEOREM PreviewIsFreshHolds == Spec => []PreviewIsFresh
<1>1. IInv => PreviewIsFresh
  BY DEF IInv, Previewed, PreviewIsFresh
<1> QED BY <1>1, IInvHolds, PTL
=============================================================================
