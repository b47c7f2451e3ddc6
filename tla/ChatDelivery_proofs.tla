------------------------- MODULE ChatDelivery_proofs -------------------------
(***************************************************************************)
(* Proofs about ChatDelivery for any users, connections, workers, chats    *)
(* and messages, with handlers that fail, subscribers that die, workers    *)
(* that restart and, where two lookups race, two chats for one pair.       *)
(*                                                                         *)
(* The invariant follows a message from its row through Redis: a handler   *)
(* publishes the message it stored, once, and what a worker has still to   *)
(* forward was published after whatever its connections received.  From it *)
(* follow the orders and the refinement of ChatBroadcast.                  *)
(***************************************************************************)
EXTENDS ChatDelivery, FiniteSetTheorems, TLAPS

\* Rows that are about to be inserted have their place.
Room ==
  /\ Len(chats) + Cardinality(Creating) + Cardinality(RestCreating) <= MaxChats
  /\ Len(messages) + Cardinality(Storing) <= MaxMessages

\* Handlers and messages name chats their user takes part in.
Rows ==
  /\ \A m \in 1..Len(messages) :
       /\ messages[m].chat \in 1..Len(chats)
       /\ messages[m].sender \in chats[messages[m].chat]
  /\ \A c \in Conns :
       /\ ws[c].pc = "create" => ws[c].peers \in Pairs /\ UserOf[c] \in ws[c].peers
       /\ ws[c].pc \in {"persist", "publish"} =>
            ws[c].chat \in 1..Len(chats) /\ UserOf[c] \in chats[ws[c].chat]
       /\ ws[c].pc = "publish" =>
            /\ ws[c].msg \in 1..Len(messages)
            /\ messages[ws[c].msg] = [chat |-> ws[c].chat, sender |-> UserOf[c], conn |-> c]

TypeInv == TypeOK /\ Room /\ Rows

Elements(s) == {s[i] : i \in 1..Len(s)}
Precedes(p, m, n) == \E i, j \in 1..Len(p) : i < j /\ p[i] = m /\ p[j] = n
InOrder(s, p) == \A i, j \in 1..Len(s) : i < j => Precedes(p, s[i], s[j])

\* A message is published once, after those its connection sent before it.
Log ==
  /\ Elements(published) \subseteq 1..Len(messages)
  /\ \A j, k \in 1..Len(published) : published[j] = published[k] => j = k
  /\ \A j, k \in 1..Len(published) :
       messages[published[j]].conn = messages[published[k]].conn
         /\ published[j] < published[k] => j < k
  /\ \A c \in Conns : ws[c].pc = "publish" =>
       /\ ws[c].msg \notin Elements(published)
       /\ \A m \in 1..Len(messages) : messages[m].conn = c => m <= ws[c].msg

\* What waits for a worker was published in that order, after the message
\* being forwarded there and after what the connections there received.
Flow ==
  /\ \A w \in Workers :
       /\ Elements(channel[w]) \subseteq Elements(published)
       /\ InOrder(channel[w], published)
       /\ cur[w].msg = NoId => cur[w].to = {} /\ cur[w].tabs = {}
       /\ cur[w].msg # NoId =>
            /\ cur[w].msg \in Elements(published)
            /\ cur[w].to \subseteq Recipients(cur[w].msg)
            /\ \A c \in cur[w].tabs :
                 /\ WorkerOf[c] = w /\ UserOf[c] \in Recipients(cur[w].msg)
                 /\ UserOf[c] \notin cur[w].to
            /\ \A n \in Elements(channel[w]) : Precedes(published, cur[w].msg, n)
  /\ \A c \in Conns :
       /\ Elements(inbox[c]) \subseteq Elements(published)
       /\ InOrder(inbox[c], published)
       /\ \A m \in Elements(inbox[c]), n \in Elements(channel[WorkerOf[c]]) :
            Precedes(published, m, n)
       /\ cur[WorkerOf[c]].msg # NoId => \A m \in Elements(inbox[c]) :
            \/ Precedes(published, m, cur[WorkerOf[c]].msg)
            \/ m = cur[WorkerOf[c]].msg /\ ~Due(c)

\* What a connection is owed and lacks is on its way to it.
Owed ==
  \A m \in MessageIds : \A c \in owed[m] :
    /\ c \in open /\ sub[WorkerOf[c]] = "up"
    /\ m \in Elements(published) /\ UserOf[c] \in Recipients(m)
    /\ \/ m \in Elements(inbox[c]) \cup Elements(channel[WorkerOf[c]])
       \/ m = cur[WorkerOf[c]].msg /\ Due(c)

\* What a worker has left to forward when connections close.
Fewer(new, old) ==
  \/ new = NoForward
  \/ new.msg = old.msg /\ new.to = old.to /\ new.tabs \subseteq old.tabs

Inv == TypeInv /\ Log /\ Flow /\ Owed
-----------------------------------------------------------------------------
LEMMA Bounds ==
  /\ MaxChats \in Nat /\ MaxMessages \in Nat
  /\ ChatIds = 1..MaxChats /\ MessageIds = 1..MaxMessages /\ NoId = 0
  /\ NoId \notin MessageIds
  /\ UserOf \in [Conns -> Users] /\ WorkerOf \in [Conns -> Workers]
  /\ IsFiniteSet(Conns) /\ IsFiniteSet(RestSlots)
BY BoundsAssumption, PlacementAssumption, FiniteAssumption DEF ChatIds, MessageIds, NoId

\* Two users make a pair, and a pair is not empty.
LEMMA PairOfTwo == \A a, b \in Users : a # b => {a, b} \in Pairs
<1> SUFFICES ASSUME NEW a \in Users, NEW b \in Users, a # b PROVE Cardinality({a, b}) = 2
  BY DEF Pairs
<1>1. IsFiniteSet({a}) /\ Cardinality({a}) = 1
  BY FS_Singleton
<1>2. Cardinality({a} \cup {b}) = 2
  BY <1>1, FS_AddElement
<1> QED BY <1>2

LEMMA PairNotEmpty == {} \notin Pairs
BY FS_EmptySet DEF Pairs

LEMMA OneIsSome == ASSUME NEW S, Cardinality(S) = 1 PROVE \E x \in S : TRUE
<1>1. Cardinality({}) = 0
  BY FS_EmptySet
<1>2. SUFFICES ASSUME S = {} PROVE FALSE
  OBVIOUS
<1>3. Cardinality(S) = Cardinality({})
  BY <1>2
<1> QED BY <1>1, <1>3

LEMMA Counts ==
  /\ IsFiniteSet(Creating) /\ Cardinality(Creating) \in Nat
  /\ IsFiniteSet(RestCreating) /\ Cardinality(RestCreating) \in Nat
  /\ IsFiniteSet(Storing) /\ Cardinality(Storing) \in Nat
<1>1. Creating \in SUBSET Conns /\ Storing \in SUBSET Conns /\ RestCreating \in SUBSET RestSlots
  BY DEF Creating, Storing, RestCreating
<1>2. IsFiniteSet(Creating) /\ IsFiniteSet(Storing) /\ IsFiniteSet(RestCreating)
  BY <1>1, FS_Subset, Bounds
<1> QED BY <1>2, FS_CardinalityType

\* An appended element is the only new one.
LEMMA Appended ==
  ASSUME NEW S, NEW s \in Seq(S), NEW x \in S
  PROVE  /\ Append(s, x) \in Seq(S)
         /\ Len(Append(s, x)) = Len(s) + 1
         /\ Append(s, x)[Len(s) + 1] = x
         /\ \A i \in 1..Len(s) : Append(s, x)[i] = s[i]
OBVIOUS

LEMMA InitType == Init => TypeInv
<1> SUFFICES ASSUME Init PROVE TypeInv
  OBVIOUS
<1> USE Bounds DEF Init
<1>1. TypeOK
  BY DEF TypeOK, IdleWs, IdleRest, NoForward, CurRecord, WsRecord
<1>2. Creating = {} /\ RestCreating = {} /\ Storing = {}
  BY DEF Creating, RestCreating, Storing, IdleWs, IdleRest
<1>3. Room
  BY <1>2, FS_EmptySet DEF Room
<1>4. Rows
  BY DEF Rows, IdleWs
<1> QED BY <1>1, <1>3, <1>4 DEF TypeInv


\* Actions that leave messages, and the handlers of all but c, alone.
LEMMA RoomKept ==
  ASSUME Room, Len(chats') = Len(chats), Len(messages') = Len(messages),
         Creating' \subseteq Creating, RestCreating' \subseteq RestCreating,
         Storing' \subseteq Storing, Len(chats) \in Nat, Len(messages) \in Nat
  PROVE  Room'
<1>1. /\ Cardinality(Creating') <= Cardinality(Creating) /\ Cardinality(Creating') \in Nat
      /\ Cardinality(RestCreating') <= Cardinality(RestCreating) /\ Cardinality(RestCreating') \in Nat
      /\ Cardinality(Storing') <= Cardinality(Storing) /\ Cardinality(Storing') \in Nat
  BY Counts, FS_Subset, FS_CardinalityType
<1> QED BY <1>1, Counts, Bounds DEF Room

\* The finally clause ends handlers.
LEMMA CloseType ==
  ASSUME TypeInv, NEW cs \in SUBSET Conns, Close(cs),
         UNCHANGED <<chats, messages, rest, published>>,
         sub' \in [Workers -> {"starting", "up", "dead"}],
         channel' \in [Workers -> Seq(MessageIds)],
         cur' \in [Workers -> CurRecord]
  PROVE  TypeInv'
<1> USE DEF TypeInv
<1>1. ws' \in [Conns -> WsRecord]
  BY Bounds DEF Close, TypeOK, IdleWs, WsRecord
<1>2. inbox' \in [Conns -> Seq(MessageIds)]
  BY DEF Close, TypeOK
<1>6. TypeOK'
  BY <1>1, <1>2, Bounds DEF Close, TypeOK
<1>3. Creating' \subseteq Creating /\ Storing' \subseteq Storing /\ RestCreating' \subseteq RestCreating
  BY DEF Creating, Storing, RestCreating, Close, TypeOK, IdleWs
<1>4. Room'
  BY <1>3, RoomKept DEF TypeOK
<1>5. Rows'
  BY DEF Rows, Close, TypeOK, IdleWs
<1> QED BY <1>4, <1>5, <1>6

\* Handlers that stay where they are, rows that stay as they are.
LEMMA HandlersKept ==
  ASSUME TypeInv, UNCHANGED <<chats, messages, ws, rest, published>>,
         open' \in SUBSET Conns, owed' \in [MessageIds -> SUBSET Conns],
         inbox' \in [Conns -> Seq(MessageIds)],
         sub' \in [Workers -> {"starting", "up", "dead"}],
         channel' \in [Workers -> Seq(MessageIds)],
         cur' \in [Workers -> CurRecord]
  PROVE  TypeInv'
BY DEF TypeInv, TypeOK, Room, Rows, Creating, RestCreating, Storing

-----------------------------------------------------------------------------
(* Type correctness, one lemma per action of a handler. *)

\* A frame for a chat is accepted: a message will be stored.
LEMMA AcceptType ==
  ASSUME TypeInv, RoomForMessage,
         NEW c \in Conns, ws[c].pc = "idle",
         NEW i \in 1..Len(chats), UserOf[c] \in chats[i],
         ws' = [ws EXCEPT ![c] = [IdleWs EXCEPT !.pc = "persist", !.chat = i]],
         UNCHANGED <<chats, messages, rest, registry, bridge>>
  PROVE  TypeInv'
<1> USE Bounds DEF TypeInv, registry, bridge
<1>0. i \in ChatIds /\ Len(chats) \in Nat /\ Len(messages) \in Nat
  BY DEF TypeOK
<1>1. ws' \in [Conns -> WsRecord]
  BY <1>0 DEF TypeOK, IdleWs, WsRecord
<1>2. TypeOK'
  BY <1>1 DEF TypeOK, registry, bridge
<1>3. /\ Creating' = Creating /\ RestCreating' = RestCreating
      /\ Storing' = Storing \cup {c} /\ c \notin Storing
  BY DEF Creating, Storing, RestCreating, TypeOK, IdleWs
<1>4. Cardinality(Storing') = Cardinality(Storing) + 1
  BY <1>3, Counts, FS_AddElement
<1>5. Room'
  BY <1>0, <1>3, <1>4, Counts DEF Room, RoomForMessage
<1>6. Rows'
  BY DEF Rows, TypeOK, IdleWs
<1> QED BY <1>2, <1>5, <1>6

LEMMA ReceiveForPeerType ==
  ASSUME TypeInv, NEW c \in Conns, NEW b \in Users, ReceiveForPeer(c, b)
  PROVE  TypeInv'
<1> USE Bounds DEF TypeInv, registry, bridge
<1> DEFINE pair == {UserOf[c], b}
           found == Matching(pair)
<1>0. pair \in Pairs /\ Len(chats) \in Nat /\ Len(messages) \in Nat
  BY PairOfTwo DEF ReceiveForPeer, TypeOK
<1>1. CASE /\ found = {} /\ RoomForChat
           /\ ws' = [ws EXCEPT ![c] = [IdleWs EXCEPT !.pc = "create", !.peers = pair]]
           /\ UNCHANGED <<registry, cur>>
  <2>1. ws' \in [Conns -> WsRecord]
    BY <1>0, <1>1 DEF TypeOK, IdleWs, WsRecord
  <2>2. TypeOK'
    BY <1>1, <2>1 DEF TypeOK, registry, bridge, ReceiveForPeer
  <2>3. /\ Creating' = Creating \cup {c} /\ c \notin Creating /\ RestCreating' = RestCreating
        /\ Storing' = Storing \cup {c} /\ c \notin Storing
    BY <1>1 DEF Creating, Storing, RestCreating, TypeOK, IdleWs, ReceiveForPeer
  <2>4. /\ Cardinality(Storing') = Cardinality(Storing) + 1
        /\ Cardinality(Creating') = Cardinality(Creating) + 1
    BY <2>3, Counts, FS_AddElement
  <2>5. Room'
    BY <1>0, <1>1, <2>3, <2>4, Counts DEF Room, RoomForMessage, RoomForChat, ReceiveForPeer
  <2>6. Rows'
    BY <1>0, <1>1 DEF Rows, TypeOK, IdleWs, ReceiveForPeer
  <2> QED BY <2>2, <2>5, <2>6
<1>2. CASE /\ Cardinality(found) = 1
           /\ ws' = [ws EXCEPT ![c] = [IdleWs EXCEPT !.pc = "persist",
                                                     !.chat = CHOOSE i \in found : TRUE]]
           /\ UNCHANGED <<registry, cur>>
  <2> DEFINE i == CHOOSE j \in found : TRUE
  <2>0. Cardinality(found) = 1
    BY <1>2
  <2> HIDE DEF found
  <2>1. \E j \in found : TRUE
    BY <2>0, OneIsSome
  <2>2. i \in found
    BY <2>1
  <2>3. i \in 1..Len(chats) /\ UserOf[c] \in chats[i]
    BY <2>2 DEF found, Matching
  <2> HIDE DEF i
  <2>4. ws' = [ws EXCEPT ![c] = [IdleWs EXCEPT !.pc = "persist", !.chat = i]]
    BY <1>2 DEF i
  <2> QED BY <1>2, <2>3, <2>4, AcceptType DEF ReceiveForPeer
<1>3. CASE Close({c}) /\ cur' = Stale({c})
  <2>1. /\ UNCHANGED <<chats, messages, rest, sub, channel, published>>
        /\ sub \in [Workers -> {"starting", "up", "dead"}]
        /\ channel \in [Workers -> Seq(MessageIds)]
    BY DEF ReceiveForPeer, TypeOK
  <2>2. cur' \in [Workers -> CurRecord]
    <3>1. ASSUME NEW w \in Workers
          PROVE  Left(cur[w].msg, cur[w].to, cur[w].tabs \ {c}) \in CurRecord
      BY DEF Left, NoForward, CurRecord, TypeOK
    <3> QED BY <1>3, <3>1 DEF Stale
  <2> QED BY <1>3, <2>1, <2>2, CloseType
<1> QED BY <1>1, <1>2, <1>3 DEF ReceiveForPeer

LEMMA WsCreateType ==
  ASSUME TypeInv, NEW c \in Conns, WsCreate(c)
  PROVE  TypeInv'
<1> USE Bounds DEF TypeInv, registry, bridge
<1>a. ws[c].peers \in Pairs /\ UserOf[c] \in ws[c].peers
  BY DEF Rows, WsCreate
<1>b. chats \in Seq(Pairs) /\ Len(chats) \in Nat /\ Len(messages) \in Nat
  BY DEF TypeOK
<1>c. messages' = messages
  BY DEF WsCreate
<1>0. /\ ws[c].peers \in Pairs /\ UserOf[c] \in ws[c].peers
      /\ chats \in Seq(Pairs) /\ Len(chats) \in Nat /\ Len(messages) \in Nat
  BY <1>a, <1>b
<1>1. /\ chats' \in Seq(Pairs) /\ Len(chats') = Len(chats) + 1
      /\ chats'[Len(chats) + 1] = ws[c].peers
      /\ \A i \in 1..Len(chats) : chats'[i] = chats[i]
  BY <1>0, Appended DEF WsCreate
<1>2. /\ Creating' = Creating \ {c} /\ c \in Creating
      /\ Storing' = Storing /\ RestCreating' = RestCreating
  BY DEF WsCreate, Creating, Storing, RestCreating, TypeOK, IdleWs
<1>3. Cardinality(Creating') = Cardinality(Creating) - 1 /\ Cardinality(Creating') \in Nat
  BY <1>2, Counts, FS_RemoveElement, FS_CardinalityType
<1>4. Room' /\ Len(chats') <= MaxChats
  BY <1>b, <1>c, <1>1, <1>2, <1>3, Counts DEF Room
<1>5. ws' \in [Conns -> WsRecord]
  <2>1. Len(chats) + 1 \in ChatIds
    BY <1>b, <1>1, <1>4
  <2>2. [IdleWs EXCEPT !.pc = "persist", !.chat = Len(chats) + 1] \in WsRecord
    BY <2>1 DEF IdleWs, WsRecord
  <2>3. ws \in [Conns -> WsRecord]
    BY DEF TypeOK
  <2> QED BY <2>2, <2>3 DEF WsCreate
<1>6. TypeOK'
  BY <1>1, <1>4, <1>5 DEF WsCreate, TypeOK, registry, bridge
<1>7. Rows'
  <2>1. ASSUME NEW m \in 1..Len(messages)
        PROVE  /\ messages[m].chat \in 1..Len(chats')
               /\ messages[m].sender \in chats'[messages[m].chat]
    BY <1>0, <1>1 DEF Rows
  <2>2. ASSUME NEW d \in Conns, d # c
        PROVE  /\ ws'[d] = ws[d]
               /\ ws[d].chat \in 1..Len(chats) =>
                    ws[d].chat \in 1..Len(chats') /\ chats'[ws[d].chat] = chats[ws[d].chat]
    BY <1>0, <1>1, <2>2 DEF WsCreate, TypeOK
  <2>3. /\ ws'[c].pc = "persist" /\ ws'[c].chat = Len(chats) + 1
        /\ ws'[c].chat \in 1..Len(chats') /\ UserOf[c] \in chats'[ws'[c].chat]
    BY <1>0, <1>1 DEF WsCreate, TypeOK, IdleWs
  <2> QED BY <1>c, <2>1, <2>2, <2>3 DEF Rows
<1> QED BY <1>4, <1>6, <1>7

LEMMA PersistType ==
  ASSUME TypeInv, NEW c \in Conns, Persist(c)
  PROVE  TypeInv'
<1> USE Bounds DEF TypeInv, registry, bridge
<1> DEFINE new == [chat |-> ws[c].chat, sender |-> UserOf[c], conn |-> c]
<1>a. ws[c].chat \in 1..Len(chats) /\ UserOf[c] \in chats[ws[c].chat]
  BY DEF Rows, Persist
<1>b. /\ messages \in Seq(MessageRecord) /\ Len(chats) \in Nat /\ Len(messages) \in Nat
      /\ Len(chats) <= MaxChats
  BY DEF TypeOK
<1>c. chats' = chats
  BY DEF Persist
<1>d. new \in MessageRecord
  BY <1>a, <1>b DEF MessageRecord
<1>0. /\ ws[c].chat \in 1..Len(chats) /\ UserOf[c] \in chats[ws[c].chat]
      /\ messages \in Seq(MessageRecord) /\ Len(chats) \in Nat /\ Len(messages) \in Nat
      /\ new \in MessageRecord
  BY <1>a, <1>b, <1>d
<1>1. /\ messages' \in Seq(MessageRecord) /\ Len(messages') = Len(messages) + 1
      /\ messages'[Len(messages) + 1] = new
      /\ \A i \in 1..Len(messages) : messages'[i] = messages[i]
  BY <1>0, Appended DEF Persist
<1>2. /\ Storing' = Storing \ {c} /\ c \in Storing
      /\ Creating' = Creating /\ RestCreating' = RestCreating
  BY DEF Persist, Creating, Storing, RestCreating, TypeOK
<1>3. Cardinality(Storing') = Cardinality(Storing) - 1 /\ Cardinality(Storing') \in Nat
  BY <1>2, Counts, FS_RemoveElement, FS_CardinalityType
<1>4. Room' /\ Len(messages') <= MaxMessages
  BY <1>b, <1>c, <1>1, <1>2, <1>3, Counts DEF Room
<1>5. ws' \in [Conns -> WsRecord]
  <2>1. Len(messages) + 1 \in MessageIds
    BY <1>b, <1>1, <1>4
  <2>3. ws \in [Conns -> WsRecord]
    BY DEF TypeOK
  <2>2. ASSUME NEW r \in WsRecord, NEW m \in MessageIds
        PROVE  [r EXCEPT !.pc = "publish", !.msg = m] \in WsRecord
    BY DEF WsRecord
  <2>4. ws' = [ws EXCEPT ![c] = [ws[c] EXCEPT !.pc = "publish", !.msg = Len(messages) + 1]]
    BY <2>3 DEF Persist, WsRecord
  <2>5. [ws[c] EXCEPT !.pc = "publish", !.msg = Len(messages) + 1] \in WsRecord
    BY <2>1, <2>2, <2>3
  <2> QED BY <2>3, <2>4, <2>5
<1>6. TypeOK'
  BY <1>1, <1>4, <1>5 DEF Persist, TypeOK, registry, bridge
<1>7. Rows'
  <2>1. ASSUME NEW m \in 1..Len(messages')
        PROVE  messages[m]'.chat \in 1..Len(chats) /\ messages[m]'.sender \in chats[messages[m]'.chat]
    <3>1. CASE m \in 1..Len(messages)
      BY <1>1, <3>1 DEF Rows
    <3>2. CASE m = Len(messages) + 1
      BY <1>a, <1>1, <3>2
    <3> QED BY <1>b, <1>1, <3>1, <3>2
  <2>2. ASSUME NEW d \in Conns
        PROVE  /\ ws'[d].pc = "create" => ws'[d].peers \in Pairs /\ UserOf[d] \in ws'[d].peers
               /\ ws'[d].pc \in {"persist", "publish"} =>
                    ws'[d].chat \in 1..Len(chats) /\ UserOf[d] \in chats[ws'[d].chat]
               /\ ws'[d].pc = "publish" =>
                    /\ ws'[d].msg \in 1..Len(messages')
                    /\ messages'[ws'[d].msg]
                         = [chat |-> ws'[d].chat, sender |-> UserOf[d], conn |-> d]
    <3>0. ws \in [Conns -> WsRecord]
      BY DEF TypeOK
    <3>1. CASE d = c
      <4>1. /\ ws'[d].pc = "publish" /\ ws'[d].chat = ws[c].chat
            /\ ws'[d].msg = Len(messages) + 1
        BY <3>0, <3>1 DEF Persist, WsRecord
      <4> QED BY <3>1, <4>1, <1>a, <1>b, <1>1
    <3>2. CASE d # c
      <4>1. ws'[d] = ws[d]
        BY <3>0, <3>2 DEF Persist
      <4> QED BY <4>1, <1>b, <1>1 DEF Rows
    <3> QED BY <3>1, <3>2
  <2> QED BY <2>1, <2>2, <1>c DEF Rows
<1> QED BY <1>4, <1>6, <1>7

LEMMA PublishType ==
  ASSUME TypeInv, NEW c \in Conns, Publish(c)
  PROVE  TypeInv'
<1> USE Bounds DEF TypeInv, registry, bridge
<1>0. ws[c].msg \in MessageIds
  <2>1. ws[c].msg \in 1..Len(messages)
    BY DEF Rows, Publish
  <2>2. Len(messages) \in Nat /\ Len(messages) <= MaxMessages
    BY DEF TypeOK
  <2> QED BY <2>1, <2>2
<1>1. ws' \in [Conns -> WsRecord]
  BY DEF Publish, TypeOK, IdleWs, WsRecord
<1>2. channel' \in [Workers -> Seq(MessageIds)] /\ published' \in Seq(MessageIds)
  BY <1>0, Appended DEF Publish, TypeOK
<1>3. TypeOK'
  BY <1>1, <1>2 DEF Publish, TypeOK
<1>4. Creating' \subseteq Creating /\ Storing' \subseteq Storing /\ RestCreating' \subseteq RestCreating
  BY DEF Creating, Storing, RestCreating, Publish, TypeOK, IdleWs
<1>5. Room'
  BY <1>4, RoomKept DEF TypeOK, Publish
<1>6. Rows'
  BY DEF Rows, Publish, TypeOK, IdleWs
<1> QED BY <1>3, <1>5, <1>6

LEMMA RestType ==
  ASSUME TypeInv, NEW s \in RestSlots,
         (\E a, b \in Users : RestLookup(s, a, b)) \/ RestCreate(s)
  PROVE  TypeInv'
<1> USE Bounds DEF TypeInv, registry, bridge
<1>0. Len(chats) \in Nat /\ Len(messages) \in Nat
  BY DEF TypeOK
<1>1. ASSUME NEW a \in Users, NEW b \in Users, RestLookup(s, a, b) PROVE TypeInv'
  <2>1. {a, b} \in Pairs /\ {a, b} # {}
    BY <1>1, PairOfTwo DEF RestLookup
  <2>2. TypeOK'
    BY <1>1, <2>1 DEF RestLookup, TypeOK, registry, bridge
  <2>3. /\ RestCreating' = RestCreating \cup {s} /\ s \notin RestCreating
        /\ Creating' = Creating /\ Storing' = Storing
    <3>1. /\ rest[s] = {} /\ rest' = [rest EXCEPT ![s] = {a, b}] /\ ws' = ws
          /\ rest \in [RestSlots -> Pairs \cup {{}}]
      BY <1>1 DEF RestLookup, TypeOK, IdleRest
    <3>2. /\ rest'[s] # {}
          /\ \A t \in RestSlots \ {s} : rest'[t] = rest[t]
      BY <2>1, <3>1
    <3> QED BY <3>1, <3>2 DEF RestCreating, Creating, Storing, IdleRest
  <2>4. Cardinality(RestCreating') = Cardinality(RestCreating) + 1
    BY <2>3, Counts, FS_AddElement
  <2>5. Room'
    BY <1>0, <1>1, <2>3, <2>4, Counts DEF RestLookup, Room, RoomForChat
  <2>6. Rows'
    BY <1>1 DEF RestLookup, Rows
  <2> QED BY <2>2, <2>5, <2>6
<1>2. CASE RestCreate(s)
  <2>0. rest[s] \in Pairs
    BY <1>2 DEF RestCreate, TypeOK
  <2>1. /\ chats' \in Seq(Pairs) /\ Len(chats') = Len(chats) + 1
        /\ \A i \in 1..Len(chats) : chats'[i] = chats[i]
    BY <1>2, <2>0, Appended DEF RestCreate, TypeOK
  <2>2. /\ RestCreating' = RestCreating \ {s} /\ s \in RestCreating
        /\ Creating' = Creating /\ Storing' = Storing
    BY <1>2 DEF RestCreate, RestCreating, Creating, Storing, TypeOK, IdleRest
  <2>3. /\ Cardinality(RestCreating') = Cardinality(RestCreating) - 1
        /\ Cardinality(RestCreating') \in Nat
    BY <2>2, Counts, FS_RemoveElement, FS_CardinalityType
  <2>m. messages' = messages
    BY <1>2 DEF RestCreate
  <2>4. Room' /\ Len(chats') <= MaxChats
    BY <1>0, <2>m, <2>1, <2>2, <2>3, Counts DEF Room
  <2>5. TypeOK'
    BY <1>2, <2>1, <2>4 DEF RestCreate, TypeOK, registry, bridge
  <2>6. Rows'
    BY <1>2, <2>1, <1>0 DEF RestCreate, Rows, TypeOK
  <2> QED BY <2>4, <2>5, <2>6
<1> QED BY <1>1, <1>2
-----------------------------------------------------------------------------
(* Sequences and the orders they show. *)

LEMMA ElementsAppend ==
  ASSUME NEW S, NEW s \in Seq(S), NEW x \in S
  PROVE  Elements(Append(s, x)) = Elements(s) \cup {x}
<1>1. \A i \in 1..Len(s) : Append(s, x)[i] = s[i] /\ i \in 1..Len(Append(s, x))
  OBVIOUS
<1>2. Append(s, x)[Len(s) + 1] = x /\ Len(s) + 1 \in 1..Len(Append(s, x))
  OBVIOUS
<1>3. \A i \in 1..Len(Append(s, x)) : i \in 1..Len(s) \/ i = Len(s) + 1
  OBVIOUS
<1> QED BY <1>1, <1>2, <1>3 DEF Elements

LEMMA ElementsHead ==
  ASSUME NEW S, NEW s \in Seq(S), s # <<>>
  PROVE  /\ Elements(s) = {Head(s)} \cup Elements(Tail(s))
         /\ Head(s) \in S /\ Tail(s) \in Seq(S)
<1>1. /\ Len(s) \in Nat \ {0} /\ Len(Tail(s)) = Len(s) - 1 /\ Head(s) = s[1]
      /\ \A i \in 1..Len(Tail(s)) : Tail(s)[i] = s[i + 1]
      /\ Tail(s) \in Seq(S) /\ Head(s) \in S
  OBVIOUS
<1>2. \A i \in 1..Len(s) : i = 1 \/ (i - 1 \in 1..Len(Tail(s)) /\ s[i] = Tail(s)[i - 1])
  BY <1>1
<1>3. \A i \in 1..Len(Tail(s)) : i + 1 \in 1..Len(s)
  BY <1>1
<1>4. 1 \in 1..Len(s)
  BY <1>1
<1>5. Elements(s) \subseteq {Head(s)} \cup Elements(Tail(s))
  BY <1>1, <1>2 DEF Elements
<1>6. {Head(s)} \cup Elements(Tail(s)) \subseteq Elements(s)
  BY <1>1, <1>3, <1>4 DEF Elements
<1> QED BY <1>1, <1>5, <1>6

LEMMA ElementsEmpty == Elements(<<>>) = {}
BY DEF Elements

LEMMA ElementsType ==
  ASSUME NEW S, NEW s \in Seq(S)
  PROVE  Elements(s) \subseteq S
BY DEF Elements

LEMMA PrecedesGrows ==
  ASSUME NEW S, NEW p \in Seq(S), NEW x \in S
  PROVE  /\ \A m, n : Precedes(p, m, n) => Precedes(Append(p, x), m, n)
         /\ \A m \in Elements(p) : Precedes(Append(p, x), m, x)
         /\ \A s : InOrder(s, p) => InOrder(s, Append(p, x))
<1>1. /\ \A i \in 1..Len(p) : Append(p, x)[i] = p[i] /\ i \in 1..Len(Append(p, x)) /\ i < Len(p) + 1
      /\ Append(p, x)[Len(p) + 1] = x /\ Len(p) + 1 \in 1..Len(Append(p, x))
  OBVIOUS
<1>2. \A m, n : Precedes(p, m, n) => Precedes(Append(p, x), m, n)
  BY <1>1 DEF Precedes
<1>3. \A m \in Elements(p) : Precedes(Append(p, x), m, x)
  BY <1>1 DEF Precedes, Elements
<1> QED BY <1>2, <1>3 DEF InOrder

LEMMA InOrderAppend ==
  ASSUME NEW S, NEW s \in Seq(S), NEW x \in S, NEW p, InOrder(s, p),
         \A m \in Elements(s) : Precedes(p, m, x)
  PROVE  InOrder(Append(s, x), p)
<1>1. /\ \A i \in 1..Len(s) : Append(s, x)[i] = s[i] /\ s[i] \in Elements(s)
      /\ Append(s, x)[Len(s) + 1] = x
      /\ \A i, j \in 1..Len(Append(s, x)) :
           i < j => i \in 1..Len(s) /\ (j \in 1..Len(s) \/ j = Len(s) + 1)
  BY DEF Elements
<1> QED BY <1>1 DEF InOrder

LEMMA InOrderTail ==
  ASSUME NEW S, NEW s \in Seq(S), s # <<>>, NEW p, InOrder(s, p)
  PROVE  /\ InOrder(Tail(s), p)
         /\ \A n \in Elements(Tail(s)) : Precedes(p, Head(s), n)
<1>1. /\ Head(s) = s[1] /\ 1 \in 1..Len(s)
      /\ \A i \in 1..Len(Tail(s)) : Tail(s)[i] = s[i + 1] /\ i + 1 \in 1..Len(s) /\ 1 < i + 1
      /\ \A i, j \in 1..Len(Tail(s)) : i < j => i + 1 < j + 1
  OBVIOUS
<1> QED BY <1>1 DEF InOrder, Elements
-----------------------------------------------------------------------------
(* One lemma per action that moves a message. *)

LEMMA InitInv == Init => Inv
<1> SUFFICES ASSUME Init PROVE Inv
  OBVIOUS
<1>1. TypeInv
  BY InitType
<1>2. Len(published) = 0 /\ Elements(published) = {}
  BY ElementsEmpty DEF Init
<1>3. Log
  BY <1>2 DEF Log, Init, IdleWs
<1>4. Flow
  BY <1>2, ElementsEmpty, Bounds DEF Flow, Init, NoForward, InOrder
<1>5. Owed
  BY DEF Owed, Init
<1> QED BY <1>1, <1>3, <1>4, <1>5 DEF Inv

\* Facts about types that the lemmas below use.
LEMMA Kinds ==
  ASSUME TypeInv
  PROVE  /\ published \in Seq(MessageIds)
         /\ messages \in Seq(MessageRecord) /\ Len(messages) \in Nat /\ Len(chats) \in Nat
         /\ channel \in [Workers -> Seq(MessageIds)]
         /\ inbox \in [Conns -> Seq(MessageIds)]
         /\ ws \in [Conns -> WsRecord]
         /\ cur \in [Workers -> CurRecord]
         /\ owed \in [MessageIds -> SUBSET Conns]
         /\ 1..Len(messages) \subseteq MessageIds
BY Bounds DEF TypeInv, TypeOK

\* A stored message keeps its row, and its chat keeps its participants.
LEMMA RowsStay ==
  ASSUME TypeInv, \A i \in 1..Len(chats) : chats'[i] = chats[i],
         \A m \in 1..Len(messages) : messages'[m] = messages[m]
  PROVE  \A m \in 1..Len(messages) :
           /\ messages'[m].conn = messages[m].conn
           /\ chats'[messages'[m].chat] = chats[messages[m].chat]
BY DEF TypeInv, Rows

\* No message is published, taken or forwarded.
LEMMA FlowKept ==
  ASSUME Inv, UNCHANGED published,
         \A c \in Conns : inbox'[c] = inbox[c] \/ inbox'[c] = <<>>,
         \A i \in 1..Len(chats) : chats'[i] = chats[i],
         \A m \in 1..Len(messages) : messages'[m] = messages[m],
         \A w \in Workers : channel'[w] = channel[w] \/ channel'[w] = <<>>,
         \A w \in Workers : Fewer(cur'[w], cur[w])
  PROVE  Flow'
<1>1. \A m \in Elements(published) : chats'[messages'[m].chat] = Recipients(m)
  BY RowsStay DEF Inv, Log, Recipients
<1>2. ASSUME NEW w \in Workers
      PROVE  /\ Elements(channel'[w]) \subseteq Elements(published)
             /\ InOrder(channel'[w], published)
             /\ Elements(channel'[w]) \subseteq Elements(channel[w])
  BY ElementsEmpty DEF Inv, Flow, InOrder
<1>f. ASSUME NEW w \in Workers
      PROVE  /\ cur'[w].msg = NoId => cur'[w].to = {} /\ cur'[w].tabs = {}
             /\ cur'[w].msg # NoId =>
                  /\ cur'[w].msg = cur[w].msg /\ cur'[w].to = cur[w].to
                  /\ cur'[w].tabs \subseteq cur[w].tabs
  BY DEF Inv, Flow, Fewer, NoForward
<1>3. ASSUME NEW w \in Workers
      PROVE  cur'[w].msg # NoId =>
            /\ cur'[w].msg \in Elements(published)
            /\ cur'[w].to \subseteq chats'[messages'[cur'[w].msg].chat]
            /\ \A c \in cur'[w].tabs :
                 /\ WorkerOf[c] = w /\ UserOf[c] \in chats'[messages'[cur'[w].msg].chat]
                 /\ UserOf[c] \notin cur'[w].to
            /\ \A n \in Elements(channel'[w]) : Precedes(published, cur'[w].msg, n)
  <2>1. SUFFICES ASSUME cur'[w].msg # NoId
                 PROVE  /\ cur[w].msg \in Elements(published)
                        /\ cur[w].to \subseteq chats'[messages'[cur[w].msg].chat]
                        /\ \A c \in cur[w].tabs :
                             /\ WorkerOf[c] = w
                             /\ UserOf[c] \in chats'[messages'[cur[w].msg].chat]
                             /\ UserOf[c] \notin cur[w].to
                        /\ \A n \in Elements(channel'[w]) : Precedes(published, cur[w].msg, n)
    BY <1>f
  <2>2. cur[w].msg # NoId
    BY <1>f, <2>1
  <2>3. chats'[messages'[cur[w].msg].chat] = Recipients(cur[w].msg)
    BY <1>1, <2>2 DEF Inv, Flow, Recipients
  <2> QED BY <1>2, <2>2, <2>3 DEF Inv, Flow
<1>4. ASSUME NEW c \in Conns
      PROVE /\ Elements(inbox'[c]) \subseteq Elements(published)
            /\ InOrder(inbox'[c], published)
            /\ \A m \in Elements(inbox'[c]), n \in Elements(channel'[WorkerOf[c]]) :
                 Precedes(published, m, n)
            /\ cur'[WorkerOf[c]].msg # NoId => \A m \in Elements(inbox'[c]) :
                 \/ Precedes(published, m, cur'[WorkerOf[c]].msg)
                 \/ m = cur'[WorkerOf[c]].msg /\ ~Due(c)'
  <2> DEFINE w == WorkerOf[c]
  <2>1. w \in Workers
    BY Bounds
  <2>2. /\ Elements(channel'[w]) \subseteq Elements(channel[w])
        /\ cur'[w].msg # NoId => cur'[w].msg = cur[w].msg /\ (Due(c)' => Due(c))
    BY <1>2, <1>f, <2>1 DEF Due
  <2>3. /\ Elements(inbox[c]) \subseteq Elements(published)
        /\ InOrder(inbox[c], published)
        /\ \A m \in Elements(inbox[c]), n \in Elements(channel[w]) : Precedes(published, m, n)
        /\ cur[w].msg # NoId => \A m \in Elements(inbox[c]) :
             \/ Precedes(published, m, cur[w].msg)
             \/ m = cur[w].msg /\ ~Due(c)
    BY DEF Inv, Flow
  <2> HIDE DEF w
  <2>6. Elements(inbox'[c]) \subseteq Elements(inbox[c]) /\ InOrder(inbox'[c], published)
    BY <2>3, ElementsEmpty DEF InOrder
  <2>4. \A m \in Elements(inbox'[c]), n \in Elements(channel'[w]) : Precedes(published, m, n)
    BY <2>2, <2>3, <2>6
  <2>5. cur'[w].msg # NoId => \A m \in Elements(inbox'[c]) :
             \/ Precedes(published, m, cur'[w].msg)
             \/ m = cur'[w].msg /\ ~Due(c)'
    BY <2>2, <2>3, <2>6
  <2> QED BY <2>3, <2>4, <2>5, <2>6 DEF w
<1> QED BY <1>2, <1>3, <1>4, <1>f DEF Flow, Recipients

\* No message is stored or published.
LEMMA LogKept ==
  ASSUME Inv, UNCHANGED <<published, messages>>,
         \A c \in Conns : ws'[c].pc = "publish" => ws'[c] = ws[c]
  PROVE  Log'
BY DEF Inv, Log

\* Nothing moves towards a connection that is still owed a message.
LEMMA OwedKept ==
  ASSUME Inv, UNCHANGED published,
         \A i \in 1..Len(chats) : chats'[i] = chats[i],
         \A m \in 1..Len(messages) : messages'[m] = messages[m],
         \A m \in MessageIds : \A c \in owed'[m] :
           /\ c \in owed[m] /\ c \in open' /\ sub'[WorkerOf[c]] = "up" /\ inbox'[c] = inbox[c]
           /\ channel'[WorkerOf[c]] = channel[WorkerOf[c]]
           /\ Due(c) => Due(c)' /\ cur'[WorkerOf[c]].msg = cur[WorkerOf[c]].msg
  PROVE  Owed'
<1>1. \A m \in Elements(published) : Recipients(m)' = Recipients(m)
  BY RowsStay DEF Inv, Log, Recipients
<1> QED BY <1>1 DEF Inv, Owed

LEMMA PersistInv ==
  ASSUME Inv, NEW c \in Conns, Persist(c), TypeInv'
  PROVE  Log' /\ Flow' /\ Owed'
<1>0. TypeInv /\ Log
  BY DEF Inv
<1>1. /\ Len(messages') = Len(messages) + 1 /\ Len(messages) \in Nat
      /\ messages'[Len(messages) + 1].conn = c
      /\ \A m \in 1..Len(messages) : messages'[m] = messages[m]
  BY <1>0, Kinds, Appended, Bounds DEF Persist
<1>2. UNCHANGED <<chats, channel, cur, published, inbox, owed, open, sub>>
  BY DEF Persist, registry, bridge
<1>a. \A d : Due(d)' = Due(d)
  BY <1>2 DEF Due
<1>b. Flow'
  BY <1>1, <1>2, FlowKept DEF Fewer
<1>c. \A m \in MessageIds : \A d \in owed[m] : d \in open /\ sub[WorkerOf[d]] = "up"
  BY DEF Inv, Owed
<1>3. Flow' /\ Owed'
  BY <1>1, <1>2, <1>a, <1>b, <1>c, OwedKept
<1>4. Elements(published) \subseteq 1..Len(messages)
  BY <1>0 DEF Log
<1>5. \A k \in 1..Len(published) : messages'[published[k]] = messages[published[k]]
  BY <1>1, <1>4 DEF Elements
<1>6. ASSUME NEW d \in Conns, ws'[d].pc = "publish"
      PROVE  /\ ws'[d].msg \notin Elements(published)
             /\ \A m \in 1..Len(messages') : messages'[m].conn = d => m <= ws'[d].msg
  <2>0. ws \in [Conns -> WsRecord]
    BY <1>0, Kinds
  <2>1. CASE d = c
    <3>1. ws'[d].msg = Len(messages) + 1
      BY <2>0, <2>1 DEF Persist, WsRecord
    <3> QED BY <1>1, <1>4, <3>1
  <2>2. CASE d # c
    <3>1. ws'[d] = ws[d]
      BY <2>0, <2>2 DEF Persist
    <3>2. /\ ws[d].msg \notin Elements(published)
          /\ \A m \in 1..Len(messages) : messages[m].conn = d => m <= ws[d].msg
      BY <1>0, <1>6, <3>1 DEF Log
    <3>3. \A m \in 1..Len(messages') : m \in 1..Len(messages) \/ m = Len(messages) + 1
      BY <1>1
    <3> QED BY <1>1, <2>2, <3>1, <3>2, <3>3
  <2> QED BY <2>1, <2>2
<1>7. Log'
  BY <1>0, <1>1, <1>2, <1>4, <1>5, <1>6 DEF Log
<1> QED BY <1>3, <1>7

LEMMA PublishInv ==
  ASSUME Inv, NEW c \in Conns, Publish(c)
  PROVE  Log' /\ Flow' /\ Owed'
<1> DEFINE m == ws[c].msg
<1>0. /\ TypeInv /\ Log /\ Flow /\ Owed
      /\ UNCHANGED <<chats, messages, open, inbox, sub, cur>>
      /\ published' = Append(published, m)
      /\ \A n : Recipients(n)' = Recipients(n)
      /\ \A d \in Conns : Due(d)' = Due(d)
  BY DEF Inv, Publish, Recipients, Due
<1>1. /\ m \in 1..Len(messages) /\ m \in MessageIds /\ m \notin Elements(published)
      /\ messages[m] = [chat |-> ws[c].chat, sender |-> UserOf[c], conn |-> c]
      /\ \A n \in 1..Len(messages) : messages[n].conn = c => n <= m
  BY <1>0, Kinds DEF TypeInv, Rows, Log, Publish
<1>2. /\ published' \in Seq(MessageIds) /\ Len(published') = Len(published) + 1
      /\ published'[Len(published) + 1] = m /\ Len(published) \in Nat
      /\ \A k \in 1..Len(published) : published'[k] = published[k]
      /\ Elements(published') = Elements(published) \cup {m}
  BY <1>0, <1>1, Kinds, Appended, ElementsAppend
<1>3. /\ \A x, y : Precedes(published, x, y) => Precedes(published', x, y)
      /\ \A x \in Elements(published) : Precedes(published', x, m)
      /\ \A s : InOrder(s, published) => InOrder(s, published')
  BY <1>0, <1>1, Kinds, PrecedesGrows
<1> HIDE DEF m
<1>4. Log'
  <2>1. \A k \in 1..Len(published) : published[k] \in Elements(published) /\ published[k] \in 1..Len(messages)
    BY <1>0 DEF Log, Elements
  <2>2. \A k \in 1..Len(published') : k \in 1..Len(published) \/ k = Len(published) + 1
    BY <1>2
  <2>3. \A j, k \in 1..Len(published') : published'[j] = published'[k] => j = k
    BY <1>0, <1>1, <1>2, <2>1, <2>2 DEF Log
  <2>4. ASSUME NEW j \in 1..Len(published'), NEW k \in 1..Len(published'),
               messages[published'[j]].conn = messages[published'[k]].conn,
               published'[j] < published'[k]
        PROVE  j < k
    <3>1. CASE j \in 1..Len(published) /\ k \in 1..Len(published)
      BY <1>0, <1>2, <2>4, <3>1 DEF Log
    <3>2. CASE j \in 1..Len(published) /\ k = Len(published) + 1
      BY <1>2, <3>2
    <3>3. CASE j = Len(published) + 1
      <4>1. CASE k = Len(published) + 1
        BY <1>1, <1>2, <2>4, <3>3, <4>1
      <4>2. CASE k \in 1..Len(published)
        <5>1. published'[k] = published[k] /\ published'[j] = m
          BY <1>2, <3>3, <4>2
        <5>2. messages[published[k]].conn = c /\ published[k] \in 1..Len(messages)
          BY <1>1, <2>1, <2>4, <4>2, <5>1
        <5> QED BY <1>1, <2>4, <5>1, <5>2
      <4> QED BY <2>2, <4>1, <4>2
    <3> QED BY <2>2, <3>1, <3>2, <3>3
  <2>5. ASSUME NEW d \in Conns, ws'[d].pc = "publish"
        PROVE  /\ ws'[d].msg \notin Elements(published')
               /\ \A n \in 1..Len(messages) : messages[n].conn = d => n <= ws'[d].msg
    <3>1. d # c /\ ws'[d] = ws[d]
      BY <1>0, <2>5, Kinds DEF Publish, IdleWs
    <3>2. messages[ws[d].msg] = [chat |-> ws[d].chat, sender |-> UserOf[d], conn |-> d]
      BY <1>0, <2>5, <3>1 DEF TypeInv, Rows
    <3> QED BY <1>0, <1>1, <1>2, <2>5, <3>1, <3>2 DEF Log
  <2> QED BY <1>0, <1>1, <1>2, <2>3, <2>4, <2>5 DEF Log
<1>5. ASSUME NEW w \in Workers
      PROVE  /\ Elements(channel'[w]) \subseteq Elements(channel[w]) \cup {m}
             /\ Elements(channel[w]) \subseteq Elements(channel'[w])
             /\ InOrder(channel'[w], published')
             /\ sub[w] = "up" => m \in Elements(channel'[w])
  <2>0. InOrder(channel[w], published') /\ channel[w] \in Seq(MessageIds)
    BY <1>0, <1>3, Kinds DEF Flow
  <2>1. CASE sub[w] = "up"
    <3>1. channel'[w] = Append(channel[w], m)
      BY <2>1 DEF Publish, m
    <3>2. \A n \in Elements(channel[w]) : Precedes(published', n, m)
      BY <1>0, <1>3 DEF Flow
    <3> QED BY <1>1, <2>0, <3>1, <3>2, ElementsAppend, InOrderAppend
  <2>2. CASE sub[w] # "up"
    <3>1. channel'[w] = channel[w]
      BY <2>2 DEF Publish
    <3> QED BY <2>0, <2>2, <3>1
  <2> QED BY <2>1, <2>2
<1>6. Flow'
  <2>1. ASSUME NEW w \in Workers
        PROVE  /\ Elements(channel'[w]) \subseteq Elements(published')
               /\ InOrder(channel'[w], published')
               /\ cur[w].msg = NoId => cur[w].to = {} /\ cur[w].tabs = {}
               /\ cur[w].msg # NoId =>
                    /\ cur[w].msg \in Elements(published')
                    /\ cur[w].to \subseteq Recipients(cur[w].msg)
                    /\ \A d \in cur[w].tabs :
                         /\ WorkerOf[d] = w /\ UserOf[d] \in Recipients(cur[w].msg)
                         /\ UserOf[d] \notin cur[w].to
                    /\ \A n \in Elements(channel'[w]) : Precedes(published', cur[w].msg, n)
    <3>1. /\ Elements(channel[w]) \subseteq Elements(published)
          /\ cur[w].msg = NoId => cur[w].to = {} /\ cur[w].tabs = {}
          /\ cur[w].msg # NoId =>
               /\ cur[w].msg \in Elements(published)
               /\ cur[w].to \subseteq Recipients(cur[w].msg)
               /\ \A d \in cur[w].tabs :
                    /\ WorkerOf[d] = w /\ UserOf[d] \in Recipients(cur[w].msg)
                    /\ UserOf[d] \notin cur[w].to
               /\ \A n \in Elements(channel[w]) : Precedes(published, cur[w].msg, n)
      BY <1>0 DEF Flow
    <3>2. Elements(channel'[w]) \subseteq Elements(published')
      BY <1>2, <1>5, <3>1
    <3>3. cur[w].msg # NoId =>
            /\ cur[w].msg \in Elements(published')
            /\ \A n \in Elements(channel'[w]) : Precedes(published', cur[w].msg, n)
      BY <1>2, <1>3, <1>5, <3>1
    <3> QED BY <1>5, <3>1, <3>2, <3>3
  <2>2. ASSUME NEW d \in Conns
        PROVE  /\ Elements(inbox[d]) \subseteq Elements(published')
               /\ InOrder(inbox[d], published')
               /\ \A x \in Elements(inbox[d]), n \in Elements(channel'[WorkerOf[d]]) :
                    Precedes(published', x, n)
               /\ cur[WorkerOf[d]].msg # NoId => \A x \in Elements(inbox[d]) :
                    \/ Precedes(published', x, cur[WorkerOf[d]].msg)
                    \/ x = cur[WorkerOf[d]].msg /\ ~Due(d)
    <3> DEFINE w == WorkerOf[d]
    <3>1. w \in Workers
      BY Bounds
    <3>2. /\ Elements(inbox[d]) \subseteq Elements(published)
          /\ InOrder(inbox[d], published)
          /\ \A x \in Elements(inbox[d]), n \in Elements(channel[w]) : Precedes(published, x, n)
          /\ cur[w].msg # NoId => \A x \in Elements(inbox[d]) :
               \/ Precedes(published, x, cur[w].msg)
               \/ x = cur[w].msg /\ ~Due(d)
      BY <1>0 DEF Flow
    <3> HIDE DEF w
    <3>3. Elements(channel'[w]) \subseteq Elements(channel[w]) \cup {m}
      BY <1>5, <3>1
    <3>4. \A x \in Elements(inbox[d]), n \in Elements(channel'[w]) : Precedes(published', x, n)
      BY <1>3, <3>2, <3>3
    <3>5. InOrder(inbox[d], published') /\ Elements(inbox[d]) \subseteq Elements(published')
      BY <1>2, <1>3, <3>2
    <3>6. cur[w].msg # NoId => \A x \in Elements(inbox[d]) :
               \/ Precedes(published', x, cur[w].msg)
               \/ x = cur[w].msg /\ ~Due(d)
      BY <1>3, <3>2
    <3> QED BY <3>4, <3>5, <3>6 DEF w
  <2> QED BY <1>0, <2>1, <2>2 DEF Flow
<1>7. Owed'
  <2>1. ASSUME NEW n \in MessageIds, NEW d \in owed'[n]
        PROVE  /\ d \in open /\ sub[WorkerOf[d]] = "up"
               /\ n \in Elements(published') /\ UserOf[d] \in Recipients(n)
               /\ \/ n \in Elements(inbox[d]) \cup Elements(channel'[WorkerOf[d]])
                  \/ n = cur[WorkerOf[d]].msg /\ Due(d)
    <3>0. open \subseteq Conns /\ owed \in [MessageIds -> SUBSET Conns]
      BY <1>0 DEF TypeInv, TypeOK
    <3>1. CASE n = m
      <4>1. d \in open \cap Participants(c) /\ sub[WorkerOf[d]] = "up"
        BY <1>1, <3>0, <3>1 DEF Publish, m
      <4>2. UserOf[d] \in Recipients(m)
        BY <1>1, <4>1 DEF Participants, Recipients
      <4>3. WorkerOf[d] \in Workers
        BY <3>0, <4>1, Bounds
      <4> QED BY <1>2, <1>5, <3>1, <4>1, <4>2, <4>3
    <3>2. CASE n # m
      <4>1. d \in owed[n]
        BY <3>0, <3>2 DEF Publish, m
      <4>2. WorkerOf[d] \in Workers
        BY <3>0, <4>1, Bounds
      <4> QED BY <1>0, <1>2, <1>5, <4>1, <4>2 DEF Owed
    <3> QED BY <3>1, <3>2
  <2>2. \A n \in MessageIds : \A d \in owed'[n] : d \in Conns
    BY <1>0, <2>1 DEF TypeInv, TypeOK
  <2> QED BY <1>0, <2>1, <2>2 DEF Owed
<1> QED BY <1>4, <1>6, <1>7

LEMMA TakeInv ==
  ASSUME Inv, NEW w \in Workers, Take(w)
  PROVE  TypeInv' /\ Log' /\ Flow' /\ Owed'
<1> DEFINE m == Head(channel[w])
<1>0. /\ TypeInv /\ Log /\ Flow /\ Owed
      /\ UNCHANGED <<chats, messages, ws, rest, open, inbox, owed, sub, published>>
      /\ \A n : Recipients(n)' = Recipients(n)
  BY DEF Inv, Take, registry, Recipients
<1>1. /\ channel[w] # <<>> /\ channel[w] \in Seq(MessageIds)
      /\ channel' = [channel EXCEPT ![w] = Tail(channel[w])]
      /\ cur[w] = NoForward
      /\ cur' = [cur EXCEPT ![w] = [msg |-> m, to |-> Recipients(m), tabs |-> {}]]
      /\ channel \in [Workers -> Seq(MessageIds)]
      /\ cur \in [Workers -> CurRecord]
  BY <1>0, Kinds DEF Take
<1>2. /\ m \in MessageIds /\ Tail(channel[w]) \in Seq(MessageIds)
      /\ Elements(channel[w]) = {m} \cup Elements(Tail(channel[w]))
      /\ InOrder(Tail(channel[w]), published)
      /\ \A n \in Elements(Tail(channel[w])) : Precedes(published, m, n)
  BY <1>0, <1>1, ElementsHead, InOrderTail DEF Flow
<1>3. m \in Elements(published) /\ m \in 1..Len(messages)
  BY <1>0, <1>2 DEF Flow, Log
<1>4. Recipients(m) \in SUBSET Users
  <2>1. messages[m].chat \in 1..Len(chats)
    BY <1>0, <1>3 DEF TypeInv, Rows
  <2>2. chats \in Seq(Pairs)
    BY <1>0 DEF TypeInv, TypeOK
  <2> QED BY <2>1, <2>2 DEF Pairs, Recipients
<1> HIDE DEF m
<1>5. TypeInv'
  <2>1. /\ channel' \in [Workers -> Seq(MessageIds)]
        /\ cur' \in [Workers -> CurRecord]
    BY <1>1, <1>2, <1>4 DEF CurRecord
  <2>2. /\ open' \in SUBSET Conns /\ owed' \in [MessageIds -> SUBSET Conns]
        /\ inbox' \in [Conns -> Seq(MessageIds)]
        /\ sub' \in [Workers -> {"starting", "up", "dead"}]
    BY <1>0 DEF TypeInv, TypeOK
  <2> QED BY <1>0, <2>1, <2>2, HandlersKept
<1>6. Log'
  BY <1>0, LogKept DEF Inv
<1>7. /\ channel'[w] = Tail(channel[w])
      /\ cur'[w].msg = m /\ cur'[w].to = Recipients(m) /\ cur'[w].tabs = {}
      /\ \A v \in Workers \ {w} : channel'[v] = channel[v] /\ cur'[v] = cur[v]
      /\ m # NoId
  BY <1>1, <1>2, Bounds
<1>8. Flow'
  <2>1. ASSUME NEW v \in Workers
        PROVE  /\ Elements(channel'[v]) \subseteq Elements(published)
               /\ InOrder(channel'[v], published)
               /\ cur'[v].msg = NoId => cur'[v].to = {} /\ cur'[v].tabs = {}
               /\ cur'[v].msg # NoId =>
                    /\ cur'[v].msg \in Elements(published)
                    /\ cur'[v].to \subseteq Recipients(cur'[v].msg)
                    /\ \A d \in cur'[v].tabs :
                         /\ WorkerOf[d] = v /\ UserOf[d] \in Recipients(cur'[v].msg)
                         /\ UserOf[d] \notin cur'[v].to
                    /\ \A n \in Elements(channel'[v]) : Precedes(published, cur'[v].msg, n)
    <3>1. CASE v = w
      BY <1>0, <1>2, <1>3, <1>7, <3>1 DEF Flow
    <3>2. CASE v # w
      BY <1>0, <1>7, <3>2 DEF Flow
    <3> QED BY <3>1, <3>2
  <2>2. ASSUME NEW d \in Conns
        PROVE  /\ Elements(inbox[d]) \subseteq Elements(published)
               /\ InOrder(inbox[d], published)
               /\ \A x \in Elements(inbox[d]), n \in Elements(channel'[WorkerOf[d]]) :
                    Precedes(published, x, n)
               /\ cur'[WorkerOf[d]].msg # NoId => \A x \in Elements(inbox[d]) :
                    \/ Precedes(published, x, cur'[WorkerOf[d]].msg)
                    \/ x = cur'[WorkerOf[d]].msg /\ ~Due(d)'
    <3>0. /\ Elements(inbox[d]) \subseteq Elements(published)
          /\ InOrder(inbox[d], published)
          /\ \A x \in Elements(inbox[d]), n \in Elements(channel[WorkerOf[d]]) :
               Precedes(published, x, n)
      BY <1>0 DEF Flow
    <3>1. CASE WorkerOf[d] = w
      <4>1. \A x \in Elements(inbox[d]) : Precedes(published, x, m)
        BY <1>2, <3>0, <3>1
      <4> QED BY <1>2, <1>7, <3>0, <3>1, <4>1
    <3>2. CASE WorkerOf[d] # w
      <4>1. WorkerOf[d] \in Workers \ {w}
        BY <3>2, Bounds
      <4>2. channel'[WorkerOf[d]] = channel[WorkerOf[d]] /\ cur'[WorkerOf[d]] = cur[WorkerOf[d]]
        BY <1>7, <4>1
      <4>3. Due(d)' = Due(d)
        BY <4>2 DEF Due
      <4> QED BY <1>0, <4>2, <4>3 DEF Flow
    <3> QED BY <3>1, <3>2
  <2> QED BY <1>0, <2>1, <2>2 DEF Flow
<1>9. Owed'
  <2>1. ASSUME NEW n \in MessageIds, NEW d \in owed[n]
        PROVE  \/ n \in Elements(inbox[d]) \cup Elements(channel'[WorkerOf[d]])
               \/ n = cur'[WorkerOf[d]].msg /\ Due(d)'
    <3>0. d \in Conns /\ WorkerOf[d] \in Workers
      BY <1>0, Bounds DEF TypeInv, TypeOK
    <3>1. /\ UserOf[d] \in Recipients(n)
          /\ \/ n \in Elements(inbox[d]) \cup Elements(channel[WorkerOf[d]])
             \/ n = cur[WorkerOf[d]].msg /\ Due(d)
      BY <1>0 DEF Owed
    <3>2. CASE WorkerOf[d] = w
      <4>1. ~Due(d)
        BY <1>1, <3>2 DEF NoForward, Due
      <4>2. UserOf[d] \in cur'[w].to \/ n # m
        BY <1>7, <3>1
      <4> QED BY <1>2, <1>7, <3>1, <3>2, <4>1, <4>2 DEF Due
    <3>3. CASE WorkerOf[d] # w
      <4>1. channel'[WorkerOf[d]] = channel[WorkerOf[d]] /\ cur'[WorkerOf[d]] = cur[WorkerOf[d]]
        BY <1>7, <3>0, <3>3
      <4>2. Due(d)' = Due(d)
        BY <4>1 DEF Due
      <4> QED BY <3>1, <4>1, <4>2
    <3> QED BY <3>2, <3>3
  <2> QED BY <1>0, <2>1 DEF Owed
<1> QED BY <1>5, <1>6, <1>8, <1>9

\* Worker w sends its message to one connection at most, one that it is due to,
\* and has none but that less to send to than before: `to` and `tabs` are left.
Hands(w, cs, to, tabs) ==
  /\ cs = {} \/ \E c \in Conns : cs = {c}
  /\ cur[w].msg # NoId
  /\ \A c \in cs : WorkerOf[c] = w /\ Due(c)
  /\ cur' = [cur EXCEPT ![w] = Left(cur[w].msg, to, tabs)]
  /\ inbox' = [c \in Conns |-> IF c \in cs THEN Append(inbox[c], cur[w].msg) ELSE inbox[c]]
  /\ to \subseteq cur[w].to
  /\ \A c \in tabs : /\ WorkerOf[c] = w /\ UserOf[c] \in Recipients(cur[w].msg)
                     /\ UserOf[c] \notin to
  /\ \A c \in Conns : WorkerOf[c] = w /\ (UserOf[c] \in to \/ c \in tabs) =>
                        Due(c) /\ c \notin cs
  /\ \A c \in open : WorkerOf[c] = w /\ Due(c) /\ c \notin cs =>
                        UserOf[c] \in to \/ c \in tabs
  /\ UNCHANGED <<chats, messages, ws, rest, open, owed, sub, channel, published>>

LEMMA HandInv ==
  ASSUME Inv, NEW w \in Workers, NEW cs \in SUBSET Conns,
         NEW to \in SUBSET Users, NEW tabs \in SUBSET Conns, Hands(w, cs, to, tabs)
  PROVE  TypeInv' /\ Log' /\ Flow' /\ Owed'
<1> USE DEF Hands
<1> DEFINE m == cur[w].msg
<1>0. /\ TypeInv /\ Log /\ Flow /\ Owed
      /\ \A n : Recipients(n)' = Recipients(n)
  BY DEF Inv, Recipients
<1>1. /\ cur \in [Workers -> CurRecord]
      /\ inbox \in [Conns -> Seq(MessageIds)] /\ open \subseteq Conns
  BY <1>0, Kinds DEF TypeInv, TypeOK
<1>2. /\ m \in Elements(published) /\ m \in 1..Len(messages) /\ m \in MessageIds
      /\ cur[w].to \subseteq Recipients(m)
      /\ \A n \in Elements(channel[w]) : Precedes(published, m, n)
  BY <1>0, Kinds DEF Flow, Log
<1>3. /\ cur' \in [Workers -> CurRecord]
      /\ cur'[w].to = to /\ cur'[w].tabs = tabs
      /\ cur'[w].msg = NoId => to = {} /\ tabs = {}
      /\ cur'[w].msg # NoId => cur'[w].msg = m
      /\ to \cup tabs # {} => cur'[w].msg = m
      /\ \A v \in Workers \ {w} : cur'[v] = cur[v]
  <2>1. /\ Left(m, to, tabs) \in CurRecord
        /\ Left(m, to, tabs).to = to /\ Left(m, to, tabs).tabs = tabs
        /\ Left(m, to, tabs).msg = IF to = {} /\ tabs = {} THEN NoId ELSE m
    BY <1>2 DEF Left, NoForward, CurRecord
  <2> HIDE DEF m
  <2>2. cur'[w] = Left(m, to, tabs) /\ \A v \in Workers \ {w} : cur'[v] = cur[v]
    BY <1>1 DEF m
  <2>3. cur' \in [Workers -> CurRecord]
    BY <1>1, <2>1 DEF m
  <2> QED BY <2>1, <2>2, <2>3 DEF m
<1>d. \A d \in Conns : WorkerOf[d] = w => Due(d)' = (UserOf[d] \in to \/ d \in tabs)
  BY <1>3 DEF Due
<1>e. \A d \in Conns : WorkerOf[d] # w => Due(d)' = Due(d) /\ cur'[WorkerOf[d]] = cur[WorkerOf[d]]
  <2> SUFFICES ASSUME NEW d \in Conns, WorkerOf[d] # w
               PROVE  Due(d)' = Due(d) /\ cur'[WorkerOf[d]] = cur[WorkerOf[d]]
    OBVIOUS
  <2>1. cur'[WorkerOf[d]] = cur[WorkerOf[d]]
    BY <1>3, Bounds
  <2> QED BY <2>1 DEF Due
<1>4. ASSUME NEW d \in Conns
      PROVE  /\ inbox'[d] \in Seq(MessageIds)
             /\ d \in cs => inbox'[d] = Append(inbox[d], m)
                           /\ Elements(inbox'[d]) = Elements(inbox[d]) \cup {m}
             /\ d \notin cs => inbox'[d] = inbox[d]
  <2>1. CASE d \in cs
    <3>1. inbox'[d] = Append(inbox[d], m)
      BY <2>1
    <3> QED BY <1>1, <1>2, <2>1, <3>1, ElementsAppend
  <2>2. CASE d \notin cs
    BY <1>1, <2>2
  <2> QED BY <2>1, <2>2
<1> HIDE DEF m
<1>5. TypeInv'
  <2>1. inbox' \in [Conns -> Seq(MessageIds)]
    <3>1. inbox' = [c \in Conns |-> inbox'[c]]
      OBVIOUS
    <3> QED BY <1>4, <3>1
  <2>2. /\ open' \in SUBSET Conns /\ owed' \in [MessageIds -> SUBSET Conns]
        /\ channel' \in [Workers -> Seq(MessageIds)]
        /\ sub' \in [Workers -> {"starting", "up", "dead"}]
    BY <1>0 DEF TypeInv, TypeOK
  <2> QED BY <1>0, <1>3, <2>1, <2>2, HandlersKept
<1>6. Log'
  BY <1>0, LogKept DEF Inv
<1>7. Flow'
  <2>1. ASSUME NEW v \in Workers
        PROVE  /\ Elements(channel[v]) \subseteq Elements(published)
               /\ InOrder(channel[v], published)
               /\ cur'[v].msg = NoId => cur'[v].to = {} /\ cur'[v].tabs = {}
               /\ cur'[v].msg # NoId =>
                    /\ cur'[v].msg \in Elements(published)
                    /\ cur'[v].to \subseteq Recipients(cur'[v].msg)
                    /\ \A d \in cur'[v].tabs :
                         /\ WorkerOf[d] = v /\ UserOf[d] \in Recipients(cur'[v].msg)
                         /\ UserOf[d] \notin cur'[v].to
                    /\ \A n \in Elements(channel[v]) : Precedes(published, cur'[v].msg, n)
    <3>1. CASE v = w
      <4>1. cur'[v].msg # NoId => cur'[v].msg = m /\ cur'[v].to = to /\ cur'[v].tabs = tabs
        BY <1>3, <3>1
      <4>2. /\ to \subseteq Recipients(m)
            /\ \A d \in tabs : /\ WorkerOf[d] = w /\ UserOf[d] \in Recipients(m)
                               /\ UserOf[d] \notin to
        BY <1>2 DEF m
      <4> QED BY <1>0, <1>2, <1>3, <3>1, <4>1, <4>2 DEF Flow
    <3>2. CASE v # w
      BY <1>0, <1>3, <3>2 DEF Flow
    <3> QED BY <3>1, <3>2
  <2>2. ASSUME NEW d \in Conns
        PROVE  /\ Elements(inbox'[d]) \subseteq Elements(published)
               /\ InOrder(inbox'[d], published)
               /\ \A x \in Elements(inbox'[d]), n \in Elements(channel[WorkerOf[d]]) :
                    Precedes(published, x, n)
               /\ cur'[WorkerOf[d]].msg # NoId => \A x \in Elements(inbox'[d]) :
                    \/ Precedes(published, x, cur'[WorkerOf[d]].msg)
                    \/ x = cur'[WorkerOf[d]].msg /\ ~Due(d)'
    <3>0. /\ Elements(inbox[d]) \subseteq Elements(published)
          /\ InOrder(inbox[d], published)
          /\ \A x \in Elements(inbox[d]), n \in Elements(channel[WorkerOf[d]]) :
               Precedes(published, x, n)
          /\ cur[WorkerOf[d]].msg # NoId => \A x \in Elements(inbox[d]) :
               \/ Precedes(published, x, cur[WorkerOf[d]].msg)
               \/ x = cur[WorkerOf[d]].msg /\ ~Due(d)
      BY <1>0 DEF Flow
    <3>1. CASE WorkerOf[d] # w
      <4>1. d \notin cs
        BY <3>1
      <4>2. cur'[WorkerOf[d]] = cur[WorkerOf[d]] /\ inbox'[d] = inbox[d] /\ Due(d)' = Due(d)
        BY <1>e, <1>4, <3>1, <4>1
      <4> QED BY <3>0, <4>2
    <3>2. CASE WorkerOf[d] = w /\ d \notin cs
      <4>1. inbox'[d] = inbox[d]
        BY <1>4, <3>2
      <4>2. \A x \in Elements(inbox[d]) : Precedes(published, x, m) \/ (x = m /\ ~Due(d))
        BY <3>0, <3>2 DEF m
      <4>3. Due(d)' => Due(d)
        BY <1>d, <3>2
      <4>4. cur'[WorkerOf[d]].msg # NoId => cur'[WorkerOf[d]].msg = m
        BY <1>3, <3>2
      <4> QED BY <3>0, <4>1, <4>2, <4>3, <4>4
    <3>3. CASE d \in cs
      <4>0. WorkerOf[d] = w /\ Due(d)
        BY <3>3
      <4>1. \A x \in Elements(inbox[d]) : Precedes(published, x, m)
        BY <3>0, <4>0 DEF m
      <4>a. inbox[d] \in Seq(MessageIds) /\ inbox'[d] = Append(inbox[d], m)
        BY <1>1, <1>4, <3>3
      <4>b. InOrder(Append(inbox[d], m), published)
        BY <1>2, <3>0, <4>1, <4>a, InOrderAppend
      <4>2. InOrder(inbox'[d], published)
        BY <4>a, <4>b
      <4>3. Elements(inbox'[d]) = Elements(inbox[d]) \cup {m}
        BY <1>4, <3>3
      <4>4. \A x \in Elements(inbox'[d]), n \in Elements(channel[WorkerOf[d]]) :
               Precedes(published, x, n)
        BY <1>2, <3>0, <4>0, <4>3
      <4>5. ~Due(d)' /\ (cur'[WorkerOf[d]].msg # NoId => cur'[WorkerOf[d]].msg = m)
        BY <1>3, <1>d, <3>3, <4>0
      <4> QED BY <1>2, <3>0, <4>1, <4>2, <4>3, <4>4, <4>5
    <3> QED BY <3>1, <3>2, <3>3
  <2>3. UNCHANGED <<chats, messages, published, channel>>
    OBVIOUS
  <2> HIDE DEF Hands
  <2> QED BY <2>1, <2>2, <2>3 DEF Flow, Recipients
<1>8. Owed'
  <2>1. ASSUME NEW n \in MessageIds, NEW d \in owed[n]
        PROVE  \/ n \in Elements(inbox'[d]) \cup Elements(channel[WorkerOf[d]])
               \/ n = cur'[WorkerOf[d]].msg /\ Due(d)'
    <3>0. d \in Conns /\ WorkerOf[d] \in Workers
      BY <1>0, Bounds DEF TypeInv, TypeOK
    <3>1. /\ d \in open
          /\ \/ n \in Elements(inbox[d]) \cup Elements(channel[WorkerOf[d]])
             \/ n = cur[WorkerOf[d]].msg /\ Due(d)
      BY <1>0 DEF Owed
    <3>2. Elements(inbox[d]) \subseteq Elements(inbox'[d])
      BY <1>4, <3>0
    <3>3. CASE n = cur[WorkerOf[d]].msg /\ Due(d)
      <4>1. CASE WorkerOf[d] # w
        BY <1>e, <3>0, <3>3, <4>1
      <4>2. CASE d \in cs
        <5>1. n = m
          BY <3>3, <4>2 DEF m
        <5> QED BY <1>4, <3>0, <4>2, <5>1
      <4>3. CASE WorkerOf[d] = w /\ d \notin cs
        <5>1. UserOf[d] \in to \/ d \in tabs
          BY <3>1, <3>3, <4>3
        <5>2. Due(d)' /\ cur'[w].msg = m
          BY <1>3, <1>d, <3>0, <4>3, <5>1
        <5> QED BY <3>3, <4>3, <5>2 DEF m
      <4> QED BY <4>1, <4>2, <4>3
    <3> QED BY <3>1, <3>2, <3>3
  <2> QED BY <1>0, <2>1 DEF Owed
<1> QED BY <1>5, <1>6, <1>7, <1>8

\* Who is sent to is a participant whose turn it is: the first connection of
\* the next recipient, if there is one, or the next of the snapshot.
LEMMA ForwardHands ==
  ASSUME Inv, NEW w \in Workers,
         (\E u \in Users : Forward(w, u)) \/ (\E c \in Conns : ForwardOn(w, c))
  PROVE  \E cs \in SUBSET Conns, to \in SUBSET Users, tabs \in SUBSET Conns :
           Hands(w, cs, to, tabs)
<1>k. /\ cur[w].to \in SUBSET Users /\ cur[w].tabs \in SUBSET Conns /\ open \subseteq Conns
      /\ inbox \in [Conns -> Seq(MessageIds)] /\ UserOf \in [Conns -> Users]
  BY Kinds, Bounds DEF Inv, TypeInv, TypeOK, CurRecord
<1>f. /\ cur[w].msg = NoId => cur[w].to = {} /\ cur[w].tabs = {}
      /\ cur[w].msg # NoId =>
           /\ cur[w].to \subseteq Recipients(cur[w].msg)
           /\ \A c \in cur[w].tabs :
                /\ WorkerOf[c] = w /\ UserOf[c] \in Recipients(cur[w].msg)
                /\ UserOf[c] \notin cur[w].to
  BY DEF Inv, Flow
<1>d. \A c \in Conns : WorkerOf[c] = w =>
        (Due(c) <=> UserOf[c] \in cur[w].to \/ c \in cur[w].tabs)
  BY DEF Due
<1>s. ASSUME NEW c \in Conns, Send(w, c)
      PROVE  inbox' = [d \in Conns |-> IF d \in {c} THEN Append(inbox[d], cur[w].msg)
                                                    ELSE inbox[d]]
  BY <1>s, <1>k DEF Send
<1>1. CASE \E u \in Users : Forward(w, u)
  <2>1. PICK u \in Users : Forward(w, u)
    BY <1>1
  <2>2. /\ u \in cur[w].to /\ cur[w].tabs = {} /\ cur[w].msg # NoId
        /\ UNCHANGED <<chats, messages, ws, rest, open, owed, sub, channel, published>>
    BY <1>f, <2>1 DEF Forward
  <2>3. CASE /\ Local(w, u) = {}
             /\ cur' = [cur EXCEPT ![w] = Left(cur[w].msg, cur[w].to \ {u}, {})]
             /\ UNCHANGED inbox
    <3>1. inbox' = [c \in Conns |-> IF c \in {} THEN Append(inbox[c], cur[w].msg) ELSE inbox[c]]
      BY <1>k, <2>3
    <3>2. \A c \in open : WorkerOf[c] = w => UserOf[c] # u
      BY <2>3 DEF Local
    <3>3. Hands(w, {}, cur[w].to \ {u}, {})
      BY <1>d, <1>k, <2>2, <2>3, <3>1, <3>2 DEF Hands
    <3> QED BY <1>k, <3>3
  <2>4. ASSUME NEW c \in Local(w, u),
               cur' = [cur EXCEPT ![w] = Left(cur[w].msg, cur[w].to \ {u}, Local(w, u) \ {c})],
               Send(w, c)
        PROVE  \E cs \in SUBSET Conns, to \in SUBSET Users, tabs \in SUBSET Conns :
                 Hands(w, cs, to, tabs)
    <3>0. /\ Local(w, u) \in SUBSET Conns /\ c \in Conns /\ c \in Local(w, u)
          /\ \A d \in Local(w, u) : UserOf[d] = u /\ WorkerOf[d] = w
          /\ \A d \in open : WorkerOf[d] = w /\ UserOf[d] = u => d \in Local(w, u)
      BY <1>k DEF Local
    <3> DEFINE L == Local(w, u)
    <3> HIDE DEF L
    <3>1. inbox' = [d \in Conns |-> IF d \in {c} THEN Append(inbox[d], cur[w].msg) ELSE inbox[d]]
      BY <1>s, <2>4, <3>0
    <3>2. cur' = [cur EXCEPT ![w] = Left(cur[w].msg, cur[w].to \ {u}, L \ {c})]
      BY <2>4 DEF L
    <3>3. \A d \in {c} : WorkerOf[d] = w /\ Due(d)
      BY <1>d, <2>2, <3>0
    <3>4. \A d \in L \ {c} : /\ WorkerOf[d] = w /\ UserOf[d] \in Recipients(cur[w].msg)
                             /\ UserOf[d] \notin cur[w].to \ {u}
      BY <1>f, <2>2, <3>0 DEF L
    <3>5. \A d \in Conns : WorkerOf[d] = w /\ (UserOf[d] \in cur[w].to \ {u} \/ d \in L \ {c}) =>
                             Due(d) /\ d \notin {c}
      BY <1>d, <2>2, <3>0 DEF L
    <3>6. \A d \in open : WorkerOf[d] = w /\ Due(d) /\ d \notin {c} =>
                            UserOf[d] \in cur[w].to \ {u} \/ d \in L \ {c}
      BY <1>d, <1>k, <2>2, <3>0 DEF L
    <3>7. Hands(w, {c}, cur[w].to \ {u}, L \ {c})
      BY <2>2, <3>0, <3>1, <3>2, <3>3, <3>4, <3>5, <3>6 DEF Hands
    <3>8. L \ {c} \in SUBSET Conns
      BY <3>0 DEF L
    <3> QED BY <1>k, <3>0, <3>7, <3>8
  <2> QED BY <2>1, <2>3, <2>4 DEF Forward
<1>2. CASE \E c \in Conns : ForwardOn(w, c)
  <2>1. PICK c \in Conns : ForwardOn(w, c)
    BY <1>2
  <2>2. /\ c \in cur[w].tabs /\ cur[w].msg # NoId
        /\ cur' = [cur EXCEPT ![w] = Left(cur[w].msg, cur[w].to, cur[w].tabs \ {c})]
        /\ Send(w, c)
        /\ UNCHANGED <<chats, messages, ws, rest, open, owed, sub, channel, published>>
    BY <1>f, <2>1 DEF ForwardOn
  <2>3. inbox' = [d \in Conns |-> IF d \in {c} THEN Append(inbox[d], cur[w].msg) ELSE inbox[d]]
    BY <1>s, <2>2
  <2>4. WorkerOf[c] = w /\ Due(c)
    BY <1>d, <1>f, <2>2
  <2>5. \A d \in Conns :
          WorkerOf[d] = w /\ (UserOf[d] \in cur[w].to \/ d \in cur[w].tabs \ {c}) =>
            Due(d) /\ d \notin {c}
    BY <1>d, <1>f, <2>2
  <2>6. \A d \in open : WorkerOf[d] = w /\ Due(d) /\ d \notin {c} =>
                          UserOf[d] \in cur[w].to \/ d \in cur[w].tabs \ {c}
    BY <1>d, <1>k
  <2>7. Hands(w, {c}, cur[w].to, cur[w].tabs \ {c})
    BY <1>f, <2>2, <2>3, <2>4, <2>5, <2>6 DEF Hands
  <2> QED BY <1>k, <2>7
<1> QED BY <1>1, <1>2

\* Snapshots without the connections that close.
LEMMA StaleKept ==
  ASSUME TypeInv, NEW cs \in SUBSET Conns, cur' = Stale(cs)
  PROVE  /\ cur' \in [Workers -> CurRecord]
         /\ \A w \in Workers : Fewer(cur'[w], cur[w])
         /\ \A c \in Conns \ cs :
              Due(c) => Due(c)' /\ cur'[WorkerOf[c]].msg = cur[WorkerOf[c]].msg
<1>k. cur \in [Workers -> CurRecord]
  BY Kinds
<1>1. ASSUME NEW w \in Workers
      PROVE  /\ cur'[w] \in CurRecord /\ Fewer(cur'[w], cur[w])
             /\ cur'[w].to = cur[w].to /\ cur'[w].tabs = cur[w].tabs \ cs
             /\ cur'[w].to \cup cur'[w].tabs # {} => cur'[w].msg = cur[w].msg
  <2>1. cur'[w] = Left(cur[w].msg, cur[w].to, cur[w].tabs \ cs)
    BY DEF Stale
  <2>2. cur[w].msg \in MessageIds \cup {NoId} /\ cur[w].to \in SUBSET Users
          /\ cur[w].tabs \in SUBSET Conns
    BY <1>k DEF CurRecord
  <2>3. CASE cur[w].to = {} /\ cur[w].tabs \ cs = {}
    BY <2>1, <2>2, <2>3 DEF Left, NoForward, Fewer, CurRecord
  <2>4. CASE ~(cur[w].to = {} /\ cur[w].tabs \ cs = {})
    BY <2>1, <2>2, <2>4 DEF Left, Fewer, CurRecord
  <2> QED BY <2>3, <2>4
<1>2. cur' \in [Workers -> CurRecord]
  <2>1. cur' = [w \in Workers |-> cur'[w]]
    BY DEF Stale
  <2> QED BY <1>1, <2>1
<1>3. ASSUME NEW c \in Conns \ cs, Due(c)
      PROVE  Due(c)' /\ cur'[WorkerOf[c]].msg = cur[WorkerOf[c]].msg
  <2>1. WorkerOf[c] \in Workers
    BY Bounds
  <2>2. UserOf[c] \in cur'[WorkerOf[c]].to \/ c \in cur'[WorkerOf[c]].tabs
    BY <1>1, <1>3, <2>1 DEF Due
  <2> QED BY <1>1, <2>1, <2>2 DEF Due
<1> QED BY <1>1, <1>2, <1>3

\* The finally clause, alone or with the process of worker w.
LEMMA CloseInv ==
  ASSUME Inv, NEW cs \in SUBSET Conns, Close(cs),
         UNCHANGED <<chats, messages, rest, published>>,
         sub' \in [Workers -> {"starting", "up", "dead"}],
         channel' \in [Workers -> Seq(MessageIds)],
         cur' \in [Workers -> CurRecord],
         \A w \in Workers : channel'[w] = channel[w] \/ channel'[w] = <<>>,
         \A w \in Workers : Fewer(cur'[w], cur[w]),
         \A c \in Conns \ cs :
            /\ sub'[WorkerOf[c]] = sub[WorkerOf[c]]
            /\ channel'[WorkerOf[c]] = channel[WorkerOf[c]]
            /\ Due(c) => Due(c)' /\ cur'[WorkerOf[c]].msg = cur[WorkerOf[c]].msg
  PROVE  Inv'
<1>0. TypeInv /\ Owed
  BY DEF Inv
<1>1. TypeInv'
  BY <1>0, CloseType
<1>2. Log'
  <2>1. \A c \in Conns : ws'[c].pc = "publish" => ws'[c] = ws[c]
    BY DEF Close, IdleWs
  <2> QED BY <2>1, LogKept
<1>k. owed \in [MessageIds -> SUBSET Conns] /\ inbox \in [Conns -> Seq(MessageIds)]
  BY <1>0, Kinds
<1>i. \A c \in Conns : inbox'[c] = IF c \in cs THEN <<>> ELSE inbox[c]
  BY <1>k DEF Close
<1>3. Flow'
  BY <1>i, FlowKept
<1>4. Owed'
  <2>1. \A m \in MessageIds : \A c \in owed'[m] :
          c \in Conns \ cs /\ c \in owed[m] /\ c \in open' /\ inbox'[c] = inbox[c]
    BY <1>0, <1>k, <1>i DEF Close, Owed
  <2>2. \A m \in MessageIds : \A c \in owed'[m] : sub'[WorkerOf[c]] = "up"
    BY <1>0, <2>1 DEF Owed
  <2> QED BY <2>1, <2>2, OwedKept
<1> QED BY <1>1, <1>2, <1>3, <1>4 DEF Inv

\* Steps that no worker, connection or handler that publishes takes part in.
LEMMA QuietInv ==
  ASSUME Inv, TypeInv',
         UNCHANGED <<messages, inbox, owed, published, channel, cur>>,
         \A i \in 1..Len(chats) : chats'[i] = chats[i],
         \A c \in Conns : ws'[c].pc = "publish" => ws'[c] = ws[c],
         open \subseteq open', \A w \in Workers : sub[w] = "up" => sub'[w] = "up"
  PROVE  Inv'
<1>1. Log'
  BY LogKept
<1>2. Flow'
  BY FlowKept DEF Fewer
<1>3. \A m \in MessageIds : \A c \in owed[m] : c \in open' /\ sub'[WorkerOf[c]] = "up"
  BY Bounds DEF Inv, Owed, TypeInv, TypeOK
<1>5. \A c : Due(c)' = Due(c)
  BY DEF Due
<1>4. Owed'
  BY <1>3, <1>5, OwedKept
<1> QED BY <1>1, <1>2, <1>4 DEF Inv

LEMMA ConnStep ==
  ASSUME Inv, NEW c \in Conns,
         \/ Connect(c) \/ Disconnect(c) \/ HandlerStep(c) \/ HandlerFails(c)
         \/ \E i \in ChatIds : ReceiveForChat(c, i)
         \/ \E b \in Users : ReceiveForPeer(c, b)
  PROVE  Inv'
<1>0. TypeInv
  BY DEF Inv
<1>k. /\ ws \in [Conns -> WsRecord] /\ chats \in Seq(Pairs)
      /\ open \in SUBSET Conns /\ owed \in [MessageIds -> SUBSET Conns]
      /\ inbox \in [Conns -> Seq(MessageIds)]
      /\ sub \in [Workers -> {"starting", "up", "dead"}]
      /\ channel \in [Workers -> Seq(MessageIds)]
      /\ cur \in [Workers -> CurRecord]
  BY <1>0 DEF TypeInv, TypeOK
<1>c. ASSUME UNCHANGED <<chats, messages, rest, sub, channel, published>>, Close({c}),
             cur' = Stale({c})
      PROVE  Inv'
  <2>1. /\ cur' \in [Workers -> CurRecord]
        /\ \A w \in Workers : Fewer(cur'[w], cur[w])
        /\ \A d \in Conns \ {c} :
              Due(d) => Due(d)' /\ cur'[WorkerOf[d]].msg = cur[WorkerOf[d]].msg
    BY <1>0, <1>c, StaleKept
  <2> QED BY <1>k, <1>c, <2>1, CloseInv
<1>1. CASE Connect(c)
  <2>1. UNCHANGED <<chats, messages, ws, rest, sub, channel, cur, published, inbox, owed>>
    BY <1>1 DEF Connect, bridge
  <2>2. open' \in SUBSET Conns /\ open \subseteq open'
    BY <1>1, <1>k DEF Connect
  <2>3. TypeInv'
    BY <1>0, <1>k, <2>1, <2>2, HandlersKept
  <2> QED BY <2>1, <2>2, <2>3, QuietInv
<1>2. CASE Disconnect(c)
  <2>1. UNCHANGED <<chats, messages, rest, sub, channel, published>> /\ Close({c})
          /\ cur' = Stale({c})
    BY <1>2 DEF Disconnect
  <2> QED BY <2>1, <1>c
<1>3. CASE HandlerFails(c)
  <2>1. UNCHANGED <<chats, messages, rest, sub, channel, published>> /\ Close({c})
          /\ cur' = Stale({c})
    BY <1>3 DEF HandlerFails
  <2> QED BY <2>1, <1>c
<1>4. CASE WsCreate(c)
  <2>1. TypeInv'
    BY <1>0, <1>4, WsCreateType
  <2>2. UNCHANGED <<messages, inbox, owed, published, channel, cur, open, sub>>
    BY <1>4 DEF WsCreate, registry, bridge
  <2>3. \A i \in 1..Len(chats) : chats'[i] = chats[i]
    <3>1. ws[c].peers \in Pairs
      BY <1>0, <1>4 DEF TypeInv, Rows, WsCreate
    <3> QED BY <1>4, <1>k, <3>1, Appended DEF WsCreate
  <2>4. \A d \in Conns : ws'[d].pc = "publish" => ws'[d] = ws[d]
    BY <1>4, <1>k DEF WsCreate, IdleWs
  <2> QED BY <2>1, <2>2, <2>3, <2>4, QuietInv
<1>5. CASE Persist(c)
  <2>1. TypeInv'
    BY <1>0, <1>5, PersistType
  <2> QED BY <1>5, <2>1, PersistInv DEF Inv
<1>6. CASE Publish(c)
  <2>1. TypeInv'
    BY <1>0, <1>6, PublishType
  <2> QED BY <1>6, <2>1, PublishInv DEF Inv
<1>7. ASSUME NEW i \in ChatIds, ReceiveForChat(c, i) PROVE Inv'
  <2>1. TypeInv'
    BY <1>0, <1>7, AcceptType DEF ReceiveForChat
  <2>2. UNCHANGED <<chats, messages, inbox, owed, published, channel, cur, open, sub>>
    BY <1>7 DEF ReceiveForChat, registry, bridge
  <2>3. \A d \in Conns : ws'[d].pc = "publish" => ws'[d] = ws[d]
    BY <1>7, <1>k DEF ReceiveForChat, IdleWs
  <2> QED BY <2>1, <2>2, <2>3, QuietInv
<1>8. ASSUME NEW b \in Users, ReceiveForPeer(c, b) PROVE Inv'
  <2>1. TypeInv'
    BY <1>0, <1>8, ReceiveForPeerType
  <2>2. UNCHANGED <<chats, messages, rest, published, channel, sub>>
    BY <1>8 DEF ReceiveForPeer
  <2>3. CASE Close({c}) /\ cur' = Stale({c})
    BY <1>c, <2>2, <2>3
  <2>4. CASE UNCHANGED <<registry, cur>> /\ \A d \in Conns : ws'[d].pc = "publish" => ws'[d] = ws[d]
    BY <2>1, <2>2, <2>4, QuietInv DEF registry
  <2>5. ASSUME NEW v, v.pc # "publish", ws' = [ws EXCEPT ![c] = v]
        PROVE  \A d \in Conns : ws'[d].pc = "publish" => ws'[d] = ws[d]
    BY <1>k, <2>5
  <2>6. \/ UNCHANGED <<registry, cur>> /\ ws' = [ws EXCEPT ![c] =
               [IdleWs EXCEPT !.pc = "create", !.peers = {UserOf[c], b}]]
        \/ UNCHANGED <<registry, cur>> /\ ws' = [ws EXCEPT ![c] =
               [IdleWs EXCEPT !.pc = "persist",
                              !.chat = CHOOSE i \in Matching({UserOf[c], b}) : TRUE]]
        \/ Close({c}) /\ cur' = Stale({c})
    BY <1>8 DEF ReceiveForPeer
  <2>7. \A i : /\ [IdleWs EXCEPT !.pc = "create", !.peers = {UserOf[c], b}].pc # "publish"
               /\ [IdleWs EXCEPT !.pc = "persist", !.chat = i].pc # "publish"
    BY DEF IdleWs
  <2> QED BY <2>3, <2>4, <2>5, <2>6, <2>7
<1> QED BY <1>1, <1>2, <1>3, <1>4, <1>5, <1>6, <1>7, <1>8 DEF HandlerStep

LEMMA RestStep ==
  ASSUME Inv, NEW s \in RestSlots,
         (\E a, b \in Users : RestLookup(s, a, b)) \/ RestCreate(s)
  PROVE  Inv'
<1>1. TypeInv'
  BY RestType DEF Inv
<1>2. UNCHANGED <<messages, ws, inbox, owed, published, channel, cur, open, sub>>
  BY DEF RestLookup, RestCreate, registry, bridge
<1>3. \A i \in 1..Len(chats) : chats'[i] = chats[i]
  <2>1. CASE \E a, b \in Users : RestLookup(s, a, b)
    BY <2>1 DEF RestLookup
  <2>2. CASE RestCreate(s)
    BY <2>2, Appended DEF RestCreate, Inv, TypeInv, TypeOK
  <2> QED BY <2>1, <2>2
<1> QED BY <1>1, <1>2, <1>3, QuietInv

LEMMA WorkerStep ==
  ASSUME Inv, NEW w \in Workers, SubscriberStep(w) \/ SubscriberDies(w) \/ WorkerRestarts(w)
  PROVE  Inv'
<1>k. /\ TypeInv
      /\ open \in SUBSET Conns /\ owed \in [MessageIds -> SUBSET Conns]
      /\ inbox \in [Conns -> Seq(MessageIds)]
      /\ sub \in [Workers -> {"starting", "up", "dead"}]
      /\ channel \in [Workers -> Seq(MessageIds)]
      /\ cur \in [Workers -> CurRecord]
  BY DEF Inv, TypeInv, TypeOK
<1>e. /\ <<>> \in Seq(MessageIds)
      /\ NoForward \in CurRecord
  BY DEF NoForward, CurRecord
<1>1. CASE Subscribe(w)
  <2>1. UNCHANGED <<chats, messages, ws, rest, channel, cur, published, open, inbox, owed>>
    BY <1>1 DEF Subscribe, registry
  <2>2. /\ sub' \in [Workers -> {"starting", "up", "dead"}]
        /\ \A v \in Workers : sub[v] = "up" => sub'[v] = "up"
    BY <1>1, <1>k DEF Subscribe
  <2>3. TypeInv'
    BY <1>k, <2>1, <2>2, HandlersKept
  <2> QED BY <2>1, <2>2, <2>3, QuietInv
<1>2. CASE Take(w)
  BY <1>2, TakeInv DEF Inv
<1>3. CASE (\E u \in Users : Forward(w, u)) \/ (\E c \in Conns : ForwardOn(w, c))
  <2>1. PICK cs \in SUBSET Conns, to \in SUBSET Users, tabs \in SUBSET Conns :
               Hands(w, cs, to, tabs)
    BY <1>3, ForwardHands
  <2> QED BY <2>1, HandInv DEF Inv
<1>4. CASE SubscriberDies(w)
  <2>1. /\ UNCHANGED <<chats, messages, ws, rest, open, inbox, published>>
        /\ sub' = [sub EXCEPT ![w] = "dead"]
        /\ channel' = [channel EXCEPT ![w] = <<>>]
        /\ cur' = [cur EXCEPT ![w] = NoForward]
        /\ owed' = [m \in MessageIds |-> owed[m] \ {c \in Conns : WorkerOf[c] = w}]
    BY <1>4 DEF SubscriberDies
  <2>2. TypeInv'
    <3>1. /\ owed' \in [MessageIds -> SUBSET Conns]
          /\ sub' \in [Workers -> {"starting", "up", "dead"}]
          /\ channel' \in [Workers -> Seq(MessageIds)]
          /\ cur' \in [Workers -> CurRecord]
      BY <1>k, <1>e, <2>1
    <3> QED BY <1>k, <2>1, <3>1, HandlersKept
  <2>3. Log'
    BY <2>1, LogKept
  <2>4. /\ \A v \in Workers : channel'[v] = channel[v] \/ channel'[v] = <<>>
        /\ \A v \in Workers : Fewer(cur'[v], cur[v])
        /\ \A v \in Workers \ {w} : cur'[v] = cur[v]
    BY <1>k, <2>1 DEF Fewer
  <2>5. Flow'
    BY <2>1, <2>4, FlowKept
  <2>6. ASSUME NEW m \in MessageIds, NEW c \in owed'[m]
        PROVE  /\ c \in owed[m] /\ c \in open' /\ sub'[WorkerOf[c]] = "up"
               /\ channel'[WorkerOf[c]] = channel[WorkerOf[c]]
               /\ Due(c) => Due(c)' /\ cur'[WorkerOf[c]].msg = cur[WorkerOf[c]].msg
    <3>1. c \in owed[m] /\ c \in Conns /\ WorkerOf[c] # w
      BY <1>k, <2>1
    <3>2. WorkerOf[c] \in Workers \ {w}
      BY <3>1, Bounds
    <3>3. c \in open /\ sub[WorkerOf[c]] = "up"
      BY <3>1 DEF Inv, Owed
    <3>4. cur'[WorkerOf[c]] = cur[WorkerOf[c]]
      BY <2>4, <3>2
    <3>5. Due(c)' = Due(c)
      BY <3>4 DEF Due
    <3> QED BY <1>k, <2>1, <3>1, <3>2, <3>3, <3>4, <3>5
  <2>7. Owed'
    BY <2>1, <2>6, OwedKept
  <2> QED BY <2>2, <2>3, <2>5, <2>7 DEF Inv
<1>5. CASE WorkerRestarts(w)
  <2> DEFINE cs == {c \in Conns : WorkerOf[c] = w}
  <2>1. /\ UNCHANGED <<chats, messages, rest, published>>
        /\ sub' = [sub EXCEPT ![w] = "starting"]
        /\ channel' = [channel EXCEPT ![w] = <<>>]
        /\ cur' = [cur EXCEPT ![w] = NoForward]
        /\ Close(cs)
    BY <1>5 DEF WorkerRestarts
  <2>2. /\ sub' \in [Workers -> {"starting", "up", "dead"}]
        /\ channel' \in [Workers -> Seq(MessageIds)]
        /\ cur' \in [Workers -> CurRecord]
        /\ \A v \in Workers : channel'[v] = channel[v] \/ channel'[v] = <<>>
        /\ \A v \in Workers : Fewer(cur'[v], cur[v])
        /\ \A v \in Workers \ {w} :
             sub'[v] = sub[v] /\ channel'[v] = channel[v] /\ cur'[v] = cur[v]
    BY <1>k, <1>e, <2>1 DEF Fewer
  <2>3. \A c \in Conns \ cs : WorkerOf[c] \in Workers \ {w}
    BY Bounds
  <2>4. \A c \in Conns \ cs :
            /\ sub'[WorkerOf[c]] = sub[WorkerOf[c]]
            /\ channel'[WorkerOf[c]] = channel[WorkerOf[c]]
            /\ Due(c) => Due(c)' /\ cur'[WorkerOf[c]].msg = cur[WorkerOf[c]].msg
    BY <2>2, <2>3 DEF Due
  <2>5. cs \in SUBSET Conns
    OBVIOUS
  <2> HIDE DEF cs
  <2> QED BY <2>1, <2>2, <2>4, <2>5, CloseInv
<1> QED BY <1>1, <1>2, <1>3, <1>4, <1>5 DEF SubscriberStep, BridgeStep

LEMMA StepInv == Inv /\ [Next]_vars => Inv'
<1> SUFFICES ASSUME Inv, [Next]_vars PROVE Inv'
  OBVIOUS
<1>1. CASE UNCHANGED vars
  <2>1. TypeInv'
    BY <1>1, HandlersKept DEF vars, Inv, TypeInv, TypeOK
  <2> QED BY <1>1, <2>1, QuietInv DEF vars
<1>2. CASE Next
  BY <1>2, ConnStep, RestStep, WorkerStep DEF Next
<1> QED BY <1>1, <1>2

\* Every reachable state satisfies the invariant.
THEOREM Invariance == Spec => []Inv
BY InitInv, StepInv, PTL DEF Spec

\* Every variable holds a value of its kind: in particular no race between
\* lookups and inserts makes a chat of anything but two users, and no handler
\* names a row that does not exist.
THEOREM TypeCorrect == Spec => []TypeOK
<1>1. Inv => TypeOK
  BY DEF Inv, TypeInv
<1> QED BY <1>1, Invariance, PTL

\* Messages sent over one connection arrive everywhere in the order they were
\* sent, whatever workers, subscribers and other handlers do in between.
THEOREM SenderOrderHolds == Spec => []SenderOrder
<1>1. ASSUME Inv PROVE SenderOrder
  <2>1. SUFFICES ASSUME NEW c \in Conns, NEW m \in Received(c), NEW n \in Received(c),
                        messages[m].conn = messages[n].conn, m < n
                 PROVE  Before(c, m, n)
    BY DEF SenderOrder
  <2>2. PICK i \in 1..Len(inbox[c]) : inbox[c][i] = m
    BY DEF Received
  <2>3. PICK j \in 1..Len(inbox[c]) : inbox[c][j] = n
    BY DEF Received
  <2>0. Len(inbox[c]) \in Nat /\ inbox[c] \in Seq(MessageIds)
    BY <1>1, Kinds DEF Inv
  <2>4. m \in Nat /\ n \in Nat
    BY <2>0, <2>2, <2>3, Bounds
  <2>5. i # j
    BY <2>1, <2>2, <2>3, <2>4
  <2>6. ~(j < i)
    <3>1. SUFFICES ASSUME j < i PROVE FALSE
      OBVIOUS
    <3>2. Precedes(published, n, m)
      BY <1>1, <2>2, <2>3, <3>1 DEF Inv, Flow, InOrder
    <3>3. PICK a, b \in 1..Len(published) : a < b /\ published[a] = n /\ published[b] = m
      BY <3>2 DEF Precedes
    <3>4. b < a
      BY <1>1, <2>1, <3>3 DEF Inv, Log
    <3> QED BY <3>3, <3>4
  <2>7. i < j
    BY <2>0, <2>5, <2>6
  <2> QED BY <2>2, <2>3, <2>7 DEF Before
<1> QED BY <1>1, Invariance, PTL

\* What was published to a worker that listened reaches the connections there,
\* or is still on its way to them.
THEOREM OwedIsReceivedHolds == Spec => []OwedIsReceived
<1>1. ASSUME Inv PROVE OwedIsReceived
  <2>1. \A c \in Conns : Received(c) = Elements(inbox[c])
    BY DEF Received, Elements
  <2>2. ASSUME NEW m \in MessageIds, NEW c \in Conns,
               m \in Elements(channel[WorkerOf[c]]) \/ (m = cur[WorkerOf[c]].msg /\ Due(c))
        PROVE  OnItsWay(c, m)
    BY <2>2 DEF OnItsWay, Elements
  <2>3. \A m \in MessageIds : \A c \in owed[m] : c \in Conns /\ WorkerOf[c] \in Workers
    BY <1>1, Kinds, Bounds DEF Inv
  <2> QED BY <1>1, <2>1, <2>2, <2>3 DEF Inv, Owed, OwedIsReceived
<1> QED BY <1>1, Invariance, PTL
-----------------------------------------------------------------------------
(* The bridge implements the broadcast. *)

LEMMA InitRefines == Init => Broadcast!BInit
BY DEF Init, Broadcast!BInit, Announcements

\* Rows that stay leave the announcements as they were.
LEMMA AnnouncementsStay ==
  ASSUME Inv, published' = published,
         \A i \in 1..Len(chats) : chats'[i] = chats[i],
         \A m \in 1..Len(messages) : messages'[m] = messages[m]
  PROVE  Announcements' = Announcements
<1>1. \A k \in 1..Len(published) : published[k] \in 1..Len(messages)
  BY DEF Inv, Log, Elements
<1>2. \A m \in 1..Len(messages) : messages[m].chat \in 1..Len(chats)
  BY DEF Inv, TypeInv, Rows
<1> QED BY <1>1, <1>2 DEF Announcements

LEMMA PublishRefines ==
  ASSUME Inv, NEW c \in Conns, Publish(c)
  PROVE  Broadcast!BNext
<1> DEFINE m == ws[c].msg
           u == UserOf[c]
           to == chats[messages[m].chat]
<1>0. /\ UNCHANGED <<chats, messages, inbox>>
      /\ published' = Append(published, m)
      /\ TypeInv /\ Log /\ published \in Seq(MessageIds)
  BY Kinds DEF Publish, Inv
<1>1. /\ m \in 1..Len(messages) /\ m \in MessageIds /\ m \notin Elements(published)
      /\ messages[m] = [chat |-> ws[c].chat, sender |-> u, conn |-> c]
      /\ ws[c].chat \in 1..Len(chats) /\ u \in chats[ws[c].chat]
  BY <1>0, Kinds DEF TypeInv, Rows, Log, Publish
<1>2. messages[m].sender = u /\ u \in to /\ to \in SUBSET Users
  <2>1. chats \in Seq(Pairs)
    BY <1>0 DEF TypeInv, TypeOK
  <2> QED BY <1>1, <2>1 DEF Pairs
<1>3. /\ Len(published') = Len(published) + 1 /\ Len(published) \in Nat
      /\ published'[Len(published) + 1] = m
      /\ \A k \in 1..Len(published) : published'[k] = published[k]
  BY <1>0, <1>1, Appended
<1>a. \A k \in 1..Len(published) : k \in 1..Len(Announcements) /\ Announcements[k].msg = published[k]
  BY <1>3 DEF Announcements
<1>4. Announcements' = Append(Announcements, [msg |-> m, from |-> u, to |-> to])
  <2>1. Announcements' = [k \in 1..(Len(published) + 1) |->
                            [msg  |-> published'[k],
                             from |-> messages[published'[k]].sender,
                             to   |-> chats[messages[published'[k]].chat]]]
    BY <1>0, <1>3 DEF Announcements
  <2>2. Append(Announcements, [msg |-> m, from |-> u, to |-> to])
          = [k \in 1..(Len(published) + 1) |->
               IF k = Len(published) + 1 THEN [msg |-> m, from |-> u, to |-> to]
               ELSE Announcements[k]]
    <3>1. Len(Announcements) = Len(published) /\ DOMAIN Announcements = 1..Len(published)
      BY <1>3 DEF Announcements
    <3> QED BY <1>3, <3>1 DEF Announcements
  <2>3. \A k \in 1..(Len(published) + 1) :
          [msg  |-> published'[k],
           from |-> messages[published'[k]].sender,
           to   |-> chats[messages[published'[k]].chat]]
          = IF k = Len(published) + 1 THEN [msg |-> m, from |-> u, to |-> to]
            ELSE Announcements[k]
    <3>1. \A k \in 1..(Len(published) + 1) : k = Len(published) + 1 \/ k \in 1..Len(published)
      BY <1>3
    <3> QED BY <1>2, <1>3, <3>1 DEF Announcements
  <2> QED BY <2>1, <2>2, <2>3
<1>5. ~Broadcast!Announced(m)
  <2>1. Len(Announcements) = Len(published)
    BY <1>3 DEF Announcements
  <2> QED BY <1>1, <1>a, <2>1 DEF Broadcast!Announced, Elements
<1> HIDE DEF m, u, to
<1>6. Broadcast!Announce(m, u, to)
  BY <1>0, <1>2, <1>4, <1>5 DEF Broadcast!Announce
<1> QED BY <1>1, <1>2, <1>6 DEF Broadcast!BNext

LEMMA ForwardRefines ==
  ASSUME Inv, NEW w \in Workers,
         (\E u \in Users : Forward(w, u)) \/ (\E c \in Conns : ForwardOn(w, c))
  PROVE  Broadcast!BNext \/ UNCHANGED <<Announcements, inbox>>
<1>h. PICK cs \in SUBSET Conns, to \in SUBSET Users, tabs \in SUBSET Conns :
             Hands(w, cs, to, tabs)
  BY ForwardHands
<1> DEFINE m == cur[w].msg
<1>0. /\ UNCHANGED <<chats, messages, published>> /\ m # NoId
      /\ Log /\ Flow /\ published \in Seq(MessageIds)
      /\ inbox \in [Conns -> Seq(MessageIds)]
      /\ inbox' = [c \in Conns |-> IF c \in cs THEN Append(inbox[c], m) ELSE inbox[c]]
  BY <1>h, Kinds DEF Inv, Hands
<1>1. PICK k \in 1..Len(published) : published[k] = m
  BY <1>0 DEF Flow, Elements
<1>2. /\ Len(Announcements) = Len(published)
      /\ \A j \in 1..Len(published) : Announcements[j].msg = published[j]
      /\ Announcements[k].msg = m /\ Announcements[k].to = Recipients(m)
      /\ Announcements' = Announcements
  BY <1>0, <1>1 DEF Announcements, Recipients
<1>3. CASE cs = {}
  BY <1>0, <1>2, <1>3
<1>4. ASSUME NEW c \in Conns, cs = {c} PROVE Broadcast!BNext
  <2>1. WorkerOf[c] = w /\ Due(c)
    BY <1>h, <1>4 DEF Hands
  <2>2. UserOf[c] \in Announcements[k].to
    BY <1>0, <1>2, <2>1 DEF Flow, Due
  <2>3. ASSUME NEW j \in k..Len(published), Broadcast!Has(c, published[j]) PROVE FALSE
    <3>1. published[j] \in Elements(inbox[c])
      BY <2>3 DEF Broadcast!Has, Elements
    <3>2. Precedes(published, published[j], m)
      BY <1>0, <2>1, <3>1 DEF Flow
    <3>3. PICK a, b \in 1..Len(published) : a < b /\ published[a] = published[j] /\ published[b] = m
      BY <3>2 DEF Precedes
    <3>4. j \in 1..Len(published) /\ k <= j
      OBVIOUS
    <3>5. a = j /\ b = k
      BY <1>0, <1>1, <3>3, <3>4 DEF Log
    <3> QED BY <3>3, <3>4, <3>5
  <2>4. inbox' = [inbox EXCEPT ![c] = Append(@, m)]
    BY <1>0, <1>4
  <2> HIDE DEF m
  <2>5. \A j \in k..Len(Announcements) : ~Broadcast!Has(c, Announcements[j].msg)
    <3>1. \A j \in k..Len(published) : j \in 1..Len(published)
      OBVIOUS
    <3> QED BY <1>2, <2>3, <3>1
  <2>6. Broadcast!Deliver(k, c)
    BY <1>2, <2>2, <2>4, <2>5 DEF Broadcast!Deliver
  <2> QED BY <1>2, <2>6 DEF Broadcast!BNext
<1> QED BY <1>3, <1>4, <1>h DEF Hands

LEMMA StepRefines == Inv /\ [Next]_vars => [Broadcast!BNext]_(Broadcast!bvars)
<1> SUFFICES ASSUME Inv, [Next]_vars PROVE Broadcast!BNext \/ UNCHANGED <<Announcements, inbox>>
  BY DEF Broadcast!bvars
<1>k. chats \in Seq(Pairs) /\ messages \in Seq(MessageRecord)
  BY DEF Inv, TypeInv, TypeOK
<1>1. CASE UNCHANGED <<chats, messages, published, inbox>>
  BY <1>1, AnnouncementsStay
<1>2. ASSUME NEW c \in Conns, WsCreate(c) PROVE UNCHANGED <<Announcements, inbox>>
  <2>1. ws[c].peers \in Pairs
    BY <1>2 DEF Inv, TypeInv, Rows, WsCreate
  <2>2. \A i \in 1..Len(chats) : chats'[i] = chats[i]
    BY <1>2, <1>k, <2>1, Appended DEF WsCreate
  <2> QED BY <1>2, <2>2, AnnouncementsStay DEF WsCreate, registry, bridge
<1>3. ASSUME NEW c \in Conns, Persist(c) PROVE UNCHANGED <<Announcements, inbox>>
  <2>1. \A i \in 1..Len(messages) : messages'[i] = messages[i]
    BY <1>3, <1>k DEF Persist
  <2> QED BY <1>3, <2>1, AnnouncementsStay DEF Persist, registry, bridge
<1>4. ASSUME NEW s \in RestSlots, RestCreate(s) PROVE UNCHANGED <<Announcements, inbox>>
  <2>1. rest[s] \in Pairs
    BY <1>4 DEF Inv, TypeInv, TypeOK, RestCreate
  <2>2. \A i \in 1..Len(chats) : chats'[i] = chats[i]
    BY <1>4, <1>k, <2>1, Appended DEF RestCreate
  <2> QED BY <1>4, <2>2, AnnouncementsStay DEF RestCreate, registry, bridge
<1>5. CASE \E c \in Conns : Publish(c)
  BY <1>5, PublishRefines
<1>6. CASE \E w \in Workers : \/ \E u \in Users : Forward(w, u)
                              \/ \E c \in Conns : ForwardOn(w, c)
  BY <1>6, ForwardRefines
<1>c. ASSUME NEW cs \in SUBSET Conns, Close(cs), UNCHANGED <<chats, messages, published>>
      PROVE  Broadcast!BNext
  <2>1. Broadcast!Leave(cs)
    BY <1>c, AnnouncementsStay DEF Close, Broadcast!Leave
  <2> QED BY <2>1 DEF Broadcast!BNext
<1>d. CASE \E c \in Conns : Disconnect(c) \/ HandlerFails(c)
  BY <1>c, <1>d DEF Disconnect, HandlerFails
<1>e. CASE \E w \in Workers : WorkerRestarts(w)
  <2>1. PICK w \in Workers : WorkerRestarts(w)
    BY <1>e
  <2>2. {c \in Conns : WorkerOf[c] = w} \in SUBSET Conns
    OBVIOUS
  <2> QED BY <1>c, <2>1, <2>2 DEF WorkerRestarts
<1>7. CASE \E c \in Conns : Connect(c) \/ \E i \in ChatIds : ReceiveForChat(c, i)
  BY <1>1, <1>7 DEF Connect, ReceiveForChat, registry, bridge
<1>r. ASSUME NEW c \in Conns, NEW b \in Users, ReceiveForPeer(c, b)
      PROVE  Broadcast!BNext \/ UNCHANGED <<Announcements, inbox>>
  <2>1. UNCHANGED <<chats, messages, published>> /\ (Close({c}) \/ UNCHANGED inbox)
    BY <1>r DEF ReceiveForPeer, registry, bridge
  <2> QED BY <1>1, <1>c, <2>1
<1>8. CASE \E s \in RestSlots : \E a, b \in Users : RestLookup(s, a, b)
  BY <1>1, <1>8 DEF RestLookup, registry, bridge
<1>9. CASE \E w \in Workers : Subscribe(w) \/ Take(w) \/ SubscriberDies(w)
  BY <1>1, <1>9 DEF Subscribe, Take, SubscriberDies, registry
<1>10. CASE UNCHANGED vars
  BY <1>1, <1>10 DEF vars
<1> QED BY <1>2, <1>3, <1>4, <1>5, <1>6, <1>7, <1>8, <1>9, <1>10, <1>d, <1>e, <1>r
    DEF Next, HandlerStep, SubscriberStep, BridgeStep

\* Rooms, handlers, Redis and the subscribers of all workers together are one
\* broadcast: each message is announced once, by a participant, and each
\* connection receives a subsequence of what is announced to its user.
THEOREM Refinement == Spec => ImplementsBroadcast
BY Invariance, InitRefines, StepRefines, PTL DEF Spec, ImplementsBroadcast, Broadcast!BSpec
=============================================================================
