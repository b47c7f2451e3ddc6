---------------------------- MODULE ChatDelivery ----------------------------
(***************************************************************************)
(* One-to-one chat: chat rows and messages in Postgres (ChatRepository),   *)
(* the WebSocket handlers that accept frames (realtime/ws.py), the Redis   *)
(* channel chat:events, and one subscriber task per API worker that        *)
(* forwards to the connections of its process (realtime/subscriber.py,     *)
(* connection_manager.py).                                                 *)
(*                                                                         *)
(* A chat and a message are their index in `chats` and `messages`, the     *)
(* order their ids are drawn in.  A connection handles one frame at a      *)
(* time: it receives the next when _handle_message has returned.  When it  *)
(* closes, its place in Conns is free for another of the same user.        *)
(***************************************************************************)
EXTENDS Naturals, Sequences, FiniteSets

CONSTANTS Users, Workers, Conns,
          UserOf, WorkerOf,   \* whose token a connection carries, and where it is
          RestSlots,          \* slots for concurrent POST /chats/{peer}
          MaxChats, MaxMessages,   \* bounds: rows, ...
          Writers,            \* ... and connections whose clients send frames
          MayFail             \* Redis, database or process failures happen

ASSUME PlacementAssumption == UserOf \in [Conns -> Users] /\ WorkerOf \in [Conns -> Workers]
ASSUME BoundsAssumption == MaxChats \in Nat /\ MaxMessages \in Nat
ASSUME FiniteAssumption == IsFiniteSet(Conns) /\ IsFiniteSet(RestSlots)
ASSUME FailuresAssumption == MayFail \in BOOLEAN

VARIABLES
  chats,      \* committed chats: the set of the two participants
  messages,   \* committed messages: [chat, sender, conn]
  open,       \* connections registered with the manager of their worker
  ws,         \* per connection: where the handler of a frame is
  rest,       \* per slot: where create_or_get_chat is
  sub,        \* per worker: is its subscriber starting, up or dead
  channel,    \* per worker: what Redis sent it and it has not taken up
  cur,        \* per worker: the message being forwarded, the recipients whose
              \* turn is to come, and the connections still to be sent to of
              \* the one whose turn it is
  inbox,      \* per open connection: the message ids it was sent, in order
  owed,       \* history: open connections of participants at publish, where a
              \* subscriber is up
  published   \* history: message ids, in the order Redis took them

vars == <<chats, messages, open, ws, rest, sub, channel, cur, inbox, owed, published>>
registry == <<open, inbox, owed>>
bridge == <<sub, channel, cur, published>>

ChatIds == 1..MaxChats
MessageIds == 1..MaxMessages
NoId == 0
IdleWs == [pc |-> "idle", peers |-> {}, chat |-> NoId, msg |-> NoId]
IdleRest == {}
NoForward == [msg |-> NoId, to |-> {}, tabs |-> {}]

Init ==
  /\ chats = <<>>
  /\ messages = <<>>
  /\ open = {}
  /\ ws = [c \in Conns |-> IdleWs]
  /\ rest = [s \in RestSlots |-> IdleRest]
  /\ sub = [w \in Workers |-> "starting"]
  /\ channel = [w \in Workers |-> <<>>]
  /\ cur = [w \in Workers |-> NoForward]
  /\ inbox = [c \in Conns |-> <<>>]
  /\ owed = [m \in MessageIds |-> {}]
  /\ published = <<>>
-----------------------------------------------------------------------------
(* Connections. *)

Connect(c) ==
  /\ c \notin open
  /\ open' = open \cup {c}
  /\ UNCHANGED <<chats, messages, ws, rest, bridge, inbox, owed>>

\* What a worker has left to forward of a message.
Left(m, to, tabs) ==
  IF to = {} /\ tabs = {} THEN NoForward ELSE [msg |-> m, to |-> to, tabs |-> tabs]

\* Sending to a connection that has closed fails, and is swallowed.
Stale(cs) == [w \in Workers |-> Left(cur[w].msg, cur[w].to, cur[w].tabs \ cs)]

\* The finally clause of chat_websocket; what was owed is owed no more, and
\* what was received went with the page.
Close(cs) ==
  /\ open' = open \ cs
  /\ ws' = [c \in Conns |-> IF c \in cs THEN IdleWs ELSE ws[c]]
  /\ owed' = [m \in MessageIds |-> owed[m] \ cs]
  /\ inbox' = [c \in Conns |-> IF c \in cs THEN <<>> ELSE inbox[c]]

Disconnect(c) ==
  /\ c \in open
  /\ ws[c].pc = "idle"
  /\ Close({c})
  /\ cur' = Stale({c})
  /\ UNCHANGED <<chats, messages, rest, sub, channel, published>>
-----------------------------------------------------------------------------
(* get_or_create_chat: a SELECT, and if it found nothing an INSERT, with no *)
(* constraint over the pair of participants.                                *)

Matching(pair) == {i \in 1..Len(chats) : chats[i] = pair}

Creating == {c \in Conns : ws[c].pc = "create"}
RestCreating == {s \in RestSlots : rest[s] # IdleRest}

RoomForChat == Len(chats) + Cardinality(Creating) + Cardinality(RestCreating) < MaxChats

\* POST /chats/{peer}, the SELECT.  Finding one chat answers at once; finding
\* two raises MultipleResultsFound (500).
RestLookup(s, a, b) ==
  /\ rest[s] = IdleRest
  /\ a # b
  /\ Matching({a, b}) = {}
  /\ RoomForChat
  /\ rest' = [rest EXCEPT ![s] = {a, b}]
  /\ UNCHANGED <<chats, messages, ws, registry, bridge>>

RestCreate(s) ==
  /\ rest[s] # IdleRest
  /\ chats' = Append(chats, rest[s])
  /\ rest' = [rest EXCEPT ![s] = IdleRest]
  /\ UNCHANGED <<messages, ws, registry, bridge>>
-----------------------------------------------------------------------------
(* A frame on a WebSocket. *)

Storing == {c \in Conns : ws[c].pc \in {"create", "persist"}}

RoomForMessage == Len(messages) + Cardinality(Storing) < MaxMessages

\* {"chat_id": i}: dropped in silence unless the sender participates.
ReceiveForChat(c, i) ==
  /\ c \in open \cap Writers /\ ws[c].pc = "idle"
  /\ RoomForMessage
  /\ i \in 1..Len(chats) /\ UserOf[c] \in chats[i]
  /\ ws' = [ws EXCEPT ![c] = [IdleWs EXCEPT !.pc = "persist", !.chat = i]]
  /\ UNCHANGED <<chats, messages, rest, registry, bridge>>

\* {"to_user_id": b}: dropped in silence for oneself.
ReceiveForPeer(c, b) ==
  /\ c \in open \cap Writers /\ ws[c].pc = "idle"
  /\ RoomForMessage
  /\ b # UserOf[c]
  /\ LET found == Matching({UserOf[c], b}) IN
       \/ /\ found = {} /\ RoomForChat
          /\ ws' = [ws EXCEPT ![c] = [IdleWs EXCEPT !.pc = "create",
                                                    !.peers = {UserOf[c], b}]]
          /\ UNCHANGED <<registry, cur>>
       \/ /\ Cardinality(found) = 1
          /\ ws' = [ws EXCEPT ![c] = [IdleWs EXCEPT !.pc = "persist",
                                                    !.chat = CHOOSE i \in found : TRUE]]
          /\ UNCHANGED <<registry, cur>>
       \/ \* MultipleResultsFound is no ValueError: the handler dies
          /\ Cardinality(found) > 1
          /\ Close({c})
          /\ cur' = Stale({c})
  /\ UNCHANGED <<chats, messages, rest, sub, channel, published>>

\* Faulty variant: only the sender becomes a participant.
WsCreateOneSided(c) ==
  /\ ws[c].pc = "create"
  /\ chats' = Append(chats, {UserOf[c]})
  /\ ws' = [ws EXCEPT ![c] = [IdleWs EXCEPT !.pc = "persist", !.chat = Len(chats) + 1]]
  /\ UNCHANGED <<messages, rest, registry, bridge>>

WsCreate(c) ==
  /\ ws[c].pc = "create"
  /\ chats' = Append(chats, ws[c].peers)
  /\ ws' = [ws EXCEPT ![c] = [IdleWs EXCEPT !.pc = "persist", !.chat = Len(chats) + 1]]
  /\ UNCHANGED <<messages, rest, registry, bridge>>

Participants(c) == {d \in Conns : UserOf[d] \in chats[ws[c].chat]}

\* create_message commits; get_participant_ids reads rows nothing changes.
Persist(c) ==
  /\ ws[c].pc = "persist"
  /\ messages' = Append(messages, [chat |-> ws[c].chat, sender |-> UserOf[c], conn |-> c])
  /\ ws' = [ws EXCEPT ![c].pc = "publish", ![c].msg = Len(messages) + 1]
  /\ UNCHANGED <<chats, rest, registry, bridge>>

\* PUBLISH reaches the workers that are subscribed, in one order for all.
Publish(c) ==
  /\ ws[c].pc = "publish"
  /\ channel' = [w \in Workers |-> IF sub[w] = "up" THEN Append(channel[w], ws[c].msg)
                                                    ELSE channel[w]]
  /\ published' = Append(published, ws[c].msg)
  /\ owed' = [owed EXCEPT ![ws[c].msg] = {d \in open \cap Participants(c) : sub[WorkerOf[d]] = "up"}]
  /\ ws' = [ws EXCEPT ![c] = IdleWs]
  /\ UNCHANGED <<chats, messages, rest, open, inbox, sub, cur>>

\* A database or Redis error while a frame is handled closes the connection.
HandlerFails(c) ==
  /\ MayFail
  /\ ws[c].pc # "idle"
  /\ Close({c})
  /\ cur' = Stale({c})
  /\ UNCHANGED <<chats, messages, rest, sub, channel, published>>
-----------------------------------------------------------------------------
(* The subscriber task of a worker. *)

Subscribe(w) ==
  /\ sub[w] = "starting"
  /\ sub' = [sub EXCEPT ![w] = "up"]
  /\ UNCHANGED <<chats, messages, ws, rest, registry, channel, cur, published>>

Recipients(m) == chats[messages[m].chat]

\* Faulty variants: the newest message first; the next one while recipients
\* of the last still wait.
TakeNewest(w) ==
  /\ sub[w] = "up"
  /\ cur[w] = NoForward
  /\ channel[w] # <<>>
  /\ LET n == Len(channel[w])
         m == channel[w][n] IN
       /\ cur' = [cur EXCEPT ![w] = [msg |-> m, to |-> Recipients(m), tabs |-> {}]]
       /\ channel' = [channel EXCEPT ![w] = SubSeq(channel[w], 1, n - 1)]
  /\ UNCHANGED <<chats, messages, ws, rest, registry, sub, published>>

TakeOver(w) ==
  /\ sub[w] = "up"
  /\ channel[w] # <<>>
  /\ LET m == Head(channel[w]) IN
       cur' = [cur EXCEPT ![w] = [msg |-> m, to |-> Recipients(m), tabs |-> {}]]
  /\ channel' = [channel EXCEPT ![w] = Tail(channel[w])]
  /\ UNCHANGED <<chats, messages, ws, rest, registry, sub, published>>

Take(w) ==
  /\ sub[w] = "up"
  /\ cur[w] = NoForward
  /\ channel[w] # <<>>
  /\ LET m == Head(channel[w]) IN
       cur' = [cur EXCEPT ![w] = [msg |-> m, to |-> Recipients(m), tabs |-> {}]]
  /\ channel' = [channel EXCEPT ![w] = Tail(channel[w])]
  /\ UNCHANGED <<chats, messages, ws, rest, registry, sub, published>>

Local(w, u) == {c \in open : UserOf[c] = u /\ WorkerOf[c] = w}

Send(w, c) == inbox' = [inbox EXCEPT ![c] = Append(@, cur[w].msg)]

\* Faulty variant: who has been sent to stays on the list.
ForwardAgain(w, u) ==
  /\ sub[w] = "up"
  /\ u \in cur[w].to
  /\ \E c \in Local(w, u) : Send(w, c)
  /\ UNCHANGED <<chats, messages, ws, rest, open, owed, sub, channel, cur, published>>

\* Faulty variant: a user has one connection, whichever it is.
ForwardOne(w, u) ==
  /\ sub[w] = "up"
  /\ u \in cur[w].to
  /\ IF Local(w, u) = {} THEN UNCHANGED inbox ELSE \E c \in Local(w, u) : Send(w, c)
  /\ cur' = [cur EXCEPT ![w] = Left(cur[w].msg, cur[w].to \ {u}, {})]
  /\ UNCHANGED <<chats, messages, ws, rest, open, owed, sub, channel, published>>

\* send_to_user for the next recipient: nothing is awaited between the
\* snapshot of the connections that are open here and the first send.
Forward(w, u) ==
  /\ sub[w] = "up"
  /\ u \in cur[w].to /\ cur[w].tabs = {}
  /\ \/ /\ Local(w, u) = {}
        /\ cur' = [cur EXCEPT ![w] = Left(cur[w].msg, cur[w].to \ {u}, {})]
        /\ UNCHANGED inbox
     \/ \E c \in Local(w, u) :
          /\ cur' = [cur EXCEPT ![w] =
                       Left(cur[w].msg, cur[w].to \ {u}, Local(w, u) \ {c})]
          /\ Send(w, c)
  /\ UNCHANGED <<chats, messages, ws, rest, open, owed, sub, channel, published>>

\* The next connection of the snapshot, after an await in which connections
\* came and went.
ForwardOn(w, c) ==
  /\ sub[w] = "up"
  /\ c \in cur[w].tabs
  /\ cur' = [cur EXCEPT ![w] = Left(cur[w].msg, cur[w].to, cur[w].tabs \ {c})]
  /\ Send(w, c)
  /\ UNCHANGED <<chats, messages, ws, rest, open, owed, sub, channel, published>>

\* get_message raises: the task ends, and nothing starts it again.  What it
\* had not forwarded is owed no more.
SubscriberDies(w) ==
  /\ MayFail
  /\ sub[w] = "up"
  /\ sub' = [sub EXCEPT ![w] = "dead"]
  /\ channel' = [channel EXCEPT ![w] = <<>>]
  /\ cur' = [cur EXCEPT ![w] = NoForward]
  /\ owed' = [m \in MessageIds |-> owed[m] \ {c \in Conns : WorkerOf[c] = w}]
  /\ UNCHANGED <<chats, messages, ws, rest, open, inbox, published>>

\* The API worker dies with its connections, and is started again.
WorkerRestarts(w) ==
  /\ MayFail
  /\ sub[w] # "starting"
  /\ sub' = [sub EXCEPT ![w] = "starting"]
  /\ channel' = [channel EXCEPT ![w] = <<>>]
  /\ cur' = [cur EXCEPT ![w] = NoForward]
  /\ Close({c \in Conns : WorkerOf[c] = w})
  /\ UNCHANGED <<chats, messages, rest, published>>
-----------------------------------------------------------------------------
HandlerStep(c) == WsCreate(c) \/ Persist(c) \/ Publish(c)
BridgeStep(w) ==
  \/ Take(w)
  \/ \E u \in Users : Forward(w, u)
  \/ \E c \in Conns : ForwardOn(w, c)
SubscriberStep(w) == Subscribe(w) \/ BridgeStep(w)

Next ==
  \/ \E c \in Conns :
       \/ Connect(c) \/ Disconnect(c)
       \/ \E i \in ChatIds : ReceiveForChat(c, i)
       \/ \E b \in Users : ReceiveForPeer(c, b)
       \/ HandlerStep(c) \/ HandlerFails(c)
  \/ \E s \in RestSlots :
       \/ \E a, b \in Users : RestLookup(s, a, b)
       \/ RestCreate(s)
  \/ \E w \in Workers : SubscriberStep(w) \/ SubscriberDies(w) \/ WorkerRestarts(w)

Spec == Init /\ [][Next]_vars

\* A subscriber that is up goes on; handlers and clients promise nothing.
FairSpec ==
  /\ Spec
  /\ \A w \in Workers : WF_vars(BridgeStep(w))
-----------------------------------------------------------------------------
Pairs == {p \in SUBSET Users : Cardinality(p) = 2}
WsRecord ==
  [pc : {"idle", "create", "persist", "publish"}, peers : Pairs \cup {{}},
   chat : ChatIds \cup {NoId}, msg : MessageIds \cup {NoId}]
MessageRecord == [chat : ChatIds, sender : Users, conn : Conns]
CurRecord == [msg : MessageIds \cup {NoId}, to : SUBSET Users, tabs : SUBSET Conns]

\* Every variable holds a value of its kind; a chat has two participants.
TypeOK ==
  /\ chats \in Seq(Pairs) /\ Len(chats) <= MaxChats
  /\ messages \in Seq(MessageRecord) /\ Len(messages) <= MaxMessages
  /\ open \subseteq Conns
  /\ ws \in [Conns -> WsRecord]
  /\ rest \in [RestSlots -> Pairs \cup {IdleRest}]
  /\ sub \in [Workers -> {"starting", "up", "dead"}]
  /\ channel \in [Workers -> Seq(MessageIds)]
  /\ cur \in [Workers -> CurRecord]
  /\ inbox \in [Conns -> Seq(MessageIds)]
  /\ owed \in [MessageIds -> SUBSET Conns]
  /\ published \in Seq(MessageIds)
-----------------------------------------------------------------------------
(* Safety. *)

Received(c) == {inbox[c][i] : i \in 1..Len(inbox[c])}
Before(c, m, n) ==
  \E i, j \in 1..Len(inbox[c]) : i < j /\ inbox[c][i] = m /\ inbox[c][j] = n

\* Messages sent over one connection arrive everywhere in the order they were
\* sent and stored: the next frame is read after the publish (ws.py:63-65).
SenderOrder ==
  \A c \in Conns : \A m, n \in Received(c) :
    messages[m].conn = messages[n].conn /\ m < n => Before(c, m, n)

Outstanding == {m \in MessageIds : \E c \in owed[m] : m \notin Received(c)}
Due(c) == UserOf[c] \in cur[WorkerOf[c]].to \/ c \in cur[WorkerOf[c]].tabs
OnItsWay(c, m) ==
  \/ \E i \in 1..Len(channel[WorkerOf[c]]) : channel[WorkerOf[c]][i] = m
  \/ m = cur[WorkerOf[c]].msg /\ Due(c)

\* What was published to a worker that listened is received by every
\* connection there that was open then and still is, or waits for it, in the
\* channel or while the connections of its user are sent to one by one and
\* others come and go, unless the subscriber dies (subscriber.py:41-60,
\* connection_manager.py:48-53).
OwedIsReceived ==
  \A m \in MessageIds : \A c \in owed[m] : m \in Received(c) \/ OnItsWay(c, m)

\* And it does arrive where neither the connection nor the subscriber ends
\* first: whenever publishing pauses (here, at MaxMessages) nothing is in the
\* end outstanding.  Handlers and clients need not go on for that.
OwedArrives == []<>(Outstanding = {})

\* Every message is announced once, by a participant to its chat, and what a
\* connection receives is a subsequence of the announcements to its user: no
\* race, failure or restart carries a message to a third user, delivers it
\* twice, or shows two connections two orders (ws.py:92-133, subscriber.py:44-60).
Announcements ==
  [k \in 1..Len(published) |-> [msg  |-> published[k],
                               from |-> messages[published[k]].sender,
                               to   |-> chats[messages[published[k]].chat]]]
Broadcast == INSTANCE ChatBroadcast WITH Messages <- MessageIds, log <- Announcements
ImplementsBroadcast == Broadcast!BSpec
-----------------------------------------------------------------------------
(* What comments and specifications say and the code does not do. *)

\* repository.py:261, test_chat_repository.py:41: one chat for two users.
OneChatPerPair ==
  \A i, j \in 1..Len(chats) : chats[i] = chats[j] => i = j
=============================================================================
