----------------------------- MODULE ChatWindow -----------------------------
(***************************************************************************)
(* The chat page of the frontend (pages/ChatsPage.tsx): one browser that   *)
(* switches between chats, loads their history and the list of chats over  *)
(* HTTP, and receives new messages over its WebSocket.  Answers come in    *)
(* any order, before or after the frames of messages they contain or lack. *)
(*                                                                         *)
(* The server is what ChatDelivery shows of it: messages get increasing    *)
(* ids when they are stored, are published at any time after that, and     *)
(* reach an open socket once, in the order in which they are published.    *)
(***************************************************************************)
EXTENDS NewestFirst

CONSTANTS Chats,        \* the chats of the user
          NoChat,       \* the page without a chat, /chats
          Limit,        \* page size of the history
          MaxMessages,  \* bound: messages ever stored
          MaxFetches    \* bound: requests in flight

ASSUME ChatsAssumption == NoChat \notin Chats
ASSUME BoundsAssumption == Limit \in Nat \ {0} /\ MaxMessages \in Nat /\ MaxFetches \in Nat \ 0..1

VARIABLES
  stored,    \* rows of messages, by id: the chat
  unsent,    \* ids stored and not yet published
  frames,    \* ids on their way through the socket
  ws,        \* wsStatus: "connecting", "open", "closed"
  route,     \* chatId, from the URL
  ref,       \* chatIdRef.current
  fetches,   \* requests in flight, oldest first
  shown,     \* messages: ids, newest first
  list,      \* chats: per chat, the id of last_message, 0 if none
  received,  \* history: ids whose frame the page has handled
  races      \* history: which races this visit of the page has seen

server == <<stored, unsent>>
vars == <<stored, unsent, frames, ws, route, ref, fetches, shown, list, received, races>>

Ids == 1..Len(stored)
InChat(c) == {m \in Ids : stored[m] = c}

\* Faulty variant: the order is ascending.
HistoryOldest(c) ==
  LET rows == Reverse(Descending(InChat(c)))
  IN  SubSeq(rows, 1, IF Len(rows) < Limit THEN Len(rows) ELSE Limit)

\* list_messages: the newest Limit rows of a chat, by id.
History(c) == Newest(InChat(c), Limit)

\* list_chats_for_user: the last message of every chat, by id.
Previews == [c \in Chats |-> IF InChat(c) = {} THEN 0 ELSE Descending(InChat(c))[1]]
NoPreviews == [c \in Chats |-> 0]

\* A request that is sent and not yet processed by the server.
LoadOf(c) == [kind |-> "messages", chat |-> c, done |-> FALSE, page |-> <<>>,
              previews |-> NoPreviews]
ListLoad == [LoadOf(NoChat) EXCEPT !.kind = "chats"]

\* The mount effects: the list of chats, and the history of the chat in the URL.
MountLoads(c) == IF c = NoChat THEN <<ListLoad>> ELSE <<ListLoad, LoadOf(c)>>

Loading == \E i \in 1..Len(fetches) : fetches[i].kind = "messages"

Init ==
  /\ stored = <<>> /\ unsent = {} /\ frames = <<>>
  /\ ws = "connecting"
  /\ route \in Chats \cup {NoChat} /\ ref = route
  /\ fetches = MountLoads(route)
  /\ shown = <<>> /\ list = NoPreviews
  /\ received = {} /\ races = {}
-----------------------------------------------------------------------------
(* The server and the network. *)

\* create_message, for the peer or for another tab.
Store(c) ==
  /\ Len(stored) < MaxMessages
  /\ stored' = Append(stored, c)
  /\ unsent' = unsent \cup {Len(stored) + 1}
  /\ UNCHANGED <<frames, ws, route, ref, fetches, shown, list, received, races>>

\* send: through the open socket, into the active chat.
Send == ws = "open" /\ route # NoChat /\ Store(route)

\* Faulty variant: a message may be published again.
PublishAgain(m) ==
  /\ m \in unsent
  /\ unsent' \in {unsent, unsent \ {m}}
  /\ frames' = IF ws = "open" THEN Append(frames, m) ELSE frames
  /\ UNCHANGED <<stored, ws, route, ref, fetches, shown, list, received, races>>

\* A message is published after it is stored, not always in the order of
\* ids; only an open socket gets its frame.
Publish(m) ==
  /\ m \in unsent
  /\ unsent' = unsent \ {m}
  /\ frames' = IF ws = "open" THEN Append(frames, m) ELSE frames
  /\ UNCHANGED <<stored, ws, route, ref, fetches, shown, list, received, races>>

\* The server processes a request.
Answered(f) ==
  [f EXCEPT !.done = TRUE,
            !.page = IF f.kind = "messages" THEN History(f.chat) ELSE <<>>,
            !.previews = IF f.kind = "chats" THEN Previews ELSE NoPreviews]

Answer(i) ==
  /\ ~fetches[i].done
  /\ fetches' = [fetches EXCEPT ![i] = Answered(@)]
  /\ UNCHANGED <<server, frames, ws, route, ref, shown, list, received, races>>

WsOpen ==
  /\ ws = "connecting"
  /\ ws' = "open"
  /\ UNCHANGED <<server, frames, route, ref, fetches, shown, list, received, races>>

\* The page does not connect again.
WsClose ==
  /\ ws # "closed"
  /\ ws' = "closed"
  /\ frames' = <<>>
  /\ UNCHANGED <<server, route, ref, fetches, shown, list, received, races>>
-----------------------------------------------------------------------------
(* The page. *)

\* nav(`/chats/${c}`), from the list: the effects run after the paint.
Navigate(c) ==
  /\ route # c
  /\ route' = c
  /\ UNCHANGED <<server, frames, ws, ref, fetches, shown, list, received, races>>

\* openChat, once it has the id of the chat.
OpenChat(c) ==
  /\ Len(fetches) < MaxFetches
  /\ route' = c
  /\ fetches' = Append(fetches, ListLoad)
  /\ UNCHANGED <<server, frames, ws, ref, shown, list, received, races>>

\* The two effects on [chatId].  What was shown stays until the answer.
RunEffects ==
  /\ route # ref
  /\ ref' = route
  /\ IF route = NoChat
       THEN shown' = <<>> /\ UNCHANGED fetches
       ELSE /\ Len(fetches) < MaxFetches
            /\ fetches' = Append(fetches, LoadOf(route))
            /\ UNCHANGED shown
  /\ races' = races \cup (IF Loading THEN {"hurried"} ELSE {})
  /\ UNCHANGED <<server, frames, ws, route, list, received>>

\* Faulty variant: the chat of the message is not looked at.
OnMessageAnyChat ==
  /\ frames # <<>> /\ Len(fetches) < MaxFetches
  /\ LET m == Head(frames) IN
       /\ shown' = <<m>> \o Without(shown, m)
       /\ received' = received \cup {m}
       /\ races' = races \cup (IF Loading THEN {"overtaken"} ELSE {})
  /\ frames' = Tail(frames)
  /\ fetches' = Append(fetches, ListLoad)
  /\ UNCHANGED <<server, ws, route, ref, list>>

\* Faulty variant: the message is not looked for in what is shown.
OnMessageAppends ==
  /\ frames # <<>> /\ Len(fetches) < MaxFetches
  /\ LET m == Head(frames) IN
       /\ shown' = IF stored[m] = ref THEN <<m>> \o shown ELSE shown
       /\ received' = received \cup {m}
       /\ races' = races \cup (IF Loading THEN {"overtaken"} ELSE {})
  /\ frames' = Tail(frames)
  /\ fetches' = Append(fetches, ListLoad)
  /\ UNCHANGED <<server, ws, route, ref, list>>

\* Faulty variant: the list of chats is loaded for the active chat only.
OnMessageActiveOnly ==
  /\ frames # <<>> /\ Len(fetches) < MaxFetches
  /\ LET m == Head(frames) IN
       /\ shown' = IF stored[m] = ref THEN <<m>> \o Without(shown, m)
                                      ELSE shown
       /\ received' = received \cup {m}
       /\ races' = races \cup (IF Loading THEN {"overtaken"} ELSE {})
       /\ fetches' = IF stored[m] = ref THEN Append(fetches, ListLoad) ELSE fetches
  /\ frames' = Tail(frames)
  /\ UNCHANGED <<server, ws, route, ref, list>>

\* ws.onmessage: a message of the active chat comes first and once; the list
\* of chats is loaded for any.
OnMessage ==
  /\ frames # <<>> /\ Len(fetches) < MaxFetches
  /\ LET m == Head(frames) IN
       /\ shown' = IF stored[m] = ref THEN <<m>> \o Without(shown, m)
                                      ELSE shown
       /\ received' = received \cup {m}
       /\ races' = races \cup (IF Loading THEN {"overtaken"} ELSE {})
  /\ frames' = Tail(frames)
  /\ fetches' = Append(fetches, ListLoad)
  /\ UNCHANGED <<server, ws, route, ref, list>>

\* loadMessages and loadChats, after their await: the answer replaces what
\* is shown, whatever is shown by then.
Resolve(i) ==
  /\ fetches[i].done
  /\ IF fetches[i].kind = "messages"
       THEN shown' = fetches[i].page /\ UNCHANGED list
       ELSE list' = fetches[i].previews /\ UNCHANGED shown
  /\ races' = races \cup
       (IF \E j \in 1..(i - 1) : fetches[j].kind = fetches[i].kind THEN {"reordered"} ELSE {})
  /\ fetches' = RemoveAt(fetches, i)
  /\ UNCHANGED <<server, frames, ws, route, ref, received>>

\* A request fails: an alert, or nothing; what is shown stays.
Fail(i) ==
  /\ fetches' = RemoveAt(fetches, i)
  /\ races' = races \cup {"failed"}
  /\ UNCHANGED <<server, frames, ws, route, ref, shown, list, received>>

\* The user leaves the page, for good or through the login after a close
\* with 4401, and comes back: answers to the old page go nowhere.
Remount(c) ==
  /\ frames' = <<>> /\ ws' = "connecting"
  /\ route' = c /\ ref' = c
  /\ fetches' = MountLoads(c)
  /\ shown' = <<>> /\ list' = NoPreviews
  /\ received' = {} /\ races' = {}
  /\ UNCHANGED server
-----------------------------------------------------------------------------
Next ==
  \/ \E c \in Chats : Store(c) \/ OpenChat(c)
  \/ Send
  \/ \E m \in unsent : Publish(m)
  \/ \E c \in Chats \cup {NoChat} : Navigate(c) \/ Remount(c)
  \/ \E i \in 1..Len(fetches) : Answer(i) \/ Resolve(i) \/ Fail(i)
  \/ WsOpen
  \/ WsClose
  \/ RunEffects
  \/ OnMessage

Spec == Init /\ [][Next]_vars
-----------------------------------------------------------------------------
\* Every variable holds a value of its kind; a frame is of a published
\* message that the page has not handled.
TypeOK ==
  /\ stored \in Seq(Chats)
  /\ unsent \subseteq Ids
  /\ frames \in Seq(Ids \ (unsent \cup received)) /\ received \subseteq Ids \ unsent
  /\ ws \in {"connecting", "open", "closed"}
  /\ {route, ref} \subseteq Chats \cup {NoChat}
  /\ \A i \in 1..Len(fetches) :
       /\ fetches[i].kind \in {"messages", "chats"} /\ fetches[i].done \in BOOLEAN
       /\ fetches[i].kind = "messages" <=> fetches[i].chat \in Chats
       /\ fetches[i].page \in Seq(Ids) /\ fetches[i].previews \in [Chats -> {0} \cup Ids]
  /\ shown \in Seq(Ids)
  /\ list \in [Chats -> {0} \cup Ids]
  /\ races \subseteq {"hurried", "overtaken", "reordered", "failed"}
-----------------------------------------------------------------------------
(* Safety. *)

\* Nothing is under way that would change what is shown.
Settled == route = ref /\ ~Loading

\* What is shown is a list of messages without a repetition: an answer and
\* the frame of a message it contains come in either order, and the ids are
\* the keys of the rendered list (ChatsPage.tsx:75-78).
NoRepeats == IsInjective(shown)

\* If the user never switches while a history is loading, only messages of
\* the active chat are shown once it is loaded (ChatsPage.tsx:74, 97-104).
OnlyActiveChat ==
  Settled /\ races \cap {"hurried", "failed"} = {} =>
    \A i \in 1..Len(shown) : stored[shown[i]] = route

\* If moreover no frame comes while it is loading, whatever the socket
\* brought for the active chat is shown, before, during or after the switch,
\* unless a full page of newer ones is.
ReceivedIsShown ==
  Settled /\ races \cap {"hurried", "failed", "overtaken"} = {} =>
    \A m \in received :
      stored[m] = route =>
        \/ Contains(shown, m)
        \/ Cardinality({n \in ToSet(shown) : n > m}) >= Limit

\* When the answers of the chat list came in order and none is awaited, every
\* chat's preview is at least as new as what the socket brought for it, in
\* the active chat or another one (ChatsPage.tsx:80).
PreviewIsFresh ==
  races \cap {"failed", "reordered"} = {} /\ fetches = <<>> =>
    \A m \in received : list[stored[m]] >= m
=============================================================================
