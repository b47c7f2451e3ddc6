--------------------------- MODULE ChatBroadcast ---------------------------
(***************************************************************************)
(* What the real-time bridge of the chat promises, with no word of Redis,  *)
(* subscribers, workers or handlers: messages are announced one after the  *)
(* other, each by a participant of its chat to all of them, and whatever a *)
(* connection receives it receives once, in the order of the announcements *)
(* and as a participant.  Any connection may miss any message, and may end *)
(* for another to take its place.                                          *)
(***************************************************************************)
EXTENDS Naturals, Sequences

CONSTANTS Users, Conns, UserOf, Messages

VARIABLES
  log,     \* announced messages, in order: [msg, from, to]
  inbox    \* per connection: the messages it received, in order

bvars == <<log, inbox>>

BInit ==
  /\ log = <<>>
  /\ inbox = [c \in Conns |-> <<>>]

Announced(m) == \E k \in 1..Len(log) : log[k].msg = m
Has(c, m) == \E i \in 1..Len(inbox[c]) : inbox[c][i] = m

Announce(m, u, to) ==
  /\ ~Announced(m)
  /\ u \in to
  /\ log' = Append(log, [msg |-> m, from |-> u, to |-> to])
  /\ UNCHANGED inbox

\* The k-th message reaches a connection of a participant that has received
\* neither it nor a later one.
Deliver(k, c) ==
  /\ UserOf[c] \in log[k].to
  /\ \A j \in k..Len(log) : ~Has(c, log[j].msg)
  /\ inbox' = [inbox EXCEPT ![c] = Append(@, log[k].msg)]
  /\ UNCHANGED log

Leave(cs) ==
  /\ inbox' = [c \in Conns |-> IF c \in cs THEN <<>> ELSE inbox[c]]
  /\ UNCHANGED log

BNext ==
  \/ \E k \in 1..Len(log) : \E c \in Conns : Deliver(k, c)
  \/ \E cs \in SUBSET Conns : Leave(cs)
  \/ \E m \in Messages : \E to \in SUBSET Users : \E u \in to : Announce(m, u, to)

BSpec == BInit /\ [][BNext]_bvars
=============================================================================
