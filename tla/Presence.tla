------------------------------ MODULE Presence ------------------------------
(***************************************************************************)
(* Who is shown online: the WebSocket handler (realtime/ws.py) keeps the   *)
(* Redis key online:{user} with a time to live, and the registry of its    *)
(* own process (connection_manager.py); GET /users (api/users.py) shows a  *)
(* user online when the key exists.  A user's connections may be served by *)
(* several API workers, which share nothing but the key.                   *)
(*                                                                         *)
(* Time passes in ticks.  What a handler does between two awaits is one    *)
(* action, so the count of local connections and the DELETE that follows   *)
(* from it are two.                                                        *)
(***************************************************************************)
EXTENDS Naturals, FiniteSets

CONSTANTS Users, Workers, Conns,
          UserOf, WorkerOf,   \* whose token a connection carries, and where it is
          TTL,                \* life of the key, in ticks; 60 s in the code
          MayFail             \* Redis calls fail and workers are killed

ASSUME PlacementAssumption == UserOf \in [Conns -> Users] /\ WorkerOf \in [Conns -> Workers]
ASSUME FiniteAssumption == IsFiniteSet(Conns)
ASSUME TTLAssumption == TTL \in Nat \ {0}
ASSUME FailuresAssumption == MayFail \in BOOLEAN

VARIABLES
  online,    \* per user, the ticks online:{user} has left; 0 if there is no key
  registry,  \* connections held by the manager of their worker
  pc,        \* per connection, where its handler is
  quiet,     \* history: ticks since the handler's last SET or EXPIRE
  alone,     \* history: since its SET, no other handler of the user ran, and it
             \* was never silent for a whole TTL
  gone,      \* history: per user, ticks without any serving handler
  failed     \* history: per user, whether anything failed around its keys

clocks == <<quiet, alone, gone>>
vars == <<online, registry, pc, quiet, alone, gone, failed>>

Pcs == {"off", "accepted", "ready", "leaving", "leaked"}
Serving(u) == {c \in Conns : UserOf[c] = u /\ pc[c] \in {"accepted", "ready"}}
Running(u) == {c \in Conns : UserOf[c] = u /\ pc[c] \in {"accepted", "ready", "leaving"}}

\* manager.user_count(user) on worker w, of a registry R.
UserCount(R, u, w) == Cardinality({c \in R : UserOf[c] = u /\ WorkerOf[c] = w})

Capped(n) == IF n < TTL THEN n + 1 ELSE TTL

Init ==
  /\ online = [u \in Users |-> 0]
  /\ registry = {}
  /\ pc = [c \in Conns |-> "off"]
  /\ quiet = [c \in Conns |-> 0]
  /\ alone = [c \in Conns |-> FALSE]
  /\ gone = [u \in Users |-> 0]
  /\ failed = [u \in Users |-> FALSE]
-----------------------------------------------------------------------------
\* manager.connect: accept, then add to the registry.
Register(c) ==
  /\ pc[c] = "off"
  /\ registry' = registry \cup {c}
  /\ pc' = [pc EXCEPT ![c] = "accepted"]
  /\ alone' = [d \in Conns |-> alone[d] /\ UserOf[d] # UserOf[c]]
  /\ gone' = [gone EXCEPT ![UserOf[c]] = 0]
  /\ UNCHANGED <<online, quiet, failed>>

\* Faulty variant: the key lives longer than the refresh believes.
SetOnlineLonger(c) ==
  /\ pc[c] = "accepted"
  /\ online' = [online EXCEPT ![UserOf[c]] = 2 * TTL]
  /\ pc' = [pc EXCEPT ![c] = "ready"]
  /\ quiet' = [quiet EXCEPT ![c] = 0]
  /\ alone' = [alone EXCEPT ![c] = Running(UserOf[c]) = {c}]
  /\ UNCHANGED <<registry, gone, failed>>

\* SET online:{user} EX 60, and the ready frame.
SetOnline(c) ==
  /\ pc[c] = "accepted"
  /\ online' = [online EXCEPT ![UserOf[c]] = TTL]
  /\ pc' = [pc EXCEPT ![c] = "ready"]
  /\ quiet' = [quiet EXCEPT ![c] = 0]
  /\ alone' = [alone EXCEPT ![c] = Running(UserOf[c]) = {c}]
  /\ UNCHANGED <<registry, gone, failed>>

\* SET or the ready frame raises, before the try: no finally clause runs,
\* and the registry keeps the connection.
HandshakeFails(c) ==
  /\ MayFail
  /\ pc[c] = "accepted"
  /\ \E done \in BOOLEAN :
       online' = IF done THEN [online EXCEPT ![UserOf[c]] = TTL] ELSE online
  /\ pc' = [pc EXCEPT ![c] = "leaked"]
  /\ failed' = [failed EXCEPT ![UserOf[c]] = TRUE]
  /\ UNCHANGED <<registry, clocks>>

\* Faulty variant: the key is only refreshed for the user's only connection.
RefreshSole(c) ==
  /\ pc[c] = "ready"
  /\ online' = [online EXCEPT ![UserOf[c]] =
                  IF @ > 0 /\ Cardinality(Running(UserOf[c])) > 1 THEN TTL ELSE @]
  /\ quiet' = [quiet EXCEPT ![c] = 0]
  /\ UNCHANGED <<registry, pc, alone, gone, failed>>

\* Faulty variant: a handler that leaves refreshes the key once more.
RefreshLeaving(c) ==
  /\ pc[c] \in {"ready", "leaving"}
  /\ online' = [online EXCEPT ![UserOf[c]] = IF @ > 0 THEN TTL ELSE 0]
  /\ quiet' = [quiet EXCEPT ![c] = 0]
  /\ UNCHANGED <<registry, pc, alone, gone, failed>>

\* A frame was handled: EXPIRE, which does nothing when there is no key.
Refresh(c) ==
  /\ pc[c] = "ready"
  /\ online' = [online EXCEPT ![UserOf[c]] = IF @ > 0 THEN TTL ELSE 0]
  /\ quiet' = [quiet EXCEPT ![c] = 0]
  /\ UNCHANGED <<registry, pc, alone, gone, failed>>

\* Faulty variant: the connections are counted before this one is removed.
LeaveCountFirst(c) ==
  /\ pc[c] = "ready"
  /\ registry' = registry \ {c}
  /\ pc' = [pc EXCEPT ![c] = IF UserCount(registry, UserOf[c], WorkerOf[c]) = 0
                               THEN "leaving" ELSE "off"]
  /\ UNCHANGED <<online, clocks, failed>>

\* The finally clause, after a disconnect or an exception in the loop.
Leave(c) ==
  /\ pc[c] = "ready"
  /\ registry' = registry \ {c}
  /\ pc' = [pc EXCEPT ![c] = IF UserCount(registry \ {c}, UserOf[c], WorkerOf[c]) = 0
                               THEN "leaving" ELSE "off"]
  /\ UNCHANGED <<online, clocks, failed>>

DeleteOnline(c) ==
  /\ pc[c] = "leaving"
  /\ online' = [online EXCEPT ![UserOf[c]] = 0]
  /\ pc' = [pc EXCEPT ![c] = "off"]
  /\ UNCHANGED <<registry, clocks, failed>>

\* The DELETE raises, which is swallowed.
DeleteFails(c) ==
  /\ MayFail
  /\ pc[c] = "leaving"
  /\ pc' = [pc EXCEPT ![c] = "off"]
  /\ failed' = [failed EXCEPT ![UserOf[c]] = TRUE]
  /\ UNCHANGED <<online, registry, clocks>>

\* The process is killed: its registry and its handlers are gone.
WorkerDies(w) ==
  /\ MayFail
  /\ LET its == {c \in Conns : WorkerOf[c] = w} IN
       /\ \E c \in its : pc[c] # "off"
       /\ registry' = registry \ its
       /\ pc' = [c \in Conns |-> IF c \in its THEN "off" ELSE pc[c]]
       /\ failed' = [u \in Users |-> \/ failed[u]
                                     \/ \E c \in its : UserOf[c] = u /\ pc[c] # "off"]
  /\ UNCHANGED <<online, clocks>>

Tick ==
  /\ online' = [u \in Users |-> IF online[u] > 0 THEN online[u] - 1 ELSE 0]
  /\ quiet' = [c \in Conns |-> Capped(quiet[c])]
  /\ alone' = [c \in Conns |-> alone[c] /\ quiet[c] + 1 < TTL]
  /\ gone' = [u \in Users |-> IF Serving(u) = {} THEN Capped(gone[u]) ELSE 0]
  /\ UNCHANGED <<registry, pc, failed>>
-----------------------------------------------------------------------------
Next ==
  \/ \E c \in Conns :
       \/ Register(c) \/ SetOnline(c) \/ HandshakeFails(c) \/ Refresh(c)
       \/ Leave(c) \/ DeleteOnline(c) \/ DeleteFails(c)
  \/ \E w \in Workers : WorkerDies(w)
  \/ Tick

Spec == Init /\ [][Next]_vars
-----------------------------------------------------------------------------
\* Every variable holds a value of its kind, and a handler that runs is in
\* the registry until it leaves.
TypeOK ==
  /\ online \in [Users -> 0..TTL]
  /\ registry \subseteq Conns
  /\ pc \in [Conns -> Pcs]
  /\ quiet \in [Conns -> 0..TTL]
  /\ alone \in [Conns -> BOOLEAN]
  /\ gone \in [Users -> 0..TTL]
  /\ failed \in [Users -> BOOLEAN]
  /\ registry = {c \in Conns : pc[c] \in {"accepted", "ready", "leaked"}}

\* Nobody is shown online longer than the time to live after the last handler
\* that served them stopped, through kills, failed DELETEs and leaked
\* registry entries (ws.py:54-77).
OnlineIsRecent == \A u \in Users : online[u] > 0 => online[u] + gone[u] <= TTL

\* When nothing failed, the last of a user's handlers to end leaves no key,
\* whatever workers and however many tabs there were (ws.py:70-77): the one
\* that found others registered is never the last.
GoneIsOffline ==
  \A u \in Users : Running(u) = {} /\ ~failed[u] => online[u] = 0

\* Only another connection of the same user, or silence, takes a connected
\* user offline (ws.py:57-67).
AloneStaysOnline ==
  \A c \in Conns :
    pc[c] = "ready" /\ alone[c] => online[UserOf[c]] > 0
-----------------------------------------------------------------------------
(* What comments and specifications say and the code does not do. *)

\* ws.py:66: the refresh that follows a frame keeps the user online.
RefreshKeepsOnline ==
  [][\A c \in Conns :
       pc[c] = "ready" /\ pc'[c] = "ready" /\ quiet[c] > 0 /\ quiet'[c] = 0
         => online'[UserOf[c]] > 0]_vars
=============================================================================
