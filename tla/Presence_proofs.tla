--------------------------- MODULE Presence_proofs ---------------------------
(***************************************************************************)
(* Proofs about Presence for any users, workers and placement of finitely  *)
(* many connections, any time to live, and with failures or without.       *)
(*                                                                         *)
(* None of the three properties is inductive.  The invariant adds why they *)
(* hold: the clock of a served user stands still, a leaked registry entry  *)
(* counts as a failure, and a connection that was alone since its SET is   *)
(* the only handler of its user and has used up less of the key's life     *)
(* than was silent.                                                        *)
(***************************************************************************)
EXTENDS Presence, FiniteSetTheorems, TLAPS

ServedNow == \A u \in Users : Serving(u) # {} => gone[u] = 0

LeaksFailed == \A c \in Conns : pc[c] = "leaked" => failed[UserOf[c]]

AloneKept ==
  \A c \in Conns :
    pc[c] = "ready" /\ alone[c] =>
      /\ Running(UserOf[c]) = {c}
      /\ quiet[c] < TTL
      /\ online[UserOf[c]] + quiet[c] >= TTL

\* The inductive invariant.
IInv ==
  /\ TypeOK
  /\ ServedNow
  /\ OnlineIsRecent
  /\ LeaksFailed
  /\ GoneIsOffline
  /\ AloneKept
-----------------------------------------------------------------------------
\* The time to live and the placement have their types.
LEMMA Constants ==
  /\ TTL \in Nat /\ TTL > 0
  /\ \A c \in Conns : UserOf[c] \in Users
BY TTLAssumption, PlacementAssumption

\* A clock that counts to its cap counts one up, or stands there.
LEMMA CappedRange ==
  ASSUME NEW n \in 0..TTL
  PROVE  Capped(n) \in 0..TTL /\ (n < TTL => Capped(n) = n + 1)
                              /\ (n = TTL => Capped(n) = TTL)
BY Constants DEF Capped

\* A worker whose registry counts none of a user's connections has none.
LEMMA NoneCounted ==
  ASSUME NEW R \in SUBSET Conns, NEW u, NEW w, UserCount(R, u, w) # 0
  PROVE  \E d \in R : UserOf[d] = u
<1> DEFINE S == {d \in R : UserOf[d] = u /\ WorkerOf[d] = w}
<1>1. S # {}
  <2> SUFFICES ASSUME S = {} PROVE FALSE
    OBVIOUS
  <2> QED BY FS_EmptySet DEF UserCount
<1> QED BY <1>1

\* Every initial state satisfies the invariant.
LEMMA InitInvariant == Init => IInv
<1> SUFFICES ASSUME Init PROVE IInv
  OBVIOUS
<1> USE Constants DEF Init
<1>1. TypeOK
  BY DEF TypeOK, Pcs
<1>2. ServedNow /\ OnlineIsRecent /\ LeaksFailed /\ GoneIsOffline
  BY DEF ServedNow, Serving, OnlineIsRecent, LeaksFailed, GoneIsOffline
<1>3. AloneKept
  BY DEF AloneKept
<1> QED BY <1>1, <1>2, <1>3 DEF IInv
-----------------------------------------------------------------------------
\* Every step keeps the types.
LEMMA TypeStep ==
  ASSUME TypeOK, [Next]_vars
  PROVE  TypeOK'
<1> USE Constants DEF TypeOK, Pcs, clocks
<1>1. ASSUME NEW c \in Conns, Register(c) PROVE TypeOK'
  BY <1>1 DEF Register
<1>2. ASSUME NEW c \in Conns, SetOnline(c) PROVE TypeOK'
  BY <1>2 DEF SetOnline
<1>3. ASSUME NEW c \in Conns, HandshakeFails(c) PROVE TypeOK'
  BY <1>3 DEF HandshakeFails
<1>4. ASSUME NEW c \in Conns, Refresh(c) PROVE TypeOK'
  BY <1>4 DEF Refresh
<1>5. ASSUME NEW c \in Conns, Leave(c) PROVE TypeOK'
  BY <1>5 DEF Leave
<1>6. ASSUME NEW c \in Conns, DeleteOnline(c) PROVE TypeOK'
  BY <1>6 DEF DeleteOnline
<1>7. ASSUME NEW c \in Conns, DeleteFails(c) PROVE TypeOK'
  BY <1>7 DEF DeleteFails
<1>8. ASSUME NEW w \in Workers, WorkerDies(w) PROVE TypeOK'
  BY <1>8 DEF WorkerDies
<1>9. CASE Tick
  <2>1. online' \in [Users -> 0..TTL]
    BY <1>9 DEF Tick
  <2>2. quiet' \in [Conns -> 0..TTL]
    BY <1>9, CappedRange DEF Tick
  <2>3. gone' \in [Users -> 0..TTL]
    BY <1>9, CappedRange DEF Tick
  <2> QED BY <1>9, <2>1, <2>2, <2>3 DEF Tick
<1>10. CASE UNCHANGED vars
  BY <1>10 DEF vars
<1> QED BY <1>1, <1>2, <1>3, <1>4, <1>5, <1>6, <1>7, <1>8, <1>9, <1>10 DEF Next
-----------------------------------------------------------------------------
\* The clock of a user who is served stands at zero, and the key's life and
\* the time since the last service make up at most one time to live.
LEMMA RecentStep ==
  ASSUME TypeOK, ServedNow, OnlineIsRecent, [Next]_vars
  PROVE  ServedNow' /\ OnlineIsRecent'
<1> USE Constants DEF TypeOK, ServedNow, OnlineIsRecent, Serving, clocks
<1>1. ASSUME NEW c \in Conns, Register(c) PROVE ServedNow' /\ OnlineIsRecent'
  BY <1>1 DEF Register
<1>2. ASSUME NEW c \in Conns, SetOnline(c) PROVE ServedNow' /\ OnlineIsRecent'
  BY <1>2 DEF SetOnline
<1>3. ASSUME NEW c \in Conns, HandshakeFails(c) PROVE ServedNow' /\ OnlineIsRecent'
  BY <1>3 DEF HandshakeFails
<1>4. ASSUME NEW c \in Conns, Refresh(c) PROVE ServedNow' /\ OnlineIsRecent'
  BY <1>4 DEF Refresh
<1>5. ASSUME NEW c \in Conns, Leave(c) PROVE ServedNow' /\ OnlineIsRecent'
  BY <1>5 DEF Leave
<1>6. ASSUME NEW c \in Conns, DeleteOnline(c) PROVE ServedNow' /\ OnlineIsRecent'
  BY <1>6 DEF DeleteOnline
<1>7. ASSUME NEW c \in Conns, DeleteFails(c) PROVE ServedNow' /\ OnlineIsRecent'
  BY <1>7 DEF DeleteFails
<1>8. ASSUME NEW w \in Workers, WorkerDies(w) PROVE ServedNow' /\ OnlineIsRecent'
  BY <1>8 DEF WorkerDies
<1>9. CASE Tick
  <2>1. ServedNow'
    BY <1>9 DEF Tick
  <2>2. ASSUME NEW u \in Users, online'[u] > 0 PROVE online'[u] + gone'[u] <= TTL
    <3>1. online[u] > 0 /\ online'[u] = online[u] - 1
      BY <1>9, <2>2 DEF Tick
    <3>2. gone[u] < TTL /\ gone'[u] <= gone[u] + 1
      BY <1>9, <3>1, CappedRange DEF Tick
    <3> QED BY <1>9, <3>1, <3>2, CappedRange DEF Tick
  <2> QED BY <2>1, <2>2
<1>10. CASE UNCHANGED vars
  BY <1>10 DEF vars
<1> QED BY <1>1, <1>2, <1>3, <1>4, <1>5, <1>6, <1>7, <1>8, <1>9, <1>10 DEF Next
-----------------------------------------------------------------------------
\* A leak is a failure of its user, and as long as nothing failed a key has
\* a handler that will delete it.
LEMMA GoneStep ==
  ASSUME TypeOK, LeaksFailed, GoneIsOffline, [Next]_vars
  PROVE  LeaksFailed' /\ GoneIsOffline'
<1> USE Constants DEF TypeOK, LeaksFailed, GoneIsOffline, Running, clocks
<1>1. ASSUME NEW c \in Conns, Register(c) PROVE LeaksFailed' /\ GoneIsOffline'
  BY <1>1 DEF Register
<1>2. ASSUME NEW c \in Conns, SetOnline(c) PROVE LeaksFailed' /\ GoneIsOffline'
  BY <1>2 DEF SetOnline
<1>3. ASSUME NEW c \in Conns, HandshakeFails(c) PROVE LeaksFailed' /\ GoneIsOffline'
  BY <1>3 DEF HandshakeFails
<1>4. ASSUME NEW c \in Conns, Refresh(c) PROVE LeaksFailed' /\ GoneIsOffline'
  BY <1>4 DEF Refresh
<1>5. ASSUME NEW c \in Conns, Leave(c) PROVE LeaksFailed' /\ GoneIsOffline'
  <2> DEFINE u == UserOf[c]
  <2>1. CASE UserCount(registry \ {c}, u, WorkerOf[c]) = 0
    BY <1>5, <2>1 DEF Leave
  <2>2. CASE UserCount(registry \ {c}, u, WorkerOf[c]) # 0
    <3>1. PICK d \in registry \ {c} : UserOf[d] = u
      BY <2>2, NoneCounted
    <3>2. ~failed[u] => d \in Running(u)'
      BY <1>5, <3>1 DEF Leave
    <3> QED BY <1>5, <3>2 DEF Leave
  <2> QED BY <2>1, <2>2
<1>6. ASSUME NEW c \in Conns, DeleteOnline(c) PROVE LeaksFailed' /\ GoneIsOffline'
  BY <1>6 DEF DeleteOnline
<1>7. ASSUME NEW c \in Conns, DeleteFails(c) PROVE LeaksFailed' /\ GoneIsOffline'
  BY <1>7 DEF DeleteFails
<1>8. ASSUME NEW w \in Workers, WorkerDies(w) PROVE LeaksFailed' /\ GoneIsOffline'
  BY <1>8 DEF WorkerDies
<1>9. CASE Tick
  BY <1>9 DEF Tick
<1>10. CASE UNCHANGED vars
  BY <1>10 DEF vars
<1> QED BY <1>1, <1>2, <1>3, <1>4, <1>5, <1>6, <1>7, <1>8, <1>9, <1>10 DEF Next
-----------------------------------------------------------------------------
\* A connection that is alone stays the only handler of its user, and spends
\* no more of the key's life than it was silent.
LEMMA AloneStep ==
  ASSUME TypeOK, AloneKept, [Next]_vars
  PROVE  AloneKept'
<1> USE Constants DEF TypeOK, AloneKept, Running, clocks
<1>1. ASSUME NEW c \in Conns, Register(c) PROVE AloneKept'
  BY <1>1 DEF Register
<1>2. ASSUME NEW c \in Conns, SetOnline(c) PROVE AloneKept'
  <2> DEFINE u == UserOf[c]
  <2>1. \A v : Running(v)' = Running(v)
    BY <1>2 DEF SetOnline
  <2>2. c \in Running(u)
    BY <1>2 DEF SetOnline
  <2>3. online'[u] = TTL /\ quiet'[c] = 0 /\ (alone'[c] => Running(u) = {c})
    BY <1>2 DEF SetOnline
  <2> SUFFICES ASSUME NEW d \in Conns, pc'[d] = "ready", alone'[d]
               PROVE  /\ Running(UserOf[d])' = {d}
                      /\ quiet'[d] < TTL
                      /\ online'[UserOf[d]] + quiet'[d] >= TTL
    OBVIOUS
  <2>4. CASE d = c
    <3>1. Running(u)' = {c}
      BY <2>1, <2>3, <2>4
    <3> QED BY <2>3, <2>4, <3>1
  <2>5. CASE d # c
    <3>1. pc[d] = "ready" /\ alone[d] /\ quiet'[d] = quiet[d]
      BY <1>2, <2>5 DEF SetOnline
    <3>2. UserOf[d] # u
      BY <2>2, <2>5, <3>1
    <3>3. online'[UserOf[d]] = online[UserOf[d]]
      BY <1>2, <3>2 DEF SetOnline
    <3>4. Running(UserOf[d])' = {d}
      BY <2>1, <3>1
    <3> QED BY <3>1, <3>3, <3>4
  <2> QED BY <2>4, <2>5
<1>3. ASSUME NEW c \in Conns, HandshakeFails(c) PROVE AloneKept'
  BY <1>3 DEF HandshakeFails
<1>4. ASSUME NEW c \in Conns, Refresh(c) PROVE AloneKept'
  BY <1>4 DEF Refresh
<1>5. ASSUME NEW c \in Conns, Leave(c) PROVE AloneKept'
  BY <1>5 DEF Leave
<1>6. ASSUME NEW c \in Conns, DeleteOnline(c) PROVE AloneKept'
  BY <1>6 DEF DeleteOnline
<1>7. ASSUME NEW c \in Conns, DeleteFails(c) PROVE AloneKept'
  BY <1>7 DEF DeleteFails
<1>8. ASSUME NEW w \in Workers, WorkerDies(w) PROVE AloneKept'
  <2> SUFFICES ASSUME NEW d \in Conns, pc'[d] = "ready", alone'[d]
               PROVE  /\ Running(UserOf[d])' = {d}
                      /\ quiet'[d] < TTL
                      /\ online'[UserOf[d]] + quiet'[d] >= TTL
    OBVIOUS
  <2>1. pc[d] = "ready" /\ alone[d] /\ quiet'[d] = quiet[d] /\ online' = online
    BY <1>8 DEF WorkerDies
  <2>2. \A e \in Conns : pc'[e] = "off" \/ pc'[e] = pc[e]
    BY <1>8 DEF WorkerDies
  <2>3. Running(UserOf[d])' = {d}
    BY <2>1, <2>2
  <2> QED BY <2>1, <2>3
<1>9. CASE Tick
  <2> SUFFICES ASSUME NEW d \in Conns, pc'[d] = "ready", alone'[d]
               PROVE  /\ Running(UserOf[d])' = {d}
                      /\ quiet'[d] < TTL
                      /\ online'[UserOf[d]] + quiet'[d] >= TTL
    OBVIOUS
  <2>1. pc[d] = "ready" /\ alone[d] /\ quiet[d] + 1 < TTL
    BY <1>9 DEF Tick
  <2>2. quiet'[d] = quiet[d] + 1
    BY <1>9, <2>1, CappedRange DEF Tick
  <2>3. online'[UserOf[d]] = online[UserOf[d]] - 1
    BY <1>9, <2>1 DEF Tick
  <2>4. Running(UserOf[d])' = Running(UserOf[d])
    BY <1>9 DEF Tick
  <2> QED BY <2>1, <2>2, <2>3, <2>4
<1>10. CASE UNCHANGED vars
  BY <1>10 DEF vars
<1> QED BY <1>1, <1>2, <1>3, <1>4, <1>5, <1>6, <1>7, <1>8, <1>9, <1>10 DEF Next
-----------------------------------------------------------------------------
\* The invariant holds in every reachable state.
THEOREM Invariant == Spec => []IInv
<1>1. IInv /\ [Next]_vars => IInv'
  BY TypeStep, RecentStep, GoneStep, AloneStep DEF IInv
<1> QED BY InitInvariant, <1>1, PTL DEF Spec

\* Every variable keeps its type, and the registry holds exactly the handlers
\* that serve and the entries that leaked (ws.py:56-77).
THEOREM TypeCorrect == Spec => []TypeOK
<1>1. IInv => TypeOK
  BY DEF IInv
<1> QED BY Invariant, <1>1, PTL

\* Nobody is shown online longer than the time to live after the last handler
\* that served them stopped (ws.py:54-77).
THEOREM RecentlyOnline == Spec => []OnlineIsRecent
<1>1. IInv => OnlineIsRecent
  BY DEF IInv
<1> QED BY Invariant, <1>1, PTL

\* When nothing failed, the last handler of a user to end leaves no key
\* (ws.py:70-77).
THEOREM GoneGoesOffline == Spec => []GoneIsOffline
<1>1. IInv => GoneIsOffline
  BY DEF IInv
<1> QED BY Invariant, <1>1, PTL

\* A user with one connection that sends in time is online (ws.py:57-67).
THEOREM AloneIsOnline == Spec => []AloneStaysOnline
<1>1. IInv => AloneStaysOnline
  BY Constants DEF IInv, TypeOK, AloneKept, AloneStaysOnline
<1> QED BY Invariant, <1>1, PTL
=============================================================================
