----------------------------- MODULE MCPresence -----------------------------
(* Instances of Presence for TLC: the tabs of one or two users, spread over *)
(* two API workers.                                                         *)
EXTENDS Presence, TLC

CONSTANTS alice, bob,          \* users
          a1, a2, a3, b1,      \* their tabs
          w1, w2               \* API workers

TheUserOf == [c \in Conns |-> IF c = b1 THEN bob ELSE alice]
TheWorkerOf == [c \in Conns |-> IF c = a3 THEN w2 ELSE w1]
=============================================================================
