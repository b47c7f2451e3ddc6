--------------------------- MODULE MCChatDelivery ---------------------------
(* Instances of ChatDelivery for TLC: who the connections belong to and    *)
(* which API worker serves them.                                           *)
EXTENDS ChatDelivery, TLC

CONSTANTS alice, bob, carol,       \* users
          a1, b1, b2,              \* alice's connection and bob's two tabs
          w1, w2                   \* API workers

TheUserOf == [c \in Conns |-> IF c = a1 THEN alice ELSE bob]
TheWorkerOf == [c \in Conns |-> IF c = a1 THEN w1 ELSE w2]
=============================================================================
