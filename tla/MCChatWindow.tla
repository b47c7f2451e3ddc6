---------------------------- MODULE MCChatWindow ----------------------------
(* Instances of ChatWindow for TLC. *)
EXTENDS ChatWindow, TLC

\* The chats are alike.
ChatSymmetry == Permutations(Chats)
=============================================================================
