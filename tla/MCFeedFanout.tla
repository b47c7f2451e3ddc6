---------------------------- MODULE MCFeedFanout ----------------------------
(* Instances of FeedFanout for TLC. *)
EXTENDS FeedFanout, TLC

\* The slots of concurrent requests are interchangeable.
SlotSymmetry == Permutations(Posters)
=============================================================================
