----------------------------- MODULE MCFeedList -----------------------------
(* Instance of FeedList for TLC.                                           *)
EXTENDS FeedList, TLC
=============================================================================
