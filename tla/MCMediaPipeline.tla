-------------------------- MODULE MCMediaPipeline --------------------------
(* Instances of MediaPipeline for TLC. *)
EXTENDS MediaPipeline, TLC

\* Images and videos are interchangeable among themselves; so are slots.
MediaSymmetry ==
  Permutations(Images) \cup Permutations(Requests) \cup Permutations(Workers)
=============================================================================
