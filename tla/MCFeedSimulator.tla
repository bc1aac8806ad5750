-------------------------- MODULE MCFeedSimulator --------------------------
(* Small instances of FeedSimulator for TLC.                               *)
EXTENDS FeedSimulator, TLC

\* Sessions are interchangeable.
SessionSymmetry == Permutations(Sessions)
=============================================================================
