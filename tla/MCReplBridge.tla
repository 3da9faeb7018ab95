---------------------------- MODULE MCReplBridge ----------------------------
(***************************************************************************)
(* ReplBridge with two or three clients, which are interchangeable.        *)
(***************************************************************************)
EXTENDS ReplBridge, TLC

SessionSymmetry == Permutations(Sessions)
=============================================================================
