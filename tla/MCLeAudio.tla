----------------------------- MODULE MCLeAudio ------------------------------
(***************************************************************************)
(* One ASE (they share nothing but that they are configured), two output   *)
(* paths, of which one may hide the other, an input path, a slot for each  *)
(* and as many buffers.                                                    *)
(***************************************************************************)
EXTENDS LeAudio, TLC

Symmetries == Permutations(Bufs) \cup Permutations(Outputs)
=============================================================================
