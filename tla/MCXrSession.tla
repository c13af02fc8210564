---------------------------- MODULE MCXrSession ----------------------------
(* XrSession with interchangeable space handles, for TLC. *)
EXTENDS XrSession, TLC

HandleSymmetry == Permutations(Handles)
=============================================================================
