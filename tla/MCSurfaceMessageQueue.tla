----------------------- MODULE MCSurfaceMessageQueue -----------------------
(* TLC instances of SurfaceMessageQueue: two message identifiers, two or    *)
(* three slots, and enough posts for the buffer to wrap round.              *)
EXTENDS SurfaceMessageQueue, TLC

CONSTANTS m1, m2

MCIds == {m1, m2}
AllWaits == {"NONE", "RECEIVED", "PROCESSED"}

IdSymmetry == Permutations(MCIds)
=============================================================================
