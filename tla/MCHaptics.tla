------------------------------- MODULE MCHaptics -------------------------------
(* TLC instances of Haptics: requests of a few milliseconds, longer and shorter  *)
(* than a frame and than a step of the clock.                                    *)
EXTENDS Haptics

ShortAndEndless == {-1, 0, 7}
=============================================================================
