------------------------------ MODULE SnapTurn ------------------------------
(***************************************************************************)
(* The turning logic of HandleInput_Default: pushing the primary stick to  *)
(* one side turns the player's view by vr_snapTurn degrees, and unless the *)
(* steps are small enough to make the turn a smooth one, only once for     *)
(* each push. A push begins past 0.6 of the way and is over below 0.4.     *)
(*                                                                         *)
(* Degrees are whole here. The code also moves the origin of the playing   *)
(* space to the head at every turn; that position is left out.             *)
(***************************************************************************)
EXTENDS Integers

VARIABLES
    snapTurn,                    \* the turn added to the head's own yaw
    increaseSnap, decreaseSnap   \* whether a push right or left will turn

turnVars == <<snapTurn, increaseSnap, decreaseSnap>>

TurnInit == snapTurn = 0 /\ increaseSnap = TRUE /\ decreaseSnap = TRUE

\* Where the stick is: past 0.6, between 0.4 and 0.6, or nearer the centre.
Positions == {"right", "leanRight", "centre", "leanLeft", "left"}

\* Mutant: only turns to the left are wrapped.
WrappedFromAbove(degrees) == IF degrees > 180 THEN degrees - 360 ELSE degrees

Wrapped(degrees) ==
    CASE degrees < -180 -> degrees + 360
      [] degrees > 180 -> degrees - 360
      [] OTHER -> degrees

\* A push that is allowed to turn does; a step of more than 10 degrees allows no
\* more turns until the stick was back.
Push(allowed, degrees) ==
    snapTurn' = IF allowed THEN Wrapped(snapTurn + degrees) ELSE snapTurn
StillAllowed(allowed, step) == allowed /\ step <= 10

\* Mutant: the stick is back as soon as it is no longer pushed.
TurnWithoutHysteresis(at, step) ==
    /\ increaseSnap' = (at # "right" \/ StillAllowed(increaseSnap, step))
    /\ decreaseSnap' = (at # "left" \/ StillAllowed(decreaseSnap, step))
    /\ \/ at = "right" /\ Push(increaseSnap, -step)
       \/ at = "left" /\ Push(decreaseSnap, step)
       \/ at \notin {"right", "left"} /\ UNCHANGED snapTurn

Turn(at, step) ==
    /\ increaseSnap' = CASE at = "right" -> StillAllowed(increaseSnap, step)
                         [] at = "leanRight" -> increaseSnap
                         [] OTHER -> TRUE
    /\ decreaseSnap' = CASE at = "left" -> StillAllowed(decreaseSnap, step)
                         [] at = "leanLeft" -> decreaseSnap
                         [] OTHER -> TRUE
    /\ \/ at = "right" /\ Push(increaseSnap, -step)
       \/ at = "left" /\ Push(decreaseSnap, step)
       \/ at \notin {"right", "left"} /\ UNCHANGED snapTurn
=============================================================================
