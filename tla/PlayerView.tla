----------------------------- MODULE PlayerView -----------------------------
(***************************************************************************)
(* Where the program believes the player's head to be, and which way the   *)
(* player faces: VR_SetHMDPosition and VR_SetHMDOrientation, called with    *)
(* the pose of every frame, and the snap turns, which move the origin the  *)
(* position is measured from to the head. The origin and the yaw are "not  *)
(* set" while they are 0.                                                  *)
(*                                                                         *)
(* A position is a pair <<x, z>> on the floor, in whole steps; a failed    *)
(* look-up of the pose is the position <<0, 0>>.                           *)
(***************************************************************************)
EXTENDS SnapTurn

VARIABLES
    hmdPosition, hmdOrigin, positionDelta,
    playerYaw,     \* the way the virtual screen faces
    \* history
    frame,         \* what kind of frame the last one was
    walked,        \* the steps of the head since the view was last recentred
    atZero         \* where the head had the coordinate x = 0

viewVars == <<turnVars, hmdPosition, hmdOrigin, positionDelta, playerYaw,
              frame, walked, atZero>>

Zero == <<0, 0>>
Minus(p, q) == <<p[1] - q[1], p[2] - q[2]>>
Plus(p, q) == <<p[1] + q[1], p[2] + q[2]>>

\* VR_Init, in a process that has just begun.
VR_Init ==
    /\ TurnInit
    /\ hmdPosition = Zero /\ hmdOrigin = Zero /\ positionDelta = Zero /\ playerYaw = 0
    /\ frame = "none" /\ walked = Zero /\ atZero = FALSE
VR_InitAgain ==
    /\ snapTurn' = 0 /\ increaseSnap' = TRUE /\ decreaseSnap' = TRUE
    /\ hmdPosition' = Zero /\ hmdOrigin' = Zero /\ positionDelta' = Zero /\ playerYaw' = 0
    /\ frame' = "none" /\ walked' = Zero /\ atZero' = FALSE

\* Mutant: the origin is known by where the head is.
OriginByHead(position, screenLayer) ==
    IF screenLayer \/ hmdPosition[1] = 0 THEN position ELSE hmdOrigin

Origin(position, screenLayer) ==
    IF screenLayer \/ hmdOrigin[1] = 0 THEN position ELSE hmdOrigin

\* The stick is at a place that turns the view.
Turns(at) == (at = "right" /\ increaseSnap) \/ (at = "left" /\ decreaseSnap)

\* The first frame and those with the virtual screen recentre the view where the
\* head is now, the frame after a turn where it was then.
Remember(position, screenLayer, turns) ==
    LET here == screenLayer \/ frame = "none"
        step == Minus(position, hmdPosition)
    IN  /\ frame' = IF turns THEN "turn" ELSE "walk"
        /\ walked' = CASE here -> Zero
                       [] ~here /\ frame = "turn" -> step
                       [] OTHER -> Plus(walked, step)
        /\ atZero' = CASE here -> position[1] = 0
                       [] ~here /\ frame = "turn" -> hmdPosition[1] = 0
                       [] OTHER -> atZero

\* A frame: the pose, if the frame has a display time to look it up for, then the
\* sticks, if they are read (in the game, with the dominant grip released).
ViewFrame(located, position, yaw, screenLayer, sticksRead, at, vr_snapTurn) ==
    LET turns == sticksRead /\ Turns(at)
        head == IF located THEN position ELSE hmdPosition
        origin == IF located THEN Origin(position, screenLayer) ELSE hmdOrigin
    IN  /\ hmdPosition' = head
        /\ hmdOrigin' = IF turns THEN head ELSE origin
        /\ positionDelta' = IF located THEN Minus(head, origin) ELSE positionDelta
        /\ playerYaw' = IF located /\ (~screenLayer \/ playerYaw = 0) THEN yaw ELSE playerYaw
        /\ IF sticksRead THEN Turn(at, vr_snapTurn) ELSE UNCHANGED turnVars
        /\ IF located THEN Remember(position, screenLayer, turns)
           ELSE /\ frame' = IF turns /\ frame # "none" THEN "turn" ELSE frame
                /\ UNCHANGED <<walked, atZero>>
=============================================================================
