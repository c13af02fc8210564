-------------------------- MODULE FrameDiscipline --------------------------
(***************************************************************************)
(* What the OpenXR runtime may rely on: the program opens a frame only in  *)
(* a running session, draws into a swapchain image only in an open frame,  *)
(* gives the image back before it closes the frame, and stops the session  *)
(* only between frames. XrSession implements this.                         *)
(***************************************************************************)
VARIABLE stage   \* how far the program has come with the session and its frame

DisciplineTypeOK == stage \in {"down", "up", "open", "drawing", "drawn", "left"}

DisciplineInit == stage = "down"

BeginSession == stage = "down" /\ stage' = "up"
EndSession == stage = "up" /\ stage' = "down"
OpenFrame == stage = "up" /\ stage' = "open"
TakeImage == stage = "open" /\ stage' = "drawing"
GiveImageBack == stage = "drawing" /\ stage' = "drawn"
CloseFrame == stage = "drawn" /\ stage' = "up"
Leave == stage # "left" /\ stage' = "left"

DisciplineNext ==
    \/ BeginSession \/ EndSession
    \/ OpenFrame \/ TakeImage \/ GiveImageBack \/ CloseFrame
    \/ Leave

DisciplineSpec == DisciplineInit /\ [][DisciplineNext]_stage
=============================================================================
