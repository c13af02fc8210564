----------------------------- MODULE XrSession -----------------------------
(***************************************************************************)
(* The OpenXR session of RazeXR and its frame loop (TBXR_Common.cpp): the  *)
(* events the runtime queues and ovrApp_HandleXrEvents polls, the          *)
(* reference spaces TBXR_Recenter replaces, and the frame that             *)
(* TBXR_FrameSetup opens and TBXR_submitFrame closes, up to TBXR_LeaveVR.  *)
(*                                                                         *)
(* The runtime is external. It is modelled by the session states it goes   *)
(* through, as seen in the events the code handles, and by the calls it    *)
(* refuses: calls out of order and calls on dead handles. The code ignores *)
(* the result of every call but xrBeginSession and                         *)
(* xrGetReferenceSpaceBoundsRect.                                          *)
(***************************************************************************)
EXTENDS Naturals, Sequences

CONSTANTS
    Handles,      \* XrSpace handles the runtime may hand out
    NULL,         \* XR_NULL_HANDLE
    MaxEvents,    \* events the runtime queues
    Failing,      \* the calls that may fail
    MayLose       \* whether a full event queue loses events

Calls == {"begin", "createSpace", "bounds", "waitFrame", "locate"}

ASSUME XrAssumption ==
    /\ NULL \notin Handles
    /\ MaxEvents \in Nat \ {0}
    /\ Failing \subseteq Calls
    /\ MayLose \in BOOLEAN

VARIABLES
    \* the runtime
    rtState,      \* the session state
    rtRunning,    \* between xrBeginSession and xrEndSession
    events,       \* queued events
    spaces,       \* live spaces
    frame,        \* idle, waited (xrWaitFrame) or begun (xrBeginFrame)
    image,        \* whether the program holds a swapchain image
    refused,      \* calls the runtime refused
    \* the program
    pc,
    SessionActive, Focused, FrameSetup, destroyed,
    stageSupported, recenter,
    HeadSpace, StageSpace, FakeStageSpace, CurrentSpace,
    displayTime,  \* whether FrameState.predictedDisplayTime is not 0
    poseSpace     \* the space xfStageFromHead was measured in

runtime == <<rtState, rtRunning, events>>
rtFrame == <<frame, image>>
spaceVars == <<spaces, HeadSpace, StageSpace, FakeStageSpace, CurrentSpace>>
flags == <<SessionActive, Focused, FrameSetup, destroyed, stageSupported>>
vars == <<runtime, rtFrame, refused, pc, flags, recenter, spaceVars,
          displayTime, poseSpace>>

Spaces == Handles \cup {NULL}

States == {"IDLE", "READY", "SYNCHRONIZED", "VISIBLE", "FOCUSED", "STOPPING", "EXITING"}
Events == States \cup {"REFERENCE_SPACE_CHANGE_PENDING", "EVENTS_LOST"}

\* WaitForSessionActive, the loop of FrameSetup, then FrameSetup call by call.
WaitPcs == {"wait", "waitPoll", "waitRecenter"}
LoopPcs == {"loop", "loopPoll", "loopRecenter", "bounds"}
FramePcs == {"waitFrame", "beginFrame", "locate", "acquire"}

TypeOK ==
    /\ rtState \in States /\ rtRunning \in BOOLEAN
    /\ events \in Seq(Events) /\ Len(events) <= MaxEvents
    /\ spaces \subseteq Handles
    /\ frame \in {"idle", "waited", "begun"} /\ image \in BOOLEAN
    /\ refused \subseteq {"beginFrame", "endFrame", "acquire", "release", "useSpace", "destroySpace",
                     "destroySwapchain"}
    /\ pc \in {"init", "initRenderer", "engine", "endFrame", "leave", "left"}
              \cup WaitPcs \cup LoopPcs \cup FramePcs
    /\ SessionActive \in BOOLEAN /\ Focused \in BOOLEAN
    /\ FrameSetup \in BOOLEAN /\ destroyed \in BOOLEAN
    /\ stageSupported \in BOOLEAN /\ recenter \in BOOLEAN
    /\ HeadSpace \in Spaces /\ StageSpace \in Spaces
    /\ FakeStageSpace \in Spaces /\ CurrentSpace \in Spaces
    /\ displayTime \in BOOLEAN /\ poseSpace \in Spaces
    /\ FrameSetup => pc \in {"engine", "endFrame", "leave", "left"}

Init ==
    /\ rtState = "IDLE" /\ rtRunning = FALSE /\ events = <<>>
    /\ spaces = {} /\ frame = "idle" /\ image = FALSE /\ refused = {}
    /\ pc = "init"
    /\ SessionActive = FALSE /\ Focused = FALSE /\ FrameSetup = FALSE
    /\ destroyed = FALSE
    /\ stageSupported \in BOOLEAN
    /\ recenter = FALSE
    /\ HeadSpace = NULL /\ StageSpace = NULL
    /\ FakeStageSpace = NULL /\ CurrentSpace = NULL
    /\ displayTime = FALSE /\ poseSpace = NULL

\* A call that may fail, and what the runtime remembers of one it refuses.
Fails(call) == call \in Failing
Refuse(call, isLegal) == refused' = IF isLegal THEN refused ELSE refused \cup {call}

-----------------------------------------------------------------------------
(* The runtime *)

\* Where the session state may go by itself: it starts a session when the
\* headset is worn, and stops it when it is taken off or the program is left.
RuntimeMoves ==
    [s \in States |->
        CASE s = "IDLE" -> {"READY", "EXITING"}
          [] s = "READY" -> IF rtRunning THEN {"SYNCHRONIZED"} ELSE {}
          [] s = "SYNCHRONIZED" -> {"VISIBLE", "STOPPING"}
          [] s = "VISIBLE" -> {"FOCUSED", "SYNCHRONIZED"}
          [] s = "FOCUSED" -> {"VISIBLE"}
          [] OTHER -> {}]

\* A full queue either makes the runtime wait or loses the event.
Queue(e) ==
    \/ Len(events) < MaxEvents /\ events' = Append(events, e)
    \/ MayLose /\ Len(events) = MaxEvents
       /\ events' = [events EXCEPT ![MaxEvents] = "EVENTS_LOST"]

RuntimeChangesState ==
    /\ pc \notin {"init", "left"}
    /\ \E s \in RuntimeMoves[rtState] : rtState' = s /\ Queue(s)
    /\ UNCHANGED <<rtRunning, rtFrame, refused, pc, flags, recenter, spaceVars,
                   displayTime, poseSpace>>

RuntimeChangesSpace ==
    /\ pc \notin {"init", "left"}
    /\ Queue("REFERENCE_SPACE_CHANGE_PENDING")
    /\ UNCHANGED <<rtState, rtRunning, rtFrame, refused, pc, flags, recenter,
                   spaceVars, displayTime, poseSpace>>

-----------------------------------------------------------------------------
(* TBXR_Recenter *)

\* What xrCreateReferenceSpace can do: hand out a handle that is not live, or
\* fail and leave the old one where it was.
CreateReferenceSpace(live, prev) ==
    {[handle |-> h, live |-> live \cup {h}] : h \in Handles \ live}
    \cup (IF Fails("createSpace") THEN {[handle |-> prev, live |-> live]} ELSE {})

\* Recenter locates the head in the current space, if there is one, deletes the
\* spaces it made before, makes the fake stage and, where stages are supported,
\* the stage, and goes on in the better of the two. What it located is not used.
ReplaceSpacesBut(old) ==
    /\ \E fake \in CreateReferenceSpace(spaces \ old, FakeStageSpace) :
       \E stage \in IF stageSupported THEN CreateReferenceSpace(fake.live, StageSpace)
                    ELSE {[handle |-> StageSpace, live |-> fake.live]} :
          /\ FakeStageSpace' = fake.handle
          /\ StageSpace' = stage.handle
          /\ CurrentSpace' = (IF stageSupported THEN stage ELSE fake).handle
          /\ spaces' = stage.live
    /\ refused' = refused \cup (IF old \subseteq spaces THEN {} ELSE {"destroySpace"})
                          \cup (IF CurrentSpace = NULL \/ {HeadSpace, CurrentSpace} \subseteq spaces
                                THEN {} ELSE {"useSpace"})
    /\ poseSpace' = IF poseSpace \in old THEN NULL ELSE poseSpace
    /\ UNCHANGED HeadSpace

\* Mutant: only the stage is deleted.
ReplaceStageOnly == ReplaceSpacesBut({StageSpace} \ {NULL})

ReplaceSpaces == ReplaceSpacesBut({StageSpace, FakeStageSpace} \ {NULL})

-----------------------------------------------------------------------------
(* The start of the app thread: TBXR_EnterVR makes the session and the head's *)
(* space, or the process ends; TBXR_InitRenderer finds no current space and   *)
(* recenters.                                                                *)

EnterVR ==
    /\ pc = "init"
    /\ \/ /\ pc' = "initRenderer"
          /\ \E head \in CreateReferenceSpace(spaces, HeadSpace) :
               HeadSpace' = head.handle /\ spaces' = head.live
       \/ pc' = "left" /\ UNCHANGED <<HeadSpace, spaces>>
    /\ UNCHANGED <<runtime, rtFrame, refused, flags, recenter, StageSpace,
                   FakeStageSpace, CurrentSpace, displayTime, poseSpace>>

InitRenderer ==
    /\ pc = "initRenderer"
    /\ pc' = "wait"
    /\ ReplaceSpaces
    /\ UNCHANGED <<runtime, rtFrame, flags, recenter, displayTime>>

-----------------------------------------------------------------------------
(* The two loops that wait for the session *)

\* What TBXR_ProcessMessageQueue may find out.
Pump == destroyed' \in {destroyed, TRUE}

WaitForSessionActive ==
    /\ pc = "wait"
    /\ IF SessionActive THEN pc' = "engine" /\ UNCHANGED destroyed
                        ELSE pc' = "waitPoll" /\ Pump
    /\ UNCHANGED <<runtime, rtFrame, refused, SessionActive, Focused, FrameSetup,
                   stageSupported, recenter, spaceVars, displayTime, poseSpace>>

FrameSetupLoop ==
    /\ pc = "loop"
    /\ IF destroyed THEN pc' = "leave" /\ UNCHANGED destroyed
                    ELSE pc' = "loopPoll" /\ Pump
    /\ UNCHANGED <<runtime, rtFrame, refused, SessionActive, Focused, FrameSetup,
                   stageSupported, recenter, spaceVars, displayTime, poseSpace>>

\* xrBeginSession is refused unless the session is ready and not yet running;
\* the session is active if it succeeded.
BeginXrSession ==
    LET legal == rtState = "READY" /\ ~rtRunning
    IN  /\ \/ legal /\ SessionActive' = TRUE /\ rtRunning' = TRUE
           \/ (~legal \/ Fails("begin")) /\ SessionActive' = FALSE
              /\ UNCHANGED rtRunning
        /\ UNCHANGED rtState

\* Mutants: the flag is left set, or the runtime is not told.
EndForgetsFlag ==
    /\ rtState' = "IDLE" /\ rtRunning' = FALSE
    /\ UNCHANGED SessionActive
EndForgetsRuntime ==
    /\ SessionActive' = FALSE
    /\ UNCHANGED <<rtState, rtRunning>>

\* After xrEndSession the session is idle (the event that says so is ignored).
EndXrSession ==
    /\ SessionActive' = FALSE
    /\ IF rtState = "STOPPING" /\ rtRunning
       THEN rtState' = "IDLE" /\ rtRunning' = FALSE
       ELSE UNCHANGED <<rtState, rtRunning>>

TrackFocus(e) ==
    Focused' = CASE e = "FOCUSED" -> TRUE
                 [] e = "VISIBLE" -> FALSE
                 [] OTHER -> Focused

\* One round of the loop in ovrApp_HandleXrEvents.
HandleXrEvent ==
    /\ pc \in {"waitPoll", "loopPoll"}
    /\ events # <<>>
    /\ events' = Tail(events)
    /\ LET e == Head(events) IN
         /\ recenter' = (recenter \/ e = "REFERENCE_SPACE_CHANGE_PENDING")
         /\ TrackFocus(e)
         /\ \/ e = "READY" /\ BeginXrSession
            \/ e = "STOPPING" /\ EndXrSession
            \/ e \notin {"READY", "STOPPING"} /\ UNCHANGED <<SessionActive, rtState, rtRunning>>
    /\ UNCHANGED <<rtFrame, refused, pc, FrameSetup, destroyed, stageSupported,
                   spaceVars, displayTime, poseSpace>>

\* Mutant: a session that is not active does not keep FrameSetup in its loop.
GoOnAnyway == IF pc \in WaitPcs THEN "wait" ELSE "bounds"

\* Where the events have been handled and the spaces are in place.
GoOn == CASE pc \in WaitPcs -> "wait"
          [] pc \in LoopPcs /\ SessionActive -> "bounds"
          [] OTHER -> "loop"

NoMoreXrEvents ==
    /\ pc \in {"waitPoll", "loopPoll"}
    /\ events = <<>>
    /\ pc' = IF ~recenter THEN GoOn
             ELSE IF pc = "waitPoll" THEN "waitRecenter" ELSE "loopRecenter"
    /\ UNCHANGED <<runtime, rtFrame, refused, flags, recenter, spaceVars,
                   displayTime, poseSpace>>

Recenter ==
    /\ pc \in {"waitRecenter", "loopRecenter"}
    /\ ReplaceSpaces
    /\ recenter' = FALSE
    /\ pc' = GoOn
    /\ UNCHANGED <<runtime, rtFrame, flags, displayTime>>

-----------------------------------------------------------------------------
(* The rest of TBXR_FrameSetup *)

\* If the bounds of the stage are not known, the fake stage takes over. An
\* activity destroyed in the meantime leaves.
UpdateStageBounds ==
    /\ pc = "bounds"
    /\ \/ UNCHANGED CurrentSpace
       \/ Fails("bounds") /\ CurrentSpace' = FakeStageSpace
    /\ pc' = IF destroyed THEN "leave" ELSE "waitFrame"
    /\ UNCHANGED <<runtime, rtFrame, refused, flags, recenter, spaces, HeadSpace,
                   StageSpace, FakeStageSpace, displayTime, poseSpace>>

\* The frame state is cleared before the call that fills it in.
WaitFrame ==
    /\ pc = "waitFrame"
    /\ pc' = "beginFrame"
    /\ \/ rtRunning /\ frame' = "waited" /\ displayTime' = TRUE
       \/ (~rtRunning \/ Fails("waitFrame")) /\ UNCHANGED frame /\ displayTime' = FALSE
    /\ UNCHANGED <<runtime, image, refused, flags, recenter, spaceVars, poseSpace>>

BeginFrame ==
    /\ pc = "beginFrame"
    /\ pc' = "locate"
    /\ frame' = IF frame = "waited" THEN "begun" ELSE frame
    /\ Refuse("beginFrame", frame = "waited")
    /\ UNCHANGED <<runtime, image, flags, recenter, spaceVars, displayTime, poseSpace>>

\* TBXR_GetHMDOrientation: without a display time the old pose is kept; if the
\* space cannot be located the pose is a zero of no space.
GetHMDOrientation ==
    /\ pc = "locate"
    /\ pc' = "acquire"
    /\ LET legal == {HeadSpace, CurrentSpace} \subseteq spaces IN
       IF displayTime
       THEN /\ \/ legal /\ poseSpace' = CurrentSpace
               \/ (~legal \/ Fails("locate")) /\ poseSpace' = NULL
            /\ Refuse("useSpace", legal)
       ELSE UNCHANGED <<poseSpace, refused>>
    /\ UNCHANGED <<runtime, rtFrame, flags, recenter, spaceVars, displayTime>>

AcquireImage ==
    /\ pc = "acquire"
    /\ image' = TRUE
    /\ Refuse("acquire", ~image)
    /\ FrameSetup' = TRUE
    /\ pc' = "engine"

\* Mutant: the stage bounds are updated at the end, after the head was located.
AcquireThenBounds ==
    /\ AcquireImage
    /\ CurrentSpace' \in {CurrentSpace, FakeStageSpace}
    /\ UNCHANGED <<runtime, frame, SessionActive, Focused, destroyed, stageSupported,
                   recenter, spaces, HeadSpace, StageSpace, FakeStageSpace,
                   displayTime, poseSpace>>

\* ovrFramebuffer_Acquire waits for the image as often as it takes.
Acquire ==
    /\ AcquireImage
    /\ UNCHANGED <<runtime, frame, SessionActive, Focused, destroyed, stageSupported,
                   recenter, spaceVars, displayTime, poseSpace>>

-----------------------------------------------------------------------------
(* The engine (external): it sets a frame up, submits it once it is set up,  *)
(* and may return at any time.                                               *)

ToLoop ==
    /\ pc = "engine"
    /\ pc' = "loop"
    /\ UNCHANGED <<runtime, rtFrame, refused, flags, recenter, spaceVars,
                   displayTime, poseSpace>>

\* Mutant: FrameSetup does not return early when the frame is set up already.
FrameSetupTwice == ToLoop

EngineCallsFrameSetup == ~FrameSetup /\ ToLoop

\* TBXR_submitFrame does nothing for a session that is not active. It gives the
\* image back first.
SubmitFrame ==
    /\ pc = "engine" /\ FrameSetup
    /\ SessionActive
    /\ pc' = "endFrame"
    /\ image' = FALSE
    /\ Refuse("release", image)
    /\ UNCHANGED <<runtime, frame, flags, recenter, spaceVars, displayTime, poseSpace>>

\* Then it locates the views in the head's space, places the layer in the current
\* one and ends the frame.
EndFrame ==
    /\ pc = "endFrame"
    /\ pc' = "engine"
    /\ frame' = "idle"
    /\ FrameSetup' = FALSE
    /\ refused' = refused \cup (IF frame = "begun" THEN {} ELSE {"endFrame"})
                          \cup (IF {HeadSpace, CurrentSpace} \subseteq spaces
                                THEN {} ELSE {"useSpace"})
    /\ UNCHANGED <<runtime, image, SessionActive, Focused, destroyed, stageSupported,
                   recenter, spaceVars, displayTime, poseSpace>>

EngineReturns ==
    /\ pc = "engine"
    /\ pc' = "leave"
    /\ UNCHANGED <<runtime, rtFrame, refused, flags, recenter, spaceVars,
                   displayTime, poseSpace>>

\* TBXR_LeaveVR destroys the spaces and the session, and with it the frame; the
\* renderer's swapchain, a child of the session, is destroyed after it.
LeaveVR ==
    /\ pc = "leave"
    /\ pc' = "left"
    /\ spaces' = {}
    /\ CurrentSpace' = NULL
    /\ rtRunning' = FALSE /\ events' = <<>> /\ frame' = "idle" /\ image' = FALSE
    /\ refused' = refused \cup {"destroySwapchain"} \cup
         (IF {HeadSpace, FakeStageSpace} \cup ({StageSpace} \ {NULL}) \subseteq spaces
          THEN {} ELSE {"destroySpace"})
    /\ UNCHANGED <<rtState, flags, recenter, HeadSpace, StageSpace, FakeStageSpace,
                   displayTime, poseSpace>>

-----------------------------------------------------------------------------
Runtime == RuntimeChangesState \/ RuntimeChangesSpace

AppThread ==
    \/ EnterVR \/ InitRenderer \/ WaitForSessionActive \/ FrameSetupLoop
    \/ HandleXrEvent \/ NoMoreXrEvents \/ Recenter
    \/ UpdateStageBounds \/ WaitFrame \/ BeginFrame \/ GetHMDOrientation \/ Acquire
    \/ EndFrame \/ LeaveVR

Engine == EngineCallsFrameSetup \/ SubmitFrame \/ EngineReturns

Left == pc = "left" /\ UNCHANGED vars

Next == Runtime \/ AppThread \/ Engine \/ Left

Spec == Init /\ [][Next]_vars

\* The app thread is scheduled, and the engine goes on with its frames.
FairSpec == Spec /\ WF_vars(AppThread) /\ WF_vars(Engine)

-----------------------------------------------------------------------------
(* Properties *)

\* The assertions of ovrApp_HandleSessionStateChanges: a session becomes ready
\* only when it is not active, and stops only when it is, although the events
\* are handled long after the runtime queued them.
AssertionsHold ==
    pc \in {"waitPoll", "loopPoll"} /\ events # <<>> =>
        /\ Head(events) = "READY" => ~SessionActive
        /\ Head(events) = "STOPPING" => SessionActive

\* The program and the runtime agree on whether the session runs.
SessionAgrees == pc # "left" => SessionActive = rtRunning

\* A frame that is set up belongs to an active session, holds an image until
\* TBXR_submitFrame gives it back and, if there was a frame to wait for, is open
\* until it is ended: TBXR_submitFrame never returns early and leaves the image
\* acquired.
FrameIsWhole ==
    FrameSetup /\ pc # "left" =>
        SessionActive /\ (image \/ pc = "endFrame") /\ (displayTime => frame = "begun")

\* The runtime refuses no call: calls come in order, and no handle is used or
\* destroyed after its space has been. (The swapchain destroyed at the very end
\* is the exception.)
NothingRefused ==
    refused \subseteq (IF pc = "left" THEN {"destroySwapchain"} ELSE {})

\* The layer of a frame is placed in the very space in which the head was
\* located for that frame, whatever happened to the spaces in between.
PoseInCurrentSpace ==
    pc \in {"engine", "endFrame"} /\ FrameSetup => poseSpace = CurrentSpace

\* Recentering does not leak spaces: those that live are the ones in use.
NoSpaceLeaked == spaces \subseteq {HeadSpace, StageSpace, FakeStageSpace}

\* A session that the runtime makes ready is begun, and one that it wants to
\* stop is ended, or the program leaves.
RuntimeIsObeyed ==
    /\ (rtState = "READY") ~> (rtRunning \/ pc = "left")
    /\ (rtState = "STOPPING") ~> (~rtRunning \/ pc = "left")

\* The detailed program keeps the discipline of FrameDiscipline.
Stage == IF pc = "left" THEN "left"
         ELSE IF image THEN "drawing"
         ELSE IF pc = "endFrame" THEN "drawn"
         ELSE IF frame = "begun" THEN "open"
         ELSE IF rtRunning THEN "up" ELSE "down"

Discipline == INSTANCE FrameDiscipline WITH stage <- Stage

KeepsDiscipline == Discipline!DisciplineSpec
=============================================================================
