-------------------------- MODULE XrSession_proofs --------------------------
(***************************************************************************)
(* Proofs about the session and the frame loop, for every number of        *)
(* handles and of queued events. The first part holds whichever calls fail *)
(* and whether or not events are lost; the second part needs the frame     *)
(* calls and the creation of spaces to succeed.                            *)
(***************************************************************************)
EXTENDS XrSession, TLAPS

-----------------------------------------------------------------------------
(* The event queue *)

Pending(e) == \E n \in 1 .. Len(events) : events[n] = e
Once(e) == \A n, m \in 1 .. Len(events) : events[n] = e /\ events[m] = e => n = m

\* Queuing an event, with or without loss, makes no other one pending, and the
\* queue remains one of events within its bound.
LEMMA QueueAdds ==
    ASSUME events \in Seq(Events), Len(events) <= MaxEvents,
           NEW e \in Events, Queue(e)
    PROVE  /\ events' \in Seq(Events) /\ Len(events') <= MaxEvents
           /\ \A x \in {"READY", "STOPPING"} :
                 /\ Pending(x)' => Pending(x) \/ x = e
                 /\ Once(x) /\ (Pending(x) => x # e) => Once(x)'
  <1>1. CASE Len(events) < MaxEvents /\ events' = Append(events, e)
    <2>1. events' \in Seq(Events) /\ Len(events') = Len(events) + 1
      BY <1>1
    <2>2. \A n \in 1 .. Len(events') :
              events'[n] = IF n <= Len(events) THEN events[n] ELSE e
      BY <1>1
    <2> QED
      BY <1>1, <2>1, <2>2, XrAssumption, SMTT(30) DEF Pending, Once
  <1>2. CASE Len(events) = MaxEvents /\ events' = [events EXCEPT ![MaxEvents] = "EVENTS_LOST"]
    <2>1. events' \in Seq(Events) /\ Len(events') = Len(events)
      BY <1>2, XrAssumption DEF Events
    <2>2. \A n \in 1 .. Len(events') :
              events'[n] = IF n = MaxEvents THEN "EVENTS_LOST" ELSE events[n]
      BY <1>2, <2>1, XrAssumption
    <2> QED
      BY <1>2, <2>1, <2>2, XrAssumption, SMTT(30) DEF Pending, Once
  <1> QED
    BY <1>1, <1>2 DEF Queue

\* Taking an event out of the queue leaves those behind it.
LEMMA HandlingTakes ==
    ASSUME events \in Seq(Events), Len(events) <= MaxEvents, events # <<>>,
           events' = Tail(events)
    PROVE  /\ events' \in Seq(Events) /\ Len(events') <= MaxEvents
           /\ Head(events) \in Events /\ Pending(Head(events))
           /\ \A x : /\ Pending(x)' => Pending(x)
                     /\ Once(x) => Once(x)'
                     /\ Once(x) /\ x = Head(events) => ~Pending(x)'
  <1>1. Len(events) > 0 /\ Len(events) \in Nat /\ Head(events) = events[1]
    OBVIOUS
  <1>2. events' \in Seq(Events) /\ Len(events') = Len(events) - 1
    BY <1>1
  <1>3. \A n \in 1 .. Len(events') : events'[n] = events[n + 1]
    BY <1>1
  <1>4. Head(events) \in Events
    BY <1>1
  <1> QED
    BY <1>1, <1>2, <1>3, <1>4, XrAssumption, SMTT(30) DEF Pending, Once

-----------------------------------------------------------------------------
(* Types *)

\* Recentering gives the program handles of spaces that live, or the ones it had.
LEMMA ReplacingSpaces ==
    ASSUME TypeOK, ReplaceSpaces
    PROVE  /\ spaces' \subseteq Handles /\ HeadSpace' = HeadSpace
           /\ {StageSpace', FakeStageSpace', CurrentSpace', poseSpace'} \subseteq Spaces
           /\ refused' \subseteq refused \cup {"useSpace", "destroySpace"}
           /\ spaces' \subseteq (spaces \ {StageSpace, FakeStageSpace})
                                \cup {StageSpace', FakeStageSpace'}
  <1> DEFINE old == {StageSpace, FakeStageSpace} \ {NULL}
             fakes == CreateReferenceSpace(spaces \ old, FakeStageSpace)
             stages(fake) == IF stageSupported THEN CreateReferenceSpace(fake.live, StageSpace)
                             ELSE {[handle |-> StageSpace, live |-> fake.live]}
  <1>1. PICK fake \in fakes : \E stage \in stages(fake) :
          /\ FakeStageSpace' = fake.handle /\ StageSpace' = stage.handle
          /\ CurrentSpace' = (IF stageSupported THEN stage ELSE fake).handle
          /\ spaces' = stage.live
    BY DEF ReplaceSpaces, ReplaceSpacesBut
  <1>2. PICK stage \in stages(fake) :
          /\ FakeStageSpace' = fake.handle /\ StageSpace' = stage.handle
          /\ CurrentSpace' = (IF stageSupported THEN stage ELSE fake).handle
          /\ spaces' = stage.live
    BY <1>1
  <1>3. /\ fake.handle \in Spaces /\ fake.live \subseteq Handles
        /\ fake.live \subseteq (spaces \ old) \cup {fake.handle}
    BY <1>1 DEF CreateReferenceSpace, TypeOK, Spaces
  <1>4. /\ stage.handle \in Spaces /\ stage.live \subseteq Handles
        /\ stage.live \subseteq fake.live \cup {stage.handle}
    BY <1>2, <1>3 DEF CreateReferenceSpace, TypeOK, Spaces
  <1>5. NULL \notin spaces
    BY XrAssumption DEF TypeOK
  <1> QED
    BY <1>2, <1>3, <1>4, <1>5 DEF ReplaceSpaces, ReplaceSpacesBut, TypeOK, Spaces

\* No step stores a value of another type, or more events than the runtime queues,
\* and a frame is set up only while the engine has the thread.
THEOREM SessionTypes == Spec => []TypeOK
  <1>0. << >> \in Seq(Events) /\ Len(<< >>) <= MaxEvents
    BY XrAssumption
  <1>1. Init => TypeOK
    <2> SUFFICES ASSUME Init PROVE TypeOK
      OBVIOUS
    <2>1. events \in Seq(Events) /\ Len(events) <= MaxEvents
      BY <1>0 DEF Init
    <2> QED
      BY <2>1 DEF Init, TypeOK, Spaces, States
  <1>2. TypeOK /\ [Next]_vars => TypeOK'
    <2> SUFFICES ASSUME TypeOK, [Next]_vars PROVE TypeOK'
      OBVIOUS
    <2> USE DEF runtime, rtFrame, spaceVars, flags
    <2>1. CASE RuntimeChangesState
      <3>1. PICK s \in States : rtState' = s /\ Queue(s)
        BY <2>1 DEF RuntimeChangesState, RuntimeMoves, TypeOK, States
      <3>2. events' \in Seq(Events) /\ Len(events') <= MaxEvents
        BY <3>1, QueueAdds DEF TypeOK, Events
      <3> QED
        BY <2>1, <3>1, <3>2 DEF RuntimeChangesState, TypeOK
    <2>2. CASE RuntimeChangesSpace
      <3>1. events' \in Seq(Events) /\ Len(events') <= MaxEvents
        BY <2>2, QueueAdds DEF RuntimeChangesSpace, TypeOK, Events
      <3> QED
        BY <2>2, <3>1 DEF RuntimeChangesSpace, TypeOK
    <2>3. CASE EnterVR
      BY <2>3 DEF EnterVR, CreateReferenceSpace, TypeOK, Spaces
    <2>4. CASE InitRenderer
      BY <2>4, ReplacingSpaces DEF InitRenderer, TypeOK, WaitPcs
    <2>5. CASE WaitForSessionActive
      BY <2>5 DEF WaitForSessionActive, Pump, TypeOK, WaitPcs
    <2>6. CASE FrameSetupLoop
      BY <2>6 DEF FrameSetupLoop, Pump, TypeOK, LoopPcs
    <2>7. CASE HandleXrEvent
      <3>1. events' \in Seq(Events) /\ Len(events') <= MaxEvents
        BY <2>7, HandlingTakes DEF HandleXrEvent, TypeOK
      <3>2. /\ SessionActive' \in BOOLEAN /\ rtRunning' \in BOOLEAN /\ rtState' \in States
            /\ recenter' \in BOOLEAN /\ Focused' \in BOOLEAN
        BY <2>7 DEF HandleXrEvent, TrackFocus, BeginXrSession, EndXrSession, TypeOK, States
      <3> QED
        BY <2>7, <3>1, <3>2 DEF HandleXrEvent, TypeOK
    <2>8. CASE NoMoreXrEvents
      BY <2>8 DEF NoMoreXrEvents, GoOn, TypeOK, WaitPcs, LoopPcs
    <2>9. CASE Recenter
      BY <2>9, ReplacingSpaces DEF Recenter, GoOn, TypeOK, WaitPcs, LoopPcs
    <2>10. CASE UpdateStageBounds
      BY <2>10 DEF UpdateStageBounds, TypeOK, FramePcs
    <2>11. CASE WaitFrame
      BY <2>11 DEF WaitFrame, TypeOK, FramePcs
    <2>12. CASE BeginFrame
      BY <2>12 DEF BeginFrame, Refuse, TypeOK, FramePcs
    <2>13. CASE GetHMDOrientation
      <3>1. poseSpace' \in Spaces /\ refused' \subseteq refused \cup {"useSpace"}
        BY <2>13 DEF GetHMDOrientation, Refuse, TypeOK, Spaces
      <3> QED
        BY <2>13, <3>1 DEF GetHMDOrientation, TypeOK, FramePcs
    <2>14. CASE Acquire
      BY <2>14 DEF Acquire, AcquireImage, Refuse, TypeOK
    <2>15. CASE EngineCallsFrameSetup
      BY <2>15 DEF EngineCallsFrameSetup, ToLoop, TypeOK, LoopPcs
    <2>16. CASE SubmitFrame \/ EndFrame
      <3>1. refused' \subseteq refused \cup {"release", "endFrame", "useSpace"}
        BY <2>16 DEF SubmitFrame, EndFrame, Refuse
      <3> QED
        BY <2>16, <3>1 DEF SubmitFrame, EndFrame, TypeOK
    <2>17. CASE EngineReturns
      BY <2>17 DEF EngineReturns, TypeOK
    <2>18. CASE LeaveVR
      <3>1. events' \in Seq(Events) /\ Len(events') <= MaxEvents
        BY <1>0, <2>18 DEF LeaveVR
      <3>2. refused' \subseteq refused \cup {"destroySwapchain", "destroySpace"}
        BY <2>18 DEF LeaveVR
      <3> QED
        BY <2>18, <3>1, <3>2 DEF LeaveVR, TypeOK, Spaces
    <2>19. CASE UNCHANGED vars
      BY <2>19 DEF vars, TypeOK
    <2> QED
      BY <2>1, <2>2, <2>3, <2>4, <2>5, <2>6, <2>7, <2>8, <2>9, <2>10, <2>11, <2>12, <2>13,
         <2>14, <2>15, <2>16, <2>17, <2>18, <2>19
         DEF Next, Runtime, AppThread, Engine, Left
  <1> QED
    BY <1>1, <1>2, PTL DEF Spec

-----------------------------------------------------------------------------
(* The session. An event that is pending says something about the state the  *)
(* runtime is in now, although it was queued long ago: the runtime waits in   *)
(* READY for the session to begin, and in STOPPING for it to end.             *)

SessionInv ==
    pc # "left" =>
        /\ SessionActive = rtRunning
        /\ rtState \in {"IDLE", "EXITING"} => ~rtRunning
        /\ rtState \in {"SYNCHRONIZED", "VISIBLE", "FOCUSED", "STOPPING"} => rtRunning
        /\ Pending("READY") => rtState = "READY" /\ ~rtRunning
        /\ Pending("STOPPING") => rtState = "STOPPING"
        /\ Once("READY") /\ Once("STOPPING")

\* Steps that leave the session and its events alone.
SessionUntouched ==
    UNCHANGED <<SessionActive, rtState, rtRunning, events>> /\ (pc = "left" => pc' = "left")

LEMMA UntouchedKeepsSession ==
    ASSUME SessionInv, SessionUntouched
    PROVE  SessionInv'
  BY DEF SessionInv, SessionUntouched, Pending, Once

LEMMA RuntimeKeepsSession ==
    ASSUME TypeOK, SessionInv, Runtime
    PROVE  SessionInv'
  <1>1. CASE RuntimeChangesState
    <2>1. PICK s \in RuntimeMoves[rtState] : rtState' = s /\ Queue(s)
      BY <1>1 DEF RuntimeChangesState
    <2>2. UNCHANGED <<SessionActive, rtRunning, pc>> /\ pc # "left"
      BY <1>1 DEF RuntimeChangesState, flags
    <2>3. s \in Events /\ s # rtState /\ rtState \notin {"STOPPING", "EXITING"}
          /\ s \in (CASE rtState = "IDLE" -> {"READY", "EXITING"}
                     [] rtState = "READY" -> IF rtRunning THEN {"SYNCHRONIZED"} ELSE {}
                     [] rtState = "SYNCHRONIZED" -> {"VISIBLE", "STOPPING"}
                     [] rtState = "VISIBLE" -> {"FOCUSED", "SYNCHRONIZED"}
                     [] rtState = "FOCUSED" -> {"VISIBLE"}
                     [] OTHER -> {})
      BY <2>1 DEF TypeOK, RuntimeMoves, States, Events
    <2>4. \A x \in {"READY", "STOPPING"} :
             /\ Pending(x)' => Pending(x) \/ x = s
             /\ Once(x) /\ (Pending(x) => x # s) => Once(x)'
      BY <2>1, <2>3, QueueAdds DEF TypeOK
    <2> QED
      BY <2>1, <2>2, <2>3, <2>4 DEF SessionInv
  <1>2. CASE RuntimeChangesSpace
    <2>1. \A x \in {"READY", "STOPPING"} :
             (Pending(x)' => Pending(x)) /\ (Once(x) => Once(x)')
      BY <1>2, QueueAdds DEF RuntimeChangesSpace, TypeOK, Events
    <2> QED
      BY <1>2, <2>1 DEF RuntimeChangesSpace, flags, SessionInv
  <1> QED
    BY <1>1, <1>2 DEF Runtime

LEMMA HandlingKeepsSession ==
    ASSUME TypeOK, SessionInv, HandleXrEvent
    PROVE  SessionInv'
  <1> DEFINE e == Head(events)
  <1>1. /\ Pending(e)
        /\ \A x : /\ Pending(x)' => Pending(x)
                  /\ Once(x) => Once(x)'
                  /\ Once(x) /\ x = e => ~Pending(x)'
    BY HandlingTakes DEF HandleXrEvent, TypeOK
  <1>2. pc' = pc /\ pc # "left"
    BY DEF HandleXrEvent
  <1>3. \/ e = "READY" /\ BeginXrSession
        \/ e = "STOPPING" /\ EndXrSession
        \/ e \notin {"READY", "STOPPING"} /\ UNCHANGED <<SessionActive, rtState, rtRunning>>
    BY DEF HandleXrEvent
  <1> HIDE DEF e
  <1>4. CASE e = "READY" /\ BeginXrSession
    <2>1. rtState = "READY" /\ rtRunning = FALSE /\ ~Pending("READY")' /\ ~Pending("STOPPING")'
      BY <1>1, <1>2, <1>4 DEF SessionInv, TypeOK
    <2>2. rtState' = "READY" /\ SessionActive' = rtRunning'
      BY <1>4, <2>1 DEF BeginXrSession
    <2> QED
      BY <1>1, <1>2, <2>1, <2>2 DEF SessionInv
  <1>5. CASE e = "STOPPING" /\ EndXrSession
    BY <1>1, <1>2, <1>5 DEF SessionInv, EndXrSession
  <1>6. CASE e \notin {"READY", "STOPPING"} /\ UNCHANGED <<SessionActive, rtState, rtRunning>>
    BY <1>1, <1>2, <1>6 DEF SessionInv
  <1> QED
    BY <1>3, <1>4, <1>5, <1>6

THEOREM SessionInvInductive == Spec => []SessionInv
  <1>1. Init => SessionInv
    <2> SUFFICES ASSUME Init PROVE SessionInv
      OBVIOUS
    <2>1. 1 .. Len(events) = {}
      BY DEF Init
    <2>2. \A x : ~Pending(x) /\ Once(x)
      BY <2>1 DEF Pending, Once
    <2> QED
      BY <2>2 DEF Init, SessionInv
  <1>2. TypeOK /\ SessionInv /\ [Next]_vars => SessionInv'
    <2> SUFFICES ASSUME TypeOK, SessionInv, [Next]_vars PROVE SessionInv'
      OBVIOUS
    <2>1. CASE Runtime
      BY <2>1, RuntimeKeepsSession
    <2>2. CASE HandleXrEvent
      BY <2>2, HandlingKeepsSession
    <2>3. CASE LeaveVR
      BY <2>3 DEF LeaveVR, SessionInv
    <2>4. CASE \/ EnterVR \/ InitRenderer \/ WaitForSessionActive \/ FrameSetupLoop
               \/ NoMoreXrEvents \/ Recenter \/ UpdateStageBounds \/ UNCHANGED vars
      <3>1. SessionUntouched
        BY <2>4 DEF SessionUntouched, EnterVR, InitRenderer, WaitForSessionActive, FrameSetupLoop,
                NoMoreXrEvents, Recenter, UpdateStageBounds, vars, runtime, flags
      <3> QED
        BY <3>1, UntouchedKeepsSession
    <2>5. CASE WaitFrame \/ BeginFrame \/ GetHMDOrientation \/ Acquire \/ EndFrame \/ Engine
      <3>1. SessionUntouched
        BY <2>5 DEF SessionUntouched, WaitFrame, BeginFrame, GetHMDOrientation, Acquire,
                AcquireImage, EndFrame, Engine, EngineCallsFrameSetup, ToLoop, SubmitFrame,
                EngineReturns, runtime, flags
      <3> QED
        BY <3>1, UntouchedKeepsSession
    <2> QED
      BY <2>1, <2>2, <2>3, <2>4, <2>5 DEF Next, AppThread, Left
  <1> QED
    BY <1>1, <1>2, SessionTypes, PTL DEF Spec

\* Program and runtime agree on the session: TBXR_submitFrame and FrameSetup act on
\* SessionActive, whatever was queued, lost or refused.
THEOREM AgreesOnSession == Spec => []SessionAgrees
  <1>1. SessionInv => SessionAgrees
    BY DEF SessionInv, SessionAgrees
  <1> QED
    BY <1>1, SessionInvInductive, PTL

\* The assertions of ovrApp_HandleSessionStateChanges never fail.
THEOREM AssertionsNeverFail == Spec => []AssertionsHold
  <1>1. TypeOK /\ SessionInv => AssertionsHold
    <2> SUFFICES ASSUME TypeOK, SessionInv, pc \in {"waitPoll", "loopPoll"}, events # <<>>
                 PROVE  /\ Head(events) = "READY" => ~SessionActive
                        /\ Head(events) = "STOPPING" => SessionActive
      BY DEF AssertionsHold
    <2>1. Pending(Head(events))
      <3>1. Len(events) \in Nat /\ Len(events) > 0 /\ Head(events) = events[1]
        BY DEF TypeOK
      <3> QED
        BY <3>1 DEF Pending
    <2> QED
      BY <2>1 DEF SessionInv
  <1> QED
    BY <1>1, SessionTypes, SessionInvInductive, PTL

-----------------------------------------------------------------------------
(* The frame: an image is held exactly while a frame is set up and not being  *)
(* submitted, and from the time the session is found active nothing ends it   *)
(* before the frame does.                                                    *)

FrameInv ==
    pc # "left" =>
        /\ (image <=> FrameSetup /\ pc # "endFrame")
        /\ pc = "endFrame" => FrameSetup
        /\ FrameSetup \/ pc \in {"bounds"} \cup FramePcs => SessionActive
        /\ pc = "beginFrame" /\ displayTime => frame = "waited"
        /\ (pc \in {"locate", "acquire"} \/ FrameSetup) /\ displayTime => frame = "begun"

THEOREM FrameInvInductive == Spec => []FrameInv
  <1>1. Init => FrameInv
    BY DEF Init, FrameInv, FramePcs
  <1>2. TypeOK /\ SessionInv /\ FrameInv /\ [Next]_vars => FrameInv'
    <2> SUFFICES ASSUME TypeOK, SessionInv, FrameInv, [Next]_vars PROVE FrameInv'
      OBVIOUS
    <2> USE DEF FrameInv, FramePcs, runtime, rtFrame, flags
    <2>1. FrameSetup => pc \in {"engine", "endFrame", "leave", "left"}
      BY DEF TypeOK
    <2>2. CASE Runtime
      BY <2>2 DEF Runtime, RuntimeChangesState, RuntimeChangesSpace
    <2>3. CASE EnterVR \/ InitRenderer \/ WaitForSessionActive \/ FrameSetupLoop
      BY <2>1, <2>3 DEF EnterVR, InitRenderer, WaitForSessionActive, FrameSetupLoop
    <2>4. CASE HandleXrEvent
      BY <2>1, <2>4 DEF HandleXrEvent
    <2>5. CASE NoMoreXrEvents \/ Recenter
      BY <2>1, <2>5 DEF NoMoreXrEvents, Recenter, GoOn, WaitPcs, LoopPcs
    <2>6. CASE UpdateStageBounds
      BY <2>1, <2>6 DEF UpdateStageBounds
    <2>7. CASE WaitFrame
      BY <2>1, <2>7 DEF WaitFrame, SessionInv
    <2>8. CASE BeginFrame \/ GetHMDOrientation
      BY <2>1, <2>8 DEF BeginFrame, GetHMDOrientation
    <2>9. CASE Acquire
      BY <2>9 DEF Acquire, AcquireImage
    <2>10. CASE EngineCallsFrameSetup
      BY <2>10 DEF EngineCallsFrameSetup, ToLoop
    <2>11. CASE SubmitFrame \/ EndFrame
      BY <2>11 DEF SubmitFrame, EndFrame
    <2>12. CASE EngineReturns
      BY <2>12 DEF EngineReturns
    <2>13. CASE LeaveVR \/ UNCHANGED vars
      BY <2>13 DEF LeaveVR, vars
    <2> QED
      BY <2>2, <2>3, <2>4, <2>5, <2>6, <2>7, <2>8, <2>9, <2>10, <2>11, <2>12, <2>13
         DEF Next, AppThread, Engine, Left
  <1> QED
    BY <1>1, <1>2, SessionTypes, SessionInvInductive, PTL DEF Spec

\* TBXR_submitFrame never returns early and leaves the image acquired.
THEOREM FramesAreWhole == Spec => []FrameIsWhole
  <1>1. FrameInv => FrameIsWhole
    BY DEF FrameInv, FrameIsWhole
  <1> QED
    BY <1>1, FrameInvInductive, PTL

-----------------------------------------------------------------------------
\* TBXR_Recenter deletes what it replaces, whichever of its calls fail.
THEOREM SpacesAreNotLeaked == Spec => []NoSpaceLeaked
  <1> DEFINE SpaceInv == NoSpaceLeaked /\ (pc = "init" => spaces = {})
  <1>1. Init => SpaceInv
    BY DEF Init, NoSpaceLeaked
  <1>2. TypeOK /\ SpaceInv /\ [Next]_vars => SpaceInv'
    <2> SUFFICES ASSUME TypeOK, SpaceInv, [Next]_vars PROVE SpaceInv'
      OBVIOUS
    <2> USE DEF NoSpaceLeaked, spaceVars
    <2>1. CASE EnterVR
      <3>1. CASE pc' = "left" /\ UNCHANGED <<HeadSpace, spaces>>
        BY <2>1, <3>1 DEF EnterVR
      <3>2. CASE \E head \in CreateReferenceSpace(spaces, HeadSpace) :
                     HeadSpace' = head.handle /\ spaces' = head.live
        BY <2>1, <3>2 DEF EnterVR, CreateReferenceSpace
      <3> QED
        BY <2>1, <3>1, <3>2 DEF EnterVR
    <2>2. CASE InitRenderer \/ Recenter
      BY <2>2, ReplacingSpaces DEF InitRenderer, Recenter, GoOn, WaitPcs, LoopPcs
    <2>3. CASE LeaveVR
      BY <2>3 DEF LeaveVR
    <2>4. CASE \/ Runtime \/ WaitForSessionActive \/ FrameSetupLoop \/ HandleXrEvent
               \/ NoMoreXrEvents \/ UpdateStageBounds \/ UNCHANGED vars
      BY <2>4 DEF Runtime, RuntimeChangesState, RuntimeChangesSpace, WaitForSessionActive,
              FrameSetupLoop, HandleXrEvent, NoMoreXrEvents, UpdateStageBounds, vars,
              GoOn, WaitPcs, LoopPcs
    <2>5. CASE WaitFrame \/ BeginFrame \/ GetHMDOrientation \/ Acquire \/ EndFrame \/ Engine
      BY <2>5 DEF WaitFrame, BeginFrame, GetHMDOrientation, Acquire, AcquireImage, EndFrame, Engine,
              EngineCallsFrameSetup, ToLoop, SubmitFrame, EngineReturns
    <2> QED
      BY <2>1, <2>2, <2>3, <2>4, <2>5 DEF Next, AppThread, Left
  <1> QED
    BY <1>1, <1>2, SessionTypes, PTL DEF Spec

-----------------------------------------------------------------------------
(* The second part: if spaces are created and frames waited for (xrBeginSession *)
(* and the bounds of the stage may still fail), the runtime refuses nothing     *)
(* and sees FrameDiscipline kept.                                              *)

Orderly == Failing \subseteq {"begin", "bounds", "locate"}

\* After the start all spaces the program has live, each a space of its own.
SpacesInv ==
    /\ pc = "init" => spaces = {}
    /\ pc \in {"init", "initRenderer"} =>
           StageSpace = NULL /\ FakeStageSpace = NULL /\ CurrentSpace = NULL
    /\ pc \notin {"init", "left"} => HeadSpace \in spaces \ {StageSpace, FakeStageSpace}
    /\ pc \notin {"init", "initRenderer", "left"} =>
           /\ FakeStageSpace \in spaces
           /\ StageSpace \in (IF stageSupported THEN spaces ELSE {NULL})
           /\ CurrentSpace \in {StageSpace, FakeStageSpace} \ {NULL}

\* The runtime's frame goes with the program's.
OrderlyFrame ==
    pc # "left" =>
        /\ frame = "waited" <=> pc = "beginFrame"
        /\ frame = "begun" <=> FrameSetup \/ pc \in {"locate", "acquire"}
        /\ pc \in {"beginFrame", "locate"} => displayTime

OrderlyInv == SpacesInv /\ OrderlyFrame /\ NothingRefused

LEMMA CreatingSpaces ==
    ASSUME Orderly, NEW live, NEW prev, NEW made \in CreateReferenceSpace(live, prev)
    PROVE  made.handle \in Handles \ live /\ made.live = live \cup {made.handle}
  BY DEF Orderly, CreateReferenceSpace, Fails

\* Recentering between frames finds the spaces alive that it deletes and uses, and
\* leaves new ones.
LEMMA RecenteringIsOrderly ==
    ASSUME Orderly, TypeOK, SpacesInv, ReplaceSpaces, pc \notin {"init", "left"},
           pc' \notin {"init", "initRenderer", "left"}, stageSupported' = stageSupported
    PROVE  SpacesInv' /\ refused' = refused
  <1> DEFINE old == {StageSpace, FakeStageSpace} \ {NULL}
             fakes == CreateReferenceSpace(spaces \ old, FakeStageSpace)
             stages(fake) == IF stageSupported THEN CreateReferenceSpace(fake.live, StageSpace)
                             ELSE {[handle |-> StageSpace, live |-> fake.live]}
  <1>0. PICK fake \in fakes : \E stage \in stages(fake) :
          /\ FakeStageSpace' = fake.handle /\ StageSpace' = stage.handle
          /\ CurrentSpace' = (IF stageSupported THEN stage ELSE fake).handle
          /\ spaces' = stage.live
    BY DEF ReplaceSpaces, ReplaceSpacesBut
  <1>1. PICK stage \in stages(fake) :
          /\ FakeStageSpace' = fake.handle /\ StageSpace' = stage.handle
          /\ CurrentSpace' = (IF stageSupported THEN stage ELSE fake).handle
          /\ spaces' = stage.live
    BY <1>0
  <1>2. NULL \notin Handles /\ spaces \subseteq Handles
    BY XrAssumption DEF TypeOK
  <1>3. /\ fake.handle \in Handles \ (spaces \ old)
        /\ fake.live = (spaces \ old) \cup {fake.handle}
    BY <1>0, CreatingSpaces
  <1>4. HeadSpace \in spaces \ old /\ HeadSpace' = HeadSpace
    BY DEF SpacesInv, ReplaceSpaces, ReplaceSpacesBut
  <1>5. ASSUME stageSupported PROVE SpacesInv'
    <2>1. /\ stage.handle \in Handles \ fake.live
          /\ stage.live = fake.live \cup {stage.handle}
      BY <1>1, <1>5, CreatingSpaces
    <2>2. HeadSpace \in fake.live /\ HeadSpace \notin {fake.handle, stage.handle}
      BY <1>3, <1>4, <2>1
    <2>3. HeadSpace' \in spaces' \ {StageSpace', FakeStageSpace'}
      BY <1>1, <1>4, <2>1, <2>2
    <2>4. /\ FakeStageSpace' \in spaces' /\ StageSpace' \in spaces'
          /\ CurrentSpace' = StageSpace' /\ StageSpace' # NULL
      BY <1>1, <1>2, <1>3, <1>5, <2>1
    <2> QED
      BY <1>5, <2>3, <2>4 DEF SpacesInv
  <1>6. ASSUME ~stageSupported PROVE SpacesInv'
    <2>1. stage = [handle |-> StageSpace, live |-> fake.live] /\ StageSpace = NULL
      BY <1>1, <1>6 DEF SpacesInv
    <2>2. HeadSpace' \in spaces' \ {StageSpace', FakeStageSpace'}
      BY <1>1, <1>2, <1>3, <1>4, <2>1
    <2>3. /\ FakeStageSpace' \in spaces' /\ StageSpace' = NULL
          /\ CurrentSpace' = FakeStageSpace' /\ FakeStageSpace' # NULL
      BY <1>1, <1>2, <1>3, <1>6, <2>1
    <2> QED
      BY <1>6, <2>2, <2>3 DEF SpacesInv
  <1>7. refused' = refused
    <2>1. old \subseteq spaces /\ (CurrentSpace = NULL \/ {HeadSpace, CurrentSpace} \subseteq spaces)
      BY DEF SpacesInv
    <2> QED
      BY <2>1 DEF ReplaceSpaces, ReplaceSpacesBut
  <1> QED
    BY <1>5, <1>6, <1>7

\* Steps between frames that leave the spaces, the frame and the refusals alone.
LEMMA ElsewhereIsOrderly ==
    ASSUME OrderlyInv,
           UNCHANGED <<spaceVars, frame, refused, FrameSetup, displayTime, stageSupported>>,
           pc' = pc \/ {pc, pc'} \cap ({"init", "initRenderer", "left"} \cup FramePcs) = {}
    PROVE  OrderlyInv'
  BY DEF OrderlyInv, SpacesInv, OrderlyFrame, NothingRefused, spaceVars, FramePcs

THEOREM OrderlyInvInductive == Orderly => (Spec => []OrderlyInv)
  <1> SUFFICES ASSUME Orderly PROVE Spec => []OrderlyInv
    OBVIOUS
  <1>1. Init => OrderlyInv
    BY DEF Init, OrderlyInv, SpacesInv, OrderlyFrame, NothingRefused
  <1>2. TypeOK /\ SessionInv /\ FrameInv /\ OrderlyInv /\ [Next]_vars => OrderlyInv'
    <2> SUFFICES ASSUME TypeOK, SessionInv, FrameInv, OrderlyInv, [Next]_vars PROVE OrderlyInv'
      OBVIOUS
    <2> USE DEF runtime, rtFrame, flags
    <2>1. FrameSetup => pc \in {"engine", "endFrame", "leave", "left"}
      BY DEF TypeOK
    <2>2. CASE EnterVR
      <3>1. CASE pc' = "left" /\ UNCHANGED <<HeadSpace, spaces>>
        BY <2>2, <3>1 DEF EnterVR, OrderlyInv, SpacesInv, OrderlyFrame, NothingRefused
      <3>2. CASE pc' = "initRenderer" /\ \E head \in CreateReferenceSpace(spaces, HeadSpace) :
                     HeadSpace' = head.handle /\ spaces' = head.live
        <4>1. HeadSpace' \in Handles /\ spaces' = {HeadSpace'}
          BY <2>2, <3>2, CreatingSpaces DEF EnterVR, OrderlyInv, SpacesInv
        <4>2. SpacesInv'
          BY <2>2, <3>2, <4>1, XrAssumption DEF EnterVR, OrderlyInv, SpacesInv
        <4> QED
          BY <2>1, <2>2, <3>2, <4>2 DEF EnterVR, OrderlyInv, OrderlyFrame, NothingRefused
      <3> QED
        BY <2>2, <3>1, <3>2 DEF EnterVR
    <2>3. CASE InitRenderer \/ Recenter
      <3>1. SpacesInv' /\ refused' = refused
        BY <2>3, RecenteringIsOrderly
           DEF InitRenderer, Recenter, GoOn, WaitPcs, LoopPcs, OrderlyInv
      <3> QED
        BY <2>1, <2>3, <3>1 DEF InitRenderer, Recenter, GoOn, WaitPcs, LoopPcs, OrderlyInv,
                               OrderlyFrame, NothingRefused
    <2>4. CASE Runtime \/ WaitForSessionActive \/ FrameSetupLoop \/ HandleXrEvent \/ UNCHANGED vars
      BY <2>4, ElsewhereIsOrderly
         DEF Runtime, RuntimeChangesState, RuntimeChangesSpace, WaitForSessionActive,
             FrameSetupLoop, HandleXrEvent, vars, FramePcs, spaceVars
    <2>5. CASE NoMoreXrEvents
      BY <2>5, ElsewhereIsOrderly DEF NoMoreXrEvents, GoOn, WaitPcs, LoopPcs, FramePcs
    <2>6. CASE UpdateStageBounds
      <3>1. SpacesInv'
        BY <2>6, XrAssumption DEF UpdateStageBounds, OrderlyInv, SpacesInv, TypeOK
      <3> QED
        BY <2>1, <2>6, <3>1 DEF UpdateStageBounds, OrderlyInv, OrderlyFrame, NothingRefused
    <2>7. CASE WaitFrame
      <3>1. rtRunning
        BY <2>7 DEF WaitFrame, FrameInv, FramePcs, SessionInv
      <3>2. frame' = "waited" /\ displayTime' = TRUE /\ ~FrameSetup
        BY <2>1, <2>7, <3>1 DEF WaitFrame, Orderly, Fails
      <3> QED
        BY <2>7, <3>2 DEF WaitFrame, OrderlyInv, SpacesInv, OrderlyFrame, NothingRefused, spaceVars
    <2>8. CASE BeginFrame
      <3>1. frame = "waited" /\ ~FrameSetup
        BY <2>1, <2>8 DEF BeginFrame, OrderlyInv, OrderlyFrame
      <3> QED
        BY <2>8, <3>1 DEF BeginFrame, Refuse, OrderlyInv, SpacesInv, OrderlyFrame, NothingRefused,
                         spaceVars
    <2>9. CASE GetHMDOrientation
      <3>1. {HeadSpace, CurrentSpace} \subseteq spaces
        BY <2>9 DEF GetHMDOrientation, OrderlyInv, SpacesInv
      <3>2. refused' = refused
        BY <2>9, <3>1 DEF GetHMDOrientation, Refuse
      <3> QED
        BY <2>1, <2>9, <3>2 DEF GetHMDOrientation, OrderlyInv, SpacesInv, OrderlyFrame,
                               NothingRefused, spaceVars
    <2>10. CASE Acquire
      <3>1. image = FALSE
        BY <2>1, <2>10 DEF Acquire, AcquireImage, FrameInv, TypeOK
      <3>2. refused' = refused
        BY <2>10, <3>1 DEF Acquire, AcquireImage, Refuse
      <3> QED
        BY <2>10, <3>2 DEF Acquire, AcquireImage, OrderlyInv, SpacesInv, OrderlyFrame,
                          NothingRefused, spaceVars
    <2>11. CASE EngineCallsFrameSetup \/ EngineReturns
      BY <2>11, ElsewhereIsOrderly DEF EngineCallsFrameSetup, ToLoop, EngineReturns, FramePcs
    <2>12. CASE SubmitFrame
      <3>1. refused' = refused
        BY <2>12 DEF SubmitFrame, Refuse, FrameInv
      <3> QED
        BY <2>12, <3>1 DEF SubmitFrame, OrderlyInv, SpacesInv, OrderlyFrame, NothingRefused, spaceVars
    <2>14. CASE EndFrame
      <3>1. frame = "begun" /\ {HeadSpace, CurrentSpace} \subseteq spaces
        BY <2>14 DEF EndFrame, FrameInv, OrderlyInv, OrderlyFrame, SpacesInv
      <3>2. refused' = refused
        BY <2>14, <3>1 DEF EndFrame
      <3> QED
        BY <2>14, <3>2 DEF EndFrame, OrderlyInv, SpacesInv, OrderlyFrame, NothingRefused, spaceVars
    <2>13. CASE LeaveVR
      <3>1. {HeadSpace, FakeStageSpace} \cup ({StageSpace} \ {NULL}) \subseteq spaces
        BY <2>13 DEF LeaveVR, OrderlyInv, SpacesInv
      <3>2. refused' \subseteq {"destroySwapchain"}
        BY <2>13, <3>1 DEF LeaveVR, OrderlyInv, NothingRefused
      <3> QED
        BY <2>13, <3>2 DEF LeaveVR, OrderlyInv, SpacesInv, OrderlyFrame, NothingRefused
    <2> QED
      BY <2>2, <2>3, <2>4, <2>5, <2>6, <2>7, <2>8, <2>9, <2>10, <2>11, <2>12, <2>13, <2>14
         DEF Next, AppThread, Engine, Left
  <1> QED
    BY <1>1, <1>2, SessionTypes, SessionInvInductive, FrameInvInductive, PTL DEF Spec

\* Calls come in order, and no handle is used or destroyed after its space has been.
THEOREM RuntimeRefusesNothing == Orderly => (Spec => []NothingRefused)
  <1> SUFFICES ASSUME Orderly PROVE Spec => []NothingRefused
    OBVIOUS
  <1>1. OrderlyInv => NothingRefused
    BY DEF OrderlyInv
  <1>2. Spec => []OrderlyInv
    BY OrderlyInvInductive
  <1> QED
    BY <1>1, <1>2, PTL

\* From the locating of the head to the end of its frame nothing moves the spaces.
PoseInv ==
    pc = "acquire" \/ (FrameSetup /\ pc # "left") => poseSpace = CurrentSpace

\* The layer of a frame is placed in the very space in which the head was located.
THEOREM LayersArePlaced ==
    Orderly /\ "locate" \notin Failing => (Spec => []PoseInCurrentSpace)
  <1> SUFFICES ASSUME Orderly, "locate" \notin Failing PROVE Spec => []PoseInCurrentSpace
    OBVIOUS
  <1>1. Init => PoseInv
    BY DEF Init, PoseInv
  <1>2. TypeOK /\ OrderlyInv /\ PoseInv /\ [Next]_vars => PoseInv'
    <2> SUFFICES ASSUME TypeOK, OrderlyInv, PoseInv, [Next]_vars PROVE PoseInv'
      OBVIOUS
    <2> USE DEF PoseInv, flags, spaceVars
    <2>1. FrameSetup => pc \in {"engine", "endFrame", "leave", "left"}
      BY DEF TypeOK
    <2>2. CASE Runtime \/ UNCHANGED vars
      BY <2>2 DEF Runtime, RuntimeChangesState, RuntimeChangesSpace, vars
    <2>3. CASE EnterVR \/ InitRenderer \/ WaitForSessionActive \/ FrameSetupLoop
      BY <2>1, <2>3 DEF EnterVR, InitRenderer, WaitForSessionActive, FrameSetupLoop
    <2>4. CASE HandleXrEvent \/ NoMoreXrEvents \/ Recenter
      BY <2>1, <2>4 DEF HandleXrEvent, NoMoreXrEvents, Recenter, GoOn
    <2>5. CASE UpdateStageBounds \/ WaitFrame \/ BeginFrame
      BY <2>1, <2>5 DEF UpdateStageBounds, WaitFrame, BeginFrame
    <2>6. CASE GetHMDOrientation
      <3>1. displayTime /\ {HeadSpace, CurrentSpace} \subseteq spaces
        BY <2>6 DEF GetHMDOrientation, OrderlyInv, OrderlyFrame, SpacesInv
      <3> QED
        BY <2>6, <3>1 DEF GetHMDOrientation, Fails
    <2>7. CASE Acquire
      BY <2>7 DEF Acquire, AcquireImage
    <2>8. CASE EndFrame \/ Engine
      BY <2>8 DEF EndFrame, Engine, EngineCallsFrameSetup, ToLoop, SubmitFrame, EngineReturns
    <2>9. CASE LeaveVR
      BY <2>9 DEF LeaveVR
    <2> QED
      BY <2>2, <2>3, <2>4, <2>5, <2>6, <2>7, <2>8, <2>9 DEF Next, AppThread, Left
  <1>3. PoseInv => PoseInCurrentSpace
    BY DEF PoseInv, PoseInCurrentSpace
  <1>4. Spec => []OrderlyInv
    BY OrderlyInvInductive
  <1> QED
    BY <1>1, <1>2, <1>3, <1>4, SessionTypes, PTL DEF Spec

-----------------------------------------------------------------------------
(* The refinement *)

\* Steps that touch neither the session nor the frame do not show.
LEMMA ElsewhereStutters ==
    ASSUME UNCHANGED <<frame, image, rtRunning>>, pc' = "left" <=> pc = "left",
           pc' = "endFrame" <=> pc = "endFrame"
    PROVE  UNCHANGED Stage
  BY DEF Stage

\* The session and its frames nest as the runtime may expect.
THEOREM ProgramKeepsDiscipline == Orderly => (Spec => KeepsDiscipline)
  <1> SUFFICES ASSUME Orderly PROVE Spec => KeepsDiscipline
    OBVIOUS
  <1>1. Init => Discipline!DisciplineInit
    BY DEF Init, Discipline!DisciplineInit, Stage
  <1>2. TypeOK /\ SessionInv /\ FrameInv /\ OrderlyInv /\ [Next]_vars
            => [Discipline!DisciplineNext]_Stage
    <2> SUFFICES ASSUME TypeOK, SessionInv, FrameInv, OrderlyInv, [Next]_vars
                 PROVE  Discipline!DisciplineNext \/ UNCHANGED Stage
      OBVIOUS
    <2> USE DEF runtime, rtFrame, flags
    <2>0. /\ FrameSetup => pc \in {"engine", "endFrame", "leave", "left"}
          /\ pc # "left" => (image <=> FrameSetup /\ pc # "endFrame")
          /\ pc = "endFrame" => FrameSetup
          /\ pc # "left" => (frame = "begun" <=> FrameSetup \/ pc \in {"locate", "acquire"})
      BY DEF TypeOK, FrameInv, OrderlyInv, OrderlyFrame
    <2>1. CASE Runtime \/ InitRenderer \/ WaitForSessionActive \/ FrameSetupLoop \/ NoMoreXrEvents
      BY <2>1, ElsewhereStutters
         DEF Runtime, RuntimeChangesState, RuntimeChangesSpace, InitRenderer, WaitForSessionActive,
             FrameSetupLoop, NoMoreXrEvents, GoOn
    <2>2. CASE \/ Recenter \/ UpdateStageBounds \/ GetHMDOrientation \/ EngineCallsFrameSetup
               \/ EngineReturns \/ UNCHANGED vars
      BY <2>2, ElsewhereStutters
         DEF Recenter, GoOn, UpdateStageBounds, GetHMDOrientation, EngineCallsFrameSetup, ToLoop,
             EngineReturns, vars
    <2>3. CASE EnterVR \/ LeaveVR
      <3>1. Stage # "left" /\ (Stage' = "left" \/ UNCHANGED Stage)
        BY <2>3 DEF EnterVR, LeaveVR, Stage
      <3> QED
        BY <3>1 DEF Discipline!DisciplineNext, Discipline!Leave
    <2>4. CASE HandleXrEvent
      <3>1. /\ Stage = IF rtRunning THEN "up" ELSE "down"
            /\ Stage' = IF rtRunning' THEN "up" ELSE "down"
        BY <2>0, <2>4 DEF HandleXrEvent, Stage
      <3> QED
        BY <3>1 DEF Discipline!DisciplineNext, Discipline!BeginSession, Discipline!EndSession
    <2>5. CASE WaitFrame
      <3>1. Stage = (IF rtRunning THEN "up" ELSE "down") /\ Stage' = Stage
        BY <2>0, <2>5 DEF WaitFrame, Stage
      <3> QED
        BY <3>1
    <2>6. CASE BeginFrame
      <3>0. ~FrameSetup /\ ~image
        BY <2>0, <2>6 DEF BeginFrame
      <3>1. frame = "waited" /\ rtRunning /\ ~image
        BY <2>6, <3>0 DEF BeginFrame, OrderlyInv, OrderlyFrame, FrameInv, FramePcs, SessionInv
      <3>2. Stage = "up" /\ Stage' = "open"
        BY <2>6, <3>1 DEF BeginFrame, Stage
      <3> QED
        BY <3>2 DEF Discipline!DisciplineNext, Discipline!OpenFrame
    <2>7. CASE Acquire
      <3>1. Stage = "open" /\ Stage' = "drawing"
        BY <2>0, <2>7 DEF Acquire, AcquireImage, Stage
      <3> QED
        BY <3>1 DEF Discipline!DisciplineNext, Discipline!TakeImage
    <2>8. CASE SubmitFrame
      <3>1. Stage = "drawing" /\ rtRunning
        BY <2>0, <2>8 DEF SubmitFrame, Stage, SessionInv
      <3>2. Stage' = "drawn"
        BY <2>8, <3>1 DEF SubmitFrame, Stage
      <3> QED
        BY <3>1, <3>2 DEF Discipline!DisciplineNext, Discipline!GiveImageBack
    <2>9. CASE EndFrame
      <3>0. pc = "endFrame" /\ FrameSetup /\ ~image
        BY <2>0, <2>9 DEF EndFrame
      <3>1. Stage = "drawn" /\ rtRunning /\ ~image
        BY <3>0 DEF Stage, SessionInv, FrameInv
      <3>2. Stage' = "up"
        BY <2>9, <3>1 DEF EndFrame, Stage
      <3> QED
        BY <3>1, <3>2 DEF Discipline!DisciplineNext, Discipline!CloseFrame
    <2> QED
      BY <2>1, <2>2, <2>3, <2>4, <2>5, <2>6, <2>7, <2>8, <2>9 DEF Next, AppThread, Engine, Left
  <1>3. Spec => []OrderlyInv
    BY OrderlyInvInductive
  <1> QED
    BY <1>1, <1>2, <1>3, SessionTypes, SessionInvInductive, FrameInvInductive, PTL
       DEF Spec, KeepsDiscipline, Discipline!DisciplineSpec
=============================================================================
