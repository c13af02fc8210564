------------------------ MODULE AppLifecycle_proofs ------------------------
(***************************************************************************)
(* Proofs about the Android life cycle, for every number of windows, every *)
(* capacity of the channel and every set of launches. What a callback has  *)
(* still to bring about is one list, Rest: the message that is on its way, *)
(* and the script behind it. Posting and taking do not change it; handling *)
(* a message, releasing a window and adopting one take its first element.  *)
(* RestInv says for each list a callback can leave how the two threads'    *)
(* pointers and the references on the windows stand.                       *)
(***************************************************************************)
EXTENDS AppLifecycle, SequenceTheorems, TLAPS

-----------------------------------------------------------------------------
(* The channel: every post waits until its message is handled, so there is   *)
(* one message at most, and it is as far as the call says.                    *)

Calling(stage) == [stage |-> stage, wait |-> "PROCESSED"]

OneCall ==
    \/ call = Idle /\ inbox = << >> /\ current = NoMessage
    \/ /\ call = Calling("queued") /\ current = NoMessage
       /\ \E m \in Message : inbox = <<m>>
    \/ call = Calling("taken") /\ inbox = << >> /\ current # NoMessage
    \/ call = Calling("handled") /\ inbox = << >> /\ current = NoMessage

OpOf(m) == PostOp(m.id.what, m.id.win)
Rest ==
    IF inbox # << >> THEN <<OpOf(Head(inbox))>> \o script
    ELSE IF current # NoMessage THEN <<OpOf(current)>> \o script ELSE script

\* The steps a script is made of.
Ops == {PostOp(i.what, i.win) : i \in MessageIds} \cup {ReleaseOp, JoinOp}
       \cup {AdoptOp(w) : w \in Windows}
TypeInv == TypeOK /\ script \in Seq(Ops)

\* A sequence is its head put in front of its tail.
LEMMA FirstAndRest ==
    ASSUME NEW S, NEW s \in Seq(S), s # << >>
    PROVE  /\ Head(s) \in S /\ Tail(s) \in Seq(S)
           /\ <<Head(s)>> \o Tail(s) = s
  OBVIOUS

\* The head and the tail of a sequence something is put in front of.
LEMMA PutInFront ==
    ASSUME NEW S, NEW s \in Seq(S), NEW a
    PROVE  /\ <<a>> \o s # << >> /\ Head(<<a>> \o s) = a
           /\ Tail(<<a>> \o s) = s
  OBVIOUS

\* Two pairs joined, as onDestroy and surfaceChanged join their steps.
LEMMA JoinPairs ==
    ASSUME NEW a, NEW b, NEW c, NEW d
    PROVE  <<a, b>> \o <<c, d>> = <<a, b, c, d>>
  <1> DEFINE s == <<a, b>> \o <<c, d>>
             t == <<a, b, c, d>>
  <1>1. s \in Seq({a, b, c, d}) /\ t \in Seq({a, b, c, d})
    OBVIOUS
  <1>2. Len(s) = 4 /\ s[1] = a /\ s[2] = b /\ s[3] = c /\ s[4] = d
    OBVIOUS
  <1>3. Len(t) = 4 /\ t[1] = a /\ t[2] = b /\ t[3] = c /\ t[4] = d
    OBVIOUS
  <1> HIDE DEF s, t
  <1>4. \A n \in 1 .. Len(s) : s[n] = t[n]
    BY <1>2, <1>3
  <1>5. s = t
    BY <1>1, <1>2, <1>3, <1>4, SeqEqual
  <1> QED
    BY <1>5 DEF s, t

\* A step is of one of four kinds; a post is of a message, and a window adopted is one.
LEMMA KindsOfOps ==
    ASSUME NEW op \in Ops
    PROVE  /\ op.op \in {"post", "release", "adopt", "join"}
           /\ op.op = "post" => [what |-> op.what, win |-> op.win] \in Ids
                                /\ op = PostOp(op.what, op.win)
           /\ op.op = "release" => op = ReleaseOp
           /\ op.op = "adopt" => op.win \in Windows /\ op = AdoptOp(op.win)
           /\ op \in [op : {"post", "release", "adopt", "join"},
                     what : {"none"} \cup {i.what : i \in MessageIds},
                     win : Windows \cup {NULL}]
  BY LifecycleAssumption DEF Ops, PostOp, ReleaseOp, JoinOp, AdoptOp, Op, MessageIds

\* What the callbacks leave to be done.
LEMMA Scripts ==
    /\ \A what \in {"CREATE", "START", "RESUME", "PAUSE", "STOP", "DESTROY",
                      "SURFACE_CREATED", "SURFACE_DESTROYED"} :
           \A w \in Windows \cup {NULL} : PostOp(what, w) \in Ops /\ <<PostOp(what, w)>> \in Seq(Ops)
    /\ GiveUpWindow \in Seq(Ops)
    /\ << >> \o <<PostOp("DESTROY", NULL), JoinOp>> = <<PostOp("DESTROY", NULL), JoinOp>>
    /\ <<PostOp("DESTROY", NULL), JoinOp>> \in Seq(Ops)
    /\ GiveUpWindow \o <<PostOp("DESTROY", NULL), JoinOp>>
         = <<PostOp("SURFACE_DESTROYED", NULL), ReleaseOp, PostOp("DESTROY", NULL), JoinOp>>
    /\ GiveUpWindow \o <<PostOp("DESTROY", NULL), JoinOp>> \in Seq(Ops)
    /\ \A w \in Windows :
           LET adopting == <<AdoptOp(w), PostOp("SURFACE_CREATED", w)>>
           IN  /\ GiveUpWindow \o adopting
                    = <<PostOp("SURFACE_DESTROYED", NULL), ReleaseOp,
                        AdoptOp(w), PostOp("SURFACE_CREATED", w)>>
               /\ GiveUpWindow \o adopting \in Seq(Ops)
  <1>1. \A what \in {"CREATE", "START", "RESUME", "PAUSE", "STOP", "DESTROY",
                      "SURFACE_CREATED", "SURFACE_DESTROYED"} :
           \A w \in Windows \cup {NULL} : PostOp(what, w) \in Ops
    <2> SUFFICES ASSUME NEW what \in {"CREATE", "START", "RESUME", "PAUSE", "STOP", "DESTROY",
                                      "SURFACE_CREATED", "SURFACE_DESTROYED"},
                        NEW w \in Windows \cup {NULL}
                 PROVE  PostOp(what, w) \in Ops
      OBVIOUS
    <2> DEFINE i == [what |-> what, win |-> w]
    <2>1. i \in MessageIds /\ i.what = what /\ i.win = w
      BY DEF MessageIds
    <2> QED
      BY <2>1 DEF Ops
  <1>2. ReleaseOp \in Ops /\ JoinOp \in Ops /\ \A w \in Windows : AdoptOp(w) \in Ops
    BY DEF Ops
  <1>3. GiveUpWindow \in Seq(Ops) /\ <<PostOp("DESTROY", NULL), JoinOp>> \in Seq(Ops)
    BY <1>1, <1>2 DEF GiveUpWindow
  <1>4. \A w \in Windows : <<AdoptOp(w), PostOp("SURFACE_CREATED", w)>> \in Seq(Ops)
    BY <1>1, <1>2
  <1>5. \A a, b : GiveUpWindow \o <<a, b>> = <<PostOp("SURFACE_DESTROYED", NULL), ReleaseOp, a, b>>
    BY JoinPairs DEF GiveUpWindow
  <1> QED
    BY <1>1, <1>3, <1>4, <1>5, ConcatProperties, ConcatEmptySeq

\* The callbacks leave scripts of these steps only, and no step stores a value of
\* another type.
THEOREM LifecycleTypes == Spec => []TypeInv
  <1>1. Init => TypeInv
    <2> SUFFICES ASSUME Init PROVE TypeInv
      OBVIOUS
    <2>1. ChanTypeOK
      BY CapacityAssumption, EmptySeq DEF Init, ChanInit, ChanTypeOK, Idle
    <2>2. refs \in [Windows -> Int] /\ launch \in Launches /\ granted \subseteq Permissions
      BY LifecycleAssumption DEF Init, LaunchKinds
    <2>3. script = << >>
      BY DEF Init
    <2> QED
      BY <2>1, <2>2, <2>3, EmptySeq DEF Init, TypeInv, TypeOK
  <1>2. TypeInv /\ [Next]_vars => TypeInv'
    <2> SUFFICES ASSUME TypeInv, [Next]_vars PROVE TypeInv'
      OBVIOUS
    <2> USE DEF TypeInv, TypeOK, android, java, windows, appData, AppOnly
    <2>0. \A s \in Seq(Ops) : s \in Seq([op : {"post", "release", "adopt", "join"},
                       what : {"none"} \cup {i.what : i \in MessageIds},
                       win : Windows \cup {NULL}])
      <3>1. Ops \subseteq [op : {"post", "release", "adopt", "join"},
                       what : {"none"} \cup {i.what : i \in MessageIds},
                       win : Windows \cup {NULL}]
        BY KindsOfOps
      <3> QED
        BY <3>1, SeqMonotonic
    <2>14. UNCHANGED chanVars => ChanTypeOK'
      BY DEF chanVars, ChanTypeOK
    <2>1. CASE OnCreate \/ OnActivityResult \/ OnRequestPermissionsResult
      <3>1. /\ dialog' \in Permissions \cup {"none"} /\ mNativeHandle' \in BOOLEAN
            /\ pcApp' \in {pcApp, "init"} /\ script' \in {script, <<PostOp("CREATE", NULL)>>}
            /\ granted' \subseteq Permissions /\ process' \in {process, "exited"}
            /\ activity' \in {activity, "created"}
            /\ UNCHANGED <<chanVars, launch, surface, wasResumed, mSurfaceHolder, jniCallbackObj,
                           windows, appData>>
        BY <2>1 DEF OnCreate, OnActivityResult, OnRequestPermissionsResult, CreateNow, Create, AskFor,
                CheckPermissionsAndInitialize, Permissions
      <3>2. script' \in Seq(Ops)
        BY <3>1, Scripts
      <3>3. ChanTypeOK'
        BY <2>14, <3>1
      <3>4. mNativeHandle' \in BOOLEAN /\ launch' \in Launches /\ granted' \subseteq Permissions
        BY <3>1
      <3>5. script' \in Seq([op : {"post", "release", "adopt", "join"},
                              what : {"none"} \cup {i.what : i \in MessageIds},
                              win : Windows \cup {NULL}])
        BY <2>0, <3>2
      <3> QED
        BY <3>1, <3>2, <3>3, <3>4, <3>5
    <2>2. CASE OnStart \/ OnResume \/ OnPause \/ OnStop \/ OnDestroy
      <3>1. /\ activity' \in {"started", "resumed", "paused", "created", "destroyed"}
            /\ jniCallbackObj' \in BOOLEAN /\ wasResumed' \in BOOLEAN /\ UNCHANGED Unlogged
        BY <2>2 DEF OnStart, OnResume, OnPause, OnStop, OnDestroy
      <3>2. script' \in Seq(Ops)
        BY <2>2, Scripts, EmptySeq DEF OnStart, OnResume, OnPause, OnStop, OnDestroy, Tell
      <3>3. ChanTypeOK'
        BY <2>14, <3>1 DEF Unlogged
      <3>4. script' \in Seq([op : {"post", "release", "adopt", "join"},
                              what : {"none"} \cup {i.what : i \in MessageIds},
                              win : Windows \cup {NULL}])
        BY <2>0, <3>2
      <3> QED
        BY <3>1, <3>2, <3>3, <3>4 DEF Unlogged
    <2>3. ASSUME NEW w \in Windows, SurfaceCreated(w) \/ SurfaceChanged(w)
          PROVE  TypeInv'
      <3>1. /\ surface' \in {"fresh", "ready"} /\ mSurfaceHolder' \in BOOLEAN
            /\ threadWindow' \in {threadWindow, w}
            /\ refs' = refs \/ refs' = [refs EXCEPT ![w] = @ + 1]
            /\ UNCHANGED <<chanVars, launch, activity, dialog, granted, wasResumed, process,
                           mNativeHandle, jniCallbackObj, pcApp, appData>>
        BY <2>3 DEF SurfaceCreated, SurfaceChanged, acquire
      <3>2. script' \in Seq(Ops)
        BY <2>3, Scripts DEF SurfaceCreated, SurfaceChanged
      <3>3. refs' \in [Windows -> Int] /\ threadWindow' \in Windows \cup {NULL}
        BY <3>1
      <3>4. ChanTypeOK'
        BY <3>1, <2>14
      <3> QED
        BY <2>0, <3>1, <3>2, <3>3, <3>4
    <2>4. CASE SurfaceDestroyed
      <3>1. script' \in Seq(Ops)
        BY <2>4, Scripts DEF SurfaceDestroyed
      <3>2. ChanTypeOK'
        BY <2>4, <2>14 DEF SurfaceDestroyed
      <3>3. /\ surface' = "none" /\ mSurfaceHolder' \in BOOLEAN
            /\ UNCHANGED <<launch, activity, dialog, granted, wasResumed, process, mNativeHandle,
                           jniCallbackObj, windows, pcApp, appData>>
        BY <2>4 DEF SurfaceDestroyed
      <3> QED
        BY <2>0, <3>1, <3>2, <3>3
    <2>5. CASE UiPost
      <3>1. Head(script) \in Ops /\ Tail(script) \in Seq(Ops) /\ Head(script).op = "post"
        BY <2>5, FirstAndRest DEF UiPost, AtOp
      <3>2. CASE mNativeHandle
        <4> DEFINE m == [id |-> [what |-> Head(script).what, win |-> Head(script).win],
                         wait |-> "PROCESSED"]
        <4>1. m \in Message /\ m.wait = "PROCESSED"
          BY <3>1, KindsOfOps, LifecycleAssumption DEF Message
        <4>2. Post(m) /\ script' = Tail(script)
          BY <2>5, <3>2 DEF UiPost
        <4> HIDE DEF m
        <4>3. ChanTypeOK'
          BY <4>1, <4>2, CapacityAssumption DEF Post, ChanTypeOK
        <4> QED
          BY <2>0, <2>5, <3>1, <3>2, <4>2, <4>3 DEF UiPost
      <3>3. CASE ~mNativeHandle
        BY <2>5, <3>3 DEF UiPost, chanVars, ChanTypeOK
      <3> QED
        BY <3>2, <3>3
    <2>6. CASE UiReturn
      BY <2>6 DEF UiReturn, Return, ChanTypeOK, Idle
    <2>7. CASE UiRelease
      <3>1. Tail(script) \in Seq(Ops)
        BY <2>7, FirstAndRest DEF UiRelease, AtOp
      <3>2. CASE threadWindow = NULL
        <4>1. process' = "nullWindow" /\ UNCHANGED <<windows, script>>
          BY <2>7, <3>2 DEF UiRelease
        <4> QED
          BY <2>0, <2>7, <2>14, <4>1 DEF UiRelease
      <3>3. CASE threadWindow # NULL
        <4>1. /\ refs' = [refs EXCEPT ![threadWindow] = @ - 1] /\ threadWindow' = NULL
              /\ script' = Tail(script) /\ UNCHANGED process
          BY <2>7, <3>3 DEF UiRelease
        <4>2. refs' \in [Windows -> Int]
          BY <3>3, <4>1
        <4> QED
          BY <2>0, <2>7, <2>14, <3>1, <4>1, <4>2 DEF UiRelease
      <3> QED
        BY <3>2, <3>3
    <2>8. CASE UiAdopt
      <3>1. Head(script) \in Ops /\ Tail(script) \in Seq(Ops) /\ Head(script).op = "adopt"
        BY <2>8, FirstAndRest DEF UiAdopt, AtOp
      <3>2. Head(script).win \in Windows
        BY <3>1, KindsOfOps
      <3> QED
        BY <2>0, <2>8, <3>1, <3>2 DEF UiAdopt, chanVars, ChanTypeOK
    <2>9. CASE TakeMessage
      <3>1. ChanTypeOK'
        <4>1. Head(inbox) \in Message /\ Tail(inbox) \in Seq(Message)
          BY <2>9, FirstAndRest DEF TakeMessage, Take, ChanTypeOK
        <4>2. Len(Tail(inbox)) <= Capacity
          BY <2>9, CapacityAssumption DEF TakeMessage, Take, ChanTypeOK
        <4> QED
          BY <2>9, <4>1, <4>2 DEF TakeMessage, Take, ChanTypeOK
      <3> QED
        BY <2>9, <3>1 DEF TakeMessage
    <2>10. CASE HandleMessage
      <3>1. ChanTypeOK' /\ current \in Message
        BY <2>10 DEF HandleMessage, Finish, ChanTypeOK
      <3>2. current.id.win \in Windows \cup {NULL}
        BY <3>1, LifecycleAssumption DEF Message, MessageIds
      <3>3. Resumed' \in BOOLEAN /\ appWindow' \in Windows \cup {NULL} /\ destroyed' \in BOOLEAN
        BY <2>10, <3>2 DEF HandleMessage
      <3>4. UNCHANGED <<AppOnly, process, pcApp, SessionActive>>
        BY <2>10 DEF HandleMessage
      <3> QED
        BY <3>1, <3>3, <3>4
    <2>11. CASE AppInitialise \/ WaitForSessionActive \/ FrameSetupLoop \/ PumpDone
      BY <2>11 DEF AppInitialise, WaitForSessionActive, FrameSetupLoop, PumpDone, chanVars, ChanTypeOK
    <2>12. CASE WaitEvents \/ FrameSetupEvents
      BY <2>12 DEF WaitEvents, FrameSetupEvents, SessionEvents, chanVars, ChanTypeOK
    <2>13. CASE LeaveAndShutdown \/ Engine \/ UNCHANGED vars
      BY <2>13 DEF LeaveAndShutdown, Engine, EngineCallsFrameSetup, EngineCallsJava, EngineReturns,
               vars, chanVars, ChanTypeOK
    <2> QED
      BY <2>1, <2>2, <2>3, <2>4, <2>5, <2>6, <2>7, <2>8, <2>9, <2>10, <2>11, <2>12, <2>13
         DEF Next, Callback, UiStep, AppStep, Ended
  <1> QED
    BY <1>1, <1>2, PTL DEF Spec

-----------------------------------------------------------------------------
(* Where a callback may be *)

\* The references when the UI thread knows one window and is about to adopt another.
Held(known, next) ==
    [w \in Windows |-> (IF w = known THEN 1 ELSE 0) + (IF w = next THEN 1 ELSE 0)]

\* A launch in which no surface is shown before the native side is there.
AsksBehindNothing == launch.sdkAtLeastR \/ AsksNothing

PlainMessages == {"CREATE", "START", "RESUME", "PAUSE", "STOP"}

\* Nothing to do with windows.
Settled ==
    /\ Rest = << >> \/ \E what \in PlainMessages : Rest = <<PostOp(what, NULL)>>
    /\ appWindow = threadWindow /\ refs = Held(threadWindow, NULL)
    /\ mSurfaceHolder <=> threadWindow # NULL
    /\ threadWindow # NULL => surface # "none"
    /\ AsksBehindNothing /\ surface # "none" => threadWindow # NULL

\* A window the app thread is to be told of.
Showing ==
    /\ threadWindow # NULL /\ Rest = <<PostOp("SURFACE_CREATED", threadWindow)>>
    /\ appWindow = NULL /\ refs = Held(threadWindow, NULL)
    /\ mSurfaceHolder /\ surface # "none"

\* The window is given up: the app thread lets go of it, then the UI thread.
GivingUp ==
    /\ surface = "none" /\ ~mSurfaceHolder /\ refs = Held(threadWindow, NULL)
    /\ AsksBehindNothing => threadWindow # NULL
    /\ \/ Rest = <<PostOp("SURFACE_DESTROYED", NULL), ReleaseOp>> /\ appWindow = threadWindow
       \/ Rest = <<ReleaseOp>> /\ appWindow = NULL

\* Another one takes its place.
Changing ==
    /\ surface # "none" /\ mSurfaceHolder
    /\ \E w \in Windows :
          /\ refs = Held(threadWindow, w)
          /\ \/ /\ threadWindow # NULL /\ appWindow = threadWindow
                /\ Rest = <<PostOp("SURFACE_DESTROYED", NULL), ReleaseOp,
                            AdoptOp(w), PostOp("SURFACE_CREATED", w)>>
             \/ /\ threadWindow # NULL /\ appWindow = NULL
                /\ Rest = <<ReleaseOp, AdoptOp(w), PostOp("SURFACE_CREATED", w)>>
             \/ /\ threadWindow = NULL /\ appWindow = NULL
                /\ Rest = <<AdoptOp(w), PostOp("SURFACE_CREATED", w)>>

\* The activity's end.
Destroying ==
    /\ activity = "destroyed" /\ refs = Held(threadWindow, NULL)
    /\ \/ /\ threadWindow # NULL /\ appWindow = threadWindow
          /\ Rest = <<PostOp("SURFACE_DESTROYED", NULL), ReleaseOp,
                      PostOp("DESTROY", NULL), JoinOp>>
       \/ /\ threadWindow # NULL /\ appWindow = NULL
          /\ Rest = <<ReleaseOp, PostOp("DESTROY", NULL), JoinOp>>
       \/ /\ threadWindow = NULL /\ appWindow = NULL
          /\ \/ Rest = <<PostOp("DESTROY", NULL), JoinOp>>
             \/ Rest = <<JoinOp>> /\ destroyed

RestInv == Settled \/ Showing \/ GivingUp \/ Changing \/ Destroying

\* Whether the app thread takes the activity for resumed.
ResumedInv ==
    /\ Rest = <<PostOp("RESUME", NULL)>> => activity = "resumed"
    /\ Rest = <<PostOp("PAUSE", NULL)>> => activity = "paused"
    /\ Rest \notin {<<PostOp("RESUME", NULL)>>, <<PostOp("PAUSE", NULL)>>} =>
           (mNativeHandle => Resumed = (activity = "resumed"))

\* What there cannot be before the native side is there, or before the activity is gone.
StageInv ==
    /\ activity = "none" \/ dialog # "none" => ~mNativeHandle
    /\ ~mNativeHandle =>
           /\ call = Idle /\ pcApp = "none" /\ ~Resumed /\ ~destroyed /\ ~SessionActive
           /\ threadWindow = NULL /\ appWindow = NULL /\ ~mSurfaceHolder
           /\ script = << >> \/ activity = "destroyed"
    /\ pcApp \in {"none", "init"} => ~destroyed /\ ~SessionActive
    /\ destroyed => activity = "destroyed"

\* What goes wrong nowhere else.
FaultInv ==
    /\ activity = "none" => granted = launch.granted
    /\ AsksNothing =>
          /\ activity # "none" => mNativeHandle
          /\ activity \notin {"none", "created", "destroyed"} => jniCallbackObj
          /\ wasResumed => jniCallbackObj
          /\ SessionActive \/ pcApp \notin {"none", "init", "wait", "waitPump", "waitEvents"}
                => jniCallbackObj
    /\ launch.sdkAtLeastR => dialog \in {"none", "manage"}
    /\ AsksBehindNothing /\ activity # "none" /\ dialog # "manage" => mNativeHandle
    /\ surface # "none" /\ AsksBehindNothing => mNativeHandle
    /\ process \in {"running", "exited"} \/ ~AsksNothing
    /\ launch.sdkAtLeastR => process # "nullWindow"

LifeInv == OneCall /\ RestInv /\ ResumedInv /\ StageInv /\ FaultInv

-----------------------------------------------------------------------------
(* The channel and the rest *)

\* A message's step is never empty in front of a script.
LEMMA OpOfMessage ==
    ASSUME NEW m \in Message
    PROVE  OpOf(m) = PostOp(m.id.what, m.id.win) /\ OpOf(m) \in Ops
  <1>1. m.id \in MessageIds
    BY LifecycleAssumption DEF Message
  <1> QED
    BY <1>1 DEF OpOf, Ops

\* What the channel knows of the message under way is as far as the call says.
LEMMA OneCallInductive ==
    ASSUME TypeInv, OneCall, [Next]_vars
    PROVE  OneCall'
  <1> USE DEF Calling, Idle
  <1>1. CASE UNCHANGED chanVars
    BY <1>1 DEF OneCall, chanVars
  <1>2. CASE UiPost /\ mNativeHandle
    <2> DEFINE m == [id |-> [what |-> Head(script).what, win |-> Head(script).win],
                     wait |-> "PROCESSED"]
    <2>1. Head(script) \in Ops /\ Head(script).op = "post"
      BY <1>2, FirstAndRest DEF UiPost, AtOp, TypeInv
    <2>2. m \in Message /\ m.wait = "PROCESSED"
      BY <2>1, KindsOfOps, LifecycleAssumption DEF Message
    <2>3. Post(m)
      BY <1>2 DEF UiPost
    <2> HIDE DEF m
    <2>4. call = Idle /\ inbox = << >> /\ current = NoMessage
      BY <2>3 DEF Post, OneCall
    <2>5. inbox' = <<m>> /\ call' = Calling("queued") /\ current' = NoMessage
      BY <2>2, <2>3, <2>4 DEF Post
    <2> QED
      BY <2>2, <2>5 DEF OneCall
  <1>3. CASE UiReturn
    <2>1. call = Calling("handled")
      BY <1>3 DEF UiReturn, Return, MayReturn, OneCall
    <2> QED
      BY <1>3, <2>1 DEF UiReturn, Return, OneCall
  <1>4. CASE TakeMessage
    <2>1. call = Calling("queued") /\ \E m \in Message : inbox = <<m>>
      BY <1>4 DEF TakeMessage, Take, OneCall
    <2>2. PICK m \in Message : inbox = <<m>>
      BY <2>1
    <2>3. Head(inbox) = m /\ Tail(inbox) = << >> /\ Len(inbox) = 1
      BY <2>2
    <2>4. current' = m /\ inbox' = << >> /\ call' = Calling("taken")
      BY <1>4, <2>1, <2>3 DEF TakeMessage, Take
    <2> QED
      BY <2>4, NoMessageAssumption DEF OneCall, Message
  <1>5. CASE HandleMessage
    <2>1. call = Calling("taken") /\ inbox = << >>
      BY <1>5 DEF HandleMessage, Finish, OneCall
    <2> QED
      BY <1>5, <2>1 DEF HandleMessage, Finish, OneCall
  <1>6. UiPost /\ ~mNativeHandle => UNCHANGED chanVars
    BY DEF UiPost
  <1>7. Callback => UNCHANGED chanVars
    BY DEF Callback, OnCreate, OnActivityResult, OnRequestPermissionsResult, OnStart, OnResume,
       OnPause, OnStop, OnDestroy, SurfaceCreated, SurfaceChanged, SurfaceDestroyed, Unlogged
  <1>8. UiRelease \/ UiAdopt \/ Engine \/ UNCHANGED vars => UNCHANGED chanVars
    BY DEF UiRelease, UiAdopt, Engine, EngineCallsFrameSetup, EngineCallsJava, EngineReturns, vars
  <1>9. AppInitialise \/ WaitForSessionActive \/ FrameSetupLoop \/ PumpDone \/ WaitEvents
          \/ FrameSetupEvents \/ LeaveAndShutdown => UNCHANGED chanVars
    BY DEF AppInitialise, WaitForSessionActive, FrameSetupLoop, PumpDone, WaitEvents,
       FrameSetupEvents, LeaveAndShutdown
  <1> QED
    BY <1>1, <1>2, <1>3, <1>4, <1>5, <1>6, <1>7, <1>8, <1>9 DEF Next, UiStep, AppStep, Ended

\* While no message is on its way, the script is all that is left.
LEMMA RestWhenIdle ==
    ASSUME OneCall, call = Idle
    PROVE  Rest = script
  BY DEF OneCall, Rest, Calling, Idle

\* A callback that starts is the first thing to be done again.
LEMMA RestOfCallback ==
    ASSUME OneCall, UiIdle, UNCHANGED chanVars
    PROVE  Rest = << >> /\ Rest' = script'
  BY DEF OneCall, UiIdle, Rest, Calling, Idle, chanVars

\* Posting and taking a message, and returning from the call, leave the rest as it is.
LEMMA RestKept ==
    ASSUME TypeInv, OneCall, OneCall',
           UiPost \/ UiReturn \/ TakeMessage \/ UNCHANGED <<chanVars, script>>
    PROVE  Rest' = Rest
  <1>1. CASE UNCHANGED <<chanVars, script>>
    BY <1>1 DEF Rest, chanVars
  <1>2. CASE UiPost
    <2>1. CASE ~mNativeHandle
      BY <1>2, <2>1 DEF UiPost, Rest, chanVars
    <2>2. CASE mNativeHandle
      <3> DEFINE m == [id |-> [what |-> Head(script).what, win |-> Head(script).win],
                       wait |-> "PROCESSED"]
      <3>1. /\ Head(script) \in Ops /\ Head(script).op = "post"
            /\ <<Head(script)>> \o Tail(script) = script
        BY <1>2, FirstAndRest DEF UiPost, AtOp, TypeInv
      <3>2. OpOf(m) = Head(script)
        BY <3>1, KindsOfOps DEF OpOf
      <3>3. Post(m) /\ script' = Tail(script) /\ call = Idle
        BY <1>2, <2>2 DEF UiPost, AtOp
      <3> HIDE DEF m
      <3>4. inbox = << >> /\ Rest = script
        BY <3>3, RestWhenIdle DEF OneCall, Calling, Idle
      <3>5. inbox' = <<m>>
        BY <3>3, <3>4 DEF Post
      <3>6. Rest' = <<OpOf(m)>> \o script'
        BY <3>5 DEF Rest
      <3> QED
        BY <3>1, <3>2, <3>3, <3>4, <3>6
    <2> QED
      BY <2>1, <2>2
  <1>3. CASE UiReturn
    <2>1. call = Calling("handled")
      BY <1>3 DEF UiReturn, Return, MayReturn, OneCall, Calling, Idle
    <2> QED
      BY <1>3, <2>1 DEF UiReturn, Return, OneCall, Rest, Calling, Idle
  <1>4. CASE TakeMessage
    <2>1. call = Calling("queued") /\ \E m \in Message : inbox = <<m>>
      BY <1>4 DEF TakeMessage, Take, OneCall, Calling, Idle
    <2>2. PICK m \in Message : inbox = <<m>>
      BY <2>1
    <2>3. Head(inbox) = m /\ Tail(inbox) = << >> /\ m # NoMessage
      BY <2>2, NoMessageAssumption DEF Message
    <2>4. current' = m /\ inbox' = << >> /\ script' = script
      BY <1>4, <2>3 DEF TakeMessage, Take, AppOnly
    <2> QED
      BY <2>2, <2>3, <2>4 DEF Rest
  <1> QED
    BY <1>1, <1>2, <1>3, <1>4

\* Handling a message takes the rest's first step, which is the message's.
LEMMA RestHandled ==
    ASSUME TypeInv, OneCall, HandleMessage
    PROVE  /\ Rest # << >> /\ Head(Rest) = PostOp(current.id.what, current.id.win)
           /\ Rest' = Tail(Rest) /\ current.id \in MessageIds
  <1>1. /\ current # NoMessage /\ current' = NoMessage /\ inbox' = inbox /\ inbox = << >>
        /\ script' = script
    BY DEF HandleMessage, Finish, OneCall, AppOnly, Calling, Idle
  <1>2. Rest = <<OpOf(current)>> \o script /\ Rest' = script
    BY <1>1 DEF Rest
  <1>3. current \in Message /\ script \in Seq(Ops)
    BY <1>1 DEF TypeInv, TypeOK, ChanTypeOK
  <1>4. Rest # << >> /\ Head(Rest) = OpOf(current) /\ Tail(Rest) = script
    BY <1>2, <1>3, PutInFront
  <1>5. current.id \in MessageIds
    BY <1>3, LifecycleAssumption DEF Message
  <1> QED
    BY <1>2, <1>4, <1>5 DEF OpOf

\* So does a step of the UI thread on its window.
LEMMA RestOfWindowStep ==
    ASSUME TypeInv, OneCall, UiRelease \/ UiAdopt
    PROVE  /\ Rest # << >> /\ Rest = script
           /\ script' = Tail(script) => Rest' = Tail(Rest)
           /\ script' = script => Rest' = Rest
  <1>1. call = Idle /\ script # << >> /\ UNCHANGED chanVars
    BY DEF UiRelease, UiAdopt, AtOp
  <1>2. Rest = script /\ inbox = << >> /\ current = NoMessage
    BY <1>1, RestWhenIdle DEF OneCall, Calling, Idle
  <1>3. Rest' = script'
    BY <1>1, <1>2 DEF Rest, chanVars
  <1> QED
    BY <1>1, <1>2, <1>3

-----------------------------------------------------------------------------
(* The windows *)

\* Acquiring, releasing and adopting a window, in terms of Held.
LEMMA HeldSteps ==
    /\ \A w \in Windows : [Held(NULL, NULL) EXCEPT ![w] = @ + 1] = Held(w, NULL)
    /\ \A k, w \in Windows : k # w => [Held(k, NULL) EXCEPT ![w] = @ + 1] = Held(k, w)
    /\ \A k \in Windows, n \in Windows \cup {NULL} :
           [Held(k, n) EXCEPT ![k] = @ - 1] = Held(NULL, n)
    /\ \A w \in Windows : Held(NULL, w) = Held(w, NULL)
  <1>0. NULL \notin Windows
    BY LifecycleAssumption
  <1>1. ASSUME NEW w \in Windows
        PROVE  [Held(NULL, NULL) EXCEPT ![w] = @ + 1] = Held(w, NULL)
    <2>1. \A v \in Windows : (IF v = NULL THEN 1 ELSE 0) = 0
      BY <1>0
    <2> DEFINE f == Held(NULL, NULL)
               g == Held(w, NULL)
    <2>2. f \in [Windows -> Int] /\ g \in [Windows -> Int]
      BY DEF Held
    <2>3. g[w] = f[w] + 1
      BY <2>1 DEF Held
    <2>4. \A v \in Windows \ {w} : g[v] = f[v]
      BY <2>1 DEF Held
    <2> HIDE DEF f, g
    <2>5. [f EXCEPT ![w] = @ + 1] = g
      BY <2>2, <2>3, <2>4
    <2> QED
      BY <2>5 DEF f, g
  <1>2. ASSUME NEW k \in Windows, NEW w \in Windows, k # w
        PROVE  [Held(k, NULL) EXCEPT ![w] = @ + 1] = Held(k, w)
    <2>1. \A v \in Windows : (IF v = NULL THEN 1 ELSE 0) = 0
      BY <1>0
    <2> DEFINE f == Held(k, NULL)
               g == Held(k, w)
    <2>2. f \in [Windows -> Int] /\ g \in [Windows -> Int]
      BY DEF Held
    <2>3. g[w] = f[w] + 1
      BY <1>2, <2>1 DEF Held
    <2>4. \A v \in Windows \ {w} : g[v] = f[v]
      BY <1>2, <2>1 DEF Held
    <2> HIDE DEF f, g
    <2>5. [f EXCEPT ![w] = @ + 1] = g
      BY <2>2, <2>3, <2>4
    <2> QED
      BY <2>5 DEF f, g
  <1>3. ASSUME NEW k \in Windows, NEW n \in Windows \cup {NULL}
        PROVE  [Held(k, n) EXCEPT ![k] = @ - 1] = Held(NULL, n)
    <2>1. \A v \in Windows : (IF v = NULL THEN 1 ELSE 0) = 0
      BY <1>0
    <2> DEFINE f == Held(k, n)
               g == Held(NULL, n)
    <2>2. f \in [Windows -> Int] /\ g \in [Windows -> Int]
      BY DEF Held
    <2>3. g[k] = f[k] - 1
      BY <2>1 DEF Held
    <2>4. \A v \in Windows \ {k} : g[v] = f[v]
      BY <2>1 DEF Held
    <2> HIDE DEF f, g
    <2>5. [f EXCEPT ![k] = @ - 1] = g
      BY <2>2, <2>3, <2>4
    <2> QED
      BY <2>5 DEF f, g
  <1>4. ASSUME NEW w \in Windows
        PROVE  Held(NULL, w) = Held(w, NULL)
    <2>1. \A v \in Windows : v # NULL
      BY <1>0
    <2> QED
      BY <2>1 DEF Held
  <1> QED
    BY <1>1, <1>2, <1>3, <1>4

\* When nothing is left to be done, the two threads agree.
LEMMA NothingLeft ==
    ASSUME RestInv, Rest = << >>
    PROVE  Settled
  BY DEF RestInv, Settled, Showing, GivingUp, Changing, Destroying

\* A step that changes neither what is left nor the windows.
LEMMA WindowsAlone ==
    ASSUME RestInv, Rest' = Rest,
           UNCHANGED <<appWindow, windows, mSurfaceHolder, surface, activity, launch, destroyed>>
    PROVE  RestInv'
  <1>1. AsksBehindNothing' = AsksBehindNothing
    BY DEF AsksBehindNothing, AsksNothing
  <1>2. UNCHANGED <<threadWindow, refs>>
    BY DEF windows
  <1>3. Settled => Settled'
    BY <1>1, <1>2 DEF Settled
  <1>4. Showing => Showing'
    BY <1>2 DEF Showing
  <1>5. GivingUp => GivingUp'
    BY <1>1, <1>2 DEF GivingUp
  <1>6. Changing => Changing'
    BY <1>2 DEF Changing
  <1>7. Destroying => Destroying'
    BY <1>2 DEF Destroying
  <1> QED
    BY <1>3, <1>4, <1>5, <1>6, <1>7 DEF RestInv

\* The callbacks leave one of the lists of RestInv.
LEMMA CallbacksKeepRestInv ==
    ASSUME TypeInv, OneCall, RestInv, StageInv, FaultInv, Callback
    PROVE  RestInv'
  <1>1. UiIdle /\ UNCHANGED <<chanVars, launch, appData>>
    BY DEF Callback, OnCreate, OnActivityResult, OnRequestPermissionsResult, OnStart, OnResume,
       OnPause, OnStop, OnDestroy, SurfaceCreated, SurfaceChanged, SurfaceDestroyed, Unlogged, UiFree
  <1>2. Rest = << >> /\ Rest' = script' /\ script = << >>
    BY <1>1, RestOfCallback DEF UiIdle
  <1>3. Settled
    BY <1>2, NothingLeft
  <1>4. appWindow' = appWindow /\ AsksBehindNothing' = AsksBehindNothing
    BY <1>1 DEF appData, AsksBehindNothing, AsksNothing
  <1>5. threadWindow \in Windows \cup {NULL} /\ appWindow = threadWindow
        /\ refs = Held(threadWindow, NULL) /\ NULL \notin Windows
    BY <1>3, LifecycleAssumption DEF Settled, TypeInv, TypeOK
  <1>6. CASE OnCreate \/ OnActivityResult \/ OnRequestPermissionsResult
    <2>1. /\ script' \in {script, <<PostOp("CREATE", NULL)>>}
          /\ UNCHANGED <<surface, mSurfaceHolder, threadWindow, refs>>
      BY <1>6 DEF OnCreate, OnActivityResult, OnRequestPermissionsResult, CreateNow, Create, AskFor,
              CheckPermissionsAndInitialize, windows
    <2> QED
      BY <1>2, <1>3, <1>4, <2>1 DEF RestInv, Settled, PlainMessages
  <1>7. CASE OnStart \/ OnResume \/ OnPause \/ OnStop
    <2>1. /\ script' \in {<< >>} \cup {<<PostOp(what, NULL)>> : what \in PlainMessages}
          /\ UNCHANGED <<surface, mSurfaceHolder, threadWindow, refs>>
      BY <1>7 DEF OnStart, OnResume, OnPause, OnStop, Tell, PlainMessages, Unlogged, windows
    <2> QED
      BY <1>2, <1>3, <1>4, <2>1 DEF RestInv, Settled
  <1>8. CASE OnDestroy
    <2>1. /\ script' = (IF mSurfaceHolder THEN GiveUpWindow ELSE << >>)
                         \o <<PostOp("DESTROY", NULL), JoinOp>>
          /\ activity' = "destroyed" /\ UNCHANGED <<threadWindow, refs>>
      BY <1>8 DEF OnDestroy, Unlogged, windows
    <2>2. CASE threadWindow # NULL
      <3>1. script' = <<PostOp("SURFACE_DESTROYED", NULL), ReleaseOp,
                        PostOp("DESTROY", NULL), JoinOp>>
        BY <1>3, <2>1, <2>2, Scripts DEF Settled
      <3>2. Destroying'
        BY <1>2, <1>4, <1>5, <2>1, <2>2, <3>1 DEF Destroying
      <3> QED
        BY <3>2 DEF RestInv
    <2>3. CASE threadWindow = NULL
      <3>1. script' = <<PostOp("DESTROY", NULL), JoinOp>>
        BY <1>3, <2>1, <2>3, Scripts DEF Settled
      <3>2. Destroying'
        BY <1>2, <1>4, <1>5, <2>1, <2>3, <3>1 DEF Destroying
      <3> QED
        BY <3>2 DEF RestInv
    <2> QED
      BY <2>2, <2>3
  <1>9. ASSUME NEW w \in Windows, SurfaceCreated(w)
        PROVE  RestInv'
    <2>1. CASE mNativeHandle
      <3>1. /\ threadWindow = NULL /\ appWindow' = NULL
            /\ refs' = [Held(NULL, NULL) EXCEPT ![w] = @ + 1] /\ threadWindow' = w
            /\ script' = <<PostOp("SURFACE_CREATED", w)>> /\ mSurfaceHolder' /\ surface' = "fresh"
        BY <1>3, <1>4, <1>5, <1>9, <2>1 DEF SurfaceCreated, Settled, acquire
      <3>2. refs' = Held(w, NULL)
        BY <3>1, HeldSteps
      <3>3. Showing'
        BY <1>2, <1>5, <3>1, <3>2 DEF Showing
      <3> QED
        BY <3>3 DEF RestInv
    <2>2. CASE ~mNativeHandle
      <3>1. ~AsksBehindNothing
        BY <1>9, <2>2 DEF SurfaceCreated, SurfaceShown, FaultInv
      <3>2. UNCHANGED <<threadWindow, refs, script, mSurfaceHolder>> /\ surface' = "fresh"
        BY <1>9, <2>2 DEF SurfaceCreated, windows
      <3> QED
        BY <1>2, <1>3, <1>4, <3>1, <3>2 DEF RestInv, Settled
    <2> QED
      BY <2>1, <2>2
  <1>10. ASSUME NEW w \in Windows, SurfaceChanged(w)
         PROVE  RestInv'
    <2>0. surface # "none" /\ surface' = "ready"
      BY <1>10 DEF SurfaceChanged
    <2>1. CASE ~mNativeHandle
      <3>1. UNCHANGED <<threadWindow, refs, script, mSurfaceHolder>>
        BY <1>10, <2>1 DEF SurfaceChanged, windows
      <3> QED
        BY <1>2, <1>3, <1>4, <2>0, <3>1 DEF RestInv, Settled
    <2>2. CASE mNativeHandle /\ w = threadWindow
      <3>1. UNCHANGED <<threadWindow, refs, script>> /\ mSurfaceHolder'
        BY <1>5, <1>10, <2>2 DEF SurfaceChanged, windows
      <3> QED
        BY <1>2, <1>3, <1>4, <1>5, <2>0, <2>2, <3>1 DEF RestInv, Settled
    <2>3. CASE mNativeHandle /\ w # threadWindow /\ threadWindow # NULL
      <3>1. /\ refs' = [refs EXCEPT ![w] = @ + 1] /\ mSurfaceHolder' /\ UNCHANGED threadWindow
            /\ script' = GiveUpWindow \o <<AdoptOp(w), PostOp("SURFACE_CREATED", w)>>
        BY <1>10, <2>3 DEF SurfaceChanged, acquire
      <3>2. refs' = Held(threadWindow, w)
        BY <1>5, <2>3, <3>1, HeldSteps
      <3>3. script' = <<PostOp("SURFACE_DESTROYED", NULL), ReleaseOp,
                        AdoptOp(w), PostOp("SURFACE_CREATED", w)>>
        BY <3>1, Scripts
      <3>4. Changing'
        BY <1>2, <1>4, <1>5, <2>0, <2>3, <3>1, <3>2, <3>3 DEF Changing
      <3> QED
        BY <3>4 DEF RestInv
    <2>4. CASE mNativeHandle /\ w # threadWindow /\ threadWindow = NULL
      <3>1. /\ refs' = [Held(NULL, NULL) EXCEPT ![w] = @ + 1] /\ mSurfaceHolder'
            /\ threadWindow' = w /\ script' = <<PostOp("SURFACE_CREATED", w)>>
        BY <1>5, <1>10, <2>4 DEF SurfaceChanged, acquire
      <3>2. refs' = Held(w, NULL)
        BY <3>1, HeldSteps
      <3>3. Showing'
        BY <1>2, <1>4, <1>5, <2>0, <2>4, <3>1, <3>2 DEF Showing
      <3> QED
        BY <3>3 DEF RestInv
    <2> QED
      BY <2>1, <2>2, <2>3, <2>4
  <1>11. CASE SurfaceDestroyed
    <2>1. CASE mNativeHandle
      <3>1. /\ script' = <<PostOp("SURFACE_DESTROYED", NULL), ReleaseOp>> /\ ~mSurfaceHolder'
            /\ surface = "ready" /\ surface' = "none" /\ UNCHANGED <<threadWindow, refs>>
        BY <1>11, <2>1 DEF SurfaceDestroyed, GiveUpWindow, windows
      <3>2. GivingUp'
        BY <1>2, <1>3, <1>4, <1>5, <3>1 DEF GivingUp, Settled
      <3> QED
        BY <3>2 DEF RestInv
    <2>2. CASE ~mNativeHandle
      <3>1. UNCHANGED <<threadWindow, refs, script, mSurfaceHolder>> /\ surface' = "none"
        BY <1>11, <2>2 DEF SurfaceDestroyed, windows
      <3>2. threadWindow = NULL
        BY <2>2 DEF StageInv
      <3> QED
        BY <1>2, <1>3, <1>4, <3>1, <3>2 DEF RestInv, Settled
    <2> QED
      BY <2>1, <2>2
  <1> QED
    BY <1>6, <1>7, <1>8, <1>9, <1>10, <1>11 DEF Callback

\* Which message is handled where: the first step of every list is told apart.
LEMMA HandlingKeepsRestInv ==
    ASSUME TypeInv, OneCall, RestInv, HandleMessage
    PROVE  /\ RestInv'
           /\ current.id.what = "DESTROY" => activity = "destroyed"
           /\ current.id.what = "RESUME" => Rest = <<PostOp("RESUME", NULL)>>
           /\ current.id.what = "PAUSE" => Rest = <<PostOp("PAUSE", NULL)>>
           /\ Rest' \notin {<<PostOp("RESUME", NULL)>>, <<PostOp("PAUSE", NULL)>>}
  <1> DEFINE what == current.id.what
             win == current.id.win
  <1>1. Rest # << >> /\ Head(Rest) = PostOp(what, win) /\ Rest' = Tail(Rest)
    BY RestHandled
  <1>2. /\ appWindow' = IF what = "SURFACE_CREATED" THEN win
                        ELSE IF what \in {"SURFACE_DESTROYED", "DESTROY"} THEN NULL ELSE appWindow
        /\ destroyed' = (destroyed \/ what = "DESTROY")
        /\ UNCHANGED <<threadWindow, refs, mSurfaceHolder, surface, activity, launch>>
    BY DEF HandleMessage, AppOnly, android, java, windows
  <1>3. AsksBehindNothing' = AsksBehindNothing
    BY <1>2 DEF AsksBehindNothing, AsksNothing
  <1> HIDE DEF what, win
  <1> USE DEF PostOp, ReleaseOp, AdoptOp, JoinOp, Op
  <1>4. CASE Settled
    <2>1. PICK p \in PlainMessages : Rest = <<PostOp(p, NULL)>>
      BY <1>1, <1>4 DEF Settled
    <2>2. what = p /\ Rest' = << >>
      BY <1>1, <2>1
    <2>3. Settled'
      BY <1>2, <1>3, <1>4, <2>2 DEF Settled, PlainMessages
    <2> QED
      BY <2>1, <2>2, <2>3 DEF RestInv, PlainMessages, what
  <1>5. CASE Showing
    <2>1. what = "SURFACE_CREATED" /\ win = threadWindow /\ Rest' = << >>
      BY <1>1, <1>5 DEF Showing
    <2>2. Settled'
      BY <1>2, <1>5, <2>1 DEF Showing, Settled
    <2> QED
      BY <2>1, <2>2 DEF RestInv, what
  <1>6. CASE GivingUp
    <2>0. Rest = <<PostOp("SURFACE_DESTROYED", NULL), ReleaseOp>>
      BY <1>1, <1>6 DEF GivingUp
    <2>1. what = "SURFACE_DESTROYED" /\ Rest' = <<ReleaseOp>>
      BY <1>1, <2>0
    <2>2. GivingUp'
      BY <1>2, <1>3, <1>6, <2>1 DEF GivingUp
    <2> QED
      BY <2>1, <2>2 DEF RestInv, what
  <1>7. CASE Changing
    <2>1. PICK w \in Windows :
              /\ refs = Held(threadWindow, w)
              /\ threadWindow # NULL /\ appWindow = threadWindow
              /\ Rest = <<PostOp("SURFACE_DESTROYED", NULL), ReleaseOp,
                          AdoptOp(w), PostOp("SURFACE_CREATED", w)>>
      BY <1>1, <1>7 DEF Changing
    <2>2. /\ what = "SURFACE_DESTROYED"
          /\ Rest' = <<ReleaseOp, AdoptOp(w), PostOp("SURFACE_CREATED", w)>>
      BY <1>1, <2>1
    <2>3. Changing'
      BY <1>2, <1>7, <2>1, <2>2 DEF Changing
    <2> QED
      BY <2>2, <2>3 DEF RestInv, what
  <1>8. CASE Destroying
    <2>1. CASE threadWindow # NULL
      <3>0. Rest = <<PostOp("SURFACE_DESTROYED", NULL), ReleaseOp,
                     PostOp("DESTROY", NULL), JoinOp>>
        BY <1>1, <1>8, <2>1 DEF Destroying
      <3>1. /\ what = "SURFACE_DESTROYED"
            /\ Rest' = <<ReleaseOp, PostOp("DESTROY", NULL), JoinOp>>
        BY <1>1, <3>0
      <3>2. Destroying'
        BY <1>2, <1>8, <2>1, <3>1 DEF Destroying
      <3> QED
        BY <3>1, <3>2 DEF RestInv, what
    <2>2. CASE threadWindow = NULL
      <3>0. Rest = <<PostOp("DESTROY", NULL), JoinOp>>
        BY <1>1, <1>8, <2>2 DEF Destroying
      <3>1. what = "DESTROY" /\ Rest' = <<JoinOp>>
        BY <1>1, <3>0
      <3>2. Destroying'
        BY <1>2, <1>8, <2>2, <3>1 DEF Destroying
      <3> QED
        BY <1>8, <3>1, <3>2 DEF RestInv, Destroying, what
    <2> QED
      BY <2>1, <2>2
  <1> QED
    BY <1>4, <1>5, <1>6, <1>7, <1>8 DEF RestInv

\* The UI thread gives a reference back where it has one, except after a surface that
\* was there before the native side was.
LEMMA ReleaseKeepsRestInv ==
    ASSUME TypeInv, OneCall, RestInv, UiRelease
    PROVE  /\ RestInv'
           /\ Rest' \notin {<<PostOp("RESUME", NULL)>>, <<PostOp("PAUSE", NULL)>>}
           /\ Rest \notin {<<PostOp("RESUME", NULL)>>, <<PostOp("PAUSE", NULL)>>}
           /\ AsksBehindNothing => threadWindow # NULL
  <1>1. Rest # << >> /\ Rest = script /\ Head(Rest).op = "release"
    BY RestOfWindowStep DEF UiRelease, AtOp
  <1>2. /\ appWindow' = appWindow
        /\ UNCHANGED <<mSurfaceHolder, surface, activity, launch, destroyed>>
    BY DEF UiRelease, android, java, appData
  <1>3. AsksBehindNothing' = AsksBehindNothing
    BY <1>2 DEF AsksBehindNothing, AsksNothing
  <1>4. threadWindow \in Windows \cup {NULL} /\ NULL \notin Windows
    BY LifecycleAssumption DEF TypeInv, TypeOK
  <1>5. CASE threadWindow = NULL
    <2>1. script' = script /\ UNCHANGED windows
      BY <1>5 DEF UiRelease
    <2>2. Rest' = Rest
      BY <2>1, RestOfWindowStep
    <2>3. RestInv'
      BY <1>2, <2>1, <2>2, WindowsAlone
    <2> USE DEF PostOp, ReleaseOp, AdoptOp, JoinOp, Op
    <2>4. Rest = <<ReleaseOp>> /\ GivingUp
      BY <1>1, <1>5 DEF RestInv, Settled, Showing, GivingUp, Changing, Destroying
    <2> QED
      BY <1>5, <2>2, <2>3, <2>4 DEF GivingUp
  <1>6. CASE threadWindow # NULL
    <2>1. /\ refs' = [refs EXCEPT ![threadWindow] = @ - 1] /\ threadWindow' = NULL
          /\ script' = Tail(script)
      BY <1>6 DEF UiRelease
    <2>2. Rest' = Tail(Rest)
      BY <2>1, RestOfWindowStep
    <2>3. \A n \in Windows \cup {NULL} : refs = Held(threadWindow, n) => refs' = Held(NULL, n)
      BY <1>4, <1>6, <2>1, HeldSteps
    <2> USE DEF PostOp, ReleaseOp, AdoptOp, JoinOp, Op
    <2>4. CASE Settled \/ Showing
      BY <1>1, <2>4 DEF Settled, Showing
    <2>5. CASE GivingUp
      <3>1. Rest = <<ReleaseOp>> /\ appWindow = NULL
        BY <1>1, <2>5 DEF GivingUp
      <3>2. Rest' = << >>
        BY <2>2, <3>1
      <3>3. refs' = Held(NULL, NULL)
        BY <2>3, <2>5 DEF GivingUp
      <3>4. Settled'
        BY <1>2, <1>3, <2>1, <2>5, <3>1, <3>2, <3>3 DEF GivingUp, Settled
      <3> QED
        BY <1>6, <3>1, <3>2, <3>4 DEF RestInv
    <2>6. CASE Changing
      <3>1. PICK w \in Windows :
                /\ refs = Held(threadWindow, w) /\ appWindow = NULL
                /\ Rest = <<ReleaseOp, AdoptOp(w), PostOp("SURFACE_CREATED", w)>>
        BY <1>1, <1>6, <2>6 DEF Changing
      <3>2. Rest' = <<AdoptOp(w), PostOp("SURFACE_CREATED", w)>>
        BY <2>2, <3>1
      <3>3. Changing'
        BY <1>2, <2>1, <2>3, <2>6, <3>1, <3>2 DEF Changing
      <3> QED
        BY <1>6, <3>1, <3>2, <3>3 DEF RestInv
    <2>7. CASE Destroying
      <3>1. Rest = <<ReleaseOp, PostOp("DESTROY", NULL), JoinOp>> /\ appWindow = NULL
        BY <1>1, <1>6, <2>7 DEF Destroying
      <3>2. Rest' = <<PostOp("DESTROY", NULL), JoinOp>>
        BY <2>2, <3>1
      <3>3. Destroying'
        BY <1>2, <2>1, <2>3, <2>7, <3>1, <3>2 DEF Destroying
      <3> QED
        BY <1>6, <3>1, <3>2, <3>3 DEF RestInv
    <2> QED
      BY <2>4, <2>5, <2>6, <2>7 DEF RestInv
  <1> QED
    BY <1>5, <1>6

\* A window is adopted only in the middle of surfaceChanged.
LEMMA AdoptKeepsRestInv ==
    ASSUME TypeInv, OneCall, RestInv, UiAdopt
    PROVE  /\ RestInv' /\ mSurfaceHolder
           /\ Rest' \notin {<<PostOp("RESUME", NULL)>>, <<PostOp("PAUSE", NULL)>>}
           /\ Rest \notin {<<PostOp("RESUME", NULL)>>, <<PostOp("PAUSE", NULL)>>}
  <1>1. Rest # << >> /\ Rest = script /\ Head(Rest).op = "adopt" /\ Rest' = Tail(Rest)
    BY RestOfWindowStep DEF UiAdopt, AtOp
  <1>2. /\ threadWindow' = Head(Rest).win
        /\ UNCHANGED <<appWindow, refs, mSurfaceHolder, surface, activity, launch>>
    BY <1>1 DEF UiAdopt, android, java, appData
  <1> USE DEF PostOp, ReleaseOp, AdoptOp, JoinOp, Op
  <1>3. Changing
    BY <1>1 DEF RestInv, Settled, Showing, GivingUp, Changing, Destroying
  <1>4. PICK w \in Windows :
            /\ refs = Held(threadWindow, w) /\ threadWindow = NULL /\ appWindow = NULL
            /\ Rest = <<AdoptOp(w), PostOp("SURFACE_CREATED", w)>>
    BY <1>1, <1>3 DEF Changing
  <1>5. Rest' = <<PostOp("SURFACE_CREATED", w)>> /\ threadWindow' = w
    BY <1>1, <1>2, <1>4
  <1>6. refs' = Held(w, NULL) /\ w # NULL
    BY <1>2, <1>4, HeldSteps, LifecycleAssumption
  <1>7. Showing'
    BY <1>2, <1>3, <1>4, <1>5, <1>6 DEF Showing, Changing
  <1> QED
    BY <1>3, <1>4, <1>5, <1>7 DEF RestInv, Changing

\* The steps that leave what is left to be done as it is.
Aside == UiPost \/ UiReturn \/ TakeMessage \/ AppInitialise \/ WaitForSessionActive
         \/ FrameSetupLoop \/ PumpDone \/ WaitEvents \/ FrameSetupEvents \/ LeaveAndShutdown
         \/ Engine \/ UNCHANGED vars

\* Every step is a callback, touches what is left of one, or leaves it alone.
LEMMA StepsOfNext ==
    ASSUME [Next]_vars
    PROVE  Callback \/ Aside \/ HandleMessage \/ UiRelease \/ UiAdopt
  BY DEF Next, UiStep, AppStep, Ended, Aside

\* Those steps change nothing the invariants relate to what is left.
LEMMA AsideKeeps ==
    ASSUME TypeInv, OneCall, OneCall', Aside
    PROVE  /\ Rest' = Rest
           /\ UNCHANGED <<appWindow, windows, mSurfaceHolder, surface, activity, launch, Resumed,
                          mNativeHandle, jniCallbackObj, granted, dialog, destroyed>>
  <1> USE DEF android, java, windows, appData, AppOnly
  <1>1. CASE UiPost \/ UiReturn \/ TakeMessage
    BY <1>1, RestKept DEF UiPost, UiReturn, TakeMessage
  <1>2. CASE AppInitialise \/ WaitForSessionActive \/ FrameSetupLoop \/ PumpDone
             \/ LeaveAndShutdown \/ Engine \/ UNCHANGED vars
    <2>1. UNCHANGED <<chanVars, script>>
      BY <1>2 DEF AppInitialise, WaitForSessionActive, FrameSetupLoop, PumpDone,
              LeaveAndShutdown, Engine, EngineCallsFrameSetup, EngineCallsJava, EngineReturns, vars
    <2> QED
      BY <1>2, <2>1, RestKept DEF AppInitialise, WaitForSessionActive, FrameSetupLoop, PumpDone,
              LeaveAndShutdown, Engine, EngineCallsFrameSetup, EngineCallsJava, EngineReturns, vars
  <1>3. CASE WaitEvents \/ FrameSetupEvents
    <2>1. UNCHANGED <<chanVars, script>>
      BY <1>3 DEF WaitEvents, FrameSetupEvents
    <2> QED
      BY <1>3, <2>1, RestKept DEF WaitEvents, FrameSetupEvents
  <1> QED
    BY <1>1, <1>2, <1>3 DEF Aside

\* No step leads out of the lists of RestInv.
LEMMA RestInvKept ==
    ASSUME TypeInv, LifeInv, OneCall', [Next]_vars
    PROVE  RestInv'
  <1> USE DEF LifeInv
  <1>1. CASE Callback
    BY <1>1, CallbacksKeepRestInv
  <1>2. CASE Aside
    BY <1>2, AsideKeeps, WindowsAlone
  <1>3. CASE HandleMessage
    BY <1>3, HandlingKeepsRestInv
  <1>4. CASE UiRelease
    BY <1>4, ReleaseKeepsRestInv
  <1>5. CASE UiAdopt
    BY <1>5, AdoptKeepsRestInv
  <1> QED
    BY <1>1, <1>2, <1>3, <1>4, <1>5, StepsOfNext

\* Whether the activity is resumed is known as soon as the message has been handled.
LEMMA ResumedInvKept ==
    ASSUME TypeInv, LifeInv, OneCall', [Next]_vars
    PROVE  ResumedInv'
  <1> USE DEF LifeInv
  <1>1. CASE Callback
    <2>1. UiIdle /\ UNCHANGED <<chanVars, Resumed>>
      BY <1>1 DEF Callback, OnCreate, OnActivityResult, OnRequestPermissionsResult, OnStart, OnResume,
         OnPause, OnStop, OnDestroy, SurfaceCreated, SurfaceChanged, SurfaceDestroyed, Unlogged, UiFree,
         appData
    <2>2. Rest = << >> /\ Rest' = script' /\ script = << >>
      BY <2>1, RestOfCallback DEF UiIdle
    <2>3. mNativeHandle => Resumed = (activity = "resumed")
      BY <2>2 DEF ResumedInv
    <2> USE DEF PostOp, Op
    <2>4. CASE OnCreate \/ OnActivityResult \/ OnRequestPermissionsResult
      <3>1. /\ \/ UNCHANGED <<mNativeHandle, script>>
               \/ mNativeHandle' /\ script' = <<PostOp("CREATE", NULL)>>
            /\ activity = "none" \/ dialog # "none"
            /\ activity \in {"none", "started", "paused"}
            /\ activity' \in {activity, "created"}
        BY <2>4 DEF OnCreate, OnActivityResult, OnRequestPermissionsResult, CreateNow,
                Create, AskFor, CheckPermissionsAndInitialize
      <3>2. ~mNativeHandle /\ ~Resumed
        BY <3>1 DEF StageInv
      <3>3. Rest' \in {<< >>, <<PostOp("CREATE", NULL)>>}
        BY <2>2, <3>1
      <3>4. Rest' \notin {<<PostOp("RESUME", NULL)>>, <<PostOp("PAUSE", NULL)>>}
        BY <3>3
      <3>5. Resumed' = FALSE /\ activity' # "resumed"
        BY <2>1, <3>1, <3>2 DEF TypeInv, TypeOK
      <3> QED
        BY <3>4, <3>5 DEF ResumedInv
    <2>5. CASE OnStart \/ OnResume \/ OnPause \/ OnStop
      BY <2>1, <2>2, <2>3, <2>5 DEF OnStart, OnResume, OnPause, OnStop, Tell, Unlogged, ResumedInv
    <2>6. CASE OnDestroy
      <3>1. /\ activity = "created" /\ activity' = "destroyed" /\ mNativeHandle' = mNativeHandle
            /\ script' \in {GiveUpWindow \o <<PostOp("DESTROY", NULL), JoinOp>>,
                            << >> \o <<PostOp("DESTROY", NULL), JoinOp>>}
        BY <2>6 DEF OnDestroy, Unlogged
      <3>2. script' \notin {<<PostOp("RESUME", NULL)>>, <<PostOp("PAUSE", NULL)>>}
        BY <3>1, Scripts
      <3> QED
        BY <2>1, <2>2, <2>3, <3>1, <3>2 DEF ResumedInv
    <2>7. ASSUME NEW w \in Windows, SurfaceCreated(w) \/ SurfaceChanged(w)
          PROVE  ResumedInv'
      <3>1. /\ UNCHANGED <<activity, mNativeHandle>>
            /\ script' \in {script, <<PostOp("SURFACE_CREATED", w)>>,
                            GiveUpWindow \o <<AdoptOp(w), PostOp("SURFACE_CREATED", w)>>}
        BY <2>7 DEF SurfaceCreated, SurfaceChanged
      <3>2. CASE script' = script \/ script' = <<PostOp("SURFACE_CREATED", w)>>
        BY <2>1, <2>2, <2>3, <3>1, <3>2 DEF ResumedInv
      <3>3. CASE script' = GiveUpWindow \o <<AdoptOp(w), PostOp("SURFACE_CREATED", w)>>
        <4>1. script' = <<PostOp("SURFACE_DESTROYED", NULL), ReleaseOp,
                          AdoptOp(w), PostOp("SURFACE_CREATED", w)>>
          BY <3>3, Scripts
        <4>2. Rest' \notin {<<PostOp("RESUME", NULL)>>, <<PostOp("PAUSE", NULL)>>}
          BY <2>2, <4>1
        <4> QED
          BY <2>1, <2>2, <2>3, <3>1, <4>2 DEF ResumedInv
      <3> QED
        BY <3>1, <3>2, <3>3
    <2>8. CASE SurfaceDestroyed
      BY <2>1, <2>2, <2>3, <2>8 DEF SurfaceDestroyed, GiveUpWindow, ResumedInv
    <2> QED
      BY <1>1, <2>4, <2>5, <2>6, <2>7, <2>8 DEF Callback
  <1>2. CASE Aside
    BY <1>2, AsideKeeps DEF ResumedInv
  <1>3. CASE HandleMessage
    <2>1. /\ Resumed' = IF current.id.what = "RESUME" THEN TRUE
                        ELSE IF current.id.what = "PAUSE" THEN FALSE ELSE Resumed
          /\ UNCHANGED <<activity, mNativeHandle>>
      BY <1>3 DEF HandleMessage, AppOnly, android, java
    <2>2. Rest # << >> /\ Head(Rest) = PostOp(current.id.what, current.id.win)
      BY <1>3, RestHandled
    <2>3. /\ Rest = <<PostOp("RESUME", NULL)>> => current.id.what = "RESUME"
          /\ Rest = <<PostOp("PAUSE", NULL)>> => current.id.what = "PAUSE"
      BY <2>2 DEF PostOp, Op
    <2> QED
      BY <1>3, <2>1, <2>3, HandlingKeepsRestInv DEF ResumedInv
  <1>4. CASE UiRelease
    BY <1>4, ReleaseKeepsRestInv DEF ResumedInv, UiRelease, android, java, appData
  <1>5. CASE UiAdopt
    BY <1>5, AdoptKeepsRestInv DEF ResumedInv, UiAdopt, android, java, appData
  <1> QED
    BY <1>1, <1>2, <1>3, <1>4, <1>5, StepsOfNext

\* Nothing runs before onCreate has started it, and only a message of onDestroy makes the
\* app thread take the activity for gone.
LEMMA StageInvKept ==
    ASSUME TypeInv, LifeInv, OneCall', [Next]_vars
    PROVE  StageInv'
  <1> USE DEF LifeInv
  <1>1. CASE Callback
    <2>1. UiIdle /\ UNCHANGED <<chanVars, appWindow, Resumed, destroyed, SessionActive>>
      BY <1>1 DEF Callback, OnCreate, OnActivityResult, OnRequestPermissionsResult, OnStart, OnResume,
         OnPause, OnStop, OnDestroy, SurfaceCreated, SurfaceChanged, SurfaceDestroyed, Unlogged, UiFree,
         appData
    <2>2. script = << >> /\ call' = call
      BY <2>1 DEF UiIdle, chanVars
    <2>4. CASE OnCreate \/ OnActivityResult \/ OnRequestPermissionsResult
      <3>1. /\ activity = "none" \/ dialog # "none"
            /\ activity # "destroyed" /\ activity' \in {activity, "created"}
            /\ UNCHANGED <<threadWindow, mSurfaceHolder>>
            /\ \/ mNativeHandle' /\ pcApp' = "init" /\ dialog' = "none" /\ activity' # "none"
               \/ UNCHANGED <<mNativeHandle, pcApp, script>>
        BY <2>4 DEF OnCreate, OnActivityResult, OnRequestPermissionsResult, CreateNow, Create, AskFor,
                CheckPermissionsAndInitialize, windows
      <3>2. ~mNativeHandle
        BY <3>1 DEF StageInv
      <3> QED
        BY <2>1, <2>2, <3>1, <3>2 DEF StageInv
    <2>5. CASE OnStart \/ OnResume \/ OnPause \/ OnStop
      BY <2>1, <2>2, <2>5 DEF OnStart, OnResume, OnPause, OnStop, Tell, Unlogged, windows, StageInv
    <2>6. CASE OnDestroy
      BY <2>1, <2>2, <2>6 DEF OnDestroy, Unlogged, windows, StageInv
    <2>7. ASSUME NEW w \in Windows, SurfaceCreated(w) \/ SurfaceChanged(w)
          PROVE  StageInv'
      <3>1. UNCHANGED <<activity, dialog, mNativeHandle, pcApp>>
            /\ (~mNativeHandle => UNCHANGED <<threadWindow, script, mSurfaceHolder>>)
        BY <2>7 DEF SurfaceCreated, SurfaceChanged, windows
      <3> QED
        BY <2>1, <2>2, <3>1 DEF StageInv
    <2>8. CASE SurfaceDestroyed
      BY <2>1, <2>2, <2>8 DEF SurfaceDestroyed, windows, StageInv
    <2> QED
      BY <1>1, <2>4, <2>5, <2>6, <2>7, <2>8 DEF Callback
  <1>2. CASE Aside
    <2>1. UNCHANGED <<appWindow, threadWindow, mSurfaceHolder, activity, Resumed, mNativeHandle,
                      dialog, destroyed>>
      BY <1>2, AsideKeeps DEF windows
    <2>2. CASE UiPost \/ UiReturn \/ TakeMessage
      <3>1. UNCHANGED <<pcApp, SessionActive>>
        BY <2>2 DEF UiPost, UiReturn, TakeMessage, appData
      <3>2. ~mNativeHandle => UNCHANGED <<call, script>>
        <4>1. UiPost /\ ~mNativeHandle => UNCHANGED <<call, script>>
          BY DEF UiPost, chanVars
        <4>2. UiReturn => mNativeHandle
          BY DEF UiReturn, Return, StageInv
        <4>3. TakeMessage => mNativeHandle
          BY DEF TakeMessage, Pumping, StageInv
        <4> QED
          BY <2>2, <4>1, <4>2, <4>3
      <3> QED
        BY <2>1, <3>1, <3>2 DEF StageInv
    <2>3. CASE AppInitialise \/ WaitForSessionActive \/ FrameSetupLoop \/ PumpDone
               \/ WaitEvents \/ FrameSetupEvents \/ LeaveAndShutdown \/ Engine
      <3>1. mNativeHandle
        BY <2>3 DEF AppInitialise, WaitForSessionActive, FrameSetupLoop, PumpDone, WaitEvents,
           FrameSetupEvents, LeaveAndShutdown, Engine, EngineCallsFrameSetup, EngineCallsJava,
           EngineReturns, AppAt, Pumping, StageInv
      <3>2. CASE AppInitialise \/ WaitForSessionActive \/ FrameSetupLoop \/ PumpDone
        BY <2>1, <3>1, <3>2 DEF AppInitialise, WaitForSessionActive, FrameSetupLoop, PumpDone, AppAt,
           Pumping, appData, StageInv
      <3>3. CASE WaitEvents
        <4>1. pcApp' = "wait" /\ pcApp = "waitEvents" /\ SessionEvents
          BY <3>3 DEF WaitEvents, AppAt
        <4> QED
          BY <2>1, <3>1, <4>1 DEF SessionEvents, StageInv
      <3>4. CASE FrameSetupEvents
        <4>1. pcApp' \in {"setup", "leave", "engine"}
          BY <3>4 DEF FrameSetupEvents
        <4> QED
          BY <2>1, <3>1, <4>1 DEF StageInv
      <3>5. CASE LeaveAndShutdown \/ Engine
        BY <2>1, <3>1, <3>5 DEF LeaveAndShutdown, Engine, EngineCallsFrameSetup, EngineCallsJava,
           EngineReturns, AppAt, appData, StageInv
      <3> QED
        BY <2>3, <3>2, <3>3, <3>4, <3>5
    <2>4. CASE UNCHANGED vars
      BY <2>1, <2>4 DEF vars, chanVars, appData, StageInv
    <2> QED
      BY <1>2, <2>2, <2>3, <2>4 DEF Aside
  <1>3. CASE HandleMessage
    <2>1. /\ UNCHANGED <<activity, dialog, mNativeHandle, pcApp, SessionActive>>
          /\ pcApp \in {"waitPump", "setupPump"}
          /\ destroyed' = (destroyed \/ current.id.what = "DESTROY")
      BY <1>3 DEF HandleMessage, Pumping, AppOnly, android, java
    <2>2. destroyed' => activity = "destroyed"
      BY <1>3, <2>1, HandlingKeepsRestInv DEF StageInv
    <2> QED
      BY <2>1, <2>2 DEF StageInv
  <1>4. CASE UiRelease
    BY <1>4 DEF UiRelease, AtOp, chanVars, android, java, windows, appData, StageInv
  <1>5. CASE UiAdopt
    <2>1. mNativeHandle
      BY <1>5, AdoptKeepsRestInv DEF StageInv
    <2> QED
      BY <1>5, <2>1 DEF UiAdopt, android, java, appData, StageInv
  <1> QED
    BY <1>1, <1>2, <1>3, <1>4, <1>5, StepsOfNext

\* With nothing to ask for, onCreate goes straight on.
LEMMA NothingToAsk ==
    ASSUME CheckPermissionsAndInitialize(launch.granted), AsksNothing
    PROVE  CreateNow
  BY DEF CheckPermissionsAndInitialize, AsksNothing

\* Nothing is used before it is there, but in the launches that ask first.
LEMMA FaultInvKept ==
    ASSUME TypeInv, LifeInv, [Next]_vars
    PROVE  FaultInv'
  <1>0a. launch' = launch
    BY DEF Next, Callback, OnCreate, OnActivityResult, OnRequestPermissionsResult, OnStart, OnResume,
       OnPause, OnStop, OnDestroy, SurfaceCreated, SurfaceChanged, SurfaceDestroyed, Unlogged,
       UiStep, UiPost, UiReturn, UiRelease, UiAdopt, AppStep, AppInitialise, WaitForSessionActive,
       FrameSetupLoop, TakeMessage, HandleMessage, PumpDone, WaitEvents, FrameSetupEvents,
       LeaveAndShutdown, Engine, EngineCallsFrameSetup, EngineCallsJava, EngineReturns, Ended, vars,
       android, AppOnly
  <1>0b. AsksNothing' = AsksNothing /\ AsksBehindNothing' = AsksBehindNothing
    BY <1>0a DEF AsksNothing, AsksBehindNothing
  <1>0c. FaultInv /\ StageInv
    BY DEF LifeInv
  <1>1. CASE OnCreate
    <2>1. /\ activity = "none" /\ activity' = "created" /\ granted' = granted
          /\ CheckPermissionsAndInitialize(granted) /\ granted = launch.granted
          /\ UNCHANGED <<surface, process, jniCallbackObj, wasResumed, SessionActive>>
      BY <1>1, <1>0c DEF OnCreate, appData, FaultInv
    <2>2. AsksNothing => mNativeHandle'
      BY <2>1, NothingToAsk DEF CreateNow, Create
    <2>3. ~mNativeHandle /\ pcApp = "none" /\ ~SessionActive
      BY <1>0c, <2>1 DEF StageInv
    <2>4. /\ \/ mNativeHandle' /\ pcApp' = "init" /\ dialog' = "none"
             \/ dialog' # "none" /\ UNCHANGED <<mNativeHandle, pcApp>>
          /\ launch.sdkAtLeastR => dialog' \in {"none", "manage"}
          /\ launch.sdkAtLeastR /\ dialog' # "manage" => mNativeHandle'
      BY <2>1 DEF CheckPermissionsAndInitialize, CreateNow, Create, AskFor
    <2>5. pcApp' \in {"none", "init"} /\ surface # "none" /\ AsksBehindNothing => mNativeHandle'
      BY <1>0c, <2>3, <2>4 DEF FaultInv
    <2> QED
      BY <1>0a, <1>0b, <1>0c, <2>1, <2>2, <2>3, <2>4, <2>5 DEF FaultInv, AsksBehindNothing
  <1>2. CASE OnActivityResult
    <2>1. /\ activity \in {"started", "paused"} /\ activity' = activity /\ dialog = "manage"
          /\ mNativeHandle' /\ pcApp' = "init" /\ dialog' = "none"
          /\ UNCHANGED <<surface, process, jniCallbackObj, wasResumed, SessionActive>>
      BY <1>2 DEF OnActivityResult, CreateNow, Create, appData
    <2>2. ~mNativeHandle /\ ~SessionActive
      BY <1>0c, <2>1 DEF StageInv
    <2> QED
      BY <1>0a, <1>0b, <1>0c, <2>1, <2>2 DEF FaultInv
  <1>3. CASE OnRequestPermissionsResult
    <2>1. /\ activity \in {"started", "paused"} /\ activity' = activity
          /\ dialog \in {"write", "read"} /\ process = "running"
          /\ process' \in {process, "exited"}
          /\ UNCHANGED <<surface, jniCallbackObj, wasResumed, SessionActive>>
      BY <1>3 DEF OnRequestPermissionsResult, appData, UiFree, UiIdle
    <2>2. ~mNativeHandle
      BY <1>0c, <2>1 DEF StageInv
    <2>3. ~launch.sdkAtLeastR /\ ~AsksNothing
      BY <1>0c, <2>1, <2>2 DEF FaultInv
    <2> QED
      BY <1>0a, <1>0b, <2>1, <2>3 DEF FaultInv, AsksBehindNothing
  <1>4. CASE OnStart \/ OnResume \/ OnPause \/ OnStop \/ OnDestroy
    <2>1. /\ activity # "none" /\ activity' # "none"
          /\ UNCHANGED <<surface, dialog, granted, process, mNativeHandle, pcApp, SessionActive>>
      BY <1>4 DEF OnStart, OnResume, OnPause, OnStop, OnDestroy, Unlogged, appData
    <2>2. /\ activity' \in {"created", "destroyed"} \/ activity \in {"started", "resumed", "paused"}
                 \/ jniCallbackObj' = (jniCallbackObj \/ mNativeHandle)
          /\ jniCallbackObj' \in {jniCallbackObj, jniCallbackObj \/ mNativeHandle}
      BY <1>4 DEF OnStart, OnResume, OnPause, OnStop, OnDestroy
    <2>3. jniCallbackObj => jniCallbackObj'
      BY <2>2
    <2>4. AsksNothing => mNativeHandle
      BY <1>0c, <2>1 DEF FaultInv
    <2>5. AsksNothing /\ activity' \notin {"none", "created", "destroyed"} => jniCallbackObj'
      BY <1>0c, <2>2, <2>3, <2>4 DEF FaultInv
    <2>6. wasResumed' => wasResumed \/ activity' = "resumed"
      BY <1>4 DEF OnStart, OnResume, OnPause, OnStop, OnDestroy
    <2>7. AsksNothing /\ wasResumed' => jniCallbackObj'
      BY <1>0c, <2>3, <2>5, <2>6 DEF FaultInv
    <2> QED
      BY <1>0a, <1>0b, <1>0c, <2>1, <2>3, <2>5, <2>7 DEF FaultInv
  <1>5. ASSUME NEW w \in Windows, SurfaceCreated(w) \/ SurfaceChanged(w)
        PROVE  FaultInv'
    <2>1. /\ activity \in {"resumed", "paused"} /\ dialog # "manage"
          /\ UNCHANGED <<activity, dialog, granted, process, mNativeHandle, jniCallbackObj, pcApp,
                         wasResumed, SessionActive>>
      BY <1>5 DEF SurfaceCreated, SurfaceChanged, SurfaceShown, appData
    <2>2. AsksBehindNothing => mNativeHandle
      BY <1>0c, <2>1 DEF FaultInv
    <2> QED
      BY <1>0a, <1>0b, <1>0c, <2>1, <2>2 DEF FaultInv
  <1>6. CASE SurfaceDestroyed
    <2>1. /\ surface' = "none"
          /\ UNCHANGED <<activity, dialog, granted, process, mNativeHandle, jniCallbackObj, pcApp,
                         wasResumed, SessionActive>>
      BY <1>6 DEF SurfaceDestroyed, appData
    <2> QED
      BY <1>0a, <1>0b, <1>0c, <2>1 DEF FaultInv
  <1>7. CASE UiPost
    <2>1. UNCHANGED <<activity, dialog, granted, surface, mNativeHandle, jniCallbackObj, pcApp,
                      wasResumed, SessionActive>>
          /\ script # << >> /\ process' \in {process, "nullHandle"}
          /\ (mNativeHandle => process' = process)
      BY <1>7 DEF UiPost, AtOp, android, java, appData
    <2>2. AsksNothing => process' = process
      BY <1>0c, <2>1 DEF FaultInv, StageInv
    <2> QED
      BY <1>0a, <1>0b, <1>0c, <2>1, <2>2 DEF FaultInv
  <1>8. CASE UiRelease
    <2>1. UNCHANGED <<activity, dialog, granted, surface, mNativeHandle, jniCallbackObj, pcApp,
                      wasResumed, SessionActive>>
          /\ (threadWindow # NULL => process' = process)
      BY <1>8 DEF UiRelease, android, java, appData
    <2>2. AsksBehindNothing => process' = process
      BY <1>8, <2>1, ReleaseKeepsRestInv DEF LifeInv
    <2>3. process' \in {process, "nullWindow"}
      BY <1>8 DEF UiRelease
    <2> QED
      BY <1>0a, <1>0b, <1>0c, <2>1, <2>2, <2>3 DEF FaultInv, AsksBehindNothing
  <1>9. CASE UiReturn \/ UiAdopt \/ TakeMessage \/ HandleMessage \/ AppInitialise \/ FrameSetupLoop
             \/ PumpDone \/ EngineCallsFrameSetup \/ EngineReturns \/ EngineCallsJava
             \/ LeaveAndShutdown \/ UNCHANGED vars \/ WaitForSessionActive
    <2>1. UNCHANGED <<activity, dialog, granted, surface, mNativeHandle, jniCallbackObj,
                      wasResumed, SessionActive>>
      BY <1>9 DEF UiReturn, UiAdopt, TakeMessage, HandleMessage, AppInitialise, FrameSetupLoop,
         PumpDone, EngineCallsFrameSetup, EngineReturns, EngineCallsJava, LeaveAndShutdown, vars,
         WaitForSessionActive, AppOnly, android, java, appData
    <2>2. \/ pcApp' = pcApp
          \/ pcApp' \in {"none", "init", "wait", "waitPump", "waitEvents"}
          \/ pcApp \notin {"none", "init", "wait", "waitPump", "waitEvents"}
          \/ SessionActive
      BY <1>9 DEF UiReturn, UiAdopt, TakeMessage, HandleMessage, AppInitialise, FrameSetupLoop,
         PumpDone, EngineCallsFrameSetup, EngineReturns, EngineCallsJava, LeaveAndShutdown, vars,
         WaitForSessionActive, AppAt, Pumping
    <2>3. process' \in {process, "exited"} \/ AppAt("engine") \/ AppAt("leave")
      BY <1>9 DEF UiReturn, UiAdopt, TakeMessage, HandleMessage, AppInitialise, FrameSetupLoop,
         PumpDone, EngineCallsFrameSetup, EngineReturns, EngineCallsJava, LeaveAndShutdown, vars,
         WaitForSessionActive, AppAt
    <2>4. AppAt("engine") \/ AppAt("leave") => process' \in {process, "exited", "nullCallback"}
      BY <1>9 DEF UiReturn, UiAdopt, TakeMessage, HandleMessage, AppInitialise, FrameSetupLoop,
         PumpDone, EngineCallsFrameSetup, EngineReturns, EngineCallsJava, LeaveAndShutdown, vars,
         WaitForSessionActive, AppAt, Pumping
    <2>5. (AppAt("engine") \/ AppAt("leave")) /\ jniCallbackObj => process' \in {process, "exited"}
      BY <1>9 DEF UiReturn, UiAdopt, TakeMessage, HandleMessage, AppInitialise, FrameSetupLoop,
         PumpDone, EngineCallsFrameSetup, EngineReturns, EngineCallsJava, LeaveAndShutdown, vars,
         WaitForSessionActive, AppAt, Pumping
    <2>6. AsksNothing => process' \in {process, "exited"}
      BY <1>0c, <2>3, <2>5 DEF AppAt, FaultInv
    <2>7. process' # "nullWindow" \/ process' = process
      BY <2>3, <2>4
    <2> QED
      BY <1>0a, <1>0b, <1>0c, <2>1, <2>2, <2>6, <2>7 DEF FaultInv
  <1>10. CASE WaitEvents \/ FrameSetupEvents
    <2>1. UNCHANGED <<activity, dialog, granted, surface, process, mNativeHandle, jniCallbackObj,
                      wasResumed>>
      BY <1>10 DEF WaitEvents, FrameSetupEvents, AppOnly, android, java
    <2>2. /\ (pcApp' = "wait" /\ pcApp = "waitEvents") \/ pcApp = "setupEvents"
          /\ SessionActive' /\ ~SessionActive => wasResumed
      BY <1>10 DEF WaitEvents, FrameSetupEvents, AppAt, SessionEvents
    <2>3. AsksNothing /\ (SessionActive' \/ pcApp' # "wait") => jniCallbackObj
      BY <1>0c, <2>2 DEF FaultInv
    <2> QED
      BY <1>0a, <1>0b, <1>0c, <2>1, <2>2, <2>3 DEF FaultInv
  <1> QED
    BY <1>1, <1>2, <1>3, <1>4, <1>5, <1>6, <1>7, <1>8, <1>9, <1>10
       DEF Next, Callback, UiStep, AppStep, Engine, Ended

-----------------------------------------------------------------------------
(* The theorems *)

\* At the start there is nothing to be done.
LEMMA LifeInvAtStart == Init => LifeInv
  <1> SUFFICES ASSUME Init PROVE LifeInv
    OBVIOUS
  <1>1. /\ inbox = << >> /\ current = NoMessage /\ call = Idle /\ script = << >>
        /\ activity = "none" /\ surface = "none" /\ dialog = "none" /\ granted = launch.granted
        /\ process = "running" /\ ~mNativeHandle /\ ~mSurfaceHolder /\ threadWindow = NULL
        /\ refs = [w \in Windows |-> 0] /\ pcApp = "none" /\ appWindow = NULL
        /\ ~Resumed /\ ~destroyed /\ ~SessionActive /\ ~wasResumed
    BY DEF Init, ChanInit
  <1>2. Rest = << >>
    BY <1>1 DEF Rest
  <1>3. \A w \in Windows : w # NULL
    BY LifecycleAssumption
  <1>4. Held(NULL, NULL) = [w \in Windows |-> 0]
    BY <1>3 DEF Held
  <1>5. Settled
    BY <1>1, <1>2, <1>4 DEF Settled
  <1>6. ResumedInv
    BY <1>1, <1>2 DEF ResumedInv
  <1>7. StageInv
    BY <1>1 DEF StageInv
  <1>8. FaultInv
    BY <1>1 DEF FaultInv
  <1> QED
    BY <1>1, <1>5, <1>6, <1>7, <1>8 DEF LifeInv, OneCall, RestInv

\* What a callback has left to be done accounts for both threads' windows and for every
\* reference, in every reachable state.
THEOREM LifeInvInductive == Spec => []LifeInv
  <1>1. TypeInv /\ LifeInv /\ [Next]_vars => LifeInv'
    <2> SUFFICES ASSUME TypeInv, LifeInv, [Next]_vars PROVE LifeInv'
      OBVIOUS
    <2>1. OneCall'
      BY OneCallInductive DEF LifeInv
    <2>2. RestInv' /\ ResumedInv' /\ StageInv' /\ FaultInv'
      BY <2>1, RestInvKept, ResumedInvKept, StageInvKept, FaultInvKept
    <2> QED
      BY <2>1, <2>2 DEF LifeInv
  <1> QED
    BY <1>1, LifeInvAtStart, LifecycleTypes, PTL DEF Spec

\* Every variable keeps its type.
THEOREM LifecycleTypeOK == Spec => []TypeOK
  <1>1. TypeInv => TypeOK
    BY DEF TypeInv
  <1> QED
    BY <1>1, LifecycleTypes, PTL

\* The app thread holds no window the UI thread has given back.
THEOREM AppWindowIsAlive == Spec => []WindowAlive
  <1>1. TypeInv /\ LifeInv => WindowAlive
    <2> SUFFICES ASSUME TypeInv, LifeInv, appWindow # NULL PROVE refs[appWindow] > 0
      BY DEF WindowAlive
    <2>1. appWindow \in Windows
      BY DEF TypeInv, TypeOK
    <2>2. appWindow = threadWindow /\ \E n \in Windows \cup {NULL} : refs = Held(threadWindow, n)
      BY DEF LifeInv, RestInv, Settled, Showing, GivingUp, Changing, Destroying
    <2>3. PICK n \in Windows \cup {NULL} : refs = Held(appWindow, n)
      BY <2>2
    <2>4. refs[appWindow] = 1 + (IF appWindow = n THEN 1 ELSE 0)
      BY <2>1, <2>3 DEF Held
    <2> QED
      BY <2>4
  <1> QED
    BY <1>1, LifecycleTypes, LifeInvInductive, PTL

\* Between callbacks exactly the window the UI thread knows is held, once.
THEOREM ReferencesBalance == Spec => []RefsBalanced
  <1>1. LifeInv => RefsBalanced
    <2> SUFFICES ASSUME LifeInv, UiIdle, NEW w \in Windows
                 PROVE  refs[w] = (IF w = threadWindow THEN 1 ELSE 0)
      BY DEF RefsBalanced
    <2>1. Rest = << >>
      BY RestWhenIdle DEF LifeInv, UiIdle
    <2>2. refs = Held(threadWindow, NULL)
      BY <2>1, NothingLeft DEF LifeInv, Settled
    <2>3. w # NULL
      BY LifecycleAssumption
    <2> QED
      BY <2>2, <2>3 DEF Held
  <1> QED
    BY <1>1, LifeInvInductive, PTL

\* When a callback has returned, the app thread knows what the UI thread knows.
THEOREM AppThreadCatchesUp == Spec => []SeesLatest
  <1>1. LifeInv => SeesLatest
    <2> SUFFICES ASSUME LifeInv, UiIdle, mNativeHandle
                 PROVE  Resumed = (activity = "resumed") /\ appWindow = threadWindow
      BY DEF SeesLatest
    <2>1. Rest = << >>
      BY RestWhenIdle DEF LifeInv, UiIdle
    <2>2. Settled /\ ResumedInv
      BY <2>1, NothingLeft DEF LifeInv
    <2> QED
      BY <2>1, <2>2 DEF Settled, ResumedInv
  <1> QED
    BY <1>1, LifeInvInductive, PTL

\* A launch that asks nothing never uses what is not there, and one that opens the
\* settings page only never releases a window it does not have.
THEOREM NothingMissingIsUsed == Spec => []NoFault
  <1>1. TypeInv /\ LifeInv => NoFault
    BY DEF TypeInv, TypeOK, LifeInv, FaultInv, NoFault
  <1> QED
    BY <1>1, LifecycleTypes, LifeInvInductive, PTL

\* Once the UI thread waits for the app thread to end, the app thread has handled the
\* destruction, and so a frame set-up gives the engine no frame: only the wait for the
\* session, which does not look at destroyed, may still let the engine be started.
THEOREM NoFrameOnceDestroyed == Spec => NoFrameAfterDestroy
  <1>1. LifeInv /\ Joining => destroyed
    <2> SUFFICES ASSUME LifeInv, Joining PROVE destroyed
      OBVIOUS
    <2>1. Rest = <<JoinOp>>
      BY RestWhenIdle DEF LifeInv, Joining
    <2> USE DEF PostOp, ReleaseOp, AdoptOp, JoinOp, Op
    <2>2. ~Settled /\ ~Showing /\ ~GivingUp /\ ~Changing
      BY <2>1 DEF Settled, Showing, GivingUp, Changing
    <2>3. Destroying
      BY <2>2 DEF LifeInv, RestInv
    <2> QED
      BY <2>1, <2>3 DEF Destroying
  <1>2. LifeInv /\ [Next]_vars
          => [Joining /\ pcApp # "engine" /\ pcApp' = "engine" => pcApp = "wait"]_vars
    <2> SUFFICES ASSUME LifeInv, [Next]_vars, Joining, pcApp # "engine", pcApp' = "engine"
                 PROVE  pcApp = "wait"
      OBVIOUS
    <2>1. WaitForSessionActive \/ FrameSetupEvents
      BY DEF Next, Callback, OnCreate, OnActivityResult, OnRequestPermissionsResult, OnStart,
         OnResume, OnPause, OnStop, OnDestroy, SurfaceCreated, SurfaceChanged, SurfaceDestroyed,
         Unlogged, CheckPermissionsAndInitialize, CreateNow, Create, AskFor, UiStep, UiPost,
         UiReturn, UiRelease, UiAdopt, AppStep, AppInitialise, FrameSetupLoop, TakeMessage,
         HandleMessage, PumpDone, WaitEvents, LeaveAndShutdown, Engine, EngineCallsFrameSetup,
         EngineCallsJava, EngineReturns, Ended, vars
    <2>2. CASE WaitForSessionActive
      BY <2>2 DEF WaitForSessionActive, AppAt
    <2>3. CASE FrameSetupEvents
      BY <1>1, <2>3 DEF FrameSetupEvents, AppAt
    <2> QED
      BY <2>1, <2>2, <2>3
  <1> QED
    BY <1>2, LifeInvInductive, PTL DEF Spec, NoFrameAfterDestroy
=============================================================================
