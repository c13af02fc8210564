---------------------------- MODULE AppLifecycle ----------------------------
(***************************************************************************)
(* The Android side of RazeXR: the activity callbacks of                   *)
(* GLES3JNIActivity.java on the UI thread, the JNI functions of            *)
(* RazeXR_OpenXR.cpp they call, and the app thread (AppThreadFunction)     *)
(* that pumps their messages while it waits for the OpenXR session and at  *)
(* the start of every frame. The two threads meet in MessageChannel, which *)
(* the surface message queue implements.                                   *)
(*                                                                         *)
(* A callback does its UI-local work at once and leaves the steps that     *)
(* other threads can see (posts, references to native windows) in script,  *)
(* to be done in order; the next callback comes when the script is empty.  *)
(* Android decides which callback that is, within the rules of the         *)
(* activity and SurfaceView life cycles.                                   *)
(***************************************************************************)
EXTENDS MessageChannel, Integers

CONSTANTS
    Windows,          \* native windows the system may hand out
    NULL,
    Launches          \* the launches considered: see LaunchKinds

Permissions == {"manage", "write", "read"}

\* Whether Build.VERSION.SDK_INT >= Build.VERSION_CODES.R, and the storage
\* permissions granted before.
LaunchKinds == [sdkAtLeastR : BOOLEAN, granted : SUBSET Permissions]

MessageIds == [what : {"CREATE", "START", "RESUME", "PAUSE", "STOP", "DESTROY",
                       "SURFACE_CREATED", "SURFACE_DESTROYED"},
               win : Windows \cup {NULL}]

ASSUME LifecycleAssumption ==
    /\ Ids = MessageIds
    /\ Waits = {"PROCESSED"}
    /\ NULL \notin Windows
    /\ Launches \subseteq LaunchKinds

VARIABLES
    \* Android
    launch,         \* the launch this is
    activity,       \* the activity's stage
    surface,        \* none, fresh (surfaceChanged is due at once) or ready
    dialog,         \* the permission the user is being asked for, or "none"
    granted,        \* permissions the user has granted
    wasResumed,     \* the activity has been resumed: history, for the runtime
    process,        \* running, exited, or the fault that ended it
    \* UI thread
    mNativeHandle, mSurfaceHolder,   \* whether GLES3JNIActivity has them
    jniCallbackObj,                  \* whether the native side can call Java
    threadWindow,                    \* appThread->NativeWindow
    refs,                            \* references held on each native window
    script,                          \* what is left of the callback under way
    \* app thread
    pcApp,
    appWindow, Resumed,              \* gAppState.NativeWindow, gAppState.Resumed
    destroyed, SessionActive

android == <<launch, activity, surface, dialog, granted, wasResumed>>
java == <<mNativeHandle, mSurfaceHolder, jniCallbackObj>>
windows == <<threadWindow, refs>>
appData == <<appWindow, Resumed, destroyed, SessionActive>>
vars == <<chanVars, android, process, java, windows, script, pcApp, appData>>

Op(op, what, w) == [op |-> op, what |-> what, win |-> w]
PostOp(what, w) == Op("post", what, w)
ReleaseOp == Op("release", "none", NULL)
AdoptOp(w) == Op("adopt", "none", w)
JoinOp == Op("join", "none", NULL)

TypeOK ==
    /\ ChanTypeOK
    /\ launch \in Launches
    /\ activity \in {"none", "created", "started", "resumed", "paused", "destroyed"}
    /\ surface \in {"none", "fresh", "ready"}
    /\ dialog \in Permissions \cup {"none"}
    /\ granted \subseteq Permissions /\ wasResumed \in BOOLEAN
    /\ process \in {"running", "exited", "nullHandle", "nullWindow", "nullCallback"}
    /\ mNativeHandle \in BOOLEAN /\ mSurfaceHolder \in BOOLEAN
    /\ jniCallbackObj \in BOOLEAN
    /\ threadWindow \in Windows \cup {NULL}
    /\ refs \in [Windows -> Int]
    /\ script \in Seq([op : {"post", "release", "adopt", "join"},
                       what : {"none"} \cup {i.what : i \in MessageIds},
                       win : Windows \cup {NULL}])
    /\ pcApp \in {"none", "init", "wait", "waitPump", "waitEvents", "engine",
                  "setup", "setupPump", "setupEvents", "leave"}
    /\ appWindow \in Windows \cup {NULL}
    /\ Resumed \in BOOLEAN /\ destroyed \in BOOLEAN /\ SessionActive \in BOOLEAN

Init ==
    /\ ChanInit
    /\ activity = "none" /\ surface = "none" /\ dialog = "none"
    /\ launch \in Launches /\ granted = launch.granted
    /\ wasResumed = FALSE /\ process = "running"
    /\ mNativeHandle = FALSE /\ mSurfaceHolder = FALSE /\ jniCallbackObj = FALSE
    /\ threadWindow = NULL /\ refs = [w \in Windows |-> 0] /\ script = <<>>
    /\ pcApp = "none" /\ appWindow = NULL
    /\ Resumed = FALSE /\ destroyed = FALSE /\ SessionActive = FALSE

\* The UI thread has come back from its last callback.
UiIdle == process = "running" /\ script = <<>> /\ call = Idle

\* Android calls surfaceChanged right after surfaceCreated, nothing in between.
UiFree == UiIdle /\ surface # "fresh"

-----------------------------------------------------------------------------
(* Permissions: onCreate, checkPermissionsAndInitialize, onActivityResult   *)
(* and onRequestPermissionsResult                                           *)

\* Java create() ends in the native onCreate, which starts the app thread, posts
\* MESSAGE_ON_CREATE and returns the handle.
Create ==
    /\ mNativeHandle' = TRUE
    /\ pcApp' = "init"
    /\ script' = <<PostOp("CREATE", NULL)>>

CreateNow == Create /\ dialog' = "none"
AskFor(p) == dialog' = p /\ UNCHANGED <<mNativeHandle, pcApp, script>>

\* From Android 11 on the settings page is opened for MANAGE_EXTERNAL_STORAGE,
\* and if that fails the program goes on without it; before, WRITE and READ are
\* asked for one after the other.
CheckPermissionsAndInitialize(g) ==
    IF launch.sdkAtLeastR
    THEN \/ "manage" \in g /\ CreateNow
         \/ "manage" \notin g /\ (AskFor("manage") \/ CreateNow)
    ELSE \/ "write" \notin g /\ AskFor("write")
         \/ "write" \in g /\ "read" \notin g /\ AskFor("read")
         \/ {"write", "read"} \subseteq g /\ CreateNow

OnCreate ==
    /\ UiFree /\ activity = "none"
    /\ activity' = "created"
    /\ CheckPermissionsAndInitialize(granted)
    /\ UNCHANGED <<chanVars, launch, surface, granted, wasResumed, process,
                   mSurfaceHolder, jniCallbackObj, windows, appData>>

\* The user comes back from the settings page, which the activity waits for
\* before it resumes. Granted or not, the handler calls create().
OnActivityResult ==
    /\ UiFree /\ dialog = "manage"
    /\ activity \in {"started", "paused"}
    /\ granted' \in {granted, granted \cup {"manage"}}
    /\ CreateNow
    /\ UNCHANGED <<chanVars, launch, activity, surface, wasResumed, process,
                   mSurfaceHolder, jniCallbackObj, windows, appData>>

\* A denial ends the process; a grant, or a dialog dismissed without an answer
\* (no results), starts the checks again.
OnRequestPermissionsResult ==
    /\ UiFree /\ dialog \in {"write", "read"}
    /\ activity \in {"started", "paused"}
    /\ \/ /\ process' = "exited"
          /\ UNCHANGED <<granted, dialog, mNativeHandle, pcApp, script>>
       \/ /\ granted' \in {granted, granted \cup {dialog}}
          /\ CheckPermissionsAndInitialize(granted')
          /\ UNCHANGED process
    /\ UNCHANGED <<chanVars, launch, activity, surface, wasResumed, mSurfaceHolder,
                   jniCallbackObj, windows, appData>>

-----------------------------------------------------------------------------
(* The activity's life cycle *)

\* Mutant: the app thread is only told once there is a surface.
TellWithSurfaceOnly(what) ==
    script' = IF mNativeHandle /\ mSurfaceHolder THEN <<PostOp(what, NULL)>> ELSE <<>>

\* A callback that only tells the app thread, and only if there is one.
Tell(what) ==
    script' = IF mNativeHandle THEN <<PostOp(what, NULL)>> ELSE <<>>

Unlogged == <<chanVars, launch, surface, dialog, granted, process, mNativeHandle,
              mSurfaceHolder, windows, pcApp, appData>>

\* Native onStart also takes the object it calls back and looks up its methods.
OnStart ==
    /\ UiFree /\ activity = "created"
    /\ activity' = "started"
    /\ Tell("START")
    /\ jniCallbackObj' = (jniCallbackObj \/ mNativeHandle)
    /\ UNCHANGED <<Unlogged, wasResumed>>

OnResume ==
    /\ UiFree /\ activity \in {"started", "paused"}
    /\ activity' = "resumed" /\ wasResumed' = TRUE
    /\ Tell("RESUME")
    /\ UNCHANGED <<Unlogged, jniCallbackObj>>

OnPause ==
    /\ UiFree /\ activity = "resumed"
    /\ activity' = "paused"
    /\ Tell("PAUSE")
    /\ UNCHANGED <<Unlogged, wasResumed, jniCallbackObj>>

OnStop ==
    /\ UiFree /\ activity = "paused"
    /\ activity' = "created"
    /\ Tell("STOP")
    /\ UNCHANGED <<Unlogged, wasResumed, jniCallbackObj>>

\* Mutants: the window is released before the app thread lets go of it, or never.
GiveUpReleasesFirst == <<ReleaseOp, PostOp("SURFACE_DESTROYED", NULL)>>
GiveUpForgetsRelease == <<PostOp("SURFACE_DESTROYED", NULL)>>

\* The app thread lets go of its window before the UI thread's reference on it
\* is given back.
GiveUpWindow == <<PostOp("SURFACE_DESTROYED", NULL), ReleaseOp>>

\* Java onDestroy does not look at mNativeHandle: the native onSurfaceDestroyed
\* (if there is a surface holder) and onDestroy are always called, and the
\* latter joins the app thread after switching the queue off.
OnDestroy ==
    /\ UiFree /\ activity = "created"
    /\ activity' = "destroyed"
    /\ script' = (IF mSurfaceHolder THEN GiveUpWindow ELSE <<>>)
                 \o <<PostOp("DESTROY", NULL), JoinOp>>
    /\ UNCHANGED <<Unlogged, wasResumed, jniCallbackObj>>

-----------------------------------------------------------------------------
(* The surface: Java surfaceCreated, surfaceChanged and surfaceDestroyed, and  *)
(* the native functions of the same names. The view is not shown while the     *)
(* settings page is open; it is behind the dialogs of the older versions.      *)

acquire(w) == refs' = [refs EXCEPT ![w] = @ + 1]

SurfaceShown == activity \in {"resumed", "paused"} /\ dialog # "manage"

SurfaceCreated(w) ==
    /\ UiFree /\ SurfaceShown /\ surface = "none"
    /\ surface' = "fresh"
    /\ \/ /\ mNativeHandle
          /\ acquire(w)
          /\ threadWindow' = w
          /\ script' = <<PostOp("SURFACE_CREATED", w)>>
          /\ mSurfaceHolder' = TRUE
       \/ ~mNativeHandle /\ UNCHANGED <<windows, script, mSurfaceHolder>>
    /\ UNCHANGED <<chanVars, launch, activity, dialog, granted, wasResumed, process,
                   mNativeHandle, jniCallbackObj, pcApp, appData>>

\* Android calls this at least once right after surfaceCreated. The reference
\* that ANativeWindow_fromSurface takes is given back if the window is the old
\* one; otherwise the app thread first lets go of the old window.
SurfaceChanged(w) ==
    /\ UiIdle /\ SurfaceShown /\ surface # "none"
    /\ surface' = "ready"
    /\ \/ /\ mNativeHandle
          /\ mSurfaceHolder' = TRUE
          /\ \/ w = threadWindow /\ UNCHANGED <<windows, script>>
             \/ /\ w # threadWindow /\ threadWindow # NULL
                /\ acquire(w)
                /\ script' = GiveUpWindow \o <<AdoptOp(w), PostOp("SURFACE_CREATED", w)>>
                /\ UNCHANGED threadWindow
             \/ /\ threadWindow = NULL
                /\ acquire(w)
                /\ threadWindow' = w
                /\ script' = <<PostOp("SURFACE_CREATED", w)>>
       \/ ~mNativeHandle /\ UNCHANGED <<windows, script, mSurfaceHolder>>
    /\ UNCHANGED <<chanVars, launch, activity, dialog, granted, wasResumed, process,
                   mNativeHandle, jniCallbackObj, pcApp, appData>>

\* Mutant: the surface holder is kept, so that onDestroy gives up the window again.
SurfaceDestroyedKeepsHolder ==
    /\ UiFree /\ activity \in {"resumed", "paused", "created"} /\ surface = "ready"
    /\ surface' = "none"
    /\ \/ /\ mNativeHandle
          /\ script' = GiveUpWindow
          /\ UNCHANGED mSurfaceHolder
       \/ ~mNativeHandle /\ UNCHANGED <<script, mSurfaceHolder>>
    /\ UNCHANGED <<chanVars, launch, activity, dialog, granted, wasResumed, process,
                   mNativeHandle, jniCallbackObj, windows, pcApp, appData>>

SurfaceDestroyed ==
    /\ UiFree /\ activity \in {"resumed", "paused", "created"} /\ surface = "ready"
    /\ surface' = "none"
    /\ \/ /\ mNativeHandle
          /\ script' = GiveUpWindow
          /\ mSurfaceHolder' = FALSE
       \/ ~mNativeHandle /\ UNCHANGED <<script, mSurfaceHolder>>
    /\ UNCHANGED <<chanVars, launch, activity, dialog, granted, wasResumed, process,
                   mNativeHandle, jniCallbackObj, windows, pcApp, appData>>

-----------------------------------------------------------------------------
(* The steps of a callback that the app thread can see *)

AtOp(op) == process = "running" /\ call = Idle /\ script # <<>> /\ Head(script).op = op

\* Mutant: the post waits for the message to be taken, not for it to be handled.
UiPostReceived ==
    /\ AtOp("post") /\ mNativeHandle
    /\ Post([id |-> [what |-> Head(script).what, win |-> Head(script).win],
             wait |-> "RECEIVED"])
    /\ script' = Tail(script)
    /\ UNCHANGED <<android, process, java, windows, pcApp, appData>>

\* Posting through a null handle dereferences a null appThread.
UiPost ==
    /\ AtOp("post")
    /\ IF mNativeHandle
       THEN /\ Post([id |-> [what |-> Head(script).what, win |-> Head(script).win],
                     wait |-> "PROCESSED"])
            /\ script' = Tail(script)
            /\ UNCHANGED process
       ELSE process' = "nullHandle" /\ UNCHANGED <<chanVars, script>>
    /\ UNCHANGED <<android, java, windows, pcApp, appData>>

UiReturn ==
    /\ process = "running"
    /\ Return
    /\ UNCHANGED <<android, process, java, windows, script, pcApp, appData>>

\* ANativeWindow_release(appThread->NativeWindow), which must not be NULL.
UiRelease ==
    /\ AtOp("release")
    /\ IF threadWindow # NULL
       THEN /\ refs' = [refs EXCEPT ![threadWindow] = @ - 1]
            /\ threadWindow' = NULL
            /\ script' = Tail(script)
            /\ UNCHANGED process
       ELSE process' = "nullWindow" /\ UNCHANGED <<windows, script>>
    /\ UNCHANGED <<chanVars, android, java, pcApp, appData>>

UiAdopt ==
    /\ AtOp("adopt")
    /\ threadWindow' = Head(script).win
    /\ script' = Tail(script)
    /\ UNCHANGED <<chanVars, android, process, java, refs, pcApp, appData>>

\* A join has no step: the app thread never ends before the process does.
UiStep == UiPost \/ UiReturn \/ UiRelease \/ UiAdopt

-----------------------------------------------------------------------------
(* The app thread *)

AppAt(pc) == process = "running" /\ pcApp = pc

AppOnly == <<android, java, windows, script>>

\* VR_Init, OpenXR, the session, the renderer and the actions; a runtime that
\* refuses to create the session ends the process.
AppInitialise ==
    /\ AppAt("init")
    /\ \/ pcApp' = "wait" /\ UNCHANGED process
       \/ process' = "exited" /\ UNCHANGED pcApp
    /\ UNCHANGED <<chanVars, AppOnly, appData>>

\* Mutant: the wait handles OpenXR events only and leaves the messages alone.
WaitWithoutPump ==
    /\ AppAt("wait")
    /\ pcApp' = IF SessionActive THEN "engine" ELSE "waitEvents"
    /\ UNCHANGED <<chanVars, AppOnly, process, appData>>

WaitForSessionActive ==
    /\ AppAt("wait")
    /\ pcApp' = IF SessionActive THEN "engine" ELSE "waitPump"
    /\ UNCHANGED <<chanVars, AppOnly, process, appData>>

\* Mutant: the loop is left for an active session only.
LoopUntilActive ==
    /\ AppAt("setup")
    /\ pcApp' = "setupPump"
    /\ UNCHANGED <<chanVars, AppOnly, process, appData>>

\* The head of the loop in TBXR_FrameSetup.
FrameSetupLoop ==
    /\ AppAt("setup")
    /\ pcApp' = IF destroyed THEN "leave" ELSE "setupPump"
    /\ UNCHANGED <<chanVars, AppOnly, process, appData>>

Pumping == process = "running" /\ pcApp \in {"waitPump", "setupPump"}

TakeMessage ==
    /\ Pumping
    /\ Take
    /\ UNCHANGED <<AppOnly, process, pcApp, appData>>

HandleMessage ==
    /\ Pumping
    /\ Finish
    /\ LET what == current.id.what IN
         /\ Resumed' = CASE what = "RESUME" -> TRUE
                         [] what = "PAUSE" -> FALSE
                         [] OTHER -> Resumed
         /\ appWindow' = CASE what = "SURFACE_CREATED" -> current.id.win
                           [] what \in {"SURFACE_DESTROYED", "DESTROY"} -> NULL
                           [] OTHER -> appWindow
         /\ destroyed' = (destroyed \/ what = "DESTROY")
    /\ UNCHANGED <<AppOnly, process, pcApp, SessionActive>>

PumpDone ==
    /\ Pumping /\ current = NoMessage /\ inbox = <<>>
    /\ pcApp' = IF pcApp = "waitPump" THEN "waitEvents" ELSE "setupEvents"
    /\ UNCHANGED <<chanVars, AppOnly, process, appData>>

\* ovrApp_HandleXrEvents: the session has begun or stopped, or not. The runtime
\* queues READY for an activity it sees resumed. The event is polled any time
\* after that, so it may begin the session of an activity that has been paused,
\* stopped and destroyed since.
SessionEvents ==
    /\ SessionActive' \in BOOLEAN
    /\ SessionActive' /\ ~SessionActive => wasResumed

WaitEvents ==
    /\ AppAt("waitEvents")
    /\ SessionEvents
    /\ pcApp' = "wait"
    /\ UNCHANGED <<chanVars, AppOnly, process, appWindow, Resumed, destroyed>>

\* Mutant: destroyed is not looked at again when the loop is left.
EventsIgnoreDestroyed ==
    /\ AppAt("setupEvents")
    /\ SessionEvents
    /\ pcApp' = CASE ~SessionActive' -> "setup"
                  [] OTHER -> "engine"
    /\ UNCHANGED <<chanVars, AppOnly, process, appWindow, Resumed, destroyed>>

\* Only a frame of an active session of a living activity goes ahead; the pump
\* before it may have handled the destruction.
FrameSetupEvents ==
    /\ AppAt("setupEvents")
    /\ SessionEvents
    /\ pcApp' = CASE ~SessionActive' -> "setup"
                  [] SessionActive' /\ destroyed -> "leave"
                  [] OTHER -> "engine"
    /\ UNCHANGED <<chanVars, AppOnly, process, appWindow, Resumed, destroyed>>

\* raze_main, which starts every frame with TBXR_FrameSetup, may call Java for
\* haptics at any time, and may return.
EngineCallsFrameSetup ==
    /\ AppAt("engine")
    /\ pcApp' = "setup"
    /\ UNCHANGED <<chanVars, AppOnly, process, appData>>

EngineCallsJava ==
    /\ AppAt("engine")
    /\ process' = IF jniCallbackObj THEN process ELSE "nullCallback"
    /\ UNCHANGED <<chanVars, AppOnly, pcApp, appData>>

EngineReturns ==
    /\ AppAt("engine")
    /\ pcApp' = "leave"
    /\ UNCHANGED <<chanVars, AppOnly, process, appData>>

\* TBXR_LeaveVR, then jni_shutdown calls GLES3JNIActivity.shutdown, which exits.
LeaveAndShutdown ==
    /\ AppAt("leave")
    /\ process' = IF jniCallbackObj THEN "exited" ELSE "nullCallback"
    /\ UNCHANGED <<chanVars, AppOnly, pcApp, appData>>

-----------------------------------------------------------------------------
Callback ==
    \/ OnCreate \/ OnActivityResult \/ OnRequestPermissionsResult
    \/ OnStart \/ OnResume \/ OnPause \/ OnStop \/ OnDestroy
    \/ \E w \in Windows : SurfaceCreated(w) \/ SurfaceChanged(w)
    \/ SurfaceDestroyed

AppStep ==
    \/ AppInitialise \/ WaitForSessionActive \/ FrameSetupLoop
    \/ TakeMessage \/ HandleMessage \/ PumpDone
    \/ WaitEvents \/ FrameSetupEvents \/ LeaveAndShutdown

Engine == EngineCallsFrameSetup \/ EngineCallsJava \/ EngineReturns

Ended == process # "running" /\ UNCHANGED vars

Next == Callback \/ UiStep \/ AppStep \/ Engine \/ Ended

Spec == Init /\ [][Next]_vars

\* Both threads are scheduled, and the engine does not stay in a frame for ever.
FairSpec ==
    /\ Spec
    /\ WF_vars(UiStep)
    /\ WF_vars(AppStep)
    /\ WF_vars(EngineCallsFrameSetup \/ EngineReturns)

-----------------------------------------------------------------------------
(* Properties *)

\* The app thread never holds a window whose last reference the UI thread has
\* given back, although the two write their pointers without a lock.
WindowAlive == appWindow # NULL => refs[appWindow] > 0

\* Between callbacks the UI thread holds one reference on the window it knows
\* and none on any other: nothing leaks over any sequence of surface callbacks.
RefsBalanced ==
    UiIdle => \A w \in Windows : refs[w] = (IF w = threadWindow THEN 1 ELSE 0)

\* When a callback has returned, the app thread has caught up with it: it has
\* the window the UI thread has and knows whether the activity is resumed.
SeesLatest ==
    UiIdle /\ mNativeHandle =>
        Resumed = (activity = "resumed") /\ appWindow = threadWindow

\* A launch that finds its permissions granted.
AsksNothing ==
    IF launch.sdkAtLeastR THEN "manage" \in launch.granted
    ELSE {"write", "read"} \subseteq launch.granted

\* Where nothing has to be asked, no callback uses a handle that is 0 or releases
\* a window it does not have, and nothing calls Java through an object onStart
\* has not set. Where only the settings page is opened, every window released was
\* acquired before, whatever the user answers and whenever the activity ends.
NoFault ==
    /\ AsksNothing => process \in {"running", "exited"}
    /\ launch.sdkAtLeastR => process # "nullWindow"

\* What the UI thread does for good at the end of onDestroy: wait in pthread_join.
Joining == call = Idle /\ script = <<JoinOp>>

\* Once onDestroy waits for the app thread to end, no frame set-up gives the engine
\* another frame. The engine can still be entered, but by raze_main only: the wait
\* for the session does not look at destroyed, so a session that becomes ready late
\* starts the engine for an activity that is gone, until its first frame set-up.
NoFrameAfterDestroy ==
    [][Joining /\ pcApp # "engine" /\ pcApp' = "engine" => pcApp = "wait"]_vars

\* A callback's message is always answered, or the process ends.
CallbackReturns == call # Idle ~> (call = Idle \/ process # "running")

\* An activity that is destroyed ends the process, whether the engine ran before or
\* is started for it by a session that becomes ready late. Nothing is said of a
\* session that never becomes ready: the wait for it does not look at destroyed.
DestroyEnds ==
    destroyed /\ (SessionActive \/ pcApp \notin {"wait", "waitPump", "waitEvents"})
        ~> process # "running"

\* checkPermissionsAndInitialize: "Initializes the Activity only if the
\* permission has been granted."
InitialisedOnlyIfGranted ==
    mNativeHandle => "manage" \in granted \/ {"write", "read"} \subseteq granted

\* "Ask Java to shut down": when the app thread leaves, Java can be asked.
AsksJavaToShutDown == pcApp = "leave" => jniCallbackObj
=============================================================================
