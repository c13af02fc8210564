# RazeXR in TLA+

Models of RazeXR, the OpenXR/Android port of the Raze engine, with what TLC
checks of them and what TLAPS proves about them. The modules translate the code
of this repository: the Java activity (`java/com/drbeef/razexr/`) and the native
layer between Android, OpenXR and the engine (`Projects/Android/jni/RazeXR/`).
The engine itself, the haptics services and the OpenXR loader are in submodules
that are not part of this tree; they appear in the models only through the calls
RazeXR makes to them and gets from them.

Source prefixes used below: `C` = `RazeXR_OpenXR.cpp`, `T`/`H` =
`TBXR_Common.cpp`/`.h`, `I` = `OpenXrInput.cpp`, `V` = `VrInputDefault.cpp`,
`A` = `GLES3JNIActivity.java`.

## 1. The system

Three parties run at the same time: the Android **UI thread**, which runs the
activity's callbacks; the **app thread**, which `onCreate` starts, and which runs
OpenXR, the frame loop and the whole engine; and the **OpenXR runtime**, another
process that sends events. There are two storage-permission schemes, two
controllers, and haptics services bound by the activity.

| Component | State | Operations | Talks to |
|---|---|---|---|
| Surface message queue (T 1029-1182) | ring of `MAX_MESSAGES` slots, `Head`, `Tail`, `EnabledFlag`, three acknowledgement flags, `Wait`, mutex, three condition variables | `Enable`, `PostMessage`, `SleepUntilMessage`, `GetNextMessage` | UI thread posts, app thread takes |
| Android life cycle (A 57-426, C 495-698, T 1184-1233) | stage of the activity, permissions, `mNativeHandle`, `mSurfaceHolder`, `appThread->NativeWindow` and its references, `jniCallbackObj`; on the app thread `NativeWindow`, `Resumed`, `destroyed` | the activity, permission and surface callbacks; the message handler; leaving | every native callback posts one or two messages and waits until they are handled |
| OpenXR session and frame loop (T 832-1001, 1324-1377, 1729-1908, 1970-2084) | session flags, the event queue, reference spaces, the swapchain image, the frame, `FrameSetup` | `EnterVR`, `WaitForSessionActive`, `FrameSetup`, `submitFrame`, `Recenter`, `UpdateStageBounds`, `LeaveVR` | runtime events; the engine calls `FrameSetup` and `submitFrame` |
| Controller input (V, I 414-500, C 365-385) | the controllers' saved and current state, cvars, `menuactive`, `weaponStabilised`, `snapTurn` and its two latches | `VR_HandleControllerInput` once a frame | posts key events to the engine, which opens menus and sets cvars |
| Haptics (I 503-569) | duration and intensity of each hand, time of the last frame | `TBXR_Vibrate`, `TBXR_ProcessHaptics` | the engine asks, the runtime vibrates |
| Player view (C 179-212) | orientation, position, origin, `playerYaw` | `VR_SetHMDOrientation`, `VR_SetHMDPosition`, `VR_GetMove` | fed by the frame loop and the snap turns, read by the engine |
| Platform set-up (T 1389-1482, 1566-1686, C 74-84) | context, instance, the platform guessed, the extensions enabled, refresh rates | `ovrEgl_CreateContext`, `TBXR_InitialiseOpenXR`, `TBXR_EnterVR`, `TBXR_InitRenderer`, `RazeXR_SetRefreshRate` | loader and runtime, at the start and, for the rate, in every frame |
| Command line (C 109-176, 500-539) | `argc`, `argv` | `ParseCommandLine`, `UnEscapeQuotes` | from `commandline.txt`, which Java reads, to the engine |
| Asset installation (A 191-335) | files on `/sdcard/RazeXR` | `copy_asset`, `unzip`, `create` | before the native code is started; survives the process |
| Actions and bindings (I 131-412) | action set and spaces, made once | creation only | runtime |
| External haptics client (A 428-480) | list of bound services | forwards events | other processes |
| EGL, swapchains, renderer; mathematics; argtable3; SDKs; engine | - | - | drivers, vendored or absent code |

What is hard here, and what each component must keep:

* **Queue.** Two threads, a mutex that is not held everywhere, flags reused from
  call to call, an acknowledgement that is given one call late. A post must
  return only when its message is done, and must return; no slot may be
  overwritten; no message reordered.
* **Life cycle.** Callbacks come in many orders, and the permission dialogs make
  `create()` run after callbacks it should have preceded. The app thread must
  never hold a window the UI thread has released, must know what the UI thread
  knows when a callback returns, must draw nothing more once `onDestroy` waits for
  it, and must end when the activity does.
* **Session.** Events are handled long after they were queued, in two different
  loops, between calls that must come in a fixed order. Program and runtime must
  agree on the session; frames must be whole; spaces must be neither used after
  their destruction nor leaked.
* **Input.** Key events are differences between two states under bindings that
  change with the grip, the menu and the cvars. No key may stay pressed in the
  engine after its control was let go, no press may be lost, one push must turn
  the view once.
* **Haptics.** Count-downs in floats, by the difference of timestamps that get
  coarser the longer the headset has been up. A vibration must end, in time and
  not much earlier.
* **Launch.** Files are written under their final names, and an unforced file that
  is there is never looked into again; the process can be killed in between and
  starts again on what is left. Words pass through a file, a joining of lines and
  a parser that works in place. Functions exist only if an extension was enabled,
  under a guess that is revised after the enabling. What goes wrong must not be
  taken for what was meant.
* **Player view.** Positions count from an origin that moves at snap turns and on
  the virtual screen, with 0.0 for "not set". No step of the player may be lost.

## 2. Modules

| Module | What it is |
|---|---|
| `MessageChannel` | abstract: a synchronous call between one poster and one consumer, as a FIFO and a call that has come to a certain stage |
| `SurfaceMessageQueue` | the ring, mutex, flags and condition variables, one action per step between two points where another thread can interfere |
| `SurfaceMessageQueue_proofs`, `SurfaceMessageQueue_refinement` | its invariants; that it implements `MessageChannel` |
| `AppLifecycle`, `AppLifecycle_proofs` | extends `MessageChannel`: activity, JNI functions and app thread meet in the channel, which stands for the queue; proofs |
| `FrameDiscipline` | abstract: what the runtime may rely on (session, frame and image nest) |
| `XrSession`, `XrSession_proofs` | session events, spaces, frame, leaving; implements `FrameDiscipline`; proofs |
| `SnapTurn` | the turning logic on its own |
| `ControllerInput`, `ControllerInput_proofs` | extends `SnapTurn`: events, stabilisation, turning; proofs |
| `Haptics`, `Haptics_proofs` | the two functions and the clock; proofs |
| `CommandLine`, `CommandLine_proofs` | joining, parsing and unescaping as operators on texts, and what a player may write; proofs |
| `AssetInstall` | extends `CommandLine`: `create()` step by step on a disk, with mishaps, kills and new starts |
| `Platform` | which headset the program takes the runtime for, and what it calls on it |
| `PlayerView` | extends `SnapTurn`: position, origin and `playerYaw` of a frame |
| `Launch`, `Launch_proofs` | composes the last four into a start of the program and its frames; proofs |
| `MC*` | values for TLC |

The queue is composed with the life cycle by refinement: `SurfaceMessageQueue`
is shown to implement `MessageChannel` (proved for safety, checked for
liveness), and `AppLifecycle` uses the channel's actions `Post`, `Take`,
`Finish` and `Return` as steps of its two threads. The life cycle sees the
session as `SessionActive`, which events may set and clear: set only once the
activity `wasResumed`, but any time after that, since an event queued while the
activity was resumed may be polled after its destruction was pumped. `XrSession`
models the session in full and sees of the life cycle only `destroyed`, which a
pump may set.
`Launch` is what comes before: its steps `Installing`, `onCreate`, `AppThread`
and `Frame` are those of `AssetInstall`, `CommandLine`, `Platform` and
`PlayerView`, in the order in which the code gets to them. `SnapTurn` is shared by
`ControllerInput`, which has the buttons, and `PlayerView`, which has the origin.

How the models correspond to the code:

* **Queue.** `pcP` and `pcC` say where the poster and the consumer are. Each
  action is the code up to the next point where the other thread may run: the
  room test (T 1089) is outside the mutex, `ProcessedFlag` and its broadcast
  (1143-1144) are too, and `pthread_cond_wait` is three steps (release and
  block, wake up, take the mutex). `head` and `tail` count on; the slot is their
  remainder. Names of operators are those of the functions where there is one.
* **Life cycle.** A callback does what nobody else can see in one step and leaves
  its visible steps (posts, window references) in `script`. `launch` holds what
  the launch found: the Android version and the permissions granted before.
  `wasResumed` is history, read only by the runtime (`SessionEvents`).
  `process` records how the process ended, including by a fault.
* **Session.** `pc` follows the two loops and then `TBXR_FrameSetup` call by
  call; `TBXR_submitFrame` gives the image back (`SubmitFrame`) and then ends the
  frame (`EndFrame`). The runtime is external: `RuntimeMoves` are the session states the OpenXR
  specification lets it go through, `Refuse` remembers calls it would refuse.
  `Failing` names the calls that may fail.
* **Input.** A binding is a control, the state of the grip in which it counts,
  and a key; `BindingTable` lists them in the order of the code, since the last
  event for a shared key wins. Analogue values appear as the intervals the code
  compares them with. `carried`, `stale`, `strayed` and `released` are history:
  they only say what was left over from before the last change of menu or cvars.
* **Haptics.** Time is in milliseconds; a timestamp is the time rounded down to a
  `Quantum`, which is what a float of the uptime does. `asked`, `left` and
  `leftAtFrame` are history: what the clock says is left of the vibration.

* **Launch.** A file is absent, empty, part, whole or other (somebody else's); `step`
  is the call of `create()` under way and `out` the file that is open. Every
  step may be the last one of its process (`LaunchAgain`). `ParseCommandLine` is a
  recursive function of the place in the text and of `lastp`, one step of which is
  `ReadFrom`; what the code does
  through a null pointer or past the end of `argv` is a fault (`native`). Calling a
  function of an extension that is not enabled is `stage = "crashed"`.
* **Player view.** Whole positions in two coordinates; yaws are members of a small
  set. `walked` and `atZero` are history: the way since the view was last
  recentred, and whether the head was then at x = 0, which the code takes for
  "not set".

Operators under a comment "Mutant" are plausible mistakes in the definition
that follows them. No specification uses them; each property of a run is broken
by one.

## 3. Runs

| Run | What it shows | Bounds |
|---|---|---|
| `QueueAllModes` | all three wait modes, polling and sleeping consumers, spurious wakeups: no slot overwritten, no stale flag, a post returns only when its message is done, nothing owed between pumps | 2 slots, 2 identifiers, 5 posts: the ring wraps twice and is full with posters of every mode |
| `QueueRefinesChannel` | without spurious wakeups no wakeup is lost, posts return, and the queue implements the fair channel | 2 slots, 4 posts |
| `QueueLostWakeup` (violation) | with one spurious wakeup a post can wait for ever | 2 posts |
| `Lifecycle` | windows, references, views and faults over all orders of callbacks; callbacks return; no frame is set up once `onDestroy` waits for the app thread; destruction ends the process, also when the session becomes ready after it | 2 windows, so that a surface can change to a new one and back; 4 kinds of launch; nothing else is bounded |
| `LifecyclePermission` (violation) | the activity is initialised without its permission | as above, a new install |
| `LifecycleShutdown` (violation) | the app thread leaves with no object to call | as above, an older Android |
| `SessionOrderly` | calls in order, spaces alive, pose and layer in one space, `FrameDiscipline`, sessions obeyed | 3 queued events (a whole stop and start can be pending), 4 handles (one more than ever live at once) |
| `SessionFails` | agreement, whole frames, assertions and no leak although every call may fail and events get lost | 2 queued events, 3 handles |
| `Input` | keys, stabilisation and turning, in six ways of playing | up to 8 controls at once without, up to 5 with changes of menu and cvars; steps of 10 and 90 degrees |
| `Haptics` | vibrations end, in time, not early; an endless one goes on until it is stopped | requests of 0 and 7 ms and endless; clock step 2 ms, at most 3 ms between frames: frames are shorter than, as long as, and out of step with the clock, and a request outlasts several of them (7 is more than the 5 ms by which a vibration may be cut short) |
| `HapticsUnits` (violation) | milliseconds are passed as seconds | as above |
| `Launch` | the files the game starts on are sound unless their writing failed, the words written arrive, no function is called that is not there, no step of the player is lost | five worlds, below |

The worlds of `Launch` (in `MCLaunch`) each open one part up and hold the others
still, since the parts share no state but what is handed on:

* `firstInstall`: no file is there, two mishaps and two new starts at any step, so
  that a file cut short in one launch meets another mishap in the next;
* `update`: all files but one are there, two mishaps, one new start;
* `typing`: every list of up to two words of up to two of the four characters, every
  word of up to four, lists of three odd words (empty, quoted, escaped), and more
  words than fit, with `ArgvSize` 5 in place of 255; on one line or one per line;
* `anyRuntime`: 3 names and every set of the 6 extensions, and a second launch;
* `walking`: six places, the 0 among them, two yaws, every position of the stick.

The archive has two entries (one before and one after a mishap). Bounds named in
the specifications: `MaxPosts`, `MaxEvents`, `MaxGap`, `mishaps`, `launches`,
`LeftFloor` (a vibration over by more than a frame and a clock step is not
followed further) and `Capacity`.

Only `QueueAllModes` and `SessionFails` use symmetry; they check no liveness.
Deadlock is checked everywhere but in `Launch`, whose last launch comes to an end:
`AppLifecycle` and `XrSession` have an explicit step for a process that has ended,
and the queue for an idle poster.

**Fairness.** The queue and the life cycle assume weak fairness of each thread as
a whole: a thread that can take its next step is scheduled. The app thread pumps
in `TBXR_WaitForSessionActive` and at the head of every frame, so its fairness is
that of the scheduler and, for `EngineCallsFrameSetup \/ EngineReturns`, that the
engine does not stay in one frame for ever. No fairness is assumed of the user,
of Android's callbacks, of the runtime's events, or that the UI thread posts
again. In `Haptics` time passes and frames are drawn. `Launch` and `Input` assume
no fairness; they check no liveness.

## 4. Findings

* `QueueLostWakeup` (T 1143): `GetNextMessage` sets `ProcessedFlag` and broadcasts
  without the mutex. After a spurious wakeup of the poster both can fall between
  its test of the flag and its next block. The post then waits for ever, against
  what H 132 says of `MQ_WAIT_PROCESSED`. Without spurious wakeups this cannot
  happen, which is proved.
* `LifecyclePermission` (A 121): `create()` is called although the user refused,
  or the settings page cannot be opened, against the javadoc at A 101.
* `LifecycleShutdown` (C 558): `jniCallbackObj` is set only by the native
  `onStart`, which is skipped while `mNativeHandle` is 0. After a permission
  dialog the app thread cannot "ask Java to shut down" (C 282).
* `HapticsUnits` (I 542): `ToXrTime` takes seconds (`openxr_helpers.h` 6) and is
  given milliseconds.

More of what the code does is visible in the properties as exceptions, with no
document against it:

* `TBXR_WaitForSessionActive` does not look at `destroyed`. An activity destroyed
  while the program still waits for the session never ends if the session does not
  become ready. If a READY is polled after the destruction, `raze_main` is started for
  an activity that is gone, whose `onDestroy` is in `pthread_join`; the first
  `TBXR_FrameSetup` then ends the process. `NoFrameAfterDestroy` says that this is
  the only way into the engine, and `DestroyEnds` that it ends, too;
* keys held or a weapon stabilised while a menu opens or a cvar changes are left as
  they were (`carried`, `strayed`);
* a file cut short by a kill or an exception is taken for the file at every later
  launch (`cut` in `FilesAreSound`); if it is `commandline.txt`, left empty, Java
  passes an empty text, of which the native `onCreate` makes a null pointer it
  then duplicates, at every launch from then on (`ArgumentsArrive`);
* a first quoted word that is empty makes `ParseCommandLine` look at a character
  through a null pointer (C 146), and 255 or more words run over the end of
  `argv` (`CanBeWritten`, `native`);
* a runtime taken for a Meta by its refresh rates, but without thread settings, is
  called through a null pointer when the session begins (`HasWhatIsNeeded`);
* steps made while the origin's x is 0.0 are swallowed by the next one
  (`atZero` in `WalkIsKept`);
* a context that could not be made current is left with a handle that is dead
  (`Egls`), which is harmless only because no session is created then.

Seen while reading, outside every model: `MainThreadTid` is stored when the app
thread starts (C 258) and cleared with the rest of the state at the beginning of
`TBXR_InitialiseOpenXR` (T 852), so that the thread settings are made for thread 0; `RenderThreadTid` is never set; and
the depth textures of `ovrFramebuffer_Create` come from `glGenTextures` and are
given to `glDeleteRenderbuffers`.

## 5. Proofs

All theorems hold for every value of the constants that satisfies the named
assumptions of the module; TLC evaluates these in every run.

* **Queue** (`CapacityAssumption`, `WaitsAssumption`, `NoMessageAssumption`,
  `BoundAssumption`, `SwitchAssumption`). `IInv` is inductive. The properties alone are
  not: a flag that is up belongs to the call under way only if whatever the
  consumer still has to acknowledge was posted by that call, so `IInv` adds
  `OwedOnlyToTheCall` and `EveryWaiterIsWaiting` (a message with a wait mode is
  the last one in the ring, its poster inside the call). From `IInv`:
  `TypeCorrect`, `FlagsAreNeverStale`, `RingIsSafe`, `AcknowledgesAll`, and the
  action property `PostIsSynchronous`. `NoWakeupIsLost` needs `WakeupInv` and
  the hypothesis that `pthread_cond_wait` does not return unasked: then, while
  the poster holds the mutex with its flag down, its message is still in the
  ring, and so the consumer cannot raise the flag before the poster blocks.
* **Refinement.** `QueueImplementsChannel`: under the mapping `Chan` the steps of
  the queue are channel steps or stutters. The proof rests on `IInv` (while the
  poster is in its call, its message is the last of the window) and on lemmas on
  what enqueuing and dequeuing do to the window of the ring.
* **Input** (`InputAssumption`). `KeysAreReleased` from `KeyInv`: a key not carried over a change is
  explained by a binding active in the saved state, which the last handled frame
  left equal to the state read. `StabilisedOnlyWhileHeld` from `HeldInv`.
  `PressesAreNoticed` from `PressInv`: a binding that was active when the state was
  saved has its key down, unless it has been held since before the last change.
  `PushTurnsOnce` and `TurnStaysInRange` from `TurnInv`: a side that is armed has
  been left by the stick since the last turn there. `InputTypes`.
* **Haptics** (`HapticsAssumption`). `VibrationsEndInTime`, `VibrationsLast` and
  `HapticsTypes` from `HapticsInv`, which ties the count-down to the clock by the
  phase of the last frame: each frame takes off the clock's difference, so the
  error never grows beyond one step however many frames there are.
* **Life cycle** (`LifecycleAssumption`). What a callback has still to bring about is
  one list, `Rest`: the message on its way in front of the script. `OneCall`
  says that there is one message at most, as far as the call says it is. Posting
  and taking leave `Rest` alone; handling a message, releasing and adopting a window
  take its first element. `RestInv` lists what `Rest` can be (`Settled`, `Showing`,
  `GivingUp`, `Changing`, `Destroying`) and says for each how the two threads'
  windows and the references stand, and that `destroyed` is set once only the join is
  left. None of the properties is inductive without it:
  that no window is released under the app thread depends on which message is
  still in front of the release. With `ResumedInv`, `StageInv` (what there cannot be
  before `create()` or before the end) and `FaultInv` it gives `LifeInvInductive`, and
  from that `AppWindowIsAlive`, `ReferencesBalance`, `AppThreadCatchesUp`,
  `NothingMissingIsUsed` and `NoFrameOnceDestroyed`, for any number of windows and
  any set of launches. The last one relates the two threads: that the UI thread is in
  `pthread_join` means that the app thread has handled the destruction (`Joining`
  implies `destroyed`), and so `TBXR_FrameSetup` leaves. It does not say that the
  engine is never entered: `SessionEvents` may begin a session late, and the wait
  for it lets `raze_main` start.
* **Session** (`XrAssumption`). In two parts. Whatever calls fail and events are lost:
  `SessionInv` says what each queued READY or STOPPING implies about the runtime's
  state, and that there is one of each at most, so that the program, which lags
  behind the runtime, agrees on the session (`AgreesOnSession`) and its assertions
  hold (`AssertionsNeverFail`); `FrameInv` follows a frame from call to call
  until it is ended (`FramesAreWhole`); `SpacesAreNotLeaked`. Under the hypothesis `Orderly` (frames can
  be waited for and spaces created; the session's beginning, the stage bounds and
  locating the head may fail), `OrderlyInv` adds that the spaces are live and
  distinct: `RuntimeRefusesNothing`, `LayersArePlaced` and `ProgramKeepsDiscipline`
  (every step is one of `FrameDiscipline` or a stutter).
* **Launch** (`EntriesAssumption`, `ArgvAssumption`, `LaunchAssumption`). The steps of one part
  leave the others alone, so there is an invariant for each: `FilesInv` (what
  `create()` has behind it is in order, at most one file is open) gives
  `StartsOnSoundFiles` for every archive and any number of mishaps and kills;
  `PlatformInv` (what was enabled for the guess) gives `OnlyCallsWhatIsThere`;
  `ViewInv` (position and origin differ by the way walked) gives `NoStepIsLost`.
  `ArgumentsInv` says what create() has made of `commandline.txt` and what onCreate
  was given of it; with `FilesInv` (a file that is neither whole nor the player's nor
  missing was cut) and the parser's theorems below it gives `PlayerIsHeard`.
  `NamesInv`, `RateInv` and `FacingInv` add what `TypeCorrect` needs besides: which
  names occur in the sets of files, where a rate comes from, where the view turns.
* **Command line** (`ArgvAssumption`: argv has room for `raze` and the null pointer).
  Theorems about operators, for texts of every length. `ReadAsWritten`: words that
  can be written, as `CanBeWritten` says, are parsed into themselves. Its steps: what
  is left of an escaped word without its escapes is the word (`UnEscapeEscaped`); in
  an escaped word every quote stands behind a backslash, so a word written in quotes
  ends at its own quote and no other (`ReadsQuoted`), one without at its space
  (`ReadsWord`); `lastp` is never a backslash after a word, and not null once a quoted
  word has been read (`LastpIs`, `IsLastp`), which is all the next one needs; then
  induction on the words, from the last to the first. `WordsArrive` adds the two
  layouts and the room in `argv`, `WordArrives` a word alone, such as `raze`.
  `AnyTextIsRead` is about texts nobody would write: an argument takes two characters
  of the text, and `*lastp` is read through null only where two quotes stand together,
  so that `ShortTextsAreSafe`: with 255 entries, no text of up to 507 characters without
  `""` is a fault. Why `CanBeWritten` has its clauses can be seen there: the last one is
  the case in which `lastp` is still null. The prover cannot instantiate the library's
  induction theorems, which have an operator for a parameter; `EveryNumber` is
  induction for a *set* of numbers, proved from the well-foundedness of `<`
  (`WFMin`), and the two recursive functions, `FlattenSeq` and the parser, are shown
  to exist before anything is said of their values (`FlattenExists`, `ParserExists`).

Every invariant and action property of a passing run is proved. Model-checked only:
liveness (`PostReturns`, `CallbackReturns`, `DestroyEnds`, `RuntimeIsObeyed`,
`EveryVibrationEnds`) and the fair part of the refinement, which are out of the
prover's reach.

## 6. Not modelled

Floating-point geometry (weapon and hand offsets, movement vectors, projection):
computed afresh in every frame from what the models have. The drawing itself and
the declarative tables of actions and bindings. Framebuffer and renderer set-up,
straight-line driver I/O at start and exit. The external haptics client, a loop
over services whose client library is not in the tree, and the Raze engine, which is
not either.

By far the most of the tree is vendored: image, sound, MIDI and compression
libraries under `SupportLibs`, the OpenXR SDK, argtable3. They are not this
program's logic; the models see them, where at all, through the calls made to them.
The program's own code is some six thousand lines of Java and C++, a good part of
it geometry and tables.

## 7. Plan

All five parts of the plan are done:

1. The two threads: `MessageChannel`, `SurfaceMessageQueue` and `AppLifecycle`.
2. The frame: `XrSession`, `FrameDiscipline`; `ControllerInput`, `SnapTurn`, `Haptics`.
3. The start: `CommandLine`, `AssetInstall`, `Platform`, composed in `Launch`.
4. `PlayerView`.
5. Proofs for each of them.

What is left, in the order of what it would add: the external haptics client, once
its library is in the tree; the movement vectors of the off hand with their dead
zones; the proof that the composition of queue and life cycle, through
`QueueImplementsChannel`, carries the life cycle's invariants over to the queue.
