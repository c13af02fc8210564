------------------------------- MODULE Launch -------------------------------
(***************************************************************************)
(* A start of the program, from the activity's create() to the frames of   *)
(* the game: the files are installed, the command line is read, and parsed *)
(* by the native onCreate, which makes the application thread; that brings *)
(* up graphics, OpenXR and the session, and runs the game. The process can *)
(* be killed at any time, and started again on the storage it leaves; so   *)
(* can one that crashed, gave up or came to its end.                       *)
(*                                                                         *)
(* The life of the window, the session's states and the player's buttons,  *)
(* which begin here, are the subjects of AppLifecycle, XrSession and       *)
(* ControllerInput.                                                        *)
(***************************************************************************)
EXTENDS AssetInstall, Platform, PlayerView

\* The worlds considered, by name, and the rates a command line asks for.
CONSTANTS Worlds, Rates

\* A world: the files found at the first launch and the player's own command line
\* (the words and how they are written), mishaps and launches to come, the runtime,
\* and what the player does in a frame.
WorldKinds ==
    [own : SUBSET Files, words : SUBSET Seq(Seq(Characters)),
     layouts : SUBSET {"oneLine", "lineForEach"}, mishaps : Nat, launches : Nat,
     devices : SUBSET [name : Names, extensions : SUBSET Extensions, rate : Nat],
     positions : SUBSET (Int \X Int), yaws : SUBSET Int, sticks : SUBSET Positions,
     vr_snapTurn : 0..360]

ASSUME LaunchAssumption ==
    /\ \A w \in DOMAIN Worlds : Worlds[w] \in WorldKinds
    /\ Rates \subseteq 1..120

VARIABLES
    world, words,  \* the world, and the words its player wrote
    launches,      \* how many more launches there are
    native,        \* whether onCreate ran, or what went wrong there
    argv

vars == <<diskVars, platformVars, viewVars, world, words, launches, native, argv>>

Init ==
    \E w \in DOMAIN Worlds :
        /\ world = w /\ launches = Worlds[w].launches
        /\ own = Worlds[w].own /\ mishaps = Worlds[w].mishaps
        /\ words \in Worlds[w].words
        /\ \E layout \in Worlds[w].layouts :
               ownLines = IF layout = "oneLine" THEN OneLine(words) ELSE LineForEach(words)
        /\ device \in Worlds[w].devices
        /\ disk = [f \in Files |-> IF f \in own THEN "other" ELSE "absent"]
        /\ step = 1 /\ out = NoFile /\ entry = 1 /\ commandLineParams = << >>
        /\ failed = {} /\ cut = {}
        /\ PlatformInit /\ VR_Init /\ native = "notYet" /\ argv = << >>

-----------------------------------------------------------------------------
Installing ==
    /\ Create
    /\ UNCHANGED <<platformVars, viewVars, world, words, launches, native, argv>>

\* onCreate: arg_parse takes any rate up to 120 from the arguments.
onCreate ==
    /\ step = Done /\ native = "notYet"
    /\ native' = CommandFault(commandLineParams)
    /\ \/ /\ native' = "ok" /\ argv' = ParseCommandLine(commandLineParams).argv
          /\ REFRESH' \in {72} \cup Rates
       \/ native' # "ok" /\ UNCHANGED <<argv, REFRESH>>
    /\ UNCHANGED <<diskVars, device, stage, OpenXRHMD, enabled, Egl,
                   currentDisplayRefreshRate, viewVars, world, words, launches>>

\* AppThreadFunction, up to the game and after it.
AppThread ==
    /\ native = "ok"
    /\ \/ ovrEgl_CreateContext \/ TBXR_InitialiseOpenXR \/ TBXR_EnterVR
       \/ TBXR_InitRenderer \/ SessionReady \/ StartGame \/ TBXR_LeaveVR
    /\ UNCHANGED <<diskVars, viewVars, world, words, launches, native, argv>>

Frame ==
    /\ VR_FrameSetup
    /\ \E position \in Worlds[world].positions, yaw \in Worlds[world].yaws,
          at \in Worlds[world].sticks, located, screenLayer, sticksRead \in BOOLEAN :
           ViewFrame(located, position, yaw, screenLayer, sticksRead, at,
                     Worlds[world].vr_snapTurn)
    /\ UNCHANGED <<diskVars, world, words, launches, native, argv>>

LaunchAgain ==
    /\ launches > 0 /\ launches' = launches - 1
    /\ CreateAgain /\ PlatformAgain /\ VR_InitAgain
    /\ native' = "notYet" /\ argv' = << >>
    /\ UNCHANGED <<world, words>>

Next == Installing \/ onCreate \/ AppThread \/ Frame \/ LaunchAgain

Spec == Init /\ [][Next]_vars

-----------------------------------------------------------------------------
\* The variables hold what the code's do: create() is at one of its steps, a file is
\* open only while it is written, and a rate is one the headset has or was asked for.
TypeOK ==
    /\ disk \in [Files -> Contents] /\ step \in 1..Done
    /\ entry \in 1 .. Len(Entries) + 1
    /\ out \in Files \cup {NoFile} /\ (out # NoFile => disk[out] \in {"empty", "part"})
    /\ own \subseteq Files /\ mishaps \in Nat /\ failed \subseteq Files /\ cut \subseteq Files
    /\ stage \in Stages /\ OpenXRHMD \in HMDs /\ enabled \subseteq device.extensions
    /\ Egl \in Egls /\ REFRESH \in {72} \cup Rates
    /\ currentDisplayRefreshRate \in {0, device.rate, REFRESH}
    /\ playerYaw \in {0} \cup Worlds[world].yaws
    /\ snapTurn \in -180..180 /\ frame \in {"none", "walk", "turn"}

\* When the native code is started, the files that are always written are those of
\* this package, and the others are whole or the player's, except for the files
\* whose writing failed in this launch or was ever cut short: create() swallows
\* every exception, and takes whatever has the name of a file for the file.
FilesAreSound ==
    step = Done =>
        /\ \A f \in Forced : disk[f] = "whole" \/ f \in failed
        /\ \A f \in EntryFiles : disk[f] = "whole" \/ {f, "RazeXR.zip"} \cap failed # {}
        /\ \A f \in Unforced :
               disk[f] = (IF f \in own THEN "other" ELSE "whole") \/ f \in cut \cup failed

\* The game is given the words its player wrote, through the joining of the lines and
\* the parsing in place, as long as they can be written and nothing went wrong before;
\* it is given "raze" if the player wrote nothing. The file is in no other state unless
\* it was cut short.
ArgumentsArrive ==
    native # "notYet" =>
        CASE disk["commandline.txt"] = "other" ->
                 CanBeWritten(words) /\ mishaps = Worlds[world].mishaps =>
                     native = "ok" /\ argv = words
          [] disk["commandline.txt"] \in {"absent", "whole"} ->
                 native = "ok" /\ argv = <<raze>>
          [] OTHER -> "commandline.txt" \in cut

\* A runtime has what its program cannot do without: graphics and performance levels,
\* and on whatever is taken for a Meta, refresh rates and thread settings.
TakenForMeta(d) ==
    \/ d.name = "Meta"
    \/ d.name # "Pico" /\ "refreshRate" \in d.extensions /\ "picoConfigs" \notin d.extensions
HasWhatIsNeeded(d) ==
    /\ {"gles", "perf"} \subseteq d.extensions
    /\ TakenForMeta(d) => /\ {"refreshRate", "threads"} \subseteq d.extensions
                          /\ "picoConfigs" \notin d.extensions

\* On such a runtime no function is called that does not exist, whatever else it has
\* or lacks and however the first guess at the platform was revised; and nothing is
\* done in a session but with a context that is current.
NoNullCalls ==
    /\ HasWhatIsNeeded(device) => stage # "crashed"
    /\ stage \in {"session", "renderer", "active", "frames"} =>
           Egl = [Context |-> "live", TinySurface |-> "live"]

\* The position handed to the game is all the way the head has gone since the view
\* was last recentred: at the start, at a snap turn, with the virtual screen up. The
\* exception is a head that was then at x = 0, which the code takes for "not set".
WalkIsKept == frame = "none" \/ atZero \/ positionDelta = walked
=============================================================================
