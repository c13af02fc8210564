------------------------------ MODULE Platform ------------------------------
(***************************************************************************)
(* Which headset the program believes it runs on, and what it calls there. *)
(* TBXR_InitialiseOpenXR enables the extensions the runtime has and the    *)
(* program wants, and guesses the platform from them; then it asks the     *)
(* runtime for its name and may guess again. Functions of an extension     *)
(* exist only if it was enabled: a call of any other is a call of NULL.    *)
(* Some calls test the pointer, some test the guess, some test nothing.    *)
(*                                                                         *)
(* The thread creates a graphics context first and destroys it last; the   *)
(* session is created with whatever context is current then.               *)
(***************************************************************************)
EXTENDS Integers

\* Extensions by what they are for: graphics with OpenGL ES, performance levels,
\* Pico's configuration, display refresh rates, thread settings, color spaces.
Extensions == {"gles", "perf", "picoConfigs", "refreshRate", "threads", "colorSpace"}

\* What the runtime's name contains, and the values of gAppState.OpenXRHMD.
Names == {"Pico", "Meta", "something else"}
HMDs == {"", "pico", "meta", "generic"}

Handles == {"none", "live", "dead"}
Stages == {"notStarted", "context", "instance", "session", "renderer", "active",
           "frames", "left", "exited", "crashed"}

VARIABLES
    device,        \* the runtime: its name, extensions and refresh rate
    stage,         \* how far AppThreadFunction is
    OpenXRHMD, enabled,
    Egl,           \* the handles of the context and of its small surface
    REFRESH, currentDisplayRefreshRate

platformVars == <<device, stage, OpenXRHMD, enabled, Egl, REFRESH, currentDisplayRefreshRate>>

IsMeta == OpenXRHMD = "meta"
NoEgl == [Context |-> "none", TinySurface |-> "none"]

PlatformInit ==
    /\ stage = "notStarted" /\ OpenXRHMD = "" /\ enabled = {}
    /\ Egl = NoEgl /\ REFRESH = 72 /\ currentDisplayRefreshRate = 0
PlatformAgain ==
    /\ stage' = "notStarted" /\ OpenXRHMD' = "" /\ enabled' = {}
    /\ Egl' = NoEgl /\ REFRESH' = 72 /\ currentDisplayRefreshRate' = 0
    /\ UNCHANGED device

\* Going on to a stage by calling functions of these extensions.
Calling(extensions, available, next) ==
    stage' = IF extensions \subseteq available THEN next ELSE "crashed"

-----------------------------------------------------------------------------
(* ovrEgl_CreateContext, ovrEgl_DestroyContext *)

\* Nothing is undone but what is undone here: a surface that could not be made
\* current is destroyed, and its handle kept.
Egls == { NoEgl,                                               \* no config or context
          [Context |-> "none", TinySurface |-> "dead"],        \* not made current
          [Context |-> "live", TinySurface |-> "live"] }

ovrEgl_CreateContext ==
    /\ stage = "notStarted" /\ stage' = "context"
    /\ Egl' \in Egls
    /\ UNCHANGED <<device, OpenXRHMD, enabled, REFRESH, currentDisplayRefreshRate>>

-----------------------------------------------------------------------------
(* TBXR_InitialiseOpenXR *)

\* Mutant: as soon as the refresh rates are there, it is a Meta.
MetaFirst(extensions) ==
    IF "refreshRate" \in extensions THEN "meta"
    ELSE IF "picoConfigs" \in extensions THEN "pico" ELSE "generic"

FromExtensions(extensions) ==
    IF "picoConfigs" \in extensions THEN "pico"
    ELSE IF "refreshRate" \in extensions THEN "meta" ELSE "generic"

MetaExtensions == {"refreshRate", "threads", "colorSpace"}
Wanted(hmd) == {"gles", "perf", "picoConfigs"} \cup (IF hmd = "meta" THEN MetaExtensions ELSE {})

FromName(name, guess) ==
    CASE name = "Pico" -> "pico"
      [] name = "Meta" -> "meta"
      [] OTHER -> guess

\* The instance or the system may be refused; the requirements are asked for unseen.
TBXR_InitialiseOpenXR ==
    /\ stage = "context"
    /\ LET guess == FromExtensions(device.extensions)
           available == device.extensions \cap Wanted(guess)
       IN  \/ stage' = "exited" /\ UNCHANGED <<OpenXRHMD, enabled>>
           \/ /\ OpenXRHMD' = FromName(device.name, guess)
              /\ enabled' = available
              /\ Calling({"gles"}, available, "instance")
    /\ UNCHANGED <<device, Egl, REFRESH, currentDisplayRefreshRate>>

-----------------------------------------------------------------------------
(* TBXR_EnterVR, TBXR_InitRenderer, the session's beginning *)

\* No runtime creates a session without a context; then the program exits.
TBXR_EnterVR ==
    /\ stage = "instance"
    /\ \/ stage' = "exited"
       \/ Egl.Context = "live" /\ stage' = "session"
    /\ UNCHANGED <<device, OpenXRHMD, enabled, Egl, REFRESH, currentDisplayRefreshRate>>

\* "Only use color space APIs if the function is available"; so for refresh rates and
\* for Pico's configuration.
UsedIfThere == CASE IsMeta -> {"colorSpace", "refreshRate"} \cap enabled
                 [] OpenXRHMD = "pico" -> {"picoConfigs"} \cap enabled
                 [] OTHER -> {}

\* The rate the display has is read where there is a function to read it.
TBXR_InitRenderer ==
    /\ stage = "session"
    /\ Calling(UsedIfThere, enabled, "renderer")
    /\ currentDisplayRefreshRate' = IF UsedIfThere \cap {"refreshRate", "picoConfigs"} # {}
                                    THEN device.rate ELSE currentDisplayRefreshRate
    /\ UNCHANGED <<device, OpenXRHMD, enabled, Egl, REFRESH>>

\* The runtime lets the session begin: performance levels, and the threads on a Meta.
SessionReady ==
    /\ stage = "renderer"
    /\ Calling({"perf"} \cup (IF IsMeta THEN {"threads"} ELSE {}), enabled, "active")
    /\ UNCHANGED <<device, OpenXRHMD, enabled, Egl, REFRESH, currentDisplayRefreshRate>>

-----------------------------------------------------------------------------
(* RazeXR_SetRefreshRate, before the game and in each of its frames *)

RazeXR_SetRefreshRate(refreshRate, next) ==
    /\ Calling(IF IsMeta THEN {"refreshRate"} ELSE {}, enabled, next)
    /\ currentDisplayRefreshRate' = IF IsMeta THEN refreshRate ELSE currentDisplayRefreshRate
    /\ UNCHANGED <<device, OpenXRHMD, enabled, Egl, REFRESH>>

\* REFRESH, which would say 0 for "leave it", never is: it is 72 unless a rate above 0 was asked for.
StartGame == stage = "active" /\ RazeXR_SetRefreshRate(REFRESH, "frames")

VR_FrameSetup == stage = "frames" /\ RazeXR_SetRefreshRate(REFRESH, "frames")

\* raze_main has returned.
TBXR_LeaveVR ==
    /\ stage = "frames" /\ stage' = "left" /\ Egl' = NoEgl
    /\ UNCHANGED <<device, OpenXRHMD, enabled, REFRESH, currentDisplayRefreshRate>>
=============================================================================
