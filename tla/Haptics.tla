------------------------------- MODULE Haptics -------------------------------
(***************************************************************************)
(* The vibration of the two controllers (OpenXrInput.cpp). The engine asks *)
(* for a vibration with TBXR_Vibrate; TBXR_ProcessHaptics, called once a   *)
(* frame, passes what is left of it to the OpenXR runtime and takes the    *)
(* time since the last frame off.                                          *)
(*                                                                         *)
(* Times are in milliseconds. The timestamps of the frames are floats of   *)
(* the time since boot, and so are multiples of a Quantum that grows with  *)
(* the uptime (2 ms after 4.7 hours, 64 ms after 6 days).                  *)
(***************************************************************************)
EXTENDS Integers

CONSTANTS
    Requests,     \* durations the engine asks for; -1 is "until stopped"
    Intensities,
    Quantum,      \* the resolution of a timestamp
    Uptime,       \* the timestamp of the first frame
    MaxGap        \* bound: the longest time between two frames

FOREVER == -1

ASSUME HapticsAssumption ==
    /\ Requests \subseteq Nat \cup {FOREVER}
    /\ "off" \notin Intensities
    /\ Quantum \in Nat \ {0}
    /\ MaxGap \in Nat \ {0}
    /\ Uptime \in Nat /\ Uptime >= MaxGap

Channels == {0, 1}   \* 0 = left, 1 = right

VARIABLES
    duration, intensity,   \* vibration_channel_duration and _intensity
    motor, told,           \* intensity and time last given to the runtime, per hand
    phase,                 \* the clock at the last frame, beyond its timestamp
    gap,                   \* time since the last frame
    started,               \* whether lastFrameTime has been set
    \* history
    asked,                 \* the last duration accepted for each hand
    left,                  \* how much of it is left by the clock
    leftAtFrame,           \* and was left at the last frame since
    early                  \* whether it was accepted before the first frame

channels == <<duration, intensity>>
runtime == <<motor, told>>
clock == <<phase, gap, started>>
history == <<asked, left, leftAtFrame, early>>
vars == <<channels, runtime, clock, history>>

\* Once a request is over by more than this, it does not matter by how much.
LeftFloor == -(Quantum + MaxGap)

TypeOK ==
    /\ duration \in [Channels -> Nat \cup {FOREVER}]
    /\ intensity \in [Channels -> Intensities \cup {"off"}]
    /\ motor \in [Channels -> Intensities \cup {"off"}]
    /\ told \in [Channels -> Int]
    /\ phase \in 0 .. Quantum - 1 /\ gap \in 0 .. MaxGap /\ started \in BOOLEAN
    /\ asked \in [Channels -> Nat \cup {FOREVER}]
    /\ left \in [Channels -> Int] /\ leftAtFrame \in [Channels -> Int]
    /\ early \in [Channels -> BOOLEAN]

Init ==
    /\ duration = [c \in Channels |-> 0]
    /\ intensity = [c \in Channels |-> "off"]
    /\ motor = [c \in Channels |-> "off"]
    /\ told = [c \in Channels |-> 0]
    /\ phase \in 0 .. Quantum - 1 /\ gap = 0 /\ started = FALSE
    /\ asked = [c \in Channels |-> 0]
    /\ left = [c \in Channels |-> 0] /\ leftAtFrame = left
    /\ early = [c \in Channels |-> FALSE]

-----------------------------------------------------------------------------
Tick ==
    /\ gap < MaxGap
    /\ gap' = gap + 1
    /\ left' = [c \in Channels |-> IF left[c] > LeftFloor THEN left[c] - 1 ELSE left[c]]
    /\ UNCHANGED <<channels, runtime, phase, started, asked, leftAtFrame, early>>

\* Bit 1 of chan is the right controller, bit 2 the left.
Wanted(c, chan) == IF c = 1 THEN chan \in {1, 3} ELSE chan \in {2, 3}

\* A vibration that is not over is left alone; an endless one can be stopped.
Busy(c, d) == duration[c] > 0 \/ (duration[c] = FOREVER /\ d # 0)

\* TBXR_Vibrate goes through the channels from right to left and gives up at the
\* first one that is wanted but busy.
Vibrate(d, chan, i) ==
    LET blocked(c) == Wanted(c, chan) /\ Busy(c, d)
        taken == {c \in Channels : /\ Wanted(c, chan) /\ ~blocked(c)
                                   /\ c = 0 => ~blocked(1)}
        Store(f, v) == [c \in Channels |-> IF c \in taken THEN v ELSE f[c]]
        due == IF d = FOREVER THEN 0 ELSE d
    IN  /\ duration' = Store(duration, d)
        /\ intensity' = Store(intensity, i)
        /\ asked' = Store(asked, d)
        /\ left' = Store(left, due) /\ leftAtFrame' = Store(leftAtFrame, due)
        /\ early' = Store(early, ~started)
        /\ UNCHANGED <<runtime, clock>>

\* Mutant: the time of the last frame is never stored.
FrametimeSinceBoot == Uptime + ((phase + gap) \div Quantum) * Quantum

\* Mutant: the clock is read in units of its resolution.
FrametimeInQuanta ==
    IF started THEN (phase + gap) \div Quantum ELSE Uptime

\* The time since the last frame, as the difference of two timestamps. The first
\* frame finds lastFrameTime = 0 and gets the whole uptime.
Frametime ==
    IF started THEN ((phase + gap) \div Quantum) * Quantum ELSE Uptime

Vibrates(c) == duration[c] > 0 \/ duration[c] = FOREVER

\* Mutant: time that is taken off may run below zero.
TimeOffUnchecked(d) == IF d = FOREVER THEN d ELSE d - Frametime

\* Mutant: nothing is taken off the last frame of a vibration.
TimeOffSaturated(d) == IF d <= Frametime THEN d ELSE d - Frametime

\* What is left of a vibration after the frame.
TimeOff(d) ==
    IF d = FOREVER THEN d ELSE IF d < Frametime THEN 0 ELSE d - Frametime

\* ToXrTime takes seconds and is given milliseconds.
ToXrTime(d) == 1000 * d

TBXR_ProcessHaptics ==
    /\ motor' = [c \in Channels |-> IF Vibrates(c) THEN intensity[c] ELSE "off"]
    /\ told' = [c \in Channels |-> IF Vibrates(c) THEN ToXrTime(duration[c]) ELSE 0]
    /\ duration' = [c \in Channels |-> IF Vibrates(c) THEN TimeOff(duration[c])
                                                      ELSE duration[c]]
    /\ intensity' = [c \in Channels |->
                        IF duration[c] > 0 /\ duration[c] < Frametime THEN "off"
                                                                      ELSE intensity[c]]
    /\ phase' = (phase + gap) % Quantum
    /\ gap' = 0 /\ started' = TRUE
    /\ leftAtFrame' = left
    /\ UNCHANGED <<asked, left, early>>

Next ==
    \/ Tick
    \/ \E d \in Requests, chan \in 1 .. 3, i \in Intensities : Vibrate(d, chan, i)
    \/ TBXR_ProcessHaptics

Spec == Init /\ [][Next]_vars

\* The engine goes on drawing frames, and xrWaitFrame lets time pass between them.
FairSpec == Spec /\ WF_vars(Tick) /\ WF_vars(gap > 0 /\ TBXR_ProcessHaptics)

-----------------------------------------------------------------------------
(* Properties *)

\* A hand does not vibrate on after its time: what counts as not over was not over,
\* or by less than a step of the clock, when the last frame was drawn.
NotTooLong ==
    \A c \in Channels : duration[c] > 0 => leftAtFrame[c] > -Quantum

EndsWhenDue ==
    \A c \in Channels :
        duration[c] = 0 /\ ~early[c] => leftAtFrame[c] < MaxGap + Quantum
ForeverIfAsked ==
    \A c \in Channels : duration[c] = FOREVER <=> asked[c] = FOREVER

\* Nor is a vibration given up much too early, by more than a frame and a step of
\* the clock, unless it was asked for before the first frame; an endless one goes on
\* until it is stopped, and counting down never yields the code for endless.
NotTooShort == EndsWhenDue /\ ForeverIfAsked

\* However coarse the clock, a vibration that has an end comes to it.
EveryVibrationEnds ==
    \A c \in Channels : duration[c] > 0 ~> duration[c] = 0

\* What the parameter of ToXrTime (openxr_helpers.h:6, "timeInSeconds") promises:
\* the runtime is told to vibrate for no longer than was asked for.
ToldWhatWasAsked ==
    \A c \in Channels : asked[c] # FOREVER => told[c] <= asked[c]
=============================================================================
