---------------------------- MODULE Haptics_proofs ----------------------------
(***************************************************************************)
(* Proofs about the vibration of the controllers, for every duration the   *)
(* engine may ask for, every resolution of the clock and every time        *)
(* between frames: the count-down stays within a frame and a clock step of *)
(* the time that was asked for.                                            *)
(***************************************************************************)
EXTENDS Haptics, TLAPS

\* The part of the clock that the last timestamp left out.
Beyond == IF started THEN phase ELSE 0

\* What is counted down lies between the time left by the clock, and that time
\* less what had gone of the frame when the request was accepted.
CountsDown ==
    \A c \in Channels :
        /\ duration[c] > 0 => duration[c] <= left[c] + gap + Beyond
        /\ duration[c] > 0 /\ ~early[c] =>
               left[c] + gap + phase <= duration[c] + MaxGap + Quantum - 1

\* Before the first frame, whatever is counted down was asked for early.
EarlyUntilStarted ==
    ~started => \A c \in Channels : early[c] \/ duration[c] = 0

\* What is over stays over by the clock.
OverStaysOver ==
    \A c \in Channels : duration[c] = 0 /\ ~early[c] => left[c] < MaxGap + Quantum

TimeInv == NotTooLong /\ EndsWhenDue /\ CountsDown /\ EarlyUntilStarted /\ OverStaysOver

HapticsInv == TypeOK /\ ForeverIfAsked /\ TimeInv

\* The difference of two timestamps, and what the newer one leaves out.
LEMMA ClockStep ==
    ASSUME phase \in Nat, gap \in Nat
    PROVE  /\ (phase + gap) % Quantum \in 0 .. Quantum - 1
           /\ started => /\ Frametime \in Nat
                         /\ Frametime + ((phase + gap) % Quantum) = phase + gap
           /\ ~started => Frametime = Uptime
  <1> DEFINE n == phase + gap
             q == n \div Quantum
  <1>1. n \in Nat /\ Quantum \in Nat /\ Quantum > 0
    BY HapticsAssumption, SMT
  <1>2. n % Quantum \in 0 .. Quantum - 1 /\ q \in Nat /\ n = (Quantum * q) + (n % Quantum)
    BY <1>1, SMT
  <1>3. q * Quantum = Quantum * q /\ q * Quantum \in Nat
    BY <1>1, <1>2, SMT
  <1>4. started => Frametime = q * Quantum
    BY DEF Frametime
  <1>5. n = phase + gap
    OBVIOUS
  <1> HIDE DEF q, n
  <1>6. started => Frametime \in Nat /\ Frametime + (n % Quantum) = n
    BY <1>1, <1>2, <1>3, <1>4, SMT
  <1> QED
    BY <1>2, <1>5, <1>6 DEF Frametime

\* Nothing vibrates before the first request.
LEMMA InitHaptics == Init => HapticsInv
  <1> SUFFICES ASSUME Init PROVE HapticsInv
    OBVIOUS
  <1> USE HapticsAssumption DEF Init
  <1>1. TypeOK
    <2>1. /\ duration \in [Channels -> Nat \cup {FOREVER}]
          /\ asked \in [Channels -> Nat \cup {FOREVER}]
          /\ intensity \in [Channels -> Intensities \cup {"off"}]
          /\ motor \in [Channels -> Intensities \cup {"off"}]
          /\ told \in [Channels -> Int] /\ early \in [Channels -> BOOLEAN]
          /\ left \in [Channels -> Int] /\ leftAtFrame \in [Channels -> Int]
      OBVIOUS
    <2>2. gap \in 0 .. MaxGap
      BY SMT
    <2> QED
      BY <2>1, <2>2 DEF TypeOK
  <1>2. ForeverIfAsked
    BY SMT DEF ForeverIfAsked, FOREVER
  <1>3. TimeInv
    BY SMT DEF TimeInv, NotTooLong, EndsWhenDue, CountsDown, EarlyUntilStarted, OverStaysOver
  <1> QED
    BY <1>1, <1>2, <1>3 DEF HapticsInv

\* The passing of time keeps the invariant.
LEMMA TickKeeps == HapticsInv /\ Tick => HapticsInv'
  <1> SUFFICES ASSUME HapticsInv, Tick PROVE HapticsInv'
    OBVIOUS
  <1> USE HapticsAssumption DEF HapticsInv, Tick, channels, runtime
  <1>1. TypeOK'
    BY SMT DEF TypeOK, LeftFloor
  <1>2. ForeverIfAsked'
    BY DEF ForeverIfAsked
  <1>3. TimeInv'
    BY SMT DEF TimeInv, TypeOK, NotTooLong, EndsWhenDue, CountsDown, EarlyUntilStarted,
               OverStaysOver, Beyond, LeftFloor, FOREVER
  <1> QED
    BY <1>1, <1>2, <1>3

\* A request starts a count-down that agrees with the clock.
LEMMA VibrateKeeps ==
    ASSUME NEW d \in Requests, NEW chan \in 1 .. 3, NEW i \in Intensities,
           HapticsInv, Vibrate(d, chan, i)
    PROVE  HapticsInv'
  <1> USE HapticsAssumption DEF HapticsInv
  <1> DEFINE due == IF d = FOREVER THEN 0 ELSE d
  <1>1. PICK taken \in SUBSET Channels :
            /\ duration' = [c \in Channels |-> IF c \in taken THEN d ELSE duration[c]]
            /\ intensity' = [c \in Channels |-> IF c \in taken THEN i ELSE intensity[c]]
            /\ asked' = [c \in Channels |-> IF c \in taken THEN d ELSE asked[c]]
            /\ left' = [c \in Channels |-> IF c \in taken THEN due ELSE left[c]]
            /\ leftAtFrame' = [c \in Channels |-> IF c \in taken THEN due ELSE leftAtFrame[c]]
            /\ early' = [c \in Channels |-> IF c \in taken THEN ~started ELSE early[c]]
    BY DEF Vibrate
  <1>2. UNCHANGED <<motor, told, phase, gap, started>>
    BY DEF Vibrate, runtime, clock
  <1>3. d \in Nat \cup {FOREVER} /\ due \in Nat
    BY SMT DEF FOREVER
  <1>4. TypeOK'
    <2>1. /\ duration' \in [Channels -> Nat \cup {FOREVER}]
          /\ asked' \in [Channels -> Nat \cup {FOREVER}]
      BY <1>1, <1>3 DEF TypeOK
    <2>2. intensity' \in [Channels -> Intensities \cup {"off"}]
      BY <1>1 DEF TypeOK
    <2>3. left' \in [Channels -> Int] /\ leftAtFrame' \in [Channels -> Int]
      <3>1. due \in Int
        BY <1>3, SMT
      <3> QED
        BY <1>1, <3>1 DEF TypeOK
    <2>4. early' \in [Channels -> BOOLEAN]
      BY <1>1 DEF TypeOK
    <2> QED
      BY <1>2, <2>1, <2>2, <2>3, <2>4 DEF TypeOK
  <1>5. ForeverIfAsked'
    BY <1>1, SMT DEF ForeverIfAsked
  <1>6. TimeInv'
    <2>1. /\ MaxGap \in Nat \ {0} /\ Quantum \in Nat \ {0}
          /\ phase \in 0 .. Quantum - 1 /\ gap \in 0 .. MaxGap
      BY DEF TypeOK
    <2>2. d > 0 => due = d
      BY SMT DEF FOREVER
    <2>3. d = 0 => due = 0
      BY SMT DEF FOREVER
    <2> HIDE DEF due
    <2>4. ASSUME NEW c \in taken
          PROVE  /\ duration'[c] = d /\ left'[c] = due /\ leftAtFrame'[c] = due
                 /\ early'[c] = ~started
      BY <1>1, <2>4
    <2>5. ASSUME NEW c \in Channels, c \notin taken
          PROVE  /\ duration'[c] = duration[c] /\ left'[c] = left[c]
                 /\ leftAtFrame'[c] = leftAtFrame[c] /\ early'[c] = early[c]
      BY <1>1, <2>5
    <2>6. NotTooLong' /\ EndsWhenDue'
      BY <1>3, <2>1, <2>2, <2>3, <2>4, <2>5, SMT
         DEF TimeInv, NotTooLong, EndsWhenDue, FOREVER
    <2>7. CountsDown'
      BY <1>2, <1>3, <2>1, <2>2, <2>4, <2>5, SMT DEF TimeInv, CountsDown, Beyond, FOREVER
    <2>8. EarlyUntilStarted'
      BY <1>2, <2>4, <2>5 DEF TimeInv, EarlyUntilStarted
    <2>9. OverStaysOver'
      BY <1>3, <2>1, <2>3, <2>4, <2>5, SMT DEF TimeInv, OverStaysOver
    <2> QED
      BY <2>6, <2>7, <2>8, <2>9 DEF TimeInv
  <1> QED
    BY <1>4, <1>5, <1>6

\* A frame takes the difference of two timestamps off, and the clock moves on by
\* that much and by what the timestamps leave out.
LEMMA FrameKeeps == HapticsInv /\ TBXR_ProcessHaptics => HapticsInv'
  <1> SUFFICES ASSUME HapticsInv, TBXR_ProcessHaptics PROVE HapticsInv'
    OBVIOUS
  <1> USE HapticsAssumption DEF HapticsInv
  <1> DEFINE beyond == (phase + gap) % Quantum
             F == Frametime
  <1>1. /\ beyond \in 0 .. Quantum - 1
        /\ started => F \in Nat /\ F + beyond = phase + gap
        /\ ~started => F = Uptime
    BY ClockStep, SMT DEF TypeOK
  <1>2. /\ phase' = beyond /\ gap' = 0 /\ started' = TRUE /\ leftAtFrame' = left
        /\ UNCHANGED <<asked, left, early>>
    BY DEF TBXR_ProcessHaptics
  <1> HIDE DEF beyond
  <1>3. F \in Nat
    BY <1>1, SMT
  <1>4. \A c \in Channels : /\ duration[c] \in Nat \cup {FOREVER}
                            /\ duration[c] > 0 => duration'[c] = IF duration[c] < F THEN 0
                                                                 ELSE duration[c] - F
                            /\ ~(duration[c] > 0) => duration'[c] = duration[c]
    BY SMT DEF TBXR_ProcessHaptics, Vibrates, TimeOff, TypeOK, FOREVER
  <1> HIDE DEF F
  <1>5. TypeOK'
    <2>1. duration' \in [Channels -> Nat \cup {FOREVER}]
      <3>1. \A c \in Channels : duration'[c] \in Nat \cup {FOREVER}
        BY <1>3, <1>4, SMT DEF FOREVER
      <3>2. duration' = [c \in Channels |-> duration'[c]]
        BY DEF TBXR_ProcessHaptics
      <3> QED
        BY <3>1, <3>2
    <2>2. /\ motor' \in [Channels -> Intensities \cup {"off"}]
          /\ intensity' \in [Channels -> Intensities \cup {"off"}]
      BY DEF TBXR_ProcessHaptics, TypeOK
    <2>3. told' \in [Channels -> Int]
      BY SMT DEF TBXR_ProcessHaptics, TypeOK, ToXrTime, FOREVER
    <2> QED
      BY <1>1, <1>2, <2>1, <2>2, <2>3, SMT DEF TypeOK
  <1>6. ForeverIfAsked'
    BY <1>2, <1>3, <1>4, SMT DEF ForeverIfAsked, FOREVER
  <1>7. ASSUME NEW c \in Channels
        PROVE  /\ duration'[c] > 0 => leftAtFrame'[c] > -Quantum
               /\ duration'[c] = 0 /\ ~early'[c] => leftAtFrame'[c] < MaxGap + Quantum
               /\ duration'[c] > 0 => duration'[c] <= left'[c] + gap' + phase'
               /\ duration'[c] > 0 /\ ~early'[c] =>
                      left'[c] + gap' + phase' <= duration'[c] + MaxGap + Quantum - 1
    <2>1. /\ left[c] \in Int /\ duration[c] \in Nat \cup {FOREVER}
          /\ phase \in Nat /\ gap \in 0 .. MaxGap /\ Quantum \in Nat /\ MaxGap \in Nat
          /\ Uptime \in Nat /\ Uptime >= MaxGap
      BY DEF TypeOK
    <2>2. CASE started
      <3>1. /\ duration[c] > 0 => duration[c] <= left[c] + gap + phase
            /\ duration[c] > 0 /\ ~early[c] =>
                   left[c] + gap + phase <= duration[c] + MaxGap + Quantum - 1
            /\ duration[c] = 0 /\ ~early[c] => left[c] < MaxGap + Quantum
        BY <2>2 DEF TimeInv, CountsDown, OverStaysOver, Beyond
      <3> QED
        BY <1>1, <1>2, <1>3, <1>4, <2>1, <2>2, <3>1, SMT DEF FOREVER
    <2>3. CASE ~started
      <3>1. /\ duration[c] > 0 => duration[c] <= left[c] + gap
            /\ early[c] \/ duration[c] = 0
            /\ duration[c] = 0 /\ ~early[c] => left[c] < MaxGap + Quantum
        BY <2>1, <2>3, SMT DEF TimeInv, CountsDown, OverStaysOver, EarlyUntilStarted, Beyond
      <3> QED
        BY <1>1, <1>2, <1>3, <1>4, <2>1, <2>3, <3>1, SMT DEF FOREVER
    <2> QED
      BY <2>2, <2>3
  <1>8. TimeInv'
    BY <1>2, <1>7, SMT DEF TimeInv, NotTooLong, EndsWhenDue, CountsDown, EarlyUntilStarted,
                           OverStaysOver, Beyond
  <1> QED
    BY <1>5, <1>6, <1>8

\* The invariant holds in every state.
THEOREM HapticsInvInductive == Spec => []HapticsInv
  <1>1. HapticsInv /\ UNCHANGED vars => HapticsInv'
    BY DEF vars, channels, runtime, clock, history, HapticsInv, TypeOK, ForeverIfAsked,
           TimeInv, NotTooLong, EndsWhenDue, CountsDown, EarlyUntilStarted, OverStaysOver,
           Beyond
  <1>2. HapticsInv /\ [Next]_vars => HapticsInv'
    BY <1>1, TickKeeps, VibrateKeeps, FrameKeeps DEF Next
  <1> QED
    BY <1>2, InitHaptics, PTL DEF Spec

\* For every duration asked for, clock and frame rate: no hand vibrates longer than
\* a frame and a clock step after its time.
THEOREM VibrationsEndInTime == Spec => []NotTooLong
  BY HapticsInvInductive, PTL DEF HapticsInv, TimeInv

\* And none that was asked for after the first frame ends earlier than a frame and
\* a clock step before its time, or is taken for an endless one.
THEOREM VibrationsLast == Spec => []NotTooShort
  BY HapticsInvInductive, PTL DEF HapticsInv, TimeInv, NotTooShort

\* Every variable of the haptics keeps its type; a duration is never below zero, but
\* for the code for an endless vibration.
THEOREM HapticsTypes == Spec => []TypeOK
  BY HapticsInvInductive, PTL DEF HapticsInv
=============================================================================
