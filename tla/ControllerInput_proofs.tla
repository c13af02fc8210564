------------------------ MODULE ControllerInput_proofs ------------------------
(***************************************************************************)
(* Proofs about the controller input for every set of controls, cvars and  *)
(* menus: no key is left pressed behind, and the weapon is not stabilised  *)
(* without a hand on it, except across a change of menu or cvars; a push   *)
(* of the stick turns the view once, and turns stay in range.              *)
(***************************************************************************)
EXTENDS ControllerInput, TLAPS

\* The keys that did not survive a change are those of frames that were handled,
\* which leave the saved state equal to the state read.
Saved == down \subseteq carried \/ (Handled /\ old = new)

KeyInv == Saved /\ NoKeyLeftBehind

\* The events of a frame leave a key down only if a binding of it is active, or if
\* it was down and nothing changed for it.
LEMMA EventsExplainKeys ==
    ASSUME NEW was, NEW is, NEW key \in AfterEvents(was, is)
    PROVE  \/ \E b \in BindingsOf(key) : Active(b, is)
           \/ /\ key \in down
              /\ \A i \in Changed(was, is) : Bindings[i].key # key
  <1> DEFINE of == {i \in Changed(was, is) : Bindings[i].key = key}
  <1>1. CASE of = {}
    BY <1>1 DEF AfterEvents
  <1>2. CASE \E i \in of : Active(Bindings[i], is)
    BY <1>2 DEF Changed, BindingsOf
  <1>3. of = {} \/ \E i \in of : Active(Bindings[i], is)
    BY DEF AfterEvents
  <1> QED
    BY <1>1, <1>2, <1>3

\* Every step keeps the invariant: a frame by the lemma, a change of menu or cvars
\* because it makes every pressed key a carried one.
THEOREM KeyInvInductive == Spec => []KeyInv
  <1>1. Init => KeyInv
    BY DEF Init, KeyInv, Saved, NoKeyLeftBehind
  <1>2. KeyInv /\ [Next]_vars => KeyInv'
    <2> SUFFICES ASSUME KeyInv, [Next]_vars PROVE KeyInv'
      OBVIOUS
    <2>1. ASSUME NEW is \in Readings, NEW close \in BOOLEAN,
                 VR_HandleControllerInput(is, close)
          PROVE  KeyInv'
      <3>1. /\ new' = is /\ carried' = carried \cap down'
            /\ play' = play /\ cvars' = cvars /\ menuactive' = menuactive
        BY <2>1 DEF VR_HandleControllerInput
      <3>2. /\ Handled' = Handled /\ Bindings' = Bindings
            /\ \A key : BindingsOf(key)' = BindingsOf(key)
        BY <3>1 DEF Handled, Bindings, BindingsOf, InMenu
      <3>3. \A b : Active(b, is)' = Active(b, is)
        BY <3>1 DEF Active, dominantGripPushed
      <3>4. CASE Handled
        <4>1. down' = AfterEvents(old, is) /\ old' = is
          BY <2>1, <3>4 DEF VR_HandleControllerInput, HandleInput_Default
        <4>2. Saved'
          BY <3>1, <3>2, <3>4, <4>1 DEF Saved
        <4>3. ASSUME NEW key \in (down \ carried)'
              PROVE  \E b \in BindingsOf(key) : Active(b, is)
          <5>1. CASE /\ key \in down
                     /\ \A i \in Changed(old, is) : Bindings[i].key # key
            <6>1. key \in down \ carried
              BY <5>1, <4>3, <3>1
            <6>2. old = new
              BY <6>1 DEF KeyInv, Saved
            <6>3. PICK b \in BindingsOf(key) : Active(b, old)
              BY <6>1, <6>2 DEF KeyInv, NoKeyLeftBehind
            <6>4. PICK i \in DOMAIN Bindings : Bindings[i] = b /\ b.key = key
              BY <6>3 DEF BindingsOf
            <6>5. i \notin Changed(old, is)
              BY <5>1, <6>4
            <6> QED
              BY <6>3, <6>4, <6>5 DEF Changed
          <5> QED
            BY <5>1, <4>1, <4>3, EventsExplainKeys
        <4> QED
          BY <3>1, <3>2, <3>3, <4>2, <4>3 DEF KeyInv, NoKeyLeftBehind
      <3>5. CASE ~Handled
        <4>1. down' = down /\ down \subseteq carried
          BY <2>1, <3>5 DEF VR_HandleControllerInput, KeyInv, Saved
        <4> QED
          BY <3>1, <4>1 DEF KeyInv, Saved, NoKeyLeftBehind
      <3> QED
        BY <3>4, <3>5
    <2>2. ASSUME NEW c \in Plays[play].settings, NEW m \in Plays[play].menus, Change(c, m)
          PROVE  KeyInv'
      BY <2>2 DEF Change, KeyInv, Saved, NoKeyLeftBehind
    <2>3. CASE UNCHANGED vars
      <3>1. /\ Handled' = Handled /\ Bindings' = Bindings
            /\ \A key : BindingsOf(key)' = BindingsOf(key)
            /\ \A b : Active(b, new)' = Active(b, new)
        BY <2>3 DEF vars, Handled, Bindings, BindingsOf, InMenu, Active, dominantGripPushed
      <3> QED
        BY <2>3, <3>1 DEF vars, history, KeyInv, Saved, NoKeyLeftBehind
    <2> QED
      BY <2>1, <2>2, <2>3 DEF Next
  <1> QED
    BY <1>1, <1>2, PTL DEF Spec

\* For every set of controls and cvars: a key outlives its control only if a menu
\* opened or closed, or a cvar changed, while it was down.
THEOREM KeysAreReleased == Spec => []NoKeyLeftBehind
  BY KeyInvInductive, PTL DEF KeyInv

-----------------------------------------------------------------------------
\* A control held in the saved state, not since before the last change, has its key
\* down if no other binding shares it; and the saved state is the one read, unless
\* all that is held is from before the change.
PressInv ==
    Handled =>
        /\ old = new \/ old \cup new \subseteq stale
        /\ \A i \in DOMAIN Bindings :
             LET b == Bindings[i]
             IN  (Active(b, old) /\ b.control \notin stale /\ BindingsOf(b.key) = {b})
                     => b.key \in down

\* The events of a frame put down the key of a binding that has become active, and
\* leave down that of one that stays so, if no other binding has that key.
LEMMA EventsPressKeys ==
    ASSUME NEW was, NEW is, NEW i \in DOMAIN Bindings,
           Active(Bindings[i], is), BindingsOf(Bindings[i].key) = {Bindings[i]},
           Active(Bindings[i], was) => Bindings[i].key \in down
    PROVE  Bindings[i].key \in AfterEvents(was, is)
  <1> DEFINE b == Bindings[i]
  <1>1. \A j \in DOMAIN Bindings : Bindings[j].key = b.key => Bindings[j] = b
    BY DEF BindingsOf
  <1>2. \A j \in Changed(was, is) : Bindings[j].key = b.key => Active(Bindings[j], is)
    BY <1>1 DEF Changed
  <1>3. b.key \in down \cup {Bindings[j].key : j \in Changed(was, is)}
    BY DEF Changed
  <1> QED
    BY <1>2, <1>3 DEF AfterEvents

\* Every step keeps it: a frame by the lemma, a change of menu or cvars because all
\* that is held is from before it.
THEOREM PressInvInductive == Spec => []PressInv
  <1>1. Init => PressInv
    BY DEF Init, PressInv, Active
  <1>2. PressInv /\ [Next]_vars => PressInv'
    <2> SUFFICES ASSUME PressInv, [Next]_vars PROVE PressInv'
      OBVIOUS
    <2>1. ASSUME NEW is \in Readings, NEW close \in BOOLEAN,
                 VR_HandleControllerInput(is, close)
          PROVE  PressInv'
      <3>1. /\ new' = is /\ stale' = stale \cap is
            /\ play' = play /\ cvars' = cvars /\ menuactive' = menuactive
        BY <2>1 DEF VR_HandleControllerInput
      <3>2. /\ Handled' = Handled /\ Bindings' = Bindings
            /\ \A key : BindingsOf(key)' = BindingsOf(key)
        BY <3>1 DEF Handled, Bindings, BindingsOf, InMenu
      <3>3. \A b : Active(b, is)' = Active(b, is)
        BY <3>1 DEF Active, dominantGripPushed
      <3> SUFFICES ASSUME Handled PROVE PressInv'
        BY <3>2 DEF PressInv
      <3>4. down' = AfterEvents(old, is) /\ old' = is
        BY <2>1 DEF VR_HandleControllerInput, HandleInput_Default
      <3>5. ASSUME NEW i \in DOMAIN Bindings, Active(Bindings[i], is),
                   Bindings[i].control \notin stale \cap is,
                   BindingsOf(Bindings[i].key) = {Bindings[i]}
            PROVE  Bindings[i].key \in AfterEvents(old, is)
        <4>1. Bindings[i].control \notin stale
          BY <3>5 DEF Active
        <4> QED
          BY <3>5, <4>1, EventsPressKeys DEF PressInv
      <3> QED
        BY <3>1, <3>2, <3>3, <3>4, <3>5 DEF PressInv
    <2>2. ASSUME NEW c \in Plays[play].settings, NEW m \in Plays[play].menus, Change(c, m)
          PROVE  PressInv'
      <3>1. old' = old /\ new' = new /\ stale' = stale \cup old \cup new
        BY <2>2 DEF Change
      <3> QED
        BY <3>1 DEF PressInv, Active
    <2>3. CASE UNCHANGED vars
      <3>1. /\ Handled' = Handled /\ Bindings' = Bindings
            /\ \A key : BindingsOf(key)' = BindingsOf(key)
            /\ \A b : Active(b, old)' = Active(b, old)
        BY <2>3 DEF vars, Handled, Bindings, BindingsOf, InMenu, Active, dominantGripPushed
      <3> QED
        BY <2>3, <3>1 DEF vars, history, PressInv
    <2> QED
      BY <2>1, <2>2, <2>3 DEF Next
  <1> QED
    BY <1>1, <1>2, PTL DEF Spec

\* For every set of controls and cvars: a control that was not held already when a
\* menu or a cvar last changed has the key of its layer down, if the key is its own.
THEOREM PressesAreNoticed == Spec => []NoPressIsMissed
  <1>1. PressInv => NoPressIsMissed
    BY DEF PressInv, NoPressIsMissed, Active
  <1> QED
    BY <1>1, PressInvInductive, PTL

-----------------------------------------------------------------------------
\* A stabilised weapon that no change has left behind is held in the game, in both
\* the saved state and the state read.
Held ==
    weaponStabilised /\ ~strayed =>
        /\ menuactive = "MENU_Off" /\ cvars.vr_two_handed_weapons /\ Handled
        /\ <<Off(cvars), "Grip">> \in old \cap new

HeldInv == weaponStabilised \in BOOLEAN /\ Held

\* Every step keeps it: frames look at the grip, changes make the weapon strayed.
THEOREM HeldInvInductive == Spec => []HeldInv
  <1>1. Init => HeldInv
    BY DEF Init, HeldInv, Held
  <1>2. HeldInv /\ [Next]_vars => HeldInv'
    <2> SUFFICES ASSUME HeldInv, [Next]_vars PROVE HeldInv'
      OBVIOUS
    <2> USE DEF HeldInv, Held, Handled
    <2>1. ASSUME NEW is \in Readings, NEW close \in BOOLEAN,
                 VR_HandleControllerInput(is, close)
          PROVE  HeldInv'
      <3> DEFINE grip == <<Off(cvars), "Grip">>
      <3>1. /\ new' = is /\ strayed' = (strayed /\ weaponStabilised')
            /\ play' = play /\ cvars' = cvars /\ menuactive' = menuactive
        BY <2>1 DEF VR_HandleControllerInput
      <3>2. grip' = grip
        BY <3>1 DEF Off, Other, Dominant
      <3>3. CASE Handled
        <4>1. Stabilise(is, close) /\ old' = is
          BY <2>1, <3>3 DEF VR_HandleControllerInput, HandleInput_Default
        <4>2. CASE /\ menuactive = "MENU_Off" /\ cvars.vr_two_handed_weapons
                   /\ (grip \in is) # (grip \in old)
          BY <3>1, <3>2, <3>3, <4>1, <4>2, Zenon DEF Stabilise
        <4>3. CASE ~(/\ menuactive = "MENU_Off" /\ cvars.vr_two_handed_weapons
                     /\ (grip \in is) # (grip \in old))
          <5>1. weaponStabilised' = weaponStabilised
            BY <4>1, <4>3, Zenon DEF Stabilise
          <5> QED
            BY <3>1, <3>2, <3>3, <4>1, <4>3, <5>1
        <4> QED
          BY <4>2, <4>3
      <3>4. CASE ~Handled
        <4>1. UNCHANGED <<old, weaponStabilised>>
          BY <2>1, <3>4 DEF VR_HandleControllerInput
        <4> QED
          BY <3>1, <3>4, <4>1
      <3> QED
        BY <3>3, <3>4
    <2>2. ASSUME NEW c \in Plays[play].settings, NEW m \in Plays[play].menus, Change(c, m)
          PROVE  HeldInv'
      BY <2>2 DEF Change
    <2>3. CASE UNCHANGED vars
      BY <2>3 DEF vars, history, Off, Other, Dominant
    <2> QED
      BY <2>1, <2>2, <2>3 DEF Next
  <1> QED
    BY <1>1, <1>2, PTL DEF Spec

\* For every set of controls and cvars: unless a menu or a cvar changed since the
\* off hand took hold of the weapon, it is stabilised only while held.
THEOREM StabilisedOnlyWhileHeld == Spec => []StabilisedWhileHeld
  <1>1. HeldInv => StabilisedWhileHeld
    BY DEF HeldInv, Held, StabilisedWhileHeld
  <1> QED
    BY <1>1, HeldInvInductive, PTL

-----------------------------------------------------------------------------
\* Steps are whole degrees, up to a full turn.
Stepping == play \in DOMAIN Plays /\ cvars \in Plays[play].settings

TurnInv ==
    /\ Stepping
    /\ SnapInRange
    /\ increaseSnap \in BOOLEAN /\ decreaseSnap \in BOOLEAN
    /\ cvars.vr_snapTurn > 10 =>
         /\ increaseSnap => "right" \in released
         /\ decreaseSnap => "left" \in released

LEMMA StepsAreDegrees == Stepping => cvars.vr_snapTurn \in 0..360
  BY InputAssumption DEF Stepping, PlayKinds, Cvars

\* One turn keeps the range, whatever the stick does.
LEMMA TurnKeepsRange ==
    ASSUME NEW at, NEW step \in 0..360, SnapInRange, Turn(at, step)
    PROVE  SnapInRange'
  <1> USE DEF SnapInRange
  <1>1. \A n \in -540..540 : Wrapped(n) \in -180..180
    BY DEF Wrapped
  <1>2. CASE at = "right"
    <2>1. snapTurn' = IF increaseSnap THEN Wrapped(snapTurn + (-step)) ELSE snapTurn
      BY <1>2 DEF Turn, Push
    <2>2. snapTurn + (-step) \in -540..540
      OBVIOUS
    <2> QED
      BY <1>1, <2>1, <2>2
  <1>3. CASE at = "left"
    <2>1. snapTurn' = IF decreaseSnap THEN Wrapped(snapTurn + step) ELSE snapTurn
      BY <1>3 DEF Turn, Push
    <2>2. snapTurn + step \in -540..540
      OBVIOUS
    <2> QED
      BY <1>1, <2>1, <2>2
  <1>4. CASE at \notin {"right", "left"}
    BY <1>4 DEF Turn
  <1> QED
    BY <1>2, <1>3, <1>4

\* A turn disarms its side, and a side is armed again only off that side.
LEMMA TurnDisarms ==
    ASSUME NEW at, NEW step \in 0..360, Turn(at, step), SnapInRange,
           increaseSnap \in BOOLEAN, decreaseSnap \in BOOLEAN
    PROVE  /\ increaseSnap' \in BOOLEAN /\ decreaseSnap' \in BOOLEAN
           /\ snapTurn' # snapTurn =>
                \/ at = "right" /\ increaseSnap
                \/ at = "left" /\ decreaseSnap
           /\ step > 10 /\ increaseSnap' =>
                \/ at \notin {"right", "leanRight"}
                \/ at = "leanRight" /\ increaseSnap
           /\ step > 10 /\ decreaseSnap' =>
                \/ at \notin {"left", "leanLeft"}
                \/ at = "leanLeft" /\ decreaseSnap
  <1>1. CASE at = "right"
    <2>1. increaseSnap' = (increaseSnap /\ step <= 10) /\ decreaseSnap' = TRUE
      BY <1>1, Zenon DEF Turn, StillAllowed
    <2>2. ~increaseSnap => snapTurn' = snapTurn
      BY <1>1 DEF Turn, Push
    <2>3. step > 10 => ~(step <= 10)
      OBVIOUS
    <2> QED
      BY <1>1, <2>1, <2>2, <2>3, Zenon
  <1>2. CASE at = "left"
    <2>1. decreaseSnap' = (decreaseSnap /\ step <= 10) /\ increaseSnap' = TRUE
      BY <1>2, Zenon DEF Turn, StillAllowed
    <2>2. ~decreaseSnap => snapTurn' = snapTurn
      BY <1>2 DEF Turn, Push
    <2>3. step > 10 => ~(step <= 10)
      OBVIOUS
    <2> QED
      BY <1>2, <2>1, <2>2, <2>3, Zenon
  <1>3. CASE at \notin {"right", "left"}
    BY <1>3 DEF Turn
  <1> QED
    BY <1>1, <1>2, <1>3

\* What a frame does to the turn, handled or not, shifted or not.
LEMMA FrameTurns ==
    ASSUME TurnInv, NEW is, NEW close, VR_HandleControllerInput(is, close)
    PROVE  LET at == StickAt(Primary(cvars), is)
           IN  Turn(at, cvars.vr_snapTurn) \/ UNCHANGED turnVars
  <1>1. CASE Handled
    BY <1>1, Zenon DEF VR_HandleControllerInput, HandleInput_Default, TurnView
  <1>2. CASE ~Handled
    BY <1>2, Zenon DEF VR_HandleControllerInput, turnVars
  <1> QED
    BY <1>1, <1>2

\* A frame keeps the invariant, and turns the view only for a new push.
LEMMA FrameKeepsTurnInv ==
    ASSUME TurnInv, NEW is, NEW close, VR_HandleControllerInput(is, close)
    PROVE  /\ TurnInv'
           /\ snapTurn' # snapTurn /\ cvars.vr_snapTurn > 10 =>
                StickAt(Primary(cvars), is) \in released
  <1> DEFINE at == StickAt(Primary(cvars), is)
             step == cvars.vr_snapTurn
  <1>1. /\ play' = play /\ cvars' = cvars
        /\ released' = (IF snapTurn' # snapTurn THEN {} ELSE released) \cup SidesLeft(is)
    BY DEF VR_HandleControllerInput
  <1>2. Stepping' /\ step' = step /\ step \in 0..360
    BY <1>1, StepsAreDegrees DEF Stepping, TurnInv
  <1>3. /\ at \notin {"right", "leanRight"} => "right" \in released'
        /\ at \notin {"left", "leanLeft"} => "left" \in released'
    BY <1>1 DEF SidesLeft
  <1>4. snapTurn' = snapTurn => released \subseteq released'
    BY <1>1
  <1>5. CASE Turn(at, step)
    <2>1. SnapInRange'
      BY <1>2, <1>5, TurnKeepsRange DEF TurnInv
    <2>2. /\ increaseSnap' \in BOOLEAN /\ decreaseSnap' \in BOOLEAN
          /\ snapTurn' # snapTurn =>
               \/ at = "right" /\ increaseSnap
               \/ at = "left" /\ decreaseSnap
          /\ step > 10 /\ increaseSnap' =>
               \/ at \notin {"right", "leanRight"}
               \/ at = "leanRight" /\ increaseSnap
          /\ step > 10 /\ decreaseSnap' =>
               \/ at \notin {"left", "leanLeft"}
               \/ at = "leanLeft" /\ decreaseSnap
      BY <1>2, <1>5, TurnDisarms DEF TurnInv
    <2>3. step > 10 /\ increaseSnap' => "right" \in released'
      BY <1>3, <1>4, <2>2 DEF TurnInv
    <2>4. step > 10 /\ decreaseSnap' => "left" \in released'
      BY <1>3, <1>4, <2>2 DEF TurnInv
    <2> QED
      BY <1>2, <2>1, <2>2, <2>3, <2>4 DEF TurnInv
  <1>6. CASE UNCHANGED turnVars
    BY <1>1, <1>2, <1>4, <1>6 DEF TurnInv, turnVars, SnapInRange
  <1> QED
    BY <1>5, <1>6, FrameTurns

\* The invariant: what is armed on a side has been released there.
LEMMA TurnInvInductive ==
    /\ Init => TurnInv
    /\ TurnInv /\ [Next]_vars => TurnInv'
  <1>1. Init => TurnInv
    BY DEF Init, TurnInit, TurnInv, Stepping, SnapInRange
  <1>2. ASSUME TurnInv, [Next]_vars PROVE TurnInv'
    <2>1. ASSUME NEW is \in Readings, NEW close \in BOOLEAN,
                 VR_HandleControllerInput(is, close)
          PROVE  TurnInv'
      BY <1>2, <2>1, FrameKeepsTurnInv
    <2>2. ASSUME NEW c \in Plays[play].settings, NEW m \in Plays[play].menus, Change(c, m)
          PROVE  TurnInv'
      BY <1>2, <2>2 DEF Change, TurnInv, Stepping, turnVars, SnapInRange
    <2>3. CASE UNCHANGED vars
      BY <1>2, <2>3 DEF vars, history, turnVars, TurnInv, Stepping, SnapInRange
    <2> QED
      BY <1>2, <2>1, <2>2, <2>3 DEF Next
  <1> QED
    BY <1>1, <1>2

\* For every way of playing with steps of at most a full turn, the turn stays
\* within half a circle each way.
THEOREM TurnStaysInRange == Spec => []SnapInRange
  <1>1. TurnInv => SnapInRange
    BY DEF TurnInv
  <1> QED
    BY <1>1, TurnInvInductive, PTL DEF Spec

\* For every way of playing, and whatever the grip, the menus and the cvars do, a
\* push of the stick turns the view at most once.
THEOREM PushTurnsOnce == Spec => TurnsOncePerPush
  <1> DEFINE Once == snapTurn' # snapTurn /\ cvars.vr_snapTurn > 10 =>
                       StickAt(Primary(cvars), new') \in released
  <1>1. ASSUME TurnInv, [Next]_vars PROVE [Once]_vars
    <2>1. ASSUME NEW is \in Readings, NEW close \in BOOLEAN,
                 VR_HandleControllerInput(is, close)
          PROVE  Once
      <3>1. new' = is
        BY <2>1 DEF VR_HandleControllerInput
      <3> QED
        BY <1>1, <2>1, <3>1, FrameKeepsTurnInv
    <2>2. ASSUME NEW c \in Plays[play].settings, NEW m \in Plays[play].menus, Change(c, m)
          PROVE  Once
      BY <2>2 DEF Change, turnVars
    <2> QED
      BY <1>1, <2>1, <2>2 DEF Next
  <1> QED
    BY <1>1, TurnInvInductive, PTL DEF Spec, TurnsOncePerPush

-----------------------------------------------------------------------------
\* Every variable keeps its type, and what is left over from before a change was
\* there before it.
THEOREM InputTypes == Spec => []TypeOK
  <1>1. Init => TypeOK
    <2> SUFFICES ASSUME Init PROVE TypeOK
      OBVIOUS
    <2>1. snapTurn \in Int /\ increaseSnap \in BOOLEAN /\ decreaseSnap \in BOOLEAN
      BY DEF Init, TurnInit
    <2>2. weaponStabilised = FALSE /\ strayed = FALSE
      BY DEF Init
    <2> QED
      BY <2>1, <2>2 DEF Init, TypeOK
  <1>2. TypeOK /\ TurnInv /\ TurnInv' /\ HeldInv' /\ [Next]_vars => TypeOK'
    <2> SUFFICES ASSUME TypeOK, TurnInv', HeldInv', [Next]_vars PROVE TypeOK'
      OBVIOUS
    <2>0. /\ snapTurn' \in Int /\ increaseSnap' \in BOOLEAN /\ decreaseSnap' \in BOOLEAN
          /\ weaponStabilised' \in BOOLEAN
      BY DEF TurnInv, SnapInRange, HeldInv
    <2>1. ASSUME NEW is \in Readings, NEW close \in BOOLEAN,
                 VR_HandleControllerInput(is, close)
          PROVE  TypeOK'
      <3>1. is \in SUBSET Plays[play].controls
        BY DEF Readings, ReadingTable, TypeOK
      <3>2. /\ new' = is /\ old' \in {old, is} /\ carried' = carried \cap down'
            /\ stale' = stale \cap is /\ strayed' = (strayed /\ weaponStabilised')
            /\ released' = (IF snapTurn' # snapTurn THEN {} ELSE released) \cup SidesLeft(is)
            /\ UNCHANGED <<play, cvars, menuactive>>
        BY <2>1 DEF VR_HandleControllerInput, HandleInput_Default
      <3>3. SidesLeft(is) \subseteq {"right", "left"}
        BY DEF SidesLeft
      <3>4. strayed' \in BOOLEAN /\ (strayed' => weaponStabilised')
        BY <2>0, <3>2, Zenon DEF TypeOK
      <3> QED
        BY <2>0, <3>1, <3>2, <3>3, <3>4 DEF TypeOK
    <2>2. ASSUME NEW c \in Plays[play].settings, NEW m \in Plays[play].menus, Change(c, m)
          PROVE  TypeOK'
      BY <2>0, <2>2 DEF Change, turnVars, TypeOK
    <2>3. CASE UNCHANGED vars
      BY <2>3 DEF vars, turnVars, history, TypeOK
    <2> QED
      BY <2>1, <2>2, <2>3 DEF Next
  <1> QED
    BY <1>1, <1>2, TurnInvInductive, HeldInvInductive, PTL DEF Spec
=============================================================================
