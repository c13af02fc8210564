--------------------------- MODULE ControllerInput ---------------------------
(***************************************************************************)
(* How the state of the two motion controllers becomes key events for the  *)
(* engine (VrInputDefault.cpp). Each frame compares the state read now     *)
(* with the state saved at the end of the last frame that was handled, and *)
(* posts a key-down or key-up event wherever a binding has become active   *)
(* or inactive. Which binding a control has depends on the dominant hand,  *)
(* on the dominant grip (which "works like a shift key"), on the cvars and *)
(* on whether a menu is open; those change between frames. In the game,    *)
(* the primary stick also turns the view, as SnapTurn says. The weapon,    *)
(* hand and movement vectors, computed afresh in every frame of the game,  *)
(* are left out.                                                           *)
(***************************************************************************)
EXTENDS SnapTurn, Sequences

CONSTANT Plays   \* the ways of playing considered, by name: see PlayKinds

Hands == {"left", "right"}

\* Button1 is A or X, Button2 is B or Y, Enter is the menu button. A stick is held
\* in a direction (Stick) when it is pushed more than 0.7 of the way; sideways, it
\* may also be between 0.6 and 0.7 (Turn) or between 0.4 and 0.6 (Lean).
Sideways == [StickRight |-> "right", TurnRight |-> "right", LeanRight |-> "leanRight",
             StickLeft |-> "left", TurnLeft |-> "left", LeanLeft |-> "leanLeft"]
Inputs == {"Enter", "Button1", "Button2", "Grip", "Trigger", "Joystick",
           "ThumbRest", "StickUp", "StickDown"} \cup DOMAIN Sideways

\* VR_HandleControllerInput knows two schemes for each hand but one; any other
\* value of the cvar leaves the controllers unhandled.
Schemes == {"RIGHT_HANDED_DEFAULT", "LEFT_HANDED_DEFAULT", "LEFT_HANDED_ALT", "other"}

Cvars == [vr_control_scheme : Schemes, vr_secondary_button_mappings : BOOLEAN,
          vr_switch_sticks : BOOLEAN, vr_two_handed_weapons : BOOLEAN,
          vr_snapTurn : 0..360]

\* What a player does: the controls used, the cvars chosen and the values of
\* menuactive met; isMeta says whether gAppState.OpenXRHMD contains "meta".
PlayKinds ==
    [controls : SUBSET (Hands \X Inputs), settings : SUBSET Cvars,
     menus : SUBSET {"MENU_Off", "MENU_On", "MENU_OnNoPause", "MENU_WaitKey"},
     isMeta : BOOLEAN]

ASSUME InputAssumption == \A p \in DOMAIN Plays : Plays[p] \in PlayKinds

VARIABLES
    play,              \* the way of playing
    old, new,          \* leftTrackedRemoteState_old and _new, and the right ones
    cvars, menuactive,
    down,              \* keys whose last event was a key-down
    weaponStabilised,
    \* history: what is left over from before the last change of cvars or menu
    carried,           \* keys that have been down ever since
    stale,             \* controls that have been held ever since
    strayed,           \* weaponStabilised has been true ever since
    released           \* the sides the stick has left since it last turned there

history == <<carried, stale, strayed, released>>
vars == <<play, old, new, cvars, menuactive, down, weaponStabilised, turnVars, history>>

-----------------------------------------------------------------------------
(* Roles and bindings *)

Other(hand) == IF hand = "left" THEN "right" ELSE "left"
Dominant(c) == IF c.vr_control_scheme = "RIGHT_HANDED_DEFAULT" THEN "right" ELSE "left"
Off(c) == Other(Dominant(c))
Primary(c) == IF c.vr_switch_sticks THEN Off(c) ELSE Dominant(c)
Secondary(c) == Other(Primary(c))

Handled == cvars.vr_control_scheme # "other"

\* The dominant grip, when the secondary mappings are on.
dominantGripPushed(held) ==
    cvars.vr_secondary_button_mappings /\ <<Dominant(cvars), "Grip">> \in held

\* A binding is active while its control is held and the grip is as it asks.
Binding(hand, input, grip, key) ==
    [control |-> <<hand, input>>, grip |-> grip, key |-> key]
Plain(hand, input, key) == << Binding(hand, input, {FALSE}, key) >>
Layers(hand, input, key, shifted) ==
    Plain(hand, input, key) \o << Binding(hand, input, {TRUE}, shifted) >>

Active(b, held) == b.control \in held /\ dominantGripPushed(held) \in b.grip

MenuButton == << Binding("left", "Enter", BOOLEAN, "ESCAPE"),
                 Binding("right", "Enter", BOOLEAN, "ESCAPE") >>

MenuSticks(hand) ==
    Layers(hand, "StickRight", "JOYAXIS1PLUS", "JOYAXIS5PLUS")
    \o Layers(hand, "StickLeft", "JOYAXIS1MINUS", "JOYAXIS5MINUS")
    \o Layers(hand, "StickDown", "JOYAXIS2PLUS", "JOYAXIS6PLUS")
    \o Layers(hand, "StickUp", "JOYAXIS2MINUS", "JOYAXIS6MINUS")

MenuBindings(c) ==
    MenuSticks(Off(c)) \o MenuSticks(Dominant(c))
    \o Plain("right", "Button1", "PAD_A") \o Plain("right", "Button2", "PAD_B")
    \o Plain("left", "Button1", "PAD_A") \o Plain("left", "Button2", "PAD_B")

DominantBindings(c, isMeta) ==
    Layers(Dominant(c), "Trigger", "MOUSE1", "PAD_RSHOULDER")
    \o Layers(Primary(c), "Button1", "SPACE", "ENTER")
    \o Layers(Primary(c), "Button2", "PAD_A", "BACKSPACE")
    \o Layers(Dominant(c), "Joystick", "LCTRL", "PAD_LSHOULDER")
    \o (IF isMeta THEN Plain(Dominant(c), "ThumbRest", "PAD_B") ELSE << >>)
    \o << Binding(Dominant(c), "ThumbRest", {TRUE}, "JOY6") >>

OffBindings(c) ==
    Layers(Off(c), "Trigger", "PAD_LTRIGGER", "LALT")
    \o Layers(Secondary(c), "Button1", "PAD_LTHUMB", "PGDN")
    \o Layers(Secondary(c), "Button2", "TAB", "PGUP")
    \o Layers(Off(c), "Joystick", "PAD_RTHUMB", "HOME")
    \o Layers(Off(c), "ThumbRest", "JOY7", "JOY8")
    \o Plain(Off(c), "Grip", "LSHIFT")
    \o << Binding(Off(c), "Grip", IF c.vr_two_handed_weapons THEN {} ELSE {TRUE},
                  "PAD_DPAD_UP") >>

StickBindings(c) ==
    Layers(Secondary(c), "StickRight", "JOYAXIS1PLUS", "JOYAXIS5PLUS")
    \o Layers(Secondary(c), "StickLeft", "JOYAXIS1MINUS", "JOYAXIS5MINUS")
    \o Layers(Primary(c), "StickRight", "JOYAXIS3PLUS", "JOYAXIS7PLUS")
    \o Layers(Primary(c), "StickLeft", "JOYAXIS3MINUS", "JOYAXIS7MINUS")
    \o Layers(Secondary(c), "StickDown", "JOYAXIS2MINUS", "JOYAXIS6MINUS")
    \o Layers(Secondary(c), "StickUp", "JOYAXIS2PLUS", "JOYAXIS6PLUS")
    \o Layers(Primary(c), "StickDown", "MWHEELDOWN", "PAD_DPAD_RIGHT")
    \o Layers(Primary(c), "StickUp", "MWHEELUP", "PAD_DPAD_LEFT")

\* The bindings of the controls in use, in the order in which the code goes
\* through them, for every choice of cvars, with and without a menu.
BindingTable ==
    [p \in DOMAIN Plays |-> [c \in Plays[p].settings, inMenu \in BOOLEAN |->
        SelectSeq(MenuButton \o
                  (IF inMenu THEN MenuBindings(c)
                   ELSE DominantBindings(c, Plays[p].isMeta) \o OffBindings(c) \o StickBindings(c)),
                  LAMBDA b : b.control \in Plays[p].controls)]]

\* A menu that is neither MENU_On nor MENU_OnNoPause has the bindings of the game.
InMenu == menuactive \in {"MENU_On", "MENU_OnNoPause"}
Bindings == BindingTable[play][cvars, InMenu]

BindingsOf(key) == {b \in {Bindings[i] : i \in DOMAIN Bindings} : b.key = key}

-----------------------------------------------------------------------------
(* Events *)

\* Mutant: the grip is only read from the new state.
ChangedByNewGrip(was, is) ==
    {i \in DOMAIN Bindings : LET b == Bindings[i] IN
        (b.control \in was /\ dominantGripPushed(is) \in b.grip) # Active(b, is)}

\* Mutant: pressing or releasing the grip moves no held control to its other layer.
ChangedByControl(was, is) ==
    {i \in DOMAIN Bindings : LET b == Bindings[i] IN
        /\ (b.control \in was) # (b.control \in is)
        /\ Active(b, was) \/ Active(b, is)}

\* The bindings, by position, whose state changed: Joy_GenerateButtonEvents posts
\* a key-down for one that became active and a key-up for one that no longer is.
Changed(was, is) ==
    {i \in DOMAIN Bindings : Active(Bindings[i], was) # Active(Bindings[i], is)}

\* Where several bindings post events for one key, the engine is left with the
\* state the last one announced: down, if a key-down follows every key-up.
AfterEvents(was, is) ==
    LET changed == Changed(was, is)
        of(key) == {i \in changed : Bindings[i].key = key}
        keys == down \cup {Bindings[i].key : i \in changed}
    IN  {key \in keys : \A i \in of(key) :
            Active(Bindings[i], is) \/ \E j \in of(key) : i < j /\ Active(Bindings[j], is)}

\* Mutant: letting go is only noticed when the hands are close.
StabiliseWhenClose(is, close) ==
    LET grip == <<Off(cvars), "Grip">>
    IN  IF /\ menuactive = "MENU_Off" /\ cvars.vr_two_handed_weapons /\ close
           /\ (grip \in is) # (grip \in old)
        THEN weaponStabilised' = (grip \in is)
        ELSE UNCHANGED weaponStabilised

\* Only when no menu is open at all: taking hold of the weapon with the off hand
\* stabilises it if the hands are close enough, letting go ends that.
Stabilise(is, close) ==
    LET grip == <<Off(cvars), "Grip">>
    IN  IF /\ menuactive = "MENU_Off" /\ cvars.vr_two_handed_weapons
           /\ (grip \in is) # (grip \in old)
        THEN weaponStabilised' = (grip \in is /\ (close \/ weaponStabilised))
        ELSE UNCHANGED weaponStabilised

\* Where a controller's stick is, for turning.
StickAt(hand, is) ==
    IF \E i \in DOMAIN Sideways : <<hand, i>> \in is
    THEN Sideways[CHOOSE i \in DOMAIN Sideways : <<hand, i>> \in is]
    ELSE "centre"

\* Only when no menu is open at all, and the stick is not shifted.
TurnView(is) ==
    IF menuactive = "MENU_Off" /\ ~dominantGripPushed(is)
    THEN Turn(StickAt(Primary(cvars), is), cvars.vr_snapTurn)
    ELSE UNCHANGED turnVars

\* Mutant: the left controller's state is saved for both.
HandleInputSavesLeftTwice(is, close) ==
    /\ Stabilise(is, close)
    /\ TurnView(is)
    /\ down' = AfterEvents(old, is)
    /\ old' = {c \in Hands \X Inputs : <<"left", c[2]>> \in is}

\* HandleInput_Default: stabilise and turn, post the events, then save the state
\* for the next frame.
HandleInput_Default(is, close) ==
    /\ Stabilise(is, close)
    /\ TurnView(is)
    /\ down' = AfterEvents(old, is)
    /\ old' = is

\* A stick is at one place: not pushed both ways, nor to two degrees.
ReadingTable ==
    [p \in DOMAIN Plays |->
        {held \in SUBSET Plays[p].controls : \A hand \in Hands :
            /\ ~({<<hand, "StickUp">>, <<hand, "StickDown">>} \subseteq held)
            /\ \A i, j \in DOMAIN Sideways :
                 {<<hand, i>>, <<hand, j>>} \subseteq held => i = j}]
Readings == ReadingTable[play]

\* The sides, right and left, to which the primary stick does not lean.
SidesLeft(is) ==
    LET at == StickAt(Primary(cvars), is)
    IN  (IF at \in {"right", "leanRight"} THEN {} ELSE {"right"})
        \cup (IF at \in {"left", "leanLeft"} THEN {} ELSE {"left"})

\* VR_HandleControllerInput, once a frame: TBXR_UpdateControllers reads the new
\* state, which is handled if the control scheme is one of the three.
VR_HandleControllerInput(is, close) ==
    /\ new' = is
    /\ IF Handled THEN HandleInput_Default(is, close)
                  ELSE UNCHANGED <<old, down, weaponStabilised, turnVars>>
    /\ carried' = carried \cap down'
    /\ stale' = stale \cap is
    /\ strayed' = (strayed /\ weaponStabilised')
    /\ released' = (IF snapTurn' # snapTurn THEN {} ELSE released) \cup SidesLeft(is)
    /\ UNCHANGED <<play, cvars, menuactive>>

\* The engine opens or closes a menu, or the player sets a cvar in it.
Change(c, m) ==
    /\ <<c, m>> # <<cvars, menuactive>>
    /\ cvars' = c /\ menuactive' = m
    /\ carried' = carried \cup down
    /\ stale' = stale \cup old \cup new
    /\ strayed' = weaponStabilised
    /\ released' = IF c = cvars THEN released ELSE {"right", "left"}
    /\ UNCHANGED <<play, old, new, down, weaponStabilised, turnVars>>

Init ==
    /\ play \in DOMAIN Plays
    /\ old = {} /\ new = {} /\ down = {}
    /\ cvars \in Plays[play].settings
    /\ menuactive \in Plays[play].menus
    /\ weaponStabilised = FALSE
    /\ TurnInit
    /\ carried = {} /\ stale = {} /\ strayed = FALSE /\ released = {"right", "left"}

Next ==
    \/ \E is \in Readings, close \in BOOLEAN : VR_HandleControllerInput(is, close)
    \/ \E c \in Plays[play].settings, m \in Plays[play].menus : Change(c, m)

Spec == Init /\ [][Next]_vars

-----------------------------------------------------------------------------
(* Properties *)

TypeOK ==
    /\ play \in DOMAIN Plays
    /\ old \in SUBSET Plays[play].controls /\ new \in SUBSET Plays[play].controls
    /\ cvars \in Plays[play].settings /\ menuactive \in Plays[play].menus
    /\ snapTurn \in Int /\ increaseSnap \in BOOLEAN /\ decreaseSnap \in BOOLEAN
    /\ carried \subseteq down /\ stale \subseteq old \cup new
    /\ weaponStabilised \in BOOLEAN /\ strayed \in BOOLEAN
    /\ strayed => weaponStabilised
    /\ released \subseteq {"right", "left"}

\* Whatever the grip does meanwhile, no key is left pressed in the engine after
\* its control was let go: a key that is down is bound to a control that is held
\* and in the right layer. Only a key that was down when a menu opened or closed
\* or a cvar changed may outlive its control.
NoKeyLeftBehind ==
    \A key \in down \ carried :
        \E b \in BindingsOf(key) : Active(b, new)

\* No press goes unnoticed: a control that was not already held when the menu or
\* a cvar last changed has the key of its layer down. Keys that several controls
\* share are excepted: letting go of one releases the key under the other.
NoPressIsMissed ==
    Handled => \A i \in DOMAIN Bindings :
        LET b == Bindings[i]
        IN  (Active(b, new) /\ b.control \notin stale /\ BindingsOf(b.key) = {b})
                => b.key \in down

\* The weapon is stabilised only while the off hand holds on to it, unless a menu
\* or a cvar changed since it was taken hold of.
StabilisedWhileHeld ==
    weaponStabilised /\ ~strayed => <<Off(cvars), "Grip">> \in new

\* Turning round and round never takes the turn out of half a circle each way.
SnapInRange == snapTurn \in -180..180

\* A push of the stick turns the view once, however it wobbles and whatever the
\* grip and the menus do meanwhile: a turn by more than 10 degrees needs a stick
\* that has left that side since the last one.
TurnsOncePerPush ==
    [][snapTurn' # snapTurn /\ cvars.vr_snapTurn > 10 =>
        StickAt(Primary(cvars), new') \in released]_vars
=============================================================================
