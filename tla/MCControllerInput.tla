--------------------------- MODULE MCControllerInput ---------------------------
(* Ways of playing for TLC to look at. Menus and cvars change freely while the  *)
(* player uses two to five controls; with both fixed, up to eight controls.      *)
EXTENDS ControllerInput

Set(scheme, secondary, switch, twoHanded, step) ==
    [vr_control_scheme |-> scheme, vr_secondary_button_mappings |-> secondary,
     vr_switch_sticks |-> switch, vr_two_handed_weapons |-> twoHanded,
     vr_snapTurn |-> step]

Play(controls, settings, menus, isMeta) ==
    [controls |-> controls, settings |-> settings, menus |-> menus, isMeta |-> isMeta]

\* The dominant grip, what it shifts, and the off grip; any menu.
Menus == Play({<<"right", "Grip">>, <<"left", "Grip">>, <<"right", "Button1">>},
              {Set("RIGHT_HANDED_DEFAULT", TRUE, FALSE, t, 45) : t \in BOOLEAN},
              {"MENU_Off", "MENU_On", "MENU_WaitKey"}, TRUE)

\* One control for each grip; any hand, with the sticks switched, and unshifted.
AllSchemes == Play({<<"right", "Grip">>, <<"left", "Grip">>, <<"left", "StickUp">>},
                   {Set(s, TRUE, FALSE, TRUE, 45) : s \in Schemes}
                   \cup {Set("RIGHT_HANDED_DEFAULT", m, TRUE, TRUE, 45) : m \in BOOLEAN},
                   {"MENU_Off"}, FALSE)

\* The controls of the left hand and what they share keys with, in the menu.
MenuKeys == Play({<<"left", i>> : i \in {"Grip", "Enter", "Button1", "Button2", "StickUp"}}
                 \cup {<<"right", i>> : i \in {"Button1", "StickUp", "StickDown"}},
                 {Set("LEFT_HANDED_ALT", TRUE, FALSE, TRUE, 45)}, {"MENU_OnNoPause"}, TRUE)

\* The controls of the dominant hand and some of the other, in the game.
GameKeys ==
    Play({<<"right", i>> : i \in {"Grip", "Enter", "Trigger", "Joystick", "ThumbRest"}}
         \cup {<<"left", i>> : i \in {"Grip", "Enter", "Button2"}},
         {Set("RIGHT_HANDED_DEFAULT", TRUE, TRUE, FALSE, 45)}, {"MENU_Off"}, TRUE)

\* The primary stick at the places it turns from, with the grip that shifts it, in
\* steps of a right angle and in small ones.
Turning ==
    Play({<<"left", i>> : i \in {"TurnRight", "LeanRight", "TurnLeft", "LeanLeft", "Grip"}},
         {Set("LEFT_HANDED_DEFAULT", TRUE, FALSE, FALSE, 90)}, {"MENU_Off", "MENU_On"}, TRUE)
SmoothTurning ==
    Play({<<"right", "StickRight">>, <<"right", "StickLeft">>},
         {Set("LEFT_HANDED_ALT", FALSE, TRUE, FALSE, 10)}, {"MENU_Off"}, TRUE)

MCPlays == [menus |-> Menus, allSchemes |-> AllSchemes, menuKeys |-> MenuKeys,
            gameKeys |-> GameKeys, turning |-> Turning, smooth |-> SmoothTurning]
=============================================================================
