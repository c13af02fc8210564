------------------------------ MODULE MCLaunch ------------------------------
(* Worlds for TLC to look at: two where the files are installed, with what was   *)
(* there before, mishaps and kills; one for command lines; one with every        *)
(* runtime there could be; and one for a player who walks and turns.             *)
EXTENDS Launch

Texts(chars, n) == UNION {[1..k -> chars] : k \in 0..n}
Arguments == Texts(Characters, 2)

\* Up to two words of two characters, one of four, three odd ones, too many words.
Odd == {<< >>, <<Space, Quote>>, <<Space, Backslash>>, <<Quote>>, <<Backslash, Quote, Space>>}
CommandLines == Texts(Arguments, 2) \cup Texts(Texts(Characters, 4), 1) \cup Texts(Odd, 3)
                \cup {[k \in 1..5 |-> <<"a">>]}

Runtime(name, extensions) == [name |-> name, extensions |-> extensions, rate |-> 90]
Bare == Runtime("something else", {})
Pico == Runtime("Pico", {"gles", "perf", "picoConfigs", "refreshRate"})

StandStill == [positions |-> {<<1, 0>>}, yaws |-> {1}, sticks |-> {"centre"},
               vr_snapTurn |-> 45]
Launched(found, written, styles, troubles, more, runtimes, player) ==
    [own |-> found, words |-> written, layouts |-> styles, mishaps |-> troubles,
     launches |-> more, devices |-> runtimes, positions |-> player.positions,
     yaws |-> player.yaws, sticks |-> player.sticks, vr_snapTurn |-> player.vr_snapTurn]

Plain == { << <<"a", "a">> >> }

FirstInstall == Launched({}, Plain, {"oneLine"}, 2, 2, {Bare}, StandStill)
Update == Launched(Files \ {"raze.sf2"}, Plain, {"oneLine"}, 2, 1, {Bare}, StandStill)
Typing == Launched(Files, CommandLines, {"oneLine", "lineForEach"}, 0, 0, {Bare}, StandStill)
AnyRuntime == Launched(Files, Plain, {"oneLine"}, 0, 1,
                       {Runtime(n, e) : n \in Names, e \in SUBSET Extensions}, StandStill)
Walking == Launched(Files, Plain, {"oneLine"}, 0, 0, {Pico},
                    [positions |-> {<<x, z>> : x \in -1..1, z \in 0..1}, yaws |-> {0, 1},
                     sticks |-> Positions, vr_snapTurn |-> 90])

MCWorlds == [firstInstall |-> FirstInstall, update |-> Update, typing |-> Typing,
             anyRuntime |-> AnyRuntime, walking |-> Walking]
MCEntries == <<"coregames.json", "sprites/arrow.jpg">>
MCRates == {120}
=============================================================================
