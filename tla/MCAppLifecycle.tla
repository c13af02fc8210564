--------------------------- MODULE MCAppLifecycle ---------------------------
(* The launches of AppLifecycle that TLC looks at. *)
EXTENDS AppLifecycle

\* A launch with every permission granted before, and one with none, on a phone
\* with the settings page and on an older one.
AllLaunches ==
    {[sdkAtLeastR |-> r, granted |-> g] : r \in BOOLEAN, g \in {{}, Permissions}}
NewInstall == {[sdkAtLeastR |-> TRUE, granted |-> {}]}
OldInstall == {[sdkAtLeastR |-> FALSE, granted |-> {}]}
=============================================================================
