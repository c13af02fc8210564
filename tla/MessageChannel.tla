--------------------------- MODULE MessageChannel ---------------------------
(***************************************************************************)
(* What the surface message queue of RazeXR promises to its two threads:   *)
(* the messages of one poster are handled one at a time, in the order in   *)
(* which they were posted, none lost and none handled twice, and a post    *)
(* returns no earlier than its wait mode allows:                           *)
(*   NONE       as soon as the message is queued,                          *)
(*   RECEIVED   once the consumer has taken it out of the queue,           *)
(*   PROCESSED  once the consumer has finished handling it.                *)
(* SurfaceMessageQueue implements this; AppLifecycle relies on it.         *)
(***************************************************************************)
EXTENDS Naturals, Sequences

CONSTANTS
    Ids,        \* message identifiers (MESSAGE_ON_CREATE ... with their parameter)
    Waits,      \* the wait modes in use, a subset of {"NONE", "RECEIVED", "PROCESSED"}
    Capacity,   \* how many messages can be queued (MAX_MESSAGES)
    NoMessage

ASSUME CapacityAssumption == Capacity \in Nat \ {0}
ASSUME WaitsAssumption == Waits \subseteq {"NONE", "RECEIVED", "PROCESSED"}
ASSUME NoMessageAssumption == NoMessage \notin [id : Ids, wait : Waits]

VARIABLES
    inbox,      \* queued messages, oldest first
    current,    \* the message the consumer holds, or NoMessage
    call        \* the poster's call: idle, or how far its message has come

chanVars == <<inbox, current, call>>

Message == [id : Ids, wait : Waits]

Idle == [stage |-> "idle", wait |-> "NONE"]

ChanTypeOK ==
    /\ inbox \in Seq(Message) /\ Len(inbox) <= Capacity
    /\ current \in Message \cup {NoMessage}
    /\ call \in [stage : {"idle", "queued", "taken", "handled"},
                 wait : {"NONE", "RECEIVED", "PROCESSED"}]

ChanInit == inbox = <<>> /\ current = NoMessage /\ call = Idle

\* The poster's message m enters the queue; the call is now under way.
Post(m) ==
    /\ call = Idle
    /\ Len(inbox) < Capacity
    /\ inbox' = Append(inbox, m)
    /\ call' = [stage |-> "queued", wait |-> m.wait]
    /\ UNCHANGED current

\* Only the last message in the queue can be the one of the call under way.
Take ==
    /\ current = NoMessage /\ inbox # <<>>
    /\ current' = Head(inbox)
    /\ inbox' = Tail(inbox)
    /\ call' = IF call # Idle /\ Len(inbox) = 1
               THEN [call EXCEPT !.stage = "taken"] ELSE call

Finish ==
    /\ current # NoMessage
    /\ current' = NoMessage
    /\ call' = IF call.stage = "taken"
               THEN [call EXCEPT !.stage = "handled"] ELSE call
    /\ UNCHANGED inbox

MayReturn ==
    \/ call.wait = "NONE"
    \/ call.wait = "RECEIVED" /\ call.stage \in {"taken", "handled"}
    \/ call.wait = "PROCESSED" /\ call.stage = "handled"

Return ==
    /\ call # Idle
    /\ MayReturn
    /\ call' = Idle
    /\ UNCHANGED <<inbox, current>>

ChanNext == (\E m \in Message : Post(m)) \/ Take \/ Finish \/ Return

ChanSpec == ChanInit /\ [][ChanNext]_chanVars

\* Both threads keep running: the consumer polls and the poster returns.
ChanFairSpec ==
    ChanSpec /\ WF_chanVars(Take) /\ WF_chanVars(Finish) /\ WF_chanVars(Return)
=============================================================================
