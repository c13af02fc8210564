------------------------ MODULE SurfaceMessageQueue ------------------------
(***************************************************************************)
(* surfaceMessageQueue of TBXR_Common.cpp: the ring buffer, the mutex and  *)
(* the three condition variables by which the Android UI thread (the       *)
(* poster) hands messages to the app thread (the consumer).                *)
(*                                                                         *)
(* A step is one critical section or one unprotected access to the shared  *)
(* state: the consumer writes ReceivedFlag and ProcessedFlag, and          *)
(* broadcasts, without the mutex, and pthread_cond_wait is taken apart     *)
(* into the test, the atomic unlock-and-block, and the relock, because the *)
(* unprotected writes can fall between them.                               *)
(***************************************************************************)
EXTENDS Integers

CONSTANTS
    Ids,             \* message identifiers
    Waits,           \* the ovrMQWait modes the poster uses
    MAX_MESSAGES,    \* slots in the ring buffer
    WaitForMessages, \* the values the consumer passes for waitForMessages
    SpuriousWakeups, \* whether pthread_cond_wait may return unasked (POSIX allows it)
    NoMessage,
    MaxPosts         \* bound: how many messages are ever posted

ASSUME CapacityAssumption == MAX_MESSAGES \in Nat \ {0}
ASSUME WaitsAssumption == Waits \subseteq {"NONE", "RECEIVED", "PROCESSED"}
ASSUME NoMessageAssumption == NoMessage \notin [id : Ids, wait : Waits]
ASSUME BoundAssumption == MaxPosts \in Nat
ASSUME SwitchAssumption ==
    SpuriousWakeups \in BOOLEAN /\ WaitForMessages \subseteq BOOLEAN

VARIABLES
    head, tail, Messages,  \* Messages, and Head and Tail, which only grow
    Wait,                  \* the consumer's note that it owes an acknowledgement
    EnabledFlag,
    flag,                  \* PostedFlag, ReceivedFlag and ProcessedFlag
    Mutex,                 \* "free" or the thread holding it
    waiters,               \* threads blocked on each condition variable
    pcP, post,             \* the poster: where it is, the message it posts
    pcC, message,          \* the consumer: where it is, the message it holds
    waitForMessages        \* the consumer's argument

ring == <<head, tail, Messages>>
poster == <<pcP, post, EnabledFlag>>
consumer == <<pcC, message, waitForMessages, Wait>>
vars == <<ring, flag, Mutex, waiters, poster, consumer>>

Message == [id : Ids, wait : Waits]
Conditions == {"POSTED", "RECEIVED", "PROCESSED"}
Slot(n) == n % MAX_MESSAGES

\* The poster's call has put its message into the buffer and not yet returned.
InCall == pcP \in {"test", "wait", "blocked"}

TypeOK ==
    /\ head \in Nat /\ tail \in Nat
    /\ Messages \in [0 .. MAX_MESSAGES - 1 -> Message \cup {NoMessage}]
    /\ Wait \in {"NONE", "PROCESSED"}
    /\ EnabledFlag \in BOOLEAN
    /\ flag \in [Conditions -> BOOLEAN]
    /\ Mutex \in {"free", "poster"}
    /\ waiters \in [Conditions -> SUBSET {"poster", "consumer"}]
    /\ pcP \in {"idle", "full", "lock", "test", "wait", "blocked"}
    /\ post \in Message \cup {NoMessage}
    /\ (pcP = "idle") <=> (post = NoMessage)
    /\ (Mutex = "poster") <=> pcP \in {"test", "wait"}
    /\ pcC \in {"frame", "ack", "ackBroadcast", "sleep", "slept", "get",
                "received", "receivedBroadcast", "handle"}
    /\ message \in Message \cup {NoMessage}
    /\ (message # NoMessage) <=> pcC \in {"received", "receivedBroadcast", "handle"}
    /\ waitForMessages \in BOOLEAN

\* surfaceMessageQueue_Create, and the app thread about to start polling.
Init ==
    /\ head = 0 /\ tail = 0
    /\ Messages = [s \in 0 .. MAX_MESSAGES - 1 |-> NoMessage]
    /\ Wait = "NONE"
    /\ EnabledFlag = FALSE
    /\ flag = [c \in Conditions |-> FALSE]
    /\ Mutex = "free"
    /\ waiters = [c \in Conditions |-> {}]
    /\ pcP = "idle" /\ post = NoMessage
    /\ pcC = "frame" /\ message = NoMessage /\ waitForMessages = FALSE

Broadcast(c) == waiters' = [waiters EXCEPT ![c] = {}]

-----------------------------------------------------------------------------
(* The poster: surfaceMessageQueue_Enable and surfaceMessageQueue_PostMessage *)

Enable(set) ==
    /\ pcP = "idle"
    /\ EnabledFlag' = set
    /\ UNCHANGED <<ring, flag, Mutex, waiters, pcP, post, consumer>>

\* A post while EnabledFlag is false returns at once and changes nothing.
PostMessage(m) ==
    /\ pcP = "idle" /\ EnabledFlag
    /\ tail < MaxPosts
    /\ post' = m /\ pcP' = "full"
    /\ UNCHANGED <<ring, flag, Mutex, waiters, EnabledFlag, consumer>>

\* Mutant: the room test is off by one.
FoundRoomOffByOne ==
    /\ pcP = "full"
    /\ tail - head <= MAX_MESSAGES
    /\ pcP' = "lock"
    /\ UNCHANGED <<ring, flag, Mutex, waiters, post, EnabledFlag, consumer>>

\* The test for room is made before the mutex is taken; while it fails the
\* poster sleeps a millisecond and tests again.
FoundRoom ==
    /\ pcP = "full"
    /\ tail - head < MAX_MESSAGES
    /\ pcP' = "lock"
    /\ UNCHANGED <<ring, flag, Mutex, waiters, post, EnabledFlag, consumer>>

Enqueue ==
    /\ pcP = "lock" /\ Mutex = "free"
    /\ Messages' = [Messages EXCEPT ![Slot(tail)] = post]
    /\ tail' = tail + 1
    /\ flag' = [flag EXCEPT !["POSTED"] = TRUE]
    /\ Broadcast("POSTED")
    /\ Mutex' = "poster" /\ pcP' = "test"
    /\ UNCHANGED <<head, post, EnabledFlag, consumer>>

\* Mutants: the mutex is not given back; the flag is not cleared.
ReturnStillLocked ==
    /\ pcP = "test"
    /\ post.wait # "NONE" => flag[post.wait]
    /\ pcP' = "idle" /\ post' = NoMessage
    /\ UNCHANGED <<ring, flag, Mutex, waiters, EnabledFlag, consumer>>

ReturnFlagLeftUp ==
    /\ pcP = "test"
    /\ post.wait # "NONE" => flag[post.wait]
    /\ Mutex' = "free" /\ pcP' = "idle" /\ post' = NoMessage
    /\ UNCHANGED <<ring, flag, waiters, EnabledFlag, consumer>>

\* No wait is asked for, or the flag waited for is up: clear it, unlock, return.
ReturnFromPost ==
    /\ pcP = "test"
    /\ \/ post.wait = "NONE" /\ UNCHANGED flag
       \/ /\ post.wait # "NONE" /\ flag[post.wait]
          /\ flag' = [flag EXCEPT ![post.wait] = FALSE]
    /\ Mutex' = "free" /\ pcP' = "idle" /\ post' = NoMessage
    /\ UNCHANGED <<ring, waiters, EnabledFlag, consumer>>

\* Mutant: the mutex is given up before, not while, the poster blocks.
UnlockBeforeBlocking ==
    /\ pcP = "test"
    /\ post.wait # "NONE" /\ ~flag[post.wait]
    /\ pcP' = "wait" /\ Mutex' = "free"
    /\ UNCHANGED <<ring, flag, waiters, post, EnabledFlag, consumer>>

FlagStillDown ==
    /\ pcP = "test"
    /\ post.wait # "NONE" /\ ~flag[post.wait]
    /\ pcP' = "wait"
    /\ UNCHANGED <<ring, flag, Mutex, waiters, post, EnabledFlag, consumer>>

\* pthread_cond_wait gives the mutex up and blocks in one step ...
BlockPoster ==
    /\ pcP = "wait"
    /\ Mutex' = "free" /\ pcP' = "blocked"
    /\ waiters' = [waiters EXCEPT ![post.wait] = @ \cup {"poster"}]
    /\ UNCHANGED <<ring, flag, post, EnabledFlag, consumer>>

\* ... and takes it again before it returns to the test of the flag.
RelockPoster ==
    /\ pcP = "blocked" /\ Mutex = "free"
    /\ "poster" \notin waiters[post.wait]
    /\ Mutex' = "poster" /\ pcP' = "test"
    /\ UNCHANGED <<ring, flag, waiters, post, EnabledFlag, consumer>>

-----------------------------------------------------------------------------
(* The consumer: TBXR_ProcessMessageQueue, surfaceMessageQueue_GetNextMessage *)
(* and ovrMessageQueue_SleepUntilMessage                                      *)

\* TBXR_ProcessMessageQueue starts its loop of GetNextMessage calls.
StartPump ==
    /\ pcC = "frame"
    /\ waitForMessages' \in WaitForMessages
    /\ pcC' = "ack"
    /\ UNCHANGED <<ring, flag, Mutex, waiters, poster, message, Wait>>

AfterAck == IF waitForMessages THEN "sleep" ELSE "get"

\* The previous message was a PROCESSED one: raise the flag, without the mutex.
Acknowledge ==
    /\ pcC = "ack" /\ Wait = "PROCESSED"
    /\ flag' = [flag EXCEPT !["PROCESSED"] = TRUE]
    /\ pcC' = "ackBroadcast"
    /\ UNCHANGED <<ring, Mutex, waiters, poster, message, waitForMessages, Wait>>

NothingToAcknowledge ==
    /\ pcC = "ack" /\ Wait # "PROCESSED"
    /\ pcC' = AfterAck
    /\ UNCHANGED <<ring, flag, Mutex, waiters, poster, message, waitForMessages, Wait>>

\* Mutant: the flag is raised but nobody is woken.
ForgetBroadcast ==
    /\ pcC = "ackBroadcast"
    /\ Wait' = "NONE"
    /\ pcC' = AfterAck
    /\ UNCHANGED <<ring, flag, Mutex, waiters, poster, message, waitForMessages>>

BroadcastProcessed ==
    /\ pcC = "ackBroadcast"
    /\ Broadcast("PROCESSED")
    /\ Wait' = "NONE"
    /\ pcC' = AfterAck
    /\ UNCHANGED <<ring, flag, Mutex, poster, message, waitForMessages>>

\* SleepUntilMessage returns when the buffer is not empty or PostedFlag is up,
\* else blocks. Its own acknowledgement is dead code: GetNextMessage has just
\* left Wait at NONE. PostedFlag changes under the mutex only, so the test and
\* the block are one step.
SleepUntilMessage ==
    /\ \/ pcC = "sleep"
       \/ pcC = "slept" /\ "consumer" \notin waiters["POSTED"]
    /\ Mutex = "free"
    /\ \/ /\ pcC = "sleep" /\ tail > head
          /\ pcC' = "get" /\ UNCHANGED <<flag, waiters>>
       \/ /\ pcC = "slept" \/ tail <= head
          /\ flag["POSTED"]
          /\ flag' = [flag EXCEPT !["POSTED"] = FALSE]
          /\ pcC' = "get" /\ UNCHANGED waiters
       \/ /\ pcC = "slept" \/ tail <= head
          /\ ~flag["POSTED"]
          /\ waiters' = [waiters EXCEPT !["POSTED"] = @ \cup {"consumer"}]
          /\ pcC' = "slept" /\ UNCHANGED flag
    /\ UNCHANGED <<ring, Mutex, poster, message, waitForMessages, Wait>>

\* The buffer is empty: GetNextMessage returns false and the loop ends.
QueueEmpty ==
    /\ pcC = "get" /\ Mutex = "free"
    /\ tail <= head
    /\ pcC' = "frame"
    /\ UNCHANGED <<ring, flag, Mutex, waiters, poster, message, waitForMessages, Wait>>

\* Mutants: the flag goes up when the message is taken, not when it has been
\* handled; the newest message is taken first.
DequeueAcksEarly ==
    /\ pcC = "get" /\ Mutex = "free"
    /\ tail > head
    /\ message' = Messages[Slot(head)]
    /\ head' = head + 1
    /\ IF message'.wait = "RECEIVED"
       THEN pcC' = "received" /\ UNCHANGED <<Wait, flag, waiters>>
       ELSE /\ pcC' = "handle" /\ UNCHANGED Wait
            /\ flag' = [flag EXCEPT !["PROCESSED"] = message'.wait = "PROCESSED"]
            /\ Broadcast("PROCESSED")
    /\ UNCHANGED <<tail, Messages, Mutex, poster, waitForMessages>>

DequeueNewest ==
    /\ pcC = "get" /\ Mutex = "free"
    /\ tail > head
    /\ message' = Messages[Slot(tail - 1)]
    /\ head' = head + 1
    /\ IF message'.wait = "RECEIVED"
       THEN pcC' = "received" /\ UNCHANGED Wait
       ELSE /\ pcC' = "handle"
            /\ Wait' = IF message'.wait = "PROCESSED" THEN "PROCESSED" ELSE Wait
    /\ UNCHANGED <<tail, Messages, flag, Mutex, waiters, poster, waitForMessages>>

Dequeue ==
    /\ pcC = "get" /\ Mutex = "free"
    /\ tail > head
    /\ message' = Messages[Slot(head)]
    /\ head' = head + 1
    /\ IF message'.wait = "RECEIVED"
       THEN pcC' = "received" /\ UNCHANGED Wait
       ELSE /\ pcC' = "handle"
            /\ Wait' = IF message'.wait = "PROCESSED" THEN "PROCESSED" ELSE Wait
    /\ UNCHANGED <<tail, Messages, flag, Mutex, waiters, poster, waitForMessages>>

RaiseReceived ==
    /\ pcC = "received"
    /\ flag' = [flag EXCEPT !["RECEIVED"] = TRUE]
    /\ pcC' = "receivedBroadcast"
    /\ UNCHANGED <<ring, Mutex, waiters, poster, message, waitForMessages, Wait>>

BroadcastReceived ==
    /\ pcC = "receivedBroadcast"
    /\ Broadcast("RECEIVED")
    /\ pcC' = "handle"
    /\ UNCHANGED <<ring, flag, Mutex, poster, message, waitForMessages, Wait>>

\* Mutant: a message is acknowledged only when the next pump starts.
HandleAcksNextTime ==
    /\ pcC = "handle"
    /\ message' = NoMessage
    /\ waitForMessages' \in WaitForMessages
    /\ pcC' = "get"
    /\ UNCHANGED <<ring, flag, Mutex, waiters, poster, Wait>>

\* The switch over message.Id is over; the loop asks for the next message.
Handle ==
    /\ pcC = "handle"
    /\ message' = NoMessage
    /\ waitForMessages' \in WaitForMessages
    /\ pcC' = "ack"
    /\ UNCHANGED <<ring, flag, Mutex, waiters, poster, Wait>>

-----------------------------------------------------------------------------
(* pthread_cond_wait returns although nobody signalled the condition. *)
WakeSpuriously(t, c) ==
    /\ SpuriousWakeups
    /\ t \in waiters[c]
    /\ waiters' = [waiters EXCEPT ![c] = @ \ {t}]
    /\ UNCHANGED <<ring, flag, Mutex, poster, consumer>>

PosterStep == FoundRoom \/ Enqueue \/ ReturnFromPost \/ FlagStillDown
              \/ BlockPoster \/ RelockPoster

ConsumerStep == StartPump \/ Acknowledge \/ NothingToAcknowledge
                \/ BroadcastProcessed \/ SleepUntilMessage \/ QueueEmpty
                \/ Dequeue \/ RaiseReceived \/ BroadcastReceived \/ Handle

Next ==
    \/ \E set \in BOOLEAN : Enable(set)
    \/ \E m \in Message : PostMessage(m)
    \/ PosterStep
    \/ ConsumerStep
    \/ \E t \in {"poster", "consumer"}, c \in Conditions : WakeSpuriously(t, c)

Spec == Init /\ [][Next]_vars

\* A thread that can take its next step takes it: neither is ever suspended for
\* good, and the app thread pumps the queue in every frame and while it waits
\* for the session. That the UI thread posts again is not assumed.
FairSpec == Spec /\ WF_vars(PosterStep) /\ WF_vars(ConsumerStep)

-----------------------------------------------------------------------------
(* What the queue owes its callers *)

\* The flag a poster waits for belongs to the call under way: ReceivedFlag and
\* ProcessedFlag are up only while the poster is inside PostMessage with that
\* wait mode, its message has left the buffer and, for ProcessedFlag, has been
\* handled. A flag left over from an earlier call would let the next one return
\* before its message is even looked at: onSurfaceDestroyed (RazeXR_OpenXR.cpp:687)
\* would then release a window the app thread still uses.
FlagsBelongToTheCall ==
    \A c \in {"RECEIVED", "PROCESSED"} :
        flag[c] => /\ InCall /\ post.wait = c
                   /\ head = tail
                   /\ c = "PROCESSED" => message = NoMessage

\* A message with a wait mode is the last one in the buffer and its poster is
\* still inside the call: nobody is owed an acknowledgement it does not wait for.
EveryWaiterIsWaiting ==
    \A n \in head .. tail - 1 :
        Messages[Slot(n)].wait # "NONE" =>
            n = tail - 1 /\ InCall /\ post = Messages[Slot(n)]

\* Once the pump has emptied the queue (TBXR_ProcessMessageQueue has returned)
\* the consumer owes nobody an acknowledgement: every PROCESSED poster is free
\* to run during the frame that follows.
NothingOwedBetweenPumps == pcC = "frame" => Wait = "NONE" /\ message = NoMessage

\* The room test is made before the mutex is taken; with one poster it still
\* holds when the message is stored, so a slot is never overwritten.
NeverOverwrites ==
    /\ 0 <= tail - head /\ tail - head <= MAX_MESSAGES
    /\ pcP = "lock" => tail - head < MAX_MESSAGES

\* What ties the consumer's progress to the poster's call while a message with
\* a wait mode is on its way; with the properties above it is inductive.
OwedOnlyToTheCall ==
    /\ \A n \in head .. tail - 1 : Messages[Slot(n)] \in Message
    /\ pcC \in {"received", "receivedBroadcast"} => message.wait = "RECEIVED"
    /\ pcC = "received" =>
           InCall /\ post = message /\ head = tail /\ ~flag["RECEIVED"]
    /\ pcC = "handle" =>
           (message.wait = "PROCESSED" <=> Wait = "PROCESSED")
    /\ pcC = "handle" /\ Wait = "PROCESSED" => post = message
    /\ pcC = "ackBroadcast" => Wait = "PROCESSED"
    /\ Wait = "PROCESSED" /\ pcC # "ackBroadcast" =>
           /\ pcC \in {"handle", "ack"}
           /\ InCall /\ post.wait = "PROCESSED"
           /\ head = tail /\ ~flag["PROCESSED"]

\* The inductive invariant behind the safety properties of the queue.
IInv ==
    /\ TypeOK
    /\ FlagsBelongToTheCall
    /\ EveryWaiterIsWaiting
    /\ NothingOwedBetweenPumps
    /\ NeverOverwrites
    /\ OwedOnlyToTheCall

\* A blocked poster whose flag is already up will still be woken: the broadcast
\* is yet to come. It is this that a spurious wakeup breaks.
NoLostWakeup ==
    pcP \in {"wait", "blocked"} /\ flag[post.wait] =>
        \/ pcP = "blocked" /\ "poster" \notin waiters[post.wait]
        \/ pcP = "blocked" /\ pcC = "ackBroadcast" /\ post.wait = "PROCESSED"
        \/ pcP = "blocked" /\ pcC = "receivedBroadcast" /\ post.wait = "RECEIVED"

\* Why no wakeup is lost when pthread_cond_wait never returns unasked: while the
\* poster holds the mutex with its flag down its message is still in the buffer,
\* so the consumer raises the flag, and broadcasts, only once the poster blocks.
WakeupInv ==
    /\ pcP \in {"test", "wait"} /\ post.wait # "NONE" /\ ~flag[post.wait] => head < tail
    /\ pcP \in {"wait", "blocked"} => post.wait # "NONE"
    /\ pcP = "wait" => ~flag[post.wait]
    /\ pcP = "blocked" /\ "poster" \notin waiters[post.wait] => flag[post.wait]
    /\ pcC = "ackBroadcast" =>
           /\ pcP = "blocked" /\ post.wait = "PROCESSED" /\ flag["PROCESSED"]
           /\ "poster" \in waiters["PROCESSED"]
    /\ pcC = "receivedBroadcast" =>
           /\ pcP = "blocked" /\ post.wait = "RECEIVED" /\ flag["RECEIVED"]
           /\ "poster" \in waiters["RECEIVED"]
    /\ NoLostWakeup

\* A PROCESSED post returns only when the queue is empty and the consumer holds
\* no message, a RECEIVED one only when its message has left the queue.
ReturnsOnlyWhenDone ==
    [][pcP = "test" /\ pcP' = "idle" =>
         /\ post.wait # "NONE" => head = tail
         /\ post.wait = "PROCESSED" => message = NoMessage]_vars

\* Every post eventually returns.
PostReturns == pcP = "full" ~> pcP = "idle"

-----------------------------------------------------------------------------
(* The queue implements MessageChannel. *)

\* The messages a ring f holds between positions h and t, oldest first.
Window(f, h, t) == [k \in 1 .. t - h |-> f[Slot(h + k - 1)]]

\* While the poster is inside the call its message is the last one posted, so
\* how far it has come can be read off the ring and the consumer.
CallState ==
    IF ~InCall
    THEN [stage |-> "idle", wait |-> "NONE"]
    ELSE [stage |-> IF head < tail THEN "queued"
                    ELSE IF message # NoMessage THEN "taken" ELSE "handled",
          wait |-> post.wait]

Chan == INSTANCE MessageChannel WITH
    Capacity <- MAX_MESSAGES,
    inbox <- Window(Messages, head, tail),
    current <- message,
    call <- CallState

\* Every behaviour of the queue is one of the channel: the mutex, the flags and
\* the condition variables of TBXR_Common.cpp amount to a synchronous call.
ImplementsChannel == Chan!ChanSpec

\* With both threads running, messages are also taken and finished and posts
\* return whenever the channel says they can.
ImplementsFairChannel == Chan!ChanFairSpec
=============================================================================
