--------------------- MODULE SurfaceMessageQueue_proofs ---------------------
(***************************************************************************)
(* Proofs about the surface message queue, for every ring size, mix of     *)
(* wait modes and number of posts. IInv, the inductive invariant of        *)
(* SurfaceMessageQueue, is shown to hold initially and to be kept by every *)
(* step; the properties follow from it. WakeupInv adds what is needed for  *)
(* the absence of lost wakeups.                                            *)
(***************************************************************************)
EXTENDS SurfaceMessageQueue, TLAPS

\* Masking a position of the queue gives a slot of the ring.
LEMMA SlotType ==
    ASSUME NEW n \in Nat
    PROVE  Slot(n) \in 0 .. MAX_MESSAGES - 1
  BY CapacityAssumption, SMT DEF Slot

\* A positive multiple of N is at least N.
LEMMA NoMultipleBelow ==
    ASSUME NEW N \in Nat, NEW d \in Int, 0 < N * d
    PROVE  N <= N * d
  <1>1. CASE d <= 0
    BY <1>1, SMT
  <1>2. CASE d >= 1
    <2>1. PICK e \in Nat : d = e + 1
      BY <1>2, SMT
    <2>2. N * d = (N * e) + N /\ N * e >= 0
      BY <2>1, SMT
    <2> QED
      BY <2>2, SMT
  <1> QED
    BY <1>1, <1>2, SMT

\* Positions less than a ring apart (two pending messages) lie in different slots.
LEMMA SlotsDiffer ==
    ASSUME NEW n \in Nat, NEW m \in Nat, n < m, m - n < MAX_MESSAGES
    PROVE  Slot(n) # Slot(m)
  <1> DEFINE N == MAX_MESSAGES
  <1>1. N \in Nat /\ N > 0
    BY CapacityAssumption, SMT
  <1>2. n = (N * (n \div N)) + (n % N) /\ n \div N \in Int
    BY <1>1, SMT
  <1>3. m = (N * (m \div N)) + (m % N) /\ m \div N \in Int
    BY <1>1, SMT
  <1>4. SUFFICES ASSUME n % N = m % N PROVE FALSE
    BY DEF Slot
  <1>5. m - n = N * ((m \div N) - (n \div N))
    BY <1>1, <1>2, <1>3, <1>4, SMT
  <1>6. N <= N * ((m \div N) - (n \div N))
    <2>1. (m \div N) - (n \div N) \in Int
      BY <1>2, <1>3, SMT
    <2>2. 0 < N * ((m \div N) - (n \div N))
      BY <1>5, SMT
    <2> HIDE DEF N
    <2> QED
      BY <1>1, <2>1, <2>2, NoMultipleBelow
  <1>7. N <= m - n
    BY <1>5, <1>6
  <1> QED
    BY <1>1, <1>7, SMT

\* Assigning one element of a function keeps the function's type.
LEMMA ExceptType ==
    ASSUME NEW S, NEW T, NEW f \in [S -> T], NEW x, NEW y, x \in S => y \in T
    PROVE  [f EXCEPT ![x] = y] \in [S -> T]
  OBVIOUS

-----------------------------------------------------------------------------
\* surfaceMessageQueue_Create leaves the queue in a state of the inductive invariant.
THEOREM InitEstablishes == Init => IInv
  <1> SUFFICES ASSUME Init PROVE IInv
    OBVIOUS
  <1> USE CapacityAssumption DEF Init
  <1>1. TypeOK
    <2>1. /\ Messages \in [0 .. MAX_MESSAGES - 1 -> Message \cup {NoMessage}]
          /\ flag \in [Conditions -> BOOLEAN]
          /\ waiters \in [Conditions -> SUBSET {"poster", "consumer"}]
      OBVIOUS
    <2>2. /\ head \in Nat /\ tail \in Nat /\ Wait \in {"NONE", "PROCESSED"}
          /\ EnabledFlag \in BOOLEAN /\ waitForMessages \in BOOLEAN
          /\ Mutex = "free" /\ pcP = "idle" /\ post = NoMessage
          /\ pcC = "frame" /\ message = NoMessage
      OBVIOUS
    <2> QED
      BY <2>1, <2>2 DEF TypeOK
  <1>2. FlagsBelongToTheCall
    BY SMT DEF FlagsBelongToTheCall, Conditions
  <1>3. EveryWaiterIsWaiting /\ NothingOwedBetweenPumps /\ NeverOverwrites
    BY SMT DEF EveryWaiterIsWaiting, NothingOwedBetweenPumps, NeverOverwrites
  <1>4. OwedOnlyToTheCall
    BY SMT DEF OwedOnlyToTheCall
  <1> QED
    BY <1>1, <1>2, <1>3, <1>4 DEF IInv

\* No step of the UI thread or of the app thread stores a value of another type.
LEMMA StepPreservesTypeOK ==
    TypeOK /\ OwedOnlyToTheCall /\ [Next]_vars => TypeOK'
  <1> SUFFICES ASSUME TypeOK, OwedOnlyToTheCall, [Next]_vars PROVE TypeOK'
    OBVIOUS
  <1> USE CapacityAssumption, SwitchAssumption, NoMessageAssumption, WaitsAssumption
      DEF TypeOK, ring, poster, consumer, Conditions, Broadcast
  <1>1. ASSUME NEW set \in BOOLEAN, Enable(set) PROVE TypeOK'
    BY <1>1, SMT DEF Enable
  <1>2. ASSUME NEW m \in Message, PostMessage(m) PROVE TypeOK'
    BY <1>2, SMT DEF PostMessage, Message
  <1>3. CASE FoundRoom
    BY <1>3, SMT DEF FoundRoom
  <1>4. CASE Enqueue
    BY <1>4, SlotType, SMT DEF Enqueue
  <1>5. CASE ReturnFromPost
    <2>1. flag' \in [Conditions -> BOOLEAN]
      <3>1. CASE UNCHANGED flag
        BY <3>1
      <3>2. CASE flag' = [flag EXCEPT ![post.wait] = FALSE]
        BY <3>2, ExceptType
      <3> QED
        BY <1>5, <3>1, <3>2 DEF ReturnFromPost
    <2> QED
      BY <1>5, <2>1, SMT DEF ReturnFromPost
  <1>6. CASE FlagStillDown
    BY <1>6, SMT DEF FlagStillDown
  <1>7. CASE BlockPoster
    <2>1. waiters' \in [Conditions -> SUBSET {"poster", "consumer"}]
      <3>1. waiters' = [waiters EXCEPT ![post.wait] = waiters[post.wait] \cup {"poster"}]
        BY <1>7 DEF BlockPoster
      <3>2. post.wait \in Conditions =>
                waiters[post.wait] \cup {"poster"} \in SUBSET {"poster", "consumer"}
        OBVIOUS
      <3> QED
        BY <3>1, <3>2, ExceptType
    <2> QED
      BY <1>7, <2>1, SMT DEF BlockPoster
  <1>8. CASE RelockPoster
    BY <1>8, SMT DEF RelockPoster
  <1>9. CASE StartPump
    BY <1>9, SMT DEF StartPump
  <1>10. CASE Acknowledge
    BY <1>10, SMT DEF Acknowledge
  <1>11. CASE NothingToAcknowledge
    BY <1>11, SMT DEF NothingToAcknowledge, AfterAck
  <1>12. CASE BroadcastProcessed
    BY <1>12, SMT DEF BroadcastProcessed, AfterAck
  <1>13. CASE SleepUntilMessage
    <2>1. flag' \in [Conditions -> BOOLEAN]
      <3>1. CASE UNCHANGED flag
        BY <3>1
      <3>2. CASE flag' = [flag EXCEPT !["POSTED"] = FALSE]
        BY <3>2, ExceptType
      <3> QED
        BY <1>13, <3>1, <3>2 DEF SleepUntilMessage
    <2>2. waiters' \in [Conditions -> SUBSET {"poster", "consumer"}]
      BY <1>13, SMT DEF SleepUntilMessage
    <2>3. pcC' \in {"slept", "get"} /\ pcC \in {"sleep", "slept"}
      BY <1>13, SMT DEF SleepUntilMessage
    <2> QED
      BY <1>13, <2>1, <2>2, <2>3, SMT DEF SleepUntilMessage
  <1>14. CASE QueueEmpty
    BY <1>14, SMT DEF QueueEmpty
  <1>15. CASE Dequeue
    <2>1. Messages[Slot(head)] \in Message
      BY <1>15, SMT DEF Dequeue, OwedOnlyToTheCall
    <2>2. message' \in Message /\ message' # NoMessage
      BY <1>15, <2>1, SMT DEF Dequeue, Message
    <2> QED
      BY <1>15, <2>2, SMT DEF Dequeue
  <1>16. CASE RaiseReceived
    BY <1>16, SMT DEF RaiseReceived
  <1>17. CASE BroadcastReceived
    BY <1>17, SMT DEF BroadcastReceived
  <1>18. CASE Handle
    BY <1>18, SMT DEF Handle
  <1>19. ASSUME NEW t \in {"poster", "consumer"}, NEW c \in Conditions,
                WakeSpuriously(t, c)
         PROVE  TypeOK'
    BY <1>19, SMT DEF WakeSpuriously
  <1>20. CASE UNCHANGED vars
    BY <1>20, SMT DEF vars
  <1> QED
    BY <1>1, <1>2, <1>3, <1>4, <1>5, <1>6, <1>7, <1>8, <1>9, <1>10, <1>11, <1>12,
       <1>13, <1>14, <1>15, <1>16, <1>17, <1>18, <1>19, <1>20
    DEF Next, PosterStep, ConsumerStep

\* Every step of the two threads keeps the rest of the inductive invariant: whose
\* acknowledgement flag is up, who waits, what is owed, and which slots are in use.
LEMMA StepPreservesTheRest ==
    IInv /\ TypeOK' /\ [Next]_vars =>
        /\ FlagsBelongToTheCall' /\ EveryWaiterIsWaiting' /\ NothingOwedBetweenPumps'
        /\ NeverOverwrites' /\ OwedOnlyToTheCall'
  <1> DEFINE Goal == /\ FlagsBelongToTheCall' /\ EveryWaiterIsWaiting'
                     /\ NothingOwedBetweenPumps' /\ NeverOverwrites'
                     /\ OwedOnlyToTheCall'
  <1> SUFFICES ASSUME IInv, TypeOK', [Next]_vars PROVE Goal
    OBVIOUS
  <1> USE CapacityAssumption, WaitsAssumption, NoMessageAssumption
      DEF IInv, TypeOK, FlagsBelongToTheCall, EveryWaiterIsWaiting,
          NothingOwedBetweenPumps, NeverOverwrites, OwedOnlyToTheCall, InCall,
          ring, poster, consumer, Conditions
  <1>1. ASSUME NEW set \in BOOLEAN, Enable(set) PROVE Goal
    BY <1>1, SMT DEF Enable
  <1>2. ASSUME NEW m \in Message, PostMessage(m) PROVE Goal
    BY <1>2, SMT DEF PostMessage
  <1>3. CASE FoundRoom
    BY <1>3, SMT DEF FoundRoom
  <1>4. CASE Enqueue
    <2> USE DEF Enqueue
    <2>1. /\ ~InCall /\ InCall' /\ post' = post /\ post \in Message
          /\ tail' = tail + 1 /\ head' = head /\ tail - head < MAX_MESSAGES
          /\ message' = message /\ Wait' = Wait /\ pcC' = pcC /\ pcP' = "test"
      BY <1>4, SMT
    <2>2. \A n \in head .. tail - 1 :
              /\ Messages[Slot(n)] \in Message
              /\ Messages[Slot(n)].wait = "NONE"
              /\ Messages'[Slot(n)] = Messages[Slot(n)]
      <3> SUFFICES ASSUME NEW n \in head .. tail - 1
                   PROVE  /\ Messages[Slot(n)] \in Message
                          /\ Messages[Slot(n)].wait = "NONE"
                          /\ Messages'[Slot(n)] = Messages[Slot(n)]
        OBVIOUS
      <3>1. n \in Nat /\ n < tail /\ tail - n < MAX_MESSAGES
        BY <2>1, SMT
      <3>2. Slot(n) # Slot(tail) /\ Slot(n) \in 0 .. MAX_MESSAGES - 1
        BY <3>1, SlotsDiffer, SlotType
      <3>3. Messages'[Slot(n)] = Messages[Slot(n)]
        BY <1>4, <3>2
      <3> QED
        BY <2>1, <3>3
    <2>3. Messages'[Slot(tail)] = post
      BY <1>4, SlotType
    <2>4. \A n \in head' .. tail' - 1 : n = tail \/ n \in head .. tail - 1
      BY <2>1, SMT
    <2>5. flag' = [flag EXCEPT !["POSTED"] = TRUE]
      BY <1>4
    <2>6. EveryWaiterIsWaiting'
      BY <2>1, <2>2, <2>3, <2>4, SMT
    <2>7. OwedOnlyToTheCall'
      BY <2>1, <2>2, <2>3, <2>4, <2>5, SMT
    <2>8. FlagsBelongToTheCall'
      BY <2>1, <2>5, SMT
    <2>9. NothingOwedBetweenPumps' /\ NeverOverwrites'
      BY <2>1, SMT
    <2> QED
      BY <2>6, <2>7, <2>8, <2>9
  <1>5. CASE ReturnFromPost
    <2> USE DEF ReturnFromPost
    <2>1. \A c \in {"RECEIVED", "PROCESSED"} : ~flag'[c]
      BY <1>5, SMT
    <2>2. FlagsBelongToTheCall'
      BY <2>1
    <2>3. EveryWaiterIsWaiting'
      <3>1. post.wait \in {"RECEIVED", "PROCESSED"} => head = tail
        BY <1>5
      <3>2. post.wait \in {"NONE", "RECEIVED", "PROCESSED"}
        BY <1>5 DEF Message
      <3>3. \A n \in head .. tail - 1 : Messages[Slot(n)].wait = "NONE"
        BY <3>1, <3>2, SMT
      <3>4. head' = head /\ tail' = tail /\ Messages' = Messages
        BY <1>5
      <3> QED
        BY <3>3, <3>4
    <2>4. OwedOnlyToTheCall'
      BY <1>5, SMT
    <2>5. NothingOwedBetweenPumps' /\ NeverOverwrites'
      BY <1>5, SMT
    <2> QED
      BY <2>2, <2>3, <2>4, <2>5
  <1>6. CASE FlagStillDown
    BY <1>6, SMT DEF FlagStillDown
  <1>7. CASE BlockPoster
    BY <1>7, SMT DEF BlockPoster
  <1>8. CASE RelockPoster
    BY <1>8, SMT DEF RelockPoster
  <1>9. CASE StartPump
    BY <1>9, SMT DEF StartPump
  <1>10. CASE Acknowledge
    BY <1>10, SMT DEF Acknowledge
  <1>11. CASE NothingToAcknowledge
    BY <1>11, SMT DEF NothingToAcknowledge, AfterAck
  <1>12. CASE BroadcastProcessed
    BY <1>12, SMT DEF BroadcastProcessed, AfterAck
  <1>13. CASE SleepUntilMessage
    BY <1>13, SMT DEF SleepUntilMessage
  <1>14. CASE QueueEmpty
    BY <1>14, SMT DEF QueueEmpty
  <1>15. CASE Dequeue
    BY <1>15, SMT DEF Dequeue
  <1>16. CASE RaiseReceived
    BY <1>16, SMT DEF RaiseReceived
  <1>17. CASE BroadcastReceived
    BY <1>17, SMT DEF BroadcastReceived
  <1>18. CASE Handle
    BY <1>18, SMT DEF Handle
  <1>19. ASSUME NEW t \in {"poster", "consumer"}, NEW c \in Conditions,
                WakeSpuriously(t, c)
         PROVE  Goal
    BY <1>19, SMT DEF WakeSpuriously
  <1>20. CASE UNCHANGED vars
    BY <1>20, SMT DEF vars
  <1> QED
    BY <1>1, <1>2, <1>3, <1>4, <1>5, <1>6, <1>7, <1>8, <1>9, <1>10, <1>11, <1>12, <1>13, <1>14, <1>15, <1>16, <1>17, <1>18, <1>19, <1>20
    DEF Next, PosterStep, ConsumerStep

-----------------------------------------------------------------------------
\* The inductive invariant holds in every state the two threads can reach.
THEOREM Inductive == Spec => []IInv
  <1>1. IInv /\ [Next]_vars => IInv'
    BY StepPreservesTypeOK, StepPreservesTheRest DEF IInv
  <1> QED
    BY InitEstablishes, <1>1, PTL DEF Spec

\* Every variable of the queue and of its two threads keeps its type.
THEOREM TypeCorrect == Spec => []TypeOK
  BY Inductive, PTL DEF IInv

\* For every buffer size, mix of wait modes and number of posts, and even with
\* spurious wakeups, an acknowledgement flag that is up belongs to the call
\* under way: no call of PostMessage ever finds the flag of an earlier one.
THEOREM FlagsAreNeverStale == Spec => []FlagsBelongToTheCall
  BY Inductive, PTL DEF IInv

\* No slot of the ring buffer is overwritten before it was read, although the
\* room test is made outside the mutex.
THEOREM RingIsSafe == Spec => []NeverOverwrites
  BY Inductive, PTL DEF IInv

\* The consumer never owes an acknowledgement between two pumps: the poster of the
\* last message does not wait for the next frame.
THEOREM AcknowledgesAll == Spec => []NothingOwedBetweenPumps
  BY Inductive, PTL DEF IInv

\* PostMessage with MQ_WAIT_PROCESSED returns only when the app thread has
\* finished with the message, with MQ_WAIT_RECEIVED only when it was taken out.
THEOREM PostIsSynchronous == Spec => ReturnsOnlyWhenDone
  <1>1. IInv /\ [Next]_vars =>
          [pcP = "test" /\ pcP' = "idle" =>
             /\ post.wait # "NONE" => head = tail
             /\ post.wait = "PROCESSED" => message = NoMessage]_vars
    <2> SUFFICES ASSUME IInv, [Next]_vars, pcP = "test", pcP' = "idle"
                 PROVE  /\ post.wait # "NONE" => head = tail
                        /\ post.wait = "PROCESSED" => message = NoMessage
      OBVIOUS
    <2>1. ReturnFromPost
      BY SMT DEF Next, PosterStep, ConsumerStep, vars, ring, poster, consumer,
          Enable, PostMessage, FoundRoom, Enqueue, FlagStillDown, BlockPoster,
          RelockPoster, StartPump, Acknowledge, NothingToAcknowledge,
          BroadcastProcessed, SleepUntilMessage, QueueEmpty, Dequeue, RaiseReceived,
          BroadcastReceived, Handle, WakeSpuriously
    <2>2. post \in Message
      BY <2>1 DEF IInv, TypeOK
    <2>3. post.wait # "NONE" => flag[post.wait] /\ post.wait \in {"RECEIVED", "PROCESSED"}
      BY <2>1, <2>2, WaitsAssumption DEF ReturnFromPost, Message
    <2> QED
      BY <2>3 DEF IInv, FlagsBelongToTheCall
  <1> QED
    BY Inductive, <1>1, PTL DEF Spec, ReturnsOnlyWhenDone

-----------------------------------------------------------------------------
\* Without spurious wakeups no step leaves a poster asleep whose flag is up and
\* which nobody will wake.
LEMMA StepPreservesWakeupInv ==
    ~SpuriousWakeups /\ IInv /\ TypeOK' /\ WakeupInv /\ [Next]_vars => WakeupInv'
  <1> SUFFICES ASSUME ~SpuriousWakeups, IInv, TypeOK', WakeupInv, [Next]_vars
               PROVE  WakeupInv'
    OBVIOUS
  <1> USE CapacityAssumption, WaitsAssumption, NoMessageAssumption
      DEF IInv, TypeOK, FlagsBelongToTheCall, EveryWaiterIsWaiting, NeverOverwrites,
          OwedOnlyToTheCall, InCall, ring, poster, consumer, Conditions, Message,
          WakeupInv, NoLostWakeup, Broadcast
  <1>1. ASSUME NEW set \in BOOLEAN, Enable(set) PROVE WakeupInv'
    BY <1>1, SMT DEF Enable
  <1>2. ASSUME NEW m \in Message, PostMessage(m) PROVE WakeupInv'
    BY <1>2, SMT DEF PostMessage
  <1>3. CASE FoundRoom
    BY <1>3, SMT DEF FoundRoom
  <1>4. CASE Enqueue
    BY <1>4, SMT DEF Enqueue
  <1>5. CASE ReturnFromPost
    BY <1>5, SMT DEF ReturnFromPost
  <1>6. CASE FlagStillDown
    BY <1>6, SMT DEF FlagStillDown
  <1>7. CASE BlockPoster
    BY <1>7, SMT DEF BlockPoster
  <1>8. CASE RelockPoster
    BY <1>8, SMT DEF RelockPoster
  <1>9. CASE StartPump
    BY <1>9, SMT DEF StartPump
  <1>10. CASE Acknowledge
    BY <1>10, SMT DEF Acknowledge
  <1>11. CASE NothingToAcknowledge
    BY <1>11, SMT DEF NothingToAcknowledge, AfterAck
  <1>12. CASE BroadcastProcessed
    BY <1>12, SMT DEF BroadcastProcessed, AfterAck
  <1>13. CASE SleepUntilMessage
    <2>1. pcP \in {"test", "wait", "blocked"} /\ post.wait # "NONE" =>
              post.wait \in {"RECEIVED", "PROCESSED"}
      OBVIOUS
    <2>2. \A c \in {"RECEIVED", "PROCESSED"} : flag'[c] = flag[c] /\ waiters'[c] = waiters[c]
      BY <1>13, SMT DEF SleepUntilMessage
    <2>3. /\ pcP' = pcP /\ post' = post /\ head' = head /\ tail' = tail
          /\ pcC \in {"sleep", "slept"} /\ pcC' \in {"slept", "get"}
      BY <1>13 DEF SleepUntilMessage
    <2> QED
      BY <2>1, <2>2, <2>3
  <1>14. CASE QueueEmpty
    BY <1>14, SMT DEF QueueEmpty
  <1>15. CASE Dequeue
    BY <1>15, SMT DEF Dequeue
  <1>16. CASE RaiseReceived
    BY <1>16, SMT DEF RaiseReceived
  <1>17. CASE BroadcastReceived
    BY <1>17, SMT DEF BroadcastReceived
  <1>18. CASE Handle
    BY <1>18, SMT DEF Handle
  <1>19. ASSUME NEW t \in {"poster", "consumer"}, NEW c \in Conditions,
                WakeSpuriously(t, c)
         PROVE  WakeupInv'
    BY <1>19 DEF WakeSpuriously
  <1>20. CASE UNCHANGED vars
    BY <1>20, SMT DEF vars
  <1> QED
    BY <1>1, <1>2, <1>3, <1>4, <1>5, <1>6, <1>7, <1>8, <1>9, <1>10, <1>11, <1>12, <1>13, <1>14, <1>15, <1>16, <1>17, <1>18, <1>19, <1>20
    DEF Next, PosterStep, ConsumerStep

\* If pthread_cond_wait returns only after a broadcast, a blocked poster whose
\* flag is up is always still to be woken, for every buffer size and wait mode.
THEOREM NoWakeupIsLost ==
    ASSUME ~SpuriousWakeups
    PROVE  Spec => []NoLostWakeup
  <1>1. Init => WakeupInv
    BY SMT DEF Init, WakeupInv, NoLostWakeup
  <1>2. IInv /\ WakeupInv /\ [Next]_vars /\ IInv' => WakeupInv'
    BY StepPreservesWakeupInv DEF IInv
  <1> QED
    BY Inductive, <1>1, <1>2, PTL DEF Spec, WakeupInv
=============================================================================
