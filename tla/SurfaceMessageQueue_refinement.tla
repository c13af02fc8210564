------------------- MODULE SurfaceMessageQueue_refinement -------------------
(***************************************************************************)
(* The proof that the surface message queue implements MessageChannel: the *)
(* initial state maps to the channel's, and every step of the two threads  *)
(* is a Post, Take, Finish or Return of the channel, or leaves it alone.   *)
(***************************************************************************)
EXTENDS SurfaceMessageQueue_proofs, SequenceTheorems

\* A window of the ring whose slots all hold messages is a sequence of messages.
LEMMA WindowIsSeq ==
    ASSUME NEW f, NEW h \in Nat, NEW t \in Nat, h <= t,
           \A n \in h .. t - 1 : f[Slot(n)] \in Message
    PROVE  /\ Window(f, h, t) \in Seq(Message)
           /\ Len(Window(f, h, t)) = t - h
           /\ \A k \in 1 .. t - h : Window(f, h, t)[k] = f[Slot(h + k - 1)]
  <1>1. t - h \in Nat
    BY SMT
  <1>2. \A k \in 1 .. t - h : f[Slot(h + k - 1)] \in Message
    <2> SUFFICES ASSUME NEW k \in 1 .. t - h PROVE f[Slot(h + k - 1)] \in Message
      OBVIOUS
    <2>1. h + k - 1 \in h .. t - 1
      BY SMT
    <2> QED
      BY <2>1
  <1>3. Window(f, h, t) \in [1 .. t - h -> Message]
    BY <1>2 DEF Window
  <1>4. Window(f, h, t) \in Seq(Message)
    BY <1>1, <1>3, SeqDef
  <1>5. Len(Window(f, h, t)) = t - h
    BY <1>1, <1>3, <1>4, LenProperties, SMT
  <1> QED
    BY <1>4, <1>5 DEF Window

\* Storing at position t extends the window by one at its end.
LEMMA WindowGrows ==
    ASSUME NEW f \in [0 .. MAX_MESSAGES - 1 -> Message \cup {NoMessage}],
           NEW h \in Nat, NEW t \in Nat, h <= t, t - h < MAX_MESSAGES,
           \A n \in h .. t - 1 : f[Slot(n)] \in Message,
           NEW m \in Message
    PROVE  Window([f EXCEPT ![Slot(t)] = m], h, t + 1) = Append(Window(f, h, t), m)
  <1> DEFINE g == [f EXCEPT ![Slot(t)] = m]
             w == Window(f, h, t)
             v == Window(g, h, t + 1)
  <1>1. g[Slot(t)] = m
    BY SlotType
  <1>2. \A n \in h .. t - 1 : g[Slot(n)] = f[Slot(n)]
    <2> SUFFICES ASSUME NEW n \in h .. t - 1 PROVE g[Slot(n)] = f[Slot(n)]
      OBVIOUS
    <2>1. n \in Nat /\ n < t /\ t - n < MAX_MESSAGES
      BY CapacityAssumption, SMT
    <2> QED
      BY <2>1, SlotsDiffer, SlotType
  <1>3. \A n \in h .. (t + 1) - 1 : g[Slot(n)] \in Message
    <2> SUFFICES ASSUME NEW n \in h .. (t + 1) - 1 PROVE g[Slot(n)] \in Message
      OBVIOUS
    <2>1. n = t \/ n \in h .. t - 1
      BY SMT
    <2> QED
      BY <2>1, <1>1, <1>2
  <1>4. /\ w \in Seq(Message) /\ Len(w) = t - h
        /\ \A k \in 1 .. t - h : w[k] = f[Slot(h + k - 1)]
    BY WindowIsSeq
  <1>5. /\ v \in Seq(Message) /\ Len(v) = (t + 1) - h
        /\ \A k \in 1 .. (t + 1) - h : v[k] = g[Slot(h + k - 1)]
    <2>1. t + 1 \in Nat /\ h <= t + 1
      BY SMT
    <2> HIDE DEF g
    <2> QED
      BY <1>3, <2>1, WindowIsSeq
  <1> HIDE DEF g, w, v
  <1>6. /\ Append(w, m) \in Seq(Message) /\ Len(Append(w, m)) = Len(w) + 1
        /\ \A k \in 1 .. Len(w) + 1 :
               Append(w, m)[k] = IF k <= Len(w) THEN w[k] ELSE m
    <2>0. w \in Seq(Message)
      BY <1>4
    <2>1. /\ Append(w, m) \in Seq(Message)
          /\ Append(w, m) # << >>
          /\ Len(Append(w, m)) = Len(w) + 1
          /\ \A i \in 1 .. Len(w) : Append(w, m)[i] = w[i]
          /\ Append(w, m)[Len(w) + 1] = m
      BY <2>0, AppendProperties
    <2> SUFFICES ASSUME NEW k \in 1 .. Len(w) + 1
                 PROVE  Append(w, m)[k] = IF k <= Len(w) THEN w[k] ELSE m
      BY <2>1
    <2>2. Len(w) \in Nat
      BY <1>4, LenProperties
    <2>3. CASE k <= Len(w)
      <3>1. k \in 1 .. Len(w)
        BY <2>2, <2>3, SMT
      <3> QED
        BY <2>1, <2>3, <3>1
    <2>4. CASE ~(k <= Len(w))
      <3>1. k = Len(w) + 1
        BY <2>2, <2>4, SMT
      <3> QED
        BY <2>1, <2>4, <3>1
    <2> QED
      BY <2>3, <2>4
  <1>7. \A k \in 1 .. Len(v) : v[k] = Append(w, m)[k]
    <2> SUFFICES ASSUME NEW k \in 1 .. Len(v) PROVE v[k] = Append(w, m)[k]
      OBVIOUS
    <2>1. k \in 1 .. (t + 1) - h /\ k \in 1 .. Len(w) + 1 /\ Len(w) = t - h
      BY <1>4, <1>5, SMT
    <2>2. v[k] = g[Slot(h + k - 1)]
      BY <1>5, <2>1
    <2>3. CASE k <= t - h
      <3>1. k \in 1 .. t - h /\ h + k - 1 \in h .. t - 1
        BY <2>1, <2>3, SMT
      <3> QED
        BY <1>2, <1>4, <1>6, <2>1, <2>2, <2>3, <3>1
    <2>4. CASE ~(k <= t - h)
      <3>1. h + k - 1 = t
        BY <2>1, <2>4, SMT
      <3> QED
        BY <1>1, <1>6, <2>1, <2>2, <2>4, <3>1
    <2> QED
      BY <2>3, <2>4
  <1>8. Len(v) = Len(Append(w, m))
    BY <1>4, <1>5, <1>6, SMT
  <1>9. v = Append(w, m)
    BY <1>5, <1>6, <1>7, <1>8, SeqEqual
  <1> QED
    BY <1>9 DEF g, w, v

\* Advancing position h takes the first message off the window.
LEMMA WindowShrinks ==
    ASSUME NEW f, NEW h \in Nat, NEW t \in Nat, h < t,
           \A n \in h .. t - 1 : f[Slot(n)] \in Message
    PROVE  /\ Window(f, h, t) # << >>
           /\ Head(Window(f, h, t)) = f[Slot(h)]
           /\ Tail(Window(f, h, t)) = Window(f, h + 1, t)
  <1> DEFINE w == Window(f, h, t)
             v == Window(f, h + 1, t)
  <1>1. /\ w \in Seq(Message) /\ Len(w) = t - h
        /\ \A k \in 1 .. t - h : w[k] = f[Slot(h + k - 1)]
    BY WindowIsSeq
  <1>2. /\ v \in Seq(Message) /\ Len(v) = t - (h + 1)
        /\ \A k \in 1 .. t - (h + 1) : v[k] = f[Slot((h + 1) + k - 1)]
    <2>1. h + 1 \in Nat /\ h + 1 <= t /\ \A n \in h + 1 .. t - 1 : f[Slot(n)] \in Message
      BY SMT
    <2> QED
      BY <2>1, WindowIsSeq
  <1> HIDE DEF w, v
  <1>3. w # << >>
    BY <1>1, EmptySeq, SMT
  <1>4. Head(w) = f[Slot(h)]
    <2>1. 1 \in 1 .. t - h /\ h + 1 - 1 = h
      BY SMT
    <2>2. Head(w) = w[1]
      BY <1>1, <1>3, SMT
    <2> QED
      BY <1>1, <2>1, <2>2
  <1>5. /\ Tail(w) \in Seq(Message) /\ Len(Tail(w)) = Len(w) - 1
        /\ \A k \in 1 .. Len(Tail(w)) : Tail(w)[k] = w[k + 1]
    BY <1>1, <1>3, HeadTailProperties
  <1>6. \A k \in 1 .. Len(v) : v[k] = Tail(w)[k]
    <2> SUFFICES ASSUME NEW k \in 1 .. Len(v) PROVE v[k] = Tail(w)[k]
      OBVIOUS
    <2>1. /\ k \in 1 .. t - (h + 1) /\ k \in 1 .. Len(Tail(w)) /\ k + 1 \in 1 .. t - h
          /\ (h + 1) + k - 1 = h + (k + 1) - 1
      BY <1>1, <1>2, <1>5, SMT
    <2> QED
      BY <1>1, <1>2, <1>5, <2>1
  <1>7. Len(v) = Len(Tail(w))
    BY <1>1, <1>2, <1>5, SMT
  <1>8. v = Tail(w)
    BY <1>2, <1>5, <1>6, <1>7, SeqEqual
  <1> QED
    BY <1>3, <1>4, <1>8 DEF w, v

-----------------------------------------------------------------------------
\* The facts about a reachable state that every step below uses.
LEMMA InvFacts ==
    ASSUME IInv
    PROVE  /\ head \in Nat /\ tail \in Nat /\ head <= tail
           /\ \A n \in head .. tail - 1 : Messages[Slot(n)] \in Message
           /\ Messages \in [0 .. MAX_MESSAGES - 1 -> Message \cup {NoMessage}]
  BY SMT DEF IInv, TypeOK, NeverOverwrites, OwedOnlyToTheCall

\* Storing the message under the mutex is the channel's Post.
LEMMA EnqueuePosts == ASSUME IInv, Enqueue PROVE Chan!Post(post) /\ post \in Message
  <1>1. /\ pcP = "lock" /\ pcP' = "test" /\ tail' = tail + 1 /\ head' = head
        /\ message' = message /\ post' = post /\ post \in Message
        /\ tail - head < MAX_MESSAGES
        /\ Messages' = [Messages EXCEPT ![Slot(tail)] = post]
    BY SMT DEF Enqueue, consumer, IInv, TypeOK, NeverOverwrites
  <1>2. CallState = Chan!Idle
    BY <1>1 DEF CallState, InCall, Chan!Idle
  <1>3. Len(Window(Messages, head, tail)) < MAX_MESSAGES
    BY <1>1, InvFacts, WindowIsSeq
  <1>4. Window(Messages', head', tail') = Append(Window(Messages, head, tail), post)
    BY <1>1, InvFacts, WindowGrows
  <1>5. CallState' = [stage |-> "queued", wait |-> post.wait]
    <2>1. head' < tail'
      BY <1>1, InvFacts, SMT
    <2> QED
      BY <1>1, <2>1 DEF CallState, InCall
  <1> QED
    BY <1>1, <1>2, <1>3, <1>4, <1>5 DEF Chan!Post

\* Taking the message out of the ring (GetNextMessage) is the channel's Take.
LEMMA DequeueTakes == ASSUME IInv, Dequeue PROVE Chan!Take
  <1>1. /\ message = NoMessage /\ head' = head + 1 /\ tail' = tail /\ Messages' = Messages
        /\ message' = Messages[Slot(head)] /\ pcP' = pcP /\ post' = post /\ head < tail
        /\ ~(pcP \in {"test", "wait"})
    BY SMT DEF Dequeue, poster, IInv, TypeOK, NeverOverwrites
  <1>2. /\ Window(Messages, head, tail) # << >>
        /\ message' = Head(Window(Messages, head, tail))
        /\ Window(Messages', head', tail') = Tail(Window(Messages, head, tail))
        /\ Len(Window(Messages, head, tail)) = tail - head
    BY <1>1, InvFacts, WindowShrinks, WindowIsSeq
  <1>3. head \in head .. tail - 1 /\ message' # NoMessage
    <2>1. head \in head .. tail - 1
      BY <1>1, InvFacts, SMT
    <2> QED
      BY <1>1, <2>1, InvFacts, NoMessageAssumption DEF Message
  <1>4. CASE ~InCall
    BY <1>1, <1>2, <1>4 DEF CallState, InCall, Chan!Take, Chan!Idle
  <1>5. CASE InCall
    <2>1. CallState = [stage |-> "queued", wait |-> post.wait] /\ CallState # Chan!Idle
      BY <1>1, <1>5 DEF CallState, Chan!Idle
    <2>2. CallState' = [stage |-> IF head' < tail' THEN "queued" ELSE "taken",
                        wait |-> post.wait]
      BY <1>1, <1>3, <1>5 DEF CallState, InCall
    <2>3. head' < tail' <=> tail - head # 1
      BY <1>1, InvFacts, SMT
    <2>4. CallState' = IF CallState # Chan!Idle /\ Len(Window(Messages, head, tail)) = 1
                       THEN [CallState EXCEPT !.stage = "taken"] ELSE CallState
      BY <1>2, <2>1, <2>2, <2>3
    <2> QED
      BY <1>1, <1>2, <2>4 DEF Chan!Take
  <1> QED
    BY <1>4, <1>5

\* The app thread's switch over the message is the channel's Finish.
LEMMA HandleFinishes == ASSUME IInv, Handle PROVE Chan!Finish
  <1>1. /\ message # NoMessage /\ message' = NoMessage
        /\ head' = head /\ tail' = tail /\ Messages' = Messages
        /\ pcP' = pcP /\ post' = post
    BY DEF Handle, poster, ring, IInv, TypeOK
  <1>2. CallState' = IF CallState.stage = "taken"
                     THEN [CallState EXCEPT !.stage = "handled"] ELSE CallState
    BY <1>1 DEF CallState, InCall
  <1> QED
    BY <1>1, <1>2 DEF Chan!Finish

\* PostMessage returns only when the channel allows its call to return.
LEMMA ReturnReturns == ASSUME IInv, ReturnFromPost PROVE Chan!Return
  <1>1. /\ InCall /\ ~InCall' /\ post \in Message
        /\ head' = head /\ tail' = tail /\ Messages' = Messages /\ message' = message
    BY DEF ReturnFromPost, ring, consumer, InCall, IInv, TypeOK
  <1>2. CallState # Chan!Idle /\ CallState' = Chan!Idle
    BY <1>1 DEF CallState, Chan!Idle
  <1>3. CallState.wait = post.wait
    BY <1>1 DEF CallState
  <1>4. post.wait \in {"NONE", "RECEIVED", "PROCESSED"}
    BY <1>1, WaitsAssumption DEF Message
  <1>5. post.wait # "NONE" => flag[post.wait]
    BY DEF ReturnFromPost
  <1>6. post.wait # "NONE" => head = tail /\ (post.wait = "PROCESSED" => message = NoMessage)
    BY <1>4, <1>5 DEF IInv, FlagsBelongToTheCall
  <1>7. post.wait # "NONE" => ~(head < tail)
    BY <1>6, InvFacts, SMT
  <1>8. Chan!MayReturn
    BY <1>1, <1>3, <1>4, <1>6, <1>7 DEF CallState, Chan!MayReturn
  <1> QED
    BY <1>1, <1>2, <1>8 DEF Chan!Return

\* The other steps are invisible to the channel.
LEMMA OthersStutter ==
    ASSUME IInv, [Next]_vars, ~Enqueue, ~Dequeue, ~Handle, ~ReturnFromPost
    PROVE  UNCHANGED <<Window(Messages, head, tail), message, CallState>>
  <1>1. UNCHANGED <<head, tail, Messages, message>>
    BY DEF Next, PosterStep, ConsumerStep, vars, ring, poster, consumer, Enable,
        PostMessage, FoundRoom, FlagStillDown, BlockPoster, RelockPoster, StartPump,
        Acknowledge, NothingToAcknowledge, BroadcastProcessed, SleepUntilMessage,
        QueueEmpty, RaiseReceived, BroadcastReceived, WakeSpuriously
  <1>2. InCall' = InCall /\ (InCall => post' = post)
    BY DEF Next, PosterStep, ConsumerStep, vars, ring, poster, consumer, Enable,
        PostMessage, FoundRoom, FlagStillDown, BlockPoster, RelockPoster, StartPump,
        Acknowledge, NothingToAcknowledge, BroadcastProcessed, SleepUntilMessage,
        QueueEmpty, RaiseReceived, BroadcastReceived, WakeSpuriously, InCall
  <1> QED
    BY <1>1, <1>2 DEF CallState

\* The queue of TBXR_Common.cpp implements the channel: posts are handled in
\* order, none lost or handled twice, and return only as their wait mode allows.
THEOREM QueueImplementsChannel == Spec => ImplementsChannel
  <1>1. Init => Chan!ChanInit
    <2> SUFFICES ASSUME Init PROVE Chan!ChanInit
      OBVIOUS
    <2>1. IInv /\ head = tail /\ head = 0
      BY InitEstablishes DEF Init
    <2>2. Window(Messages, head, tail) = << >>
      <3>1. Len(Window(Messages, head, tail)) = 0
        BY <2>1, InvFacts, WindowIsSeq, SMT
      <3>2. Window(Messages, head, tail) \in Seq(Message)
        BY <2>1, InvFacts, WindowIsSeq, SMT
      <3> QED
        BY <3>1, <3>2, EmptySeq
    <2> QED
      BY <2>2 DEF Init, CallState, InCall, Chan!ChanInit, Chan!Idle
  <1>2. IInv /\ [Next]_vars => [Chan!ChanNext]_Chan!chanVars
    <2> SUFFICES ASSUME IInv, [Next]_vars PROVE [Chan!ChanNext]_Chan!chanVars
      OBVIOUS
    <2>1. CASE Enqueue
      BY <2>1, EnqueuePosts DEF Chan!ChanNext, Chan!Message, Message
    <2>2. CASE Dequeue
      BY <2>2, DequeueTakes DEF Chan!ChanNext
    <2>3. CASE Handle
      BY <2>3, HandleFinishes DEF Chan!ChanNext
    <2>4. CASE ReturnFromPost
      BY <2>4, ReturnReturns DEF Chan!ChanNext
    <2>5. CASE ~Enqueue /\ ~Dequeue /\ ~Handle /\ ~ReturnFromPost
      BY <2>5, OthersStutter DEF Chan!chanVars
    <2> QED
      BY <2>1, <2>2, <2>3, <2>4, <2>5
  <1> QED
    BY Inductive, <1>1, <1>2, PTL DEF Spec, ImplementsChannel, Chan!ChanSpec
=============================================================================
