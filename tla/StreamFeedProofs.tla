-------------------------- MODULE StreamFeedProofs --------------------------
(***************************************************************************)
(* What the consumer of a stream can rely on: the order and the marks of    *)
(* its events, the finality and the evidence of an end, and that Stream     *)
(* implements Feed, for every value of the constants.                       *)
(***************************************************************************)
EXTENDS StreamProofs, SequenceTheorems, FiniteSetTheorems

USE DEF FrameKinds, FatalCauses, GapReasons

\* The results of serve that end a stream.
Ends == FatalCauses \cup {"finished"}

\* A final result leads to the end, an error of the stream is its result, and
\* before the worker cancels its own context only a caller can have.
EndInv ==
    /\ result \in Ends => pc \in {"unset", "hangup", "decide"} \cup Leaving
    /\ err \in FatalCauses => err = result
    /\ err # "nil" => pc \in Leaving
    /\ callerCancelled => ctxDone
    /\ ctxDone => callerCancelled \/ pc \in {"closeDone", "closeEvents", "stopped"}

Handling == {"observe", "retain", "gap", "dispatch", "enqueue", "evict", "resend"}

\* The kind of frame the worker holds at each label.
FrameInv ==
    /\ pc \in {"top", "dial", "dialed", "sleep", "read"} => frame = NoFrame
    /\ pc = "gap" /\ reason = "reconnect" => frame = NoFrame
    /\ pc = "gap" /\ reason # "reconnect" => frame.kind # "none"
    /\ pc \in {"observe", "retain"} => frame.kind # "none"
    /\ pc = "dispatch" => frame.kind \in FrameKinds
    /\ HoldsEvent => frame.kind \in {"keepalive", "complete", "data"}

-----------------------------------------------------------------------------
(* Ends *)

\* Every step keeps EndInv.
LEMMA EndNext == TypeOK /\ EndInv /\ [Next]_vars => EndInv'
<1> SUFFICES ASSUME TypeOK, EndInv, [Next]_vars PROVE EndInv'
  OBVIOUS
<1> USE DEF EndInv, Ends, Leaving
<1> /\ pc \in Labels /\ ctxDone \in BOOLEAN /\ callerCancelled \in BOOLEAN
    /\ result \in FatalCauses \cup {"none", "dropped", "finished"}
    /\ err \in FatalCauses \cup {"nil", "dial", "exhausted"}
  BY DEF TypeOK
<1>1. CASE Reconnecting
  <2>1. CASE Top \/ DialFails \/ DialSucceeds \/ Connected \/ Sleep
    BY <1>1, <2>1 DEF Top, DialFails, RetryOr, DialSucceeds, Connected, Sleep,
       Cancelled, callers
  <2>2. CASE Unset \/ Hangup
    BY <1>1, <2>2 DEF Unset, Hangup, callers
  <2>3. CASE Decide
    BY <1>1, <2>3 DEF Decide, RetryOr, EndsClean, IsFatal, Cancelled, callers
  <2>4. CASE RunDeferred
    BY <1>1, <2>4 DEF RunDeferred, DeferNext, callers, Labels
  <2>5. QED
    BY <1>1, <2>1, <2>2, <2>3, <2>4 DEF Reconnecting
<1>2. CASE Serving
  BY <1>2 DEF Serving, Write, Return, ReadFrame, ReadFails, Observe, Retain,
     RecordGap, AfterReceipt, callers
<1>3. CASE Dispatch
  BY <1>3 DEF Dispatch, Dispatching, OnAck, OnPing, OnNoise, OnError,
     OnTooEarly, OnEvent, Return, LeftByDispatch, callers
<1>4. CASE Enqueue
  BY <1>4 DEF Enqueue, EnqueueSends, EnqueueFull, Evict, Resend, Send, Return,
     LeftByEnqueue, callers
<1>5. CASE ParentCancels \/ (\E c \in Closers : CloseCancels(c))
  BY <1>5 DEF ParentCancels, CloseCancels, LeftByCallers, worker
<1>6. CASE UNCHANGED <<pc, result, err, ctxDone, callerCancelled>>
  BY <1>6
<1>7. QED
  BY <1>1, <1>2, <1>3, <1>4, <1>5, <1>6 DEF Next, Worker, Close, CloseLocks,
     CloseHangsUp, CloseReturns, Receive, DrainReceipts, Terminated,
     LeftByCallers, vars, worker

\* EndInv holds in every reachable state.
LEMMA EndAlways == Spec => []EndInv
<1>1. Init => EndInv
  BY DEF Init, EndInv, Ends
<1>2. QED
  BY <1>1, EndNext, TypeCorrect, PTL DEF Spec

\* A stream that has ended stays ended: no result that ends it and no error is
\* replaced, and no connection follows.
THEOREM EndIsFinal == Spec => NoReconnectAfterEnd
<1>1. ASSUME TypeOK, EndInv, [Next]_vars, result \in Ends
      PROVE  result' = result /\ epoch' = epoch /\ open' \subseteq open
  <2> pc \in {"unset", "hangup", "decide"} \cup Leaving
    BY <1>1 DEF EndInv
  <2>1. CASE Worker
    <3>1. Unset \/ Hangup \/ Decide \/ RunDeferred
      BY <2>1 DEF Worker, Reconnecting, Top, DialFails, DialSucceeds, Connected,
         Sleep, Serving, Write, ReadFrame, ReadFails, Observe, Retain, RecordGap,
         Dispatch, Dispatching, OnAck, OnPing, OnNoise, OnError, OnTooEarly,
         OnEvent, Enqueue, EnqueueSends, EnqueueFull, Evict, Resend, Leaving
    <3>2. QED
      BY <3>1 DEF Unset, Hangup, Decide, RunDeferred
  <2>2. CASE ~Worker
    BY <1>1, <2>2 DEF Next, ParentCancels, Close, CloseCancels, CloseLocks,
       CloseHangsUp, CloseReturns, Receive, DrainReceipts, Terminated,
       LeftByCallers, vars, worker
  <2>3. QED
    BY <2>1, <2>2
<1>2. ASSUME TypeOK, EndInv, [Next]_vars, err # "nil" PROVE err' = err
  BY <1>2 DEF EndInv, Next, Worker, Reconnecting, Top, DialFails, DialSucceeds,
     Connected, Unset, Hangup, Decide, Sleep, RunDeferred, Serving, Write, ReadFrame,
     ReadFails, Observe, Retain, RecordGap, Dispatch, OnAck, OnPing, OnNoise,
     OnError, OnTooEarly, OnEvent, LeftByDispatch, Enqueue, EnqueueSends,
     EnqueueFull, Evict, Resend, LeftByEnqueue, ParentCancels, Close, CloseCancels,
     CloseLocks, CloseHangsUp, CloseReturns, Receive, DrainReceipts, Terminated,
     LeftByCallers, vars, Leaving
<1>3. TypeOK /\ EndInv /\ [Next]_vars =>
         [/\ (result \in FatalCauses \cup {"finished"}) =>
                /\ result' = result /\ epoch' = epoch /\ open' \subseteq open
          /\ err # "nil" => err' = err]_vars
  BY <1>1, <1>2 DEF Ends
<1>4. QED
  BY <1>3, TypeCorrect, EndAlways, PTL DEF Spec, NoReconnectAfterEnd

\* A result that has a gap is the reason of the newest gap.
GapInv ==
    result \in FatalCauses \cap GapReasons =>
       gaps # <<>> /\ gaps[Len(gaps)].reason = result

\* The newest entry of a queue is the one appended.
LEMMA AppendedIsLast ==
  ASSUME NEW S, NEW q \in Seq(S), NEW e \in S
  PROVE  Append(q, e) # <<>> /\ Append(q, e)[Len(Append(q, e))] = e
  OBVIOUS

\* Every step keeps GapInv: only RecordGap touches the gaps, and its result is
\* the reason it records.
LEMMA GapNext == TypeOK /\ GapHasReason /\ EndInv /\ GapInv /\ [Next]_vars => GapInv'
<1> SUFFICES ASSUME TypeOK, GapHasReason, EndInv, GapInv, [Next]_vars PROVE GapInv'
  OBVIOUS
<1>1. CASE RecordGap
  <2> DEFINE gap == [reason |-> reason, epoch |-> epoch, seq |-> frame.seq]
  <2>1. pc = "gap" /\ reason \in GapReasons /\ PushGap(gap)
    BY <1>1 DEF RecordGap, GapHasReason, TypeOK
  <2>2. gap \in Gap
    BY <2>1 DEF Gap, TypeOK, Frame
  <2>3. gap.reason = reason
    OBVIOUS
  <2> HIDE DEF gap
  <2>4. gaps' # <<>> /\ gaps'[Len(gaps')] = gap
    <3>1. CASE GapRoom
      <4>1. gaps' = Append(gaps, gap) /\ gaps \in Seq(Gap)
        BY <2>1, <3>1 DEF PushGap, TypeOK
      <4>2. QED
        BY <2>2, <4>1, AppendedIsLast
    <3>2. CASE ~GapRoom
      <4>1. gaps' = Append(Tail(gaps), gap)
        BY <2>1, <3>2 DEF PushGap
      <4>2. gaps # <<>> /\ gaps \in Seq(Gap)
        BY <3>2, CapacitiesPositive DEF GapRoom, TypeOK
      <4>3. Tail(gaps) \in Seq(Gap)
        BY <4>2
      <4>4. QED
        BY <2>2, <4>1, <4>3, AppendedIsLast
    <3>3. QED
      BY <3>1, <3>2
  <2>5. result' = reason \/ result' = result
    BY <1>1 DEF RecordGap
  <2>6. result \notin Ends
    BY <2>1 DEF EndInv, Leaving
  <2>7. QED
    BY <2>3, <2>4, <2>5, <2>6 DEF GapInv, Ends
<1>2. CASE /\ UNCHANGED gaps
           /\ result' = result \/ result' \notin FatalCauses \cap GapReasons
  BY <1>2 DEF GapInv
<1>3. UNCHANGED gaps \/ RecordGap
  BY DEF Next, Worker, Reconnecting, Top, DialFails, DialSucceeds, Connected,
     Unset, Hangup, Decide, Sleep, RunDeferred, Serving, Write, ReadFrame,
     ReadFails, Observe, Retain, Dispatch, OnAck, OnPing, OnNoise, OnError,
     OnTooEarly, OnEvent, LeftByDispatch, Enqueue, EnqueueSends, EnqueueFull,
     Evict, Resend, LeftByEnqueue, ParentCancels, Close, CloseCancels,
     CloseLocks, CloseHangsUp, CloseReturns, Receive, DrainReceipts, Terminated,
     LeftByCallers, vars, retention
<1>4. RecordGap \/ result' = result \/ result' \notin FatalCauses \cap GapReasons
  BY DEF Next, Worker, Reconnecting, Top, DialFails, DialSucceeds, Connected,
     Unset, Hangup, Decide, Sleep, RunDeferred, Serving, Write, ReadFrame,
     ReadFails, Observe, Retain, Dispatch, OnAck, OnPing, OnNoise, OnError,
     OnTooEarly, OnEvent, Return, Enqueue, EnqueueSends, EnqueueFull,
     Evict, Resend, Send, ParentCancels, Close, CloseCancels,
     CloseLocks, CloseHangsUp, CloseReturns, Receive, DrainReceipts, Terminated,
     LeftByCallers, vars, worker
<1>5. QED
  BY <1>1, <1>2, <1>3, <1>4

\* GapHasReason holds in every reachable state.
LEMMA ReasonAlways == Spec => []GapHasReason
<1>1. Init => GapHasReason
  BY DEF Init, GapHasReason
<1>2. QED
  BY <1>1, ReasonNext, TypeCorrect, PTL DEF Spec

\* The evidence of a failure survives: the newest gap of a stream that failed
\* for a reason that has a gap is that gap.
THEOREM FailureHasGap == Spec => []FatalHasGap
<1>1. Init => GapInv
  BY DEF Init, GapInv
<1>2. TypeOK /\ EndInv /\ GapInv => FatalHasGap
  BY DEF TypeOK, EndInv, GapInv, FatalHasGap
<1>3. QED
  BY <1>1, <1>2, GapNext, ReasonAlways, EndAlways, TypeCorrect, PTL DEF Spec

-----------------------------------------------------------------------------
(* The frame in the worker's hand *)

\* Every step keeps FrameInv.
LEMMA FrameNext == TypeOK /\ GapHasReason /\ FrameInv /\ [Next]_vars => FrameInv'
<1> SUFFICES ASSUME TypeOK, GapHasReason, FrameInv, [Next]_vars PROVE FrameInv'
  OBVIOUS
<1> USE DEF FrameInv, HoldsEvent
<1> pc \in Labels /\ reason \in GapReasons \cup {"none"}
    /\ (pc = "gap" <=> reason # "none")
  BY DEF TypeOK, GapHasReason
<1>1. NoFrame.kind = "none" /\ frame.kind \in FrameKinds \cup {"none", "sent"}
  BY DEF NoFrame, TypeOK, Frame
<1>2. CASE Reconnecting
  BY <1>2 DEF Reconnecting, Top, DialFails, RetryOr, DialSucceeds, Connected,
     Unset, Hangup, Decide, Sleep, RunDeferred, DeferNext
<1>3. CASE Serving
  <2>1. CASE Write \/ ReadFrame \/ ReadFails \/ Observe
    BY <1>3, <2>1 DEF Write, Return, ReadFrame, ReadFails, Observe
  <2>2. CASE Retain
    BY <1>1, <2>2 DEF Retain, AfterReceipt
  <2>3. CASE RecordGap
    BY <1>1, <2>3 DEF RecordGap, AfterReceipt, GapIsFatal
  <2>4. QED
    BY <1>3, <2>1, <2>2, <2>3 DEF Serving
<1>4. CASE Dispatch
  <2>1. CASE OnEvent
    <3>1. frame'.kind = frame.kind
      BY <2>1 DEF OnEvent, TypeOK, Frame
    <3>2. QED
      BY <2>1, <3>1 DEF OnEvent, Dispatching
  <2>2. CASE ~OnEvent
    BY <1>4, <2>2 DEF Dispatch, Dispatching, OnAck, OnPing, OnNoise, OnError,
       OnTooEarly, Return
  <2>3. QED
    BY <2>1, <2>2
<1>5. CASE Enqueue
  BY <1>5 DEF Enqueue, EnqueueSends, EnqueueFull, Evict, Resend, Send, Return
<1>6. CASE UNCHANGED worker
  BY <1>6 DEF worker
<1>7. QED
  BY <1>2, <1>3, <1>4, <1>5, <1>6 DEF Next, Worker, ParentCancels, Close,
     CloseCancels, CloseLocks, CloseHangsUp, CloseReturns, Receive,
     DrainReceipts, Terminated, LeftByCallers, vars

\* FrameInv holds in every reachable state.
LEMMA FrameAlways == Spec => []FrameInv
<1>1. Init => FrameInv
  BY DEF Init, FrameInv, HoldsEvent
<1>2. QED
  BY <1>1, FrameNext, ReasonAlways, TypeCorrect, PTL DEF Spec

-----------------------------------------------------------------------------
(* The order of events *)

\* The entries of a queue to which one was appended.
LEMMA AppendEntries ==
  ASSUME NEW S, NEW q \in Seq(S), NEW e \in S
  PROVE  /\ Len(q) \in Nat /\ DOMAIN q = 1 .. Len(q)
         /\ DOMAIN Append(q, e) = 1 .. (Len(q) + 1)
         /\ \A i \in 1 .. Len(q) : Append(q, e)[i] = q[i]
         /\ Append(q, e)[Len(q) + 1] = e
  BY AppendProperties, LenProperties

\* The entries of a queue that lost its oldest one.
LEMMA TailEntries ==
  ASSUME NEW S, NEW q \in Seq(S), q # <<>>
  PROVE  /\ Len(q) \in Nat \ {0} /\ DOMAIN q = 1 .. Len(q)
         /\ DOMAIN Tail(q) = 1 .. (Len(q) - 1)
         /\ \A i \in 1 .. (Len(q) - 1) : Tail(q)[i] = q[i + 1]
         /\ Head(q) = q[1]
<1>1. Len(q) \in Nat \ {0} /\ DOMAIN q = 1 .. Len(q)
  BY EmptySeq, LenProperties
<1>2. QED
  BY <1>1, HeadTailProperties, LenProperties

\* The events that wait, and the last one received, come from frames before
\* the n-th one and from connections up to the m-th.
Older(n, m) ==
    /\ last.seq < n /\ last.epoch <= m
    /\ \A i \in DOMAIN events : events[i].seq < n /\ events[i].epoch <= m

QueueOrdered ==
    /\ \A i, j \in DOMAIN events : i < j => Before(events[i], events[j])
    /\ \A i \in DOMAIN events : Before(last, events[i])

\* Ordered, strengthened: the frame in the worker's hand is newer than every
\* event.
OrderInv ==
    /\ QueueOrdered
    /\ Older(receiveSequence + 1, epoch)
    /\ pc \in Handling /\ frame.kind \in FrameKinds =>
          /\ frame.seq = receiveSequence /\ frame.epoch = epoch
          /\ Older(receiveSequence, epoch)

\* No complete event waits or was received before the stream finished.
CompleteInv ==
    result # "finished" =>
       /\ last.kind # "complete"
       /\ \A i \in DOMAIN events : events[i].kind # "complete"

\* What the order is about has natural numbers.
LEMMA OrderTypes ==
  ASSUME TypeOK
  PROVE  /\ receiveSequence \in Nat /\ epoch \in Nat
         /\ last.seq \in Nat /\ last.epoch \in Nat
         /\ frame.seq \in Nat /\ frame.epoch \in Nat
         /\ \A i \in DOMAIN events : events[i].seq \in Nat /\ events[i].epoch \in Nat
<1>1. \A e \in Frame : e.seq \in Nat /\ e.epoch \in Nat
  BY DEF Frame
<1>2. \A i \in DOMAIN events : events[i] \in Frame
  <2>1. events \in Seq(Frame)
    BY DEF TypeOK
  <2>2. DOMAIN events = 1 .. Len(events)
    BY <2>1, LenProperties
  <2>3. QED
    BY <2>1, <2>2, ElementOfSeq
<1>3. QED
  BY <1>1, <1>2 DEF TypeOK

\* The oldest event is the first to leave, to the consumer or dropped.
LEMMA OrderShift ==
  ASSUME TypeOK, QueueOrdered, events # <<>>,
         NEW n \in Nat, NEW m \in Nat, Older(n, m),
         events' = Tail(events), last' = Head(events) \/ last' = last
  PROVE  QueueOrdered' /\ Older(n, m)'
<1>1. /\ Len(events) \in Nat \ {0} /\ DOMAIN events = 1 .. Len(events)
      /\ DOMAIN Tail(events) = 1 .. (Len(events) - 1)
      /\ \A i \in 1 .. (Len(events) - 1) : Tail(events)[i] = events[i + 1]
      /\ Head(events) = events[1]
  BY TailEntries DEF TypeOK
<1>2. \A i \in 1 .. (Len(events) - 1) : i + 1 \in 1 .. Len(events) /\ 1 < i + 1
  BY <1>1
<1>3. 1 \in 1 .. Len(events)
  BY <1>1
<1>4. \A i \in DOMAIN events' : /\ events'[i] = events[i + 1]
                                /\ i + 1 \in DOMAIN events /\ 1 < i + 1
                                /\ i \in Nat
  BY <1>1, <1>2
<1>5. last' = last \/ last' = events[1]
  BY <1>1
<1>6. Older(n, m)'
  BY <1>1, <1>3, <1>4, <1>5 DEF Older
<1>7. \A i, j \in DOMAIN events' : i < j => Before(events'[i], events'[j])
  <2>1. \A i, j \in Nat : i < j => i + 1 < j + 1
    OBVIOUS
  <2>2. QED
    BY <1>4, <2>1 DEF QueueOrdered
<1>8. \A i \in DOMAIN events' : Before(last', events'[i])
  BY <1>1, <1>3, <1>4, <1>5 DEF QueueOrdered
<1>9. QED
  BY <1>6, <1>7, <1>8 DEF QueueOrdered, Before

\* The event that is sent is newer than all before it.
LEMMA OrderAppend ==
  ASSUME TypeOK, QueueOrdered, NEW n \in Nat, NEW m \in Nat, Older(n, m),
         frame.seq = n, frame.epoch = m,
         events' = Append(events, frame), last' = last
  PROVE  QueueOrdered' /\ Older(n + 1, m)'
<1>1. /\ Len(events) \in Nat /\ DOMAIN events = 1 .. Len(events)
      /\ DOMAIN events' = 1 .. (Len(events) + 1)
      /\ \A i \in 1 .. Len(events) : events'[i] = events[i]
      /\ events'[Len(events) + 1] = frame
  BY AppendEntries DEF TypeOK
<1>2. /\ last.seq \in Nat
      /\ \A i \in DOMAIN events : events[i].seq \in Nat
  BY OrderTypes
<1>3. \A i \in DOMAIN events' :
         \/ i \in DOMAIN events /\ events'[i] = events[i]
         \/ i = Len(events) + 1 /\ events'[i] = frame
  BY <1>1
<1>4. \A k \in Nat : k < n => k < n + 1
  OBVIOUS
<1>5. Older(n + 1, m)'
  <2>1. last.seq < n + 1 /\ last.epoch <= m
    BY <1>2, <1>4 DEF Older
  <2>2. \A i \in DOMAIN events' : events'[i].seq < n + 1 /\ events'[i].epoch <= m
    BY <1>2, <1>3, <1>4 DEF Older
  <2>3. QED
    BY <2>1, <2>2 DEF Older
<1>6. ASSUME NEW i \in DOMAIN events', NEW j \in DOMAIN events', i < j
      PROVE  Before(events'[i], events'[j])
  <2>1. i \in DOMAIN events /\ events'[i] = events[i]
    BY <1>1, <1>6
  <2>2. CASE j \in DOMAIN events /\ events'[j] = events[j]
    BY <1>6, <2>1, <2>2 DEF QueueOrdered
  <2>3. CASE events'[j] = frame
    BY <2>1, <2>3 DEF Older, Before
  <2>4. QED
    BY <1>3, <2>2, <2>3
<1>7. ASSUME NEW i \in DOMAIN events' PROVE Before(last', events'[i])
  BY <1>3 DEF QueueOrdered, Older, Before
<1>8. QED
  BY <1>5, <1>6, <1>7 DEF QueueOrdered, Before

\* The steps that leave the events and the numbering alone.
LEMMA OrderKept ==
  ASSUME OrderInv, UNCHANGED <<events, last, receiveSequence, epoch>>,
         pc' \in Handling /\ frame'.kind \in FrameKinds =>
            /\ pc \in Handling /\ frame.kind \in FrameKinds
            /\ frame'.seq = frame.seq /\ frame'.epoch = frame.epoch
  PROVE  OrderInv'
  BY DEF OrderInv, QueueOrdered, Older, Before

\* The steps of serve and its switch number frames and keep their numbers.
LEMMA OrderServing ==
  ASSUME TypeOK, FrameInv, OrderInv, Serving \/ Dispatch
  PROVE  OrderInv'
<1>1. CASE ReadFrame
  <2>1. /\ UNCHANGED <<events, last, epoch>>
        /\ receiveSequence' = receiveSequence + 1
        /\ frame'.seq = receiveSequence + 1 /\ frame'.epoch = epoch
    BY <1>1 DEF ReadFrame, NextSequence, channel, callers, consumer
  <2>2. QueueOrdered' /\ Older(receiveSequence + 1, epoch)
    BY <2>1 DEF OrderInv, QueueOrdered, Before
  <2>3. Older(receiveSequence + 1 + 1, epoch)
    <3>1. \A k \in Nat : k < receiveSequence + 1 => k < receiveSequence + 1 + 1
      BY OrderTypes
    <3>2. QED
      BY <2>2, <3>1, OrderTypes DEF Older
  <2>4. QED
    BY <2>1, <2>2, <2>3 DEF OrderInv, Older
<1>2. CASE Write
  <2>1. pc' = "unset" \/ frame'.kind = "sent"
    BY <1>2 DEF Write, Return
  <2>2. UNCHANGED <<events, last, receiveSequence, epoch>>
    BY <1>2 DEF Write, channel, callers, consumer
  <2>3. QED
    BY <2>1, <2>2, OrderKept DEF Handling
<1>3. CASE ReadFails \/ Observe \/ Retain \/ RecordGap
  <2>1. UNCHANGED <<events, last, receiveSequence, epoch>>
    BY <1>3 DEF ReadFails, Observe, Retain, RecordGap, channel, callers, consumer
  <2>2. frame' = frame \/ frame' = NoFrame
    BY <1>3 DEF ReadFails, Return, Observe, Retain, RecordGap, AfterReceipt
  <2>3. pc' \in Handling => pc \in Handling
    BY <1>3 DEF ReadFails, Return, Observe, Retain, RecordGap, Handling
  <2>4. QED
    BY <2>1, <2>2, <2>3, OrderKept DEF NoFrame
<1>4. CASE Dispatch
  <2>1. UNCHANGED <<events, last, receiveSequence, epoch>>
    BY <1>4 DEF Dispatch, OnAck, OnPing, OnNoise, OnError, OnTooEarly, OnEvent,
       LeftByDispatch, channel, callers, consumer
  <2>2. pc = "dispatch"
    BY <1>4 DEF Dispatch, Dispatching, OnAck, OnPing, OnNoise, OnError, OnTooEarly,
       OnEvent
  <2>3. frame.kind \in FrameKinds
    BY <2>2 DEF FrameInv
  <2>4. CASE OnEvent
    <3>1. frame'.seq = frame.seq /\ frame'.epoch = frame.epoch
      BY <2>4 DEF OnEvent, TypeOK, Frame
    <3>2. QED
      BY <2>1, <2>2, <2>3, <3>1, OrderKept DEF Handling
  <2>5. CASE ~OnEvent
    <3>1. frame' = frame \/ frame' = NoFrame
      BY <1>4, <2>5 DEF Dispatch, OnAck, OnPing, OnNoise, OnError, OnTooEarly, Return
    <3>2. QED
      BY <2>1, <2>2, <2>3, <3>1, OrderKept DEF Handling, NoFrame
  <2>6. QED
    BY <2>4, <2>5
<1>5. QED
  BY <1>1, <1>2, <1>3, <1>4 DEF Serving

\* The steps of enqueue drop from the front and append at the back.
LEMMA OrderEnqueue ==
  ASSUME TypeOK, FrameInv, OrderInv, Enqueue
  PROVE  OrderInv'
<1>1. UNCHANGED <<last, receiveSequence, epoch>>
  BY DEF Enqueue, EnqueueSends, EnqueueFull, Evict, Resend, LeftByEnqueue, callers,
     consumer
<1>2. pc \in {"enqueue", "evict", "resend"}
  BY DEF Enqueue, EnqueueSends, EnqueueFull, Evict, Resend
<1>3. /\ frame.seq = receiveSequence /\ frame.epoch = epoch
      /\ Older(receiveSequence, epoch) /\ QueueOrdered
      /\ Older(receiveSequence + 1, epoch)
  <2>1. frame.kind \in FrameKinds
    BY <1>2 DEF FrameInv, HoldsEvent
  <2>2. QED
    BY <1>2, <2>1 DEF OrderInv, Handling
<1>4. receiveSequence \in Nat /\ epoch \in Nat /\ receiveSequence + 1 \in Nat
  BY OrderTypes
<1>5. CASE Send
  <2>1. events' = Append(events, frame) /\ pc' \notin Handling
    BY <1>5 DEF Send, Return, Handling
  <2>2. QueueOrdered' /\ Older(receiveSequence + 1, epoch)'
    BY <1>1, <1>3, <1>4, <2>1, OrderAppend
  <2>3. QED
    BY <1>1, <2>1, <2>2 DEF OrderInv, Older
<1>6. CASE Evict /\ events # <<>>
  <2>1. events' = Tail(events) /\ frame' = frame
    BY <1>6 DEF Evict
  <2>2. Older(receiveSequence, epoch)' /\ QueueOrdered'
    BY <1>1, <1>3, <1>4, <1>6, <2>1, OrderShift
  <2>3. Older(receiveSequence + 1, epoch)'
    BY <1>1, <1>3, <1>4, <1>6, <2>1, OrderShift
  <2>4. QED
    BY <1>1, <1>3, <2>1, <2>2, <2>3 DEF OrderInv, Older
<1>7. CASE UNCHANGED <<events, frame>>
  BY <1>1, <1>2, <1>7, OrderKept DEF Handling
<1>8. QED
  BY <1>5, <1>6, <1>7 DEF Enqueue, EnqueueSends, EnqueueFull, Evict, Resend,
     Return, channel

\* Every step keeps OrderInv.
LEMMA OrderNext == TypeOK /\ FrameInv /\ OrderInv /\ [Next]_vars => OrderInv'
<1> SUFFICES ASSUME TypeOK, FrameInv, OrderInv, [Next]_vars PROVE OrderInv'
  OBVIOUS
<1>1. CASE Connected
  <2>1. /\ UNCHANGED <<events, last, receiveSequence, frame>> /\ epoch' = epoch + 1
        /\ frame = NoFrame
    BY <1>1 DEF Connected, channel, callers, consumer, FrameInv
  <2>2. Older(receiveSequence + 1, epoch + 1)
    <3>1. \A k \in Nat : k <= epoch => k <= epoch + 1
      BY OrderTypes
    <3>2. QED
      BY <3>1, OrderTypes DEF OrderInv, Older
  <2>3. frame'.kind \notin FrameKinds
    BY <2>1 DEF NoFrame
  <2>4. QED
    BY <2>1, <2>2, <2>3 DEF OrderInv, QueueOrdered, Older, Before
<1>2. CASE Reconnecting /\ ~Connected
  <2>1. UNCHANGED <<events, last, receiveSequence, epoch>> /\ pc' \notin Handling
    BY <1>2 DEF Reconnecting, Top, DialFails, RetryOr, DialSucceeds, Unset, Hangup,
       Decide, Sleep, RunDeferred, DeferNext, channel, callers, consumer, Handling
  <2>2. QED
    BY <2>1, OrderKept
<1>3. CASE Receive
  <2>1. /\ events # <<>> /\ events' = Tail(events) /\ last' = Head(events)
        /\ UNCHANGED <<pc, frame, receiveSequence, epoch>>
    BY <1>3 DEF Receive, LeftByCallers, worker
  <2>2. receiveSequence \in Nat /\ epoch \in Nat /\ receiveSequence + 1 \in Nat
    BY OrderTypes
  <2>3. QueueOrdered' /\ Older(receiveSequence + 1, epoch)'
    BY <2>1, <2>2, OrderShift DEF OrderInv
  <2>4. Older(receiveSequence, epoch) => Older(receiveSequence, epoch)'
    BY <2>1, <2>2, OrderShift DEF OrderInv
  <2>5. QED
    BY <2>1, <2>3, <2>4 DEF OrderInv, Older
<1>4. CASE UNCHANGED <<worker, events, last, receiveSequence>>
  BY <1>4, OrderKept DEF worker
<1>5. QED
  BY <1>1, <1>2, <1>3, <1>4, OrderServing, OrderEnqueue DEF Next, Worker,
     ParentCancels, Close, CloseCancels, CloseLocks, CloseHangsUp, CloseReturns,
     DrainReceipts, Terminated, LeftByCallers, vars, channel, consumer

\* OrderInv holds in every reachable state.
LEMMA OrderAlways == Spec => []OrderInv
<1>1. Init => OrderInv
  BY DEF Init, OrderInv, QueueOrdered, Older, Before, NoFrame, Handling
<1>2. QED
  BY <1>1, OrderNext, FrameAlways, TypeCorrect, PTL DEF Spec

\* The consumer receives events in the order of their frames, across
\* reconnects, evictions and overflows.
THEOREM EventsInOrder == Spec => []Ordered
<1>1. FrameInv /\ OrderInv => Ordered
  <2> SUFFICES ASSUME FrameInv, OrderInv, HoldsEvent
               PROVE  /\ Before(last, frame)
                      /\ \A i \in DOMAIN events : Before(events[i], frame)
    BY DEF Ordered, OrderInv, QueueOrdered
  <2>1. pc \in Handling /\ frame.kind \in FrameKinds
    BY DEF HoldsEvent, Handling, FrameInv
  <2>2. QED
    BY <2>1 DEF OrderInv, Older, Before
<1>2. QED
  BY <1>1, OrderAlways, FrameAlways, PTL

-----------------------------------------------------------------------------
(* The mark of a reconnect *)

\* A data event of connection e came before the i-th one that waits.
SeenBefore(e, i) ==
    \/ lastDataEpoch = e
    \/ \E j \in 1 .. (i - 1) : events[j].kind = "data" /\ events[j].epoch = e

Seen(e) == SeenBefore(e, Len(events) + 1)

Unmarked(f) == f.kind = "data" /\ f.epoch > 1 /\ ~f.gap

\* The labels of a worker that may hand over another event.
Serves == {"write", "observe", "retain", "gap", "read", "dispatch", "enqueue",
           "evict", "resend"}

\* ReconnectMarked, strengthened: the frame in the worker's hand obeys it, and
\* once the mark of a connection is taken a data event of it was handed over.
MarkInv ==
    /\ lastDataEpoch <= last.epoch
    /\ dropped = 0 =>
         /\ \A i \in DOMAIN events :
               Unmarked(events[i]) => SeenBefore(events[i].epoch, i)
         /\ HoldsEvent /\ Unmarked(frame) => Seen(frame.epoch)
         /\ pc \in Serves /\ epoch > 1 /\ ~firstData =>
               Seen(epoch) \/ (HoldsEvent /\ frame.kind = "data")

\* A receive keeps what was seen of the connections that still matter.
LEMMA SeenShift ==
  ASSUME TypeOK, OrderInv, MarkInv, Receive, NEW e \in Nat,
         NEW i \in 1 .. Len(events), events[1].epoch <= e, SeenBefore(e, i + 1)
  PROVE  SeenBefore(e, i)'
<1>1. /\ events # <<>> /\ events' = Tail(events)
      /\ lastDataEpoch' = IF Head(events).kind = "data" THEN Head(events).epoch
                          ELSE lastDataEpoch
  BY DEF Receive
<1>2. /\ Len(events) \in Nat \ {0} /\ DOMAIN events = 1 .. Len(events)
      /\ \A k \in 1 .. (Len(events) - 1) : Tail(events)[k] = events[k + 1]
      /\ Head(events) = events[1]
  BY <1>1, TailEntries DEF TypeOK
<1>3. 1 \in DOMAIN events /\ i \in Nat \ {0} /\ i <= Len(events)
  BY <1>2
<1>4. /\ lastDataEpoch \in Nat /\ last.epoch \in Nat /\ events[1].epoch \in Nat
      /\ lastDataEpoch <= last.epoch /\ last.epoch <= events[1].epoch
  BY <1>3, OrderTypes DEF TypeOK, MarkInv, OrderInv, QueueOrdered, Before
<1>5. CASE lastDataEpoch = e
  <2>1. events[1].epoch = e
    <3>1. \A a, b, c \in Nat : a <= b /\ b <= c /\ c <= a => c = a
      OBVIOUS
    <3>2. QED
      BY <1>4, <1>5, <3>1
  <2>2. lastDataEpoch' = e
    BY <1>1, <1>2, <1>5, <2>1
  <2>3. QED
    BY <2>2 DEF SeenBefore
<1>6. ASSUME NEW j \in 1 .. i, events[j].kind = "data" /\ events[j].epoch = e
      PROVE  SeenBefore(e, i)'
  <2>1. CASE j = 1
    BY <1>1, <1>2, <1>6, <2>1 DEF SeenBefore
  <2>2. CASE j # 1
    <3>1. j - 1 \in 1 .. (i - 1) /\ j - 1 \in 1 .. (Len(events) - 1) /\ (j - 1) + 1 = j
      BY <1>3, <2>2
    <3>2. events'[j - 1] = events[j]
      BY <1>1, <1>2, <3>1
    <3>3. QED
      BY <1>6, <3>1, <3>2 DEF SeenBefore
  <2>3. QED
    BY <2>1, <2>2
<1>7. (i + 1) - 1 = i
  BY <1>3
<1>8. QED
  BY <1>5, <1>6, <1>7 DEF SeenBefore

\* A receive keeps MarkInv.
LEMMA MarkReceive ==
  ASSUME TypeOK, FrameInv, OrderInv, MarkInv, Receive
  PROVE  MarkInv'
<1>1. /\ events # <<>> /\ events' = Tail(events) /\ last' = Head(events)
      /\ lastDataEpoch' = IF Head(events).kind = "data" THEN Head(events).epoch
                          ELSE lastDataEpoch
      /\ UNCHANGED <<pc, frame, epoch, firstData, reason, dropped>>
  BY DEF Receive, LeftByCallers, worker
<1>2. /\ Len(events) \in Nat \ {0} /\ DOMAIN events = 1 .. Len(events)
      /\ DOMAIN events' = 1 .. (Len(events) - 1) /\ Len(events') = Len(events) - 1
      /\ \A k \in 1 .. (Len(events) - 1) : events'[k] = events[k + 1]
      /\ Head(events) = events[1]
  BY <1>1, TailEntries, HeadTailProperties DEF TypeOK
<1>3. 1 \in DOMAIN events /\ \A i \in DOMAIN events : i \in Nat
  BY <1>2
<1>4. /\ lastDataEpoch \in Nat /\ last.epoch \in Nat /\ epoch \in Nat
      /\ \A i \in DOMAIN events : events[i].epoch \in Nat
  BY OrderTypes DEF TypeOK
<1>5. lastDataEpoch' <= last'.epoch
  <2>1. lastDataEpoch <= last.epoch /\ last.epoch <= events[1].epoch
    BY <1>3 DEF MarkInv, OrderInv, QueueOrdered, Before
  <2>2. QED
    BY <1>1, <1>2, <1>3, <1>4, <2>1
<1>6. ASSUME dropped = 0, NEW i \in DOMAIN events', Unmarked(events[i])'
      PROVE  SeenBefore(events[i].epoch, i)'
  <2>1. i \in 1 .. Len(events) /\ i + 1 \in DOMAIN events /\ 1 < i + 1
        /\ events'[i] = events[i + 1]
    BY <1>2
  <2>2. PICK e \in Nat : e = events[i + 1].epoch
    BY <1>4, <2>1
  <2>3. SeenBefore(e, i + 1)
    BY <1>6, <2>1, <2>2 DEF MarkInv, Unmarked
  <2>4. events[1].epoch <= e
    BY <1>3, <2>1, <2>2 DEF OrderInv, QueueOrdered, Before
  <2>5. SeenBefore(e, i)'
    BY <2>1, <2>3, <2>4, SeenShift
  <2>6. e = events'[i].epoch
    BY <2>1, <2>2
  <2>7. QED
    BY <2>5, <2>6 DEF SeenBefore
<1>7. ASSUME NEW e \in Nat, events[1].epoch <= e, Seen(e) PROVE Seen(e)'
  <2>1. PICK n \in Nat : n = Len(events)
    BY <1>2
  <2>2. n \in 1 .. Len(events) /\ Len(events') + 1 = n
    BY <1>2, <2>1
  <2>3. SeenBefore(e, n)'
    BY <1>7, <2>1, <2>2, SeenShift DEF Seen
  <2>4. QED
    BY <2>2, <2>3 DEF Seen, SeenBefore
<1>8. events[1].epoch <= epoch
  BY <1>3 DEF OrderInv, Older
<1>9. HoldsEvent' <=> HoldsEvent
  BY <1>1 DEF HoldsEvent
<1>10. HoldsEvent => frame.epoch = epoch
  BY DEF HoldsEvent, FrameInv, OrderInv, Handling
<1>11. Seen(epoch) => Seen(epoch)'
  <2>1. PICK e \in Nat : e = epoch
    BY <1>4
  <2>2. Seen(e) => Seen(e)'
    BY <1>7, <1>8, <2>1
  <2>3. epoch' = e
    BY <1>1, <2>1
  <2>4. QED
    BY <2>1, <2>2, <2>3 DEF Seen, SeenBefore
<1>12. ASSUME dropped = 0, HoldsEvent, Unmarked(frame) PROVE Seen(frame.epoch)'
  <2>1. Seen(epoch)
    BY <1>10, <1>12 DEF MarkInv
  <2>2. frame'.epoch = epoch'
    BY <1>1, <1>10, <1>12
  <2>3. QED
    BY <1>11, <2>1, <2>2 DEF Seen, SeenBefore
<1>13. \A i \in DOMAIN events' :
          dropped' = 0 /\ Unmarked(events[i])' => SeenBefore(events[i].epoch, i)'
  BY <1>1, <1>6
<1>14. dropped' = 0 /\ HoldsEvent' /\ Unmarked(frame)' => Seen(frame.epoch)'
  BY <1>1, <1>9, <1>12 DEF Unmarked
<1>15. dropped' = 0 /\ pc' \in Serves /\ epoch' > 1 /\ ~firstData' =>
          Seen(epoch)' \/ (HoldsEvent' /\ frame'.kind = "data")
  BY <1>1, <1>9, <1>11 DEF MarkInv
<1>16. QED
  BY <1>5, <1>13, <1>14, <1>15 DEF MarkInv

\* Steps that leave the events alone keep MarkInv, as long as they neither hand
\* over an event nor begin to serve a connection.
LEMMA MarkKept ==
  ASSUME MarkInv, UNCHANGED <<events, last, lastDataEpoch, dropped>>,
         HoldsEvent' => HoldsEvent /\ UNCHANGED frame,
         pc' \in Serves =>
            /\ pc \in Serves /\ UNCHANGED <<epoch, firstData>>
            /\ HoldsEvent => HoldsEvent'
  PROVE  MarkInv'
<1>1. \A e : (Seen(e)' <=> Seen(e)) /\ \A i : (SeenBefore(e, i)' <=> SeenBefore(e, i))
  BY DEF Seen, SeenBefore
<1>2. QED
  BY <1>1 DEF MarkInv, Unmarked

\* A send keeps MarkInv: what was seen before an event is seen before it in the
\* longer queue, and the data event appended is one more.
LEMMA MarkSend ==
  ASSUME TypeOK, FrameInv, OrderInv, MarkInv, HoldsEvent,
         events' = Append(events, frame), pc' \notin {"enqueue", "evict", "resend", "gap"},
         UNCHANGED <<last, lastDataEpoch, dropped, epoch, firstData>>
  PROVE  MarkInv'
<1>1. /\ Len(events) \in Nat /\ DOMAIN events = 1 .. Len(events)
      /\ DOMAIN events' = 1 .. (Len(events) + 1)
      /\ \A i \in 1 .. Len(events) : events'[i] = events[i]
      /\ events'[Len(events) + 1] = frame
  BY AppendEntries DEF TypeOK
<1>2. PICK n \in Nat : n = Len(events)
  BY <1>1
<1>3. Len(events') = n + 1
  BY <1>1, <1>2, AppendProperties DEF TypeOK
<1>4. ASSUME NEW e \in Nat, NEW i \in 1 .. (n + 1), SeenBefore(e, i)
      PROVE  SeenBefore(e, i)'
  <2>1. \A j \in 1 .. (i - 1) : j \in 1 .. n
    OBVIOUS
  <2>2. QED
    BY <1>1, <1>2, <1>4, <2>1 DEF SeenBefore
<1>5. ~HoldsEvent'
  BY DEF HoldsEvent
<1>6. /\ \A i \in DOMAIN events : events[i].epoch \in Nat
      /\ frame.epoch \in Nat /\ epoch \in Nat
  BY OrderTypes
<1>7. ASSUME dropped = 0, NEW i \in DOMAIN events', Unmarked(events[i])'
      PROVE  SeenBefore(events[i].epoch, i)'
  <2>1. PICK e \in Nat : e = events'[i].epoch
    BY <1>1, <1>6
  <2>2. SeenBefore(e, i) /\ i \in 1 .. (n + 1)
    <3>1. CASE i \in 1 .. Len(events)
      BY <1>1, <1>2, <1>7, <2>1, <3>1 DEF MarkInv, Unmarked
    <3>2. CASE i = Len(events) + 1
      BY <1>1, <1>2, <1>7, <2>1, <3>2 DEF MarkInv, Unmarked, Seen
    <3>3. QED
      BY <1>1, <1>2, <3>1, <3>2
  <2>3. SeenBefore(e, i)'
    BY <1>4, <2>2
  <2>4. QED
    BY <2>1, <2>3 DEF SeenBefore
<1>8. ASSUME dropped = 0, pc' \in Serves, epoch > 1, ~firstData
      PROVE  Seen(epoch)'
  <2>1. PICK e \in Nat : e = epoch
    BY <1>6
  <2>2. SeenBefore(e, n + 2)'
    <3>1. CASE Seen(epoch)
      <4>1. SeenBefore(e, n + 1)'
        BY <1>2, <1>4, <2>1, <3>1 DEF Seen
      <4>2. \A j \in 1 .. ((n + 1) - 1) : j \in 1 .. ((n + 2) - 1)
        OBVIOUS
      <4>3. QED
        BY <4>1, <4>2 DEF SeenBefore
    <3>2. CASE frame.kind = "data"
      <4>1. frame.epoch = e
        BY <2>1 DEF HoldsEvent, FrameInv, OrderInv, Handling
      <4>2. n + 1 \in 1 .. ((n + 2) - 1) /\ events'[n + 1] = frame
        BY <1>1, <1>2
      <4>3. QED
        BY <3>2, <4>1, <4>2 DEF SeenBefore
    <3>3. pc \in Serves
      BY DEF HoldsEvent, Serves
    <3>4. QED
      BY <1>8, <3>1, <3>2, <3>3 DEF MarkInv
  <2>3. Len(events') + 1 = n + 2
    BY <1>3
  <2>4. QED
    BY <2>1, <2>2, <2>3 DEF Seen, SeenBefore
<1>9. QED
  BY <1>5, <1>7, <1>8 DEF MarkInv

\* The event of a frame takes the mark of its connection, or follows the data
\* event that took it.
LEMMA MarkEvent ==
  ASSUME TypeOK, OrderInv, MarkInv, OnEvent
  PROVE  MarkInv'
<1>1. /\ pc = "dispatch" /\ frame.kind \in FrameKinds /\ pc' = "enqueue"
      /\ UNCHANGED <<epoch, events, dropped, last, lastDataEpoch>>
  BY DEF OnEvent, Dispatching, LeftByDispatch, channel, callers, consumer
<1>2. ~HoldsEvent /\ pc \in Serves /\ frame.epoch = epoch
  BY <1>1 DEF HoldsEvent, Serves, OrderInv, Handling
<1>3. \A e : (Seen(e)' <=> Seen(e)) /\ \A i : (SeenBefore(e, i)' <=> SeenBefore(e, i))
  BY <1>1 DEF Seen, SeenBefore
<1>4. dropped = 0 /\ epoch > 1 /\ ~firstData => Seen(epoch)
  BY <1>2 DEF MarkInv
<1>5. CASE frame.kind = "data"
  <2>1. /\ frame' = [frame EXCEPT !.gap = firstData] /\ firstData' = FALSE
        /\ frame \in Frame
    BY <1>5 DEF OnEvent, TakesMark, TypeOK
  <2>2. /\ frame'.kind = "data" /\ frame'.epoch = epoch /\ frame'.gap = firstData
    BY <1>2, <1>5, <2>1 DEF Frame
  <2>3. HoldsEvent'
    BY <1>1 DEF HoldsEvent
  <2>4. dropped = 0 /\ Unmarked(frame)' => Seen(epoch)
    BY <1>4, <2>2 DEF Unmarked
  <2>5. QED
    BY <1>1, <1>3, <2>2, <2>3, <2>4 DEF MarkInv, Unmarked
<1>6. CASE frame.kind # "data"
  <2>1. UNCHANGED <<frame, firstData>>
    BY <1>6 DEF OnEvent, TakesMark
  <2>2. QED
    BY <1>1, <1>3, <1>4, <1>6, <2>1 DEF MarkInv, Unmarked
<1>7. QED
  BY <1>5, <1>6

\* A reconnect starts a connection whose mark is not taken yet.
LEMMA MarkConnected ==
  ASSUME TypeOK, MarkInv, Connected
  PROVE  MarkInv'
<1>1. /\ UNCHANGED <<events, dropped, last, lastDataEpoch>>
      /\ epoch' = epoch + 1 /\ (firstData' <=> epoch + 1 > 1)
      /\ pc' = "write" \/ (pc' = "gap" /\ reason' = "reconnect")
  BY DEF Connected, Reconnected, channel, callers, consumer
<1>2. ~HoldsEvent'
  BY <1>1 DEF HoldsEvent
<1>3. \A e : \A i : (SeenBefore(e, i)' <=> SeenBefore(e, i))
  BY <1>1 DEF SeenBefore
<1>4. QED
  BY <1>1, <1>2, <1>3 DEF MarkInv, Unmarked

\* The steps of enqueue keep MarkInv: they send the event, or drop one, after
\* which it promises nothing.
LEMMA MarkEnqueue ==
  ASSUME TypeOK, FrameInv, OrderInv, MarkInv, Enqueue
  PROVE  MarkInv'
<1>1. UNCHANGED <<last, lastDataEpoch, epoch, firstData>>
  BY DEF Enqueue, EnqueueSends, EnqueueFull, Evict, Resend, LeftByEnqueue, callers,
     consumer
<1>2. pc \in {"enqueue", "evict", "resend"} /\ HoldsEvent /\ pc \in Serves
  BY DEF Enqueue, EnqueueSends, EnqueueFull, Evict, Resend, HoldsEvent, Serves
<1>3. CASE Send /\ UNCHANGED dropped
  <2>1. events' = Append(events, frame) /\ pc' \in {"read", "unset"}
    BY <1>3 DEF Send, Return
  <2>2. QED
    BY <1>1, <1>2, <1>3, <2>1, MarkSend
<1>4. CASE Evict /\ events # <<>>
  <2>1. dropped' # 0
    BY <1>4 DEF Evict, TypeOK
  <2>2. QED
    BY <1>1, <2>1 DEF MarkInv
<1>5. CASE (Evict /\ events = <<>>) \/ EnqueueFull
  <2>1. UNCHANGED <<events, dropped, frame>> /\ HoldsEvent'
    BY <1>5 DEF Evict, EnqueueFull, channel, HoldsEvent
  <2>2. QED
    BY <1>1, <1>2, <2>1, MarkKept
<1>6. CASE Return("dropped") /\ UNCHANGED <<events, dropped>>
  <2>1. ~HoldsEvent' /\ pc' \notin Serves
    BY <1>6 DEF Return, HoldsEvent, Serves
  <2>2. QED
    BY <1>1, <1>6, <2>1, MarkKept
<1>7. QED
  BY <1>3, <1>4, <1>5, <1>6 DEF Enqueue, EnqueueSends, Resend

\* Every step keeps MarkInv.
LEMMA MarkNext ==
  TypeOK /\ FrameInv /\ OrderInv /\ MarkInv /\ [Next]_vars => MarkInv'
<1> SUFFICES ASSUME TypeOK, FrameInv, OrderInv, MarkInv, [Next]_vars PROVE MarkInv'
  OBVIOUS
<1>1. CASE Reconnecting /\ ~Connected
  <2>1. UNCHANGED <<events, dropped, last, lastDataEpoch>>
    BY <1>1 DEF Reconnecting, Top, DialFails, DialSucceeds, Unset, Hangup, Decide,
       Sleep, RunDeferred, channel, callers, consumer
  <2>2. pc' \notin Serves /\ ~HoldsEvent'
    BY <1>1 DEF Reconnecting, Top, DialFails, RetryOr, DialSucceeds, Unset, Hangup,
       Decide, Sleep, RunDeferred, DeferNext, HoldsEvent, Serves
  <2>3. QED
    BY <2>1, <2>2, MarkKept
<1>2. CASE Serving
  <2>1. UNCHANGED <<events, dropped, last, lastDataEpoch, epoch, firstData>>
    BY <1>2 DEF Serving, Write, ReadFrame, ReadFails, Observe, Retain, RecordGap,
       channel, callers, consumer
  <2>2. pc \in Serves /\ ~HoldsEvent'
    BY <1>2 DEF Serving, Write, Return, ReadFrame, ReadFails, Observe, Retain,
       RecordGap, AfterReceipt, HoldsEvent, Serves
  <2>3. HoldsEvent => pc' \notin Serves
    BY <1>2 DEF Serving, Write, ReadFrame, ReadFails, Observe, Retain, RecordGap,
       GapIsFatal, HoldsEvent, Serves
  <2>4. QED
    BY <2>1, <2>2, <2>3, MarkKept
<1>3. CASE Dispatch /\ ~OnEvent
  <2>1. UNCHANGED <<events, dropped, last, lastDataEpoch, epoch, firstData>>
    BY <1>3 DEF Dispatch, OnAck, OnPing, OnNoise, OnError, OnTooEarly,
       LeftByDispatch, channel, callers, consumer
  <2>2. pc \in Serves /\ ~HoldsEvent /\ ~HoldsEvent'
    BY <1>3 DEF Dispatch, Dispatching, OnAck, OnPing, OnNoise, OnError, OnTooEarly,
       Return, HoldsEvent, Serves
  <2>3. QED
    BY <2>1, <2>2, MarkKept
<1>4. CASE UNCHANGED <<worker, events, dropped, last, lastDataEpoch>>
  BY <1>4, MarkKept DEF worker, HoldsEvent
<1>5. QED
  BY <1>1, <1>2, <1>3, <1>4, MarkConnected, MarkEvent, MarkEnqueue, MarkReceive
     DEF Next, Worker, ParentCancels, Close, CloseCancels, CloseLocks,
     CloseHangsUp, CloseReturns, DrainReceipts, Terminated, LeftByCallers, vars,
     channel, consumer

\* MarkInv holds in every reachable state.
LEMMA MarkAlways == Spec => []MarkInv
<1>1. Init => MarkInv
  BY DEF Init, MarkInv, NoFrame, HoldsEvent, Serves, Unmarked
<1>2. QED
  BY <1>1, MarkNext, OrderAlways, FrameAlways, TypeCorrect, PTL DEF Spec

\* The consumer cannot take the first data of a new connection for a
\* continuation, unless an event was dropped.
THEOREM ReconnectsMarked == Spec => []ReconnectMarked
<1>1. MarkInv => ReconnectMarked
  BY DEF MarkInv, ReconnectMarked, Unmarked, SeenBefore
<1>2. QED
  BY <1>1, MarkAlways, PTL

-----------------------------------------------------------------------------
(* The evidence of what was lost *)

\* One more gap of reason r is counted when it is appended.
LEMMA CountAppended ==
  ASSUME TypeOK, NEW g \in Gap, gaps' = Append(gaps, g), NEW r
  PROVE  /\ CountGaps(r) \in Nat
         /\ CountGaps(r)' = CountGaps(r) + (IF g.reason = r THEN 1 ELSE 0)
<1> DEFINE Of == {i \in DOMAIN gaps : gaps[i].reason = r}
<1>1. /\ Len(gaps) \in Nat /\ DOMAIN gaps = 1 .. Len(gaps)
      /\ DOMAIN gaps' = 1 .. (Len(gaps) + 1)
      /\ \A i \in 1 .. Len(gaps) : gaps'[i] = gaps[i]
      /\ gaps'[Len(gaps) + 1] = g
  BY AppendEntries DEF TypeOK
<1>2. IsFiniteSet(Of) /\ Cardinality(Of) \in Nat
  <2>1. IsFiniteSet(1 .. Len(gaps))
    BY <1>1, FS_Interval
  <2>2. Of \in SUBSET (1 .. Len(gaps))
    BY <1>1
  <2>3. QED
    BY <2>1, <2>2, FS_Subset, FS_CardinalityType
<1>3. {i \in DOMAIN gaps' : gaps'[i].reason = r}
         = IF g.reason = r THEN Of \cup {Len(gaps) + 1} ELSE Of
  BY <1>1
<1>4. Len(gaps) + 1 \notin Of
  BY <1>1
<1>5. Cardinality(Of \cup {Len(gaps) + 1}) = Cardinality(Of) + 1
  BY <1>2, <1>4, FS_AddElement
<1>6. CountGaps(r) = Cardinality(Of)
  BY DEF CountGaps
<1>7. CountGaps(r)' = Cardinality(IF g.reason = r THEN Of \cup {Len(gaps) + 1} ELSE Of)
  BY <1>3 DEF CountGaps
<1> HIDE DEF Of
<1>8. QED
  BY <1>2, <1>5, <1>6, <1>7

\* A gap that is not counted yet is counted once it is recorded, as long as no
\* gap is evicted.
LEMMA ExplainRecord ==
  ASSUME TypeOK, GapHasReason, RecordGap, gapDropped' = 0, NEW r \in GapReasons
  PROVE  /\ gapDropped = 0
         /\ CountGaps(r)' + PendingGap(r)' = CountGaps(r) + PendingGap(r)
<1> DEFINE gap == [reason |-> reason, epoch |-> epoch, seq |-> frame.seq]
<1>1. pc = "gap" /\ reason \in GapReasons /\ PushGap(gap) /\ reason' = "none"
  BY DEF RecordGap, GapHasReason, TypeOK
<1>2. gap \in Gap /\ gap.reason = reason
  BY <1>1 DEF Gap, TypeOK, Frame
<1> HIDE DEF gap
<1>3. gapDropped = 0 /\ gaps' = Append(gaps, gap)
  BY <1>1 DEF PushGap, TypeOK
<1>4. /\ CountGaps(r) \in Nat
      /\ CountGaps(r)' = CountGaps(r) + (IF reason = r THEN 1 ELSE 0)
  BY <1>2, <1>3, CountAppended
<1>5. PendingGap(r)' = 0 /\ PendingGap(r) = IF reason = r THEN 1 ELSE 0
  BY <1>1 DEF PendingGap
<1>6. QED
  BY <1>3, <1>4, <1>5

\* Until a gap is evicted, every step keeps the records of each reason.
LEMMA ExplainNext ==
  ASSUME TypeOK, GapHasReason, gapDropped = 0 => GapsByReason, [Next]_vars,
         gapDropped' = 0
  PROVE  GapsByReason'
<1>1. CASE RecordGap
  <2>1. UNCHANGED <<epoch, receiptDropped>>
    BY <1>1 DEF RecordGap
  <2>2. \A r \in GapReasons :
           /\ gapDropped = 0
           /\ CountGaps(r)' + PendingGap(r)' = CountGaps(r) + PendingGap(r)
    BY <1>1, ExplainRecord
  <2>3. QED
    BY <2>1, <2>2 DEF GapsByReason, Reconnects
<1>2. ASSUME UNCHANGED gaps, NEW r PROVE CountGaps(r)' = CountGaps(r)
  BY <1>2 DEF CountGaps
<1>3. ASSUME NEW r PROVE CountGaps(r) \in Nat
  <2>1. /\ Len(gaps) \in Nat /\ DOMAIN gaps = 1 .. Len(gaps)
    BY LenProperties DEF TypeOK
  <2>2. IsFiniteSet(1 .. Len(gaps))
    BY <2>1, FS_Interval
  <2>3. {i \in DOMAIN gaps : gaps[i].reason = r} \in SUBSET (1 .. Len(gaps))
    BY <2>1
  <2>4. QED
    BY <2>2, <2>3, FS_Subset, FS_CardinalityType DEF CountGaps
<1>4. CASE Connected
  <2>1. /\ UNCHANGED <<gaps, gapDropped, receiptDropped>> /\ epoch' = epoch + 1
        /\ pc = "dialed" /\ epoch \in Nat
        /\ (epoch + 1 > 1 => pc' = "gap" /\ reason' = "reconnect")
        /\ (~(epoch + 1 > 1) => pc' = "write")
    BY <1>4 DEF Connected, Reconnected, retention, TypeOK
  <2>2. /\ PendingGap("reconnect") = 0 /\ PendingGap("receipt_overflow") = 0
        /\ PendingGap("receipt_overflow")' = 0
        /\ PendingGap("reconnect")' = (IF epoch + 1 > 1 THEN 1 ELSE 0)
    BY <2>1 DEF PendingGap
  <2>3. QED
    BY <1>2, <1>3, <2>1, <2>2 DEF GapsByReason, Reconnects
<1>5. CASE Retain
  <2>1. /\ UNCHANGED <<gaps, gapDropped, epoch>> /\ pc = "retain"
        /\ receiptDropped \in Nat
    BY <1>5 DEF Retain, TypeOK
  <2>2. /\ PendingGap("reconnect") = 0 /\ PendingGap("receipt_overflow") = 0
    BY <2>1 DEF PendingGap
  <2>3. \/ pc' # "gap" /\ UNCHANGED receiptDropped
        \/ /\ pc' = "gap" /\ reason' = "receipt_overflow"
           /\ ReceiptPolicy = "drop_oldest" => receiptDropped' = receiptDropped + 1
    BY <1>5 DEF Retain, AfterReceipt, EvictReceipt
  <2>4. CASE pc' # "gap" /\ UNCHANGED receiptDropped
    <3>1. PendingGap("reconnect")' = 0 /\ PendingGap("receipt_overflow")' = 0
      BY <2>4 DEF PendingGap
    <3>2. QED
      BY <1>2, <2>1, <2>2, <2>4, <3>1 DEF GapsByReason, Reconnects
  <2>5. CASE /\ pc' = "gap" /\ reason' = "receipt_overflow"
             /\ ReceiptPolicy = "drop_oldest" => receiptDropped' = receiptDropped + 1
    <3>1. PendingGap("reconnect")' = 0 /\ PendingGap("receipt_overflow")' = 1
      BY <2>5 DEF PendingGap
    <3>2. QED
      BY <1>2, <1>3, <2>1, <2>2, <2>5, <3>1 DEF GapsByReason, Reconnects
  <2>6. QED
    BY <2>3, <2>4, <2>5
<1>6. CASE /\ UNCHANGED <<gaps, gapDropped, epoch, receiptDropped>>
           /\ \A r \in {"reconnect", "receipt_overflow"} :
                 PendingGap(r)' = PendingGap(r)
  BY <1>2, <1>6 DEF GapsByReason, Reconnects
<1>7. RecordGap \/ Connected \/ Retain
      \/ UNCHANGED <<gaps, gapDropped, epoch, receiptDropped>>
  BY DEF Next, Worker, Reconnecting, Top, DialFails, DialSucceeds,
     Unset, Hangup, Decide, Sleep, RunDeferred, Serving, Write, ReadFrame,
     ReadFails, Observe, Dispatch, OnAck, OnPing, OnNoise, OnError,
     OnTooEarly, OnEvent, LeftByDispatch, Enqueue, EnqueueSends, EnqueueFull,
     Evict, Resend, LeftByEnqueue, ParentCancels, Close, CloseCancels,
     CloseLocks, CloseHangsUp, CloseReturns, Receive, DrainReceipts, Terminated,
     LeftByCallers, vars, worker, retention
<1>8. \/ RecordGap \/ Connected \/ Retain
      \/ pc # "gap" /\ pc' # "gap"
      \/ pc # "gap" /\ pc' = "gap" /\ reason' \in {"receipt_observer", "overflow_fail"}
      \/ UNCHANGED <<pc, reason>>
  BY DEF Next, Worker, Reconnecting, Top, DialFails, RetryOr, DialSucceeds,
     Unset, Hangup, Decide, Sleep, RunDeferred, DeferNext, Serving, Write, Return,
     ReadFrame, ReadFails, Observe, Dispatch, Dispatching, OnAck, OnPing, OnNoise,
     OnError, OnTooEarly, OnEvent, Enqueue, EnqueueSends, EnqueueFull,
     Evict, Resend, Send, ParentCancels, Close, CloseCancels,
     CloseLocks, CloseHangsUp, CloseReturns, Receive, DrainReceipts, Terminated,
     LeftByCallers, vars, worker
<1>9. \/ RecordGap \/ Connected \/ Retain
      \/ \A r \in {"reconnect", "receipt_overflow"} : PendingGap(r)' = PendingGap(r)
  BY <1>8 DEF PendingGap
<1>10. QED
  BY <1>1, <1>4, <1>5, <1>6, <1>7, <1>9

\* Every step keeps the number of gaps that were recorded and are due.
LEMMA AddUpNext ==
  ASSUME TypeOK, GapHasReason, EndInv, GapsAddUp, [Next]_vars
  PROVE  GapsAddUp'
<1> USE DEF GapsAddUp, Reconnects, GapIsFatal
<1> /\ epoch \in Nat /\ receiptDropped \in Nat /\ gapDropped \in Nat
    /\ Len(gaps) \in Nat
    /\ result \in FatalCauses \cup {"none", "dropped", "finished"}
    /\ ReceiptPolicy \in {"drop_oldest", "fail"}
  BY StreamAssumption DEF TypeOK, StreamAssumption
<1>1. CASE RecordGap
  <2> DEFINE gap == [reason |-> reason, epoch |-> epoch, seq |-> frame.seq]
  <2>1. PushGap(gap)
    BY <1>1 DEF RecordGap
  <2>2. gap \in Gap
    BY <1>1 DEF RecordGap, GapHasReason, TypeOK, Frame, Gap
  <2> HIDE DEF gap
  <2>3. Len(gaps') + gapDropped' = Len(gaps) + gapDropped + 1
    <3> gaps \in Seq(Gap)
      BY DEF TypeOK
    <3>1. CASE GapRoom
      <4>1. Len(Append(gaps, gap)) = Len(gaps) + 1
        BY <2>2
      <4>2. gaps' = Append(gaps, gap) /\ gapDropped' = gapDropped
        BY <2>1, <3>1 DEF PushGap
      <4>3. QED
        BY <4>1, <4>2
    <3>2. CASE ~GapRoom
      <4>1. gaps # <<>>
        BY <3>2, CapacitiesPositive DEF GapRoom
      <4>2. Len(Append(Tail(gaps), gap)) = Len(gaps)
        BY <2>2, <4>1
      <4>3. gaps' = Append(Tail(gaps), gap) /\ gapDropped' = gapDropped + 1
        BY <2>1, <3>2 DEF PushGap
      <4>4. Len(gaps') = Len(gaps) /\ gapDropped' = gapDropped + 1
        BY <4>2, <4>3
      <4> HIDE DEF GapsAddUp
      <4>5. QED
        BY <4>4
    <3>3. QED
      BY <3>1, <3>2
  <2>4. UNCHANGED <<epoch, receiptDropped>> /\ result \notin GapReasons
    BY <1>1 DEF RecordGap, EndInv, Ends, Leaving
  <2>5. pc = "gap" /\ pc' # "gap"
    BY <1>1 DEF RecordGap, AfterReceipt
  <2>6. result' \in GapReasons <=> GapIsFatal
    BY <1>1, <2>4 DEF RecordGap
  <2>7. Len(gaps') \in Nat /\ gapDropped' \in Nat
    BY TypeNext DEF TypeOK
  <2> HIDE DEF GapIsFatal
  <2>8. QED
    BY <2>3, <2>4, <2>5, <2>6, <2>7
<1>2. CASE Connected
  BY <1>2 DEF Connected, Reconnected, EndInv, Ends, Leaving, retention
<1>3. CASE Retain
  BY <1>3 DEF Retain, AfterReceipt, EvictReceipt, EndInv, Ends, Leaving
<1>4. CASE Observe \/ EnqueueFull
  BY <1>4 DEF Observe, EnqueueFull, LeftByEnqueue, retention, EndInv, Ends, Leaving
<1>5. CASE /\ UNCHANGED <<gaps, gapDropped, receiptDropped, epoch>>
           /\ pc # "gap" /\ pc' # "gap"
           /\ result' = result \/ {result, result'} \cap GapReasons = {}
  BY <1>5
<1>6. CASE UNCHANGED <<gaps, gapDropped, receiptDropped, epoch, pc, reason, result>>
  BY <1>6
<1>7. CASE Reconnecting /\ ~Connected
  BY <1>5, <1>7 DEF Reconnecting, Top, DialFails, RetryOr, DialSucceeds, Unset,
     Hangup, Decide, Sleep, RunDeferred, DeferNext, retention
<1>8. CASE Write \/ ReadFrame \/ ReadFails
  BY <1>5, <1>8 DEF Write, ReadFrame, ReadFails, Return, EndInv, Ends, Leaving,
     retention
<1>9. CASE Dispatch
  BY <1>5, <1>9 DEF Dispatch, Dispatching, OnAck, OnPing, OnNoise, OnError,
     OnTooEarly, OnEvent, Return, LeftByDispatch, retention, EndInv, Ends, Leaving
<1>10. CASE EnqueueSends \/ Evict \/ Resend
  BY <1>5, <1>10 DEF EnqueueSends, Evict, Resend, Send, Return, LeftByEnqueue,
     retention, EndInv, Ends, Leaving
<1>11. QED
  BY <1>1, <1>2, <1>3, <1>4, <1>6, <1>7, <1>8, <1>9, <1>10 DEF Next, Worker, Serving,
     Enqueue, ParentCancels, Close, CloseCancels, CloseLocks, CloseHangsUp,
     CloseReturns, Receive, DrainReceipts, Terminated, LeftByCallers, vars, worker,
     retention

\* The gaps explain every reconnect, every receipt dropped and the end of the
\* stream: in number always, and until a gap is evicted reason by reason.
THEOREM LossesExplained == Spec => []GapsExplain
<1>1. Init => GapsExplain
  <2> SUFFICES ASSUME Init PROVE GapsExplain
    OBVIOUS
  <2>1. /\ gaps = <<>> /\ epoch = 0 /\ pc = "top" /\ receiptDropped = 0
        /\ gapDropped = 0 /\ result = "none"
    BY DEF Init
  <2>2. \A r : {i \in DOMAIN gaps : gaps[i].reason = r} = {}
    BY <2>1
  <2>3. \A r : CountGaps(r) = 0
    BY <2>2, FS_EmptySet DEF CountGaps
  <2>4. GapsAddUp
    BY <2>1 DEF GapsAddUp, Reconnects
  <2>5. QED
    BY <2>1, <2>3, <2>4 DEF GapsExplain, GapsByReason, Reconnects, PendingGap
<1>2. TypeOK /\ GapHasReason /\ EndInv /\ GapsExplain /\ [Next]_vars => GapsExplain'
  BY ExplainNext, AddUpNext DEF GapsExplain
<1>3. QED
  BY <1>1, <1>2, ReasonAlways, EndAlways, TypeCorrect, PTL DEF Spec

\* Only finitely many receipts can be missing.
LEMMA MissingFinite ==
  ASSUME TypeOK
  PROVE  IsFiniteSet(Missing) /\ Cardinality(Missing) \in Nat
<1>1. IsFiniteSet(1 .. receiveSequence)
  BY FS_Interval DEF TypeOK
<1>2. Missing \in SUBSET (1 .. receiveSequence)
  BY DEF Missing
<1>3. QED
  BY <1>1, <1>2, FS_Subset, FS_CardinalityType

\* The receipts of a buffer.
Entries(q) == {q[i] : i \in DOMAIN q}

\* A receipt that is appended is in the buffer with those that were there.
LEMMA ArchivedAppended ==
  ASSUME NEW q \in Seq(Nat), NEW n \in Nat
  PROVE  Entries(Append(q, n)) = Entries(q) \cup {n}
<1> DEFINE r == Append(q, n)
<1>1. /\ Len(q) \in Nat /\ DOMAIN q = 1 .. Len(q)
      /\ DOMAIN r = 1 .. (Len(q) + 1)
      /\ \A i \in 1 .. Len(q) : r[i] = q[i]
      /\ r[Len(q) + 1] = n
  BY AppendEntries
<1> HIDE DEF r
<1>2. \A i \in 1 .. (Len(q) + 1) : i \in 1 .. Len(q) \/ i = Len(q) + 1
  BY <1>1
<1>3. 1 .. Len(q) \subseteq 1 .. (Len(q) + 1) /\ Len(q) + 1 \in 1 .. (Len(q) + 1)
  BY <1>1
<1>4. Entries(r) = Entries(q) \cup {n}
  BY <1>1, <1>2, <1>3 DEF Entries
<1>5. QED
  BY <1>4 DEF r

\* The buffer that lost its oldest receipt lacks at most that one.
LEMMA ArchivedTail ==
  ASSUME NEW q \in Seq(Nat), q # <<>>
  PROVE  /\ Tail(q) \in Seq(Nat)
         /\ Entries(q) \subseteq Entries(Tail(q)) \cup {q[1]}
<1>1. /\ Len(q) \in Nat \ {0} /\ DOMAIN q = 1 .. Len(q)
      /\ DOMAIN Tail(q) = 1 .. (Len(q) - 1)
      /\ \A i \in 1 .. (Len(q) - 1) : Tail(q)[i] = q[i + 1]
  BY TailEntries
<1>2. ASSUME NEW i \in 1 .. Len(q), i # 1
      PROVE  i - 1 \in 1 .. (Len(q) - 1) /\ (i - 1) + 1 = i
  BY <1>1, <1>2
<1>3. ASSUME NEW i \in 1 .. Len(q), i # 1
      PROVE  \E j \in DOMAIN Tail(q) : Tail(q)[j] = q[i]
  BY <1>1, <1>2, <1>3
<1>4. QED
  BY <1>1, <1>3 DEF Entries

\* No frame becomes a missing one when no receipt disappears, and the unsettled
\* frame stays unsettled and out of sight.
LEMMA MissingShrinks ==
  ASSUME receiveSequence' = receiveSequence, Archived \subseteq Archived',
         Unsettled => Unsettled' /\ \A n : Visible(n)' => Visible(n)
  PROVE  Missing' \subseteq Missing
  BY DEF Missing

\* Steps that make no frame a missing one keep EvidenceFirst.
LEMMA EvidenceKept ==
  ASSUME TypeOK, EvidenceFirst, Missing' \subseteq Missing,
         receiptDropped' = receiptDropped
  PROVE  EvidenceFirst'
<1>1. Cardinality(Missing') <= Cardinality(Missing) /\ Cardinality(Missing') \in Nat
  BY MissingFinite, FS_Subset, FS_CardinalityType
<1>2. QED
  BY <1>1, MissingFinite DEF EvidenceFirst, TypeOK

\* Taking the oldest event makes no other frame visible.
LEMMA VisibleTail ==
  ASSUME TypeOK, events # <<>>, events' = Tail(events),
         last' = Head(events) \/ last' = last, NEW n, Visible(n)'
  PROVE  Visible(n)
<1>1. /\ Len(events) \in Nat \ {0} /\ DOMAIN events = 1 .. Len(events)
      /\ DOMAIN Tail(events) = 1 .. (Len(events) - 1)
      /\ \A i \in 1 .. (Len(events) - 1) : Tail(events)[i] = events[i + 1]
      /\ Head(events) = events[1]
  BY TailEntries DEF TypeOK
<1>2. \A i \in 1 .. (Len(events) - 1) : i + 1 \in 1 .. Len(events)
  BY <1>1
<1>3. 1 \in 1 .. Len(events)
  BY <1>1
<1>4. QED
  BY <1>1, <1>2, <1>3 DEF Visible

\* Where the worker neither settles a receipt nor leaves, no frame is unsettled.
LEMMA SettledElsewhere ==
  ASSUME TypeOK, EndInv,
         pc \notin {"observe", "retain", "gap", "unset", "hangup", "decide"} \cup Leaving
  PROVE  ~Unsettled
  BY DEF Unsettled, EndInv, Ends

\* The critical section of observeReceipt settles the frame it is at work on,
\* and loses a receipt only when it counts it.
LEMMA EvidenceRetain ==
  ASSUME TypeOK, EndInv, FrameInv, OrderInv, EvidenceFirst, Retain,
         ReceiptCapacity > 0
  PROVE  EvidenceFirst'
<1>1. /\ UNCHANGED <<last, events, receiveSequence, drained, result>>
      /\ pc = "retain"
  BY DEF Retain, channel, callers, consumer
<1>2. \A n : Visible(n)' = Visible(n)
  BY <1>1 DEF Visible
<1>3. /\ receipts \in Seq(Nat) /\ frame.seq \in Nat /\ receiptDropped \in Nat
      /\ receiveSequence \in Nat
  BY DEF TypeOK, Frame
<1>4. Unsettled => frame.seq = receiveSequence
  <2>1. result \notin {"receipt_observer", "receipt_overflow"}
    BY <1>1 DEF EndInv, Ends, Leaving
  <2>2. frame.kind # "sent" => frame.kind \in FrameKinds
    BY <1>1 DEF FrameInv, TypeOK, Frame
  <2>3. QED
    BY <1>1, <2>1, <2>2 DEF Unsettled, OrderInv, Handling
<1> Archived = drained \cup Entries(receipts)
    /\ Archived' = drained' \cup Entries(receipts')
  BY DEF Archived, Entries
<1>5. CASE ReceiptRoom
  <2>1. receipts' = Append(receipts, frame.seq) /\ UNCHANGED receiptDropped
    BY <1>5 DEF Retain
  <2>2. Archived' = Archived \cup {frame.seq}
    BY <1>1, <1>3, <2>1, ArchivedAppended
  <2>3. Missing' \subseteq Missing
    BY <1>1, <1>4, <2>2 DEF Missing
  <2>4. QED
    BY <2>1, <2>3, EvidenceKept
<1>6. CASE ~ReceiptRoom /\ ReceiptPolicy = "drop_oldest"
  <2>1. /\ receipts' = Append(Tail(receipts), frame.seq)
        /\ receiptDropped' = receiptDropped + 1
    BY <1>6 DEF Retain, EvictReceipt
  <2>2. receipts # <<>>
    BY <1>6, StreamAssumption DEF ReceiptRoom, StreamAssumption
  <2>3. Archived \subseteq Archived' \cup {receipts[1]} /\ frame.seq \in Archived'
    <3>1. Tail(receipts) \in Seq(Nat)
          /\ Entries(receipts) \subseteq Entries(Tail(receipts)) \cup {receipts[1]}
      BY <1>3, <2>2, ArchivedTail
    <3>2. Entries(receipts') = Entries(Tail(receipts)) \cup {frame.seq}
      BY <1>3, <2>1, <3>1, ArchivedAppended
    <3>3. QED
      BY <1>1, <3>1, <3>2
  <2>4. Missing' \subseteq Missing \cup {receipts[1]}
    BY <1>1, <1>4, <2>3 DEF Missing
  <2>5. Cardinality(Missing \cup {receipts[1]}) <= Cardinality(Missing) + 1
        /\ IsFiniteSet(Missing \cup {receipts[1]})
    BY MissingFinite, FS_AddElement
  <2>6. Cardinality(Missing') <= Cardinality(Missing \cup {receipts[1]})
        /\ Cardinality(Missing') \in Nat
        /\ Cardinality(Missing \cup {receipts[1]}) \in Nat
    BY <2>4, <2>5, FS_Subset, FS_CardinalityType
  <2>7. Cardinality(Missing) <= receiptDropped
    BY <1>6 DEF EvidenceFirst
  <2>8. Cardinality(Missing') <= receiptDropped + 1
    BY <1>3, <2>5, <2>6, <2>7, MissingFinite
  <2>9. QED
    BY <1>6, <2>1, <2>8 DEF EvidenceFirst
<1>7. CASE ~ReceiptRoom /\ ReceiptPolicy # "drop_oldest"
  <2>1. /\ UNCHANGED <<receipts, receiptDropped, frame>>
        /\ pc' = "gap" /\ reason' = "receipt_overflow"
    BY <1>7 DEF Retain
  <2>2. Archived' = Archived
    BY <1>1, <2>1 DEF Archived
  <2>3. Unsettled => Unsettled'
    BY <1>1, <1>7, <2>1, StreamAssumption DEF Unsettled, GapIsFatal, StreamAssumption
  <2>4. QED
    BY <1>1, <1>2, <2>1, <2>2, <2>3, MissingShrinks, EvidenceKept
<1>8. QED
  BY <1>5, <1>6, <1>7

\* A frame that is read starts out of sight: it is newer than every event.
LEMMA EvidenceRead ==
  ASSUME TypeOK, EndInv, OrderInv, EvidenceFirst, ReadFrame
  PROVE  EvidenceFirst'
<1>1. /\ UNCHANGED <<last, events, receipts, drained, receiptDropped>>
      /\ receiveSequence' = receiveSequence + 1 /\ pc = "read"
      /\ pc' = "observe" /\ frame'.kind # "sent"
  BY DEF ReadFrame, NextSequence, channel, callers, consumer, retention
<1>2. ~Unsettled /\ Unsettled'
  BY <1>1, SettledElsewhere DEF Leaving, Unsettled
<1>3. \A n : n = receiveSequence + 1 => ~Visible(n)'
  BY <1>1, OrderTypes DEF OrderInv, Older, Visible
<1>4. \A n \in 1 .. (receiveSequence + 1) :
         n \in 1 .. receiveSequence \/ n = receiveSequence + 1
  BY OrderTypes
<1>5. Archived' = Archived
  BY <1>1 DEF Archived
<1>6. Missing' \subseteq Missing
  BY <1>1, <1>2, <1>3, <1>4, <1>5 DEF Missing
<1>7. QED
  BY <1>1, <1>6, EvidenceKept

\* Every step keeps EvidenceFirst.
LEMMA EvidenceNext ==
  /\ TypeOK /\ GapHasReason /\ EndInv /\ FrameInv /\ OrderInv /\ EvidenceFirst
  /\ [Next]_vars
  => EvidenceFirst'
<1> SUFFICES ASSUME TypeOK, GapHasReason, EndInv, FrameInv, OrderInv, EvidenceFirst,
                    [Next]_vars, ReceiptCapacity > 0
             PROVE  EvidenceFirst'
  BY DEF EvidenceFirst
<1> DEFINE Same == UNCHANGED <<last, events>>
           Kept == UNCHANGED <<receipts, drained, receiptDropped, receiveSequence>>
<1>1. /\ Same => \A n : Visible(n)' = Visible(n)
      /\ Kept => Archived' = Archived
  BY DEF Visible, Archived
<1>2. ASSUME Kept, Unsettled => Same /\ Unsettled' PROVE EvidenceFirst'
  BY <1>1, <1>2, MissingShrinks, EvidenceKept
<1>3. CASE Reconnecting
  <2>1. Same /\ Kept
    BY <1>3 DEF Reconnecting, Top, DialFails, DialSucceeds, Connected, Unset,
       Hangup, Decide, Sleep, RunDeferred, channel, callers, consumer, retention
  <2>2. CASE Connected
    <3>1. ~Unsettled
      BY <2>2, SettledElsewhere DEF Connected, Leaving
    <3>2. QED
      BY <1>2, <2>1, <3>1
  <2>3. CASE ~Connected
    <3>1. pc \notin {"observe", "retain", "gap"} /\ result' = result
      BY <1>3, <2>3 DEF Reconnecting, Top, DialFails, DialSucceeds, Unset, Hangup,
         Decide, Sleep, RunDeferred
    <3>2. QED
      BY <1>2, <2>1, <3>1 DEF Unsettled
  <2>4. QED
    BY <2>2, <2>3
<1>4. CASE Write \/ ReadFails \/ Dispatch \/ Enqueue
  <2>1. Kept /\ ~Unsettled
    <3>1. CASE Write \/ ReadFails
      BY <3>1, SettledElsewhere DEF Write, ReadFails, callers, retention, Leaving
    <3>2. CASE Dispatch
      BY <3>2, SettledElsewhere DEF Dispatch, Dispatching, OnAck, OnPing, OnNoise,
         OnError, OnTooEarly, OnEvent, LeftByDispatch, callers, retention, Leaving
    <3>3. CASE Enqueue
      BY <3>3, SettledElsewhere DEF Enqueue, EnqueueSends, EnqueueFull, Evict,
         Resend, LeftByEnqueue, callers, retention, Leaving
    <3>4. QED
      BY <1>4, <3>1, <3>2, <3>3
  <2>2. QED
    BY <1>2, <2>1
<1>5. CASE Observe
  <2>1. Same /\ Kept
    BY <1>5 DEF Observe, channel, callers, consumer, retention
  <2>2. Unsettled => Unsettled'
    BY <1>5 DEF Observe, Unsettled, GapIsFatal
  <2>3. QED
    BY <1>2, <2>1, <2>2
<1>6. CASE RecordGap
  <2>1. Same /\ Kept
    BY <1>6 DEF RecordGap, channel, callers, consumer
  <2>2. result \notin {"receipt_observer", "receipt_overflow"}
    BY <1>6 DEF RecordGap, EndInv, Ends, Leaving
  <2>3. Unsettled => Unsettled'
    BY <1>6, <2>2 DEF RecordGap, Unsettled, GapIsFatal
  <2>4. QED
    BY <1>2, <2>1, <2>3
<1>7. CASE Receive
  <2>1. /\ Kept /\ UNCHANGED <<pc, reason, frame, result>>
        /\ events # <<>> /\ events' = Tail(events) /\ last' = Head(events)
    BY <1>7 DEF Receive, LeftByCallers, worker
  <2>2. \A n : Visible(n)' => Visible(n)
    BY <2>1, VisibleTail
  <2>3. Unsettled' = Unsettled
    BY <2>1 DEF Unsettled, GapIsFatal
  <2>4. QED
    BY <1>1, <2>1, <2>2, <2>3, MissingShrinks, EvidenceKept
<1>8. CASE DrainReceipts
  <2>1. /\ Same /\ UNCHANGED <<pc, reason, frame, result, receiptDropped, receiveSequence>>
        /\ drained' = drained \cup {receipts[i] : i \in DOMAIN receipts}
    BY <1>8 DEF DrainReceipts, LeftByCallers, worker, consumer
  <2>2. Archived \subseteq Archived'
    BY <2>1 DEF Archived
  <2>3. Unsettled' = Unsettled
    BY <2>1 DEF Unsettled, GapIsFatal
  <2>4. QED
    BY <1>1, <2>1, <2>2, <2>3, MissingShrinks, EvidenceKept
<1>9. CASE Same /\ Kept /\ UNCHANGED <<pc, reason, frame, result>>
  BY <1>2, <1>9 DEF Unsettled, GapIsFatal
<1>10. QED
  BY <1>3, <1>4, <1>5, <1>6, <1>7, <1>8, <1>9, EvidenceRead, EvidenceRetain DEF Next,
     Worker, Serving, ParentCancels, Close, CloseCancels, CloseLocks, CloseHangsUp,
     CloseReturns, Terminated, LeftByCallers, vars, worker, channel, consumer,
     retention

\* Evidence comes before delivery: under the fail policy every frame read has its
\* receipt but the one being settled or refused, which no consumer sees; under
\* drop_oldest those without are counted.
THEOREM EvidencePrecedes == Spec => []EvidenceFirst
<1>1. Init => EvidenceFirst
  <2> SUFFICES ASSUME Init PROVE EvidenceFirst
    OBVIOUS
  <2>1. receiveSequence = 0 /\ receiptDropped = 0
    BY DEF Init
  <2>2. Missing = {}
    BY <2>1 DEF Missing
  <2>3. QED
    BY <2>1, <2>2, FS_EmptySet DEF EvidenceFirst
<1>2. QED
  BY <1>1, EvidenceNext, OrderAlways, FrameAlways, EndAlways, ReasonAlways,
     TypeCorrect, PTL DEF Spec

-----------------------------------------------------------------------------
(* The way out: how far the worker is from its end once ctx is done *)

\* What is left of the way out at each label, when ctx is done and no frame
\* comes.
Distance ==
    [stopped |-> 0, closeEvents |-> 1, closeDone |-> 2, cancel |-> 3, top |-> 4,
     sleep |-> 5, decide |-> 4, hangup |-> 5, unset |-> 6, read |-> 7,
     gap |-> 8, retain |-> 9, observe |-> 10, write |-> 11,
     resend |-> 8, evict |-> 9, enqueue |-> 10, dispatch |-> 12,
     dialed |-> 14, dial |-> 15]

\* At these three labels it is longer with a frame to be dispatched, or with a
\* connection to be initialised, than with a frame the worker wrote.
StepsLeft ==
    Distance[pc] +
       (IF /\ pc \in {"gap", "retain", "observe"}
           /\ frame.kind # "sent" /\ reason # "overflow_fail"
        THEN 5 ELSE 0)

\* Every step the worker takes after a cancellation brings it closer to its end,
\* but for reading a frame that the server sent before, and nothing anyone else
\* does takes it further away.
CancelProgress ==
    [][/\ ctxDone /\ Worker => ReadFrame \/ StepsLeft' < StepsLeft
       /\ ~Worker => StepsLeft' = StepsLeft]_vars

\* The worker is never more than 15 steps from its end.
LEMMA StepsLeftType == TypeOK => StepsLeft \in 0 .. 15
<1> SUFFICES ASSUME TypeOK PROVE StepsLeft \in 0 .. 15
  OBVIOUS
<1>1. pc \in Labels
  BY DEF TypeOK
<1>2. Distance[pc] \in 0 .. 15
      /\ (pc \in {"gap", "retain", "observe"} => Distance[pc] \in 0 .. 10)
  BY <1>1 DEF Distance, Labels
<1>3. QED
  BY <1>2 DEF StepsLeft

\* Every step the worker takes once ctx is done goes on along the way out.
LEMMA WorkerLeaves ==
  ASSUME TypeOK, GapHasReason, FrameInv, ctxDone, Worker
  PROVE  ReadFrame \/ StepsLeft' < StepsLeft
<1> USE DEF StepsLeft, Distance, GapHasReason
<1> pc \in Labels
  BY DEF TypeOK
<1>1. CASE Reconnecting
  <2>1. CASE Top BY <2>1 DEF Top, Cancelled
  <2>2. CASE DialFails BY <2>2 DEF DialFails, Cancelled
  <2>3. CASE DialSucceeds BY <2>3 DEF DialSucceeds
  <2>4. CASE Connected BY <2>4 DEF Connected
  <2>5. CASE Unset BY <2>5 DEF Unset
  <2>6. CASE Hangup BY <2>6 DEF Hangup
  <2>7. CASE Decide BY <2>7 DEF Decide, Cancelled
  <2>8. CASE Sleep BY <2>8 DEF Sleep
  <2>9. CASE RunDeferred BY <2>9 DEF RunDeferred, DeferNext
  <2>10. QED
    BY <1>1, <2>1, <2>2, <2>3, <2>4, <2>5, <2>6, <2>7, <2>8, <2>9 DEF Reconnecting
<1>2. CASE Serving
  <2>1. CASE Write BY <2>1 DEF Write, Return
  <2>2. CASE ReadFails BY <2>2 DEF ReadFails, Return
  <2>3. CASE Observe BY <2>3 DEF Observe
  <2>4. CASE Retain
    <3>1. pc = "retain"
      BY <2>4 DEF Retain
    <3>2. CASE frame' = frame /\ pc' = "gap" /\ reason' = "receipt_overflow"
      BY <3>1, <3>2
    <3>3. CASE AfterReceipt
      BY <3>1, <3>3 DEF AfterReceipt
    <3>4. QED
      BY <2>4, <3>2, <3>3 DEF Retain
  <2>5. CASE RecordGap
    BY <2>5, StreamAssumption DEF RecordGap, GapIsFatal, AfterReceipt, FrameInv,
       NoFrame, StreamAssumption, TypeOK
  <2>6. QED
    BY <1>2, <2>1, <2>2, <2>3, <2>4, <2>5 DEF Serving
<1>3. CASE Dispatch
  BY <1>3 DEF Dispatch, Dispatching, OnAck, OnPing, OnNoise, OnError, OnTooEarly,
     OnEvent, Return
<1>4. CASE Enqueue
  <2>1. CASE EnqueueSends BY <2>1 DEF EnqueueSends, Send, Return
  <2>2. CASE EnqueueFull BY <2>2 DEF EnqueueFull
  <2>3. CASE Evict BY <2>3 DEF Evict
  <2>4. CASE Resend BY <2>4 DEF Resend, Send, Return
  <2>5. QED
    BY <1>4, <2>1, <2>2, <2>3, <2>4 DEF Enqueue
<1>5. QED
  BY <1>1, <1>2, <1>3, <1>4 DEF Worker

\* The worker is at most 15 steps from its end, and from a cancellation on each
\* of its steps but those that read a frame brings it closer, however the callers
\* interleave.
THEOREM CancelLeads == Spec => [](StepsLeft \in 0 .. 15) /\ CancelProgress
<1>1. ASSUME [Next]_vars, ~Worker
      PROVE  StepsLeft' = StepsLeft
  <2>1. UNCHANGED <<pc, frame, reason>>
    BY <1>1 DEF Next, ParentCancels, Close, CloseCancels, CloseLocks, CloseHangsUp,
       CloseReturns, Receive, DrainReceipts, Terminated, LeftByCallers, vars, worker
  <2>2. QED
    BY <2>1 DEF StepsLeft
<1>2. TypeOK /\ GapHasReason /\ FrameInv /\ [Next]_vars =>
         [/\ ctxDone /\ Worker => ReadFrame \/ StepsLeft' < StepsLeft
          /\ ~Worker => StepsLeft' = StepsLeft]_vars
  BY <1>1, WorkerLeaves
<1>3. QED
  BY <1>2, StepsLeftType, FrameAlways, ReasonAlways, TypeCorrect, PTL
     DEF Spec, CancelProgress

-----------------------------------------------------------------------------
(* After the end: what a caller of Wait or Close can rely on *)

\* A stream that is done has a cancelled context, and a Close that has returned
\* has seen it done.
RestInv ==
    /\ pc \in {"closeDone", "closeEvents", "stopped"} => ctxDone
    /\ \A c \in Closers : closer[c] = "returned" => DoneClosed

\* When Close returns there is no connection left and the context is cancelled.
ReturnedMeansDone ==
    \A c \in Closers : closer[c] = "returned" => DoneClosed /\ ctxDone /\ open = {}

\* A step that leaves the outcome of the stream alone and hands over what is
\* buffered: events to the consumer, receipts to the caller that drains them.
OnlyDrains ==
    /\ UNCHANGED <<err, result, conn, open, epoch, receiveSequence, ctxDone>>
    /\ UNCHANGED <<gaps, gapDropped, receiptDropped, dropped, offered>>
    /\ received' + Len(events') = received + Len(events)
    /\ \A i \in DOMAIN receipts : receipts' = receipts \/ receipts[i] \in drained'

\* Once Wait or Close has returned, what Err, Gaps and the counters say is final.
RestsAfterReturn == [][DoneClosed => DoneClosed' /\ OnlyDrains]_vars

\* Every step keeps RestInv.
LEMMA RestNext == TypeOK /\ RestInv /\ [Next]_vars => RestInv'
<1> SUFFICES ASSUME TypeOK, RestInv, [Next]_vars PROVE RestInv'
  OBVIOUS
<1> USE DEF RestInv, DoneClosed
<1> closer \in [Closers -> {"idle", "cancelled", "closing", "waiting", "returned"}]
  BY DEF TypeOK
<1>1. CASE Reconnecting
  BY <1>1 DEF Reconnecting, Top, DialFails, RetryOr, DialSucceeds, Connected,
     Unset, Hangup, Decide, Sleep, RunDeferred, DeferNext, callers
<1>2. CASE Serving
  BY <1>2 DEF Serving, Write, Return, ReadFrame, ReadFails, Observe, Retain,
     RecordGap, AfterReceipt, callers
<1>3. CASE Dispatch
  BY <1>3 DEF Dispatch, Dispatching, OnAck, OnPing, OnNoise, OnError,
     OnTooEarly, OnEvent, Return, LeftByDispatch, callers
<1>4. CASE Enqueue
  BY <1>4 DEF Enqueue, EnqueueSends, EnqueueFull, Evict, Resend, Send, Return,
     LeftByEnqueue, callers
<1>5. ASSUME NEW c \in Closers, Close(c)
      PROVE  RestInv'
  BY <1>5 DEF Close, CloseCancels, CloseLocks, CloseHangsUp, CloseReturns,
     LeftByCallers, worker
<1>6. CASE UNCHANGED <<pc, closer>> /\ (ctxDone => ctxDone')
  BY <1>6
<1>7. QED
  BY <1>1, <1>2, <1>3, <1>4, <1>5, <1>6 DEF Next, Worker, ParentCancels, Receive,
     DrainReceipts, Terminated, LeftByCallers, vars, worker

\* A Close that returns leaves a cancelled context and no open socket behind,
\* and from then on, as from the return of Wait, the error, the gaps, the
\* counters and the losses are final: only the callers drain what is buffered.
THEOREM ReturnIsRest == Spec => []ReturnedMeansDone /\ RestsAfterReturn
<1>1. Init => RestInv
  BY DEF Init, RestInv, DoneClosed
<1>2. RestInv /\ NoSocketLeft => ReturnedMeansDone
  BY DEF RestInv, NoSocketLeft, ReturnedMeansDone, DoneClosed
<1>3. ASSUME TypeOK, RestInv, NoSocketLeft, [Next]_vars, DoneClosed
      PROVE  DoneClosed' /\ OnlyDrains
  <2> /\ ctxDone /\ ctxDone \in BOOLEAN /\ open = {}
      /\ events \in Seq(Frame) /\ received \in Nat
    BY <1>3 DEF RestInv, NoSocketLeft, DoneClosed, TypeOK
  <2>1. CASE Worker
    <3>1. RunDeferred
      BY <1>3, <2>1 DEF DoneClosed, Worker, Reconnecting, Top, DialFails,
         DialSucceeds, Connected, Unset, Hangup, Decide, Sleep, Serving, Write,
         ReadFrame, ReadFails, Observe, Retain, RecordGap, Dispatch, Dispatching,
         OnAck, OnPing, OnNoise, OnError, OnTooEarly, OnEvent, Enqueue,
         EnqueueSends, EnqueueFull, Evict, Resend
    <3>2. DoneClosed'
      BY <1>3, <3>1 DEF RunDeferred, DeferNext, DoneClosed
    <3>3. ctxDone' = ctxDone
      BY <3>1 DEF RunDeferred
    <3>4. QED
      BY <3>1, <3>2, <3>3 DEF RunDeferred, OnlyDrains, retention, channel, callers,
         consumer
  <2>2. CASE Receive
    <3>1. Len(events) \in Nat /\ Len(events) > 0 /\ Len(Tail(events)) = Len(events) - 1
      BY <2>2 DEF Receive
    <3>2. received' + Len(events') = received + Len(events)
      BY <2>2, <3>1 DEF Receive
    <3>3. QED
      BY <1>3, <2>2, <3>2 DEF Receive, LeftByCallers, worker, OnlyDrains, DoneClosed
  <2>3. CASE DrainReceipts
    BY <1>3, <2>3 DEF DrainReceipts, LeftByCallers, worker, DoneClosed, consumer,
       OnlyDrains
  <2>4. CASE \E c \in Closers : Close(c)
    <3>1. PICK c \in Closers : Close(c)
      BY <2>4
    <3>2. open' = open /\ ctxDone' = ctxDone
      BY <3>1 DEF Close, CloseCancels, CloseLocks, CloseHangsUp, CloseReturns
    <3>3. QED
      BY <1>3, <3>1, <3>2 DEF Close, CloseCancels, CloseLocks, CloseHangsUp,
         CloseReturns, LeftByCallers, worker, DoneClosed, OnlyDrains, consumer
  <2>5. CASE UNCHANGED vars
    BY <1>3, <2>5 DEF vars, worker, retention, channel, consumer, DoneClosed,
       OnlyDrains
  <2>6. QED
    BY <1>3, <2>1, <2>2, <2>3, <2>4, <2>5 DEF Next, ParentCancels, Terminated
<1>4. TypeOK /\ RestInv /\ NoSocketLeft /\ [Next]_vars =>
         [DoneClosed => DoneClosed' /\ OnlyDrains]_vars
  BY <1>3
<1>5. QED
  BY <1>1, <1>2, <1>4, RestNext, SocketsClosed, TypeCorrect, PTL
     DEF Spec, RestsAfterReturn

-----------------------------------------------------------------------------
(* Stream implements Feed *)

\* Every step keeps CompleteInv: a complete event that is sent is the last one.
LEMMA CompleteNext ==
  TypeOK /\ EndInv /\ CompleteInv /\ [Next]_vars => CompleteInv'
<1> SUFFICES ASSUME TypeOK, EndInv, CompleteInv, [Next]_vars, result' # "finished"
             PROVE  /\ last'.kind # "complete"
                    /\ \A i \in DOMAIN events' : events'[i].kind # "complete"
  BY DEF CompleteInv
<1>1. result # "finished"
  <2>1. CASE Connected
    BY <2>1 DEF Connected, EndInv, Ends, Leaving
  <2>2. CASE result' = result
    BY <2>2
  <2>3. CASE pc \notin {"unset", "hangup", "decide"} \cup Leaving
    BY <2>3 DEF EndInv, Ends
  <2>4. QED
    BY <2>1, <2>2, <2>3 DEF Next, Worker, Reconnecting, Top, DialFails,
       DialSucceeds, Unset, Hangup, Decide, Sleep, RunDeferred, Serving, Write,
       ReadFrame, ReadFails, Observe, Retain, RecordGap, Dispatch, Dispatching,
       OnAck, OnPing, OnNoise, OnError, OnTooEarly, OnEvent, Enqueue,
       EnqueueSends, EnqueueFull, Evict, Resend, ParentCancels, Close,
       CloseCancels, CloseLocks, CloseHangsUp, CloseReturns, Receive,
       DrainReceipts, Terminated, LeftByCallers, vars, worker, Leaving
<1>2. /\ last.kind # "complete"
      /\ \A i \in DOMAIN events : events[i].kind # "complete"
  BY <1>1 DEF CompleteInv
<1>3. CASE UNCHANGED <<events, last>>
  BY <1>2, <1>3
<1>4. ASSUME events # <<>>, events' = Tail(events), last' = last \/ last' = Head(events)
      PROVE  /\ last'.kind # "complete"
             /\ \A i \in DOMAIN events' : events'[i].kind # "complete"
  <2>1. /\ Len(events) \in Nat \ {0} /\ DOMAIN events = 1 .. Len(events)
        /\ DOMAIN events' = 1 .. (Len(events) - 1)
        /\ \A i \in 1 .. (Len(events) - 1) : events'[i] = events[i + 1]
        /\ Head(events) = events[1]
    BY <1>4, TailEntries DEF TypeOK
  <2>2. \A i \in 1 .. (Len(events) - 1) : i + 1 \in 1 .. Len(events)
    BY <2>1
  <2>3. 1 \in 1 .. Len(events)
    BY <2>1
  <2>4. QED
    BY <1>2, <1>4, <2>1, <2>2, <2>3
<1>5. CASE Send /\ last' = last
  <2>1. events' = Append(events, frame) /\ frame.kind # "complete"
    BY <1>5 DEF Send, Return
  <2>2. \A i \in DOMAIN events' :
           \/ i \in DOMAIN events /\ events'[i] = events[i]
           \/ events'[i] = frame
    <3>1. /\ Len(events) \in Nat /\ DOMAIN events = 1 .. Len(events)
          /\ DOMAIN events' = 1 .. (Len(events) + 1)
          /\ \A i \in 1 .. Len(events) : events'[i] = events[i]
          /\ events'[Len(events) + 1] = frame
      BY <2>1, AppendEntries DEF TypeOK
    <3>2. QED
      BY <3>1
  <2>3. QED
    BY <1>2, <1>5, <2>1, <2>2
<1>6. CASE Enqueue
  <2>1. last' = last
    BY <1>6 DEF Enqueue, EnqueueSends, EnqueueFull, Evict, Resend, LeftByEnqueue,
       callers, consumer
  <2>2. \/ Send \/ UNCHANGED events
        \/ events # <<>> /\ events' = Tail(events)
    BY <1>6 DEF Enqueue, EnqueueSends, EnqueueFull, Evict, Resend, channel
  <2>3. QED
    BY <1>3, <1>4, <1>5, <2>1, <2>2
<1>7. CASE Receive
  BY <1>4, <1>7 DEF Receive
<1>8. QED
  BY <1>3, <1>6, <1>7 DEF Next, Worker, Reconnecting, Top, DialFails,
     DialSucceeds, Connected, Unset, Hangup, Decide, Sleep, RunDeferred, Serving,
     Write, ReadFrame, ReadFails, Observe, Retain, RecordGap, Dispatch, OnAck,
     OnPing, OnNoise, OnError, OnTooEarly, OnEvent, LeftByDispatch,
     ParentCancels, Close, CloseCancels, CloseLocks, CloseHangsUp, CloseReturns,
     DrainReceipts, Terminated, LeftByCallers, vars, channel, callers, consumer

\* CompleteInv holds in every reachable state.
LEMMA CompleteAlways == Spec => []CompleteInv
<1>1. Init => CompleteInv
  BY DEF Init, CompleteInv, NoFrame
<1>2. QED
  BY <1>1, CompleteNext, EndAlways, TypeCorrect, PTL DEF Spec

FeedInv ==
    TypeOK /\ GapHasReason /\ EndInv /\ FrameInv /\ OrderInv /\ CompleteInv

\* A stream that goes on has no outcome yet.
LEMMA NoOutcomeYet ==
  ASSUME EndInv, pc \notin {"unset", "hangup", "decide"} \cup Leaving
  PROVE  Outcome = "none"
  BY DEF EndInv, Outcome, Ends

\* A step that leaves what the consumer sees alone is a stutter of the Feed.
LEMMA FeedStutters ==
  ASSUME UNCHANGED <<events, last, received, dropped, err, callerCancelled>>,
         UNCHANGED <<Pending, Outcome, pc \in Leaving>>
  PROVE  UNCHANGED Promise!vars
  BY DEF Promise!vars

\* An event handed to enqueue is published.
LEMMA FeedPublishes == ASSUME FeedInv, OnEvent PROVE Promise!Publish
<1> USE DEF FeedInv
<1>1. /\ pc = "dispatch" /\ pc' = "enqueue"
      /\ UNCHANGED <<events, last, received, dropped, err, callerCancelled, result>>
  BY DEF OnEvent, Dispatching, LeftByDispatch, channel, callers, consumer
<1>2. /\ frame.kind \in FrameKinds /\ frame.seq = receiveSequence
      /\ frame.epoch = epoch /\ Older(receiveSequence, epoch)
  BY <1>1 DEF FrameInv, OrderInv, Handling
<1>3. frame' \in Frame /\ frame'.seq = frame.seq /\ frame'.epoch = frame.epoch
  <2> DEFINE marked == [frame EXCEPT !.gap = firstData]
  <2>1. frame \in Frame /\ firstData \in BOOLEAN
    BY DEF TypeOK
  <2>2. marked \in Frame /\ marked.seq = frame.seq /\ marked.epoch = frame.epoch
    BY <2>1 DEF Frame
  <2>3. frame' = marked \/ frame' = frame
    BY DEF OnEvent
  <2>4. QED
    BY <2>1, <2>2, <2>3
<1>4. Pending = events /\ Pending' = Append(events, frame')
  BY <1>1 DEF Pending, HoldsEvent
<1>5. Outcome = "none" /\ Outcome' = "none" /\ ~(pc \in Leaving) /\ ~(pc' \in Leaving)
  BY <1>1, NoOutcomeYet DEF Outcome, Leaving
<1>6. result # "finished"
  BY <1>1 DEF EndInv, Ends, Leaving
<1>7. Promise!Newest = (IF events = <<>> THEN last ELSE events[Len(events)])
  BY <1>4 DEF Promise!Newest
<1>8. events # <<>> => Len(events) \in DOMAIN events
  BY EmptySeq, LenProperties DEF TypeOK
<1>9. /\ Promise!Newest.kind # "complete"
      /\ Promise!Newest.seq < receiveSequence /\ Promise!Newest.epoch <= epoch
  BY <1>2, <1>6, <1>7, <1>8 DEF CompleteInv, Older
<1>10. Promise!Newest' = frame'
  <2>1. Append(events, frame') # <<>>
        /\ Append(events, frame')[Len(Append(events, frame'))] = frame'
    BY <1>3, AppendedIsLast DEF TypeOK
  <2>2. QED
    BY <1>4, <2>1 DEF Promise!Newest
<1>11. Promise!Before(Promise!Newest, Promise!Newest')
  BY <1>2, <1>3, <1>9, <1>10 DEF Promise!Before
<1>12. QED
  BY <1>1, <1>3, <1>4, <1>5, <1>9, <1>10, <1>11 DEF Promise!Publish, Promise!fate
\* What the consumer takes, or an eviction drops, is the oldest pending event.
LEMMA OldestPending ==
  ASSUME TypeOK, events # <<>>
  PROVE  /\ Pending # <<>> /\ Head(Pending) = Head(events)
         /\ HoldsEvent => /\ Len(Pending) > 1
                          /\ Tail(Pending) = Append(Tail(events), frame)
         /\ ~HoldsEvent => Tail(Pending) = Tail(events)
<1>1. events \in Seq(Frame) /\ frame \in Frame /\ Len(events) \in Nat \ {0}
  BY EmptySeq DEF TypeOK
<1>2. CASE HoldsEvent
  <2>1. Pending = Append(events, frame) /\ Len(Append(events, frame)) = Len(events) + 1
    BY <1>1, <1>2 DEF Pending
  <2>2. Append(events, frame) # <<>> /\ Len(events) + 1 > 1
    BY <1>1
  <2>3. Head(Append(events, frame)) = Head(events)
    BY <1>1
  <2>4. Tail(Append(events, frame)) = Append(Tail(events), frame)
    BY <1>1
  <2>5. QED
    BY <1>2, <2>1, <2>2, <2>3, <2>4
<1>3. CASE ~HoldsEvent
  BY <1>3 DEF Pending
<1>4. QED
  BY <1>2, <1>3

\* A receive of the consumer is a delivery.
LEMMA FeedDelivers == ASSUME FeedInv, Receive PROVE Promise!Deliver
<1>1. /\ events # <<>> /\ events' = Tail(events) /\ last' = Head(events)
      /\ received' = received + 1
      /\ UNCHANGED <<worker, dropped, err, callerCancelled>>
  BY DEF Receive, LeftByCallers
<1>2. TypeOK /\ (HoldsEvent' <=> HoldsEvent) /\ UNCHANGED <<frame, Outcome, pc>>
  BY <1>1 DEF FeedInv, worker, HoldsEvent, Outcome
<1>3. Pending' = Tail(Pending)
  BY <1>1, <1>2, OldestPending DEF Pending
<1>4. QED
  BY <1>1, <1>2, <1>3, OldestPending DEF Promise!Deliver, Promise!fate

\* The steps of enqueue drop the oldest event, complete the feed, give an event
\* up, or show the consumer nothing.
LEMMA FeedEnqueues ==
  ASSUME FeedInv, Enqueue
  PROVE  \/ Promise!Lose \/ Promise!Complete \/ Promise!GiveUp
         \/ UNCHANGED Promise!vars
<1> USE DEF FeedInv
<1>1. /\ pc \in {"enqueue", "evict", "resend"} /\ HoldsEvent
      /\ UNCHANGED <<last, received, err, callerCancelled, ctxDone>>
      /\ ~(pc \in Leaving) /\ ~(pc' \in Leaving)
  BY DEF Enqueue, EnqueueSends, EnqueueFull, Evict, Resend, Send, Return,
     LeftByEnqueue, callers, consumer, HoldsEvent, Leaving
<1>2. Outcome = "none" /\ Pending = Append(events, frame) /\ result \notin Ends
  BY <1>1, NoOutcomeYet DEF Pending, EndInv, Leaving
<1>3. /\ events \in Seq(Frame) /\ frame \in Frame
  BY DEF TypeOK
<1>4. CASE Send /\ dropped' = dropped
  <2>1. events' = Append(events, frame) /\ ~HoldsEvent'
    BY <1>4 DEF Send, Return, HoldsEvent
  <2>2. Pending' = Pending
    BY <1>2, <2>1 DEF Pending
  <2>3. CASE frame.kind = "complete"
    <3>1. Outcome' = "finished"
      BY <1>4, <2>3 DEF Send, Return, Outcome
    <3>2. Promise!Newest.kind = "complete"
      BY <1>2, <1>3, <2>3, AppendedIsLast DEF Promise!Newest
    <3>3. QED
      BY <1>1, <1>2, <1>4, <2>2, <3>1, <3>2 DEF Promise!Complete, Promise!feed
  <2>4. CASE frame.kind # "complete"
    <3>1. Outcome' = Outcome
      BY <1>4, <2>4 DEF Send, Outcome
    <3>2. QED
      BY <1>1, <1>4, <2>2, <3>1 DEF Promise!vars
  <2>5. QED
    BY <2>3, <2>4
<1>5. CASE EnqueueFull
  <2>1. UNCHANGED <<frame, result, events, dropped>> /\ HoldsEvent'
    BY <1>5 DEF EnqueueFull, channel, HoldsEvent
  <2>2. QED
    BY <1>1, <2>1 DEF Pending, Outcome, Promise!vars
<1>6. CASE Evict
  <2>1. UNCHANGED <<frame, result>> /\ HoldsEvent' /\ Outcome' = Outcome
    BY <1>6 DEF Evict, HoldsEvent, Outcome
  <2>2. CASE events = <<>>
    <3>1. UNCHANGED <<events, dropped>>
      BY <1>6, <2>2 DEF Evict, channel
    <3>2. QED
      BY <1>1, <2>1, <3>1 DEF Pending, Promise!vars
  <2>3. CASE events # <<>>
    <3>1. events' = Tail(events) /\ dropped' = dropped + 1
      BY <1>6, <2>3 DEF Evict
    <3>2. Pending' = Tail(Pending) /\ Len(Pending) > 1
      BY <1>1, <2>1, <2>3, <3>1, OldestPending DEF Pending
    <3>3. QED
      BY <1>1, <2>1, <3>1, <3>2 DEF Promise!Lose, Promise!fate
  <2>4. QED
    BY <2>2, <2>3
<1>7. CASE ctxDone /\ Return("dropped") /\ UNCHANGED <<events, dropped>>
  <2>1. callerCancelled
    BY <1>1, <1>7 DEF EndInv
  <2>2. Pending' = events /\ Outcome' = "none"
    BY <1>7 DEF Return, Pending, HoldsEvent, Outcome
  <2>3. /\ Pending # <<>>
        /\ SubSeq(Pending, 1, Len(Pending) - 1) = events
    BY <1>2, <1>3
  <2>4. QED
    BY <1>1, <1>2, <1>7, <2>1, <2>2, <2>3 DEF Promise!GiveUp
<1>8. QED
  BY <1>4, <1>5, <1>6, <1>7 DEF Enqueue, EnqueueSends, Resend

\* The rest of serve: an overflow gives its event up and fails the feed, other
\* failures leave the events alone.
LEMMA FeedServes ==
  ASSUME FeedInv, Serving \/ Dispatch, ~OnEvent
  PROVE  Promise!Fail \/ Promise!GiveUp \/ UNCHANGED Promise!vars
<1> USE DEF FeedInv
<1>1. /\ UNCHANGED <<events, last, received, dropped, err, callerCancelled>>
      /\ pc \in {"write", "read", "observe", "retain", "gap", "dispatch"}
      /\ pc' \in {"write", "read", "observe", "retain", "gap", "dispatch", "unset"}
  BY DEF Serving, Write, Return, ReadFrame, ReadFails, Observe, Retain, RecordGap,
     AfterReceipt, Dispatch, Dispatching, OnAck, OnPing, OnNoise, OnError,
     OnTooEarly, LeftByDispatch, channel, callers, consumer
<1>2. Outcome = "none" /\ ~(pc \in Leaving) /\ ~(pc' \in Leaving)
  BY <1>1, NoOutcomeYet DEF Leaving
<1>3. result' \in FatalCauses \cup {"none", "dropped"}
  <2>1. result' \in {result, "dropped", "protocol", "server"}
           \/ (result' = reason /\ GapIsFatal)
    BY DEF Serving, Write, Return, ReadFrame, ReadFails, Observe, Retain, RecordGap,
       AfterReceipt, Dispatch, Dispatching, OnAck, OnPing, OnNoise, OnError,
       OnTooEarly
  <2>2. result \in {"none", "dropped"}
    BY <1>1 DEF EndInv, Ends, Leaving, TypeOK
  <2>3. QED
    BY <2>1, <2>2 DEF GapIsFatal
<1>4. CASE ~HoldsEvent
  <2>1. ~HoldsEvent'
    BY <1>1, <1>4 DEF HoldsEvent, Serving, Write, Return, ReadFrame, ReadFails,
       Observe, Retain, RecordGap, AfterReceipt, Dispatch, Dispatching, OnAck,
       OnPing, OnNoise, OnError, OnTooEarly
  <2>2. Pending' = Pending
    BY <1>1, <1>4, <2>1 DEF Pending
  <2>3. CASE result' \in FatalCauses
    <3>1. Outcome' \in Promise!Fatal
      BY <2>3 DEF Outcome, Promise!Fatal
    <3>2. QED
      BY <1>1, <1>2, <2>2, <3>1 DEF Promise!Fail, Promise!feed
  <2>4. CASE result' \notin FatalCauses
    <3>1. Outcome' = "none"
      BY <1>3, <2>4 DEF Outcome
    <3>2. QED
      BY <1>1, <1>2, <2>2, <3>1 DEF Promise!vars
  <2>5. QED
    BY <2>3, <2>4
<1>5. CASE HoldsEvent
  <2>1. RecordGap /\ reason = "overflow_fail"
    BY <1>1, <1>5 DEF HoldsEvent, Serving, Write, ReadFrame, ReadFails, Observe,
       Retain, Dispatch, Dispatching, OnAck, OnPing, OnNoise, OnError, OnTooEarly
  <2>2. pc' = "unset" /\ result' = "overflow_fail"
    BY <2>1 DEF RecordGap, GapIsFatal
  <2>3. Outcome' = "overflow_fail" /\ Pending' = events
    BY <1>1, <2>2 DEF Outcome, Pending, HoldsEvent
  <2>4. /\ Pending # <<>>
        /\ SubSeq(Pending, 1, Len(Pending) - 1) = events
    <3>1. Pending = Append(events, frame) /\ events \in Seq(Frame) /\ frame \in Frame
      BY <1>5 DEF Pending, TypeOK
    <3>2. QED
      BY <3>1
  <2>5. QED
    BY <1>1, <1>2, <2>3, <2>4 DEF Promise!GiveUp
<1>6. QED
  BY <1>4, <1>5

\* The steps of run end the feed as its outcome and its cancellation allow.
LEMMA FeedReconnects ==
  ASSUME FeedInv, Reconnecting
  PROVE  Promise!End \/ UNCHANGED Promise!vars
<1> USE DEF FeedInv
<1>1. /\ UNCHANGED <<events, last, received, dropped, callerCancelled>>
      /\ ~HoldsEvent /\ ~HoldsEvent'
  BY DEF Reconnecting, Top, DialFails, RetryOr, DialSucceeds, Connected, Unset,
     Hangup, Decide, Sleep, RunDeferred, DeferNext, channel, callers, consumer,
     HoldsEvent
<1>2. Pending' = Pending
  BY <1>1 DEF Pending
<1>3. Outcome' = Outcome
  <2>1. result' = result \/ (pc = "dialed" /\ result' = "none")
    BY DEF Reconnecting, Top, DialFails, DialSucceeds, Connected, Unset,
       Hangup, Decide, Sleep, RunDeferred
  <2>2. QED
    BY <2>1, NoOutcomeYet DEF Outcome, Leaving
<1>4. CASE pc' \in Leaving /\ pc \notin Leaving
  <2>1. pc' = "cancel"
    BY <1>4 DEF Reconnecting, Top, DialFails, RetryOr, DialSucceeds, Connected,
       Unset, Hangup, Decide, Sleep, RunDeferred, DeferNext, Leaving
  <2>2. ctxDone <=> callerCancelled
    BY <1>4 DEF EndInv, Leaving, TypeOK
  <2>3. \/ ctxDone /\ err' = err
        \/ result = "finished" /\ err' = err
        \/ ~ctxDone /\ result \in FatalCauses /\ err' = result
        \/ ~ctxDone /\ result \notin Ends /\ err' \in {"dial", "exhausted"}
    <3>1. CASE Decide
      BY <2>1, <3>1 DEF Decide, RetryOr, EndsClean, IsFatal, Cancelled, Ends
    <3>2. CASE DialFails
      <4>1. result \notin Ends
        BY <3>2 DEF DialFails, EndInv, Leaving
      <4>2. QED
        BY <2>1, <3>2, <4>1 DEF DialFails, RetryOr, Cancelled
    <3>3. CASE Top \/ Sleep
      BY <2>1, <3>3 DEF Top, Sleep, Cancelled
    <3>4. QED
      BY <1>4, <2>1, <3>1, <3>2, <3>3 DEF Reconnecting, DialSucceeds, Connected,
         Unset, Hangup, RunDeferred, Leaving
  <2>4. \/ (callerCancelled \/ Outcome = "finished") /\ err' = err
        \/ ~callerCancelled /\ Outcome \in Promise!Fatal /\ err' = Outcome
        \/ ~callerCancelled /\ Outcome = "none" /\ err' \in {"dial", "exhausted"}
    BY <2>2, <2>3 DEF Outcome, Promise!Fatal, Ends
  <2>5. QED
    BY <1>1, <1>2, <1>3, <1>4, <2>4 DEF Promise!End, Promise!feed
<1>5. CASE (pc' \in Leaving) = (pc \in Leaving)
  <2>1. err' = err
    BY <1>5 DEF Reconnecting, Top, DialFails, RetryOr, DialSucceeds, Connected,
       Unset, Hangup, Decide, Sleep, RunDeferred, Leaving
  <2>2. QED
    BY <1>1, <1>2, <1>3, <1>5, <2>1 DEF Promise!vars
<1>6. pc \in Leaving => pc' \in Leaving
  BY DEF Reconnecting, Top, DialFails, DialSucceeds, Connected, Unset, Hangup,
     Decide, Sleep, RunDeferred, DeferNext, Leaving
<1>7. QED
  BY <1>4, <1>5, <1>6

\* What callers do to a stream, but for receiving, cancels the feed or is a
\* stutter.
LEMMA FeedCallers ==
  ASSUME FeedInv,
         \/ ParentCancels \/ (\E c \in Closers : Close(c))
         \/ DrainReceipts \/ Terminated \/ UNCHANGED vars
  PROVE  Promise!Cancel \/ UNCHANGED Promise!vars
<1>1. UNCHANGED <<worker, events, last, received, dropped, err>>
  BY DEF ParentCancels, Close, CloseCancels, CloseLocks, CloseHangsUp, CloseReturns,
     DrainReceipts, Terminated, LeftByCallers, vars, channel, consumer
<1>2. UNCHANGED <<Pending, Outcome, pc \in Leaving>>
  BY <1>1 DEF worker, Pending, Outcome, HoldsEvent
<1>3. callerCancelled' = TRUE \/ callerCancelled' = callerCancelled
  BY DEF ParentCancels, Close, CloseCancels, CloseLocks, CloseHangsUp, CloseReturns,
     DrainReceipts, Terminated, vars, FeedInv, TypeOK
<1>4. QED
  BY <1>1, <1>2, <1>3 DEF Promise!Cancel, Promise!vars, Promise!feed

\* A stream keeps what a Feed promises: every step of the worker, the consumer
\* and the callers is one the promise allows.
THEOREM KeepsPromise == Spec => ImplementsFeed
<1>1. Init => Promise!Init
  BY DEF Init, Promise!Init, Pending, HoldsEvent, Outcome, Leaving
<1>2. FeedInv /\ [Next]_vars => [Promise!Next]_(Promise!vars)
  <2> SUFFICES ASSUME FeedInv, [Next]_vars
               PROVE  Promise!Next \/ UNCHANGED Promise!vars
    OBVIOUS
  <2>1. CASE Worker
    BY <2>1, FeedReconnects, FeedServes, FeedPublishes, FeedEnqueues
       DEF Worker, Promise!Next
  <2>2. CASE Receive
    BY <2>2, FeedDelivers DEF Promise!Next
  <2>3. QED
    BY <2>1, <2>2, FeedCallers DEF Next, Promise!Next
<1>3. QED
  BY <1>1, <1>2, TypeCorrect, ReasonAlways, EndAlways, FrameAlways, OrderAlways,
     CompleteAlways, PTL DEF Spec, FeedInv, ImplementsFeed, Promise!Spec

PromiseProofs == INSTANCE FeedProofs WITH
    Events <- Frame, Nothing <- NoFrame, pending <- Pending,
    outcome <- Outcome, ended <- pc \in Leaving, cancelled <- callerCancelled

\* FeedProofs instantiates Feed a second time: a stream implements that one too.
LEMMA KeepsPromiseToo == Spec => PromiseProofs!Spec
<1>1. Promise!Init <=> PromiseProofs!Init
  BY DEF Promise!Init, PromiseProofs!Init
<1>2. [Promise!Next]_(Promise!vars) <=> [PromiseProofs!Next]_(PromiseProofs!vars)
  BY Zenon DEF
         Promise!Next, PromiseProofs!Next, Promise!vars,
         PromiseProofs!vars, Promise!feed, PromiseProofs!feed,
         Promise!fate, PromiseProofs!fate, Promise!Newest,
         PromiseProofs!Newest, Promise!Before, PromiseProofs!Before,
         Promise!Fatal, PromiseProofs!Fatal, Promise!Publish,
         PromiseProofs!Publish, Promise!Deliver, PromiseProofs!Deliver,
         Promise!Lose, PromiseProofs!Lose, Promise!GiveUp,
         PromiseProofs!GiveUp, Promise!Complete, PromiseProofs!Complete,
         Promise!Fail, PromiseProofs!Fail, Promise!Cancel,
         PromiseProofs!Cancel, Promise!End, PromiseProofs!End
<1>3. QED
  BY <1>1, <1>2, KeepsPromise, PTL
     DEF ImplementsFeed, Promise!Spec, PromiseProofs!Spec

\* Who reads Events to the end, finds no error and cancelled nothing has read a
\* complete event last: a truncated stream is never taken for a complete one.
THEOREM TruncationIsSeen == Spec => []Promise!CompleteEnd
<1>1. Promise!CompleteEnd <=> PromiseProofs!CompleteEnd
  BY DEF Promise!CompleteEnd, PromiseProofs!CompleteEnd, Promise!Newest,
         PromiseProofs!Newest
<1>2. PromiseProofs!Spec => []PromiseProofs!CompleteEnd
  BY PromiseProofs!EndsComplete
<1>3. QED
  BY <1>1, <1>2, KeepsPromiseToo, PTL

\* Who has received a complete event receives nothing more, and nothing more is
\* in the channel or in the worker's hand: a reconnect never replays behind it.
THEOREM CompleteEndsStream == Spec => Promise!NothingAfterComplete
<1>1. PromiseProofs!Spec => PromiseProofs!NothingAfterComplete
  BY PromiseProofs!CompleteEndsFeed
<1>2. [last.kind = "complete" => UNCHANGED <<Pending, last, received>>]_(Promise!vars)
      <=> [last.kind = "complete" =>
              UNCHANGED <<Pending, last, received>>]_(PromiseProofs!vars)
  BY Zenon DEF Promise!vars, PromiseProofs!vars
<1>3. QED
  BY <1>1, <1>2, KeepsPromiseToo, PTL
     DEF Promise!NothingAfterComplete, PromiseProofs!NothingAfterComplete
=============================================================================
