---------------------------- MODULE StreamProofs ----------------------------
(***************************************************************************)
(* Theorems about Stream, for every value of its constants.                 *)
(***************************************************************************)
EXTENDS Stream, TLAPS

USE DEF FrameKinds, FatalCauses, GapReasons

\* The event channel and the gap buffer hold at least one entry.
LEMMA CapacitiesPositive ==
    /\ EventCapacity \in Nat \ {0}
    /\ GapCapacity \in Nat \ {0}
  BY StreamAssumption DEF StreamAssumption, EventCapacity, GapCapacity, AtLeastOne

\* A stream starts type correct.
LEMMA TypeInit == Init => TypeOK
<1> SUFFICES ASSUME Init PROVE TypeOK
  OBVIOUS
<1> USE DEF Init
<1>1. NoFrame \in Frame
  BY DEF NoFrame, Frame
<1>2. /\ open \in SUBSET Nat /\ drained \in SUBSET Nat
      /\ closer \in [Closers -> {"idle", "cancelled", "closing", "waiting",
                                 "returned"}]
  OBVIOUS
<1>3. receipts \in Seq(Nat) /\ gaps \in Seq(Gap) /\ events \in Seq(Frame)
  OBVIOUS
<1>4. QED
  BY <1>1, <1>2, <1>3 DEF TypeOK, Labels

\* The steps of run keep the types.
LEMMA TypeReconnecting == TypeOK /\ Reconnecting => TypeOK'
<1> SUFFICES ASSUME TypeOK, Reconnecting PROVE TypeOK'
  OBVIOUS
<1> USE DEF TypeOK, Labels, retention, channel, callers, consumer
<1>1. CASE Top BY <1>1 DEF Top
<1>2. CASE DialFails BY <1>2 DEF DialFails, RetryOr
<1>3. CASE DialSucceeds BY <1>3 DEF DialSucceeds
<1>4. CASE Connected
  <2>1. Reconnected \in BOOLEAN
    BY DEF Reconnected
  <2>2. firstData' \in BOOLEAN /\ epoch' \in Nat /\ conn' \in Nat
    BY <1>4, <2>1 DEF Connected
  <2>3. pc' \in Labels /\ reason' \in GapReasons \cup {"none"}
    BY <1>4 DEF Connected
  <2>4. QED
    BY <1>4, <2>2, <2>3 DEF Connected
<1>5. CASE Unset BY <1>5 DEF Unset
<1>6. CASE Hangup
  <2>1. open \ {HangupTarget} \in SUBSET Nat
    OBVIOUS
  <2>2. QED
    BY <1>6, <2>1 DEF Hangup
<1>7. CASE Decide
  BY <1>7 DEF Decide, RetryOr, IsFatal, EndsClean, ResetAttempts, Frame, NoFrame
<1>8. CASE Sleep BY <1>8 DEF Sleep
<1>9. CASE RunDeferred BY <1>9 DEF RunDeferred, DeferNext
<1>10. QED
  BY <1>1, <1>2, <1>3, <1>4, <1>5, <1>6, <1>7, <1>8, <1>9 DEF Reconnecting

\* The steps of serve up to the receipt of a frame keep the types.
LEMMA TypeServing == TypeOK /\ GapHasReason /\ Serving => TypeOK'
<1> SUFFICES ASSUME TypeOK, GapHasReason, Serving PROVE TypeOK'
  OBVIOUS
<1> USE DEF TypeOK, Labels, retention, channel, callers, consumer
<1>1. CASE Write
  <2> DEFINE sent == [kind |-> "sent", epoch |-> epoch, seq |-> 0, gap |-> FALSE]
  <2>1. sent \in Frame
    BY DEF Frame
  <2> HIDE DEF sent
  <2>2. frame' \in {frame, sent}
    BY <1>1 DEF Write, Return, sent
  <2>3. /\ pc' \in Labels /\ reason' = reason
        /\ result' \in FatalCauses \cup {"none", "dropped", "finished"}
    BY <1>1 DEF Write, Return
  <2>4. QED
    BY <1>1, <2>1, <2>2, <2>3 DEF Write
<1>2. CASE ReadFrame
  <2>1. receiveSequence' \in Nat /\ pc' = "observe"
    BY <1>2 DEF ReadFrame, NextSequence
  <2>2. frame' \in Frame
    BY <1>2 DEF ReadFrame, NextSequence, Frame
  <2>3. QED
    BY <1>2, <2>1, <2>2 DEF ReadFrame
<1>3. CASE ReadFails BY <1>3 DEF ReadFails, Return
<1>4. CASE Observe BY <1>4 DEF Observe
<1> NoFrame \in Frame
  BY DEF NoFrame, Frame
<1> frame.seq \in Nat
  BY DEF Frame
<1>5. CASE Retain
  <2>1. Append(receipts, frame.seq) \in Seq(Nat)
    OBVIOUS
  <2>2. ASSUME ReceiptCapacity > 0, ~ReceiptRoom
        PROVE  Append(Tail(receipts), frame.seq) \in Seq(Nat)
    <3>1. receipts # <<>>
      BY <2>2, StreamAssumption DEF StreamAssumption, ReceiptRoom
    <3>2. QED
      BY <3>1
  <2>3. receipts' \in Seq(Nat) /\ receiptDropped' \in Nat
    <3>1. CASE ReceiptCapacity = 0 \/ ReceiptRoom
      <4>1. /\ receipts' = receipts \/ receipts' = Append(receipts, frame.seq)
            /\ receiptDropped' = receiptDropped
        BY <1>5, <3>1, StreamAssumption DEF Retain, StreamAssumption
      <4>2. QED
        BY <2>1, <4>1
    <3>2. CASE ReceiptCapacity > 0 /\ ~ReceiptRoom
      <4>1. EvictReceipt \/ UNCHANGED <<receipts, receiptDropped>>
        BY <1>5, <3>2, StreamAssumption DEF Retain, StreamAssumption
      <4>2. CASE EvictReceipt
        <5>1. /\ receipts' = Append(Tail(receipts), frame.seq)
              /\ receiptDropped' = receiptDropped + 1
          BY <4>2 DEF EvictReceipt
        <5>2. receiptDropped + 1 \in Nat
          OBVIOUS
        <5>3. QED
          BY <2>2, <3>2, <5>1, <5>2
      <4>3. QED
        BY <4>1, <4>2
    <3>3. QED
      BY <3>1, <3>2, StreamAssumption DEF StreamAssumption
  <2>4. /\ pc' \in Labels /\ frame' \in Frame
        /\ reason' \in GapReasons \cup {"none"}
    BY <1>5 DEF Retain, AfterReceipt
  <2>5. QED
    BY <1>5, <2>3, <2>4 DEF Retain
<1>6. CASE RecordGap
  <2> DEFINE gap == [reason |-> reason, epoch |-> epoch, seq |-> frame.seq]
  <2>1. reason \in GapReasons
    BY <1>6 DEF RecordGap, GapHasReason
  <2>2. gap \in Gap
    BY <2>1 DEF Gap
  <2>3. PushGap(gap)
    BY <1>6 DEF RecordGap
  <2> HIDE DEF gap
  <2>4. gaps' \in Seq(Gap) /\ gapDropped' \in Nat
    <3>1. CASE GapRoom
      <4>1. gaps' = Append(gaps, gap) /\ gapDropped' = gapDropped
        BY <2>3, <3>1 DEF PushGap
      <4>2. Append(gaps, gap) \in Seq(Gap)
        BY <2>2
      <4>3. QED
        BY <4>1, <4>2
    <3>2. CASE ~GapRoom
      <4>1. gaps # <<>>
        BY <3>2, CapacitiesPositive DEF GapRoom
      <4>2. Append(Tail(gaps), gap) \in Seq(Gap)
        BY <2>2, <4>1
      <4>3. /\ gaps' = Append(Tail(gaps), gap)
            /\ gapDropped' = gapDropped + 1
        BY <2>3, <3>2 DEF PushGap
      <4>4. gapDropped + 1 \in Nat
        OBVIOUS
      <4>5. QED
        BY <4>2, <4>3, <4>4
    <3>3. QED
      BY <3>1, <3>2
  <2>5. pc' \in Labels /\ frame' \in Frame /\ reason' = "none"
    BY <1>6 DEF RecordGap, AfterReceipt
  <2>6. result' \in FatalCauses \cup {"none", "dropped", "finished"}
    BY <1>6 DEF RecordGap, GapIsFatal
  <2>7. QED
    BY <1>6, <2>4, <2>5, <2>6 DEF RecordGap
<1>7. QED
  BY <1>1, <1>2, <1>3, <1>4, <1>5, <1>6 DEF Serving

\* The switch of serve keeps the types.
LEMMA TypeDispatch == TypeOK /\ Dispatch => TypeOK'
<1> SUFFICES ASSUME TypeOK, Dispatch PROVE TypeOK'
  OBVIOUS
<1> USE DEF TypeOK, Labels, retention, channel, callers, consumer,
            LeftByDispatch, Dispatching
<1> NoFrame \in Frame
  BY DEF NoFrame, Frame
<1>1. CASE OnAck BY <1>1 DEF OnAck, Return
<1>2. CASE OnPing BY <1>2 DEF OnPing
<1>3. CASE OnNoise BY <1>3 DEF OnNoise
<1>4. CASE OnError BY <1>4 DEF OnError, Return
<1>5. CASE OnTooEarly BY <1>5 DEF OnTooEarly, Return
<1>6. CASE OnEvent
  <2>1. [frame EXCEPT !.gap = firstData] \in Frame
    BY DEF Frame
  <2>2. frame' \in Frame /\ firstData' \in BOOLEAN
    BY <1>6, <2>1 DEF OnEvent
  <2>3. pc' \in Labels /\ offered' \in Nat
    BY <1>6 DEF OnEvent
  <2>4. UNCHANGED <<acknowledged, reason, result, LeftByDispatch>>
    BY <1>6 DEF OnEvent
  <2>5. QED
    BY <2>2, <2>3, <2>4
<1>7. QED
  BY <1>1, <1>2, <1>3, <1>4, <1>5, <1>6 DEF Dispatch

\* The steps of enqueue keep the types.
LEMMA TypeEnqueue == TypeOK /\ Enqueue => TypeOK'
<1> SUFFICES ASSUME TypeOK, Enqueue PROVE TypeOK'
  OBVIOUS
<1> USE DEF TypeOK, Labels, retention, channel, callers, consumer, LeftByEnqueue
<1> NoFrame \in Frame
  BY DEF NoFrame, Frame
<1>1. Append(events, frame) \in Seq(Frame)
  OBVIOUS
<1>2. CASE EnqueueSends BY <1>1, <1>2 DEF EnqueueSends, Send, Return
<1>3. CASE EnqueueFull BY <1>3 DEF EnqueueFull
<1>4. CASE Evict
  <2>1. events # <<>> => Tail(events) \in Seq(Frame)
    OBVIOUS
  <2>2. events' \in Seq(Frame) /\ dropped' \in Nat
    <3>1. CASE events # <<>>
      <4>1. events' = Tail(events) /\ dropped' = dropped + 1
        BY <1>4, <3>1 DEF Evict
      <4>2. dropped + 1 \in Nat
        OBVIOUS
      <4>3. QED
        BY <2>1, <3>1, <4>1, <4>2
    <3>2. CASE events = <<>>
      BY <1>4, <3>2 DEF Evict
    <3>3. QED
      BY <3>1, <3>2
  <2>3. QED
    BY <1>4, <2>2 DEF Evict
<1>5. CASE Resend
  <2>1. events' \in Seq(Frame)
    BY <1>1, <1>5 DEF Resend, Send
  <2>2. /\ pc' \in Labels /\ frame' \in Frame /\ reason' = reason
        /\ result' \in FatalCauses \cup {"none", "dropped", "finished"}
    BY <1>5 DEF Resend, Send, Return
  <2>3. QED
    BY <1>5, <2>1, <2>2 DEF Resend
<1>6. QED
  BY <1>2, <1>3, <1>4, <1>5 DEF Enqueue

\* What Close, the consumer, the drainer and the parent context do keeps the
\* types.
LEMMA TypeCallers ==
  ASSUME TypeOK,
         ParentCancels \/ (\E c \in Closers : Close(c)) \/ Receive
         \/ DrainReceipts \/ Terminated
  PROVE  TypeOK'
<1> USE DEF TypeOK, retention, channel, callers, consumer, LeftByCallers, worker
<1>1. CASE ParentCancels BY <1>1 DEF ParentCancels
<1>2. ASSUME NEW c \in Closers, Close(c) PROVE TypeOK'
  <2>1. CASE CloseCancels(c)
    <3>1. (callerCancelled \/ ~ctxDone) \in BOOLEAN
      OBVIOUS
    <3>2. QED
      BY <2>1, <3>1 DEF CloseCancels
  <2>2. CASE CloseLocks(c) BY <2>2 DEF CloseLocks
  <2>3. CASE CloseHangsUp(c)
    <3>1. open \ {conn} \in SUBSET Nat
      OBVIOUS
    <3>2. QED
      BY <2>3, <3>1 DEF CloseHangsUp
  <2>4. CASE CloseReturns(c) BY <2>4 DEF CloseReturns
  <2>5. QED
    BY <1>2, <2>1, <2>2, <2>3, <2>4 DEF Close
<1>3. CASE Receive
  <2>1. Head(events) \in Frame /\ Tail(events) \in Seq(Frame)
    BY <1>3 DEF Receive
  <2>2. Head(events).epoch \in Nat
    BY <2>1 DEF Frame
  <2>3. QED
    BY <1>3, <2>1, <2>2 DEF Receive
<1>4. CASE DrainReceipts
  <2>1. \A i \in DOMAIN receipts : receipts[i] \in Nat
    OBVIOUS
  <2>2. {receipts[i] : i \in DOMAIN receipts} \in SUBSET Nat
    BY <2>1
  <2>3. drained \cup {receipts[i] : i \in DOMAIN receipts} \in SUBSET Nat
    BY <2>2
  <2>4. <<>> \in Seq(Nat)
    OBVIOUS
  <2>5. QED
    BY <1>4, <2>3, <2>4 DEF DrainReceipts
<1>5. CASE Terminated BY <1>5 DEF Terminated, vars
<1>6. QED
  BY <1>1, <1>2, <1>3, <1>4, <1>5

\* Every step keeps the types.
LEMMA TypeNext == TypeOK /\ GapHasReason /\ [Next]_vars => TypeOK'
<1> SUFFICES ASSUME TypeOK, GapHasReason, [Next]_vars PROVE TypeOK'
  OBVIOUS
<1>1. CASE Worker
  BY <1>1, TypeReconnecting, TypeServing, TypeDispatch, TypeEnqueue DEF Worker
<1>2. CASE ParentCancels \/ (\E c \in Closers : Close(c)) \/ Receive
           \/ DrainReceipts \/ Terminated
  BY <1>2, TypeCallers
<1>3. CASE UNCHANGED vars
  BY <1>3 DEF TypeOK, vars, worker, retention, channel, consumer
<1>4. QED
  BY <1>1, <1>2, <1>3 DEF Next

\* Every step keeps a reason exactly for the gap about to be recorded.
LEMMA ReasonNext == TypeOK /\ GapHasReason /\ [Next]_vars => GapHasReason'
<1> SUFFICES ASSUME TypeOK, GapHasReason, [Next]_vars PROVE GapHasReason'
  OBVIOUS
<1> USE DEF GapHasReason
<1>1. CASE Reconnecting
  BY <1>1 DEF Reconnecting, Top, DialFails, RetryOr, DialSucceeds, Connected,
     Unset, Hangup, Decide, Sleep, RunDeferred, DeferNext
<1>2. CASE Serving
  BY <1>2 DEF Serving, Write, Return, ReadFrame, ReadFails, Observe, Retain,
     RecordGap, AfterReceipt
<1>3. CASE Dispatch
  BY <1>3 DEF Dispatch, Dispatching, OnAck, OnPing, OnNoise, OnError,
     OnTooEarly, OnEvent, Return
<1>4. CASE Enqueue
  BY <1>4 DEF Enqueue, EnqueueSends, EnqueueFull, Evict, Resend, Send, Return
<1>5. CASE UNCHANGED worker
  BY <1>5 DEF worker
<1>6. QED
  BY <1>1, <1>2, <1>3, <1>4, <1>5 DEF Next, Worker, ParentCancels, Close,
     CloseCancels, CloseLocks, CloseHangsUp, CloseReturns, Receive,
     DrainReceipts, Terminated, LeftByCallers, vars

\* Type correctness: in every reachable state of a stream each variable holds a
\* value of its type, for all capacities, policies, closers and bounds.
THEOREM TypeCorrect == Spec => []TypeOK
<1>1. Init => TypeOK /\ GapHasReason
  BY TypeInit DEF Init, GapHasReason
<1>2. TypeOK /\ GapHasReason /\ [Next]_vars => (TypeOK /\ GapHasReason)'
  BY TypeNext, ReasonNext
<1>3. QED
  BY <1>1, <1>2, PTL DEF Spec

-----------------------------------------------------------------------------
(* The reconnect budget *)

\* Every step keeps the count of dials tied to attempts.
LEMMA BudgetNext == TypeOK /\ BudgetInv /\ [Next]_vars => BudgetInv'
<1> SUFFICES ASSUME TypeOK, BudgetInv, [Next]_vars PROVE BudgetInv'
  OBVIOUS
<1> USE StreamAssumption DEF StreamAssumption, BudgetInv, Connection, Leaving
<1> /\ attempts \in Nat /\ streak \in Nat /\ pc \in Labels
    /\ err \in FatalCauses \cup {"nil", "dial", "exhausted"}
    /\ result \in FatalCauses \cup {"none", "dropped", "finished"}
  BY DEF TypeOK
<1>1. CASE DialFails
  BY <1>1 DEF DialFails, RetryOr, BudgetSpent
<1>2. CASE Decide
  BY <1>2 DEF Decide, RetryOr, BudgetSpent, IsFatal, EndsClean, ResetAttempts
<1>3. CASE Top \/ DialSucceeds \/ Connected \/ Unset \/ Hangup \/ Sleep \/ RunDeferred
  BY <1>3 DEF Top, DialSucceeds, Connected, Unset, Hangup, Sleep, RunDeferred,
     DeferNext
<1>4. CASE Serving
  BY <1>4 DEF Serving, Write, Return, ReadFrame, ReadFails, Observe, Retain,
     RecordGap, AfterReceipt
<1>5. CASE Dispatch
  BY <1>5 DEF Dispatch, Dispatching, OnAck, OnPing, OnNoise, OnError,
     OnTooEarly, OnEvent, Return, LeftByDispatch
<1>6. CASE Enqueue
  BY <1>6 DEF Enqueue, EnqueueSends, EnqueueFull, Evict, Resend, Send, Return,
     LeftByEnqueue
<1>7. CASE UNCHANGED <<worker, err, streak>>
  BY <1>7 DEF worker
<1>8. QED
  BY <1>1, <1>2, <1>3, <1>4, <1>5, <1>6, <1>7 DEF Next, Worker, Reconnecting,
     ParentCancels, Close, CloseCancels, CloseLocks, CloseHangsUp,
     CloseReturns, Receive, DrainReceipts, Terminated, LeftByCallers, vars

\* The reconnect budget: at most MaxReconnects + 1 dials since the last
\* acknowledged connection, and exhaustion reported after exactly as many.
THEOREM BudgetHolds == Spec => []BudgetRespected
<1>1. Init => BudgetInv
  BY StreamAssumption DEF Init, BudgetInv, Connection, Leaving, StreamAssumption
<1>2. TypeOK /\ BudgetInv => BudgetRespected
  BY StreamAssumption DEF BudgetInv, BudgetRespected, TypeOK, Labels,
     Connection, Leaving, StreamAssumption
<1>3. QED
  BY <1>1, <1>2, BudgetNext, TypeCorrect, PTL DEF Spec

-----------------------------------------------------------------------------
(* Sockets *)

\* Every step keeps the bound on open sockets at its label.
LEMMA SocketNext == TypeOK /\ SocketInv /\ [Next]_vars => SocketInv'
<1> SUFFICES ASSUME TypeOK, SocketInv, [Next]_vars PROVE SocketInv'
  OBVIOUS
<1> USE DEF SocketInv, Connection
<1> epoch \in Nat /\ pc \in Labels
  BY DEF TypeOK
<1>1. CASE Reconnecting
  BY <1>1 DEF Reconnecting, Top, DialFails, RetryOr, DialSucceeds, Connected,
     Unset, Hangup, HangupTarget, Decide, Sleep, RunDeferred, DeferNext
<1>2. CASE Serving
  BY <1>2 DEF Serving, Write, Return, ReadFrame, ReadFails, Observe, Retain,
     RecordGap, AfterReceipt
<1>3. CASE Dispatch
  BY <1>3 DEF Dispatch, Dispatching, OnAck, OnPing, OnNoise, OnError,
     OnTooEarly, OnEvent, Return, LeftByDispatch
<1>4. CASE Enqueue
  BY <1>4 DEF Enqueue, EnqueueSends, EnqueueFull, Evict, Resend, Send, Return,
     LeftByEnqueue
<1>5. CASE UNCHANGED <<pc, epoch>> /\ open' \subseteq open
  BY <1>5
<1>6. QED
  BY <1>1, <1>2, <1>3, <1>4, <1>5 DEF Next, Worker, ParentCancels, Close,
     CloseCancels, CloseLocks, CloseHangsUp, CloseReturns, Receive,
     DrainReceipts, Terminated, LeftByCallers, vars, worker

\* No socket leaks: one socket at most is open, and none once Wait returns,
\* wherever a cancellation or a Close meets the dial.
THEOREM SocketsClosed == Spec => []NoSocketLeft
<1>1. Init => SocketInv
  BY DEF Init, SocketInv, Connection
<1>2. SocketInv => NoSocketLeft
  BY DEF SocketInv, NoSocketLeft, DoneClosed, Connection
<1>3. QED
  BY <1>1, <1>2, SocketNext, TypeCorrect, PTL DEF Spec

-----------------------------------------------------------------------------
(* Delivery: nothing is lost without being counted *)

\* The steps of run and serve neither lose nor hand over a queued event.
LEMMA DeliveryWorker ==
  ASSUME TypeOK, DeliveryInv, Reconnecting \/ Serving \/ Dispatch
  PROVE  DeliveryInv'
<1> USE DEF DeliveryInv, HoldsEvent, ResendHasRoom, Room, Leaving
<1> /\ pc \in Labels /\ received \in Nat /\ dropped \in Nat /\ offered \in Nat
    /\ Len(events) \in Nat
  BY DEF TypeOK
<1>1. CASE Reconnecting
  <2>1. UNCHANGED <<offered, received, dropped, events>>
    BY <1>1 DEF Reconnecting, Top, DialFails, DialSucceeds, Connected, Unset,
       Hangup, Decide, Sleep, RunDeferred, callers, consumer, channel
  <2>2. CASE Connected
    BY <2>1, <2>2 DEF Connected
  <2>3. CASE Decide
    BY <2>1, <2>3 DEF Decide, RetryOr, IsFatal, EndsClean, Cancelled
  <2>4. CASE RunDeferred
    BY <2>1, <2>4 DEF RunDeferred, DeferNext
  <2>5. CASE Top \/ DialFails \/ DialSucceeds \/ Unset \/ Hangup \/ Sleep
    BY <2>1, <2>5 DEF Top, DialFails, RetryOr, DialSucceeds, Unset, Hangup, Sleep
  <2>6. QED
    BY <1>1, <2>2, <2>3, <2>4, <2>5 DEF Reconnecting
<1>2. CASE Serving
  <2>1. UNCHANGED <<offered, received, dropped, events>>
    BY <1>2 DEF Serving, Write, ReadFrame, ReadFails, Observe, Retain,
       RecordGap, callers, consumer, channel
  <2>2. CASE RecordGap
    BY <2>1, <2>2 DEF RecordGap, GapIsFatal, AfterReceipt
  <2>3. CASE Write \/ ReadFrame \/ ReadFails \/ Observe \/ Retain
    BY <2>1, <2>3 DEF Write, Return, ReadFrame, ReadFails, Observe, Retain,
       AfterReceipt
  <2>4. QED
    BY <1>2, <2>2, <2>3 DEF Serving
<1>3. CASE Dispatch
  <2>1. UNCHANGED <<received, dropped, events>>
    BY <1>3 DEF Dispatch, OnAck, OnPing, OnNoise, OnError, OnTooEarly, OnEvent,
       LeftByDispatch, callers, consumer, channel
  <2>2. CASE OnEvent
    BY <2>1, <2>2 DEF OnEvent, Dispatching
  <2>3. CASE OnAck \/ OnPing \/ OnNoise \/ OnError \/ OnTooEarly
    BY <2>1, <2>3 DEF OnAck, OnPing, OnNoise, OnError, OnTooEarly, Dispatching,
       Return
  <2>4. QED
    BY <1>3, <2>2, <2>3 DEF Dispatch
<1>4. QED
  BY <1>1, <1>2, <1>3

\* The steps of enqueue account for the event they hold.
LEMMA DeliveryEnqueue ==
  ASSUME TypeOK, DeliveryInv, Enqueue
  PROVE  DeliveryInv'
<1> USE DEF DeliveryInv, HoldsEvent, ResendHasRoom, Room, Leaving
<1> /\ pc \in Labels /\ received \in Nat /\ dropped \in Nat /\ offered \in Nat
    /\ Len(events) \in Nat /\ EventCapacity \in Nat \ {0}
  BY CapacitiesPositive DEF TypeOK
<1>1. UNCHANGED <<offered, received>>
  BY DEF Enqueue, EnqueueSends, EnqueueFull, Evict, Resend, LeftByEnqueue,
     callers, consumer
<1>2. Len(Append(events, frame)) = Len(events) + 1
  BY DEF TypeOK
<1>3. CASE EnqueueSends
  <2>1. Len(events') = Len(events) + 1 /\ dropped' = dropped
    BY <1>2, <1>3 DEF EnqueueSends, Send
  <2>2. QED
    BY <1>1, <1>3, <2>1 DEF EnqueueSends, Send, Return
<1>4. CASE EnqueueFull
  <2>1. UNCHANGED <<events, dropped>>
    BY <1>4 DEF EnqueueFull, channel
  <2>2. QED
    BY <1>1, <1>4, <2>1 DEF EnqueueFull
<1>5. CASE Evict
  <2>1. CASE events # <<>>
    <3>1. Len(events') = Len(events) - 1 /\ Len(events) > 0 /\ dropped' = dropped + 1
      BY <1>5, <2>1 DEF Evict, TypeOK
    <3>2. QED
      BY <1>1, <1>5, <3>1 DEF Evict
  <2>2. CASE events = <<>>
    <3>1. UNCHANGED <<events, dropped>> /\ Len(events) = 0
      BY <1>5, <2>2 DEF Evict, channel
    <3>2. QED
      BY <1>1, <1>5, <3>1 DEF Evict
  <2>3. QED
    BY <2>1, <2>2
<1>6. CASE Resend
  <2>1. CASE Send
    <3>1. Len(events') = Len(events) + 1 /\ dropped' = dropped
      BY <1>2, <1>6, <2>1 DEF Resend, Send
    <3>2. QED
      BY <1>1, <1>6, <2>1, <3>1 DEF Resend, Send, Return
  <2>2. CASE ctxDone /\ Return("dropped") /\ UNCHANGED events
    <3>1. UNCHANGED <<events, dropped, ctxDone>>
      BY <1>6, <2>2 DEF Resend, LeftByEnqueue
    <3>2. QED
      BY <1>1, <1>6, <2>2, <3>1 DEF Resend, Return
  <2>3. QED
    BY <1>6, <2>1, <2>2 DEF Resend
<1>7. QED
  BY <1>3, <1>4, <1>5, <1>6 DEF Enqueue

\* Every step keeps the account of events.
LEMMA DeliveryNext == TypeOK /\ DeliveryInv /\ [Next]_vars => DeliveryInv'
<1> SUFFICES ASSUME TypeOK, DeliveryInv, [Next]_vars PROVE DeliveryInv'
  OBVIOUS
<1> USE DEF DeliveryInv, HoldsEvent, ResendHasRoom, Room, Leaving
<1>1. CASE Worker
  BY <1>1, DeliveryWorker, DeliveryEnqueue DEF Worker
<1>2. CASE Receive
  <2>1. /\ Len(events') = Len(events) - 1 /\ Len(events) \in Nat \ {0}
        /\ received' = received + 1
    BY <1>2 DEF Receive, TypeOK
  <2>2. UNCHANGED <<pc, reason, result, ctxDone, dropped, offered>>
    BY <1>2 DEF Receive, LeftByCallers, worker
  <2>3. /\ received \in Nat /\ dropped \in Nat /\ offered \in Nat
        /\ EventCapacity \in Nat
    BY CapacitiesPositive DEF TypeOK
  <2>4. QED
    BY <2>1, <2>2, <2>3
<1>3. CASE /\ UNCHANGED <<pc, reason, result, dropped, offered, events, received>>
           /\ ctxDone => ctxDone'
  BY <1>3
<1>4. QED
  BY <1>1, <1>2, <1>3 DEF Next, ParentCancels, Close, CloseCancels, CloseLocks,
     CloseHangsUp, CloseReturns, DrainReceipts, Terminated, LeftByCallers, vars,
     worker, consumer, channel

\* The account of events holds in every reachable state.
LEMMA DeliveryAlways == Spec => []DeliveryInv
<1>1. Init => DeliveryInv
  BY CapacitiesPositive DEF Init, DeliveryInv, HoldsEvent, ResendHasRoom
<1>2. QED
  BY <1>1, DeliveryNext, TypeCorrect, PTL DEF Spec

\* Exact loss accounting: every event handed to the queue is received, buffered
\* or counted by Dropped, but for the one in the worker's hand or the one the
\* end of the stream gave up.
THEOREM LossAlwaysCounted == Spec => []LossCounted
<1>1. TypeOK /\ DeliveryInv => LossCounted
  BY DEF TypeOK, DeliveryInv, LossCounted, HoldsEvent
<1>2. QED
  BY <1>1, DeliveryAlways, TypeCorrect, PTL

\* drop_oldest never waits for the consumer: the second send finds room.
THEOREM ResendNeverWaits == Spec => []ResendHasRoom
<1>1. DeliveryInv => ResendHasRoom
  BY DEF DeliveryInv
<1>2. QED
  BY <1>1, DeliveryAlways, PTL
=============================================================================
