------------------------------- MODULE Stream -------------------------------
(***************************************************************************)
(* One running subscription: the worker goroutine of subscription/client.go *)
(* (run, serve, enqueue, writeJSON), the Stream it shares with its callers  *)
(* (the bounded event channel, the bounded receipt and gap buffers, the     *)
(* connection slot and the terminal error), and the callers themselves:     *)
(* goroutines in Close, a consumer that ranges over Events, a caller that   *)
(* drains receipts, and the parent context being cancelled.                 *)
(*                                                                          *)
(* The grain of atomicity is that of the code: one action for each critical *)
(* section of Stream.mu, for each channel operation and for each call the   *)
(* worker can block in.  The server is the nondeterminism of the dial, read *)
(* and write actions.  Payloads, timestamps and digests are left out.       *)
(***************************************************************************)
EXTENDS Naturals, Sequences, FiniteSets

CONSTANTS
    QueueCapacity,    \* Config.SubscriptionQueueCapacity
    ReceiptCapacity,  \* Config.SubscriptionReceiptCapacity, 0 retains nothing
    MaxReconnects,    \* Config.SubscriptionMaxReconnects
    OverflowPolicy,   \* Config.OverflowPolicy
    ReceiptPolicy,    \* Config.ReceiptOverflowPolicy
    HasObserver,      \* whether Config.ReceiptObserver is set
    Closers,          \* the goroutines that may call Close
    MaxFrames,        \* bound: frames the server sends in a behaviour
    MaxEpochs         \* bound: dials that succeed in a behaviour

ASSUME StreamAssumption ==
    /\ QueueCapacity \in Nat /\ ReceiptCapacity \in Nat
    /\ MaxReconnects \in Nat /\ MaxFrames \in Nat /\ MaxEpochs \in Nat
    /\ OverflowPolicy \in {"drop_oldest", "fail"}
    /\ ReceiptPolicy \in {"drop_oldest", "fail"}
    /\ HasObserver \in BOOLEAN

AtLeastOne(n) == IF n = 0 THEN 1 ELSE n
EventCapacity == AtLeastOne(QueueCapacity)
GapCapacity == AtLeastOne(ReceiptCapacity)

\* Frame types the switch in serve tells apart; "noise" is any frame it
\* ignores, and "sent" marks a frame the worker wrote.
FrameKinds == {"ack", "ping", "keepalive", "error", "complete", "data", "noise"}
NoFrame == [kind |-> "none", epoch |-> 0, seq |-> 0, gap |-> FALSE]
Frame == [kind : FrameKinds \cup {"none", "sent"}, epoch : Nat, seq : Nat,
          gap : BOOLEAN]

GapReasons == {"reconnect", "overflow_fail", "receipt_overflow",
               "receipt_observer"}
Gap == [reason : GapReasons, epoch : Nat, seq : Nat]

\* Results of serve that wrap errFatal, named by their cause.
FatalCauses == {"overflow_fail", "receipt_overflow", "receipt_observer",
                "server", "protocol"}

VARIABLES
    \* locals of run and serve
    pc, epoch, attempts, acknowledged, firstData, frame, reason, result,
    \* fields of Stream
    conn, receiveSequence, err, receipts, receiptDropped, gaps, gapDropped,
    events, dropped, ctxDone,
    \* callers and sockets
    closer, open,
    \* history
    callerCancelled, streak, offered, received, last, lastDataEpoch, drained

worker == <<pc, epoch, attempts, acknowledged, firstData, frame, reason, result>>
retention == <<receipts, receiptDropped, gaps, gapDropped>>
channel == <<events, dropped>>
consumer == <<received, last, lastDataEpoch>>
vars == <<worker, conn, receiveSequence, err, retention, channel, ctxDone,
          closer, open, callerCancelled, streak, offered, consumer, drained>>

\* What the callers' half of the state looks like to a step of the worker.
callers == <<closer, callerCancelled, consumer, drained>>

Labels == {"top", "dial", "dialed", "write", "observe", "retain", "gap", "read",
           "dispatch", "enqueue", "evict", "resend", "unset", "hangup",
           "decide", "sleep", "cancel", "closeDone", "closeEvents", "stopped"}

-----------------------------------------------------------------------------
Init ==
    /\ pc = "top" /\ epoch = 0 /\ attempts = 0
    /\ acknowledged = FALSE /\ firstData = FALSE
    /\ frame = NoFrame /\ reason = "none" /\ result = "none"
    /\ conn = 0 /\ receiveSequence = 0 /\ err = "nil"
    /\ receipts = <<>> /\ receiptDropped = 0
    /\ gaps = <<>> /\ gapDropped = 0
    /\ events = <<>> /\ dropped = 0
    /\ ctxDone = FALSE
    /\ closer = [c \in Closers |-> "idle"]
    /\ open = {}
    /\ callerCancelled = FALSE /\ streak = 0
    /\ offered = 0 /\ received = 0
    /\ last = NoFrame /\ lastDataEpoch = 0
    /\ drained = {}

\* close(stream.done) and close(events) are the worker's last steps but one.
DoneClosed == pc \in {"closeEvents", "stopped"}
EventsClosed == pc = "stopped"

\* Close calls conn.Close while it holds Stream.mu; every other critical
\* section is one action.
MuFree == \A c \in Closers : closer[c] # "closing"

-----------------------------------------------------------------------------
(* run: the reconnect loop *)

Cancelled == ctxDone

Top ==
    /\ pc = "top"
    /\ pc' = IF Cancelled THEN "cancel" ELSE "dial"
    /\ UNCHANGED <<epoch, attempts, acknowledged, firstData, frame, reason,
                   result, conn, receiveSequence, err, retention, channel,
                   ctxDone, open, streak, offered, callers>>

MutantBudget == attempts > MaxReconnects
BudgetSpent == attempts >= MaxReconnects

MutantGiveUp(e) ==
    IF BudgetSpent
    THEN pc' = "cancel" /\ UNCHANGED <<attempts, err>>
    ELSE pc' = "sleep" /\ attempts' = attempts + 1 /\ UNCHANGED err

\* Spend one reconnect attempt, or give up with the error e.
RetryOr(e) ==
    IF BudgetSpent
    THEN pc' = "cancel" /\ err' = e /\ UNCHANGED attempts
    ELSE pc' = "sleep" /\ attempts' = attempts + 1 /\ UNCHANGED err

DialFails ==
    /\ pc = "dial"
    /\ streak' = streak + 1
    /\ IF Cancelled
       THEN pc' = "cancel" /\ UNCHANGED <<attempts, err>>
       ELSE RetryOr("dial")
    /\ UNCHANGED <<epoch, acknowledged, firstData, frame, reason, result, conn,
                   receiveSequence, retention, channel, ctxDone, open, offered,
                   callers>>

DialSucceeds ==
    /\ pc = "dial" /\ epoch < MaxEpochs
    /\ pc' = "dialed"
    /\ streak' = streak + 1
    /\ open' = open \cup {epoch + 1}
    /\ UNCHANGED <<epoch, attempts, acknowledged, firstData, frame, reason,
                   result, conn, receiveSequence, err, retention, channel,
                   ctxDone, offered, callers>>

MutantReconnected == epoch > 1
Reconnected == epoch + 1 > 1

\* setConn, epoch++, and the locals a call of serve starts with.
Connected ==
    /\ pc = "dialed" /\ MuFree
    /\ epoch' = epoch + 1
    /\ conn' = epoch + 1
    /\ acknowledged' = FALSE
    /\ firstData' = Reconnected
    /\ result' = "none"
    /\ IF Reconnected
       THEN pc' = "gap" /\ reason' = "reconnect"
       ELSE pc' = "write" /\ UNCHANGED reason
    /\ UNCHANGED <<attempts, frame, receiveSequence, err, retention, channel,
                   ctxDone, open, streak, offered, callers>>

\* stream.setConn(nil)
Unset ==
    /\ pc = "unset" /\ MuFree
    /\ conn' = 0
    /\ pc' = "hangup"
    /\ UNCHANGED <<epoch, attempts, acknowledged, firstData, frame, reason,
                   result, receiveSequence, err, retention, channel, ctxDone,
                   open, streak, offered, callers>>

\* The connection run closes is its local one: Stream.conn is nil by now.
MutantHangupTarget == conn
HangupTarget == epoch

\* conn.Close(1000, "reconnect")
Hangup ==
    /\ pc = "hangup"
    /\ open' = open \ {HangupTarget}
    /\ pc' = "decide"
    /\ UNCHANGED <<epoch, attempts, acknowledged, firstData, frame, reason,
                   result, conn, receiveSequence, err, retention, channel,
                   ctxDone, streak, offered, callers>>

MutantEndsClean == result \in {"finished", "protocol"}
EndsClean == result = "finished"

MutantIsFatal == result \in FatalCauses \ {"server"}
IsFatal == result \in FatalCauses

MutantResetAttempts == attempts - 1
ResetAttempts == 0

\* What run does with the result of serve.  No goroutine can hold Stream.mu
\* here unless ctx is done, so setErr never waits.
Decide ==
    /\ pc = "decide"
    /\ frame' = NoFrame
    /\ \/ /\ Cancelled \/ EndsClean
          /\ pc' = "cancel"
          /\ UNCHANGED <<attempts, err, streak>>
       \/ /\ ~Cancelled /\ ~EndsClean /\ IsFatal
          /\ pc' = "cancel" /\ err' = result
          /\ UNCHANGED <<attempts, streak>>
       \/ /\ ~Cancelled /\ ~EndsClean /\ ~IsFatal /\ acknowledged
          /\ pc' = "sleep"
          /\ attempts' = ResetAttempts /\ streak' = 0
          /\ UNCHANGED err
       \/ /\ ~Cancelled /\ ~EndsClean /\ ~IsFatal /\ ~acknowledged
          /\ RetryOr("exhausted")
          /\ UNCHANGED streak
    /\ UNCHANGED <<epoch, acknowledged, firstData, reason, result, conn,
                   receiveSequence, retention, channel, ctxDone, open, offered,
                   callers>>

\* policy.Sleep returns nil when the timer fires, an error once ctx is done.
Sleep ==
    /\ pc = "sleep"
    /\ \/ pc' = "top"
       \/ ctxDone /\ pc' = "cancel"
    /\ UNCHANGED <<epoch, attempts, acknowledged, firstData, frame, reason,
                   result, conn, receiveSequence, err, retention, channel,
                   ctxDone, open, streak, offered, callers>>

MutantDeferNoDone(label) ==
    CASE label = "cancel" -> "closeDone"
      [] label = "closeDone" -> "closeDone"
      [] label = "closeEvents" -> "stopped"

MutantDeferNoEvents(label) ==
    CASE label = "cancel" -> "closeDone"
      [] label = "closeDone" -> "closeEvents"
      [] label = "closeEvents" -> "closeEvents"

\* The deferred calls, last one first: cancel, close(done), close(events).
DeferNext(label) ==
    CASE label = "cancel" -> "closeDone"
      [] label = "closeDone" -> "closeEvents"
      [] label = "closeEvents" -> "stopped"

RunDeferred ==
    /\ pc \in {"cancel", "closeDone", "closeEvents"}
    /\ pc' = DeferNext(pc)
    /\ ctxDone' = TRUE
    /\ UNCHANGED <<epoch, attempts, acknowledged, firstData, frame, reason,
                   result, conn, receiveSequence, err, retention, channel,
                   open, streak, offered, callers>>

-----------------------------------------------------------------------------
(* serve: the handshake, the frame loop and the evidence of each frame *)

\* serve returns r.
Return(r) == pc' = "unset" /\ result' = r /\ UNCHANGED <<reason, frame>>

\* conn.Write in writeJSON: the socket takes the frame, or fails.
Write ==
    /\ pc = "write"
    /\ \/ /\ pc' = "observe"
          /\ frame' = [kind |-> "sent", epoch |-> epoch, seq |-> 0, gap |-> FALSE]
          /\ UNCHANGED <<reason, result>>
       \/ Return("dropped")
    /\ UNCHANGED <<epoch, attempts, acknowledged, firstData, conn,
                   receiveSequence, err, retention, channel, ctxDone, open,
                   streak, offered, callers>>

MutantNextSequence == receiveSequence
NextSequence == receiveSequence + 1

\* conn.Read returned a frame, and nextDelivery numbered it.
ReadFrame ==
    /\ pc = "read" /\ MuFree
    /\ receiveSequence < MaxFrames
    /\ receiveSequence' = NextSequence
    /\ \E k \in FrameKinds :
          frame' = [kind |-> k, epoch |-> epoch, seq |-> NextSequence,
                    gap |-> FALSE]
    /\ pc' = "observe"
    /\ UNCHANGED <<epoch, attempts, acknowledged, firstData, reason, result,
                   conn, err, retention, channel, ctxDone, open, streak,
                   offered, callers>>

\* conn.Read failed: the peer dropped the connection, or ctx is done.
ReadFails ==
    /\ pc = "read"
    /\ Return("dropped")
    /\ UNCHANGED <<epoch, attempts, acknowledged, firstData, conn,
                   receiveSequence, err, retention, channel, ctxDone, open,
                   streak, offered, callers>>

\* The caller's receipt observer accepts or rejects the receipt.
Observe ==
    /\ pc = "observe"
    /\ \/ pc' = "retain" /\ UNCHANGED reason
       \/ HasObserver /\ pc' = "gap" /\ reason' = "receipt_observer"
    /\ UNCHANGED <<epoch, attempts, acknowledged, firstData, frame, result,
                   conn, receiveSequence, err, retention, channel, ctxDone,
                   open, streak, offered, callers>>

\* Where writeJSON and serve go on once the receipt is settled.
AfterReceipt ==
    IF frame.kind = "sent"
    THEN pc' = "read" /\ frame' = NoFrame
    ELSE pc' = "dispatch" /\ UNCHANGED frame

MutantReceiptRoom == Len(receipts) <= ReceiptCapacity
ReceiptRoom == Len(receipts) < ReceiptCapacity

MutantEvictReceipt ==
    /\ receipts' = Append(Tail(receipts), frame.seq)
    /\ UNCHANGED receiptDropped

EvictReceipt ==
    /\ receipts' = Append(Tail(receipts), frame.seq)
    /\ receiptDropped' = receiptDropped + 1

\* The critical section of observeReceipt.
Retain ==
    /\ pc = "retain" /\ MuFree
    /\ \/ /\ ReceiptCapacity = 0
          /\ AfterReceipt
          /\ UNCHANGED <<receipts, receiptDropped, reason>>
       \/ /\ ReceiptCapacity > 0 /\ ReceiptRoom
          /\ receipts' = Append(receipts, frame.seq)
          /\ AfterReceipt
          /\ UNCHANGED <<receiptDropped, reason>>
       \/ /\ ReceiptCapacity > 0 /\ ~ReceiptRoom
          /\ pc' = "gap" /\ reason' = "receipt_overflow"
          /\ UNCHANGED frame
          /\ IF ReceiptPolicy = "drop_oldest"
             THEN EvictReceipt
             ELSE UNCHANGED <<receipts, receiptDropped>>
    /\ UNCHANGED <<epoch, attempts, acknowledged, firstData, result, conn,
                   receiveSequence, err, gaps, gapDropped, channel, ctxDone,
                   open, streak, offered, callers>>

GapRoom == Len(gaps) < GapCapacity

MutantPushGap(gap) ==
    IF GapRoom
    THEN gaps' = Append(gaps, gap) /\ UNCHANGED gapDropped
    ELSE gapDropped' = gapDropped + 1 /\ UNCHANGED gaps

PushGap(gap) ==
    IF GapRoom
    THEN gaps' = Append(gaps, gap) /\ UNCHANGED gapDropped
    ELSE gaps' = Append(Tail(gaps), gap) /\ gapDropped' = gapDropped + 1

MutantReceiptIsFatal == reason = "receipt_observer" \/ reason = "overflow_fail"
MutantOverflowIsFatal ==
    reason = "receipt_observer" \/ (reason = "receipt_overflow" /\ ReceiptPolicy = "fail")

\* The gap is evidence of a condition that ends the stream.
GapIsFatal ==
    \/ reason \in {"overflow_fail", "receipt_observer"}
    \/ reason = "receipt_overflow" /\ ReceiptPolicy = "fail"

\* addGap, in a critical section of its own after the one that found the
\* condition; then the branch that called it goes on.
RecordGap ==
    /\ pc = "gap" /\ MuFree
    /\ PushGap([reason |-> reason, epoch |-> epoch, seq |-> frame.seq])
    /\ reason' = "none"
    /\ \/ /\ GapIsFatal
          /\ pc' = "unset" /\ result' = reason /\ UNCHANGED frame
       \/ /\ ~GapIsFatal /\ reason = "reconnect"
          /\ pc' = "write" /\ UNCHANGED <<frame, result>>
       \/ /\ ~GapIsFatal /\ reason # "reconnect"
          /\ AfterReceipt /\ UNCHANGED result
    /\ UNCHANGED <<epoch, attempts, acknowledged, firstData, conn,
                   receiveSequence, err, receipts, receiptDropped, channel,
                   ctxDone, open, streak, offered, callers>>

-----------------------------------------------------------------------------
(* The switch on the frame type *)

Dispatching(kinds) == pc = "dispatch" /\ frame.kind \in kinds

LeftByDispatch == <<epoch, attempts, conn, receiveSequence, err, retention,
                    channel, ctxDone, open, streak, callers>>

OnAck ==
    /\ Dispatching({"ack"})
    /\ acknowledged' = TRUE
    /\ IF acknowledged
       THEN Return("protocol")
       ELSE pc' = "write" /\ UNCHANGED <<result, reason, frame>>
    /\ UNCHANGED <<firstData, offered>> /\ UNCHANGED LeftByDispatch

OnPing ==
    /\ Dispatching({"ping"})
    /\ pc' = "write"
    /\ UNCHANGED <<acknowledged, firstData, frame, reason, result, offered>>
    /\ UNCHANGED LeftByDispatch

OnNoise ==
    /\ Dispatching({"noise"})
    /\ pc' = "read" /\ frame' = NoFrame
    /\ UNCHANGED <<acknowledged, firstData, reason, result, offered>>
    /\ UNCHANGED LeftByDispatch

OnError ==
    /\ Dispatching({"error"})
    /\ Return("server")
    /\ UNCHANGED <<acknowledged, firstData, offered>> /\ UNCHANGED LeftByDispatch

TooEarly == frame.kind \in {"complete", "data"} /\ ~acknowledged

OnTooEarly ==
    /\ pc = "dispatch" /\ TooEarly
    /\ Return("protocol")
    /\ UNCHANGED <<acknowledged, firstData, offered>> /\ UNCHANGED LeftByDispatch

MutantTakesMark == TRUE
TakesMark == frame.kind = "data"

\* Hand an event to enqueue; the first data event of a connection after the
\* first one carries ReconnectGap.
OnEvent ==
    /\ Dispatching({"keepalive", "complete", "data"}) /\ ~TooEarly
    /\ pc' = "enqueue"
    /\ offered' = offered + 1
    /\ IF TakesMark
       THEN frame' = [frame EXCEPT !.gap = firstData] /\ firstData' = FALSE
       ELSE UNCHANGED <<frame, firstData>>
    /\ UNCHANGED <<acknowledged, reason, result>> /\ UNCHANGED LeftByDispatch

-----------------------------------------------------------------------------
(* enqueue: the bounded event channel *)

Room == Len(events) < EventCapacity

LeftByEnqueue == <<epoch, attempts, acknowledged, firstData, conn,
                   receiveSequence, err, retention, ctxDone, open, streak,
                   offered, callers>>

\* The send went through; a complete event ends serve.
Send ==
    /\ events' = Append(events, frame)
    /\ IF frame.kind = "complete"
       THEN Return("finished")
       ELSE pc' = "read" /\ frame' = NoFrame /\ UNCHANGED <<result, reason>>

EnqueueSends ==
    /\ pc = "enqueue" /\ Room
    /\ Send
    /\ UNCHANGED dropped /\ UNCHANGED LeftByEnqueue

MutantEnqueueWaits == FALSE

\* select's default case: the channel is full.
EnqueueFull ==
    /\ pc = "enqueue" /\ ~Room
    /\ IF OverflowPolicy = "fail"
       THEN pc' = "gap" /\ reason' = "overflow_fail"
       ELSE pc' = "evict" /\ UNCHANGED reason
    /\ UNCHANGED <<frame, result, channel>> /\ UNCHANGED LeftByEnqueue

MutantEvictNothing ==
    /\ pc = "evict"
    /\ pc' = "resend"
    /\ UNCHANGED <<frame, result, reason, channel>> /\ UNCHANGED LeftByEnqueue

MutantEvictCounts ==
    /\ pc = "evict"
    /\ pc' = "resend"
    /\ events' = IF events # <<>> THEN Tail(events) ELSE events
    /\ dropped' = dropped + 1
    /\ UNCHANGED <<frame, result, reason>> /\ UNCHANGED LeftByEnqueue

\* Take the oldest event, unless the consumer emptied the channel meanwhile.
Evict ==
    /\ pc = "evict"
    /\ pc' = "resend"
    /\ IF events # <<>>
       THEN events' = Tail(events) /\ dropped' = dropped + 1
       ELSE UNCHANGED channel
    /\ UNCHANGED <<frame, result, reason>> /\ UNCHANGED LeftByEnqueue

Resend ==
    /\ pc = "resend"
    /\ \/ Room /\ Send
       \/ ctxDone /\ Return("dropped") /\ UNCHANGED events
    /\ UNCHANGED dropped /\ UNCHANGED LeftByEnqueue

-----------------------------------------------------------------------------
(* The callers *)

LeftByCallers == <<worker, conn, receiveSequence, err, receiptDropped, gaps,
                   gapDropped, dropped, streak, offered>>

\* The context given to Subscribe is cancelled.
ParentCancels ==
    /\ ~ctxDone
    /\ ctxDone' = TRUE /\ callerCancelled' = TRUE
    /\ UNCHANGED <<closer, open, receipts, events, consumer, drained>>
    /\ UNCHANGED LeftByCallers

CloseCancels(c) ==
    /\ closer[c] = "idle"
    /\ closer' = [closer EXCEPT ![c] = "cancelled"]
    /\ ctxDone' = TRUE
    /\ callerCancelled' = (callerCancelled \/ ~ctxDone)
    /\ UNCHANGED <<open, receipts, events, consumer, drained>>
    /\ UNCHANGED LeftByCallers

CloseLocks(c) ==
    /\ closer[c] = "cancelled" /\ MuFree
    /\ closer' = [closer EXCEPT ![c] = "closing"]
    /\ UNCHANGED <<ctxDone, open, callerCancelled, receipts, events, consumer,
                   drained>>
    /\ UNCHANGED LeftByCallers

\* conn.Close(1000, "client close") when there is a connection, then unlock.
CloseHangsUp(c) ==
    /\ closer[c] = "closing"
    /\ open' = open \ {conn}
    /\ closer' = [closer EXCEPT ![c] = "waiting"]
    /\ UNCHANGED <<ctxDone, callerCancelled, receipts, events, consumer, drained>>
    /\ UNCHANGED LeftByCallers

CloseReturns(c) ==
    /\ closer[c] = "waiting" /\ DoneClosed
    /\ closer' = [closer EXCEPT ![c] = "returned"]
    /\ UNCHANGED <<ctxDone, open, callerCancelled, receipts, events, consumer,
                   drained>>
    /\ UNCHANGED LeftByCallers

\* The consumer receives from Events; buffered events outlive the stream.
Receive ==
    /\ events # <<>>
    /\ events' = Tail(events)
    /\ received' = received + 1
    /\ last' = Head(events)
    /\ lastDataEpoch' = IF Head(events).kind = "data" THEN Head(events).epoch
                        ELSE lastDataEpoch
    /\ UNCHANGED <<ctxDone, closer, open, callerCancelled, receipts, drained>>
    /\ UNCHANGED LeftByCallers

DrainReceipts ==
    /\ MuFree /\ receipts # <<>>
    /\ drained' = drained \cup {receipts[i] : i \in DOMAIN receipts}
    /\ receipts' = <<>>
    /\ UNCHANGED <<ctxDone, closer, open, callerCancelled, events, consumer>>
    /\ UNCHANGED LeftByCallers

-----------------------------------------------------------------------------
Reconnecting ==
    Top \/ DialFails \/ DialSucceeds \/ Connected \/ Unset \/ Hangup \/ Decide
    \/ Sleep \/ RunDeferred
Serving == Write \/ ReadFrame \/ ReadFails \/ Observe \/ Retain \/ RecordGap
Dispatch == OnAck \/ OnPing \/ OnNoise \/ OnError \/ OnTooEarly \/ OnEvent
Enqueue == EnqueueSends \/ EnqueueFull \/ Evict \/ Resend
Worker == Reconnecting \/ Serving \/ Dispatch \/ Enqueue

Close(c) ==
    CloseCancels(c) \/ CloseLocks(c) \/ CloseHangsUp(c) \/ CloseReturns(c)

\* Everyone is done: the worker has stopped, every Close has returned and the
\* buffers have been emptied.
Terminated ==
    /\ EventsClosed /\ events = <<>> /\ receipts = <<>>
    /\ \A c \in Closers : closer[c] = "returned"
    /\ UNCHANGED vars

Next ==
    \/ Worker
    \/ ParentCancels
    \/ \E c \in Closers : Close(c)
    \/ Receive
    \/ DrainReceipts
    \/ Terminated

Spec == Init /\ [][Next]_vars

\* Calls that wait for something outside the process until ctx is done.
Blocking == pc \in {"dial", "read", "write", "observe"}

\* The Go scheduler runs a runnable worker and a Close under way.  A peer or an
\* observer owes an answer only once ctx is done.  No fairness for consumers.
WorkerFairness == WF_vars(Worker /\ (Blocking => ctxDone))
CloseFairness ==
    \A c \in Closers : WF_vars(CloseLocks(c) \/ CloseHangsUp(c) \/ CloseReturns(c))
ConsumerFairness == WF_vars(Receive)
FairSpec == Spec /\ WorkerFairness /\ CloseFairness

-----------------------------------------------------------------------------
(* Properties *)

\* Every variable has the type its Go counterpart has, and the labels the
\* worker can be at.
TypeOK ==
    /\ pc \in Labels
    /\ epoch \in Nat /\ attempts \in Nat
    /\ acknowledged \in BOOLEAN /\ firstData \in BOOLEAN
    /\ frame \in Frame
    /\ reason \in GapReasons \cup {"none"}
    /\ result \in FatalCauses \cup {"none", "dropped", "finished"}
    /\ conn \in Nat /\ receiveSequence \in Nat
    /\ err \in FatalCauses \cup {"nil", "dial", "exhausted"}
    /\ receipts \in Seq(Nat) /\ receiptDropped \in Nat
    /\ gaps \in Seq(Gap) /\ gapDropped \in Nat
    /\ events \in Seq(Frame) /\ dropped \in Nat
    /\ ctxDone \in BOOLEAN
    /\ closer \in [Closers -> {"idle", "cancelled", "closing", "waiting",
                               "returned"}]
    /\ open \in SUBSET Nat
    /\ callerCancelled \in BOOLEAN /\ streak \in Nat
    /\ offered \in Nat /\ received \in Nat
    /\ last \in Frame /\ lastDataEpoch \in Nat
    /\ drained \in SUBSET Nat

\* A gap about to be recorded has a reason, and a reason is kept for nothing
\* else.
GapHasReason == pc = "gap" <=> reason # "none"

\* Under drop_oldest the second send of enqueue (client.go:595) never waits:
\* when it is reached the channel has room, so a consumer that stops receiving
\* cannot hold the worker.
ResendHasRoom == pc = "resend" => Room

HoldsEvent ==
    \/ pc \in {"enqueue", "evict", "resend"}
    \/ pc = "gap" /\ reason = "overflow_fail"

\* Every event the worker hands to enqueue is received, still buffered or
\* counted by Dropped, except the one it holds, the one whose overflow failed
\* the stream, and the one a cancelled send gives up.
LossCounted ==
    LET accounted == received + Len(events) + dropped
    IN  /\ offered \in {accounted, accounted + 1}
        /\ HoldsEvent => offered = accounted + 1
        /\ offered = accounted + 1 =>
              HoldsEvent \/ result = "overflow_fail" \/ (result = "dropped" /\ ctxDone)

\* The labels from the return of a dial to the decision about its connection,
\* and the labels of the way out of run.
Connection == {"dialed", "write", "observe", "retain", "gap", "read", "dispatch",
               "enqueue", "evict", "resend", "unset", "hangup", "decide"}
Leaving == {"cancel", "closeDone", "closeEvents", "stopped"}

\* LossCounted and ResendHasRoom, strengthened to be inductive: an event that
\* is neither accounted for nor held belongs to a worker that will not hand
\* over another one.
DeliveryInv ==
    LET accounted == received + Len(events) + dropped
    IN  /\ Len(events) <= EventCapacity
        /\ ResendHasRoom
        /\ HoldsEvent => offered = accounted + 1
        /\ ~HoldsEvent =>
              \/ offered = accounted
              \/ /\ offered = accounted + 1
                 /\ pc \in {"unset", "hangup", "decide"} \cup Leaving
                 /\ result = "overflow_fail" \/ (result = "dropped" /\ ctxDone)

\* BudgetRespected, strengthened: attempts counts the dials of the current
\* streak, but for the one whose connection is being served.
BudgetInv ==
    /\ attempts <= MaxReconnects
    /\ pc \in {"top", "dial", "sleep"} => streak = attempts
    /\ pc \in Connection => streak = attempts + 1
    /\ pc \in Leaving => streak <= MaxReconnects + 1
    /\ err \in {"dial", "exhausted"} => pc \in Leaving /\ streak = MaxReconnects + 1

\* NoSocketLeft, strengthened: which socket can be open at each label.
SocketInv ==
    /\ pc = "dialed" => open \subseteq {epoch + 1}
    /\ pc \in Connection \ {"dialed", "decide"} => open \subseteq {epoch}
    /\ pc \notin Connection \ {"decide"} => open = {}

Before(e, f) == e.seq < f.seq /\ e.epoch <= f.epoch

\* The consumer receives events in the order their frames were read, across
\* reconnects and evictions: sequence numbers increase, epochs never go back.
Ordered ==
    /\ \A i, j \in DOMAIN events : i < j => Before(events[i], events[j])
    /\ \A i \in DOMAIN events : Before(last, events[i])
    /\ HoldsEvent => /\ Before(last, frame)
                     /\ \A i \in DOMAIN events : Before(events[i], frame)

\* The consumer cannot take the first data of a new connection for a
\* continuation: a data event of a later epoch than the data before it carries
\* ReconnectGap, unless an event was dropped.
ReconnectMarked ==
    \A i \in DOMAIN events :
       LET e == events[i]
       IN  e.kind = "data" /\ e.epoch > 1 /\ ~e.gap /\ dropped = 0 =>
              \/ lastDataEpoch = e.epoch
              \/ \E j \in 1 .. (i - 1) :
                    events[j].kind = "data" /\ events[j].epoch = e.epoch

\* The worker dials at most MaxReconnects + 1 times since the last connection
\* that was acknowledged, and reports exhaustion only after as many.
BudgetRespected ==
    /\ streak <= MaxReconnects + 1
    /\ err \in {"dial", "exhausted"} => streak = MaxReconnects + 1

\* At most one socket is open at a time, and none once Wait returns, also when
\* Close finds no connection to close because the dial is still under way.
NoSocketLeft ==
    /\ \A a, b \in open : a = b
    /\ DoneClosed => open = {}

\* A stream that failed for a reason that has a gap ends with that gap as the
\* newest one in Gaps, whatever was evicted before it.
FatalHasGap ==
    err \in GapReasons => gaps # <<>> /\ gaps[Len(gaps)].reason = err

CountGaps(r) == Cardinality({i \in DOMAIN gaps : gaps[i].reason = r})
PendingGap(r) == IF pc = "gap" /\ reason = r THEN 1 ELSE 0

Reconnects == IF epoch = 0 THEN 0 ELSE epoch - 1

GapsAddUp ==
    LET overflows == IF ReceiptPolicy = "drop_oldest" THEN receiptDropped ELSE 0
        ends == IF result \in GapReasons \/ (pc = "gap" /\ GapIsFatal) THEN 1 ELSE 0
        pending == IF pc = "gap" THEN 1 ELSE 0
    IN  Len(gaps) + gapDropped + pending = Reconnects + overflows + ends

GapsByReason ==
    /\ CountGaps("reconnect") + PendingGap("reconnect") = Reconnects
    /\ ReceiptPolicy = "drop_oldest" =>
          CountGaps("receipt_overflow") + PendingGap("receipt_overflow")
             = receiptDropped

\* Every gap recorded is in the buffer or counted by DroppedGaps, and there is
\* one for each connection after the first, under drop_oldest one for each
\* receipt counted by DroppedReceipts, and one for an end that has a gap, but for
\* the one about to be added.  As long as none was evicted, the buffer says so
\* reason by reason.
GapsExplain == GapsAddUp /\ (gapDropped = 0 => GapsByReason)

Archived == drained \cup {receipts[i] : i \in DOMAIN receipts}

\* The frame is the last event the consumer received, or one it can receive.
Visible(n) == n = last.seq \/ \E i \in DOMAIN events : events[i].seq = n

\* observeReceipt has not accepted the receipt of the newest frame: it is still
\* at work on it, or it failed and with it the stream.
Unsettled ==
    \/ pc \in {"observe", "retain"} /\ frame.kind # "sent"
    \/ /\ pc = "gap" /\ GapIsFatal
       /\ reason # "overflow_fail" /\ frame.kind # "sent"
    \/ result \in {"receipt_observer", "receipt_overflow"}

\* The frames read whose receipt is neither in the buffer nor drained, but for
\* the unsettled one as long as no consumer can see it.
Missing == {n \in 1 .. receiveSequence :
               /\ n \notin Archived
               /\ (n = receiveSequence /\ Unsettled) => Visible(n)}

\* With a receipt buffer, evidence comes before delivery, and nothing the server
\* sent goes without: under the fail policy the receipt of every frame read, an
\* event or not, is in the buffer or was drained; under drop_oldest the receipts
\* missing are counted.
EvidenceFirst ==
    ReceiptCapacity > 0 =>
       IF ReceiptPolicy = "fail" THEN Missing = {}
       ELSE Cardinality(Missing) <= receiptDropped

\* A result of serve that ends the stream is final: no later connection, and
\* no later event, replaces it (client.go:425-433), and the error a stream ends
\* with is the first one set.
NoReconnectAfterEnd ==
    [][/\ (result \in FatalCauses \cup {"finished"}) =>
             /\ result' = result /\ epoch' = epoch
             /\ open' \subseteq open
       /\ err # "nil" => err' = err]_vars

\* Whatever cancels the context, parent, Close or the worker itself, the worker
\* ends, although the consumer may never receive again.
CancelStops == ctxDone ~> EventsClosed

\* Every Close returns.
CloseEnds == \A c \in Closers : closer[c] = "cancelled" ~> closer[c] = "returned"

\* A consumer that keeps receiving reaches the end of Events after a cancel.
ConsumerEnds ==
    ConsumerFairness => (ctxDone ~> (EventsClosed /\ events = <<>>))

\* When the server only refuses from some dial on, as it does once the token in
\* the URL has expired (client.go:319), and answers each dial, the worker does
\* not go on dialing: it ends and reports the dial, unless it was cancelled.
RefusedEnds ==
    WF_vars(DialFails) =>
       ((pc = "dial" /\ epoch = MaxEpochs) ~>
           (EventsClosed /\ (callerCancelled \/ err = "dial")))

\* The events the consumer can still get and the one in the worker's hand.
Pending == IF HoldsEvent THEN Append(events, frame) ELSE events
Outcome == IF result \in FatalCauses \cup {"finished"} THEN result ELSE "none"

Promise == INSTANCE Feed WITH
    Events <- Frame, Nothing <- NoFrame, pending <- Pending,
    outcome <- Outcome, ended <- pc \in Leaving, cancelled <- callerCancelled

\* The worker, its queue and its callers keep what a Feed promises the
\* consumer, through every overflow, reconnect, cancellation and end.
ImplementsFeed == Promise!Spec

\* The claim of client_test.go:380: when Close returns, Events is closed.
ClosedOnReturn == \A c \in Closers : closer[c] = "returned" => EventsClosed
=============================================================================
