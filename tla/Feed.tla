-------------------------------- MODULE Feed --------------------------------
(***************************************************************************)
(* What a subscription promises the consumer of Events, without             *)
(* connections, buffers or goroutines (the comments of subscription/        *)
(* client.go on Stream, and README.md): events come in the order of their   *)
(* frames; of those not delivered all but one are counted; the newest one   *)
(* is only given up by a cancelled stream or by an overflow that becomes    *)
(* its error; nothing follows a complete event or an error; and a stream    *)
(* that ends without an error, and was not cancelled, ends complete.        *)
(* Stream implements this.                                                  *)
(***************************************************************************)
EXTENDS Naturals, Sequences

CONSTANTS
    Events,  \* records of kind, epoch, seq
    Nothing  \* what the consumer has before the first event

\* The failures that end a feed at once.
Fatal == {"overflow_fail", "receipt_overflow", "receipt_observer", "server",
          "protocol"}

VARIABLES
    pending,    \* events on their way to the consumer
    last,       \* the event it received last
    received,   \* how many it received
    dropped,    \* how many it was told it lost
    outcome,    \* "none", "finished" or a member of Fatal
    ended,      \* whether the feed is over
    err,        \* and the error it reports then
    cancelled   \* whether a caller gave up before that

vars == <<pending, last, received, dropped, outcome, ended, err, cancelled>>
feed == <<pending, last, received, dropped>>
fate == <<outcome, ended, err, cancelled>>

Newest == IF pending = <<>> THEN last ELSE pending[Len(pending)]

Before(e, f) == e.seq < f.seq /\ e.epoch <= f.epoch

Init ==
    /\ pending = <<>> /\ last = Nothing /\ received = 0 /\ dropped = 0
    /\ outcome = "none" /\ ended = FALSE /\ err = "nil" /\ cancelled = FALSE

\* A later event than all before it.
Publish ==
    /\ outcome = "none" /\ ~ended
    /\ Newest.kind # "complete"
    /\ Newest' \in Events /\ Before(Newest, Newest')
    /\ pending' = Append(pending, Newest')
    /\ UNCHANGED <<last, received, dropped>> /\ UNCHANGED fate

Deliver ==
    /\ pending # <<>>
    /\ pending' = Tail(pending) /\ last' = Head(pending)
    /\ received' = received + 1
    /\ UNCHANGED dropped /\ UNCHANGED fate

\* The oldest event is lost, and counted, when a newer one waits.
Lose ==
    /\ Len(pending) > 1
    /\ pending' = Tail(pending) /\ dropped' = dropped + 1
    /\ UNCHANGED <<last, received>> /\ UNCHANGED fate

\* The newest event is given up, by an overflow that ends the feed, or because
\* a caller cancelled it.
GiveUp ==
    /\ pending # <<>> /\ outcome = "none" /\ ~ended
    /\ pending' = SubSeq(pending, 1, Len(pending) - 1)
    /\ \/ outcome' = "overflow_fail"
       \/ cancelled /\ UNCHANGED outcome
    /\ UNCHANGED <<last, received, dropped, ended, err, cancelled>>

Complete ==
    /\ outcome = "none" /\ ~ended /\ Newest.kind = "complete"
    /\ outcome' = "finished"
    /\ UNCHANGED feed /\ UNCHANGED <<ended, err, cancelled>>

Fail ==
    /\ outcome = "none" /\ ~ended
    /\ outcome' \in Fatal
    /\ UNCHANGED feed /\ UNCHANGED <<ended, err, cancelled>>

Cancel == cancelled' = TRUE /\ UNCHANGED feed /\ UNCHANGED <<outcome, ended, err>>

\* The end: cancelled, complete, failed, or the budget of reconnects is spent.
End ==
    /\ ~ended /\ ended' = TRUE
    /\ \/ (cancelled \/ outcome = "finished") /\ UNCHANGED err
       \/ ~cancelled /\ outcome \in Fatal /\ err' = outcome
       \/ ~cancelled /\ outcome = "none" /\ err' \in {"dial", "exhausted"}
    /\ UNCHANGED feed /\ UNCHANGED <<outcome, cancelled>>

Next ==
    Publish \/ Deliver \/ Lose \/ GiveUp \/ Complete \/ Fail \/ Cancel \/ End

Spec == Init /\ [][Next]_vars

\* Whoever reads Events to the end and finds no error, in a stream nobody
\* cancelled, has read a complete event last: a truncated stream is never
\* taken for a complete one.
CompleteEnd ==
    ended /\ err = "nil" /\ ~cancelled => Newest.kind = "complete"

\* A complete event is the end: no event waits behind it, and once the consumer
\* has received it nothing more comes.
CompleteIsLast ==
    /\ pending # <<>> => last.kind # "complete"
    /\ \A i \in DOMAIN pending : pending[i].kind = "complete" => i = Len(pending)
NothingAfterComplete ==
    [][last.kind = "complete" => UNCHANGED <<pending, last, received>>]_vars
=============================================================================
