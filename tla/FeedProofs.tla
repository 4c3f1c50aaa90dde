----------------------------- MODULE FeedProofs -----------------------------
(***************************************************************************)
(* What follows from the promise of a Feed alone.                           *)
(***************************************************************************)
EXTENDS Feed, SequenceTheorems, TLAPS

\* A feed that finished has a complete event as its newest one, and an end
\* without error is a cancellation or a finish.
EndInv ==
    /\ pending \in Seq(Events)
    /\ outcome \in Fatal \cup {"none", "finished"}
    /\ ended \in BOOLEAN
    /\ outcome = "finished" => Newest.kind = "complete"
    /\ ended /\ err = "nil" /\ ~cancelled => outcome = "finished"
    /\ ~ended => err = "nil"

\* Taking the oldest event from a longer queue leaves the newest one.
LEMMA NewestStays ==
  ASSUME NEW S, NEW q \in Seq(S), Len(q) > 1
  PROVE  /\ Tail(q) \in Seq(S) /\ Tail(q) # <<>>
         /\ Tail(q)[Len(Tail(q))] = q[Len(q)]
<1>1. q # <<>> /\ Len(q) \in Nat
  BY EmptySeq, LenProperties
<1>2. /\ Tail(q) \in Seq(S) /\ Len(Tail(q)) = Len(q) - 1
      /\ \A i \in 1 .. Len(Tail(q)) : Tail(q)[i] = q[i + 1]
  BY <1>1, HeadTailProperties
<1>3. Tail(q) # <<>>
  <2>1. Len(Tail(q)) # 0
    BY <1>1, <1>2
  <2>2. Len(<<>>) = 0
    OBVIOUS
  <2>3. QED
    BY <2>1, <2>2, Zenon
<1>4. Len(Tail(q)) \in 1 .. Len(Tail(q)) /\ Len(Tail(q)) + 1 = Len(q)
  BY <1>1, <1>2
<1>5. QED
  BY <1>2, <1>3, <1>4

\* Every step keeps EndInv.
LEMMA EndNext == EndInv /\ [Next]_vars => EndInv'
<1> SUFFICES ASSUME EndInv, [Next]_vars PROVE EndInv'
  OBVIOUS
<1> USE DEF EndInv, feed, fate
<1>1. CASE Publish
  <2>1. pending' \in Seq(Events)
    BY <1>1 DEF Publish
  <2>2. QED
    BY <1>1, <2>1 DEF Publish, Fatal
<1>2. CASE Deliver
  <2>1. pending' \in Seq(Events) /\ Newest' = Newest
    <3>1. CASE Len(pending) > 1
      BY <1>2, <3>1, NewestStays DEF Deliver, Newest
    <3>2. CASE ~(Len(pending) > 1)
      <4>1. Len(pending) = 1
        <5>1. pending # <<>>
          BY <1>2 DEF Deliver
        <5>2. Len(pending) \in Nat \ {0}
          BY <5>1, EmptySeq
        <5>3. \A n \in Nat \ {0} : ~(n > 1) => n = 1
          OBVIOUS
        <5>4. QED
          BY <3>2, <5>2, <5>3
      <4>2. pending' = <<>> /\ last' = pending[1]
        BY <1>2, <4>1 DEF Deliver
      <4>3. QED
        BY <1>2, <4>1, <4>2 DEF Deliver, Newest
    <3>3. QED
      BY <3>1, <3>2
  <2>2. QED
    BY <1>2, <2>1 DEF Deliver
<1>3. CASE Lose
  <2>1. pending' \in Seq(Events) /\ Newest' = Newest
    BY <1>3, NewestStays DEF Lose, Newest
  <2>2. QED
    BY <1>3, <2>1 DEF Lose
<1>4. CASE GiveUp
  <2>1. pending' \in Seq(Events)
    BY <1>4 DEF GiveUp
  <2>2. QED
    BY <1>4, <2>1 DEF GiveUp, Fatal
<1>5. CASE Complete
  <2>1. Newest' = Newest
    BY <1>5 DEF Complete, Newest
  <2>2. QED
    BY <1>5, <2>1 DEF Complete
<1>6. CASE Fail
  BY <1>6 DEF Fail, Fatal
<1>7. CASE Cancel
  <2>1. Newest' = Newest
    BY <1>7 DEF Cancel, Newest
  <2>2. QED
    BY <1>7, <2>1 DEF Cancel
<1>8. CASE End
  <2>1. Newest' = Newest
    BY <1>8 DEF End, Newest
  <2>2. QED
    BY <1>8, <2>1 DEF End, Fatal
<1>9. CASE UNCHANGED vars
  BY <1>9 DEF vars, Newest
<1>10. QED
  BY <1>1, <1>2, <1>3, <1>4, <1>5, <1>6, <1>7, <1>8, <1>9 DEF Next

\* Nobody takes a truncated feed for a complete one.
THEOREM EndsComplete == Spec => []CompleteEnd
<1>1. Init => EndInv
  <2>1. <<>> \in Seq(Events)
    OBVIOUS
  <2>2. QED
    BY <2>1 DEF Init, EndInv
<1>2. EndInv => CompleteEnd
  BY DEF EndInv, CompleteEnd
<1>3. QED
  BY <1>1, <1>2, EndNext, PTL DEF Spec

\* A complete event is never queued behind, so every step keeps it the last one.
LEMMA LastNext ==
  EndInv /\ CompleteIsLast /\ [Next]_vars => CompleteIsLast'
<1> SUFFICES ASSUME EndInv, CompleteIsLast, [Next]_vars PROVE CompleteIsLast'
  OBVIOUS
<1> USE DEF CompleteIsLast
<1> DEFINE n == Len(pending)
<1>1. /\ n = Len(pending) /\ n \in Nat
      /\ pending \in Seq(Events) /\ DOMAIN pending = 1 .. n
      /\ pending = <<>> <=> n = 0
  BY EmptySeq, LenProperties DEF EndInv, n
<1> HIDE DEF n
<1>2. CASE Publish
  <2>1. PICK e : pending' = Append(pending, e)
    BY <1>2 DEF Publish
  <2>2. /\ DOMAIN pending' = 1 .. (n + 1) /\ Len(pending') = n + 1
        /\ \A i \in 1 .. n : pending'[i] = pending[i]
    <3>1. pending \in Seq(Events \cup {e}) /\ e \in Events \cup {e}
      BY <1>1, SeqDef
    <3>2. /\ Append(pending, e) \in Seq(Events \cup {e})
          /\ Len(Append(pending, e)) = n + 1
          /\ \A i \in 1 .. n : Append(pending, e)[i] = pending[i]
      BY <1>1, <3>1, AppendProperties
    <3>3. QED
      BY <2>1, <3>2, LenProperties
  <2>3. last' = last /\ Newest.kind # "complete"
    BY <1>2 DEF Publish
  <2>4. n # 0 => pending[n].kind # "complete"
    BY <1>1, <2>3 DEF Newest
  <2>5. \A i \in 1 .. n : pending[i].kind # "complete"
    BY <1>1, <2>4
  <2>6. last.kind # "complete"
    BY <1>1, <2>3 DEF Newest
  <2>7. QED
    BY <1>1, <2>2, <2>3, <2>5, <2>6
<1>3. CASE Deliver \/ Lose
  <2>1. pending' = Tail(pending) /\ n # 0
    BY <1>1, <1>3 DEF Deliver, Lose
  <2>2. /\ DOMAIN pending' = 1 .. (n - 1) /\ Len(pending') = n - 1
        /\ \A i \in 1 .. (n - 1) : pending'[i] = pending[i + 1]
        /\ pending' = <<>> <=> n = 1
    <3>1. /\ Tail(pending) \in Seq(Events) /\ Len(Tail(pending)) = n - 1
          /\ \A i \in 1 .. (n - 1) : Tail(pending)[i] = pending[i + 1]
      BY <1>1, <2>1, HeadTailProperties
    <3>2. Tail(pending) = <<>> <=> Len(Tail(pending)) = 0
      BY <3>1, EmptySeq
    <3>3. QED
      BY <1>1, <2>1, <3>1, <3>2, LenProperties
  <2>3. \A i \in 1 .. (n - 1) : i + 1 \in 1 .. n /\ (i + 1 = n => i = n - 1)
    <3>1. \A k \in Nat : \A i \in 1 .. (k - 1) :
             i + 1 \in 1 .. k /\ (i + 1 = k => i = k - 1)
      OBVIOUS
    <3>2. QED
      BY <1>1, <3>1
  <2>4. pending' # <<>> => 1 \in 1 .. n /\ 1 # n
    BY <1>1, <2>1, <2>2
  <2>5. last' = last \/ last' = pending[1]
    BY <1>1, <1>3, <2>1 DEF Deliver, Lose
  <2>6. QED
    BY <1>1, <2>1, <2>2, <2>3, <2>4, <2>5
<1>4. CASE GiveUp
  <2>1. /\ DOMAIN pending' = 1 .. (n - 1) /\ Len(pending') = n - 1
        /\ \A i \in 1 .. (n - 1) : pending'[i] = pending[i]
    <3>1. pending # <<>> /\ pending' = SubSeq(pending, 1, n - 1)
      BY <1>1, <1>4 DEF GiveUp
    <3>2. n - 1 \in 0 .. n
      BY <1>1, <3>1
    <3>3. QED
      BY <1>1, <3>1, <3>2, SubSeqProperties
  <2>2. last' = last /\ pending # <<>>
    BY <1>4 DEF GiveUp
  <2>3. QED
    BY <1>1, <2>1, <2>2
<1>5. CASE UNCHANGED <<pending, last>>
  BY <1>5
<1>6. QED
  BY <1>2, <1>3, <1>4, <1>5 DEF Next, Complete, Fail, Cancel, End, vars, feed

\* No event waits behind a complete one, and one that was received is the last.
LEMMA LastAlways == Spec => [](EndInv /\ CompleteIsLast)
<1>1. Init => EndInv /\ CompleteIsLast
  <2>1. <<>> \in Seq(Events) /\ DOMAIN <<>> = {}
    OBVIOUS
  <2>2. Init => EndInv
    BY <2>1 DEF Init, EndInv
  <2>3. Init => CompleteIsLast
    BY <2>1 DEF Init, CompleteIsLast
  <2>4. QED
    BY <2>2, <2>3
<1>2. QED
  BY <1>1, EndNext, LastNext, PTL DEF Spec

\* The complete event ends the feed for its consumer: it receives nothing more,
\* and nothing more is on its way.
THEOREM CompleteEndsFeed == Spec => NothingAfterComplete
<1>1. ASSUME EndInv, CompleteIsLast, Next, last.kind = "complete"
      PROVE  UNCHANGED <<pending, last, received>>
  <2>1. pending = <<>> /\ Newest = last
    BY <1>1 DEF CompleteIsLast, Newest
  <2>2. ~(Len(pending) > 1)
    BY <2>1
  <2>3. QED
    BY <1>1, <2>1, <2>2 DEF Next, Publish, Deliver, Lose, GiveUp, Complete, Fail,
       Cancel, End, feed
<1>2. QED
  BY <1>1, LastAlways, PTL DEF Spec, NothingAfterComplete
=============================================================================
