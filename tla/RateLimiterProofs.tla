------------------------- MODULE RateLimiterProofs -------------------------
(***************************************************************************)
(* Machine-checked proofs about RateLimiter, for any number of goroutines,  *)
(* any bucket size and any refill time.                                     *)
(***************************************************************************)
EXTENDS RateLimiter, TLAPS

\* A full bucket is a natural number, and holds at least one token.
LEMMA FullType == Full \in Nat /\ PerToken <= Full
<1>1. PerMinute \in Nat /\ PerMinute >= 1 /\ PerToken \in Nat /\ PerToken >= 1
  BY LimiterAssumption
<1>2. PerToken \in Nat /\ PerMinute * PerToken \in Nat
  BY <1>1
<1>3. \E k \in Nat : PerMinute = k + 1
  <2>1. PerMinute - 1 \in Nat /\ PerMinute = (PerMinute - 1) + 1
    BY <1>1
  <2> QED
    BY <2>1
<1>4. PICK k \in Nat : PerMinute = k + 1
  BY <1>3
<1>5. (k + 1) * PerToken = k * PerToken + PerToken /\ k * PerToken \in Nat
  BY <1>1
<1> QED
  BY <1>1, <1>2, <1>4, <1>5 DEF Full

\* What a look at the bucket finds lies between empty and full.
LEMMA RefilledType ==
  ASSUME level \in 0 .. Full, clock \in Nat, lastRef \in 0 .. clock
  PROVE  Refilled \in 0 .. Full /\ Refilled <= level + clock - lastRef
BY FullType DEF Refilled

\* Every reachable state of a limiter is type correct: the bucket is neither
\* overdrawn nor overfull, whatever the callers do.
THEOREM TypeCorrect == Spec => []TypeOK
<1>1. Init => TypeOK
  BY FullType DEF Init, TypeOK
<1>2. TypeOK /\ [Next]_vars => TypeOK'
  <2> SUFFICES ASSUME TypeOK, [Next]_vars
               PROVE  TypeOK'
    OBVIOUS
  <2> USE DEF TypeOK
  <2> USE FullType, LimiterAssumption
  <2>0. Refilled \in 0 .. Full
    BY RefilledType
  <2>1. ASSUME NEW w \in Waiters, Call(w)
        PROVE  TypeOK'
    BY <2>1 DEF Call, Step, bucket
  <2>2. ASSUME NEW w \in Waiters, Take(w)
        PROVE  TypeOK'
    <3>1. level' \in 0 .. Full
      BY <2>0, <2>2 DEF Take
    <3> QED
      BY <2>2, <3>1 DEF Take, Step, Ref
  <2>3. ASSUME NEW w \in Waiters, Short(w)
        PROVE  TypeOK'
    <3>1. \A d \in Missing : clock + d \in Nat
      BY <2>0, <2>3 DEF Short, Missing
    <3> QED
      BY <2>0, <2>3, <3>1 DEF Short, Step, Ref
  <2>4. ASSUME NEW w \in Waiters, Wake(w)
        PROVE  TypeOK'
    BY <2>4 DEF Wake, Step, bucket
  <2>5. ASSUME NEW w \in Waiters, Cancelled(w)
        PROVE  TypeOK'
    BY <2>5 DEF Cancelled, Step, bucket
  <2>6. ASSUME NEW w \in Waiters, Resume(w)
        PROVE  TypeOK'
    BY <2>6 DEF Resume, Step, bucket
  <2>7. CASE Tick
    BY <2>7 DEF Tick, bucket
  <2>8. CASE UNCHANGED vars
    BY <2>8 DEF vars, bucket
  <2> QED
    BY <2>1, <2>2, <2>3, <2>4, <2>5, <2>6, <2>7, <2>8 DEF Next
<1> QED
  BY <1>1, <1>2, PTL DEF Spec

-----------------------------------------------------------------------------
\* One token more.
LEMMA OneMore ==
  ASSUME NEW n \in Int, NEW k \in Int
  PROVE  (n + 1) * k = n * k + k
OBVIOUS

\* The inductive invariant of the window: WindowBound looks at any two grants,
\* Budget ties every grant to what the bucket holds now.
WindowInv == Budget /\ WindowBound

\* Taking a token keeps the budget of every window: what the grant adds, the
\* bucket loses.
LEMMA TakeKeepsBudget ==
  ASSUME TypeOK, WindowInv, NEW w \in Waiters, Take(w)
  PROVE  WindowInv'
<1> DEFINE L == Len(grants)
<1> USE FullType, LimiterAssumption
<1>1. /\ Refilled \in 0 .. Full /\ Refilled <= level + clock - lastRef
      /\ L \in Nat /\ DOMAIN grants = 1 .. L
      /\ level \in Nat /\ lastRef \in Nat /\ clock \in Nat /\ lastRef <= clock
  BY RefilledType DEF TypeOK
<1>2. /\ grants' = Append(grants, clock) /\ DOMAIN grants' = 1 .. (L + 1)
      /\ Len(grants') = L + 1 /\ grants'[L + 1] = clock
      /\ \A i \in 1 .. L : grants'[i] = grants[i] /\ grants[i] \in Nat
  BY <1>1 DEF Take, TypeOK
<1>3. level' = Refilled - PerToken /\ level' \in Nat /\ lastRef' = clock /\ PerToken' = PerToken
      /\ Full' = Full
  BY <1>1 DEF Take, Ref, Full
<1>4. Budget'
  <2> SUFFICES ASSUME NEW i \in 1 .. (L + 1)
               PROVE  /\ (Len(grants') - i + 1) * PerToken + level'
                            <= Full + clock - grants'[i]
                      /\ grants'[i] <= clock
    BY <1>2, <1>3 DEF Budget
  <2>1. CASE i = L + 1
    <3>1. (Len(grants') - i + 1) * PerToken = PerToken
      <4>1. Len(grants') - i + 1 = 1
        BY <1>1, <1>2, <2>1
      <4> QED
        BY <4>1
    <3> QED
      BY <1>1, <1>2, <1>3, <2>1, <3>1
  <2>2. CASE i \in 1 .. L
    <3>1. (L - i + 1) * PerToken + level <= Full + lastRef - grants[i]
          /\ grants[i] <= lastRef
      BY <1>1, <2>2 DEF WindowInv, Budget
    <3>2. (Len(grants') - i + 1) * PerToken = (L - i + 1) * PerToken + PerToken
      <4>1. L - i + 1 \in Int /\ Len(grants') - i + 1 = (L - i + 1) + 1
        BY <1>1, <1>2, <2>2
      <4> QED
        BY <4>1, OneMore
    <3>3. (L - i + 1) * PerToken \in Int
      BY <1>1, <2>2
    <3> QED
      BY <1>1, <1>2, <1>3, <2>2, <3>1, <3>2, <3>3
  <2> QED
    BY <1>1, <2>1, <2>2
<1>5. WindowBound'
  <2> SUFFICES ASSUME NEW i \in 1 .. (L + 1), NEW j \in 1 .. (L + 1), i <= j
               PROVE  (j - i + 1) * PerToken <= Full + grants'[j] - grants'[i]
    BY <1>2, <1>3 DEF WindowBound
  <2>1. CASE j = L + 1
    <3>1. (Len(grants') - i + 1) * PerToken + level' <= Full + clock - grants'[i]
      BY <1>2, <1>3, <1>4 DEF Budget
    <3>2. Len(grants') - i + 1 = j - i + 1
      BY <1>2, <2>1
    <3>3. (j - i + 1) * PerToken + level' <= Full + clock - grants'[i]
      BY <3>1, <3>2
    <3>4. (j - i + 1) * PerToken \in Int /\ grants'[i] \in Int
      BY <1>1, <1>2
    <3> QED
      BY <1>1, <1>2, <1>3, <2>1, <3>3, <3>4
  <2>2. CASE j \in 1 .. L
    <3>1. i \in 1 .. L
      BY <1>1, <2>2
    <3> QED
      BY <1>1, <1>2, <2>2, <3>1 DEF WindowInv, WindowBound
  <2> QED
    BY <1>1, <2>1, <2>2
<1> QED
  BY <1>4, <1>5 DEF WindowInv

\* A look that finds no token moves lastRef at least as far as it fills the
\* bucket.
LEMMA ShortKeepsBudget ==
  ASSUME TypeOK, WindowInv, NEW w \in Waiters, Short(w)
  PROVE  WindowInv'
<1> USE FullType, LimiterAssumption
<1>1. /\ Refilled \in 0 .. Full /\ Refilled <= level + clock - lastRef
      /\ level \in Nat /\ lastRef \in Nat /\ clock \in Nat /\ lastRef <= clock
      /\ Len(grants) \in Nat /\ DOMAIN grants = 1 .. Len(grants)
  BY RefilledType DEF TypeOK
<1>2. level' = Refilled /\ lastRef' = clock /\ grants' = grants /\ Full' = Full
  BY DEF Short, Ref, Full
<1>3. Budget'
  <2> SUFFICES ASSUME NEW i \in 1 .. Len(grants)
               PROVE  /\ (Len(grants) - i + 1) * PerToken + Refilled
                            <= Full + clock - grants[i]
                      /\ grants[i] <= clock
    BY <1>1, <1>2 DEF Budget
  <2>1. /\ (Len(grants) - i + 1) * PerToken + level <= Full + lastRef - grants[i]
        /\ grants[i] <= lastRef
    BY <1>1 DEF WindowInv, Budget
  <2>2. (Len(grants) - i + 1) * PerToken \in Int /\ grants[i] \in Int
    BY <1>1 DEF TypeOK
  <2> QED
    BY <1>1, <2>1, <2>2
<1> QED
  BY <1>2, <1>3 DEF WindowInv, WindowBound

\* Every step keeps the budget of every window.
LEMMA WindowInvHolds == Spec => []WindowInv
<1>1. Init => WindowInv
  BY DEF Init, WindowInv, Budget, WindowBound
<1>2. TypeOK /\ WindowInv /\ [Next]_vars => WindowInv'
  <2> SUFFICES ASSUME TypeOK, WindowInv, [Next]_vars
               PROVE  WindowInv'
    OBVIOUS
  <2>1. ASSUME NEW w \in Waiters, Take(w)
        PROVE  WindowInv'
    BY <2>1, TakeKeepsBudget
  <2>2. ASSUME NEW w \in Waiters, Short(w)
        PROVE  WindowInv'
    BY <2>2, ShortKeepsBudget
  <2>3. CASE UNCHANGED <<bucket, grants>>
    BY <2>3 DEF bucket, WindowInv, Budget, WindowBound, Full
  <2>4. ASSUME NEW w \in Waiters,
               Call(w) \/ Wake(w) \/ Cancelled(w) \/ Resume(w) \/ Tick
        PROVE  UNCHANGED <<bucket, grants>>
    BY <2>4 DEF Call, Wake, Cancelled, Resume, Tick
  <2>5. CASE Tick
    BY <2>3, <2>5 DEF Tick
  <2>6. CASE UNCHANGED vars
    BY <2>3, <2>6 DEF vars
  <2> QED
    BY <2>1, <2>2, <2>3, <2>4, <2>5, <2>6 DEF Next
<1> QED
  BY <1>1, <1>2, TypeCorrect, PTL DEF Spec

\* The limiter never lets through more than a full bucket and the refill of the
\* window, for every window, bucket size, refill time and set of callers.
THEOREM WindowHolds == Spec => []WindowBound
<1>1. WindowInv => WindowBound
  BY DEF WindowInv
<1> QED
  BY <1>1, WindowInvHolds, PTL

\* What the limiter has let through and what is left in the bucket are paid for
\* by the first full bucket and the time since: no look at the bucket counts an
\* interval twice (ratelimit.go:64-73).
LongRunRate == Len(grants) * PerToken + Refilled <= Full + clock

\* However long a limiter is in use, it keeps to one token per PerToken beyond
\* its first bucket, and no fraction of a token is made up on the way.
THEOREM RateHolds == Spec => []LongRunRate
<1>1. TypeOK /\ WindowInv => LongRunRate
  <2> SUFFICES ASSUME TypeOK, WindowInv
               PROVE  Len(grants) * PerToken + Refilled <= Full + clock
    BY DEF LongRunRate
  <2>1. /\ Full \in Nat /\ clock \in Nat /\ lastRef \in Nat /\ level \in Nat
        /\ Refilled \in 0 .. Full /\ Refilled <= level + clock - lastRef
        /\ Len(grants) \in Nat /\ DOMAIN grants = 1 .. Len(grants)
        /\ \A i \in DOMAIN grants : grants[i] \in Nat
    BY FullType, RefilledType DEF TypeOK
  <2>2. CASE Len(grants) = 0
    <3>1. Len(grants) * PerToken = 0
      BY <2>2, LimiterAssumption
    <3> QED
      BY <2>1, <3>1
  <2>3. CASE Len(grants) # 0
    <3>1. 1 \in DOMAIN grants
      BY <2>1, <2>3
    <3>2. (Len(grants) - 1 + 1) * PerToken + level <= Full + lastRef - grants[1]
      BY <3>1 DEF WindowInv, Budget
    <3>3. Len(grants) - 1 + 1 = Len(grants) /\ Len(grants) * PerToken \in Int
      BY <2>1, LimiterAssumption
    <3>4. Len(grants) * PerToken + level <= Full + lastRef - grants[1]
      BY <3>2, <3>3
    <3> QED
      BY <2>1, <3>1, <3>3, <3>4
  <2> QED
    BY <2>2, <2>3
<1> QED
  BY <1>1, TypeCorrect, WindowInvHolds, PTL

-----------------------------------------------------------------------------
\* A look by one waiter leaves the timers of the others just: what it adds to
\* the bucket, it adds to lastRef.
LEMMA LookKeepsTimely ==
  ASSUME TypeOK, Timely, NEW w \in Waiters, Take(w) \/ Short(w),
         NEW v \in Waiters, v # w, pc[v] = "sleeping", clock < wakeAt[v]
  PROVE  level' + wakeAt'[v] - lastRef' <= PerToken
<1> USE FullType, LimiterAssumption
<1>1. /\ Refilled \in 0 .. Full /\ Refilled <= level + clock - lastRef
      /\ level \in Nat /\ lastRef \in Nat /\ clock \in Nat
      /\ wakeAt[v] \in Nat
  BY RefilledType DEF TypeOK
<1>2. level + wakeAt[v] - lastRef <= PerToken
  BY DEF Timely
<1>3. /\ level' = Refilled \/ level' = Refilled - PerToken
      /\ lastRef' = clock /\ wakeAt'[v] = wakeAt[v]
  BY DEF Take, Short, Ref, TypeOK
<1> QED
  BY <1>1, <1>2, <1>3

\* No goroutine sleeps while a token is there, however many share the bucket.
THEOREM SleepsOnlyWhenEmpty == Spec => []NoIdleToken
<1>1. Init => Timely
  BY DEF Init, Timely
<1>2. TypeOK /\ Timely /\ [Next]_vars => Timely'
  <2> SUFFICES ASSUME TypeOK, Timely, [Next]_vars,
                      NEW v \in Waiters, pc'[v] = "sleeping", clock' < wakeAt'[v]
               PROVE  level' + wakeAt'[v] - lastRef' <= PerToken
    BY DEF Timely
  <2>0. /\ level \in Nat /\ lastRef \in Nat /\ clock \in Nat /\ wakeAt[v] \in Nat
        /\ PerToken \in Nat /\ Refilled \in Nat
    BY FullType, LimiterAssumption, RefilledType DEF TypeOK
  <2>1. ASSUME NEW w \in Waiters, Take(w)
        PROVE  level' + wakeAt'[v] - lastRef' <= PerToken
    <3>1. v # w /\ pc[v] = "sleeping" /\ clock < wakeAt[v]
      BY <2>1 DEF Take, Step, TypeOK
    <3> QED
      BY <2>1, <3>1, LookKeepsTimely
  <2>2. ASSUME NEW w \in Waiters, Short(w)
        PROVE  level' + wakeAt'[v] - lastRef' <= PerToken
    <3>1. CASE v = w
      <4>1. PICK d \in Missing : wakeAt' = [wakeAt EXCEPT ![w] = clock + d]
        BY <2>2 DEF Short
      <4>2. wakeAt'[v] = clock + d /\ d \in Int /\ d <= PerToken - Refilled
        BY <2>0, <3>1, <4>1 DEF Missing, TypeOK
      <4>3. level' = Refilled /\ lastRef' = clock
        BY <2>2 DEF Short, Ref
      <4> QED
        BY <2>0, <4>2, <4>3
    <3>2. CASE v # w
      <4>1. pc[v] = "sleeping" /\ clock < wakeAt[v]
        BY <2>2, <3>2 DEF Short, Step, TypeOK
      <4> QED
        BY <2>2, <3>2, <4>1, LookKeepsTimely
    <3> QED
      BY <3>1, <3>2
  <2>3. ASSUME pc[v] = "sleeping", wakeAt'[v] = wakeAt[v], clock <= clock',
               UNCHANGED bucket, clock' \in Nat
        PROVE  level' + wakeAt'[v] - lastRef' <= PerToken
    BY <2>0, <2>3 DEF Timely, bucket
  <2>4. ASSUME NEW w \in Waiters, Call(w) \/ Resume(w)
        PROVE  level' + wakeAt'[v] - lastRef' <= PerToken
    BY <2>0, <2>3, <2>4 DEF Call, Resume, Step, TypeOK
  <2>5. ASSUME NEW w \in Waiters, Wake(w) \/ Cancelled(w)
        PROVE  level' + wakeAt'[v] - lastRef' <= PerToken
    <3>1. v # w /\ pc[v] = "sleeping" /\ wakeAt'[v] = wakeAt[v] /\ clock' = clock
          /\ UNCHANGED bucket
      BY <2>5 DEF Wake, Cancelled, Step, TypeOK
    <3> QED
      BY <2>0, <2>3, <3>1
  <2>6. CASE Tick
    BY <2>0, <2>3, <2>6 DEF Tick
  <2>7. CASE UNCHANGED vars
    BY <2>0, <2>3, <2>7 DEF vars
  <2> QED
    BY <2>1, <2>2, <2>4, <2>5, <2>6, <2>7 DEF Next
<1>3. TypeOK /\ Timely => NoIdleToken
  <2> SUFFICES ASSUME TypeOK, Timely, NEW w \in Waiters,
                      pc[w] = "sleeping", clock < wakeAt[w]
               PROVE  Refilled < PerToken
    BY DEF NoIdleToken
  <2>1. level + wakeAt[w] - lastRef <= PerToken /\ wakeAt[w] \in Nat
    BY DEF Timely, TypeOK
  <2> QED
    BY <2>1, FullType, LimiterAssumption, RefilledType DEF TypeOK
<1> QED
  BY <1>1, <1>2, <1>3, TypeCorrect, PTL DEF Spec
=============================================================================
