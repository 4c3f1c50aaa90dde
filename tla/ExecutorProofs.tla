--------------------------- MODULE ExecutorProofs ---------------------------
(***************************************************************************)
(* Machine-checked proofs about Executor, for any number of concurrent      *)
(* calls, any retry policy and any answers of the server.                   *)
(***************************************************************************)
EXTENDS Executor, TLAPS

\* MaxAttempts is a number, as validateRetryPolicy demands, and the counts of
\* requests do not saturate before it.
LEMMA MaxAttemptsType ==
  /\ MaxAttempts \in Nat \ {0}
  /\ MaxRequests \in Nat /\ MaxRequests > MaxAttempts
BY RetryPolicyAssumption, ExecutorAssumption

\* Durations stay within their width.
LEMMA WrapType ==
  ASSUME NEW n \in Int
  PROVE  Wrap(n) \in Int /\ -Half <= Wrap(n) /\ Wrap(n) < Half
BY RetryPolicyAssumption DEF Wrap

\* A duration that fits is not changed.
LEMMA WrapFits ==
  ASSUME NEW n \in Nat, n < Half
  PROVE  Wrap(n) = n
<1>1. /\ n + Half \in Nat /\ n + Half < 2 * Half /\ 2 * Half \in Nat \ {0}
  BY RetryPolicyAssumption
<1>2. (n + Half) % (2 * Half) = n + Half
  BY <1>1
<1> QED
  BY <1>2, RetryPolicyAssumption DEF Wrap

\* The jitter is at most the delay it is applied to, and grows with it.
LEMMA SpreadType ==
  ASSUME NEW d \in Int, d <= MaxDelay
  PROVE  Spread(d) \in Nat /\ (d >= 0 => Spread(d) <= d)
         /\ Spread(d) <= Spread(MaxDelay)
<1>1. MaxDelay \in Nat /\ Jitter \in Nat /\ Jitter <= 100
  BY RetryPolicyAssumption
<1>2. CASE d <= 0
  <2>1. MaxDelay * Jitter \in Nat
    BY <1>1
  <2> QED
    BY <1>1, <1>2, <2>1 DEF Spread
<1>3. CASE d > 0
  <2>1. d * Jitter \in Nat /\ MaxDelay * Jitter \in Nat
    BY <1>1, <1>3
  <2>2. d * Jitter <= d * 100
    BY <1>1, <1>3
  <2>3. d * Jitter <= MaxDelay * Jitter
    BY <1>1, <1>3
  <2> QED
    BY <1>1, <1>3, <2>1, <2>2, <2>3 DEF Spread
<1> QED
  BY <1>2, <1>3

\* What Delay returns is never negative, and exceeds MaxDelay by no more than
\* the jitter, however far the exponential backoff overflows.
LEMMA DelaysBounded ==
  ASSUME NEW n \in Nat, n <= MaxAttempts, NEW h \in Int, NEW d \in Delays(n, h)
  PROVE  d \in Nat /\ d <= MaxDelay + Spread(MaxDelay)
<1>1. /\ MaxDelay \in Nat /\ Spread(MaxDelay) \in Nat
  BY RetryPolicyAssumption, SpreadType
<1>2. CASE h > 0
  BY <1>1, <1>2 DEF Delays, Capped
<1>3. CASE ~(h > 0)
  <2> DEFINE b == Capped(Backoff(n))
  <2>1. BaseDelay * 2 ^ Exponent(n) \in Int
    <3>1. Exponent(n) \in 0 .. MaxAttempts
      BY MaxAttemptsType DEF Exponent
    <3>2. 2 ^ Exponent(n) \in Nat
      BY <3>1, RetryPolicyAssumption
    <3> QED
      BY <3>2, RetryPolicyAssumption
  <2>2. b \in Int /\ b <= MaxDelay
    BY <1>1, <2>1, WrapType DEF Backoff, Capped
  <2>3. Spread(b) \in Nat /\ Spread(b) <= Spread(MaxDelay)
    BY <2>2, SpreadType
  <2>4. PICK j \in (-Spread(b)) .. Spread(b) : d = IF b + j < 0 THEN 0 ELSE b + j
    BY <1>3 DEF Delays
  <2> HIDE DEF b
  <2> QED
    BY <1>1, <2>2, <2>3, <2>4
<1> QED
  BY <1>2, <1>3

\* A header's hint is a duration.
LEMMA RetryAfterType ==
  ASSUME NEW s \in Int
  PROVE  RetryAfter(s) \in Int
<1>1. s * Second \in Int
  BY RetryPolicyAssumption
<1> QED
  BY <1>1, WrapType DEF RetryAfter

\* Backing off leaves everything it changes well typed.
LEMMA BackOffType ==
  ASSUME TypeOK, NEW c \in Calls, NEW s \in Headers, attempt[c] < MaxAttempts,
         BackOff(c, s)
  PROVE  /\ pc' \in [Calls -> Steps] /\ outcome' \in [Calls -> Outcome]
         /\ delay' \in [Calls -> Nat] /\ hint' \in [Calls -> Headers]
         /\ delay'[c] <= MaxDelay + Spread(MaxDelay)
<1>1. /\ attempt[c] \in Nat /\ attempt[c] <= MaxAttempts
      /\ RetryAfter(s) \in Int
  BY MaxAttemptsType, RetryAfterType, ExecutorAssumption DEF TypeOK
<1>2. PICK d \in Delays(attempt[c], RetryAfter(s)) :
         delay' = [delay EXCEPT ![c] = d]
  BY DEF BackOff
<1>3. d \in Nat /\ d <= MaxDelay + Spread(MaxDelay)
  BY <1>1, <1>2, DelaysBounded
<1> QED
  BY <1>2, <1>3 DEF BackOff, Goto, TypeOK, Steps

\* The kind of a failure is always one of the SDK's, and never "pending".
LEMMA KindOfType ==
  ASSUME NEW c \in Calls, answer[c] \in Answers
  PROVE  KindOf(c) \in Kinds
<1>1. answer[c].status \in Statuses \cup {"none"}
  BY ExecutorAssumption DEF Answers
<1> QED
  BY <1>1 DEF KindOf, Kinds, Statuses, Blocked

\* Whether a failure is temporary is a truth value.
LEMMA TemporaryOfType ==
  ASSUME NEW c \in Calls
  PROVE  TemporaryOf(c) \in BOOLEAN
BY DEF TemporaryOf

\* Returning leaves the places and the outcomes of the calls well typed.
LEMMA ReturnType ==
  ASSUME TypeOK, NEW c \in Calls, NEW k \in Kinds, NEW t \in BOOLEAN,
         NEW n \in Nat, Return(c, k, t, n)
  PROVE  pc' \in [Calls -> Steps] /\ outcome' \in [Calls -> Outcome]
<1>1. [kind |-> k, temporary |-> t, receipts |-> n] \in Outcome
  BY DEF Outcome
<1> QED
  BY <1>1 DEF Return, Goto, TypeOK, Steps

\* The answer that stands for none is one.
LEMMA NoAnswerType == NoAnswer \in Answers
BY DEF NoAnswer, Answers, Bodies

\* Every reachable state of the executor is type correct.
THEOREM TypeCorrect == Spec => []TypeOK
<1>1. Init => TypeOK
  <2>1. Pending \in Outcome
    BY DEF Pending, Outcome
  <2> QED
    BY <2>1, NoAnswerType, ExecutorAssumption DEF Init, TypeOK, Steps, Keywords
<1>2. TypeOK /\ [Next]_vars => TypeOK'
  <2> SUFFICES ASSUME TypeOK, [Next]_vars
               PROVE  TypeOK'
    OBVIOUS
  <2> USE ExecutorAssumption, NoAnswerType DEF TypeOK, Outcome, Kinds
  <2>1. ASSUME NEW c \in Calls, Begin(c)
        PROVE  TypeOK'
    <3>1. pc' \in [Calls -> Steps] /\ outcome' \in [Calls -> Outcome]
      BY <2>1, ReturnType DEF Begin, Goto, Finish, Kinds, Steps
    <3>2. read' \in [Calls -> BOOLEAN] /\ runs' \in [Calls -> Keywords]
      <4>1. PICK text \in Documents :
               /\ read' = [read EXCEPT ![c] = IsRetryableRead(text)]
               /\ \E kind \in Definitions(text) : runs' = [runs EXCEPT ![c] = kind]
        BY <2>1 DEF Begin
      <4>2. IsRetryableRead(text) \in BOOLEAN
        BY DEF IsRetryableRead
      <4>3. Definitions(text) \subseteq Keywords
        BY DEF Definitions, Keywords
      <4> QED
        BY <4>1, <4>2, <4>3
    <3> QED
      BY <2>1, <3>1, <3>2 DEF Begin, backoff, provider, history
  <2>2. ASSUME NEW c \in Calls, LimiterWait(c)
        PROVE  TypeOK'
    <3>1. pc' \in [Calls -> Steps] /\ outcome' \in [Calls -> Outcome]
      BY <2>2, ReturnType DEF LimiterWait, Goto, Finish, Kinds, Steps
    <3> QED
      BY <2>2, <3>1 DEF LimiterWait, backoff, provider, history
  <2>3. ASSUME NEW c \in Calls, GetToken(c)
        PROVE  TypeOK'
    <3>1. pc' \in [Calls -> Steps] /\ outcome' \in [Calls -> Outcome]
      BY <2>3, ReturnType DEF GetToken, Goto, Finish, Kinds, Steps
    <3>2. token' \in [Calls -> Nat] /\ cached' \in Nat /\ minted' \in Nat
      <4>1. CASE token' = [token EXCEPT ![c] = cached] /\ UNCHANGED <<cached, minted>>
        BY <4>1
      <4>2. CASE /\ token' = [token EXCEPT ![c] = minted + 1]
                 /\ minted' = minted + 1 /\ cached' = minted + 1
        BY <4>2
      <4>3. CASE UNCHANGED <<token, cached, minted>>
        BY <4>3
      <4> QED
        BY <2>3, <4>1, <4>2, <4>3 DEF GetToken, Mint, provider
    <3>3. attempt' \in [Calls -> Nat]
      BY <2>3 DEF GetToken, NextAttempt
    <3>4. UNCHANGED static
      BY <2>3 DEF GetToken, Mint, provider
    <3> QED
      BY <2>3, <3>1, <3>2, <3>3, <3>4 DEF GetToken, backoff, history
  <2>4. ASSUME NEW c \in Calls, RoundTrip(c)
        PROVE  TypeOK'
    BY <2>4 DEF RoundTrip, Goto, Saturated, KeepsReceipt, Steps, backoff,
         provider, history
  <2>5. ASSUME NEW c \in Calls, SettleBroken(c)
        PROVE  TypeOK'
    <3>1. /\ pc' \in [Calls -> Steps] /\ outcome' \in [Calls -> Outcome]
          /\ delay' \in [Calls -> Nat] /\ hint' \in [Calls -> Headers]
      <4>1. CASE BackOff(c, 0) /\ TriesLeft(c)
        BY <4>1, BackOffType DEF TriesLeft
      <4>2. CASE Finish(c, "context", FALSE) /\ UNCHANGED backoff
        BY <4>2, ReturnType DEF Finish, Kinds, backoff
      <4>3. CASE Finish(c, "transport", TRUE) /\ UNCHANGED backoff
        BY <4>3, ReturnType DEF Finish, Kinds, backoff
      <4> QED
        BY <2>5, <4>1, <4>2, <4>3 DEF SettleBroken
    <3> QED
      BY <2>5, <3>1 DEF SettleBroken, Forget, LeftBySettle, backoff, provider, history
  <2>6. ASSUME NEW c \in Calls, SettleOk(c)
        PROVE  TypeOK'
    <3>1. pc' \in [Calls -> Steps] /\ outcome' \in [Calls -> Outcome]
      BY <2>6, ReturnType DEF SettleOk, Goto, Finish, Kinds, Steps
    <3> QED
      BY <2>6, <3>1 DEF SettleOk, Forget, LeftBySettle, backoff, provider, history
  <2>7. ASSUME NEW c \in Calls, SettleUnauthorized(c)
        PROVE  TypeOK'
    BY <2>7 DEF SettleUnauthorized, Refreshes, Goto, Forget, LeftBySettle,
         Steps, backoff, provider, history
  <2>8. ASSUME NEW c \in Calls, SettleFailure(c)
        PROVE  TypeOK'
    <3>1. /\ pc' \in [Calls -> Steps] /\ outcome' \in [Calls -> Outcome]
          /\ delay' \in [Calls -> Nat] /\ hint' \in [Calls -> Headers]
      <4>1. CASE TriesLeft(c) /\ \E s \in Headers : BackOff(c, s)
        BY <4>1, BackOffType DEF TriesLeft
      <4>2. CASE /\ Return(c, KindOf(c), TemporaryOf(c), receipts[c])
                 /\ UNCHANGED backoff
        <5>1. /\ KindOf(c) \in Kinds /\ TemporaryOf(c) \in BOOLEAN
              /\ receipts[c] \in Nat
          BY KindOfType, TemporaryOfType
        <5> QED
          BY <4>2, <5>1, ReturnType DEF backoff
      <4> QED
        BY <2>8, <4>1, <4>2 DEF SettleFailure, Finish
    <3> QED
      BY <2>8, <3>1 DEF SettleFailure, Forget, LeftBySettle, backoff, provider, history
  <2>9. ASSUME NEW c \in Calls, Refresh(c)
        PROVE  TypeOK'
    <3>1. pc' \in [Calls -> Steps] /\ outcome' \in [Calls -> Outcome]
      BY <2>9, ReturnType DEF Refresh, Goto, Finish, Kinds, Steps
    <3> QED
      BY <2>9, <3>1 DEF Refresh, Refreshed, Mint, backoff, provider, history
  <2>10. ASSUME NEW c \in Calls, Sleep(c)
        PROVE  TypeOK'
    <3>1. pc' \in [Calls -> Steps] /\ outcome' \in [Calls -> Outcome]
      BY <2>10, ReturnType DEF Sleep, Goto, Finish, Kinds, Steps
    <3> QED
      BY <2>10, <3>1 DEF Sleep, backoff, provider, history
  <2>11. CASE Expire
    BY <2>11 DEF Expire, backoff, provider, history
  <2>12. CASE Terminated \/ UNCHANGED vars
    BY <2>12 DEF Terminated, vars, backoff, provider, history
  <2> QED
    BY <2>1, <2>2, <2>3, <2>4, <2>5, <2>6, <2>7, <2>8, <2>9, <2>10, <2>11, <2>12 DEF
         Next, Run
<1> QED
  BY <1>1, <1>2, PTL DEF Spec

-----------------------------------------------------------------------------
\* Every way out of Execute hands over a receipt for every response observed.
THEOREM ReceiptsComplete == Spec => []EvidenceComplete
<1>1. Init => ReceiptsInv
  BY DEF Init, ReceiptsInv
<1>2. TypeOK /\ ReceiptsInv /\ [Next]_vars => ReceiptsInv'
  <2> SUFFICES ASSUME TypeOK, ReceiptsInv, [Next]_vars
               PROVE  ReceiptsInv'
    OBVIOUS
  <2> USE DEF TypeOK, Outcome
  <2>1. ASSUME NEW c \in Calls, Begin(c)
        PROVE  ReceiptsInv'
    BY <2>1 DEF Begin, Return, Goto, ReceiptsInv, provider, history
  <2>2. ASSUME NEW c \in Calls, LimiterWait(c)
        PROVE  ReceiptsInv'
    BY <2>2 DEF LimiterWait, Return, Goto, ReceiptsInv, provider, history
  <2>3. ASSUME NEW c \in Calls, GetToken(c)
        PROVE  ReceiptsInv'
    BY <2>3 DEF GetToken, Finish, Return, Goto, Mint, NextAttempt, ReceiptsInv,
         provider, history
  <2>4. ASSUME NEW c \in Calls, RoundTrip(c)
        PROVE  ReceiptsInv'
    BY <2>4 DEF RoundTrip, Goto, Saturated, KeepsReceipt, ReceiptsInv, provider,
         history
  <2>5. ASSUME NEW c \in Calls, SettleBroken(c)
        PROVE  ReceiptsInv'
    BY <2>5 DEF SettleBroken, BackOff, Finish, Return, Goto, Forget, LeftBySettle,
         TriesLeft, ReceiptsInv, provider, history
  <2>6. ASSUME NEW c \in Calls, SettleOk(c)
        PROVE  ReceiptsInv'
    BY <2>6 DEF SettleOk, Finish, Return, Goto, Forget, LeftBySettle,
         ReceiptsInv, provider, history
  <2>7. ASSUME NEW c \in Calls, SettleUnauthorized(c)
        PROVE  ReceiptsInv'
    BY <2>7 DEF SettleUnauthorized, Refreshes, Goto, Forget, LeftBySettle,
         ReceiptsInv, provider, history
  <2>8. ASSUME NEW c \in Calls, SettleFailure(c)
        PROVE  ReceiptsInv'
    BY <2>8 DEF SettleFailure, BackOff, Finish, Return, Goto, Forget, LeftBySettle,
         TriesLeft, ReceiptsInv, provider, history
  <2>9. ASSUME NEW c \in Calls, Refresh(c)
        PROVE  ReceiptsInv'
    BY <2>9 DEF Refresh, Refreshed, Mint, Finish, Return, Goto, ReceiptsInv,
         provider, history
  <2>10. ASSUME NEW c \in Calls, Sleep(c)
        PROVE  ReceiptsInv'
    BY <2>10 DEF Sleep, Finish, Return, Goto, ReceiptsInv, provider, history
  <2>11. CASE Expire
    BY <2>11 DEF Expire, ReceiptsInv, provider, history
  <2>12. CASE Terminated \/ UNCHANGED vars
    BY <2>12 DEF Terminated, vars, ReceiptsInv, provider, history
  <2> QED
    BY <2>1, <2>2, <2>3, <2>4, <2>5, <2>6, <2>7, <2>8, <2>9, <2>10, <2>11, <2>12 DEF
         Next, Run
<1>3. ReceiptsInv => EvidenceComplete
  BY DEF ReceiptsInv, EvidenceComplete
<1> QED
  BY <1>1, <1>2, <1>3, TypeCorrect, PTL DEF Spec

-----------------------------------------------------------------------------
\* Where a call may try again it is a read with a try or its refresh left.
LEMMA TriesHold == Spec => []TriesInv
<1>1. Init => TriesInv
  BY MaxAttemptsType DEF Init, TriesInv, Refreshed401
<1>2. TypeOK /\ TriesInv /\ [Next]_vars => TriesInv'
  <2> SUFFICES ASSUME TypeOK, TriesInv, [Next]_vars
               PROVE  TriesInv'
    OBVIOUS
  <2> USE MaxAttemptsType DEF TypeOK, CanRetry, Refreshed401
  <2>1. ASSUME NEW c \in Calls, Begin(c)
        PROVE  TriesInv'
    BY <2>1 DEF Begin, Return, Goto, TriesInv, provider, history
  <2>2. ASSUME NEW c \in Calls, LimiterWait(c)
        PROVE  TriesInv'
    <3>1. /\ pc[c] = "limit" /\ UNCHANGED <<read, attempt, retried401, requests>>
          /\ pc' = [pc EXCEPT ![c] = "token"] \/ pc' = [pc EXCEPT ![c] = "done"]
      BY <2>2 DEF LimiterWait, Return, Goto, history
    <3> QED
      BY <3>1 DEF TriesInv
  <2>3. ASSUME NEW c \in Calls, GetToken(c)
        PROVE  TriesInv'
    BY <2>3 DEF GetToken, Finish, Return, Goto, Mint, NextAttempt, TriesInv,
         provider, history
  <2>4. ASSUME NEW c \in Calls, RoundTrip(c)
        PROVE  TriesInv'
    BY <2>4 DEF RoundTrip, Goto, Saturated, KeepsReceipt, TriesInv, provider,
         history
  <2>5. ASSUME NEW c \in Calls, SettleBroken(c)
        PROVE  TriesInv'
    BY <2>5 DEF SettleBroken, BackOff, Finish, Return, Goto, Forget, LeftBySettle,
         TriesLeft, TriesInv, provider, history
  <2>6. ASSUME NEW c \in Calls, SettleOk(c)
        PROVE  TriesInv'
    BY <2>6 DEF SettleOk, Finish, Return, Goto, Forget, LeftBySettle, TriesInv,
         provider, history
  <2>7. ASSUME NEW c \in Calls, SettleUnauthorized(c)
        PROVE  TriesInv'
    BY <2>7 DEF SettleUnauthorized, Refreshes, Goto, Forget, LeftBySettle,
         TriesInv, provider, history
  <2>8. ASSUME NEW c \in Calls, SettleFailure(c)
        PROVE  TriesInv'
    BY <2>8 DEF SettleFailure, BackOff, Finish, Return, Goto, Forget, LeftBySettle,
         TriesLeft, TriesInv, provider, history
  <2>9. ASSUME NEW c \in Calls, Refresh(c)
        PROVE  TriesInv'
    BY <2>9 DEF Refresh, Refreshed, Mint, Finish, Return, Goto, TriesInv,
         provider, history
  <2>10. ASSUME NEW c \in Calls, Sleep(c)
        PROVE  TriesInv'
    BY <2>10 DEF Sleep, Finish, Return, Goto, TriesInv, provider, history
  <2>11. CASE Expire
    BY <2>11 DEF Expire, TriesInv, provider, history
  <2>12. CASE Terminated \/ UNCHANGED vars
    BY <2>12 DEF Terminated, vars, TriesInv, provider, history
  <2> QED
    BY <2>1, <2>2, <2>3, <2>4, <2>5, <2>6, <2>7, <2>8, <2>9, <2>10, <2>11, <2>12 DEF
         Next, Run
<1> QED
  BY <1>1, <1>2, TypeCorrect, PTL DEF Spec

\* A mutation is sent at most once, and a read at most MaxAttempts times but
\* for the request after its one refresh.
THEOREM RequestsHold == Spec => []RequestsBounded
<1>1. TypeOK /\ TriesInv => RequestsBounded
  <2> SUFFICES ASSUME TypeOK, TriesInv, NEW c \in Calls
               PROVE  /\ ~read[c] => requests[c] <= 1
                      /\ requests[c] <= MaxAttempts + Refreshed401(c)
    BY DEF RequestsBounded, Refreshed401
  <2>1. /\ requests[c] \in Nat /\ attempt[c] \in Nat /\ MaxAttempts \in Nat
        /\ Refreshed401(c) \in Nat
    BY MaxAttemptsType DEF TypeOK, Refreshed401
  <2>2. /\ requests[c] <= attempt[c]
        /\ attempt[c] <= MaxAttempts + Refreshed401(c)
        /\ attempt[c] > 1 => read[c]
    BY DEF TriesInv, CanRetry
  <2> QED
    BY <2>1, <2>2
<1> QED
  BY <1>1, TypeCorrect, TriesHold, PTL

-----------------------------------------------------------------------------
\* The steps a try can still take at each place, and four for each try left.
StepsLeftAt ==
    [idle |-> 2, limit |-> 1, token |-> 0, send |-> 3, settle |-> 2,
     refresh |-> 1, sleep |-> 1]

CallLeft(c) ==
    IF pc[c] = "done" THEN 0
    ELSE 4 * (MaxAttempts + 1 - attempt[c]) + StepsLeftAt[pc[c]]

\* Every step of a call brings it closer to its return, and no step of another
\* call or of the cache takes it further away (executor.go:132, the loop).
CallProgress ==
    [][\A c \in Calls :
          /\ CallLeft(c)' <= CallLeft(c)
          /\ pc'[c] # pc[c] => CallLeft(c)' < CallLeft(c)]_vars

\* A call always has a bounded number of steps left.
LEMMA CallLeftType ==
  ASSUME TypeOK, TriesInv, NEW c \in Calls
  PROVE  CallLeft(c) \in 0 .. 4 * MaxAttempts + 6
<1>1. pc[c] \in Steps /\ attempt[c] \in Nat /\ MaxAttempts \in Nat \ {0}
  BY MaxAttemptsType DEF TypeOK
<1>2. attempt[c] <= MaxAttempts + 1
  BY <1>1 DEF TriesInv, Refreshed401
<1>3. CASE pc[c] = "done"
  BY <1>1, <1>3 DEF CallLeft
<1>4. CASE pc[c] # "done"
  <2>1. pc[c] \in {"idle", "limit"} => attempt[c] = 0
    BY DEF TriesInv
  <2>2. /\ StepsLeftAt[pc[c]] \in 0 .. 3
        /\ CallLeft(c) = 4 * (MaxAttempts + 1 - attempt[c]) + StepsLeftAt[pc[c]]
    BY <1>1, <1>4 DEF StepsLeftAt, Steps, CallLeft
  <2>3. pc[c] \in {"send", "settle", "sleep"} => attempt[c] >= 1
    BY DEF TriesInv
  <2>4. /\ StepsLeftAt[pc[c]] = 3 => attempt[c] >= 1
        /\ StepsLeftAt[pc[c]] <= 3
    BY <1>1, <1>4, <2>3 DEF StepsLeftAt, Steps
  <2> DEFINE at == StepsLeftAt[pc[c]]
  <2> HIDE DEF at
  <2>5. at \in 0 .. 3 /\ (at = 3 => attempt[c] >= 1)
        /\ CallLeft(c) = 4 * (MaxAttempts + 1 - attempt[c]) + at
    BY <2>2, <2>4 DEF at
  <2> QED
    BY <1>1, <1>2, <2>5
<1> QED
  BY <1>3, <1>4

\* Every step of a call brings it closer to its return.
LEMMA CallShrinks ==
  ASSUME TypeOK, TriesInv, NEW c \in Calls, Begin(c) \/ Run(c)
  PROVE  CallLeft(c)' \in Int /\ CallLeft(c)' < CallLeft(c)
<1> DEFINE n == attempt[c]
<1>1. MaxAttempts \in Nat /\ n \in Nat /\ n <= MaxAttempts + 1
  BY MaxAttemptsType DEF TypeOK, TriesInv, Refreshed401
<1>2. CASE Begin(c) \/ LimiterWait(c)
  BY <1>1, <1>2 DEF Begin, LimiterWait, Return, Goto, TypeOK, CallLeft, StepsLeftAt
<1>3. CASE GetToken(c)
  <2>1. n <= MaxAttempts
    BY <1>1, <1>3 DEF GetToken, TriesInv, Refreshed401
  <2>2. pc[c] = "token" /\ pc'[c] \in {"send", "done"} /\ attempt'[c] = n + 1
    BY <1>3 DEF GetToken, NextAttempt, Finish, Return, Goto, TypeOK
  <2> QED
    BY <1>1, <2>1, <2>2 DEF CallLeft, StepsLeftAt
<1>4. CASE RoundTrip(c)
  BY <1>1, <1>4 DEF RoundTrip, Goto, TypeOK, CallLeft, StepsLeftAt
<1>5. CASE SettleBroken(c) \/ SettleOk(c) \/ SettleUnauthorized(c) \/ SettleFailure(c)
  <2>1. pc[c] = "settle" /\ attempt'[c] = n /\ pc'[c] \in {"refresh", "sleep", "done"}
    <3>1. CASE SettleBroken(c)
      BY <3>1 DEF SettleBroken, BackOff, Finish, Return, Goto, LeftBySettle, TypeOK
    <3>2. CASE SettleOk(c)
      BY <3>2 DEF SettleOk, Finish, Return, Goto, LeftBySettle, TypeOK
    <3>3. CASE SettleUnauthorized(c)
      BY <3>3 DEF SettleUnauthorized, Goto, LeftBySettle, TypeOK
    <3>4. CASE SettleFailure(c)
      BY <3>4 DEF SettleFailure, BackOff, Finish, Return, Goto, LeftBySettle, TypeOK
    <3> QED
      BY <1>5, <3>1, <3>2, <3>3, <3>4
  <2> QED
    BY <1>1, <2>1 DEF CallLeft, StepsLeftAt
<1>6. CASE Refresh(c) \/ Sleep(c)
  <2>1. pc[c] \in {"refresh", "sleep"} /\ attempt'[c] = n /\ pc'[c] \in {"token", "done"}
    BY <1>6 DEF Refresh, Sleep, Finish, Return, Goto, TypeOK
  <2> QED
    BY <1>1, <2>1 DEF CallLeft, StepsLeftAt
<1> QED
  BY <1>2, <1>3, <1>4, <1>5, <1>6 DEF Run

\* What a call does leaves the others where they are.
LEMMA CallAlone ==
  ASSUME TypeOK, NEW c \in Calls, Begin(c) \/ Run(c), NEW d \in Calls, d # c
  PROVE  pc'[d] = pc[d] /\ attempt'[d] = attempt[d]
BY DEF Run, Begin, LimiterWait, GetToken, RoundTrip, SettleBroken, SettleOk,
   SettleUnauthorized, SettleFailure, Refresh, Sleep, LeftBySettle, Return,
   Finish, Goto, BackOff, NextAttempt, TypeOK

\* A call takes at most 4 * MaxAttempts + 6 steps, whatever the server answers
\* and however the calls interleave.
THEOREM CallsLead ==
  Spec => [](\A c \in Calls : CallLeft(c) \in 0 .. 4 * MaxAttempts + 6) /\ CallProgress
<1>1. TypeOK /\ TriesInv => \A c \in Calls : CallLeft(c) \in 0 .. 4 * MaxAttempts + 6
  BY CallLeftType
<1>2. TypeOK /\ TriesInv /\ [Next]_vars =>
         [\A c \in Calls : /\ CallLeft(c)' <= CallLeft(c)
                           /\ pc'[c] # pc[c] => CallLeft(c)' < CallLeft(c)]_vars
  <2> SUFFICES ASSUME TypeOK, TriesInv, Next, NEW d \in Calls
               PROVE  /\ CallLeft(d)' <= CallLeft(d)
                      /\ pc'[d] # pc[d] => CallLeft(d)' < CallLeft(d)
    OBVIOUS
  <2>1. CallLeft(d) \in Int
    BY CallLeftType, MaxAttemptsType
  <2>2. CASE pc'[d] = pc[d] /\ attempt'[d] = attempt[d]
    <3>1. CallLeft(d)' = CallLeft(d)
      BY <2>2 DEF CallLeft
    <3> QED
      BY <2>1, <2>2, <3>1
  <2>3. ASSUME NEW c \in Calls, Begin(c) \/ Run(c)
        PROVE  \/ pc'[d] = pc[d] /\ attempt'[d] = attempt[d]
               \/ CallLeft(d)' \in Int /\ CallLeft(d)' < CallLeft(d)
    BY <2>3, CallAlone, CallShrinks
  <2>4. CASE Expire \/ Terminated
    BY <2>2, <2>4 DEF Expire, Terminated, vars
  <2>5. CallLeft(d)' \in Int /\ CallLeft(d)' < CallLeft(d)
           => CallLeft(d)' <= CallLeft(d)
    BY <2>1
  <2> QED
    BY <2>2, <2>3, <2>4, <2>5 DEF Next
<1> QED
  BY <1>1, <1>2, TypeCorrect, TriesHold, PTL DEF Spec, CallProgress

-----------------------------------------------------------------------------
\* A document the SDK takes for a read defines a query.
LEMMA ReadDefinesQuery ==
  ASSUME NEW text \in Seq(Lexemes), IsRetryableRead(text)
  PROVE  "query" \in Definitions(text)
<1>1. PICK i \in DOMAIN text : StartsRead(text, i) /\ Skipped(text, i)
  BY DEF IsRetryableRead
<1>2. \A j \in 1 .. (i - 1) : text[j] \in Ignored
  BY <1>1 DEF Skipped, Ignored
<1>3. CASE text[i] = "body"
  BY <1>2, <1>3 DEF Anonymous, Definitions
<1>4. CASE text[i] = "query"
  BY <1>4 DEF Definitions, Keywords
<1> QED
  BY <1>1, <1>3, <1>4 DEF StartsRead

\* With documents whose definitions are of one kind, whatever precedes them, no
\* mutation or subscription is sent twice, for any policy and any failures.
THEOREM ReadsOnlyReplayed ==
  ASSUME \A text \in Documents : OneKind(text)
  PROVE  Spec => []NeverReplayed
<1> DEFINE Inv == \A c \in Calls : read[c] => runs[c] = "query"
<1>1. Init => Inv
  BY DEF Init
<1>2. TypeOK /\ Inv /\ [Next]_vars => Inv'
  <2> SUFFICES ASSUME TypeOK, Inv, [Next]_vars
               PROVE  Inv'
    OBVIOUS
  <2>1. ASSUME NEW c \in Calls, Begin(c)
        PROVE  Inv'
    <3>1. PICK text \in Documents :
             /\ read' = [read EXCEPT ![c] = IsRetryableRead(text)]
             /\ \E kind \in Definitions(text) : runs' = [runs EXCEPT ![c] = kind]
      BY <2>1 DEF Begin
    <3>2. PICK kind \in Definitions(text) : runs' = [runs EXCEPT ![c] = kind]
      BY <3>1
    <3>3. IsRetryableRead(text) => kind = "query"
      BY <3>2, ReadDefinesQuery, DocumentsAssumption DEF OneKind
    <3> QED
      BY <3>1, <3>2, <3>3 DEF TypeOK
  <2>2. CASE UNCHANGED <<read, runs>>
    BY <2>2
  <2>3. ASSUME NEW c \in Calls, Run(c)
        PROVE  UNCHANGED <<read, runs>>
    BY <2>3 DEF Run, LimiterWait, GetToken, RoundTrip, SettleBroken, SettleOk,
         SettleUnauthorized, SettleFailure, Refresh, Sleep, LeftBySettle
  <2> QED
    BY <2>1, <2>2, <2>3 DEF Next, Expire, Terminated, vars
<1>3. TypeOK /\ TriesInv /\ Inv => NeverReplayed
  <2> SUFFICES ASSUME TypeOK, TriesInv, Inv, NEW c \in Calls, runs[c] # "query"
               PROVE  requests[c] <= 1
    BY DEF NeverReplayed
  <2>1. /\ requests[c] \in Nat /\ attempt[c] \in Nat
        /\ requests[c] <= attempt[c] /\ ~(attempt[c] > 1)
    BY DEF TypeOK, TriesInv, CanRetry
  <2> QED
    BY <2>1
<1> QED
  BY <1>1, <1>2, <1>3, TypeCorrect, TriesHold, PTL DEF Spec

-----------------------------------------------------------------------------
\* A delay that fits is the promised one.
LEMMA DelaysKeepPromise ==
  ASSUME NEW n \in Nat, n <= MaxAttempts, NEW s \in Headers, Fits(n, s),
         NEW d \in Delays(n, RetryAfter(s))
  PROVE  KeepsPromise(d, n, s)
<1>1. /\ MaxDelay \in Nat /\ s \in Int
      /\ MaxDelay <= MaxDelay
  BY RetryPolicyAssumption, ExecutorAssumption
<1>2. CASE s > 0
  <2>1. s * Second \in Nat /\ s * Second > 0
    BY <1>1, <1>2, RetryPolicyAssumption
  <2>2. RetryAfter(s) = s * Second
    BY <1>2, <2>1, WrapFits DEF RetryAfter, Fits
  <2>3. d = Capped(s * Second)
    BY <2>1, <2>2 DEF Delays
  <2> DEFINE p == Capped(s * Second)
  <2>4. p \in Int
    BY <1>1, <2>1 DEF Capped
  <2>5. d \in (p - 0) .. (p + 0)
    BY <2>3, <2>4
  <2>6. Promised(n, s) = p
    BY <1>2 DEF Promised
  <2> HIDE DEF p
  <2> QED
    BY <1>2, <2>5, <2>6 DEF KeepsPromise
<1>3. CASE ~(s > 0)
  <2> DEFINE b == Capped(BaseDelay * 2 ^ Exponent(n))
  <2>1. Exponent(n) \in 0 .. MaxAttempts
    BY MaxAttemptsType DEF Exponent
  <2>2. BaseDelay * 2 ^ Exponent(n) \in Nat
    <3>1. 2 ^ Exponent(n) \in Nat
      BY <2>1, RetryPolicyAssumption
    <3> QED
      BY <3>1, RetryPolicyAssumption
  <2>3. Capped(Backoff(n)) = b
    BY <1>1, <1>3, <2>1, <2>2, WrapFits DEF Fits, Backoff
  <2>4. b \in Nat /\ b <= MaxDelay
    BY <1>1, <2>2 DEF Capped
  <2>5. Spread(b) \in Nat /\ Spread(b) <= b
    BY <2>4, SpreadType
  <2>6. RetryAfter(s) = 0
    BY <1>3 DEF RetryAfter
  <2>7. PICK j \in (-Spread(b)) .. Spread(b) : d = IF b + j < 0 THEN 0 ELSE b + j
    BY <2>3, <2>6 DEF Delays
  <2>8. Promised(n, s) = b
    BY <1>3 DEF Promised
  <2> HIDE DEF b
  <2>9. d \in (b - Spread(b)) .. (b + Spread(b))
    BY <2>4, <2>5, <2>7
  <2> QED
    BY <1>3, <2>8, <2>9 DEF KeepsPromise
<1> QED
  BY <1>2, <1>3

\* What PacedWithinWidth says of one wait.
AsPromised(d, n, s) ==
    IF Fits(n, s) THEN KeepsPromise(d, n, s) ELSE d \in 0 .. MaxDelay + Spread(MaxDelay)

\* Every wait is as long as documented whose delay fits, and any other one is
\* neither negative nor longer than MaxDelay and its jitter, for any policy, any
\* headers, any number of calls and any answers (retry.go:82-112).
THEOREM WaitsKeepPromise == Spec => []PacedWithinWidth
<1>1. Init => PacedWithinWidth
  BY DEF Init, PacedWithinWidth
<1>2. TypeOK /\ TriesInv /\ PacedWithinWidth /\ [Next]_vars => PacedWithinWidth'
  <2> SUFFICES ASSUME TypeOK, TriesInv, PacedWithinWidth, [Next]_vars
               PROVE  PacedWithinWidth'
    OBVIOUS
  <2>a. PacedWithinWidth <=>
           \A c \in Calls : pc[c] = "sleep" => AsPromised(delay[c], attempt[c], hint[c])
    BY DEF PacedWithinWidth, AsPromised
  <2>b. PacedWithinWidth' <=>
           \A c \in Calls :
              pc'[c] = "sleep" => AsPromised(delay'[c], attempt'[c], hint'[c])
    BY DEF PacedWithinWidth, AsPromised
  <2> DEFINE Others(c) == \A d \in Calls \ {c} :
                             /\ pc'[d] = pc[d] /\ attempt'[d] = attempt[d]
                             /\ delay'[d] = delay[d] /\ hint'[d] = hint[d]
  <2>1. ASSUME NEW c \in Calls, Begin(c) \/ Run(c)
        PROVE  Others(c)
    BY <2>1 DEF Run, Begin, LimiterWait, GetToken, RoundTrip, SettleBroken, SettleOk,
         SettleUnauthorized, SettleFailure, Refresh, Sleep, LeftBySettle, Return,
         Finish, Goto, BackOff, backoff, TypeOK
  <2>2. ASSUME NEW c \in Calls, Begin(c) \/ Run(c), pc'[c] = "sleep"
        PROVE  \E s \in Headers : BackOff(c, s) /\ TriesLeft(c) /\ UNCHANGED attempt
    BY <2>2, ExecutorAssumption DEF Run, Begin, LimiterWait, GetToken, RoundTrip,
         SettleBroken, SettleOk, SettleUnauthorized, SettleFailure, Refresh, Sleep,
         LeftBySettle, Return, Finish, Goto, TypeOK
  <2>3. ASSUME NEW c \in Calls, NEW s \in Headers, BackOff(c, s), TriesLeft(c),
               UNCHANGED attempt
        PROVE  AsPromised(delay'[c], attempt'[c], hint'[c])
    <3>1. PICK d \in Delays(attempt[c], RetryAfter(s)) :
             delay' = [delay EXCEPT ![c] = d]
      BY <2>3 DEF BackOff
    <3>2. delay'[c] = d /\ hint'[c] = s /\ attempt'[c] = attempt[c]
      BY <2>3, <3>1 DEF BackOff, TypeOK
    <3>3. attempt[c] \in Nat /\ attempt[c] <= MaxAttempts
      BY <2>3, MaxAttemptsType DEF TriesLeft, TypeOK
    <3>4. d \in 0 .. MaxDelay + Spread(MaxDelay)
      <4>1. /\ MaxDelay + Spread(MaxDelay) \in Nat
            /\ RetryAfter(s) \in Int
        BY SpreadType, RetryPolicyAssumption, RetryAfterType, ExecutorAssumption
      <4>2. d \in Nat /\ d <= MaxDelay + Spread(MaxDelay)
        BY <3>1, <3>3, <4>1, DelaysBounded
      <4> QED
        BY <4>1, <4>2
    <3>5. CASE Fits(attempt[c], s)
      BY <3>1, <3>2, <3>3, <3>5, DelaysKeepPromise DEF AsPromised
    <3>6. CASE ~Fits(attempt[c], s)
      BY <3>2, <3>4, <3>6 DEF AsPromised
    <3> QED
      BY <3>5, <3>6
  <2>4. ASSUME NEW c \in Calls, Begin(c) \/ Run(c)
        PROVE  PacedWithinWidth'
    <3> HIDE DEF Others
    <3>1. pc'[c] = "sleep" => AsPromised(delay'[c], attempt'[c], hint'[c])
      BY <2>2, <2>3, <2>4
    <3>2. Others(c)
      BY <2>1, <2>4
    <3> QED
      BY <2>a, <2>b, <3>1, <3>2 DEF Others
  <2>5. CASE UNCHANGED <<pc, attempt, delay, hint>>
    BY <2>a, <2>b, <2>5
  <2> QED
    BY <2>4, <2>5 DEF Next, Expire, Terminated, vars, backoff
<1> QED
  BY <1>1, <1>2, TypeCorrect, TriesHold, PTL DEF Spec

\* When no delay the policy and the headers lead to overflows, every wait is as
\* long as documented.
THEOREM BackoffKeepsPromise ==
  ASSUME \A n \in 0 .. MaxAttempts, s \in Headers : Fits(n, s)
  PROVE  Spec => []Paced
<1>1. TypeOK /\ TriesInv /\ PacedWithinWidth => Paced
  <2> SUFFICES ASSUME TypeOK, TriesInv, PacedWithinWidth, NEW c \in Calls,
                      pc[c] = "sleep"
               PROVE  KeepsPromise(delay[c], attempt[c], hint[c])
    BY DEF Paced
  <2>1. attempt[c] \in 0 .. MaxAttempts /\ hint[c] \in Headers
    BY MaxAttemptsType DEF TypeOK, TriesInv
  <2> QED
    BY <2>1 DEF PacedWithinWidth
<1> QED
  BY <1>1, TypeCorrect, TriesHold, WaitsKeepPromise, PTL

-----------------------------------------------------------------------------
\* A call never waits longer than MaxDelay and its jitter before a retry, and
\* never a negative time (retry.go:14, :96, :104-110).
WaitsBounded == \A c \in Calls : delay[c] \in 0 .. MaxDelay + Spread(MaxDelay)

\* That holds for any policy and any header, also where the shift that doubles
\* the delay or the seconds of a header overflow and Paced fails.
THEOREM WaitsAreBounded == Spec => []WaitsBounded
<1>1. Init => WaitsBounded
  BY SpreadType, RetryPolicyAssumption DEF Init, WaitsBounded
<1>2. TypeOK /\ WaitsBounded /\ [Next]_vars => WaitsBounded'
  <2> SUFFICES ASSUME TypeOK, WaitsBounded, [Next]_vars
               PROVE  WaitsBounded'
    OBVIOUS
  <2> DEFINE Longest == MaxDelay + Spread(MaxDelay)
  <2>1. Longest \in Nat
    BY SpreadType, RetryPolicyAssumption
  <2>2. ASSUME NEW c \in Calls, NEW s \in Headers, BackOff(c, s), TriesLeft(c)
        PROVE  WaitsBounded'
    <3>1. /\ delay'[c] \in Nat /\ delay'[c] <= Longest
          /\ \A d \in Calls \ {c} : delay'[d] = delay[d]
      BY <2>2, BackOffType DEF TriesLeft, BackOff, TypeOK
    <3> HIDE DEF Longest
    <3>2. \A d \in Calls : delay[d] \in 0 .. Longest
      BY DEF WaitsBounded, Longest
    <3>3. \A d \in Calls : delay'[d] \in 0 .. Longest
      BY <2>1, <3>1, <3>2
    <3> QED
      BY <3>3 DEF WaitsBounded, Longest
  <2>3. CASE \E c \in Calls : delay' = [delay EXCEPT ![c] = 0]
    <3>1. 0 \in 0 .. Longest
      BY <2>1
    <3> QED
      BY <2>3, <3>1 DEF WaitsBounded, TypeOK
  <2>4. CASE UNCHANGED delay
    BY <2>4 DEF WaitsBounded
  <2>5. ASSUME NEW c \in Calls, Begin(c) \/ Run(c)
        PROVE  \/ UNCHANGED delay
               \/ delay' = [delay EXCEPT ![c] = 0]
               \/ TriesLeft(c) /\ \E s \in Headers : BackOff(c, s)
    BY <2>5, ExecutorAssumption DEF Run, Begin, LimiterWait, GetToken, RoundTrip,
       SettleBroken, SettleOk, SettleUnauthorized, SettleFailure, Refresh, Sleep,
       backoff
  <2> QED
    BY <2>2, <2>3, <2>4, <2>5 DEF Next, Expire, Terminated, vars, backoff
<1> QED
  BY <1>1, <1>2, TypeCorrect, PTL DEF Spec

-----------------------------------------------------------------------------
\* From its refresh on, a call takes and sends only tokens granted later, unless
\* the provider is the static one.
LEMMA TokensHold == Spec => []TokensInv
<1>1. Init => TokensInv
  BY DEF Init, TokensInv
<1>2. TypeOK /\ TokensInv /\ [Next]_vars => TokensInv'
  <2> SUFFICES ASSUME TypeOK, TokensInv, [Next]_vars
               PROVE  TokensInv'
    OBVIOUS
  <2> USE DEF TypeOK, TokensInv
  <2>1. ASSUME NEW c \in Calls, Begin(c)
        PROVE  TokensInv'
    BY <2>1 DEF Begin, Return, Goto, provider, history
  <2>2. ASSUME NEW c \in Calls, LimiterWait(c)
        PROVE  TokensInv'
    <3>1. /\ pc[c] = "limit"
          /\ UNCHANGED <<token, static, cached, minted, refusedAt, retried401>>
          /\ pc' = [pc EXCEPT ![c] = "token"] \/ pc' = [pc EXCEPT ![c] = "done"]
      BY <2>2 DEF LimiterWait, Return, Goto, provider, history
    <3> QED
      BY <3>1
  <2>3. ASSUME NEW c \in Calls, GetToken(c)
        PROVE  TokensInv'
    BY <2>3 DEF GetToken, Finish, Return, Goto, Mint, NextAttempt, provider,
         history
  <2>4. ASSUME NEW c \in Calls, RoundTrip(c)
        PROVE  TokensInv'
    BY <2>4 DEF RoundTrip, Goto, Saturated, KeepsReceipt, provider, history
  <2>5. ASSUME NEW c \in Calls, SettleBroken(c)
        PROVE  TokensInv'
    BY <2>5 DEF SettleBroken, BackOff, Finish, Return, Goto, Forget, LeftBySettle,
         TriesLeft, provider, history
  <2>6. ASSUME NEW c \in Calls, SettleOk(c)
        PROVE  TokensInv'
    BY <2>6 DEF SettleOk, Finish, Return, Goto, Forget, LeftBySettle, provider,
         history
  <2>7. ASSUME NEW c \in Calls, SettleUnauthorized(c)
        PROVE  TokensInv'
    BY <2>7 DEF SettleUnauthorized, Refreshes, Goto, Forget, LeftBySettle,
         provider, history
  <2>8. ASSUME NEW c \in Calls, SettleFailure(c)
        PROVE  TokensInv'
    BY <2>8 DEF SettleFailure, BackOff, Finish, Return, Goto, Forget, LeftBySettle,
         TriesLeft, provider, history
  <2>9. ASSUME NEW c \in Calls, Refresh(c)
        PROVE  TokensInv'
    BY <2>9 DEF Refresh, Refreshed, Mint, Finish, Return, Goto, provider,
         history
  <2>10. ASSUME NEW c \in Calls, Sleep(c)
        PROVE  TokensInv'
    BY <2>10 DEF Sleep, Finish, Return, Goto, provider, history
  <2>11. CASE Expire
    BY <2>11 DEF Expire, provider, history
  <2>12. CASE Terminated \/ UNCHANGED vars
    BY <2>12 DEF Terminated, vars, provider, history
  <2> QED
    BY <2>1, <2>2, <2>3, <2>4, <2>5, <2>6, <2>7, <2>8, <2>9, <2>10, <2>11, <2>12 DEF
         Next, Run
<1> QED
  BY <1>1, <1>2, TypeCorrect, PTL DEF Spec

-----------------------------------------------------------------------------
\* The default policy's statuses are among the retried ones.
DefaultRetried == {"throttled", "unavailable"} \subseteq RetryableStatuses

\* What classifyHTTPError reports as temporary, the loop would have retried.
LEMMA TemporaryIsTransient ==
  ASSUME NEW c \in Calls, answer[c] \in Answers, DefaultRetried, TemporaryOf(c)
  PROVE  Transient(c)
<1>1. CASE KindOf(c) = "rate_limited" /\ answer[c].status = "throttled"
  BY <1>1 DEF Transient, DefaultRetried
<1>2. CASE KindOf(c) = "server" /\ answer[c].status = "unavailable"
  BY <1>2 DEF Transient, DefaultRetried
<1>3. CASE Blocked(c)
  BY <1>3 DEF Transient
<1>4. CASE KindOf(c) = "rate_limited" /\ answer[c].status # "throttled" /\ ~Blocked(c)
  BY <1>4, ExecutorAssumption DEF KindOf, Answers, Statuses
<1> QED
  BY <1>1, <1>2, <1>3, <1>4 DEF TemporaryOf

\* Nothing but a 401 is reported as an authentication error.
LEMMA AuthenticationIs401 ==
  ASSUME NEW c \in Calls, answer[c] \in Answers, KindOf(c) = "authentication"
  PROVE  answer[c].status = "unauthorized"
<1>1. answer[c].status \in Statuses \cup {"none"}
  BY ExecutorAssumption DEF Answers
<1> QED
  BY <1>1 DEF KindOf, Statuses, Blocked

\* A call that ends with this failure had no try left that could avoid it.
EndedLate(c, kind, temporary) ==
    /\ DefaultRetried /\ kind \in GaveUp /\ temporary /\ CanRetry(c)
          => requests[c] >= MaxAttempts
    /\ kind = "authentication" /\ CanRetry(c)
          => retried401[c] /\ requests[c] >= 2

EndedInv ==
    /\ OutcomeInv
    /\ \A c \in Calls : EndedLate(c, outcome[c].kind, outcome[c].temporary)

\* A call goes on to another step, without an outcome.
GoesOn(c) ==
    /\ \E label \in Steps \ {"done"} : Goto(c, label)
    /\ UNCHANGED outcome

\* A call returns, with a failure only if it had to.
ReturnsLate(c) ==
    \E k \in Kinds, t \in BOOLEAN, n \in Nat :
       Return(c, k, t, n) /\ EndedLate(c, k, t)'

\* A step of one call keeps the invariant if the call goes on without an
\* outcome, or returns one that it could not avoid.
LEMMA EndedStep ==
  ASSUME TypeOK, EndedInv, NEW c \in Calls, pc[c] # "done",
         \A d \in Calls \ {c} : /\ read'[d] = read[d] /\ requests'[d] = requests[d]
                                /\ retried401'[d] = retried401[d],
         GoesOn(c) \/ ReturnsLate(c)
  PROVE  EndedInv'
<1>1. \A d \in Calls \ {c} :
         pc'[d] = pc[d] /\ outcome'[d] = outcome[d] /\ (CanRetry(d)' <=> CanRetry(d))
  BY DEF GoesOn, ReturnsLate, Goto, Return, TypeOK, CanRetry
<1>2. CASE GoesOn(c)
  <2>1. pc'[c] # "done" /\ outcome'[c] = Pending
    BY <1>2 DEF GoesOn, Goto, TypeOK, EndedInv, OutcomeInv
  <2>2. Pending.kind \notin GaveUp \cup {"authentication"}
    BY DEF Pending, GaveUp
  <2> QED
    BY <1>1, <2>1, <2>2 DEF EndedInv, OutcomeInv, EndedLate
<1>3. CASE ReturnsLate(c)
  <2>1. PICK k \in Kinds, t \in BOOLEAN, n \in Nat :
           Return(c, k, t, n) /\ EndedLate(c, k, t)'
    BY <1>3 DEF ReturnsLate
  <2>2. pc'[c] = "done" /\ outcome'[c].kind = k /\ outcome'[c].temporary = t
    BY <2>1 DEF Return, Goto, TypeOK
  <2> QED
    BY <1>1, <2>1, <2>2 DEF EndedInv, OutcomeInv, EndedLate
<1> QED
  BY <1>2, <1>3

\* No call ends with a failure it had a try left to avoid.
LEMMA EndedHold == Spec => []EndedInv
<1>1. Init => EndedInv
  BY DEF Init, EndedInv, EndedLate, OutcomeInv, Pending, GaveUp
<1>2. TypeOK /\ TriesInv /\ EndedInv /\ [Next]_vars => EndedInv'
  <2> SUFFICES ASSUME TypeOK, TriesInv, EndedInv, [Next]_vars
               PROVE  EndedInv'
    OBVIOUS
  <2> DEFINE Others(c) == \A d \in Calls \ {c} :
                             /\ read'[d] = read[d] /\ requests'[d] = requests[d]
                             /\ retried401'[d] = retried401[d]
  <2> USE MaxAttemptsType
  <2>1. ASSUME NEW c \in Calls, Begin(c)
        PROVE  EndedInv'
    <3>1. /\ pc[c] # "done"
          /\ Others(c)
      BY <2>1 DEF Begin, LeftBySettle, history, TypeOK
    <3>2. GoesOn(c) \/ ReturnsLate(c)
      BY <2>1 DEF Begin, GoesOn, ReturnsLate, Finish, Kinds, Steps, GaveUp, EndedLate, TypeOK
    <3> QED
      BY <3>1, <3>2, EndedStep
  <2>2. ASSUME NEW c \in Calls, LimiterWait(c)
        PROVE  EndedInv'
    <3>1. /\ pc[c] # "done"
          /\ Others(c)
      BY <2>2 DEF LimiterWait, LeftBySettle, history, TypeOK
    <3>2. GoesOn(c) \/ ReturnsLate(c)
      BY <2>2 DEF LimiterWait, GoesOn, ReturnsLate, Finish, Kinds, Steps,
           GaveUp, EndedLate, TypeOK
    <3> QED
      BY <3>1, <3>2, EndedStep
  <2>3. ASSUME NEW c \in Calls, GetToken(c)
        PROVE  EndedInv'
    <3>1. /\ pc[c] # "done"
          /\ Others(c)
      BY <2>3 DEF GetToken, LeftBySettle, history, TypeOK
    <3>2. GoesOn(c) \/ ReturnsLate(c)
      BY <2>3 DEF GetToken, GoesOn, ReturnsLate, Finish, Kinds, Steps, GaveUp, EndedLate, TypeOK
    <3> QED
      BY <3>1, <3>2, EndedStep
  <2>4. ASSUME NEW c \in Calls, RoundTrip(c)
        PROVE  EndedInv'
    <3>1. /\ pc[c] # "done"
          /\ Others(c)
      BY <2>4 DEF RoundTrip, LeftBySettle, history, TypeOK
    <3>2. GoesOn(c)
      BY <2>4 DEF RoundTrip, GoesOn, Steps
    <3> QED
      BY <3>1, <3>2, EndedStep
  <2>5. ASSUME NEW c \in Calls, SettleBroken(c)
        PROVE  EndedInv'
    <3>1. /\ pc[c] # "done"
          /\ Others(c)
      BY <2>5 DEF SettleBroken, LeftBySettle, history, TypeOK
    <3>2. GoesOn(c) \/ ReturnsLate(c)
      <4>1. CASE BackOff(c, 0)
        BY <4>1 DEF BackOff, GoesOn, Steps
      <4>2. CASE Return(c, "context", FALSE, receipts[c])
        BY <4>2 DEF ReturnsLate, EndedLate, Kinds, GaveUp, TypeOK
      <4>3. CASE /\ ~(CanRetry(c) /\ TriesLeft(c))
                 /\ Return(c, "transport", TRUE, receipts[c])
        <5>1. UNCHANGED <<read, requests>> /\ pc[c] = "settle"
          BY <2>5 DEF SettleBroken, LeftBySettle
        <5>2. requests[c] = attempt[c]
          BY <5>1 DEF TriesInv
        <5>3. CanRetry(c)' => requests'[c] >= MaxAttempts
          BY <4>3, <5>1, <5>2 DEF CanRetry, TriesLeft, TypeOK
        <5> QED
          BY <4>3, <5>3 DEF ReturnsLate, EndedLate, Kinds, TypeOK
      <4> QED
        BY <2>5, <4>1, <4>2, <4>3 DEF SettleBroken, Finish
    <3> QED
      BY <3>1, <3>2, EndedStep
  <2>6. ASSUME NEW c \in Calls, SettleOk(c)
        PROVE  EndedInv'
    <3>1. /\ pc[c] # "done"
          /\ Others(c)
      BY <2>6 DEF SettleOk, LeftBySettle, history, TypeOK
    <3>2. GoesOn(c) \/ ReturnsLate(c)
      BY <2>6 DEF SettleOk, GoesOn, ReturnsLate, Finish, Kinds, Steps, GaveUp, EndedLate, TypeOK
    <3> QED
      BY <3>1, <3>2, EndedStep
  <2>7. ASSUME NEW c \in Calls, SettleUnauthorized(c)
        PROVE  EndedInv'
    <3>1. /\ pc[c] # "done"
          /\ Others(c)
      BY <2>7 DEF SettleUnauthorized, LeftBySettle, history, TypeOK
    <3>2. GoesOn(c)
      BY <2>7 DEF SettleUnauthorized, GoesOn, Steps
    <3> QED
      BY <3>1, <3>2, EndedStep
  <2>8. ASSUME NEW c \in Calls, SettleFailure(c)
        PROVE  EndedInv'
    <3>1. /\ pc[c] # "done"
          /\ Others(c)
      BY <2>8 DEF SettleFailure, LeftBySettle, history, TypeOK
    <3>2. GoesOn(c) \/ ReturnsLate(c)
      <4>1. CASE \E s \in Headers : BackOff(c, s)
        BY <4>1 DEF BackOff, GoesOn, Steps
      <4>2. CASE /\ ~(CanRetry(c) /\ Transient(c) /\ TriesLeft(c))
                 /\ Return(c, KindOf(c), TemporaryOf(c), receipts[c])
        <5>1. /\ UNCHANGED <<read, requests, retried401>>
              /\ pc[c] = "settle" /\ ~Refreshes(c)
          BY <2>8 DEF SettleFailure, LeftBySettle
        <5>2. requests[c] = attempt[c] /\ (retried401[c] => requests[c] >= 2)
          BY <5>1 DEF TriesInv
        <5>3. DefaultRetried /\ TemporaryOf(c) /\ CanRetry(c)'
                 => requests'[c] >= MaxAttempts
          BY <4>2, <5>1, <5>2, TemporaryIsTransient DEF CanRetry, TriesLeft, TypeOK
        <5>4. KindOf(c) = "authentication" /\ CanRetry(c)'
                 => retried401'[c] /\ requests'[c] >= 2
          BY <5>1, <5>2, AuthenticationIs401 DEF Refreshes, CanRetry, TypeOK
        <5>5. KindOf(c) \in Kinds /\ TemporaryOf(c) \in BOOLEAN /\ receipts[c] \in Nat
          BY KindOfType, TemporaryOfType DEF TypeOK
        <5>6. EndedLate(c, KindOf(c), TemporaryOf(c))
          BY <5>1, <5>3, <5>4 DEF EndedLate, CanRetry
        <5>7. \A k \in Kinds, t \in BOOLEAN : EndedLate(c, k, t) => EndedLate(c, k, t)'
          BY <5>1 DEF EndedLate, CanRetry
        <5>8. \A k \in Kinds, t \in BOOLEAN :
                 k = KindOf(c) /\ t = TemporaryOf(c) => EndedLate(c, k, t)'
          BY <5>5, <5>6, <5>7
        <5> QED
          BY <4>2, <5>5, <5>8 DEF ReturnsLate
      <4> QED
        BY <2>8, <4>1, <4>2 DEF SettleFailure, Finish
    <3> QED
      BY <3>1, <3>2, EndedStep
  <2>9. ASSUME NEW c \in Calls, Refresh(c)
        PROVE  EndedInv'
    <3>1. /\ pc[c] # "done"
          /\ Others(c)
      BY <2>9 DEF Refresh, LeftBySettle, history, TypeOK
    <3>2. GoesOn(c) \/ ReturnsLate(c)
      BY <2>9 DEF Refresh, GoesOn, ReturnsLate, Finish, Kinds, Steps, GaveUp, EndedLate, TypeOK
    <3> QED
      BY <3>1, <3>2, EndedStep
  <2>10. ASSUME NEW c \in Calls, Sleep(c)
        PROVE  EndedInv'
    <3>1. /\ pc[c] # "done"
          /\ Others(c)
      BY <2>10 DEF Sleep, LeftBySettle, history, TypeOK
    <3>2. GoesOn(c) \/ ReturnsLate(c)
      BY <2>10 DEF Sleep, GoesOn, ReturnsLate, Finish, Kinds, Steps, GaveUp, EndedLate, TypeOK
    <3> QED
      BY <3>1, <3>2, EndedStep
  <2>11. CASE Expire
    BY <2>11 DEF Expire, EndedInv, EndedLate, OutcomeInv, CanRetry, history
  <2>12. CASE Terminated \/ UNCHANGED vars
    BY <2>12 DEF Terminated, vars, EndedInv, EndedLate, OutcomeInv, CanRetry, history
  <2> QED
    BY <2>1, <2>2, <2>3, <2>4, <2>5, <2>6, <2>7, <2>8, <2>9, <2>10, <2>11, <2>12 DEF
         Next, Run
<1> QED
  BY <1>1, <1>2, TypeCorrect, TriesHold, PTL DEF Spec

\* With a policy that retries the statuses the default one does, no read ends
\* with a temporary failure before it has sent a request on each of its tries.
THEOREM GivesUpLate == Spec => []GivesUpOnlyWhenSpent
<1>1. EndedInv => GivesUpOnlyWhenSpent
  BY DEF EndedInv, EndedLate, GivesUpOnlyWhenSpent, DefaultRetried
<1> QED
  BY <1>1, EndedHold, PTL

\* With client credentials a call sends, after the refresh its 401 leads to, only
\* tokens granted after the refusal; with either provider no read reports a 401
\* before it has run again (executor.go:180-186).
THEOREM FreshTokens == Spec => []FreshTokenAfter401
<1>1. TokensInv /\ EndedInv => FreshTokenAfter401
  BY DEF TokensInv, EndedInv, EndedLate, FreshTokenAfter401
<1> QED
  BY <1>1, TokensHold, EndedHold, PTL


-----------------------------------------------------------------------------
\* Executions use the provider only as a token source.
THEOREM ImplementsSource == Spec => ImplementsTokenSource
<1>1. Init => Source!Init
  BY DEF Init, Source!Init
<1>2. TypeOK /\ [Next]_vars => [Source!Next]_(Source!vars)
  <2> SUFFICES ASSUME TypeOK, [Next]_vars
               PROVE  Source!Next \/ UNCHANGED Source!vars
    OBVIOUS
  <2> USE DEF Source!Next, Source!vars, Source!Take, provider
  <2>1. ASSUME NEW c \in Calls,
               Begin(c) \/ LimiterWait(c) \/ RoundTrip(c) \/ Sleep(c)
        PROVE  UNCHANGED Source!vars
    BY <2>1 DEF Begin, LimiterWait, RoundTrip, Sleep
  <2>2. ASSUME NEW c \in Calls, GetToken(c)
        PROVE  Source!Next \/ UNCHANGED Source!vars
    <3>1. CASE /\ cached # 0 /\ token' = [token EXCEPT ![c] = cached]
               /\ UNCHANGED provider
      BY <3>1 DEF Source!Give
    <3>2. CASE Mint /\ token' = [token EXCEPT ![c] = minted + 1]
      <4>1. /\ minted' \in Nat /\ minted' > minted /\ cached' = minted'
            /\ token' = [token EXCEPT ![c] = minted']
        BY <3>2 DEF Mint, TypeOK
      <4> QED
        BY <4>1 DEF Source!Mint
    <3>3. CASE UNCHANGED <<token, provider>>
      BY <3>3
    <3> QED
      BY <2>2, <3>1, <3>2, <3>3 DEF GetToken
  <2>3. ASSUME NEW c \in Calls, SettleBroken(c) \/ SettleOk(c)
                                \/ SettleUnauthorized(c) \/ SettleFailure(c)
        PROVE  Source!Forget(c)
    BY <2>3 DEF SettleBroken, SettleOk, SettleUnauthorized, SettleFailure, Forget,
         LeftBySettle, Source!Forget
  <2>4. ASSUME NEW c \in Calls, Refresh(c)
        PROVE  Source!Mint \/ UNCHANGED Source!vars
    BY <2>4 DEF Refresh, Refreshed, Mint, Source!Mint, TypeOK
  <2>5. CASE Expire
    BY <2>5 DEF Expire, Source!Expire
  <2>6. CASE Terminated \/ UNCHANGED vars
    BY <2>6 DEF Terminated, vars
  <2> QED
    BY <2>1, <2>2, <2>3, <2>4, <2>5, <2>6 DEF Next, Run
<1> QED
  BY <1>1, <1>2, TypeCorrect, PTL DEF Spec, ImplementsTokenSource, Source!Spec

SourceProofs == INSTANCE TokenSourceProofs
    WITH Callers <- Calls, newest <- minted, held <- token

\* What the cache holds during the executions is the newest token or nothing, and
\* no call ever holds a newer one: what a token source promises, executions keep.
THEOREM NewestCachedToo == Spec => []Source!NewestCached
<1>1. Source!Init <=> SourceProofs!Init
  BY DEF Source!Init, SourceProofs!Init
<1>2. [Source!Next]_(Source!vars) <=> [SourceProofs!Next]_(SourceProofs!vars)
  BY Zenon DEF Source!Next, SourceProofs!Next, Source!vars, SourceProofs!vars,
     Source!Mint, SourceProofs!Mint, Source!Expire, SourceProofs!Expire,
     Source!Give, SourceProofs!Give, Source!Forget, SourceProofs!Forget,
     Source!Take, SourceProofs!Take
<1>3. Source!NewestCached <=> SourceProofs!NewestCached
  BY DEF Source!NewestCached, SourceProofs!NewestCached
<1>4. SourceProofs!Spec => []SourceProofs!NewestCached
  BY SourceProofs!NewestAlwaysCached
<1> QED
  BY <1>1, <1>2, <1>3, <1>4, ImplementsSource, PTL
     DEF ImplementsTokenSource, Source!Spec, SourceProofs!Spec
=============================================================================
