----------------------------- MODULE RetryPolicy -----------------------------
(***************************************************************************)
(* The delays of retry.go.  A duration is an integer of fixed width: it     *)
(* wraps at Half, which is 2^63 nanoseconds in Go, and at a small number in *)
(* the instances that look at overflow.                                     *)
(***************************************************************************)
EXTENDS Integers

CONSTANTS
    MaxAttempts,  \* RetryPolicy.MaxAttempts
    BaseDelay,    \* RetryPolicy.BaseDelay
    MaxDelay,     \* RetryPolicy.MaxDelay
    Jitter,       \* RetryPolicy.Jitter, in percent
    Half,         \* durations are -Half .. Half - 1
    Second        \* time.Second

\* validateRetryPolicy, and that the powers of two in use are numbers.
ASSUME RetryPolicyAssumption ==
    /\ MaxAttempts \in Nat \ {0}
    /\ BaseDelay \in Nat /\ MaxDelay \in Nat /\ BaseDelay <= MaxDelay
    /\ Jitter \in 0 .. 100
    /\ Half \in Nat \ {0} /\ MaxDelay < Half
    /\ Second \in Nat \ {0}
    /\ \A n \in 0 .. MaxAttempts : 2 ^ n \in Nat

Wrap(n) == ((n + Half) % (2 * Half)) - Half

Capped(d) == IF d > MaxDelay THEN MaxDelay ELSE d

Spread(d) == IF d > 0 THEN (d * Jitter) \div 100 ELSE 0

\* parseRetryAfter: a header of so many seconds; one that is missing, negative,
\* unreadable or in the past gives no hint.
RetryAfter(seconds) == IF seconds > 0 THEN Wrap(seconds * Second) ELSE 0

Exponent(n) == IF n < 1 THEN 0 ELSE n - 1

MutantBackoff(n) == Wrap(BaseDelay * 2 ^ n)

\* BaseDelay << (attempt - 1)
Backoff(n) == Wrap(BaseDelay * 2 ^ Exponent(n))

\* The delays RetryPolicy.Delay may return after n attempts: a positive hint
\* wins and is capped, otherwise the capped backoff with its jitter.
Delays(n, hint) ==
    IF hint > 0 THEN {Capped(hint)}
    ELSE LET d == Capped(Backoff(n))
         IN  {IF d + j < 0 THEN 0 ELSE d + j : j \in (-Spread(d)) .. Spread(d)}

-----------------------------------------------------------------------------
\* The documented delay, in exact arithmetic: the hint or the exponential
\* backoff, capped.
Promised(n, seconds) ==
    Capped(IF seconds > 0 THEN seconds * Second
           ELSE BaseDelay * 2 ^ Exponent(n))

\* The duration the documented delay is computed from fits its width.
Fits(n, seconds) ==
    (IF seconds > 0 THEN seconds * Second ELSE BaseDelay * 2 ^ Exponent(n)) < Half

\* d is the documented delay, give or take the jitter, which applies to the
\* backoff alone.
KeepsPromise(d, n, seconds) ==
    LET p == Promised(n, seconds)
        j == IF seconds > 0 THEN 0 ELSE Spread(p)
    IN  d \in (p - j) .. (p + j)
=============================================================================
