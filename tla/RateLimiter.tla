---------------------------- MODULE RateLimiter ----------------------------
(***************************************************************************)
(* TokenBucketRateLimiter (ratelimit.go): goroutines in Wait share a bucket *)
(* of at most PerMinute tokens that gains one every PerToken clock units.   *)
(* The bucket is counted in those units, so a token is PerToken of them and *)
(* the code's fractions of a token are whole numbers here.  The mutex       *)
(* covers one look at the bucket, one action; the sleep is outside of it.   *)
(* A limiter with PerMinute <= 0 never waits and is not modelled.           *)
(***************************************************************************)
EXTENDS Integers, Sequences

CONSTANTS
    Waiters,    \* goroutines that call Wait
    PerMinute,  \* tokens the bucket holds
    PerToken,   \* perToken(): time to gain one token
    MaxClock    \* bound: clock readings

ASSUME LimiterAssumption ==
    /\ PerMinute \in Nat \ {0}
    /\ PerToken \in Nat \ {0}
    /\ MaxClock \in Nat

VARIABLES
    pc,       \* each waiter: idle, looking at the bucket, sleeping, returned
    wakeAt,   \* when a sleeper's timer fires
    level,    \* l.tokens, in clock units
    lastRef,  \* l.lastRef
    clock,
    grants    \* history: when each token was taken

bucket == <<level, lastRef>>
vars == <<pc, wakeAt, bucket, clock, grants>>

Full == PerMinute * PerToken

Init ==
    /\ pc = [w \in Waiters |-> "idle"]
    /\ wakeAt = [w \in Waiters |-> 0]
    /\ level = Full
    /\ lastRef = 0 /\ clock = 0
    /\ grants = << >>

Step(w, from, to) == pc[w] = from /\ pc' = [pc EXCEPT ![w] = to]

Call(w) ==
    /\ Step(w, "idle", "looking")
    /\ UNCHANGED <<wakeAt, bucket, clock, grants>>

\* refillLocked: what the bucket holds now, up to its capacity.
MutantUncapped == level + clock - lastRef
Refilled ==
    LET gained == level + clock - lastRef
    IN  IF gained > Full THEN Full ELSE gained

MutantRef == lastRef
Ref == clock

\* A token is there: take it and return.
Take(w) ==
    /\ Refilled >= PerToken
    /\ Step(w, "looking", "returned")
    /\ level' = Refilled - PerToken
    /\ lastRef' = Ref
    /\ grants' = Append(grants, clock)
    /\ UNCHANGED <<wakeAt, clock>>

\* Time until a token is full, which the conversion to a Duration rounds down.
MutantMissing == {PerToken}
Missing ==
    LET exact == PerToken - Refilled
    IN  {exact, exact - 1}

\* None is there: unlock, and sleep until one should be.
Short(w) ==
    /\ Refilled < PerToken
    /\ Step(w, "looking", "sleeping")
    /\ level' = Refilled
    /\ lastRef' = Ref
    /\ \E d \in Missing : wakeAt' = [wakeAt EXCEPT ![w] = clock + d]
    /\ UNCHANGED <<clock, grants>>

\* The timer fires; other waiters may have taken the token by now.
Wake(w) ==
    /\ clock >= wakeAt[w]
    /\ Step(w, "sleeping", "looking")
    /\ wakeAt' = [wakeAt EXCEPT ![w] = 0]
    /\ UNCHANGED <<bucket, clock, grants>>

\* The caller's context is done before the timer fires: Wait fails.
Cancelled(w) ==
    /\ Step(w, "sleeping", "returned")
    /\ wakeAt' = [wakeAt EXCEPT ![w] = 0]
    /\ UNCHANGED <<bucket, clock, grants>>

\* The caller goes on, and may call again.
Resume(w) ==
    /\ Step(w, "returned", "idle")
    /\ UNCHANGED <<wakeAt, bucket, clock, grants>>

Tick ==
    /\ clock < MaxClock
    /\ clock' = clock + 1
    /\ UNCHANGED <<pc, wakeAt, bucket, grants>>

Next ==
    \/ \E w \in Waiters :
          Call(w) \/ Take(w) \/ Short(w) \/ Wake(w) \/ Cancelled(w) \/ Resume(w)
    \/ Tick

Spec == Init /\ [][Next]_vars

-----------------------------------------------------------------------------
(* Properties *)

\* Every variable has its type, and the bucket is neither overdrawn nor
\* overfull.
TypeOK ==
    /\ pc \in [Waiters -> {"idle", "looking", "sleeping", "returned"}]
    /\ wakeAt \in [Waiters -> Nat]
    /\ level \in 0 .. Full
    /\ clock \in Nat /\ lastRef \in 0 .. clock
    /\ grants \in Seq(Nat)

\* In every window of time the limiter lets through at most a full bucket and
\* what the window itself refills, whoever calls and whenever they wake.
WindowBound ==
    \A i, j \in DOMAIN grants :
       i <= j => (j - i + 1) * PerToken <= Full + grants[j] - grants[i]

\* Nobody sleeps while a token is there: until a sleeper's timer fires, the
\* bucket cannot have gained a whole token, whatever the others do.
NoIdleToken ==
    \A w \in Waiters :
       pc[w] = "sleeping" /\ clock < wakeAt[w] => Refilled < PerToken

-----------------------------------------------------------------------------
(* Why they hold: the invariants the proofs use. *)

\* What was let through since any past grant, with what is left, is at most a
\* full bucket and the refill until lastRef.
Budget ==
    \A i \in DOMAIN grants :
       /\ (Len(grants) - i + 1) * PerToken + level <= Full + lastRef - grants[i]
       /\ grants[i] <= lastRef

\* When a sleeper's timer fires, the bucket holds at most one token.
Timely ==
    \A w \in Waiters :
       pc[w] = "sleeping" /\ clock < wakeAt[w]
          => level + wakeAt[w] - lastRef <= PerToken
=============================================================================
