---------------------------- MODULE TokenProvider ----------------------------
(***************************************************************************)
(* ClientCredentialsProvider (token.go): goroutines that call Token and     *)
(* Refresh share one cached OAuth token behind a mutex that is held for the *)
(* whole OAuth request.  A token is the number of the answer that granted   *)
(* it, as the server may grant the same string twice, and has a lifetime.   *)
(* The answer takes time, and the provider starts counting the lifetime     *)
(* only when it arrives.                                                    *)
(***************************************************************************)
EXTENDS Integers, FiniteSets

CONSTANTS
    Callers,
    None,          \* nobody holds the mutex
    Lifetimes,     \* expires_in values the server may answer, in clock units
    ExpiryMargin,  \* oauthExpiryMargin
    MaxLatency,    \* longest time from a token's issue to its arrival
    MaxClock,      \* bound: clock readings
    MaxMinted      \* bound: tokens issued

ASSUME TokenAssumption ==
    /\ None \notin Callers
    /\ Lifetimes \subseteq Nat \ {0}
    /\ ExpiryMargin \in Nat /\ MaxLatency \in Nat
    /\ MaxClock \in Nat /\ MaxMinted \in Nat

VARIABLES
    pc, op, got,             \* each caller: step, operation, result (0: error)
    mu,                      \* the holder of p.mu
    cached, expiresAt,       \* the cache
    clock, minted, flight,   \* time, and what the OAuth server has issued
    life, death,             \* history: the cached token's lifetime and end
    stored, storedAtCall     \* history: successful fetches, and how many of
                             \* them preceded each caller's call

cache == <<cached, expiresAt, life, death, stored>>
vars == <<pc, op, got, mu, cache, clock, minted, flight, storedAtCall>>

NoFlight == [token |-> 0, life |-> 0, at |-> 0]

Init ==
    /\ pc = [p \in Callers |-> "idle"]
    /\ op = [p \in Callers |-> "token"]
    /\ got = [p \in Callers |-> 0]
    /\ mu = None
    /\ cached = 0 /\ expiresAt = 0
    /\ clock = 0 /\ minted = 0
    /\ flight = [p \in Callers |-> NoFlight]
    /\ life = 0 /\ death = 0
    /\ stored = 0
    /\ storedAtCall = [p \in Callers |-> 0]

\* The safety margin: a tenth of the lifetime, at most ExpiryMargin.
MutantMargin(l) == 0
MutantMarginTenfold(l) == l * 10
Margin(l) == IF l \div 10 < ExpiryMargin THEN l \div 10 ELSE ExpiryMargin

\* p.cached != "" && p.now().Before(p.expiresAt)
Fresh == cached # 0 /\ clock < expiresAt

Step(p, from, to) == pc[p] = from /\ pc' = [pc EXCEPT ![p] = to]

Call(p) ==
    /\ Step(p, "idle", "waiting")
    /\ \E o \in {"token", "refresh"} : op' = [op EXCEPT ![p] = o]
    /\ storedAtCall' = [storedAtCall EXCEPT ![p] = stored]
    /\ UNCHANGED <<got, mu, cache, clock, minted, flight>>

\* Token finds a fresh token under the lock and returns it.
TokenHit(p) ==
    /\ op[p] = "token" /\ mu = None /\ Fresh
    /\ Step(p, "waiting", "returned")
    /\ got' = [got EXCEPT ![p] = cached]
    /\ UNCHANGED <<op, mu, cache, clock, minted, flight, storedAtCall>>

\* fetch begins: the mutex stays held until it returns.
MutantHolds(p) == mu
Holds(p) == p

StartFetch(p) ==
    /\ mu = None /\ (op[p] = "token" => ~Fresh)
    /\ Step(p, "waiting", "fetching")
    /\ mu' = Holds(p)
    /\ UNCHANGED <<op, got, cache, clock, minted, flight, storedAtCall>>

\* The OAuth server issues a token; its answer is on the way.
Issue(p) ==
    /\ minted < MaxMinted
    /\ Step(p, "fetching", "issued")
    /\ minted' = minted + 1
    /\ \E l \in Lifetimes :
          flight' = [flight EXCEPT ![p] =
                       [token |-> minted + 1, life |-> l, at |-> clock]]
    /\ UNCHANGED <<op, got, mu, cache, clock, storedAtCall>>

MutantReleases == mu
Releases == None

\* The request is refused, fails, is answered with an error status or with an
\* invalid body: the cache keeps what it had.
FetchFails(p) ==
    /\ Step(p, "fetching", "returned") \/ Step(p, "issued", "returned")
    /\ got' = [got EXCEPT ![p] = 0]
    /\ flight' = [flight EXCEPT ![p] = NoFlight]
    /\ mu' = Releases
    /\ UNCHANGED <<op, cache, clock, minted, storedAtCall>>

\* The answer has arrived: cache it until its end minus the margin, counted
\* from now.
Store(p) ==
    /\ Step(p, "issued", "returned")
    /\ cached' = flight[p].token
    /\ expiresAt' = clock + flight[p].life - Margin(flight[p].life)
    /\ life' = flight[p].life
    /\ death' = flight[p].at + flight[p].life
    /\ stored' = stored + 1
    /\ got' = [got EXCEPT ![p] = flight[p].token]
    /\ flight' = [flight EXCEPT ![p] = NoFlight]
    /\ mu' = None
    /\ UNCHANGED <<op, clock, minted, storedAtCall>>

\* The caller takes the result and may call again.
Resume(p) ==
    /\ Step(p, "returned", "idle")
    /\ got' = [got EXCEPT ![p] = 0]
    /\ op' = [op EXCEPT ![p] = "token"]
    /\ storedAtCall' = [storedAtCall EXCEPT ![p] = 0]
    /\ UNCHANGED <<mu, cache, clock, minted, flight>>

\* Time passes; an answer on the way arrives within MaxLatency, or never.
Tick ==
    /\ clock < MaxClock
    /\ \A p \in Callers : pc[p] = "issued" => clock < flight[p].at + MaxLatency
    /\ clock' = clock + 1
    /\ UNCHANGED <<pc, op, got, mu, cache, minted, flight, storedAtCall>>

Enter(p) == TokenHit(p) \/ StartFetch(p)
Fetch(p) == Issue(p) \/ FetchFails(p) \/ Store(p)

Next ==
    \/ \E p \in Callers : Call(p) \/ Enter(p) \/ Fetch(p) \/ Resume(p)
    \/ Tick

Spec == Init /\ [][Next]_vars

\* The mutex hands over to a waiter in the end (sync.Mutex enters starvation
\* mode), and the HTTP client's timeout ends every request.
FairSpec ==
    /\ Spec
    /\ \A p \in Callers : SF_vars(Enter(p)) /\ WF_vars(FetchFails(p) \/ Store(p))

-----------------------------------------------------------------------------
(* Properties *)

Flight == [token : Nat, life : Nat, at : Nat]

\* Every variable has its type; a token's cache entry never ends before time 0.
TypeOK ==
    /\ pc \in [Callers -> {"idle", "waiting", "fetching", "issued", "returned"}]
    /\ op \in [Callers -> {"token", "refresh"}]
    /\ got \in [Callers -> Nat]
    /\ mu \in Callers \cup {None}
    /\ cached \in Nat /\ expiresAt \in Nat
    /\ clock \in Nat /\ minted \in Nat
    /\ flight \in [Callers -> Flight]
    /\ life \in Nat /\ death \in Nat
    /\ stored \in Nat /\ storedAtCall \in [Callers -> Nat]

Fetching(p) == pc[p] \in {"fetching", "issued"}

\* One OAuth request at a time, and only by the holder of the mutex.
OneFetch ==
    /\ \A p, q \in Callers : Fetching(p) /\ Fetching(q) => p = q
    /\ \A p \in Callers : mu = p <=> Fetching(p)

\* A token that Token returns from the cache has not expired at the server,
\* provided that answers take no longer than a tenth of the lifetime and no
\* longer than ExpiryMargin: the margin pays for the late start of the count.
ServesLiveTokens ==
    Fresh /\ MaxLatency <= ExpiryMargin /\ 10 * MaxLatency <= life
       => clock < death

\* What one step may do to the cache.
CacheNewest == cached' >= cached /\ \A p \in Callers : cached' >= got[p]

\* The cache never goes back to an older token, and never takes one that was
\* issued before a token some caller already holds.
NewestWins == [][CacheNewest]_vars

\* The cache as a caller that has the mutex finds it.
Source == INSTANCE TokenSource
             WITH cached <- IF Fresh THEN cached ELSE 0, newest <- cached,
                  held <- got

\* token.go:42-45, config.go: the provider is a token source.  Whatever the
\* order of fetches, failures and expiries, a caller is given the newest token
\* and none comes back that has left the cache.
ImplementsTokenSource == Source!Spec

\* Every call returns, although all of them wait for one mutex.
EveryCallReturns == \A p \in Callers : pc[p] = "waiting" ~> pc[p] = "returned"

\* The claim of token.go:44-45: concurrent refreshes are coalesced, so a Refresh
\* sends no request when another call has fetched a token since it was called.
Coalesces ==
    \A p \in Callers :
       op[p] = "refresh" /\ Fetching(p) => stored = storedAtCall[p]

-----------------------------------------------------------------------------
(* Why they hold: the invariants the proofs use. *)

\* A token on the way is the newest one; the cache and what callers hold follow
\* it in the order of minting.
OrderInv ==
    /\ cached <= minted
    /\ \A p \in Callers :
          /\ got[p] <= cached
          /\ pc[p] = "issued" => flight[p].token = minted /\ cached < minted

\* The cache outlives the token by less than the latency the margin pays for.
LifeInv ==
    /\ \A p \in Callers :
          pc[p] = "issued" =>
             /\ flight[p].life \in Lifetimes
             /\ flight[p].at <= clock /\ clock <= flight[p].at + MaxLatency
    /\ cached # 0 => expiresAt <= death + MaxLatency - Margin(life)
=============================================================================
