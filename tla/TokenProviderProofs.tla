------------------------ MODULE TokenProviderProofs ------------------------
(***************************************************************************)
(* Machine-checked proofs about TokenProvider, for any number of callers,   *)
(* any lifetimes, margin and latency.                                       *)
(***************************************************************************)
EXTENDS TokenProvider, TLAPS

\* The margin of a lifetime is at most a tenth of it, and it covers a latency
\* that is at most ExpiryMargin and a tenth of the lifetime.
LEMMA MarginBounds ==
  ASSUME NEW l \in Nat
  PROVE  /\ Margin(l) \in Nat /\ Margin(l) <= l
         /\ MaxLatency <= ExpiryMargin /\ 10 * MaxLatency <= l
               => MaxLatency <= Margin(l)
<1>1. l \div 10 \in Nat /\ 10 * (l \div 10) <= l /\ l < 10 * (l \div 10) + 10
  OBVIOUS
<1> QED
  BY <1>1, TokenAssumption DEF Margin

\* Every reachable state of a provider is type correct.
THEOREM TypeCorrect == Spec => []TypeOK
<1>1. Init => TypeOK
  BY DEF Init, TypeOK, NoFlight, Flight
<1>2. TypeOK /\ [Next]_vars => TypeOK'
  <2> SUFFICES ASSUME TypeOK, [Next]_vars
               PROVE  TypeOK'
    OBVIOUS
  <2> USE TokenAssumption DEF TypeOK, Flight
  <2>1. ASSUME NEW p \in Callers, Call(p)
        PROVE  TypeOK'
    BY <2>1 DEF Call, Step, cache
  <2>2. ASSUME NEW p \in Callers, TokenHit(p)
        PROVE  TypeOK'
    BY <2>2 DEF TokenHit, Step, Fresh, cache
  <2>3. ASSUME NEW p \in Callers, StartFetch(p)
        PROVE  TypeOK'
    BY <2>3 DEF StartFetch, Step, Holds, cache
  <2>4. ASSUME NEW p \in Callers, Issue(p)
        PROVE  TypeOK'
    BY <2>4 DEF Issue, Step, cache
  <2>5. ASSUME NEW p \in Callers, FetchFails(p)
        PROVE  TypeOK'
    BY <2>5 DEF FetchFails, Step, Releases, NoFlight, cache
  <2>6. ASSUME NEW p \in Callers, Store(p)
        PROVE  TypeOK'
    BY <2>6, MarginBounds DEF Store, Step, NoFlight, cache
  <2>7. ASSUME NEW p \in Callers, Resume(p)
        PROVE  TypeOK'
    BY <2>7 DEF Resume, Step, cache
  <2>8. CASE Tick
    BY <2>8 DEF Tick, cache
  <2>9. CASE UNCHANGED vars
    BY <2>9 DEF vars, cache
  <2> QED
    BY <2>1, <2>2, <2>3, <2>4, <2>5, <2>6, <2>7, <2>8, <2>9 DEF Next, Enter, Fetch
<1> QED
  BY <1>1, <1>2, PTL DEF Spec

-----------------------------------------------------------------------------
\* The mutex admits one OAuth request at a time, however many callers there are.
THEOREM OneFetchAtATime == Spec => []OneFetch
<1>1. Init => OneFetch
  BY TokenAssumption DEF Init, OneFetch, Fetching
<1>2. TypeOK /\ OneFetch /\ [Next]_vars => OneFetch'
  <2> SUFFICES ASSUME TypeOK, OneFetch, [Next]_vars
               PROVE  OneFetch'
    OBVIOUS
  <2> USE TokenAssumption DEF TypeOK, OneFetch, Fetching
  <2>1. ASSUME NEW p \in Callers, Call(p)
        PROVE  OneFetch'
    BY <2>1 DEF Call, Step, cache
  <2>2. ASSUME NEW p \in Callers, TokenHit(p)
        PROVE  OneFetch'
    BY <2>2 DEF TokenHit, Step, Fresh, cache
  <2>3. ASSUME NEW p \in Callers, StartFetch(p)
        PROVE  OneFetch'
    BY <2>3 DEF StartFetch, Step, Holds, cache
  <2>4. ASSUME NEW p \in Callers, Issue(p)
        PROVE  OneFetch'
    BY <2>4 DEF Issue, Step, cache
  <2>5. ASSUME NEW p \in Callers, FetchFails(p)
        PROVE  OneFetch'
    BY <2>5 DEF FetchFails, Step, Releases, NoFlight, cache
  <2>6. ASSUME NEW p \in Callers, Store(p)
        PROVE  OneFetch'
    BY <2>6 DEF Store, Step, NoFlight, cache
  <2>7. ASSUME NEW p \in Callers, Resume(p)
        PROVE  OneFetch'
    BY <2>7 DEF Resume, Step, cache
  <2>8. CASE Tick
    BY <2>8 DEF Tick, cache
  <2>9. CASE UNCHANGED vars
    BY <2>9 DEF vars, cache
  <2> QED
    BY <2>1, <2>2, <2>3, <2>4, <2>5, <2>6, <2>7, <2>8, <2>9 DEF Next, Enter, Fetch
<1> QED
  BY <1>1, <1>2, TypeCorrect, PTL DEF Spec

-----------------------------------------------------------------------------
\* Tokens enter the cache in the order of minting.
LEMMA OrderHolds == Spec => []OrderInv
<1>1. Init => OrderInv
  BY DEF Init, OrderInv
<1>2. TypeOK /\ OneFetch /\ OrderInv /\ [Next]_vars => OrderInv'
  <2> SUFFICES ASSUME TypeOK, OneFetch, OrderInv, [Next]_vars
               PROVE  OrderInv'
    OBVIOUS
  <2> USE TokenAssumption DEF TypeOK, OneFetch, Fetching, OrderInv, Flight
  <2>1. ASSUME NEW p \in Callers, Call(p)
        PROVE  OrderInv'
    BY <2>1 DEF Call, Step, cache
  <2>2. ASSUME NEW p \in Callers, TokenHit(p)
        PROVE  OrderInv'
    BY <2>2 DEF TokenHit, Step, Fresh, cache
  <2>3. ASSUME NEW p \in Callers, StartFetch(p)
        PROVE  OrderInv'
    BY <2>3 DEF StartFetch, Step, Holds, cache
  <2>4. ASSUME NEW p \in Callers, Issue(p)
        PROVE  OrderInv'
    BY <2>4 DEF Issue, Step, cache
  <2>5. ASSUME NEW p \in Callers, FetchFails(p)
        PROVE  OrderInv'
    BY <2>5 DEF FetchFails, Step, Releases, NoFlight, cache
  <2>6. ASSUME NEW p \in Callers, Store(p)
        PROVE  OrderInv'
    BY <2>6 DEF Store, Step, NoFlight, cache
  <2>7. ASSUME NEW p \in Callers, Resume(p)
        PROVE  OrderInv'
    BY <2>7 DEF Resume, Step, cache
  <2>8. CASE Tick
    BY <2>8 DEF Tick, cache
  <2>9. CASE UNCHANGED vars
    BY <2>9 DEF vars, cache
  <2> QED
    BY <2>1, <2>2, <2>3, <2>4, <2>5, <2>6, <2>7, <2>8, <2>9 DEF Next, Enter, Fetch
<1> QED
  BY <1>1, <1>2, TypeCorrect, OneFetchAtATime, PTL DEF Spec

\* No fetch, however it was interleaved, replaces the cached token by an older
\* one, or by one older than what some caller already holds.
THEOREM NewestAlwaysWins == Spec => NewestWins
<1>1. TypeOK /\ OneFetch /\ OrderInv /\ [Next]_vars
         => [CacheNewest]_vars
  <2> SUFFICES ASSUME TypeOK, OneFetch, OrderInv, Next
               PROVE  CacheNewest
    OBVIOUS
  <2>1. /\ cached \in Nat /\ minted \in Nat /\ cached <= minted
        /\ \A q \in Callers : got[q] \in Nat /\ got[q] <= cached
    BY DEF TypeOK, OrderInv
  <2>2. ASSUME NEW p \in Callers, Store(p)
        PROVE  CacheNewest
    <3>1. cached' = minted
      BY <2>2 DEF Store, Step, OrderInv
    <3> QED
      BY <2>1, <3>1 DEF CacheNewest
  <2>3. CASE UNCHANGED cached
    BY <2>1, <2>3 DEF CacheNewest
  <2>4. ASSUME NEW p \in Callers, Call(p) \/ Enter(p) \/ Issue(p) \/ FetchFails(p) \/ Resume(p)
        PROVE  UNCHANGED cached
    BY <2>4 DEF Call, Enter, TokenHit, StartFetch, Issue, FetchFails, Resume, cache
  <2>5. CASE Tick
    BY <2>3, <2>5 DEF Tick, cache
  <2> QED
    BY <2>2, <2>3, <2>4, <2>5 DEF Next, Fetch
<1> QED
  BY <1>1, TypeCorrect, OneFetchAtATime, OrderHolds, PTL DEF Spec, NewestWins

-----------------------------------------------------------------------------
\* The cache outlives its token by less than the latency the margin pays for.
LEMMA LifeHolds == Spec => []LifeInv
<1>1. Init => LifeInv
  BY DEF Init, LifeInv
<1>2. TypeOK /\ LifeInv /\ [Next]_vars => LifeInv'
  <2> SUFFICES ASSUME TypeOK, LifeInv, [Next]_vars
               PROVE  LifeInv'
    OBVIOUS
  <2> USE TokenAssumption DEF TypeOK, LifeInv, Flight
  <2>1. ASSUME NEW p \in Callers, Call(p)
        PROVE  LifeInv'
    BY <2>1 DEF Call, Step, cache
  <2>2. ASSUME NEW p \in Callers, TokenHit(p)
        PROVE  LifeInv'
    BY <2>2 DEF TokenHit, Step, Fresh, cache
  <2>3. ASSUME NEW p \in Callers, StartFetch(p)
        PROVE  LifeInv'
    BY <2>3 DEF StartFetch, Step, Holds, cache
  <2>4. ASSUME NEW p \in Callers, Issue(p)
        PROVE  LifeInv'
    BY <2>4 DEF Issue, Step, cache
  <2>5. ASSUME NEW p \in Callers, FetchFails(p)
        PROVE  LifeInv'
    BY <2>5 DEF FetchFails, Step, Releases, NoFlight, cache
  <2>6. ASSUME NEW p \in Callers, Store(p)
        PROVE  LifeInv'
    BY <2>6, MarginBounds DEF Store, Step, NoFlight, cache
  <2>7. ASSUME NEW p \in Callers, Resume(p)
        PROVE  LifeInv'
    BY <2>7 DEF Resume, Step, cache
  <2>8. CASE Tick
    BY <2>8 DEF Tick, cache
  <2>9. CASE UNCHANGED vars
    BY <2>9 DEF vars, cache
  <2> QED
    BY <2>1, <2>2, <2>3, <2>4, <2>5, <2>6, <2>7, <2>8, <2>9 DEF Next, Enter, Fetch
<1> QED
  BY <1>1, <1>2, TypeCorrect, PTL DEF Spec

\* A token from the cache has been dead for less than what the latency of its
\* answer exceeds the margin by (token.go:120, :185-190).
ServesNotLongDead == Fresh => clock < death + MaxLatency - Margin(life)

\* That holds for every lifetime, margin and latency, also where an answer takes
\* longer than the margin and a dead token may be served.
THEOREM NotLongDead == Spec => []ServesNotLongDead
<1>1. TypeOK /\ LifeInv => ServesNotLongDead
  <2> SUFFICES ASSUME TypeOK, LifeInv, cached # 0, clock < expiresAt
               PROVE  clock < death + MaxLatency - Margin(life)
    BY DEF ServesNotLongDead, Fresh
  <2>1. expiresAt <= death + MaxLatency - Margin(life)
    BY DEF LifeInv
  <2>2. Margin(life) \in Nat
    BY MarginBounds DEF TypeOK
  <2> QED
    BY <2>1, <2>2, TokenAssumption DEF TypeOK
<1> QED
  BY <1>1, TypeCorrect, LifeHolds, PTL

\* A token found fresh in the cache is still alive at the server, for every
\* lifetime, margin and latency in the proportion the property states.
THEOREM LiveTokens == Spec => []ServesLiveTokens
<1>1. TypeOK /\ ServesNotLongDead => ServesLiveTokens
  <2> SUFFICES ASSUME TypeOK, ServesNotLongDead, Fresh,
                      MaxLatency <= ExpiryMargin, 10 * MaxLatency <= life
               PROVE  clock < death
    BY DEF ServesLiveTokens
  <2>1. clock < death + MaxLatency - Margin(life)
    BY DEF ServesNotLongDead
  <2>2. Margin(life) \in Nat /\ MaxLatency <= Margin(life)
    BY MarginBounds DEF TypeOK
  <2> QED
    BY <2>1, <2>2, TokenAssumption DEF TypeOK
<1> QED
  BY <1>1, TypeCorrect, NotLongDead, PTL

-----------------------------------------------------------------------------
\* The provider is a token source: every step of its callers, of the mutex, of
\* the OAuth server and of the clock is one of the source's or changes nothing.
THEOREM ImplementsSource == Spec => ImplementsTokenSource
<1>1. Init => Source!Init
  BY DEF Init, Source!Init, Fresh
<1>2. TypeOK /\ OneFetch /\ OrderInv /\ LifeInv /\ [Next]_vars
         => [Source!Next]_(Source!vars)
  <2> SUFFICES ASSUME TypeOK, OneFetch, OrderInv, LifeInv, [Next]_vars
               PROVE  Source!Next \/ UNCHANGED Source!vars
    OBVIOUS
  <2> USE DEF Source!Next, Source!vars
  <2>1. ASSUME UNCHANGED <<cached, expiresAt, clock, got>>
        PROVE  UNCHANGED Source!vars
    BY <2>1 DEF Fresh
  <2>2. ASSUME NEW p \in Callers, Call(p) \/ StartFetch(p) \/ Issue(p)
        PROVE  UNCHANGED Source!vars
    BY <2>1, <2>2 DEF Call, StartFetch, Issue, cache
  <2>3. ASSUME NEW p \in Callers, TokenHit(p)
        PROVE  Source!Give(p)
    BY <2>3 DEF TokenHit, Source!Give, Source!Take, Fresh, cache, TypeOK
  <2>4. ASSUME NEW p \in Callers, FetchFails(p) \/ Resume(p)
        PROVE  Source!Forget(p)
    BY <2>4 DEF FetchFails, Resume, Source!Forget, Source!Take, Fresh, cache
  <2>5. ASSUME NEW p \in Callers, Store(p)
        PROVE  Source!Mint
    <3>1. /\ cached' = minted /\ got' = [got EXCEPT ![p] = minted]
          /\ clock' = clock
          /\ expiresAt' = clock + flight[p].life - Margin(flight[p].life)
          /\ flight[p].life \in Lifetimes
          /\ cached < minted
      BY <2>5 DEF Store, Step, OrderInv, LifeInv
    <3>2. /\ clock \in Nat /\ minted \in Nat /\ cached \in Nat
          /\ flight[p].life \in Nat /\ flight[p].life > 0
      BY <3>1, TokenAssumption DEF TypeOK, Flight
    <3>3. /\ Margin(flight[p].life) \in Nat
          /\ Margin(flight[p].life) < flight[p].life
      BY <3>2, TokenAssumption DEF Margin
    <3>4. Fresh'
      BY <3>1, <3>2, <3>3 DEF Fresh
    <3> QED
      BY <3>1, <3>2, <3>4 DEF Source!Mint, Source!Take
  <2>6. ASSUME Tick
        PROVE  Source!Expire \/ UNCHANGED Source!vars
    <3>1. UNCHANGED <<cached, expiresAt, got>> /\ clock' = clock + 1
      BY <2>6 DEF Tick, cache
    <3>2. clock \in Nat /\ expiresAt \in Nat
      BY DEF TypeOK
    <3>3. Fresh' => Fresh
      BY <3>1, <3>2 DEF Fresh
    <3>4. CASE Fresh'
      BY <3>1, <3>3, <3>4
    <3>5. CASE ~Fresh'
      BY <3>1, <3>5 DEF Source!Expire
    <3> QED
      BY <3>4, <3>5
  <2>7. CASE UNCHANGED vars
    BY <2>1, <2>7 DEF vars, cache
  <2> QED
    BY <2>2, <2>3, <2>4, <2>5, <2>6, <2>7 DEF Next, Enter, Fetch
<1> QED
  BY <1>1, <1>2, TypeCorrect, OneFetchAtATime, OrderHolds, LifeHolds, PTL
     DEF Spec, ImplementsTokenSource, Source!Spec

-----------------------------------------------------------------------------
SourceProofs == INSTANCE TokenSourceProofs
    WITH cached <- IF Fresh THEN cached ELSE 0, newest <- cached, held <- got

\* What a call finds in the cache is the newest token the provider has stored or
\* nothing, and no caller ever holds a newer one, whatever fails or expires.
THEOREM NewestCachedToo == Spec => []Source!NewestCached
<1>1. Source!Init <=> SourceProofs!Init
  BY DEF Source!Init, SourceProofs!Init
<1>2. [Source!Next]_(Source!vars) <=> [SourceProofs!Next]_(SourceProofs!vars)
  BY Zenon DEF Source!Next, SourceProofs!Next, Source!vars, SourceProofs!vars,
     Source!Mint, SourceProofs!Mint, Source!Expire, SourceProofs!Expire,
     Source!Give, SourceProofs!Give, Source!Forget, SourceProofs!Forget,
     Source!Take, SourceProofs!Take
<1>3. Source!NewestCached <=> SourceProofs!NewestCached
  BY DEF Source!NewestCached, SourceProofs!NewestCached
<1>4. SourceProofs!Spec => []SourceProofs!NewestCached
  BY SourceProofs!NewestAlwaysCached
<1> QED
  BY <1>1, <1>2, <1>3, <1>4, ImplementsSource, PTL
     DEF ImplementsTokenSource, Source!Spec, SourceProofs!Spec
=============================================================================
