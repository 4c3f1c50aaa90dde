-------------------------- MODULE TokenSourceProofs --------------------------
(***************************************************************************)
(* What a token source gives its callers, for any number of them.           *)
(***************************************************************************)
EXTENDS TokenSource, TLAPS

\* No caller of a token source ever holds a token newer than the newest cached
\* one, and what a call finds in the cache is that one or nothing (token.go:120).
THEOREM NewestAlwaysCached == Spec => []NewestCached
<1>1. Init => NewestCached
  BY DEF Init, NewestCached
<1>2. NewestCached /\ [Next]_vars => NewestCached'
  <2> SUFFICES ASSUME NewestCached, [Next]_vars
               PROVE  NewestCached'
    OBVIOUS
  <2> USE DEF NewestCached
  <2>1. CASE Mint
    <3>1. /\ newest' \in Nat /\ newest' > newest /\ cached' = newest'
          /\ newest \in Nat
      BY <2>1 DEF Mint
    <3>2. CASE UNCHANGED held
      BY <3>1, <3>2
    <3>3. ASSUME NEW c \in Callers, Take(c, newest')
          PROVE  held' \in [Callers -> Nat] /\ \A d \in Callers : held'[d] <= newest'
      BY <3>1, <3>3 DEF Take
    <3> QED
      BY <2>1, <3>1, <3>2, <3>3 DEF Mint
  <2>2. CASE Expire
    BY <2>2 DEF Expire
  <2>3. ASSUME NEW c \in Callers, Give(c) \/ Forget(c)
        PROVE  NewestCached'
    BY <2>3 DEF Give, Forget, Take
  <2>4. CASE UNCHANGED vars
    BY <2>4 DEF vars
  <2> QED
    BY <2>1, <2>2, <2>3, <2>4 DEF Next
<1> QED
  BY <1>1, <1>2, PTL DEF Spec
=============================================================================
