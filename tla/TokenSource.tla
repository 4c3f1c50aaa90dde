----------------------------- MODULE TokenSource -----------------------------
(***************************************************************************)
(* What the rest of the SDK relies on when it asks a TokenProvider for a    *)
(* token (token.go:12-19): a caller is only ever given the token that was   *)
(* granted last, from the cache as long as it is there or freshly minted,   *)
(* and a grant that has left the cache never comes back.  A source may      *)
(* start with a token it was configured with, and need not ever mint: the   *)
(* static provider is one, and nothing is said of what a refresh achieves.  *)
(* TokenProvider implements this with its mutex and clock; Executor uses no *)
(* more than this of either provider.                                       *)
(***************************************************************************)
EXTENDS Naturals

CONSTANT Callers

VARIABLES
    cached,  \* the token a call finds in the cache, 0 for none
    newest,  \* the newest token that was ever cached
    held     \* the token each caller has, 0 for none

vars == <<cached, newest, held>>

Init ==
    /\ newest \in Nat /\ cached = newest
    /\ held = [c \in Callers |-> 0]

Take(c, t) == held' = [held EXCEPT ![c] = t]

Give(c) == cached # 0 /\ Take(c, cached) /\ UNCHANGED <<cached, newest>>

\* A new token replaces the cached one, and is given to the caller that asked
\* unless it only asked for a refresh.
Mint ==
    /\ newest' \in Nat /\ newest' > newest
    /\ cached' = newest'
    /\ UNCHANGED held \/ \E c \in Callers : Take(c, newest')

Expire == cached' = 0 /\ UNCHANGED <<newest, held>>

Forget(c) == Take(c, 0) /\ UNCHANGED <<cached, newest>>

Next == Mint \/ Expire \/ \E c \in Callers : Give(c) \/ Forget(c)

Spec == Init /\ [][Next]_vars

\* The cache is empty or holds the newest token, and nobody holds a newer one.
NewestCached ==
    /\ newest \in Nat /\ held \in [Callers -> Nat]
    /\ cached \in {0, newest}
    /\ \A c \in Callers : held[c] <= newest
=============================================================================
