------------------------------ MODULE Executor ------------------------------
(***************************************************************************)
(* HTTP execution of GraphQL operations (executor.go): concurrent calls of  *)
(* Execute that share one token provider.  A call waits for the rate        *)
(* limiter once, then tries: it takes a token, sends the request, keeps the *)
(* receipt of every response, refreshes the token after a first 401 and     *)
(* backs off after a transient failure, for read operations only.           *)
(*                                                                          *)
(* Both providers of the SDK are modelled, through Token and Refresh.  The  *)
(* one for client credentials holds its mutex for the whole call, so that   *)
(* each is one action.  A token is the number of the OAuth answer that      *)
(* granted it, 0 is the empty cache: the server may grant the same string   *)
(* twice.  The static provider has one token, which it never refreshes.     *)
(*                                                                          *)
(* Bodies and headers are left out, but for the outcomes the code tells     *)
(* apart and Retry-After.  A call's context may be done at any of the       *)
(* places where the code looks at it; every one of them ends the call, so   *)
(* that it is done needs no variable.                                       *)
(***************************************************************************)
EXTENDS RetryPolicy, GraphQLDocument, FiniteSets

CONSTANTS
    Calls,              \* concurrent calls of Execute
    Documents,          \* the documents given to Execute
    Headers,            \* Retry-After: seconds, 0 for none
    RetryableStatuses,  \* RetryPolicy.RetryableStatuses
    Served,             \* the status classes the server answers with
    Strict,             \* Config.Strict, or ExecuteStrict was called
    MaxMinted,          \* bound: tokens the OAuth server issues
    MaxRequests         \* bound: where a call's counts saturate, out of reach

\* Status classes the code tells apart; "none" is no response at all.
Statuses == {"ok", "unauthorized", "forbidden", "payment", "throttled",
             "unavailable", "unimplemented", "rejected"}

ASSUME ExecutorAssumption ==
    /\ Headers \subseteq Int /\ 0 \in Headers
    /\ RetryableStatuses \subseteq Statuses
    /\ Served \subseteq Statuses
    /\ Strict \in BOOLEAN
    /\ MaxMinted \in Nat
    /\ MaxRequests \in Nat /\ MaxRequests > MaxAttempts

ASSUME DocumentsAssumption ==
    /\ Documents \subseteq Seq(Lexemes)
    /\ \A text \in Documents : Definitions(text) # {}

Bodies == {"data", "errors", "garbage", "blocked", "broken"}

\* Only the body of a 2xx response is parsed; any other one is searched for
\* the shared-compute block; without a response there is no body to read.  The
\* status of a response whose body breaks off is never looked at: any stands for
\* all.
Answers ==
    {a \in [status : Served \cup {"none"}, body : Bodies] :
        /\ a.status = "none" => a.body = "broken"
        /\ a.status = "ok" => a.body # "blocked"
        /\ a.status \notin {"ok", "none"} => a.body \in {"data", "blocked"}}

Kinds == {"response", "graphql", "parse", "config", "limiter", "token",
          "refresh", "context", "interrupted", "transport", "authentication",
          "authorization", "plan", "rate_limited", "server"}
Outcome == [kind : Kinds \cup {"pending"}, temporary : BOOLEAN, receipts : Nat]
Pending == [kind |-> "pending", temporary |-> FALSE, receipts |-> 0]

\* The places of Execute: before it, at its calls, and after it.
Steps == {"idle", "limit", "token", "send", "settle", "refresh", "sleep", "done"}

VARIABLES
    pc,          \* where each call is
    read,        \* op.isRetryableRead()
    runs,        \* the kind of operation the server executes
    attempt, retried401, receipts, token, answer, outcome,
    delay, hint, \* of the backoff under way, and the Retry-After it answers
    static,      \* the provider is a StaticTokenProvider: chosen once for all
    cached,      \* the provider's token, 0 for none
    minted,      \* tokens granted so far
    requests, responses, \* history: sent and answered
    refusedAt    \* history: tokens granted when a 401 made the call refresh

backoff == <<delay, hint>>
provider == <<static, cached, minted>>
history == <<requests, responses, refusedAt>>
vars == <<pc, read, runs, attempt, retried401, receipts, token, answer, outcome,
          backoff, provider, history>>

NoAnswer == [status |-> "none", body |-> "broken"]

Init ==
    /\ pc = [c \in Calls |-> "idle"]
    /\ read = [c \in Calls |-> FALSE]
    /\ runs = [c \in Calls |-> "query"]
    /\ attempt = [c \in Calls |-> 0]
    /\ retried401 = [c \in Calls |-> FALSE]
    /\ receipts = [c \in Calls |-> 0]
    /\ token = [c \in Calls |-> 0]
    /\ answer = [c \in Calls |-> NoAnswer]
    /\ outcome = [c \in Calls |-> Pending]
    /\ delay = [c \in Calls |-> 0] /\ hint = [c \in Calls |-> 0]
    /\ static \in BOOLEAN
    /\ minted \in IF static THEN {0, 1} ELSE {0}
    /\ cached = minted
    /\ requests = [c \in Calls |-> 0]
    /\ responses = [c \in Calls |-> 0]
    /\ refusedAt = [c \in Calls |-> 0]

Goto(c, label) == pc' = [pc EXCEPT ![c] = label]

\* Execute returns: with the receipts collected so far, or before the loop
\* with none.
Return(c, kind, temporary, attached) ==
    /\ Goto(c, "done")
    /\ outcome' = [outcome EXCEPT ![c] =
          [kind |-> kind, temporary |-> temporary, receipts |-> attached]]

Finish(c, kind, temporary) == Return(c, kind, temporary, receipts[c])

-----------------------------------------------------------------------------
\* An empty document or a bad endpoint fails before anything is sent.
Begin(c) ==
    /\ pc[c] = "idle"
    /\ \E text \in Documents :
          /\ read' = [read EXCEPT ![c] = IsRetryableRead(text)]
          /\ \E kind \in Definitions(text) : runs' = [runs EXCEPT ![c] = kind]
    /\ \/ Goto(c, "limit") /\ UNCHANGED outcome
       \/ Return(c, "config", FALSE, 0)
    /\ UNCHANGED <<attempt, retried401, receipts, token, answer, backoff,
                   provider, history>>

\* limiter.Wait, once for the whole call.
LimiterWait(c) ==
    /\ pc[c] = "limit"
    /\ \/ Goto(c, "token") /\ UNCHANGED outcome
       \/ Return(c, "limiter", FALSE, 0)
    /\ UNCHANGED <<read, runs, attempt, retried401, receipts, token, answer,
                   backoff, provider, history>>

MutantCanRetry(c) == MaxAttempts > 1
CanRetry(c) == read[c] /\ MaxAttempts > 1

MutantCountsDown(c) == attempt[c] - 1
NextAttempt(c) == attempt[c] + 1

\* The OAuth server grants a token, and the provider caches it.
Mint ==
    /\ ~static /\ minted < MaxMinted
    /\ minted' = minted + 1 /\ cached' = minted + 1
    /\ UNCHANGED static

MutantGetToken(c) ==
    /\ pc[c] = "token" /\ UNCHANGED outcome
    /\ \/ /\ IF cached # 0 THEN UNCHANGED provider ELSE Mint
          /\ token' = [token EXCEPT ![c] = cached']
          /\ attempt' = [attempt EXCEPT ![c] = NextAttempt(c)]
          /\ Goto(c, "send")
       \/ cached = 0 /\ UNCHANGED <<pc, token, provider, attempt>>
    /\ UNCHANGED <<read, runs, retried401, receipts, answer, backoff, history>>

\* TokenProvider.Token: the cached or static token, a new one, or an error,
\* which an empty static token always is.
GetToken(c) ==
    /\ pc[c] = "token"
    /\ attempt' = [attempt EXCEPT ![c] = NextAttempt(c)]
    /\ \/ /\ cached # 0
          /\ token' = [token EXCEPT ![c] = cached]
          /\ Goto(c, "send") /\ UNCHANGED <<outcome, provider>>
       \/ /\ cached = 0 /\ Mint
          /\ token' = [token EXCEPT ![c] = minted + 1]
          /\ Goto(c, "send") /\ UNCHANGED outcome
       \/ /\ cached = 0
          /\ Finish(c, "token", FALSE) /\ UNCHANGED <<token, provider>>
    /\ UNCHANGED <<read, runs, retried401, receipts, answer, backoff, history>>

\* The cached token's lifetime is over, as far as the provider knows.
Expire ==
    /\ ~static /\ cached # 0
    /\ cached' = 0
    /\ UNCHANGED <<pc, read, runs, attempt, retried401, receipts, token, answer,
                   outcome, backoff, static, minted, history>>

\* A receipt for every response, whatever became of its body.
MutantKeepsReceipt(a) == a.status # "none" /\ a.body # "broken"
KeepsReceipt(a) == a.status # "none"

Saturated(n) == IF n < MaxRequests THEN n + 1 ELSE n

\* roundTrip: no response, a response whose body could not be read in full or
\* closed, or a response.
RoundTrip(c) ==
    /\ pc[c] = "send"
    /\ \E a \in Answers :
          /\ answer' = [answer EXCEPT ![c] = a]
          /\ receipts' = [receipts EXCEPT ![c] =
                            IF KeepsReceipt(a) THEN Saturated(@) ELSE @]
          /\ responses' = [responses EXCEPT ![c] =
                             IF a.status = "none" THEN @ ELSE Saturated(@)]
    /\ requests' = [requests EXCEPT ![c] = Saturated(@)]
    /\ Goto(c, "settle")
    /\ UNCHANGED <<read, runs, attempt, retried401, token, outcome, backoff,
                   provider, refusedAt>>

MutantTriesLeft(c) == attempt[c] + 1 < MaxAttempts
TriesLeft(c) == attempt[c] < MaxAttempts

Blocked(c) == answer[c].body = "blocked"
Transient(c) == answer[c].status \in RetryableStatuses \/ Blocked(c)

\* classifyHTTPError: the kind of a final HTTP failure.
KindOf(c) ==
    LET s == answer[c].status
    IN  CASE s = "unauthorized" -> "authentication"
          [] s = "forbidden" -> "authorization"
          [] s = "payment" -> "plan"
          [] s \notin {"unauthorized", "forbidden", "payment"}
                /\ (s = "throttled" \/ Blocked(c)) -> "rate_limited"
          [] s \in {"unavailable", "unimplemented"} /\ ~Blocked(c) -> "server"
          [] s \in {"ok", "rejected", "none"} /\ ~Blocked(c) -> "transport"

TemporaryOf(c) ==
    \/ KindOf(c) = "rate_limited"
    \/ KindOf(c) = "server" /\ answer[c].status = "unavailable"

LeftBySettle == <<read, runs, attempt, receipts, provider, requests, responses>>

\* The token and the answer are locals of one iteration.
Forget(c) ==
    /\ token' = [token EXCEPT ![c] = 0]
    /\ answer' = [answer EXCEPT ![c] = NoAnswer]

\* policy.Delay and the beginning of policy.Sleep.
BackOff(c, seconds) ==
    /\ Goto(c, "sleep") /\ UNCHANGED outcome
    /\ hint' = [hint EXCEPT ![c] = seconds]
    /\ \E d \in Delays(attempt[c], RetryAfter(seconds)) :
          delay' = [delay EXCEPT ![c] = d]

Broken(c) == answer[c].body = "broken"

\* The request failed or its body did: the context's own error, another try
\* after a backoff, or a transport error.
SettleBroken(c) ==
    /\ pc[c] = "settle" /\ Broken(c)
    /\ \/ /\ Finish(c, "context", FALSE)
          /\ UNCHANGED backoff
       \/ /\ CanRetry(c) /\ TriesLeft(c)
          /\ BackOff(c, 0)
       \/ /\ ~(CanRetry(c) /\ TriesLeft(c))
          /\ Finish(c, "transport", TRUE) /\ UNCHANGED backoff
    /\ UNCHANGED <<retried401, refusedAt>> /\ Forget(c) /\ UNCHANGED LeftBySettle

\* A 2xx response: parsed, and in strict mode failed for GraphQL errors.
SettleOk(c) ==
    /\ pc[c] = "settle" /\ ~Broken(c) /\ answer[c].status = "ok"
    /\ \/ answer[c].body = "garbage" /\ Finish(c, "parse", FALSE)
       \/ answer[c].body = "errors" /\ Strict /\ Finish(c, "graphql", FALSE)
       \/ answer[c].body = "errors" /\ ~Strict /\ Finish(c, "response", FALSE)
       \/ answer[c].body = "data" /\ Finish(c, "response", FALSE)
    /\ UNCHANGED <<retried401, refusedAt, backoff>> /\ Forget(c) /\ UNCHANGED LeftBySettle

Refreshes(c) ==
    answer[c].status = "unauthorized" /\ CanRetry(c) /\ ~retried401[c]

SettleUnauthorized(c) ==
    /\ pc[c] = "settle" /\ ~Broken(c) /\ Refreshes(c)
    /\ retried401' = [retried401 EXCEPT ![c] = TRUE]
    /\ refusedAt' = [refusedAt EXCEPT ![c] = minted]
    /\ Goto(c, "refresh")
    /\ UNCHANGED <<outcome, backoff>> /\ Forget(c) /\ UNCHANGED LeftBySettle

\* Any other status: back off and try again, or give up with a typed error.
SettleFailure(c) ==
    /\ pc[c] = "settle" /\ ~Broken(c) /\ answer[c].status # "ok" /\ ~Refreshes(c)
    /\ IF CanRetry(c) /\ Transient(c) /\ TriesLeft(c)
       THEN \E seconds \in Headers : BackOff(c, seconds)
       ELSE Finish(c, KindOf(c), TemporaryOf(c)) /\ UNCHANGED backoff
    /\ UNCHANGED <<retried401, refusedAt>> /\ Forget(c) /\ UNCHANGED LeftBySettle

MutantRefreshed ==
    /\ minted < MaxMinted
    /\ minted' = minted + 1 /\ UNCHANGED <<static, cached>>

\* A static token cannot be refreshed: Refresh returns it again, without error.
Refreshed == Mint \/ (static /\ UNCHANGED provider)

\* TokenProvider.Refresh; its result is not used, the next try asks Token.
Refresh(c) ==
    /\ pc[c] = "refresh"
    /\ \/ Refreshed /\ Goto(c, "token") /\ UNCHANGED outcome
       \/ /\ ~static
          /\ \E temporary \in BOOLEAN : Finish(c, "refresh", temporary)
          /\ UNCHANGED provider
    /\ UNCHANGED <<read, runs, attempt, retried401, receipts, token, answer,
                   backoff, history>>

\* policy.Sleep: the timer fires, or the context is done.
Sleep(c) ==
    /\ pc[c] = "sleep"
    /\ \/ Goto(c, "token") /\ UNCHANGED outcome
       \/ Finish(c, "interrupted", FALSE)
    /\ delay' = [delay EXCEPT ![c] = 0] /\ hint' = [hint EXCEPT ![c] = 0]
    /\ UNCHANGED <<read, runs, attempt, retried401, receipts, token, answer,
                   provider, history>>

-----------------------------------------------------------------------------
Run(c) ==
    \/ LimiterWait(c) \/ GetToken(c) \/ RoundTrip(c) \/ SettleBroken(c)
    \/ SettleOk(c) \/ SettleUnauthorized(c) \/ SettleFailure(c) \/ Refresh(c)
    \/ Sleep(c)

Terminated == (\A c \in Calls : pc[c] = "done") /\ UNCHANGED vars

Next ==
    \/ \E c \in Calls : Begin(c) \/ Run(c)
    \/ Expire
    \/ Terminated

Spec == Init /\ [][Next]_vars

\* Some call under way is scheduled as long as there is one, which is enough, as
\* none runs for ever; the HTTP client's timeout answers for a silent server and
\* the limiter grants a token in the end.
FairSpec == Spec /\ WF_vars(\E c \in Calls : Run(c))

-----------------------------------------------------------------------------
(* Properties *)

\* Every variable has its type.
TypeOK ==
    /\ pc \in [Calls -> Steps]
    /\ runs \in [Calls -> Keywords]
    /\ delay \in [Calls -> Nat] /\ hint \in [Calls -> Headers]
    /\ read \in [Calls -> BOOLEAN] /\ retried401 \in [Calls -> BOOLEAN]
    /\ attempt \in [Calls -> Nat] /\ receipts \in [Calls -> Nat]
    /\ token \in [Calls -> Nat]
    /\ answer \in [Calls -> Answers] /\ outcome \in [Calls -> Outcome]
    /\ static \in BOOLEAN /\ cached \in Nat /\ minted \in Nat
    /\ requests \in [Calls -> Nat] /\ responses \in [Calls -> Nat]
    /\ refusedAt \in [Calls -> Nat]

\* README.md:187: every response observed, retries and refused or broken ones
\* included, is in the receipts the caller gets, whichever way the call ends.
EvidenceComplete ==
    \A c \in Calls : pc[c] = "done" => outcome[c].receipts = responses[c]

\* A mutation or a subscription document is sent at most once, and no call
\* sends more than MaxAttempts requests but for the one after a refresh.
RequestsBounded ==
    \A c \in Calls :
       /\ ~read[c] => requests[c] <= 1
       /\ requests[c] <= MaxAttempts + (IF retried401[c] THEN 1 ELSE 0)

\* docs/error-handling.md:81: a call that was refused with a 401 refreshes and
\* runs again.  With client credentials each of its later requests carries a
\* token granted after the refusal, although other calls refresh and expire the
\* shared cache in between; a static token is sent again.  With either, a read
\* does not end with an authentication error before it has run again.
FreshTokenAfter401 ==
    \A c \in Calls :
       /\ ~static /\ pc[c] \in {"send", "settle"} /\ retried401[c]
             => token[c] > refusedAt[c]
       /\ outcome[c].kind = "authentication" /\ CanRetry(c)
             => retried401[c] /\ requests[c] >= 2

Source == INSTANCE TokenSource WITH Callers <- Calls, newest <- minted, held <- token

\* Executions use either provider as a token source: concurrent Token and
\* Refresh calls, expiry and what the executions keep of a token are steps of
\* one.  The static provider is a source that starts with its only token.
ImplementsTokenSource == Source!Spec

\* executor.go:379-382, README.md: whichever definition of its document the
\* server executes, a mutation or a subscription is never sent twice.
NeverReplayed == \A c \in Calls : runs[c] # "query" => requests[c] <= 1

\* retry.go:13-14, :83: a call waits before a retry as long as the server's
\* Retry-After or the exponential backoff says, up to MaxDelay and give or take
\* the jitter, whatever the attempt and the number of seconds.
Paced ==
    \A c \in Calls :
       pc[c] = "sleep" => KeepsPromise(delay[c], attempt[c], hint[c])

\* What holds of that: a wait is as documented if the delay it stands for fits
\* the width of a duration before it is capped, and otherwise it is at least not
\* negative and not longer than MaxDelay and its jitter.
PacedWithinWidth ==
    \A c \in Calls :
       pc[c] = "sleep" =>
          IF Fits(attempt[c], hint[c])
          THEN KeepsPromise(delay[c], attempt[c], hint[c])
          ELSE delay[c] \in 0 .. MaxDelay + Spread(MaxDelay)

GaveUp == {"transport", "rate_limited", "server"}

\* The SDK does not give up early: a read that ends with a failure reported as
\* temporary by HTTP or transport has sent a request on every try it had, when
\* the policy retries the statuses the default policy does.
GivesUpOnlyWhenSpent ==
    {"throttled", "unavailable"} \subseteq RetryableStatuses =>
    \A c \in Calls :
       outcome[c].kind \in GaveUp /\ outcome[c].temporary /\ CanRetry(c)
          => requests[c] >= MaxAttempts

\* executor.go:132-203: the loop ends.  Whatever mix of refusals, failures and
\* broken answers the server gives, every call that has begun returns.
EveryCallReturns == <>[](\A c \in Calls : pc[c] \in {"idle", "done"})

\* The claim of retry.go:19: MaxAttempts is the total number of tries.
MaxAttemptsIsTotal == \A c \in Calls : requests[c] <= MaxAttempts

-----------------------------------------------------------------------------
(* Why they hold: the invariants the proofs use. *)

\* Receipts are kept one by one, and every way out attaches all of them.
ReceiptsInv ==
    \A c \in Calls :
       /\ receipts[c] = responses[c]
       /\ pc[c] \in {"idle", "limit"} => responses[c] = 0
       /\ pc[c] = "done" => outcome[c].receipts = responses[c]

Refreshed401(c) == IF retried401[c] THEN 1 ELSE 0

\* Where a call may try again, it is a read with a try or its refresh left, and
\* every try but the one under way has sent its request.
TriesInv ==
    \A c \in Calls :
       /\ requests[c] <= attempt[c]
       /\ pc[c] \notin {"send", "done"} => requests[c] = attempt[c]
       /\ retried401[c] => attempt[c] >= 1
       /\ retried401[c] /\ pc[c] \in {"send", "settle"} => attempt[c] >= 2
       /\ attempt[c] <= MaxAttempts + Refreshed401(c)
       /\ attempt[c] > 1 => CanRetry(c)
       /\ pc[c] \in {"send", "settle", "sleep"} => attempt[c] >= 1
       /\ pc[c] \in {"idle", "limit"} => attempt[c] = 0 /\ ~retried401[c]
       /\ pc[c] = "token" => /\ attempt[c] < MaxAttempts + Refreshed401(c)
                             /\ attempt[c] >= 1 => CanRetry(c)
       /\ pc[c] = "send" => requests[c] = attempt[c] - 1
       /\ pc[c] = "refresh" => /\ CanRetry(c)
                               /\ attempt[c] < MaxAttempts + Refreshed401(c)
       /\ pc[c] = "sleep" => CanRetry(c) /\ attempt[c] < MaxAttempts

\* From its refresh on, a call finds only tokens granted later in the cache.  A
\* static token never changes.
TokensInv ==
    /\ cached <= minted
    /\ static => cached = minted
    /\ \A c \in Calls :
          /\ token[c] <= minted /\ refusedAt[c] <= minted
          /\ pc[c] \in {"idle", "limit"} => ~retried401[c]
          /\ pc[c] \in {"send", "settle"} => token[c] # 0
          /\ ~static /\ pc[c] \in {"send", "settle"} /\ retried401[c]
                => token[c] > refusedAt[c]
          /\ ~static /\ pc[c] \in {"token", "send", "settle", "sleep"}
                /\ retried401[c] /\ cached # 0 => cached > refusedAt[c]

\* Only a call that has returned has an outcome.
OutcomeInv == \A c \in Calls : pc[c] # "done" => outcome[c] = Pending
=============================================================================
