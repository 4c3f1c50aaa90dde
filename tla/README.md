# bitquery-go: a verification project

TLA+ models, TLC model checks and TLAPS proofs for bitquery-go, a Go SDK that
executes GraphQL operations over HTTP and subscribes to GraphQL streams over
WebSocket. Paths below are relative to the repository; line numbers are those of
the commit the modules were written from.

## The system

| Component | State | Operations | Modelled in |
|---|---|---|---|
| Subscription stream, `subscription/client.go` | worker position, epoch, reconnect attempts, connection slot, sequence counter, event channel, receipt and gap buffers, terminal error, context | `run`, `serve`, `enqueue`, `writeJSON`, `Close`, `Wait`, `DrainReceipts` | `Stream`, and what it promises in `Feed` |
| HTTP executor, `executor.go` | per call: attempt, 401 flag, receipts | `Execute`, `ExecuteStrict`, `do`, `roundTrip`, `classifyHTTPError` | `Executor` |
| OAuth token provider, `token.go` | cached token, expiry, mutex | `Token`, `Refresh`, `fetch` | `TokenProvider`, and what it promises in `TokenSource` |
| Rate limiter, `ratelimit.go` | bucket level, last refill, mutex | `Wait` | `RateLimiter` |
| Retry policy, `retry.go` | none (immutable) | `Delay`, `parseRetryAfter`, `sleepCtx` | `RetryPolicy`; the sleep in `Executor` and `Stream` |
| Retryable documents, `executor.go:383` | none | `isRetryableRead` | `GraphQLDocument` |
| Configuration and endpoints, `config.go`, `endpoints.go` | a `Config`, and the endpoint of a shared provider | `NewConfig`, the options it checks, `HTTPURL`, `WebSocketURL` | `Clients` |
| Client construction, `v1`, `v2`, `subscription`, `executor.go` | none after construction | the `New` functions, `NewExecutor` | `Clients` |
| Receipts, evidence, `receipt.go`, `util.go` | immutable values | `NewHTTPReceipt`, `readLimitedEvidence` | their number and order, in `Executor` and `Stream` |
| Errors, `errors.go` | none | kinds, `Is`, `Unwrap` | the kinds, as outcomes |
| WebSocket adapter, redaction, logging, types, v1/v2 queries and projections, examples | none | text and adapters | not modelled |

How they interact:

* `NewConfig` writes the configured token endpoint into the provider it is given,
  without the provider's mutex, and that provider may already serve other clients.
* `Execute` calls the limiter once, then loops: `TokenProvider.Token`, one HTTP
  round trip, and after a failure `TokenProvider.Refresh` or a backoff. Calls run
  concurrently and share the provider, the limiter and the policy.
* `Subscribe` takes one token, then starts one worker goroutine (`run`) that dials,
  serves, and reconnects. The worker shares a `Stream` with its callers: the
  bounded `Events` channel, buffers under `Stream.mu`, the connection slot, and
  the channel `done`.
* `Close` cancels the context, closes the connection it finds in the slot and waits
  for `done`. A consumer ranges over `Events`, and others drain receipts, all while
  the worker goes on.

What is hard in it, and which properties are about it:

* **The full event queue** (`client.go:570-602`): a failed send, an eviction and
  a second send are three steps, with a consumer between any two of them.
  `ResendHasRoom`, `LossCounted`, `Ordered`.
* **Reconnects** (`client.go:385-456`): a budget spent in two places and reset in a
  third, marks that survive keepalives and evictions, fatal results that must not
  be reconnected, a token in the URL that expires. `BudgetRespected`,
  `ReconnectMarked`, `NoReconnectAfterEnd`, `RefusedEnds`.
* **Evidence** (`client.go:216-278`): a receipt is observed, retained and, when it
  is lost, explained by a gap, in separate critical sections and with two more
  bounded buffers. `EvidenceFirst`, `GapsExplain`, `FatalHasGap`.
* **Truncation**: whatever ends a stream, the consumer can tell a complete one from
  one that broke off. `ImplementsFeed`, and `CompleteEnd` of `Feed`.
* **Shutdown** (`client.go:117-134`, `350-353`): `Close` may come before, during
  and after a dial. `NoSocketLeft`, `CancelStops`, `CloseEnds`, `ConsumerEnds`.
* **Retries** (`executor.go:132-202`): three retry paths with different conditions,
  nine ways out, and a shared token cache that others refresh in between.
  `RequestsBounded`, `GivesUpOnlyWhenSpent`, `EvidenceComplete`,
  `FreshTokenAfter401`, `ImplementsTokenSource`, `EveryCallReturns`.
* **What may be repeated** (`executor.go:383-407`): a hand-written scan of the
  document decides. `NeverReplayed`.
* **Delays** (`retry.go:88-126`): a shift and a multiplication that may overflow, a
  cap, a jitter and a hint of the server. `PacedWithinWidth`, `Paced`.
* **The token cache** (`token.go:116-192`): a mutex held over an HTTP request, and a
  lifetime counted from when the answer arrives, not from when the token was
  issued. `OneFetch`, `NewestWins`, `ServesLiveTokens`, `ImplementsTokenSource`,
  `EveryCallReturns`.
* **The bucket** (`ratelimit.go:42-74`): a sleep computed from a level that others
  change during the sleep. `WindowBound`, `NoIdleToken`.
* **A shared provider** (`config.go:92`): its endpoint is rewritten, word by word,
  while its own clients validate and use it. `SentIsValid`, `SentIsConfigured`,
  `BuiltClientsWork`.

`PROJECT.json` lists the hazards line by line, those that no property covers yet
too, with the reason.

## The modules

### Stream

One action for each critical section of `Stream.mu`, each channel operation and
each call the worker can block in, so every interleaving the Go scheduler can
produce at that grain is a behaviour. `pc` is the worker's position:

| Labels | Code |
|---|---|
| `top`, `dial`, `dialed` | the head of the loop of `run`, the dial, `setConn` and `epoch++` |
| `write` | `writeJSON`: connection_init, subscribe, pong |
| `read`, `observe`, `retain`, `gap`, `dispatch` | `conn.Read` with `nextDelivery`, the receipt observer, the buffer of `observeReceipt`, `addGap`, the switch of `serve` |
| `enqueue`, `evict`, `resend` | the three selects of `enqueue` |
| `unset`, `hangup`, `decide`, `sleep` | what `run` does after `serve` |
| `cancel`, `closeDone`, `closeEvents`, `stopped` | the three deferred calls of `run`, last first |

`Close` holds `Stream.mu` while it calls `conn.Close`, so it has actions of its own
before and after that call (`CloseLocks`, `CloseHangsUp`), and `MuFree` guards every
other critical section. The server is the nondeterminism of `DialSucceeds`,
`DialFails`, `Write`, `ReadFrame` and `ReadFails`. A frame is its kind, its epoch,
its sequence number and its reconnect mark. `streak`, `offered`, `received`, `last`,
`lastDataEpoch`, `drained` and `callerCancelled` are history: the code has no such
variables, and no guard reads them.

### Feed

What `Stream` promises its consumer, without connections, buffers or goroutines:
`Publish`, `Deliver`, `Lose` (counted), `GiveUp` (at most the newest event, and only
to a cancellation or an overflow that becomes the error), `Complete`, `Fail`,
`Cancel`, `End`. `Stream` maps to it with `pending` as the channel and the event in
the worker's hand, `ended` as the labels of the way out, and `outcome` as the
results of `serve` that end a stream; that every step of `Stream` is a step of a Feed
or none is `ImplementsFeed`.

### Executor, RetryPolicy, GraphQLDocument

One call of `Execute` is a small program counter: `limit`, `token`, `send`,
`settle`, `refresh`, `sleep`, `done`. `settle` is everything `do` does with an
answer, in the order of the code: a broken body first, then 2xx, then the 401
refresh, then retry or failure. An answer is a status class and what its body is
good for (`Bodies`). The token provider is `static`, `cached` and `minted`. With
client credentials (`static` false) `Token` and `Refresh` hold the provider's mutex
for the whole call, so that each is one action, and a token is the number of the OAuth
answer that granted it, because the server may grant the same string twice
(`token_test.go:81-88`). A static provider has one token or an empty one; its `Refresh`
returns the same token without an error (`token.go:36-40`), so that the call goes on
and sends the refused token again. `FreshTokenAfter401` therefore speaks of client
credentials where it says that later requests carry a token granted after the refusal
(`refusedAt` is how many had been granted then), and of both providers where it says
that no read reports a 401 before it has run again (`docs/error-handling.md:81`).
Every place that looks at the context ends the call when it is done, so the context
is a choice at those places. `requests`, `responses` and `refusedAt` are history.

`Executor` extends two modules of pure operators. `RetryPolicy` computes the delays
the code may return (`Delays`) with integers that wrap at `Half`, 2^63 ns in Go, and
beside them the documented delay in exact arithmetic (`Promised`); `Paced` compares
the two whenever a call sleeps. That fails where the shift wraps (`retry.go:95`, finding
5) or the seconds of a Retry-After do (`retry.go:123`): `PacedWithinWidth` is what
holds, `Paced` for the waits whose delay fits the width (`Fits`), and for all others a
wait that is neither negative nor longer than `MaxDelay` and its jitter. `GraphQLDocument` is `isRetryableRead` over
sequences of lexemes (`IsRetryableRead`) beside the operations a server finds in the
same sequence (`Definitions`); `NeverReplayed` compares what the code repeats with
what the server executes.

### TokenSource

What `Executor` needs of a provider: a caller gets the newest token or a newer one,
and a grant that left the cache does not come back. A source may start with a token it
was configured with and never mint another, as the static provider does: nothing is
said of what a refresh achieves. Both sides are shown to implement it: `TokenProvider`
with its mutex, clock and requests, and `Executor` with its one-step provider, so the
simplification in `Executor` rests on a checked interface.

### TokenProvider

The same provider with its inside: the mutex, the OAuth request in flight, the
server that issues numbered tokens, and a clock. `flight[p].at` is when the server
issued the token, `Store` counts the lifetime from when it arrives. `life`,
`death`, `stored` and `storedAtCall` are history.

### RateLimiter

The bucket counted in units of clock time, so that a token is `PerToken` units and
the code's fractions of a token are whole numbers. `Take` and `Short` are the two
outcomes of one look under the mutex, with the refill in both. The sleep is either
exact or one unit short, as the conversion to a Duration truncates.

### Clients

Goroutines that each build one client (`NewV1`, `NewV2`, `NewSubscription`,
`NewExecutor`), with the steps of `NewConfig` in order: `Check` (everything before
the write), `Point` (the write of `tokenURL`, two words in either order), `Tune`
(everything after it, and the API version). A client that was built asks the shared
provider for tokens, `Fetch` validating what it reads of `tokenURL` and `Send`
reading it again. The options are functions from field names to values, applied in
order as the code does. Reading a torn string is undefined; the model lets its
validation go either way and records what was sent.

### MC and proof modules

`MCStream` and `MCRateLimiter` add symmetry sets; `MCTokenProvider` adds the
assumption that the lifetimes of the instance exercise both branches of the margin;
`MCExecutor` holds the sample documents and `MCClients` the sample options.
`StreamProofs`, `StreamFeedProofs`, `ExecutorProofs`, `TokenProviderProofs`,
`TokenSourceProofs`, `RateLimiterProofs`, `FeedProofs` and `ClientsProofs` hold the
theorems.

Operators whose name begins with `Mutant` are plausible bugs, one for each checked
property: with the mutant in place of the operator it precedes, the run that checks
the property finds it violated.

## The runs

| Run | Instance | Question |
|---|---|---|
| `stream_queue` | queue 2, drop_oldest, 1 reconnect, 6 frames, 3 connections, no receipts | order, exact loss accounting, marks, budget, finality, and is it a Feed? |
| `stream_evidence` | queue 1, receipt buffer 2, both drop_oldest, observer, one Close, 2 frames, 2 connections, fair scheduler | is each loss explained, and do cancellations, Close, consumers and a refused stream reach their end? |
| `stream_fail` | queue 1, receipt buffer 1, both fail, observer, two goroutines in Close, 4 frames, 2 connections | no event without evidence; each fatal end has its gap; no socket outlives the stream; is it a Feed? |
| `stream_closed_on_return` | queue 1, one Close | expected violation, see Findings |
| `executor` | 2 calls, 8 documents, 3 attempts, 3 tokens or a static one, base 3, cap 5, jitter 20 %, durations that wrap at 64, Retry-After 0, 7 or 100, statuses ok/401/5xx, strict, fair | receipts, request bounds, pacing, replays, token freshness; does every call return? |
| `executor_tries` | 1 call, 2 attempts | expected violation, see Findings |
| `executor_replay` | 1 call, a document with a query and a mutation | expected violation, see Findings |
| `executor_backoff` | 1 call, 7 attempts, durations that wrap at 128, base 5, cap 60 | expected violation, see Findings |
| `token` | 2 callers, 2 tokens, lifetimes 10 and 20, margin 2, latency 1, clock to 20, fair | mutual exclusion, expiry, newest token, is it a TokenSource, every call returns |
| `token_coalesce` | 2 callers, clock to 2 | expected violation, see Findings |
| `rate_limiter` | 3 goroutines, bucket 2, 3 units per token, clock to 9 | the window bound and no idle token |
| `clients` | 2 goroutines, 10 option lists, a provider with and without its own endpoint, 2 token requests each | where token requests go, and does a client that was built work? |

### Bounds, and why they are enough

* `MaxFrames` bounds the frames a server sends. Six frames overflow a queue of two
  and evict from it in each of two connections. Two frames and the frames the
  worker writes overflow a receipt buffer of two and leave one drained.
* `MaxEpochs` bounds successful dials: the first connection, its reconnect, and in
  `stream_queue` a third after the budget was reset. Failed dials are bounded by
  the budget itself.
* `MaxRequests` is where the history counts of a call saturate. It is above
  `MaxAttempts`, and no call sends more than one request beyond those, so no count
  ever saturates in the code; it keeps a faulty variant of it finite.
  `MaxMinted` lets both calls refresh after the first token.
* In `executor` the first backoff is the base, 3, and the second one is doubled to 6
  and capped to 5 with a jitter of 1: one that is not doubled or not capped is outside
  of 4 to 6. A Retry-After of 7 is capped and one of 100 wraps to -28, which the code
  takes for none.
* `Half` is where durations wrap. In `executor` it is above every doubled delay, as
  2^63 ns is for the default policy's attempts, and below one Retry-After; in
  `executor_backoff` it is 128, so that seven attempts reach what takes 32 at the real
  width and a base of 5 s.
* The sample documents put everything `isRetryableRead` skips before each kind of
  definition, and the sample options are accepted, refused before the write to the
  provider and refused after it, with base URLs of every form.
* `MaxClock` covers the issue, the arrival and the death of a token with each
  lifetime, and in the limiter more than one whole bucket's refill.
* `MaxUses` lets a client ask before and after another one rewrites the endpoint.
* Symmetry is used over goroutines in Close and waiters, only in runs without
  liveness.

### Fairness, and why the code justifies it

* `Stream`: weak fairness of the worker and of a Close under way, as the Go
  scheduler runs every runnable goroutine. A peer or an observer is only owed to
  answer once the context is done: dial, read and write take the context, and the
  documentation of `ReceiptObserver` demands that it honours it. A consumer is
  never assumed to receive, but in `ConsumerEnds`, which says so, and a server is
  never assumed to answer a dial, but in `RefusedEnds`, which says so.
* `Executor`: weak fairness of the calls together: as long as one can take a step,
  some call does. It is enough because a call takes finitely many steps, and weaker
  than what the scheduler gives each of them. The HTTP client has a timeout, sleeps end
  by their timer, and waiting for the limiter ends as `RateLimiter` describes or by
  the context.
* `TokenProvider`: the HTTP client's timeout ends each request (weak fairness of
  `FetchFails \/ Store`), and `sync.Mutex` hands over to a starving waiter within
  its starvation mode (strong fairness of `Enter`).
* `RateLimiter`: none. The code gives waiters no order, so one may starve, and no
  liveness is claimed.
* `Clients`: none; construction does not wait for anything.

## Findings

Five disagreements between documentation and code, each with a run that exhibits
it:

1. `stream_closed_on_return`: `run` closes `done` before `events`
   (`client.go:350-353`, deferred calls run last first), so `Close` can return
   while `Events` is still open; `client_test.go:380` says after Close "Events
   channel must be closed now". The lines that follow (381-387) are a `select` with an
   empty `default`, which accepts an open channel too, so the test cannot tell.
   `ConsumerEnds` shows that the channel is closed in the end.
2. `executor_tries`: the 401 refresh does not look at the attempt count
   (`executor.go:180`), so a call may send `MaxAttempts + 1` requests; `retry.go:19`
   calls MaxAttempts "the total number of tries including the first".
   `RequestsBounded` is the bound that holds.
3. `token_coalesce`: `Refresh` fetches whenever it gets the mutex (`token.go:127`), so
   concurrent refreshes are serialised, not coalesced as `token.go:44` and
   `token.go:133` say. `OneFetch` and `NewestWins` are what holds.
4. `executor_replay`: `isRetryableRead` looks at the first definition only
   (`executor.go:383`), so a document that starts with a query and also defines a
   mutation is repeated when `operationName` selects the mutation; the comment at
   `executor.go:380` says "Mutations and subscriptions are never replayed
   automatically". With documents of one kind it holds, and is proved.
5. `executor_backoff`: `BaseDelay << (attempt - 1)` wraps before it is capped
   (`retry.go:95`). With the default base of 5 s the delay is 0 after attempts 32,
   35, 37 and others, and after every attempt from 56 on, where `retry.go:13-14`
   promises exponential doubling with a cap; `WithSubscriptionReconnect(100)`
   reaches it. `PacedWithinWidth` is what holds, and is proved: delays that fit are as
   documented, and the others stay within the cap.

## The proofs

TLAPS proves the following for every value of the constants, from the named
assumptions of the modules, which say that capacities and bounds are natural
numbers, that policies are among the two the configuration accepts, that a bucket
and its refill time are positive, that the retry policy passed its validation, that
each document defines an operation, and that options set fields to values of their
types, and that `MaxRequests` exceeds `MaxAttempts`, so that the counts of a call are
exact. Where a theorem assumes more, the table says so.

| Theorem | States | Inductive invariant |
|---|---|---|
| `StreamProofs!TypeCorrect` | `TypeOK` | `TypeOK /\ GapHasReason`: the result of a fatal gap is its reason, so a gap under way must have one |
| `StreamProofs!BudgetHolds` | `BudgetRespected` | `BudgetInv`: `attempts` is the streak of dials at some labels and one less at others |
| `StreamProofs!SocketsClosed` | `NoSocketLeft` | `SocketInv`: which socket can be open at each label |
| `StreamProofs!LossAlwaysCounted`, `ResendNeverWaits` | `LossCounted`, `ResendHasRoom` | `DeliveryInv`: an event neither accounted for nor held belongs to a worker that hands over no other |
| `StreamFeedProofs!EndIsFinal` | `NoReconnectAfterEnd` | `EndInv`: a final result leads to the way out, an error is set only there, and before that only a caller can have cancelled |
| `StreamFeedProofs!FailureHasGap` | `FatalHasGap` | `GapInv`: the newest gap has the reason of the result, with `EndInv` for the error |
| `StreamFeedProofs!EventsInOrder` | `Ordered` | `OrderInv`, with `FrameInv` for what the worker holds at each label: all events are older than the frame being handled |
| `StreamFeedProofs!ReconnectsMarked` | `ReconnectMarked` | `MarkInv`: once the mark of a connection is taken, a data event of it was handed over |
| `StreamFeedProofs!LossesExplained` | `GapsExplain` | `GapsAddUp` and `GapsByReason` one by one, with `GapHasReason`, and `EndInv` for the gap of the end |
| `StreamFeedProofs!EvidencePrecedes` | `EvidenceFirst` | itself, with `EndInv`, `FrameInv` and `OrderInv`: a frame is settled before the next one is read, and only the newest can be unsettled and unseen |
| `StreamFeedProofs!KeepsPromise` | `ImplementsFeed` | `FeedInv`: `EndInv`, `FrameInv`, `OrderInv` and `CompleteInv` (no complete event before the stream finished) |
| `FeedProofs!EndsComplete` | `CompleteEnd` of `Feed` | `EndInv` of `FeedProofs`: a finished feed has a complete event as its newest one, and an end without an error or a cancellation has finished |
| `StreamFeedProofs!TruncationIsSeen` | `CompleteEnd` of `Stream` | from the two before, by the refinement |
| `FeedProofs!CompleteEndsFeed` | `NothingAfterComplete` of `Feed` | `CompleteIsLast`: a complete event is the newest one published, so behind it nothing is pending |
| `StreamFeedProofs!CompleteEndsStream` | `NothingAfterComplete` of `Stream` | from that, by the refinement |
| `StreamFeedProofs!CancelLeads` | `CancelProgress`: once `ctx` is done each step of the worker but `ReadFrame` lowers `StepsLeft`, which is at most 15, and no other step changes it | `TypeOK`, `GapHasReason`, `FrameInv` |
| `StreamFeedProofs!ReturnIsRest` | when `Close` returns the context is cancelled and no socket is open; from the return of `Wait` or `Close` on, `Err`, `Gaps` and the counters are final and callers only drain what is buffered | `RestInv`: the deferred calls have cancelled `ctx`, and a `Close` that returned saw the stream done; `SocketInv` |
| `ExecutorProofs!TypeCorrect` | `TypeOK` | itself |
| `ExecutorProofs!ReceiptsComplete` | `EvidenceComplete` | `ReceiptsInv`: receipts follow responses one by one, and there are none before the loop |
| `ExecutorProofs!RequestsHold` | `RequestsBounded` | `TriesInv`: what a call may still do at each label, and that each try but the one under way has sent its request |
| `ExecutorProofs!FreshTokens` | `FreshTokenAfter401` | `TokensInv`: with client credentials the cache of a call that refreshed is empty or holds a token granted after the refusal, also when others expire it and mint; and `EndedInv` for the calls that ended |
| `ExecutorProofs!GivesUpLate` | `GivesUpOnlyWhenSpent` | `EndedInv`: no call has ended with a failure it had a try left for, with `TriesInv`; `TemporaryIsTransient` relates what `classifyHTTPError` calls temporary to what the loop retries |
| `ExecutorProofs!CallsLead` | each step of a call lowers `CallLeft`, which starts at `4 * MaxAttempts + 6`, and no step of others raises it | `TriesInv` |
| `ExecutorProofs!WaitsKeepPromise` | `PacedWithinWidth` | itself, with `TriesInv` for the range of the attempt; `DelaysKeepPromise` for the delays that fit, where wrapping changes nothing, and `DelaysBounded` for the others |
| `ExecutorProofs!WaitsAreBounded` | `WaitsBounded`: the bound of those waits, at every label | itself, with `DelaysBounded` for the wrapped arithmetic |
| `ExecutorProofs!ReadsOnlyReplayed` | `NeverReplayed`, assuming documents of one kind | what `IsRetryableRead` accepts defines a query, so a call that may repeat runs one; with `TriesInv` |
| `ExecutorProofs!BackoffKeepsPromise` | `Paced`, assuming that doubled delays and hints fit the width | from `WaitsKeepPromise` |
| `ExecutorProofs!ImplementsSource`, `TokenProviderProofs!ImplementsSource` | `ImplementsTokenSource` | type correctness in `Executor`, `OneFetch`, `OrderInv` and `LifeInv` in `TokenProvider` |
| `TokenSourceProofs!NewestAlwaysCached` | `NewestCached` of `TokenSource` | itself |
| `ExecutorProofs!NewestCachedToo`, `TokenProviderProofs!NewestCachedToo` | `NewestCached` of the executions' and of the provider's cache | from the three before, by the refinements |
| `TokenProviderProofs!TypeCorrect`, `OneFetchAtATime` | `TypeOK`, `OneFetch` | themselves |
| `TokenProviderProofs!NewestAlwaysWins` | `NewestWins` | `OrderInv`: a token on the way is the newest one |
| `TokenProviderProofs!NotLongDead` | `ServesNotLongDead`: how long a dead token can be served when an answer takes longer than the margin | `LifeInv` |
| `TokenProviderProofs!LiveTokens` | `ServesLiveTokens` | from that, with `MarginBounds` for the arithmetic of the margin |
| `RateLimiterProofs!TypeCorrect` | `TypeOK` | itself, with `FullType` |
| `RateLimiterProofs!WindowHolds` | `WindowBound` | `WindowInv`: `Budget` ties every past grant to what the bucket holds now, which a grant at the end of a window needs |
| `RateLimiterProofs!RateHolds` | `LongRunRate`: tokens taken and left are within the first bucket and the time since | `WindowInv`, from the first grant on |
| `RateLimiterProofs!SleepsOnlyWhenEmpty` | `NoIdleToken` | `Timely`: when a sleeper's timer fires the bucket holds at most one token |
| `ClientsProofs!TypeCorrect` | `TypeOK` | itself |
| `ClientsProofs!OnlyValidSent` | `SentIsValid` | a written word is valid, and validity of both words survives any write |
| `ClientsProofs!OnlyConfiguredSent` | `SentIsConfigured` | each word of `tokenURL` is explicit, default or of a builder that wrote it |
| `ClientsProofs!AgreeingClientsMeet` | `SentTo(u)`, assuming that the clients that write to the provider agree on `u` | from the one before: the clients that wrote are clients that agree |
| `ClientsProofs!BuiltWorks` | `BuiltClientsWork` | what was checked holds at every later label |

Only model-checked: the liveness properties `CancelStops`, `CloseEnds`,
`ConsumerEnds`, `RefusedEnds` and the two `EveryCallReturns` (fairness and ENABLED are
out of the prover's reach). Of two of them the part that needs no fairness is proved
for every instance: `CancelLeads` gives `CancelStops` its variant, a bounded number of
steps from a cancellation to the end, and `CallsLead` gives the one of `Executor` its
variant. That the worker and the calls are not blocked on the way is what TLC checks.
`ReadFrame` is excepted in `CancelLeads` because a frame that the server sent before
may still be read after a cancellation; reads end with what the server has sent.
Every invariant, action property and refinement that a passing run checks is proved.

## What is not modelled

* Text and bytes: JSON, hashing, redaction, logging. Documents and URLs are modelled
  as far as decisions depend on them.
* The query builders and projections of `v1` and `v2`: constructors of GraphQL text
  and decoders of JSON without state, a branch per field, which table tests cover.
* The values of receipts and `readLimitedEvidence`: computed once and never changed;
  that they are kept and in which order is modelled.
* The WebSocket adapter: it forwards to a library; `Stream` models what its calls may
  do to the worker.
* The HTTP date form of Retry-After: it yields a number of seconds like the other.
* Floating-point rounding in the limiter: the model is exact, the code's error is
  below one part in the number of nanoseconds per token.
* Custom token providers (both built-in ones are modelled), limiters, dialers and
  loggers supplied by the caller.

## Plan

1. (done) `Stream`, `Executor`, `TokenProvider`, `RateLimiter`, their runs and their
   first theorems.
2. (done) `Feed` and `TokenSource`, the refinements, checked and proved.
3. (done) `RetryPolicy`, `GraphQLDocument` and `Clients`.
4. (done) Proofs of the remaining invariants of `Stream`, stronger forms of the
   loss, evidence and retry properties, and the variants of the liveness properties.
5. `Session`: a stream and executions that share one provider, with tokens that die
   between reconnects (`client.go:319`). `RefusedEnds` states the stream's side of it.
6. The body evidence of `receipt.go` as pure operators: which flags it sets for an
   answer that is cut off, too large, or fails to close.
