------------------------------- MODULE Clients -------------------------------
(***************************************************************************)
(* Goroutines that build v1, v2 and subscription clients (config.go,        *)
(* endpoints.go, the New functions) with one ClientCredentialsProvider, and *)
(* the token requests of clients that are in use meanwhile (token.go).      *)
(*                                                                          *)
(* NewConfig writes the configured token endpoint into the provider it was  *)
(* given, without the provider's mutex, while a fetch reads it twice: to    *)
(* validate it and to send the request.  A Go string is two words, which    *)
(* are written one after the other, so a reader may see one half of each.   *)
(* A URL is a record of its form and a name; "https" is any lower-case      *)
(* http(s) scheme and "HTTPS" the same with an upper-case letter.           *)
(***************************************************************************)
EXTENDS Integers, Sequences

LOCAL INSTANCE SequencesExt

CONSTANTS
    Builders,     \* goroutines that build a client and use it
    OptionLists,  \* the options they may pass
    Explicits,    \* WithOAuthTokenEndpoint of the provider, NoURL without it
    MaxUses       \* bound: token requests of each client

NoURL == [form |-> "none", name |-> "none"]
Forms == {"https", "HTTPS", "ws", "other", "none"}
Hosts == {"none", "bitquery", "proxy", "mirror"}
URL == [form : Forms, name : Hosts]

OAuthTokenEndpoint == [form |-> "https", name |-> "bitquery"]

\* What Region.normalized knows.
Regions == {"", "eu", "europe", "default", "asia", "us", "usa", "united-states"}

\* The fields of Config that NewConfig looks at; jitter is in percent.
Config ==
    [provider : {"none", "static", "shared"}, httpClient : BOOLEAN, timeout : Int,
     region : Regions \cup {"mars"},
     baseURL : URL, webSocketURL : URL, tokenEndpoint : URL,
     retry : [on : BOOLEAN, attempts : Int, base : Int, max : Int, jitter : Int],
     reconnects : Int, queue : Int, overflow : {"drop_oldest", "fail", "block"},
     receipts : Int, receiptOverflow : {"drop_oldest", "fail", "block"},
     subProtocol : {"graphql-ws", "graphql-transport-ws", "mqtt"}]

DefaultRetryPolicy ==
    [on |-> TRUE, attempts |-> 4, base |-> 5, max |-> 60, jitter |-> 25]
NoRetry == [DefaultRetryPolicy EXCEPT !.attempts = 1]
NilPolicy == [DefaultRetryPolicy EXCEPT !.on = FALSE]

\* NewConfig before its options.
Defaults ==
    [provider |-> "none", httpClient |-> FALSE, timeout |-> 30,
     region |-> "europe",
     baseURL |-> NoURL, webSocketURL |-> NoURL,
     tokenEndpoint |-> OAuthTokenEndpoint,
     retry |-> DefaultRetryPolicy,
     reconnects |-> 8, queue |-> 1000, overflow |-> "drop_oldest",
     receipts |-> 1024, receiptOverflow |-> "fail",
     subProtocol |-> "graphql-transport-ws"]

-----------------------------------------------------------------------------
(* Options: the fields each one sets *)

WithTokenProvider(p) == [provider |-> p]
WithHTTPClient == [httpClient |-> TRUE]
WithTimeout(d) == [timeout |-> d]
WithRegion(r) == [region |-> r]
WithBaseURL(u) == [baseURL |-> u]
WithWebSocketURL(u) == [webSocketURL |-> u]
WithTokenEndpoint(u) == [tokenEndpoint |-> u]
WithRetryPolicy(policy) == [retry |-> policy]
WithSubProtocol(p) == [subProtocol |-> p]
WithSubscriptionReconnect(n) == [reconnects |-> n]

\* An empty policy keeps the one set before.
WithSubscriptionQueue(capacity, policy) ==
    IF policy = "" THEN [queue |-> capacity]
    ELSE [queue |-> capacity, overflow |-> policy]

WithSubscriptionReceiptBuffer(capacity, policy) ==
    IF policy = "" THEN [receipts |-> capacity]
    ELSE [receipts |-> capacity, receiptOverflow |-> policy]

Apply(cfg, option) ==
    [f \in DOMAIN cfg |-> IF f \in DOMAIN option THEN option[f] ELSE cfg[f]]

\* The options in their order, so that a later one wins.
Configured(options) == FoldLeft(Apply, Defaults, options)

Providers == {"none", "static", "shared"}

\* The New functions put the provider first.
Given(p, options) == Configured(<<WithTokenProvider(p)>> \o options)

ASSUME ClientsAssumption == Explicits \subseteq URL /\ MaxUses \in Nat

\* The options set fields of Config to values of their Go types.
ASSUME OptionsAssumption ==
    \A o \in OptionLists :
       Configured(o) \in Config /\ \A p \in Providers : Given(p, o) \in Config

-----------------------------------------------------------------------------
(* Endpoints *)

ValidHTTP(u) == u.form \in {"https", "HTTPS"}
ValidWebSocket(u) == u.form = "ws"

Known(region) == region \in Regions

\* HTTPURL returns an endpoint; an override wins over the region.
HTTPResolves(cfg) ==
    IF cfg.baseURL # NoURL THEN ValidHTTP(cfg.baseURL) ELSE Known(cfg.region)

\* The WebSocket endpoint is derived from the HTTP one by its literal prefix.
Derivable(u) == u.form = "https"

WebSocketResolves(cfg) ==
    IF cfg.webSocketURL # NoURL THEN ValidWebSocket(cfg.webSocketURL)
    ELSE HTTPResolves(cfg) /\ (cfg.baseURL # NoURL => Derivable(cfg.baseURL))

MutantEndpointsAccepted(cfg) ==
    /\ cfg.provider # "none"
    /\ cfg.httpClient \/ cfg.timeout > 0
    /\ HTTPResolves(cfg)
    /\ cfg.webSocketURL # NoURL => WebSocketResolves(cfg)

\* NewConfig's checks before and after it writes to the provider.
EndpointsAccepted(cfg) ==
    /\ cfg.provider # "none"
    /\ cfg.httpClient \/ cfg.timeout > 0
    /\ HTTPResolves(cfg)
    /\ cfg.webSocketURL # NoURL => WebSocketResolves(cfg)
    /\ ValidHTTP(cfg.tokenEndpoint)

RetryAccepted(retry) ==
    /\ retry.attempts >= 1
    /\ retry.base >= 0 /\ retry.max >= retry.base
    /\ retry.jitter \in 0 .. 100

MutantTuningAccepted(cfg) == TRUE
TuningAccepted(cfg) ==
    /\ cfg.retry.on => RetryAccepted(cfg.retry)
    /\ cfg.reconnects >= 0 /\ cfg.queue >= 0 /\ cfg.receipts >= 0
    /\ cfg.overflow # "block" /\ cfg.receiptOverflow # "block"
    /\ cfg.subProtocol # "mqtt"

-----------------------------------------------------------------------------
VARIABLES
    pc,       \* where each builder is
    kind,     \* the client it builds
    config,   \* and its Config
    explicit, \* the provider's own endpoint, or NoURL
    tokenURL, \* the two words of the provider's tokenURL
    uses,     \* token requests each client has begun
    pointed,  \* history: builders that wrote to the provider
    sent      \* history: the endpoint words of each token request

vars == <<pc, kind, config, explicit, tokenURL, uses, pointed, sent>>

Kinds == {"v1", "v2", "subscription", "unversioned"}
Wrote == <<"wrote1", "wrote2">>
Labels == {"new", "check", "point", "wrote1", "wrote2", "tune", "ready",
           "fetching", "failed"}

Init ==
    /\ pc = [b \in Builders |-> "new"]
    /\ kind = [b \in Builders |-> "v1"]
    /\ config = [b \in Builders |-> Defaults]
    /\ explicit \in Explicits
    /\ tokenURL = IF explicit = NoURL THEN <<OAuthTokenEndpoint, OAuthTokenEndpoint>>
                  ELSE <<explicit, explicit>>
    /\ uses = [b \in Builders |-> 0]
    /\ pointed = {} /\ sent = {}

Step(b, from, to) == pc[b] = from /\ pc' = [pc EXCEPT ![b] = to]

New(b, k, cfg) ==
    /\ Step(b, "new", "check")
    /\ kind' = [kind EXCEPT ![b] = k]
    /\ config' = [config EXCEPT ![b] = cfg]
    /\ UNCHANGED <<explicit, tokenURL, uses, pointed, sent>>

NewV1(b) == \E p \in Providers, o \in OptionLists : New(b, "v1", Given(p, o))
NewV2(b) == \E p \in Providers, o \in OptionLists : New(b, "v2", Given(p, o))
NewSubscription(b) ==
    \E p \in Providers, o \in OptionLists : New(b, "subscription", Given(p, o))
NewExecutor(b) ==
    \E k \in {"v1", "v2", "unversioned"}, o \in OptionLists :
       New(b, k, Configured(o))

MutantPoints(b) == config[b].provider = "shared"
\* The provider is a ClientCredentialsProvider without an endpoint of its own.
Points(b) == config[b].provider = "shared" /\ explicit = NoURL

Check(b) ==
    /\ \/ ~EndpointsAccepted(config[b]) /\ Step(b, "check", "failed")
       \/ EndpointsAccepted(config[b]) /\ Points(b) /\ Step(b, "check", "point")
       \/ EndpointsAccepted(config[b]) /\ ~Points(b) /\ Step(b, "check", "tune")
    /\ UNCHANGED <<explicit, kind, config, tokenURL, uses, pointed, sent>>

\* The endpoint without its scheme.
MutantEndpoint(b) == [config[b].tokenEndpoint EXCEPT !.form = "relative"]
Endpoint(b) == config[b].tokenEndpoint

\* provider.tokenURL = c.TokenEndpoint, one word at a time in either order.
Point(b) ==
    /\ \E i \in {1, 2} :
          /\ tokenURL' = [tokenURL EXCEPT ![i] = Endpoint(b)]
          /\ Step(b, "point", Wrote[i]) \/ Step(b, Wrote[3 - i], "tune")
    /\ pointed' = pointed \cup {b}
    /\ UNCHANGED <<explicit, kind, config, uses, sent>>

\* The rest of NewConfig, and NewExecutor's check of the API version.
Tune(b) ==
    /\ IF TuningAccepted(config[b]) /\ kind[b] # "unversioned"
       THEN Step(b, "tune", "ready")
       ELSE Step(b, "tune", "failed")
    /\ UNCHANGED <<explicit, kind, config, tokenURL, uses, pointed, sent>>

Whole(words) == words[1] = words[2]

Resolves(b) ==
    IF kind[b] = "subscription" THEN WebSocketResolves(config[b])
    ELSE HTTPResolves(config[b])

\* Execute or Subscribe resolves the endpoint and asks the provider, which
\* begins a fetch under its mutex: it validates what it reads of tokenURL.
\* What a torn value looks like is anybody's guess.
Fetch(b) ==
    /\ uses[b] < MaxUses
    /\ Resolves(b) /\ config[b].provider = "shared"
    /\ \A d \in Builders : pc[d] # "fetching"
    /\ uses' = [uses EXCEPT ![b] = @ + 1]
    /\ \/ Step(b, "ready", "fetching") /\ (Whole(tokenURL) => ValidHTTP(tokenURL[1]))
       \/ /\ pc[b] = "ready" /\ (Whole(tokenURL) => ~ValidHTTP(tokenURL[1]))
          /\ UNCHANGED pc
    /\ UNCHANGED <<explicit, kind, config, tokenURL, pointed, sent>>

\* The request goes to what tokenURL holds by now.
Send(b) ==
    /\ Step(b, "fetching", "ready")
    /\ sent' = sent \cup {tokenURL}
    /\ UNCHANGED <<explicit, kind, config, tokenURL, uses, pointed>>

Terminated ==
    /\ \A b \in Builders :
          \/ pc[b] = "failed"
          \/ /\ pc[b] = "ready"
             /\ uses[b] = MaxUses \/ ~Resolves(b) \/ config[b].provider # "shared"
    /\ UNCHANGED vars

Next ==
    \/ \E b \in Builders :
          \/ NewV1(b) \/ NewV2(b) \/ NewSubscription(b) \/ NewExecutor(b)
          \/ Check(b) \/ Point(b) \/ Tune(b) \/ Fetch(b) \/ Send(b)
    \/ Terminated

Spec == Init /\ [][Next]_vars

-----------------------------------------------------------------------------
(* Properties *)

\* Every variable has its type.
TypeOK ==
    /\ pc \in [Builders -> Labels] /\ kind \in [Builders -> Kinds]
    /\ config \in [Builders -> Config]
    /\ explicit \in URL /\ tokenURL \in URL \X URL
    /\ uses \in [Builders -> 0 .. MaxUses]
    /\ pointed \subseteq Builders
    /\ sent \subseteq URL \X URL

\* token.go:142 against :152 and config.go:88 against :92.  Although the
\* endpoint may be rewritten between its validation and its use, a token
\* request only ever goes to a valid URL, unless the write tore it.
SentIsValid == \A words \in sent : Whole(words) => ValidHTTP(words[1])

\* README.md, "Token endpoint".  Token requests go to the provider's explicit
\* endpoint; without one, each word is the endpoint of a client that was built
\* with the provider, or whose construction failed after it wrote it.  So with
\* clients that agree on the endpoint, every request goes there and none is
\* torn, however their constructions and requests interleave.
SentIsConfigured ==
    \A words \in sent, i \in 1 .. 2 :
       IF explicit # NoURL THEN words[i] = explicit
       ELSE words[i] \in {config[b].tokenEndpoint : b \in pointed}

\* A client that was built works: its settings meet what Stream and RetryPolicy
\* assume of them, and its endpoint resolves, with one exception: a WebSocket
\* endpoint that has to be derived from a base URL whose scheme is written in
\* upper case, which only Subscribe rejects (endpoints.go:77).
BuiltClientsWork ==
    \A b \in Builders :
       pc[b] \in {"ready", "fetching"} =>
          LET cfg == config[b]
          IN  /\ cfg.reconnects \in Nat /\ cfg.queue \in Nat /\ cfg.receipts \in Nat
              /\ {cfg.overflow, cfg.receiptOverflow} \subseteq {"drop_oldest", "fail"}
              /\ cfg.retry.on => /\ cfg.retry.attempts \in Nat \ {0}
                                 /\ cfg.retry.base \in 0 .. cfg.retry.max
                                 /\ cfg.retry.jitter \in 0 .. 100
              /\ ~Resolves(b) <=> /\ kind[b] = "subscription"
                                  /\ cfg.webSocketURL = NoURL
                                  /\ cfg.baseURL.form = "HTTPS"
=============================================================================
