---------------------------- MODULE ClientsProofs ----------------------------
(***************************************************************************)
(* Theorems about Clients, for every number of builders, every list of      *)
(* options and every endpoint of the provider.                              *)
(***************************************************************************)
EXTENDS Clients, TLAPS

\* The labels of a builder whose endpoints were accepted.
Accepted == {"point", "wrote1", "wrote2", "tune", "ready", "fetching"}
Built == {"ready", "fetching"}

\* A builder has passed the checks before its label.
BuiltInv ==
    \A b \in Builders :
       /\ pc[b] \in Accepted => EndpointsAccepted(config[b])
       /\ pc[b] \in {"point", "wrote1", "wrote2"} => Points(b)
       /\ pc[b] \in Built => TuningAccepted(config[b]) /\ kind[b] # "unversioned"

\* The builder has written the i-th word of the endpoint.
WroteWord(b, i) ==
    pc[b] = Wrote[i] \/ (pc[b] \in {"tune", "ready", "fetching"} /\ Points(b))

\* A fetch under way has validated the endpoint, for a provider of its own.
FetchInv ==
    \A b \in Builders :
       pc[b] = "fetching" =>
          /\ config[b].provider = "shared"
          /\ explicit # NoURL => ValidHTTP(explicit)

-----------------------------------------------------------------------------
\* The values a builder starts with are typed.
LEMMA DefaultsTyped == Defaults \in Config /\ OAuthTokenEndpoint \in URL
<1>1. OAuthTokenEndpoint \in URL /\ NoURL \in URL
  BY DEF OAuthTokenEndpoint, NoURL, URL, Forms, Hosts
<1>2. DefaultRetryPolicy \in
         [on : BOOLEAN, attempts : Int, base : Int, max : Int, jitter : Int]
  BY DEF DefaultRetryPolicy
<1>3. QED
  BY <1>1, <1>2 DEF Defaults, Config, Regions

\* A step that moves a builder to a label keeps the labels typed.
LEMMA StepTyped ==
  ASSUME pc \in [Builders -> Labels], NEW b \in Builders, NEW from,
         NEW to \in Labels, Step(b, from, to)
  PROVE  pc' \in [Builders -> Labels]
  BY DEF Step

\* Every step keeps the types.
LEMMA TypeNext == TypeOK /\ [Next]_vars => TypeOK'
<1> SUFFICES ASSUME TypeOK, [Next]_vars PROVE TypeOK'
  OBVIOUS
<1> USE DEF TypeOK
<1>1. ASSUME NEW b \in Builders, NEW k \in Kinds, NEW cfg \in Config, New(b, k, cfg)
      PROVE  TypeOK'
  <2>1. pc' \in [Builders -> Labels]
    BY <1>1, StepTyped DEF New, Labels
  <2>2. QED
    BY <1>1, <2>1 DEF New
<1>2. ASSUME NEW b \in Builders,
             NewV1(b) \/ NewV2(b) \/ NewSubscription(b) \/ NewExecutor(b)
      PROVE  TypeOK'
  BY <1>1, <1>2, OptionsAssumption DEF OptionsAssumption, NewV1, NewV2,
     NewSubscription, NewExecutor, Kinds
<1>3. ASSUME NEW b \in Builders, Check(b) PROVE TypeOK'
  <2>1. pc' \in [Builders -> Labels]
    BY <1>3, StepTyped DEF Check, Labels
  <2>2. QED
    BY <1>3, <2>1 DEF Check
<1>4. ASSUME NEW b \in Builders, Point(b) PROVE TypeOK'
  <2>1. PICK i \in {1, 2} :
           /\ tokenURL' = [tokenURL EXCEPT ![i] = Endpoint(b)]
           /\ Step(b, "point", Wrote[i]) \/ Step(b, Wrote[3 - i], "tune")
    BY <1>4 DEF Point
  <2>2. Wrote[i] \in Labels
    BY DEF Wrote, Labels
  <2>3. pc' \in [Builders -> Labels]
    BY <2>1, <2>2, StepTyped DEF Labels
  <2>4. Endpoint(b) \in URL
    BY DEF Endpoint, Config
  <2>5. tokenURL' \in URL \X URL
    BY <2>1, <2>4
  <2>6. QED
    BY <1>4, <2>3, <2>5 DEF Point
<1>5. ASSUME NEW b \in Builders, Tune(b) PROVE TypeOK'
  <2>1. pc' \in [Builders -> Labels]
    BY <1>5, StepTyped DEF Tune, Labels
  <2>2. QED
    BY <1>5, <2>1 DEF Tune
<1>6. ASSUME NEW b \in Builders, Fetch(b) PROVE TypeOK'
  <2>1. pc' \in [Builders -> Labels]
    BY <1>6, StepTyped DEF Fetch, Labels
  <2>2. uses' \in [Builders -> 0 .. MaxUses]
    BY <1>6, ClientsAssumption DEF Fetch, ClientsAssumption
  <2>3. QED
    BY <1>6, <2>1, <2>2 DEF Fetch
<1>7. ASSUME NEW b \in Builders, Send(b) PROVE TypeOK'
  <2>1. pc' \in [Builders -> Labels]
    BY <1>7, StepTyped DEF Send, Labels
  <2>2. QED
    BY <1>7, <2>1 DEF Send
<1>8. CASE UNCHANGED vars
  BY <1>8 DEF vars
<1>9. QED
  BY <1>2, <1>3, <1>4, <1>5, <1>6, <1>7, <1>8 DEF Next, Terminated

\* Type correctness: in every reachable state each variable holds a value of
\* its type.
THEOREM TypeCorrect == Spec => []TypeOK
<1>1. Init => TypeOK
  BY DefaultsTyped, ClientsAssumption DEF Init, TypeOK, Labels, Kinds,
     ClientsAssumption
<1>2. QED
  BY <1>1, TypeNext, PTL DEF Spec

-----------------------------------------------------------------------------
(* Clients that were built *)

\* A builder that has begun keeps its kind and its Config.
LEMMA ConfigStays ==
  ASSUME TypeOK, [Next]_vars
  PROVE  /\ explicit' = explicit
         /\ \A b \in Builders :
               pc[b] # "new" => /\ config'[b] = config[b] /\ kind'[b] = kind[b]
                                /\ pc'[b] # "new"
<1>1. CASE UNCHANGED vars
  BY <1>1 DEF vars
<1>2. ASSUME NEW d \in Builders,
             NewV1(d) \/ NewV2(d) \/ NewSubscription(d) \/ NewExecutor(d)
      PROVE  /\ explicit' = explicit
             /\ \A b \in Builders :
                   pc[b] # "new" => /\ config'[b] = config[b] /\ kind'[b] = kind[b]
                                    /\ pc'[b] # "new"
  BY <1>2 DEF NewV1, NewV2, NewSubscription, NewExecutor, New, Step, TypeOK
<1>3. ASSUME NEW d \in Builders, Check(d) \/ Point(d) \/ Tune(d) \/ Fetch(d) \/ Send(d)
      PROVE  /\ UNCHANGED <<explicit, config, kind>>
             /\ \A b \in Builders : pc[b] # "new" => pc'[b] # "new"
  BY <1>3 DEF Check, Point, Wrote, Tune, Fetch, Send, Step, TypeOK
<1>4. QED
  BY <1>1, <1>2, <1>3 DEF Next, Terminated

\* Every step keeps what a builder has passed.
LEMMA BuiltNext == TypeOK /\ BuiltInv /\ [Next]_vars => BuiltInv'
<1> SUFFICES ASSUME TypeOK, BuiltInv, [Next]_vars, NEW b \in Builders
             PROVE  /\ pc'[b] \in Accepted => EndpointsAccepted(config'[b])
                    /\ pc'[b] \in {"point", "wrote1", "wrote2"} => Points(b)'
                    /\ pc'[b] \in Built =>
                          TuningAccepted(config'[b]) /\ kind'[b] # "unversioned"
  BY DEF BuiltInv
<1> DEFINE Keeps ==
      /\ pc'[b] \in Accepted => EndpointsAccepted(config[b])
      /\ pc'[b] \in {"point", "wrote1", "wrote2"} => Points(b)
      /\ pc'[b] \in Built => TuningAccepted(config[b]) /\ kind[b] # "unversioned"
<1> USE DEF Accepted, Built
<1>1. CASE pc[b] = "new"
  <2>1. pc'[b] \in {"new", "check"}
    BY <1>1 DEF Next, NewV1, NewV2, NewSubscription, NewExecutor, New, Check,
       Point, Wrote, Tune, Fetch, Send, Terminated, vars, Step, TypeOK
  <2>2. QED
    BY <2>1
<1>2. CASE pc[b] # "new"
  <2>1. /\ explicit' = explicit /\ config'[b] = config[b] /\ kind'[b] = kind[b]
    BY <1>2, ConfigStays
  <2>2. Points(b)' <=> Points(b)
    BY <2>1 DEF Points
  <2>3. Keeps
    <3>0. ASSUME pc'[b] = pc[b] PROVE Keeps
      BY <3>0 DEF BuiltInv
    <3>1. ASSUME NEW d \in Builders,
                 NewV1(d) \/ NewV2(d) \/ NewSubscription(d) \/ NewExecutor(d)
          PROVE  Keeps
      <4>1. pc'[b] = pc[b]
        BY <1>2, <3>1 DEF NewV1, NewV2, NewSubscription, NewExecutor, New, Step,
           TypeOK
      <4>2. QED
        BY <3>0, <4>1
    <3>2. ASSUME NEW d \in Builders, d # b,
                 Check(d) \/ Point(d) \/ Tune(d) \/ Fetch(d) \/ Send(d)
          PROVE  Keeps
      <4>1. pc'[b] = pc[b]
        BY <3>2 DEF Check, Point, Tune, Fetch, Send, Step, TypeOK
      <4>2. QED
        BY <3>0, <4>1
    <3>3. CASE Check(b)
      BY <3>3 DEF Check, Step, TypeOK
    <3>4. CASE Point(b)
      BY <3>4 DEF Point, Wrote, Step, TypeOK, BuiltInv
    <3>5. CASE Tune(b)
      BY <3>5 DEF Tune, Step, TypeOK, BuiltInv
    <3>6. CASE Fetch(b) \/ Send(b)
      BY <3>6 DEF Fetch, Send, Step, TypeOK, BuiltInv
    <3>7. CASE UNCHANGED vars
      BY <3>0, <3>7 DEF vars
    <3>8. QED
      BY <3>1, <3>2, <3>3, <3>4, <3>5, <3>6, <3>7 DEF Next, Terminated
  <2>4. QED
    BY <2>1, <2>2, <2>3
<1>3. QED
  BY <1>1, <1>2

\* What a builder has passed is always so.
LEMMA BuiltAlways == Spec => []BuiltInv
<1>1. Init => BuiltInv
  BY DEF Init, BuiltInv, Accepted, Built
<1>2. QED
  BY <1>1, BuiltNext, TypeCorrect, PTL DEF Spec

\* A client that was built works, but for the one WebSocket endpoint that only
\* Subscribe rejects.
THEOREM BuiltWorks == Spec => []BuiltClientsWork
<1>1. TypeOK /\ BuiltInv => BuiltClientsWork
  <2> SUFFICES ASSUME TypeOK, BuiltInv, NEW b \in Builders, pc[b] \in Built,
                      NEW cfg, cfg = config[b]
               PROVE  /\ cfg.reconnects \in Nat /\ cfg.queue \in Nat
                      /\ cfg.receipts \in Nat
                      /\ {cfg.overflow, cfg.receiptOverflow}
                            \subseteq {"drop_oldest", "fail"}
                      /\ cfg.retry.on => /\ cfg.retry.attempts \in Nat \ {0}
                                         /\ cfg.retry.base \in 0 .. cfg.retry.max
                                         /\ cfg.retry.jitter \in 0 .. 100
                      /\ ~Resolves(b) <=> /\ kind[b] = "subscription"
                                          /\ cfg.webSocketURL = NoURL
                                          /\ cfg.baseURL.form = "HTTPS"
    BY DEF BuiltClientsWork, Built
  <2>1. cfg \in Config
    BY DEF TypeOK
  <2>2. EndpointsAccepted(cfg) /\ TuningAccepted(cfg)
    BY DEF BuiltInv, Accepted, Built
  <2>3. /\ cfg.reconnects \in Nat /\ cfg.queue \in Nat /\ cfg.receipts \in Nat
        /\ {cfg.overflow, cfg.receiptOverflow} \subseteq {"drop_oldest", "fail"}
    BY <2>1, <2>2 DEF Config, TuningAccepted
  <2>4. cfg.retry.on => /\ cfg.retry.attempts \in Nat \ {0}
                        /\ cfg.retry.base \in 0 .. cfg.retry.max
                        /\ cfg.retry.jitter \in 0 .. 100
    BY <2>1, <2>2 DEF Config, TuningAccepted, RetryAccepted
  <2>5. /\ HTTPResolves(cfg)
        /\ cfg.webSocketURL # NoURL => WebSocketResolves(cfg)
    BY <2>2 DEF EndpointsAccepted
  <2>6. ~Resolves(b) <=> /\ kind[b] = "subscription"
                         /\ cfg.webSocketURL = NoURL
                         /\ cfg.baseURL.form = "HTTPS"
    BY <2>5 DEF Resolves, HTTPResolves, WebSocketResolves, Derivable, ValidHTTP,
       NoURL
  <2>7. QED
    BY <2>3, <2>4, <2>6
<1>2. QED
  BY <1>1, BuiltAlways, TypeCorrect, PTL

-----------------------------------------------------------------------------
(* Where token requests go *)

Endpoints == {config[b].tokenEndpoint : b \in pointed}

\* The i-th word of tokenURL is valid, and a builder's once one has written it.
WordInv(i) ==
    explicit = NoURL =>
       /\ ValidHTTP(tokenURL[i])
       /\ \A b \in Builders : WroteWord(b, i) => tokenURL[i] \in Endpoints

\* Only builders that may write have written, and a provider with an endpoint
\* keeps it.
KeptInv ==
    /\ explicit # NoURL => tokenURL = <<explicit, explicit>>
    /\ \A b \in pointed : pc[b] \notin {"new", "check", "point"} /\ Points(b)

\* A step writes the token endpoint of one builder to one word, or none.
LEMMA PointNext ==
  ASSUME TypeOK, BuiltInv, KeptInv, [Next]_vars
  PROVE  KeptInv'
<1> USE DEF KeptInv
<1>1. explicit' = explicit /\ \A b \in Builders : pc[b] # "new" => pc'[b] # "new"
  BY ConfigStays
<1>0. \A b \in Builders : pc[b] # "new" => (Points(b)' <=> Points(b))
  BY ConfigStays DEF Points
<1>2. ASSUME NEW d \in Builders,
             NewV1(d) \/ NewV2(d) \/ NewSubscription(d) \/ NewExecutor(d)
      PROVE  KeptInv'
  BY <1>0, <1>2 DEF NewV1, NewV2, NewSubscription, NewExecutor, New, Step, TypeOK
<1>3. ASSUME NEW d \in Builders, Check(d) \/ Tune(d) \/ Fetch(d) \/ Send(d)
      PROVE  KeptInv'
  BY <1>0, <1>3 DEF Check, Tune, Fetch, Send, Step, TypeOK
<1>4. ASSUME NEW d \in Builders, Point(d) PROVE KeptInv'
  <2>1. explicit = NoURL
    BY <1>4 DEF Point, Step, Wrote, BuiltInv, Points
  <2>2. pointed' = pointed \cup {d} /\ pc'[d] \in {"wrote1", "wrote2", "tune"}
    BY <1>4 DEF Point, Step, Wrote, TypeOK
  <2>3. \A b \in Builders \ {d} : pc'[b] = pc[b]
    BY <1>4 DEF Point, Step, TypeOK
  <2>4. pointed \subseteq Builders
    BY DEF TypeOK
  <2>5. pc[d] # "new" /\ Points(d)
    BY <1>4 DEF Point, Step, Wrote, BuiltInv
  <2>6. QED
    BY <1>0, <1>1, <2>1, <2>2, <2>3, <2>4, <2>5
<1>5. CASE UNCHANGED vars
  BY <1>5 DEF vars, Points
<1>6. QED
  BY <1>2, <1>3, <1>4, <1>5 DEF Next, Terminated

\* The endpoints of the builders that wrote stay and grow.
LEMMA EndpointsGrow ==
  ASSUME TypeOK, KeptInv, [Next]_vars
  PROVE  pointed \subseteq pointed' /\ Endpoints \subseteq Endpoints'
<1>1. pointed \subseteq pointed'
  BY DEF Next, NewV1, NewV2, NewSubscription, NewExecutor, New, Check, Point,
     Tune, Fetch, Send, Terminated, vars
<1>2. \A b \in pointed : config'[b] = config[b]
  BY ConfigStays DEF KeptInv, TypeOK
<1>3. QED
  BY <1>1, <1>2 DEF Endpoints

\* Every step keeps each word of tokenURL valid and, once written, configured.
LEMMA WordNext ==
  ASSUME TypeOK, BuiltInv, KeptInv, NEW i \in 1 .. 2, WordInv(i), [Next]_vars
  PROVE  WordInv(i)'
<1> SUFFICES ASSUME explicit' = NoURL
             PROVE  /\ ValidHTTP(tokenURL'[i])
                    /\ \A b \in Builders : WroteWord(b, i)' => tokenURL'[i] \in Endpoints'
  BY DEF WordInv
<1>1. explicit = NoURL
  BY ConfigStays
<1>2. /\ ValidHTTP(tokenURL[i])
      /\ \A b \in Builders : WroteWord(b, i) => tokenURL[i] \in Endpoints
  BY <1>1 DEF WordInv
<1>3. ASSUME tokenURL'[i] = tokenURL[i],
             \A b \in Builders : WroteWord(b, i)' => WroteWord(b, i)
      PROVE  /\ ValidHTTP(tokenURL'[i])
             /\ \A b \in Builders : WroteWord(b, i)' => tokenURL'[i] \in Endpoints'
  BY <1>2, <1>3, EndpointsGrow
<1>4. ASSUME NEW d \in Builders,
             NewV1(d) \/ NewV2(d) \/ NewSubscription(d) \/ NewExecutor(d)
      PROVE  /\ tokenURL'[i] = tokenURL[i]
             /\ \A b \in Builders : WroteWord(b, i)' => WroteWord(b, i)
  <2>1. UNCHANGED <<explicit, tokenURL>>
    BY <1>4 DEF NewV1, NewV2, NewSubscription, NewExecutor, New
  <2>2. pc'[d] = "check" /\ \A b \in Builders \ {d} :
           pc'[b] = pc[b] /\ config'[b] = config[b]
    BY <1>4 DEF NewV1, NewV2, NewSubscription, NewExecutor, New, Step, TypeOK
  <2>3. Wrote[i] # "check"
    BY DEF Wrote
  <2>4. QED
    BY <2>1, <2>2, <2>3 DEF WroteWord, Points
<1>5. ASSUME NEW d \in Builders, Check(d) \/ Tune(d) \/ Fetch(d) \/ Send(d)
      PROVE  /\ tokenURL'[i] = tokenURL[i]
             /\ \A b \in Builders : WroteWord(b, i)' => WroteWord(b, i)
  <2>1. UNCHANGED <<explicit, config, tokenURL>>
    BY <1>5 DEF Check, Tune, Fetch, Send
  <2>2. \A b \in Builders : Points(b)' <=> Points(b)
    BY <2>1 DEF Points
  <2>3. \A b \in Builders \ {d} : pc'[b] = pc[b]
    BY <1>5 DEF Check, Tune, Fetch, Send, Step, TypeOK
  <2>4. WroteWord(d, i)' => WroteWord(d, i)
    <3>1. Wrote[i] \in {"wrote1", "wrote2"}
      BY DEF Wrote
    <3>2. CASE Check(d)
      BY <2>2, <3>1, <3>2 DEF Check, Step, TypeOK, WroteWord
    <3>3. CASE Tune(d) \/ Fetch(d) \/ Send(d)
      BY <2>2, <3>1, <3>3 DEF Tune, Fetch, Send, Step, TypeOK, WroteWord
    <3>4. QED
      BY <1>5, <3>2, <3>3
  <2>5. QED
    BY <2>1, <2>2, <2>3, <2>4 DEF WroteWord
<1>6. ASSUME NEW d \in Builders, Point(d)
      PROVE  /\ ValidHTTP(tokenURL'[i])
             /\ \A b \in Builders : WroteWord(b, i)' => tokenURL'[i] \in Endpoints'
  <2>1. PICK j \in {1, 2} :
           /\ tokenURL' = [tokenURL EXCEPT ![j] = Endpoint(d)]
           /\ Step(d, "point", Wrote[j]) \/ Step(d, Wrote[3 - j], "tune")
    BY <1>6 DEF Point
  <2>2. /\ UNCHANGED <<explicit, config>> /\ d \in pointed'
    BY <1>6 DEF Point
  <2>3. DOMAIN tokenURL = 1 .. 2
    BY DEF TypeOK
  <2>4. CASE j = i
    <3>1. tokenURL'[i] = config[d].tokenEndpoint
      BY <2>1, <2>3, <2>4 DEF Endpoint
    <3>2. ValidHTTP(config[d].tokenEndpoint)
      BY <2>1 DEF BuiltInv, Accepted, Step, Wrote, EndpointsAccepted
    <3>3. config[d].tokenEndpoint \in Endpoints'
      BY <2>2 DEF Endpoints
    <3>4. QED
      BY <3>1, <3>2, <3>3
  <2>5. CASE j # i
    <3>1. tokenURL'[i] = tokenURL[i] /\ 3 - j = i
      BY <2>1, <2>3, <2>5
    <3>2. \A b \in Builders : Points(b)' <=> Points(b)
      BY <2>2 DEF Points
    <3>3. \A b \in Builders \ {d} : pc'[b] = pc[b]
      BY <2>1 DEF Step, TypeOK
    <3>4. WroteWord(d, i)' => WroteWord(d, i)
      <4>1. Wrote[j] # Wrote[i] /\ Wrote[j] \in {"wrote1", "wrote2"}
            /\ Wrote[i] # "tune"
        BY <2>5 DEF Wrote
      <4>2. CASE Step(d, "point", Wrote[j])
        BY <4>1, <4>2 DEF Step, TypeOK, WroteWord
      <4>3. CASE Step(d, Wrote[3 - j], "tune")
        BY <3>1, <4>3 DEF Step, WroteWord
      <4>4. QED
        BY <2>1, <4>2, <4>3
    <3>5. QED
      BY <1>3, <3>1, <3>2, <3>3, <3>4 DEF WroteWord
  <2>6. QED
    BY <2>4, <2>5
<1>7. CASE UNCHANGED vars
  BY <1>3, <1>7 DEF vars, WroteWord, Points
<1>8. QED
  BY <1>3, <1>4, <1>5, <1>6, <1>7 DEF Next, Terminated

\* The words of tokenURL, in every reachable state.
LEMMA PointAlways == Spec => [](KeptInv /\ WordInv(1) /\ WordInv(2))
<1>1. Init => KeptInv /\ WordInv(1) /\ WordInv(2)
  BY DEF Init, KeptInv, WordInv, WroteWord, Wrote, ValidHTTP, OAuthTokenEndpoint,
     Points
<1>2. /\ TypeOK /\ BuiltInv /\ KeptInv /\ WordInv(1) /\ WordInv(2)
      /\ [Next]_vars
      => KeptInv' /\ WordInv(1)' /\ WordInv(2)'
  <2>1. 1 \in 1 .. 2 /\ 2 \in 1 .. 2
    OBVIOUS
  <2>2. QED
    BY <2>1, PointNext, WordNext
<1>3. QED
  BY <1>1, <1>2, TypeCorrect, BuiltAlways, PTL DEF Spec

-----------------------------------------------------------------------------
\* What a fetch under way has validated.
LEMMA FetchNext ==
  ASSUME TypeOK, KeptInv, FetchInv, [Next]_vars
  PROVE  FetchInv'
<1> SUFFICES ASSUME NEW b \in Builders, pc'[b] = "fetching"
             PROVE  /\ config'[b].provider = "shared"
                    /\ explicit' # NoURL => ValidHTTP(explicit')
  BY DEF FetchInv
<1>1. pc[b] # "new"
  BY DEF Next, NewV1, NewV2, NewSubscription, NewExecutor, New, Check, Point,
     Wrote, Tune, Fetch, Send, Terminated, vars, Step, TypeOK
<1>2. explicit' = explicit /\ config'[b] = config[b]
  BY <1>1, ConfigStays
<1>3. pc[b] = "fetching" \/ Fetch(b)
  BY <1>1 DEF Next, NewV1, NewV2, NewSubscription, NewExecutor, New, Check, Point,
     Wrote, Tune, Fetch, Send, Terminated, vars, Step, TypeOK
<1>4. CASE pc[b] = "fetching"
  BY <1>2, <1>4 DEF FetchInv
<1>5. CASE Fetch(b) /\ pc[b] # "fetching"
  <2>1. config[b].provider = "shared" /\ (Whole(tokenURL) => ValidHTTP(tokenURL[1]))
    BY <1>5 DEF Fetch, Step
  <2>2. explicit # NoURL => ValidHTTP(explicit)
    BY <2>1 DEF KeptInv, Whole
  <2>3. QED
    BY <1>2, <2>1, <2>2
<1>6. QED
  BY <1>3, <1>4, <1>5

\* Every request sent so far was valid and configured.
SentInv ==
    /\ \A words \in sent : ValidHTTP(words[1])
    /\ SentIsConfigured

\* A request goes to the words of tokenURL, which a built client has written.
LEMMA SentNext ==
  ASSUME TypeOK, BuiltInv, KeptInv, WordInv(1), WordInv(2), FetchInv, SentInv,
         [Next]_vars
  PROVE  SentInv'
<1>1. explicit' = explicit /\ Endpoints \subseteq Endpoints'
  BY ConfigStays, EndpointsGrow
<1>2. ASSUME NEW words,
             ValidHTTP(words[1]),
             \A i \in 1 .. 2 : IF explicit # NoURL THEN words[i] = explicit
                               ELSE words[i] \in Endpoints,
             sent' \subseteq sent \cup {words}
      PROVE  SentInv'
  BY <1>1, <1>2 DEF SentInv, SentIsConfigured, Endpoints
<1>3. CASE sent' = sent
  BY <1>1, <1>3 DEF SentInv, SentIsConfigured, Endpoints
<1>4. ASSUME NEW b \in Builders, Send(b) PROVE SentInv'
  <2>1. pc[b] = "fetching" /\ sent' = sent \cup {tokenURL}
    BY <1>4 DEF Send, Step
  <2>2. CASE explicit # NoURL
    <3>1. tokenURL = <<explicit, explicit>> /\ ValidHTTP(explicit)
      BY <2>1, <2>2 DEF KeptInv, FetchInv
    <3>2. ValidHTTP(tokenURL[1]) /\ \A i \in 1 .. 2 : tokenURL[i] = explicit
      BY <3>1
    <3>3. QED
      BY <1>2, <2>1, <2>2, <3>2
  <2>3. CASE explicit = NoURL
    <3>1. config[b].provider = "shared"
      BY <2>1 DEF FetchInv
    <3>2. WroteWord(b, 1) /\ WroteWord(b, 2)
      BY <2>1, <2>3, <3>1 DEF WroteWord, Points
    <3>3. /\ ValidHTTP(tokenURL[1])
          /\ tokenURL[1] \in Endpoints /\ tokenURL[2] \in Endpoints
      BY <2>3, <3>2 DEF WordInv
    <3>4. \A i \in 1 .. 2 : tokenURL[i] \in Endpoints
      BY <3>3
    <3>5. QED
      BY <1>2, <2>1, <2>3, <3>3, <3>4
  <2>4. QED
    BY <2>2, <2>3
<1>5. QED
  BY <1>3, <1>4 DEF Next, NewV1, NewV2, NewSubscription, NewExecutor, New,
     Check, Point, Tune, Fetch, Terminated, vars

\* Where every request so far went, in every reachable state.
LEMMA SentAlways == Spec => []SentInv
<1>1. Init => FetchInv /\ SentInv
  BY DEF Init, FetchInv, SentInv, SentIsConfigured
<1>2. QED
  BY <1>1, FetchNext, SentNext, PointAlways, BuiltAlways, TypeCorrect, PTL DEF Spec

\* Token requests only go to valid URLs, although the endpoint may be rewritten
\* between its validation and its use.
THEOREM OnlyValidSent == Spec => []SentIsValid
<1>1. SentInv => SentIsValid
  BY DEF SentInv, SentIsValid
<1>2. QED
  BY <1>1, SentAlways, PTL

\* Token requests go to the provider's own endpoint, or to one of a client that
\* was built with it.
THEOREM OnlyConfiguredSent == Spec => []SentIsConfigured
<1>1. SentInv => SentIsConfigured
  BY DEF SentInv
<1>2. QED
  BY <1>1, SentAlways, PTL

\* The clients that write to the provider agree on its endpoint.
AgreeOn(u) ==
    \A b \in Builders :
       pc[b] # "new" /\ Points(b) => config[b].tokenEndpoint = u

\* Requests of clients that agree on the endpoint go there, whole.
SentTo(u) == \A words \in sent : words[1] = u /\ words[2] = u

\* Clients that share a provider without an endpoint of its own, and agree on
\* where it is, send every token request there and nowhere else: what the write
\* in NewConfig (config.go:92) does without the mutex never shows, however often
\* it is repeated while others fetch.
THEOREM AgreeingClientsMeet ==
  ASSUME NEW u \in URL
  PROVE  Spec /\ [](explicit = NoURL /\ AgreeOn(u)) => []SentTo(u)
<1>1. TypeOK /\ KeptInv /\ SentInv /\ explicit = NoURL /\ AgreeOn(u) => SentTo(u)
  <2> SUFFICES ASSUME TypeOK, KeptInv, SentInv, explicit = NoURL, AgreeOn(u),
                      NEW words \in sent, NEW i \in 1 .. 2
               PROVE  words[i] = u
    BY DEF SentTo
  <2>1. PICK b \in pointed : words[i] = config[b].tokenEndpoint
    BY DEF SentInv, SentIsConfigured
  <2>2. b \in Builders /\ pc[b] # "new" /\ Points(b)
    BY DEF KeptInv, TypeOK
  <2>3. QED
    BY <2>1, <2>2 DEF AgreeOn
<1>2. QED
  BY <1>1, SentAlways, PointAlways, TypeCorrect, PTL
=============================================================================
