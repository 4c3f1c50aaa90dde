------------------------------ MODULE MCClients ------------------------------
(***************************************************************************)
(* Two goroutines that build clients with one provider: with two token      *)
(* endpoints, with base URLs of every form, and with settings that          *)
(* NewConfig refuses before and after it writes to the provider.            *)
(***************************************************************************)
EXTENDS Clients

At(form, name) == [form |-> form, name |-> name]
Proxy == WithTokenEndpoint(At("https", "proxy"))
Mirror(form) == WithBaseURL(At(form, "mirror"))
Shared == WithTokenProvider("shared")

SampleOptions ==
    {<<>>,
     <<Shared, Proxy>>,
     <<Shared, Proxy, WithRetryPolicy([NoRetry EXCEPT !.attempts = 0])>>,
     <<Proxy, WithSubscriptionQueue(0, "fail"), WithSubscriptionQueue(-1, "")>>,
     <<WithTokenEndpoint(At("other", "proxy"))>>,
     <<Mirror("HTTPS"), WithSubProtocol("graphql-ws")>>,
     <<Mirror("HTTPS"), WithWebSocketURL(At("ws", "mirror")),
       WithRetryPolicy(NilPolicy)>>,
     <<WithRegion("mars"), Mirror("https"),
       WithSubscriptionReceiptBuffer(0, "block")>>,
     <<WithRegion("mars"), WithTimeout(0), WithHTTPClient>>,
     <<WithWebSocketURL(At("https", "mirror")), WithSubscriptionReconnect(0)>>}

SampleExplicits == {NoURL, At("https", "mirror"), At("other", "mirror")}
=============================================================================
