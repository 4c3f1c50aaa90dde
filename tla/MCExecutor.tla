----------------------------- MODULE MCExecutor -----------------------------
(***************************************************************************)
(* Two calls of Execute that share a provider, with documents that put      *)
(* everything isRetryableRead skips before the definition that decides.     *)
(***************************************************************************)
EXTENDS Executor

\* Documents with definitions of one kind, and queries it does not take for
\* reads: a fragment first, a comma after a comment, a comment as delimiter.
PlainDocuments ==
    {<<"comma", "comment", "blank", "body">>,
     <<"blank", "query", "blank", "body">>,
     <<"comment", "comma", "query", "body">>,
     <<"query", "comment", "body">>,
     <<"word", "body", "query", "body">>,
     <<"comment", "mutation", "body">>,
     <<"comment", "subscription", "body">>,
     <<"word", "body", "blank", "mutation", "body">>}

\* A document whose definitions operationName selects from.
MixedDocuments == {<<"query", "body", "blank", "mutation", "body">>}
=============================================================================
