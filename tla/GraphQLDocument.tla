--------------------------- MODULE GraphQLDocument ---------------------------
(***************************************************************************)
(* How isRetryableRead (executor.go) tells from the text of a GraphQL       *)
(* document whether the SDK may repeat it, and what a server may execute of *)
(* the same document.                                                       *)
(*                                                                          *)
(* A document is a sequence of lexemes.  "comma" stands for a comma or a    *)
(* byte order mark, "comment" for a comment with the newline that ends it,  *)
(* "body" for everything from a brace, parenthesis or directive on to the   *)
(* end of the definition, and "word" for any other text.                    *)
(***************************************************************************)
EXTENDS Naturals, Sequences

Keywords == {"query", "mutation", "subscription"}
Ignored == {"blank", "comma", "comment"}
Lexemes == Keywords \cup Ignored \cup {"body", "word"}

MutantStartsRead(text, i) == text[i] \in {"body", "mutation", "query"}

\* An anonymous query, or the keyword query followed by a delimiter.
StartsRead(text, i) ==
    \/ text[i] = "body"
    \/ text[i] = "query" /\ (i = Len(text) \/ text[i + 1] \in {"blank", "body"})

\* The text before position i is what isRetryableRead skips: commas only
\* before the first comment, for TrimSpace does not know them.
Skipped(text, i) ==
    \E k \in 0 .. (i - 1) :
       /\ \A j \in 1 .. k : text[j] \in {"blank", "comma"}
       /\ \A j \in (k + 1) .. (i - 1) : text[j] \in {"blank", "comment"}

IsRetryableRead(text) ==
    \E i \in DOMAIN text : StartsRead(text, i) /\ Skipped(text, i)

-----------------------------------------------------------------------------
\* What GraphQL makes of the document: the kinds of operation it defines, one
\* of which the server executes (operationName selects among several).
Anonymous(text) ==
    \E i \in DOMAIN text :
       text[i] = "body" /\ \A j \in 1 .. (i - 1) : text[j] \in Ignored

Definitions(text) ==
    {text[i] : i \in {j \in DOMAIN text : text[j] \in Keywords}}
       \cup (IF Anonymous(text) THEN {"query"} ELSE {})

\* Documents that define operations of one kind only.
OneKind(text) == \A k, l \in Definitions(text) : k = l
=============================================================================
