--------------------------- MODULE MCTokenProvider ---------------------------
(***************************************************************************)
(* Two callers; one lifetime whose margin is a tenth of it, and one whose   *)
(* margin is ExpiryMargin.  Answers may take as long as the smaller margin. *)
(***************************************************************************)
EXTENDS TokenProvider

ASSUME MarginsDiffer ==
    \E k, l \in Lifetimes : k \div 10 < ExpiryMargin /\ l \div 10 >= ExpiryMargin
=============================================================================
