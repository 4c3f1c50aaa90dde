------------------------------ MODULE MCStream ------------------------------
(***************************************************************************)
(* Small instances of Stream: one server, one consumer, one drainer and the *)
(* goroutines in Close given by the configuration.                          *)
(***************************************************************************)
EXTENDS Stream, TLC

CloserSymmetry == Permutations(Closers)
=============================================================================
