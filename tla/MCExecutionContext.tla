-------------------------- MODULE MCExecutionContext --------------------------
(* Two threads, one of which nests calls in a batch, a callback or a           *)
(* destructor.                                                                 *)
EXTENDS ExecutionContext, TLC

CONSTANTS t1, t2

TwoThreads == {t1, t2}
OneNests   == (t1 :> 2) @@ (t2 :> 1)
==============================================================================
