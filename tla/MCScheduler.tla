----------------------------- MODULE MCScheduler -----------------------------
(* Instances of Scheduler for TLC: a job with a run and its retry, and another. *)
EXTENDS Scheduler, TLC

CONSTANTS a1, a2, b1, A, B

TwoJobs == (a1 :> A) @@ (a2 :> A) @@ (b1 :> B)
==============================================================================
