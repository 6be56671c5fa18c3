------------------------------ MODULE MCCleanup ------------------------------
(* Instances of Cleanup for TLC. *)
EXTENDS Cleanup, TLC

CONSTANT job

MCPlans == [f \in Fps |-> {<<f>>}]

MCMaxRetry == [f \in Fps |-> 1]

\* Requests are alike, and so are processes.
MCSymmetry == Permutations(Requests) \cup Permutations(Procs)
=============================================================================
