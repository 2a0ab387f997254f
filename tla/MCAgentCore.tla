---------------------------- MODULE MCAgentCore ----------------------------
(***************************************************************************)
(* An instance of AgentCore: two jobs with a worker, one without an        *)
(* executor, one with an invalid payload; two slots, two entries of the    *)
(* rate window, and costs for which the halving of a degraded permit       *)
(* decides whether two permits fit the budget.  Three permits are enough:  *)
(* a job without one finds at most two of the others holding theirs.       *)
(***************************************************************************)
EXTENDS AgentCore, TLC

CONSTANTS j1, j2, j3, j4, p1, p2, p3

FourJobs     == {j1, j2, j3, j4}
ThreePermits == {p1, p2, p3}

WithWorker(c) == [workerTask |-> TRUE, validPayload |-> TRUE, costHint |-> c, maxAttempts |-> 1]

MixedJobs ==
    j1 :> WithWorker(2) @@
    j2 :> WithWorker(3) @@
    j3 :> [workerTask |-> FALSE, validPayload |-> FALSE, costHint |-> 1, maxAttempts |-> 2] @@
    j4 :> [WithWorker(1) EXCEPT !.validPayload = FALSE]

PermitSymmetry == Permutations(Permit)
=============================================================================
