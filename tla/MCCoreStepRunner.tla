-------------------------- MODULE MCCoreStepRunner --------------------------
(***************************************************************************)
(* Instances of CoreStepRunner, of the link below it (Channel) and of the  *)
(* completion checks above it (CompletionCheck); the scenario says which   *)
(* of them moves.                                                          *)
(*                                                                         *)
(* Two runs compete for one slot: the second is refused, backs off and     *)
(* asks again.  The first has a deadline, may be aborted, and may find any *)
(* of its requests unanswered; the Core may exit.                          *)
(***************************************************************************)
EXTENDS CoreStepRunner, CompletionCheck, Channel, TLC

CONSTANTS j1, j2, p1, p2, c1, c2, short, full, q, w1, w2

\* buildWorkerJob: a valid WORKER_TASK without a cost, one attempt.
StepJob  == [workerTask |-> TRUE, validPayload |-> TRUE, costHint |-> 0, maxAttempts |-> 1]
StepJobs == [j \in Job |-> StepJob]

\* The second check is of the same step, or of another with a worker or a script.
Asked(previous, custom) == [previous |-> previous, custom |-> custom]
MCOrders == {c1 :> Asked(None, FALSE) @@ c2 :> second :
               second \in {Asked(c1, FALSE), Asked(None, FALSE), Asked(None, TRUE)}}

\* A short line, which answers the request of two calls, and one of the full length.
MCSize     == short :> 2 @@ full :> 4
MCAnswerTo == short :> q @@ full :> NoOne
MCWaitsFor == w1 :> q @@ w2 :> q

VARIABLE scenario

mcvars == <<allVars, checkVars, channelVars, scenario>>

MCInit ==
    /\ Init /\ RunnerInit /\ ChecksInit /\ ChannelInit
    /\ scenario \in {"runs", "checks", "channel"}
    /\ scenario # "checks" => ~\E c \in Check : def[c].custom \/ def[c].previous # None

\* Only the second worker prints something that can be an answer, and it names the
\* check when it is JSON.
Checks ==
    /\ ChecksNext
    /\ printed'[c1] = Nothing /\ (printed'[c2].form = "json" => printed'[c2].id # None)
    /\ UNCHANGED <<allVars, channelVars, scenario>>

MCNext ==
    \/ scenario = "runs" /\ RunnerNext /\ UNCHANGED <<checkVars, channelVars, scenario>>
    \/ scenario = "checks" /\ Checks
    \/ scenario = "channel" /\ ChannelNext /\ UNCHANGED <<allVars, checkVars, scenario>>

MCSpec == MCInit /\ [][MCNext]_mcvars /\ RunnerFairness

(* RunsReturn, for the scenario that has runs.                             *)
MCRunsReturn == <>[](scenario = "runs" => Over(MayBeLate))

=============================================================================
