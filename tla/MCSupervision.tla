--------------------------- MODULE MCSupervision ---------------------------
(***************************************************************************)
(* Instances of Sentinel, Management and Workers for one run.  Init sets   *)
(* the scenario: one of the three components runs, the others rest.        *)
(***************************************************************************)
EXTENDS Sentinel, Management, Workers, TLC

CONSTANTS site, t1, t2, t3

VARIABLE scenario

mcvars == <<sentinelVars, hookVars, workerVars, scenario>>

\* Two guarded runs: both watchers, at once or in a row with errors and stalls
\* that count differently; only the output watcher, with any event as activity.
Probed == [timeout |-> 2, anyEvent |-> FALSE, probe |-> TRUE, stalls |-> 2, errors |-> 2,
           onError |-> "stall", onStall |-> "interrupt", onTerminal |-> "interrupt"]
Watched == [Probed EXCEPT !.probe = FALSE, !.anyEvent = TRUE]
MCPolicies == {
    <<Probed, Watched>>,
    <<[Probed EXCEPT !.timeout = 0, !.onStall = "ignore", !.onError = "terminal"], Watched>>,
    <<[Probed EXCEPT !.timeout = 0, !.onTerminal = "ignore"], [Watched EXCEPT !.onStall = "ignore"]>>,
    <<Watched, Watched>>}

\* Three hooks, two at a time; the second of them is invoked by a stall.
MCKind == <<"pre_step", "on_stall", "pre_step">>

\* Three tasks in a row for one workspace; two of them, of which one may be stopped;
\* a task of each kind with output, a descendant and both an abort and a deadline.
Planned(mode, adapter, workspace, chunks, stops) ==
    [mode |-> mode, adapter |-> adapter, workspace |-> workspace, chunks |-> chunks,
     leaves |-> chunks > 0, stops |-> stops]
NoPlan == [t \in {} |-> None]
MCPlans ==
    {NoPlan} \cup {[t \in Task |-> Planned("batch", "base", site, 0, 0)]}
    \cup {t1 :> Planned("stream", "base", site, 0, 0) @@ t2 :> Planned("batch", "claude", site, 0, 1),
          t1 :> Planned("stream", "opencode", site, 0, 1) @@ t2 :> Planned("batch", "base", site, 0, 0)}
    \cup {t1 :> Planned(mode, adapter, None, 2, 2) :
            mode \in {"batch", "stream", "direct"}, adapter \in {"base", "claude"}}
    \cup {t1 :> Planned(mode, "opencode", None, 1, 2) : mode \in {"batch", "stream", "direct"}}

MCInit ==
    /\ scenario \in {"sentinel", "management", "workers"}
    /\ SentinelInit /\ HooksInit /\ WorkersInit
    /\ scenario # "sentinel" => policy = <<Probed, Watched>>
    /\ scenario # "management" => engine = "worker"
    /\ scenario # "workers" => plan = NoPlan

Guarding(action) == scenario = "sentinel" /\ action /\ UNCHANGED <<hookVars, workerVars, scenario>>
Hooking(action) == scenario = "management" /\ action /\ UNCHANGED <<sentinelVars, workerVars, scenario>>
Working(action) == scenario = "workers" /\ action /\ UNCHANGED <<sentinelVars, hookVars, scenario>>

MCNext == Guarding(SentinelNext) \/ Hooking(HooksNext) \/ Working(WorkersNext)

\* A component at rest enables no action that fairness is assumed of.
MCSpec ==
    /\ MCInit /\ [][MCNext]_mcvars
    /\ SentinelFairness /\ HooksFairness /\ WorkersFairness

(* What has to end ends: a run that hangs, a hook, a delegation that was   *)
(* told to stop.                                                           *)
MCEnds == <>[](HungEnded /\ HooksReturned /\ StoppedEnded)
=============================================================================
