------------------------------- MODULE Daemon -------------------------------
(***************************************************************************)
(* The daemon (daemon/daemon.ts): its event loop, the trigger engine, the  *)
(* workflow of a trigger with its evaluate gate and its analyzer, the      *)
(* state files, and the shutdown that a signal starts.                     *)
(*                                                                         *)
(* The event loop awaits handleEvent, which awaits the triggers of the     *)
(* event one after the other, and each of them its workflow: "at" is the   *)
(* await where that chain stands.  stop() runs beside it.  A crash loses   *)
(* all but the files.                                                      *)
(***************************************************************************)
EXTENDS EventSources

CONSTANTS
    Trigger,
    On,             \* trigger.on, the source of a trigger
    Debounce,       \* trigger.debounce, 0 for none
    Cooldown,       \* trigger.cooldown, 0 for none
    Pauses,         \* the triggers with on_workflow_failure "pause_trigger"
    MaxRetries,     \* trigger.max_retries
    Gated,          \* the triggers with an evaluate gate
    Analyzed,       \* the triggers with an analyzer
    MaxConcurrent,  \* max_concurrent_workflows
    MaxQueue,       \* max_queue
    Never,          \* null in lastFiredAt and cooldownUntil
    MaxCrashes      \* bound: how often the process ends without stop()

ASSUME DaemonAssumption ==
    /\ IsFiniteSet(Trigger) /\ On \in [Trigger -> Source]
    /\ Debounce \in [Trigger -> Nat] /\ Cooldown \in [Trigger -> Nat]
    /\ Pauses \subseteq Trigger /\ MaxRetries \in [Trigger -> Nat]
    /\ Gated \subseteq Trigger /\ Analyzed \subseteq Trigger
    /\ MaxConcurrent \in Nat \ {0} /\ MaxQueue \in Nat \ {0} /\ MaxCrashes \in Nat
    /\ Never \notin Nat

VARIABLES
    at,          \* the await of the event loop, see Place
    event,       \* the event that handleEvent works on
    todo,        \* the triggers of that event, the one in work first
    held,        \* triggerState, read before the workflow
    outcome,     \* the status of the workflow's result, and when it ended
    runningWorkflows,
    workflowQueue,
    stopping,    \* where stop() is
    daemonFile,  \* the status in daemon.json
    stateFile,   \* triggers/<id>/state.json
    resultFile,  \* triggers/<id>/last-result.json, the status in it
    history,     \* triggers/<id>/history, the times in the names of the files
    crashes,
    executed     \* history: per trigger, the executions whose state was saved

chain == <<at, event, todo, held, outcome>>
files == <<stateFile, resultFile, history, executed>>
workflows == <<runningWorkflows, workflowQueue>>
daemonVars == <<chain, workflows, stopping, daemonFile, files, crashes>>
wholeVars == <<clock, sourceVars, daemonVars>>

Place == {"off", "next", "state", "gate", "prepare", "workflow", "analyze",
          "saveState", "saveResult", "record", "saveStopped", "returned"}
Status == {"SUCCEEDED", "FAILED", "CANCELLED"}

TriggerState == [enabled: BOOLEAN, lastFiredAt: Nat \cup {Never},
                 cooldownUntil: Nat \cup {Never}, executionCount: Nat,
                 consecutiveFailures: Nat]

DefaultState == [enabled |-> TRUE, lastFiredAt |-> Never, cooldownUntil |-> Never,
                 executionCount |-> 0, consecutiveFailures |-> 0]

NoEvent == [source |-> "none", time |-> 0, number |-> 0]

\* "fired" is the time of the event.
Execution == [fired: 0..MaxTime, started: 0..MaxTime, ended: 0..MaxTime, status: Status]

DaemonTypeOK ==
    /\ at \in Place
    /\ event \in Event \cup {NoEvent}
    /\ todo \in Seq(Trigger)
    /\ held \in TriggerState
    /\ outcome \in [status: Status, started: 0..MaxTime, ended: 0..MaxTime]
    /\ runningWorkflows \in Nat /\ workflowQueue \in Seq(Trigger)
    /\ stopping \in {"no", "waiting", "core", "saving", "done"}
    /\ daemonFile \in {"none", "running", "stopped"}
    /\ stateFile \in [Trigger -> TriggerState]
    /\ resultFile \in [Trigger -> Status \cup {"none"}]
    /\ history \in [Trigger -> SUBSET (0..MaxTime)]
    /\ crashes \in 0..MaxCrashes
    /\ executed \in [Trigger -> Seq(Execution)]

NoOutcome == [status |-> "CANCELLED", started |-> 0, ended |-> 0]

DaemonInit ==
    /\ SourcesInit
    /\ at = "off" /\ event = NoEvent /\ todo = << >> /\ held = DefaultState
    /\ outcome = NoOutcome
    /\ runningWorkflows = 0 /\ workflowQueue = << >> /\ stopping = "no"
    /\ daemonFile = "none"
    /\ stateFile = [t \in Trigger |-> DefaultState]
    /\ resultFile = [t \in Trigger |-> "none"]
    /\ history = [t \in Trigger |-> {}]
    /\ crashes = 0
    /\ executed = [t \in Trigger |-> << >>]

ShutdownRequested == stopping # "no"

----------------------------------------------------------------------------
(* start() and the event loop.                                             *)

StartDaemon ==
    /\ at = "off"
    /\ at' = "next" /\ daemonFile' = "running"
    /\ generator' = Subscribed
    /\ YieldNothing
    /\ UNCHANGED <<clock, pending, batchTimer, reading, lastOutput, event, todo, held,
                   outcome, workflows, stopping, files, crashes>>

\* The merged iterator gives the next event, or ends when all the sources have.
NextEvent ==
    /\ at = "next"
    /\ IF buffer # << >>
       THEN /\ buffer' = Tail(buffer)
            /\ IF ShutdownRequested
               THEN at' = "saveStopped" /\ UNCHANGED <<event, todo>>
               ELSE LET fired == SetToSeq({t \in Trigger : On[t] = Head(buffer).source})
                    IN IF fired = << >> THEN UNCHANGED <<at, event, todo>>
                       ELSE at' = "state" /\ event' = Head(buffer) /\ todo' = fired
       ELSE /\ \A s \in Source : ~Live(s)
            /\ at' = "saveStopped"
            /\ UNCHANGED <<buffer, event, todo>>
    /\ UNCHANGED <<clock, generator, pending, batchTimer, reading, lastOutput, emitted, dropped,
                   held, outcome, workflows, stopping, daemonFile, files, crashes>>

\* The tail of start(): daemon.json, then the Core.
LoopEnds ==
    /\ at = "saveStopped"
    /\ at' = "returned" /\ daemonFile' = "stopped"
    /\ UNCHANGED <<clock, sourceVars, event, todo, held, outcome, workflows, stopping,
                   files, crashes>>

----------------------------------------------------------------------------
(* processTrigger, before the workflow.                                    *)

t0 == Head(todo)

\* handleEvent goes on with the next trigger of the event, or the loop with the next
\* event.
NextTrigger ==
    /\ todo' = Tail(todo)
    /\ at' = IF Tail(todo) = << >> THEN "next" ELSE "state"

\* Checks 1, 3 and 4; the second, the filter, is a choice of the event.
Due(t, state) ==
    /\ state.enabled
    /\ state.lastFiredAt # Never => event.time >= state.lastFiredAt + Debounce[t]
    /\ state.cooldownUntil # Never => clock >= state.cooldownUntil

\* Where executeWorkflow goes first.
FirstStage(t) == IF t \in Gated THEN "gate" ELSE "prepare"

Ends(status) == outcome' = [outcome EXCEPT !.status = status, !.ended = clock]

\* enqueueWorkflow: a trigger with max_queue entries loses its oldest.
Enqueued(t) ==
    LET mine == {i \in DOMAIN workflowQueue : workflowQueue[i] = t}
    IN Append(IF Cardinality(mine) >= MaxQueue THEN RemoveAt(workflowQueue, Min(mine)) ELSE workflowQueue, t)

\* scheduleWorkflow is called with the state that was read: it refuses during a
\* shutdown, queues at capacity and runs the workflow otherwise.
StateRead ==
    /\ at = "state"
    /\ held' = stateFile[t0]
    /\ \/ NextTrigger /\ UNCHANGED <<outcome, workflows>>  \* filtered
       \/ /\ ~Due(t0, stateFile[t0])
          /\ NextTrigger /\ UNCHANGED <<outcome, workflows>>
       \/ /\ Due(t0, stateFile[t0])
          /\ IF ShutdownRequested
             THEN /\ at' = "saveState"
                  /\ outcome' = [status |-> "CANCELLED", started |-> clock, ended |-> clock]
                  /\ UNCHANGED <<todo, workflows>>
             ELSE IF runningWorkflows >= MaxConcurrent
             THEN /\ workflowQueue' = Enqueued(t0)
                  /\ NextTrigger
                  /\ UNCHANGED <<outcome, runningWorkflows>>
             ELSE /\ runningWorkflows' = runningWorkflows + 1
                  /\ at' = FirstStage(t0)
                  /\ outcome' = [status |-> "FAILED", started |-> clock, ended |-> clock]
                  /\ UNCHANGED <<todo, workflowQueue>>
    /\ UNCHANGED <<clock, sourceVars, event, stopping, daemonFile, files, crashes>>

----------------------------------------------------------------------------
(* executeWorkflow.                                                        *)

Stage == {"gate", "prepare", "workflow", "analyze"}

\* Faulty: stop() is not told.
SilentFinally == runningWorkflows' = runningWorkflows - 1 /\ UNCHANGED stopping

\* The finally clause: stop() is told.  drainQueue finds nothing (see OneWorkflow).
Finally ==
    /\ runningWorkflows' = runningWorkflows - 1
    /\ stopping' = IF stopping = "waiting" /\ runningWorkflows' = 0 THEN "core" ELSE stopping

\* The chain has a result.
Result(status) == at' = "saveState" /\ Ends(status) /\ Finally

GoesOn(stage) == at' = stage /\ UNCHANGED <<outcome, runningWorkflows, stopping>>

\* The gate says run or skip, and skip when it fails, times out or is aborted.
GateAnswers ==
    /\ at = "gate"
    /\ GoesOn("prepare") \/ Result("CANCELLED")
    /\ UNCHANGED <<clock, sourceVars, event, todo, held, workflowQueue, daemonFile, files,
                   crashes>>

\* Context files, the definition, the branch; any of them can throw.
Prepared ==
    /\ at = "prepare"
    /\ GoesOn("workflow") \/ Result("FAILED")
    /\ UNCHANGED <<clock, sourceVars, event, todo, held, workflowQueue, daemonFile, files,
                   crashes>>

\* The executor returns (see WorkflowExecutor); aborted, it has not succeeded.
WorkflowEnds ==
    /\ at = "workflow"
    /\ \E status \in IF ShutdownRequested THEN Status \ {"SUCCEEDED"} ELSE Status :
          IF t0 \in Analyzed
          THEN at' = "analyze" /\ Ends(status) /\ UNCHANGED <<runningWorkflows, stopping>>
          ELSE Result(status)
    /\ UNCHANGED <<clock, sourceVars, event, todo, held, workflowQueue, daemonFile, files,
                   crashes>>

\* The analyzer; one of its outputs may throw, which makes the result a failure.
AnalyzerEnds ==
    /\ at = "analyze"
    /\ Result(outcome.status) \/ Result("FAILED")
    /\ UNCHANGED <<clock, sourceVars, event, todo, held, workflowQueue, daemonFile, files,
                   crashes>>

----------------------------------------------------------------------------
(* processTrigger, after the workflow: three files, one after the other.   *)

Succeeded == outcome.status = "SUCCEEDED"

\* Faulty: the cooldown counts from the start of the workflow.
StateEarly(t) ==
    LET failures == IF Succeeded THEN 0 ELSE held.consecutiveFailures + 1
    IN [enabled             |-> held.enabled
                                /\ ~(t \in Pauses /\ ~Succeeded /\ failures >= MaxRetries[t]),
        lastFiredAt         |-> event.time,
        cooldownUntil       |-> IF Succeeded /\ Cooldown[t] > 0
                                THEN outcome.started + Cooldown[t] ELSE held.cooldownUntil,
        executionCount      |-> held.executionCount + 1,
        consecutiveFailures |-> failures]

\* A skipped and a cancelled workflow count as failures.
UpdatedState(t) ==
    LET failures == IF Succeeded THEN 0 ELSE held.consecutiveFailures + 1
    IN [enabled             |-> held.enabled
                                /\ ~(t \in Pauses /\ ~Succeeded /\ failures >= MaxRetries[t]),
        lastFiredAt         |-> event.time,
        cooldownUntil       |-> IF Succeeded /\ Cooldown[t] > 0
                                THEN outcome.ended + Cooldown[t] ELSE held.cooldownUntil,
        executionCount      |-> held.executionCount + 1,
        consecutiveFailures |-> failures]

SaveTriggerState ==
    /\ at = "saveState"
    /\ stateFile' = [stateFile EXCEPT ![t0] = UpdatedState(t0)]
    /\ executed' = [executed EXCEPT ![t0] =
          Append(@, [fired |-> event.time, started |-> outcome.started,
                     ended |-> outcome.ended, status |-> outcome.status])]
    /\ at' = "saveResult"
    /\ UNCHANGED <<clock, sourceVars, event, todo, held, outcome, workflows, stopping,
                   daemonFile, resultFile, history, crashes>>

SaveLastResult ==
    /\ at = "saveResult"
    /\ resultFile' = [resultFile EXCEPT ![t0] = outcome.status]
    /\ at' = "record"
    /\ UNCHANGED <<clock, sourceVars, event, todo, held, outcome, workflows, stopping,
                   daemonFile, stateFile, history, executed, crashes>>

\* An execution that ends at the time of an earlier one takes the place of its file.
RecordExecution ==
    /\ at = "record"
    /\ history' = [history EXCEPT ![t0] = @ \cup {outcome.ended}]
    /\ NextTrigger
    /\ UNCHANGED <<clock, sourceVars, event, held, outcome, workflows, stopping,
                   daemonFile, stateFile, resultFile, executed, crashes>>

----------------------------------------------------------------------------
(* stop().                                                                 *)

\* A signal: the workflow is told to abort, the queue is emptied, the sources stop.
Stop ==
    /\ at \notin {"off", "returned"} /\ stopping = "no"
    /\ workflowQueue' = << >>
    /\ StopSources
    /\ stopping' = IF runningWorkflows > 0 THEN "waiting" ELSE "core"
    /\ UNCHANGED <<clock, chain, runningWorkflows, daemonFile, files, crashes>>

\* The 30 seconds are over, the workflow is not.
GraceOver ==
    /\ stopping = "waiting"
    /\ stopping' = "core"
    /\ UNCHANGED <<clock, sourceVars, chain, workflows, daemonFile, files, crashes>>

CoreShutDown ==
    /\ stopping = "core"
    /\ stopping' = "saving"
    /\ UNCHANGED <<clock, sourceVars, chain, workflows, daemonFile, files, crashes>>

StopSaves ==
    /\ stopping = "saving"
    /\ stopping' = "done" /\ daemonFile' = "stopped"
    /\ UNCHANGED <<clock, sourceVars, chain, workflows, files, crashes>>

----------------------------------------------------------------------------
(* The environment.                                                        *)

Tick ==
    /\ clock < MaxTime
    /\ clock' = clock + 1
    /\ UNCHANGED <<sourceVars, daemonVars>>

\* The process ends, wherever it is, and may be started again.
Crash ==
    /\ at # "off" /\ crashes < MaxCrashes
    /\ crashes' = crashes + 1
    /\ generator' = [s \in Source |-> "off"]
    /\ pending' = [s \in Source |-> {}]
    /\ batchTimer' = [s \in Source |-> FALSE]
    /\ reading' = [s \in Source |-> 0]
    /\ lastOutput' = [s \in Source |-> NoOutput]
    /\ buffer' = << >>
    /\ at' = "off" /\ event' = NoEvent /\ todo' = << >> /\ held' = DefaultState
    /\ outcome' = NoOutcome
    /\ runningWorkflows' = 0 /\ workflowQueue' = << >> /\ stopping' = "no"
    /\ UNCHANGED <<clock, emitted, dropped, daemonFile, files>>

----------------------------------------------------------------------------
Loop == NextEvent \/ LoopEnds

Chain ==
    \/ StateRead \/ GateAnswers \/ Prepared \/ WorkflowEnds \/ AnalyzerEnds
    \/ SaveTriggerState \/ SaveLastResult \/ RecordExecution

Stopping == CoreShutDown \/ StopSaves

DaemonNext ==
    \/ StartDaemon \/ Loop \/ Chain
    \/ Stop \/ GraceOver \/ Stopping
    \/ Tick \/ Crash
    \/ \E s \in Source : SourceStep(s) /\ UNCHANGED daemonVars

DaemonSpec == DaemonInit /\ [][DaemonNext]_wholeVars

\* The event loop turns; a gate, a workflow and an analyzer end, by themselves or
\* because they are aborted (see AbortEnds of WorkflowExecutor).
FairSpec == DaemonSpec /\ WF_wholeVars(Loop) /\ WF_wholeVars(Chain) /\ WF_wholeVars(Stopping)

----------------------------------------------------------------------------
(* Properties.                                                             *)

\* However many events wait, one workflow runs at a time and none is ever queued:
\* max_concurrent_workflows and max_queue have no effect.
OneWorkflow == runningWorkflows = (IF at \in Stage THEN 1 ELSE 0) /\ workflowQueue = << >>

\* The files of a trigger agree unless a crash came between their writes: the state
\* counts each execution once, the last result is that of the last execution, and each
\* execution is in the history, those that end in one millisecond in one file.
FilesAgree ==
    \A t \in Trigger :
        /\ stateFile[t].executionCount = Len(executed[t])
        /\ crashes = 0 /\ ~(at \in {"saveResult", "record"} /\ t0 = t) =>
              /\ resultFile[t] = IF executed[t] = << >> THEN "none"
                                 ELSE Last(executed[t]).status
              /\ history[t] = {executed[t][i].ended : i \in DOMAIN executed[t]}

\* A trigger is paused exactly when its last max_retries executions, and one at least,
\* have all not succeeded, whatever crashes came between; paused, it does not run.
PausedAtLimit ==
    \A t \in Trigger :
        LET n == Len(executed[t])
        IN /\ ~stateFile[t].enabled <=>
                 /\ t \in Pauses /\ n > 0 /\ n >= MaxRetries[t]
                 /\ \A i \in (n - MaxRetries[t] + 1..n) \cup {n} :
                       executed[t][i].status # "SUCCEEDED"
           /\ ~stateFile[t].enabled => ~(at \in Stage /\ t0 = t)

\* Between two executions of a trigger lie its debounce time, from event to event, and
\* after each that succeeded its cooldown, also when others failed in between and
\* when the daemon was started anew.
RatesKept ==
    \A t \in Trigger : \A i, k \in DOMAIN executed[t] :
        i < k =>
            /\ executed[t][k].fired >= executed[t][i].fired + Debounce[t]
            /\ executed[t][i].status = "SUCCEEDED" =>
                  executed[t][k].started >= executed[t][i].ended + Cooldown[t]

DaemonInv ==
    DaemonTypeOK /\ OneWorkflow /\ FilesAgree /\ PausedAtLimit /\ RatesKept

\* A signal ends the daemon: stop() comes to its end without waiting for the 30
\* seconds, the event loop leaves, and daemon.json says that the daemon stopped.
StopEnds ==
    <>[](stopping # "no" => stopping = "done" /\ at = "returned" /\ daemonFile = "stopped")
=============================================================================
