----------------------------- MODULE AgentCore -----------------------------
(***************************************************************************)
(* The Core process: core/agentcore.ts with the PermitGate, the            *)
(* ExecutionBudget and the WorkerDelegationGateway it owns.                *)
(*                                                                         *)
(* A client asks for a permit for each job it has submitted.  A permit     *)
(* takes one concurrency slot, one entry of the rate window and the job's  *)
(* cost; for a WORKER_TASK the grant also starts a worker.  The permit     *)
(* ends when its worker's result has been handled, when the job is         *)
(* cancelled, when its deadline passes, or at shutdown: in the last three  *)
(* cases the worker is told to stop and is still alive for a while.        *)
(*                                                                         *)
(* One action is one turn of the event loop: an IPC handler, a timer, the  *)
(* continuation of an await, or a step of a worker process.  What a turn   *)
(* writes to the transport is the value of "sent" after it; who writes to  *)
(* the Core and in which order is left open here (any handler may run at   *)
(* any time) and fixed by the modules that extend this one.                *)
(***************************************************************************)
EXTENDS Integers, FiniteSets, Sequences

CONSTANTS
    Job,             \* job identities
    Permit,          \* permit identities, used again once nothing refers to them
    NoPermit, NoJob, \* markers for "no entry"
    JobDef,          \* what a job asks for, see JobDefType
    MaxConcurrency,  \* budget.maxConcurrency
    MaxRps,          \* budget.maxRps
    MaxCost          \* budget.maxCostBudget

\* workerTask: type = WORKER_TASK; validPayload: isWorkerTaskJobPayload holds;
\* costHint (0 when the job has none) and maxAttempts are the job's limits.
JobDefType == [workerTask: BOOLEAN, validPayload: BOOLEAN, costHint: Nat, maxAttempts: Nat]

ASSUME JobsDefined == JobDef \in [Job -> JobDefType]
ASSUME PermitsFinite == IsFiniteSet(Permit)
ASSUME Limits == MaxConcurrency \in Nat /\ MaxRps \in Nat /\ MaxCost \in Nat
ASSUME Markers == NoPermit \notin Permit /\ NoJob \notin Job

VARIABLES
    mode,              \* "serving" until shutdown(), "stopping" during it, "stopped" after
    jobs,              \* AgentCore.jobs: the registered jobs
    activePermitsByJob,\* AgentCore.activePermitsByJob
    holder,            \* the job of each permit some part of the Core still refers to
    cost,              \* tokensGranted.costBudget of each permit
    activePermits,     \* PermitGate.activePermits, and the permits with a deadline timer
    aborted,           \* permits whose abort signal has fired
    activeSlots,       \* ExecutionBudget.activeSlots
    cumulativeCost,    \* ExecutionBudget.cumulativeCost
    inWindow,          \* entries of the rate ring younger than one second
    level,             \* what BackpressureController.check() returns
    worker,            \* the worker of each permit
    outcome,           \* the outcome its result will be reported with, once it is over
    killing,           \* the workers cancelAll() waits for
    sent               \* the messages written by the last turn

registry == <<jobs, activePermitsByJob>>
permits  == <<holder, cost>>
gate     == <<activePermits, aborted, activeSlots, cumulativeCost>>
workers  == <<worker, outcome, killing>>
vars     == <<mode, registry, permits, gate, inWindow, level, workers, sent>>

----------------------------------------------------------------------------
(* Values.                                                                 *)

Level       == {"ACCEPT", "DEGRADE", "DEFER", "REJECT"}
Outcome     == {"succeeded", "failed", "cancelled"}
WorkerState == {"none", "starting", "running", "over"}

Refusal == {"GLOBAL_SHED", "DEFERRED", "BUDGET_EXHAUSTED", "CONCURRENCY_LIMIT",
            "RATE_LIMIT", "DUPLICATE_PERMIT"}

\* The messages from the Core, without request ids: a client has at most one
\* request of a kind open for a job.
Message == [type: {"ack", "job_cancelled", "error", "permit_granted"}, job: Job]
           \cup [type: {"permit_rejected"}, job: Job, reason: Refusal]
           \cup [type: {"job_completed"}, job: Job, outcome: Outcome]

Plain(type, j)  == [type |-> type, job |-> j]
Rejected(j, r)  == [type |-> "permit_rejected", job |-> j, reason |-> r]
Completed(j, o) == [type |-> "job_completed", job |-> j, outcome |-> o]

\* The worker of p has been started and its result has not been handled.
Live(p) == worker[p] # "none"

\* Continuations run until the transport is closed and the process exits.
Alive == mode # "stopped"

\* Messages and timers are handled until then too, also while shutdown() waits
\* for workers; once it waits for none, only microtasks come before the close.
Listening == mode = "serving" \/ killing # {}

AtLeastZero(n) == IF n < 0 THEN 0 ELSE n

HalvedUp(n) == (n + 1) \div 2

TypeOK ==
    /\ mode \in {"serving", "stopping", "stopped"}
    /\ jobs \subseteq Job
    /\ activePermitsByJob \in [Job -> Permit \cup {NoPermit}]
    /\ holder \in [Permit -> Job \cup {NoJob}]
    /\ cost \in [Permit -> Nat]
    /\ activePermits \subseteq Permit
    /\ aborted \subseteq Permit
    /\ activeSlots \in Nat
    /\ cumulativeCost \in Nat
    /\ inWindow \in Nat
    /\ level \in Level
    /\ worker \in [Permit -> WorkerState]
    /\ outcome \in [Permit -> Outcome]
    /\ killing \subseteq Permit
    /\ sent \in Seq(Message)

Init ==
    /\ mode = "serving"
    /\ jobs = {}
    /\ activePermitsByJob = [j \in Job |-> NoPermit]
    /\ holder = [p \in Permit |-> NoJob]
    /\ cost = [p \in Permit |-> 0]
    /\ activePermits = {}
    /\ aborted = {}
    /\ activeSlots = 0
    /\ cumulativeCost = 0
    /\ inWindow = 0
    /\ level = "ACCEPT"
    /\ worker = [p \in Permit |-> "none"]
    /\ outcome = [p \in Permit |-> "failed"]
    /\ killing = {}
    /\ sent = << >>

----------------------------------------------------------------------------
(* The permit gate and the budget.                                         *)

\* A degraded permit is charged half of the job's cost.
Charge(j) == IF level = "DEGRADE" THEN HalvedUp(JobDef[j].costHint) ELSE JobDef[j].costHint

\* Faulty: what is returned is what the job would be charged now.
ReleasedAtCurrentCharge(p) ==
    /\ activePermits' = activePermits \ {p}
    /\ activeSlots' = AtLeastZero(activeSlots - 1)
    /\ cumulativeCost' = AtLeastZero(cumulativeCost - Charge(holder[p]))

\* ExecutionBudget.release and the end of the permit's timer.
Released(p) ==
    /\ activePermits' = activePermits \ {p}
    /\ activeSlots' = AtLeastZero(activeSlots - 1)
    /\ cumulativeCost' = AtLeastZero(cumulativeCost - cost[p])

\* revokePermit: a permit that is not active any more is left alone.
Revoked(p) ==
    IF p \in activePermits
    THEN Released(p) /\ aborted' = aborted \cup {p}
    ELSE UNCHANGED gate

\* Faulty: a permit that was revoked is released again.
EndedTwice(p) ==
    /\ Released(p)
    /\ aborted' = aborted \ {p}
    /\ holder' = [holder EXCEPT ![p] = NoJob]
    /\ cost' = [cost EXCEPT ![p] = 0]

\* completePermit, which also drops the last reference to the permit.
Ended(p) ==
    /\ IF p \in activePermits
       THEN Released(p)
       ELSE UNCHANGED <<activePermits, activeSlots, cumulativeCost>>
    /\ aborted' = aborted \ {p}
    /\ holder' = [holder EXCEPT ![p] = NoJob]
    /\ cost' = [cost EXCEPT ![p] = 0]

\* Faulty: overload is answered with the response of the backpressure controller.
ResponseAsReason(j, attempt) ==
    IF level \in {"REJECT", "DEFER"} THEN level
    ELSE IF activeSlots >= MaxConcurrency THEN "CONCURRENCY_LIMIT"
    ELSE "GRANTED"

\* PermitGate.requestPermit up to the grant: the first check that fails gives
\* the answer.  The circuit breaker check is not here: no breaker is ever opened.
Verdict(j, attempt) ==
    IF level = "REJECT"                                   THEN "GLOBAL_SHED"
    ELSE IF level = "DEFER"                               THEN "DEFERRED"
    ELSE IF attempt >= JobDef[j].maxAttempts              THEN "BUDGET_EXHAUSTED"
    ELSE IF activeSlots >= MaxConcurrency                 THEN "CONCURRENCY_LIMIT"
    ELSE IF inWindow >= MaxRps                            THEN "RATE_LIMIT"
    ELSE IF cumulativeCost + JobDef[j].costHint > MaxCost THEN "BUDGET_EXHAUSTED"
    ELSE "GRANTED"

----------------------------------------------------------------------------
(* The IPC handlers.                                                       *)

SubmitJob(j) ==
    /\ Listening
    /\ jobs' = jobs \cup {j}
    /\ sent' = <<Plain("ack", j)>>
    /\ UNCHANGED <<mode, activePermitsByJob, permits, gate, inWindow, level, workers>>

CancelUnknown(j) ==
    /\ j \notin jobs
    /\ sent' = <<Plain("error", j)>>
    /\ UNCHANGED <<registry, gate>>

\* Faulty: a cancelled job is forgotten at once, its worker not.
CancelForgets(j) ==
    /\ j \in jobs
    /\ activePermitsByJob[j] # NoPermit
    /\ Revoked(activePermitsByJob[j])
    /\ activePermitsByJob' = [activePermitsByJob EXCEPT ![j] = NoPermit]
    /\ jobs' = jobs \ {j}
    /\ sent' = <<Plain("job_cancelled", j)>>

CancelActive(j) ==
    /\ j \in jobs
    /\ activePermitsByJob[j] # NoPermit
    /\ Revoked(activePermitsByJob[j])
    /\ sent' = <<Plain("job_cancelled", j)>>
    /\ UNCHANGED registry

CancelWaiting(j) ==
    /\ j \in jobs
    /\ activePermitsByJob[j] = NoPermit
    /\ jobs' = jobs \ {j}
    /\ sent' = <<Plain("job_cancelled", j)>>
    /\ UNCHANGED <<activePermitsByJob, gate>>

CancelJob(j) ==
    /\ Listening
    /\ CancelUnknown(j) \/ CancelActive(j) \/ CancelWaiting(j)
    /\ UNCHANGED <<mode, permits, inWindow, level, workers>>

RequestDuplicate(j) ==
    /\ activePermitsByJob[j] # NoPermit
    /\ jobs' = jobs \cup {j}
    /\ sent' = <<Rejected(j, "DUPLICATE_PERMIT")>>
    /\ UNCHANGED <<activePermitsByJob, permits, gate, inWindow, worker>>

RequestRefused(j, attempt) ==
    /\ activePermitsByJob[j] = NoPermit
    /\ jobs' = jobs \cup {j}
    /\ Verdict(j, attempt) # "GRANTED"
    /\ sent' = <<Rejected(j, Verdict(j, attempt))>>
    /\ UNCHANGED <<activePermitsByJob, permits, gate, inWindow, worker>>

\* The grant of a job with a worker to start (executeWorkerTask up to its
\* first await) or with nothing to execute (a job type without an executor).
RequestGranted(j, attempt, p) ==
    /\ activePermitsByJob[j] = NoPermit
    /\ Verdict(j, attempt) = "GRANTED"
    /\ JobDef[j].workerTask => JobDef[j].validPayload
    /\ holder[p] = NoJob
    /\ jobs' = jobs \cup {j}
    /\ activePermitsByJob' = [activePermitsByJob EXCEPT ![j] = p]
    /\ holder' = [holder EXCEPT ![p] = j]
    /\ cost' = [cost EXCEPT ![p] = Charge(j)]
    /\ activePermits' = activePermits \cup {p}
    /\ activeSlots' = activeSlots + 1
    /\ cumulativeCost' = cumulativeCost + Charge(j)
    /\ inWindow' = inWindow + 1
    /\ worker' = IF JobDef[j].workerTask THEN [worker EXCEPT ![p] = "starting"] ELSE worker
    /\ sent' = <<Plain("permit_granted", j)>>
    /\ UNCHANGED aborted

\* executeWorkerTask of a payload that is not a worker task: the permit is
\* granted, completed and reported as failed in the same turn.
RequestGrantedInvalid(j, attempt) ==
    /\ activePermitsByJob[j] = NoPermit
    /\ Verdict(j, attempt) = "GRANTED"
    /\ JobDef[j].workerTask /\ ~JobDef[j].validPayload
    /\ jobs' = jobs \ {j}
    /\ inWindow' = inWindow + 1
    /\ sent' = <<Plain("permit_granted", j), Completed(j, "failed")>>
    /\ UNCHANGED <<activePermitsByJob, permits, gate, worker>>

RequestPermit(j, attempt) ==
    /\ Listening
    /\ \/ RequestDuplicate(j)
       \/ RequestRefused(j, attempt)
       \/ \E p \in Permit : RequestGranted(j, attempt, p)
       \/ RequestGrantedInvalid(j, attempt)
    /\ UNCHANGED <<mode, level, outcome, killing>>

\* The load of a report is the largest of three ratios; a report can set any level.
ReportQueueMetrics(l) ==
    /\ Listening
    /\ level' = l
    /\ sent' = << >>
    /\ UNCHANGED <<mode, registry, permits, gate, inWindow, workers>>

----------------------------------------------------------------------------
(* Timers, workers, shutdown.                                              *)

\* An entry of the rate ring becomes older than one second.
WindowSlides ==
    /\ Listening
    /\ inWindow > 0
    /\ inWindow' = inWindow - 1
    /\ sent' = << >>
    /\ UNCHANGED <<mode, registry, permits, gate, level, workers>>

\* The deadline timer of an active permit.
Deadline(p) ==
    /\ Listening
    /\ p \in activePermits
    /\ Revoked(p)
    /\ sent' = << >>
    /\ UNCHANGED <<mode, registry, permits, inWindow, level, workers>>

\* startTask settles: the worker runs and has a handle (a worker whose permit
\* was revoked meanwhile is cancelled at once), or there is no worker.
WorkerStarts(p) ==
    /\ Alive
    /\ worker[p] = "starting"
    /\ \/ worker' = [worker EXCEPT ![p] = "running"] /\ UNCHANGED outcome
       \/ /\ worker' = [worker EXCEPT ![p] = "over"]
          /\ outcome' = [outcome EXCEPT ![p] = "failed"]
    /\ sent' = << >>
    /\ UNCHANGED <<mode, registry, permits, gate, inWindow, level, killing>>

\* The process is gone and awaitResult has settled: a result under an aborted
\* signal is "cancelled" whatever the exit code.
WorkerEnds(p) ==
    /\ worker[p] = "running"
    /\ worker' = [worker EXCEPT ![p] = "over"]
    /\ \E o \in IF p \in aborted THEN {"cancelled", "failed"} ELSE {"succeeded", "failed"} :
          outcome' = [outcome EXCEPT ![p] = o]
    /\ killing' = killing \ {p}
    /\ sent' = << >>
    /\ UNCHANGED <<mode, registry, permits, gate, inWindow, level>>

\* The .then or .catch of the delegation: the permit is completed, the job
\* forgotten, the result sent.
WorkerReported(p) ==
    /\ Alive
    /\ worker[p] = "over"
    /\ Ended(p)
    /\ activePermitsByJob' = [activePermitsByJob EXCEPT ![holder[p]] = NoPermit]
    /\ jobs' = jobs \ {holder[p]}
    /\ worker' = [worker EXCEPT ![p] = "none"]
    /\ outcome' = [outcome EXCEPT ![p] = "failed"]
    /\ sent' = <<Completed(holder[p], outcome[p])>>
    /\ UNCHANGED <<mode, inWindow, level, killing>>

\* The workers cancelAll() finds in activeHandles.
Running == {p \in Permit : worker[p] = "running"}

\* startTask settles within the microtasks of the grant, before any later event.
NoneStarting == \A p \in Permit : worker[p] # "starting"

\* shutdown() up to its first real wait: permitGate.dispose() forgets the
\* permits without releasing their budget; with no worker to wait for, the
\* transport is closed in the same turn.
Shutdown ==
    /\ mode = "serving"
    /\ NoneStarting
    /\ mode' = IF Running = {} THEN "stopped" ELSE "stopping"
    /\ aborted' = aborted \cup activePermits
    /\ activePermits' = {}
    /\ killing' = Running
    /\ sent' = << >>
    /\ UNCHANGED <<registry, permits, activeSlots, cumulativeCost, inWindow, level, worker, outcome>>

\* cancelAll() has settled: the transport is closed and the process exits.
ShutdownDone ==
    /\ mode = "stopping"
    /\ killing = {}
    /\ NoneStarting
    /\ mode' = "stopped"
    /\ sent' = << >>
    /\ UNCHANGED <<registry, permits, gate, inWindow, level, workers>>

----------------------------------------------------------------------------
(* Properties.                                                             *)

\* Every slot that is taken belongs to an active permit, exactly one each: no
\* path (result, cancel, deadline, and any two of them for the same permit)
\* returns a slot twice or never.  After dispose() the slots of the forgotten
\* permits stay taken.
SlotsExact ==
    /\ mode = "serving" => activeSlots = Cardinality(activePermits)
    /\ Cardinality(activePermits) <= activeSlots
    /\ activeSlots <= MaxConcurrency

\* The units of cost that the active permits hold.
Charged == UNION {{p} \X (1..cost[p]) : p \in activePermits}

\* The cost on the books is the cost of the active permits, also when some were
\* granted degraded and are returned after the level has changed; it never passes
\* the budget.  As for the slots, dispose() leaves the forgotten permits charged.
CostExact ==
    /\ mode = "serving" => cumulativeCost = Cardinality(Charged)
    /\ Cardinality(Charged) <= cumulativeCost
    /\ cumulativeCost <= MaxCost

\* Whoever wants to stop a worker can: its job is registered, leads to its
\* permit, and the permit is active unless the worker was told to stop already.
\* In particular a job never has two workers.
CancelReaches ==
    \A p \in Permit : Live(p) =>
        /\ holder[p] \in jobs
        /\ activePermitsByJob[holder[p]] = p
        /\ p \in activePermits \/ p \in aborted

\* shutdown() claims to cancel all permits and to kill all workers: when it is
\* done no worker runs that has not been told to stop.
KilledAtShutdown ==
    mode = "stopped" => Running \subseteq aborted

----------------------------------------------------------------------------
(* The behaviours, under any sequence of requests.                         *)

Attempts == 0 .. 1

Request ==
    \/ \E j \in Job : SubmitJob(j)
    \/ \E j \in Job : CancelJob(j)
    \/ \E j \in Job, attempt \in Attempts : RequestPermit(j, attempt)
    \/ \E l \in Level : ReportQueueMetrics(l)

\* What the Core and its workers do of themselves.
Progress ==
    \/ \E p \in Permit : \/ Deadline(p)
                         \/ WorkerStarts(p)
                         \/ WorkerEnds(p)
                         \/ WorkerReported(p)
    \/ WindowSlides
    \/ Shutdown
    \/ ShutdownDone

Next == Request \/ Progress

\* Continuations run and timers fire; a worker is only known to end once it has
\* been told to (SIGTERM, then SIGKILL), and nobody has to send a request.
Fairness ==
    /\ \A p \in Permit : /\ WF_vars(Deadline(p))
                         /\ WF_vars(WorkerStarts(p))
                         /\ WF_vars(p \in aborted /\ WorkerEnds(p))
                         /\ WF_vars(WorkerReported(p))
    /\ WF_vars(ShutdownDone)

Spec == Init /\ [][Next]_vars
FairSpec == Spec /\ Fairness
=============================================================================
