--------------------------- MODULE CoreStepRunner ---------------------------
(***************************************************************************)
(* The workflow's side of the Core: runWorkerTask of                       *)
(* workflow/core-ipc-step-runner.ts, one run per job, composed with        *)
(* AgentCore over the two JSON-lines channels.                             *)
(*                                                                         *)
(* A run submits its job, asks for a permit until one is granted, waits    *)
(* for the result, and gives up on an abort, on its deadline, on a fatal   *)
(* refusal, on an unanswered request or when the channel closes.  Whatever *)
(* it gives up on may already be running in the other process.             *)
(*                                                                         *)
(* A channel is a sequence: it neither loses nor reorders, but an answer   *)
(* may come after its request has timed out.  One action is one turn of    *)
(* either event loop.                                                      *)
(***************************************************************************)
EXTENDS AgentCore

CONSTANTS
    MayAbort,  \* bound: the runs whose step may be aborted
    MayTimeOut,\* bound: the runs whose requests may time out
    MayBeLate  \* bound: the runs whose deadline may pass

ASSUME RunBounds == MayAbort \cup MayTimeOut \cup MayBeLate \subseteq Job

\* buildWorkerJob submits nothing but worker tasks.
ASSUME RunnerJobs == \A j \in Job : JobDef[j].workerTask

VARIABLES
    phase,        \* where each run is
    stepAborted,  \* the runs whose abort signal has fired
    cancelIssued, \* the runs that have called issueCancel
    late,         \* the runs whose deadlineAt has passed
    unconfirmed,  \* the runs that gave up waiting for the ack of submit_job
    toCore,       \* messages on their way to the Core
    toRunner,     \* messages on their way back
    linkUp        \* the runner has not seen the channel close

runs     == <<phase, stepAborted, cancelIssued, late, unconfirmed>>
channels == <<toCore, toRunner, linkUp>>
runnerVars == <<runs, channels>>
allVars  == <<vars, runnerVars>>

Phase == {"idle", "submitting", "requesting", "backoff", "executing", "grace",
          "failing", "returned"}

RequestMessage == [type: {"submit_job", "request_permit", "cancel_job"}, job: Job]

RunnerTypeOK ==
    /\ phase \in [Job -> Phase]
    /\ stepAborted \subseteq Job
    /\ cancelIssued \subseteq Job
    /\ late \subseteq Job
    /\ unconfirmed \subseteq Job
    /\ toCore \in Seq(RequestMessage)
    /\ toRunner \in Seq(Message)
    /\ linkUp \in BOOLEAN

RunnerInit ==
    /\ phase = [j \in Job |-> "idle"]
    /\ stepAborted = {}
    /\ cancelIssued = {}
    /\ late = {}
    /\ unconfirmed = {}
    /\ toCore = << >>
    /\ toRunner = << >>
    /\ linkUp = TRUE

----------------------------------------------------------------------------
(* What a run writes.  A write to a closed channel throws.                 *)

Writes(type, j) == toCore' = IF linkUp THEN Append(toCore, Plain(type, j)) ELSE toCore

\* issueCancel: at most one cancel_job, however often the run is told to stop.
IssuesCancel(j) ==
    /\ cancelIssued' = cancelIssued \cup {j}
    /\ IF j \in cancelIssued THEN UNCHANGED toCore ELSE Writes("cancel_job", j)

Moves(j, p) == phase' = [phase EXCEPT ![j] = p]

\* Faulty: nothing is cancelled before a permit has been seen.
ReturnsAtOnce(j) == Moves(j, "returned") /\ UNCHANGED toCore

\* The catch block of a submitted run: cancel_job is sent and its answer awaited,
\* unless the channel is closed and the send throws.
GivesUp(j) ==
    /\ Writes("cancel_job", j)
    /\ Moves(j, IF linkUp THEN "failing" ELSE "returned")

\* A turn of requestPermitUntilGranted, from its checks to the send.
AsksForPermit(j) ==
    IF j \in late \/ ~linkUp
    THEN GivesUp(j)
    ELSE Writes("request_permit", j) /\ Moves(j, "requesting")

----------------------------------------------------------------------------
(* The turns of the runner.                                                *)

\* runWorkerTask up to the submission; under an aborted signal cancel_job goes
\* out for a job the Core has not heard of, and nothing is submitted.
Start(j) ==
    /\ phase[j] = "idle"
    /\ IF j \in stepAborted
       THEN IssuesCancel(j) /\ Moves(j, "returned")
       ELSE /\ Writes("submit_job", j)
            /\ Moves(j, IF linkUp THEN "submitting" ELSE "returned")
            /\ UNCHANGED cancelIssued
    /\ UNCHANGED <<stepAborted, late, unconfirmed, toRunner, linkUp>>

\* The step's signal fires: onParentAbort, and what the pending await makes of it.
StepAbort(j) ==
    /\ j \in MayAbort
    /\ phase[j] # "returned"
    /\ j \notin stepAborted
    /\ stepAborted' = stepAborted \cup {j}
    /\ IF phase[j] = "idle" THEN UNCHANGED <<cancelIssued, toCore>> ELSE IssuesCancel(j)
    /\ CASE phase[j] \in {"submitting", "requesting", "backoff"} -> Moves(j, "returned")
         [] phase[j] = "executing"                               -> Moves(j, "grace")
         [] OTHER                                                -> UNCHANGED phase
    /\ UNCHANGED <<late, unconfirmed, toRunner, linkUp>>

\* deadlineAt passes: noticed at the next request for a permit, or at once by the
\* timer of the execution's scoped signal.
DeadlinePasses(j) ==
    /\ j \in MayBeLate
    /\ phase[j] \in {"requesting", "backoff", "executing"}
    /\ j \notin late
    /\ late' = late \cup {j}
    /\ IF phase[j] = "executing"
       THEN IssuesCancel(j) /\ Moves(j, "grace")
       ELSE UNCHANGED <<cancelIssued, toCore, phase>>
    /\ UNCHANGED <<stepAborted, unconfirmed, toRunner, linkUp>>

\* The backoff after a transient refusal is over.
BackoffOver(j) ==
    /\ phase[j] = "backoff"
    /\ AsksForPermit(j)
    /\ UNCHANGED <<stepAborted, cancelIssued, late, unconfirmed, toRunner, linkUp>>

\* The five seconds a cancelled execution still waits for its result are over.
GraceOver(j) ==
    /\ phase[j] = "grace"
    /\ Moves(j, "returned")
    /\ UNCHANGED <<stepAborted, cancelIssued, late, unconfirmed, channels>>

\* Faulty: an unanswered request for a permit is treated like a refusal.
AsksAgain(j) ==
    /\ j \in MayTimeOut
    /\ phase[j] = "requesting"
    /\ Moves(j, "backoff")
    /\ UNCHANGED <<stepAborted, cancelIssued, late, unconfirmed, channels>>

\* waitForResponse times out.  A run whose submission was not confirmed returns
\* without a cancel_job.
RequestTimeout(j) ==
    /\ j \in MayTimeOut
    /\ \/ /\ phase[j] = "submitting"
          /\ unconfirmed' = unconfirmed \cup {j}
          /\ Moves(j, "returned")
          /\ UNCHANGED toCore
       \/ phase[j] = "requesting" /\ GivesUp(j) /\ UNCHANGED unconfirmed
       \/ phase[j] = "failing" /\ Moves(j, "returned") /\ UNCHANGED <<toCore, unconfirmed>>
    /\ UNCHANGED <<stepAborted, cancelIssued, late, toRunner, linkUp>>

Fatal == {"BUDGET_EXHAUSTED", "DUPLICATE_PERMIT"}

\* dispatch: an answer is matched with the request the run has open, a
\* job_completed with its waiter; anything else is dropped.
Answered(m) ==
    LET j == m.job IN
    CASE m.type = "ack" /\ phase[j] = "submitting"             -> AsksForPermit(j)
      [] m.type = "permit_granted" /\ phase[j] = "requesting"  -> Moves(j, "executing") /\ UNCHANGED toCore
      [] m.type = "permit_rejected" /\ phase[j] = "requesting" ->
            IF m.reason \in Fatal THEN GivesUp(j) ELSE Moves(j, "backoff") /\ UNCHANGED toCore
      [] m.type = "job_completed" /\ phase[j] \in {"executing", "grace"} ->
            Moves(j, "returned") /\ UNCHANGED toCore
      [] m.type \in {"job_cancelled", "error"} /\ phase[j] = "failing" ->
            Moves(j, "returned") /\ UNCHANGED toCore
      [] OTHER -> UNCHANGED <<phase, toCore>>

\* A permit granted after the deadline passed finds its scoped signal aborted.
GrantedLate(m) == m.type = "permit_granted" /\ phase[m.job] = "requesting" /\ m.job \in late

RunnerReceives ==
    /\ linkUp
    /\ toRunner # << >>
    /\ toRunner' = Tail(toRunner)
    /\ LET m == Head(toRunner) IN
          IF GrantedLate(m)
          THEN IssuesCancel(m.job) /\ Moves(m.job, "grace")
          ELSE Answered(m) /\ UNCHANGED cancelIssued
    /\ UNCHANGED <<stepAborted, late, unconfirmed, linkUp>>

\* Faulty: pending requests are not rejected when the channel closes.
ClosesUnnoticed ==
    /\ linkUp
    /\ ~Alive
    /\ toRunner = << >>
    /\ linkUp' = FALSE
    /\ toCore' = << >>
    /\ UNCHANGED <<runs, toRunner>>

\* The Core has closed the channel and everything it wrote has been read: every
\* pending request is rejected.  An execution is not a request and goes on waiting.
LinkCloses ==
    /\ linkUp
    /\ ~Alive
    /\ toRunner = << >>
    /\ linkUp' = FALSE
    /\ toCore' = << >>
    /\ phase' = [j \in Job |-> IF phase[j] \in {"submitting", "requesting", "failing"}
                               THEN "returned" ELSE phase[j]]
    /\ unconfirmed' = unconfirmed \cup {j \in Job : phase[j] = "submitting"}
    /\ UNCHANGED <<stepAborted, cancelIssued, late, toRunner>>

RunnerTurn ==
    /\ \/ \E j \in Job : \/ Start(j)
                         \/ StepAbort(j)
                         \/ DeadlinePasses(j)
                         \/ BackoffOver(j)
                         \/ GraceOver(j)
                         \/ RequestTimeout(j)
       \/ RunnerReceives
       \/ LinkCloses
    /\ UNCHANGED vars

----------------------------------------------------------------------------
(* The turns of the Core.                                                  *)

\* The runner always asks with attemptIndex 0.
Handles(m) ==
    \/ m.type = "submit_job" /\ SubmitJob(m.job)
    \/ m.type = "request_permit" /\ RequestPermit(m.job, 0)
    \/ m.type = "cancel_job" /\ CancelJob(m.job)

CoreReceives ==
    /\ toCore # << >>
    /\ Handles(Head(toCore))
    /\ toCore' = Tail(toCore)
    /\ toRunner' = toRunner \o sent'
    /\ UNCHANGED <<runs, linkUp>>

CoreProceeds ==
    /\ Progress
    /\ toRunner' = toRunner \o sent'
    /\ UNCHANGED <<runs, toCore, linkUp>>

RunnerNext == RunnerTurn \/ CoreReceives \/ CoreProceeds

\* Messages are delivered and timers fire; nobody has to abort, to answer too late
\* or to shut down.
RunnerFairness ==
    /\ WF_allVars(RunnerReceives /\ UNCHANGED vars)
    /\ WF_allVars(LinkCloses /\ UNCHANGED vars)
    /\ WF_allVars(CoreReceives)
    /\ \A j \in Job : /\ WF_allVars(DeadlinePasses(j) /\ UNCHANGED vars)
                      /\ WF_allVars(BackoffOver(j) /\ UNCHANGED vars)
                      /\ WF_allVars(GraceOver(j) /\ UNCHANGED vars)
    /\ \A p \in Permit :
          LET OfCore(A) == A /\ toRunner' = toRunner \o sent' /\ UNCHANGED <<runs, toCore, linkUp>> IN
          /\ WF_allVars(OfCore(WorkerStarts(p)))
          /\ WF_allVars(OfCore(p \in aborted /\ WorkerEnds(p)))
          /\ WF_allVars(OfCore(WorkerReported(p)))
          /\ WF_allVars(OfCore(Deadline(p)))
    /\ WF_allVars(ShutdownDone /\ UNCHANGED runnerVars)

RunnerSpec == Init /\ RunnerInit /\ [][RunnerNext]_allVars
FairRunnerSpec == RunnerSpec /\ RunnerFairness

----------------------------------------------------------------------------
(* Properties.                                                             *)

\* Messages about j still on their way to the Core.
InFlight(j, type) == {i \in DOMAIN toCore : toCore[i] = Plain(type, j)}

\* After a cancel_job nothing on the channel can start a worker for j.
CancelOnItsWay(j) ==
    \E i \in InFlight(j, "cancel_job") : \A k \in InFlight(j, "request_permit") : k < i

WorkersOf(j) == {p \in Permit : Live(p) /\ holder[p] = j}

\* A run that has returned leaves no worker behind that nobody tells to stop: a
\* worker it may have started is told to stop or has a cancel_job on its way, and
\* so has a request for a permit that the Core has not read yet.  This is what the
\* workflow relies on when it runs the next step in the same workspace.
NoOrphan ==
    \A j \in Job : phase[j] = "returned" /\ mode = "serving" =>
        \/ CancelOnItsWay(j)
        \/ InFlight(j, "request_permit") = {} /\ \A p \in WorkersOf(j) : p \in aborted \/ worker[p] = "over"

\* The Core forgets the job of a run that has returned, once it has read what was
\* sent about it and its worker is gone; only a job whose ack was not waited for
\* stays registered.
JobsForgotten ==
    \A j \in Job :
        /\ phase[j] = "returned"
        /\ mode = "serving"
        /\ \A i \in DOMAIN toCore : toCore[i].job # j
        /\ WorkersOf(j) = {}
        => j \notin jobs \/ j \in unconfirmed

\* A job that is never forgotten never gets a worker either: its run gave up before
\* it asked for a permit, and nobody else asks for one.
UnconfirmedIdle ==
    \A j \in unconfirmed : InFlight(j, "request_permit") = {} /\ WorkersOf(j) = {}

\* A run that is over leaves no work in the Core: no worker that goes on untold and,
\* once what it sent was read, no job, but one whose submission was not acknowledged
\* in time; that one stays, without a worker.
LeavesNoWork == NoOrphan /\ JobsForgotten /\ UnconfirmedIdle

\* A run never meets the permit of its own earlier request.
NeverDuplicate ==
    \A i \in DOMAIN toRunner :
        toRunner[i].type = "permit_rejected" => toRunner[i].reason # "DUPLICATE_PERMIT"

\* Every run with a deadline returns once it has started: no missing slot, no
\* cancellation and no exit of the Core leaves it waiting for ever, and no worker is
\* left unreported.  An execution does need its deadline: nothing else ends it when
\* the Core has gone.  A run starts once, so that what ends it ends it for good.
Over(ending) ==
    /\ \A j \in ending : phase[j] \in {"idle", "returned"}
    /\ \A p \in Permit : Live(p) => ~Alive

RunsReturn == <>[]Over(MayBeLate)
=============================================================================
