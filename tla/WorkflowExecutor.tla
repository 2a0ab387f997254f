-------------------------- MODULE WorkflowExecutor --------------------------
(***************************************************************************)
(* The DAG executor of src/workflow/executor.ts (class WorkflowExecutor):  *)
(* its scheduling loop, the lifecycle it starts for every step, the        *)
(* management hooks that interrupt both, and the workflow-level abort.     *)
(*                                                                         *)
(* JavaScript runs to completion between two awaits, so one action is the  *)
(* code between two awaits that wait for I/O, a timer, a worker or a hook; *)
(* at[s] names the await the lifecycle of step s is suspended at.  An      *)
(* await that needs no I/O is merged with the code before it.              *)
(***************************************************************************)
EXTENDS Integers, FiniteSets

CONSTANTS
    Step,       \* the step ids, numbered in the order of definition.steps
    Workflows   \* the workflow definitions that may be executed

-----------------------------------------------------------------------------
(* Types of the definition, of the step states and of the suspension points. *)

Hook == {"pre_step", "post_step", "pre_check", "post_check", "on_stall"}

ErrorClass == {"transient", "non_retryable", "fatal"}

StepDefinition ==
    [depends_on : SUBSET Step,
     on_failure : {"abort", "continue", "retry"},
     max_retries : Nat,
     completion_check : BOOLEAN,
     max_iterations : Nat \ {0},
     on_iterations_exhausted : {"abort", "continue"},
     inputs : BOOLEAN,           \* inputs are resolved before the worker runs
     outputs : BOOLEAN,          \* outputs (subworkflow: exports) are copied
     hooks : SUBSET Hook,        \* isManagementHookEnabled(step, hook)
     stall : BOOLEAN,            \* a sentinel guard watches worker and check
     subworkflow : BOOLEAN,      \* isSubworkflowStep
     scope_guard : BOOLEAN,      \* convergence with a git scope to evaluate
     convergence : BOOLEAN]      \* isConvergenceEnabled

Workflow ==
    [concurrency : Nat \ {0},
     branch_lock : BOOLEAN,           \* branchContext with a startup toplevel
     branch_transition : SUBSET Step, \* {branchTransitionStep} or {}
     steps : [Step -> StepDefinition]]

\* validateDag: the dependencies form no cycle, and a completion check comes
\* with max_iterations >= 2.
ValidDag(w) ==
    /\ \E rank \in [Step -> 0..Cardinality(Step)] :
          \A s \in Step : \A d \in w.steps[s].depends_on : rank[d] < rank[s]
    /\ \A s \in Step :
          w.steps[s].completion_check => w.steps[s].max_iterations >= 2

ASSUME StepAssumption == Step \subseteq Nat /\ IsFiniteSet(Step)
ASSUME WorkflowsAssumption ==
    /\ Workflows \subseteq Workflow
    /\ \A w \in Workflows : ValidDag(w)

StepStatus ==
    {"PENDING", "READY", "RUNNING", "CHECKING", "SUCCEEDED", "FAILED",
     "INCOMPLETE", "SKIPPED", "CANCELLED", "OMITTED"}

TerminalStatus ==
    {"SUCCEEDED", "FAILED", "INCOMPLETE", "SKIPPED", "CANCELLED", "OMITTED"}

WorkflowStatus == {"SUCCEEDED", "FAILED", "TIMED_OUT", "CANCELLED"}

\* The awaits inside the try block of a lifecycle: it holds a concurrency slot.
SlotAwait ==
    {"lock", "pre_step", "inputs", "run", "on_stall", "backoff", "exports",
     "branch", "outputs", "pre_check", "check", "collect", "guards",
     "post_check", "converge"}

\* "idle": not launched.  "post_step", "meta": in the finally block.
Await == SlotAwait \cup {"idle", "post_step", "meta", "ended"}

\* What a lifecycle carries across an await: an error class, the decision of a
\* completion check, or the status of a child workflow.
Held == ErrorClass
        \cup {"none", "complete", "incomplete", "infra", "failed"}
        \cup {"child_succeeded", "child_failed", "child_fatal", "child_cancelled"}

InfraFailureLimit == 2          \* COMPLETION_INFRA_FAILURE_LIMIT
DefaultHookConcurrency == 2     \* DEFAULT_PRE_STEP_HOOK_CONCURRENCY

VARIABLES
    wf,                  \* the definition being executed; never changes
    status,              \* steps[s].status
    count,               \* steps[s].iteration, retryCount, infra failure streak
    errorClass,          \* steps[s].errorClass, "none" when undefined
    at,                  \* where the lifecycle of a step is suspended
    held,                \* what it carries across that await
    recorded,            \* the status written to the step's _meta.json
    preStep,             \* managementPending / preStepHookDone of a step
    runningCount,        \* concurrency slots in use
    preStepHookInFlight, \* pre_step hooks being answered
    abortReason,         \* "null" until the workflow abort controller aborts
    loop,                \* where schedulingLoop is
    pending,             \* pendingNotification
    result               \* computeWorkflowStatus at the end of the loop

stepVars == <<status, count, errorClass, at, held, recorded>>
loopVars == <<abortReason, loop, pending>>
hookVars == <<preStep, preStepHookInFlight>>
vars == <<wf, stepVars, hookVars, runningCount, loopVars, result>>

-----------------------------------------------------------------------------
(* Readings of the state. *)

def(s) == wf.steps[s]

aborted == abortReason # "null"

IsTerminal(st, s) == st[s] \in TerminalStatus

Holders == {s \in Step : at[s] \in SlotAwait}

InFlightHooks == {s \in Step : preStep[s] = "in_flight"}

PreStepHookLimit ==
    IF wf.concurrency < DefaultHookConcurrency THEN wf.concurrency
    ELSE DefaultHookConcurrency

\* depAllowsProgress: the dependency d lets downstream steps proceed.
DepAllowsProgress(st, d) ==
    \/ st[d] \in {"SUCCEEDED", "INCOMPLETE", "OMITTED"}
    \/ st[d] = "FAILED" /\ def(d).on_failure = "continue"

\* depBlocksDownstream
DepBlocksDownstream(st, d) ==
    \/ st[d] \in {"SKIPPED", "CANCELLED"}
    \/ st[d] = "FAILED" /\ def(d).on_failure # "continue"

\* Hooks are invoked inside a lifecycle only by runStepLifecycle.
LifecycleHook(s, h) == ~def(s).subworkflow /\ h \in def(s).hooks

\* The steps C are taken in definition order until k of them are taken: T.
IsFirst(T, C, k) ==
    /\ T \subseteq C
    /\ Cardinality(T) = IF k < Cardinality(C) THEN k ELSE Cardinality(C)
    /\ \A s \in T, t \in C \ T : s < t

-----------------------------------------------------------------------------
(* notify() and abort() as the scheduling loop sees them. *)

\* notes calls of notify(), after an abort event when byAbort: the first event
\* resolves a waiting loop, a notify() that finds nobody waiting is remembered.
Signal(byAbort, notes) ==
    /\ loop' = IF loop = "waiting" /\ (byAbort \/ notes > 0)
               THEN "woken" ELSE loop
    /\ pending' = \/ pending
                  \/ notes > (IF loop = "waiting" /\ ~byAbort THEN 1 ELSE 0)

Quiet == UNCHANGED loopVars

-----------------------------------------------------------------------------
(* How a segment of a lifecycle can end.  Each of these operators fixes      *)
(* status, errorClass, at, held, recorded, runningCount and the loop's       *)
(* variables.                                                                *)

\* The finally block up to its first await: the slot is released first; the
\* post_step hook follows a terminal status (an invocation after an abort
\* changes nothing); a subworkflow step left RUNNING by an abort is CANCELLED.
\* The meta file gets the status of the moment its content is built.
Leave(s, st) ==
    LET cancels == def(s).subworkflow /\ aborted /\ st[s] = "RUNNING"
        final == IF cancels THEN [st EXCEPT ![s] = "CANCELLED"] ELSE st
        hooked == /\ LifecycleHook(s, "post_step")
                  /\ IsTerminal(final, s)
                  /\ ~aborted
    IN  /\ status' = final
        /\ runningCount' = runningCount - 1
        /\ at' = [at EXCEPT ![s] = IF hooked THEN "post_step" ELSE "meta"]
        /\ recorded' = IF hooked THEN recorded
                       ELSE [recorded EXCEPT ![s] = final[s]]
        /\ held' = [held EXCEPT ![s] = "none"]

\* return (or an exception that leaves the try block) with statuses st.
Return(s, st) == Leave(s, st) /\ Quiet /\ UNCHANGED errorClass

Become(s, new) == Return(s, [status EXCEPT ![s] = new])

\* Faulty: every step that waits is skipped.
SkipsAllWaiting(K, st, failed) ==
    K = {s \in Step : st[s] \in {"PENDING", "READY"}}

\* skipDependents(failed): every PENDING or READY step that depends on failed,
\* or on a step that is or becomes SKIPPED, becomes SKIPPED.  The graph has no
\* cycle, so K is unique.
IsSkipSet(K, st, failed) ==
    K = {s \in Step :
            /\ st[s] \in {"PENDING", "READY"}
            /\ \/ failed \in def(s).depends_on
               \/ \E d \in def(s).depends_on : st[d] = "SKIPPED" \/ d \in K}

Skipping(st, K) == [s \in Step |-> IF s \in K THEN "SKIPPED" ELSE st[s]]

\* markStepFailed, then skipDependents when skips, then return.
Fail(s, class, skips) ==
    LET st == [status EXCEPT ![s] = "FAILED"]
    IN  /\ errorClass' = [errorClass EXCEPT ![s] = class]
        /\ \/ ~skips /\ Leave(s, st)
           \/ skips /\ \E K \in SUBSET Step :
                          IsSkipSet(K, st, s) /\ Leave(s, Skipping(st, K))
        /\ Quiet

\* Faulty: a FATAL error does not override on_failure continue.
FatalContinues(s, class) == def(s).on_failure # "continue"

\* handleFailurePolicy skips the dependents.
PolicySkips(s, class) == class = "fatal" \/ def(s).on_failure # "continue"

FailByPolicy(s, class) == Fail(s, class, PolicySkips(s, class))

\* A management directive abort_workflow: the reason is overwritten, the abort
\* event fires once.
AbortByManagement(s) ==
    /\ Leave(s, status)
    /\ abortReason' = "management"
    /\ Signal(~aborted, 0)
    /\ UNCHANGED errorClass

\* Suspend at await a, carrying h.
Suspend(s, a, h) ==
    /\ at' = [at EXCEPT ![s] = a]
    /\ held' = [held EXCEPT ![s] = h]
    /\ Quiet
    /\ UNCHANGED <<status, errorClass, recorded, runningCount>>

\* The awaits between the head of the lifecycle's loop and the worker.
AfterPreStep(s) == IF def(s).inputs THEN "inputs" ELSE "run"

AfterLock(s, iteration) ==
    IF iteration >= 2 /\ LifecycleHook(s, "pre_step") THEN "pre_step"
    ELSE AfterPreStep(s)

FirstAwait(s, iteration) ==
    IF wf.branch_lock THEN "lock" ELSE AfterLock(s, iteration)

\* Go on to await a; when that is the worker, the step becomes RUNNING and the
\* loop is notified, aborted or not.
Advance(s, a) ==
    /\ at' = [at EXCEPT ![s] = a]
    /\ held' = [held EXCEPT ![s] = "none"]
    /\ status' = IF a = "run" THEN [status EXCEPT ![s] = "RUNNING"] ELSE status
    /\ Signal(FALSE, IF a = "run" THEN 1 ELSE 0)
    /\ UNCHANGED <<errorClass, recorded, runningCount, abortReason>>

\* The head of the loop: bail out when aborted.
LoopHead(s, iteration) ==
    IF aborted THEN Return(s, status) ELSE Advance(s, FirstAwait(s, iteration))

-----------------------------------------------------------------------------
(* The lifecycle of a step, await by await. *)

\* await assertBranchLock: the repository is, or is not, on its branch.
BranchLockChecked(s) ==
    /\ at[s] = "lock"
    /\ \/ Advance(s, AfterLock(s, count[s].iteration))
       \/ Fail(s, "fatal", TRUE)
    /\ UNCHANGED count

\* The pre_step hook of iterations >= 2.  An answer is ignored once aborted; a
\* failing invocation is not, it lets the step proceed.
IterationPreStepAnswered(s) ==
    /\ at[s] = "pre_step"
    /\ \/ Advance(s, AfterPreStep(s))               \* proceed, or it throws
       \/ aborted /\ Return(s, status)
       \/ ~aborted /\ Become(s, "OMITTED")          \* skip
       \/ ~aborted /\ AbortByManagement(s)
    /\ UNCHANGED count

\* await resolveInputs, which may throw out of the lifecycle.
InputsResolved(s) ==
    /\ at[s] = "inputs"
    /\ \/ Advance(s, "run")
       \/ Return(s, status)
    /\ UNCHANGED count

\* Faulty: one retry too many.
RetriesOnceMore(s) ==
    def(s).on_failure = "retry" /\ count[s].retries <= def(s).max_retries

MayRetry(s) ==
    def(s).on_failure = "retry" /\ count[s].retries < def(s).max_retries

\* A FAILED result of class: FATAL aborts, otherwise retry while the policy
\* allows it.
FailOrRetry(s, class) ==
    \/ /\ class # "fatal" /\ MayRetry(s)
       /\ count' = [count EXCEPT ![s].retries = @ + 1]
       /\ Suspend(s, "backoff", class)
    \/ /\ class = "fatal" \/ ~MayRetry(s)
       /\ FailByPolicy(s, class)
       /\ UNCHANGED count

\* The part of a lifecycle after the work succeeded and the expected branch is
\* up to date: complete the step or start its completion check.
WorkDone(s) ==
    \/ /\ def(s).completion_check
       /\ status' = [status EXCEPT ![s] = "CHECKING"]
       /\ at' = [at EXCEPT ![s] =
                    IF LifecycleHook(s, "pre_check") /\ ~aborted
                    THEN "pre_check" ELSE "check"]
       /\ held' = [held EXCEPT ![s] = "none"]
       /\ Signal(FALSE, 1)
       /\ UNCHANGED <<errorClass, recorded, runningCount, abortReason>>
    \/ /\ ~def(s).completion_check /\ def(s).outputs /\ ~def(s).subworkflow
       /\ Suspend(s, "outputs", "none")
    \/ /\ ~def(s).completion_check /\ (~def(s).outputs \/ def(s).subworkflow)
       /\ Become(s, "SUCCEEDED")

WorkSucceeded(s) ==
    IF s \in wf.branch_transition THEN Suspend(s, "branch", "none")
    ELSE WorkDone(s)

\* stepRunner.runStep settles: a SUCCEEDED or FAILED result, an exception, or
\* an abort by the sentinel, which counts as a failure of a configured class.
WorkerReturned(s) ==
    /\ at[s] = "run" /\ ~def(s).subworkflow
    /\ \/ aborted /\ Return(s, status) /\ UNCHANGED count
       \/ ~aborted /\ WorkSucceeded(s) /\ UNCHANGED count
       \/ ~aborted /\ \E class \in ErrorClass : FailOrRetry(s, class)
       \/ ~aborted /\ Fail(s, "fatal", TRUE) /\ UNCHANGED count     \* throws

WorkerStalled(s) ==
    /\ at[s] = "run" /\ ~def(s).subworkflow /\ def(s).stall
    /\ \E class \in ErrorClass :
          \/ /\ LifecycleHook(s, "on_stall")
             /\ Suspend(s, "on_stall", class) /\ UNCHANGED count
          \/ ~LifecycleHook(s, "on_stall") /\ ~aborted /\ FailOrRetry(s, class)

\* The on_stall hook replaces or confirms the sentinel's action.  An exception
\* of the hook leaves the lifecycle.
OnStallAnswered(s) ==
    /\ at[s] = "on_stall"
    /\ \/ Return(s, status) /\ UNCHANGED count           \* aborted, or it throws
       \/ ~aborted /\ LoopHead(s, count[s].iteration) /\ UNCHANGED count \* retry
       \/ ~aborted /\ AbortByManagement(s) /\ UNCHANGED count
       \/ ~aborted /\ FailOrRetry(s, held[s])

BackoffOver(s) ==
    /\ at[s] = "backoff"
    /\ LoopHead(s, count[s].iteration)
    /\ UNCHANGED count

\* await maybeUpdateExpectedBranchAfterTransition
BranchUpdated(s) ==
    /\ at[s] = "branch"
    /\ WorkDone(s) \/ Fail(s, "fatal", TRUE)
    /\ UNCHANGED count

\* collectOutputs of a step without a completion check; it may throw.
OutputsCollected(s) ==
    /\ at[s] = "outputs"
    /\ Become(s, "SUCCEEDED") \/ Return(s, status)
    /\ UNCHANGED count

-----------------------------------------------------------------------------
(* The run of a child workflow by a subworkflow step. *)

\* Map the child's status to the step's.
ChildMapped(s, child) ==
    \/ child = "child_succeeded" /\ WorkSucceeded(s) /\ UNCHANGED count
    \/ child = "child_cancelled" /\ Become(s, "CANCELLED") /\ UNCHANGED count
    \/ child = "child_fatal" /\ FailByPolicy(s, "fatal") /\ UNCHANGED count
    \/ child = "child_failed" /\ FailOrRetry(s, "non_retryable")

\* The child executor settles; loading it or its recursion guard may throw.
ChildReturned(s) ==
    /\ at[s] = "run" /\ def(s).subworkflow
    /\ \/ aborted /\ Return(s, status) /\ UNCHANGED count
       \/ ~aborted /\ \E class \in {"fatal", "non_retryable"} :
                         FailOrRetry(s, class)
       \/ /\ ~aborted
          /\ \E child \in {"child_succeeded", "child_failed", "child_fatal",
                           "child_cancelled"} :
                IF def(s).outputs
                THEN Suspend(s, "exports", child) /\ UNCHANGED count
                ELSE ChildMapped(s, child)

\* copyExports swallows its errors.
ExportsCopied(s) ==
    /\ at[s] = "exports"
    /\ ChildMapped(s, held[s])

-----------------------------------------------------------------------------
(* The completion check loop. *)

\* pre_check: an abort directive is obeyed even after an abort.
PreCheckAnswered(s) ==
    /\ at[s] = "pre_check"
    /\ Suspend(s, "check", "none") \/ AbortByManagement(s)
    /\ UNCHANGED count

\* Not complete at the iteration limit, or once more round the loop.
Iterate(s, counted) ==
    \/ /\ count[s].iteration >= def(s).max_iterations
       /\ count' = counted
       /\ IF def(s).on_iterations_exhausted = "abort"
          THEN Fail(s, "none", TRUE) ELSE Become(s, "INCOMPLETE")
    \/ /\ count[s].iteration < def(s).max_iterations
       /\ count' = [counted EXCEPT ![s].iteration = @ + 1, ![s].retries = 0]
       /\ LoopHead(s, count[s].iteration + 1)

\* Act on the effective decision of the completion check.
Decide(s, decision) ==
    \/ decision = "complete" /\ Become(s, "SUCCEEDED") /\ UNCHANGED count
    \/ /\ decision = "infra" /\ count[s].infra + 1 >= InfraFailureLimit
       /\ count' = [count EXCEPT ![s].infra = @ + 1]
       /\ Fail(s, "none", def(s).on_failure # "continue")
    \/ /\ \/ decision = "incomplete"
          \/ decision = "infra" /\ count[s].infra + 1 < InfraFailureLimit
       /\ LET counted == [count EXCEPT ![s].infra =
                             IF decision = "infra" THEN @ + 1 ELSE 0]
          IN  IF def(s).convergence
              THEN Suspend(s, "converge", "none") /\ count' = counted
              ELSE Iterate(s, counted)

Guarded(s, decision) ==
    IF LifecycleHook(s, "post_check") /\ ~aborted
    THEN Suspend(s, "post_check", decision) /\ UNCHANGED count
    ELSE Decide(s, decision)

\* Past the collection of outputs: an error class stands for a check that threw
\* or stalled, "failed" for a check that reported a failure.
CheckSettled(s, outcome) ==
    \/ outcome \in ErrorClass /\ FailByPolicy(s, outcome) /\ UNCHANGED count
    \/ /\ outcome = "failed"
       /\ Fail(s, "none", def(s).on_failure = "abort") /\ UNCHANGED count
    \/ /\ outcome \notin ErrorClass \cup {"failed"}
       /\ IF def(s).scope_guard
          THEN Suspend(s, "guards", outcome) /\ UNCHANGED count
          ELSE Guarded(s, outcome)

Collecting(s, outcome) ==
    IF def(s).outputs /\ ~def(s).subworkflow
    THEN Suspend(s, "collect", outcome) /\ UNCHANGED count
    ELSE CheckSettled(s, outcome)

\* stepRunner.runCheck settles.  After an abort a decision and an exception are
\* dropped, a sentinel stall with an error class is not.
CheckReturned(s) ==
    /\ at[s] = "check"
    /\ \/ aborted /\ Return(s, status) /\ UNCHANGED count
       \/ ~aborted /\ \E decision \in {"complete", "incomplete", "infra", "failed"} :
                         Collecting(s, decision)
       \/ ~aborted /\ Collecting(s, "fatal")                   \* it throws
       \/ /\ def(s).stall
          /\ \E class \in ErrorClass : Collecting(s, class)

\* collectOutputs may throw out of the lifecycle.
CheckOutputsCollected(s) ==
    /\ at[s] = "collect"
    /\ \/ CheckSettled(s, held[s])
       \/ Return(s, status) /\ UNCHANGED count

\* applyConvergenceGuards: a violated scope turns complete into incomplete.
GuardsApplied(s) ==
    /\ at[s] = "guards"
    /\ \/ Guarded(s, held[s])
       \/ held[s] = "complete" /\ Guarded(s, "incomplete")
       \/ Fail(s, "none", def(s).on_failure # "continue") /\ UNCHANGED count

\* post_check may override the decision; the source of an infrastructure
\* failure stays what it was.
PostCheckAnswered(s) ==
    /\ at[s] = "post_check"
    /\ \/ Decide(s, held[s])
       \/ Decide(s, "complete")
       \/ held[s] = "complete" /\ Decide(s, "incomplete")
       \/ AbortByManagement(s) /\ UNCHANGED count

\* updateConvergenceState: the step may be failed at its last stage, and the
\* file writes may throw.
ConvergenceUpdated(s) ==
    /\ at[s] = "converge"
    /\ \/ Iterate(s, count)
       \/ Fail(s, "none", def(s).on_failure # "continue") /\ UNCHANGED count
       \/ Return(s, status) /\ UNCHANGED count

-----------------------------------------------------------------------------
(* The rest of the finally block. *)

PostStepAnswered(s) ==
    /\ at[s] = "post_step"
    /\ at' = [at EXCEPT ![s] = "meta"]
    /\ recorded' = [recorded EXCEPT ![s] = status[s]]
    /\ \/ UNCHANGED <<abortReason, loop, pending>>
       \/ abortReason' = "management" /\ Signal(~aborted, 0)
    /\ UNCHANGED <<status, count, errorClass, held, runningCount>>

MetaWritten(s) ==
    /\ at[s] = "meta"
    /\ at' = [at EXCEPT ![s] = "ended"]
    /\ Signal(FALSE, 1)
    /\ UNCHANGED <<status, count, errorClass, held, recorded, runningCount,
                   abortReason>>

LifecycleStep(s) ==
    /\ \/ BranchLockChecked(s) \/ IterationPreStepAnswered(s)
       \/ InputsResolved(s) \/ WorkerReturned(s) \/ WorkerStalled(s)
       \/ OnStallAnswered(s) \/ BackoffOver(s) \/ BranchUpdated(s)
       \/ OutputsCollected(s) \/ ChildReturned(s) \/ ExportsCopied(s)
       \/ PreCheckAnswered(s) \/ CheckReturned(s) \/ CheckOutputsCollected(s)
       \/ GuardsApplied(s) \/ PostCheckAnswered(s) \/ ConvergenceUpdated(s)
       \/ PostStepAnswered(s) \/ MetaWritten(s)
    /\ UNCHANGED <<wf, hookVars, result>>

-----------------------------------------------------------------------------
(* Launching. *)

NeedsPreStepHook(s) == "pre_step" \in def(s).hooks /\ preStep[s] = "not_asked"

\* Faulty: the slot is not looked for again after the hook was awaited.
SlotTakenForGranted == TRUE

SlotFree == runningCount < wf.concurrency

\* invokePreStepHook, from the answer on.  skip, abort_workflow and an
\* exception end it; otherwise the step is launched if a slot is free.
PreStepAnswered(s) ==
    /\ preStep[s] = "in_flight"
    /\ preStep' = [preStep EXCEPT ![s] = "answered"]
    /\ preStepHookInFlight' = preStepHookInFlight - 1
    /\ \/ /\ ~aborted /\ status[s] = "READY"                        \* skip
          /\ status' = [status EXCEPT ![s] = "OMITTED"]
          /\ Signal(FALSE, 2)
          /\ UNCHANGED <<at, count, runningCount, abortReason>>
       \/ /\ ~aborted                                     \* abort_workflow
          /\ abortReason' = "management"
          /\ Signal(TRUE, 1)
          /\ UNCHANGED <<status, at, count, runningCount>>
       \/ /\ Signal(FALSE, 1)                    \* it throws, or no slot free
          /\ UNCHANGED <<status, at, count, runningCount, abortReason>>
       \/ /\ ~aborted /\ status[s] = "READY"                \* launchStep
          /\ SlotFree
          /\ status' = [status EXCEPT ![s] = "RUNNING"]
          /\ count' = [count EXCEPT ![s].iteration = 1]
          /\ runningCount' = runningCount + 1
          /\ at' = [at EXCEPT ![s] = FirstAwait(s, 1)]
          /\ Signal(FALSE, IF FirstAwait(s, 1) = "run" THEN 2 ELSE 1)
          /\ UNCHANGED abortReason
    /\ UNCHANGED <<wf, errorClass, held, recorded, result>>

\* updateReadySteps: K are the PENDING steps it skips.  It visits the steps in
\* definition order, so a step sees the skips of earlier steps only.
IsSkipPass(K) ==
    K = {s \in Step :
            /\ status[s] = "PENDING"
            /\ \E d \in def(s).depends_on :
                  DepBlocksDownstream(status, d) \/ (d < s /\ d \in K)}

\* Faulty: one dependency that lets a step proceed is enough.
UpdatedEagerly(K) ==
    [s \in Step |->
        IF s \in K THEN "SKIPPED"
        ELSE IF /\ status[s] = "PENDING"
                /\ \/ def(s).depends_on = {}
                   \/ \E d \in def(s).depends_on : DepAllowsProgress(status, d)
             THEN "READY" ELSE status[s]]

Updated(K) ==
    [s \in Step |->
        IF s \in K THEN "SKIPPED"
        ELSE IF /\ status[s] = "PENDING"
                /\ \A d \in def(s).depends_on : DepAllowsProgress(status, d)
             THEN "READY" ELSE status[s]]

\* launchReadySteps: the READY steps it may launch, and those whose pre_step
\* hook comes first.  After an abort a launched lifecycle gives its slot back
\* before the next step is looked at.
Launchable(st) ==
    {s \in Step : st[s] = "READY" /\ preStep[s] # "in_flight"
                  /\ ~NeedsPreStepHook(s)}

Askable(st) == {s \in Step : st[s] = "READY" /\ NeedsPreStepHook(s)}

FreeSlots ==
    IF ~aborted THEN wf.concurrency - runningCount
    ELSE IF runningCount < wf.concurrency THEN Cardinality(Step) ELSE 0

\* A lifecycle started after an abort returns at once.
Launched(st, L) ==
    [s \in Step |->
        IF s \notin L THEN st[s]
        ELSE IF aborted /\ def(s).subworkflow THEN "CANCELLED" ELSE "RUNNING"]

LaunchLifecycles(st, L) ==
    /\ count' = [s \in Step |->
                    IF s \in L THEN [count[s] EXCEPT !.iteration = 1]
                    ELSE count[s]]
    /\ at' = [s \in Step |->
                 IF s \notin L THEN at[s]
                 ELSE IF aborted THEN "meta" ELSE FirstAwait(s, 1)]
    /\ recorded' = [s \in Step |->
                       IF s \in L /\ aborted THEN Launched(st, L)[s]
                       ELSE recorded[s]]
    /\ runningCount' = runningCount + IF aborted THEN 0 ELSE Cardinality(L)

AskPreStep(H) ==
    /\ preStep' = [s \in Step |-> IF s \in H THEN "in_flight" ELSE preStep[s]]
    /\ preStepHookInFlight' = preStepHookInFlight + Cardinality(H)

-----------------------------------------------------------------------------
(* The scheduling loop. *)

AllTerminal(st) == \A s \in Step : IsTerminal(st, s)

\* Faulty: a step that settled otherwise than SUCCEEDED is cancelled, too.
TimedOutAll(st) ==
    [s \in Step |->
        CASE st[s] \in {"PENDING", "READY"} -> "SKIPPED"
          [] st[s] = "SUCCEEDED" -> st[s]
          [] OTHER -> "CANCELLED"]

\* handleWorkflowTimeout
TimedOut(st) ==
    [s \in Step |->
        CASE st[s] \in {"RUNNING", "CHECKING"} -> "CANCELLED"
          [] st[s] \in {"PENDING", "READY"} -> "SKIPPED"
          [] OTHER -> st[s]]

\* Faulty: the reason of an abort is returned as the status.
ReasonAsResult(st) == IF aborted THEN abortReason ELSE "SUCCEEDED"

\* computeWorkflowStatus
ResultOf(st) ==
    IF aborted
    THEN IF abortReason \in {"external", "management"} THEN "CANCELLED"
         ELSE "TIMED_OUT"
    ELSE IF \E s \in Step : st[s] = "FAILED" THEN "FAILED"
    ELSE IF \E s \in Step : st[s] = "CANCELLED" THEN "CANCELLED"
    ELSE "SUCCEEDED"

Exit(st) ==
    /\ loop' = "exited"
    /\ result' = ResultOf(st)

\* The head of schedulingLoop with statuses st, up to the next await: exit,
\* or cancel and drain, or wait for a notification, unless one is pending.
AwaitNotification(st, notified) ==
    \/ /\ AllTerminal(st)
       /\ status' = st /\ pending' = FALSE /\ Exit(st)
    \/ /\ ~AllTerminal(st) /\ aborted
       /\ status' = TimedOut(st)
       /\ pending' = FALSE
       /\ IF runningCount' = 0 THEN Exit(TimedOut(st))
          ELSE loop' = "draining" /\ UNCHANGED result
    \/ /\ ~AllTerminal(st) /\ ~aborted
       /\ status' = st
       /\ loop' = IF notified THEN "woken" ELSE "waiting"
       /\ pending' = FALSE
       /\ UNCHANGED result

\* Faulty: a step that updateReadySteps skips is no reason for another turn.
SkipsUnnoticed(K, L) ==
    pending \/ (~aborted /\ \E s \in L : FirstAwait(s, 1) = "run")

\* notify() was called since the last wait: by a lifecycle, or in this turn,
\* for the steps K it skipped and the steps L it launched.
Notified(K, L) ==
    \/ pending \/ K # {}
    \/ ~aborted /\ \E s \in L : FirstAwait(s, 1) = "run"

\* One turn: updateReadySteps, launchReadySteps, the head of the loop.  The
\* abort flag is looked at in the head only.
SchedulerTurn ==
    /\ loop \in {"start", "woken"}
    /\ \E K \in SUBSET Step :
          /\ IsSkipPass(K)
          /\ \E L \in SUBSET Launchable(Updated(K)),
                H \in SUBSET Askable(Updated(K)) :
                /\ IsFirst(L, Launchable(Updated(K)), FreeSlots)
                /\ IsFirst(H, Askable(Updated(K)),
                           PreStepHookLimit - preStepHookInFlight)
                /\ LaunchLifecycles(Updated(K), L)
                /\ AskPreStep(H)
                /\ AwaitNotification(Launched(Updated(K), L), Notified(K, L))
    /\ UNCHANGED <<wf, errorClass, held, abortReason>>

\* Faulty: the drain gives up on steps that still run.
DrainGivesUp ==
    /\ loop = "draining"
    /\ Exit(status)
    /\ UNCHANGED <<wf, stepVars, hookVars, runningCount, abortReason, pending>>

\* The drain polls runningCount.
Drained ==
    /\ loop = "draining" /\ runningCount = 0
    /\ Exit(status)
    /\ UNCHANGED <<wf, stepVars, hookVars, runningCount, abortReason, pending>>

\* The workflow timer, set when the loop starts and cleared when it ends.
Timeout ==
    /\ loop \notin {"start", "exited"} /\ ~aborted
    /\ abortReason' = "timeout"
    /\ Signal(TRUE, 0)
    /\ UNCHANGED <<wf, stepVars, hookVars, runningCount, result>>

\* The caller's abort signal, which may be aborted before the loop starts.
ExternalAbort ==
    /\ loop # "exited" /\ ~aborted
    /\ abortReason' = "external"
    /\ Signal(TRUE, 0)
    /\ UNCHANGED <<wf, stepVars, hookVars, runningCount, result>>

Terminated ==
    /\ loop = "exited"
    /\ \A s \in Step : at[s] \in {"idle", "ended"} /\ preStep[s] # "in_flight"
    /\ UNCHANGED vars

-----------------------------------------------------------------------------
(* The specification. *)

Init ==
    /\ wf \in Workflows
    /\ status = [s \in Step |-> "PENDING"]
    /\ count = [s \in Step |-> [iteration |-> 0, retries |-> 0, infra |-> 0]]
    /\ errorClass = [s \in Step |-> "none"]
    /\ at = [s \in Step |-> "idle"]
    /\ held = [s \in Step |-> "none"]
    /\ recorded = [s \in Step |-> "none"]
    /\ preStep = [s \in Step |-> "not_asked"]
    /\ runningCount = 0
    /\ preStepHookInFlight = 0
    /\ abortReason = "null"
    /\ loop = "start"
    /\ pending = FALSE
    /\ result = "none"

Next ==
    \/ SchedulerTurn \/ Drained \/ Timeout \/ ExternalAbort
    \/ \E s \in Step : LifecycleStep(s) \/ PreStepAnswered(s)
    \/ Terminated

Spec == Init /\ [][Next]_vars

\* The event loop runs the scheduler, and every await of a lifecycle and every
\* hook settles: workers, checks, hooks and sleeps have timeouts of their own.
\* Neither the workflow timer nor a caller's abort is assumed.
FairSpec ==
    /\ Spec
    /\ WF_vars(SchedulerTurn) /\ WF_vars(Drained)
    /\ \A s \in Step : WF_vars(LifecycleStep(s)) /\ WF_vars(PreStepAnswered(s))

-----------------------------------------------------------------------------
(* Correctness. *)

\* Every variable stays in its range.
TypeOK ==
    /\ wf \in Workflow
    /\ status \in [Step -> StepStatus]
    /\ count \in [Step -> [iteration : Nat, retries : Nat, infra : Nat]]
    /\ errorClass \in [Step -> ErrorClass \cup {"none"}]
    /\ at \in [Step -> Await]
    /\ held \in [Step -> Held]
    /\ recorded \in [Step -> StepStatus \cup {"none"}]
    /\ preStep \in [Step -> {"not_asked", "in_flight", "answered"}]
    /\ runningCount \in Int
    /\ preStepHookInFlight \in Int
    /\ abortReason \in {"null", "timeout", "external", "management"}
    /\ loop \in {"start", "waiting", "woken", "draining", "exited"}
    /\ pending \in BOOLEAN
    /\ result \in WorkflowStatus \cup {"none"}

\* The counters say what they are meant to say, and the limits hold: a slot is
\* taken at two places (launchReadySteps, and invokePreStepHook after an await)
\* and given back in the finally block only.
SlotsAccounted ==
    /\ runningCount = Cardinality(Holders)
    /\ runningCount <= wf.concurrency
    /\ preStepHookInFlight = Cardinality(InFlightHooks)
    /\ preStepHookInFlight <= PreStepHookLimit

\* A step that was launched had, and keeps having, dependencies that let it
\* proceed; a dependency that failed with a FATAL error never does.
DependenciesRespected ==
    \A s \in Step : at[s] # "idle" =>
        \A d \in def(s).depends_on :
            DepAllowsProgress(status, d) /\ errorClass[d] # "fatal"

\* A step is skipped only for a dependency that failed, was cancelled or was
\* itself skipped, or because the workflow was aborted.
SkipsJustified ==
    \A s \in Step : status[s] = "SKIPPED" =>
        \/ aborted
        \/ \E d \in def(s).depends_on :
              status[d] \in {"FAILED", "CANCELLED", "SKIPPED"}

\* Once the lifecycle of a step has released its slot with a terminal status,
\* or the step ended without one, nobody changes that status any more, whatever
\* hooks, timers and other steps do.
SettledStatusFinal ==
    [][\A s \in Step :
          at[s] \notin SlotAwait /\ IsTerminal(status, s)
              => status'[s] = status[s]]_vars

\* When the loop has ended no lifecycle holds a slot any more, hence no worker
\* and no completion check is running.
QuietAtExit == loop = "exited" => Holders = {}

\* A workflow is not reported as SUCCEEDED with a failed, cancelled, skipped or
\* unfinished step, and not as FAILED without a failed one.
ResultFaithful ==
    /\ result = "SUCCEEDED" =>
          \A s \in Step : status[s] \in {"SUCCEEDED", "INCOMPLETE", "OMITTED"}
    /\ result = "FAILED" => \E s \in Step : status[s] = "FAILED"

\* Without an abort the meta file of a step that ended records the status the
\* step keeps.
RecordFaithful ==
    ~aborted => \A s \in Step : at[s] = "ended" => recorded[s] = status[s]

\* What is left when a step or the workflow has ended: no activity that nobody
\* waits for, a true record, and a result that the steps' statuses account for.
ExitFaithful == QuietAtExit /\ RecordFaithful /\ ResultFaithful

\* Retries and iterations stay within the definition, and a second
\* infrastructure failure in a row ends the step.
WorkBounded ==
    \A s \in Step :
        /\ count[s].iteration <= def(s).max_iterations
        /\ count[s].retries <= def(s).max_retries
        /\ at[s] \in SlotAwait => count[s].infra < InfraFailureLimit

\* A lifecycle left by an exception: its step stays RUNNING or CHECKING.
Stranded(s) == at[s] \in {"meta", "ended"} /\ ~IsTerminal(status, s)

\* No wake-up is lost: without any timer the workflow ends, or a lifecycle
\* was left by an exception (then only the workflow timer ends it).
EndsUnlessStranded == <>(loop = "exited" \/ \E s \in Step : Stranded(s))

\* An abort, whoever asks for it and whenever, ends the workflow.
AbortEnds == aborted ~> loop = "exited"

-----------------------------------------------------------------------------
(* The abstract schedule it implements. *)

\* A step is active while its lifecycle holds a slot; a lifecycle that ended
\* on any other than a passing status blocks what depends on it.
PhaseOf(s) ==
    IF at[s] \in SlotAwait THEN "active"
    ELSE IF status[s] \in {"PENDING", "READY"} THEN "waiting"
    ELSE IF status[s] \in {"SUCCEEDED", "INCOMPLETE", "OMITTED"} THEN "passed"
    ELSE IF /\ status[s] = "FAILED" /\ def(s).on_failure = "continue"
            /\ errorClass[s] # "fatal" THEN "failed"
    ELSE "blocked"

Schedule == INSTANCE StepSchedule
    WITH depends <- [s \in Step |-> def(s).depends_on],
         limit <- wf.concurrency,
         phase <- [s \in Step |-> PhaseOf(s)],
         stopped <- aborted

\* The executor keeps the promises of StepSchedule.
KeepsSchedule == Schedule!Spec

-----------------------------------------------------------------------------
(* What documents say and the code does not do. *)

\* docs/workflow-design.md:856: the workflow completes when all steps are
\* terminal.
TerminalAtExit == loop = "exited" => AllTerminal(status)
=============================================================================
