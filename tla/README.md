# roboppi in TLA+

TLA+ modules for the program in this repository: what its concurrent parts do,
model-checked with TLC on small instances, and theorems about them proved with
TLAPS for every instance. The source under `src/src` is the reference; a
definition names the code it stands for in `PROJECT.json` ("map"), and every
hazard listed there names the properties that would catch it.

## 1. The system

roboppi runs workflows of AI-agent steps. Policy and mechanism are separate
processes: a parent (workflow executor, scheduler or daemon) decides what runs,
a child process, the Core, grants permits and owns the worker processes, and
both talk JSON lines over the child's stdin and stdout.

    event sources ──> daemon (triggers) ──> workflow executor
                                               │  ▲ directives, stall aborts
                                               │  └── management agent, sentinel
                                               v
                              step runner ─────┐   completion checks
    scheduler (queue, retry, DLQ) ─ supervisor ┤ JSON lines (channel)
                                               v
                          Core: permits, budget, jobs, worker gateway
                                               v
                                worker processes (own process groups)
    agents: task store, mailbox, event log, coordinator: files shared by the
            steps, their agents and the command line

### Inventory

| Component (`src/src/...`) | State it keeps | Operations | Hard part | Correct when |
|---|---|---|---|---|
| Workflow executor `workflow/executor.ts` | step statuses, retries and iterations, slot and hook counters, abort reason, wake-up flag | scheduling loop, step and subworkflow lifecycle, failure policy, completion check, management hooks, timeout, abort | ~20 awaits per lifecycle, all interleaved with timer, aborts and other steps | dependencies respected, slots exact, skips justified, result faithful, settled steps settled, it ends |
| Workflow loading `workflow/parser.ts`, `dag-validator.ts`, ... | none | parse, validate | - | the DAG assumption of the executor |
| Context store `workflow/context-manager.ts` | files per step | resolve inputs, collect outputs, write metadata | failures half-way | metadata records the final status |
| Step runners `workflow/core-ipc-step-runner.ts`, ... | waiters and cancel flag per run | submit, ask for a permit, wait, cancel, give up | two processes, messages in flight, timeouts and aborts at any await | no worker without a supervisor, every run returns |
| Completion checks `workflow/completion-decision.ts` | the decision file | stat, read, parse, decide | the file outlives its check and may be shared | an answer counts for the check it was given to |
| Sentinel `workflow/sentinel/` | activity times, probe counters, trigger | watch, probe, record, abort | a decision is acted on two awaits later | a stall is justified by what was observed; what hangs is ended |
| Management `workflow/management/` | interventions in a row, session, captured decision | hook, prompt, tool call, directive | concurrent hooks share one session; answers after the timeout | a directive belongs to its hook, limits hold, hooks return |
| Core `core/agentcore.ts`, `permit-gate.ts`, `execution-budget.ts`, `backpressure.ts` | jobs, permits by job, active permits, slots, cost, rate window, load level | submit, cancel, request permit, metrics, deadline, result, shutdown | a permit may be ended by four different events in any order | budget exact, workers reachable, every worker reported |
| Worker gateway and adapters `worker/`, `core/job-event-throttle.ts` | active handles, processes, workspace locks, output | delegate, cancel, await, lock, throttle | expiring locks, processes that ignore signals, output read after the exit | nothing left behind, no wake-up lost, output complete |
| Watchdog, escalation `core/watchdog.ts`, `escalation-manager.ts` | metric sources, state, event history | tick, evaluate, escalate | thresholds over windows | escalates once per cause |
| Scheduler `scheduler/index.ts`, `job-queue.ts`, `inflight-registry.ts`, `retry-policy.ts` | heap, key registry, known jobs, timers | submit (deduplicated), process, complete, retry, drain | calls that time out, late answers, keys given up too early | no job forgotten, keys owned, no lost wake-up |
| Dead letters `scheduler/dlq.ts` | a bounded list and its file | push, pop, clear, load | restarts, failed writes | a restart gives back what is in memory |
| Supervisor `scheduler/supervisor.ts`, `health-check.ts` | child, connection, checker, restarts | spawn, restart, kill, check | start, shutdown and two kinds of restart at once | one Core, and a mute one is replaced |
| IPC `ipc/` | pending requests, stream buffer | write, cut into lines, dispatch, time out, close | chunks, oversized lines, replaced waiters | each message once and in order, each waiter answerable |
| Daemon `daemon/daemon.ts`, `trigger-engine.ts`, `state-store.ts`, ... | trigger state, files, queue | handle event, gate, run, analyze, record, stop | read-modify-write around awaits; crash between writes; stop during a run | files agree, pauses and rates kept, stop ends |
| Event sources `daemon/events/` | timers, pending changes, buffer | emit, batch, merge, stop | a full buffer; stop with a batch pending | newest events kept, in order |
| Agents `agents/` | task files by status directory, mailboxes, event log, members | add, claim, complete, supersede, unblock, requeue, send, receive, acknowledge, reconcile | several processes on one directory; crash between rename and write; reconciliations that overlap | one claimer per task, no message lost, no member twice |
| Terminal UI `tui/`, command lines `cli.ts` ... | views | render, parse arguments | - | - |

`PROJECT.json` lists the same components with their files and how far each is
modelled.

## 2. The modules

| Module | Models | |
|---|---|---|
| `WorkflowExecutor` | `workflow/executor.ts` | state machine, properties |
| `StepSchedule` | what any DAG executor promises | abstract specification |
| `CompletionCheck` | `completion-decision.ts`, `runCheck` of the three step runners | state machine, properties |
| `Sentinel` | `workflow/sentinel/` and what the executor makes of a stall | state machine, properties |
| `Management` | `workflow/management/` | state machine, properties |
| `AgentCore` | the Core process: IPC handlers, permit gate, budget, workers, shutdown | state machine, properties |
| `CoreStepRunner` | `runWorkerTask` of `core-ipc-step-runner.ts` and the two channels, composed with `AgentCore` | composition, properties |
| `Channel` | `ipc/json-lines-transport.ts`, `ipc/protocol.ts` | state machine, properties |
| `MessageLink` | what a link promises its users | abstract specification |
| `Workers` | `worker/`, `core/job-event-throttle.ts` | state machine, properties |
| `JobQueue` | the binary heap of `scheduler/job-queue.ts` | operators |
| `Scheduler` | `scheduler/index.ts` with registry, retry policy and the Core as it is observed; extends `JobQueue` | state machine, properties |
| `DeadLetterQueue` | `scheduler/dlq.ts` | state machine, properties |
| `Supervisor` | `scheduler/supervisor.ts`, `health-check.ts` | state machine, properties |
| `SchedulerServices` | one `Supervisor` and one `DeadLetterQueue`, as a Scheduler owns them | instances |
| `EventSources` | `daemon/events/` | state machine, properties |
| `Daemon` | the rest of `daemon/`; extends `EventSources` | composition, properties |
| `TaskStore` | `agents/task-store.ts`, `fs-atomic.ts`, the tasks half of `housekeeping.ts`, a resident agent's poll | state machine, properties |
| `Mailbox` | messages in `agents/store.ts`, the mailbox half of `housekeeping.ts`, `lead-inbox-broker.ts` | state machine, properties |
| `EventLog` | the append-only logs and the coordinator's tail | state machine, properties |
| `Team` | `agents/coordinator.ts`, `resident-agent.ts`, the members file | state machine, properties |
| `MCWorkflowExecutor`, `MCAgentCore`, `MCCoreStepRunner`, `MCTaskStore`, `MCServices`, `MCAgents`, `MCSupervision` | instances for TLC | |
| `WorkflowExecutorProofs`, `StepScheduleProofs`, `AgentCoreProofs`, `TaskStoreProofs` | theorems and proofs about the module of that name | |
| `CoreStepRunnerProofs` | theorems and proofs about `CoreStepRunner`, `CompletionCheck` and `Channel` | |
| `AgentsProofs` | theorems and proofs about `Mailbox`, `EventLog` and `Team` | |
| `SupervisionProofs` | theorems and proofs about `Sentinel`, `Management` and `Workers` | |
| `ServicesProofs` | theorems and proofs about `EventSources`, `Daemon`, `JobQueue`, `Scheduler`, `Supervisor` and `DeadLetterQueue` | |

`WorkflowExecutor` implements `StepSchedule` by a refinement mapping
(`KeepsSchedule`), and `Channel` implements `MessageLink` (`KeepsLink`). `CoreStepRunner`
extends `AgentCore` and `CoreStepRunnerProofs`
shows that it implements it: every step of the composition is a step of the
Core or leaves the Core alone. `Daemon` extends `EventSources`, whose buffer its
event loop reads. What a module takes for granted of its neighbour is the subject
of another one: the executor lets a run, a check, a hook or a stall end in any way
it can, and `CompletionCheck`, `Management` and `Sentinel` say which ways those
are; `CoreStepRunner` and `Scheduler` use FIFO channels of messages, the
`MessageLink` that `Channel` builds from bytes; `AgentCore` lets a worker end at some time after it
was told to, and `Workers` says when and with what.

Several `MC` modules hold instances of more than one module: a variable `scenario`,
chosen by `Init`, says which of them moves, and the others keep their initial state.

One convention holds in all modules. JavaScript runs to completion between two
awaits, so **one action is one turn of the event loop**: the code from one await
(or timer, or message) to the next. Awaits that settle without I/O, a timer or
another process are merged with the code in front of them. Definitions with a
comment "Faulty:" are plausible bugs; no behaviour of the specification uses
them, and each property is shown to be violated when its faulty form replaces
the right one ("mutants" in `PROJECT.json`). "History" variables are read by
properties only.

### WorkflowExecutor

`at[s]` is the await at which the lifecycle of step `s` is suspended and
`held[s]` what it carries across it; `loop` and `pending` are the promise and
the notification flag of `schedulingLoop`; `runningCount`, `preStep` and
`preStepHookInFlight` are the counters of the same names; `recorded` is the
status in a step's `_meta.json`. The definition executed (`wf`) is a variable
fixed by `Init`, so that one run covers a family of workflows.

`SchedulerTurn` is an iteration of the loop, with everything it does (ready,
skip, pre_step launches, launches); `LifecycleStep(s)` is the union of one
action per await of `runStepLifecycle` and of the subworkflow lifecycle;
`PreStepAnswered(s)` the answer to a hook asked before the launch; `Timeout`,
`ExternalAbort` and the management directives are the aborts; `Drained` the end
of the drain. Abstracted: durations, prompts, file contents. What runs in a
step is any result the executor can observe, in any order. `concurrency:
Infinity` is any limit of at least the number of steps.

### CompletionCheck

`def` says of each check which check of the same step came before it, and
whether its worker is a script; `Stat`, `ReadFile` and the writes of the workers
(`WriteFile`, at any time, also of a worker whose check is over) interleave, since
the file is stat'ed first and read later. An answer is JSON with an id or without,
a marker, or nothing that can be parsed. `WorkerSucceeds` takes what the worker
printed, `ScriptEnds` an exit code. The clock counts in ticks; the time of a file
is exact or rounded down to `Granularity`.

### Sentinel

Per guard (a run or a completion check of a step): `run`, `output` and `probe` are
the run and its two watchers, `trigger` what was recorded, `signal` who aborted it
and `outcome` what the executor makes of it. A watcher decides in `OutputCheck` or
`ProbeEnd`, awaits the write of `event.json`, and acts in `OutputAct` or `ProbeAct`;
`OutputWriteFails` and `ProbeWriteFails` are the writes that throw. `ran`, `heard`
and `read` keep what was really observed, for the properties.

### Management

`await[h]` is the await that the invocation of hook `h` is in, `answer[h]` the
directive it is about to return; `streak` is `consecutiveInterventions`; `session`,
`accepting` and `captured` are the fields of the Pi engine that concurrent hooks
share. `ToolCall` may come for a hook that is over (a prompt goes on after its
timeout) or with the id of another hook; `WorkerWrites` is the decision file of the
worker engine. `given` keeps what was decided under each hook's id.

### AgentCore

Each permit id carries the state that the code spreads over the maps of
`AgentCore`, `PermitGate` and `WorkerDelegationGateway`: `holder` and `cost`
(the permit record), `activePermits` (with a deadline timer each), `aborted`
(its signal), `worker` (`starting` inside `startTask`, `running` with a handle,
`over` when the result waits for its `.then`), `outcome`. The budget's counters
are variables of their own, so that "slots taken" and "permits active" are two
facts that may disagree. Permit ids are used again once nothing refers to them;
the code draws fresh UUIDs, and a permit nothing refers to can influence
nothing.

`SubmitJob`, `CancelJob`, `RequestPermit` and `ReportQueueMetrics` are the
handlers; `Deadline`, `WorkerStarts`, `WorkerEnds`, `WorkerReported`,
`Shutdown`, `ShutdownDone` and `WindowSlides` the timers and continuations.
`Verdict` is the chain of checks of `requestPermit` and `canIssue`. Any handler
may run at any time (an arbitrary client). A load report may set any level,
since it is the largest of three ratios of the client's numbers; a job without
cost hint has cost 0; the attempts are 0 and 1 against `maxAttempts`. `sent` is
what the last turn wrote, for a composition to deliver. An adapter's `startTask`
needs no I/O: the process is spawned synchronously, so a starting worker is
running or failed before the next message (`NoneStarting` in `Shutdown`).

### CoreStepRunner

One run per job: `phase[j]` is the await `runWorkerTask` is in (`submitting`,
`requesting`, `backoff`, `executing`, `grace` for the five seconds after a
cancellation, `failing` for the catch block). The two pipes are sequences. A
pipe neither loses nor reorders; what a timeout makes of it is an answer nobody
waits for, which `Answered` drops as `dispatch` does. `CoreReceives` hands the
head of the pipe to the handler of `AgentCore`; `CoreProceeds` is a turn the
Core takes of its own. Which runs may be aborted, time out or be late are
constants that bound the state space and nothing else.

### Channel

`pipe` and `buffer` are bytes: `ReadChunk(n)` reads up to `n` of them and runs the
body of `readLoop`, which cuts lines, drops a buffer that is too long up to its
next newline, and dispatches. `pending` is the map of requests, `waiter` the calls
of `waitForResponse`; a timeout removes the entry in one turn and its caller
continues in another (`Timeout`, `CleanUp`). `OtherText` is output of the process
that is no message. `EndOfStream` and `StopProtocol` reject what is pending. A reader that
fails while bytes are unread is left out.

`MessageLink` knows no bytes. A message is on the `way` until a `Receive` takes it
off, always one of the first that are there; what is taken is received in the order in
which it was sent, unless it is `excused`. The mapping in `Channel` counts a
message as on its way while the pipe or the buffer has a byte of it (`OnWay`), and
excuses the messages behind text without a newline and those near the limit
(`Excused`), the two exceptions of `DeliveredOnce`. `EndLosesNothing` says that the
exit of the other process rejects no request whose answer was written before.

### Workers

A task is also its permit, its handle and its process. `at[t]` is the await of its
delegation, `lock` and `waiters` the workspace locks, `proc` the process, `shut` how
far `gracefulShutdown` is (SIGTERM, grace, SIGKILL, giving up), `out` what the
process has written and `got` what was read of it. `Delegate` is the gateway's or
the direct runner's entry, `Drained` the end of the output, `Return` the `finally`
blocks; a process may ignore SIGTERM (`Escalate`, `GiveUp`) or leave a descendant
behind that keeps the output open. `throttle` is the job event throttle of a
streamed task.

Two adapters override parts of the base class. The Claude Code adapter makes the result
of what its stream loop has read so far; the OpenCode adapter deletes the entry of a
worker it has cancelled, so that a task stopped before it was awaited comes back FAILED
(`FailsForgotten`). `CancelAll` is `cancelAll()` up to its await and `AllCancelled` the
rest, which drops the handles that were registered in between without cancelling them.

### Scheduler, JobQueue, DeadLetterQueue

`queue` is the heap as a sequence; `Enqueue` and `Dequeued` do what `siftUp` and
`siftDown` do, and `FirstIsHighest` is the order they have to produce. `info` is
`jobInfo`, `inflight` the registry of keys, `timers` the pending
`setTimeout`s, `submitting` the calls of `processNext` that await an answer, and
`pipe` the messages of the Core per job: those about one job arrive in order, those
about different jobs in any. `LoopTurn` and `LoopWakes` are the process loop with
its notification; `Submit` handles a duplicate key by each policy; `AckArrives`,
`SubmitTimesOut`, `RequestTimesOut`, `CallFails` and `Receives` are what a call may
meet; `Shutdown` stops, drains and kills. The Core is what the Scheduler can observe
of it (`atCore`): it handles a request when it is sent, and answers later. The heap's
insertion counter is kept only as an order.

`DeadLetterQueue` has the list in memory and the file; each write may fail, a full
queue drops its oldest letter from memory alone, and `Restart` reads the file.

### Supervisor

`place[x]` and `target[x]` are the await of each caller (start, shutdown, and the
callbacks that restart) and the process it holds in a local variable; `proc`,
`ipc`, `healthChecker` and `listening` are the fields they all write. A process may
exit, crash or go mute at any time. Both transports, with the fallback of a socket
that gets no connection.

### EventSources and Daemon

Each source is a generator that its own loop pulls; `FileChanges` and `FlushBatch`,
`TimerExpires`, `RequestArrives` and `RequestRead`, `CommandStarts` and `CommandEnds`
are what the five sources wait for. Events are numbered in the order they were
yielded (history). `buffer` is the bounded buffer of `mergeEventSources`.

`at` is the await of the daemon's event loop: it awaits each trigger of an event,
and each of these its gate, its workflow, its analyzer and three writes (`StateRead`,
`GateAnswers`, `Prepared`, `WorkflowEnds`, `AnalyzerEnds`, `SaveTriggerState`,
`SaveLastResult`, `RecordExecution`). `held` is the trigger state read at the start
and written at the end. `Stop`, `GraceOver` and `Stopping` are `stop()`; `Crash` keeps
the files only. `executed` is history.

### TaskStore

`file[d][t]` is the content of `<t>.json` in the directory of status `d`, or
`Absent`; `call[a]` is the call a process is in, with the task object it holds
in memory (`draft`) and the loop it is in (`todo`). The processes share nothing
but the directories, so here **one action is one file operation** with the code
up to the next one: `ClaimTask` (the rename), `ClaimRead`, `ClaimDeps`,
`ClaimWrite`, and so on for completion, supersession, the unblocking pass and
housekeeping. Three of the code's facts shape the model. `rename()` replaces
its target. `atomicJsonWrite` renames a fresh file onto a path and does not ask
whether the path still exists. And the status that dependencies are judged by
is the one *in* the file, which lags behind its directory.

Abstracted:

- `readTaskDependencyStates` reads all directories in one step; a scan that takes
  time may see a task that moves meanwhile twice or not at all. No claim becomes
  premature by that, since what any file says of an end is true when it is read
  and stays true; a pass that misses an end is followed by the next poll.
- The task as it was listed in `blocked/` differs from a new one only in the
  fields the pass resets, so what `UnblockWrite` writes is `New`.
- The order in which a loop visits files is free: ids are random UUIDs.
- Whether an update exceeds `MAX_TASK_BYTES` depends on artifacts, names and
  reasons; `Oversized` names the tasks for which it may.
- `Age` lets the TTL run out for what lies in `pending/` and `in_progress/`:
  housekeeping looks nowhere else, and `pending/` files are renamed there with
  their age.
- `Crash` is a killed process, and also an exception that the timer of a poll or
  of housekeeping swallows.
- `mkdir`, the event log and the messages that errors return.

### Mailbox and EventLog

As in `TaskStore` one action is one file operation. A copy is a pair of inbox and
message; its file in `new`, `processing`, `cur` or `dead` carries the claim token
and the count of deliveries. `reader[r]` is the call a reader is in and the batch it
holds; a broker is a reader that also writes a summary (`BrokerNext`, `WriteSummary`);
`keeper[h]` is a run of `housekeepMailbox`. Readers, senders and housekeepers may be
killed at any operation, and `Age` lets the TTL of a claimed copy run out.

`EventLog` has the lines of one log and the tails of the coordinator: a tail reads
the file, takes what lies behind the offset and emits it in three turns, and a
second one may start in between.

### Team

`desired` is `members.json`, which editors read and write back in two steps; `agent`
holds each agent process with the command line it runs, `listed` the coordinator's
list of agents, `tick[t]` a reconciliation in progress with the file it has read,
`coord` where `start()` and `stop()` are. A reconciliation asks removed agents to
leave one after the other, spawns missing ones up to the cap and the rate per
minute, and does all that on what it has read some awaits ago.

## 3. What is checked

| Run | Instance | Shows |
|---|---|---|
| `executor` | families of workflows with 3 steps: 4 dependency shapes (one against definition order) with each failure policy of the first step to run and 1 or 2 slots; a completion check with outputs, stall guard, scope guard, convergence or a child workflow, under each policy; management hooks of every kind on steps that compete for a slot; inputs, outputs, branch lock, branch transition; a timeout or an external abort at any time | `DependenciesRespected`, `SkipsJustified`, `SlotsAccounted`, `WorkBounded` (attempts, iterations and retries), `ExitFaithful` (when the workflow ends, nothing holds a slot and the result agrees with statuses, abort and meta files), `SettledStatusFinal`, `KeepsSchedule` (the refinement), `MCEnds` (no lost wake-up; an abort always ends the workflow) |
| `core_budget` | 4 jobs (two with a worker, one without executor, one with an invalid payload), 3 permits, 2 slots, rate 2, cost 3 | `SlotsExact`, `CostExact`, `CancelReaches` (every worker is reachable through its job) |
| `runner` | `runs`: 2 runs on 1 slot; the first has a deadline and may be aborted and find its requests unanswered; the Core may shut down; `channel`: a line of the full length, a short one that two calls wait for, text, chunks of 1 or 2 bytes; `checks`: 2 checks, of one step or of two that share a file (the second a worker's or a script's), one write each, a clock of 2 ticks and file times rounded to 2 | `LeavesNoWork` (no orphaned worker; no job left but one whose submission was not acknowledged, which never gets a worker), `NeverDuplicate`, `MCRunsReturn`; `ChannelInv` (`DeliveredOnce`, `WaitersKept`), `KeepsLink` (the refinement), `EndLosesNothing`; `ChecksInv` (`NotMistaken`, `OwnHeard`, `CompleteWasSaid`) |
| `tasks` | `recovery`: 1 task, 2 members of whom the first calls first (they are alike), a housekeeper, 3 member calls, TTL, 1 crash, supersession; `dependencies`: a task and its dependent, 2 members, a resident's poll, 4 member calls, 1 crash, supersession, oversized updates | `FirstClaimExclusive` (one holder until the task is put back), `NoPrematureClaim`, `MCSettles` (nothing stays in `in_progress/`, nothing satisfied stays in `blocked/`) |
| `services` | `timeouts`, `cancels`, `crash`: 2 jobs with one key and one kind of fault (a timeout not together with LATEST_WINS); `queue`: 4 jobs through the heap; `core`: the Supervisor with 3 processes and 2 restarters over both transports; `letters`: 3 letters, 2 places; `files`, `timer`, `command`: the daemon with 2 triggers, a buffer of 1, and a signal or a crash | `SchedulerInv` (`KeysOwned`, `KeyGuarded`, `QueueOrdered`, `NoLostWakeup`), `NoJobLost`, `SupervisorInv` (`OneCore`), `HangEnds`, `LettersInv`, `SourcesInv` (`NewestKept`, `NoChangeStranded`), `DaemonInv` (`OneWorkflow`, `FilesAgree`, `PausedAtLimit`, `RatesKept`), `StopEnds` |
| `agents` | `in turn`, `overlap`: a broadcast to a read and an unread inbox and two messages to the lead's broker, 2 attempts, a crash or a TTL that runs out under a reader, runs of housekeeping one after the other or two at once; `log`: 4 lines, 2 tails; `mixed`, `residents`: 2 or 3 members, a cap of 1 or 2, 2 changes of the members file, 2 reconciliations at once | `NothingLost`, `NoEventSkipped`, `TeamSafe` (no member twice, none unlisted, the cap, nothing after the stop), `MCSettles` (messages end in `cur/` or `dead/`; the team converges to its file) |
| `supervision` | `sentinel`: 2 guards under 4 pairs of policies, 3 probes, a failed write; `management`: 3 hooks of 2 kinds, 2 at once, both engines; `workers`: 3 tasks on one workspace, or 2 of which one may be stopped, or 1 with output, a descendant and 2 stops, in each mode and with each adapter | `SentinelInv` (`StallJustified`), `HooksInv` (`Attributed`, `InterventionsBounded`), `WorkersInv` (`NoLostWakeup`, `NothingLeftBehind`), `OutputKept` (`BatchComplete`, `ProgressShown`), `MCEnds` |

Violations, each a disagreement between the code and what the repository says of
it ("findings" in `PROJECT.json`):

| Run | What TLC finds |
|---|---|
| `executor_terminal_at_exit` | a step CANCELLED by the workflow timeout while it awaits its inputs or the branch lock is set to RUNNING afterwards, and the workflow ends with it (`executor.ts:1180`) |
| `core_shutdown` | a permit granted while `shutdown()` waits for the workers it found starts a worker that outlives the Core (`agentcore.ts:219`) |
| `tasks_exclusive` | two unblocking passes at once put a task back into `pending/` that a member has claimed in between, and a second member claims it (`task-store.ts:211`); no crash, no TTL |
| `scheduler_drain` | `shutdown()` kills the Core at once over a job that was granted its permit: `processing` is set by a handler that an answer in time does not reach (`scheduler/index.ts:282`) |
| `result_complete` | the result of a worker whose output is streamed is built while the last of it is still in the pipe (`base-process-adapter.ts:139`) |

### Other disagreements

A property of a passing run holds with an exception that the documents do not have;
`PROJECT.json` quotes them:

- `on_failure: abort` does not abort the workflow: independent steps go on
  (`SkipsJustified`).
- A line within the size limit is dropped when the chunk it ends in makes the
  buffer too long (`NearLimit` in `DeliveredOnce`).
- A decision without a check id is accepted by the age of its file, with two
  seconds of grace, whoever wrote it (`NotMistaken`).
- A job whose `submit_job` was not acknowledged in time stays registered in the Core
  (`JobsForgotten`); it never gets a worker (`UnconfirmedIdle`).
- LATEST_WINS does not cancel the job it replaces (`KeyGuarded`).
- Jobs in flight are not resolved when the Core crashes (`NoJobLost` asks for a
  Core that is up).
- Concurrent hooks may pass the limit of interventions together
  (`InterventionsBounded`).

Three more were met while reading and are visible in no property. `docs/guide/daemon.md:419`
describes a `retry` after a failed workflow, of which the trigger engine has the
pause only. `shell-step-runner.ts:109` promises "failed" for an exit code other than 0
and 1, but a script killed by a signal counts as `code ?? 1`, which is incomplete
(`ScriptEnds`). And `max_concurrent_workflows` and `max_queue` have no effect, because
the event loop awaits each workflow (`OneWorkflow`).

### Why the bounds are enough

**Executor.** Three steps are the least in which a step has a direct and an indirect
dependency, a skip travels past a step, and an independent step competes for a slot;
the features of a lifecycle concern one step and its neighbours. `max_retries` 1 and
`max_iterations` 2 make every counter reach its limit, be reset, and be at its limit
when reset.

**Core and runner.** Two permits can be active and a third is refused by each of the
checks in turn; the costs 2, 3 and 1 against 3 make a degraded permit fit where a full
one does not, so that both refusal and degraded release occur. Three permit ids serve
four jobs: the fourth never holds one, a further job finds at most two slots taken,
and a revoked worker keeps the third. In the composition one slot makes the second run
back off and ask again. In the channel `MaxLine` is the length of the longer message,
so that it is at the limit, and chunks of two bytes let the end of one line and the
start of the next arrive together. Two checks are enough for an answer of another
check, earlier, later or at the same time; `Granularity` 2 makes a fresh file look one
tick old, and `MaxTime` lets the grace pass.

**Task store and mailbox.** `MaxCalls` bounds the claims, completions and
supersessions. Three let a task be claimed, put back and claimed again, or claimed
while another member completes or supersedes it; four let the dependent be claimed too
early and parked, the dependency be claimed and completed, and the dependent be
claimed again. A crash may come between any two operations of one call.
`Supersedable`, `Oversized` and `TimePasses` switch those behaviours on in the scenario
that asks about them. `MaxAttempts` 2 makes a message be delivered, requeued once and
die; two housekeepers meet in the same file. In `Team` two reconciliations, two edits
and as many agents as are ever started make one act on a file that is out of date
while the other has started or stopped the member; the caps are below the number of
members.

**Services.** Two jobs with one key are what the registry is about, `MaxAttempts` 2
gives each a retry, `MaxTimeouts` and `MaxCancels` 1 place one fault anywhere, and four
jobs make the heap sift past a level. Three processes and two restarters allow a
restart during a restart, and `MaxRestarts` 2 is reached. A buffer of one drops an event
as soon as a second waits; two ticks pass a debounce, a cooldown and the next event
after it; three events make a trigger fail twice, be paused and meet one more event (with a crash, two events).

**Supervision.** Two guards in a row are what leaks from one to the next; thresholds of 2
and three probes make a row break and be reached; three hooks of which two run at once
let a hook be late for the next one in the same session, and `MaxInterventions` 1 is
passed by two together. Three tasks on one workspace give a queue of two whose head
times out, is aborted or is notified; two stops let a deadline meet an abort.

### Fairness

- Executor: the scheduling loop, the drain, and each pending await of a lifecycle or
  hook settle (weak fairness each): workers, hooks and sleeps have timeouts of their
  own. No fairness on the workflow timer or external aborts. `EndsUnlessStranded`
  excludes workflows in which an exception left a lifecycle half-way: only the timer
  ends those, and the code relies on it.
- Core and runner: messages are delivered, timers fire (deadline, backoff, grace) and
  continuations run. A **worker is fair only once told to stop** (SIGTERM, then
  SIGKILL): nothing else makes it end. No fairness on aborts, request timeouts or
  shutdown. `RunsReturn` holds for runs with a deadline timer: if the Core exits while
  a run executes, nothing but its deadline ends it.
- Task store: a call that runs goes on, a resident polls again (`setTimeout` in a
  `finally`, and a dispatch in between has a timeout), the coordinator housekeeps
  (`setInterval`), the TTL runs out. Nothing is assumed of members: they may never
  claim or complete anything. `BlockedFreed` needs a resident and
  `NothingStuckInProgress` a housekeeper; without one the code gives no such guarantee.
- Mailbox: readers and housekeeping come back at their intervals and time passes;
  nobody has to acknowledge. `Settled` is asked of inboxes that somebody still reads.
- Team: file operations and waits of a reconciliation return, the minute of the spawn
  limit passes, a process that was killed ends; a live one need not. `Converged` speaks
  of resident agents: a script that has run is not started again.
- Supervisor: awaits end (the Core connects or the timer fires), a process that was
  told to exit ends, the interval of a health checker runs. A Core is never assumed to
  crash, go mute or answer.
- Daemon: the event loop, the chain of a trigger and `stop()` go on. Workflows return,
  because they have a timeout of their own. Sources need not produce anything.
- Sentinel, hooks, workers: timers fire, probes and writes return, an aborted run ends;
  a hook's timeout fires, and the creation of a session ends (no timeout covers it); a
  process ends after SIGKILL, a wait for a lock has its timeout.

`Next` of the composed runs is one scenario's at a time, and fairness is assumed of
the action as it appears there, so that a component at rest enables nothing.

Deadlock checking is on for the executor, which has a terminal step of its own
(`Terminated`), and off elsewhere: after shutdown, when every run has returned, when
members stop calling or a bound is used up, nothing has to happen.

## 4. What is proved

All proofs are checked by TLAPS with no step left out. They are about every value
of the constants that the named `ASSUME`s allow:

- sets that are finite because a program builds them: steps, permits, sources,
  triggers, initial members;
- valid DAGs, natural limits and bounds, a first member of an order;
- markers (`NoJob`, `Absent`, `NoFile`, `NoLock`, ...) outside the sets they mark:
  a `null` is not a record;
- `RunnerJobs`: the jobs of the runner have a worker, since `runWorkerTask` submits
  no others.

Every theorem has the same shape: an inductive invariant, one lemma per action that
keeps it, and a lemma that it implies the property. TLC checked each invariant on
the run of its module before it was proved. What the invariants add to the properties
is why the code is right, and is told here.

**WorkflowExecutor**, for any workflow and concurrency limit: `TypeCorrect`,
`SlotsAlwaysAccounted`, `LaunchedOnce`, `DependenciesAlwaysRespected`,
`SkipsAlwaysJustified`, `ExitAlwaysFaithful`, `WorkAlwaysBounded`,
`SettledAlwaysFinal`, and `ExecutorKeepsSchedule`, which is the refinement of
`StepSchedule`. Slots need `IdleUntilLaunched` (a PENDING or READY step has no
lifecycle), without which a launch could overwrite a lifecycle that holds a slot;
every segment of a lifecycle goes through one lemma shape, `Segment(s)`: it keeps its
slot or gives it back once, and touches no other lifecycle. The other theorems need
`IInv`: what is ready or was launched has dependencies that allow it (`LaunchCleared`),
no PENDING step is left behind a fatal failure (`FatalStops`), the reasons of a skip
lead to a step that was not skipped (`SkipsRooted`), a lifecycle that holds a slot
works or is being drained (`HoldersWork`), and what a meta file says stays true until
an abort (`RecordKept`). Each action is first reduced to its `Effect`, a `Move` of
every step (`Works`, `Leaves`, `GetsReady`, `IsSkipped`, ...), and invariant and
refinement follow from the moves alone.

**StepSchedule**: `OrderAlwaysKept` and `LimitAlwaysKept`, for every implementation
of the abstract schedule.

**AgentCore**, for any jobs, permits, limits and any client: `CoreTypeCorrect`,
`SlotsAlwaysExact`, `CostAlwaysExact`, `CancelAlwaysReaches`, `OneWorkerPerJob`.
`SlotsExact` is not inductive
alone: a grant adds one to `activeSlots`, and one to the cardinality of
`activePermits` only if the permit was not active. Nor is `CancelReaches`: a grant must
not redirect a job whose worker lives. `Linked` says what both need, that a job's permit
belongs to the job and that a permit without a job is referred to by nothing. The four
ways a permit ends go through `SlotReturned`, `SlotsAfterEnd` and `RevokedReachable`.
`CostExact` counts the charged units as pairs of a permit and a number, so that the
sum of the costs is a cardinality and a permit's units come and go as a set
(`UnitsAdded`); what is returned never exceeds the books, which is why the code's
clamp at zero hides no error (`CostAfterEnd`).

**CoreStepRunner**, for any number of runs: `RunnerTypeCorrect`; `RunnerImplementsCore`,
the composition implements `AgentCore!Spec`, so that `CancelReaches` and the other
invariants hold there too (`RunnerCancelReaches`); `ReturnedRunsLeaveNoWork` and
`DuplicateNeverMet`. `RunSound` is what the last two rest on: a run has one request open
at a time (`OneOpen`), an answer on the channel says what the Core has done
(`AnswersTrue`), and a run that was given up has a `cancel_job` as its last word on the
channel, or nothing left in the Core (`LastWord`, `AllTold`). A job that stays registered because its submission was given
up has no worker and no request for one, since its run ends before it asks (`Unasked`).
The actions split into
turns about one run (`TurnOf`) and turns of the Core, of which all runs but one notice
nothing (`CoreKeeps`).

**CompletionCheck**: `DecisionsAlwaysFounded`, from what a check knows of the file at
each await (`CheckSound`): a file of its own is younger than its start, up to the
granularity of the file system. An answer of another check decides only when it names
this one, or names none and was written no longer than the grace before the start.

**Channel**, for any messages and sizes, any cut into chunks, any other text on the
pipe, and any calls that wait: `ChannelAlwaysSound`, that is `DeliveredOnce` and
`WaitersKept`. The second is inductive as it stands. For the first, `ChannelIInv` looks
at the bytes that no dispatched line has used up (`Unread`, the buffer and the pipe):
what is left of a message lies together and ends with its newline (`Placed`); it is a
whole line behind a newline unless it follows other text (`Whole`, `LinesSound`); lines
lie there in the order of the writes (`LinesOrdered`); and who is neither there nor
dispatched is excused (`ReadDelivered`). A read drops a prefix of these bytes twice, once
for a buffer that is too long and once up to its last newline. Neither drop cuts a whole
line in two (`CutFacts`): the first ends at a newline, or after more bytes than a line
may have. A whole line that the first drop takes began the buffer and ended in the last
chunk, which makes it `NearLimit`; one that the second takes was parsed
(`WholeIsDispatched`, `WholeIsParsed`).

`ChannelKeepsLink` is the refinement of `MessageLink`, and needs the same invariant. By
`WayFacts` a message is on the way if and only if a byte of it is in `Unread`. A write
puts it there and settles whether it is excused (`WriteSends`); text and the steps of
the waiters are stutters, and the ends of the link are its `End` and `Close`. A read takes
off what the dropped prefix of `Unread` held (`ReadReceives`): by `LinesOrdered` that
precedes whatever stays, by `DeliveredSound` what it adds to `delivered` is in order, by
`LinesSound` nothing that is received stays on the way or was received before, and by
`ReadDelivered` what left unreceived is excused. `EndAlwaysLosesNothing` follows from
the guard of `EndOfStream`, a pipe read to its end, since no newline is left in the buffer
and every line ends with one.

**TaskStore**, for any tasks, dependencies, members, residents and housekeepers, and
any number of calls and crashes: `StoreTypeCorrect`, `ClaimsNeverPremature`,
`FirstClaimAlwaysExclusive`. `NoPrematureClaim` is inductive only with `EndsWritten` (a
file whose content says completed or superseded is of a task in `finished`, wherever it
lies), `ClaimChecked` (a claim about to write has all its dependencies in `finished`, a
set that only grows) and `CallsFormed` (what a call holds in memory at each of its
awaits). `FirstClaimExclusive` rests on `Token`: of a task never put back nor rolled
back, `pending/` is empty once a claim is on its way or has been answered, at most one
claim is on its way, and none once the task has a holder; and on `StillThere`, that a
claimed task has a file somewhere, so that it is not added anew.

**Mailbox, EventLog, Team**: `MessagesNeverLost`, `EventsNeverSkipped`,
`TeamNeverDoubled`. A message has a file somewhere at every turn of a reader, a broker
or a housekeeper, and stays in `cur/` once it is there (`FilesKept`). A tail never reads
beyond the lines there are, and what it has read is emitted before the offset passes it.
For the team every step is one that starts nobody (`StartsNone`) or one that starts a
member nobody listed runs for (`StartsOne`).

**Workers, Management, Sentinel**: `WorkersAlwaysSound`, `OutputAlwaysKept`,
`HooksAlwaysAttributed`, `StallsAlwaysJustified`. A lock has a holder that is in one of
the places of a holder, and its queue has those who wait for it, each once
(`LockSound`). An answer of a hook was given to that hook, and the count of
interventions leaves room for the hooks that are still deciding (`CountsBounded`). A
verdict of the sentinel stands on the reports of its own run (`ProbeSound`,
`OutputSound`).

**EventSources and Daemon**, for any sources and triggers: `SourcesAlwaysSound`,
`TriggersAlwaysSound`. The buffer has the newest events in the order of their numbers
(`BufferSound`). While a trigger's workflow is under way, the state its chain holds is
the one in the file (`ChainSound`): the event loop awaits each trigger, so nobody writes
in between. The state file tells of all executions (`TriggerSound`), and the other two
files agree with it except between the three writes (`FilesWritten`, `FilesDone`).

**JobQueue and Scheduler**, for any jobs, keys and priorities: `QueueAlwaysSound` and
`JobsNeverLost`. `HeapInv` is the order of the heap, in which `siftUp` and `siftDown`
are shown to restore what they disturb (`SiftUpSound`, `SiftDownSound`); that the first
entry is the highest follows by descending to the parent (`HeapFirst`). A job that the
Scheduler knows is in the queue, in a timer, in a call, in the Core or in a message that
ends it (`OnWay`), and holds its key until a replacement or a retry contests it
(`KeyHeld`).

**Supervisor**, for any processes, restarters and both transports: `OneCoreAlways`. A
call that will spawn finds no process alive or the one it spawned itself
(`SpawnerSound`), whoever waits for an exit waits for a living process (`TargetSound`),
and of the callers that spawn only one is under way (`PlacesSound`); so the one process
that lives is `proc`.

**DeadLetterQueue**, for any letters and size: `LettersAlwaysKept`. No letter is twice in
memory or in the file, and none in memory has been taken; so the file that a pop writes
has lost just the letter popped.

Two properties turned out to be false beyond the instance that TLC had checked, and
were restated while their proofs were attempted. `KeyGuarded` said that a key in use is
always in the registry; a job that waits for its retry has given its key up, so that
another job may take it (history variable `retried`). `PausedAtLimit` compared the
failures with `max_retries` and forgot a trigger whose limit is 0, which its first
failure pauses, not its start.

### Only model-checked

- Liveness (`MCEnds`, `MCRunsReturn`, `MCSettles`, `HangEnds`, `StopEnds`): fairness and
  ENABLED are outside the prover's reach.

Every other property of the passing runs is stated by a theorem. The type invariants of
`CoreStepRunner` and `TaskStore` are the other way round: they are proved
(`RunnerTypeCorrect`, `StoreTypeCorrect`) and no run repeats them.

The leaves of the proofs are small: each holds in a fraction of the provers' standard
time limit (`tlapm --stretch 0.3` proves every module from nothing).

## 5. What is not modelled, and why

- Watchdog, escalation manager, circuit breakers and `CancellationManager`: no code
  feeds the watchdog, creates a breaker or records an outcome, and nothing reads the
  controllers. `JobEventThrottle` is in `Workers`.
- `heartbeat`, `job_event`, `escalation`, metrics reports of the scheduler: they change
  no modelled state but the Core's load level, which `AgentCore` lets change at will.
- `ensureIpc`: two steps that start together may spawn two Cores. `Supervisor` has one
  owner who starts once; the hazard is listed.
- Two processes that edit `members.json` at once: `Team` has the steps, and one change
  may be lost; nothing promises otherwise.
- The gateway's `WorkspaceLock` is modelled as its tests use it; production passes none.
  An expired lock is taken over by design while its holder still works, so no mutual
  exclusion is stated.
- The parsers (`parser.ts`, daemon and agent configuration, catalogs): input validation
  without state; `ValidDag` is what the executor needs of them.
- The recursion guard, `context-manager.ts` beyond success and failure, `scope_guard`
  and convergence beyond their verdict.
- What an agent, a worker, a gate or an analyzer does while it runs, and the prompts
  it is given: the models let them answer anything.
- The terminal UI and the command lines: rendering and argument parsing; the UI reads
  events and feeds nothing back. The UI's state store folds events into views without
  an effect on the other parts.
- Cron expressions, globs, signatures of webhooks: whether an event passes is an input.

## 6. Plan

The parts of the safety behind the liveness properties: that what a wait is for is
always on its way (a restarter that waits has a process that ends, a run that waits for
an answer has a request or an answer in a channel). TLC checks them with the liveness
properties; as invariants of their own they could be proved.
