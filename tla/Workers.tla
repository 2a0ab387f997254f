------------------------------ MODULE Workers ------------------------------
(***************************************************************************)
(* The worker side of the Core (src/worker): a task is delegated through   *)
(* the gateway (delegateTask, delegateTaskWithEvents) or run by the step   *)
(* runner of the direct mode (runWorkerTask), possibly under the lock of   *)
(* its workspace; an adapter starts a process for it, reads its output,    *)
(* stops it when its permit is revoked or its deadline passes, and makes   *)
(* the result.  Events of a streamed task go through a throttle.           *)
(*                                                                         *)
(* Output is counted in chunks.  The operating system ends a process some  *)
(* time after SIGKILL; it may ignore SIGTERM, and may leave a descendant   *)
(* outside its process group that keeps its output open.                   *)
(***************************************************************************)
EXTENDS Integers, Sequences, FiniteSets

CONSTANTS
    Task,          \* the delegations; a task is also its permit, its handle and its process
    Plans,         \* what may be delegated: functions from the tasks to their plans
    Workspace,     \* workspaces that have a lock
    None,
    MaxChunks,     \* bound: chunks of output of a process
    MaxEvents      \* MAX_EVENTS_PER_JOB

\* How a task is run: "batch" and "stream" by the gateway, "direct" by the step
\* runner.  "claude" and "opencode" are the Claude Code and the OpenCode adapter,
\* which override parts of the base class that the others share.
\* Its worker writes at most so many chunks, and may leave a descendant behind;
\* its permit is aborted or its deadline passes at most so many times.
Plan == [mode: {"batch", "stream", "direct"}, adapter: {"base", "claude", "opencode"},
         workspace: Workspace \cup {None}, chunks: 0..MaxChunks, leaves: BOOLEAN,
         stops: 0..2]

ASSUME WorkersAssumption ==
    /\ \A p \in Plans : DOMAIN p \subseteq Task /\ \A t \in DOMAIN p : p[t] \in Plan
    /\ None \notin Task /\ None \notin Workspace
    /\ MaxChunks \in Nat /\ MaxEvents \in Nat

VARIABLES
    plan,      \* per task that is delegated, its plan
    at,        \* per task, the await that its delegation is in
    aborted,   \* the tasks whose permit is aborted
    late,      \* the tasks whose deadline has passed
    lock,      \* WorkspaceLock.locks
    waiters,   \* WorkspaceLock.waiters
    proc,      \* per task, its process; the exit code once it has exited
    shut,      \* per task, how far gracefulShutdown of its process is
    orphans,   \* the tasks of whose process a descendant keeps the output open
    active,    \* WorkerDelegationGateway.activeHandles
    clearing,  \* the handles whose cancellation cancelAll awaits
    out,       \* per task, the chunks written
    taken,     \* per task, the chunks that streamEvents has read
    stream,    \* per task, its stream loop
    result,    \* per task, the status of its result
    got,       \* per task, the chunks that its result was made from
    throttle   \* per task, its JobEventThrottle

workerVars == <<plan, at, aborted, late, lock, waiters, proc, shut, orphans, active,
          clearing, out, taken, stream, result, got, throttle>>

Lock == [holder: Task, expired: BOOLEAN]

\* The absence of an entry is not an entry.
ASSUME NoLock == None \notin Lock

Throttle == [count: 0..MaxEvents, notice: BOOLEAN, pending: BOOLEAN,
             timer: BOOLEAN, recent: BOOLEAN]

WorkersTypeOK ==
    /\ plan \in Plans
    /\ at \in [Task -> {"idle", "locking", "granted", "cancelling", "running", "draining", "done"}]
    /\ aborted \subseteq Task /\ late \subseteq Task
    /\ lock \in [Workspace -> Lock \cup {None}]
    /\ waiters \in [Workspace -> Seq(Task)]
    /\ proc \in [Task -> {"none", "alive", "zero", "nonzero"}]
    /\ shut \in [Task -> {"none", "term", "kill", "stuck"}]
    /\ orphans \subseteq Task /\ active \subseteq Task /\ clearing \subseteq Task
    /\ out \in [Task -> 0..MaxChunks] /\ taken \in [Task -> 0..MaxChunks]
    /\ stream \in [Task -> {"none", "open", "ended"}]
    /\ result \in [Task -> {"none", "succeeded", "failed", "cancelled", "error"}]
    /\ got \in [Task -> 0..MaxChunks]
    /\ throttle \in [Task -> Throttle]

WorkersInit ==
    /\ plan \in Plans
    /\ at = [t \in Task |-> "idle"] /\ aborted = {} /\ late = {}
    /\ lock = [w \in Workspace |-> None] /\ waiters = [w \in Workspace |-> <<>>]
    /\ proc = [t \in Task |-> "none"] /\ shut = [t \in Task |-> "none"] /\ orphans = {}
    /\ active = {} /\ clearing = {}
    /\ out = [t \in Task |-> 0] /\ taken = [t \in Task |-> 0]
    /\ stream = [t \in Task |-> "none"]
    /\ result = [t \in Task |-> "none"] /\ got = [t \in Task |-> 0]
    /\ throttle = [t \in Task |-> [count |-> 0, notice |-> FALSE, pending |-> FALSE,
                                   timer |-> FALSE, recent |-> FALSE]]

Exited(t) == proc[t] \in {"zero", "nonzero"}

\* A reader of the output sees its end.
Eof(t) == Exited(t) /\ t \notin orphans

Streams(t) == plan[t].mode \in {"stream", "direct"}

outputVars == <<out, taken, stream, got, throttle>>
processVars == <<proc, shut, orphans>>

---------------------------------------------------------------------------
(* WorkspaceLock.                                                          *)

Held(t) == [holder |-> t, expired |-> FALSE]

Holds(t, w) == lock[w] # None /\ lock[w].holder = t

\* notifyWaiters: the waiter that is called when the entry of w is deleted; it
\* takes the lock in the same step.
NextWaiter(w) == IF waiters[w] = <<>> THEN None ELSE Head(waiters[w])

Notified(w) == IF NextWaiter(w) = None THEN waiters ELSE [waiters EXCEPT ![w] = Tail(@)]

\* A task is delegated: waitForLock, which acquires at once, takes an expired
\* lock over (its first waiter, called on the way, believes it has it too), or
\* waits.  Without a lock nothing is to be waited for.
Delegate(t) ==
    LET w == plan[t].workspace
        free == w = None \/ lock[w] = None \/ lock[w].expired
    IN  /\ t \in DOMAIN plan /\ at[t] = "idle"
        /\ IF free
           THEN at' = [x \in Task |->
                         IF x = t \/ (w # None /\ lock[w] # None /\ x = NextWaiter(w))
                         THEN "granted" ELSE at[x]]
           ELSE at' = [at EXCEPT ![t] = "locking"]
        /\ CASE w = None -> UNCHANGED <<lock, waiters>>
             [] w # None /\ free ->
                  /\ lock' = [lock EXCEPT ![w] = Held(t)]
                  /\ waiters' = IF lock[w] = None THEN waiters ELSE Notified(w)
             [] OTHER ->
                  /\ waiters' = [waiters EXCEPT ![w] = Append(@, t)]
                  /\ UNCHANGED lock
        /\ UNCHANGED <<plan, aborted, late, processVars, active, clearing, result, outputVars>>

\* maxLockDurationMs of an entry passes; nothing happens until the next acquire.
LockExpires(w) ==
    /\ lock[w] # None /\ ~lock[w].expired
    /\ lock' = [lock EXCEPT ![w].expired = TRUE]
    /\ UNCHANGED <<plan, at, aborted, late, waiters, processVars, active, clearing, result, outputVars>>

\* acquireTimeoutMs passes: the waiter is spliced out of the queue, where it is as
\* long as it waits, and the delegation throws.
WaitTimesOut(t) ==
    /\ at[t] = "locking"
    /\ \E i \in DOMAIN waiters[plan[t].workspace] :
          /\ waiters[plan[t].workspace][i] = t
          /\ waiters' = [waiters EXCEPT ![plan[t].workspace] =
                           SubSeq(@, 1, i - 1) \o SubSeq(@, i + 1, Len(@))]
    /\ at' = [at EXCEPT ![t] = "done"]
    /\ result' = [result EXCEPT ![t] = "error"]
    /\ UNCHANGED <<plan, aborted, late, lock, processVars, active, clearing, outputVars>>

\* Faulty: the lock is not released.
KeptLock(t) == at' = [at EXCEPT ![t] = "done"] /\ UNCHANGED <<lock, waiters>>

\* The delegation of t settles: release by its permit id, which does nothing
\* when another task holds the lock by now.
Settle(t) ==
    LET w == plan[t].workspace
        releases == w # None /\ Holds(t, w)
        next == IF releases THEN NextWaiter(w) ELSE None
    IN  /\ at' = [x \in Task |-> IF x = t THEN "done" ELSE IF x = next THEN "granted" ELSE at[x]]
        /\ IF releases
           THEN /\ lock' = [lock EXCEPT ![w] = IF next = None THEN None ELSE Held(next)]
                /\ waiters' = Notified(w)
           ELSE UNCHANGED <<lock, waiters>>

---------------------------------------------------------------------------
(* ProcessManager.                                                         *)

\* gracefulShutdown of a process, and the SIGTERM of the spawn's own abort
\* listener: an exited process is tracked no more, a second call adds nothing.
ShutDown(ts) ==
    shut' = [t \in Task |-> IF t \in ts /\ proc[t] = "alive" /\ shut[t] = "none"
                            THEN "term" ELSE shut[t]]

\* Faulty: no SIGKILL follows.
TermOnly(t) == shut[t] = "term" /\ proc[t] = "alive" /\ FALSE

\* The grace period is over.
MustKill(t) == shut[t] = "term" /\ proc[t] = "alive"

Escalate(t) ==
    /\ MustKill(t)
    /\ shut' = [shut EXCEPT ![t] = "kill"]
    /\ UNCHANGED <<plan, at, aborted, late, lock, waiters, proc, orphans, active, clearing, result, outputVars>>

\* Five seconds after SIGKILL the process is still there: it is tracked no more.
GiveUp(t) ==
    /\ shut[t] = "kill" /\ proc[t] = "alive"
    /\ shut' = [shut EXCEPT ![t] = "stuck"]
    /\ UNCHANGED <<plan, at, aborted, late, lock, waiters, proc, orphans, active, clearing, result, outputVars>>

ShutDownEnds(t) == shut[t] = "none" \/ Exited(t) \/ shut[t] = "stuck"

(* The process: it writes, and it ends on its own or by a signal.          *)

Write(t) ==
    /\ proc[t] = "alive" /\ out[t] < plan[t].chunks
    /\ out' = [out EXCEPT ![t] = @ + 1]
    /\ UNCHANGED <<plan, at, aborted, late, lock, waiters, processVars, active, clearing, result,
                   taken, stream, got, throttle>>

Exit(t) ==
    /\ proc[t] = "alive"
    /\ \E code \in {"zero", "nonzero"} : proc' = [proc EXCEPT ![t] = code]
    /\ orphans' \in {orphans} \cup (IF plan[t].leaves THEN {orphans \cup {t}} ELSE {})
    /\ UNCHANGED <<plan, at, aborted, late, lock, waiters, shut, active, clearing, result, outputVars>>

---------------------------------------------------------------------------
(* The gateway and the adapters.                                           *)

\* streamEvents is called before awaitResult; the base adapter's awaitResult
\* joins what has been collected when it is called, which is nothing yet.
Await(t) == stream' = [stream EXCEPT ![t] = IF Streams(t) THEN "open" ELSE "none"]

\* startTask fails, or spawns the process.  A permit aborted or late by now is
\* cancelled first, and the cancellation awaited.
Start(t) ==
    /\ at[t] = "granted"
    /\ \/ /\ Settle(t)
          /\ result' = [result EXCEPT ![t] = "error"]
          /\ UNCHANGED <<processVars, active, stream>>
       \/ /\ proc' = [proc EXCEPT ![t] = "alive"]
          /\ active' = active \cup {t}
          /\ IF t \in aborted \cup late
             THEN /\ shut' = [shut EXCEPT ![t] = "term"]
                  /\ at' = [at EXCEPT ![t] = "cancelling"]
                  /\ UNCHANGED stream
             ELSE /\ at' = [at EXCEPT ![t] = "running"]
                  /\ Await(t)
                  /\ UNCHANGED shut
          /\ UNCHANGED <<orphans, lock, waiters, result>>
    /\ UNCHANGED <<plan, aborted, late, clearing, out, taken, got, throttle>>

\* awaitResult finds no entry of the process: FAILED, and a stream without events.
FailsForgotten(t) ==
    /\ Settle(t)
    /\ result' = [result EXCEPT ![t] = "failed"]
    /\ active' = active \ {t}
    /\ UNCHANGED stream

\* The cancellation is over; that of the OpenCode adapter has deleted the entry.
Cancelled(t) ==
    /\ at[t] = "cancelling" /\ ShutDownEnds(t)
    /\ IF plan[t].adapter = "opencode"
       THEN FailsForgotten(t)
       ELSE /\ at' = [at EXCEPT ![t] = "running"]
            /\ Await(t)
            /\ UNCHANGED <<lock, waiters, active, result>>
    /\ UNCHANGED <<plan, aborted, late, processVars, clearing, out, taken, got, throttle>>

\* The listener of the permit is registered and its deadline timer set.
Guarded(t) == at[t] \in {"cancelling", "running", "draining"}

\* Bounds the aborts and the deadlines.
Stoppable(t) ==
    Cardinality({t} \cap aborted) + Cardinality({t} \cap late) < plan[t].stops

\* The permit is aborted, and cancels the worker that runs for it.
AbortPermit(t) ==
    /\ t \in DOMAIN plan \ aborted /\ at[t] # "done" /\ Stoppable(t)
    /\ aborted' = aborted \cup {t}
    /\ ShutDown({t} \cap {x \in Task : Guarded(x)})
    /\ UNCHANGED <<plan, at, late, lock, waiters, proc, orphans, active, clearing, result, outputVars>>

\* The deadline of the task passes.
DeadlinePasses(t) ==
    /\ t \in DOMAIN plan \ late /\ at[t] # "done" /\ Stoppable(t)
    /\ late' = late \cup {t}
    /\ ShutDown({t} \cap {x \in Task : Guarded(x)})
    /\ UNCHANGED <<plan, at, aborted, lock, waiters, proc, orphans, active, clearing, result, outputVars>>

\* cancelAll: every handle that is active; a delegation that still waits for
\* its lock or its process is missed.  A process that has exited is not waited for.
CancelAll ==
    /\ active # {} /\ clearing = {}
    /\ ShutDown(active)
    /\ clearing' = {t \in active : proc[t] = "alive"}
    /\ active' = IF clearing' = {} THEN {} ELSE active
    /\ UNCHANGED <<plan, at, aborted, late, lock, waiters, proc, orphans, result, outputVars>>

\* All of them are over, and every handle is dropped, one that was registered in
\* the meantime too.
AllCancelled ==
    /\ clearing # {} /\ \A t \in clearing : ShutDownEnds(t)
    /\ active' = {} /\ clearing' = {}
    /\ UNCHANGED <<plan, at, aborted, late, lock, waiters, processVars, result, outputVars>>

\* What awaitResult waits for: the exit, and the end of the output unless the
\* stream loop reads it.
ResultReady(t) == Exited(t) /\ (Streams(t) \/ Eof(t))

\* The chunks that the result is made from.
Output(t) ==
    IF ~Streams(t) THEN IF Eof(t) THEN out[t] ELSE 0
    ELSE IF plan[t].adapter = "claude" THEN taken[t] ELSE 0

\* In the direct mode the abort signal of a task follows its deadline as well.
SignalAborted(t) == t \in aborted \/ (plan[t].mode = "direct" /\ t \in late)

Status(t) ==
    CASE SignalAborted(t) -> "cancelled"
      [] proc[t] = "zero" -> "succeeded"
      [] OTHER -> "failed"

\* Faulty: the timer is cleared and the event forgotten.
Cleared(th) == [th EXCEPT !.timer = FALSE]

\* dispose of the throttle: a buffered progress event is forwarded.
Disposed(th) == [th EXCEPT !.pending = FALSE, !.timer = FALSE]

\* awaitResult returns; the delegation settles, or awaits the stream loop.
Return(t) ==
    /\ at[t] = "running" /\ ResultReady(t)
    /\ result' = [result EXCEPT ![t] = Status(t)]
    /\ got' = [got EXCEPT ![t] = Output(t)]
    /\ IF stream[t] = "open"
       THEN /\ at' = [at EXCEPT ![t] = "draining"]
            /\ UNCHANGED <<lock, waiters, active, throttle>>
       ELSE /\ Settle(t)
            /\ active' = active \ {t}
            /\ throttle' = [throttle EXCEPT ![t] = Disposed(@)]
    /\ UNCHANGED <<plan, aborted, late, processVars, clearing, out, taken, stream>>

\* The stream loop is over, or a second has passed; the step runner of the
\* direct mode waits without a limit.
Drained(t) ==
    /\ at[t] = "draining" /\ (stream[t] = "ended" \/ plan[t].mode = "stream")
    /\ Settle(t)
    /\ active' = active \ {t}
    /\ throttle' = [throttle EXCEPT ![t] = Disposed(@)]
    /\ UNCHANGED <<plan, aborted, late, processVars, clearing, result, out, taken, stream, got>>

---------------------------------------------------------------------------
(* The stream loop and the throttle of its events.                         *)

\* A progress event: forwarded, or kept as the latest with a timer running.
Progress(th) ==
    IF th.recent THEN [th EXCEPT !.pending = TRUE, !.timer = TRUE]
    ELSE [th EXCEPT !.pending = FALSE, !.timer = FALSE, !.recent = TRUE]

\* Another event: forwarded up to the limit, then dropped after one notice.
Limited(th) ==
    IF th.count < MaxEvents THEN [th EXCEPT !.count = @ + 1] ELSE [th EXCEPT !.notice = TRUE]

StreamEvent(t) ==
    /\ stream[t] = "open" /\ taken[t] < out[t]
    /\ taken' = [taken EXCEPT ![t] = @ + 1]
    /\ throttle' \in (IF plan[t].mode = "stream"
                      THEN {[throttle EXCEPT ![t] = Progress(@)], [throttle EXCEPT ![t] = Limited(@)]}
                      ELSE {throttle})
    /\ UNCHANGED <<plan, at, aborted, late, lock, waiters, processVars, active, clearing, result,
                   out, stream, got>>

StreamEnds(t) ==
    /\ stream[t] = "open" /\ taken[t] = out[t] /\ Eof(t)
    /\ stream' = [stream EXCEPT ![t] = "ended"]
    /\ UNCHANGED <<plan, at, aborted, late, lock, waiters, processVars, active, clearing, result,
                   out, taken, got, throttle>>

\* PROGRESS_THROTTLE_MS after the last progress event that was forwarded.
ThrottlePasses(t) ==
    /\ throttle[t].recent
    /\ throttle' = [throttle EXCEPT ![t] =
                      [@ EXCEPT !.pending = FALSE, !.timer = FALSE,
                                !.recent = throttle[t].timer /\ throttle[t].pending]]
    /\ UNCHANGED <<plan, at, aborted, late, lock, waiters, processVars, active, clearing, result,
                   out, taken, stream, got>>

---------------------------------------------------------------------------
(* The specification.  Timers fire, promises settle, a killed process ends *)
(* and what is in a pipe is read.                                          *)

WorkersNext ==
    \/ CancelAll \/ AllCancelled
    \/ \E w \in Workspace : LockExpires(w)
    \/ \E t \in Task :
        \/ Delegate(t) \/ WaitTimesOut(t) \/ Start(t) \/ Cancelled(t)
        \/ AbortPermit(t) \/ DeadlinePasses(t) \/ Return(t) \/ Drained(t)
        \/ Escalate(t) \/ GiveUp(t) \/ Write(t) \/ Exit(t)
        \/ StreamEvent(t) \/ StreamEnds(t) \/ ThrottlePasses(t)

\* The steps of a delegation that fairness is assumed of.
Progresses(t) ==
    \/ WaitTimesOut(t) \/ Start(t) \/ Cancelled(t) \/ Return(t) \/ Drained(t)

WorkersFairness ==
    \A t \in Task :
        /\ WF_workerVars(Progresses(t))
        /\ WF_workerVars(Escalate(t))
        /\ WF_workerVars(shut[t] \in {"kill", "stuck"} /\ Exit(t))
        /\ WF_workerVars(StreamEvent(t)) /\ WF_workerVars(StreamEnds(t)) /\ WF_workerVars(ThrottlePasses(t))

WorkersSpec == WorkersInit /\ [][WorkersNext]_workerVars /\ WorkersFairness

---------------------------------------------------------------------------
(* Properties.                                                             *)

\* A lock that nobody has, nobody waits for: whoever deletes the entry of a
\* workspace passes it on (workspace-lock.ts, notifyWaiters).
NoLostWakeup == \A w \in Workspace : lock[w] = None => waiters[w] = <<>>

\* A delegation that is over has left nothing behind: no lock, no place in a
\* queue, no active handle, and no process other than one that survived
\* SIGKILL (worker-gateway.ts, the finally blocks).
NothingLeftBehind ==
    \A t \in Task : at[t] = "done" =>
        /\ t \notin active /\ (proc[t] = "alive" => shut[t] = "stuck")
        /\ \A w \in Workspace : ~Holds(t, w) /\ \A i \in DOMAIN waiters[w] : waiters[w][i] # t

\* Both, with the types of the delegations.
WorkersInv == WorkersTypeOK /\ NoLostWakeup /\ NothingLeftBehind

\* A result that was awaited without streaming is made from all the worker has
\* written, also what is still in the pipe when it exits.
BatchComplete ==
    \A t \in Task : result[t] = "succeeded" /\ ~Streams(t) => got[t] = out[t]

\* The result of a worker is made from all it has written: "streamConsumed
\* tracking (for stream-then-await pattern)", "collect raw stdout for
\* awaitResult".
ResultComplete == \A t \in Task : result[t] = "succeeded" => got[t] = out[t]

\* A progress event is shown in the end: while one is kept back a timer runs
\* (job-event-throttle.ts).
ProgressShown == \A t \in Task : throttle[t].pending => throttle[t].timer

\* Nothing a worker prints is lost on its way to the result or to the screen.
OutputKept == BatchComplete /\ ProgressShown

\* An abort or a deadline ends the delegation, and its worker before it, unless
\* a descendant of an exited worker keeps the output open.
StoppedEnded ==
    \A t \in aborted \cup late :
      at[t] # "idle" => (at[t] = "done" /\ proc[t] # "alive") \/ t \in orphans

=============================================================================
