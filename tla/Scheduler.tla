------------------------------ MODULE Scheduler ------------------------------
(***************************************************************************)
(* The Scheduler (scheduler/index.ts) with its job queue, its in-flight    *)
(* registry, its retry policy and its dead letter queue, and the Core      *)
(* process as the Scheduler sees it through IPC.                           *)
(*                                                                         *)
(* A job that was accepted is known (jobInfo) until the Core reports its   *)
(* end.  On its way it is a token that moves: an entry of the queue, a     *)
(* call of processNext that waits for the Core's answers, a permit at the  *)
(* Core, or a timer that will put it in the queue again.                   *)
(*                                                                         *)
(* One action is one turn of the event loop.  The mutex of submitJob and   *)
(* processNext guards bodies without an await, so each is one action.  The *)
(* Core handles a request at the moment it is sent; what is late is the    *)
(* answer.  The messages about one job arrive in the order in which they   *)
(* were sent, those about different jobs in any order.                     *)
(***************************************************************************)
EXTENDS JobQueue, FiniteSets, SequencesExt

CONSTANTS
    Key, NoKey, NoJob,  \* idempotency keys, and markers for "none"
    KeyOf,              \* job.key of each job
    JobMaxAttempts,     \* limits.maxAttempts of each job, which the Core enforces
    MaxAttempts,        \* maxAttempts of the retry policy
    MaxDlq,             \* maxSize of the dead letter queue
    MaxTimeouts,        \* bound: how often a request times out
    MaxCancels          \* bound: how often a client cancels a job at the Core

ASSUME SchedulerAssumption ==
    /\ NoJob \notin Job /\ NoKey \notin Key
    /\ KeyOf \in [Job -> Key \cup {NoKey}]
    /\ JobMaxAttempts \in [Job -> Nat \ {0}]
    /\ MaxAttempts \in Nat \ {0} /\ MaxDlq \in Nat \ {0}
    /\ MaxTimeouts \in Nat /\ MaxCancels \in Nat

VARIABLES
    running,     \* Scheduler.running
    loop,        \* where processLoop is
    ending,      \* where shutdown() is
    queue,       \* the heap of the JobQueue
    inflight,    \* InFlightRegistry.entries, the job of each key
    info,        \* Scheduler.jobInfo
    timers,      \* per job, the pending timers that enqueue it
    submitting,  \* per job, the attempts of the calls that wait for the ack of submit_job
    pipe,        \* per job, the messages from the Core that have not been handled
    core,        \* the Core process: "up", or "down" when it has not started or has ended
    atCore,      \* what the Core knows of each job
    dlq,         \* DeadLetterQueue.entries
    submitted,   \* history: the jobs a client submitted
    replaced,    \* history: the jobs whose key a LATEST_WINS job took over
    retried,     \* history: the jobs that failed and were given another attempt
    timeouts, cancels  \* counters of the bounds

client    == <<submitted, replaced, cancels>>
shutdown  == <<running, ending>>
records   == <<inflight, info, dlq, retried>>
calls     == <<submitting, pipe, timeouts>>
coreState == <<core, atCore>>
vars == <<shutdown, loop, queue, timers, records, calls, coreState, client>>

Policy  == {"COALESCE", "LATEST_WINS", "REJECT"}
Outcome == {"over", "retryable", "fatal"}
    \* "over": succeeded or cancelled, which end a job in the same way;
    \* "retryable" and "fatal": failed, with and without a retryable error class

Answer(type)  == [type |-> type, late |-> FALSE]
Completed(o)  == [type |-> "job_completed", outcome |-> o]
JobCancelled  == [type |-> "job_cancelled"]
Message == [type: {"permit_granted", "permit_rejected"}, late: BOOLEAN]
           \cup [type: {"job_completed"}, outcome: Outcome]
           \cup {JobCancelled}

Known(j) == info[j].known
KnownJobs == {j \in Job : Known(j)}

Forgotten == [known |-> FALSE, attempt |-> 0, processing |-> FALSE]

TypeOK ==
    /\ running \in BOOLEAN
    /\ loop \in {"off", "top", "waiting", "woken", "exited"}
    /\ ending \in {"no", "draining", "killing", "done"}
    /\ queue \in Seq(HeapEntry)
    /\ inflight \in [Key -> Job \cup {NoJob}]
    /\ info \in [Job -> [known: BOOLEAN, attempt: 0..MaxAttempts - 1, processing: BOOLEAN]]
    /\ timers \in [Job -> Nat]
    /\ submitting \in [Job -> Seq(Nat)]
    /\ pipe \in [Job -> Seq(Message)]
    /\ core \in {"up", "down"}
    /\ atCore \in [Job -> {"unknown", "registered", "running"}]
    /\ dlq \in Seq(Job) /\ Len(dlq) <= MaxDlq
    /\ submitted \subseteq Job /\ replaced \subseteq Job /\ retried \subseteq Job
    /\ timeouts \in 0..MaxTimeouts /\ cancels \in 0..MaxCancels

Init ==
    /\ running = FALSE /\ loop = "off" /\ ending = "no"
    /\ queue = << >>
    /\ inflight = [k \in Key |-> NoJob]
    /\ info = [j \in Job |-> Forgotten]
    /\ timers = [j \in Job |-> 0]
    /\ submitting = [j \in Job |-> << >>]
    /\ pipe = [j \in Job |-> << >>]
    /\ core = "down"
    /\ atCore = [j \in Job |-> "unknown"]
    /\ dlq = << >>
    /\ submitted = {} /\ replaced = {} /\ retried = {}
    /\ timeouts = 0 /\ cancels = 0

----------------------------------------------------------------------------
(* Helpers.                                                                *)

\* notify() resolves the promise of a loop that waits, and is lost otherwise.
Notified(l) == IF l = "waiting" THEN "woken" ELSE l

\* InFlightRegistry.deregister of the job's key, whoever holds it.
Deregistered(j) ==
    IF KeyOf[j] = NoKey THEN inflight ELSE [inflight EXCEPT ![KeyOf[j]] = NoJob]

\* DeadLetterQueue.push drops the oldest entry of a full queue.
Pushed(letters, j) == Append(IF Len(letters) >= MaxDlq THEN Tail(letters) ELSE letters, j)

\* The last n of a sequence.
LastOf(seq, n) == IF Len(seq) <= n THEN seq ELSE SubSeq(seq, Len(seq) - n + 1, Len(seq))

Forget(j) == info' = [info EXCEPT ![j] = Forgotten]

SetTimer(j) == timers' = [timers EXCEPT ![j] = @ + 1]

\* RetryPolicy.shouldRetry for a failure of the given outcome.
ShouldRetry(outcome, attempt) == outcome = "retryable" /\ attempt < MaxAttempts - 1

----------------------------------------------------------------------------
(* Clients.                                                                *)

\* What register() answers to a job with a key that is taken.
Proceeds(j, policy) ==
    \/ KeyOf[j] = NoKey
    \/ inflight[KeyOf[j]] = NoJob
    \/ policy = "LATEST_WINS"

\* submitJob of a job that is refused changes nothing, the client is told.
Submit(j, policy) ==
    /\ j \notin submitted
    /\ submitted' = submitted \cup {j}
    /\ IF Proceeds(j, policy)
       THEN /\ inflight' = IF KeyOf[j] = NoKey THEN inflight
                           ELSE [inflight EXCEPT ![KeyOf[j]] = j]
            /\ replaced' = IF KeyOf[j] = NoKey THEN replaced
                           ELSE replaced \cup ({inflight[KeyOf[j]]} \ {NoJob})
            /\ queue' = Enqueue(queue, j)
            /\ info' = [info EXCEPT ![j] = [Forgotten EXCEPT !.known = TRUE]]
            /\ loop' = Notified(loop)
       ELSE UNCHANGED <<inflight, replaced, queue, info, loop>>
    /\ UNCHANGED <<shutdown, timers, dlq, retried, calls, coreState, cancels>>

\* A client that was given a cancelJobId cancels that job at the Core, through
\* getSupervisor().getIpc(): the Scheduler itself never sends cancel_job.
CancelAtCore(j) ==
    /\ cancels < MaxCancels /\ core = "up" /\ ending = "no" /\ atCore[j] # "unknown"
    /\ cancels' = cancels + 1
    /\ atCore' = [atCore EXCEPT ![j] = IF @ = "registered" THEN "unknown" ELSE @]
    /\ pipe' = [pipe EXCEPT ![j] = Append(@, JobCancelled)]
    /\ UNCHANGED <<shutdown, loop, queue, timers, records, submitting, timeouts, core,
                   submitted, replaced>>

----------------------------------------------------------------------------
(* The process loop.                                                       *)

\* start(): the Core is spawned (see Supervisor) and the loop begins.
Start ==
    /\ ~running /\ loop = "off"
    /\ running' = TRUE /\ loop' = "top" /\ core' = "up"
    /\ UNCHANGED <<ending, queue, timers, records, calls, atCore, client>>

\* processNext takes the first job and sends submit_job for it.
ProcessNext ==
    LET j == queue[1].job
    IN /\ queue' = Dequeued(queue)
       /\ submitting' = [submitting EXCEPT ![j] = Append(@, info[j].attempt)]

\* The head of the while loop: leave, wait, or take a job.
LoopTurn ==
    /\ loop = "top"
    /\ \/ ~running /\ loop' = "exited" /\ UNCHANGED <<queue, submitting>>
       \/ running /\ queue = << >> /\ loop' = "waiting" /\ UNCHANGED <<queue, submitting>>
       \/ running /\ queue # << >> /\ ProcessNext /\ UNCHANGED loop
    /\ UNCHANGED <<shutdown, timers, records, pipe, timeouts, coreState, client>>

\* waitForNotification returns.
LoopWakes ==
    /\ loop = "woken"
    /\ loop' = IF running THEN "top" ELSE "exited"
    /\ IF running /\ queue # << >> THEN ProcessNext ELSE UNCHANGED <<queue, submitting>>
    /\ UNCHANGED <<shutdown, timers, records, pipe, timeouts, coreState, client>>

\* The ack of submit_job arrives and request_permit is sent.  The Core refuses a
\* job that has a permit or has used up its own attempts, may refuse any other,
\* and starts a worker when it grants the permit.
AckArrives(j) ==
    /\ submitting[j] # << >> /\ core = "up"
    /\ submitting' = [submitting EXCEPT ![j] = Tail(@)]
    /\ \/ /\ atCore[j] # "running" /\ Head(submitting[j]) < JobMaxAttempts[j]
          /\ atCore' = [atCore EXCEPT ![j] = "running"]
          /\ pipe' = [pipe EXCEPT ![j] = Append(@, Answer("permit_granted"))]
       \/ /\ atCore' = [atCore EXCEPT ![j] = IF @ = "running" THEN @ ELSE "registered"]
          /\ pipe' = [pipe EXCEPT ![j] = Append(@, Answer("permit_rejected"))]
    /\ UNCHANGED <<shutdown, loop, queue, timers, records, timeouts, core, client>>

\* A timer of the backoff or of the retry policy.
TimerFires(j) ==
    /\ timers[j] > 0
    /\ timers' = [timers EXCEPT ![j] = @ - 1]
    /\ IF running
       THEN queue' = Enqueue(queue, j) /\ loop' = Notified(loop)
       ELSE UNCHANGED <<queue, loop>>
    /\ UNCHANGED <<shutdown, records, calls, coreState, client>>

----------------------------------------------------------------------------
(* Requests that time out or fail: the catch clause of processNext.        *)

SubmitTimesOut(j) ==
    /\ timeouts < MaxTimeouts /\ submitting[j] # << >>
    /\ timeouts' = timeouts + 1
    /\ submitting' = [submitting EXCEPT ![j] = Tail(@)]
    /\ SetTimer(j)
    /\ UNCHANGED <<shutdown, loop, queue, records, pipe, coreState, client>>

\* The answer is on its way; when it comes nobody waits for it any more.
RequestTimesOut(j, i) ==
    /\ timeouts < MaxTimeouts
    /\ i \in DOMAIN pipe[j] /\ "late" \in DOMAIN pipe[j][i] /\ ~pipe[j][i].late
    /\ timeouts' = timeouts + 1
    /\ pipe' = [pipe EXCEPT ![j][i].late = TRUE]
    /\ SetTimer(j)
    /\ UNCHANGED <<shutdown, loop, queue, records, submitting, coreState, client>>

\* The transport is closed, or writing to it fails: the calls are rejected.
CallFails(j) ==
    /\ core = "down" /\ submitting[j] # << >>
    /\ submitting' = [submitting EXCEPT ![j] = Tail(@)]
    /\ SetTimer(j)
    /\ UNCHANGED <<shutdown, loop, queue, records, pipe, timeouts, coreState, client>>

----------------------------------------------------------------------------
(* Messages from the Core.                                                 *)

Handles(j, type) ==
    /\ pipe[j] # << >> /\ Head(pipe[j]).type = type
    /\ pipe' = [pipe EXCEPT ![j] = Tail(@)]
    /\ UNCHANGED <<shutdown, loop, queue, submitting, timeouts, coreState, client>>

\* A granted permit that somebody waits for reaches that waiter alone; only a
\* late one reaches the handler that marks the job as processing.
GrantArrives(j) ==
    /\ Handles(j, "permit_granted")
    /\ info' = IF Head(pipe[j]).late /\ Known(j)
               THEN [info EXCEPT ![j].processing = TRUE] ELSE info
    /\ UNCHANGED <<timers, inflight, dlq, retried>>

\* Faulty: a rejected job is dropped.
RejectionDropped(j) ==
    /\ Handles(j, "permit_rejected")
    /\ info' = [info EXCEPT ![j].processing = FALSE]
    /\ UNCHANGED <<inflight, dlq, timers, retried>>

\* A late rejection is ignored.
RejectionArrives(j) ==
    /\ Handles(j, "permit_rejected")
    /\ IF Head(pipe[j]).late
       THEN UNCHANGED <<info, timers>>
       ELSE /\ info' = [info EXCEPT ![j].processing = FALSE]
            /\ SetTimer(j)
    /\ UNCHANGED <<inflight, dlq, retried>>

\* handleJobCompleted: the end, another attempt, or the dead letter queue.
CompletionArrives(j) ==
    LET outcome == Head(pipe[j]).outcome
    IN /\ Handles(j, "job_completed")
       /\ IF ~Known(j) THEN UNCHANGED <<records, timers>>
          ELSE /\ inflight' = Deregistered(j)
               /\ IF outcome = "over"
                  THEN Forget(j) /\ UNCHANGED <<dlq, timers, retried>>
                  ELSE IF ShouldRetry(outcome, info[j].attempt)
                  THEN /\ info' = [info EXCEPT ![j].processing = FALSE,
                                               ![j].attempt = @ + 1]
                       /\ SetTimer(j)
                       /\ retried' = retried \cup {j}
                       /\ UNCHANGED dlq
                  ELSE /\ dlq' = Pushed(dlq, j)
                       /\ Forget(j)
                       /\ UNCHANGED <<timers, retried>>

CancellationArrives(j) ==
    /\ Handles(j, "job_cancelled")
    /\ IF Known(j) THEN inflight' = Deregistered(j) /\ Forget(j)
       ELSE UNCHANGED <<inflight, info>>
    /\ UNCHANGED <<timers, dlq, retried>>

----------------------------------------------------------------------------
(* shutdown().                                                             *)

InFlightJobs == {j \in Job : info[j].processing}

ShutdownBegins ==
    /\ running /\ ending = "no"
    /\ running' = FALSE
    /\ loop' = Notified(loop)
    /\ ending' = IF InFlightJobs # {} THEN "draining" ELSE "killing"
    /\ UNCHANGED <<queue, timers, records, calls, coreState, client>>

DrainEnds ==
    /\ ending = "draining" /\ InFlightJobs = {}
    /\ ending' = "killing"
    /\ UNCHANGED <<running, loop, queue, timers, records, calls, coreState, client>>

\* drainTimeoutMs is over: what is still processing goes to the dead letter queue, one
\* after the other, and the last MaxDlq of all that was pushed remain.
DrainTimesOut ==
    /\ ending = "draining"
    /\ ending' = "killing"
    /\ dlq' = LastOf(dlq \o SetToSeq(InFlightJobs), MaxDlq)
    /\ inflight' = [k \in Key |-> IF \E j \in InFlightJobs : KeyOf[j] = k
                                  THEN NoJob ELSE inflight[k]]
    /\ info' = [j \in Job |-> IF j \in InFlightJobs THEN Forgotten ELSE info[j]]
    /\ UNCHANGED <<running, loop, queue, timers, retried, calls, coreState, client>>

\* killCore(): the transport is closed and the process ends (see Supervisor).
CoreKilled ==
    /\ ending = "killing"
    /\ ending' = "done"
    /\ core' = "down"
    /\ atCore' = [j \in Job |-> "unknown"]
    /\ pipe' = [j \in Job |-> << >>]
    /\ UNCHANGED <<running, loop, queue, timers, records, submitting, timeouts, client>>

----------------------------------------------------------------------------
(* The Core process, external to the Scheduler.                            *)

CoreFinishes(j, outcome) ==
    /\ core = "up" /\ atCore[j] = "running"
    /\ atCore' = [atCore EXCEPT ![j] = "unknown"]
    /\ pipe' = [pipe EXCEPT ![j] = Append(@, Completed(outcome))]
    /\ UNCHANGED <<shutdown, loop, queue, timers, records, submitting, timeouts, core, client>>

\* What it has written can still be read.  Nothing starts it again: the Scheduler
\* registers no onCoreCrash callback.
CoreCrashes ==
    /\ core = "up" /\ ending # "done"
    /\ core' = "down"
    /\ atCore' = [j \in Job |-> "unknown"]
    /\ UNCHANGED <<shutdown, loop, queue, timers, records, calls, client>>

----------------------------------------------------------------------------
Shutdown == ShutdownBegins \/ DrainEnds \/ DrainTimesOut \/ CoreKilled

Receives(j) ==
    GrantArrives(j) \/ RejectionArrives(j) \/ CompletionArrives(j) \/ CancellationArrives(j)

Next ==
    \/ Start \/ LoopTurn \/ LoopWakes \/ Shutdown \/ CoreCrashes
    \/ \E j \in Job :
          \/ \E policy \in Policy : Submit(j, policy)
          \/ CancelAtCore(j) \/ AckArrives(j) \/ TimerFires(j) \/ Receives(j)
          \/ SubmitTimesOut(j) \/ CallFails(j)
          \/ \E i \in DOMAIN pipe[j] : RequestTimesOut(j, i)
          \/ \E outcome \in Outcome : CoreFinishes(j, outcome)

Spec == Init /\ [][Next]_vars

----------------------------------------------------------------------------
(* Properties.                                                             *)

Listened(j) == \E i \in DOMAIN pipe[j] :
    \/ pipe[j][i].type \in {"job_completed", "job_cancelled"}
    \/ pipe[j][i].type = "permit_rejected" /\ ~pipe[j][i].late

\* While the Scheduler and its Core run, a job it knows is somewhere on its way:
\* queued, in a call, at the Core, in a message or waiting for a timer.  A job for
\* which nothing of this holds would never end and would block its key.
NoJobLost ==
    running /\ core = "up" =>
        \A j \in Job : Known(j) =>
            \/ j \in Queued(queue) \/ timers[j] > 0 \/ submitting[j] # << >>
            \/ atCore[j] = "running" \/ Listened(j)

\* A key is registered for a job that is known and has that key: no key stays
\* blocked after its job ended.  (The converse does not hold: the end of a job
\* that a LATEST_WINS job replaced frees the key of its successor.)
KeysOwned ==
    \A k \in Key : inflight[k] # NoJob => Known(inflight[k]) /\ KeyOf[inflight[k]] = k

\* Two known jobs have one key only where a LATEST_WINS job has taken the key over, or
\* where a job with the key failed and got another attempt: the registration is
\* dropped at each failure, and at the end of a job that no longer holds it.
KeyGuarded ==
    \A i, j \in KnownJobs :
        i # j /\ KeyOf[i] = KeyOf[j] /\ KeyOf[i] # NoKey =>
            \E x \in replaced \cup retried : KeyOf[x] = KeyOf[i]

\* The heap gives the queue its order in every state.
QueueOrdered == FirstIsHighest(queue)

\* The loop never sleeps over a job in the queue, whoever enqueued it and whatever
\* the loop was doing then: no notification is lost.
NoLostWakeup == running /\ loop = "waiting" => queue = << >>

\* Keys, queue and loop.
SchedulerInv == TypeOK /\ KeysOwned /\ KeyGuarded /\ QueueOrdered /\ NoLostWakeup

\* "Wait for in-flight jobs to complete within drainTimeoutMs" (scheduler/index.ts):
\* without the drain's timer, shutdown() does not kill the Core over a job that
\* has been granted its permit.
DrainWaits ==
    [][ending = "no" /\ ending' = "killing" =>
         ~\E j \in Job : Known(j) /\ atCore[j] = "running" /\ pipe[j] = << >>]_vars
=============================================================================
