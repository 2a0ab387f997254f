----------------------- MODULE WorkflowExecutorProofs -----------------------
(***************************************************************************)
(* The safety of WorkflowExecutor, and that it implements StepSchedule.    *)
(*                                                                         *)
(* Every segment of a lifecycle, from one await to the next, ends in one   *)
(* of a few ways (Suspend, Advance, Leave, ...).  What all of them have in *)
(* common is stated once, as Segment; the lemmas show it operator by       *)
(* operator, and types and slots (Inv) need nothing else of the lifecycles.*)
(* The second half reduces every step of the executor to its Effect, a     *)
(* Move of each step of the workflow: the order of the steps, the reasons  *)
(* of the skips, the result (IInv) and the refinement follow from Effect.  *)
(***************************************************************************)
EXTENDS WorkflowExecutor, FiniteSetTheorems, WellFoundedInduction, TLAPS

CountType == [iteration : Nat, retries : Nat, infra : Nat]

\* The part of TypeOK that an ending of a segment has to keep.
SegmentTypes ==
    /\ status \in [Step -> StepStatus]
    /\ errorClass \in [Step -> ErrorClass \cup {"none"}]
    /\ at \in [Step -> Await]
    /\ held \in [Step -> Held]
    /\ recorded \in [Step -> StepStatus \cup {"none"}]
    /\ runningCount \in Int
    /\ abortReason \in {"null", "timeout", "external", "management"}
    /\ loop \in {"start", "waiting", "woken", "draining", "exited"}
    /\ pending \in BOOLEAN

NotLaunched == {"PENDING", "READY"}

\* A step that is still to be launched has no lifecycle.
IdleUntilLaunched ==
    \A s \in Step : status[s] \in NotLaunched => at[s] = "idle"

\* What an on_stall hook is asked about is an error class.
StallHasClass == \A s \in Step : at[s] = "on_stall" => held[s] \in ErrorClass

\* The lifecycle of s keeps its slot, or gives it back, once; other lifecycles
\* stay where they are; no step goes back to a status before its launch.
Segment(s) ==
    /\ SegmentTypes'
    /\ at'[s] = "on_stall" => held'[s] \in ErrorClass
    /\ \A t \in Step \ {s} : at'[t] = at[t] /\ held'[t] = held[t]
    /\ \/ at'[s] \in SlotAwait /\ runningCount' = runningCount
       \/ at'[s] \in {"post_step", "meta"} /\ runningCount' = runningCount - 1
    /\ \A t \in Step :
          status'[t] \in NotLaunched => status[t] \in NotLaunched

CountKept == count' \in [Step -> CountType]

-----------------------------------------------------------------------------
(* The ways a segment ends. *)

LEMMA SignalType ==
    ASSUME TypeOK, NEW byAbort, NEW notes, Signal(byAbort, notes)
    PROVE  /\ loop' \in {"start", "waiting", "woken", "draining", "exited"}
           /\ pending' \in BOOLEAN
<1>1. loop' \in {"start", "waiting", "woken", "draining", "exited"}
  BY DEF TypeOK, Signal
<1>2. pending' \in BOOLEAN
  BY Zenon DEF Signal
<1> QED
  BY <1>1, <1>2

\* What Leave does to the variables it fixes.
LEMMA LeaveType ==
    ASSUME TypeOK, NEW s \in Step, NEW st \in [Step -> StepStatus],
           Leave(s, st)
    PROVE  /\ status' \in [Step -> StepStatus]
           /\ runningCount' \in Int /\ runningCount' = runningCount - 1
           /\ at' \in [Step -> Await]
           /\ at'[s] \in {"post_step", "meta"}
           /\ \A t \in Step \ {s} : at'[t] = at[t] /\ held'[t] = held[t]
           /\ recorded' \in [Step -> StepStatus \cup {"none"}]
           /\ held' \in [Step -> Held]
           /\ \A t \in Step :
                 status'[t] \in NotLaunched => st[t] \in NotLaunched
<1> DEFINE cancels == def(s).subworkflow /\ aborted /\ st[s] = "RUNNING"
           final == IF cancels THEN [st EXCEPT ![s] = "CANCELLED"] ELSE st
           hooked == /\ LifecycleHook(s, "post_step")
                     /\ IsTerminal(final, s)
                     /\ ~aborted
<1>1. /\ status' = final
      /\ runningCount' = runningCount - 1
      /\ at' = [at EXCEPT ![s] = IF hooked THEN "post_step" ELSE "meta"]
      /\ recorded' = IF hooked THEN recorded
                     ELSE [recorded EXCEPT ![s] = final[s]]
      /\ held' = [held EXCEPT ![s] = "none"]
  BY DEF Leave
<1>2. final \in [Step -> StepStatus]
  BY DEF StepStatus
<1>3. \A t \in Step : final[t] \in NotLaunched => st[t] \in NotLaunched
  BY DEF NotLaunched
<1> HIDE DEF final, hooked
<1>4. /\ at' \in [Step -> Await]
      /\ at'[s] \in {"post_step", "meta"}
      /\ \A t \in Step \ {s} : at'[t] = at[t] /\ held'[t] = held[t]
  BY <1>1 DEF TypeOK, Await
<1>5. recorded' \in [Step -> StepStatus \cup {"none"}]
  BY <1>1, <1>2 DEF TypeOK
<1>6. held' \in [Step -> Held]
  BY <1>1 DEF TypeOK, Held
<1> QED
  BY <1>1, <1>2, <1>3, <1>4, <1>5, <1>6 DEF TypeOK

LEMMA ReturnSegment ==
    ASSUME TypeOK, NEW s \in Step, NEW st \in [Step -> StepStatus],
           \A t \in Step : st[t] \in NotLaunched => status[t] \in NotLaunched,
           Return(s, st)
    PROVE  Segment(s)
BY LeaveType DEF Return, Quiet, loopVars, Segment, SegmentTypes, TypeOK

LEMMA BecomeSegment ==
    ASSUME TypeOK, NEW s \in Step, NEW new \in StepStatus \ NotLaunched,
           Become(s, new)
    PROVE  Segment(s)
<1> DEFINE st == [status EXCEPT ![s] = new]
<1>1. st \in [Step -> StepStatus]
  BY DEF TypeOK
<1>2. \A t \in Step : st[t] \in NotLaunched => status[t] \in NotLaunched
  BY DEF TypeOK
<1>3. Return(s, st)
  BY DEF Become
<1> HIDE DEF st
<1> QED
  BY <1>1, <1>2, <1>3, ReturnSegment

LEMMA FailSegment ==
    ASSUME TypeOK, NEW s \in Step, NEW class \in ErrorClass \cup {"none"},
           NEW skips \in BOOLEAN, Fail(s, class, skips)
    PROVE  Segment(s)
<1> DEFINE st == [status EXCEPT ![s] = "FAILED"]
<1>1. /\ errorClass' \in [Step -> ErrorClass \cup {"none"}]
      /\ UNCHANGED loopVars
  BY DEF Fail, TypeOK, Quiet
<1>2. st \in [Step -> StepStatus]
  BY DEF TypeOK, StepStatus
<1>3. \A t \in Step : st[t] \in NotLaunched => status[t] \in NotLaunched
  BY DEF TypeOK, NotLaunched
<1>4. \E final \in [Step -> StepStatus] :
         /\ Leave(s, final)
         /\ \A t \in Step :
               final[t] \in NotLaunched => status[t] \in NotLaunched
  <2>1. CASE Leave(s, st)
    BY <1>2, <1>3, <2>1
  <2>2. CASE \E K \in SUBSET Step : Leave(s, Skipping(st, K))
    <3>1. PICK K \in SUBSET Step : Leave(s, Skipping(st, K))
      BY <2>2
    <3>2. Skipping(st, K) \in [Step -> StepStatus]
      BY <1>2 DEF Skipping, StepStatus
    <3>3. \A t \in Step :
             Skipping(st, K)[t] \in NotLaunched => status[t] \in NotLaunched
      BY <1>3 DEF Skipping, NotLaunched
    <3> QED
      BY <3>1, <3>2, <3>3
  <2> QED
    BY <2>1, <2>2 DEF Fail
<1> QED
  BY <1>1, <1>4, LeaveType DEF loopVars, Segment, SegmentTypes, TypeOK

LEMMA FailByPolicySegment ==
    ASSUME TypeOK, NEW s \in Step, NEW class \in ErrorClass,
           FailByPolicy(s, class)
    PROVE  Segment(s)
<1>1. PolicySkips(s, class) \in BOOLEAN
  BY DEF PolicySkips
<1> QED
  BY <1>1, FailSegment DEF FailByPolicy

LEMMA AbortSegment ==
    ASSUME TypeOK, NEW s \in Step, AbortByManagement(s)
    PROVE  Segment(s)
<1>1. Leave(s, status) /\ status \in [Step -> StepStatus]
  BY DEF AbortByManagement, TypeOK
<1>2. /\ loop' \in {"start", "waiting", "woken", "draining", "exited"}
      /\ pending' \in BOOLEAN
  <2>1. Signal(~aborted, 0)
    BY DEF AbortByManagement
  <2> QED
    BY <2>1, SignalType, Zenon
<1> QED
  BY <1>1, <1>2, LeaveType
  DEF AbortByManagement, Segment, SegmentTypes, TypeOK

LEMMA SuspendSegment ==
    ASSUME TypeOK, NEW s \in Step, NEW a \in SlotAwait, NEW h \in Held,
           a = "on_stall" => h \in ErrorClass, Suspend(s, a, h)
    PROVE  Segment(s)
BY DEF Suspend, Quiet, loopVars, Segment, SegmentTypes, TypeOK, Await

LEMMA AdvanceSegment ==
    ASSUME TypeOK, NEW s \in Step, NEW a \in SlotAwait \ {"on_stall"}, Advance(s, a)
    PROVE  Segment(s)
<1>1. /\ loop' \in {"start", "waiting", "woken", "draining", "exited"}
      /\ pending' \in BOOLEAN
  <2>1. Signal(FALSE, IF a = "run" THEN 1 ELSE 0)
    BY DEF Advance
  <2> QED
    BY <2>1, SignalType, Zenon
<1>2. /\ status' \in [Step -> StepStatus]
      /\ \A t \in Step :
            status'[t] \in NotLaunched => status[t] \in NotLaunched
  BY DEF Advance, TypeOK, StepStatus, NotLaunched
<1>3. /\ at' \in [Step -> Await] /\ at'[s] \in SlotAwait \ {"on_stall"}
      /\ \A t \in Step \ {s} : at'[t] = at[t] /\ held'[t] = held[t]
      /\ held' \in [Step -> Held]
  BY DEF Advance, TypeOK, Await, Held
<1> QED
  BY <1>1, <1>2, <1>3 DEF Advance, Segment, SegmentTypes, TypeOK

LEMMA FirstAwaitType ==
    ASSUME NEW s \in Step, NEW iteration
    PROVE  FirstAwait(s, iteration) \in SlotAwait \ {"on_stall"}
BY DEF FirstAwait, AfterLock, AfterPreStep, SlotAwait

LEMMA LoopHeadSegment ==
    ASSUME TypeOK, NEW s \in Step, NEW iteration, LoopHead(s, iteration)
    PROVE  Segment(s)
<1>1. CASE aborted
  BY <1>1, ReturnSegment DEF LoopHead, TypeOK
<1>2. CASE ~aborted
  BY <1>2, AdvanceSegment, FirstAwaitType DEF LoopHead
<1> QED
  BY <1>1, <1>2

LEMMA WorkDoneSegment ==
    ASSUME TypeOK, NEW s \in Step, WorkDone(s)
    PROVE  Segment(s)
<1>1. CASE def(s).completion_check
  <2>1. /\ loop' \in {"start", "waiting", "woken", "draining", "exited"}
        /\ pending' \in BOOLEAN
    <3>1. Signal(FALSE, 1)
      BY <1>1 DEF WorkDone
    <3> QED
      BY <3>1, SignalType, Zenon
  <2>2. /\ status' \in [Step -> StepStatus]
        /\ \A t \in Step :
              status'[t] \in NotLaunched => status[t] \in NotLaunched
    BY <1>1 DEF WorkDone, TypeOK, StepStatus, NotLaunched
  <2>3. /\ at' \in [Step -> Await] /\ at'[s] \in {"pre_check", "check"}
        /\ \A t \in Step \ {s} : at'[t] = at[t] /\ held'[t] = held[t]
        /\ held' \in [Step -> Held]
    BY <1>1 DEF WorkDone, TypeOK, Await, SlotAwait, Held
  <2> QED
    BY <1>1, <2>1, <2>2, <2>3
    DEF WorkDone, Segment, SegmentTypes, TypeOK, SlotAwait
<1>2. CASE Suspend(s, "outputs", "none")
  BY <1>2, SuspendSegment DEF SlotAwait, Held
<1>3. CASE Become(s, "SUCCEEDED")
  BY <1>3, BecomeSegment DEF StepStatus, NotLaunched
<1> QED
  BY <1>1, <1>2, <1>3 DEF WorkDone

LEMMA WorkSucceededSegment ==
    ASSUME TypeOK, NEW s \in Step, WorkSucceeded(s)
    PROVE  Segment(s)
<1>1. CASE Suspend(s, "branch", "none")
  BY <1>1, SuspendSegment DEF SlotAwait, Held
<1>2. CASE WorkDone(s)
  BY <1>2, WorkDoneSegment
<1> QED
  BY <1>1, <1>2 DEF WorkSucceeded

LEMMA CountUnchanged ==
    ASSUME TypeOK, UNCHANGED count
    PROVE  CountKept
BY DEF TypeOK, CountKept, CountType

LEMMA FailOrRetrySegment ==
    ASSUME TypeOK, NEW s \in Step, NEW class \in ErrorClass,
           FailOrRetry(s, class)
    PROVE  Segment(s) /\ CountKept
<1>1. CASE /\ count' = [count EXCEPT ![s].retries = @ + 1]
           /\ Suspend(s, "backoff", class)
  <2>1. CountKept
    BY <1>1 DEF TypeOK, CountKept, CountType
  <2> QED
    BY <1>1, <2>1, SuspendSegment DEF SlotAwait, Held
<1>2. CASE FailByPolicy(s, class) /\ UNCHANGED count
  BY <1>2, FailByPolicySegment, CountUnchanged
<1> QED
  BY <1>1, <1>2 DEF FailOrRetry

LEMMA ChildMappedSegment ==
    ASSUME TypeOK, NEW s \in Step, NEW child, ChildMapped(s, child)
    PROVE  Segment(s) /\ CountKept
<1>1. CASE WorkSucceeded(s) /\ UNCHANGED count
  BY <1>1, WorkSucceededSegment, CountUnchanged
<1>2. CASE Become(s, "CANCELLED") /\ UNCHANGED count
  BY <1>2, BecomeSegment, CountUnchanged DEF StepStatus, NotLaunched
<1>3. CASE FailByPolicy(s, "fatal") /\ UNCHANGED count
  BY <1>3, FailByPolicySegment, CountUnchanged DEF ErrorClass
<1>4. CASE FailOrRetry(s, "non_retryable")
  BY <1>4, FailOrRetrySegment DEF ErrorClass
<1> QED
  BY <1>1, <1>2, <1>3, <1>4 DEF ChildMapped

-----------------------------------------------------------------------------
(* The completion check. *)

LEMMA IterateSegment ==
    ASSUME TypeOK, NEW s \in Step, NEW counted \in [Step -> CountType],
           Iterate(s, counted)
    PROVE  Segment(s) /\ CountKept
<1>1. CASE /\ count' = counted
           /\ IF def(s).on_iterations_exhausted = "abort"
              THEN Fail(s, "none", TRUE) ELSE Become(s, "INCOMPLETE")
  <2>1. Segment(s)
    BY <1>1, FailSegment, BecomeSegment DEF StepStatus, NotLaunched
  <2> QED
    BY <1>1, <2>1 DEF CountKept
<1>2. CASE /\ count' = [counted EXCEPT ![s].iteration = @ + 1,
                                       ![s].retries = 0]
           /\ LoopHead(s, count[s].iteration + 1)
  <2>1. counted[s] \in CountType /\ counted[s].iteration + 1 \in Nat
    BY DEF CountType
  <2>2. [counted[s] EXCEPT !.iteration = @ + 1, !.retries = 0] \in CountType
    BY <2>1 DEF CountType
  <2>3. count' = [counted EXCEPT ![s] =
                     [counted[s] EXCEPT !.iteration = @ + 1, !.retries = 0]]
    BY <1>2, <2>1 DEF CountType
  <2>4. CountKept
    BY <2>2, <2>3 DEF CountKept
  <2> QED
    BY <1>2, <2>4, LoopHeadSegment
<1> QED
  BY <1>1, <1>2 DEF Iterate

LEMMA DecideSegment ==
    ASSUME TypeOK, NEW s \in Step, NEW decision, Decide(s, decision)
    PROVE  Segment(s) /\ CountKept
<1>1. CASE Become(s, "SUCCEEDED") /\ UNCHANGED count
  BY <1>1, BecomeSegment, CountUnchanged DEF StepStatus, NotLaunched
<1>2. CASE /\ count' = [count EXCEPT ![s].infra = @ + 1]
           /\ Fail(s, "none", def(s).on_failure # "continue")
  <2>1. CountKept
    BY <1>2 DEF TypeOK, CountKept, CountType
  <2> QED
    BY <1>2, <2>1, FailSegment
<1>3. CASE LET counted == [count EXCEPT ![s].infra =
                              IF decision = "infra" THEN @ + 1 ELSE 0]
           IN  IF def(s).convergence
               THEN Suspend(s, "converge", "none") /\ count' = counted
               ELSE Iterate(s, counted)
  <2> DEFINE counted == [count EXCEPT ![s].infra =
                            IF decision = "infra" THEN @ + 1 ELSE 0]
  <2>1. counted \in [Step -> CountType]
    BY DEF TypeOK, CountType
  <2>2. \/ Suspend(s, "converge", "none") /\ count' = counted
        \/ Iterate(s, counted)
    BY <1>3
  <2> HIDE DEF counted
  <2> QED
    BY <2>1, <2>2, SuspendSegment, IterateSegment
    DEF SlotAwait, Held, CountKept
<1> QED
  BY <1>1, <1>2, <1>3 DEF Decide

LEMMA GuardedSegment ==
    ASSUME TypeOK, NEW s \in Step, NEW decision \in Held,
           Guarded(s, decision)
    PROVE  Segment(s) /\ CountKept
<1>1. CASE Suspend(s, "post_check", decision) /\ UNCHANGED count
  BY <1>1, SuspendSegment, CountUnchanged DEF SlotAwait
<1>2. CASE Decide(s, decision)
  BY <1>2, DecideSegment
<1> QED
  BY <1>1, <1>2 DEF Guarded

LEMMA CheckSettledSegment ==
    ASSUME TypeOK, NEW s \in Step, NEW outcome \in Held,
           CheckSettled(s, outcome)
    PROVE  Segment(s) /\ CountKept
<1>1. CASE /\ outcome \in ErrorClass /\ FailByPolicy(s, outcome)
           /\ UNCHANGED count
  BY <1>1, FailByPolicySegment, CountUnchanged
<1>2. CASE Fail(s, "none", def(s).on_failure = "abort") /\ UNCHANGED count
  BY <1>2, FailSegment, CountUnchanged
<1>3. CASE Suspend(s, "guards", outcome) /\ UNCHANGED count
  BY <1>3, SuspendSegment, CountUnchanged DEF SlotAwait
<1>4. CASE Guarded(s, outcome)
  BY <1>4, GuardedSegment
<1> QED
  BY <1>1, <1>2, <1>3, <1>4 DEF CheckSettled

LEMMA CollectingSegment ==
    ASSUME TypeOK, NEW s \in Step, NEW outcome \in Held,
           Collecting(s, outcome)
    PROVE  Segment(s) /\ CountKept
<1>1. CASE Suspend(s, "collect", outcome) /\ UNCHANGED count
  BY <1>1, SuspendSegment, CountUnchanged DEF SlotAwait
<1>2. CASE CheckSettled(s, outcome)
  BY <1>2, CheckSettledSegment
<1> QED
  BY <1>1, <1>2 DEF Collecting

-----------------------------------------------------------------------------
(* Every action of a lifecycle is such a segment, or a step of the finally   *)
(* block after the slot was given back.                                      *)

AfterSlot(s) ==
    /\ SegmentTypes'
    /\ at[s] \in {"post_step", "meta"} /\ at'[s] \in {"meta", "ended"}
    /\ \A t \in Step \ {s} : at'[t] = at[t]
    /\ UNCHANGED <<runningCount, status, held>>

LEMMA SegmentActions ==
    ASSUME TypeOK, StallHasClass, NEW s \in Step,
           \/ BranchLockChecked(s) \/ IterationPreStepAnswered(s)
           \/ InputsResolved(s) \/ WorkerReturned(s) \/ WorkerStalled(s)
           \/ OnStallAnswered(s) \/ BackoffOver(s) \/ BranchUpdated(s)
           \/ OutputsCollected(s) \/ ChildReturned(s) \/ ExportsCopied(s)
           \/ PreCheckAnswered(s) \/ CheckReturned(s) \/ CheckOutputsCollected(s)
           \/ GuardsApplied(s) \/ PostCheckAnswered(s) \/ ConvergenceUpdated(s)
    PROVE  at[s] \in SlotAwait /\ Segment(s) /\ CountKept
<1> USE DEF SlotAwait
<1>0. /\ status \in [Step -> StepStatus]
      /\ \A t \in Step : status[t] \in NotLaunched => status[t] \in NotLaunched
      /\ held[s] \in Held
  BY DEF TypeOK
<1>a. Return(s, status) => Segment(s)
  BY <1>0, ReturnSegment
<1>b. \A new \in StepStatus \ NotLaunched : Become(s, new) => Segment(s)
  BY BecomeSegment
<1>c. \A class \in ErrorClass \cup {"none"}, skips \in BOOLEAN :
         Fail(s, class, skips) => Segment(s)
  BY FailSegment
<1>d. /\ AbortByManagement(s) => Segment(s)
      /\ \A a \in SlotAwait \ {"on_stall"} : Advance(s, a) => Segment(s)
      /\ \A a \in SlotAwait, h \in Held :
            Suspend(s, a, h) /\ (a = "on_stall" => h \in ErrorClass)
               => Segment(s)
  BY AbortSegment, AdvanceSegment, SuspendSegment
<1>1. CASE BranchLockChecked(s)
  <2>1. AfterLock(s, count[s].iteration) \in SlotAwait \ {"on_stall"}
    BY DEF AfterLock, AfterPreStep
  <2> QED
    BY <1>1, <1>c, <1>d, <2>1, CountUnchanged DEF BranchLockChecked, ErrorClass
<1>2. CASE IterationPreStepAnswered(s)
  <2>1. AfterPreStep(s) \in SlotAwait \ {"on_stall"}
    BY DEF AfterPreStep
  <2> QED
    BY <1>2, <1>a, <1>b, <1>d, <2>1, CountUnchanged
    DEF IterationPreStepAnswered, StepStatus, NotLaunched
<1>3. CASE InputsResolved(s)
  BY <1>3, <1>a, <1>d, CountUnchanged DEF InputsResolved
<1>4. CASE WorkerReturned(s)
  BY <1>4, <1>a, <1>c, WorkSucceededSegment, FailOrRetrySegment, CountUnchanged
  DEF WorkerReturned, ErrorClass
<1>5. CASE WorkerStalled(s)
  BY <1>5, <1>d, FailOrRetrySegment, CountUnchanged DEF WorkerStalled, Held
<1>6. CASE OnStallAnswered(s)
  BY <1>6, <1>a, <1>d, LoopHeadSegment, FailOrRetrySegment, CountUnchanged
  DEF OnStallAnswered, StallHasClass
<1>7. CASE BackoffOver(s)
  BY <1>7, LoopHeadSegment, CountUnchanged DEF BackoffOver
<1>8. CASE BranchUpdated(s)
  BY <1>8, <1>c, WorkDoneSegment, CountUnchanged DEF BranchUpdated, ErrorClass
<1>9. CASE OutputsCollected(s)
  BY <1>9, <1>a, <1>b, CountUnchanged
  DEF OutputsCollected, StepStatus, NotLaunched
<1>10. CASE ChildReturned(s)
  <2>1. CASE Return(s, status) /\ UNCHANGED count
    BY <1>10, <2>1, <1>a, CountUnchanged DEF ChildReturned
  <2>2. CASE \E class \in {"fatal", "non_retryable"} : FailOrRetry(s, class)
    BY <1>10, <2>2, FailOrRetrySegment DEF ChildReturned, ErrorClass
  <2>3. CASE \E child \in {"child_succeeded", "child_failed", "child_fatal",
                           "child_cancelled"} :
                \/ Suspend(s, "exports", child) /\ UNCHANGED count
                \/ ChildMapped(s, child)
    BY <1>10, <2>3, <1>d, ChildMappedSegment, CountUnchanged
    DEF ChildReturned, Held
  <2> QED
    BY <1>10, <2>1, <2>2, <2>3 DEF ChildReturned
<1>11. CASE ExportsCopied(s)
  BY <1>11, ChildMappedSegment DEF ExportsCopied
<1>12. CASE PreCheckAnswered(s)
  BY <1>12, <1>d, CountUnchanged DEF PreCheckAnswered, Held
<1>13. CASE CheckReturned(s)
  BY <1>13, <1>a, CollectingSegment, CountUnchanged
  DEF CheckReturned, Held, ErrorClass
<1>14. CASE CheckOutputsCollected(s)
  BY <1>14, <1>0, <1>a, CheckSettledSegment, CountUnchanged
  DEF CheckOutputsCollected
<1>15. CASE GuardsApplied(s)
  BY <1>15, <1>0, <1>c, GuardedSegment, CountUnchanged
  DEF GuardsApplied, Held
<1>16. CASE PostCheckAnswered(s)
  BY <1>16, <1>d, DecideSegment, CountUnchanged DEF PostCheckAnswered
<1>17. CASE ConvergenceUpdated(s)
  <2>1. count \in [Step -> CountType]
    BY DEF TypeOK, CountType
  <2> QED
    BY <1>17, <2>1, <1>a, <1>c, IterateSegment, CountUnchanged
    DEF ConvergenceUpdated
<1> QED
  BY <1>1, <1>2, <1>3, <1>4, <1>5, <1>6, <1>7, <1>8, <1>9, <1>10, <1>11,
     <1>12, <1>13, <1>14, <1>15, <1>16, <1>17

LEMMA AfterSlotActions ==
    ASSUME TypeOK, NEW s \in Step, PostStepAnswered(s) \/ MetaWritten(s)
    PROVE  AfterSlot(s) /\ CountKept
<1>1. CASE PostStepAnswered(s)
  <2>1. /\ loop' \in {"start", "waiting", "woken", "draining", "exited"}
        /\ pending' \in BOOLEAN
        /\ abortReason' \in {"null", "timeout", "external", "management"}
    <3>1. CASE UNCHANGED <<abortReason, loop, pending>>
      BY <3>1 DEF TypeOK
    <3>2. CASE abortReason' = "management" /\ Signal(~aborted, 0)
      BY <3>2, SignalType, Zenon
    <3> QED
      BY <1>1, <3>1, <3>2 DEF PostStepAnswered
  <2> QED
    BY <1>1, <2>1, CountUnchanged
    DEF PostStepAnswered, AfterSlot, SegmentTypes, TypeOK, Await
<1>2. CASE MetaWritten(s)
  <2>1. /\ loop' \in {"start", "waiting", "woken", "draining", "exited"}
        /\ pending' \in BOOLEAN
    <3>1. Signal(FALSE, 1)
      BY <1>2 DEF MetaWritten
    <3> QED
      BY <3>1, SignalType, Zenon
  <2> QED
    BY <1>2, <2>1, CountUnchanged
    DEF MetaWritten, AfterSlot, SegmentTypes, TypeOK, Await
<1> QED
  BY <1>1, <1>2

LEMMA LifecycleSteps ==
    ASSUME TypeOK, StallHasClass, NEW s \in Step, LifecycleStep(s)
    PROVE  /\ (at[s] \in SlotAwait /\ Segment(s)) \/ AfterSlot(s)
           /\ CountKept
           /\ UNCHANGED <<wf, hookVars, result>>
BY SegmentActions, AfterSlotActions DEF LifecycleStep

-----------------------------------------------------------------------------
(* The inductive invariant.                                                  *)

Inv == TypeOK /\ StallHasClass /\ IdleUntilLaunched /\ SlotsAccounted

LEMMA StepSubset ==
    ASSUME NEW T \in SUBSET Step
    PROVE  IsFiniteSet(T) /\ Cardinality(T) \in Nat
BY StepAssumption, FS_Subset, FS_CardinalityType

LEMMA DisjointUnion ==
    ASSUME NEW S, NEW T, IsFiniteSet(S), IsFiniteSet(T), S \cap T = {}
    PROVE  Cardinality(S \cup T) = Cardinality(S) + Cardinality(T)
<1>1. Cardinality(S \cup T)
         = Cardinality(S) + Cardinality(T) - Cardinality(S \cap T)
  BY FS_Union
<1>2. Cardinality(S \cap T) = 0
  BY FS_EmptySet
<1>3. Cardinality(S) \in Nat /\ Cardinality(T) \in Nat
  BY FS_CardinalityType
<1> QED
  BY <1>1, <1>2, <1>3

LEMMA LimitsType ==
    ASSUME TypeOK
    PROVE  wf.concurrency \in Nat \ {0} /\ PreStepHookLimit \in Nat
BY DEF TypeOK, Workflow, PreStepHookLimit, DefaultHookConcurrency

LEMMA InitInv == Init => Inv
<1> SUFFICES ASSUME Init PROVE Inv
  OBVIOUS
<1>1. TypeOK
  <2>1. wf \in Workflow
    BY WorkflowsAssumption DEF Init
  <2>2. count \in [Step -> [iteration : Nat, retries : Nat, infra : Nat]]
    BY DEF Init
  <2>3. /\ status \in [Step -> StepStatus] /\ at \in [Step -> Await]
        /\ held \in [Step -> Held]
    BY DEF Init, StepStatus, Await, Held
  <2>4. /\ errorClass \in [Step -> ErrorClass \cup {"none"}]
        /\ recorded \in [Step -> StepStatus \cup {"none"}]
        /\ preStep \in [Step -> {"not_asked", "in_flight", "answered"}]
        /\ runningCount \in Int /\ preStepHookInFlight \in Int
    BY DEF Init
  <2>5. /\ abortReason \in {"null", "timeout", "external", "management"}
        /\ loop \in {"start", "waiting", "woken", "draining", "exited"}
        /\ result \in WorkflowStatus \cup {"none"}
    BY DEF Init
  <2>6. pending \in BOOLEAN
    BY DEF Init
  <2> QED
    BY <2>1, <2>2, <2>3, <2>4, <2>5, <2>6 DEF TypeOK
<1>2. StallHasClass /\ IdleUntilLaunched
  BY DEF Init, StallHasClass, IdleUntilLaunched
<1>3. Holders = {} /\ InFlightHooks = {}
  BY DEF Init, Holders, InFlightHooks, SlotAwait
<1>4. SlotsAccounted
  BY <1>1, <1>3, LimitsType, FS_EmptySet DEF Init, SlotsAccounted
<1> QED
  BY <1>1, <1>2, <1>4 DEF Inv

LEMMA LifecycleKeepsInv ==
    ASSUME Inv, NEW s \in Step, LifecycleStep(s)
    PROVE  Inv'
<1>0. TypeOK /\ StallHasClass /\ IdleUntilLaunched /\ SlotsAccounted
  BY DEF Inv
<1>1. /\ (at[s] \in SlotAwait /\ Segment(s)) \/ AfterSlot(s)
      /\ CountKept
      /\ UNCHANGED <<wf, hookVars, result>>
  BY <1>0, LifecycleSteps
<1>2. SegmentTypes'
  BY <1>1 DEF Segment, AfterSlot
<1>3. TypeOK'
  BY <1>0, <1>1, <1>2
  DEF TypeOK, SegmentTypes, CountKept, CountType, hookVars
<1>4. StallHasClass'
  <2> SUFFICES ASSUME NEW t \in Step, at'[t] = "on_stall"
               PROVE  held'[t] \in ErrorClass
    BY DEF StallHasClass
  <2>1. CASE t = s
    BY <1>1, <2>1 DEF Segment, AfterSlot
  <2>2. CASE t # s
    BY <1>0, <1>1, <2>2 DEF Segment, AfterSlot, StallHasClass
  <2> QED
    BY <2>1, <2>2
<1>5. IdleUntilLaunched'
  BY <1>0, <1>1 DEF Segment, AfterSlot, IdleUntilLaunched, SlotAwait
<1>6. InFlightHooks' = InFlightHooks /\ PreStepHookLimit' = PreStepHookLimit
  BY <1>1 DEF hookVars, InFlightHooks, PreStepHookLimit
<1>7. Holders \in SUBSET Step
  BY DEF Holders
<1>8. IsFiniteSet(Holders) /\ Cardinality(Holders) \in Nat
  BY <1>7, StepSubset
<1>9. CASE at[s] \in SlotAwait /\ Segment(s)
  <2>1. CASE at'[s] \in SlotAwait /\ runningCount' = runningCount
    <3>1. Holders' = Holders
      BY <1>9, <2>1 DEF Segment, Holders
    <3> QED
      BY <1>0, <1>1, <1>3, <1>4, <1>5, <1>6, <2>1, <3>1
      DEF Inv, SlotsAccounted, hookVars
  <2>2. CASE /\ at'[s] \in {"post_step", "meta"}
             /\ runningCount' = runningCount - 1
    <3>1. Holders' = Holders \ {s} /\ s \in Holders
      BY <1>9, <2>2 DEF Segment, Holders, SlotAwait
    <3>2. Cardinality(Holders') = Cardinality(Holders) - 1
      BY <1>8, <3>1, FS_RemoveElement
    <3>3. wf.concurrency \in Nat
      BY <1>0, LimitsType
    <3> QED
      BY <1>0, <1>1, <1>3, <1>4, <1>5, <1>6, <1>8, <2>2, <3>2, <3>3
      DEF Inv, SlotsAccounted, hookVars
  <2> QED
    BY <1>9, <2>1, <2>2 DEF Segment
<1>10. CASE AfterSlot(s)
  <2>1. Holders' = Holders
    BY <1>10 DEF AfterSlot, Holders, SlotAwait
  <2> QED
    BY <1>0, <1>1, <1>3, <1>4, <1>5, <1>6, <1>10, <2>1
    DEF Inv, SlotsAccounted, hookVars, AfterSlot
<1> QED
  BY <1>1, <1>9, <1>10

\* The answer of a pre_step hook gives the hook's place back, and the launch
\* that may follow takes a slot only if one is free at that moment.
LEMMA PreStepKeepsInv ==
    ASSUME Inv, NEW s \in Step, PreStepAnswered(s)
    PROVE  Inv'
<1>0. /\ TypeOK /\ StallHasClass /\ IdleUntilLaunched /\ SlotsAccounted
      /\ wf' = wf
  BY DEF Inv, PreStepAnswered
<1>1. /\ loop' \in {"start", "waiting", "woken", "draining", "exited"}
      /\ pending' \in BOOLEAN
  <2>1. \E byAbort, notes : Signal(byAbort, notes)
    BY Zenon DEF PreStepAnswered
  <2> QED
    BY <1>0, <2>1, SignalType, Zenon
<1>2. /\ preStep' \in [Step -> {"not_asked", "in_flight", "answered"}]
      /\ InFlightHooks' = InFlightHooks \ {s} /\ s \in InFlightHooks
      /\ preStepHookInFlight' = preStepHookInFlight - 1
  BY <1>0 DEF PreStepAnswered, TypeOK, InFlightHooks
<1>3. /\ preStepHookInFlight' = Cardinality(InFlightHooks')
      /\ preStepHookInFlight' <= PreStepHookLimit'
      /\ preStepHookInFlight' \in Int
  <2>1. IsFiniteSet(InFlightHooks) /\ Cardinality(InFlightHooks) \in Nat
    BY StepSubset DEF InFlightHooks
  <2>2. Cardinality(InFlightHooks') = Cardinality(InFlightHooks) - 1
    BY <1>2, <2>1, FS_RemoveElement
  <2>3. PreStepHookLimit' = PreStepHookLimit /\ PreStepHookLimit \in Nat
    BY <1>0, LimitsType DEF PreStepHookLimit
  <2> QED
    BY <1>0, <1>2, <2>1, <2>2, <2>3 DEF SlotsAccounted
<1>4. CASE /\ UNCHANGED <<at, count, runningCount>>
           /\ status' \in {status, [status EXCEPT ![s] = "OMITTED"]}
           /\ abortReason' \in {abortReason, "management"}
  <2>1. TypeOK'
    BY <1>0, <1>1, <1>2, <1>3, <1>4 DEF PreStepAnswered, TypeOK, StepStatus
  <2>2. StallHasClass' /\ IdleUntilLaunched'
    BY <1>0, <1>4
    DEF PreStepAnswered, TypeOK, StallHasClass, IdleUntilLaunched, NotLaunched
  <2>3. Holders' = Holders
    BY <1>4 DEF Holders
  <2> QED
    BY <1>0, <1>3, <1>4, <2>1, <2>2, <2>3 DEF Inv, SlotsAccounted
<1>5. CASE /\ status[s] = "READY" /\ SlotFree
           /\ status' = [status EXCEPT ![s] = "RUNNING"]
           /\ count' = [count EXCEPT ![s].iteration = 1]
           /\ runningCount' = runningCount + 1
           /\ at' = [at EXCEPT ![s] = FirstAwait(s, 1)]
           /\ UNCHANGED abortReason
  <2>1. FirstAwait(s, 1) \in SlotAwait \ {"on_stall"}
    BY FirstAwaitType
  <2>2. /\ at' \in [Step -> Await]
        /\ count' \in [Step -> [iteration : Nat, retries : Nat, infra : Nat]]
        /\ status' \in [Step -> StepStatus]
    BY <1>0, <1>5, <2>1 DEF TypeOK, Await, StepStatus
  <2>3. TypeOK'
    BY <1>0, <1>1, <1>2, <1>3, <1>5, <2>2 DEF PreStepAnswered, TypeOK
  <2>4. StallHasClass' /\ IdleUntilLaunched'
    BY <1>0, <1>5, <2>1
    DEF PreStepAnswered, TypeOK, StallHasClass, IdleUntilLaunched, NotLaunched
  <2>5. at[s] = "idle"
    BY <1>0, <1>5 DEF IdleUntilLaunched, NotLaunched
  <2>6. Holders' = Holders \cup {s} /\ s \notin Holders
    BY <1>0, <1>5, <2>1, <2>5 DEF Holders, SlotAwait, TypeOK
  <2>7. IsFiniteSet(Holders) /\ Cardinality(Holders) \in Nat
    BY StepSubset DEF Holders
  <2>8. Cardinality(Holders') = Cardinality(Holders) + 1
    BY <2>6, <2>7, FS_AddElement
  <2> QED
    BY <1>0, <1>3, <1>5, <2>3, <2>4, <2>7, <2>8, LimitsType
    DEF Inv, SlotsAccounted, SlotFree
<1> QED
  BY <1>4, <1>5 DEF PreStepAnswered

-----------------------------------------------------------------------------
(* The scheduling loop. *)

LEMMA IsFirstBound ==
    ASSUME NEW C \in SUBSET Step, NEW T \in SUBSET C, NEW k \in Nat,
           IsFirst(T, C, k)
    PROVE  Cardinality(T) <= k
<1>1. Cardinality(C) \in Nat
  BY StepSubset
<1> QED
  BY <1>1 DEF IsFirst

LEMMA ResultType ==
    ASSUME NEW st
    PROVE  ResultOf(st) \in WorkflowStatus
BY DEF ResultOf, WorkflowStatus

\* The effect of the head of the loop on the variables it fixes.
LEMMA AwaitNotificationType ==
    ASSUME TypeOK, NEW st \in [Step -> StepStatus], NEW notified,
           AwaitNotification(st, notified)
    PROVE  /\ status' \in [Step -> StepStatus]
           /\ \A s \in Step : status'[s] \in NotLaunched => status'[s] = st[s]
           /\ loop' \in {"start", "waiting", "woken", "draining", "exited"}
           /\ pending' \in BOOLEAN
           /\ result' \in WorkflowStatus \cup {"none"}
<1>1. /\ TimedOut(st) \in [Step -> StepStatus]
      /\ \A s \in Step : TimedOut(st)[s] \notin NotLaunched
  BY DEF TimedOut, StepStatus, NotLaunched
<1>2. status' \in {st, TimedOut(st)}
  BY DEF AwaitNotification
<1>3. loop' \in {"start", "waiting", "woken", "draining", "exited"}
  BY DEF AwaitNotification, Exit
<1>4. pending' \in BOOLEAN
  BY DEF AwaitNotification
<1>5. result' \in WorkflowStatus \cup {"none"}
  BY ResultType DEF AwaitNotification, Exit, TypeOK
<1> QED
  BY <1>1, <1>2, <1>3, <1>4, <1>5

LEMMA UpdatedType ==
    ASSUME TypeOK, NEW K \in SUBSET Step
    PROVE  /\ Updated(K) \in [Step -> StepStatus]
           /\ \A s \in Step :
                 Updated(K)[s] \in NotLaunched => status[s] \in NotLaunched
BY DEF TypeOK, Updated, StepStatus, NotLaunched

\* A turn launches only idle steps, and never more than there are free slots.
LEMMA SchedulerTurnKeepsInv ==
    ASSUME Inv, SchedulerTurn
    PROVE  Inv'
<1>0. /\ TypeOK /\ StallHasClass /\ IdleUntilLaunched /\ SlotsAccounted
      /\ UNCHANGED <<wf, errorClass, held, abortReason>>
  BY DEF Inv, SchedulerTurn
<1>a. PICK K \in SUBSET Step :
         \E L \in SUBSET Launchable(Updated(K)),
            H \in SUBSET Askable(Updated(K)) :
              /\ IsFirst(L, Launchable(Updated(K)), FreeSlots)
              /\ IsFirst(H, Askable(Updated(K)),
                         PreStepHookLimit - preStepHookInFlight)
              /\ LaunchLifecycles(Updated(K), L)
              /\ AskPreStep(H)
              /\ AwaitNotification(Launched(Updated(K), L), Notified(K, L))
  BY DEF SchedulerTurn
<1>1. PICK L \in SUBSET Launchable(Updated(K)),
           H \in SUBSET Askable(Updated(K)) :
              /\ IsFirst(L, Launchable(Updated(K)), FreeSlots)
              /\ IsFirst(H, Askable(Updated(K)),
                         PreStepHookLimit - preStepHookInFlight)
              /\ LaunchLifecycles(Updated(K), L)
              /\ AskPreStep(H)
              /\ AwaitNotification(Launched(Updated(K), L), Notified(K, L))
  BY <1>a
<1> DEFINE st == Updated(K)
           launched == Launched(st, L)
<1>2. /\ st \in [Step -> StepStatus]
      /\ \A s \in Step : st[s] \in NotLaunched => status[s] \in NotLaunched
  BY <1>0, UpdatedType
<1> HIDE DEF st
<1>3. /\ L \in SUBSET Step /\ H \in SUBSET Step
      /\ Launchable(st) \in SUBSET Step /\ Askable(st) \in SUBSET Step
      /\ \A s \in L : st[s] = "READY"
      /\ \A s \in H : preStep[s] = "not_asked"
  BY <1>1 DEF Launchable, Askable, NeedsPreStepHook, st
<1>4. \A s \in L : at[s] = "idle"
  BY <1>0, <1>2, <1>3 DEF IdleUntilLaunched, NotLaunched
<1>5. /\ launched \in [Step -> StepStatus]
      /\ \A s \in Step : launched[s] \in NotLaunched
                           => s \notin L /\ status[s] \in NotLaunched
  BY <1>2 DEF Launched, StepStatus, NotLaunched
<1> HIDE DEF launched
<1>6. /\ status' \in [Step -> StepStatus]
      /\ \A s \in Step : status'[s] \in NotLaunched => status'[s] = launched[s]
      /\ loop' \in {"start", "waiting", "woken", "draining", "exited"}
      /\ pending' \in BOOLEAN
      /\ result' \in WorkflowStatus \cup {"none"}
  BY <1>0, <1>1, <1>5, AwaitNotificationType DEF launched, st
<1>7. /\ at' \in [Step -> Await]
      /\ \A s \in Step \ L : at'[s] = at[s]
      /\ aborted => \A s \in L : at'[s] = "meta"
      /\ ~aborted => \A s \in L : at'[s] \in SlotAwait \ {"on_stall"}
  BY <1>0, <1>1, <1>3, FirstAwaitType DEF LaunchLifecycles, TypeOK, Await
<1>8. /\ count' \in [Step -> [iteration : Nat, retries : Nat, infra : Nat]]
      /\ recorded' \in [Step -> StepStatus \cup {"none"}]
  <2>1. count' \in [Step -> [iteration : Nat, retries : Nat, infra : Nat]]
    BY <1>0, <1>1 DEF LaunchLifecycles, TypeOK
  <2>2. recorded' = [s \in Step |-> IF s \in L /\ aborted THEN launched[s]
                                    ELSE recorded[s]]
    BY <1>1 DEF LaunchLifecycles, launched, st
  <2> QED
    BY <1>0, <1>5, <2>1, <2>2 DEF TypeOK
<1>9. /\ runningCount' = Cardinality(Holders')
      /\ runningCount' <= wf.concurrency
      /\ runningCount' \in Int
  <2>1. IsFiniteSet(Holders) /\ Cardinality(Holders) \in Nat
    BY StepSubset DEF Holders
  <2>2. wf.concurrency \in Nat
    BY <1>0, LimitsType
  <2>3. CASE aborted
    <3>1. Holders' = Holders
      BY <1>4, <1>7, <2>3 DEF Holders, SlotAwait
    <3>2. runningCount' = runningCount
      BY <1>0, <1>1, <2>3 DEF LaunchLifecycles, TypeOK
    <3> QED
      BY <1>0, <3>1, <3>2 DEF SlotsAccounted, TypeOK
  <2>4. CASE ~aborted
    <3>1. Holders' = Holders \cup L /\ Holders \cap L = {}
      BY <1>3, <1>4, <1>7, <2>4 DEF Holders, SlotAwait
    <3>2. IsFiniteSet(L) /\ Cardinality(L) \in Nat
      BY <1>3, StepSubset
    <3>3. Cardinality(Holders') = Cardinality(Holders) + Cardinality(L)
      BY <2>1, <3>1, <3>2, DisjointUnion
    <3>4. runningCount' = runningCount + Cardinality(L)
      BY <1>1, <2>4 DEF LaunchLifecycles
    <3>5. FreeSlots = wf.concurrency - runningCount /\ FreeSlots \in Nat
      BY <1>0, <2>1, <2>2, <2>4 DEF FreeSlots, SlotsAccounted
    <3>6. Cardinality(L) <= FreeSlots
      BY <1>1, <1>3, <3>5, IsFirstBound DEF st
    <3> QED
      BY <1>0, <2>1, <2>2, <3>2, <3>3, <3>4, <3>5, <3>6 DEF SlotsAccounted
  <2> QED
    BY <2>3, <2>4
<1>10. /\ preStep' \in [Step -> {"not_asked", "in_flight", "answered"}]
       /\ preStepHookInFlight' = Cardinality(InFlightHooks')
       /\ preStepHookInFlight' <= PreStepHookLimit'
       /\ preStepHookInFlight' \in Int
  <2>1. /\ IsFiniteSet(InFlightHooks) /\ Cardinality(InFlightHooks) \in Nat
        /\ IsFiniteSet(H) /\ Cardinality(H) \in Nat
    BY <1>3, StepSubset DEF InFlightHooks
  <2>2. preStep' \in [Step -> {"not_asked", "in_flight", "answered"}]
    BY <1>0, <1>1 DEF AskPreStep, TypeOK
  <2>3. InFlightHooks' = InFlightHooks \cup H /\ InFlightHooks \cap H = {}
    BY <1>1, <1>3 DEF AskPreStep, InFlightHooks
  <2>4. Cardinality(InFlightHooks') = Cardinality(InFlightHooks) + Cardinality(H)
    BY <2>1, <2>3, DisjointUnion
  <2>5. /\ PreStepHookLimit \in Nat /\ PreStepHookLimit' = PreStepHookLimit
        /\ PreStepHookLimit - preStepHookInFlight \in Nat
    BY <1>0, <2>1, LimitsType DEF PreStepHookLimit, SlotsAccounted
  <2>6. Cardinality(H) <= PreStepHookLimit - preStepHookInFlight
    BY <1>1, <1>3, <2>5, IsFirstBound DEF st
  <2>7. preStepHookInFlight' = preStepHookInFlight + Cardinality(H)
    BY <1>1 DEF AskPreStep
  <2> QED
    BY <1>0, <2>1, <2>2, <2>4, <2>5, <2>6, <2>7 DEF SlotsAccounted
<1>11. TypeOK'
  BY <1>0, <1>6, <1>7, <1>8, <1>9, <1>10 DEF TypeOK
<1>12. StallHasClass' /\ IdleUntilLaunched'
  BY <1>0, <1>5, <1>6, <1>7 DEF StallHasClass, IdleUntilLaunched
<1> QED
  BY <1>0, <1>9, <1>10, <1>11, <1>12 DEF Inv, SlotsAccounted

LEMMA OtherStepsKeepInv ==
    ASSUME Inv, Drained \/ Timeout \/ ExternalAbort \/ UNCHANGED vars
    PROVE  Inv'
<1>0. /\ TypeOK /\ StallHasClass /\ IdleUntilLaunched /\ SlotsAccounted
      /\ UNCHANGED <<wf, stepVars, hookVars, runningCount>>
  BY DEF Inv, Drained, Timeout, ExternalAbort, vars
<1>1. /\ Holders' = Holders /\ InFlightHooks' = InFlightHooks
      /\ PreStepHookLimit' = PreStepHookLimit
  BY <1>0 DEF stepVars, hookVars, Holders, InFlightHooks, PreStepHookLimit
<1>2. /\ loop' \in {"start", "waiting", "woken", "draining", "exited"}
      /\ pending' \in BOOLEAN
  <2>1. CASE Timeout \/ ExternalAbort
    <3>1. Signal(TRUE, 0)
      BY <2>1 DEF Timeout, ExternalAbort
    <3> QED
      BY <1>0, <3>1, SignalType, Zenon
  <2>2. CASE Drained
    BY <1>0, <2>2 DEF Drained, Exit, TypeOK
  <2>3. CASE UNCHANGED vars
    BY <1>0, <2>3 DEF vars, loopVars, TypeOK
  <2> QED
    BY <2>1, <2>2, <2>3
<1>3. /\ abortReason' \in {"null", "timeout", "external", "management"}
      /\ result' \in WorkflowStatus \cup {"none"}
  <2>1. CASE Timeout \/ ExternalAbort
    BY <1>0, <2>1 DEF Timeout, ExternalAbort, TypeOK
  <2>2. CASE Drained
    <3>1. result' = ResultOf(status) /\ abortReason' = abortReason
      BY <2>2 DEF Drained, Exit
    <3> QED
      BY <1>0, <3>1, ResultType DEF TypeOK
  <2>3. CASE UNCHANGED vars
    BY <1>0, <2>3 DEF vars, loopVars, TypeOK
  <2> QED
    BY <2>1, <2>2, <2>3
<1>4. TypeOK'
  BY <1>0, <1>2, <1>3 DEF TypeOK, stepVars, hookVars
<1>5. StallHasClass' /\ IdleUntilLaunched'
  BY <1>0 DEF stepVars, StallHasClass, IdleUntilLaunched
<1> QED
  BY <1>0, <1>1, <1>4, <1>5 DEF Inv, SlotsAccounted, hookVars

LEMMA NextKeepsInv == Inv /\ [Next]_vars => Inv'
<1> SUFFICES ASSUME Inv, [Next]_vars PROVE Inv'
  OBVIOUS
<1>1. ASSUME NEW s \in Step, LifecycleStep(s) PROVE Inv'
  BY <1>1, LifecycleKeepsInv
<1>2. ASSUME NEW s \in Step, PreStepAnswered(s) PROVE Inv'
  BY <1>2, PreStepKeepsInv
<1>3. CASE SchedulerTurn
  BY <1>3, SchedulerTurnKeepsInv
<1>4. CASE Drained \/ Timeout \/ ExternalAbort \/ UNCHANGED vars
  BY <1>4, OtherStepsKeepInv
<1> QED
  BY <1>1, <1>2, <1>3, <1>4 DEF Next, Terminated

LEMMA InvHolds == Spec => []Inv
BY InitInv, NextKeepsInv, PTL DEF Spec

\* In every execution of every workflow the variables stay in their ranges.
THEOREM TypeCorrect == Spec => []TypeOK
<1>1. Inv => TypeOK
  BY DEF Inv
<1> QED
  BY <1>1, InvHolds, PTL

\* In every execution of every workflow runningCount is the number of
\* lifecycles that hold a slot, preStepHookInFlight the number of hooks being
\* answered, and both stay within their limits, although launchReadySteps and
\* invokePreStepHook both launch and an await lies between check and launch.
THEOREM SlotsAlwaysAccounted == Spec => []SlotsAccounted
<1>1. Inv => SlotsAccounted
  BY DEF Inv
<1> QED
  BY <1>1, InvHolds, PTL

\* A step that was not launched yet has no lifecycle: no step is launched twice.
THEOREM LaunchedOnce == Spec => []IdleUntilLaunched
<1>1. Inv => IdleUntilLaunched
  BY DEF Inv
<1> QED
  BY <1>1, InvHolds, PTL

-----------------------------------------------------------------------------
(* How a segment ends, whatever was decided before.                          *)

\* A lifecycle wakes the loop, or leaves it where it is.
LoopSignalled == loop' = loop \/ (loop = "waiting" /\ loop' = "woken")

\* The four ways a segment ends: at another await in the try block,
KeepsSlot(s) ==
    /\ \E a \in SlotAwait : at' = [at EXCEPT ![s] = a]
    /\ \E new \in {status[s], "RUNNING", "CHECKING"} :
          status' = [status EXCEPT ![s] = new]
    /\ LoopSignalled
    /\ UNCHANGED <<errorClass, recorded, abortReason>>

\* The statuses a lifecycle gives its step when it returns without a failure.
Settled == {"SUCCEEDED", "INCOMPLETE", "CANCELLED", "OMITTED"}

\* by a return with a new status or with the one the step has,
Settles(s) ==
    \E new \in Settled \cup {status[s]} :
        Return(s, [status EXCEPT ![s] = new])

\* as a failure, whose dependents are skipped at least when it is FATAL,
Fails(s) ==
    \E class \in ErrorClass \cup {"none"}, skips \in BOOLEAN :
        (class = "fatal" => skips) /\ Fail(s, class, skips)

\* or with the abort of the workflow.
Ending(s) == KeepsSlot(s) \/ Settles(s) \/ Fails(s) \/ AbortByManagement(s)

\* What a segment of s makes of the counters.
Counted(s) ==
    /\ \A t \in Step \ {s} : count'[t] = count[t]
    /\ count'[s].iteration <= def(s).max_iterations
    /\ count'[s].retries <= def(s).max_retries
    /\ count'[s].infra < InfraFailureLimit \/ at'[s] \notin SlotAwait

LEMMA SignalMoves ==
    ASSUME NEW byAbort, NEW notes, Signal(byAbort, notes)
    PROVE  LoopSignalled
BY DEF Signal, LoopSignalled

LEMMA CountSame ==
    ASSUME WorkBounded, NEW s \in Step, at[s] \in SlotAwait, UNCHANGED count
    PROVE  Counted(s)
BY DEF WorkBounded, Counted

LEMMA ReturnEnding ==
    ASSUME TypeOK, NEW s \in Step, Return(s, status)
    PROVE  Ending(s)
<1>1. status = [status EXCEPT ![s] = status[s]]
  BY DEF TypeOK
<1> QED
  BY <1>1 DEF Ending, Settles

LEMMA BecomeEnding ==
    ASSUME NEW s \in Step, NEW new \in Settled, Become(s, new)
    PROVE  Ending(s)
BY DEF Become, Ending, Settles

LEMMA FailEnding ==
    ASSUME NEW s \in Step, NEW class \in ErrorClass \cup {"none"},
           NEW skips \in BOOLEAN, class = "fatal" => skips, Fail(s, class, skips)
    PROVE  Ending(s)
BY DEF Ending, Fails

LEMMA FailByPolicyEnding ==
    ASSUME NEW s \in Step, NEW class \in ErrorClass, FailByPolicy(s, class)
    PROVE  Ending(s)
<1>1. /\ PolicySkips(s, class) \in BOOLEAN
      /\ class = "fatal" => PolicySkips(s, class)
  BY DEF PolicySkips
<1> QED
  BY <1>1, FailEnding DEF FailByPolicy

LEMMA SuspendEnding ==
    ASSUME TypeOK, NEW s \in Step, NEW a \in SlotAwait, NEW h, Suspend(s, a, h)
    PROVE  Ending(s)
<1>1. status' = [status EXCEPT ![s] = status[s]]
  BY DEF TypeOK, Suspend
<1> QED
  BY <1>1 DEF Suspend, Quiet, loopVars, LoopSignalled, Ending, KeepsSlot

LEMMA AdvanceEnding ==
    ASSUME TypeOK, NEW s \in Step, NEW a \in SlotAwait, Advance(s, a)
    PROVE  Ending(s)
<1>1. LoopSignalled
  <2>1. Signal(FALSE, IF a = "run" THEN 1 ELSE 0)
    BY DEF Advance
  <2> QED
    BY <2>1, SignalMoves, Zenon
<1>2. \E new \in {status[s], "RUNNING"} : status' = [status EXCEPT ![s] = new]
  BY DEF Advance, TypeOK
<1> QED
  BY <1>1, <1>2 DEF Advance, Ending, KeepsSlot

LEMMA LoopHeadEnding ==
    ASSUME TypeOK, NEW s \in Step, NEW iteration, LoopHead(s, iteration)
    PROVE  Ending(s)
BY ReturnEnding, AdvanceEnding, FirstAwaitType DEF LoopHead

LEMMA WorkDoneEnding ==
    ASSUME TypeOK, NEW s \in Step, WorkDone(s)
    PROVE  Ending(s)
<1>1. CASE def(s).completion_check
  <2>1. LoopSignalled
    <3>1. Signal(FALSE, 1)
      BY <1>1 DEF WorkDone
    <3> QED
      BY <3>1, SignalMoves, Zenon
  <2>2. \E a \in SlotAwait : at' = [at EXCEPT ![s] = a]
    BY <1>1 DEF WorkDone, SlotAwait
  <2> QED
    BY <1>1, <2>1, <2>2 DEF WorkDone, Ending, KeepsSlot
<1>2. CASE Suspend(s, "outputs", "none")
  BY <1>2, SuspendEnding DEF SlotAwait
<1>3. CASE Become(s, "SUCCEEDED")
  BY <1>3, BecomeEnding DEF Settled
<1> QED
  BY <1>1, <1>2, <1>3 DEF WorkDone

LEMMA WorkSucceededEnding ==
    ASSUME TypeOK, NEW s \in Step, WorkSucceeded(s)
    PROVE  Ending(s)
BY SuspendEnding, WorkDoneEnding DEF WorkSucceeded, SlotAwait

LEMMA FailOrRetryEnding ==
    ASSUME TypeOK, WorkBounded, NEW s \in Step, at[s] \in SlotAwait,
           NEW class \in ErrorClass, FailOrRetry(s, class)
    PROVE  Ending(s) /\ Counted(s)
<1>1. CASE /\ MayRetry(s)
           /\ count' = [count EXCEPT ![s].retries = @ + 1]
           /\ Suspend(s, "backoff", class)
  <2>1. wf.steps[s].max_retries \in Nat /\ count[s].retries \in Nat
    BY DEF TypeOK, Workflow, StepDefinition
  <2>2. Counted(s)
    BY <1>1, <2>1 DEF TypeOK, WorkBounded, MayRetry, Counted, def
  <2> QED
    BY <1>1, <2>2, SuspendEnding DEF SlotAwait
<1>2. CASE FailByPolicy(s, class) /\ UNCHANGED count
  BY <1>2, FailByPolicyEnding, CountSame
<1> QED
  BY <1>1, <1>2 DEF FailOrRetry

LEMMA ChildMappedEnding ==
    ASSUME TypeOK, WorkBounded, NEW s \in Step, at[s] \in SlotAwait, NEW child,
           ChildMapped(s, child)
    PROVE  Ending(s) /\ Counted(s)
<1>1. CASE WorkSucceeded(s) /\ UNCHANGED count
  BY <1>1, WorkSucceededEnding, CountSame
<1>2. CASE Become(s, "CANCELLED") /\ UNCHANGED count
  BY <1>2, BecomeEnding, CountSame DEF Settled
<1>3. CASE FailByPolicy(s, "fatal") /\ UNCHANGED count
  BY <1>3, FailByPolicyEnding, CountSame DEF ErrorClass
<1>4. CASE FailOrRetry(s, "non_retryable")
  BY <1>4, FailOrRetryEnding DEF ErrorClass
<1> QED
  BY <1>1, <1>2, <1>3, <1>4 DEF ChildMapped

\* counted differs from count in the streak of s only.
CountedFrom(s, counted) ==
    /\ counted \in [Step -> CountType]
    /\ \A t \in Step \ {s} : counted[t] = count[t]
    /\ counted[s].iteration = count[s].iteration
    /\ counted[s].retries = count[s].retries
    /\ counted[s].infra < InfraFailureLimit

LEMMA IterateEnding ==
    ASSUME TypeOK, WorkBounded, NEW s \in Step, NEW counted,
           CountedFrom(s, counted), Iterate(s, counted)
    PROVE  Ending(s) /\ Counted(s)
<1>1. CASE /\ count' = counted
           /\ IF def(s).on_iterations_exhausted = "abort"
              THEN Fail(s, "none", TRUE) ELSE Become(s, "INCOMPLETE")
  <2>1. Ending(s)
    BY <1>1, FailEnding, BecomeEnding DEF Settled
  <2> QED
    BY <1>1, <2>1 DEF CountedFrom, Counted, WorkBounded
<1>2. CASE /\ count[s].iteration < def(s).max_iterations
           /\ count' = [counted EXCEPT ![s].iteration = @ + 1,
                                       ![s].retries = 0]
           /\ LoopHead(s, count[s].iteration + 1)
  <2>1. /\ counted[s] \in CountType
        /\ wf.steps[s].max_iterations \in Nat /\ wf.steps[s].max_retries \in Nat
    BY DEF CountedFrom, TypeOK, Workflow, StepDefinition
  <2>2. /\ count'[s] = [counted[s] EXCEPT !.iteration = @ + 1, !.retries = 0]
        /\ \A t \in Step \ {s} : count'[t] = counted[t]
    BY <1>2, <2>1 DEF CountedFrom, CountType
  <2>3. Counted(s)
    BY <1>2, <2>1, <2>2 DEF CountedFrom, CountType, Counted, def
  <2> QED
    BY <1>2, <2>3, LoopHeadEnding
<1> QED
  BY <1>1, <1>2 DEF Iterate

LEMMA DecideEnding ==
    ASSUME TypeOK, WorkBounded, NEW s \in Step, at[s] \in SlotAwait,
           NEW decision, Decide(s, decision)
    PROVE  Ending(s) /\ Counted(s)
<1>1. CASE Become(s, "SUCCEEDED") /\ UNCHANGED count
  BY <1>1, BecomeEnding, CountSame DEF Settled
<1>2. CASE /\ count' = [count EXCEPT ![s].infra = @ + 1]
           /\ Fail(s, "none", def(s).on_failure # "continue")
  <2>1. Leave(s, [status EXCEPT ![s] = "FAILED"])
        \/ \E K \in SUBSET Step :
              Leave(s, Skipping([status EXCEPT ![s] = "FAILED"], K))
    BY <1>2 DEF Fail
  <2>2. at'[s] \notin SlotAwait
    <3>1. at' = [at EXCEPT ![s] = "post_step"] \/ at' = [at EXCEPT ![s] = "meta"]
      BY <2>1 DEF Leave
    <3>2. at'[s] \in {"post_step", "meta"}
      BY <3>1 DEF TypeOK
    <3> QED
      BY <3>2 DEF SlotAwait
  <2>3. Counted(s)
    BY <1>2, <2>2 DEF TypeOK, WorkBounded, Counted
  <2> QED
    BY <1>2, <2>3, FailEnding
<1>3. CASE /\ \/ decision = "incomplete"
              \/ decision = "infra" /\ count[s].infra + 1 < InfraFailureLimit
           /\ LET counted == [count EXCEPT ![s].infra =
                                 IF decision = "infra" THEN @ + 1 ELSE 0]
              IN  IF def(s).convergence
                  THEN Suspend(s, "converge", "none") /\ count' = counted
                  ELSE Iterate(s, counted)
  <2> DEFINE counted == [count EXCEPT ![s].infra =
                            IF decision = "infra" THEN @ + 1 ELSE 0]
  <2>1. CountedFrom(s, counted)
    BY <1>3 DEF TypeOK, CountType, CountedFrom, InfraFailureLimit
  <2>2. \/ Suspend(s, "converge", "none") /\ count' = counted
        \/ Iterate(s, counted)
    BY <1>3
  <2> HIDE DEF counted
  <2>3. CASE Suspend(s, "converge", "none") /\ count' = counted
    <3>1. Counted(s)
      BY <2>1, <2>3 DEF CountedFrom, Counted, WorkBounded
    <3> QED
      BY <2>3, <3>1, SuspendEnding DEF SlotAwait
  <2> QED
    BY <2>1, <2>2, <2>3, IterateEnding
<1> QED
  BY <1>1, <1>2, <1>3 DEF Decide

LEMMA GuardedEnding ==
    ASSUME TypeOK, WorkBounded, NEW s \in Step, at[s] \in SlotAwait,
           NEW decision, Guarded(s, decision)
    PROVE  Ending(s) /\ Counted(s)
BY SuspendEnding, CountSame, DecideEnding DEF Guarded, SlotAwait

LEMMA CheckSettledEnding ==
    ASSUME TypeOK, WorkBounded, NEW s \in Step, at[s] \in SlotAwait,
           NEW outcome, CheckSettled(s, outcome)
    PROVE  Ending(s) /\ Counted(s)
<1>1. CASE outcome \in ErrorClass /\ FailByPolicy(s, outcome) /\ UNCHANGED count
  BY <1>1, FailByPolicyEnding, CountSame
<1>2. CASE Fail(s, "none", def(s).on_failure = "abort") /\ UNCHANGED count
  BY <1>2, FailEnding, CountSame
<1>3. CASE Suspend(s, "guards", outcome) /\ UNCHANGED count
  BY <1>3, SuspendEnding, CountSame DEF SlotAwait
<1>4. CASE Guarded(s, outcome)
  BY <1>4, GuardedEnding
<1> QED
  BY <1>1, <1>2, <1>3, <1>4 DEF CheckSettled

LEMMA CollectingEnding ==
    ASSUME TypeOK, WorkBounded, NEW s \in Step, at[s] \in SlotAwait,
           NEW outcome, Collecting(s, outcome)
    PROVE  Ending(s) /\ Counted(s)
BY SuspendEnding, CountSame, CheckSettledEnding DEF Collecting, SlotAwait

LEMMA SegmentEndings ==
    ASSUME TypeOK, StallHasClass, WorkBounded, NEW s \in Step,
           \/ BranchLockChecked(s) \/ IterationPreStepAnswered(s)
           \/ InputsResolved(s) \/ WorkerReturned(s) \/ WorkerStalled(s)
           \/ OnStallAnswered(s) \/ BackoffOver(s) \/ BranchUpdated(s)
           \/ OutputsCollected(s) \/ ChildReturned(s) \/ ExportsCopied(s)
           \/ PreCheckAnswered(s) \/ CheckReturned(s) \/ CheckOutputsCollected(s)
           \/ GuardsApplied(s) \/ PostCheckAnswered(s) \/ ConvergenceUpdated(s)
    PROVE  Ending(s) /\ Counted(s)
<1>0. at[s] \in SlotAwait
  BY SegmentActions
<1>1. UNCHANGED count => Counted(s)
  BY <1>0, CountSame
<1>2. /\ Return(s, status) => Ending(s)
      /\ \A new \in Settled : Become(s, new) => Ending(s)
      /\ AbortByManagement(s) => Ending(s)
      /\ \A class \in ErrorClass \cup {"none"}, skips \in BOOLEAN :
            Fail(s, class, skips) /\ (class = "fatal" => skips) => Ending(s)
  BY ReturnEnding, BecomeEnding, FailEnding DEF Ending
<1>3. /\ \A a \in SlotAwait : Advance(s, a) => Ending(s)
      /\ \A h : \A a \in SlotAwait : Suspend(s, a, h) => Ending(s)
  BY AdvanceEnding, SuspendEnding
<1>4. CASE BranchLockChecked(s)
  <2>1. AfterLock(s, count[s].iteration) \in SlotAwait
    BY DEF AfterLock, AfterPreStep, SlotAwait
  <2> QED
    BY <1>1, <1>2, <1>3, <1>4, <2>1 DEF BranchLockChecked, ErrorClass
<1>5. CASE IterationPreStepAnswered(s)
  <2>1. AfterPreStep(s) \in SlotAwait
    BY DEF AfterPreStep, SlotAwait
  <2> QED
    BY <1>1, <1>2, <1>3, <1>5, <2>1
    DEF IterationPreStepAnswered, Settled
<1>6. CASE InputsResolved(s)
  BY <1>1, <1>2, <1>3, <1>6 DEF InputsResolved, SlotAwait
<1>7. CASE WorkerReturned(s)
  BY <1>0, <1>1, <1>2, <1>7, WorkSucceededEnding, FailOrRetryEnding
  DEF WorkerReturned, ErrorClass
<1>8. CASE WorkerStalled(s)
  BY <1>0, <1>1, <1>3, <1>8, FailOrRetryEnding DEF WorkerStalled, SlotAwait
<1>9. CASE OnStallAnswered(s)
  BY <1>0, <1>1, <1>2, <1>9, LoopHeadEnding, FailOrRetryEnding
  DEF OnStallAnswered, StallHasClass
<1>10. CASE BackoffOver(s)
  BY <1>1, <1>10, LoopHeadEnding DEF BackoffOver
<1>11. CASE BranchUpdated(s)
  BY <1>1, <1>2, <1>11, WorkDoneEnding DEF BranchUpdated, ErrorClass
<1>12. CASE OutputsCollected(s)
  BY <1>1, <1>2, <1>12 DEF OutputsCollected, Settled
<1>13. CASE ChildReturned(s)
  BY <1>0, <1>1, <1>2, <1>3, <1>13, FailOrRetryEnding, ChildMappedEnding
  DEF ChildReturned, ErrorClass, SlotAwait
<1>14. CASE ExportsCopied(s)
  BY <1>0, <1>14, ChildMappedEnding DEF ExportsCopied
<1>15. CASE PreCheckAnswered(s)
  BY <1>1, <1>2, <1>3, <1>15 DEF PreCheckAnswered, SlotAwait
<1>16. CASE CheckReturned(s)
  BY <1>0, <1>1, <1>2, <1>16, CollectingEnding DEF CheckReturned
<1>17. CASE CheckOutputsCollected(s)
  BY <1>0, <1>1, <1>2, <1>17, CheckSettledEnding DEF CheckOutputsCollected
<1>18. CASE GuardsApplied(s)
  BY <1>0, <1>1, <1>2, <1>18, GuardedEnding DEF GuardsApplied
<1>19. CASE PostCheckAnswered(s)
  BY <1>0, <1>1, <1>2, <1>19, DecideEnding DEF PostCheckAnswered
<1>20. CASE ConvergenceUpdated(s)
  <2>1. CountedFrom(s, count)
    BY <1>0 DEF TypeOK, WorkBounded, CountedFrom, CountType
  <2> QED
    BY <1>1, <1>2, <1>20, <2>1, IterateEnding DEF ConvergenceUpdated
<1> QED
  BY <1>4, <1>5, <1>6, <1>7, <1>8, <1>9, <1>10, <1>11, <1>12, <1>13, <1>14,
     <1>15, <1>16, <1>17, <1>18, <1>19, <1>20

-----------------------------------------------------------------------------
(* The order of the steps, the reasons of the skips and the end of the loop: *)
(* what holds besides Inv.                                                   *)

\* A holder of a slot works; when it is CANCELLED the loop waits for it.
HoldersWork ==
    \A s \in Step : at[s] \in SlotAwait =>
        \/ status[s] \in {"RUNNING", "CHECKING"}
        \/ status[s] = "CANCELLED" /\ loop = "draining"

\* An error class is given with FAILED, by a lifecycle that leaves.
ErrorsFinal ==
    \A s \in Step : errorClass[s] # "none" =>
        status[s] = "FAILED" /\ at[s] \notin SlotAwait

Cleared(s) ==
    \A d \in def(s).depends_on :
        DepAllowsProgress(status, d) /\ errorClass[d] # "fatal"

\* What is to be launched, or was, has dependencies that let it proceed.
LaunchCleared ==
    \A s \in Step : status[s] = "READY" \/ at[s] # "idle" => Cleared(s)

\* Nobody waits behind a FATAL failure: skipDependents skips its dependents in
\* the step that marks it FAILED, whatever its failure policy says.
FatalStops ==
    \A s \in Step : status[s] = "PENDING" =>
        \A d \in def(s).depends_on : errorClass[d] # "fatal"

\* Following the reasons of a skip leads to a step that was not skipped.
SkipsRooted ==
    ~aborted /\ (\E s \in Step : status[s] = "SKIPPED")
        => \E d \in Step : status[d] \in {"FAILED", "CANCELLED"}

\* Only an abort makes the loop drain; it ends when everything settled or the
\* workflow was aborted, and only then has a result.
LoopSound ==
    /\ loop = "draining" => aborted
    /\ loop = "exited" =>
          /\ Holders = {}
          /\ \/ AllTerminal(status)
             \/ aborted /\ result \in {"CANCELLED", "TIMED_OUT"}
    /\ result # "none" => loop = "exited"

\* What was written to the meta file stays true until an abort.
RecordKept ==
    ~aborted => \A s \in Step : at[s] \in {"meta", "ended"} => recorded[s] = status[s]

\* A lifecycle starts without a streak of infrastructure failures.
CountFresh ==
    \A s \in Step : at[s] = "idle" => count[s].infra < InfraFailureLimit

Order ==
    /\ HoldersWork /\ ErrorsFinal /\ LaunchCleared /\ FatalStops
    /\ SkipsJustified /\ SkipsRooted /\ LoopSound /\ RecordKept
    /\ ResultFaithful /\ WorkBounded /\ CountFresh

\* Inductive: the theorems below rest on it.
IInv == Inv /\ Order

-----------------------------------------------------------------------------
(* What any step of the executor does to a step of the workflow.             *)

\* Nothing happens to t.
Untouched(t) ==
    /\ status'[t] = status[t] /\ at'[t] = at[t]
    /\ recorded'[t] = recorded[t] /\ errorClass'[t] = errorClass[t]

\* t keeps its slot; the loop that starts to drain may cancel it.
Works(t) ==
    /\ at[t] \in SlotAwait /\ at'[t] \in SlotAwait
    /\ \/ status'[t] \in {status[t], "RUNNING", "CHECKING"}
       \/ status'[t] = "CANCELLED" /\ loop' = "draining"
    /\ errorClass'[t] = errorClass[t]

\* t gives its slot back.
Leaves(t) ==
    /\ at[t] \in SlotAwait /\ at'[t] \in {"post_step", "meta"}
    /\ status'[t] \notin NotLaunched \cup {"SKIPPED"}
    /\ at'[t] = "meta" => recorded'[t] = status'[t]
    /\ errorClass'[t] = errorClass[t] \/ status'[t] = "FAILED"

\* t is in its finally block.
WindsUp(t) ==
    /\ at[t] \in {"post_step", "meta"} /\ at'[t] \in {"meta", "ended"}
    /\ status'[t] = status[t] /\ errorClass'[t] = errorClass[t]
    /\ recorded'[t] = status[t] \/ (at[t] = "meta" /\ recorded'[t] = recorded[t])

\* updateReadySteps finds that t may proceed.
GetsReady(t) ==
    /\ status[t] = "PENDING" /\ status'[t] = "READY" /\ Cleared(t)
    /\ at'[t] = at[t] /\ errorClass'[t] = errorClass[t]

\* updateReadySteps, skipDependents or the timeout skips t.
IsSkipped(t) ==
    /\ status[t] \in NotLaunched /\ status'[t] = "SKIPPED"
    /\ \/ aborted
       \/ \E d \in def(t).depends_on :
             status'[d] \in {"FAILED", "CANCELLED", "SKIPPED"}
    /\ at'[t] = at[t] /\ errorClass'[t] = errorClass[t]

\* The pre_step hook of t says skip.
IsOmitted(t) ==
    /\ status[t] = "READY" /\ status'[t] = "OMITTED"
    /\ at'[t] = at[t] /\ errorClass'[t] = errorClass[t]

\* t gets a slot; after an abort its lifecycle returns at once.
IsLaunched(t) ==
    /\ status[t] \in NotLaunched /\ Cleared(t) /\ errorClass'[t] = errorClass[t]
    /\ \/ ~aborted /\ at'[t] \in SlotAwait /\ status'[t] = "RUNNING"
       \/ aborted /\ at'[t] = "meta" /\ status'[t] = "CANCELLED"

\* A step that an exception left RUNNING or CHECKING.
IsCancelled(t) ==
    /\ aborted /\ at[t] \notin SlotAwait
    /\ status[t] \in {"RUNNING", "CHECKING"} /\ status'[t] = "CANCELLED"
    /\ at'[t] = at[t] /\ errorClass'[t] = errorClass[t]

\* One step of the executor does one of these to every step of the workflow.
Move(t) ==
    \/ Untouched(t) \/ Works(t) \/ Leaves(t) \/ WindsUp(t) \/ GetsReady(t)
    \/ IsSkipped(t) \/ IsOmitted(t) \/ IsLaunched(t) \/ IsCancelled(t)

\* What any step does to the loop: an abort is never taken back, and the loop
\* ends once.
LoopMoves ==
    /\ wf' = wf
    /\ aborted => aborted'
    /\ loop' = "draining" => aborted
    /\ loop = "draining" => loop' \in {"draining", "exited"}
    /\ \/ /\ loop # "exited" /\ loop' = "exited" /\ Holders' = {}
          /\ aborted \/ AllTerminal(status')
          /\ result' = ResultOf(status') /\ abortReason' = abortReason
       \/ /\ (loop' = "exited") <=> (loop = "exited")
          /\ result' = result

\* A FATAL failure skips in the same step all that wait for it.
FatalSkips ==
    \A d \in Step : errorClass'[d] = "fatal" =>
        \/ errorClass[d] = "fatal"
        \/ \A t \in Step : d \in def(t).depends_on => status'[t] \notin NotLaunched

\* The first skip is due to a failure or a cancellation.
SkipsHaveRoot ==
    ~aborted /\ (\E t \in Step : status'[t] = "SKIPPED")
        => \E d \in Step : status[d] = "SKIPPED" \/ status'[d] \in {"FAILED", "CANCELLED"}

Effect == (\A t \in Step : Move(t)) /\ LoopMoves /\ FatalSkips /\ SkipsHaveRoot

LEMMA DependsType ==
    ASSUME TypeOK, NEW s \in Step
    PROVE  def(s).depends_on \in SUBSET Step
BY DEF TypeOK, Workflow, StepDefinition, def

-----------------------------------------------------------------------------
(* The lifecycles.                                                           *)

LEMMA LeaveEffect ==
    ASSUME TypeOK, NEW s \in Step, NEW st \in [Step -> StepStatus], Leave(s, st)
    PROVE  /\ at'[s] \in {"post_step", "meta"}
           /\ status' = st \/ (st[s] = "RUNNING" /\ status' = [st EXCEPT ![s] = "CANCELLED"])
           /\ at'[s] = "meta" => recorded'[s] = status'[s]
           /\ \A t \in Step \ {s} : at'[t] = at[t] /\ recorded'[t] = recorded[t]
<1> DEFINE cancels == def(s).subworkflow /\ aborted /\ st[s] = "RUNNING"
           final == IF cancels THEN [st EXCEPT ![s] = "CANCELLED"] ELSE st
           hooked == /\ LifecycleHook(s, "post_step")
                     /\ IsTerminal(final, s)
                     /\ ~aborted
<1>1. /\ status' = final
      /\ at' = [at EXCEPT ![s] = IF hooked THEN "post_step" ELSE "meta"]
      /\ recorded' = IF hooked THEN recorded
                     ELSE [recorded EXCEPT ![s] = final[s]]
  BY DEF Leave
<1>2. final = st \/ (st[s] = "RUNNING" /\ final = [st EXCEPT ![s] = "CANCELLED"])
  OBVIOUS
<1> HIDE DEF final, hooked
<1> QED
  BY <1>1, <1>2 DEF TypeOK

\* A step of the lifecycle of s moves s, and others only from waiting to SKIPPED.
LifecycleEffect(s) ==
    /\ Works(s) \/ Leaves(s)
    /\ \A t \in Step \ {s} : Untouched(t) \/ IsSkipped(t)
    /\ LoopSignalled /\ (aborted => aborted')
    /\ FatalSkips
    /\ \A t \in Step \ {s} :
          status'[t] = "SKIPPED" => status[t] = "SKIPPED" \/ status'[s] = "FAILED"
    /\ status'[s] # "SKIPPED"

\* A holder of a slot is neither waiting nor skipped.
LEMMA HolderStatus ==
    ASSUME IInv, NEW s \in Step, at[s] \in SlotAwait
    PROVE  status[s] \notin NotLaunched \cup {"SKIPPED"}
BY DEF IInv, Order, HoldersWork, NotLaunched

LEMMA KeepsSlotEffect ==
    ASSUME IInv, NEW s \in Step, at[s] \in SlotAwait, KeepsSlot(s)
    PROVE  LifecycleEffect(s)
<1> USE DEF IInv, Inv, TypeOK
<1>1. LoopSignalled /\ (aborted => aborted') /\ UNCHANGED <<errorClass, recorded>>
  BY DEF KeepsSlot, aborted
<1>2. /\ at'[s] \in SlotAwait /\ status'[s] \in {status[s], "RUNNING", "CHECKING"}
      /\ \A t \in Step \ {s} : at'[t] = at[t] /\ status'[t] = status[t]
  BY DEF KeepsSlot
<1>3. Works(s)
  BY <1>1, <1>2 DEF Works, LoopSignalled
<1>4. \A t \in Step \ {s} : Untouched(t)
  BY <1>1, <1>2 DEF Untouched
<1> QED
  BY <1>1, <1>2, <1>3, <1>4, HolderStatus DEF LifecycleEffect, FatalSkips

LEMMA SettlesEffect ==
    ASSUME IInv, NEW s \in Step, at[s] \in SlotAwait, Settles(s)
    PROVE  LifecycleEffect(s)
<1>0. TypeOK /\ status[s] \notin NotLaunched \cup {"SKIPPED"}
  BY HolderStatus DEF IInv, Inv
<1>1. PICK new \in Settled \cup {status[s]} :
          Return(s, [status EXCEPT ![s] = new])
  BY DEF Settles
<1> DEFINE st == [status EXCEPT ![s] = new]
<1>2. /\ st \in [Step -> StepStatus] /\ st[s] \notin NotLaunched \cup {"SKIPPED"}
      /\ \A t \in Step \ {s} : st[t] = status[t]
  BY <1>0 DEF TypeOK, Settled, StepStatus, NotLaunched
<1>3. Leave(s, st) /\ UNCHANGED <<errorClass, abortReason, loop>>
  BY <1>1 DEF Return, Quiet, loopVars
<1> HIDE DEF st
<1>4. /\ at'[s] \in {"post_step", "meta"}
      /\ status'[s] \notin NotLaunched \cup {"SKIPPED"}
      /\ at'[s] = "meta" => recorded'[s] = status'[s]
      /\ \A t \in Step \ {s} : at'[t] = at[t] /\ recorded'[t] = recorded[t]
      /\ \A t \in Step \ {s} : status'[t] = status[t]
  BY <1>0, <1>2, <1>3, LeaveEffect DEF NotLaunched
<1> QED
  BY <1>3, <1>4
  DEF LifecycleEffect, FatalSkips, Leaves, Untouched, LoopSignalled, aborted

LEMMA AbortEffect ==
    ASSUME IInv, NEW s \in Step, at[s] \in SlotAwait, AbortByManagement(s)
    PROVE  LifecycleEffect(s)
<1>0. TypeOK /\ status[s] \notin NotLaunched \cup {"SKIPPED"}
  BY HolderStatus DEF IInv, Inv
<1>1. status \in [Step -> StepStatus]
  BY <1>0 DEF TypeOK
<1>2. Leave(s, status) /\ UNCHANGED errorClass /\ aborted'
  BY DEF AbortByManagement, aborted
<1>3. LoopSignalled
  <2>1. Signal(~aborted, 0)
    BY DEF AbortByManagement
  <2> QED
    BY <2>1, SignalMoves, Zenon
<1>4. /\ at'[s] \in {"post_step", "meta"}
      /\ status'[s] \notin NotLaunched \cup {"SKIPPED"}
      /\ at'[s] = "meta" => recorded'[s] = status'[s]
      /\ \A t \in Step \ {s} : at'[t] = at[t] /\ recorded'[t] = recorded[t]
      /\ \A t \in Step \ {s} : status'[t] = status[t]
  BY <1>0, <1>1, <1>2, LeaveEffect DEF NotLaunched
<1> QED
  BY <1>2, <1>3, <1>4 DEF LifecycleEffect, FatalSkips, Leaves, Untouched

LEMMA FailsEffect ==
    ASSUME IInv, NEW s \in Step, at[s] \in SlotAwait, Fails(s)
    PROVE  LifecycleEffect(s)
<1>0. TypeOK
  BY DEF IInv, Inv
<1>1. PICK class \in ErrorClass \cup {"none"}, skips \in BOOLEAN :
          (class = "fatal" => skips) /\ Fail(s, class, skips)
  BY DEF Fails
<1> DEFINE st == [status EXCEPT ![s] = "FAILED"]
<1>2. /\ st \in [Step -> StepStatus] /\ st[s] = "FAILED"
      /\ \A t \in Step \ {s} : st[t] = status[t]
  BY <1>0 DEF TypeOK, StepStatus
<1>3. PICK K \in SUBSET Step :
         /\ Leave(s, Skipping(st, K))
         /\ K = {} \/ IsSkipSet(K, st, s)
         /\ class = "fatal" => IsSkipSet(K, st, s)
  <2>1. CASE skips
    BY <1>1, <2>1 DEF Fail
  <2>2. CASE ~skips
    <3>1. Skipping(st, {}) = st
      BY <1>2 DEF Skipping
    <3> QED
      BY <1>1, <2>2, <3>1 DEF Fail
  <2> QED
    BY <2>1, <2>2
<1>4. /\ errorClass'[s] = class
      /\ \A t \in Step \ {s} : errorClass'[t] = errorClass[t]
      /\ UNCHANGED <<abortReason, loop>>
  BY <1>0, <1>1 DEF Fail, Quiet, loopVars, TypeOK
<1> HIDE DEF st
<1>5. /\ s \notin K
      /\ \A t \in K : /\ status[t] \in NotLaunched
                      /\ s \in def(t).depends_on \/ \E d \in def(t).depends_on :
                                                   st[d] = "SKIPPED" \/ d \in K
  BY <1>2, <1>3 DEF IsSkipSet, NotLaunched
<1>6. /\ Skipping(st, K) \in [Step -> StepStatus]
      /\ Skipping(st, K)[s] = "FAILED"
      /\ \A t \in Step : Skipping(st, K)[t] = IF t \in K THEN "SKIPPED" ELSE st[t]
  BY <1>2, <1>5 DEF Skipping, StepStatus
<1>7. /\ at'[s] \in {"post_step", "meta"}
      /\ status' = Skipping(st, K)
      /\ at'[s] = "meta" => recorded'[s] = status'[s]
      /\ \A t \in Step \ {s} : at'[t] = at[t] /\ recorded'[t] = recorded[t]
  BY <1>0, <1>3, <1>6, LeaveEffect
<1>8. Leaves(s)
  BY <1>6, <1>7 DEF Leaves, NotLaunched
<1>9. ASSUME NEW t \in Step \ {s} PROVE Untouched(t) \/ IsSkipped(t)
  <2>1. CASE t \in K
    <3>1. def(t).depends_on \in SUBSET Step
      BY <1>0, DependsType
    <3>2. \E d \in def(t).depends_on : status'[d] \in {"FAILED", "SKIPPED"}
      BY <1>5, <1>6, <1>7, <2>1, <3>1
    <3> QED
      BY <1>4, <1>5, <1>6, <1>7, <2>1, <3>2 DEF IsSkipped
  <2>2. CASE t \notin K
    BY <1>2, <1>4, <1>6, <1>7, <2>2 DEF Untouched
  <2> QED
    BY <2>1, <2>2
<1>10. FatalSkips
  <2> SUFFICES ASSUME class = "fatal", NEW t \in Step, s \in def(t).depends_on
               PROVE  status'[t] \notin NotLaunched
    BY <1>4 DEF FatalSkips
  <2>1. t \in K \/ st[t] \notin NotLaunched
    BY <1>3 DEF IsSkipSet, NotLaunched
  <2> QED
    BY <1>6, <1>7, <2>1 DEF NotLaunched
<1> QED
  BY <1>4, <1>6, <1>7, <1>8, <1>9, <1>10
  DEF LifecycleEffect, LoopSignalled, aborted

LEMMA LifecycleStepEffect ==
    ASSUME IInv, NEW s \in Step, LifecycleStep(s)
    PROVE  Effect
<1>0. TypeOK /\ StallHasClass /\ WorkBounded /\ LoopSound
  BY DEF IInv, Inv, Order
<1>1. UNCHANGED <<wf, hookVars, result>>
  BY DEF LifecycleStep
<1>2. CASE PostStepAnswered(s) \/ MetaWritten(s)
  <2>1. LoopSignalled /\ (aborted => aborted')
    <3>1. CASE UNCHANGED <<abortReason, loop, pending>>
      BY <3>1 DEF LoopSignalled, aborted
    <3>2. CASE abortReason' = "management" /\ Signal(~aborted, 0)
      <4>1. LoopSignalled
        BY <3>2, SignalMoves, Zenon
      <4> QED
        BY <3>2, <4>1 DEF aborted
    <3>3. CASE Signal(FALSE, 1) /\ UNCHANGED abortReason
      <4>1. LoopSignalled
        BY <3>3, SignalMoves, Zenon
      <4> QED
        BY <3>3, <4>1 DEF aborted
    <3> QED
      BY <1>2, <3>1, <3>2, <3>3 DEF PostStepAnswered, MetaWritten
  <2>2. WindsUp(s) /\ \A t \in Step \ {s} : Untouched(t)
    BY <1>0, <1>2 DEF PostStepAnswered, MetaWritten, WindsUp, Untouched, TypeOK
  <2>3. UNCHANGED <<status, errorClass>>
    BY <1>2 DEF PostStepAnswered, MetaWritten
  <2> QED
    BY <1>0, <1>1, <2>1, <2>2, <2>3
    DEF Effect, Move, LoopMoves, LoopSignalled, LoopSound, FatalSkips, SkipsHaveRoot
<1>3. CASE Ending(s) /\ at[s] \in SlotAwait
  <2>1. LifecycleEffect(s)
    BY <1>3, KeepsSlotEffect, SettlesEffect, AbortEffect, FailsEffect DEF Ending
  <2>2. (\A t \in Step : Move(t)) /\ FatalSkips
    BY <2>1 DEF LifecycleEffect, Move
  <2>3. LoopMoves
    BY <1>0, <1>1, <2>1 DEF LoopMoves, LoopSignalled, LoopSound, LifecycleEffect
  <2>4. SkipsHaveRoot
    BY <2>1 DEF SkipsHaveRoot, LifecycleEffect
  <2> QED
    BY <2>2, <2>3, <2>4 DEF Effect
<1> QED
  BY <1>0, <1>2, <1>3, SegmentActions, SegmentEndings DEF LifecycleStep

-----------------------------------------------------------------------------
(* The launches and the scheduling loop.                                     *)

LEMMA PreStepEffect ==
    ASSUME IInv, NEW s \in Step, PreStepAnswered(s)
    PROVE  Effect
<1>0. TypeOK /\ LaunchCleared /\ LoopSound
  BY DEF IInv, Inv, Order
<1>1. UNCHANGED <<wf, errorClass, held, recorded, result>> /\ (aborted => aborted')
  BY DEF PreStepAnswered, aborted
<1>2. LoopSignalled
  <2>1. \E byAbort, notes : Signal(byAbort, notes)
    BY Zenon DEF PreStepAnswered
  <2> QED
    BY <2>1, SignalMoves, Zenon
<1>3. LoopMoves
  BY <1>0, <1>1, <1>2 DEF LoopMoves, LoopSignalled, LoopSound
<1>4. /\ Untouched(s) \/ IsOmitted(s) \/ IsLaunched(s)
      /\ \A t \in Step \ {s} : Untouched(t)
      /\ status'[s] # "SKIPPED" \/ status'[s] = status[s]
  <2>1. CASE UNCHANGED <<status, at>>
    BY <1>0, <1>1, <2>1 DEF Untouched
  <2>2. CASE /\ status[s] = "READY" /\ status' = [status EXCEPT ![s] = "OMITTED"]
             /\ UNCHANGED at
    BY <1>0, <1>1, <2>2 DEF Untouched, IsOmitted, TypeOK
  <2>3. CASE /\ ~aborted /\ status[s] = "READY"
             /\ status' = [status EXCEPT ![s] = "RUNNING"]
             /\ at' = [at EXCEPT ![s] = FirstAwait(s, 1)]
    <3>1. FirstAwait(s, 1) \in SlotAwait
      BY FirstAwaitType
    <3> QED
      BY <1>0, <1>1, <2>3, <3>1
      DEF Untouched, IsLaunched, TypeOK, LaunchCleared, NotLaunched
  <2> QED
    BY <2>1, <2>2, <2>3 DEF PreStepAnswered
<1>5. FatalSkips
  BY <1>1 DEF FatalSkips
<1>6. SkipsHaveRoot
  BY <1>4 DEF SkipsHaveRoot, Untouched
<1> QED
  BY <1>3, <1>4, <1>5, <1>6 DEF Effect, Move

\* The least step of a set.
LEMMA Least ==
    ASSUME NEW T \in SUBSET Step, T # {}
    PROVE  \E s \in T : \A t \in T : ~(t < s)
<1> DEFINE R == {pair \in Nat \X Nat : pair[1] < pair[2]}
<1>1. IsWellFoundedOn(R, Nat)
  BY NatLessThanWellFounded DEF OpToRel
<1>2. T \subseteq Nat
  BY StepAssumption
<1>3. \E s \in T : \A t \in T : <<t, s>> \notin R
  <2> HIDE DEF R
  <2> QED
    BY <1>1, <1>2, WFMin
<1> QED
  BY <1>2, <1>3

\* A turn skips a step only because of one that was not skipped by it.
LEMMA SkipPassHasRoot ==
    ASSUME TypeOK, NEW K \in SUBSET Step, IsSkipPass(K), K # {}
    PROVE  \E d \in Step : status[d] \in {"SKIPPED", "CANCELLED", "FAILED"}
<1>1. PICK s \in K : \A t \in K : ~(t < s)
  BY Least
<1>2. PICK d \in def(s).depends_on : DepBlocksDownstream(status, d)
  BY <1>1 DEF IsSkipPass
<1> QED
  BY <1>1, <1>2, DependsType DEF DepBlocksDownstream

\* What the head of the loop makes of the statuses of a turn.
LEMMA HeadStatus ==
    ASSUME NEW st \in [Step -> StepStatus], NEW notified,
           AwaitNotification(st, notified)
    PROVE  \/ /\ status' = st /\ (aborted => AllTerminal(st))
              /\ loop' = "exited" => AllTerminal(st)
              /\ loop' # "draining"
           \/ /\ aborted /\ status' = TimedOut(st)
              /\ loop' = IF runningCount' = 0 THEN "exited" ELSE "draining"
BY DEF AwaitNotification, Exit

LEMMA HeadResult ==
    ASSUME NEW st, NEW notified, AwaitNotification(st, notified)
    PROVE  IF loop' = "exited" THEN result' = ResultOf(status') ELSE result' = result
BY DEF AwaitNotification, Exit

LEMMA NoHolder ==
    ASSUME SlotsAccounted, runningCount = 0
    PROVE  Holders = {}
<1>1. IsFiniteSet(Holders)
  BY StepSubset DEF Holders
<1> QED
  BY <1>1, FS_EmptySet DEF SlotsAccounted

LEMMA SchedulerTurnEffect ==
    ASSUME IInv, SchedulerTurn, Inv'
    PROVE  Effect
<1>0. /\ TypeOK /\ IdleUntilLaunched /\ HoldersWork /\ LaunchCleared /\ FatalStops
      /\ UNCHANGED <<wf, errorClass, held, abortReason>>
      /\ loop \in {"start", "woken"}
  BY DEF IInv, Inv, Order, SchedulerTurn
<1>a. PICK K \in SUBSET Step :
         /\ IsSkipPass(K)
         /\ \E L \in SUBSET Launchable(Updated(K)),
               H \in SUBSET Askable(Updated(K)) :
              /\ LaunchLifecycles(Updated(K), L)
              /\ AwaitNotification(Launched(Updated(K), L), Notified(K, L))
  BY DEF SchedulerTurn
<1>b. PICK L \in SUBSET Launchable(Updated(K)) :
              /\ LaunchLifecycles(Updated(K), L)
              /\ AwaitNotification(Launched(Updated(K), L), Notified(K, L))
  BY <1>a
<1> DEFINE st == Updated(K)
           launched == Launched(st, L)
<1>1. /\ \A t \in K : status[t] = "PENDING" /\ st[t] = "SKIPPED"
      /\ \A t \in Step \ K :
            \/ st[t] = status[t]
            \/ status[t] = "PENDING" /\ st[t] = "READY" /\ Cleared(t)
  BY <1>0, <1>a DEF IsSkipPass, Updated, FatalStops, Cleared
<1>2. st \in [Step -> StepStatus]
  BY <1>0, UpdatedType
<1>3. /\ L \in SUBSET Step /\ \A t \in L : st[t] = "READY"
  BY <1>b DEF Launchable
<1> HIDE DEF st
<1>4. /\ \A t \in L : /\ status[t] \in NotLaunched /\ Cleared(t) /\ at[t] = "idle"
  BY <1>0, <1>1, <1>3 DEF LaunchCleared, IdleUntilLaunched, NotLaunched
<1>5. /\ launched \in [Step -> StepStatus]
      /\ \A t \in L : launched[t] = "RUNNING" \/ (aborted /\ launched[t] = "CANCELLED")
      /\ \A t \in Step \ L : launched[t] = st[t]
  BY <1>2, <1>3 DEF Launched, StepStatus
<1>6. /\ \A t \in Step \ L : at'[t] = at[t] /\ recorded'[t] = recorded[t]
      /\ aborted => \A t \in L : at'[t] = "meta"
      /\ ~aborted => \A t \in L : at'[t] \in SlotAwait
  BY <1>b, <1>3, FirstAwaitType DEF LaunchLifecycles
<1> HIDE DEF launched
<1>7. \/ /\ status' = launched /\ (aborted => AllTerminal(launched))
         /\ loop' = "exited" => AllTerminal(launched)
         /\ loop' # "draining"
      \/ /\ aborted /\ status' = TimedOut(launched)
         /\ loop' = IF runningCount' = 0 THEN "exited" ELSE "draining"
  BY <1>b, <1>5, HeadStatus DEF launched, st
<1>8. IF loop' = "exited" THEN result' = ResultOf(status') ELSE result' = result
  BY <1>b, HeadResult DEF launched, st
<1>9. runningCount' = 0 => Holders' = {}
  <2>1. SlotsAccounted'
    BY DEF Inv
  <2>2. IsFiniteSet(Holders')
    BY StepSubset DEF Holders
  <2> QED
    BY <2>1, <2>2, FS_EmptySet DEF SlotsAccounted
<1>10. \A t \in Step : TimedOut(launched)[t] =
          IF launched[t] \in {"RUNNING", "CHECKING"} THEN "CANCELLED"
          ELSE IF launched[t] \in NotLaunched THEN "SKIPPED"
          ELSE launched[t]
  BY <1>5 DEF TimedOut, NotLaunched
<1>11. ASSUME NEW t \in Step PROVE Move(t)
  <2>1. CASE t \in L
    <3>1. CASE aborted
      <4>1. AllTerminal(launched) => launched[t] = "CANCELLED"
        BY <1>5, <2>1 DEF AllTerminal, IsTerminal, TerminalStatus
      <4>2. status'[t] = "CANCELLED" /\ at'[t] = "meta"
        BY <1>5, <1>6, <1>7, <1>10, <2>1, <3>1, <4>1 DEF NotLaunched
      <4> QED
        BY <1>0, <1>4, <2>1, <3>1, <4>2 DEF Move, IsLaunched
    <3>2. CASE ~aborted
      <4>1. status'[t] = "RUNNING" /\ at'[t] \in SlotAwait
        BY <1>5, <1>6, <1>7, <2>1, <3>2
      <4> QED
        BY <1>0, <1>4, <2>1, <3>2, <4>1 DEF Move, IsLaunched
    <3> QED
      BY <3>1, <3>2
  <2>2. CASE t \in K
    <3>1. PICK d \in def(t).depends_on : DepBlocksDownstream(status, d) \/ d \in K
      BY <1>a, <2>2 DEF IsSkipPass
    <3>2. d \in Step
      BY <1>0, DependsType
    <3>3. launched[d] \in {"FAILED", "CANCELLED", "SKIPPED"}
      BY <1>1, <1>3, <1>5, <3>1, <3>2 DEF DepBlocksDownstream
    <3>4. t \notin L /\ launched[t] = "SKIPPED"
      BY <1>1, <1>3, <1>5, <2>2
    <3> QED
      BY <1>0, <1>1, <1>6, <1>7, <1>10, <2>2, <3>2, <3>3, <3>4
      DEF Move, IsSkipped, NotLaunched
  <2>3. CASE t \notin L \cup K
    <3>1. /\ at'[t] = at[t] /\ recorded'[t] = recorded[t] /\ errorClass'[t] = errorClass[t]
          /\ \/ launched[t] = status[t]
             \/ status[t] = "PENDING" /\ launched[t] = "READY" /\ Cleared(t)
      BY <1>0, <1>1, <1>5, <1>6, <2>3
    <3>2. CASE status' = launched
      BY <3>1, <3>2 DEF Move, Untouched, GetsReady
    <3>3. CASE /\ aborted /\ status' = TimedOut(launched)
               /\ loop' = IF runningCount' = 0 THEN "exited" ELSE "draining"
      <4>1. CASE launched[t] \in NotLaunched
        BY <1>10, <3>1, <3>3, <4>1 DEF Move, IsSkipped, NotLaunched
      <4>2. CASE launched[t] \in {"RUNNING", "CHECKING"} /\ at[t] \in SlotAwait
        <5>1. t \in Holders'
          BY <3>1, <4>2 DEF Holders
        <5>2. loop' = "draining"
          BY <1>9, <3>3, <5>1
        <5> QED
          BY <1>10, <3>1, <3>3, <4>2, <5>2 DEF Move, Works
      <4>3. CASE launched[t] \in {"RUNNING", "CHECKING"} /\ at[t] \notin SlotAwait
        BY <1>10, <3>1, <3>3, <4>3 DEF Move, IsCancelled
      <4>4. CASE launched[t] \notin NotLaunched \cup {"RUNNING", "CHECKING"}
        BY <1>10, <3>1, <3>3, <4>4 DEF Move, Untouched, NotLaunched
      <4> QED
        BY <4>1, <4>2, <4>3, <4>4
    <3> QED
      BY <1>7, <3>2, <3>3
  <2> QED
    BY <2>1, <2>2, <2>3
<1>12. LoopMoves
  <2>1. AllTerminal(launched) => Holders' = {}
    <3> SUFFICES ASSUME NEW t \in Step, at'[t] \in SlotAwait
                 PROVE  ~IsTerminal(launched, t)
      BY DEF AllTerminal, Holders
    <3>1. CASE t \in L
      BY <1>5, <1>6, <3>1 DEF IsTerminal, TerminalStatus, SlotAwait
    <3>2. CASE t \notin L
      <4>1. at[t] \in SlotAwait /\ status[t] \in {"RUNNING", "CHECKING"}
        BY <1>0, <1>6, <3>2 DEF HoldersWork
      <4>2. launched[t] = status[t]
        BY <1>1, <1>5, <3>2, <4>1
      <4> QED
        BY <4>1, <4>2 DEF IsTerminal, TerminalStatus
    <3> QED
      BY <3>1, <3>2
  <2>2. loop' = "exited" =>
          Holders' = {} /\ (aborted \/ AllTerminal(status'))
    BY <1>7, <1>9, <2>1
  <2> QED
    BY <1>0, <1>7, <1>8, <2>2 DEF LoopMoves, aborted
<1>13. FatalSkips
  BY <1>0 DEF FatalSkips
<1>14. SkipsHaveRoot
  <2> SUFFICES ASSUME ~aborted, NEW t \in Step, status'[t] = "SKIPPED"
               PROVE  \E d \in Step : status[d] = "SKIPPED"
                                      \/ status'[d] \in {"FAILED", "CANCELLED"}
    BY DEF SkipsHaveRoot
  <2>1. CASE t \in K
    <3>1. PICK d \in Step : status[d] \in {"SKIPPED", "CANCELLED", "FAILED"}
      BY <1>0, <1>a, <2>1, SkipPassHasRoot
    <3> QED
      BY <1>1, <1>3, <1>5, <1>7, <3>1
  <2>2. CASE t \notin K
    BY <1>1, <1>5, <1>7, <2>2
  <2> QED
    BY <2>1, <2>2
<1> QED
  BY <1>11, <1>12, <1>13, <1>14 DEF Effect

LEMMA OtherStepsEffect ==
    ASSUME IInv, Drained \/ Timeout \/ ExternalAbort \/ UNCHANGED vars
    PROVE  Effect
<1>0. /\ TypeOK /\ SlotsAccounted /\ LoopSound
      /\ UNCHANGED <<wf, stepVars, hookVars, runningCount>>
  BY DEF IInv, Inv, Order, Drained, Timeout, ExternalAbort, vars
<1>1. /\ \A t \in Step : Untouched(t)
      /\ UNCHANGED <<status, at, errorClass>>
  BY <1>0 DEF stepVars, Untouched
<1>2. LoopMoves
  <2>1. CASE Drained
    <3>1. Holders' = {}
      BY <1>0, <1>1, <2>1, NoHolder DEF Drained, Holders
    <3> QED
      BY <1>0, <1>1, <2>1, <3>1 DEF Drained, Exit, LoopSound, LoopMoves, aborted
  <2>2. CASE Timeout \/ ExternalAbort
    <3>1. Signal(TRUE, 0)
      BY <2>2 DEF Timeout, ExternalAbort
    <3>2. LoopSignalled
      BY <3>1, SignalMoves, Zenon
    <3> QED
      BY <1>0, <2>2, <3>2
      DEF Timeout, ExternalAbort, LoopSignalled, LoopSound, LoopMoves, aborted
  <2>3. CASE UNCHANGED vars
    BY <1>0, <2>3 DEF vars, loopVars, LoopSound, LoopMoves, aborted
  <2> QED
    BY <2>1, <2>2, <2>3
<1> QED
  BY <1>1, <1>2 DEF Effect, Move, FatalSkips, SkipsHaveRoot

-----------------------------------------------------------------------------
(* Whatever moves a step, the order of the steps stays what it was.          *)

\* A status that lets other steps proceed, or a failure, is final.
LEMMA PassedStays ==
    ASSUME IInv, Effect, NEW d \in Step,
           \/ status[d] \in {"SUCCEEDED", "INCOMPLETE", "OMITTED", "FAILED", "SKIPPED"}
           \/ status[d] = "CANCELLED" /\ ~aborted
    PROVE  /\ status'[d] = status[d] /\ errorClass'[d] = errorClass[d]
           /\ at[d] \notin SlotAwait /\ at'[d] \notin SlotAwait
<1>1. at[d] \notin SlotAwait
  BY DEF IInv, Order, HoldersWork, LoopSound
<1>2. Move(d)
  BY DEF Effect
<1> QED
  BY <1>1, <1>2
  DEF Move, Untouched, Works, Leaves, WindsUp, GetsReady, IsSkipped, IsOmitted,
      IsLaunched, IsCancelled, NotLaunched, SlotAwait

LEMMA ClearedStays ==
    ASSUME IInv, Effect, NEW s \in Step, Cleared(s)
    PROVE  Cleared(s)'
<1>1. wf' = wf /\ TypeOK
  BY DEF Effect, LoopMoves, IInv, Inv
<1>2. \A d \in def(s).depends_on : status'[d] = status[d] /\ errorClass'[d] = errorClass[d]
  BY <1>1, PassedStays, DependsType DEF Cleared, DepAllowsProgress
<1> QED
  BY <1>1, <1>2 DEF Cleared, DepAllowsProgress, def

LEMMA HoldersWorkStays ==
    ASSUME IInv, Effect
    PROVE  HoldersWork'
<1> SUFFICES ASSUME NEW t \in Step, at'[t] \in SlotAwait
             PROVE  \/ status'[t] \in {"RUNNING", "CHECKING"}
                    \/ status'[t] = "CANCELLED" /\ loop' = "draining"
  BY DEF HoldersWork
<1>1. Move(t) /\ LoopMoves
  BY DEF Effect
<1>2. at[t] \in SlotAwait =>
        \/ status[t] \in {"RUNNING", "CHECKING"}
        \/ status[t] = "CANCELLED" /\ loop = "draining"
  BY DEF IInv, Order, HoldersWork
<1>3. loop = "draining" => loop' = "draining"
  BY <1>1 DEF LoopMoves, Holders
<1>4. at[t] = "idle" \/ status[t] \notin NotLaunched
  BY DEF IInv, Inv, IdleUntilLaunched
<1> QED
  BY <1>1, <1>2, <1>3, <1>4
  DEF Move, Untouched, Works, Leaves, WindsUp, GetsReady, IsSkipped, IsOmitted,
      IsLaunched, IsCancelled, NotLaunched, SlotAwait

LEMMA ErrorsFinalStays ==
    ASSUME IInv, Effect
    PROVE  ErrorsFinal'
<1> SUFFICES ASSUME NEW t \in Step, errorClass'[t] # "none"
             PROVE  status'[t] = "FAILED" /\ at'[t] \notin SlotAwait
  BY DEF ErrorsFinal
<1>1. Move(t) /\ (errorClass[t] # "none" => status[t] = "FAILED")
  BY DEF Effect, IInv, Order, ErrorsFinal
<1>2. CASE errorClass[t] # "none"
  BY <1>1, <1>2, PassedStays
<1>3. CASE errorClass[t] = "none"
  BY <1>1, <1>3
  DEF Move, Untouched, Works, Leaves, WindsUp, GetsReady, IsSkipped, IsOmitted,
      IsLaunched, IsCancelled, SlotAwait
<1> QED
  BY <1>2, <1>3

LEMMA LaunchClearedStays ==
    ASSUME IInv, Effect
    PROVE  LaunchCleared'
<1> SUFFICES ASSUME NEW t \in Step, status'[t] = "READY" \/ at'[t] # "idle"
             PROVE  Cleared(t)'
  BY DEF LaunchCleared
<1>1. Move(t)
  BY DEF Effect
<1>2. status[t] = "READY" \/ at[t] # "idle" => Cleared(t)
  BY DEF IInv, Order, LaunchCleared
<1>3. Cleared(t)
  BY <1>1, <1>2
  DEF Move, Untouched, Works, Leaves, WindsUp, GetsReady, IsSkipped, IsOmitted,
      IsLaunched, IsCancelled, NotLaunched, SlotAwait
<1> QED
  BY <1>3, ClearedStays

LEMMA FatalStopsStays ==
    ASSUME IInv, Effect
    PROVE  FatalStops'
<1> SUFFICES ASSUME NEW t \in Step, status'[t] = "PENDING",
                    NEW d \in def(t).depends_on, errorClass'[d] = "fatal"
             PROVE  FALSE
  BY DEF FatalStops, def, Effect, LoopMoves
<1>1. d \in Step
  BY DependsType DEF IInv, Inv
<1>2. errorClass[d] = "fatal"
  BY <1>1 DEF Effect, FatalSkips, NotLaunched
<1>3. status[t] = "PENDING"
  <2>1. Move(t)
    BY DEF Effect
  <2>2. at[t] \in SlotAwait => status[t] \in {"RUNNING", "CHECKING", "CANCELLED"}
    BY DEF IInv, Order, HoldersWork
  <2> QED
    BY <2>1, <2>2
    DEF Move, Untouched, Works, Leaves, WindsUp, GetsReady, IsSkipped, IsOmitted,
        IsLaunched, IsCancelled, NotLaunched
<1> QED
  BY <1>1, <1>2, <1>3 DEF IInv, Order, FatalStops

LEMMA SkipsJustifiedStays ==
    ASSUME IInv, Effect
    PROVE  SkipsJustified' /\ SkipsRooted'
<1>0. /\ TypeOK /\ wf' = wf /\ (aborted => aborted')
  BY DEF Effect, LoopMoves, IInv, Inv
<1>1. ASSUME NEW t \in Step, status'[t] = "SKIPPED", ~aborted'
      PROVE  \/ status[t] = "SKIPPED"
             \/ \E d \in def(t).depends_on :
                   status'[d] \in {"FAILED", "CANCELLED", "SKIPPED"}
  <2>1. Move(t)
    BY DEF Effect
  <2>2. at[t] \in SlotAwait => status[t] # "SKIPPED"
    BY DEF IInv, Order, HoldersWork
  <2> QED
    BY <1>0, <1>1, <2>1, <2>2
    DEF Move, Untouched, Works, Leaves, WindsUp, GetsReady, IsSkipped, IsOmitted,
        IsLaunched, IsCancelled, NotLaunched
<1>2. SkipsJustified'
  <2> SUFFICES ASSUME NEW t \in Step, status'[t] = "SKIPPED", ~aborted'
               PROVE  \E d \in def(t).depends_on :
                          status'[d] \in {"FAILED", "CANCELLED", "SKIPPED"}
    BY <1>0 DEF SkipsJustified, def
  <2>1. CASE status[t] = "SKIPPED"
    <3>1. PICK d \in def(t).depends_on : status[d] \in {"FAILED", "CANCELLED", "SKIPPED"}
      BY <1>0, <2>1 DEF IInv, Order, SkipsJustified
    <3>2. d \in Step
      BY <1>0, DependsType
    <3> QED
      BY <1>0, <3>1, <3>2, PassedStays
  <2> QED
    BY <1>1, <2>1
<1>3. SkipsRooted'
  <2> SUFFICES ASSUME ~aborted', NEW t \in Step, status'[t] = "SKIPPED"
               PROVE  \E d \in Step : status'[d] \in {"FAILED", "CANCELLED"}
    BY DEF SkipsRooted
  <2>1. PICK d \in Step : status[d] = "SKIPPED" \/ status'[d] \in {"FAILED", "CANCELLED"}
    BY <1>0 DEF Effect, SkipsHaveRoot
  <2>2. CASE status[d] = "SKIPPED"
    <3>1. PICK e \in Step : status[e] \in {"FAILED", "CANCELLED"}
      BY <1>0, <2>2 DEF IInv, Order, SkipsRooted
    <3> QED
      BY <1>0, <3>1, PassedStays
  <2> QED
    BY <2>1, <2>2
<1> QED
  BY <1>2, <1>3

\* Once the loop has ended without an abort the statuses stay.
LEMMA ExitedStays ==
    ASSUME IInv, Effect, loop = "exited", AllTerminal(status)
    PROVE  AllTerminal(status)' /\ \A t \in Step : status'[t] = status[t]
<1>1. \A t \in Step : at[t] \notin SlotAwait /\ status[t] \in TerminalStatus
  BY DEF IInv, Order, LoopSound, Holders, AllTerminal, IsTerminal
<1>2. ASSUME NEW t \in Step PROVE status'[t] = status[t]
  <2>1. Move(t)
    BY DEF Effect
  <2> QED
    BY <1>1, <2>1
    DEF Move, Untouched, Works, Leaves, WindsUp, GetsReady, IsSkipped, IsOmitted,
        IsLaunched, IsCancelled, NotLaunched, TerminalStatus
<1> QED
  BY <1>1, <1>2 DEF AllTerminal, IsTerminal

LEMMA HoldersStayEmpty ==
    ASSUME IInv, Effect, loop = "exited"
    PROVE  Holders' = {}
<1>1. /\ Holders = {} /\ (AllTerminal(status) \/ aborted)
      /\ IdleUntilLaunched
  BY DEF IInv, Inv, Order, LoopSound
<1> SUFFICES ASSUME NEW t \in Step, at'[t] \in SlotAwait PROVE FALSE
  BY DEF Holders
<1>2. Move(t) /\ at[t] \notin SlotAwait
  BY <1>1 DEF Effect, Holders
<1>3. status[t] \in NotLaunched => aborted
  BY <1>1 DEF AllTerminal, IsTerminal, TerminalStatus, NotLaunched
<1> QED
  BY <1>2, <1>3
  DEF Move, Untouched, Works, Leaves, WindsUp, GetsReady, IsSkipped, IsOmitted,
      IsLaunched, IsCancelled, SlotAwait

LEMMA LoopSoundStays ==
    ASSUME IInv, Effect
    PROVE  LoopSound'
<1>1. LoopMoves /\ LoopSound
  BY DEF Effect, IInv, Order
<1>2. CASE loop # "exited" /\ loop' = "exited"
  <2>1. /\ Holders' = {} /\ (aborted \/ AllTerminal(status'))
        /\ result' = ResultOf(status') /\ abortReason' = abortReason
    BY <1>1, <1>2 DEF LoopMoves
  <2>2. aborted => result' \in {"CANCELLED", "TIMED_OUT"} /\ aborted'
    BY <2>1 DEF ResultOf, aborted
  <2> QED
    BY <1>2, <2>1, <2>2 DEF LoopSound, AllTerminal, IsTerminal
<1>3. CASE ((loop' = "exited") <=> (loop = "exited")) /\ result' = result
  <2>1. CASE loop = "exited"
    BY <1>1, <1>3, <2>1, HoldersStayEmpty, ExitedStays DEF LoopSound, LoopMoves
  <2>2. CASE loop # "exited"
    BY <1>1, <1>3, <2>2 DEF LoopSound, LoopMoves
  <2> QED
    BY <2>1, <2>2
<1> QED
  BY <1>1, <1>2, <1>3 DEF LoopMoves

LEMMA ResultFaithfulStays ==
    ASSUME IInv, Effect
    PROVE  ResultFaithful'
<1>1. LoopMoves /\ LoopSound /\ ResultFaithful /\ SkipsRooted'
  BY SkipsJustifiedStays DEF Effect, IInv, Order
<1>2. CASE loop # "exited" /\ loop' = "exited"
  <2>1. /\ aborted \/ AllTerminal(status')
        /\ result' = ResultOf(status') /\ abortReason' = abortReason
    BY <1>1, <1>2 DEF LoopMoves
  <2>2. CASE aborted
    BY <2>1, <2>2 DEF ResultOf, ResultFaithful
  <2>3. CASE ~aborted
    <3>1. \A t \in Step : status'[t] \in TerminalStatus
      BY <2>1, <2>3 DEF AllTerminal, IsTerminal
    <3>2. ~aborted'
      BY <2>1, <2>3 DEF aborted
    <3>3. CASE \E t \in Step : status'[t] \in {"FAILED", "CANCELLED"}
      BY <2>1, <2>3, <3>3 DEF ResultOf, ResultFaithful
    <3>4. CASE ~\E t \in Step : status'[t] \in {"FAILED", "CANCELLED"}
      <4>1. \A t \in Step : status'[t] \in {"SUCCEEDED", "INCOMPLETE", "OMITTED"}
        BY <1>1, <3>1, <3>2, <3>4 DEF SkipsRooted, TerminalStatus
      <4> QED
        BY <2>1, <2>3, <4>1 DEF ResultOf, ResultFaithful
    <3> QED
      BY <3>3, <3>4
  <2> QED
    BY <2>2, <2>3
<1>3. CASE ((loop' = "exited") <=> (loop = "exited")) /\ result' = result
  <2>1. CASE result \in {"SUCCEEDED", "FAILED"}
    <3>1. loop = "exited" /\ AllTerminal(status)
      BY <1>1, <2>1 DEF LoopSound
    <3> QED
      BY <1>1, <1>3, <3>1, ExitedStays DEF ResultFaithful
  <2>2. CASE result \notin {"SUCCEEDED", "FAILED"}
    BY <1>3, <2>2 DEF ResultFaithful
  <2> QED
    BY <2>1, <2>2
<1> QED
  BY <1>1, <1>2, <1>3 DEF LoopMoves

LEMMA RecordKeptStays ==
    ASSUME IInv, Effect
    PROVE  RecordKept'
<1> SUFFICES ASSUME ~aborted', NEW t \in Step, at'[t] \in {"meta", "ended"}
             PROVE  recorded'[t] = status'[t]
  BY DEF RecordKept
<1>1. Move(t) /\ ~aborted
  BY DEF Effect, LoopMoves
<1>2. at[t] \in {"meta", "ended"} => recorded[t] = status[t]
  BY <1>1 DEF IInv, Order, RecordKept
<1>3. status[t] \in NotLaunched => at[t] = "idle"
  BY DEF IInv, Inv, IdleUntilLaunched
<1> QED
  BY <1>1, <1>2, <1>3
  DEF Move, Untouched, Works, Leaves, WindsUp, GetsReady, IsSkipped, IsOmitted,
      IsLaunched, IsCancelled, NotLaunched, SlotAwait

-----------------------------------------------------------------------------
(* The counters.                                                             *)

Bounded(t) ==
    /\ count'[t].iteration <= def(t).max_iterations
    /\ count'[t].retries <= def(t).max_retries
    /\ at'[t] \in SlotAwait \cup {"idle"} => count'[t].infra < InfraFailureLimit

LEMMA LifecycleBounded ==
    ASSUME IInv, NEW s \in Step, LifecycleStep(s)
    PROVE  \A t \in Step : Bounded(t)
<1>0. TypeOK /\ StallHasClass /\ WorkBounded /\ CountFresh
  BY DEF IInv, Inv, Order
<1>1. ASSUME NEW t \in Step, count'[t] = count[t], at'[t] = at[t]
      PROVE  Bounded(t)
  BY <1>0, <1>1 DEF WorkBounded, CountFresh, Bounded
<1>2. CASE PostStepAnswered(s) \/ MetaWritten(s)
  <2>1. /\ count' = count /\ at \in [Step -> Await]
        /\ at' = [at EXCEPT ![s] = "meta"] \/ at' = [at EXCEPT ![s] = "ended"]
    BY <1>0, <1>2 DEF PostStepAnswered, MetaWritten, TypeOK
  <2>2. at'[s] \in {"meta", "ended"} /\ \A t \in Step : t # s => at'[t] = at[t]
    BY <2>1
  <2>3. at'[s] \notin SlotAwait \cup {"idle"}
    BY <2>2 DEF SlotAwait
  <2>4. Bounded(s)
    <3>1. wf' = wf
      BY DEF LifecycleStep
    <3> QED
      BY <1>0, <2>1, <2>3, <3>1 DEF Bounded, WorkBounded
  <2>5. \A t \in Step : t # s => Bounded(t)
    BY <1>1, <2>1, <2>2
  <2> QED
    BY <2>4, <2>5
<1>3. CASE Segment(s) /\ Counted(s)
  <2>1. Bounded(s)
    BY <1>3 DEF Segment, Counted, Bounded, SlotAwait
  <2> QED
    BY <1>1, <1>3, <2>1 DEF Segment, Counted
<1> QED
  BY <1>0, <1>2, <1>3, SegmentActions, SegmentEndings DEF LifecycleStep

LEMMA LimitsOfStep ==
    ASSUME TypeOK, NEW s \in Step
    PROVE  def(s).max_iterations \in Nat \ {0} /\ def(s).max_retries \in Nat
BY DEF TypeOK, Workflow, StepDefinition, def

LEMMA BoundedStays ==
    ASSUME IInv, Next
    PROVE  WorkBounded' /\ CountFresh'
<1>0. TypeOK /\ WorkBounded /\ CountFresh /\ IdleUntilLaunched
  BY DEF IInv, Inv, Order
<1>1. wf' = wf
  BY DEF Next, SchedulerTurn, Drained, Timeout, ExternalAbort, LifecycleStep,
         PreStepAnswered, Terminated, vars
<1> SUFFICES \A t \in Step : Bounded(t)
  BY <1>1 DEF Bounded, WorkBounded, CountFresh, def
<1>2. ASSUME NEW s \in Step, LifecycleStep(s) PROVE \A t \in Step : Bounded(t)
  BY <1>2, LifecycleBounded
<1>3. ASSUME NEW t \in Step,
             \/ count'[t] = count[t]
             \/ /\ at[t] = "idle"
                /\ count'[t] = [count[t] EXCEPT !.iteration = 1],
             \/ at'[t] = at[t]
             \/ at[t] = "idle"
      PROVE  Bounded(t)
  BY <1>0, <1>3, LimitsOfStep DEF TypeOK, WorkBounded, CountFresh, Bounded
<1>4. ASSUME NEW s \in Step, PreStepAnswered(s) PROVE \A t \in Step : Bounded(t)
  <2>1. CASE UNCHANGED <<at, count>>
    BY <1>3, <2>1
  <2>2. CASE /\ status[s] = "READY"
             /\ count' = [count EXCEPT ![s].iteration = 1]
             /\ at' = [at EXCEPT ![s] = FirstAwait(s, 1)]
    <3>1. at[s] = "idle"
      BY <1>0, <2>2 DEF IdleUntilLaunched, NotLaunched
    <3>2. count'[s] = [count[s] EXCEPT !.iteration = 1]
      BY <1>0, <2>2 DEF TypeOK
    <3>3. \A t \in Step \ {s} : count'[t] = count[t] /\ at'[t] = at[t]
      BY <1>0, <2>2 DEF TypeOK
    <3> QED
      BY <1>3, <3>1, <3>2, <3>3
  <2> QED
    BY <1>4, <2>1, <2>2 DEF PreStepAnswered
<1>5. CASE SchedulerTurn
  <2>a. PICK K \in SUBSET Step :
           \E L \in SUBSET Launchable(Updated(K)) : LaunchLifecycles(Updated(K), L)
    BY <1>5 DEF SchedulerTurn
  <2>1. PICK L \in SUBSET Launchable(Updated(K)) : LaunchLifecycles(Updated(K), L)
    BY <2>a
  <2>2. \A t \in L : at[t] = "idle"
    BY <1>0, <2>1, UpdatedType DEF IdleUntilLaunched, Launchable, NotLaunched
  <2>3. \A t \in Step :
           /\ count'[t] = IF t \in L THEN [count[t] EXCEPT !.iteration = 1] ELSE count[t]
           /\ t \notin L => at'[t] = at[t]
    BY <2>1 DEF LaunchLifecycles
  <2> QED
    BY <1>3, <2>2, <2>3
<1>6. CASE Drained \/ Timeout \/ ExternalAbort \/ Terminated
  BY <1>3, <1>6 DEF Drained, Timeout, ExternalAbort, Terminated, stepVars, vars
<1> QED
  BY <1>2, <1>4, <1>5, <1>6 DEF Next

-----------------------------------------------------------------------------
(* The invariant of all runs.                                                *)

LEMMA NextEffect ==
    ASSUME IInv, [Next]_vars, Inv'
    PROVE  Effect
BY LifecycleStepEffect, PreStepEffect, SchedulerTurnEffect, OtherStepsEffect
DEF Next, Terminated

LEMMA InitOrder == Init => IInv
<1> SUFFICES ASSUME Init PROVE IInv
  OBVIOUS
<1>1. Inv
  BY InitInv
<1>0. TypeOK
  BY <1>1 DEF Inv
<1>2. /\ HoldersWork /\ ErrorsFinal /\ LaunchCleared
      /\ SkipsJustified /\ SkipsRooted /\ RecordKept
  BY DEF Init, HoldersWork, ErrorsFinal, LaunchCleared, SkipsJustified,
         SkipsRooted, RecordKept, SlotAwait
<1>5. FatalStops
  BY <1>0, DependsType DEF Init, FatalStops
<1>3. LoopSound /\ ResultFaithful
  BY DEF Init, LoopSound, ResultFaithful
<1>4. WorkBounded /\ CountFresh
  BY <1>1, LimitsOfStep
  DEF Inv, Init, WorkBounded, CountFresh, SlotAwait, InfraFailureLimit
<1> QED
  BY <1>1, <1>2, <1>3, <1>4, <1>5 DEF IInv, Order

LEMMA NextKeepsIInv == IInv /\ [Next]_vars => IInv'
<1> SUFFICES ASSUME IInv, [Next]_vars PROVE IInv'
  OBVIOUS
<1>1. Inv'
  BY NextKeepsInv DEF IInv
<1>2. Effect
  BY <1>1, NextEffect
<1>3. WorkBounded' /\ CountFresh'
  <2>1. CASE Next
    BY <2>1, BoundedStays
  <2>2. CASE UNCHANGED vars
    BY <2>2 DEF vars, stepVars, IInv, Order, WorkBounded, CountFresh, def
  <2> QED
    BY <2>1, <2>2
<1> QED
  BY <1>1, <1>2, <1>3, HoldersWorkStays, ErrorsFinalStays, LaunchClearedStays,
     FatalStopsStays, SkipsJustifiedStays, LoopSoundStays, RecordKeptStays,
     ResultFaithfulStays
  DEF IInv, Order

LEMMA IInvHolds == Spec => []IInv
BY InitOrder, NextKeepsIInv, PTL DEF Spec

-----------------------------------------------------------------------------
(* What the invariant says of every run.                                     *)

\* In every execution of every workflow a step that was launched, or is about
\* to be, has dependencies that let it proceed, none of which failed with a
\* FATAL error, although updateReadySteps, skipDependents and the pre_step
\* hooks decide that at different moments.
THEOREM DependenciesAlwaysRespected == Spec => []DependenciesRespected
<1>1. IInv => DependenciesRespected
  BY DEF IInv, Order, LaunchCleared, Cleared, DependenciesRespected
<1> QED
  BY <1>1, IInvHolds, PTL

\* In every execution of every workflow a skipped step has a dependency that
\* failed, was cancelled or was skipped, unless the workflow was aborted.
THEOREM SkipsAlwaysJustified == Spec => []SkipsJustified
<1>1. IInv => SkipsJustified
  BY DEF IInv, Order
<1> QED
  BY <1>1, IInvHolds, PTL

\* In every execution of every workflow nothing runs any more when the loop has
\* ended, the meta files tell the statuses that the steps keep, and the result
\* is one that the statuses account for.
THEOREM ExitAlwaysFaithful == Spec => []ExitFaithful
<1>1. IInv => QuietAtExit
  BY DEF IInv, Order, LoopSound, QuietAtExit
<1>2. IInv => RecordFaithful
  BY DEF IInv, Order, RecordKept, RecordFaithful
<1>3. IInv => ExitFaithful
  BY <1>1, <1>2 DEF IInv, Order, ExitFaithful
<1> QED
  BY <1>3, IInvHolds, PTL

\* In every execution of every workflow retries, iterations and failures in a
\* row of the check's infrastructure stay within their limits, whatever makes a
\* lifecycle go round its loop once more.
THEOREM WorkAlwaysBounded == Spec => []WorkBounded
<1>1. IInv => WorkBounded
  BY DEF IInv, Order
<1> QED
  BY <1>1, IInvHolds, PTL

LEMMA StepEffect ==
    ASSUME IInv, [Next]_vars
    PROVE  IInv' /\ Effect
BY NextKeepsIInv, NextEffect DEF IInv

\* In every execution of every workflow no hook, timer, failure of another step
\* or abort changes a terminal status once the step's slot was given back.
THEOREM SettledAlwaysFinal == Spec => SettledStatusFinal
<1> DEFINE Final ==
      \A s \in Step : at[s] \notin SlotAwait /\ IsTerminal(status, s)
                          => status'[s] = status[s]
<1>1. IInv /\ [Next]_vars => [Final]_vars
  <2> SUFFICES ASSUME IInv, [Next]_vars, NEW s \in Step,
                      at[s] \notin SlotAwait, IsTerminal(status, s)
               PROVE  status'[s] = status[s]
    OBVIOUS
  <2>1. Move(s)
    BY StepEffect DEF Effect
  <2> QED
    BY <2>1
    DEF Move, Untouched, Works, Leaves, WindsUp, GetsReady, IsSkipped, IsOmitted,
        IsLaunched, IsCancelled, NotLaunched, IsTerminal, TerminalStatus
<1> QED
  BY <1>1, IInvHolds, PTL DEF Spec, SettledStatusFinal

-----------------------------------------------------------------------------
(* The executor implements StepSchedule.                                     *)

LEMMA ClearedLetsThrough ==
    ASSUME IInv, NEW s \in Step, Cleared(s)
    PROVE  \A d \in def(s).depends_on : PhaseOf(d) \in {"passed", "failed"}
<1> SUFFICES ASSUME NEW d \in def(s).depends_on
             PROVE  PhaseOf(d) \in {"passed", "failed"}
  OBVIOUS
<1>1. d \in Step
  BY DependsType DEF IInv, Inv
<1>2. at[d] \notin SlotAwait
  BY <1>1 DEF Cleared, DepAllowsProgress, IInv, Order, HoldersWork
<1> QED
  BY <1>2 DEF Cleared, DepAllowsProgress, PhaseOf

\* A step of the executor moves the phase of a workflow step by a rule of
\* StepSchedule.
LEMMA MoveIsScheduled ==
    ASSUME IInv, IInv', Effect, NEW t \in Step
    PROVE  \/ Schedule!Starts(t) \/ Schedule!Omitted(t) \/ Schedule!Skipped(t)
           \/ Schedule!Ends(t) \/ Schedule!Stays(t)
<1>0. /\ Move(t) /\ wf' = wf /\ (loop' = "draining" => aborted)
      /\ def(t).depends_on \in SUBSET Step
      /\ status[t] \in NotLaunched => at[t] = "idle"
      /\ status[t] = "READY" => Cleared(t)
      /\ status'[t] \in NotLaunched => at'[t] = "idle"
  BY DependsType
  DEF Effect, LoopMoves, IInv, Inv, IdleUntilLaunched, Order, LaunchCleared
<1>1. CASE Untouched(t) \/ Works(t) \/ WindsUp(t) \/ GetsReady(t) \/ IsCancelled(t)
  <2>1. PhaseOf(t)' = PhaseOf(t)
    BY <1>0, <1>1
    DEF PhaseOf, def, Untouched, Works, WindsUp, GetsReady, IsCancelled, SlotAwait
  <2> QED
    BY <2>1 DEF Schedule!Stays
<1>2. CASE Leaves(t)
  <2>1. PhaseOf(t) = "active" /\ PhaseOf(t)' \in {"passed", "failed", "blocked"}
    BY <1>0, <1>2 DEF PhaseOf, Leaves, NotLaunched, SlotAwait
  <2> QED
    BY <2>1 DEF Schedule!Ends
<1>3. CASE IsSkipped(t)
  <2>1. PhaseOf(t) = "waiting" /\ PhaseOf(t)' = "blocked"
    BY <1>0, <1>3 DEF PhaseOf, IsSkipped, NotLaunched, SlotAwait
  <2>2. aborted \/ \E d \in def(t).depends_on : PhaseOf(d)' \in {"failed", "blocked"}
    <3> SUFFICES ASSUME ~aborted
                 PROVE  \E d \in def(t).depends_on : PhaseOf(d)' \in {"failed", "blocked"}
      OBVIOUS
    <3>1. PICK d \in def(t).depends_on : status'[d] \in {"FAILED", "CANCELLED", "SKIPPED"}
      BY <1>3 DEF IsSkipped
    <3>2. at'[d] \notin SlotAwait
      BY <1>0, <3>1 DEF IInv, Order, HoldersWork
    <3> QED
      BY <3>1, <3>2 DEF PhaseOf
  <2> QED
    BY <1>0, <2>1, <2>2 DEF Schedule!Skipped
<1>4. CASE IsOmitted(t)
  <2>1. PhaseOf(t) = "waiting" /\ PhaseOf(t)' = "passed"
    BY <1>0, <1>4 DEF PhaseOf, IsOmitted, NotLaunched, SlotAwait
  <2>2. \A d \in def(t).depends_on : PhaseOf(d) \in {"passed", "failed"}
    BY <1>0, <1>4, ClearedLetsThrough DEF IsOmitted
  <2> QED
    BY <1>0, <2>1, <2>2 DEF Schedule!Omitted, Schedule!LetThrough
<1>5. CASE IsLaunched(t)
  <2>1. PhaseOf(t) = "waiting"
    BY <1>0, <1>5 DEF PhaseOf, IsLaunched, NotLaunched, SlotAwait
  <2>2. \A d \in def(t).depends_on : PhaseOf(d) \in {"passed", "failed"}
    BY <1>5, ClearedLetsThrough DEF IsLaunched
  <2>3. CASE ~aborted
    <3>1. PhaseOf(t)' = "active"
      BY <1>5, <2>3 DEF PhaseOf, IsLaunched
    <3> QED
      BY <1>0, <2>1, <2>2, <3>1 DEF Schedule!Starts, Schedule!LetThrough
  <2>4. CASE aborted
    <3>1. PhaseOf(t)' = "blocked"
      BY <1>5, <2>4 DEF PhaseOf, IsLaunched, SlotAwait
    <3> QED
      BY <2>1, <2>4, <3>1 DEF Schedule!Skipped
  <2> QED
    BY <2>3, <2>4
<1> QED
  BY <1>0, <1>1, <1>2, <1>3, <1>4, <1>5 DEF Move

LEMMA EffectIsScheduled ==
    ASSUME IInv, IInv', Effect
    PROVE  Schedule!Next
<1>1. \A t \in Step : PhaseOf(t)' \in Schedule!Phase
  BY DEF PhaseOf, Schedule!Phase
<1>2. Schedule!Active' = Holders'
  BY DEF Schedule!Active, PhaseOf, Holders
<1>3. Cardinality(Schedule!Active') <= wf'.concurrency
  BY <1>2 DEF IInv, Inv, SlotsAccounted
<1>6. Schedule!Cardinality(Schedule!Active') = Cardinality(Schedule!Active')
  BY DEF Cardinality, Schedule!Cardinality
<1>4. wf' = wf /\ (aborted => aborted') /\ aborted' \in BOOLEAN
  BY DEF Effect, LoopMoves, aborted
<1>5. [s \in Step |-> def(s).depends_on]' = [s \in Step |-> def(s).depends_on]
  BY <1>4 DEF def
<1> QED
  BY <1>1, <1>3, <1>4, <1>5, <1>6, MoveIsScheduled DEF Schedule!Next

\* Every execution of every workflow is a schedule: steps start, are skipped and
\* end as StepSchedule allows, whatever the lifecycles, hooks and aborts do.
THEOREM ExecutorKeepsSchedule == Spec => KeepsSchedule
<1>1. Init => Schedule!Init
  <2> SUFFICES ASSUME Init PROVE Schedule!Init
    OBVIOUS
  <2>1. TypeOK
    BY InitInv DEF Inv
  <2>2. [s \in Step |-> PhaseOf(s)] = [s \in Step |-> "waiting"]
    BY DEF Init, PhaseOf, SlotAwait
  <2>3. [s \in Step |-> def(s).depends_on] \in [Step -> SUBSET Step]
    BY <2>1, DependsType
  <2>4. wf.concurrency \in Nat \ {0} /\ aborted = FALSE
    BY <2>1 DEF TypeOK, Workflow, Init, aborted
  <2> QED
    BY <2>2, <2>3, <2>4 DEF Schedule!Init
<1>2. IInv /\ [Next]_vars => [Schedule!Next]_Schedule!vars
  <2> SUFFICES ASSUME IInv, [Next]_vars PROVE Schedule!Next
    OBVIOUS
  <2> QED
    BY StepEffect, EffectIsScheduled
<1> QED
  BY <1>1, <1>2, IInvHolds, PTL DEF Spec, KeepsSchedule, Schedule!Spec
=============================================================================
