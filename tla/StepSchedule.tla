---------------------------- MODULE StepSchedule ----------------------------
(***************************************************************************)
(* What a DAG executor promises, whatever its steps do: a step becomes     *)
(* active only after its dependencies let it through, at most limit steps  *)
(* are active, a step is blocked only for a reason, and what is over stays *)
(* over.  WorkflowExecutor implements it.                                  *)
(***************************************************************************)
EXTENDS Naturals, FiniteSets

CONSTANT Step

VARIABLES
    depends,   \* the dependencies of each step; never changes
    limit,     \* how many steps may be active; never changes
    phase,     \* what became of each step so far
    stopped    \* the whole schedule was told to stop

vars == <<depends, limit, phase, stopped>>

\* "failed": a failure that the steps after it may tolerate.
Phase == {"waiting", "active", "passed", "failed", "blocked"}

Active == {s \in Step : phase[s] = "active"}

Init ==
    /\ depends \in [Step -> SUBSET Step]
    /\ limit \in Nat \ {0}
    /\ phase = [s \in Step |-> "waiting"]
    /\ stopped = FALSE

LetThrough(s) == \A d \in depends[s] : phase[d] \in {"passed", "failed"}

\* One step of the schedule may move many steps, each by one of these rules.
Starts(s) == phase[s] = "waiting" /\ LetThrough(s) /\ phase'[s] = "active"

Omitted(s) == phase[s] = "waiting" /\ LetThrough(s) /\ phase'[s] = "passed"

Skipped(s) ==
    /\ phase[s] = "waiting"
    /\ stopped \/ (\E d \in depends[s] : phase'[d] \in {"failed", "blocked"})
    /\ phase'[s] = "blocked"

Ends(s) == phase[s] = "active" /\ phase'[s] \in {"passed", "failed", "blocked"}

Stays(s) == phase'[s] = phase[s]

Next ==
    /\ phase' \in [Step -> Phase]
    /\ \A s \in Step :
          Starts(s) \/ Omitted(s) \/ Skipped(s) \/ Ends(s) \/ Stays(s)
    /\ (\E s \in Step : Starts(s)) => Cardinality(Active') <= limit
    /\ stopped => stopped'
    /\ stopped' \in BOOLEAN
    /\ UNCHANGED <<depends, limit>>

Spec == Init /\ [][Next]_vars

\* A step that was let go had dependencies that let it through.
OrderKept ==
    \A s \in Step : phase[s] \in {"active", "passed", "failed"} => LetThrough(s)

\* Never more than limit active steps.
LimitKept == Cardinality(Active) <= limit
=============================================================================
