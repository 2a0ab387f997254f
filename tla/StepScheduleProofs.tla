------------------------- MODULE StepScheduleProofs -------------------------
(* What every implementation of StepSchedule may rely on. *)
EXTENDS StepSchedule, FiniteSetTheorems, TLAPS

ScheduleType ==
    /\ depends \in [Step -> SUBSET Step]
    /\ limit \in Nat \ {0}
    /\ phase \in [Step -> Phase]
    /\ stopped \in BOOLEAN

LEMMA ScheduleTypeHolds == Spec => []ScheduleType
<1>1. Init => ScheduleType
  BY DEF Init, ScheduleType, Phase
<1>2. ScheduleType /\ [Next]_vars => ScheduleType'
  BY DEF ScheduleType, Next, vars
<1> QED
  BY <1>1, <1>2, PTL DEF Spec

\* A dependency that let something through goes on letting it through.
LEMMA LetThroughStays ==
    ASSUME ScheduleType, Next, NEW s \in Step, LetThrough(s)
    PROVE  LetThrough(s)'
BY DEF ScheduleType, Next, LetThrough, Starts, Omitted, Skipped, Ends, Stays

\* In every schedule a step that was let go had dependencies that all let it
\* through, and they never take that back.
THEOREM OrderAlwaysKept == Spec => []OrderKept
<1>1. Init => OrderKept
  BY DEF Init, OrderKept
<1>2. ASSUME ScheduleType, OrderKept, [Next]_vars
      PROVE  OrderKept'
  <2>1. CASE Next
    <3> SUFFICES ASSUME NEW s \in Step,
                        phase'[s] \in {"active", "passed", "failed"}
                 PROVE  LetThrough(s)'
      BY DEF OrderKept
    <3>1. LetThrough(s)
      BY <1>2, <2>1 DEF ScheduleType, Next, OrderKept, Starts, Omitted, Skipped, Ends, Stays
    <3> QED
      BY <1>2, <2>1, <3>1, LetThroughStays
  <2>2. CASE UNCHANGED vars
    BY <1>2, <2>2 DEF vars, OrderKept, LetThrough
  <2> QED
    BY <1>2, <2>1, <2>2
<1> QED
  BY <1>1, <1>2, ScheduleTypeHolds, PTL DEF Spec

\* In every schedule of finitely many steps at most limit steps are active.
THEOREM LimitAlwaysKept ==
    ASSUME IsFiniteSet(Step)
    PROVE  Spec => []LimitKept
<1>1. Init => LimitKept
  <2> SUFFICES ASSUME Init PROVE LimitKept
    OBVIOUS
  <2>1. Active = {}
    BY DEF Init, Active
  <2> QED
    BY <2>1, FS_EmptySet DEF Init, LimitKept
<1>2. ASSUME ScheduleType, LimitKept, [Next]_vars
      PROVE  LimitKept'
  <2>1. CASE Next /\ \E s \in Step : Starts(s)
    BY <2>1 DEF Next, LimitKept
  <2>2. CASE Next /\ ~\E s \in Step : Starts(s)
    <3>1. Active' \subseteq Active
      BY <2>2 DEF Next, Active, Omitted, Skipped, Ends, Stays
    <3>2. IsFiniteSet(Active)
      BY FS_Subset DEF Active
    <3>3. IsFiniteSet(Active') /\ Cardinality(Active') <= Cardinality(Active)
      BY <3>1, <3>2, FS_Subset
    <3>4. Cardinality(Active) \in Nat /\ Cardinality(Active') \in Nat
      BY <3>2, <3>3, FS_CardinalityType
    <3>5. limit' = limit
      BY <2>2 DEF Next
    <3> QED
      BY <1>2, <3>3, <3>4, <3>5 DEF LimitKept, ScheduleType
  <2>3. CASE UNCHANGED vars
    BY <1>2, <2>3 DEF vars, LimitKept, Active
  <2> QED
    BY <1>2, <2>1, <2>2, <2>3
<1> QED
  BY <1>1, <1>2, ScheduleTypeHolds, PTL DEF Spec
=============================================================================
