-------------------------- MODULE AgentCoreProofs --------------------------
(***************************************************************************)
(* The accounting of AgentCore for any number of jobs, permits and slots.  *)
(*                                                                         *)
(* SlotsExact alone is not inductive: a grant adds one slot and must add   *)
(* one active permit, so the permit it takes must not be active already.   *)
(* CancelReaches is not either: a job with a running worker must not get a *)
(* second permit.  Linked says what both need about the two maps between   *)
(* jobs and permits.                                                       *)
(***************************************************************************)
EXTENDS AgentCore, FiniteSetTheorems, TLAPS

\* A job's permit is the job's, and nothing refers to a permit without a job.
Linked ==
    /\ \A j \in Job : activePermitsByJob[j] # NoPermit => holder[activePermitsByJob[j]] = j
    /\ \A p \in Permit : holder[p] = NoJob =>
          p \notin activePermits /\ p \notin aborted /\ ~Live(p)

IInv == TypeOK /\ SlotsExact /\ CancelReaches /\ Linked

-----------------------------------------------------------------------------
(* The operators. *)

LEMMA ChargeType ==
    ASSUME TypeOK, NEW j \in Job
    PROVE  Charge(j) \in Nat
<1>1. JobDef[j].costHint \in Nat
  BY JobsDefined DEF JobDefType
<1> QED
  BY <1>1 DEF Charge, HalvedUp

LEMMA VerdictType ==
    ASSUME NEW j, NEW attempt
    PROVE  Verdict(j, attempt) \in Refusal \cup {"GRANTED"}
BY DEF Verdict, Refusal

\* What the messages of one turn are.
LEMMA MessageTypes ==
    ASSUME NEW j \in Job
    PROVE  /\ \A t \in {"ack", "job_cancelled", "error", "permit_granted"} : Plain(t, j) \in Message
           /\ \A r \in Refusal : Rejected(j, r) \in Message
           /\ \A o \in Outcome : Completed(j, o) \in Message
<1>1. \A t \in {"ack", "job_cancelled", "error", "permit_granted"} : Plain(t, j) \in Message
  BY DEF Plain, Message
<1>2. \A r \in Refusal : Rejected(j, r) \in Message
  BY DEF Rejected, Message
<1>3. \A o \in Outcome : Completed(j, o) \in Message
  BY DEF Completed, Message
<1> QED
  BY <1>1, <1>2, <1>3

GateType ==
    /\ activePermits \subseteq Permit
    /\ aborted \subseteq Permit
    /\ activeSlots \in Nat
    /\ cumulativeCost \in Nat

LEMMA ReleasedType ==
    ASSUME TypeOK, NEW p \in Permit, Released(p)
    PROVE  activePermits' \subseteq Permit /\ activeSlots' \in Nat /\ cumulativeCost' \in Nat
<1>1. cost[p] \in Nat
  BY DEF TypeOK
<1>2. activePermits' \subseteq Permit
  BY DEF TypeOK, Released
<1>3. activeSlots' \in Nat
  BY DEF TypeOK, Released, AtLeastZero
<1>4. cumulativeCost' \in Nat
  BY <1>1 DEF TypeOK, Released, AtLeastZero
<1> QED
  BY <1>2, <1>3, <1>4

LEMMA RevokedType ==
    ASSUME TypeOK, NEW p \in Permit, Revoked(p)
    PROVE  GateType'
<1>1. CASE p \in activePermits
  BY <1>1, ReleasedType DEF Revoked, GateType, TypeOK
<1>2. CASE p \notin activePermits
  BY <1>2 DEF Revoked, GateType, TypeOK, gate
<1> QED
  BY <1>1, <1>2

LEMMA EndedType ==
    ASSUME TypeOK, NEW p \in Permit, Ended(p)
    PROVE  /\ GateType'
           /\ holder' \in [Permit -> Job \cup {NoJob}]
           /\ cost' \in [Permit -> Nat]
<1>1. activePermits' \subseteq Permit /\ activeSlots' \in Nat /\ cumulativeCost' \in Nat
  <2>1. CASE p \in activePermits
    BY <2>1, ReleasedType DEF Ended
  <2>2. CASE p \notin activePermits
    BY <2>2 DEF Ended, TypeOK
  <2> QED
    BY <2>1, <2>2
<1>2. aborted' \subseteq Permit
  BY DEF Ended, TypeOK
<1>3. holder' \in [Permit -> Job \cup {NoJob}]
  BY DEF Ended, TypeOK
<1>4. cost' \in [Permit -> Nat]
  BY DEF Ended, TypeOK
<1> QED
  BY <1>1, <1>2, <1>3, <1>4 DEF GateType

-----------------------------------------------------------------------------
(* Types. *)

LEMMA TypeInit == Init => TypeOK
<1> SUFFICES ASSUME Init PROVE TypeOK
  OBVIOUS
<1>1. sent \in Seq(Message)
  BY DEF Init
<1>2. activePermitsByJob \in [Job -> Permit \cup {NoPermit}]
  BY DEF Init
<1>3. /\ holder \in [Permit -> Job \cup {NoJob}]
      /\ cost \in [Permit -> Nat]
      /\ worker \in [Permit -> WorkerState]
      /\ outcome \in [Permit -> Outcome]
  BY DEF Init, WorkerState, Outcome
<1> QED
  BY <1>1, <1>2, <1>3 DEF Init, TypeOK, Level

LEMMA TypeStep == TypeOK /\ CancelReaches /\ [Next]_vars => TypeOK'
<1> SUFFICES ASSUME TypeOK, CancelReaches, [Next]_vars PROVE TypeOK'
  OBVIOUS
<1>1. ASSUME NEW j \in Job, SubmitJob(j) PROVE TypeOK'
  <2>1. sent' \in Seq(Message)
    BY <1>1, MessageTypes DEF SubmitJob
  <2> QED
    BY <1>1, <2>1 DEF SubmitJob, TypeOK, permits, gate, workers
<1>2. ASSUME NEW j \in Job, CancelJob(j) PROVE TypeOK'
  <2>1. sent' \in Seq(Message)
    <3>1. Plain("job_cancelled", j) \in Message /\ Plain("error", j) \in Message
      BY MessageTypes
    <3>2. sent' = <<Plain("error", j)>> \/ sent' = <<Plain("job_cancelled", j)>>
      BY <1>2 DEF CancelJob, CancelUnknown, CancelActive, CancelWaiting
    <3>3. CASE sent' = <<Plain("error", j)>>
      BY <3>1, <3>3
    <3>4. CASE sent' = <<Plain("job_cancelled", j)>>
      BY <3>1, <3>4
    <3> QED
      BY <3>2, <3>3, <3>4
  <2>2. GateType' /\ jobs' \subseteq Job /\ activePermitsByJob' = activePermitsByJob
    <3>1. CASE CancelUnknown(j)
      BY <3>1 DEF CancelUnknown, TypeOK, GateType, registry, gate
    <3>2. CASE CancelActive(j)
      <4>1. activePermitsByJob[j] \in Permit
        BY <3>2 DEF CancelActive, TypeOK
      <4> QED
        BY <3>2, <4>1, RevokedType DEF CancelActive, TypeOK, registry
    <3>3. CASE CancelWaiting(j)
      BY <3>3 DEF CancelWaiting, TypeOK, GateType, gate
    <3> QED
      BY <1>2, <3>1, <3>2, <3>3 DEF CancelJob
  <2> QED
    BY <1>2, <2>1, <2>2 DEF CancelJob, TypeOK, GateType, permits, workers
<1>3. ASSUME NEW j \in Job, NEW attempt \in Attempts, RequestPermit(j, attempt) PROVE TypeOK'
  <2> USE <1>3
  <2>1. CASE RequestDuplicate(j)
    <3>1. sent' \in Seq(Message)
      BY <2>1, MessageTypes DEF RequestDuplicate, Refusal
    <3> QED
      BY <2>1, <3>1 DEF RequestPermit, RequestDuplicate, TypeOK, permits, gate
  <2>2. CASE RequestRefused(j, attempt)
    <3>1. sent' \in Seq(Message)
      BY <2>2, MessageTypes, VerdictType DEF RequestRefused
    <3> QED
      BY <2>2, <3>1 DEF RequestPermit, RequestRefused, TypeOK, permits, gate
  <2>3. ASSUME NEW p \in Permit, RequestGranted(j, attempt, p) PROVE TypeOK'
    <3> USE <2>3
    <3>1. sent' \in Seq(Message)
      BY MessageTypes DEF RequestGranted
    <3>2. activePermitsByJob' \in [Job -> Permit \cup {NoPermit}]
      BY DEF RequestGranted, TypeOK
    <3>3. holder' \in [Permit -> Job \cup {NoJob}]
      BY DEF RequestGranted, TypeOK
    <3>4. cost' \in [Permit -> Nat] /\ cumulativeCost' \in Nat
      BY ChargeType DEF RequestGranted, TypeOK
    <3>5. worker' \in [Permit -> WorkerState]
      BY DEF RequestGranted, TypeOK, WorkerState
    <3>6. activeSlots' \in Nat /\ inWindow' \in Nat
      BY DEF RequestGranted, TypeOK
    <3> QED
      BY <3>1, <3>2, <3>3, <3>4, <3>5, <3>6 DEF RequestPermit, RequestGranted, TypeOK
  <2>4. CASE RequestGrantedInvalid(j, attempt)
    <3>1. sent' \in Seq(Message)
      BY <2>4, MessageTypes DEF RequestGrantedInvalid, Outcome
    <3>2. inWindow' \in Nat
      BY <2>4 DEF RequestGrantedInvalid, TypeOK
    <3> QED
      BY <2>4, <3>1, <3>2 DEF RequestPermit, RequestGrantedInvalid, TypeOK, permits, gate
  <2> QED
    BY <2>1, <2>2, <2>3, <2>4 DEF RequestPermit
<1>4. ASSUME NEW l \in Level, ReportQueueMetrics(l) PROVE TypeOK'
  BY <1>4 DEF ReportQueueMetrics, TypeOK, registry, permits, gate, workers
<1>5. ASSUME NEW p \in Permit, Deadline(p) PROVE TypeOK'
  <2>1. GateType'
    BY <1>5, RevokedType DEF Deadline
  <2> QED
    BY <1>5, <2>1 DEF Deadline, GateType, TypeOK, registry, permits, workers
<1>6. ASSUME NEW p \in Permit, WorkerStarts(p) PROVE TypeOK'
  <2>1. worker' \in [Permit -> WorkerState] /\ outcome' \in [Permit -> Outcome]
    BY <1>6 DEF WorkerStarts, TypeOK, WorkerState, Outcome
  <2> QED
    BY <1>6, <2>1 DEF WorkerStarts, TypeOK, registry, permits, gate
<1>7. ASSUME NEW p \in Permit, WorkerEnds(p) PROVE TypeOK'
  <2>1. worker' \in [Permit -> WorkerState] /\ outcome' \in [Permit -> Outcome]
    BY <1>7 DEF WorkerEnds, TypeOK, WorkerState, Outcome
  <2> QED
    BY <1>7, <2>1 DEF WorkerEnds, TypeOK, registry, permits, gate
<1>8. ASSUME NEW p \in Permit, WorkerReported(p) PROVE TypeOK'
  <2>1. holder[p] \in Job
    BY <1>8 DEF WorkerReported, CancelReaches, Live, TypeOK
  <2>2. sent' \in Seq(Message)
    <3>1. outcome[p] \in Outcome
      BY DEF TypeOK
    <3> QED
      BY <1>8, <2>1, <3>1, MessageTypes DEF WorkerReported
  <2>3. GateType' /\ holder' \in [Permit -> Job \cup {NoJob}] /\ cost' \in [Permit -> Nat]
    BY <1>8, EndedType DEF WorkerReported
  <2>4. /\ worker' \in [Permit -> WorkerState] /\ outcome' \in [Permit -> Outcome]
        /\ activePermitsByJob' \in [Job -> Permit \cup {NoPermit}]
    BY <1>8 DEF WorkerReported, TypeOK, WorkerState, Outcome
  <2> QED
    BY <1>8, <2>2, <2>3, <2>4 DEF WorkerReported, GateType, TypeOK
<1>9. CASE WindowSlides
  BY <1>9 DEF WindowSlides, TypeOK, registry, permits, gate, workers
<1>10. CASE Shutdown
  BY <1>10 DEF Shutdown, Running, TypeOK, registry, permits
<1>11. CASE ShutdownDone
  BY <1>11 DEF ShutdownDone, TypeOK, registry, permits, gate, workers
<1>12. CASE UNCHANGED vars
  BY <1>12 DEF TypeOK, vars, registry, permits, gate, workers
<1> QED
  BY <1>1, <1>2, <1>3, <1>4, <1>5, <1>6, <1>7, <1>8, <1>9, <1>10, <1>11, <1>12
     DEF Next, Request, Progress

-----------------------------------------------------------------------------
(* Slots. *)

\* Returning the slot of an active permit.
LEMMA SlotReturned ==
    ASSUME TypeOK, SlotsExact, NEW p \in Permit, p \in activePermits, Released(p)
    PROVE  /\ Cardinality(activePermits') = Cardinality(activePermits) - 1
           /\ activeSlots' = activeSlots - 1
<1>1. IsFiniteSet(activePermits)
  BY PermitsFinite, FS_Subset DEF TypeOK
<1>2. Cardinality(activePermits') = Cardinality(activePermits) - 1
  BY <1>1, FS_RemoveElement DEF Released
<1>3. Cardinality(activePermits) \in Nat /\ Cardinality(activePermits) # 0
  BY <1>1, FS_CardinalityType, FS_EmptySet
<1>4. activeSlots' = activeSlots - 1
  BY <1>3 DEF SlotsExact, TypeOK, Released, AtLeastZero
<1> QED
  BY <1>2, <1>4

\* Whatever ends a permit either returns its slot or leaves the slots alone.
LEMMA SlotsAfterEnd ==
    ASSUME TypeOK, SlotsExact, mode' = mode, NEW p \in Permit,
           \/ p \in activePermits /\ Released(p)
           \/ activePermits' = activePermits /\ activeSlots' = activeSlots
    PROVE  SlotsExact'
<1>1. CASE p \in activePermits /\ Released(p)
  <2>1. /\ Cardinality(activePermits') = Cardinality(activePermits) - 1
        /\ activeSlots' = activeSlots - 1
    BY <1>1, SlotReturned
  <2>2. Cardinality(activePermits) \in Nat
    BY PermitsFinite, FS_Subset, FS_CardinalityType DEF TypeOK
  <2> QED
    BY <2>1, <2>2, Limits DEF SlotsExact, TypeOK
<1>2. CASE activePermits' = activePermits /\ activeSlots' = activeSlots
  BY <1>2 DEF SlotsExact
<1> QED
  BY <1>1, <1>2

LEMMA SlotsStep == IInv /\ [Next]_vars => SlotsExact'
<1> SUFFICES ASSUME IInv, [Next]_vars PROVE SlotsExact'
  OBVIOUS
<1> USE DEF IInv
<1>1. ASSUME NEW j \in Job, SubmitJob(j) PROVE SlotsExact'
  BY <1>1 DEF SubmitJob, SlotsExact, gate
<1>2. ASSUME NEW j \in Job, CancelJob(j) PROVE SlotsExact'
  <2>1. CASE CancelUnknown(j) \/ CancelWaiting(j)
    BY <1>2, <2>1 DEF CancelJob, CancelUnknown, CancelWaiting, SlotsExact, gate
  <2>2. CASE CancelActive(j)
    <3>1. activePermitsByJob[j] \in Permit
      BY <2>2 DEF CancelActive, TypeOK
    <3> QED
      BY <1>2, <2>2, <3>1, SlotsAfterEnd DEF CancelJob, CancelActive, Revoked, gate
  <2> QED
    BY <1>2, <2>1, <2>2 DEF CancelJob
<1>3. ASSUME NEW j \in Job, NEW attempt \in Attempts, RequestPermit(j, attempt) PROVE SlotsExact'
  <2>1. CASE RequestDuplicate(j) \/ RequestRefused(j, attempt) \/ RequestGrantedInvalid(j, attempt)
    BY <1>3, <2>1
       DEF RequestPermit, RequestDuplicate, RequestRefused, RequestGrantedInvalid, SlotsExact, gate
  <2>2. ASSUME NEW p \in Permit, RequestGranted(j, attempt, p) PROVE SlotsExact'
    <3>1. p \notin activePermits
      BY <2>2 DEF RequestGranted, Linked
    <3>2. IsFiniteSet(activePermits)
      BY PermitsFinite, FS_Subset DEF TypeOK
    <3>3. Cardinality(activePermits') = Cardinality(activePermits) + 1
      BY <2>2, <3>1, <3>2, FS_AddElement DEF RequestGranted
    <3>4. Cardinality(activePermits) \in Nat
      BY <3>2, FS_CardinalityType
    <3>5. activeSlots < MaxConcurrency
      BY <2>2, Limits DEF RequestGranted, Verdict, TypeOK
    <3>6. activeSlots' = activeSlots + 1 /\ mode' = mode
      BY <1>3, <2>2 DEF RequestPermit, RequestGranted
    <3> QED
      BY <3>3, <3>4, <3>5, <3>6, Limits DEF SlotsExact, TypeOK
  <2> QED
    BY <1>3, <2>1, <2>2 DEF RequestPermit
<1>4. ASSUME NEW l \in Level, ReportQueueMetrics(l) PROVE SlotsExact'
  BY <1>4 DEF ReportQueueMetrics, SlotsExact, gate
<1>5. ASSUME NEW p \in Permit, Deadline(p) PROVE SlotsExact'
  BY <1>5, SlotsAfterEnd DEF Deadline, Revoked
<1>6. ASSUME NEW p \in Permit, WorkerStarts(p) \/ WorkerEnds(p) PROVE SlotsExact'
  BY <1>6 DEF WorkerStarts, WorkerEnds, SlotsExact, gate
<1>7. ASSUME NEW p \in Permit, WorkerReported(p) PROVE SlotsExact'
  BY <1>7, SlotsAfterEnd DEF WorkerReported, Ended
<1>8. CASE WindowSlides \/ ShutdownDone
  BY <1>8 DEF WindowSlides, ShutdownDone, SlotsExact, gate
<1>9. CASE Shutdown
  <2>1. Cardinality(activePermits') = 0 /\ activeSlots' = activeSlots /\ mode' # "serving"
    BY <1>9, FS_EmptySet DEF Shutdown
  <2> QED
    BY <2>1 DEF SlotsExact, TypeOK
<1>10. CASE UNCHANGED vars
  BY <1>10 DEF SlotsExact, vars, gate
<1> QED
  BY <1>1, <1>2, <1>3, <1>4, <1>5, <1>6, <1>7, <1>8, <1>9, <1>10 DEF Next, Request, Progress

-----------------------------------------------------------------------------
(* Cost. *)

UnitsOf(S, c) == UNION {{p} \X (1..c[p]) : p \in S}

CostIInv == IsFiniteSet(Charged) /\ CostExact

\* The units of one more permit are added to those of the others.
LEMMA UnitsAdded ==
    ASSUME NEW S \in SUBSET Permit, NEW p \in Permit, p \notin S, NEW c \in [Permit -> Nat],
           IsFiniteSet(UnitsOf(S, c))
    PROVE  /\ IsFiniteSet(UnitsOf(S \cup {p}, c))
           /\ Cardinality(UnitsOf(S \cup {p}, c)) = Cardinality(UnitsOf(S, c)) + c[p]
           /\ Cardinality(UnitsOf(S, c)) \in Nat
<1> DEFINE U == UnitsOf(S, c)
           V == {p} \X (1..c[p])
<1>1. c[p] \in Nat
  OBVIOUS
<1>2. IsFiniteSet(V) /\ Cardinality(V) = c[p]
  <2>1. IsFiniteSet({p}) /\ Cardinality({p}) = 1
    BY FS_Singleton
  <2>2. IsFiniteSet(1..c[p]) /\ Cardinality(1..c[p]) = c[p]
    BY <1>1, FS_Interval
  <2>3. IsFiniteSet(V) /\ Cardinality(V) = Cardinality({p}) * Cardinality(1..c[p])
    BY <2>1, <2>2, FS_Product
  <2> QED
    BY <1>1, <2>1, <2>2, <2>3
<1>3. UnitsOf(S \cup {p}, c) = U \cup V
  BY DEF UnitsOf
<1>4. U \cap V = {}
  <2> SUFFICES ASSUME NEW u \in U, u \in V PROVE FALSE
    OBVIOUS
  <2>1. PICK k \in S : u \in {k} \X (1..c[k])
    BY DEF UnitsOf
  <2>2. u[1] = k /\ u[1] = p
    BY <2>1
  <2> QED
    BY <2>2
<1> HIDE DEF U, V
<1>5. IsFiniteSet(U)
  BY DEF U
<1>6. /\ IsFiniteSet(U \cup V)
      /\ Cardinality(U \cup V) = Cardinality(U) + Cardinality(V) - Cardinality(U \cap V)
  BY <1>2, <1>5, FS_Union
<1>7. Cardinality(U \cap V) = 0 /\ Cardinality(U) \in Nat
  BY <1>4, <1>5, FS_EmptySet, FS_CardinalityType
<1>8. Cardinality(U \cup V) = Cardinality(U) + c[p]
  BY <1>1, <1>2, <1>6, <1>7
<1>9. U = UnitsOf(S, c)
  BY DEF U
<1> QED
  BY <1>3, <1>6, <1>7, <1>8, <1>9

\* Units are those of the permits in the set, whatever the others cost.
LEMMA UnitsSame ==
    ASSUME NEW S, NEW c, NEW d, \A p \in S : c[p] = d[p]
    PROVE  UnitsOf(S, c) = UnitsOf(S, d)
BY DEF UnitsOf

\* A degraded permit costs no more than its job.
LEMMA ChargeBound ==
    ASSUME NEW j \in Job
    PROVE  Charge(j) \in Nat /\ Charge(j) <= JobDef[j].costHint /\ JobDef[j].costHint \in Nat
<1>1. JobDef[j].costHint \in Nat
  BY JobsDefined DEF JobDefType
<1> QED
  BY <1>1 DEF Charge, HalvedUp

\* Whatever ends a permit either returns what it was charged or leaves the books alone.
LEMMA CostAfterEnd ==
    ASSUME TypeOK, CostIInv, mode' = mode, NEW p \in Permit,
           \/ p \in activePermits /\ Released(p)
           \/ p \notin activePermits /\ activePermits' = activePermits /\ cumulativeCost' = cumulativeCost,
           \A k \in Permit : k # p => cost'[k] = cost[k]
    PROVE  CostIInv'
<1>1. Charged = UnitsOf(activePermits, cost) /\ Charged' = UnitsOf(activePermits', cost')
  BY DEF Charged, UnitsOf
<1>2. cost \in [Permit -> Nat] /\ activePermits \subseteq Permit /\ cumulativeCost \in Nat
  BY DEF TypeOK
<1>3. IsFiniteSet(Charged) /\ Cardinality(Charged) \in Nat /\ CostExact
  BY FS_CardinalityType DEF CostIInv
<1>4. CASE p \in activePermits /\ Released(p)
  <2> DEFINE S == activePermits \ {p}
  <2>1. activePermits' = S /\ cumulativeCost' = AtLeastZero(cumulativeCost - cost[p])
    BY <1>4 DEF Released
  <2>2. S \in SUBSET Permit /\ p \notin S /\ S \cup {p} = activePermits
    BY <1>2, <1>4
  <2>3. UnitsOf(S, cost') = UnitsOf(S, cost)
    <3>1. \A k \in S : cost'[k] = cost[k]
      BY <2>2
    <3> QED
      BY <3>1, UnitsSame
  <2>4. IsFiniteSet(UnitsOf(S, cost))
    <3>1. UnitsOf(S, cost) \in SUBSET UnitsOf(activePermits, cost)
      BY <2>2 DEF UnitsOf
    <3> QED
      BY <1>1, <1>3, <3>1, FS_Subset
  <2> HIDE DEF S
  <2>5. /\ Cardinality(Charged) = Cardinality(UnitsOf(S, cost)) + cost[p]
        /\ Cardinality(UnitsOf(S, cost)) \in Nat
    BY <1>1, <1>2, <2>2, <2>4, UnitsAdded
  <2>6. Charged' = UnitsOf(S, cost)
    BY <1>1, <2>1, <2>3
  <2>7. cost[p] \in Nat /\ cost[p] <= cumulativeCost
    BY <1>2, <1>3, <2>5 DEF CostExact
  <2>8. cumulativeCost' = cumulativeCost - cost[p]
    BY <1>2, <2>1, <2>7 DEF AtLeastZero
  <2>9. IsFiniteSet(Charged')
    BY <2>4, <2>6
  <2>10. CostExact'
    BY <1>2, <1>3, <2>5, <2>6, <2>7, <2>8, Limits DEF CostExact
  <2> QED
    BY <2>9, <2>10 DEF CostIInv
<1>5. CASE p \notin activePermits /\ activePermits' = activePermits /\ cumulativeCost' = cumulativeCost
  <2>1. \A k \in activePermits : cost'[k] = cost[k]
    BY <1>2, <1>5
  <2>2. Charged' = Charged
    BY <1>1, <1>5, <2>1, UnitsSame
  <2> QED
    BY <1>5, <2>2 DEF CostIInv, CostExact
<1> QED
  BY <1>4, <1>5

LEMMA CostStays ==
    ASSUME CostIInv, activePermits' = activePermits, cost' = cost,
           cumulativeCost' = cumulativeCost, mode' = "serving" => mode = "serving"
    PROVE  CostIInv'
<1>1. Charged' = Charged
  BY DEF Charged
<1> QED
  BY <1>1 DEF CostIInv, CostExact

LEMMA CostStep == IInv /\ CostIInv /\ [Next]_vars => CostIInv'
<1> SUFFICES ASSUME IInv, CostIInv, [Next]_vars PROVE CostIInv'
  OBVIOUS
<1>0. TypeOK /\ Linked
  BY DEF IInv
<1>1. ASSUME NEW j \in Job, SubmitJob(j) PROVE CostIInv'
  BY <1>1, CostStays DEF SubmitJob, gate, permits
<1>2. ASSUME NEW j \in Job, CancelJob(j) PROVE CostIInv'
  <2>1. mode' = mode /\ cost' = cost
    BY <1>2 DEF CancelJob, permits
  <2>2. CASE CancelUnknown(j) \/ CancelWaiting(j)
    BY <2>1, <2>2, CostStays DEF CancelUnknown, CancelWaiting, gate
  <2>3. CASE CancelActive(j)
    <3>1. activePermitsByJob[j] \in Permit
      BY <1>0, <2>3 DEF CancelActive, TypeOK
    <3> QED
      BY <1>0, <2>1, <2>3, <3>1, CostAfterEnd DEF CancelActive, Revoked, gate
  <2> QED
    BY <1>2, <2>2, <2>3 DEF CancelJob
<1>3. ASSUME NEW j \in Job, NEW attempt \in Attempts, RequestPermit(j, attempt) PROVE CostIInv'
  <2>0. mode' = mode
    BY <1>3 DEF RequestPermit
  <2>1. CASE RequestDuplicate(j) \/ RequestRefused(j, attempt) \/ RequestGrantedInvalid(j, attempt)
    BY <2>0, <2>1, CostStays
       DEF RequestDuplicate, RequestRefused, RequestGrantedInvalid, gate, permits
  <2>2. ASSUME NEW p \in Permit, RequestGranted(j, attempt, p) PROVE CostIInv'
    <3>1. /\ p \notin activePermits /\ activePermits' = activePermits \cup {p}
          /\ cost' = [cost EXCEPT ![p] = Charge(j)] /\ cumulativeCost' = cumulativeCost + Charge(j)
          /\ Verdict(j, attempt) = "GRANTED"
      BY <1>0, <2>2 DEF RequestGranted, Linked
    <3>2. Charge(j) \in Nat /\ Charge(j) <= JobDef[j].costHint /\ JobDef[j].costHint \in Nat
      BY ChargeBound
    <3>3. cost \in [Permit -> Nat] /\ activePermits \subseteq Permit /\ cumulativeCost \in Nat
      BY <1>0 DEF TypeOK
    <3>4. cumulativeCost + JobDef[j].costHint <= MaxCost
      BY <3>1, <3>2, <3>3, Limits DEF Verdict
    <3>5. cost' \in [Permit -> Nat] /\ cost'[p] = Charge(j) /\ \A k \in activePermits : cost'[k] = cost[k]
      BY <3>1, <3>2, <3>3
    <3>6. Charged = UnitsOf(activePermits, cost') /\ Charged' = UnitsOf(activePermits \cup {p}, cost')
      <4>1. UnitsOf(activePermits, cost') = UnitsOf(activePermits, cost)
        BY <3>5, UnitsSame
      <4>2. Charged = UnitsOf(activePermits, cost) /\ Charged' = UnitsOf(activePermits', cost')
        BY DEF Charged, UnitsOf
      <4> QED
        BY <3>1, <4>1, <4>2
    <3>7. IsFiniteSet(UnitsOf(activePermits, cost'))
      BY <3>6 DEF CostIInv
    <3>8. /\ IsFiniteSet(Charged') /\ Cardinality(Charged') = Cardinality(Charged) + Charge(j)
          /\ Cardinality(Charged) \in Nat
      <4>1. /\ IsFiniteSet(UnitsOf(activePermits \cup {p}, cost'))
            /\ Cardinality(UnitsOf(activePermits \cup {p}, cost'))
                 = Cardinality(UnitsOf(activePermits, cost')) + cost'[p]
            /\ Cardinality(UnitsOf(activePermits, cost')) \in Nat
        BY <3>1, <3>3, <3>5, <3>7, UnitsAdded
      <4> QED
        BY <3>5, <3>6, <4>1
    <3>9. CostExact
      BY DEF CostIInv
    <3>10. CostExact'
      BY <2>0, <3>1, <3>2, <3>3, <3>4, <3>8, <3>9, Limits DEF CostExact
    <3> QED
      BY <3>8, <3>10 DEF CostIInv
  <2> QED
    BY <1>3, <2>1, <2>2 DEF RequestPermit
<1>4. ASSUME NEW l \in Level, ReportQueueMetrics(l) PROVE CostIInv'
  BY <1>4, CostStays DEF ReportQueueMetrics, gate, permits
<1>5. ASSUME NEW p \in Permit, Deadline(p) PROVE CostIInv'
  BY <1>0, <1>5, CostAfterEnd DEF Deadline, Revoked, permits
<1>6. ASSUME NEW p \in Permit, WorkerStarts(p) \/ WorkerEnds(p) PROVE CostIInv'
  BY <1>6, CostStays DEF WorkerStarts, WorkerEnds, gate, permits
<1>7. ASSUME NEW p \in Permit, WorkerReported(p) PROVE CostIInv'
  <2>1. mode' = mode /\ Ended(p)
    BY <1>7 DEF WorkerReported
  <2>2. \A k \in Permit : k # p => cost'[k] = cost[k]
    BY <1>0, <2>1 DEF Ended, TypeOK
  <2> QED
    BY <1>0, <2>1, <2>2, CostAfterEnd DEF Ended
<1>8. CASE WindowSlides \/ ShutdownDone
  BY <1>8, CostStays DEF WindowSlides, ShutdownDone, gate, permits
<1>9. CASE Shutdown
  <2>1. Charged' = {} /\ cumulativeCost' = cumulativeCost /\ mode' # "serving"
    BY <1>9 DEF Shutdown, Charged
  <2>2. cumulativeCost \in Nat
    BY <1>0 DEF TypeOK
  <2>3. IsFiniteSet(Charged') /\ Cardinality(Charged') = 0
    BY <2>1, FS_EmptySet
  <2> QED
    BY <2>1, <2>2, <2>3 DEF CostIInv, CostExact
<1>10. CASE UNCHANGED vars
  BY <1>10, CostStays DEF vars, gate, permits
<1> QED
  BY <1>1, <1>2, <1>3, <1>4, <1>5, <1>6, <1>7, <1>8, <1>9, <1>10 DEF Next, Request, Progress

-----------------------------------------------------------------------------
(* Jobs, permits and workers. *)

Reachable == CancelReaches /\ Linked

\* A permit that is revoked stays with its job; its signal has fired.
LEMMA RevokedReachable ==
    ASSUME IInv, NEW p \in Permit, Revoked(p), holder[p] # NoJob,
           UNCHANGED <<jobs, activePermitsByJob, holder, worker>>
    PROVE  Reachable'
<1>1. \A q \in Permit : q \in activePermits \/ q \in aborted =>
          q \in activePermits' \/ q \in aborted'
  BY DEF Revoked, Released, gate
<1>2. \A q \in Permit : q \in activePermits' \/ q \in aborted' =>
          q \in activePermits \/ q \in aborted
  BY DEF Revoked, Released, gate
<1>3. CancelReaches'
  BY <1>1 DEF IInv, CancelReaches, Live
<1>4. Linked'
  BY <1>2 DEF IInv, Linked, Live
<1> QED
  BY <1>3, <1>4 DEF Reachable

LEMMA GrantedReachable ==
    ASSUME IInv, NEW j \in Job, NEW attempt, NEW p \in Permit, RequestGranted(j, attempt, p)
    PROVE  Reachable'
<1>1. p \notin activePermits /\ p \notin aborted /\ ~Live(p)
  BY DEF IInv, Linked, RequestGranted
<1>2. /\ holder' = [holder EXCEPT ![p] = j]
      /\ activePermitsByJob' = [activePermitsByJob EXCEPT ![j] = p]
      /\ jobs' = jobs \cup {j}
      /\ activePermits' = activePermits \cup {p}
      /\ aborted' = aborted
      /\ \A q \in Permit \ {p} : worker'[q] = worker[q]
  BY DEF RequestGranted, IInv, TypeOK
<1>3. activePermitsByJob[j] = NoPermit
  BY DEF RequestGranted
<1>4. \A q \in Permit : holder[q] # NoJob => holder[q] \in Job
  BY DEF IInv, TypeOK
<1>5. CancelReaches'
  <2> SUFFICES ASSUME NEW q \in Permit, Live(q)'
               PROVE  /\ holder'[q] \in jobs'
                      /\ activePermitsByJob'[holder'[q]] = q
                      /\ q \in activePermits' \/ q \in aborted'
    BY DEF CancelReaches
  <2>1. CASE q = p
    BY <1>2, <2>1 DEF IInv, TypeOK
  <2>2. CASE q # p
    <3>1. Live(q)
      BY <1>2, <2>2 DEF Live
    <3>2. /\ holder[q] \in jobs
          /\ activePermitsByJob[holder[q]] = q
          /\ q \in activePermits \/ q \in aborted
      BY <3>1 DEF IInv, CancelReaches
    <3>3. holder[q] # j
      BY <1>3, <3>2, Markers
    <3> QED
      BY <1>2, <2>2, <3>2, <3>3 DEF IInv, TypeOK
  <2> QED
    BY <2>1, <2>2
<1>6. Linked'
  <2>1. \A i \in Job : activePermitsByJob'[i] # NoPermit => holder'[activePermitsByJob'[i]] = i
    <3> SUFFICES ASSUME NEW i \in Job, activePermitsByJob'[i] # NoPermit
                 PROVE  holder'[activePermitsByJob'[i]] = i
      OBVIOUS
    <3>1. CASE i = j
      BY <1>2, <3>1 DEF IInv, TypeOK
    <3>2. CASE i # j
      <4>1. activePermitsByJob'[i] = activePermitsByJob[i] /\ activePermitsByJob[i] \in Permit
        BY <1>2, <3>2 DEF IInv, TypeOK
      <4>2. holder[activePermitsByJob[i]] = i
        BY <4>1, Markers DEF IInv, Linked
      <4>3. activePermitsByJob[i] # p
        BY <4>2, Markers DEF RequestGranted
      <4> QED
        BY <1>2, <4>1, <4>2, <4>3 DEF IInv, TypeOK
    <3> QED
      BY <3>1, <3>2
  <2>2. \A q \in Permit : holder'[q] = NoJob =>
           q \notin activePermits' /\ q \notin aborted' /\ ~Live(q)'
    <3> SUFFICES ASSUME NEW q \in Permit, holder'[q] = NoJob
                 PROVE  q \notin activePermits' /\ q \notin aborted' /\ ~Live(q)'
      OBVIOUS
    <3>1. q # p
      BY <1>2, Markers DEF IInv, TypeOK
    <3>2. holder[q] = NoJob
      BY <1>2, <3>1 DEF IInv, TypeOK
    <3> QED
      BY <1>2, <3>1, <3>2 DEF IInv, Linked, Live
  <2> QED
    BY <2>1, <2>2 DEF Linked
<1> QED
  BY <1>5, <1>6 DEF Reachable

LEMMA ReportedReachable ==
    ASSUME IInv, NEW p \in Permit, WorkerReported(p)
    PROVE  Reachable'
<1> DEFINE j == holder[p]
<1>1. j \in Job /\ activePermitsByJob[j] = p
  BY DEF WorkerReported, IInv, CancelReaches, Live, TypeOK
<1>2. /\ holder' = [holder EXCEPT ![p] = NoJob]
      /\ activePermitsByJob' = [activePermitsByJob EXCEPT ![j] = NoPermit]
      /\ jobs' = jobs \ {j}
      /\ activePermits' = activePermits \ {p}
      /\ aborted' = aborted \ {p}
      /\ worker' = [worker EXCEPT ![p] = "none"]
  BY DEF WorkerReported, Ended, Released
<1> HIDE DEF j
<1>3. CancelReaches'
  <2> SUFFICES ASSUME NEW q \in Permit, Live(q)'
               PROVE  /\ holder'[q] \in jobs'
                      /\ activePermitsByJob'[holder'[q]] = q
                      /\ q \in activePermits' \/ q \in aborted'
    BY DEF CancelReaches
  <2>1. q # p /\ Live(q)
    BY <1>2 DEF Live, IInv, TypeOK
  <2>2. /\ holder[q] \in jobs
        /\ activePermitsByJob[holder[q]] = q
        /\ q \in activePermits \/ q \in aborted
    BY <2>1 DEF IInv, CancelReaches
  <2>3. holder[q] # j
    BY <1>1, <2>1, <2>2
  <2> QED
    BY <1>2, <2>1, <2>2, <2>3 DEF IInv, TypeOK
<1>4. Linked'
  <2>1. \A i \in Job : activePermitsByJob'[i] # NoPermit => holder'[activePermitsByJob'[i]] = i
    <3> SUFFICES ASSUME NEW i \in Job, activePermitsByJob'[i] # NoPermit
                 PROVE  holder'[activePermitsByJob'[i]] = i
      OBVIOUS
    <3>1. i # j /\ activePermitsByJob'[i] = activePermitsByJob[i]
      BY <1>2 DEF IInv, TypeOK
    <3>2. holder[activePermitsByJob[i]] = i
      BY <3>1 DEF IInv, Linked
    <3>3. activePermitsByJob[i] # p
      BY <3>1, <3>2 DEF j
    <3> QED
      BY <1>2, <3>1, <3>2, <3>3 DEF IInv, TypeOK
  <2>2. \A q \in Permit : holder'[q] = NoJob =>
           q \notin activePermits' /\ q \notin aborted' /\ ~Live(q)'
    BY <1>2 DEF IInv, TypeOK, Linked, Live
  <2> QED
    BY <2>1, <2>2 DEF Linked
<1> QED
  BY <1>3, <1>4 DEF Reachable

LEMMA ReachableStep == IInv /\ [Next]_vars => Reachable'
<1> SUFFICES ASSUME IInv, [Next]_vars PROVE Reachable'
  OBVIOUS
<1>1. ASSUME NEW j \in Job, SubmitJob(j) PROVE Reachable'
  BY <1>1 DEF SubmitJob, IInv, Reachable, CancelReaches, Linked, Live, permits, gate, workers
<1>2. ASSUME NEW j \in Job, CancelJob(j) PROVE Reachable'
  <2>1. CASE CancelUnknown(j)
    BY <1>2, <2>1 DEF CancelJob, CancelUnknown, IInv, Reachable, CancelReaches, Linked, Live,
                      registry, permits, gate, workers
  <2>2. CASE CancelActive(j)
    <3>1. activePermitsByJob[j] \in Permit /\ holder[activePermitsByJob[j]] # NoJob
      BY <2>2, Markers DEF CancelActive, IInv, TypeOK, Linked
    <3> QED
      BY <1>2, <2>2, <3>1, RevokedReachable DEF CancelJob, CancelActive, registry, permits, workers
  <2>3. CASE CancelWaiting(j)
    <3>1. \A q \in Permit : Live(q) => holder[q] # j
      BY <2>3, Markers DEF CancelWaiting, IInv, CancelReaches
    <3> QED
      BY <1>2, <2>3, <3>1 DEF CancelJob, CancelWaiting, IInv, Reachable, CancelReaches, Linked, Live,
                              permits, gate, workers
  <2> QED
    BY <1>2, <2>1, <2>2, <2>3 DEF CancelJob
<1>3. ASSUME NEW j \in Job, NEW attempt \in Attempts, RequestPermit(j, attempt) PROVE Reachable'
  <2>1. CASE RequestDuplicate(j) \/ RequestRefused(j, attempt)
    BY <2>1 DEF RequestDuplicate, RequestRefused, IInv, Reachable, CancelReaches, Linked, Live,
                permits, gate
  <2>2. ASSUME NEW p \in Permit, RequestGranted(j, attempt, p) PROVE Reachable'
    BY <2>2, GrantedReachable
  <2>3. CASE RequestGrantedInvalid(j, attempt)
    <3>1. \A q \in Permit : Live(q) => holder[q] # j
      BY <2>3, Markers DEF RequestGrantedInvalid, IInv, CancelReaches
    <3> QED
      BY <2>3, <3>1 DEF RequestGrantedInvalid, IInv, Reachable, CancelReaches, Linked, Live,
                        permits, gate
  <2> QED
    BY <1>3, <2>1, <2>2, <2>3 DEF RequestPermit
<1>4. ASSUME NEW p \in Permit, Deadline(p) PROVE Reachable'
  <2>1. holder[p] # NoJob
    BY <1>4 DEF Deadline, IInv, Linked
  <2> QED
    BY <1>4, <2>1, RevokedReachable DEF Deadline, registry, permits, workers
<1>5. ASSUME NEW p \in Permit, WorkerStarts(p) \/ WorkerEnds(p) PROVE Reachable'
  <2>1. \A q \in Permit : Live(q)' <=> Live(q)
    BY <1>5 DEF WorkerStarts, WorkerEnds, Live, IInv, TypeOK
  <2>2. UNCHANGED <<jobs, activePermitsByJob, holder, activePermits, aborted>>
    BY <1>5 DEF WorkerStarts, WorkerEnds, registry, permits, gate
  <2> QED
    BY <2>1, <2>2 DEF IInv, Reachable, CancelReaches, Linked
<1>6. ASSUME NEW p \in Permit, WorkerReported(p) PROVE Reachable'
  BY <1>6, ReportedReachable
<1>7. ASSUME NEW l \in Level, ReportQueueMetrics(l) PROVE Reachable'
  BY <1>7 DEF ReportQueueMetrics, IInv, Reachable, CancelReaches, Linked, Live,
              registry, permits, gate, workers
<1>8. CASE WindowSlides \/ ShutdownDone
  BY <1>8 DEF WindowSlides, ShutdownDone, IInv, Reachable, CancelReaches, Linked, Live,
              registry, permits, gate, workers
<1>9. CASE Shutdown
  BY <1>9 DEF Shutdown, IInv, Reachable, CancelReaches, Linked, Live, registry, permits
<1>10. CASE UNCHANGED vars
  BY <1>10 DEF IInv, Reachable, CancelReaches, Linked, Live, vars, registry, permits, gate, workers
<1> QED
  BY <1>1, <1>2, <1>3, <1>4, <1>5, <1>6, <1>7, <1>8, <1>9, <1>10 DEF Next, Request, Progress

-----------------------------------------------------------------------------
(* The theorems. *)

LEMMA InitIInv == Init => IInv
<1> SUFFICES ASSUME Init PROVE IInv
  OBVIOUS
<1>1. TypeOK
  BY TypeInit
<1>2. SlotsExact
  BY FS_EmptySet, Limits DEF Init, SlotsExact
<1>3. CancelReaches /\ Linked
  BY DEF Init, CancelReaches, Linked, Live
<1> QED
  BY <1>1, <1>2, <1>3 DEF IInv

LEMMA StepIInv == IInv /\ [Next]_vars => IInv'
BY TypeStep, SlotsStep, ReachableStep DEF IInv, Reachable

LEMMA Inductive == Spec => []IInv
BY InitIInv, StepIInv, PTL DEF Spec

\* Every variable of the Core stays in its range, for any jobs and any budget.
THEOREM CoreTypeCorrect == Spec => []TypeOK
<1>1. IInv => TypeOK
  BY DEF IInv
<1> QED
  BY <1>1, Inductive, PTL

\* Results, cancellations and deadlines in any order, two of them for the same
\* permit included, return every slot of the budget exactly once.
THEOREM SlotsAlwaysExact == Spec => []SlotsExact
<1>1. IInv => SlotsExact
  BY DEF IInv
<1> QED
  BY <1>1, Inductive, PTL

\* Every unit of cost that is charged belongs to an active permit and is returned
\* with it once, however the level changes in between, and the budget is kept.
THEOREM CostAlwaysExact == Spec => []CostExact
<1>1. Init => CostIInv
  <2> SUFFICES ASSUME Init PROVE CostIInv
    OBVIOUS
  <2>1. Charged = {} /\ cumulativeCost = 0
    BY DEF Init, Charged
  <2> QED
    BY <2>1, FS_EmptySet, Limits DEF CostIInv, CostExact
<1>2. IInv /\ CostIInv /\ [Next]_vars => CostIInv'
  BY CostStep
<1>3. CostIInv => CostExact
  BY DEF CostIInv
<1> QED
  BY <1>1, <1>2, <1>3, Inductive, PTL DEF Spec

\* A worker is always reachable through its job until its result is handled.
THEOREM CancelAlwaysReaches == Spec => []CancelReaches
<1>1. IInv => CancelReaches
  BY DEF IInv
<1> QED
  BY <1>1, Inductive, PTL

\* No two workers of the same job are alive at once, whatever is requested,
\* cancelled and requested again.
THEOREM OneWorkerPerJob ==
    Spec => [](\A p, q \in Permit : Live(p) /\ Live(q) /\ holder[p] = holder[q] => p = q)
<1>1. CancelReaches => \A p, q \in Permit : Live(p) /\ Live(q) /\ holder[p] = holder[q] => p = q
  BY DEF CancelReaches
<1> QED
  BY <1>1, CancelAlwaysReaches, PTL
=============================================================================
