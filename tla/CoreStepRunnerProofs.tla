------------------------ MODULE CoreStepRunnerProofs ------------------------
(***************************************************************************)
(* The composition with the runner is the Core under some sequence of      *)
(* requests: what AgentCoreProofs shows for any client holds for this one. *)
(* The only thing to show is that every message the Core reads is a        *)
(* request about a job, which is the runner's type invariant.              *)
(*                                                                         *)
(* What a run leaves behind takes a strengthening, RunsSound: a run has    *)
(* one request open at a time, an answer says what the Core has done, and  *)
(* a run that was given up has either a cancel_job as its last word on the *)
(* channel or nothing left in the Core.                                    *)
(*                                                                         *)
(* The completion checks of the same runners are shown apart, after that,  *)
(* and last the link that the channels between runner and Core stand for.  *)
(***************************************************************************)
EXTENDS CoreStepRunner, CompletionCheck, Channel, AgentCoreProofs, SequenceTheorems

RunnerIInv == RunnerTypeOK /\ IInv

LEMMA RequestMessages ==
    ASSUME NEW j \in Job
    PROVE  \A t \in {"submit_job", "request_permit", "cancel_job"} : Plain(t, j) \in RequestMessage
BY DEF Plain, RequestMessage

\* What a run writes is a request.
LEMMA WritesType ==
    ASSUME RunnerTypeOK, NEW j \in Job,
           NEW t \in {"submit_job", "request_permit", "cancel_job"}, Writes(t, j)
    PROVE  toCore' \in Seq(RequestMessage)
<1>1. Plain(t, j) \in RequestMessage
  BY RequestMessages
<1> QED
  BY <1>1 DEF Writes, RunnerTypeOK

LEMMA IssuesCancelType ==
    ASSUME RunnerTypeOK, NEW j \in Job, IssuesCancel(j)
    PROVE  toCore' \in Seq(RequestMessage) /\ cancelIssued' \subseteq Job
<1>1. toCore' \in Seq(RequestMessage)
  BY WritesType DEF IssuesCancel, RunnerTypeOK
<1>2. cancelIssued' \subseteq Job
  BY DEF IssuesCancel, RunnerTypeOK
<1> QED
  BY <1>1, <1>2

LEMMA MovesType ==
    ASSUME RunnerTypeOK, NEW j, NEW p \in Phase, Moves(j, p)
    PROVE  phase' \in [Job -> Phase]
BY DEF RunnerTypeOK, Moves

LEMMA GivesUpType ==
    ASSUME RunnerTypeOK, NEW j \in Job, GivesUp(j)
    PROVE  toCore' \in Seq(RequestMessage) /\ phase' \in [Job -> Phase]
<1>1. toCore' \in Seq(RequestMessage)
  BY WritesType DEF GivesUp
<1>2. phase' \in [Job -> Phase]
  BY DEF GivesUp, Moves, RunnerTypeOK, Phase
<1> QED
  BY <1>1, <1>2

LEMMA AsksForPermitType ==
    ASSUME RunnerTypeOK, NEW j \in Job, AsksForPermit(j)
    PROVE  toCore' \in Seq(RequestMessage) /\ phase' \in [Job -> Phase]
<1>1. CASE j \in late \/ ~linkUp
  BY <1>1, GivesUpType DEF AsksForPermit
<1>2. CASE ~(j \in late \/ ~linkUp)
  <2>1. Writes("request_permit", j) /\ Moves(j, "requesting")
    BY <1>2 DEF AsksForPermit
  <2> QED
    BY <2>1, WritesType, MovesType DEF Phase
<1> QED
  BY <1>1, <1>2

\* An answer moves a run on, or is dropped.
LEMMA AnsweredType ==
    ASSUME RunnerTypeOK, NEW m \in Message, Answered(m)
    PROVE  toCore' \in Seq(RequestMessage) /\ phase' \in [Job -> Phase]
<1>1. m.job \in Job
  BY DEF Message
<1>2. \/ AsksForPermit(m.job)
      \/ GivesUp(m.job)
      \/ \E p \in {"executing", "backoff", "returned"} : Moves(m.job, p) /\ UNCHANGED toCore
      \/ UNCHANGED <<phase, toCore>>
  BY DEF Answered
<1>3. CASE AsksForPermit(m.job)
  BY <1>1, <1>3, AsksForPermitType
<1>4. CASE GivesUp(m.job)
  BY <1>1, <1>4, GivesUpType
<1>5. CASE \E p \in {"executing", "backoff", "returned"} : Moves(m.job, p) /\ UNCHANGED toCore
  BY <1>5, MovesType DEF Phase, RunnerTypeOK
<1>6. CASE UNCHANGED <<phase, toCore>>
  BY <1>6 DEF RunnerTypeOK
<1> QED
  BY <1>2, <1>3, <1>4, <1>5, <1>6

-----------------------------------------------------------------------------
LEMMA RunnerTurnType == RunnerTypeOK /\ RunnerTurn => RunnerTypeOK'
<1> SUFFICES ASSUME RunnerTypeOK, RunnerTurn PROVE RunnerTypeOK'
  OBVIOUS
<1>1. ASSUME NEW j \in Job, Start(j) PROVE RunnerTypeOK'
  <2>1. CASE j \in stepAborted
    <3>1. IssuesCancel(j) /\ Moves(j, "returned")
      BY <1>1, <2>1 DEF Start
    <3>2. phase' \in [Job -> Phase]
      BY <3>1, MovesType DEF Phase
    <3> QED
      BY <1>1, <3>1, <3>2, IssuesCancelType DEF Start, RunnerTypeOK
  <2>2. CASE j \notin stepAborted
    <3>1. toCore' \in Seq(RequestMessage)
      BY <1>1, <2>2, WritesType DEF Start
    <3>2. phase' \in [Job -> Phase]
      BY <1>1, <2>2 DEF Start, Moves, Phase, RunnerTypeOK
    <3> QED
      BY <1>1, <2>2, <3>1, <3>2 DEF Start, RunnerTypeOK
  <2> QED
    BY <2>1, <2>2
<1>2. ASSUME NEW j \in Job, StepAbort(j) PROVE RunnerTypeOK'
  <2>1. toCore' \in Seq(RequestMessage) /\ cancelIssued' \subseteq Job
    BY <1>2, IssuesCancelType DEF StepAbort, RunnerTypeOK
  <2>2. phase' \in [Job -> Phase]
    BY <1>2 DEF StepAbort, Moves, Phase, RunnerTypeOK
  <2> QED
    BY <1>2, <2>1, <2>2 DEF StepAbort, RunnerTypeOK
<1>3. ASSUME NEW j \in Job, DeadlinePasses(j) PROVE RunnerTypeOK'
  <2>1. toCore' \in Seq(RequestMessage) /\ cancelIssued' \subseteq Job
    BY <1>3, IssuesCancelType DEF DeadlinePasses, RunnerTypeOK
  <2>2. phase' \in [Job -> Phase]
    BY <1>3 DEF DeadlinePasses, Moves, Phase, RunnerTypeOK
  <2> QED
    BY <1>3, <2>1, <2>2 DEF DeadlinePasses, RunnerTypeOK
<1>4. ASSUME NEW j \in Job, BackoffOver(j) PROVE RunnerTypeOK'
  <2>1. toCore' \in Seq(RequestMessage) /\ phase' \in [Job -> Phase]
    BY <1>4, AsksForPermitType DEF BackoffOver
  <2> QED
    BY <1>4, <2>1 DEF BackoffOver, RunnerTypeOK
<1>5. ASSUME NEW j \in Job, GraceOver(j) PROVE RunnerTypeOK'
  <2>1. phase' \in [Job -> Phase]
    BY <1>5, MovesType DEF GraceOver, Phase
  <2> QED
    BY <1>5, <2>1 DEF GraceOver, RunnerTypeOK, channels
<1>6. ASSUME NEW j \in Job, RequestTimeout(j) PROVE RunnerTypeOK'
  <2>1. toCore' \in Seq(RequestMessage) /\ phase' \in [Job -> Phase]
    <3>1. CASE Moves(j, "returned") /\ UNCHANGED toCore
      BY <3>1, MovesType DEF Phase, RunnerTypeOK
    <3>2. CASE GivesUp(j)
      BY <3>2, GivesUpType
    <3> QED
      BY <1>6, <3>1, <3>2 DEF RequestTimeout
  <2>2. unconfirmed' \subseteq Job
    BY <1>6 DEF RequestTimeout, RunnerTypeOK
  <2> QED
    BY <1>6, <2>1, <2>2 DEF RequestTimeout, RunnerTypeOK
<1>7. CASE RunnerReceives
  <2> DEFINE m == Head(toRunner)
  <2>1. m \in Message /\ toRunner' \in Seq(Message)
    BY <1>7 DEF RunnerReceives, RunnerTypeOK
  <2>2. m.job \in Job
    BY <2>1 DEF Message
  <2>3. /\ toCore' \in Seq(RequestMessage)
        /\ phase' \in [Job -> Phase]
        /\ cancelIssued' \subseteq Job
    <3>1. CASE GrantedLate(m)
      <4>1. IssuesCancel(m.job) /\ Moves(m.job, "grace")
        BY <1>7, <3>1 DEF RunnerReceives
      <4>2. phase' \in [Job -> Phase]
        BY <4>1, MovesType DEF Phase
      <4> QED
        BY <2>2, <4>1, <4>2, IssuesCancelType
    <3>2. CASE ~GrantedLate(m)
      <4>1. Answered(m) /\ UNCHANGED cancelIssued
        BY <1>7, <3>2 DEF RunnerReceives
      <4>2. toCore' \in Seq(RequestMessage) /\ phase' \in [Job -> Phase]
        BY <2>1, <4>1, AnsweredType
      <4> QED
        BY <4>1, <4>2 DEF RunnerTypeOK
    <3> QED
      BY <3>1, <3>2
  <2> QED
    BY <1>7, <2>1, <2>3 DEF RunnerReceives, RunnerTypeOK
<1>8. CASE LinkCloses
  <2>1. phase' \in [Job -> Phase]
    BY <1>8 DEF LinkCloses, RunnerTypeOK, Phase
  <2>2. unconfirmed' \subseteq Job
    BY <1>8 DEF LinkCloses, RunnerTypeOK
  <2>3. toCore' \in Seq(RequestMessage)
    BY <1>8 DEF LinkCloses
  <2>4. linkUp' \in BOOLEAN
    BY <1>8 DEF LinkCloses
  <2> QED
    BY <1>8, <2>1, <2>2, <2>3, <2>4 DEF LinkCloses, RunnerTypeOK
<1> QED
  BY <1>1, <1>2, <1>3, <1>4, <1>5, <1>6, <1>7, <1>8 DEF RunnerTurn

\* A message the Core reads is one of its requests.
LEMMA ReceivesRequest == RunnerTypeOK /\ CoreReceives => Request
<1> SUFFICES ASSUME RunnerTypeOK, CoreReceives PROVE Request
  OBVIOUS
<1> DEFINE m == Head(toCore)
<1>1. m \in RequestMessage /\ Handles(m)
  BY DEF CoreReceives, RunnerTypeOK
<1>2. m.job \in Job /\ 0 \in Attempts
  BY <1>1 DEF RequestMessage, Attempts
<1> QED
  BY <1>1, <1>2 DEF Handles, Request

LEMMA RunnerStepIsCoreStep == RunnerTypeOK /\ [RunnerNext]_allVars => [Next]_vars
BY ReceivesRequest DEF RunnerNext, RunnerTurn, CoreProceeds, Next, allVars

LEMMA CoreTurnType ==
    ASSUME RunnerTypeOK, TypeOK', CoreReceives \/ CoreProceeds
    PROVE  RunnerTypeOK'
<1>1. sent' \in Seq(Message)
  BY DEF TypeOK
<1>2. toRunner' \in Seq(Message)
  <2>1. toRunner' = toRunner \o sent'
    BY DEF CoreReceives, CoreProceeds
  <2>2. toRunner \in Seq(Message)
    BY DEF RunnerTypeOK
  <2> QED
    BY <1>1, <2>1, <2>2
<1>3. toCore' \in Seq(RequestMessage)
  <2>1. toCore \in Seq(RequestMessage)
    BY DEF RunnerTypeOK
  <2>2. toCore' = toCore \/ (toCore # << >> /\ toCore' = Tail(toCore))
    BY DEF CoreReceives, CoreProceeds
  <2> QED
    BY <2>1, <2>2
<1> QED
  BY <1>2, <1>3 DEF CoreReceives, CoreProceeds, RunnerTypeOK, runs

LEMMA RunnerInductive == RunnerSpec => []RunnerIInv
<1>1. Init /\ RunnerInit => RunnerIInv
  <2> SUFFICES ASSUME Init, RunnerInit PROVE RunnerIInv
    OBVIOUS
  <2>1. RunnerTypeOK
    BY DEF RunnerInit, RunnerTypeOK, Phase
  <2> QED
    BY <2>1, InitIInv DEF RunnerIInv
<1>2. RunnerIInv /\ [RunnerNext]_allVars => RunnerIInv'
  <2> SUFFICES ASSUME RunnerIInv, [RunnerNext]_allVars PROVE RunnerIInv'
    OBVIOUS
  <2>1. IInv'
    BY RunnerStepIsCoreStep, StepIInv DEF RunnerIInv
  <2>2. RunnerTypeOK'
    <3>1. CASE RunnerTurn
      BY <3>1, RunnerTurnType DEF RunnerIInv
    <3>2. CASE CoreReceives \/ CoreProceeds
      BY <2>1, <3>2, CoreTurnType DEF RunnerIInv, IInv
    <3>3. CASE UNCHANGED allVars
      BY <3>3 DEF RunnerIInv, RunnerTypeOK, allVars, runnerVars, runs, channels
    <3> QED
      BY <3>1, <3>2, <3>3 DEF RunnerNext
  <2> QED
    BY <2>1, <2>2 DEF RunnerIInv
<1> QED
  BY <1>1, <1>2, PTL DEF RunnerSpec

-----------------------------------------------------------------------------
\* Everything on the two channels is a message the other side knows, for any
\* jobs, budget and number of permits.
THEOREM RunnerTypeCorrect == RunnerSpec => []RunnerTypeOK
<1>1. RunnerIInv => RunnerTypeOK
  BY DEF RunnerIInv
<1> QED
  BY <1>1, RunnerInductive, PTL

\* The runner makes the Core do nothing it would not do for an arbitrary client.
THEOREM RunnerImplementsCore == RunnerSpec => Spec
<1>1. RunnerIInv /\ [RunnerNext]_allVars => [Next]_vars
  BY RunnerStepIsCoreStep DEF RunnerIInv
<1> QED
  BY <1>1, RunnerInductive, PTL DEF RunnerSpec, Spec

\* Under the runner, too, no job has two workers and every worker can be reached.
THEOREM RunnerCancelReaches == RunnerSpec => []CancelReaches
BY RunnerImplementsCore, CancelAlwaysReaches, PTL

-----------------------------------------------------------------------------
(* The strengthening: what holds of every run, whoever takes the next turn. *)

\* Messages on their way to the Core that make it take up j, answers to them, and
\* the ends of j's worker, on their way back.
Openers(j) == InFlight(j, "submit_job") \cup InFlight(j, "request_permit")

IsAnswer(m, j) == m.type \in {"ack", "permit_granted", "permit_rejected"} /\ m.job = j
Answers(j) == {i \in DOMAIN toRunner : IsAnswer(toRunner[i], j)}
Reports(j) == {i \in DOMAIN toRunner : toRunner[i].type = "job_completed" /\ toRunner[i].job = j}

Single(S) == \A i, k \in S : i = k

Unheld(j) == activePermitsByJob[j] = NoPermit

\* A run has one request open at a time.
OneOpen(j) ==
    /\ Single(Openers(j)) /\ Single(Answers(j))
    /\ Openers(j) # {} => Answers(j) = {} /\ Reports(j) = {} /\ Unheld(j)
    /\ phase[j] \in {"idle", "backoff"} => Openers(j) = {} /\ Answers(j) = {}
    /\ phase[j] \in {"idle", "submitting", "backoff"} =>
          InFlight(j, "request_permit") = {} /\ Reports(j) = {} /\ Unheld(j)

\* The Core has given no permit for what it has only acknowledged or refused, and
\* has forgotten what it has reported the end of.
AnswersTrue(j) ==
    /\ \A i \in Answers(j) : toRunner[i].type # "permit_granted" => Reports(j) = {} /\ Unheld(j)
    /\ Reports(j) # {} => Openers(j) = {} /\ Unheld(j) /\ j \notin jobs

\* The Core reads a cancel_job after everything else about j.
LastWord(j) == \E i \in InFlight(j, "cancel_job") : \A k \in Openers(j) : k < i

\* Or there is nothing to cancel any more.
AllTold(j) ==
    /\ InFlight(j, "request_permit") = {}
    /\ \A p \in WorkersOf(j) : p \in aborted \/ worker[p] = "over"
    /\ j \in unconfirmed \/ (Openers(j) = {} /\ (j \in jobs => ~Unheld(j)))

GivenUp(j) == phase[j] \in {"grace", "failing", "returned"}

RunSound(j) ==
    /\ OneOpen(j)
    /\ AnswersTrue(j)
    /\ GivenUp(j) /\ mode = "serving" => LastWord(j) \/ AllTold(j)
    /\ j \in cancelIssued => GivenUp(j)
    /\ ~Unheld(j) => Live(activePermitsByJob[j])

RunsSound == (~linkUp => mode = "stopped") /\ \A j \in Job : RunSound(j)

-----------------------------------------------------------------------------
(* What the messages on the two channels become. *)

LEMMA PlainIs ==
    \A t, u, j, k : Plain(t, j) = Plain(u, k) <=> t = u /\ j = k
<1> SUFFICES ASSUME NEW t, NEW u, NEW j, NEW k, Plain(t, j) = Plain(u, k) PROVE t = u /\ j = k
  OBVIOUS
<1>1. Plain(t, j).type = t /\ Plain(t, j).job = j /\ Plain(u, k).type = u /\ Plain(u, k).job = k
  BY DEF Plain
<1> QED
  BY <1>1

\* A message that is written is the last.
LEMMA WritesWhere ==
    ASSUME RunnerTypeOK, NEW j \in Job,
           NEW t \in {"submit_job", "request_permit", "cancel_job"}, Writes(t, j), linkUp
    PROVE  /\ \A k \in Job, u \in {"submit_job", "request_permit", "cancel_job"} :
                 InFlight(k, u)' = IF k = j /\ u = t THEN InFlight(k, u) \cup {Len(toCore) + 1}
                                                     ELSE InFlight(k, u)
           /\ \A k \in Job, u \in {"submit_job", "request_permit", "cancel_job"} :
                 \A i \in InFlight(k, u) : i \in Nat /\ i < Len(toCore) + 1
<1>1. toCore \in Seq(RequestMessage) /\ Plain(t, j) \in RequestMessage
      /\ toCore' = Append(toCore, Plain(t, j))
  BY RequestMessages DEF RunnerTypeOK, Writes
<1>2. /\ DOMAIN toCore = 1..Len(toCore) /\ Len(toCore) \in Nat
      /\ DOMAIN toCore' = 1..(Len(toCore) + 1)
      /\ toCore'[Len(toCore) + 1] = Plain(t, j)
      /\ \A i \in 1..Len(toCore) : toCore'[i] = toCore[i]
  BY <1>1
<1> SUFFICES ASSUME NEW k \in Job, NEW u \in {"submit_job", "request_permit", "cancel_job"}
             PROVE  /\ InFlight(k, u)' = IF k = j /\ u = t THEN InFlight(k, u) \cup {Len(toCore) + 1}
                                                           ELSE InFlight(k, u)
                    /\ \A i \in InFlight(k, u) : i \in Nat /\ i < Len(toCore) + 1
  OBVIOUS
<1>3. \A i \in InFlight(k, u) : i \in Nat /\ i < Len(toCore) + 1
  BY <1>2 DEF InFlight
<1>4. \A i : i \in InFlight(k, u)' <=> i \in 1..(Len(toCore) + 1) /\ toCore'[i] = Plain(u, k)
  BY <1>2 DEF InFlight
<1>5. \A i : i \in InFlight(k, u) <=> i \in 1..Len(toCore) /\ toCore[i] = Plain(u, k)
  BY <1>2 DEF InFlight
<1>6. \A i : i \in 1..(Len(toCore) + 1) <=> i \in 1..Len(toCore) \/ i = Len(toCore) + 1
  BY <1>2
<1>7. Plain(t, j) = Plain(u, k) <=> k = j /\ u = t
  BY PlainIs
<1>8. Len(toCore) + 1 \notin 1..Len(toCore)
  BY <1>2
<1>9. \A i : i \in InFlight(k, u)' <=> i \in InFlight(k, u) \/ (i = Len(toCore) + 1 /\ k = j /\ u = t)
  BY <1>2, <1>4, <1>5, <1>6, <1>7, <1>8
<1> QED
  BY <1>3, <1>9

\* The Core reads the first message: the others move up.
LEMMA ReadWhere ==
    ASSUME RunnerTypeOK, toCore # << >>, toCore' = Tail(toCore),
           NEW k \in Job, NEW u
    PROVE  InFlight(k, u)' = {i \in 1..(Len(toCore) - 1) : i + 1 \in InFlight(k, u)}
<1>1. toCore \in Seq(RequestMessage)
  BY DEF RunnerTypeOK
<1>2. /\ DOMAIN toCore = 1..Len(toCore) /\ Len(toCore) \in Nat \ {0}
      /\ DOMAIN toCore' = 1..(Len(toCore) - 1)
      /\ \A i \in 1..(Len(toCore) - 1) : toCore'[i] = toCore[i + 1] /\ i + 1 \in 1..Len(toCore)
  BY <1>1
<1> QED
  BY <1>2 DEF InFlight

\* The same for the runner.
LEMMA ReceivedWhere ==
    ASSUME RunnerTypeOK, toRunner # << >>, toRunner' = Tail(toRunner), NEW k \in Job
    PROVE  /\ Answers(k)' = {i \in 1..(Len(toRunner) - 1) : i + 1 \in Answers(k)}
           /\ Reports(k)' = {i \in 1..(Len(toRunner) - 1) : i + 1 \in Reports(k)}
           /\ \A i \in 1..(Len(toRunner) - 1) : toRunner'[i] = toRunner[i + 1]
<1>1. toRunner \in Seq(Message)
  BY DEF RunnerTypeOK
<1>2. /\ DOMAIN toRunner = 1..Len(toRunner) /\ Len(toRunner) \in Nat \ {0}
      /\ DOMAIN toRunner' = 1..(Len(toRunner) - 1)
      /\ \A i \in 1..(Len(toRunner) - 1) : toRunner'[i] = toRunner[i + 1] /\ i + 1 \in 1..Len(toRunner)
  BY <1>1
<1> QED
  BY <1>2 DEF Answers, Reports, IsAnswer

\* A turn of the Core writes one message, or two.
LEMMA SentWhere ==
    ASSUME RunnerTypeOK, NEW m \in Message, toRunner' = toRunner \o <<m>>, NEW k \in Job
    PROVE  /\ Answers(k)' = IF IsAnswer(m, k) THEN Answers(k) \cup {Len(toRunner) + 1} ELSE Answers(k)
           /\ Reports(k)' = IF m.type = "job_completed" /\ m.job = k
                            THEN Reports(k) \cup {Len(toRunner) + 1} ELSE Reports(k)
           /\ \A i \in Answers(k) : toRunner'[i] = toRunner[i]
           /\ toRunner'[Len(toRunner) + 1] = m /\ Len(toRunner) + 1 \notin DOMAIN toRunner
<1>1. toRunner \in Seq(Message)
  BY DEF RunnerTypeOK
<1>2. /\ DOMAIN toRunner = 1..Len(toRunner) /\ Len(toRunner) \in Nat
      /\ DOMAIN toRunner' = 1..(Len(toRunner) + 1)
      /\ toRunner'[Len(toRunner) + 1] = m
      /\ \A i \in 1..Len(toRunner) : toRunner'[i] = toRunner[i]
  BY <1>1
<1>3. \A i : i \in 1..(Len(toRunner) + 1) <=> i \in 1..Len(toRunner) \/ i = Len(toRunner) + 1
  BY <1>2
<1>4. Len(toRunner) + 1 \notin 1..Len(toRunner)
  BY <1>2
<1>5. \A i : i \in Answers(k)' <=> i \in Answers(k) \/ (i = Len(toRunner) + 1 /\ IsAnswer(m, k))
  BY <1>2, <1>3, <1>4 DEF Answers, IsAnswer
<1>6. \A i : i \in Reports(k)' <=> i \in Reports(k)
                                  \/ (i = Len(toRunner) + 1 /\ m.type = "job_completed" /\ m.job = k)
  BY <1>2, <1>3, <1>4 DEF Reports
<1>7. \A i \in Answers(k) : toRunner'[i] = toRunner[i]
  BY <1>2 DEF Answers
<1> QED
  BY <1>2, <1>4, <1>5, <1>6, <1>7

Opening == {"submit_job", "request_permit"}

\* What a turn may do to the messages for a run: take some away.
Shrinks(k) ==
    /\ Single(Answers(k)) => Single(Answers(k))'
    /\ \A i \in Answers(k)' : \E n \in Answers(k) : toRunner[n].type = toRunner'[i].type
    /\ Reports(k)' # {} => Reports(k) # {}

\* A turn that receives nothing takes no message away.
LEMMA SameShrinks == toRunner' = toRunner => \A k : Shrinks(k) /\ Answers(k)' = Answers(k)
BY DEF Shrinks, Answers, Reports, IsAnswer, Single

\* The runner receives a message: at most one answer to a run was on its way.
LEMMA ReceivedShrinks ==
    ASSUME RunnerTypeOK, toRunner # << >>, toRunner' = Tail(toRunner), NEW k \in Job
    PROVE  /\ Shrinks(k)
           /\ Single(Answers(k)) /\ IsAnswer(Head(toRunner), k) => Answers(k)' = {}
<1>1. toRunner \in Seq(Message) /\ Len(toRunner) \in Nat \ {0}
      /\ Head(toRunner) = toRunner[1] /\ 1 \in DOMAIN toRunner
  BY DEF RunnerTypeOK
<1>2. /\ Answers(k)' = {i \in 1..(Len(toRunner) - 1) : i + 1 \in Answers(k)}
      /\ Reports(k)' = {i \in 1..(Len(toRunner) - 1) : i + 1 \in Reports(k)}
      /\ \A i \in 1..(Len(toRunner) - 1) : toRunner'[i] = toRunner[i + 1]
  BY ReceivedWhere
<1>3. Single(Answers(k)) => Single(Answers(k)')
  <2> SUFFICES ASSUME Single(Answers(k)), NEW i \in Answers(k)', NEW n \in Answers(k)' PROVE i = n
    BY DEF Single
  <2>1. i + 1 = n + 1 /\ i \in Int /\ n \in Int
    BY <1>2 DEF Single
  <2> QED
    BY <2>1
<1>4. Single(Answers(k)) /\ IsAnswer(Head(toRunner), k) => Answers(k)' = {}
  <2> SUFFICES ASSUME Single(Answers(k)), IsAnswer(Head(toRunner), k), NEW i \in Answers(k)' PROVE FALSE
    OBVIOUS
  <2>1. 1 \in Answers(k)
    BY <1>1 DEF Answers
  <2>2. i + 1 = 1 /\ i \in 1..(Len(toRunner) - 1)
    BY <1>2, <2>1 DEF Single
  <2> QED
    BY <1>1, <2>2
<1>5. \A i \in Answers(k)' : \E n \in Answers(k) : toRunner[n].type = toRunner'[i].type
  BY <1>2
<1>6. Reports(k)' # {} => Reports(k) # {}
  BY <1>2
<1>7. (Single(Answers(k)))' <=> Single(Answers(k)')
  BY DEF Single
<1> QED
  BY <1>3, <1>4, <1>5, <1>6, <1>7 DEF Shrinks

\* Nothing that opens k is written, and at most a cancel_job for it.
Written(k) ==
    /\ \A u \in Opening : InFlight(k, u)' = InFlight(k, u)
    /\ InFlight(k, "cancel_job") \subseteq InFlight(k, "cancel_job")'

\* A cancel_job for k is the last message about it.
Closed(k) == Written(k) /\ LastWord(k)'

\* After a cancel_job is written nothing about the run comes after it.
LEMMA WritesCancel ==
    ASSUME RunnerTypeOK, NEW j \in Job, Writes("cancel_job", j), linkUp
    PROVE  Closed(j) /\ \A k \in Job : Written(k)
<1>1. \A k \in Job : Written(k)
  BY WritesWhere DEF Written, Opening
<1>2. Len(toCore) + 1 \in InFlight(j, "cancel_job")'
  BY WritesWhere
<1>3. \A i \in Openers(j)' : i < Len(toCore) + 1
  <2>1. Openers(j)' = Openers(j)
    BY <1>1 DEF Openers, Written, Opening
  <2> QED
    BY <2>1, WritesWhere DEF Openers
<1> QED
  BY <1>1, <1>2, <1>3 DEF Closed, LastWord

\* A turn that writes nothing leaves the messages to the Core as they are.
LEMMA WritesNothing ==
    ASSUME toCore' = toCore
    PROVE  \A k \in Job : Written(k)
BY DEF Written, InFlight

\* A write to a closed channel leaves no trace.
LEMMA LinkDownWrites ==
    ASSUME NEW t, NEW j, Writes(t, j), ~linkUp
    PROVE  toCore' = toCore
BY DEF Writes

\* An opening of j leaves the other runs alone.
LEMMA WritesOpening ==
    ASSUME RunnerTypeOK, NEW j \in Job, NEW t \in Opening, Writes(t, j), linkUp
    PROVE  /\ \A k \in Job \ {j} : Written(k)
           /\ InFlight(j, t)' = InFlight(j, t) \cup {Len(toCore) + 1}
           /\ \A u \in Opening \ {t} : InFlight(j, u)' = InFlight(j, u)
           /\ Openers(j)' = Openers(j) \cup {Len(toCore) + 1}
<1>1. \A k \in Job \ {j} : Written(k)
  BY WritesWhere DEF Written, Opening
<1>2. /\ InFlight(j, t)' = InFlight(j, t) \cup {Len(toCore) + 1}
      /\ \A u \in Opening \ {t} : InFlight(j, u)' = InFlight(j, u)
  BY WritesWhere DEF Opening
<1>3. Openers(j)' = Openers(j) \cup {Len(toCore) + 1}
  BY <1>2 DEF Openers, Opening
<1> QED
  BY <1>1, <1>2, <1>3

\* The Core does nothing in a turn of the runner.
LEMMA CoreStands ==
    ASSUME UNCHANGED vars
    PROVE  /\ UNCHANGED <<mode, jobs, activePermitsByJob, holder, aborted, worker>>
           /\ \A k \in Job : (Unheld(k)' <=> Unheld(k)) /\ WorkersOf(k)' = WorkersOf(k)
           /\ \A p \in Permit : Live(p)' <=> Live(p)
BY DEF vars, registry, permits, gate, workers, Unheld, WorkersOf, Live

\* A run that is given up, or was before and goes on being.
LEMMA GivenUpSound ==
    ASSUME NEW k \in Job, RunSound(k), UNCHANGED vars, Shrinks(k), Written(k),
           unconfirmed \subseteq unconfirmed', GivenUp(k)',
           mode = "serving" => LastWord(k)' \/ AllTold(k) \/ GivenUp(k)
    PROVE  RunSound(k)'
<1>1. Openers(k)' = Openers(k)
  BY DEF Written, Openers, Opening
<1>2. OneOpen(k)'
  <2>1. phase'[k] \notin {"idle", "submitting", "backoff"}
    BY DEF GivenUp
  <2>2. Single(Openers(k))' /\ Single(Answers(k))'
    BY <1>1 DEF RunSound, OneOpen, Shrinks, Single
  <2>3. Openers(k)' # {} => Answers(k)' = {} /\ Reports(k)' = {} /\ Unheld(k)'
    BY <1>1, CoreStands DEF RunSound, OneOpen, Shrinks
  <2> QED
    BY <2>1, <2>2, <2>3 DEF OneOpen
<1>3. AnswersTrue(k)'
  BY <1>1, CoreStands DEF RunSound, AnswersTrue, Shrinks
<1>4. AllTold(k) => AllTold(k)'
  <2>1. InFlight(k, "request_permit")' = InFlight(k, "request_permit")
    BY DEF Written, Opening
  <2> QED
    BY <1>1, <2>1, CoreStands DEF AllTold
<1>5. LastWord(k) => LastWord(k)'
  BY <1>1 DEF LastWord, Written
<1>6. GivenUp(k)' /\ mode' = "serving" => LastWord(k)' \/ AllTold(k)'
  BY <1>4, <1>5, CoreStands DEF RunSound
<1>7. ~Unheld(k)' => Live(activePermitsByJob[k])'
  BY DEF RunSound, vars, registry, workers, Unheld, Live
<1> QED
  BY <1>2, <1>3, <1>6, <1>7 DEF RunSound

\* A run that goes on, and that no message is written for.
LEMMA GoesOnSound ==
    ASSUME NEW k \in Job, RunSound(k), UNCHANGED vars, Shrinks(k), Written(k),
           k \in cancelIssued' => k \in cancelIssued,
           phase'[k] = phase[k] \/ (phase'[k] = "executing" /\ ~GivenUp(k)), ~GivenUp(k)
    PROVE  RunSound(k)'
<1>1. /\ Openers(k)' = Openers(k)
      /\ InFlight(k, "request_permit")' = InFlight(k, "request_permit")
  BY DEF Written, Openers, Opening
<1>2. OneOpen(k)'
  <2>1. Single(Openers(k))' /\ Single(Answers(k))'
    BY <1>1 DEF RunSound, OneOpen, Shrinks, Single
  <2>2. Openers(k)' # {} => Answers(k)' = {} /\ Reports(k)' = {} /\ Unheld(k)'
    BY <1>1, CoreStands DEF RunSound, OneOpen, Shrinks
  <2>3. phase'[k] \in {"idle", "backoff"} => Openers(k)' = {} /\ Answers(k)' = {}
    BY <1>1 DEF RunSound, OneOpen, Shrinks
  <2>4. phase'[k] \in {"idle", "submitting", "backoff"} =>
          InFlight(k, "request_permit")' = {} /\ Reports(k)' = {} /\ Unheld(k)'
    BY <1>1, CoreStands DEF RunSound, OneOpen, Shrinks
  <2> QED
    BY <2>1, <2>2, <2>3, <2>4 DEF OneOpen
<1>3. AnswersTrue(k)'
  BY <1>1, CoreStands DEF RunSound, AnswersTrue, Shrinks
<1>4. ~GivenUp(k)'
  BY DEF GivenUp
<1>5. k \in cancelIssued' => GivenUp(k)'
  BY DEF RunSound
<1>7. ~Unheld(k)' => Live(activePermitsByJob[k])'
  BY DEF RunSound, vars, registry, workers, Unheld, Live
<1> QED
  BY <1>2, <1>3, <1>4, <1>5, <1>7 DEF RunSound

\* A run that a turn is not about.
LEMMA OthersSound ==
    ASSUME NEW k \in Job, RunSound(k), UNCHANGED vars, Shrinks(k), Written(k),
           unconfirmed \subseteq unconfirmed', k \in cancelIssued' => k \in cancelIssued,
           phase'[k] = phase[k]
    PROVE  RunSound(k)'
<1>1. CASE GivenUp(k)
  <2>1. GivenUp(k)'
    BY <1>1 DEF GivenUp
  <2> QED
    BY <1>1, <2>1, GivenUpSound
<1>2. CASE ~GivenUp(k)
  BY <1>2, GoesOnSound
<1> QED
  BY <1>1, <1>2

\* A turn that is about j.
TurnOf(j) ==
    /\ UNCHANGED vars
    /\ \A k \in Job : Shrinks(k)
    /\ \A k \in Job \ {j} :
          /\ Written(k) /\ phase'[k] = phase[k]
          /\ k \in cancelIssued' => k \in cancelIssued
    /\ unconfirmed \subseteq unconfirmed'
    /\ linkUp' = linkUp

\* A turn of the runner that opens nothing for k keeps what is known of k, if a run
\* that gives up with it has written its cancel_job.
LEMMA TurnSound ==
    ASSUME RunsSound, NEW j \in Job, TurnOf(j), RunSound(j)'
    PROVE  RunsSound'
<1>1. \A k \in Job \ {j} : RunSound(k)'
  BY OthersSound DEF TurnOf, RunsSound
<1>2. ~linkUp' => mode' = "stopped"
  BY DEF TurnOf, RunsSound, vars
<1> QED
  BY <1>1, <1>2 DEF RunsSound

\* An abort or a deadline gives a run up with a cancel_job, unless one is on record.
LEMMA IssuesCancelSound ==
    ASSUME RunsSound, RunnerTypeOK, NEW j \in Job, IssuesCancel(j)
    PROVE  /\ \A k \in Job : Written(k)
           /\ mode = "serving" => LastWord(j)' \/ GivenUp(j)
           /\ \A k \in Job \ {j} : k \in cancelIssued' => k \in cancelIssued
<1>1. CASE j \in cancelIssued
  BY <1>1, WritesNothing DEF IssuesCancel, RunsSound, RunSound
<1>2. CASE j \notin cancelIssued
  <2>1. CASE linkUp
    BY <1>2, <2>1, WritesCancel DEF IssuesCancel, Closed
  <2>2. CASE ~linkUp
    BY <1>2, <2>2, WritesNothing, LinkDownWrites DEF IssuesCancel, RunsSound
  <2> QED
    BY <2>1, <2>2
<1> QED
  BY <1>1, <1>2

\* issueCancel of a run that stops with it, or goes on stopping.
LEMMA CancelSound ==
    ASSUME RunsSound, RunnerTypeOK, NEW j \in Job, IssuesCancel(j), UNCHANGED vars,
           \A k \in Job : Shrinks(k), unconfirmed \subseteq unconfirmed', linkUp' = linkUp,
           \A k \in Job \ {j} : phase'[k] = phase[k], GivenUp(j)'
    PROVE  RunsSound'
<1>1. TurnOf(j)
  BY IssuesCancelSound DEF TurnOf
<1>2. RunSound(j)'
  BY IssuesCancelSound, GivenUpSound DEF RunsSound
<1> QED
  BY <1>1, <1>2, TurnSound

\* So does the catch block.
LEMMA GivesUpSound ==
    ASSUME RunsSound, RunnerTypeOK, NEW j \in Job, GivesUp(j), UNCHANGED <<vars, cancelIssued, linkUp>>,
           \A k \in Job : Shrinks(k), unconfirmed \subseteq unconfirmed'
    PROVE  RunsSound'
<1>1. phase' \in [Job -> Phase] /\ GivenUp(j)' /\ \A k \in Job \ {j} : phase'[k] = phase[k]
  BY GivesUpType DEF GivesUp, Moves, GivenUp, RunnerTypeOK
<1>2. (\A k \in Job : Written(k)) /\ (mode = "serving" => LastWord(j)')
  <2>1. CASE linkUp
    BY <2>1, WritesCancel DEF GivesUp, Closed
  <2>2. CASE ~linkUp
    BY <2>2, WritesNothing, LinkDownWrites DEF GivesUp, RunsSound
  <2> QED
    BY <2>1, <2>2
<1>3. TurnOf(j)
  BY <1>1, <1>2 DEF TurnOf
<1>4. RunSound(j)'
  BY <1>1, <1>2, GivenUpSound DEF RunsSound
<1> QED
  BY <1>3, <1>4, TurnSound

\* A run that sends the only open message about it.
LEMMA OpensSound ==
    ASSUME RunsSound, RunnerTypeOK, NEW j \in Job, NEW t \in Opening, Writes(t, j), linkUp,
           UNCHANGED <<vars, cancelIssued, linkUp, unconfirmed>>, \A k \in Job : Shrinks(k),
           Openers(j) = {}, Answers(j)' = {}, Reports(j) = {}, Unheld(j), ~GivenUp(j),
           phase' = [phase EXCEPT ![j] = IF t = "submit_job" THEN "submitting" ELSE "requesting"]
    PROVE  RunsSound'
<1>1. phase'[j] = (IF t = "submit_job" THEN "submitting" ELSE "requesting")
      /\ \A k \in Job \ {j} : phase'[k] = phase[k]
  BY DEF RunnerTypeOK
<1>2. /\ \A k \in Job \ {j} : Written(k)
      /\ InFlight(j, t)' = InFlight(j, t) \cup {Len(toCore) + 1}
      /\ \A u \in Opening \ {t} : InFlight(j, u)' = InFlight(j, u)
      /\ Openers(j)' = Openers(j) \cup {Len(toCore) + 1}
  BY WritesOpening
<1>3. TurnOf(j)
  BY <1>1, <1>2 DEF TurnOf
<1>4. Reports(j)' = {} /\ Unheld(j)' /\ RunSound(j)
  BY CoreStands DEF Shrinks, RunsSound
<1>5. OneOpen(j)'
  <2>1. Single(Openers(j))' /\ Single(Answers(j))'
    BY <1>2 DEF Single
  <2>2. phase'[j] = "submitting" => InFlight(j, "request_permit")' = {}
    BY <1>1, <1>2 DEF Openers, Opening
  <2> QED
    BY <1>1, <1>4, <2>1, <2>2 DEF OneOpen
<1>6. AnswersTrue(j)'
  BY <1>4 DEF AnswersTrue
<1>7. ~GivenUp(j)' /\ (j \notin cancelIssued') /\ Unheld(j)'
  BY <1>1, <1>4 DEF GivenUp, RunSound
<1>8. RunSound(j)'
  BY <1>5, <1>6, <1>7 DEF RunSound
<1> QED
  BY <1>3, <1>8, TurnSound

\* A run asks for a permit when nothing it asked for is open.
LEMMA AsksSound ==
    ASSUME RunsSound, RunnerTypeOK, NEW j \in Job, AsksForPermit(j),
           UNCHANGED <<vars, cancelIssued, linkUp, unconfirmed>>, \A k \in Job : Shrinks(k),
           Openers(j) = {}, Answers(j)' = {}, Reports(j) = {}, Unheld(j), ~GivenUp(j)
    PROVE  RunsSound'
<1>1. CASE j \in late \/ ~linkUp
  BY <1>1, GivesUpSound DEF AsksForPermit
<1>2. CASE ~(j \in late \/ ~linkUp)
  BY <1>2, OpensSound DEF AsksForPermit, Moves, Opening
<1> QED
  BY <1>1, <1>2

-----------------------------------------------------------------------------
(* The turns of the runner keep it. *)

LEMMA StartSound ==
    ASSUME RunsSound, RunnerTypeOK, NEW j \in Job, Start(j), UNCHANGED vars
    PROVE  RunsSound'
<1>1. /\ RunSound(j) /\ phase[j] = "idle" /\ ~GivenUp(j)
      /\ \A k \in Job : Shrinks(k) /\ Answers(k)' = Answers(k)
      /\ UNCHANGED <<unconfirmed, linkUp>>
  BY SameShrinks DEF Start, RunsSound, GivenUp
<1>2. Openers(j) = {} /\ Answers(j) = {} /\ Reports(j) = {} /\ Unheld(j)
  BY <1>1 DEF RunSound, OneOpen
<1>3. CASE j \in stepAborted
  <2>1. IssuesCancel(j) /\ Moves(j, "returned")
    BY <1>3 DEF Start
  <2>2. GivenUp(j)' /\ \A k \in Job \ {j} : phase'[k] = phase[k]
    BY <2>1 DEF Moves, RunnerTypeOK, GivenUp
  <2> QED
    BY <1>1, <2>1, <2>2, CancelSound
<1>4. CASE j \notin stepAborted /\ linkUp
  BY <1>1, <1>2, <1>4, OpensSound DEF Start, Moves, Opening
<1>5. CASE j \notin stepAborted /\ ~linkUp
  <2>1. toCore' = toCore /\ Moves(j, "returned") /\ cancelIssued' = cancelIssued
    BY <1>5, LinkDownWrites DEF Start
  <2>2. GivenUp(j)' /\ \A k \in Job \ {j} : phase'[k] = phase[k]
    BY <2>1 DEF Moves, RunnerTypeOK, GivenUp
  <2>3. (\A k \in Job : Written(k)) /\ mode # "serving"
    BY <1>5, <2>1, WritesNothing DEF RunsSound
  <2>4. RunSound(j)'
    BY <1>1, <2>2, <2>3, GivenUpSound
  <2> QED
    BY <1>1, <2>1, <2>2, <2>3, <2>4, TurnSound DEF TurnOf
<1> QED
  BY <1>3, <1>4, <1>5

LEMMA StepAbortSound ==
    ASSUME RunsSound, RunnerTypeOK, NEW j \in Job, StepAbort(j), UNCHANGED vars
    PROVE  RunsSound'
<1>1. /\ RunSound(j) /\ phase[j] \in Phase \ {"returned"}
      /\ \A k \in Job : Shrinks(k) /\ Answers(k)' = Answers(k)
      /\ UNCHANGED <<unconfirmed, linkUp>>
  BY SameShrinks DEF StepAbort, RunsSound, RunnerTypeOK
<1>2. CASE phase[j] = "idle"
  <2>1. UNCHANGED <<cancelIssued, toCore, phase>>
    BY <1>2 DEF StepAbort
  <2>2. RunSound(j)'
    BY <1>1, <1>2, <2>1, WritesNothing, OthersSound
  <2> QED
    BY <1>1, <2>1, <2>2, WritesNothing, TurnSound DEF TurnOf
<1>3. CASE phase[j] # "idle"
  <2>1. IssuesCancel(j)
    BY <1>3 DEF StepAbort
  <2>2. GivenUp(j)' /\ \A k \in Job \ {j} : phase'[k] = phase[k]
    <3>1. CASE phase[j] \in {"submitting", "requesting", "backoff"}
      BY <3>1 DEF StepAbort, Moves, RunnerTypeOK, GivenUp
    <3>2. CASE phase[j] = "executing"
      BY <3>2 DEF StepAbort, Moves, RunnerTypeOK, GivenUp
    <3>3. CASE phase[j] \in {"grace", "failing"}
      BY <3>3 DEF StepAbort, GivenUp
    <3> QED
      BY <1>1, <1>3, <3>1, <3>2, <3>3 DEF Phase
  <2> QED
    BY <1>1, <2>1, <2>2, CancelSound
<1> QED
  BY <1>2, <1>3

LEMMA DeadlineSound ==
    ASSUME RunsSound, RunnerTypeOK, NEW j \in Job, DeadlinePasses(j), UNCHANGED vars
    PROVE  RunsSound'
<1>1. /\ RunSound(j)
      /\ \A k \in Job : Shrinks(k) /\ Answers(k)' = Answers(k)
      /\ UNCHANGED <<unconfirmed, linkUp>>
  BY SameShrinks DEF DeadlinePasses, RunsSound
<1>2. CASE phase[j] = "executing"
  <2>1. IssuesCancel(j) /\ Moves(j, "grace")
    BY <1>2 DEF DeadlinePasses
  <2>2. GivenUp(j)' /\ \A k \in Job \ {j} : phase'[k] = phase[k]
    BY <2>1 DEF Moves, RunnerTypeOK, GivenUp
  <2> QED
    BY <1>1, <2>1, <2>2, CancelSound
<1>3. CASE phase[j] # "executing"
  <2>1. UNCHANGED <<cancelIssued, toCore, phase>>
    BY <1>3 DEF DeadlinePasses
  <2>2. RunSound(j)'
    BY <1>1, <2>1, WritesNothing, OthersSound
  <2> QED
    BY <1>1, <2>1, <2>2, WritesNothing, TurnSound DEF TurnOf
<1> QED
  BY <1>2, <1>3

LEMMA BackoffSound ==
    ASSUME RunsSound, RunnerTypeOK, NEW j \in Job, BackoffOver(j), UNCHANGED vars
    PROVE  RunsSound'
<1>1. /\ RunSound(j) /\ phase[j] = "backoff" /\ ~GivenUp(j)
      /\ \A k \in Job : Shrinks(k) /\ Answers(k)' = Answers(k)
      /\ UNCHANGED <<unconfirmed, linkUp, cancelIssued>>
  BY SameShrinks DEF BackoffOver, RunsSound, GivenUp
<1>2. Openers(j) = {} /\ Answers(j) = {} /\ Reports(j) = {} /\ Unheld(j)
  BY <1>1 DEF RunSound, OneOpen
<1> QED
  BY <1>1, <1>2, AsksSound DEF BackoffOver

\* A run that has stopped returns.
LEMMA ReturnsSound ==
    ASSUME RunsSound, RunnerTypeOK, NEW j \in Job, GivenUp(j), Moves(j, "returned"),
           UNCHANGED <<vars, cancelIssued, linkUp, toCore>>,
           \A k \in Job : Shrinks(k), unconfirmed \subseteq unconfirmed'
    PROVE  RunsSound'
<1>1. GivenUp(j)' /\ \A k \in Job \ {j} : phase'[k] = phase[k]
  BY DEF Moves, RunnerTypeOK, GivenUp
<1>2. RunSound(j)'
  BY <1>1, WritesNothing, GivenUpSound DEF RunsSound
<1> QED
  BY <1>1, <1>2, WritesNothing, TurnSound DEF TurnOf

LEMMA TimeoutSound ==
    ASSUME RunsSound, RunnerTypeOK, IInv, NEW j \in Job, RequestTimeout(j), UNCHANGED vars
    PROVE  RunsSound'
<1>1. /\ RunSound(j)
      /\ \A k \in Job : Shrinks(k) /\ Answers(k)' = Answers(k)
      /\ UNCHANGED <<cancelIssued, linkUp>>
  BY SameShrinks DEF RequestTimeout, RunsSound
<1>2. CASE phase[j] = "submitting"
  <2>1. unconfirmed' = unconfirmed \cup {j} /\ Moves(j, "returned") /\ toCore' = toCore
    BY <1>2 DEF RequestTimeout
  <2>2. GivenUp(j)' /\ \A k \in Job \ {j} : phase'[k] = phase[k]
    BY <2>1 DEF Moves, RunnerTypeOK, GivenUp
  <2>3. \A k \in Job : Written(k)
    BY <2>1, WritesNothing
  <2>4. InFlight(j, "request_permit") = {} /\ Unheld(j) /\ Reports(j) = {}
    BY <1>1, <1>2 DEF RunSound, OneOpen
  <2>5. WorkersOf(j) = {}
    BY <2>4, Markers DEF WorkersOf, Unheld, IInv, CancelReaches, TypeOK
  <2>6. RunSound(j)'
    <3>1. Openers(j)' = Openers(j) /\ InFlight(j, "request_permit")' = {}
      BY <2>3, <2>4 DEF Written, Openers, Opening
    <3>2. AllTold(j)'
      BY <2>1, <2>5, <3>1, CoreStands DEF AllTold
    <3>3. OneOpen(j)'
      <4>1. Single(Openers(j))' /\ Single(Answers(j))'
        BY <1>1, <3>1 DEF RunSound, OneOpen, Single
      <4>2. phase'[j] \notin {"idle", "submitting", "backoff"}
        BY <2>2 DEF GivenUp
      <4>3. Openers(j)' # {} => Answers(j)' = {} /\ Reports(j)' = {} /\ Unheld(j)'
        BY <1>1, <3>1, CoreStands DEF RunSound, OneOpen, Shrinks
      <4> QED
        BY <4>1, <4>2, <4>3 DEF OneOpen
    <3>4. AnswersTrue(j)'
      BY <1>1, <3>1, CoreStands DEF RunSound, AnswersTrue, Shrinks
    <3>5. Unheld(j)'
      BY <2>4, CoreStands
    <3> QED
      BY <2>2, <3>2, <3>3, <3>4, <3>5 DEF RunSound
  <2> QED
    BY <1>1, <2>1, <2>2, <2>3, <2>6, TurnSound DEF TurnOf
<1>3. CASE phase[j] = "requesting"
  BY <1>1, <1>3, GivesUpSound DEF RequestTimeout
<1>4. CASE phase[j] = "failing"
  BY <1>1, <1>4, ReturnsSound DEF RequestTimeout, GivenUp
<1> QED
  BY <1>2, <1>3, <1>4 DEF RequestTimeout

\* A job without a permit has no worker.
LEMMA UnheldIdle ==
    ASSUME IInv, NEW j \in Job, Unheld(j)
    PROVE  WorkersOf(j) = {}
BY Markers DEF WorkersOf, Unheld, IInv, CancelReaches, TypeOK

\* What an answer moves a run to.
LEMMA AnsweredSound ==
    ASSUME RunsSound, RunnerTypeOK, IInv, toRunner # << >>, toRunner' = Tail(toRunner),
           Answered(Head(toRunner)), UNCHANGED <<vars, cancelIssued, linkUp, unconfirmed>>
    PROVE  RunsSound'
<1> DEFINE m == Head(toRunner)
<1>0. PICK j \in Job : j = m.job
  BY DEF RunnerTypeOK, Message
<1>1. /\ m \in Message /\ 1 \in DOMAIN toRunner /\ toRunner[1] = m
      /\ RunSound(j) /\ \A k \in Job : Shrinks(k)
  BY ReceivedShrinks DEF RunnerTypeOK, RunsSound
<1>2. \A p \in {"executing", "backoff", "returned"} : Moves(j, p) =>
         phase'[j] = p /\ \A k \in Job \ {j} : phase'[k] = phase[k]
  BY DEF Moves, RunnerTypeOK
<1>3. m.type \in {"ack", "permit_granted", "permit_rejected"} =>
         /\ 1 \in Answers(j) /\ Answers(j)' = {} /\ Openers(j) = {}
         /\ m.type # "permit_granted" => Reports(j) = {} /\ Unheld(j)
  <2> SUFFICES ASSUME m.type \in {"ack", "permit_granted", "permit_rejected"}
               PROVE  /\ 1 \in Answers(j) /\ Answers(j)' = {} /\ Openers(j) = {}
                      /\ m.type # "permit_granted" => Reports(j) = {} /\ Unheld(j)
    OBVIOUS
  <2>1. IsAnswer(m, j) /\ 1 \in Answers(j)
    BY <1>0, <1>1 DEF IsAnswer, Answers
  <2>2. Single(Answers(j)) /\ Openers(j) = {}
    BY <1>1, <2>1 DEF RunSound, OneOpen
  <2>3. Answers(j)' = {}
    BY <2>1, <2>2, ReceivedShrinks
  <2>4. m.type # "permit_granted" => Reports(j) = {} /\ Unheld(j)
    BY <1>1, <2>1 DEF RunSound, AnswersTrue
  <2> QED
    BY <2>1, <2>2, <2>3, <2>4
<1>4. \/ m.type = "ack" /\ phase[j] = "submitting" /\ AsksForPermit(j)
      \/ phase[j] = "requesting" /\ GivesUp(j)
      \/ m.type = "permit_granted" /\ phase[j] = "requesting" /\ Moves(j, "executing") /\ UNCHANGED toCore
      \/ m.type = "permit_rejected" /\ phase[j] = "requesting" /\ Moves(j, "backoff") /\ UNCHANGED toCore
      \/ m.type = "job_completed" /\ Moves(j, "returned") /\ UNCHANGED toCore
      \/ phase[j] = "failing" /\ Moves(j, "returned") /\ UNCHANGED toCore
      \/ UNCHANGED <<phase, toCore>>
  BY <1>0 DEF Answered
<1>5. CASE m.type = "ack" /\ phase[j] = "submitting" /\ AsksForPermit(j)
  BY <1>1, <1>3, <1>5, AsksSound DEF GivenUp
<1>6. CASE phase[j] = "requesting" /\ GivesUp(j)
  BY <1>1, <1>6, GivesUpSound
<1>7. CASE m.type = "permit_granted" /\ phase[j] = "requesting" /\ Moves(j, "executing") /\ UNCHANGED toCore
  <2>1. RunSound(j)'
    BY <1>1, <1>2, <1>7, WritesNothing, GoesOnSound DEF GivenUp
  <2> QED
    BY <1>1, <1>2, <1>7, <2>1, WritesNothing, TurnSound DEF TurnOf
<1>8. CASE m.type = "permit_rejected" /\ phase[j] = "requesting" /\ Moves(j, "backoff") /\ UNCHANGED toCore
  <2>1. phase'[j] = "backoff" /\ Openers(j)' = {} /\ Answers(j)' = {} /\ Reports(j)' = {} /\ Unheld(j)'
    <3>1. Openers(j)' = Openers(j)
      BY <1>8 DEF Openers, InFlight
    <3> QED
      BY <1>1, <1>2, <1>3, <1>8, <3>1, CoreStands DEF Shrinks
  <2>2. InFlight(j, "request_permit")' = {}
    BY <2>1 DEF Openers
  <2>3. OneOpen(j)' /\ AnswersTrue(j)'
    BY <2>1, <2>2 DEF OneOpen, AnswersTrue, Single
  <2>4. ~GivenUp(j)' /\ j \notin cancelIssued'
    BY <1>1, <1>8, <2>1 DEF GivenUp, RunSound
  <2>5. RunSound(j)'
    BY <2>1, <2>3, <2>4 DEF RunSound
  <2> QED
    BY <1>1, <1>2, <1>8, <2>5, WritesNothing, TurnSound DEF TurnOf
<1>9. CASE m.type = "job_completed" /\ Moves(j, "returned") /\ UNCHANGED toCore
  <2>1. Reports(j) # {}
    BY <1>0, <1>1, <1>9 DEF Reports
  <2>2. Openers(j) = {} /\ Unheld(j) /\ j \notin jobs
    BY <1>1, <2>1 DEF RunSound, AnswersTrue
  <2>3. AllTold(j)
    BY <2>2, UnheldIdle DEF AllTold, Openers
  <2>4. GivenUp(j)' /\ \A k \in Job : Written(k)
    BY <1>2, <1>9, WritesNothing DEF GivenUp
  <2>5. RunSound(j)'
    BY <1>1, <2>3, <2>4, GivenUpSound
  <2> QED
    BY <1>1, <1>2, <1>9, <2>4, <2>5, TurnSound DEF TurnOf
<1>10. CASE phase[j] = "failing" /\ Moves(j, "returned") /\ UNCHANGED toCore
  BY <1>1, <1>10, ReturnsSound DEF GivenUp
<1>11. CASE UNCHANGED <<phase, toCore>>
  <2>1. RunSound(j)'
    BY <1>1, <1>11, WritesNothing, OthersSound
  <2> QED
    BY <1>1, <1>11, <2>1, WritesNothing, TurnSound DEF TurnOf
<1> QED
  BY <1>4, <1>5, <1>6, <1>7, <1>8, <1>9, <1>10, <1>11

\* The runner receives an answer, or drops it.
LEMMA ReceivesSound ==
    ASSUME RunsSound, RunnerTypeOK, IInv, RunnerReceives, UNCHANGED vars
    PROVE  RunsSound'
<1> DEFINE m == Head(toRunner)
<1>1. toRunner # << >> /\ toRunner' = Tail(toRunner) /\ UNCHANGED <<unconfirmed, linkUp>>
  BY DEF RunnerReceives
<1>2. m.job \in Job /\ \A k \in Job : Shrinks(k)
  BY <1>1, ReceivedShrinks DEF RunnerTypeOK, Message
<1>3. CASE GrantedLate(m)
  <2>1. PICK j \in Job : j = m.job
    BY <1>2
  <2>2. IssuesCancel(j) /\ Moves(j, "grace")
    BY <1>3, <2>1 DEF RunnerReceives
  <2>3. phase'[j] = "grace" /\ \A k \in Job \ {j} : phase'[k] = phase[k]
    BY <2>2 DEF Moves, RunnerTypeOK
  <2>4. GivenUp(j)'
    BY <2>3 DEF GivenUp
  <2> QED
    BY <1>1, <1>2, <2>2, <2>3, <2>4, CancelSound
<1>4. CASE ~GrantedLate(m)
  BY <1>1, <1>4, AnsweredSound DEF RunnerReceives
<1> QED
  BY <1>3, <1>4

\* The channel closes only when the Core has stopped.
LEMMA CloseSound ==
    ASSUME RunsSound, RunnerTypeOK, LinkCloses, UNCHANGED vars
    PROVE  RunsSound'
<1>1. mode' = "stopped" /\ toCore' = << >> /\ UNCHANGED <<toRunner, cancelIssued>>
  BY DEF LinkCloses, Alive, vars
<1>2. ASSUME NEW k \in Job PROVE RunSound(k)'
  <2>1. Openers(k)' = {} /\ InFlight(k, "request_permit")' = {}
    BY <1>1 DEF Openers, InFlight
  <2>2. Shrinks(k) /\ Answers(k)' = Answers(k) /\ RunSound(k)
    BY <1>1, SameShrinks DEF RunsSound
  <2>3. phase'[k] = phase[k] \/ phase'[k] = "returned"
    BY DEF LinkCloses, RunnerTypeOK
  <2>4. OneOpen(k)'
    BY <2>1, <2>2, <2>3, CoreStands DEF RunSound, OneOpen, Shrinks, Single
  <2>5. AnswersTrue(k)'
    BY <2>1, <2>2, CoreStands DEF RunSound, AnswersTrue, Shrinks
  <2>6. k \in cancelIssued' => GivenUp(k)'
    BY <1>1, <2>2, <2>3 DEF RunSound, GivenUp
  <2>7. ~Unheld(k)' => Live(activePermitsByJob[k])'
    BY <2>2 DEF RunSound, vars, registry, workers, Unheld, Live
  <2> QED
    BY <1>1, <2>4, <2>5, <2>6, <2>7 DEF RunSound
<1> QED
  BY <1>1, <1>2 DEF RunsSound

LEMMA GraceSound ==
    ASSUME RunsSound, RunnerTypeOK, NEW j \in Job, GraceOver(j), UNCHANGED vars
    PROVE  RunsSound'
BY SameShrinks, ReturnsSound DEF GraceOver, GivenUp, channels

\* All turns of the runner.
LEMMA RunnerTurnSound ==
    ASSUME RunsSound, RunnerTypeOK, IInv, RunnerTurn
    PROVE  RunsSound'
BY StartSound, StepAbortSound, DeadlineSound, BackoffSound, GraceSound, TimeoutSound,
   ReceivesSound, CloseSound DEF RunnerTurn

-----------------------------------------------------------------------------
(* So do the turns of the Core. *)

\* What a turn of the Core that is not about k does: it may read a message about
\* another run, end workers of k or tell them to stop.
CoreKeeps(k) ==
    /\ UNCHANGED runs
    /\ mode' = "serving" => mode = "serving"
    /\ toCore' = toCore
       \/ (toCore # << >> /\ toCore' = Tail(toCore) /\ Head(toCore).job # k)
    /\ Answers(k)' = Answers(k) /\ Reports(k)' = Reports(k)
    /\ \A i \in Answers(k) : toRunner'[i] = toRunner[i]
    /\ k \in jobs' <=> k \in jobs
    /\ activePermitsByJob'[k] = activePermitsByJob[k]
    /\ \A p \in WorkersOf(k)' : /\ p \in WorkersOf(k)
                                /\ p \in aborted => p \in aborted'
                                /\ worker[p] = "over" => worker'[p] = "over"
    /\ ~Unheld(k) => Live(activePermitsByJob[k])'

\* The messages about k keep their order when the Core reads one about another run,
\* or one that is a cancel_job.
LEMMA ReadKeepsOrder ==
    ASSUME RunnerTypeOK, toCore # << >>, toCore' = Tail(toCore), NEW k \in Job
    PROVE  /\ Single(Openers(k)) => Single(Openers(k)')
           /\ Openers(k) = {} => Openers(k)' = {}
           /\ InFlight(k, "request_permit") = {} => InFlight(k, "request_permit")' = {}
           /\ LastWord(k) => LastWord(k)' \/ (Head(toCore) = Plain("cancel_job", k) /\ Openers(k)' = {})
           /\ Single(Openers(k)) /\ 1 \in Openers(k) => Openers(k)' = {}
<1>1. toCore \in Seq(RequestMessage) /\ Len(toCore) \in Nat \ {0} /\ Head(toCore) = toCore[1]
      /\ DOMAIN toCore = 1..Len(toCore)
  BY DEF RunnerTypeOK
<1>2. \A u : InFlight(k, u)' = {i \in 1..(Len(toCore) - 1) : i + 1 \in InFlight(k, u)}
  BY ReadWhere
<1>3. Openers(k)' = {i \in 1..(Len(toCore) - 1) : i + 1 \in Openers(k)}
  BY <1>2 DEF Openers
<1>4. Single(Openers(k)) => Single(Openers(k)')
  <2> SUFFICES ASSUME Single(Openers(k)), NEW i \in Openers(k)', NEW n \in Openers(k)' PROVE i = n
    BY DEF Single
  <2>1. i + 1 = n + 1 /\ i \in Int /\ n \in Int
    BY <1>3 DEF Single
  <2> QED
    BY <2>1
<1>5. Single(Openers(k)) /\ 1 \in Openers(k) => Openers(k)' = {}
  <2> SUFFICES ASSUME Single(Openers(k)), 1 \in Openers(k), NEW i \in Openers(k)' PROVE FALSE
    OBVIOUS
  <2>1. i + 1 = 1 /\ i \in 1..(Len(toCore) - 1)
    BY <1>3 DEF Single
  <2> QED
    BY <1>1, <2>1
<1>6. LastWord(k) => LastWord(k)' \/ (Head(toCore) = Plain("cancel_job", k) /\ Openers(k)' = {})
  <2> SUFFICES ASSUME LastWord(k)
               PROVE  LastWord(k)' \/ (Head(toCore) = Plain("cancel_job", k) /\ Openers(k)' = {})
    OBVIOUS
  <2>1. PICK i \in InFlight(k, "cancel_job") : \A n \in Openers(k) : n < i
    BY DEF LastWord
  <2>2. i \in 1..Len(toCore) /\ toCore[i] = Plain("cancel_job", k)
    BY <1>1, <2>1 DEF InFlight
  <2>3. CASE i = 1
    <3>1. Openers(k) \subseteq 1..Len(toCore)
      BY <1>1 DEF Openers, InFlight
    <3>2. Openers(k) = {}
      BY <1>1, <2>1, <2>3, <3>1
    <3> QED
      BY <1>1, <1>3, <2>2, <2>3, <3>2
  <2>4. CASE i # 1
    <3>1. i - 1 \in 1..(Len(toCore) - 1) /\ (i - 1) + 1 = i
      BY <1>1, <2>2, <2>4
    <3>2. i - 1 \in InFlight(k, "cancel_job")'
      BY <1>2, <2>1, <3>1
    <3>3. \A n \in Openers(k)' : n < i - 1
      <4> SUFFICES ASSUME NEW n \in Openers(k)' PROVE n < i - 1
        OBVIOUS
      <4>1. n \in 1..(Len(toCore) - 1) /\ n + 1 < i
        BY <1>3, <2>1
      <4> QED
        BY <2>2, <4>1
    <3> QED
      BY <3>2, <3>3 DEF LastWord
  <2> QED
    BY <2>3, <2>4
<1> QED
  BY <1>2, <1>3, <1>4, <1>5, <1>6

\* What is known of k survives a turn of the Core that is not about it.
LEMMA CoreKeepsSound ==
    ASSUME RunnerTypeOK, IInv, NEW k \in Job, RunSound(k), CoreKeeps(k)
    PROVE  RunSound(k)'
<1>1. /\ Single(Openers(k)) => Single(Openers(k)')
      /\ Openers(k) = {} => Openers(k)' = {}
      /\ InFlight(k, "request_permit") = {} => InFlight(k, "request_permit")' = {}
      /\ LastWord(k) => LastWord(k)'
  <2>1. CASE toCore' = toCore
    <3>1. \A u : InFlight(k, u)' = InFlight(k, u)
      BY <2>1 DEF InFlight
    <3> QED
      BY <3>1 DEF Openers, LastWord
  <2>2. CASE toCore # << >> /\ toCore' = Tail(toCore) /\ Head(toCore).job # k
    <3>1. Head(toCore) # Plain("cancel_job", k)
      BY <2>2 DEF Plain
    <3> QED
      BY <2>2, <3>1, ReadKeepsOrder
  <2> QED
    BY <2>1, <2>2 DEF CoreKeeps
<1>2. /\ phase' = phase /\ cancelIssued' = cancelIssued /\ unconfirmed' = unconfirmed
      /\ Unheld(k)' <=> Unheld(k)
      /\ (Single(Answers(k)))' <=> Single(Answers(k))
      /\ (Single(Openers(k)))' <=> Single(Openers(k)')
  BY DEF CoreKeeps, runs, Unheld, Single
<1>3. OneOpen(k)'
  BY <1>1, <1>2 DEF RunSound, OneOpen, CoreKeeps
<1>4. AnswersTrue(k)'
  BY <1>1, <1>2 DEF RunSound, AnswersTrue, CoreKeeps
<1>5. AllTold(k) => AllTold(k)'
  BY <1>1, <1>2 DEF AllTold, CoreKeeps
<1>6. GivenUp(k)' <=> GivenUp(k)
  BY <1>2 DEF GivenUp
<1>7. ~Unheld(k)' => Live(activePermitsByJob[k])'
  BY <1>2 DEF CoreKeeps
<1> QED
  BY <1>1, <1>2, <1>3, <1>4, <1>5, <1>6, <1>7 DEF RunSound, CoreKeeps

\* Workers go on, end and are told to stop; nothing is written.
LEMMA QuietSound ==
    ASSUME RunsSound, RunnerTypeOK, IInv, UNCHANGED <<runs, toCore, linkUp>>,
           toRunner' = toRunner,
           mode' # mode => mode # "stopped" /\ mode' # "serving",
           UNCHANGED <<jobs, activePermitsByJob, holder>>,
           \A p \in aborted : p \in aborted',
           \A p \in Permit : /\ Live(p)' <=> Live(p)
                             /\ worker[p] = "over" => worker'[p] = "over"
    PROVE  RunsSound'
<1>1. ASSUME NEW k \in Job PROVE CoreKeeps(k)
  <2>1. Answers(k)' = Answers(k) /\ Reports(k)' = Reports(k)
    BY DEF Answers, Reports, IsAnswer
  <2>2. WorkersOf(k)' = WorkersOf(k)
    BY DEF WorkersOf
  <2>3. ~Unheld(k) => Live(activePermitsByJob[k])'
    <3>1. ~Unheld(k) => activePermitsByJob[k] \in Permit /\ Live(activePermitsByJob[k])
      BY DEF RunsSound, RunSound, Unheld, IInv, TypeOK
    <3>2. activePermitsByJob' = activePermitsByJob
      OBVIOUS
    <3> QED
      BY <3>1, <3>2 DEF Live
  <2> QED
    BY <2>1, <2>2, <2>3 DEF CoreKeeps, WorkersOf
<1>2. \A k \in Job : RunSound(k)'
  BY <1>1, CoreKeepsSound DEF RunsSound
<1> QED
  BY <1>2 DEF RunsSound

LEMMA NothingSent ==
    ASSUME RunnerTypeOK, sent' = << >>, toRunner' = toRunner \o sent'
    PROVE  toRunner' = toRunner
BY DEF RunnerTypeOK

\* A result is reported: the permit, the job and the worker are gone together.
LEMMA ReportedSound ==
    ASSUME RunsSound, RunnerTypeOK, IInv, IInv', NEW p \in Permit, WorkerReported(p),
           UNCHANGED <<runs, toCore, linkUp>>, toRunner' = toRunner \o sent'
    PROVE  RunsSound'
<1>1. /\ Live(p) /\ holder[p] \in jobs /\ holder[p] \in Job
      /\ activePermitsByJob[holder[p]] = p
  BY DEF WorkerReported, Live, IInv, CancelReaches, TypeOK
<1>2. PICK j \in Job : j = holder[p]
  BY <1>1
<1>3. PICK m \in Message : m = Completed(j, outcome[p])
  BY <1>2, MessageTypes DEF IInv, TypeOK
<1>4. /\ toRunner' = toRunner \o <<m>>
      /\ m.type = "job_completed" /\ m.job = j
      /\ activePermitsByJob' = [activePermitsByJob EXCEPT ![j] = NoPermit]
      /\ jobs' = jobs \ {j} /\ mode' = mode
      /\ worker' = [worker EXCEPT ![p] = "none"]
      /\ aborted' = aborted \ {p}
      /\ holder' = [holder EXCEPT ![p] = NoJob]
  BY <1>2, <1>3 DEF WorkerReported, Completed, Ended
<1>5. \A k \in Job : /\ Answers(k)' = Answers(k)
                     /\ \A i \in Answers(k) : toRunner'[i] = toRunner[i]
                     /\ k # j => Reports(k)' = Reports(k)
  BY <1>4, SentWhere DEF IsAnswer
<1>6. ASSUME NEW k \in Job \ {j} PROVE RunSound(k)'
  <2>1. WorkersOf(k)' \subseteq WorkersOf(k) \ {p}
    BY <1>2, <1>4, Markers DEF WorkersOf, Live, IInv, TypeOK
  <2>2. ~Unheld(k) => Live(activePermitsByJob[k])'
    <3> SUFFICES ASSUME ~Unheld(k) PROVE Live(activePermitsByJob[k])'
      OBVIOUS
    <3>1. PICK q \in Permit : q = activePermitsByJob[k]
      BY DEF Unheld, IInv, TypeOK
    <3>2. Live(q) /\ holder[q] = k
      BY <3>1 DEF RunsSound, RunSound, IInv, Linked, Unheld
    <3>3. q # p /\ activePermitsByJob'[k] = q
      BY <1>2, <1>4, <3>1, <3>2 DEF IInv, TypeOK
    <3>4. Live(q)'
      BY <1>4, <3>2, <3>3 DEF Live, IInv, TypeOK
    <3> QED
      BY <3>3, <3>4 DEF Live
  <2>3. activePermitsByJob'[k] = activePermitsByJob[k] /\ (k \in jobs' <=> k \in jobs)
    BY <1>4 DEF IInv, TypeOK
  <2>4. \A q \in WorkersOf(k)' : /\ q \in WorkersOf(k)
                                 /\ q \in aborted => q \in aborted'
                                 /\ worker[q] = "over" => worker'[q] = "over"
    BY <1>4, <2>1 DEF WorkersOf, IInv, TypeOK
  <2> QED
    BY <1>4, <1>5, <2>2, <2>3, <2>4, CoreKeepsSound DEF CoreKeeps, RunsSound
<1>7. RunSound(j)'
  <2>1. RunSound(j) /\ ~Unheld(j)
    BY <1>1, <1>2, Markers DEF RunsSound, Unheld
  <2>2. Openers(j) = {} /\ phase[j] \notin {"idle", "submitting", "backoff"}
        /\ \A i \in Answers(j) : toRunner[i].type = "permit_granted"
    BY <2>1 DEF RunSound, OneOpen, AnswersTrue
  <2>3. Openers(j)' = {} /\ InFlight(j, "request_permit")' = {}
        /\ phase' = phase /\ cancelIssued' = cancelIssued /\ unconfirmed' = unconfirmed
    BY <2>2 DEF Openers, InFlight, runs
  <2>4. Unheld(j)' /\ j \notin jobs'
    BY <1>4 DEF Unheld, IInv, TypeOK
  <2>5. WorkersOf(j)' = {}
    BY <2>4, <1>4, Markers DEF WorkersOf, Unheld, IInv, CancelReaches, TypeOK
  <2>6. OneOpen(j)'
    BY <1>5, <2>1, <2>2, <2>3 DEF RunSound, OneOpen, Single
  <2>7. AnswersTrue(j)'
    BY <1>5, <2>2, <2>3, <2>4 DEF AnswersTrue
  <2>8. AllTold(j)'
    BY <2>3, <2>4, <2>5 DEF AllTold
  <2>9. j \in cancelIssued' => GivenUp(j)'
    BY <2>1, <2>3 DEF RunSound, GivenUp
  <2> QED
    BY <2>4, <2>6, <2>7, <2>8, <2>9 DEF RunSound
<1> QED
  BY <1>4, <1>6, <1>7 DEF RunsSound

\* What the Core does of itself.
LEMMA ProceedsSound ==
    ASSUME RunsSound, RunnerTypeOK, IInv, IInv', CoreProceeds
    PROVE  RunsSound'
<1>0. Progress /\ toRunner' = toRunner \o sent' /\ UNCHANGED <<runs, toCore, linkUp>>
  BY DEF CoreProceeds
<1>1. ASSUME NEW p \in Permit, Deadline(p) PROVE RunsSound'
  BY <1>0, <1>1, NothingSent, QuietSound DEF Deadline, Revoked, registry, permits, workers, Live, gate
<1>2. ASSUME NEW p \in Permit, WorkerStarts(p) PROVE RunsSound'
  <2>1. \A q \in Permit : /\ Live(q)' <=> Live(q)
                          /\ worker[q] = "over" => worker'[q] = "over"
    BY <1>2 DEF WorkerStarts, Live, IInv, TypeOK
  <2> QED
    BY <1>0, <1>2, <2>1, NothingSent, QuietSound DEF WorkerStarts, registry, permits, gate
<1>3. ASSUME NEW p \in Permit, WorkerEnds(p) PROVE RunsSound'
  <2>1. \A q \in Permit : /\ Live(q)' <=> Live(q)
                          /\ worker[q] = "over" => worker'[q] = "over"
    BY <1>3 DEF WorkerEnds, Live, IInv, TypeOK
  <2> QED
    BY <1>0, <1>3, <2>1, NothingSent, QuietSound DEF WorkerEnds, registry, permits, gate
<1>4. ASSUME NEW p \in Permit, WorkerReported(p) PROVE RunsSound'
  BY <1>0, <1>4, ReportedSound
<1>5. CASE WindowSlides
  BY <1>0, <1>5, NothingSent, QuietSound DEF WindowSlides, registry, permits, gate, workers, Live
<1>6. CASE Shutdown
  BY <1>0, <1>6, NothingSent, QuietSound DEF Shutdown, registry, permits, Live
<1>7. CASE ShutdownDone
  BY <1>0, <1>7, NothingSent, QuietSound DEF ShutdownDone, registry, permits, gate, workers, Live
<1> QED
  BY <1>0, <1>1, <1>2, <1>3, <1>4, <1>5, <1>6, <1>7 DEF Progress

\* The first message on its way to the Core.
LEMMA HeadWhere ==
    ASSUME RunnerTypeOK, toCore # << >>
    PROVE  \E j \in Job, t \in {"submit_job", "request_permit", "cancel_job"} :
              Head(toCore) = Plain(t, j) /\ 1 \in InFlight(j, t)
<1>1. toCore \in Seq(RequestMessage) /\ Head(toCore) = toCore[1] /\ 1 \in DOMAIN toCore
      /\ toCore[1] \in RequestMessage
  BY DEF RunnerTypeOK
<1>2. PICK j \in Job, t \in {"submit_job", "request_permit", "cancel_job"} :
          toCore[1] = [type |-> t, job |-> j]
  BY <1>1 DEF RequestMessage
<1> QED
  BY <1>1, <1>2 DEF Plain, InFlight

\* What the Core writes about one run is nothing to the others.
LEMMA SentAboutOne ==
    ASSUME RunnerTypeOK, sent' \in Seq(Message), toRunner' = toRunner \o sent',
           NEW j, \A i \in DOMAIN sent' : sent'[i].job = j, NEW k \in Job, k # j
    PROVE  /\ Answers(k)' = Answers(k) /\ Reports(k)' = Reports(k)
           /\ \A i \in Answers(k) : toRunner'[i] = toRunner[i]
<1>1. toRunner \in Seq(Message)
  BY DEF RunnerTypeOK
<1>2. PICK s \in Seq(Message) : s = sent'
  OBVIOUS
<1>3. toRunner' = toRunner \o s /\ \A i \in 1..Len(s) : s[i].job = j
  BY <1>2
<1>4. /\ DOMAIN toRunner = 1..Len(toRunner) /\ Len(toRunner) \in Nat /\ Len(s) \in Nat
      /\ DOMAIN toRunner' = 1..(Len(toRunner) + Len(s))
      /\ \A i \in 1..Len(toRunner) : toRunner'[i] = toRunner[i]
  BY <1>1, <1>3
<1>5. ASSUME NEW i \in 1..(Len(toRunner) + Len(s)), i \notin 1..Len(toRunner)
      PROVE  toRunner'[i].job = j
  <2>1. i - Len(toRunner) \in 1..Len(s) /\ toRunner'[i] = s[i - Len(toRunner)]
    BY <1>1, <1>3, <1>4, <1>5
  <2> QED
    BY <1>3, <2>1
<1>6. \A i : i \in 1..Len(toRunner) => i \in 1..(Len(toRunner) + Len(s))
  BY <1>4
<1>7. Answers(k)' = Answers(k)
  BY <1>4, <1>5, <1>6 DEF Answers, IsAnswer
<1>8. Reports(k)' = Reports(k)
  BY <1>4, <1>5, <1>6 DEF Reports
<1> QED
  BY <1>4, <1>7, <1>8 DEF Answers

\* The Core reads a message about j: the other runs stay as they are.
LEMMA OtherJobsSound ==
    ASSUME RunsSound, RunnerTypeOK, IInv, IInv', toCore # << >>, toCore' = Tail(toCore),
           NEW j \in Job, Head(toCore).job = j, UNCHANGED runs, mode' = mode,
           toRunner' = toRunner \o sent', \A i \in DOMAIN sent' : sent'[i].job = j,
           \A q \in aborted : q \in aborted',
           \A q \in Permit : \/ worker'[q] = worker[q] /\ holder'[q] = holder[q]
                             \/ holder[q] = NoJob /\ holder'[q] = j,
           NEW k \in Job, k # j, k \in jobs' <=> k \in jobs,
           activePermitsByJob'[k] = activePermitsByJob[k]
    PROVE  RunSound(k)'
<1>1. /\ Answers(k)' = Answers(k) /\ Reports(k)' = Reports(k)
      /\ \A i \in Answers(k) : toRunner'[i] = toRunner[i]
  <2>1. sent' \in Seq(Message)
    BY DEF IInv, TypeOK
  <2> QED
    BY <2>1, SentAboutOne
<1>2. \A q \in WorkersOf(k)' : worker'[q] = worker[q] /\ holder'[q] = holder[q]
  BY DEF WorkersOf
<1>3. \A q \in WorkersOf(k)' : q \in WorkersOf(k)
  BY <1>2 DEF WorkersOf, Live
<1>4. ~Unheld(k) => Live(activePermitsByJob[k])'
  <2> SUFFICES ASSUME ~Unheld(k) PROVE Live(activePermitsByJob[k])'
    OBVIOUS
  <2>1. PICK q \in Permit : q = activePermitsByJob[k]
    BY DEF Unheld, IInv, TypeOK
  <2>2. Live(q) /\ holder[q] = k
    BY <2>1 DEF RunsSound, RunSound, IInv, Linked, Unheld
  <2>3. worker'[q] = worker[q]
    BY <2>2, Markers
  <2> QED
    BY <2>1, <2>2, <2>3 DEF Live
<1>5. CoreKeeps(k)
  BY <1>1, <1>2, <1>3, <1>4 DEF CoreKeeps
<1> QED
  BY <1>5, CoreKeepsSound DEF RunsSound

\* What is known of j when the Core reads what makes it take j up.
LEMMA OpeningRead ==
    ASSUME RunnerTypeOK, toCore # << >>, toCore' = Tail(toCore), NEW j \in Job,
           NEW t \in Opening, Head(toCore) = Plain(t, j), 1 \in InFlight(j, t), RunSound(j)
    PROVE  /\ Openers(j)' = {} /\ InFlight(j, "request_permit")' = {}
           /\ Answers(j) = {} /\ Reports(j) = {} /\ Unheld(j)
           /\ phase[j] \notin {"idle", "backoff"}
           /\ LastWord(j) => LastWord(j)'
           /\ AllTold(j) => t # "request_permit" /\ j \in unconfirmed
           /\ t = "request_permit" => phase[j] # "submitting"
<1>1. 1 \in Openers(j)
  BY DEF Openers, Opening
<1>2. Openers(j)' = {}
  BY <1>1, ReadKeepsOrder DEF RunSound, OneOpen
<1>3. InFlight(j, "request_permit")' = {}
  BY <1>2 DEF Openers
<1>4. Head(toCore) # Plain("cancel_job", j)
  BY PlainIs DEF Opening
<1>5. LastWord(j) => LastWord(j)'
  BY <1>4, ReadKeepsOrder
<1> QED
  BY <1>1, <1>2, <1>3, <1>5 DEF RunSound, OneOpen, AllTold

\* The Core reads a submission: the run gets its ack.
LEMMA SubmissionRead ==
    ASSUME RunsSound, RunnerTypeOK, IInv, toCore # << >>, toCore' = Tail(toCore),
           UNCHANGED <<runs, linkUp>>, toRunner' = toRunner \o sent', NEW j \in Job,
           Head(toCore) = Plain("submit_job", j), 1 \in InFlight(j, "submit_job"), SubmitJob(j)
    PROVE  RunSound(j)'
<1>1. PICK m \in Message : m = Plain("ack", j)
  BY MessageTypes
<1>2. /\ toRunner' = toRunner \o <<m>> /\ m.type = "ack" /\ m.job = j
      /\ UNCHANGED <<mode, activePermitsByJob, worker, holder, aborted, phase, cancelIssued, unconfirmed>>
  BY <1>1 DEF SubmitJob, Plain, permits, gate, workers, runs
<1>3. /\ Openers(j)' = {} /\ InFlight(j, "request_permit")' = {}
      /\ Answers(j) = {} /\ Reports(j) = {} /\ Unheld(j)
      /\ phase[j] \notin {"idle", "backoff"}
      /\ LastWord(j) => LastWord(j)'
      /\ AllTold(j) => j \in unconfirmed
      /\ RunSound(j)
  BY OpeningRead DEF Opening, RunsSound
<1>4. /\ Answers(j)' = {Len(toRunner) + 1} /\ Reports(j)' = {}
      /\ toRunner'[Len(toRunner) + 1].type = "ack"
  BY <1>2, <1>3, SentWhere DEF IsAnswer
<1>5. Unheld(j)' /\ WorkersOf(j)' = WorkersOf(j)
  BY <1>2, <1>3 DEF Unheld, WorkersOf, Live
<1>6. OneOpen(j)'
  BY <1>2, <1>3, <1>4, <1>5 DEF OneOpen, Single
<1>7. AnswersTrue(j)'
  BY <1>4, <1>5 DEF AnswersTrue
<1>8. AllTold(j) => AllTold(j)'
  BY <1>2, <1>3, <1>5 DEF AllTold
<1> QED
  BY <1>2, <1>3, <1>5, <1>6, <1>7, <1>8 DEF RunSound, GivenUp

\* The Core reads a request for a permit: the run gets the one answer it waits for.
LEMMA RequestRead ==
    ASSUME RunsSound, RunnerTypeOK, IInv, IInv', toCore # << >>, toCore' = Tail(toCore),
           UNCHANGED <<runs, linkUp>>, toRunner' = toRunner \o sent', NEW j \in Job,
           Head(toCore) = Plain("request_permit", j), 1 \in InFlight(j, "request_permit"),
           RequestPermit(j, 0)
    PROVE  RunSound(j)'
<1>1. /\ Openers(j)' = {} /\ InFlight(j, "request_permit")' = {}
      /\ Answers(j) = {} /\ Reports(j) = {} /\ Unheld(j)
      /\ phase[j] \notin {"idle", "submitting", "backoff"}
      /\ LastWord(j) => LastWord(j)'
      /\ ~AllTold(j)
      /\ RunSound(j)
  BY OpeningRead DEF Opening, RunsSound
<1>2. phase' = phase /\ cancelIssued' = cancelIssued /\ mode' = mode
  BY DEF RequestPermit, runs
<1>3. GivenUp(j)' /\ mode' = "serving" => LastWord(j)'
  BY <1>1, <1>2 DEF RunSound, GivenUp
<1>4. j \in cancelIssued' => GivenUp(j)'
  BY <1>1, <1>2 DEF RunSound, GivenUp
<1>5. CASE RequestRefused(j, 0)
  <2>1. PICK m \in Message : m = Rejected(j, Verdict(j, 0))
    BY <1>5, VerdictType, MessageTypes DEF RequestRefused
  <2>2. toRunner' = toRunner \o <<m>> /\ m.type = "permit_rejected" /\ m.job = j
        /\ activePermitsByJob' = activePermitsByJob
    BY <1>5, <2>1 DEF RequestRefused, Rejected
  <2>3. Answers(j)' = {Len(toRunner) + 1} /\ Reports(j)' = {}
    BY <1>1, <2>2, SentWhere DEF IsAnswer
  <2>4. Unheld(j)'
    BY <1>1, <2>2 DEF Unheld
  <2>5. OneOpen(j)' /\ AnswersTrue(j)'
    BY <1>1, <1>2, <2>3, <2>4 DEF OneOpen, AnswersTrue, Single
  <2> QED
    BY <1>3, <1>4, <2>4, <2>5 DEF RunSound
<1>6. ASSUME NEW p \in Permit, RequestGranted(j, 0, p) PROVE RunSound(j)'
  <2>1. PICK m \in Message : m = Plain("permit_granted", j)
    BY MessageTypes
  <2>2. toRunner' = toRunner \o <<m>> /\ m.type = "permit_granted" /\ m.job = j
    BY <1>6, <2>1 DEF RequestGranted, Plain
  <2>3. Answers(j)' = {Len(toRunner) + 1} /\ Reports(j)' = {}
        /\ toRunner'[Len(toRunner) + 1].type = "permit_granted"
    BY <1>1, <2>2, SentWhere DEF IsAnswer
  <2>4. activePermitsByJob'[j] = p /\ worker'[p] = "starting"
    BY <1>6, RunnerJobs DEF RequestGranted, IInv, TypeOK
  <2>5. Live(activePermitsByJob[j])'
    BY <2>4 DEF Live
  <2>6. OneOpen(j)'
    BY <1>1, <1>2, <2>3 DEF OneOpen, Single
  <2>7. AnswersTrue(j)'
    BY <2>3 DEF AnswersTrue
  <2> QED
    BY <1>3, <1>4, <2>5, <2>6, <2>7 DEF RunSound
<1>7. CASE RequestGrantedInvalid(j, 0)
  <2>1. PICK m \in Message : m = Plain("permit_granted", j)
    BY MessageTypes
  <2>2. PICK n \in Message : n = Completed(j, "failed")
    BY MessageTypes DEF Outcome
  <2>3. /\ m.type = "permit_granted" /\ m.job = j /\ n.type = "job_completed" /\ n.job = j
        /\ toRunner' = toRunner \o <<m, n>>
    BY <1>7, <2>1, <2>2 DEF RequestGrantedInvalid, Plain, Completed
  <2>4. /\ DOMAIN toRunner = 1..Len(toRunner) /\ Len(toRunner) \in Nat
        /\ DOMAIN toRunner' = 1..(Len(toRunner) + 2)
        /\ toRunner'[Len(toRunner) + 1] = m /\ toRunner'[Len(toRunner) + 2] = n
        /\ \A i \in 1..Len(toRunner) : toRunner'[i] = toRunner[i]
    <3>1. toRunner \in Seq(Message)
      BY DEF RunnerTypeOK
    <3> QED
      BY <2>3, <3>1
  <2>5. \A i \in 1..(Len(toRunner) + 2) :
            i \in 1..Len(toRunner) \/ i = Len(toRunner) + 1 \/ i = Len(toRunner) + 2
    BY <2>4
  <2>6. \A i \in 1..Len(toRunner) : ~IsAnswer(toRunner[i], j)
    BY <1>1, <2>4 DEF Answers
  <2>7. \A i \in Answers(j)' : i = Len(toRunner) + 1 /\ toRunner'[i].type = "permit_granted"
    BY <2>3, <2>4, <2>5, <2>6 DEF Answers, IsAnswer
  <2>8. \A i \in Reports(j)' : i = Len(toRunner) + 2
    <3>1. \A i \in 1..Len(toRunner) : ~(toRunner[i].type = "job_completed" /\ toRunner[i].job = j)
      BY <1>1, <2>4 DEF Reports
    <3> QED
      BY <2>3, <2>4, <2>5, <3>1 DEF Reports
  <2>9. Unheld(j)' /\ j \notin jobs'
    BY <1>1, <1>7 DEF RequestGrantedInvalid, Unheld
  <2>10. OneOpen(j)'
    BY <1>1, <1>2, <2>7, <2>9 DEF OneOpen, Single
  <2>11. AnswersTrue(j)'
    BY <1>1, <2>7, <2>9 DEF AnswersTrue
  <2> QED
    BY <1>3, <1>4, <2>9, <2>10, <2>11 DEF RunSound
<1>8. ~RequestDuplicate(j)
  BY <1>1 DEF RequestDuplicate, Unheld
<1> QED
  BY <1>5, <1>6, <1>7, <1>8 DEF RequestPermit

\* The Core reads a cancel_job: afterwards either another message about j comes
\* before another cancel_job, or there is nothing left to cancel.
LEMMA CancelRead ==
    ASSUME RunsSound, RunnerTypeOK, IInv, toCore # << >>, toCore' = Tail(toCore),
           UNCHANGED <<runs, linkUp>>, toRunner' = toRunner \o sent', NEW j \in Job,
           CancelJob(j)
    PROVE  RunSound(j)'
<1>1. PICK m \in Message : m.type \in {"job_cancelled", "error"} /\ m.job = j /\ toRunner' = toRunner \o <<m>>
  BY MessageTypes DEF CancelJob, CancelUnknown, CancelActive, CancelWaiting, Plain
<1>2. UNCHANGED <<mode, activePermitsByJob, worker, holder, phase, cancelIssued, unconfirmed>>
      /\ jobs' \subseteq jobs
  BY DEF CancelJob, CancelUnknown, CancelActive, CancelWaiting, registry, permits, workers, runs
<1>3. \A p \in aborted : p \in aborted'
  BY DEF CancelJob, CancelUnknown, CancelActive, CancelWaiting, Revoked, gate
<1>4. /\ Answers(j)' = Answers(j) /\ Reports(j)' = Reports(j)
      /\ \A i \in Answers(j) : toRunner'[i] = toRunner[i]
  BY <1>1, SentWhere DEF IsAnswer
<1>5. /\ Single(Openers(j)) => Single(Openers(j)')
      /\ Openers(j) = {} => Openers(j)' = {}
      /\ InFlight(j, "request_permit") = {} => InFlight(j, "request_permit")' = {}
      /\ LastWord(j) => LastWord(j)' \/ Openers(j)' = {}
  BY ReadKeepsOrder
<1>6. WorkersOf(j)' = WorkersOf(j) /\ (Unheld(j)' <=> Unheld(j)) /\ RunSound(j)
  BY <1>2 DEF WorkersOf, Live, Unheld, RunsSound
<1>7. OneOpen(j)'
  BY <1>2, <1>4, <1>5, <1>6 DEF RunSound, OneOpen, Single
<1>8. AnswersTrue(j)'
  BY <1>2, <1>4, <1>5, <1>6 DEF RunSound, AnswersTrue
<1>9. AllTold(j) => AllTold(j)'
  BY <1>2, <1>3, <1>5, <1>6 DEF AllTold
<1>10. Openers(j)' = {} => AllTold(j)'
  <2> SUFFICES ASSUME Openers(j)' = {} PROVE AllTold(j)'
    OBVIOUS
  <2>1. InFlight(j, "request_permit")' = {}
    BY DEF Openers
  <2>2. \A p \in WorkersOf(j) : /\ j \in jobs /\ activePermitsByJob[j] = p
                                /\ p \in activePermits \/ p \in aborted
    BY DEF WorkersOf, IInv, CancelReaches
  <2>3. CASE CancelUnknown(j) \/ CancelWaiting(j)
    <3>1. WorkersOf(j) = {} /\ j \notin jobs'
      BY <2>2, <2>3, Markers DEF CancelUnknown, CancelWaiting, registry, WorkersOf
    <3> QED
      BY <1>6, <2>1, <3>1 DEF AllTold
  <2>4. CASE CancelActive(j)
    <3>1. \A p \in WorkersOf(j) : p \in aborted'
      BY <1>3, <2>2, <2>4 DEF CancelActive, Revoked
    <3>2. ~Unheld(j)'
      BY <1>6, <2>4 DEF CancelActive, Unheld
    <3> QED
      BY <1>6, <2>1, <3>1, <3>2 DEF AllTold
  <2> QED
    BY <2>3, <2>4 DEF CancelJob
<1>11. GivenUp(j)' /\ mode' = "serving" => LastWord(j)' \/ AllTold(j)'
  BY <1>2, <1>5, <1>6, <1>9, <1>10 DEF RunSound, GivenUp
<1>12. j \in cancelIssued' => GivenUp(j)'
  BY <1>2, <1>6 DEF RunSound, GivenUp
<1>13. ~Unheld(j)' => Live(activePermitsByJob[j])'
  BY <1>2, <1>6 DEF RunSound, Live
<1> QED
  BY <1>7, <1>8, <1>11, <1>12, <1>13 DEF RunSound

\* The Core reads the next message.
LEMMA CoreReceivesSound ==
    ASSUME RunsSound, RunnerTypeOK, IInv, IInv', CoreReceives
    PROVE  RunsSound'
<1>0. /\ toCore # << >> /\ toCore' = Tail(toCore) /\ toRunner' = toRunner \o sent'
      /\ UNCHANGED <<runs, linkUp>> /\ Handles(Head(toCore))
  BY DEF CoreReceives
<1>1. PICK j \in Job, t \in {"submit_job", "request_permit", "cancel_job"} :
          Head(toCore) = Plain(t, j) /\ 1 \in InFlight(j, t)
  BY <1>0, HeadWhere
<1>2. Head(toCore).job = j /\ Head(toCore).type = t
  BY <1>1 DEF Plain
<1>3. \/ t = "submit_job" /\ SubmitJob(j)
      \/ t = "request_permit" /\ RequestPermit(j, 0)
      \/ t = "cancel_job" /\ CancelJob(j)
  BY <1>0, <1>2 DEF Handles
<1>4. RunSound(j)'
  BY <1>0, <1>1, <1>3, SubmissionRead, RequestRead, CancelRead
<1>5. mode' = mode
  BY <1>3 DEF SubmitJob, RequestPermit, CancelJob
<1>6. \A i \in DOMAIN sent' : sent'[i].job = j
  BY <1>3 DEF SubmitJob, RequestPermit, RequestDuplicate, RequestRefused, RequestGranted,
              RequestGrantedInvalid, CancelJob, CancelUnknown, CancelActive, CancelWaiting,
              Plain, Rejected, Completed
<1>7. \A q \in aborted : q \in aborted'
  BY <1>3 DEF SubmitJob, RequestPermit, RequestDuplicate, RequestRefused, RequestGranted,
              RequestGrantedInvalid, CancelJob, CancelUnknown, CancelActive, CancelWaiting,
              Revoked, gate
<1>8. \A q \in Permit : \/ worker'[q] = worker[q] /\ holder'[q] = holder[q]
                        \/ holder[q] = NoJob /\ holder'[q] = j
  <2>1. CASE worker' = worker /\ holder' = holder
    BY <2>1
  <2>2. ASSUME NEW p \in Permit, RequestGranted(j, 0, p)
        PROVE  \A q \in Permit : \/ worker'[q] = worker[q] /\ holder'[q] = holder[q]
                                 \/ holder[q] = NoJob /\ holder'[q] = j
    BY <2>2 DEF RequestGranted, IInv, TypeOK
  <2> QED
    BY <1>3, <2>1, <2>2 DEF SubmitJob, RequestPermit, RequestDuplicate, RequestRefused,
                            RequestGrantedInvalid, CancelJob, permits, workers
<1>9. ASSUME NEW k \in Job, k # j
      PROVE  (k \in jobs' <=> k \in jobs) /\ activePermitsByJob'[k] = activePermitsByJob[k]
  BY <1>3, <1>9 DEF SubmitJob, RequestPermit, RequestDuplicate, RequestRefused, RequestGranted,
              RequestGrantedInvalid, CancelJob, CancelUnknown, CancelActive, CancelWaiting,
              registry, IInv, TypeOK
<1>10. \A k \in Job : k # j => RunSound(k)'
  BY <1>0, <1>2, <1>5, <1>6, <1>7, <1>8, <1>9, OtherJobsSound
<1> QED
  BY <1>0, <1>4, <1>5, <1>10 DEF RunsSound

\* The strengthening is inductive.
LEMMA RunsStep ==
    ASSUME RunsSound, RunnerIInv, RunnerIInv', [RunnerNext]_allVars
    PROVE  RunsSound'
<1>1. CASE RunnerTurn
  BY <1>1, RunnerTurnSound DEF RunnerIInv
<1>2. CASE CoreReceives
  BY <1>2, CoreReceivesSound DEF RunnerIInv
<1>3. CASE CoreProceeds
  BY <1>3, ProceedsSound DEF RunnerIInv
<1>4. CASE UNCHANGED allVars
  BY <1>4 DEF allVars, vars, runnerVars, runs, channels, registry, permits, gate, workers,
              RunsSound, RunSound, OneOpen, AnswersTrue, LastWord, AllTold, GivenUp, Single,
              Unheld, Openers, Answers, Reports, IsAnswer, InFlight, WorkersOf, Live
<1> QED
  BY <1>1, <1>2, <1>3, <1>4 DEF RunnerNext

LEMMA RunsInit == Init /\ RunnerInit => RunsSound
<1> SUFFICES ASSUME Init, RunnerInit PROVE RunsSound
  OBVIOUS
<1>1. DOMAIN toCore = {} /\ DOMAIN toRunner = {}
  BY DEF RunnerInit
<1>2. \A j \in Job : /\ \A u : InFlight(j, u) = {}
                     /\ Openers(j) = {} /\ Answers(j) = {} /\ Reports(j) = {}
  BY <1>1 DEF Openers, Answers, Reports, InFlight
<1>3. \A j \in Job : phase[j] = "idle" /\ j \notin cancelIssued /\ Unheld(j)
  BY DEF Init, RunnerInit, Unheld
<1>4. \A j \in Job : RunSound(j)
  BY <1>2, <1>3 DEF RunSound, OneOpen, AnswersTrue, GivenUp, Single
<1> QED
  BY <1>4 DEF RunsSound, RunnerInit

LEMMA RunsInductive == RunnerSpec => [](RunnerIInv /\ RunsSound)
<1>1. Init /\ RunnerInit => RunsSound
  BY RunsInit
<1>2. RunnerIInv /\ RunsSound /\ RunnerIInv' /\ [RunnerNext]_allVars => RunsSound'
  BY RunsStep
<1> QED
  BY <1>1, <1>2, RunnerInductive, PTL DEF RunnerSpec

-----------------------------------------------------------------------------
(* A run whose submission was not acknowledged in time has asked for nothing. *)

Asks(k) == InFlight(k, "request_permit") # {}

Unasked(k) == k \in unconfirmed => phase[k] = "returned" /\ ~Asks(k) /\ WorkersOf(k) = {}

\* A write is no request of k, unless it is just that.
LEMMA WritesUnasked ==
    ASSUME RunnerTypeOK, NEW j \in Job, NEW k \in Job, ~Asks(k),
           \/ j # k /\ Writes("request_permit", j)
           \/ Writes("cancel_job", j) \/ Writes("submit_job", j) \/ toCore' = toCore
    PROVE  ~Asks(k)'
<1>1. CASE toCore' = toCore
  BY <1>1 DEF Asks, InFlight
<1>2. CASE ~linkUp
  BY <1>1, <1>2, LinkDownWrites
<1>3. ASSUME NEW t \in {"submit_job", "request_permit", "cancel_job"}, linkUp, Writes(t, j),
             j # k \/ t # "request_permit"
      PROVE  ~Asks(k)'
  BY <1>3, WritesWhere DEF Asks
<1> QED
  BY <1>1, <1>2, <1>3

\* What a turn of run j does to another run k: nothing.
Passes(k) == phase'[k] = phase[k] /\ (~Asks(k) => ~Asks(k)')

LEMMA MovesPasses ==
    ASSUME RunnerTypeOK, NEW j \in Job, NEW k \in Job, j # k, NEW p, Moves(j, p) \/ UNCHANGED phase
    PROVE  phase'[k] = phase[k]
BY DEF Moves, RunnerTypeOK

LEMMA AsksPasses ==
    ASSUME RunnerTypeOK, NEW j \in Job, NEW k \in Job, j # k, AsksForPermit(j) \/ GivesUp(j)
    PROVE  Passes(k)
<1>1. Writes("request_permit", j) \/ Writes("cancel_job", j)
  BY DEF AsksForPermit, GivesUp
<1>2. \E p : Moves(j, p)
  BY DEF AsksForPermit, GivesUp
<1> QED
  BY <1>1, <1>2, WritesUnasked, MovesPasses DEF Passes

\* A run that has returned stays so and asks for nothing more.
LEMMA ReturnedStays ==
    ASSUME RunnerTypeOK, RunnerTurn, NEW k \in Job, phase[k] = "returned"
    PROVE  Passes(k)
<1>1. ASSUME NEW j \in Job, Start(j) PROVE Passes(k)
  <2>1. j # k /\ (Moves(j, "returned") \/ Moves(j, "submitting"))
    BY <1>1 DEF Start
  <2>2. Writes("cancel_job", j) \/ Writes("submit_job", j) \/ toCore' = toCore
    BY <1>1 DEF Start, IssuesCancel
  <2> QED
    BY <2>1, <2>2, WritesUnasked, MovesPasses DEF Passes
<1>2. ASSUME NEW j \in Job, StepAbort(j) PROVE Passes(k)
  <2>1. j # k /\ (Moves(j, "returned") \/ Moves(j, "grace") \/ UNCHANGED phase)
    BY <1>2 DEF StepAbort
  <2>2. Writes("cancel_job", j) \/ toCore' = toCore
    BY <1>2 DEF StepAbort, IssuesCancel
  <2> QED
    BY <2>1, <2>2, WritesUnasked, MovesPasses DEF Passes
<1>3. ASSUME NEW j \in Job, DeadlinePasses(j) PROVE Passes(k)
  <2>1. j # k /\ (Moves(j, "grace") \/ UNCHANGED phase)
    BY <1>3 DEF DeadlinePasses
  <2>2. Writes("cancel_job", j) \/ toCore' = toCore
    BY <1>3 DEF DeadlinePasses, IssuesCancel
  <2> QED
    BY <2>1, <2>2, WritesUnasked, MovesPasses DEF Passes
<1>4. ASSUME NEW j \in Job, BackoffOver(j) PROVE Passes(k)
  BY <1>4, AsksPasses DEF BackoffOver
<1>5. ASSUME NEW j \in Job, GraceOver(j) PROVE Passes(k)
  BY <1>5, WritesUnasked, MovesPasses DEF GraceOver, channels, Passes
<1>6. ASSUME NEW j \in Job, RequestTimeout(j) PROVE Passes(k)
  <2>1. CASE GivesUp(j)
    BY <1>6, <2>1, AsksPasses DEF RequestTimeout
  <2>2. CASE Moves(j, "returned") /\ toCore' = toCore
    BY <1>6, <2>2, WritesUnasked, MovesPasses DEF RequestTimeout, Passes
  <2> QED
    BY <1>6, <2>1, <2>2 DEF RequestTimeout
<1>7. CASE RunnerReceives
  <2>1. PICK j \in Job : j = Head(toRunner).job
    BY <1>7 DEF RunnerReceives, RunnerTypeOK, Message
  <2>2. \/ j # k /\ IssuesCancel(j) /\ Moves(j, "grace")
        \/ j # k /\ (AsksForPermit(j) \/ GivesUp(j))
        \/ j # k /\ toCore' = toCore /\ (\E p \in {"executing", "backoff", "returned"} : Moves(j, p))
        \/ UNCHANGED <<phase, toCore>>
    BY <1>7, <2>1 DEF RunnerReceives, GrantedLate, Answered
  <2>3. CASE j # k /\ IssuesCancel(j) /\ Moves(j, "grace")
    BY <2>3, WritesUnasked, MovesPasses DEF IssuesCancel, Passes
  <2>4. CASE j # k /\ toCore' = toCore /\ (\E p \in {"executing", "backoff", "returned"} : Moves(j, p))
    BY <2>4, WritesUnasked, MovesPasses DEF Passes
  <2>5. CASE UNCHANGED <<phase, toCore>>
    BY <2>5 DEF Passes, Asks, InFlight
  <2> QED
    BY <2>2, <2>3, <2>4, <2>5, AsksPasses
<1>8. CASE LinkCloses
  BY <1>8 DEF LinkCloses, Passes, Asks, InFlight, RunnerTypeOK
<1> QED
  BY <1>1, <1>2, <1>3, <1>4, <1>5, <1>6, <1>7, <1>8 DEF RunnerTurn

\* A run gives up its submission before it has asked for anything.
LEMMA GivesUpUnasked ==
    ASSUME RunnerTypeOK, RunnerTurn, NEW k \in Job, k \notin unconfirmed, k \in unconfirmed'
    PROVE  phase[k] = "submitting" /\ phase'[k] = "returned" /\ (~Asks(k) => ~Asks(k)')
<1>1. LinkCloses \/ RequestTimeout(k)
  BY DEF RunnerTurn, Start, StepAbort, DeadlinePasses, BackoffOver, GraceOver, RequestTimeout, RunnerReceives
<1>2. CASE LinkCloses
  BY <1>2 DEF LinkCloses, Asks, InFlight
<1>3. CASE RequestTimeout(k)
  BY <1>3 DEF RequestTimeout, Moves, Asks, InFlight, RunnerTypeOK
<1> QED
  BY <1>1, <1>2, <1>3

LEMMA RunnerTurnUnasked ==
    ASSUME RunsSound, RunnerIInv, RunnerTurn, NEW k \in Job, Unasked(k)
    PROVE  Unasked(k)'
<1>1. WorkersOf(k)' = WorkersOf(k) /\ RunnerTypeOK
  BY CoreStands DEF RunnerTurn, RunnerIInv
<1>2. CASE k \in unconfirmed
  BY <1>1, <1>2, ReturnedStays DEF Unasked, Passes
<1>3. CASE k \notin unconfirmed /\ k \in unconfirmed'
  <2>1. phase[k] = "submitting" /\ phase'[k] = "returned" /\ (~Asks(k) => ~Asks(k)')
    BY <1>1, <1>3, GivesUpUnasked
  <2>2. ~Asks(k) /\ Unheld(k)
    BY <2>1 DEF RunsSound, RunSound, OneOpen, Asks
  <2>3. WorkersOf(k) = {}
    BY <2>2, UnheldIdle DEF RunnerIInv
  <2> QED
    BY <1>1, <2>1, <2>2, <2>3 DEF Unasked
<1> QED
  BY <1>2, <1>3 DEF Unasked

\* The Core gives a worker to nobody who does not ask.
LEMMA CoreTurnUnasked ==
    ASSUME RunnerIInv, CoreReceives \/ CoreProceeds, NEW k \in Job, Unasked(k)
    PROVE  Unasked(k)'
<1>0. UNCHANGED runs /\ RunnerTypeOK /\ TypeOK
  BY DEF CoreReceives, CoreProceeds, RunnerIInv, IInv
<1>1. CASE CoreReceives
  <2> SUFFICES ASSUME ~Asks(k), WorkersOf(k) = {} PROVE ~Asks(k)' /\ WorkersOf(k)' = {}
    BY <1>0 DEF Unasked, runs
  <2>0. toCore # << >> /\ toCore' = Tail(toCore) /\ InFlight(k, "request_permit") = {}
    BY <1>1 DEF CoreReceives, Asks
  <2>1. ~Asks(k)'
    <3>1. InFlight(k, "request_permit")' = {}
      BY <1>0, <2>0, ReadKeepsOrder
    <3> QED
      BY <3>1 DEF Asks
  <2>2. PICK j \in Job, t \in {"submit_job", "request_permit", "cancel_job"} :
            Head(toCore) = Plain(t, j) /\ 1 \in InFlight(j, t)
    BY <1>0, <1>1, HeadWhere DEF CoreReceives
  <2>3. \/ t = "submit_job" /\ SubmitJob(j)
        \/ t = "request_permit" /\ RequestPermit(j, 0)
        \/ t = "cancel_job" /\ CancelJob(j)
    BY <1>1, <2>2 DEF CoreReceives, Handles, Plain
  <2>4. worker' = worker /\ holder' = holder => WorkersOf(k)' = {}
    BY DEF WorkersOf, Live
  <2>5. ASSUME NEW p \in Permit, RequestGranted(j, 0, p), j # k PROVE WorkersOf(k)' = {}
    <3>1. \A q \in Permit : (worker'[q] = worker[q] /\ holder'[q] = holder[q]) \/ holder'[q] = j
      BY <1>0, <2>5 DEF RequestGranted, TypeOK
    <3> QED
      BY <2>5, <3>1 DEF WorkersOf, Live
  <2>6. t = "request_permit" => j # k
    BY <2>2 DEF Asks
  <2>7. \/ worker' = worker /\ holder' = holder
        \/ j # k /\ \E p \in Permit : RequestGranted(j, 0, p)
    BY <2>3, <2>6 DEF SubmitJob, RequestPermit, RequestDuplicate, RequestRefused,
                      RequestGrantedInvalid, CancelJob, permits, workers
  <2> QED
    BY <2>1, <2>4, <2>5, <2>7
<1>2. CASE CoreProceeds
  <2>1. toCore' = toCore /\ Progress
    BY <1>2 DEF CoreProceeds
  <2>2. \A q \in WorkersOf(k)' : q \in WorkersOf(k)
    <3>1. CASE \E p \in Permit : Deadline(p)
      BY <3>1 DEF Deadline, Revoked, permits, workers, WorkersOf, Live
    <3>2. CASE \E p \in Permit : WorkerStarts(p) \/ WorkerEnds(p)
      BY <1>0, <3>2 DEF WorkerStarts, WorkerEnds, permits, WorkersOf, Live, TypeOK
    <3>3. CASE \E p \in Permit : WorkerReported(p)
      BY <1>0, <3>3, Markers DEF WorkerReported, Ended, WorkersOf, Live, TypeOK
    <3>4. CASE WindowSlides \/ Shutdown \/ ShutdownDone
      BY <3>4 DEF WindowSlides, Shutdown, ShutdownDone, permits, workers, WorkersOf, Live
    <3> QED
      BY <2>1, <3>1, <3>2, <3>3, <3>4 DEF Progress
  <2> QED
    BY <1>0, <2>1, <2>2 DEF Unasked, Asks, InFlight, runs
<1> QED
  BY <1>1, <1>2

LEMMA UnaskedAlways == RunnerSpec => [](RunnerIInv /\ RunsSound /\ \A k \in Job : Unasked(k))
<1>1. Init /\ RunnerInit => \A k \in Job : Unasked(k)
  BY DEF RunnerInit, Unasked
<1>2. ASSUME RunnerIInv, RunsSound, \A k \in Job : Unasked(k), [RunnerNext]_allVars
      PROVE  (\A k \in Job : Unasked(k))'
  <2>1. CASE RunnerTurn
    BY <1>2, <2>1, RunnerTurnUnasked
  <2>2. CASE CoreReceives \/ CoreProceeds
    BY <1>2, <2>2, CoreTurnUnasked
  <2>3. CASE UNCHANGED allVars
    BY <1>2, <2>3 DEF allVars, vars, runnerVars, runs, channels, permits, workers,
                      Unasked, Asks, InFlight, WorkersOf, Live
  <2> QED
    BY <1>2, <2>1, <2>2, <2>3 DEF RunnerNext
<1> QED
  BY <1>1, <1>2, RunsInductive, PTL DEF RunnerSpec

-----------------------------------------------------------------------------
(* A run that is over. *)

\* A cancel_job that is the last word, or nothing left to cancel: either way the run
\* leaves nothing behind.
LEMMA SoundLeavesNoWork == RunnerIInv /\ RunsSound => NoOrphan /\ JobsForgotten
<1> SUFFICES ASSUME RunnerIInv, RunsSound, NEW j \in Job, phase[j] = "returned", mode = "serving"
             PROVE  /\ \/ CancelOnItsWay(j)
                       \/ /\ InFlight(j, "request_permit") = {}
                          /\ \A p \in WorkersOf(j) : p \in aborted \/ worker[p] = "over"
                    /\ (\A i \in DOMAIN toCore : toCore[i].job # j) /\ WorkersOf(j) = {}
                       => j \notin jobs \/ j \in unconfirmed
  BY DEF NoOrphan, JobsForgotten
<1>1. LastWord(j) \/ AllTold(j)
  BY DEF RunsSound, RunSound, GivenUp
<1>2. LastWord(j) => CancelOnItsWay(j)
  BY DEF LastWord, CancelOnItsWay, Openers
<1>3. LastWord(j) => \E i \in DOMAIN toCore : toCore[i].job = j
  BY DEF LastWord, InFlight, Plain
<1>4. ~Unheld(j) => WorkersOf(j) # {}
  <2> SUFFICES ASSUME ~Unheld(j) PROVE WorkersOf(j) # {}
    OBVIOUS
  <2>1. PICK p \in Permit : p = activePermitsByJob[j]
    BY DEF Unheld, RunnerIInv, IInv, TypeOK
  <2>2. Live(p) /\ holder[p] = j
    BY <2>1 DEF RunsSound, RunSound, RunnerIInv, IInv, Linked, Unheld
  <2> QED
    BY <2>2 DEF WorkersOf
<1> QED
  BY <1>1, <1>2, <1>3, <1>4 DEF AllTold

\* Whatever the order in which the two processes take their turns, a run that has
\* returned leaves no worker behind that nobody tells to stop, and no job in the
\* Core once what it sent has been read, unless its submission was not acknowledged
\* in time: then the job stays registered, and never gets a worker.
THEOREM ReturnedRunsLeaveNoWork == RunnerSpec => []LeavesNoWork
<1>1. RunnerIInv /\ RunsSound => NoOrphan /\ JobsForgotten
  BY SoundLeavesNoWork
<1>2. RunnerIInv /\ (\A k \in Job : Unasked(k)) => UnconfirmedIdle
  BY DEF RunnerIInv, RunnerTypeOK, Unasked, Asks, UnconfirmedIdle
<1>3. RunnerIInv /\ RunsSound /\ (\A k \in Job : Unasked(k)) => LeavesNoWork
  BY <1>1, <1>2 DEF LeavesNoWork
<1> QED
  BY <1>3, UnaskedAlways, PTL

\* A request that the Core reads finds its job without a permit.
LEMMA DuplicateNever ==
    ASSUME NeverDuplicate, RunsSound, RunnerIInv, RunnerIInv', [RunnerNext]_allVars
    PROVE  NeverDuplicate'
<1>1. toRunner \in Seq(Message) /\ sent' \in Seq(Message)
  BY DEF RunnerIInv, RunnerTypeOK, IInv, TypeOK
<1>2. ASSUME toRunner' = toRunner \o sent',
             \A i \in DOMAIN sent' : sent'[i].type = "permit_rejected" => sent'[i].reason # "DUPLICATE_PERMIT"
      PROVE  NeverDuplicate'
  <2>1. PICK s \in Seq(Message) : s = sent'
    BY <1>1
  <2>2. toRunner' = toRunner \o s
        /\ \A i \in 1..Len(s) : s[i].type = "permit_rejected" => s[i].reason # "DUPLICATE_PERMIT"
    BY <1>2, <2>1
  <2>3. /\ DOMAIN toRunner = 1..Len(toRunner) /\ Len(toRunner) \in Nat /\ Len(s) \in Nat
        /\ DOMAIN toRunner' = 1..(Len(toRunner) + Len(s))
        /\ \A i \in 1..Len(toRunner) : toRunner'[i] = toRunner[i]
    BY <1>1, <2>2
  <2> SUFFICES ASSUME NEW i \in 1..(Len(toRunner) + Len(s)), toRunner'[i].type = "permit_rejected"
               PROVE  toRunner'[i].reason # "DUPLICATE_PERMIT"
    BY <2>3 DEF NeverDuplicate
  <2>4. CASE i \in 1..Len(toRunner)
    BY <2>3, <2>4 DEF NeverDuplicate
  <2>5. CASE i \notin 1..Len(toRunner)
    <3>1. i - Len(toRunner) \in 1..Len(s) /\ toRunner'[i] = s[i - Len(toRunner)]
      BY <1>1, <2>2, <2>3, <2>5
    <3> QED
      BY <2>2, <3>1
  <2> QED
    BY <2>4, <2>5
<1>3. CASE RunnerTurn
  <2>1. toRunner' = toRunner \/ (toRunner # << >> /\ toRunner' = Tail(toRunner))
    BY <1>3 DEF RunnerTurn, Start, StepAbort, DeadlinePasses, BackoffOver, GraceOver,
                RequestTimeout, RunnerReceives, LinkCloses, channels
  <2>2. CASE toRunner # << >> /\ toRunner' = Tail(toRunner)
    <3>1. /\ DOMAIN toRunner = 1..Len(toRunner) /\ Len(toRunner) \in Nat
          /\ DOMAIN toRunner' = 1..(Len(toRunner) - 1)
          /\ \A i \in 1..(Len(toRunner) - 1) :
                toRunner'[i] = toRunner[i + 1] /\ i + 1 \in 1..Len(toRunner)
      BY <1>1, <2>2
    <3> QED
      BY <3>1 DEF NeverDuplicate
  <2> QED
    BY <2>1, <2>2 DEF NeverDuplicate
<1>4. CASE CoreReceives
  <2>1. PICK j \in Job, t \in {"submit_job", "request_permit", "cancel_job"} :
            Head(toCore) = Plain(t, j) /\ 1 \in InFlight(j, t)
    BY <1>4, HeadWhere DEF CoreReceives, RunnerIInv
  <2>2. Head(toCore).job = j /\ Head(toCore).type = t
    BY <2>1 DEF Plain
  <2>3. \/ SubmitJob(j) \/ CancelJob(j)
        \/ t = "request_permit" /\ RequestPermit(j, 0)
    BY <1>4, <2>2 DEF CoreReceives, Handles
  <2>4. ~RequestDuplicate(j) \/ t # "request_permit"
    BY <2>1 DEF RunsSound, RunSound, OneOpen, Openers, Unheld, RequestDuplicate
  <2>5. \A a : Verdict(j, a) # "DUPLICATE_PERMIT"
    BY DEF Verdict
  <2>6. \A i \in DOMAIN sent' : sent'[i].type = "permit_rejected" => sent'[i].reason # "DUPLICATE_PERMIT"
    BY <2>3, <2>4, <2>5 DEF SubmitJob, RequestPermit, RequestRefused, RequestGranted,
              RequestGrantedInvalid, CancelJob, CancelUnknown, CancelActive, CancelWaiting,
              Plain, Rejected, Completed
  <2> QED
    BY <1>2, <1>4, <2>6 DEF CoreReceives
<1>5. CASE CoreProceeds
  <2>1. \A i \in DOMAIN sent' : sent'[i].type # "permit_rejected"
    BY <1>5 DEF CoreProceeds, Progress, Deadline, WorkerStarts, WorkerEnds, WorkerReported,
                WindowSlides, Shutdown, ShutdownDone, Completed
  <2> QED
    BY <1>2, <1>5, <2>1 DEF CoreProceeds
<1>6. CASE UNCHANGED allVars
  BY <1>6 DEF allVars, runnerVars, channels, NeverDuplicate
<1> QED
  BY <1>3, <1>4, <1>5, <1>6 DEF RunnerNext

\* The Core never refuses a run because of the permit of the run's own earlier
\* request: a run asks again only after a refusal.
THEOREM DuplicateNeverMet == RunnerSpec => []NeverDuplicate
<1>1. RunnerInit => NeverDuplicate
  BY DEF RunnerInit, NeverDuplicate
<1>2. NeverDuplicate /\ (RunnerIInv /\ RunsSound) /\ (RunnerIInv /\ RunsSound)' /\ [RunnerNext]_allVars
      => NeverDuplicate'
  BY DuplicateNever
<1> QED
  BY <1>1, <1>2, RunsInductive, PTL DEF RunnerSpec

-----------------------------------------------------------------------------
(* The completion checks. *)

\* A time of the file is no later than the clock, and at most one granule behind it.
LEMMA FileTimes ==
    ASSUME now \in Nat, NEW time \in {now, now - (now % Granularity)}
    PROVE  time \in Nat /\ time <= now /\ now < time + Granularity
<1>1. Granularity \in Nat \ {0}
  BY ChecksAssumption
<1>2. now % Granularity \in Nat /\ now % Granularity < Granularity
  BY <1>1
<1>3. now % Granularity <= now
  BY <1>1
<1> QED
  BY <1>1, <1>2, <1>3

\* What is known of a check: it starts once, it has no result before its end, its
\* own worker has written nothing before its start, and what it is about to read was
\* there when it was stat'ed or has been written since.
CheckSound(c) ==
    /\ started[c] <= now
    /\ c \in stray => await[c] = "done"
    /\ await[c] # "done" => basis[c] = "none" /\ read[c] = None /\ decision[c] = "none"
    /\ file # None /\ file.by = c => await[c] # "waiting" /\ started[c] < file.time + Granularity
    /\ await[c] = "reading" =>
         /\ file # None
         /\ file.time = mtime[c] \/ started[c] < file.time + Granularity
         /\ file.by = c => started[c] < mtime[c] + Granularity

ChecksIInv == ChecksTypeOK /\ (\A c \in Check : CheckSound(c)) /\ DecisionsFounded

LEMMA AnswerId ==
    ASSUME NEW a \in Answer
    PROVE  a.id \in Check \cup {None} /\ a.decision \in Decision
<1>1. CASE a \in [form: {"json"}, id: Check \cup {None}, decision: Decision]
  BY <1>1
<1>2. CASE a \in [form: {"marker"}, id: {None}, decision: Decision]
  BY <1>2
<1>3. CASE a \in [form: {"nothing"}, id: {None}, decision: {"incomplete"}]
  BY <1>3 DEF Decision
<1> QED
  BY <1>1, <1>2, <1>3 DEF Answer

LEMMA AnswerParts ==
    ASSUME NEW f \in File, f # None
    PROVE  /\ f.answer \in Answer /\ f.by \in Check /\ f.time \in 0..MaxTime
           /\ f.answer.id \in Check \cup {None} /\ f.answer.decision \in Decision
<1>1. f.answer \in Answer /\ f.by \in Check /\ f.time \in 0..MaxTime
  BY DEF File
<1> QED
  BY <1>1, AnswerId

LEMMA ChecksInitial == ChecksInit => ChecksIInv
<1> SUFFICES ASSUME ChecksInit PROVE ChecksIInv
  OBVIOUS
<1>1. 0 \in 0..MaxTime /\ 0 \in 0..MaxWrites /\ MaxTime \in Nat
  BY ChecksAssumption
<1>2. Nothing \in Answer
  BY DEF Nothing, Answer
<1>3. ChecksTypeOK
  BY <1>1, <1>2 DEF ChecksInit, ChecksTypeOK, File, Decision
<1>4. \A c \in Check : CheckSound(c)
  BY <1>1 DEF ChecksInit, CheckSound
<1>5. DecisionsFounded
  BY DEF ChecksInit, DecisionsFounded, NotMistaken, OwnHeard, CompleteWasSaid
<1> QED
  BY <1>3, <1>4, <1>5 DEF ChecksIInv

LEMMA ChecksTypeStep ==
    ASSUME ChecksTypeOK, ChecksNext
    PROVE  ChecksTypeOK'
<1>0. MaxTime \in Nat /\ MaxWrites \in Nat /\ Granularity \in Nat \ {0}
  BY ChecksAssumption
<1>1. CASE TimePasses
  <2>1. now + 1 \in 0..MaxTime
    BY <1>0, <1>1 DEF TimePasses, ChecksTypeOK
  <2> QED
    BY <1>1, <2>1 DEF TimePasses, ChecksTypeOK
<1>2. ASSUME NEW c \in Check, StartCheck(c) PROVE ChecksTypeOK'
  BY <1>2 DEF StartCheck, ChecksTypeOK
<1>3. ASSUME NEW c \in Check, WorkerFails(c) PROVE ChecksTypeOK'
  BY <1>3 DEF WorkerFails, Returns, ChecksTypeOK
<1>4. ASSUME NEW c \in Check, ScriptEnds(c) PROVE ChecksTypeOK'
  BY <1>4 DEF ScriptEnds, Returns, ChecksTypeOK
<1>5. ASSUME NEW c \in Check, FromText(c)
      PROVE  /\ await' \in [Check -> {"waiting", "running", "stat", "reading", "done"}]
             /\ decision' \in [Check -> Decision \cup {"none", "undecided", "failed"}]
             /\ basis' \in [Check -> {"none", "file", "text"}]
  <2>1. printed[c].decision \in Decision
    BY AnswerId DEF ChecksTypeOK
  <2> QED
    BY <1>5, <2>1 DEF FromText, Returns, ChecksTypeOK
<1>6. ASSUME NEW c \in Check, Stat(c) PROVE ChecksTypeOK'
  <2>1. CASE file = None
    BY <1>5, <1>6, <2>1 DEF Stat, ChecksTypeOK
  <2>2. CASE file # None
    <3>1. file.time \in 0..MaxTime
      BY <2>2, AnswerParts DEF ChecksTypeOK
    <3> QED
      BY <1>6, <2>2, <3>1 DEF Stat, ChecksTypeOK
  <2> QED
    BY <2>1, <2>2
<1>7. ASSUME NEW c \in Check, ReadFile(c) PROVE ChecksTypeOK'
  <2>1. CASE InFile(c, file)
    <3>1. file.answer.decision \in Decision
      BY <2>1, AnswerParts DEF ChecksTypeOK, InFile
    <3> QED
      BY <1>7, <2>1, <3>1 DEF ReadFile, Returns, ChecksTypeOK
  <2>2. CASE ~InFile(c, file)
    BY <1>5, <1>7, <2>2 DEF ReadFile, ChecksTypeOK
  <2> QED
    BY <2>1, <2>2
<1>8. ASSUME NEW c \in Check, NEW answer \in Answer, NEW time \in {now, now - (now % Granularity)},
             WriteFile(c, answer, time)
      PROVE  ChecksTypeOK'
  <2>1. time \in 0..MaxTime
    BY <1>0, FileTimes DEF ChecksTypeOK
  <2>2. file' \in File
    BY <1>8, <2>1 DEF WriteFile, File
  <2>3. writes[c] + 1 \in 0..MaxWrites
    BY <1>0, <1>8 DEF WriteFile, ChecksTypeOK
  <2> QED
    BY <1>8, <2>2, <2>3 DEF WriteFile, ChecksTypeOK
<1>9. ASSUME NEW c \in Check, NEW output \in Answer, WorkerSucceeds(c, output) PROVE ChecksTypeOK'
  BY <1>9 DEF WorkerSucceeds, ChecksTypeOK
<1> QED
  BY <1>1, <1>2, <1>3, <1>4, <1>6, <1>7, <1>8, <1>9 DEF ChecksNext

\* DecisionsFounded, check by check.
Own(c) ==
    /\ basis[c] = "file" /\ read[c].by # c =>
         /\ read[c].answer.id \in {c, None}
         /\ read[c].answer.id = None => read[c].time + Grace >= started[c]
    /\ read[c] # None /\ read[c].by = c
       /\ read[c].answer.form # "nothing" /\ read[c].answer.id \in {c, None}
       => decision[c] = read[c].answer.decision
    /\ ~def[c].custom /\ decision[c] = "complete" =>
         IF basis[c] = "file" THEN read[c].answer.decision = "complete"
         ELSE basis[c] = "text" /\ printed[c].decision = "complete" /\ printed[c].id \in {c, None}

LEMMA OwnEach == DecisionsFounded <=> \A c \in Check : Own(c)
BY DEF DecisionsFounded, NotMistaken, OwnHeard, CompleteWasSaid, Own

\* A check that has no result yet owes nothing.
LEMMA OwnVoid ==
    ASSUME NEW c, basis[c] = "none", read[c] = None, decision[c] # "complete"
    PROVE  Own(c)
BY DEF Own

\* A step that leaves c and its file alone.
LEMMA CheckStands ==
    ASSUME NEW c, CheckSound(c), Own(c), UNCHANGED <<file, def>>,
           await'[c] = await[c], started'[c] = started[c], c \in stray' => c \in stray,
           basis'[c] = basis[c], read'[c] = read[c], decision'[c] = decision[c],
           mtime'[c] = mtime[c], printed'[c] = printed[c], started[c] <= now'
    PROVE  CheckSound(c)' /\ Own(c)'
BY DEF CheckSound, Own

LEMMA ChecksStep == ChecksIInv /\ [ChecksNext]_checkVars => ChecksIInv'
<1> SUFFICES ASSUME ChecksIInv, [ChecksNext]_checkVars PROVE ChecksIInv'
  OBVIOUS
<1>0. /\ now \in Nat /\ Granularity \in Nat \ {0} /\ Grace \in Nat /\ Grace >= Granularity - 1
      /\ \A k \in Check : started[k] \in Nat /\ mtime[k] \in Nat /\ CheckSound(k) /\ Own(k)
      /\ None \notin Check /\ ChecksTypeOK
  <2>1. MaxTime \in Nat /\ 0..MaxTime \subseteq Nat
    BY ChecksAssumption
  <2> QED
    BY <2>1, ChecksAssumption, OwnEach DEF ChecksIInv, ChecksTypeOK
<1> SUFFICES ASSUME ChecksNext PROVE \A k \in Check : CheckSound(k)' /\ Own(k)'
  <2>1. CASE ChecksNext
    <3>1. (\A k \in Check : Own(k))' => DecisionsFounded'
      BY DEF DecisionsFounded, NotMistaken, OwnHeard, CompleteWasSaid, Own
    <3> QED
      BY <2>1, <3>1, ChecksTypeStep DEF ChecksIInv
  <2>2. CASE UNCHANGED checkVars
    BY <2>2 DEF checkVars, ChecksIInv, ChecksTypeOK, CheckSound, DecisionsFounded, NotMistaken, OwnHeard, CompleteWasSaid
  <2> QED
    BY <2>1, <2>2
<1>1. CASE TimePasses
  <2> SUFFICES ASSUME NEW k \in Check PROVE CheckSound(k)' /\ Own(k)'
    OBVIOUS
  <2>1. started[k] <= now'
    BY <1>0, <1>1 DEF TimePasses, CheckSound
  <2> QED
    BY <1>0, <1>1, <2>1, CheckStands DEF TimePasses
<1>2. ASSUME NEW c \in Check, StartCheck(c) PROVE \A k \in Check : CheckSound(k)' /\ Own(k)'
  <2> SUFFICES ASSUME NEW k \in Check PROVE CheckSound(k)' /\ Own(k)'
    OBVIOUS
  <2>1. CASE k # c
    BY <1>0, <1>2, <2>1, CheckStands DEF StartCheck, ChecksTypeOK, CheckSound
  <2>2. CASE k = c
    <3>1. /\ await'[c] = "running" /\ started'[c] = now /\ now' = now
          /\ basis'[c] = "none" /\ read'[c] = None /\ decision'[c] = "none"
          /\ c \notin stray' /\ (file' # None => file'.by # c)
      BY <1>0, <1>2 DEF StartCheck, ChecksTypeOK, CheckSound
    <3>2. CheckSound(c)'
      BY <1>0, <3>1 DEF CheckSound
    <3>3. Own(c)'
      BY <3>1 DEF Own
    <3> QED
      BY <2>2, <3>2, <3>3
  <2> QED
    BY <2>1, <2>2
<1>3. ASSUME NEW c \in Check, WorkerFails(c) \/ ScriptEnds(c)
      PROVE  \A k \in Check : CheckSound(k)' /\ Own(k)'
  <2> SUFFICES ASSUME NEW k \in Check PROVE CheckSound(k)' /\ Own(k)'
    OBVIOUS
  <2>1. CASE k # c
    BY <1>0, <1>3, <2>1, CheckStands DEF WorkerFails, ScriptEnds, Returns, ChecksTypeOK, CheckSound
  <2>2. CASE k = c
    <3>1. /\ await'[c] = "done" /\ UNCHANGED <<now, started, file, def, mtime, printed>>
          /\ basis'[c] = "none" /\ read'[c] = None
          /\ decision'[c] # "complete" \/ def[c].custom
      BY <1>0, <1>3 DEF WorkerFails, ScriptEnds, Returns, ChecksTypeOK, CheckSound
    <3>2. CheckSound(c)'
      BY <1>0, <3>1 DEF CheckSound
    <3>3. Own(c)'
      BY <3>1 DEF Own
    <3> QED
      BY <2>2, <3>2, <3>3
  <2> QED
    BY <2>1, <2>2
<1>4. ASSUME NEW c \in Check, NEW output \in Answer, WorkerSucceeds(c, output)
      PROVE  \A k \in Check : CheckSound(k)' /\ Own(k)'
  <2> SUFFICES ASSUME NEW k \in Check PROVE CheckSound(k)' /\ Own(k)'
    OBVIOUS
  <2>1. CASE k # c
    BY <1>0, <1>4, <2>1, CheckStands DEF WorkerSucceeds, ChecksTypeOK, CheckSound
  <2>2. CASE k = c
    <3>1. /\ await[c] = "running" /\ await'[c] = "stat"
          /\ UNCHANGED <<now, started, stray, file, def, mtime, basis, read, decision>>
      BY <1>0, <1>4 DEF WorkerSucceeds, ChecksTypeOK
    <3>2. CheckSound(c)'
      BY <1>0, <3>1 DEF CheckSound
    <3>3. Own(c)'
      BY <1>0, <3>1 DEF CheckSound, Own
    <3> QED
      BY <2>2, <3>2, <3>3
  <2> QED
    BY <2>1, <2>2
<1>5. ASSUME NEW c \in Check, NEW answer \in Answer, NEW time \in {now, now - (now % Granularity)},
             WriteFile(c, answer, time)
      PROVE  \A k \in Check : CheckSound(k)' /\ Own(k)'
  <2> SUFFICES ASSUME NEW k \in Check PROVE CheckSound(k)' /\ Own(k)'
    OBVIOUS
  <2>1. time \in Nat /\ now < time + Granularity
    BY <1>0, FileTimes
  <2>2. PICK f \in [answer: Answer, by: Check, time: 0..MaxTime] : f = [answer |-> answer, by |-> c, time |-> time]
    <3>1. time \in 0..MaxTime
      BY <1>0, <2>1, FileTimes, ChecksAssumption DEF ChecksTypeOK
    <3> QED
      BY <3>1
  <2>3. /\ file' = f /\ f.by = c /\ f.time = time /\ f # None
        /\ UNCHANGED <<now, started, stray, await, def, mtime, basis, read, decision, printed>>
        /\ await[c] \in {"running", "done"}
    <3>1. file' = f /\ f.by = c /\ f.time = time
      BY <1>5, <2>2 DEF WriteFile
    <3>2. f # None
      BY <2>2, NoFile
    <3> QED
      BY <1>0, <1>5, <3>1, <3>2 DEF WriteFile, CheckSound
  <2>4. started[k] < time + Granularity
    BY <1>0, <2>1 DEF CheckSound
  <2>5. CheckSound(k)'
    BY <1>0, <2>3, <2>4 DEF CheckSound
  <2>6. Own(k)'
    BY <1>0, <2>3 DEF Own
  <2> QED
    BY <2>5, <2>6
<1>6. ASSUME NEW c \in Check, FromText(c), UNCHANGED <<def, now, started, stray, file, printed>>,
             await[c] # "done",
             (read'[c] = None /\ read' = read) \/ (read' = [read EXCEPT ![c] = file] /\ ~InFile(c, file)
                                                    /\ await[c] = "reading"),
             mtime' = mtime
      PROVE  \A k \in Check : CheckSound(k)' /\ Own(k)'
  <2> SUFFICES ASSUME NEW k \in Check PROVE CheckSound(k)' /\ Own(k)'
    OBVIOUS
  <2>1. CASE k # c
    BY <1>0, <1>6, <2>1, CheckStands DEF FromText, Returns, ChecksTypeOK, CheckSound
  <2>2. CASE k = c
    <3>1. /\ await'[c] = "done"
          /\ decision'[c] = IF InText(c) THEN printed[c].decision ELSE "undecided"
          /\ basis'[c] = IF InText(c) THEN "text" ELSE "none"
          /\ read'[c] = None \/ (read'[c] = file /\ ~InFile(c, file) /\ await[c] = "reading")
      BY <1>0, <1>6 DEF FromText, Returns, ChecksTypeOK
    <3>2. CheckSound(c)'
      BY <1>0, <1>6, <3>1 DEF CheckSound
    <3>3. read'[c] # None /\ read'[c].by = c
          /\ read'[c].answer.form # "nothing" /\ read'[c].answer.id \in {c, None} => FALSE
      <4> SUFFICES ASSUME file # None, file.by = c, file.answer.form # "nothing",
                          file.answer.id \in {c, None}, ~InFile(c, file), await[c] = "reading"
                   PROVE  FALSE
        BY <3>1
      <4>1. file.answer.id = None /\ ~Fresh(c)
        BY DEF InFile
      <4>2. started[c] < mtime[c] + Granularity
        BY <1>0 DEF CheckSound
      <4> QED
        BY <1>0, <4>1, <4>2 DEF Fresh
    <3>4. Own(c)'
      BY <1>6, <3>1, <3>3 DEF Own, InText
    <3> QED
      BY <2>2, <3>2, <3>4
  <2> QED
    BY <2>1, <2>2
<1>7. ASSUME NEW c \in Check, Stat(c) PROVE \A k \in Check : CheckSound(k)' /\ Own(k)'
  <2>1. CASE file = None
    <3>1. read[c] = None
      BY <1>0, <1>7 DEF Stat, CheckSound
    <3> QED
      BY <1>6, <1>7, <2>1, <3>1 DEF Stat
  <2>2. CASE file # None
    <3> SUFFICES ASSUME NEW k \in Check PROVE CheckSound(k)' /\ Own(k)'
      OBVIOUS
    <3>1. CASE k # c
      BY <1>0, <1>7, <2>2, <3>1, CheckStands DEF Stat, ChecksTypeOK, CheckSound
    <3>2. CASE k = c
      <4>1. /\ await[c] = "stat" /\ await'[c] = "reading" /\ mtime'[c] = file.time
            /\ UNCHANGED <<def, now, started, stray, file, printed, read, decision, basis>>
        BY <1>0, <1>7, <2>2 DEF Stat, ChecksTypeOK
      <4>2. CheckSound(c)'
        BY <1>0, <2>2, <4>1 DEF CheckSound
      <4>3. Own(c)'
        BY <1>0, <4>1 DEF CheckSound, Own
      <4> QED
        BY <3>2, <4>2, <4>3
    <3> QED
      BY <3>1, <3>2
  <2> QED
    BY <2>1, <2>2
<1>8. ASSUME NEW c \in Check, ReadFile(c) PROVE \A k \in Check : CheckSound(k)' /\ Own(k)'
  <2>1. CASE ~InFile(c, file)
    BY <1>6, <1>8, <2>1 DEF ReadFile
  <2>2. CASE InFile(c, file)
    <3> SUFFICES ASSUME NEW k \in Check PROVE CheckSound(k)' /\ Own(k)'
      OBVIOUS
    <3>1. CASE k # c
      BY <1>0, <1>8, <2>2, <3>1, CheckStands DEF ReadFile, Returns, ChecksTypeOK, CheckSound
    <3>2. CASE k = c
      <4>1. /\ await[c] = "reading" /\ await'[c] = "done" /\ read'[c] = file
            /\ basis'[c] = "file" /\ decision'[c] = file.answer.decision
            /\ UNCHANGED <<def, now, started, stray, file, printed, mtime>>
        BY <1>0, <1>8, <2>2 DEF ReadFile, Returns, ChecksTypeOK
      <4>2. CheckSound(c)'
        BY <1>0, <4>1 DEF CheckSound
      <4>3. /\ file # None /\ file.by \in Check /\ file.time \in Nat
            /\ IF file.answer.id = None THEN Fresh(c) ELSE file.answer.id = c
        <5>1. file # None /\ IF file.answer.id = None THEN Fresh(c) ELSE file.answer.id = c
          BY <2>2 DEF InFile
        <5>2. file.by \in Check /\ file.time \in 0..MaxTime
          BY <1>0, <5>1, AnswerParts DEF ChecksTypeOK
        <5> QED
          BY <5>1, <5>2, ChecksAssumption
      <4>4. file.answer.id = None => file.time + Grace >= started[c]
        <5> SUFFICES ASSUME file.answer.id = None PROVE file.time + Grace >= started[c]
          OBVIOUS
        <5>1. mtime[c] + Grace >= started[c]
          BY <4>3 DEF Fresh
        <5>2. file.time = mtime[c] \/ started[c] < file.time + Granularity
          BY <1>0, <4>1 DEF CheckSound
        <5> QED
          BY <1>0, <4>3, <5>1, <5>2
      <4>5. file.answer.id \in {c, None}
        BY <4>3
      <4>6. Own(c)'
        BY <4>1, <4>4, <4>5 DEF Own
      <4> QED
        BY <3>2, <4>2, <4>6
    <3> QED
      BY <3>1, <3>2
  <2> QED
    BY <2>1, <2>2
<1> QED
  BY <1>1, <1>2, <1>3, <1>4, <1>5, <1>7, <1>8 DEF ChecksNext

\* Whatever the checks, the files they share and the order in which workers write
\* and checks read: a check takes from the file only an answer that names it, or one
\* that names none and is not older than its start by more than the grace; it does
\* not miss what its own worker wrote, and none is complete unless a worker said so.
THEOREM DecisionsAlwaysFounded == ChecksSpec => []ChecksInv
<1>1. ChecksIInv => ChecksInv
  BY DEF ChecksIInv, ChecksInv
<1> QED
  BY <1>1, ChecksInitial, ChecksStep, PTL DEF ChecksSpec

---------------------------------------------------------------------------
(* The link (Channel): what is dispatched.                                 *)

\* The bytes that are not read yet, or are in no line that was.
Unread == buffer \o pipe

In(s, m) == \E i \in 1..Len(s) : s[i].of = m

\* m comes before n in q.
BeforeIn(q, m, n) == \E i, k \in 1..Len(q) : i < k /\ q[i] = m /\ q[k] = n

\* What is left in s of the line of m ends at place b.
Placed(s, m, b) ==
    \A i \in 1..Len(s) : /\ s[i].of = m <=> b - Size[m] < i /\ i <= b
                         /\ s[i].of = m => (s[i].last <=> i = b)

\* That line is whole, and begins s or follows the end of another.
Whole(s, m, b) == b >= Size[m] /\ (b = Size[m] \/ s[b - Size[m]].last)

(* Of the unread bytes s, the written messages q, the dispatched ones g    *)
(* and the mixed ones x:                                                   *)

\* the messages of s are written and not dispatched, and only the line of one that
\* is mixed may be mutilated;
LinesSound(s, q, g, x) ==
    \A m \in Msg : In(s, m) =>
        /\ m \in ToSet(q) /\ m \notin ToSet(g)
        /\ \E b \in 1..Len(s) : Placed(s, m, b) /\ (m \in x \/ Whole(s, m, b))

\* their lines are in the order in which they were written;
LinesOrdered(s, q) ==
    \A i, k \in 1..Len(s) :
        i < k /\ s[i].of \in Msg /\ s[k].of \in Msg /\ s[i].of # s[k].of
            => BeforeIn(q, s[i].of, s[k].of)

\* a written message is unread, excused or dispatched;
ReadDelivered(s, q, g, x) ==
    \A m \in ToSet(q) : ~In(s, m) => m \in x \/ NearLimit(m) \/ m \in ToSet(g)

\* every message fits a line;
Fits(q) == \A m \in ToSet(q) : Size[m] <= MaxLine

\* and the messages are dispatched in the order in which they were written.
DeliveredSound(s, q, g) ==
    /\ ToSet(g) \subseteq ToSet(q)
    /\ \A i, k \in 1..Len(g) : i < k => BeforeIn(q, g[i], g[k])
    /\ \A m \in ToSet(g), n \in Msg : In(s, n) => BeforeIn(q, m, n)

LinkSound(s, q, g, x) ==
    /\ LinesSound(s, q, g, x) /\ LinesOrdered(s, q) /\ ReadDelivered(s, q, g, x)
    /\ Fits(q) /\ DeliveredSound(s, q, g)

ChannelIInv ==
    /\ ChannelTypeOK /\ WaitersKept
    /\ \A i \in 1..Len(buffer) : ~buffer[i].last
    /\ LinkSound(Unread, written, delivered, mixed)

LEMMA ChannelConstants ==
    /\ \A m \in Msg : Size[m] \in Nat \ {0}
    /\ NoOne \notin RequestId /\ NoOne \notin Waiter /\ NoOne \notin Msg
    /\ AnswerTo \in [Msg -> RequestId \cup {NoOne}] /\ WaitsFor \in [Waiter -> RequestId]
    /\ MaxLine \in Nat \ {0} /\ MaxChunk \in 1..MaxLine /\ MaxText \in Nat
BY ChannelAssumption

LEMMA ByteFacts ==
    \A b \in Byte : b.of \in Msg \cup {NoOne} /\ b.last \in BOOLEAN
BY DEF Byte

LEMMA JoinedFacts ==
    ASSUME NEW S, NEW a \in Seq(S), NEW b \in Seq(S)
    PROVE  /\ a \o b \in Seq(S) /\ Len(a \o b) = Len(a) + Len(b)
           /\ Len(a) \in Nat /\ Len(b) \in Nat
           /\ \A i \in 1..Len(a) : (a \o b)[i] = a[i]
           /\ \A i \in 1..Len(b) : (a \o b)[Len(a) + i] = b[i]
OBVIOUS

LEMMA PartFacts ==
    ASSUME NEW S, NEW s \in Seq(S), NEW b \in 0..Len(s), NEW a \in 0..b
    PROVE  /\ SubSeq(s, 1 + a, b) \in Seq(S) /\ Len(SubSeq(s, 1 + a, b)) = b - a
           /\ \A i \in 1..(b - a) : SubSeq(s, 1 + a, b)[i] = s[a + i]
OBVIOUS

LEMMA SameSequence ==
    ASSUME NEW S, NEW a \in Seq(S), NEW b \in Seq(S), Len(a) = Len(b),
           \A i \in 1..Len(a) : a[i] = b[i]
    PROVE  a = b
OBVIOUS

LEMMA ToSetFacts ==
    ASSUME NEW S, NEW s \in Seq(S)
    PROVE  /\ \A i \in 1..Len(s) : s[i] \in ToSet(s)
           /\ \A x \in ToSet(s) : \E i \in 1..Len(s) : s[i] = x
           /\ ToSet(s) \subseteq S
BY DEF ToSet

LEMMA ToSetJoined ==
    ASSUME NEW S, NEW a \in Seq(S), NEW b \in Seq(S)
    PROVE  \A x : x \in ToSet(a \o b) <=> x \in ToSet(a) \/ x \in ToSet(b)
<1> DEFINE c == a \o b
<1>1. /\ c \in Seq(S) /\ Len(c) = Len(a) + Len(b) /\ Len(a) \in Nat /\ Len(b) \in Nat
      /\ \A i \in 1..Len(a) : c[i] = a[i] /\ i \in 1..Len(c)
      /\ \A i \in 1..Len(b) : c[Len(a) + i] = b[i] /\ Len(a) + i \in 1..Len(c)
  BY JoinedFacts
<1> HIDE DEF c
<1>2. ASSUME NEW x \in ToSet(a) PROVE x \in ToSet(c)
  <2>1. PICK i \in 1..Len(a) : a[i] = x
    BY ToSetFacts
  <2>2. i \in 1..Len(c) /\ c[i] = x
    BY <1>1, <2>1
  <2> QED
    BY <1>1, <2>2, ToSetFacts
<1>3. ASSUME NEW x \in ToSet(b) PROVE x \in ToSet(c)
  <2>1. PICK i \in 1..Len(b) : b[i] = x
    BY ToSetFacts
  <2>2. Len(a) + i \in 1..Len(c) /\ c[Len(a) + i] = x
    BY <1>1, <2>1
  <2> QED
    BY <1>1, <2>2, ToSetFacts
<1>4. ASSUME NEW x \in ToSet(c) PROVE x \in ToSet(a) \/ x \in ToSet(b)
  <2>1. PICK i \in 1..Len(c) : c[i] = x
    BY <1>1, ToSetFacts
  <2>2. CASE i \in 1..Len(a)
    BY <1>1, <2>1, <2>2, ToSetFacts
  <2>3. CASE i \notin 1..Len(a)
    <3>1. i - Len(a) \in 1..Len(b) /\ i = Len(a) + (i - Len(a))
      BY <1>1, <2>3
    <3>2. b[i - Len(a)] = x
      BY <1>1, <2>1, <3>1
    <3> QED
      BY <3>1, <3>2, ToSetFacts
  <2> QED
    BY <2>2, <2>3
<1> QED
  BY <1>2, <1>3, <1>4 DEF c

\* A set of numbers in their order: each of them, once.
LEMMA InOrderFacts ==
    ASSUME NEW S \in SUBSET Nat, IsFiniteSet(S)
    PROVE  /\ InOrder(S) \in Seq(S) /\ Len(InOrder(S)) = Cardinality(S)
           /\ \A i, k \in 1..Len(InOrder(S)) : i < k => InOrder(S)[i] < InOrder(S)[k]
           /\ \A e \in S : \E k \in 1..Len(InOrder(S)) : InOrder(S)[k] = e
<1> DEFINE n == Cardinality(S)
           upTo(e) == {i \in S : i <= e}
           rank == [e \in S |-> Cardinality(upTo(e))]
<1>1. n \in Nat
  BY FS_CardinalityType
<1>2. \A e \in S : IsFiniteSet(upTo(e)) /\ Cardinality(upTo(e)) \in 1..n
  <2> SUFFICES ASSUME NEW e \in S PROVE IsFiniteSet(upTo(e)) /\ Cardinality(upTo(e)) \in 1..n
    OBVIOUS
  <2>1. upTo(e) \in SUBSET S /\ e \in upTo(e)
    <3>1. e \in Nat /\ e <= e
      OBVIOUS
    <3> QED
      BY <3>1
  <2>2. IsFiniteSet(upTo(e)) /\ Cardinality(upTo(e)) <= n
    BY <2>1, FS_Subset
  <2>3. Cardinality(upTo(e)) \in Nat /\ Cardinality(upTo(e)) # 0
    BY <2>1, <2>2, FS_CardinalityType, FS_EmptySet
  <2> QED
    BY <1>1, <2>2, <2>3
<1>3. \A e, f \in S : e < f => Cardinality(upTo(e)) < Cardinality(upTo(f))
  <2> SUFFICES ASSUME NEW e \in S, NEW f \in S, e < f
               PROVE  Cardinality(upTo(e)) < Cardinality(upTo(f))
    OBVIOUS
  <2>1. upTo(e) \in SUBSET upTo(f) /\ f \in upTo(f) /\ f \notin upTo(e)
    <3>1. f <= f /\ ~(f <= e) /\ \A i \in S : i <= e => i <= f
      <4>1. S \subseteq Nat
        OBVIOUS
      <4> QED
        BY <4>1
    <3> QED
      BY <3>1
  <2>2. /\ Cardinality(upTo(e)) <= Cardinality(upTo(f))
        /\ Cardinality(upTo(f)) = Cardinality(upTo(e)) => upTo(f) = upTo(e)
    BY <1>2, <2>1, FS_Subset
  <2>3. Cardinality(upTo(e)) \in Int /\ Cardinality(upTo(f)) \in Int
    BY <1>2
  <2> HIDE DEF upTo
  <2> QED
    BY <2>1, <2>2, <2>3
<1>4. rank \in [S -> 1..n] /\ \A e \in S : rank[e] = Cardinality(upTo(e))
  BY <1>2
<1> HIDE DEF upTo, rank, n
<1>5. \A e, f \in S : rank[e] = rank[f] => e = f
  <2> SUFFICES ASSUME NEW e \in S, NEW f \in S, rank[e] = rank[f], e # f PROVE FALSE
    OBVIOUS
  <2>1. e < f \/ f < e
    OBVIOUS
  <2>2. rank[e] < rank[f] \/ rank[f] < rank[e]
    BY <1>3, <1>4, <2>1
  <2>3. rank[e] \in Nat /\ rank[f] \in Nat
    BY <1>4
  <2> QED
    BY <2>2, <2>3
<1>6. \A k \in 1..n : \E e \in S : rank[e] = k
  <2>1. rank \in Injection(S, 1..n)
    BY <1>4, <1>5 DEF Injection, IsInjective
  <2>2. IsFiniteSet(1..n) /\ Cardinality(1..n) = n
    BY <1>1, FS_Interval
  <2>3. rank \in Surjection(S, 1..n)
    BY <2>1, <2>2, FS_Injection DEF n
  <2> QED
    BY <2>3 DEF Surjection
<1>7. InOrder(S) = [k \in 1..n |-> CHOOSE e \in S : rank[e] = k]
  <2>1. InOrder(S) = [k \in 1..n |-> CHOOSE e \in S : Cardinality(upTo(e)) = k]
    BY DEF InOrder, n, upTo
  <2>2. \A k \in 1..n : (CHOOSE e \in S : Cardinality(upTo(e)) = k) = (CHOOSE e \in S : rank[e] = k)
    BY <1>4
  <2> QED
    BY <2>1, <2>2
<1> DEFINE q == InOrder(S)
<1>8. q \in [1..n -> S] /\ \A k \in 1..n : rank[q[k]] = k
  BY <1>6, <1>7
<1> HIDE DEF q
<1>9. q \in Seq(S) /\ Len(q) = n
  BY <1>1, <1>8
<1>10. ASSUME NEW i \in 1..n, NEW k \in 1..n, i < k PROVE q[i] < q[k]
  <2>1. q[i] \in S /\ q[k] \in S /\ q[i] \in Nat /\ q[k] \in Nat
    BY <1>8
  <2>2. rank[q[i]] = i /\ rank[q[k]] = k
    BY <1>8
  <2>3. q[i] # q[k] /\ ~(q[k] < q[i])
    BY <1>3, <1>4, <1>10, <2>1, <2>2
  <2> QED
    BY <2>1, <2>3
<1>11. ASSUME NEW e \in S PROVE \E k \in 1..n : q[k] = e
  <2>1. rank[e] \in 1..n /\ q[rank[e]] \in S /\ rank[q[rank[e]]] = rank[e]
    BY <1>4, <1>8
  <2> QED
    BY <1>5, <2>1
<1> QED
  BY <1>9, <1>10, <1>11 DEF q, n

\* The least and the greatest element of a finite set of numbers.
LEMMA ExtremaFacts ==
    ASSUME NEW S \in SUBSET Nat, IsFiniteSet(S), S # {}
    PROVE  /\ Max(S) \in S /\ \A i \in S : i <= Max(S)
           /\ Min(S) \in S /\ \A i \in S : Min(S) <= i
<1> DEFINE q == InOrder(S)
<1>1. /\ q \in Seq(S) /\ Len(q) = Cardinality(S)
      /\ \A i, k \in 1..Len(q) : i < k => q[i] < q[k]
      /\ \A e \in S : \E k \in 1..Len(q) : q[k] = e
  BY InOrderFacts
<1>2. Len(q) \in Nat /\ Len(q) # 0
  BY <1>1, FS_EmptySet
<1> HIDE DEF q
<1>3. /\ q[1] \in S /\ \A i \in S : q[1] <= i
      /\ q[Len(q)] \in S /\ \A i \in S : i <= q[Len(q)]
  <2>1. 1 \in 1..Len(q) /\ Len(q) \in 1..Len(q)
    BY <1>2
  <2>2. \A k \in 1..Len(q) : q[k] \in S /\ q[k] \in Nat
    <3>1. \A k \in 1..Len(q) : q[k] \in S
      BY <1>1
    <3> QED
      BY <3>1
  <2>3. ASSUME NEW i \in S PROVE q[1] <= i /\ i <= q[Len(q)]
    <3>1. PICK k \in 1..Len(q) : q[k] = i
      BY <1>1
    <3>2. k = 1 \/ q[1] < q[k]
      BY <1>1, <2>1
    <3>3. k = Len(q) \/ q[k] < q[Len(q)]
      BY <1>1, <1>2, <2>1
    <3> QED
      BY <2>1, <2>2, <3>1, <3>2, <3>3
  <2> QED
    BY <2>1, <2>2, <2>3
<1>4. Max(S) \in S /\ \A i \in S : Max(S) >= i
  BY <1>3 DEF Max
<1>5. Min(S) \in S /\ \A i \in S : Min(S) <= i
  BY <1>3 DEF Min
<1> QED
  BY <1>4, <1>5

\* u is what is left of s when its first d bytes are gone.
Dropped(s, d, u) ==
    /\ u \in Seq(Byte) /\ Len(u) = Len(s) - d
    /\ \A i \in 1..Len(u) : u[i] = s[d + i]

LEMMA DroppedFacts ==
    ASSUME NEW s \in Seq(Byte), NEW d \in 0..Len(s)
    PROVE  Dropped(s, d, SubSeq(s, 1 + d, Len(s)))
BY DEF Dropped

LEMMA EndsFacts ==
    ASSUME NEW s \in Seq(Byte)
    PROVE  /\ Ends(s) \in SUBSET Nat /\ IsFiniteSet(Ends(s))
           /\ \A i : i \in Ends(s) <=> i \in 1..Len(s) /\ s[i].last
<1>1. \A i : i \in Ends(s) <=> i \in 1..Len(s) /\ s[i].last
  BY DEF Ends
<1>2. Ends(s) \in SUBSET (1..Len(s)) /\ Len(s) \in Nat
  BY <1>1
<1>3. IsFiniteSet(1..Len(s))
  BY <1>2, FS_Interval
<1> QED
  BY <1>1, <1>2, <1>3, FS_Subset

\* The greatest end below a place, or 0.
LEMMA LastEndFacts ==
    ASSUME NEW s \in Seq(Byte), NEW E \in SUBSET Ends(s)
    PROVE  /\ Max({0} \cup E) \in {0} \cup E
           /\ \A i \in E : i <= Max({0} \cup E)
<1>1. IsFiniteSet(E) /\ E \in SUBSET Nat
  BY EndsFacts, FS_Subset
<1>2. IsFiniteSet(E \cup {0})
  BY <1>1, FS_AddElement
<1>3. {0} \cup E = E \cup {0}
  OBVIOUS
<1>4. E \cup {0} \in SUBSET Nat /\ E \cup {0} # {}
  BY <1>1
<1>5. Max(E \cup {0}) \in E \cup {0} /\ \A i \in E \cup {0} : i <= Max(E \cup {0})
  BY <1>2, <1>4, ExtremaFacts
<1> QED
  BY <1>3, <1>5

\* A place of s that ends a line, or its beginning.
Border(s, d) == d = 0 \/ (d \in 1..Len(s) /\ s[d].last)

LEMMA RestFacts ==
    ASSUME NEW s \in Seq(Byte)
    PROVE  \E d \in 0..Len(s) :
              /\ Dropped(s, d, Rest(s)) /\ Border(s, d)
              /\ \A i \in 1..Len(s) : s[i].last => i <= d
<1> DEFINE d == Max({0} \cup Ends(s))
<1>1. d \in {0} \cup Ends(s) /\ \A i \in Ends(s) : i <= d
  BY LastEndFacts
<1>2. Rest(s) = SubSeq(s, 1 + d, Len(s))
  BY DEF Rest
<1> HIDE DEF d
<1>3. d \in 0..Len(s) /\ Border(s, d)
  BY <1>1, EndsFacts DEF Border
<1>4. \A i \in 1..Len(s) : s[i].last => i <= d
  BY <1>1, EndsFacts
<1>5. Dropped(s, d, Rest(s))
  BY <1>2, <1>3, DroppedFacts
<1> QED
  BY <1>3, <1>4, <1>5

LEMMA LineUpToFacts ==
    ASSUME NEW s \in Seq(Byte), NEW e \in Ends(s)
    PROVE  \E a \in 0..(e - 1) :
              /\ LineUpTo(s, e) = SubSeq(s, 1 + a, e) /\ Border(s, a)
              /\ \A i \in 1..(e - 1) : s[i].last => i <= a
<1> DEFINE E == {i \in Ends(s) : i < e}
           a == Max({0} \cup E)
<1>0. E \in SUBSET Ends(s)
  OBVIOUS
<1>1. a \in {0} \cup E /\ \A i \in E : i <= a
  BY <1>0, LastEndFacts
<1>2. LineUpTo(s, e) = SubSeq(s, 1 + a, e)
  BY DEF LineUpTo
<1>3. \A i : i \in E <=> i \in 1..Len(s) /\ s[i].last /\ i < e
  BY EndsFacts
<1>4. e \in 1..Len(s)
  BY EndsFacts
<1> HIDE DEF a, E
<1>5. a \in 0..(e - 1) /\ Border(s, a)
  BY <1>1, <1>3, <1>4 DEF Border
<1>6. \A i \in 1..(e - 1) : s[i].last => i <= a
  BY <1>1, <1>3, <1>4
<1> QED
  BY <1>2, <1>5, <1>6

LEMMA RecoveredFacts ==
    ASSUME NEW s \in Seq(Byte)
    PROVE  \E d \in 0..Len(s) :
              /\ Dropped(s, d, Recovered(s))
              /\ d # 0 => Len(s) > MaxLine /\ (d = Len(s) \/ s[d].last)
              /\ \A i \in 1..Len(s) : i < d => ~s[i].last
<1>1. Len(s) \in Nat /\ MaxLine \in Nat
  BY ChannelConstants
<1>2. CASE ~(Len(s) > MaxLine)
  <2>1. Recovered(s) = s
    BY <1>2 DEF Recovered
  <2>2. Dropped(s, 0, s)
    BY DEF Dropped
  <2> QED
    BY <1>1, <2>1, <2>2
<1>3. CASE Len(s) > MaxLine /\ Ends(s) = {}
  <2>1. Recovered(s) = <<>>
    BY <1>3 DEF Recovered, AfterFirst
  <2>2. Dropped(s, Len(s), <<>>)
    BY <1>1 DEF Dropped
  <2>3. \A i \in 1..Len(s) : ~s[i].last
    BY <1>3, EndsFacts
  <2> QED
    BY <1>1, <1>3, <2>1, <2>2, <2>3
<1>4. CASE Len(s) > MaxLine /\ Ends(s) # {}
  <2> DEFINE d == Min(Ends(s))
  <2>1. d \in Ends(s) /\ \A i \in Ends(s) : d <= i
    BY <1>4, EndsFacts, ExtremaFacts
  <2>2. Recovered(s) = SubSeq(s, 1 + d, Len(s))
    BY <1>4 DEF Recovered, AfterFirst
  <2> HIDE DEF d
  <2>3. d \in 1..Len(s) /\ s[d].last
    BY <2>1, EndsFacts
  <2>4. \A i \in 1..Len(s) : i < d => ~s[i].last
    BY <2>1, <2>3, EndsFacts
  <2>5. Dropped(s, d, Recovered(s))
    BY <2>2, <2>3, DroppedFacts
  <2> QED
    BY <1>1, <1>4, <2>3, <2>4, <2>5
<1> QED
  BY <1>1, <1>2, <1>3, <1>4

LEMMA LineFacts ==
    ASSUME NEW m \in Msg
    PROVE  /\ Line(m) \in Seq(Byte) /\ Len(Line(m)) = Size[m]
           /\ \A i \in 1..Size[m] : Line(m)[i].of = m /\ (Line(m)[i].last <=> i = Size[m])
<1>1. Size[m] \in Nat
  BY ChannelConstants
<1>2. \A i \in 1..Size[m] : [of |-> m, last |-> i = Size[m]] \in Byte
  BY DEF Byte
<1>3. Line(m) \in Seq(Byte) /\ Len(Line(m)) = Size[m]
  BY <1>1, <1>2 DEF Line
<1>4. \A i \in 1..Size[m] : Line(m)[i] = [of |-> m, last |-> i = Size[m]]
  BY DEF Line
<1>5. ASSUME NEW i \in 1..Size[m]
      PROVE  Line(m)[i].of = m /\ (Line(m)[i].last <=> i = Size[m])
  <2> DEFINE end == i = Size[m]
  <2>1. Line(m)[i] = [of |-> m, last |-> end] /\ end \in BOOLEAN
    BY <1>4
  <2>2. end <=> i = Size[m]
    OBVIOUS
  <2> HIDE DEF end
  <2>3. Line(m)[i].of = m /\ Line(m)[i].last = end
    BY <2>1
  <2> QED
    BY <2>2, <2>3
<1> QED
  BY <1>3, <1>5

\* A line that is parsed is all of one message, which its last byte tells.
LEMMA ParsedFacts ==
    ASSUME NEW s \in Seq(Byte), NEW e \in Ends(s), Parsed(LineUpTo(s, e))
    PROVE  s[e].of \in Msg /\ s[e].last /\ e \in 1..Len(s)
<1>1. PICK m \in Msg : LineUpTo(s, e) = Line(m)
  BY DEF Parsed
<1>2. PICK a \in 0..(e - 1) : LineUpTo(s, e) = SubSeq(s, 1 + a, e)
  BY LineUpToFacts
<1>3. e \in 1..Len(s) /\ s[e].last
  BY EndsFacts
<1>4. Len(SubSeq(s, 1 + a, e)) = e - a /\ SubSeq(s, 1 + a, e)[e - a] = s[e]
  <2>1. e \in 0..Len(s) /\ a \in 0..e /\ e - a \in 1..(e - a) /\ a + (e - a) = e
    BY <1>3
  <2>2. /\ Len(SubSeq(s, 1 + a, e)) = e - a
        /\ \A i \in 1..(e - a) : SubSeq(s, 1 + a, e)[i] = s[a + i]
    BY <2>1, PartFacts
  <2> QED
    BY <2>1, <2>2
<1>5. Size[m] = e - a /\ e - a \in 1..Size[m]
  <2>1. Len(Line(m)) = Size[m]
    BY LineFacts
  <2>2. Size[m] = e - a
    BY <1>1, <1>2, <1>4, <2>1
  <2>3. e - a \in Nat /\ e - a # 0
    BY <1>3
  <2> QED
    BY <2>2, <2>3
<1>6. s[e].of = m
  <2>1. Line(m)[e - a].of = m
    BY <1>5, LineFacts
  <2> QED
    BY <1>1, <1>2, <1>4, <2>1
<1> QED
  BY <1>3, <1>6

\* The messages of s are those of its parsed lines, in the order of their ends.
LEMMA MessagesFacts ==
    ASSUME NEW s \in Seq(Byte)
    PROVE  \E ends \in Seq(Ends(s)) :
              /\ Messages(s) \in Seq(Msg) /\ Len(Messages(s)) = Len(ends)
              /\ \A i, k \in 1..Len(ends) : i < k => ends[i] < ends[k]
              /\ \A k \in 1..Len(ends) : Messages(s)[k] = s[ends[k]].of
              /\ \A e \in Ends(s) : Parsed(LineUpTo(s, e)) => \E k \in 1..Len(ends) : ends[k] = e
<1> DEFINE W == {e \in Ends(s) : Parsed(LineUpTo(s, e))}
           ends == InOrder(W)
<1>1. W \in SUBSET Nat /\ IsFiniteSet(W) /\ W \in SUBSET Ends(s)
  <2>1. W \in SUBSET Ends(s)
    OBVIOUS
  <2> QED
    BY <2>1, EndsFacts, FS_Subset
<1>2. /\ ends \in Seq(W)
      /\ \A i, k \in 1..Len(ends) : i < k => ends[i] < ends[k]
      /\ \A e \in W : \E k \in 1..Len(ends) : ends[k] = e
  BY <1>1, InOrderFacts
<1>3. Messages(s) = [k \in DOMAIN ends |-> s[ends[k]].of]
  BY DEF Messages
<1>4. \A e \in W : s[e].of \in Msg
  BY ParsedFacts
<1>5. \A e \in Ends(s) : Parsed(LineUpTo(s, e)) => e \in W
  OBVIOUS
<1> HIDE DEF W, ends
<1>6. ends \in Seq(Ends(s)) /\ DOMAIN ends = 1..Len(ends) /\ \A k \in 1..Len(ends) : ends[k] \in W
  <2>1. DOMAIN ends = 1..Len(ends) /\ \A k \in 1..Len(ends) : ends[k] \in W
    BY <1>2
  <2>2. ends \in Seq(Ends(s))
    <3>1. \A k \in 1..Len(ends) : ends[k] \in Ends(s)
      BY <1>1, <2>1
    <3>2. Len(ends) \in Nat /\ ends = [k \in 1..Len(ends) |-> ends[k]]
      BY <1>2
    <3> QED
      BY <3>1, <3>2
  <2> QED
    BY <2>1, <2>2
<1>7. /\ Messages(s) \in Seq(Msg) /\ Len(Messages(s)) = Len(ends)
      /\ \A k \in 1..Len(ends) : Messages(s)[k] = s[ends[k]].of
  <2>1. Len(ends) \in Nat
    BY <1>2
  <2>2. Messages(s) \in [1..Len(ends) -> Msg]
    BY <1>3, <1>4, <1>6
  <2> QED
    BY <1>3, <1>6, <2>1, <2>2
<1>8. \A e \in Ends(s) : Parsed(LineUpTo(s, e)) => \E k \in 1..Len(ends) : ends[k] = e
  BY <1>2, <1>5
<1> QED
  BY <1>2, <1>6, <1>7, <1>8

---------------------------------------------------------------------------
(* Cutting a line of bytes.                                                *)

\* A place where what readLoop drops ends.
Cut(s, d) == Border(s, d) \/ (d > MaxLine /\ \A i \in 1..d : ~s[i].last)

\* No whole line is cut in two.
LEMMA CutFacts ==
    ASSUME NEW s \in Seq(Byte), NEW m \in Msg, NEW b \in 1..Len(s), Size[m] <= MaxLine,
           Placed(s, m, b), Whole(s, m, b), NEW d \in 0..Len(s), Cut(s, d)
    PROVE  b <= d \/ d <= b - Size[m]
<1>1. Size[m] \in Nat \ {0} /\ MaxLine \in Nat /\ Len(s) \in Nat
  BY ChannelConstants
<1>2. SUFFICES ASSUME d < b, b - Size[m] < d PROVE FALSE
  BY <1>1
<1>3. d \in 1..Len(s) /\ s[d].of = m /\ ~s[d].last
  BY <1>1, <1>2 DEF Placed, Whole
<1>4. d > MaxLine /\ \A i \in 1..d : ~s[i].last
  BY <1>3 DEF Cut, Border
<1>5. b # Size[m] /\ b - Size[m] \in 1..d
  BY <1>1, <1>2, <1>4 DEF Whole
<1>6. s[b - Size[m]].last
  BY <1>5 DEF Whole
<1> QED
  BY <1>4, <1>5, <1>6

\* What is in the rest was in the whole, at a place that is left.
LEMMA DroppedIn ==
    ASSUME NEW s \in Seq(Byte), NEW d \in 0..Len(s), NEW u, Dropped(s, d, u)
    PROVE  /\ \A i \in 1..Len(u) : d + i \in 1..Len(s) /\ u[i] = s[d + i]
           /\ \A j \in (d + 1)..Len(s) : j - d \in 1..Len(u) /\ u[j - d] = s[j]
           /\ \A m : In(u, m) <=> \E j \in (d + 1)..Len(s) : s[j].of = m
           /\ u \in Seq(Byte) /\ Len(u) \in Nat /\ Len(u) = Len(s) - d
<1>1. Len(s) \in Nat /\ u \in Seq(Byte) /\ Len(u) = Len(s) - d /\ Len(u) \in Nat
  BY DEF Dropped
<1>2. \A i \in 1..Len(u) : d + i \in 1..Len(s) /\ d + i \in (d + 1)..Len(s) /\ u[i] = s[d + i]
  BY <1>1 DEF Dropped
<1>3. ASSUME NEW j \in (d + 1)..Len(s) PROVE j - d \in 1..Len(u) /\ u[j - d] = s[j]
  <2>1. j - d \in 1..Len(u) /\ d + (j - d) = j
    BY <1>1
  <2> QED
    BY <1>2, <2>1
<1>4. \A m : In(u, m) <=> \E j \in (d + 1)..Len(s) : s[j].of = m
  BY <1>2, <1>3 DEF In
<1> QED
  BY <1>1, <1>2, <1>3, <1>4

\* What a cut leaves of a message that is left is placed as before, and a line
\* that was whole still is.
LEMMA DroppedPlaced ==
    ASSUME NEW s \in Seq(Byte), NEW d \in 0..Len(s), NEW u, Dropped(s, d, u),
           NEW m \in Msg, NEW b \in 1..Len(s), Placed(s, m, b), In(u, m)
    PROVE  /\ b - d \in 1..Len(u) /\ Placed(u, m, b - d)
           /\ Size[m] <= MaxLine /\ Cut(s, d) /\ Whole(s, m, b) => Whole(u, m, b - d)
<1>1. Size[m] \in Nat \ {0} /\ Len(s) \in Nat /\ Len(u) \in Nat /\ Len(u) = Len(s) - d
  BY ChannelConstants, DroppedIn
<1>2. PICK j \in (d + 1)..Len(s) : s[j].of = m
  BY DroppedIn
<1>3. j \in 1..Len(s) /\ j <= b
  BY <1>1, <1>2 DEF Placed
<1>4. b - d \in 1..Len(u)
  BY <1>1, <1>2, <1>3
<1>5. Placed(u, m, b - d)
  <2> SUFFICES ASSUME NEW i \in 1..Len(u)
               PROVE  /\ u[i].of = m <=> (b - d) - Size[m] < i /\ i <= b - d
                      /\ u[i].of = m => (u[i].last <=> i = b - d)
    BY DEF Placed
  <2>1. d + i \in 1..Len(s) /\ u[i] = s[d + i]
    BY DroppedIn
  <2>2. /\ s[d + i].of = m <=> b - Size[m] < d + i /\ d + i <= b
        /\ s[d + i].of = m => (s[d + i].last <=> d + i = b)
    BY <2>1 DEF Placed
  <2>3. /\ b - Size[m] < d + i <=> (b - d) - Size[m] < i
        /\ d + i <= b <=> i <= b - d
        /\ d + i = b <=> i = b - d
    BY <1>1
  <2> QED
    BY <2>1, <2>2, <2>3
<1>6. ASSUME Size[m] <= MaxLine, Cut(s, d), Whole(s, m, b) PROVE Whole(u, m, b - d)
  <2>1. d <= b - Size[m]
    <3>1. b <= d \/ d <= b - Size[m]
      BY <1>6, CutFacts
    <3> QED
      BY <1>1, <1>2, <1>3, <3>1
  <2>2. CASE b - Size[m] = d
    BY <1>1, <2>2 DEF Whole
  <2>3. CASE b - Size[m] > d
    <3>1. b - Size[m] \in (d + 1)..Len(s) /\ b # Size[m]
      BY <1>1, <2>3
    <3>2. s[b - Size[m]].last
      BY <1>6, <3>1 DEF Whole
    <3>3. u[(b - Size[m]) - d] = s[b - Size[m]]
      BY <3>1, DroppedIn
    <3>4. (b - Size[m]) - d = (b - d) - Size[m] /\ b - d >= Size[m]
      BY <1>1, <2>3
    <3> QED
      BY <3>2, <3>3, <3>4 DEF Whole
  <2> QED
    BY <1>1, <2>1, <2>2, <2>3
<1> QED
  BY <1>4, <1>5, <1>6

\* Two cuts are one.
LEMMA DroppedTwice ==
    ASSUME NEW s \in Seq(Byte), NEW d \in 0..Len(s), NEW u, Dropped(s, d, u),
           NEW e \in 0..Len(u), NEW v, Dropped(u, e, v)
    PROVE  d + e \in 0..Len(s) /\ Dropped(s, d + e, v)
<1>1. Len(s) \in Nat /\ u \in Seq(Byte) /\ Len(u) = Len(s) - d /\ Len(u) \in Nat
  BY DroppedIn
<1>2. v \in Seq(Byte) /\ Len(v) = Len(u) - e /\ Len(v) \in Nat
  BY <1>1, DroppedIn
<1>3. d + e \in 0..Len(s) /\ Len(v) = Len(s) - (d + e)
  BY <1>1, <1>2
<1>4. ASSUME NEW i \in 1..Len(v) PROVE v[i] = s[(d + e) + i]
  <2>1. e + i \in 1..Len(u) /\ v[i] = u[e + i]
    <3>1. \A k \in 1..Len(v) : e + k \in 1..Len(u) /\ v[k] = u[e + k]
      BY <1>1, DroppedIn
    <3> QED
      BY <3>1
  <2>2. u[e + i] = s[d + (e + i)] /\ d + (e + i) = (d + e) + i
    <3>1. \A k \in 1..Len(u) : u[k] = s[d + k]
      BY DroppedIn
    <3>2. i \in Nat
      BY <1>2
    <3> QED
      BY <1>1, <2>1, <3>1, <3>2
  <2> QED
    BY <2>1, <2>2
<1> QED
  BY <1>2, <1>3, <1>4 DEF Dropped

\* What follows a first part is cut with it.
LEMMA DroppedBefore ==
    ASSUME NEW t \in Seq(Byte), NEW p \in Seq(Byte), NEW d \in 0..Len(t), NEW u, Dropped(t, d, u)
    PROVE  d \in 0..Len(t \o p) /\ Dropped(t \o p, d, u \o p)
<1>1. u \in Seq(Byte) /\ Len(u) = Len(t) - d /\ Len(u) \in Nat /\ Len(t) \in Nat
  BY DroppedIn
<1>2. /\ t \o p \in Seq(Byte) /\ Len(t \o p) = Len(t) + Len(p) /\ Len(p) \in Nat
      /\ \A i \in 1..Len(t) : (t \o p)[i] = t[i]
      /\ \A i \in 1..Len(p) : (t \o p)[Len(t) + i] = p[i]
  <2> t \in Seq(Byte) /\ p \in Seq(Byte)
    OBVIOUS
  <2> QED
    BY JoinedFacts
<1>3. /\ u \o p \in Seq(Byte) /\ Len(u \o p) = Len(u) + Len(p)
      /\ \A i \in 1..Len(u) : (u \o p)[i] = u[i]
      /\ \A i \in 1..Len(p) : (u \o p)[Len(u) + i] = p[i]
  <2>1. u \in Seq(Byte) /\ p \in Seq(Byte)
    BY <1>1
  <2> QED
    BY <2>1, JoinedFacts
<1>4. ASSUME NEW i \in 1..Len(u \o p) PROVE (u \o p)[i] = (t \o p)[d + i]
  <2>1. CASE i \in 1..Len(u)
    <3>1. d + i \in 1..Len(t) /\ u[i] = t[d + i]
      BY <2>1, DroppedIn
    <3> QED
      BY <1>2, <1>3, <2>1, <3>1
  <2>2. CASE i \notin 1..Len(u)
    <3>1. i - Len(u) \in 1..Len(p) /\ i = Len(u) + (i - Len(u)) /\ d + i = Len(t) + (i - Len(u))
      BY <1>1, <1>2, <1>3, <2>2
    <3> QED
      BY <1>2, <1>3, <3>1
  <2> QED
    BY <2>1, <2>2
<1> QED
  BY <1>1, <1>2, <1>3, <1>4 DEF Dropped

\* A whole line between two cuts is one of the lines of what they leave.
LEMMA WholeIsParsed ==
    ASSUME NEW s \in Seq(Byte), NEW m \in Msg, NEW b \in 1..Len(s),
           Placed(s, m, b), Whole(s, m, b)
    PROVE  b \in Ends(s) /\ Parsed(LineUpTo(s, b)) /\ s[b].of = m
<1>1. Size[m] \in Nat \ {0} /\ Len(s) \in Nat
  BY ChannelConstants
<1>2. s[b].of = m /\ s[b].last
  BY <1>1 DEF Placed
<1>3. b \in Ends(s)
  BY <1>2, EndsFacts
<1>4. PICK a \in 0..(b - 1) : /\ LineUpTo(s, b) = SubSeq(s, 1 + a, b) /\ Border(s, a)
                              /\ \A i \in 1..(b - 1) : s[i].last => i <= a
  BY <1>3, LineUpToFacts
<1>5. a = b - Size[m]
  <2>1. a <= b - Size[m]
    <3>1. CASE a = 0
      BY <1>1, <3>1 DEF Whole
    <3>2. CASE a \in 1..Len(s) /\ s[a].last
      <4>1. a # b
        BY <1>4
      <4>2. ~(s[a].of = m)
        BY <3>2, <4>1 DEF Placed
      <4>3. ~(b - Size[m] < a)
        BY <1>1, <1>4, <3>2, <4>2 DEF Placed
      <4> QED
        BY <1>1, <4>3
    <3> QED
      BY <1>4, <3>1, <3>2 DEF Border
  <2>2. b - Size[m] <= a
    <3>1. CASE b = Size[m]
      BY <1>1, <3>1
    <3>2. CASE b # Size[m]
      <4>1. b - Size[m] \in 1..(b - 1) /\ s[b - Size[m]].last
        BY <1>1, <3>2 DEF Whole
      <4> QED
        BY <1>4, <4>1
    <3> QED
      BY <3>1, <3>2
  <2> QED
    BY <1>1, <2>1, <2>2
<1>6. SubSeq(s, 1 + a, b) = Line(m)
  <2>1. /\ SubSeq(s, 1 + a, b) \in Seq(Byte) /\ Len(SubSeq(s, 1 + a, b)) = Size[m]
        /\ \A i \in 1..Size[m] : SubSeq(s, 1 + a, b)[i] = s[a + i]
    <3>1. b \in 0..Len(s) /\ a \in 0..b /\ b - a = Size[m]
      BY <1>1, <1>5
    <3>2. /\ SubSeq(s, 1 + a, b) \in Seq(Byte) /\ Len(SubSeq(s, 1 + a, b)) = b - a
          /\ \A i \in 1..(b - a) : SubSeq(s, 1 + a, b)[i] = s[a + i]
      BY <3>1, PartFacts
    <3> QED
      BY <3>1, <3>2
  <2>2. ASSUME NEW i \in 1..Size[m] PROVE s[a + i] = Line(m)[i]
    <3>1. a + i \in 1..Len(s) /\ b - Size[m] < a + i /\ a + i <= b /\ (a + i = b <=> i = Size[m])
      BY <1>1, <1>5
    <3>2. s[a + i].of = m /\ (s[a + i].last <=> i = Size[m])
      BY <3>1 DEF Placed
    <3>3. s[a + i] \in Byte /\ Line(m)[i] \in Byte
      BY <1>1, <3>1, LineFacts
    <3>4. Line(m)[i].of = m /\ (Line(m)[i].last <=> i = Size[m])
      BY LineFacts
    <3>5. s[a + i].last = Line(m)[i].last
      BY <3>2, <3>3, <3>4, ByteFacts
    <3>6. s[a + i].of = Line(m)[i].of
      BY <3>2, <3>4
    <3> QED
      BY <3>3, <3>5, <3>6 DEF Byte
  <2>3. Line(m) \in Seq(Byte) /\ Len(Line(m)) = Size[m]
    BY LineFacts
  <2>4. \A i \in 1..Size[m] : SubSeq(s, 1 + a, b)[i] = Line(m)[i]
    BY <2>1, <2>2
  <2> QED
    BY <2>1, <2>3, <2>4, SameSequence
<1> QED
  BY <1>2, <1>3, <1>4, <1>6 DEF Parsed

---------------------------------------------------------------------------
(* What a write keeps.                                                     *)

LEMMA BeforeAppend ==
    ASSUME NEW q \in Seq(Msg), NEW m \in Msg
    PROVE  /\ \A a, b : BeforeIn(q, a, b) => BeforeIn(Append(q, m), a, b)
           /\ \A a \in ToSet(q) : BeforeIn(Append(q, m), a, m)
           /\ \A a : a \in ToSet(Append(q, m)) <=> a \in ToSet(q) \/ a = m
<1> DEFINE r == Append(q, m)
<1>1. /\ r \in Seq(Msg) /\ Len(r) = Len(q) + 1 /\ Len(q) \in Nat /\ r[Len(q) + 1] = m
      /\ \A i \in 1..Len(q) : r[i] = q[i] /\ i \in 1..Len(r) /\ i < Len(q) + 1
      /\ Len(q) + 1 \in 1..Len(r)
  OBVIOUS
<1> HIDE DEF r
<1>2. \A a, b : BeforeIn(q, a, b) => BeforeIn(r, a, b)
  BY <1>1 DEF BeforeIn
<1>3. ASSUME NEW a \in ToSet(q) PROVE BeforeIn(r, a, m)
  <2>1. PICK i \in 1..Len(q) : q[i] = a
    BY ToSetFacts
  <2> QED
    BY <1>1, <2>1 DEF BeforeIn
<1>4. ASSUME NEW a PROVE a \in ToSet(r) <=> a \in ToSet(q) \/ a = m
  <2>1. a \in ToSet(q) \/ a = m => a \in ToSet(r)
    <3>1. ASSUME a \in ToSet(q) PROVE a \in ToSet(r)
      <4>1. PICK i \in 1..Len(q) : q[i] = a
        BY <3>1, ToSetFacts
      <4>2. r[i] = a /\ i \in 1..Len(r)
        BY <1>1, <4>1
      <4> QED
        BY <1>1, <4>2, ToSetFacts
    <3>2. m \in ToSet(r)
      BY <1>1, ToSetFacts
    <3> QED
      BY <3>1, <3>2
  <2>2. ASSUME a \in ToSet(r) PROVE a \in ToSet(q) \/ a = m
    <3>1. PICK i \in 1..Len(r) : r[i] = a
      BY <1>1, <2>2, ToSetFacts
    <3>2. CASE i \in 1..Len(q)
      BY <1>1, <3>1, <3>2, ToSetFacts
    <3>3. CASE i = Len(q) + 1
      BY <1>1, <3>1, <3>3
    <3> QED
      BY <1>1, <3>2, <3>3
  <2> QED
    BY <2>1, <2>2
<1> QED
  BY <1>2, <1>3, <1>4 DEF r

\* More bytes of others leave the lines of a message where they are.
LEMMA JoinedPlaced ==
    ASSUME NEW s \in Seq(Byte), NEW l \in Seq(Byte), NEW m \in Msg, NEW b \in 1..Len(s),
           Placed(s, m, b), \A i \in 1..Len(l) : l[i].of # m
    PROVE  /\ b \in 1..Len(s \o l) /\ Placed(s \o l, m, b)
           /\ Whole(s, m, b) => Whole(s \o l, m, b)
<1> DEFINE u == s \o l
<1>1. /\ u \in Seq(Byte) /\ Len(u) = Len(s) + Len(l) /\ Len(s) \in Nat /\ Len(l) \in Nat
      /\ \A i \in 1..Len(s) : u[i] = s[i]
      /\ \A i \in 1..Len(l) : u[Len(s) + i] = l[i]
  BY JoinedFacts
<1>0. Size[m] \in Nat \ {0}
  BY ChannelConstants
<1> HIDE DEF u
<1>2. b \in 1..Len(u)
  BY <1>1
<1>3. Placed(u, m, b)
  <2> SUFFICES ASSUME NEW i \in 1..Len(u)
               PROVE  /\ u[i].of = m <=> b - Size[m] < i /\ i <= b
                      /\ u[i].of = m => (u[i].last <=> i = b)
    BY DEF Placed
  <2>1. CASE i \in 1..Len(s)
    BY <1>1, <2>1 DEF Placed
  <2>2. CASE i \notin 1..Len(s)
    <3>1. i - Len(s) \in 1..Len(l) /\ i = Len(s) + (i - Len(s)) /\ ~(i <= b)
      BY <1>1, <2>2
    <3>2. u[i].of # m
      BY <1>1, <3>1
    <3> QED
      BY <3>1, <3>2
  <2> QED
    BY <2>1, <2>2
<1>4. ASSUME Whole(s, m, b) PROVE Whole(u, m, b)
  <2>1. b - Size[m] \in 1..Len(s) \/ b = Size[m]
    BY <1>0, <1>1, <1>4 DEF Whole
  <2> QED
    BY <1>1, <1>4, <2>1 DEF Whole
<1> QED
  BY <1>2, <1>3, <1>4 DEF u

LEMMA JoinedIn ==
    ASSUME NEW s \in Seq(Byte), NEW l \in Seq(Byte)
    PROVE  \A m : In(s \o l, m) <=> In(s, m) \/ In(l, m)
<1> DEFINE u == s \o l
<1>1. /\ u \in Seq(Byte) /\ Len(u) = Len(s) + Len(l) /\ Len(s) \in Nat /\ Len(l) \in Nat
      /\ \A i \in 1..Len(s) : u[i] = s[i] /\ i \in 1..Len(u)
      /\ \A i \in 1..Len(l) : u[Len(s) + i] = l[i] /\ Len(s) + i \in 1..Len(u)
  BY JoinedFacts
<1> HIDE DEF u
<1>2. ASSUME NEW m PROVE In(s, m) \/ In(l, m) => In(u, m)
  BY <1>1 DEF In
<1>3. ASSUME NEW m, In(u, m) PROVE In(s, m) \/ In(l, m)
  <2>1. PICK i \in 1..Len(u) : u[i].of = m
    BY <1>3 DEF In
  <2>2. CASE i \in 1..Len(s)
    BY <1>1, <2>1, <2>2 DEF In
  <2>3. CASE i \notin 1..Len(s)
    <3>1. i - Len(s) \in 1..Len(l) /\ i = Len(s) + (i - Len(s))
      BY <1>1, <2>3
    <3> QED
      BY <1>1, <2>1, <3>1 DEF In
  <2> QED
    BY <2>2, <2>3
<1> QED
  BY <1>2, <1>3 DEF u

\* The last byte tells that it ends a line, unless it is other text.
LEMMA LastByte ==
    ASSUME NEW s \in Seq(Byte), s # <<>>, s[Len(s)].of # NoOne,
           NEW q, NEW g, NEW x, LinesSound(s, q, g, x)
    PROVE  s[Len(s)].last
<1>1. Len(s) \in 1..Len(s)
  OBVIOUS
<1> DEFINE m == s[Len(s)].of
<1>2. m \in Msg
  <2>1. s[Len(s)] \in Byte
    BY <1>1
  <2> QED
    BY <2>1, ByteFacts
<1>3. In(s, m)
  BY <1>1 DEF In
<1> HIDE DEF m
<1>4. PICK b \in 1..Len(s) : Placed(s, m, b)
  BY <1>2, <1>3 DEF LinesSound
<1>5. s[Len(s)].of = m
  BY DEF m
<1>6. Len(s) <= b /\ (s[Len(s)].last <=> Len(s) = b)
  BY <1>1, <1>4, <1>5 DEF Placed
<1> QED
  BY <1>1, <1>6

LEMMA WriteKeeps ==
    ASSUME NEW s \in Seq(Byte), NEW q \in Seq(Msg), NEW g \in Seq(Msg), NEW x, NEW y,
           LinkSound(s, q, g, x), NEW m \in Msg, m \notin ToSet(q), Size[m] <= MaxLine,
           x \subseteq y, s = <<>> \/ s[Len(s)].of # NoOne \/ s[Len(s)].last \/ m \in y
    PROVE  LinkSound(s \o Line(m), Append(q, m), g, y)
<1> DEFINE l == Line(m)
           u == s \o l
           r == Append(q, m)
<1>1. /\ Size[m] \in Nat \ {0} /\ NoOne \notin Msg
      /\ l \in Seq(Byte) /\ Len(l) = Size[m]
      /\ \A i \in 1..Size[m] : l[i].of = m /\ (l[i].last <=> i = Size[m])
  BY ChannelConstants, LineFacts
<1>2. /\ u \in Seq(Byte) /\ Len(u) = Len(s) + Size[m] /\ Len(s) \in Nat
      /\ \A i \in 1..Len(s) : u[i] = s[i]
      /\ \A i \in 1..Size[m] : u[Len(s) + i] = l[i]
  BY <1>1, JoinedFacts
<1>3. /\ \A a, b : BeforeIn(q, a, b) => BeforeIn(r, a, b)
      /\ \A a \in ToSet(q) : BeforeIn(r, a, m)
      /\ \A a : a \in ToSet(r) <=> a \in ToSet(q) \/ a = m
  BY BeforeAppend
<1>4. \A n : In(u, n) <=> In(s, n) \/ n = m
  <2>1. \A n : In(l, n) <=> n = m
    <3>1. 1 \in 1..Size[m]
      BY <1>1
    <3> QED
      BY <1>1, <3>1 DEF In
  <2> QED
    BY <1>1, <2>1, JoinedIn
<1>5. /\ LinesSound(s, q, g, x) /\ LinesOrdered(s, q) /\ ReadDelivered(s, q, g, x)
      /\ Fits(q) /\ DeliveredSound(s, q, g)
  BY DEF LinkSound
<1>6. ~In(s, m) /\ m \notin ToSet(g)
  BY <1>5 DEF LinesSound, DeliveredSound
<1> HIDE DEF u, r, l
<1>7. LinesSound(u, r, g, y)
  <2> SUFFICES ASSUME NEW n \in Msg, In(u, n)
               PROVE  /\ n \in ToSet(r) /\ n \notin ToSet(g)
                      /\ \E b \in 1..Len(u) : Placed(u, n, b) /\ (n \in y \/ Whole(u, n, b))
    BY DEF LinesSound
  <2>1. CASE n # m
    <3>1. In(s, n)
      BY <1>4, <2>1
    <3>2. PICK b \in 1..Len(s) : Placed(s, n, b) /\ (n \in x \/ Whole(s, n, b))
      BY <1>5, <3>1 DEF LinesSound
    <3>3. n \in ToSet(q) /\ n \notin ToSet(g)
      BY <1>5, <3>1 DEF LinesSound
    <3>4. \A i \in 1..Len(l) : l[i].of # n
      BY <1>1, <2>1
    <3>5. b \in 1..Len(u) /\ Placed(u, n, b) /\ (Whole(s, n, b) => Whole(u, n, b))
      BY <1>1, <3>2, <3>4, JoinedPlaced DEF u
    <3> QED
      BY <1>3, <3>2, <3>3, <3>5
  <2>2. CASE n = m
    <3> DEFINE b == Len(u)
    <3>1. b \in 1..Len(u) /\ b - Size[m] = Len(s)
      BY <1>1, <1>2
    <3>2. Placed(u, m, b)
      <4> SUFFICES ASSUME NEW i \in 1..Len(u)
                   PROVE  /\ u[i].of = m <=> b - Size[m] < i /\ i <= b
                          /\ u[i].of = m => (u[i].last <=> i = b)
        BY DEF Placed
      <4>1. CASE i \in 1..Len(s)
        <5>1. u[i].of # m /\ ~(Len(s) < i)
          BY <1>2, <1>6, <4>1 DEF In
        <5> QED
          BY <3>1, <5>1
      <4>2. CASE i \notin 1..Len(s)
        <5>1. i - Len(s) \in 1..Size[m] /\ i = Len(s) + (i - Len(s)) /\ Len(s) < i /\ i <= b
          BY <1>1, <1>2, <4>2
        <5>2. u[i] = l[i - Len(s)]
          BY <1>2, <5>1
        <5>3. u[i].of = m /\ (u[i].last <=> i - Len(s) = Size[m])
          BY <1>1, <5>1, <5>2
        <5> QED
          BY <1>1, <1>2, <3>1, <5>1, <5>3
      <4> QED
        BY <4>1, <4>2
    <3>3. m \in y \/ Whole(u, m, b)
      <4>1. CASE s = <<>>
        BY <1>1, <1>2, <3>1, <4>1 DEF Whole
      <4>2. CASE s # <<>> /\ s[Len(s)].last
        <5>1. Len(s) \in 1..Len(s) /\ u[Len(s)] = s[Len(s)]
          BY <1>2, <4>2
        <5>2. u[b - Size[m]].last
          BY <3>1, <4>2, <5>1
        <5>3. b >= Size[m]
          BY <1>1, <1>2
        <5> QED
          BY <5>2, <5>3 DEF Whole
      <4>3. CASE s # <<>> /\ s[Len(s)].of # NoOne
        BY <1>5, <4>2, <4>3, LastByte
      <4> QED
        BY <4>1, <4>2, <4>3
    <3> HIDE DEF b
    <3>4. m \in ToSet(r)
      BY <1>3
    <3> QED
      BY <1>6, <2>2, <3>1, <3>2, <3>3, <3>4
  <2> QED
    BY <2>1, <2>2
<1>8. LinesOrdered(u, r)
  <2> SUFFICES ASSUME NEW i \in 1..Len(u), NEW k \in 1..Len(u), i < k,
                      u[i].of \in Msg, u[k].of \in Msg, u[i].of # u[k].of
               PROVE  BeforeIn(r, u[i].of, u[k].of)
    BY DEF LinesOrdered
  <2>1. \A j \in 1..Len(u) : j \notin 1..Len(s) => u[j].of = m
    <3> SUFFICES ASSUME NEW j \in 1..Len(u), j \notin 1..Len(s) PROVE u[j].of = m
      OBVIOUS
    <3>1. j - Len(s) \in 1..Size[m] /\ j = Len(s) + (j - Len(s))
      BY <1>1, <1>2
    <3>2. u[j] = l[j - Len(s)]
      BY <1>2, <3>1
    <3> QED
      BY <1>1, <3>1, <3>2
  <2>2. CASE k \in 1..Len(s)
    <3>1. i \in 1..Len(s)
      BY <2>2
    <3> QED
      BY <1>2, <1>3, <1>5, <2>2, <3>1 DEF LinesOrdered
  <2>3. CASE k \notin 1..Len(s) /\ i \in 1..Len(s)
    <3>1. u[k].of = m /\ u[i] = s[i]
      BY <1>2, <2>1, <2>3
    <3>2. In(s, u[i].of)
      BY <2>3, <3>1 DEF In
    <3>3. u[i].of \in ToSet(q)
      BY <1>5, <3>2 DEF LinesSound
    <3> QED
      BY <1>3, <3>1, <3>3
  <2>4. CASE k \notin 1..Len(s) /\ i \notin 1..Len(s)
    BY <2>1, <2>4
  <2> QED
    BY <2>2, <2>3, <2>4
<1>9. ReadDelivered(u, r, g, y)
  BY <1>3, <1>4, <1>5 DEF ReadDelivered
<1>10. Fits(r)
  BY <1>3, <1>5 DEF Fits
<1>11. DeliveredSound(u, r, g)
  <2>1. ToSet(g) \subseteq ToSet(r)
    BY <1>3, <1>5 DEF DeliveredSound
  <2>2. \A i, k \in 1..Len(g) : i < k => BeforeIn(r, g[i], g[k])
    BY <1>3, <1>5 DEF DeliveredSound
  <2>3. \A a \in ToSet(g), n \in Msg : In(u, n) => BeforeIn(r, a, n)
    BY <1>3, <1>4, <1>5 DEF DeliveredSound
  <2> QED
    BY <2>1, <2>2, <2>3 DEF DeliveredSound
<1> QED
  BY <1>7, <1>8, <1>9, <1>10, <1>11 DEF LinkSound, u, r, l

\* Other text changes nothing for the messages.
LEMMA TextKeeps ==
    ASSUME NEW s \in Seq(Byte), NEW q \in Seq(Msg), NEW g \in Seq(Msg), NEW x,
           LinkSound(s, q, g, x), NEW l \in Seq(Byte), \A i \in 1..Len(l) : l[i].of \notin Msg
    PROVE  LinkSound(s \o l, q, g, x)
<1> DEFINE u == s \o l
<1>1. /\ u \in Seq(Byte) /\ Len(u) = Len(s) + Len(l) /\ Len(s) \in Nat /\ Len(l) \in Nat
      /\ \A i \in 1..Len(s) : u[i] = s[i]
      /\ \A i \in 1..Len(l) : u[Len(s) + i] = l[i]
  BY JoinedFacts
<1>2. \A n \in Msg : In(u, n) <=> In(s, n)
  <2>1. \A n \in Msg : ~In(l, n)
    BY DEF In
  <2> QED
    BY <2>1, JoinedIn
<1>3. /\ LinesSound(s, q, g, x) /\ LinesOrdered(s, q) /\ ReadDelivered(s, q, g, x)
      /\ Fits(q) /\ DeliveredSound(s, q, g)
  BY DEF LinkSound
<1> HIDE DEF u
<1>4. LinesSound(u, q, g, x)
  <2> SUFFICES ASSUME NEW n \in Msg, In(u, n)
               PROVE  /\ n \in ToSet(q) /\ n \notin ToSet(g)
                      /\ \E b \in 1..Len(u) : Placed(u, n, b) /\ (n \in x \/ Whole(u, n, b))
    BY DEF LinesSound
  <2>1. In(s, n)
    BY <1>2
  <2>2. PICK b \in 1..Len(s) : Placed(s, n, b) /\ (n \in x \/ Whole(s, n, b))
    BY <1>3, <2>1 DEF LinesSound
  <2>3. n \in ToSet(q) /\ n \notin ToSet(g)
    BY <1>3, <2>1 DEF LinesSound
  <2>4. \A i \in 1..Len(l) : l[i].of # n
    OBVIOUS
  <2>5. b \in 1..Len(u) /\ Placed(u, n, b) /\ (Whole(s, n, b) => Whole(u, n, b))
    BY <2>2, <2>4, JoinedPlaced DEF u
  <2> QED
    BY <2>2, <2>3, <2>5
<1>5. LinesOrdered(u, q)
  <2> SUFFICES ASSUME NEW i \in 1..Len(u), NEW k \in 1..Len(u), i < k,
                      u[i].of \in Msg, u[k].of \in Msg, u[i].of # u[k].of
               PROVE  BeforeIn(q, u[i].of, u[k].of)
    BY DEF LinesOrdered
  <2>1. \A j \in 1..Len(u) : j \notin 1..Len(s) => u[j].of \notin Msg
    <3> SUFFICES ASSUME NEW j \in 1..Len(u), j \notin 1..Len(s) PROVE u[j].of \notin Msg
      OBVIOUS
    <3>1. j - Len(s) \in 1..Len(l) /\ j = Len(s) + (j - Len(s))
      BY <1>1
    <3> QED
      BY <1>1, <3>1
  <2>2. i \in 1..Len(s) /\ k \in 1..Len(s)
    BY <2>1
  <2> QED
    BY <1>1, <1>3, <2>2 DEF LinesOrdered
<1>6. ReadDelivered(u, q, g, x)
  <2>1. ToSet(q) \subseteq Msg
    BY ToSetFacts
  <2> QED
    BY <1>2, <1>3, <2>1 DEF ReadDelivered
<1>7. DeliveredSound(u, q, g)
  BY <1>2, <1>3 DEF DeliveredSound
<1> QED
  BY <1>3, <1>4, <1>5, <1>6, <1>7 DEF LinkSound, u

---------------------------------------------------------------------------
(* What a read keeps.  Of the unread bytes s it takes t, of which h bytes  *)
(* without a newline were read before.  It drops d bytes because the       *)
(* buffer is too long, dispatches the lines of the rest w, which end at e, *)
(* and leaves u.                                                           *)

ReadOf(s, h, t, d, w, e, u) ==
    /\ s \in Seq(Byte) /\ t \in Seq(Byte) /\ h \in 0..Len(t)
    /\ Len(t) <= Len(s) /\ Len(t) <= h + MaxChunk
    /\ \A i \in 1..Len(t) : t[i] = s[i]
    /\ \A i \in 1..h : ~t[i].last
    /\ d \in 0..Len(t) /\ Dropped(t, d, w)
    /\ d # 0 => Len(t) > MaxLine /\ (d = Len(t) \/ t[d].last)
    /\ \A i \in 1..Len(t) : i < d => ~t[i].last
    /\ e \in 0..Len(w) /\ Border(w, e) /\ \A i \in 1..Len(w) : w[i].last => i <= e
    /\ Dropped(s, d + e, u)

LEMMA ReadFacts ==
    ASSUME NEW s, NEW h, NEW t, NEW d, NEW w, NEW e, NEW u, ReadOf(s, h, t, d, w, e, u)
    PROVE  /\ s \in Seq(Byte) /\ t \in Seq(Byte) /\ w \in Seq(Byte) /\ u \in Seq(Byte)
           /\ Len(s) \in Nat /\ Len(t) \in 0..Len(s) /\ d \in 0..Len(t) /\ Len(w) = Len(t) - d
           /\ e \in 0..Len(w) /\ d + e \in 0..Len(s) /\ d + e <= Len(t) /\ Dropped(s, d + e, u)
           /\ \A i \in 1..Len(t) : t[i] = s[i]
           /\ \A i \in 1..Len(w) : d + i \in 1..Len(s) /\ d + i \in 1..Len(t) /\ w[i] = s[d + i]
           /\ Cut(t, d) /\ Cut(s, d + e)
<1>1. /\ s \in Seq(Byte) /\ t \in Seq(Byte) /\ Len(s) \in Nat /\ Len(t) \in 0..Len(s) /\ d \in 0..Len(t)
      /\ Dropped(t, d, w) /\ e \in 0..Len(w) /\ Border(w, e) /\ Dropped(s, d + e, u)
      /\ \A i \in 1..Len(t) : t[i] = s[i]
  BY DEF ReadOf
<1>2. /\ w \in Seq(Byte) /\ Len(w) = Len(t) - d /\ Len(w) \in Nat
      /\ \A i \in 1..Len(w) : d + i \in 1..Len(t) /\ w[i] = t[d + i]
  BY <1>1, DroppedIn
<1>3. u \in Seq(Byte)
  BY <1>1 DEF Dropped
<1>4. d + e \in 0..Len(s) /\ d + e <= Len(t) /\ MaxLine \in Nat
  BY <1>1, <1>2, ChannelConstants
<1>5. \A i \in 1..Len(w) : d + i \in 1..Len(s) /\ d + i \in 1..Len(t) /\ w[i] = s[d + i]
  BY <1>1, <1>2
<1>6. Cut(t, d)
  <2>1. CASE d = 0
    BY <2>1 DEF Cut, Border
  <2>2. CASE d # 0 /\ t[d].last
    <3>1. d \in 1..Len(t)
      BY <1>1, <2>2
    <3> QED
      BY <2>2, <3>1 DEF Cut, Border
  <2>3. CASE d # 0 /\ ~t[d].last
    <3>1. Len(t) > MaxLine /\ d = Len(t)
      BY <2>3 DEF ReadOf
    <3>2. \A i \in 1..d : ~t[i].last
      BY <1>1, <2>3, <3>1 DEF ReadOf
    <3> QED
      BY <3>1, <3>2 DEF Cut
  <2> QED
    BY <2>1, <2>2, <2>3
<1>7. Cut(s, d + e)
  <2>1. CASE e = 0
    <3>1. d + e = d
      BY <1>1, <2>1
    <3>2. Cut(s, d)
      BY <1>1, <1>6 DEF Cut, Border
    <3> QED
      BY <3>1, <3>2
  <2>2. CASE e # 0
    <3>1. e \in 1..Len(w) /\ w[e].last
      BY <1>1, <2>2 DEF Border
    <3>2. d + e \in 1..Len(s) /\ s[d + e].last
      BY <1>5, <3>1
    <3> QED
      BY <3>2 DEF Cut, Border
  <2> QED
    BY <2>1, <2>2
<1> QED
  BY <1>1, <1>2, <1>3, <1>4, <1>5, <1>6, <1>7

\* Every message that is dispatched has its end among the bytes that are dropped, in order.
LEMMA DispatchedFacts ==
    ASSUME NEW s, NEW h, NEW t, NEW d, NEW w, NEW e, NEW u, ReadOf(s, h, t, d, w, e, u)
    PROVE  \E at \in Seq(1..(d + e)) :
              /\ Messages(w) \in Seq(Msg) /\ Len(Messages(w)) = Len(at)
              /\ \A i, k \in 1..Len(at) : i < k => at[i] < at[k]
              /\ \A k \in 1..Len(at) : /\ at[k] \in 1..(d + e) /\ at[k] \in 1..Len(s)
                                       /\ s[at[k]].of = Messages(w)[k] /\ s[at[k]].last
              /\ \A b \in Ends(w) : Parsed(LineUpTo(w, b)) => \E k \in 1..Len(at) : at[k] = d + b
<1>1. /\ w \in Seq(Byte) /\ Len(s) \in Nat /\ d \in Nat /\ e \in Nat
      /\ d + e \in 0..Len(s) /\ e <= Len(w) /\ Len(w) \in Nat
      /\ \A i \in 1..Len(w) : d + i \in 1..Len(s) /\ w[i] = s[d + i]
  BY ReadFacts
<1>2. PICK ends \in Seq(Ends(w)) :
              /\ Messages(w) \in Seq(Msg) /\ Len(Messages(w)) = Len(ends)
              /\ \A i, k \in 1..Len(ends) : i < k => ends[i] < ends[k]
              /\ \A k \in 1..Len(ends) : Messages(w)[k] = w[ends[k]].of
              /\ \A b \in Ends(w) : Parsed(LineUpTo(w, b)) => \E k \in 1..Len(ends) : ends[k] = b
  BY <1>1, MessagesFacts
<1>3. \A k \in 1..Len(ends) : ends[k] \in 1..Len(w) /\ w[ends[k]].last /\ ends[k] \in 1..e
  <2> SUFFICES ASSUME NEW k \in 1..Len(ends)
               PROVE  ends[k] \in 1..Len(w) /\ w[ends[k]].last /\ ends[k] \in 1..e
    OBVIOUS
  <2>1. ends[k] \in Ends(w)
    OBVIOUS
  <2>2. ends[k] \in 1..Len(w) /\ w[ends[k]].last
    BY <1>1, <2>1, EndsFacts
  <2>3. ends[k] <= e
    BY <2>2 DEF ReadOf
  <2> QED
    BY <1>1, <2>2, <2>3
<1> DEFINE at == [k \in 1..Len(ends) |-> d + ends[k]]
<1>4. \A k \in 1..Len(ends) : at[k] = d + ends[k] /\ at[k] \in 1..(d + e) /\ at[k] \in 1..Len(s)
  BY <1>1, <1>3
<1>5. at \in Seq(1..(d + e)) /\ Len(at) = Len(ends)
  BY <1>4
<1> HIDE DEF at
<1>6. \A i, k \in 1..Len(at) : i < k => at[i] < at[k]
  <2> SUFFICES ASSUME NEW i \in 1..Len(at), NEW k \in 1..Len(at), i < k PROVE at[i] < at[k]
    OBVIOUS
  <2>1. ends[i] < ends[k] /\ at[i] = d + ends[i] /\ at[k] = d + ends[k]
    BY <1>2, <1>4, <1>5
  <2>2. ends[i] \in Nat /\ ends[k] \in Nat
    BY <1>3, <1>5
  <2> QED
    BY <1>1, <2>1, <2>2
<1>7. \A k \in 1..Len(at) : s[at[k]].of = Messages(w)[k] /\ s[at[k]].last
  BY <1>1, <1>2, <1>3, <1>4, <1>5
<1>8. \A b \in Ends(w) : Parsed(LineUpTo(w, b)) => \E k \in 1..Len(at) : at[k] = d + b
  BY <1>2, <1>4, <1>5
<1> QED
  BY <1>2, <1>4, <1>5, <1>6, <1>7, <1>8

\* A whole line that ends among the bytes that are dropped is dispatched, or it is
\* the line by which the buffer became too long.
LEMMA WholeIsDispatched ==
    ASSUME NEW s, NEW h, NEW t, NEW d, NEW w, NEW e, NEW u, ReadOf(s, h, t, d, w, e, u),
           NEW m \in Msg, NEW b \in 1..(d + e), Size[m] <= MaxLine, Placed(s, m, b), Whole(s, m, b)
    PROVE  NearLimit(m) \/ m \in ToSet(Messages(w))
<1>1. /\ s \in Seq(Byte) /\ t \in Seq(Byte) /\ w \in Seq(Byte)
      /\ Len(s) \in Nat /\ Len(t) \in 0..Len(s) /\ d \in 0..Len(t) /\ Len(w) = Len(t) - d
      /\ e \in 0..Len(w) /\ d + e \in 0..Len(s) /\ d + e <= Len(t)
      /\ \A i \in 1..Len(t) : t[i] = s[i]
      /\ Cut(t, d) /\ Dropped(t, d, w)
  <2>1. Dropped(t, d, w)
    BY DEF ReadOf
  <2> QED
    BY <2>1, ReadFacts
<1>2. Size[m] \in Nat \ {0} /\ MaxLine \in Nat /\ MaxChunk \in Nat
  BY ChannelConstants
<1>3. b \in 1..Len(t) /\ b \in 1..Len(s)
  BY <1>1
<1>4. Placed(t, m, b)
  BY <1>1 DEF Placed
<1>5. Whole(t, m, b)
  <2>1. b = Size[m] \/ b - Size[m] \in 1..Len(t)
    BY <1>1, <1>2, <1>3 DEF Whole
  <2> QED
    BY <1>1, <2>1 DEF Whole
<1>6. t[b].of = m /\ t[b].last
  BY <1>2, <1>3, <1>4 DEF Placed
<1>7. CASE b <= d
  <2>1. b = d /\ Len(t) > MaxLine
    <3>1. ~(b < d)
      BY <1>3, <1>6 DEF ReadOf
    <3>2. b = d /\ d # 0
      BY <1>1, <1>3, <1>7, <3>1
    <3> QED
      BY <3>2 DEF ReadOf
  <2>2. b = Size[m]
    <3>1. CASE b # Size[m]
      <4>1. b - Size[m] \in 1..Len(t) /\ b - Size[m] < d /\ t[b - Size[m]].last
        BY <1>1, <1>2, <1>3, <1>5, <2>1, <3>1 DEF Whole
      <4> QED
        BY <4>1 DEF ReadOf
    <3> QED
      BY <3>1
  <2>3. h < b /\ h \in Nat /\ Len(t) <= h + MaxChunk
    <3>1. h \in 0..Len(t) /\ Len(t) <= h + MaxChunk /\ \A i \in 1..h : ~t[i].last
      BY DEF ReadOf
    <3>2. b \notin 1..h
      BY <1>6, <3>1
    <3> QED
      BY <1>1, <1>3, <3>1, <3>2
  <2>4. Size[m] + MaxChunk > MaxLine + 1
    BY <1>1, <1>2, <2>1, <2>2, <2>3
  <2> QED
    BY <2>4 DEF NearLimit
<1>8. CASE d < b
  <2>1. In(w, m)
    <3>1. b \in (d + 1)..Len(t)
      BY <1>1, <1>3, <1>8
    <3> QED
      BY <1>1, <1>6, <3>1, DroppedIn
  <2>2. b - d \in 1..Len(w) /\ Placed(w, m, b - d) /\ Whole(w, m, b - d)
    BY <1>1, <1>3, <1>4, <1>5, <2>1, DroppedPlaced
  <2>3. b - d \in Ends(w) /\ Parsed(LineUpTo(w, b - d)) /\ w[b - d].of = m
    BY <1>1, <2>2, WholeIsParsed
  <2>4. PICK ends \in Seq(Ends(w)) :
              /\ Messages(w) \in Seq(Msg) /\ Len(Messages(w)) = Len(ends)
              /\ \A k \in 1..Len(ends) : Messages(w)[k] = w[ends[k]].of
              /\ \A c \in Ends(w) : Parsed(LineUpTo(w, c)) => \E k \in 1..Len(ends) : ends[k] = c
    BY <1>1, MessagesFacts
  <2>5. PICK k \in 1..Len(ends) : ends[k] = b - d
    BY <2>3, <2>4
  <2>6. Messages(w)[k] = m /\ k \in 1..Len(Messages(w))
    BY <2>3, <2>4, <2>5
  <2> QED
    BY <2>4, <2>6, ToSetFacts
<1> QED
  BY <1>1, <1>3, <1>7, <1>8

LEMMA ReadKeeps ==
    ASSUME NEW s, NEW h, NEW t, NEW d, NEW w, NEW e, NEW u, ReadOf(s, h, t, d, w, e, u),
           NEW q \in Seq(Msg), NEW g \in Seq(Msg), NEW x, LinkSound(s, q, g, x)
    PROVE  Messages(w) \in Seq(Msg) /\ LinkSound(u, q, g \o Messages(w), x)
<1> DEFINE c == d + e
           n == Messages(w)
           f == g \o n
<1>1. /\ s \in Seq(Byte) /\ u \in Seq(Byte) /\ Len(s) \in Nat /\ c \in 0..Len(s)
      /\ Dropped(s, c, u) /\ Cut(s, c)
  BY ReadFacts
<1>2. PICK at \in Seq(1..c) :
              /\ n \in Seq(Msg) /\ Len(n) = Len(at)
              /\ \A i, k \in 1..Len(at) : i < k => at[i] < at[k]
              /\ \A k \in 1..Len(at) : /\ at[k] \in 1..c /\ at[k] \in 1..Len(s)
                                       /\ s[at[k]].of = n[k] /\ s[at[k]].last
  BY DispatchedFacts
<1>3. ASSUME NEW m \in Msg, NEW b \in 1..c, Size[m] <= MaxLine, Placed(s, m, b), Whole(s, m, b)
      PROVE  NearLimit(m) \/ m \in ToSet(n)
  BY <1>3, WholeIsDispatched
<1>4. /\ LinesSound(s, q, g, x) /\ LinesOrdered(s, q) /\ ReadDelivered(s, q, g, x)
      /\ Fits(q) /\ DeliveredSound(s, q, g)
  BY DEF LinkSound
<1> HIDE DEF c, n
<1>5. /\ f \in Seq(Msg) /\ Len(f) = Len(g) + Len(n) /\ Len(g) \in Nat /\ Len(n) \in Nat
      /\ \A i \in 1..Len(g) : f[i] = g[i]
      /\ \A i \in 1..Len(n) : f[Len(g) + i] = n[i]
  <2>1. n \in Seq(Msg) /\ g \in Seq(Msg)
    BY <1>2
  <2> QED
    BY <2>1, JoinedFacts
<1>6. \A m : m \in ToSet(f) <=> m \in ToSet(g) \/ m \in ToSet(n)
  BY <1>2, ToSetJoined
<1> HIDE DEF f
<1>7. \A m : In(u, m) => In(s, m) /\ \E j \in (c + 1)..Len(s) : s[j].of = m
  <2> SUFFICES ASSUME NEW m, In(u, m)
               PROVE  In(s, m) /\ \E j \in (c + 1)..Len(s) : s[j].of = m
    OBVIOUS
  <2>1. PICK j \in (c + 1)..Len(s) : s[j].of = m
    BY <1>1, DroppedIn
  <2>2. j \in 1..Len(s)
    BY <1>1
  <2> QED
    BY <2>1, <2>2 DEF In
\* A message that is dispatched was unread, and nothing of it is left.
<1>8. ASSUME NEW k \in 1..Len(n)
      PROVE  /\ n[k] \in Msg /\ In(s, n[k]) /\ n[k] \in ToSet(q) /\ n[k] \notin ToSet(g)
             /\ ~In(u, n[k])
             /\ \A j \in 1..Len(s) : s[j].of = n[k] => j <= at[k]
  <2>1. at[k] \in 1..c /\ at[k] \in 1..Len(s) /\ s[at[k]].of = n[k] /\ s[at[k]].last /\ n[k] \in Msg
    BY <1>2
  <2>2. In(s, n[k])
    BY <2>1 DEF In
  <2>3. PICK b \in 1..Len(s) : Placed(s, n[k], b)
    BY <1>4, <2>1, <2>2 DEF LinesSound
  <2>4. at[k] = b
    BY <2>1, <2>3 DEF Placed
  <2>5. \A j \in 1..Len(s) : s[j].of = n[k] => j <= at[k]
    BY <2>3, <2>4 DEF Placed
  <2>6. ~In(u, n[k])
    <3> SUFFICES ASSUME In(u, n[k]) PROVE FALSE
      OBVIOUS
    <3>1. PICK j \in (c + 1)..Len(s) : s[j].of = n[k]
      BY <1>7
    <3>2. j \in 1..Len(s) /\ ~(j <= at[k])
      BY <1>1, <2>1, <3>1
    <3> QED
      BY <2>5, <3>1, <3>2
  <2> QED
    BY <1>4, <2>1, <2>2, <2>5, <2>6 DEF LinesSound
<1>9. \A m \in ToSet(n) : \E k \in 1..Len(n) : n[k] = m
  BY <1>2, ToSetFacts
<1>10. LinesSound(u, q, f, x)
  <2> SUFFICES ASSUME NEW m \in Msg, In(u, m)
               PROVE  /\ m \in ToSet(q) /\ m \notin ToSet(f)
                      /\ \E b \in 1..Len(u) : Placed(u, m, b) /\ (m \in x \/ Whole(u, m, b))
    BY DEF LinesSound
  <2>1. In(s, m)
    BY <1>7
  <2>2. PICK b \in 1..Len(s) : Placed(s, m, b) /\ (m \in x \/ Whole(s, m, b))
    BY <1>4, <2>1 DEF LinesSound
  <2>3. m \in ToSet(q) /\ m \notin ToSet(g)
    BY <1>4, <2>1 DEF LinesSound
  <2>4. m \notin ToSet(n)
    BY <1>8, <1>9
  <2>5. Size[m] <= MaxLine
    BY <1>4, <2>3 DEF Fits
  <2>6. b - c \in 1..Len(u) /\ Placed(u, m, b - c) /\ (Whole(s, m, b) => Whole(u, m, b - c))
    BY <1>1, <2>2, <2>5, DroppedPlaced
  <2> QED
    BY <1>6, <2>2, <2>3, <2>4, <2>6
<1>11. LinesOrdered(u, q)
  <2> SUFFICES ASSUME NEW i \in 1..Len(u), NEW k \in 1..Len(u), i < k,
                      u[i].of \in Msg, u[k].of \in Msg, u[i].of # u[k].of
               PROVE  BeforeIn(q, u[i].of, u[k].of)
    BY DEF LinesOrdered
  <2>1. c + i \in 1..Len(s) /\ u[i] = s[c + i] /\ c + k \in 1..Len(s) /\ u[k] = s[c + k]
    <3>1. \A j \in 1..Len(u) : c + j \in 1..Len(s) /\ u[j] = s[c + j]
      BY <1>1, DroppedIn
    <3> QED
      BY <3>1
  <2>2. c + i < c + k
    BY <1>1
  <2> QED
    BY <1>4, <2>1, <2>2 DEF LinesOrdered
<1>12. ReadDelivered(u, q, f, x)
  <2> SUFFICES ASSUME NEW m \in ToSet(q), ~In(u, m), m \notin x, ~NearLimit(m)
               PROVE  m \in ToSet(f)
    BY DEF ReadDelivered
  <2>1. m \in Msg /\ Size[m] <= MaxLine
    BY <1>4, ToSetFacts DEF Fits
  <2>2. CASE ~In(s, m)
    BY <1>4, <1>6, <2>2 DEF ReadDelivered
  <2>3. CASE In(s, m)
    <3>1. PICK b \in 1..Len(s) : Placed(s, m, b) /\ (m \in x \/ Whole(s, m, b))
      BY <1>4, <2>1, <2>3 DEF LinesSound
    <3>2. s[b].of = m
      <4>1. Size[m] \in Nat \ {0}
        BY <2>1, ChannelConstants
      <4> QED
        BY <3>1, <4>1 DEF Placed
    <3>3. b \in 1..c
      <4>1. b \notin (c + 1)..Len(s)
        BY <1>1, <3>2, DroppedIn
      <4> QED
        BY <1>1, <4>1
    <3> QED
      BY <1>3, <1>6, <2>1, <3>1, <3>3
  <2> QED
    BY <2>2, <2>3
<1>13. DeliveredSound(u, q, f)
  <2>1. ToSet(f) \subseteq ToSet(q)
    BY <1>4, <1>6, <1>8, <1>9 DEF DeliveredSound
  <2>2. ASSUME NEW i \in 1..Len(n), NEW k \in 1..Len(n), i < k PROVE BeforeIn(q, n[i], n[k])
    <3>1. at[i] < at[k] /\ at[i] \in 1..Len(s) /\ at[k] \in 1..Len(s)
      BY <1>2, <2>2
    <3>2. s[at[i]].of = n[i] /\ s[at[k]].of = n[k] /\ n[i] \in Msg /\ n[k] \in Msg
      BY <1>2
    <3>3. n[i] # n[k]
      <4>1. ~(at[k] <= at[i])
        BY <3>1
      <4> QED
        BY <1>8, <3>1, <3>2, <4>1
    <3> QED
      BY <1>4, <3>1, <3>2, <3>3 DEF LinesOrdered
  <2>3. ASSUME NEW i \in 1..Len(f), NEW k \in 1..Len(f), i < k PROVE BeforeIn(q, f[i], f[k])
    <3>1. CASE k \in 1..Len(g)
      <4>1. i \in 1..Len(g) /\ f[i] = g[i] /\ f[k] = g[k]
        BY <1>5, <2>3, <3>1
      <4> QED
        BY <1>4, <2>3, <3>1, <4>1 DEF DeliveredSound
    <3>2. CASE k \notin 1..Len(g) /\ i \in 1..Len(g)
      <4>1. k - Len(g) \in 1..Len(n) /\ k = Len(g) + (k - Len(g))
        BY <1>5, <3>2
      <4>2. f[k] = n[k - Len(g)] /\ f[i] = g[i] /\ g[i] \in ToSet(g)
        BY <1>5, <3>2, <4>1, ToSetFacts
      <4>3. f[k] \in Msg /\ In(s, f[k])
        BY <1>8, <4>1, <4>2
      <4> QED
        BY <1>4, <4>2, <4>3 DEF DeliveredSound
    <3>3. CASE k \notin 1..Len(g) /\ i \notin 1..Len(g)
      <4>1. /\ k - Len(g) \in 1..Len(n) /\ k = Len(g) + (k - Len(g))
            /\ i - Len(g) \in 1..Len(n) /\ i = Len(g) + (i - Len(g))
            /\ i - Len(g) < k - Len(g)
        BY <1>5, <2>3, <3>3
      <4>2. f[k] = n[k - Len(g)] /\ f[i] = n[i - Len(g)]
        BY <1>5, <4>1
      <4> QED
        BY <2>2, <4>1, <4>2
    <3> QED
      BY <3>1, <3>2, <3>3
  <2>4. ASSUME NEW m \in ToSet(f), NEW a \in Msg, In(u, a) PROVE BeforeIn(q, m, a)
    <3>1. In(s, a) /\ \E j \in (c + 1)..Len(s) : s[j].of = a
      BY <1>7, <2>4
    <3>2. CASE m \in ToSet(g)
      BY <1>4, <3>1, <3>2 DEF DeliveredSound
    <3>3. CASE m \in ToSet(n)
      <4>1. PICK k \in 1..Len(n) : n[k] = m
        BY <1>9, <3>3
      <4>2. PICK j \in (c + 1)..Len(s) : s[j].of = a
        BY <3>1
      <4>3. at[k] \in 1..Len(s) /\ at[k] < j /\ j \in 1..Len(s)
        BY <1>1, <1>2, <4>1
      <4>4. s[at[k]].of = m /\ m \in Msg /\ m # a
        BY <1>2, <1>8, <2>4, <4>1
      <4> QED
        BY <1>4, <4>2, <4>3, <4>4 DEF LinesOrdered
    <3> QED
      BY <1>6, <3>2, <3>3
  <2> QED
    BY <2>1, <2>3, <2>4 DEF DeliveredSound
<1> QED
  BY <1>2, <1>4, <1>10, <1>11, <1>12, <1>13 DEF LinkSound, n, f, c

---------------------------------------------------------------------------
(* The link keeps ChannelIInv.                                             *)

\* A read of the pipe is a ReadOf.
LEMMA ReadChunkFacts ==
    ASSUME ChannelTypeOK, \A i \in 1..Len(buffer) : ~buffer[i].last,
           NEW n \in 1..MaxChunk, ReadChunk(n)
    PROVE  \E t, w, d, e :
              /\ ReadOf(Unread, Len(buffer), t, d, w, e, Unread')
              /\ Dispatch(Messages(w))
              /\ buffer' \in Seq(Byte) /\ pipe' \in Seq(Byte)
              /\ \A i \in 1..Len(buffer') : ~buffer'[i].last
<1> DEFINE c == SubSeq(pipe, 1, n)
           p == SubSeq(pipe, n + 1, Len(pipe))
           t == buffer \o c
           w == Recovered(t)
<1>1. buffer \in Seq(Byte) /\ pipe \in Seq(Byte) /\ Len(buffer) \in Nat /\ Len(pipe) \in Nat
  BY DEF ChannelTypeOK
<1>2. n \in 1..Len(pipe) /\ n <= MaxChunk /\ MaxChunk \in Nat
  BY <1>1, ChannelConstants DEF ReadChunk
<1>3. /\ c \in Seq(Byte) /\ Len(c) = n
      /\ \A i \in 1..n : c[i] = pipe[i]
  BY <1>1, <1>2
<1>4. /\ p \in Seq(Byte) /\ Len(p) = Len(pipe) - n
      /\ \A i \in 1..Len(p) : p[i] = pipe[n + i]
  <2>1. n \in 0..Len(pipe) /\ Len(pipe) \in 0..Len(pipe) /\ n \in 0..Len(pipe)
    BY <1>1, <1>2
  <2>2. /\ SubSeq(pipe, 1 + n, Len(pipe)) \in Seq(Byte)
        /\ Len(SubSeq(pipe, 1 + n, Len(pipe))) = Len(pipe) - n
        /\ \A i \in 1..(Len(pipe) - n) : SubSeq(pipe, 1 + n, Len(pipe))[i] = pipe[n + i]
    BY <1>1, <2>1, PartFacts
  <2>3. 1 + n = n + 1
    BY <1>2
  <2> QED
    BY <2>2, <2>3
<1>5. buffer' = Rest(w) /\ pipe' = p /\ Dispatch(Messages(w))
  BY DEF ReadChunk
<1>6. /\ t \in Seq(Byte) /\ Len(t) = Len(buffer) + n
      /\ \A i \in 1..Len(buffer) : t[i] = buffer[i]
      /\ \A i \in 1..n : t[Len(buffer) + i] = c[i]
  <2>1. buffer \in Seq(Byte) /\ c \in Seq(Byte)
    BY <1>1, <1>3
  <2> QED
    BY <1>3, <2>1, JoinedFacts
<1> HIDE DEF c, p, t, w
<1>7. PICK d \in 0..Len(t) :
              /\ Dropped(t, d, w)
              /\ d # 0 => Len(t) > MaxLine /\ (d = Len(t) \/ t[d].last)
              /\ \A i \in 1..Len(t) : i < d => ~t[i].last
  BY <1>6, RecoveredFacts DEF w
<1>8. w \in Seq(Byte)
  BY <1>7 DEF Dropped
<1>9. PICK e \in 0..Len(w) :
              /\ Dropped(w, e, buffer') /\ Border(w, e)
              /\ \A i \in 1..Len(w) : w[i].last => i <= e
  BY <1>5, <1>8, RestFacts
<1>10. /\ buffer' \in Seq(Byte) /\ Len(buffer') \in Nat
       /\ \A i \in 1..Len(buffer') : e + i \in 1..Len(w) /\ buffer'[i] = w[e + i]
  BY <1>8, <1>9, DroppedIn
<1>11. \A i \in 1..Len(buffer') : ~buffer'[i].last
  <2> SUFFICES ASSUME NEW i \in 1..Len(buffer'), buffer'[i].last PROVE FALSE
    OBVIOUS
  <2>1. e + i \in 1..Len(w) /\ w[e + i].last
    BY <1>10
  <2>2. e + i <= e /\ e \in Nat /\ i \in Nat /\ i >= 1
    BY <1>9, <1>10, <2>1
  <2> QED
    BY <2>2
<1>12. Unread = t \o p
  <2>1. /\ t \o p \in Seq(Byte) /\ Len(t \o p) = Len(t) + Len(p)
        /\ \A i \in 1..Len(t) : (t \o p)[i] = t[i]
        /\ \A i \in 1..Len(p) : (t \o p)[Len(t) + i] = p[i]
    <3>1. t \in Seq(Byte) /\ p \in Seq(Byte)
      BY <1>4, <1>6
    <3> QED
      BY <3>1, JoinedFacts
  <2>2. /\ buffer \o pipe \in Seq(Byte) /\ Len(buffer \o pipe) = Len(buffer) + Len(pipe)
        /\ \A i \in 1..Len(buffer) : (buffer \o pipe)[i] = buffer[i]
        /\ \A i \in 1..Len(pipe) : (buffer \o pipe)[Len(buffer) + i] = pipe[i]
    BY <1>1, JoinedFacts
  <2>3. Len(t \o p) = Len(buffer \o pipe) /\ Len(t \o p) \in Nat
    BY <1>1, <1>2, <1>4, <1>6, <2>1, <2>2
  <2>4. ASSUME NEW i \in 1..Len(t \o p) PROVE (t \o p)[i] = (buffer \o pipe)[i]
    <3>1. CASE i \in 1..Len(buffer)
      <4>1. i \in 1..Len(t) /\ t[i] = buffer[i]
        BY <1>1, <1>2, <1>6, <3>1
      <4> QED
        BY <2>1, <2>2, <3>1, <4>1
    <3>2. CASE i \notin 1..Len(buffer) /\ i \in 1..Len(t)
      <4>1. i - Len(buffer) \in 1..n /\ i - Len(buffer) \in 1..Len(pipe)
            /\ i = Len(buffer) + (i - Len(buffer))
        BY <1>1, <1>2, <1>6, <3>2
      <4>2. t[i] = c[i - Len(buffer)] /\ c[i - Len(buffer)] = pipe[i - Len(buffer)]
        BY <1>3, <1>6, <4>1
      <4>3. (buffer \o pipe)[i] = pipe[i - Len(buffer)]
        BY <2>2, <4>1
      <4> QED
        BY <2>1, <3>2, <4>2, <4>3
    <3>3. CASE i \notin 1..Len(t)
      <4>1. i - Len(t) \in 1..Len(p) /\ i = Len(t) + (i - Len(t))
            /\ n + (i - Len(t)) \in 1..Len(pipe) /\ i = Len(buffer) + (n + (i - Len(t)))
        BY <1>1, <1>2, <1>4, <1>6, <2>1, <3>3
      <4>2. (t \o p)[i] = p[i - Len(t)] /\ p[i - Len(t)] = pipe[n + (i - Len(t))]
        BY <1>4, <2>1, <4>1
      <4>3. (buffer \o pipe)[i] = pipe[n + (i - Len(t))]
        BY <2>2, <4>1
      <4> QED
        BY <4>2, <4>3
    <3> QED
      BY <3>1, <3>2, <3>3
  <2>5. t \o p = buffer \o pipe
    <3> HIDE DEF Unread
    <3> QED
      BY <2>1, <2>2, <2>3, <2>4, SameSequence
  <2> QED
    BY <2>5 DEF Unread
<1>13. Unread' = buffer' \o p
  BY <1>5 DEF Unread
<1>14. /\ Unread \in Seq(Byte) /\ Len(Unread) = Len(t) + Len(p)
       /\ \A i \in 1..Len(t) : Unread[i] = t[i]
  <2>1. /\ t \o p \in Seq(Byte) /\ Len(t \o p) = Len(t) + Len(p)
        /\ \A i \in 1..Len(t) : (t \o p)[i] = t[i]
    <3>1. t \in Seq(Byte) /\ p \in Seq(Byte)
      BY <1>4, <1>6
    <3> QED
      BY <3>1, JoinedFacts
  <2> QED
    BY <1>12, <2>1
<1>15. Dropped(Unread, d + e, Unread')
  <2>1. d \in 0..Len(t \o p) /\ Dropped(t \o p, d, w \o p)
    BY <1>4, <1>6, <1>7, DroppedBefore
  <2>2. e \in 0..Len(w \o p) /\ Dropped(w \o p, e, buffer' \o p)
    BY <1>4, <1>8, <1>9, DroppedBefore
  <2>3. t \o p \in Seq(Byte)
    BY <1>12, <1>14
  <2>4. Dropped(t \o p, d + e, buffer' \o p)
    BY <2>1, <2>2, <2>3, DroppedTwice
  <2> QED
    BY <1>12, <1>13, <2>4
<1>16. ReadOf(Unread, Len(buffer), t, d, w, e, Unread')
  <2>1. /\ Len(buffer) \in 0..Len(t) /\ Len(t) <= Len(Unread) /\ Len(t) <= Len(buffer) + MaxChunk
    <3>1. Len(buffer) \in Nat /\ n \in Nat /\ n <= MaxChunk /\ MaxChunk \in Nat
      BY <1>1, <1>2, ChannelConstants
    <3>2. Len(t) = Len(buffer) + n /\ Len(p) \in Nat /\ Len(Unread) = Len(t) + Len(p)
      BY <1>4, <1>6, <1>14
    <3> HIDE DEF Unread
    <3> QED
      BY <3>1, <3>2
  <2>2. \A i \in 1..Len(buffer) : ~t[i].last
    BY <1>6
  <2>3. \A i \in 1..Len(t) : t[i] = Unread[i]
    BY <1>14
  <2> HIDE DEF Unread
  <2> QED
    BY <1>6, <1>7, <1>9, <1>14, <1>15, <2>1, <2>2, <2>3 DEF ReadOf
<1> QED
  BY <1>4, <1>5, <1>10, <1>11, <1>16

\* The types of what a dispatch changes, and the calls that wait.
LEMMA DispatchKeeps ==
    ASSUME ChannelTypeOK, WaitersKept, NEW n \in Seq(Msg), Dispatch(n)
    PROVE  /\ delivered' \in Seq(Msg)
           /\ pending' \in [RequestId -> Waiter \cup {NoOne}]
           /\ waiter' \in [Waiter -> {"none", "waiting", "late", "settling", "done"}]
           /\ settled' \in [Waiter -> {"none", "answer", "timeout", "replaced", "disconnected", "stopped"}]
           /\ WaitersKept'
<1> DEFINE answered == {AnswerTo[m] : m \in ToSet(n)} \ {NoOne}
           resolved == {v \in Waiter : WaitsFor[v] \in answered /\ pending[WaitsFor[v]] = v}
<1>1. /\ delivered' = delivered \o n
      /\ pending' = [r \in RequestId |-> IF r \in answered THEN NoOne ELSE pending[r]]
      /\ waiter' = [v \in Waiter |-> IF v \in resolved /\ waiter[v] = "waiting" THEN "settling" ELSE waiter[v]]
      /\ settled' = [v \in Waiter |-> IF v \in resolved /\ waiter[v] = "waiting" THEN "answer" ELSE settled[v]]
  BY DEF Dispatch
<1>2. \A v : v \in resolved <=> v \in Waiter /\ WaitsFor[v] \in answered /\ pending[WaitsFor[v]] = v
  OBVIOUS
<1>3. \A r \in answered : \E m \in ToSet(n) : AnswerTo[m] = r
  OBVIOUS
<1> HIDE DEF answered, resolved
<1>4. /\ delivered \in Seq(Msg) /\ pending \in [RequestId -> Waiter \cup {NoOne}]
      /\ waiter \in [Waiter -> {"none", "waiting", "late", "settling", "done"}]
      /\ settled \in [Waiter -> {"none", "answer", "timeout", "replaced", "disconnected", "stopped"}]
      /\ WaitsFor \in [Waiter -> RequestId]
  BY ChannelConstants DEF ChannelTypeOK
<1>5. delivered' \in Seq(Msg) /\ \A m : m \in ToSet(delivered') <=> m \in ToSet(delivered) \/ m \in ToSet(n)
  <2>1. delivered \o n \in Seq(Msg)
    BY <1>4
  <2>2. \A m : m \in ToSet(delivered \o n) <=> m \in ToSet(delivered) \/ m \in ToSet(n)
    BY <1>4, ToSetJoined
  <2> QED
    BY <1>1, <2>1, <2>2
<1>6. pending' \in [RequestId -> Waiter \cup {NoOne}]
  BY <1>1, <1>4
<1>7. waiter' \in [Waiter -> {"none", "waiting", "late", "settling", "done"}]
  BY <1>1, <1>4
<1>8. settled' \in [Waiter -> {"none", "answer", "timeout", "replaced", "disconnected", "stopped"}]
  BY <1>1, <1>4
<1>9. ASSUME NEW v \in Waiter, waiter'[v] = "waiting" PROVE pending'[WaitsFor[v]] = v
  <2>1. waiter[v] = "waiting" /\ v \notin resolved
    BY <1>1, <1>9
  <2>2. pending[WaitsFor[v]] = v /\ WaitsFor[v] \in RequestId
    BY <1>4, <2>1 DEF WaitersKept
  <2> QED
    BY <1>1, <1>2, <2>1, <2>2
<1>10. ASSUME NEW v \in Waiter, settled'[v] = "answer"
       PROVE  \E m \in ToSet(delivered') : AnswerTo[m] = WaitsFor[v]
  <2>1. CASE v \in resolved /\ waiter[v] = "waiting"
    BY <1>2, <1>3, <1>5, <2>1
  <2>2. CASE ~(v \in resolved /\ waiter[v] = "waiting")
    <3>1. settled[v] = "answer"
      BY <1>1, <1>10, <2>2
    <3> QED
      BY <1>5, <3>1 DEF WaitersKept
  <2> QED
    BY <2>1, <2>2
<1> QED
  BY <1>5, <1>6, <1>7, <1>8, <1>9, <1>10 DEF WaitersKept

\* rejectPendingRequests leaves nobody who waits.
LEMMA RejectKeeps ==
    ASSUME ChannelTypeOK, WaitersKept, NEW why \in {"disconnected", "stopped"}, RejectAll(why),
           delivered' = delivered
    PROVE  /\ pending' \in [RequestId -> Waiter \cup {NoOne}]
           /\ waiter' \in [Waiter -> {"none", "waiting", "late", "settling", "done"}]
           /\ settled' \in [Waiter -> {"none", "answer", "timeout", "replaced", "disconnected", "stopped"}]
           /\ WaitersKept'
<1> DEFINE rejected == {v \in Waiter : waiter[v] = "waiting" /\ pending[WaitsFor[v]] = v}
<1>1. /\ pending' = [r \in RequestId |-> NoOne]
      /\ waiter' = [v \in Waiter |-> IF v \in rejected THEN "settling" ELSE waiter[v]]
      /\ settled' = [v \in Waiter |-> IF v \in rejected THEN why ELSE settled[v]]
  BY DEF RejectAll
<1>2. \A v : v \in rejected <=> v \in Waiter /\ waiter[v] = "waiting" /\ pending[WaitsFor[v]] = v
  OBVIOUS
<1> HIDE DEF rejected
<1>3. /\ waiter \in [Waiter -> {"none", "waiting", "late", "settling", "done"}]
      /\ settled \in [Waiter -> {"none", "answer", "timeout", "replaced", "disconnected", "stopped"}]
  BY DEF ChannelTypeOK
<1>4. \A v \in Waiter : waiter'[v] # "waiting"
  <2> SUFFICES ASSUME NEW v \in Waiter, waiter'[v] = "waiting" PROVE FALSE
    OBVIOUS
  <2>1. v \notin rejected /\ waiter[v] = "waiting"
    BY <1>1
  <2> QED
    BY <1>2, <2>1 DEF WaitersKept
<1>5. \A v \in Waiter : settled'[v] = "answer" => settled[v] = "answer"
  BY <1>1
<1>6. WaitersKept'
  BY <1>4, <1>5 DEF WaitersKept
<1> QED
  BY <1>1, <1>3, <1>6

LEMMA ChannelIInvInit == ChannelInit => ChannelIInv
<1> SUFFICES ASSUME ChannelInit PROVE ChannelIInv
  OBVIOUS
<1>1. /\ written = <<>> /\ mixed = {} /\ pipe = <<>> /\ text = 0 /\ buffer = <<>>
      /\ delivered = <<>> /\ link = "open"
      /\ pending = [r \in RequestId |-> NoOne]
      /\ waiter = [w \in Waiter |-> "none"] /\ settled = [w \in Waiter |-> "none"]
  BY DEF ChannelInit
<1>2. ChannelTypeOK
  BY <1>1, ChannelConstants DEF ChannelTypeOK
<1>3. WaitersKept
  BY <1>1 DEF WaitersKept
<1>4. Unread = <<>>
  BY <1>1 DEF Unread
<1>5. ToSet(<<>>) = {}
  BY DEF ToSet
<1>6. \A m : ~In(<<>>, m)
  BY DEF In
<1>7. LinkSound(<<>>, <<>>, <<>>, {})
  BY <1>5, <1>6
  DEF LinkSound, LinesSound, LinesOrdered, ReadDelivered, Fits, DeliveredSound
<1> QED
  BY <1>1, <1>2, <1>3, <1>4, <1>7 DEF ChannelIInv

LEMMA ChannelIInvStep == ChannelIInv /\ [ChannelNext]_channelVars => ChannelIInv'
<1> SUFFICES ASSUME ChannelIInv, [ChannelNext]_channelVars PROVE ChannelIInv'
  OBVIOUS
<1>1. /\ ChannelTypeOK /\ WaitersKept
      /\ \A i \in 1..Len(buffer) : ~buffer[i].last
      /\ LinkSound(Unread, written, delivered, mixed)
  BY DEF ChannelIInv
<1>2. /\ written \in Seq(Msg) /\ delivered \in Seq(Msg) /\ mixed \subseteq Msg
      /\ pipe \in Seq(Byte) /\ buffer \in Seq(Byte) /\ text \in 0..MaxText
      /\ link \in {"open", "ended", "closed"}
      /\ pending \in [RequestId -> Waiter \cup {NoOne}]
      /\ waiter \in [Waiter -> {"none", "waiting", "late", "settling", "done"}]
      /\ settled \in [Waiter -> {"none", "answer", "timeout", "replaced", "disconnected", "stopped"}]
  BY <1>1 DEF ChannelTypeOK
<1>3. Unread \in Seq(Byte) /\ MaxText \in Nat
  BY <1>2, ChannelConstants DEF Unread
<1>4. ASSUME NEW m \in Msg, WriteMessage(m) PROVE ChannelIInv'
  <2>1. /\ m \notin ToSet(written) /\ Size[m] <= MaxLine
        /\ written' = Append(written, m)
        /\ mixed' = IF Unread # <<>> /\ Last(Unread).of = NoOne /\ ~Last(Unread).last
                    THEN mixed \cup {m} ELSE mixed
        /\ pipe' = pipe \o Line(m)
        /\ text' = text /\ buffer' = buffer /\ delivered' = delivered /\ link' = link
        /\ pending' = pending /\ waiter' = waiter /\ settled' = settled
    BY <1>4 DEF WriteMessage, protocolVars, Unread
  <2>2. Line(m) \in Seq(Byte)
    BY LineFacts
  <2>3. Unread' = Unread \o Line(m)
    <3>1. Unread = buffer \o pipe /\ Unread' = buffer \o (pipe \o Line(m))
      BY <2>1 DEF Unread
    <3>2. buffer \in Seq(Byte) /\ pipe \in Seq(Byte)
      BY <1>2
    <3>3. (buffer \o pipe) \o Line(m) = buffer \o (pipe \o Line(m))
      BY <2>2, <3>2, ConcatAssociative
    <3> HIDE DEF Unread
    <3> QED
      BY <3>1, <3>3
  <2>4. mixed \subseteq mixed' /\ mixed' \subseteq Msg
    BY <1>2, <2>1
  <2>5. Unread = <<>> \/ Unread[Len(Unread)].of # NoOne \/ Unread[Len(Unread)].last \/ m \in mixed'
    BY <2>1 DEF Last
  <2>6. LinkSound(Unread \o Line(m), Append(written, m), delivered, mixed')
    <3> HIDE DEF Unread
    <3> QED
      BY <1>1, <1>2, <1>3, <2>1, <2>4, <2>5, WriteKeeps
  <2>7. ChannelTypeOK'
    BY <1>2, <2>1, <2>2, <2>4 DEF ChannelTypeOK
  <2>8. WaitersKept'
    BY <1>1, <2>1 DEF WaitersKept
  <2>9. LinkSound(Unread', written', delivered', mixed')
    BY <2>1, <2>3, <2>6
  <2> QED
    BY <1>1, <2>1, <2>7, <2>8, <2>9 DEF ChannelIInv
<1>5. ASSUME NEW last \in BOOLEAN, OtherText(last) PROVE ChannelIInv'
  <2> DEFINE byte == [of |-> NoOne, last |-> last]
  <2>1. /\ text < MaxText /\ text' = text + 1 /\ pipe' = Append(pipe, byte)
        /\ written' = written /\ mixed' = mixed /\ buffer' = buffer /\ delivered' = delivered
        /\ link' = link /\ pending' = pending /\ waiter' = waiter /\ settled' = settled
    BY <1>5 DEF OtherText, protocolVars
  <2>2. byte \in Byte /\ byte.of \notin Msg
    BY ChannelConstants DEF Byte
  <2> HIDE DEF byte
  <2>3. <<byte>> \in Seq(Byte) /\ \A i \in 1..Len(<<byte>>) : <<byte>>[i].of \notin Msg
    BY <2>2
  <2>4. Append(pipe, byte) = pipe \o <<byte>> /\ Append(pipe, byte) \in Seq(Byte)
    BY <1>2, <2>2
  <2>5. Unread' = Unread \o <<byte>>
    BY <1>2, <2>1, <2>3, <2>4 DEF Unread
  <2>6. LinkSound(Unread \o <<byte>>, written, delivered, mixed)
    BY <1>1, <1>2, <1>3, <2>3, TextKeeps
  <2>7. ChannelTypeOK'
    BY <1>2, <1>3, <2>1, <2>4 DEF ChannelTypeOK
  <2>8. WaitersKept'
    BY <1>1, <2>1 DEF WaitersKept
  <2>9. LinkSound(Unread', written', delivered', mixed')
    BY <2>1, <2>5, <2>6
  <2> QED
    BY <1>1, <2>1, <2>7, <2>8, <2>9 DEF ChannelIInv
<1>6. ASSUME UNCHANGED <<written, mixed, pipe, text, buffer, delivered>>,
             link' \in {"open", "ended", "closed"},
             pending' \in [RequestId -> Waiter \cup {NoOne}],
             waiter' \in [Waiter -> {"none", "waiting", "late", "settling", "done"}],
             settled' \in [Waiter -> {"none", "answer", "timeout", "replaced", "disconnected", "stopped"}],
             WaitersKept'
      PROVE  ChannelIInv'
  <2>1. /\ written' = written /\ mixed' = mixed /\ pipe' = pipe /\ text' = text
        /\ buffer' = buffer /\ delivered' = delivered
    BY <1>6
  <2>2. Unread' = Unread
    BY <2>1 DEF Unread
  <2>3. LinkSound(Unread', written', delivered', mixed')
    BY <1>1, <2>1, <2>2
  <2>4. ChannelTypeOK'
    BY <1>2, <1>6, <2>1 DEF ChannelTypeOK
  <2> QED
    BY <1>1, <1>6, <2>1, <2>3, <2>4 DEF ChannelIInv
<1>7. ASSUME NEW w \in Waiter, Ask(w) PROVE ChannelIInv'
  <2> DEFINE r == WaitsFor[w]
  <2>1. /\ waiter[w] = "none"
        /\ waiter' = [x \in Waiter |-> IF x = w THEN "waiting"
                                       ELSE IF x = pending[r] /\ waiter[x] = "waiting" THEN "settling"
                                       ELSE waiter[x]]
        /\ settled' = [x \in Waiter |-> IF x = pending[r] /\ waiter[x] = "waiting" THEN "replaced"
                                        ELSE settled[x]]
        /\ pending' = [pending EXCEPT ![r] = w]
        /\ UNCHANGED <<written, mixed, pipe, text, buffer, delivered>> /\ link' = link
    BY <1>7 DEF Ask
  <2>2. r \in RequestId /\ \A x \in Waiter : WaitsFor[x] \in RequestId
    BY ChannelConstants
  <2> HIDE DEF r
  <2>3. pending' \in [RequestId -> Waiter \cup {NoOne}]
    BY <1>2, <2>1, <2>2
  <2>4. /\ waiter' \in [Waiter -> {"none", "waiting", "late", "settling", "done"}]
        /\ settled' \in [Waiter -> {"none", "answer", "timeout", "replaced", "disconnected", "stopped"}]
    BY <1>2, <2>1
  <2>5. ASSUME NEW x \in Waiter, waiter'[x] = "waiting" PROVE pending'[WaitsFor[x]] = x
    <3>1. CASE x = w
      BY <1>2, <2>1, <2>2, <3>1 DEF r
    <3>2. CASE x # w
      <4>1. waiter[x] = "waiting" /\ x # pending[r]
        BY <2>1, <2>5, <3>2
      <4>2. pending[WaitsFor[x]] = x
        BY <1>1, <4>1 DEF WaitersKept
      <4> QED
        BY <1>2, <2>1, <2>2, <4>1, <4>2
    <3> QED
      BY <3>1, <3>2
  <2>6. \A x \in Waiter : settled'[x] = "answer" => settled[x] = "answer"
    BY <2>1
  <2>7. delivered' = delivered
    BY <2>1
  <2>8. WaitersKept'
    BY <1>1, <2>5, <2>6, <2>7 DEF WaitersKept
  <2> QED
    BY <1>2, <1>6, <2>1, <2>3, <2>4, <2>8
<1>8. ASSUME NEW w \in Waiter, Timeout(w) PROVE ChannelIInv'
  <2>1. /\ waiter' = [waiter EXCEPT ![w] = "late"]
        /\ settled' = [settled EXCEPT ![w] = "timeout"]
        /\ UNCHANGED <<written, mixed, pipe, text, buffer, delivered>> /\ link' = link
        /\ pending' = pending /\ delivered' = delivered
    BY <1>8 DEF Timeout
  <2>2. WaitersKept'
    BY <1>1, <1>2, <2>1 DEF WaitersKept
  <2>3. /\ waiter' \in [Waiter -> {"none", "waiting", "late", "settling", "done"}]
        /\ settled' \in [Waiter -> {"none", "answer", "timeout", "replaced", "disconnected", "stopped"}]
    BY <1>2, <2>1
  <2> QED
    BY <1>2, <1>6, <2>1, <2>2, <2>3
<1>9. ASSUME NEW w \in Waiter, CleanUp(w) PROVE ChannelIInv'
  <2>1. /\ waiter[w] \in {"late", "settling"}
        /\ waiter' = [waiter EXCEPT ![w] = "done"]
        /\ pending' = IF pending[WaitsFor[w]] = w THEN [pending EXCEPT ![WaitsFor[w]] = NoOne] ELSE pending
        /\ UNCHANGED <<written, mixed, pipe, text, buffer, delivered>> /\ link' = link
        /\ settled' = settled /\ delivered' = delivered
    BY <1>9 DEF CleanUp, StillOwn
  <2>2. \A x \in Waiter : WaitsFor[x] \in RequestId
    BY ChannelConstants
  <2>3. waiter' \in [Waiter -> {"none", "waiting", "late", "settling", "done"}]
    BY <1>2, <2>1
  <2>4. pending' \in [RequestId -> Waiter \cup {NoOne}]
    BY <1>2, <2>1, <2>2
  <2>5. ASSUME NEW x \in Waiter, waiter'[x] = "waiting" PROVE pending'[WaitsFor[x]] = x
    <3>1. x # w /\ waiter[x] = "waiting"
      BY <1>2, <2>1, <2>5
    <3>2. pending[WaitsFor[x]] = x
      BY <1>1, <3>1 DEF WaitersKept
    <3> QED
      BY <1>2, <2>1, <2>2, <3>1, <3>2
  <2>6. WaitersKept'
    BY <1>1, <2>1, <2>5 DEF WaitersKept
  <2> QED
    BY <1>2, <1>6, <2>1, <2>3, <2>4, <2>6
<1>10. ASSUME NEW n \in 1..MaxChunk, ReadChunk(n) PROVE ChannelIInv'
  <2>1. PICK t, w, d, e :
              /\ ReadOf(Unread, Len(buffer), t, d, w, e, Unread')
              /\ Dispatch(Messages(w))
              /\ buffer' \in Seq(Byte) /\ pipe' \in Seq(Byte)
              /\ \A i \in 1..Len(buffer') : ~buffer'[i].last
    BY <1>1, <1>10, ReadChunkFacts
  <2>2. written' = written /\ mixed' = mixed /\ text' = text /\ link' = link
    BY <1>10 DEF ReadChunk
  <2>3. /\ Messages(w) \in Seq(Msg)
        /\ LinkSound(Unread', written, delivered \o Messages(w), mixed)
    BY <1>1, <1>2, <2>1, ReadKeeps
  <2>4. delivered' = delivered \o Messages(w)
    BY <2>1 DEF Dispatch
  <2>5. /\ delivered' \in Seq(Msg)
        /\ pending' \in [RequestId -> Waiter \cup {NoOne}]
        /\ waiter' \in [Waiter -> {"none", "waiting", "late", "settling", "done"}]
        /\ settled' \in [Waiter -> {"none", "answer", "timeout", "replaced", "disconnected", "stopped"}]
        /\ WaitersKept'
    BY <1>1, <2>1, <2>3, DispatchKeeps
  <2>6. LinkSound(Unread', written', delivered', mixed')
    BY <2>2, <2>3, <2>4
  <2>7. ChannelTypeOK'
    BY <1>2, <2>1, <2>2, <2>5 DEF ChannelTypeOK
  <2> QED
    BY <2>1, <2>5, <2>6, <2>7 DEF ChannelIInv
<1>11. ASSUME PeerEnds PROVE ChannelIInv'
  <2>1. /\ link' = "ended" /\ UNCHANGED <<written, mixed, pipe, text, buffer, delivered>>
        /\ pending' = pending /\ waiter' = waiter /\ settled' = settled /\ delivered' = delivered
    BY <1>11 DEF PeerEnds, protocolVars
  <2>2. WaitersKept'
    BY <1>1, <2>1 DEF WaitersKept
  <2> QED
    BY <1>2, <1>6, <2>1, <2>2
<1>12. ASSUME EndOfStream \/ StopProtocol PROVE ChannelIInv'
  <2>1. PICK why \in {"disconnected", "stopped"} : RejectAll(why)
    BY <1>12 DEF EndOfStream, StopProtocol
  <2>2. link' = "closed" /\ UNCHANGED <<written, mixed, pipe, text, buffer, delivered>>
    BY <1>12 DEF EndOfStream, StopProtocol
  <2>3. delivered' = delivered
    BY <2>2
  <2>4. /\ pending' \in [RequestId -> Waiter \cup {NoOne}]
        /\ waiter' \in [Waiter -> {"none", "waiting", "late", "settling", "done"}]
        /\ settled' \in [Waiter -> {"none", "answer", "timeout", "replaced", "disconnected", "stopped"}]
        /\ WaitersKept'
    BY <1>1, <2>1, <2>3, RejectKeeps
  <2> QED
    BY <1>6, <2>2, <2>4
<1>13. ASSUME UNCHANGED channelVars PROVE ChannelIInv'
  <2>1. /\ UNCHANGED <<written, mixed, pipe, text, buffer, delivered>> /\ link' = link
        /\ pending' = pending /\ waiter' = waiter /\ settled' = settled /\ delivered' = delivered
    BY <1>13 DEF channelVars
  <2>2. WaitersKept'
    BY <1>1, <2>1 DEF WaitersKept
  <2> QED
    BY <1>2, <1>6, <2>1, <2>2
<1> QED
  BY <1>4, <1>5, <1>7, <1>8, <1>9, <1>10, <1>11, <1>12, <1>13 DEF ChannelNext

LEMMA ChannelIInvSound == ChannelIInv => ChannelInv
<1> SUFFICES ASSUME ChannelIInv PROVE ChannelInv
  OBVIOUS
<1>1. /\ ChannelTypeOK /\ WaitersKept /\ LinkSound(Unread, written, delivered, mixed)
  BY DEF ChannelIInv
<1>2. /\ ReadDelivered(Unread, written, delivered, mixed) /\ DeliveredSound(Unread, written, delivered)
  BY <1>1 DEF LinkSound
<1>3. /\ written \in Seq(Msg) /\ delivered \in Seq(Msg) /\ pipe \in Seq(Byte) /\ buffer \in Seq(Byte)
  BY <1>1 DEF ChannelTypeOK
<1>4. DOMAIN delivered = 1..Len(delivered) /\ DOMAIN written = 1..Len(written)
  BY <1>3
<1>5. \A i, k \in DOMAIN delivered : i < k => Before(delivered[i], delivered[k])
  <2>1. \A i, k \in DOMAIN delivered : i < k => BeforeIn(written, delivered[i], delivered[k])
    BY <1>2, <1>4 DEF DeliveredSound
  <2>2. \A m, n : BeforeIn(written, m, n) <=> Before(m, n)
    BY <1>4 DEF BeforeIn, Before
  <2> QED
    BY <2>1, <2>2
<1>6. ASSUME NEW m \in Msg, Consumed(m), m \notin mixed, ~NearLimit(m) PROVE m \in ToSet(delivered)
  <2>1. m \in ToSet(written) /\ \A b \in ToSet(pipe \o buffer) : b.of # m
    BY <1>6 DEF Consumed
  <2>2. ~In(Unread, m)
    <3> SUFFICES ASSUME In(Unread, m) PROVE FALSE
      OBVIOUS
    <3>1. Unread \in Seq(Byte) /\ Unread = buffer \o pipe
      BY <1>3 DEF Unread
    <3>2. PICK i \in 1..Len(Unread) : Unread[i].of = m
      BY DEF In
    <3>3. Unread[i] \in ToSet(buffer \o pipe)
      BY <3>1, ToSetFacts
    <3>4. Unread[i] \in ToSet(pipe \o buffer)
      <4>1. Unread[i] \in ToSet(buffer) \/ Unread[i] \in ToSet(pipe)
        BY <1>3, <3>3, ToSetJoined
      <4> QED
        BY <1>3, <4>1, ToSetJoined
    <3> QED
      BY <2>1, <3>2, <3>4
  <2> QED
    BY <1>2, <1>6, <2>1, <2>2 DEF ReadDelivered
<1> QED
  BY <1>1, <1>5, <1>6 DEF ChannelInv, DeliveredOnce

(* What one side writes is dispatched once and in order however the other  *)
(* cuts it into chunks, and no call that waits loses its entry to another. *)
THEOREM ChannelAlwaysSound == ChannelSpec => []ChannelInv
<1>1. ChannelInit => ChannelIInv
  BY ChannelIInvInit
<1>2. ChannelIInv /\ [ChannelNext]_channelVars => ChannelIInv'
  BY ChannelIInvStep
<1>3. ChannelIInv => ChannelInv
  BY ChannelIInvSound
<1> QED
  BY <1>1, <1>2, <1>3, PTL DEF ChannelSpec

---------------------------------------------------------------------------
(* The link (Channel) implements MessageLink: the messages on the way are  *)
(* those with bytes that are not read.                                     *)

LEMMA WayOf ==
    ASSUME NEW p \in Seq(Byte), NEW b \in Seq(Byte), NEW q \in Seq(Msg), NEW g, NEW x,
           LinesSound(b \o p, q, g, x), NEW m
    PROVE  m \in ToSet(q) /\ ~(m \in ToSet(q) /\ \A c \in ToSet(p \o b) : c.of # m)
              <=> m \in Msg /\ In(b \o p, m)
<1> DEFINE s == b \o p
<1>1. s \in Seq(Byte) /\ \A c : c \in ToSet(s) <=> c \in ToSet(p \o b)
  <2>1. s \in Seq(Byte)
    BY JoinedFacts
  <2>2. \A c : c \in ToSet(s) <=> c \in ToSet(b) \/ c \in ToSet(p)
    BY ToSetJoined
  <2>3. \A c : c \in ToSet(p \o b) <=> c \in ToSet(p) \/ c \in ToSet(b)
    BY ToSetJoined
  <2> HIDE DEF s
  <2> QED
    BY <2>1, <2>2, <2>3
<1>2. m \in Msg /\ In(s, m) => m \in ToSet(q)
  BY DEF LinesSound
<1> HIDE DEF s
<1>3. In(s, m) <=> \E c \in ToSet(s) : c.of = m
  <2>1. /\ \A i \in 1..Len(s) : s[i] \in ToSet(s)
        /\ \A c \in ToSet(s) : \E i \in 1..Len(s) : s[i] = c
    BY <1>1, ToSetFacts
  <2>2. ASSUME In(s, m) PROVE \E c \in ToSet(s) : c.of = m
    <3>1. PICK i \in 1..Len(s) : s[i].of = m
      BY <2>2 DEF In
    <3> QED
      BY <2>1, <3>1
  <2>3. ASSUME NEW c \in ToSet(s), c.of = m PROVE In(s, m)
    <3>1. PICK i \in 1..Len(s) : s[i] = c
      BY <2>1
    <3> QED
      BY <2>3, <3>1 DEF In
  <2> QED
    BY <2>2, <2>3
<1>4. m \in ToSet(q) => m \in Msg
  BY ToSetFacts
<1>5. m \in ToSet(q) /\ (\E c \in ToSet(p \o b) : c.of = m) <=> m \in Msg /\ In(s, m)
  BY <1>1, <1>2, <1>3, <1>4
<1> QED
  BY <1>5 DEF s

LEMMA WayFacts ==
    ASSUME ChannelIInv
    PROVE  \A m : m \in OnWay <=> m \in Msg /\ In(Unread, m)
<1>1. /\ pipe \in Seq(Byte) /\ buffer \in Seq(Byte) /\ written \in Seq(Msg)
      /\ LinesSound(buffer \o pipe, written, delivered, mixed)
  BY DEF ChannelIInv, ChannelTypeOK, LinkSound, Unread
<1> QED
  BY <1>1, WayOf DEF OnWay, Consumed, Unread

LEMMA WayFactsAfter ==
    ASSUME ChannelIInv'
    PROVE  \A m : m \in OnWay' <=> m \in Msg /\ In(Unread', m)
<1>1. /\ pipe' \in Seq(Byte) /\ buffer' \in Seq(Byte) /\ written' \in Seq(Msg)
      /\ LinesSound(buffer' \o pipe', written', delivered', mixed')
  BY DEF ChannelIInv, ChannelTypeOK, LinkSound, Unread
<1> QED
  BY <1>1, WayOf DEF OnWay, Consumed, Unread

\* What is accepted by write is sent; a message behind other text is excused.
LEMMA WriteSends ==
    ASSUME ChannelIInv, ChannelIInv', NEW m \in Msg, WriteMessage(m)
    PROVE  Link!Send(m)
<1>1. pipe \in Seq(Byte) /\ buffer \in Seq(Byte)
  BY DEF ChannelIInv, ChannelTypeOK
<1>2. /\ link = "open" /\ m \notin ToSet(written)
      /\ written' = Append(written, m) /\ mixed' \in {mixed, mixed \cup {m}}
      /\ buffer' = buffer /\ pipe' = pipe \o Line(m) /\ delivered' = delivered /\ link' = link
  BY DEF WriteMessage
<1>3. Line(m) \in Seq(Byte) /\ \A n : In(Line(m), n) <=> n = m
  <2>1. /\ Line(m) \in Seq(Byte) /\ Len(Line(m)) = Size[m] /\ Size[m] \in Nat \ {0}
        /\ \A i \in 1..Size[m] : Line(m)[i].of = m
    BY LineFacts, ChannelConstants
  <2>2. 1 \in 1..Size[m]
    BY <2>1
  <2> QED
    BY <2>1, <2>2 DEF In
<1>4. Unread \in Seq(Byte) /\ Unread' = Unread \o Line(m)
  <2>1. Unread = buffer \o pipe /\ Unread' = buffer \o (pipe \o Line(m))
    BY <1>2 DEF Unread
  <2>2. (buffer \o pipe) \o Line(m) = buffer \o (pipe \o Line(m))
    BY <1>1, <1>3, ConcatAssociative
  <2>3. buffer \o pipe \in Seq(Byte)
    BY <1>1, JoinedFacts
  <2> HIDE DEF Unread
  <2> QED
    BY <2>1, <2>2, <2>3
<1>5. OnWay' = OnWay \cup {m}
  <2>1. \A n : In(Unread', n) <=> In(Unread, n) \/ n = m
    BY <1>3, <1>4, JoinedIn
  <2>2. \A n : n \in OnWay' <=> n \in OnWay \/ n = m
    BY <2>1, WayFacts, WayFactsAfter
  <2> QED
    BY <2>2
<1>6. Excused' = Excused \/ Excused' = Excused \cup {m}
  <2>1. CASE mixed' = mixed
    BY <2>1 DEF Excused
  <2>2. CASE mixed' = mixed \cup {m}
    BY <2>2 DEF Excused
  <2> QED
    BY <1>2, <2>1, <2>2
<1>7. /\ link = "open" /\ m \notin Link!ToSet(written) /\ written' = Append(written, m)
      /\ UNCHANGED <<delivered, link>>
  BY <1>2 DEF ToSet, Link!ToSet
<1>8. Excused' \in {Excused, Excused \cup {m}}
  BY <1>6
<1> QED
  BY <1>5, <1>7, <1>8, Zenon DEF Link!Send

\* A chunk that is read takes the first messages off the way, or none.
LEMMA ReadReceives ==
    ASSUME ChannelIInv, ChannelIInv', NEW n \in 1..MaxChunk, ReadChunk(n)
    PROVE  Link!Next \/ UNCHANGED Link!vars
<1> DEFINE gone == OnWay \ OnWay'
<1>1. /\ ChannelTypeOK /\ (\A i \in 1..Len(buffer) : ~buffer[i].last)
      /\ written \in Seq(Msg) /\ delivered \in Seq(Msg)
      /\ LinesSound(Unread, written, delivered, mixed) /\ LinesOrdered(Unread, written)
  BY DEF ChannelIInv, ChannelTypeOK, LinkSound
<1>2. /\ LinesSound(Unread', written', delivered', mixed')
      /\ ReadDelivered(Unread', written', delivered', mixed')
      /\ DeliveredSound(Unread', written', delivered')
  BY DEF ChannelIInv, LinkSound
<1>3. PICK t, w, d, e :
              /\ ReadOf(Unread, Len(buffer), t, d, w, e, Unread')
              /\ Dispatch(Messages(w))
  BY <1>1, ReadChunkFacts
<1> DEFINE new == Messages(w)
<1>4. /\ written' = written /\ mixed' = mixed /\ link' = link /\ link # "closed"
      /\ delivered' = delivered \o new
  BY <1>3 DEF ReadChunk, Dispatch
<1>5. /\ new \in Seq(Msg)
      /\ \A k \in 1..Len(new) : \E i \in 1..Len(Unread) : Unread[i].of = new[k]
  <2>1. PICK at \in Seq(1..(d + e)) :
              /\ new \in Seq(Msg) /\ Len(new) = Len(at)
              /\ \A k \in 1..Len(at) : at[k] \in 1..Len(Unread) /\ Unread[at[k]].of = new[k]
    BY <1>3, DispatchedFacts
  <2> HIDE DEF new
  <2> QED
    BY <2>1
<1>6. /\ Unread \in Seq(Byte) /\ d + e \in 0..Len(Unread) /\ Dropped(Unread, d + e, Unread')
  BY <1>3, ReadFacts
<1>7. \A m : In(Unread', m) <=> \E j \in (d + e + 1)..Len(Unread) : Unread[j].of = m
  BY <1>6, DroppedIn
<1>8. \A j \in (d + e + 1)..Len(Unread) : j \in 1..Len(Unread)
  BY <1>6
<1>9. /\ \A m : m \in OnWay <=> m \in Msg /\ In(Unread, m)
      /\ \A m : m \in OnWay' <=> m \in Msg /\ In(Unread', m)
  BY WayFacts, WayFactsAfter
<1> HIDE DEF new
<1>10. OnWay' \subseteq OnWay
  BY <1>7, <1>8, <1>9 DEF In
<1>11. ToSet(new) \subseteq gone
  <2> SUFFICES ASSUME NEW m \in ToSet(new) PROVE m \in OnWay /\ m \notin OnWay'
    OBVIOUS
  <2>1. PICK k \in 1..Len(new) : new[k] = m
    BY <1>5, ToSetFacts
  <2>2. m \in Msg /\ In(Unread, m)
    BY <1>5, <2>1 DEF In
  <2>3. m \in ToSet(delivered')
    BY <1>1, <1>4, <1>5, ToSetJoined
  <2>4. ~In(Unread', m)
    BY <1>2, <2>2, <2>3 DEF LinesSound
  <2> QED
    BY <1>9, <2>2, <2>4
<1>12. ASSUME NEW m \in gone, m \notin Excused PROVE m \in ToSet(new)
  <2>1. m \in Msg /\ In(Unread, m) /\ ~In(Unread', m)
    BY <1>9
  <2>2. m \in ToSet(written) /\ m \notin ToSet(delivered)
    BY <1>1, <2>1 DEF LinesSound
  <2>3. m \notin mixed /\ ~NearLimit(m)
    BY <1>12, <2>1 DEF Excused
  <2>4. m \in ToSet(delivered')
    BY <1>2, <1>4, <2>1, <2>2, <2>3 DEF ReadDelivered
  <2> QED
    BY <1>1, <1>4, <1>5, <2>2, <2>4, ToSetJoined
<1>13. \A l, m : BeforeIn(written, l, m) => Link!Precedes(l, m)
  BY <1>1 DEF BeforeIn, Link!Precedes
<1>14. ASSUME NEW l \in gone, NEW m \in OnWay \ gone PROVE Link!Precedes(l, m)
  <2>1. l \in Msg /\ m \in Msg /\ In(Unread, l) /\ ~In(Unread', l) /\ In(Unread', m) /\ l # m
    BY <1>9
  <2>2. PICK i \in 1..Len(Unread) : Unread[i].of = l
    BY <2>1 DEF In
  <2>3. PICK j \in (d + e + 1)..Len(Unread) : Unread[j].of = m
    BY <1>7, <2>1
  <2>4. ~(i \in (d + e + 1)..Len(Unread))
    BY <1>7, <2>1, <2>2
  <2>5. j \in 1..Len(Unread) /\ i < j
    BY <1>6, <1>8, <2>4
  <2>6. BeforeIn(written, l, m)
    BY <1>1, <2>1, <2>2, <2>3, <2>5 DEF LinesOrdered
  <2> QED
    BY <1>13, <2>6
<1>15. /\ Len(delivered') = Len(delivered) + Len(new) /\ Len(delivered) \in Nat /\ Len(new) \in Nat
       /\ \A k \in 1..Len(new) : delivered'[Len(delivered) + k] = new[k]
       /\ delivered' \in Seq(Msg)
  BY <1>1, <1>4, <1>5, JoinedFacts
<1>16. Link!New = new
  <2> DEFINE last == SubSeq(delivered', 1 + Len(delivered), Len(delivered'))
  <2>1. Len(delivered') \in 0..Len(delivered') /\ Len(delivered) \in 0..Len(delivered')
        /\ Len(delivered') - Len(delivered) = Len(new)
    BY <1>15
  <2>2. /\ last \in Seq(Msg) /\ Len(last) = Len(delivered') - Len(delivered)
        /\ \A i \in 1..(Len(delivered') - Len(delivered)) : last[i] = delivered'[Len(delivered) + i]
    BY <1>15, <2>1, PartFacts
  <2>3. 1 + Len(delivered) = Len(delivered) + 1
    BY <1>15
  <2>4. Link!New = last
    BY <2>3 DEF Link!New
  <2> HIDE DEF last
  <2>5. Len(last) = Len(new) /\ \A i \in 1..Len(last) : last[i] = new[i]
    BY <1>15, <2>1, <2>2
  <2> QED
    BY <1>5, <2>2, <2>4, <2>5, SameSequence
<1>17. \A i, k \in DOMAIN new : i < k => Link!Precedes(new[i], new[k])
  <2> SUFFICES ASSUME NEW i \in 1..Len(new), NEW k \in 1..Len(new), i < k
               PROVE  Link!Precedes(new[i], new[k])
    BY <1>5
  <2> DEFINE a == Len(delivered) + i
             b == Len(delivered) + k
  <2>1. /\ a \in 1..Len(delivered') /\ b \in 1..Len(delivered') /\ a < b
        /\ delivered'[a] = new[i] /\ delivered'[b] = new[k]
    <3>1. delivered'[a] = new[i] /\ delivered'[b] = new[k]
      BY <1>15
    <3>2. Len(delivered') = Len(delivered) + Len(new) /\ Len(delivered) \in Nat /\ Len(new) \in Nat
      BY <1>15
    <3> HIDE DEF a, b
    <3>3. a = Len(delivered) + i /\ b = Len(delivered) + k
      BY DEF a, b
    <3>4. a \in 1..Len(delivered') /\ b \in 1..Len(delivered') /\ a < b
      BY <3>2, <3>3
    <3> QED
      BY <3>1, <3>4
  <2> HIDE DEF a, b
  <2>2. BeforeIn(written', delivered'[a], delivered'[b])
    BY <1>2, <2>1 DEF DeliveredSound
  <2> QED
    BY <1>4, <1>13, <2>1, <2>2
<1>18. Excused' = Excused
  BY <1>4 DEF Excused
<1>19. CASE gone = {}
  <2>1. OnWay' = OnWay
    BY <1>10, <1>19
  <2>2. Len(new) = 0
    BY <1>5, <1>11, <1>19, ToSetFacts
  <2>3. delivered' = delivered
    <3>1. new = << >>
      BY <1>5, <2>2
    <3> QED
      BY <1>1, <1>4, <3>1
  <2> QED
    BY <1>4, <1>18, <2>1, <2>3 DEF Link!vars
<1>20. CASE gone # {}
  <2>1. OnWay' = OnWay \ gone
    BY <1>10
  <2>2. gone \ Excused \subseteq ToSet(new)
    BY <1>12
  <2> HIDE DEF gone
  <2>3. Link!Receive(gone)
    <3>1. /\ delivered' = delivered \o Link!New
          /\ \A i, k \in DOMAIN Link!New : i < k => Link!Precedes(Link!New[i], Link!New[k])
          /\ Link!ToSet(Link!New) \subseteq gone /\ gone \ Excused \subseteq Link!ToSet(Link!New)
      <4>1. Link!ToSet(new) = ToSet(new)
        BY DEF ToSet, Link!ToSet
      <4> QED
        BY <1>4, <1>11, <1>16, <1>17, <2>2, <4>1
    <3>2. /\ link # "closed" /\ gone # {} /\ OnWay' = OnWay \ gone
          /\ \A l \in gone, m \in OnWay \ gone : Link!Precedes(l, m)
      BY <1>4, <1>14, <1>20, <2>1
    <3>3. UNCHANGED <<written, Excused, link>>
      BY <1>4, <1>18
    <3> QED
      BY <3>1, <3>2, <3>3, Zenon DEF Link!Receive
  <2>4. gone \in SUBSET OnWay
    BY DEF gone
  <2> QED
    BY <2>3, <2>4 DEF Link!Next
<1> QED
  BY <1>19, <1>20

\* A step that leaves the bytes and the messages alone is none of the link, unless
\* it ends or closes it.
LEMMA LinkOnly ==
    ASSUME UNCHANGED <<written, mixed, pipe, buffer, delivered>>,
           \/ link' = link
           \/ link = "open" /\ link' = "ended"
           \/ link # "closed" /\ link' = "closed"
    PROVE  Link!Next \/ UNCHANGED Link!vars
<1>1. OnWay' = OnWay /\ Excused' = Excused
  BY DEF OnWay, Consumed, Excused
<1> QED
  BY <1>1 DEF Link!Next, Link!End, Link!Close, Link!vars

\* Other text is no message.
LEMMA TextSilent ==
    ASSUME ChannelIInv, ChannelIInv', NEW last \in BOOLEAN, OtherText(last)
    PROVE  UNCHANGED Link!vars
<1> DEFINE byte == [of |-> NoOne, last |-> last]
<1>1. pipe \in Seq(Byte) /\ buffer \in Seq(Byte)
  BY DEF ChannelIInv, ChannelTypeOK
<1>2. /\ pipe' = Append(pipe, byte) /\ buffer' = buffer
      /\ written' = written /\ mixed' = mixed /\ delivered' = delivered /\ link' = link
  BY DEF OtherText
<1>3. byte \in Byte /\ byte.of = NoOne
  BY DEF Byte
<1> HIDE DEF byte
<1>4. Unread \in Seq(Byte) /\ Unread' = Unread \o <<byte>>
  <2>1. Append(pipe, byte) = pipe \o <<byte>> /\ <<byte>> \in Seq(Byte)
    BY <1>1, <1>3
  <2>2. Unread = buffer \o pipe /\ Unread' = buffer \o (pipe \o <<byte>>)
    BY <1>2, <2>1 DEF Unread
  <2>3. (buffer \o pipe) \o <<byte>> = buffer \o (pipe \o <<byte>>)
    BY <1>1, <2>1, ConcatAssociative
  <2>4. buffer \o pipe \in Seq(Byte)
    BY <1>1, JoinedFacts
  <2> HIDE DEF Unread
  <2> QED
    BY <2>2, <2>3, <2>4
<1>5. \A m : In(Unread', m) <=> In(Unread, m) \/ m = NoOne
  <2>1. <<byte>> \in Seq(Byte) /\ \A m : In(<<byte>>, m) <=> m = NoOne
    BY <1>3 DEF In
  <2> QED
    BY <1>4, <2>1, JoinedIn
<1>6. OnWay' = OnWay
  <2>1. NoOne \notin Msg
    BY ChannelConstants
  <2>2. \A m : m \in OnWay' <=> m \in OnWay
    BY <1>5, <2>1, WayFacts, WayFactsAfter
  <2> QED
    BY <2>2
<1> QED
  BY <1>2, <1>6 DEF Link!vars, Excused

LEMMA ChannelStepKeepsLink ==
    ChannelIInv /\ ChannelIInv' /\ [ChannelNext]_channelVars => [Link!Next]_Link!vars
<1> SUFFICES ASSUME ChannelIInv, ChannelIInv', [ChannelNext]_channelVars
             PROVE  Link!Next \/ UNCHANGED Link!vars
  OBVIOUS
<1>1. ASSUME NEW m \in Msg, WriteMessage(m) PROVE Link!Next
  BY <1>1, WriteSends DEF Link!Next
<1>2. ASSUME NEW last \in BOOLEAN, OtherText(last) PROVE UNCHANGED Link!vars
  BY <1>2, TextSilent
<1>3. ASSUME NEW w \in Waiter, Ask(w) \/ Timeout(w) \/ CleanUp(w)
      PROVE  Link!Next \/ UNCHANGED Link!vars
  <2>1. UNCHANGED <<written, mixed, pipe, buffer, delivered>> /\ link' = link
    BY <1>3 DEF Ask, Timeout, CleanUp
  <2> QED
    BY <2>1, LinkOnly
<1>4. ASSUME NEW n \in 1..MaxChunk, ReadChunk(n) PROVE Link!Next \/ UNCHANGED Link!vars
  BY <1>4, ReadReceives
<1>5. ASSUME PeerEnds \/ EndOfStream \/ StopProtocol PROVE Link!Next \/ UNCHANGED Link!vars
  <2>1. /\ UNCHANGED <<written, mixed, pipe, buffer, delivered>>
        /\ \/ link = "open" /\ link' = "ended"
           \/ link # "closed" /\ link' = "closed"
    BY <1>5 DEF PeerEnds, EndOfStream, StopProtocol
  <2> QED
    BY <2>1, LinkOnly
<1>6. ASSUME UNCHANGED channelVars PROVE Link!Next \/ UNCHANGED Link!vars
  <2>1. UNCHANGED <<written, mixed, pipe, buffer, delivered>> /\ link' = link
    BY <1>6 DEF channelVars
  <2> QED
    BY <2>1, LinkOnly
<1> QED
  BY <1>1, <1>2, <1>3, <1>4, <1>5, <1>6 DEF ChannelNext

(* Lines over a pipe, cut into any chunks and mixed with any other text,   *)
(* are a link of messages: those off the way were received in order, each  *)
(* once, but for the ones behind other text or near the size limit.        *)
THEOREM ChannelKeepsLink == ChannelSpec => KeepsLink
<1>1. ChannelInit => Link!Init
  <2> SUFFICES ASSUME ChannelInit PROVE Link!Init
    OBVIOUS
  <2>1. written = <<>> /\ delivered = <<>> /\ mixed = {} /\ link = "open"
    BY DEF ChannelInit
  <2>2. OnWay = {}
    BY <2>1 DEF OnWay, ToSet
  <2>3. Excused \in SUBSET Msg
    BY <2>1 DEF Excused
  <2> QED
    BY <2>1, <2>2, <2>3 DEF Link!Init
<1>2. ChannelInit => ChannelIInv
  BY ChannelIInvInit
<1>3. ChannelIInv /\ [ChannelNext]_channelVars => ChannelIInv'
  BY ChannelIInvStep
<1>4. ChannelIInv /\ ChannelIInv' /\ [ChannelNext]_channelVars => [Link!Next]_Link!vars
  BY ChannelStepKeepsLink
<1> QED
  BY <1>1, <1>2, <1>3, <1>4, PTL DEF ChannelSpec, KeepsLink, Link!Spec

\* When the pipe is empty no message is on the way: its line was written whole, and
\* the buffer holds the end of no line.
LEMMA EndedReadAll ==
    ASSUME ChannelIInv, EndOfStream, NEW m \in ToSet(written)
    PROVE  m \in ToSet(delivered) \/ m \in mixed \/ NearLimit(m)
<1>1. /\ pipe \in Seq(Byte) /\ buffer \in Seq(Byte) /\ written \in Seq(Msg)
      /\ \A i \in 1..Len(buffer) : ~buffer[i].last
      /\ LinesSound(Unread, written, delivered, mixed)
      /\ ReadDelivered(Unread, written, delivered, mixed)
  BY DEF ChannelIInv, ChannelTypeOK, LinkSound
<1>2. Unread = buffer
  <2>1. pipe = <<>>
    BY DEF EndOfStream
  <2> QED
    BY <1>1, <2>1 DEF Unread
<1>3. m \in Msg
  BY <1>1, ToSetFacts
<1>4. ~In(Unread, m)
  <2> SUFFICES ASSUME In(Unread, m) PROVE FALSE
    OBVIOUS
  <2>1. PICK b \in 1..Len(Unread) : Placed(Unread, m, b)
    BY <1>1, <1>3 DEF LinesSound
  <2>2. Unread[b].of = m
    <3>1. Size[m] \in Nat \ {0} /\ b \in Nat
      BY <1>3, ChannelConstants
    <3>2. b - Size[m] < b /\ b <= b
      BY <3>1
    <3> QED
      BY <2>1, <3>2 DEF Placed
  <2>3. Unread[b].last
    BY <2>1, <2>2 DEF Placed
  <2> QED
    BY <1>1, <1>2, <2>3
<1> QED
  BY <1>1, <1>4 DEF ReadDelivered

(* A process that answers and exits at once is heard: its requester is not *)
(* told of a lost connection before what it wrote has been dispatched.     *)
THEOREM EndAlwaysLosesNothing == ChannelSpec => EndLosesNothing
<1>1. ChannelInit => ChannelIInv
  BY ChannelIInvInit
<1>2. ChannelIInv /\ [ChannelNext]_channelVars => ChannelIInv'
  BY ChannelIInvStep
<1>3. ChannelIInv /\ [ChannelNext]_channelVars =>
        [EndOfStream => \A m \in ToSet(written) :
                          m \in ToSet(delivered) \/ m \in mixed \/ NearLimit(m)]_channelVars
  BY EndedReadAll
<1> QED
  BY <1>1, <1>2, <1>3, PTL DEF ChannelSpec, EndLosesNothing
=============================================================================
