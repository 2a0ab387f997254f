--------------------------- MODULE TaskStoreProofs ---------------------------
(***************************************************************************)
(* The task store for any tasks, members, residents and housekeepers.      *)
(*                                                                         *)
(* NoPrematureClaim rests on two facts that no single call can see: a file *)
(* whose content says completed or superseded is one whose end has been    *)
(* written (EndsWritten), and a claim about to be written has seen the     *)
(* ends of all dependencies (ClaimChecked).                                *)
(*                                                                         *)
(* FirstClaimExclusive rests on a token that a task has until it is put    *)
(* back: the file in pending/, or the one call that renamed it away, or    *)
(* the one member that was told ok (Token).                                *)
(***************************************************************************)
EXTENDS TaskStore, FiniteSetTheorems, TLAPS

Ends == {"completed", "superseded"}

\* Content that tells of an end tells the truth.
EndsWritten ==
    \A d \in Dir, t \in Task :
        file[d][t] # Absent /\ file[d][t].status \in Ends => t \in finished

ClaimPc == {"claim_read", "claim_rollback", "claim_deps", "claim_block",
            "claim_park", "claim_write"}
TaskPc == ClaimPc \cup
          {"complete_read", "complete_rollback", "complete_write",
           "supersede_try", "supersede_read", "supersede_rollback",
           "supersede_write", "unblock_move",
           "housekeep_read", "housekeep_write", "housekeep_move"}
DraftPc == {"claim_deps", "claim_block", "claim_write", "complete_write",
            "supersede_write", "housekeep_write"}

\* What a call has in memory when it comes to each of its steps.
WellFormed(c) ==
    /\ c \in Call
    /\ c.pc \in TaskPc => c.task \in Task
    /\ c.pc \in DraftPc => c.draft \in Content
    /\ c.pc \in {"supersede_try", "supersede_read", "supersede_rollback"}
          => c.from \in {"pending", "in_progress", "blocked"}
    /\ c.pc = "supersede_rollback" => c.task \in Oversized

CallsFormed == \A a \in Actor : WellFormed(call[a])

ClaimChecked ==
    \A m \in Actor : call[m].pc = "claim_write" => Deps[call[m].task] \subseteq finished

Claiming(m, t) == call[m].pc \in ClaimPc /\ call[m].task = t

\* Once claimed, a task has a file somewhere.
StillThere ==
    \A t \in Task :
        (holders[t] # {} \/ \E m \in Actor : Claiming(m, t))
            => \E d \in Dir : file[d][t] # Absent

Token ==
    \A t \in Task \ (requeued \cup Oversized) :
        /\ \A m, n \in Actor : Claiming(m, t) /\ Claiming(n, t) => m = n
        /\ \A m \in Actor : Claiming(m, t) =>
              file["pending"][t] = Absent /\ holders[t] = {}
        /\ holders[t] # {} => file["pending"][t] = Absent
        /\ \A m, n \in holders[t] : m = n

Files == [Dir -> [Task -> Content \cup {Absent}]]

-----------------------------------------------------------------------------
(* File operations *)

\* A rename moves one file and touches no other.
LEMMA RenamedIs ==
    ASSUME file \in Files, NEW from \in Dir, NEW to \in Dir, from # to,
           NEW t \in Task
    PROVE  /\ Renamed(from, to, t) \in Files
           /\ \A d \in Dir, u \in Task :
                 Renamed(from, to, t)[d][u] =
                    IF u # t THEN file[d][u]
                    ELSE IF d = to THEN file[from][t]
                    ELSE IF d = from THEN Absent ELSE file[d][u]
<1> DEFINE copied == [file EXCEPT ![to][t] = file[from][t]]
<1>1. /\ copied \in Files
      /\ \A d \in Dir, u \in Task :
            copied[d][u] = IF u = t /\ d = to THEN file[from][t] ELSE file[d][u]
  BY DEF Files
<1>2. Renamed(from, to, t) = [copied EXCEPT ![from][t] = Absent]
  BY DEF Renamed, Files
<1> HIDE DEF copied
<1> QED
  BY <1>1, <1>2 DEF Files

\* An atomic write sets one file and touches no other.
LEMMA WrittenIs ==
    ASSUME file \in Files, NEW d \in Dir, NEW t \in Task, NEW c \in Content
    PROVE  /\ Written(d, t, c) \in Files
           /\ [c EXCEPT !.stale = FALSE] \in Content
           /\ [c EXCEPT !.stale = FALSE].status = c.status
           /\ \A e \in Dir, u \in Task :
                 Written(d, t, c)[e][u] =
                    IF e = d /\ u = t THEN [c EXCEPT !.stale = FALSE]
                    ELSE file[e][u]
BY DEF Written, Files, Content

LEMMA FreshIs ==
    ASSUME NEW c \in Content
    PROVE  /\ [c EXCEPT !.stale = FALSE] \in Content
           /\ [c EXCEPT !.stale = FALSE].status = c.status
BY DEF Content

LEMMA NewIs == New \in Content /\ New.status = "pending"
BY DEF New, Content, Dir

LEMMA IdleIs ==
    /\ WellFormed(Idle)
    /\ Idle.pc = "idle"
<1>1. NoStates \in States
  BY DEF NoStates, States
<1> QED
  BY <1>1 DEF Idle, WellFormed, Call, Pc, Dir, TaskPc, ClaimPc, DraftPc

LEMMA StartIs ==
    ASSUME NEW pc \in Pc, NEW t \in Task \cup {NoTask}
    PROVE  /\ Start(pc, t) \in Call
           /\ Start(pc, t).pc = pc
           /\ Start(pc, t).task = t
           /\ Start(pc, t).from = "pending"
BY IdleIs DEF Start, Idle, WellFormed, Call, Dir

-----------------------------------------------------------------------------
(* Dependencies *)

\* The map holds what some file holds.
LEMMA StatesFromFiles ==
    ASSUME file \in Files
    PROVE  /\ DependencyStates \in States
           /\ \A t \in Task : DependencyStates[t] # Absent =>
                 \E d \in Dir : file[d][t] # Absent /\ DependencyStates[t] = file[d][t]
<1> SUFFICES ASSUME NEW t \in Task
             PROVE  \/ DependencyStates[t] = Absent
                    \/ \E d \in Dir : /\ file[d][t] # Absent
                                      /\ DependencyStates[t] = file[d][t]
  BY DEF DependencyStates, States, Files
<1> DEFINE found == {d \in Dir : file[d][t] # Absent}
           Last(d) == d \in found /\ \A e \in found : ReadOrder[e] <= ReadOrder[d]
<1>1. CASE found = {}
  BY <1>1 DEF DependencyStates
<1>2. CASE found # {}
  <2>1. \E d \in found : Last(d)
    BY <1>2 DEF ReadOrder, Dir
  <2>2. PICK d \in Dir : d = CHOOSE e \in found : \A g \in found : ReadOrder[g] <= ReadOrder[e]
    BY <2>1
  <2>3. d \in found
    BY <2>1, <2>2
  <2>4. DependencyStates[t] = file[d][t]
    BY <1>2, <2>2 DEF DependencyStates
  <2> QED
    BY <2>3, <2>4
<1> QED
  BY <1>1, <1>2

\* Whatever a chain of replacements does, a resolved task has itself ended.
LEMMA ResolvedHasEnded ==
    ASSUME NEW states, NEW t \in Resolved(states)
    PROVE  states[t] # Absent /\ states[t].status \in Ends
<1> DEFINE S == {u \in Task : states[u] # Absent /\ states[u].status \in Ends}
<1>1. \A u \in Task : Leads(states, u, S) => u \in S
  BY DEF Leads, Ends
<1>2. S \in SUBSET Task
  OBVIOUS
<1>3. t \in S
  BY <1>1, <1>2 DEF Resolved
<1> QED
  BY <1>3

LEMMA SatisfiedHasEnded ==
    ASSUME file \in Files, EndsWritten, NEW t \in Task,
           Satisfied(DependencyStates, t)
    PROVE  Deps[t] \subseteq finished
<1> SUFFICES ASSUME NEW u \in Deps[t] PROVE u \in finished
  OBVIOUS
<1>1. u \in Task /\ u \in Resolved(DependencyStates)
  BY TaskAssumption DEF Satisfied
<1>2. DependencyStates[u] # Absent /\ DependencyStates[u].status \in Ends
  BY <1>1, ResolvedHasEnded
<1> QED
  BY <1>1, <1>2, StatesFromFiles DEF EndsWritten

-----------------------------------------------------------------------------
(* Types *)

\* A call that goes on with well formed memory leaves the calls well formed.
LEMMA CallsUpdate ==
    ASSUME TypeOK, CallsFormed, NEW a \in Actor, NEW c,
           WellFormed(c), call' = [call EXCEPT ![a] = c]
    PROVE  call' \in [Actor -> Call] /\ CallsFormed'
BY DEF TypeOK, CallsFormed, WellFormed

LEMMA ReturnType ==
    ASSUME TypeOK, CallsFormed, NEW a \in Actor, Return(a)
    PROVE  call' \in [Actor -> Call] /\ CallsFormed'
BY IdleIs, CallsUpdate DEF Return

\* Goto to a step that needs no more than the call has.
LEMMA GotoType ==
    ASSUME TypeOK, CallsFormed, NEW a \in Actor, NEW pc \in Pc, Goto(a, pc),
           call[a].task \in Task,
           pc \in DraftPc => call[a].draft \in Content,
           pc \in {"supersede_try", "supersede_read", "supersede_rollback"}
              => call[a].from \in {"pending", "in_progress", "blocked"},
           pc # "supersede_rollback"
    PROVE  call' \in [Actor -> Call] /\ CallsFormed'
<1> DEFINE c == [call[a] EXCEPT !.pc = pc]
<1>1. WellFormed(c)
  BY DEF WellFormed, TypeOK, Call
<1>2. call' = [call EXCEPT ![a] = c]
  BY DEF Goto
<1> QED
  BY <1>1, <1>2, CallsUpdate

\* The same for a step that also keeps the task object it has read.
LEMMA ReadType ==
    ASSUME TypeOK, CallsFormed, NEW a \in Actor, NEW pc \in Pc,
           NEW content \in Content,
           call' = [call EXCEPT ![a].draft = content, ![a].pc = pc],
           call[a].task \in Task,
           pc \in {"supersede_try", "supersede_read", "supersede_rollback"}
              => call[a].from \in {"pending", "in_progress", "blocked"},
           pc = "supersede_rollback" => call[a].task \in Oversized
    PROVE  call' \in [Actor -> Call] /\ CallsFormed'
<1> DEFINE c == [call[a] EXCEPT !.draft = content, !.pc = pc]
<1>1. WellFormed(c)
  BY DEF WellFormed, TypeOK, Call
<1>2. call' = [call EXCEPT ![a] = c]
  BY DEF TypeOK, Call
<1> QED
  BY <1>1, <1>2, CallsUpdate

LEMMA BeginType ==
    ASSUME TypeOK, CallsFormed, NEW a \in Actor, NEW pc \in Pc,
           NEW t \in Task \cup {NoTask}, pc \in TaskPc => t \in Task,
           pc \notin DraftPc, pc # "supersede_rollback",
           call' = [call EXCEPT ![a] = Start(pc, t)]
    PROVE  call' \in [Actor -> Call] /\ CallsFormed'
<1>1. WellFormed(Start(pc, t))
  BY StartIs DEF WellFormed
<1> QED
  BY <1>1, CallsUpdate

\* The loop of unblockSatisfiedBlockedTasks.
LEMMA ContinueType ==
    ASSUME TypeOK, CallsFormed, NEW a \in Actor, NEW todo \in SUBSET Task,
           NEW states \in States, Continue(a, todo, states)
    PROVE  call' \in [Actor -> Call] /\ CallsFormed'
<1> DEFINE ready == {t \in todo : Satisfied(states, t)}
           c == [Start("unblock_write", NoTask) EXCEPT !.todo = ready, !.states = states]
<1>1. WellFormed(c)
  BY IdleIs DEF Start, Idle, WellFormed, Call, Pc, TaskPc, ClaimPc, DraftPc
<1>2. call' = [call EXCEPT ![a] = IF ready = {} THEN Idle ELSE c]
  BY DEF Continue
<1> HIDE DEF ready, c
<1> QED
  BY <1>1, <1>2, IdleIs, CallsUpdate

\* The loop of housekeepTasksInProgress.
LEMMA NextFileType ==
    ASSUME TypeOK, CallsFormed, NEW a \in Actor, NEW todo \in SUBSET Task,
           NextFile(a, todo)
    PROVE  call' \in [Actor -> Call] /\ CallsFormed'
<1> DEFINE c == [Start("housekeep_stat", NoTask) EXCEPT !.todo = todo]
<1>1. WellFormed(c)
  BY IdleIs DEF Start, Idle, WellFormed, Call, Pc, TaskPc, ClaimPc, DraftPc
<1>2. call' = [call EXCEPT ![a] = IF todo = {} THEN Idle ELSE c]
  BY DEF NextFile
<1> HIDE DEF c
<1> QED
  BY <1>1, <1>2, IdleIs, CallsUpdate

LEMMA TypeOfParts ==
    ASSUME TypeOK, file' \in Files, call' \in [Actor -> Call],
           calls' = calls \/ (calls < MaxCalls /\ calls' = calls + 1),
           crashes' = crashes \/ (crashes < MaxCrashes /\ crashes' = crashes + 1),
           holders' \in [Task -> SUBSET Member], requeued' \subseteq Task,
           finished' \subseteq Task
    PROVE  TypeOK'
BY BoundAssumption DEF TypeOK, Files

LEMMA FilesOf == TypeOK => file \in Files
BY DEF TypeOK, Files

\* A rename, if there is something to rename, gives files.
LEMMA RenamedIfThereIs ==
    ASSUME file \in Files, NEW from \in Dir, NEW to \in Dir, from # to,
           NEW t \in Task
    PROVE  /\ RenamedIfThere(from, to, t) \in Files
           /\ file[from][t] # Absent =>
                 RenamedIfThere(from, to, t) = Renamed(from, to, t)
           /\ file[from][t] = Absent => RenamedIfThere(from, to, t) = file
BY RenamedIs DEF RenamedIfThere

LEMMA ClaimTypes ==
    ASSUME TypeOK, CallsFormed, NEW m \in Member,
           \/ \E t \in Task : ClaimTask(m, t)
           \/ ClaimRead(m) \/ ClaimDeps(m) \/ ClaimBlock(m) \/ ClaimPark(m)
           \/ ClaimRollback(m) \/ ClaimWrite(m)
    PROVE  TypeOK' /\ CallsFormed'
<1> DEFINE t == call[m].task
<1>0. /\ m \in Actor
      /\ WellFormed(call[m])
      /\ file \in Files
      /\ {"pending", "in_progress", "blocked"} \subseteq Dir
  BY FilesOf DEF Actor, CallsFormed, Dir
<1>1. ASSUME NEW u \in Task, ClaimTask(m, u) PROVE TypeOK' /\ CallsFormed'
  <2>1. file' \in Files
    BY <1>0, <1>1, RenamedIs DEF ClaimTask
  <2>2. call' \in [Actor -> Call] /\ CallsFormed'
    BY <1>0, <1>1, BeginType DEF ClaimTask, Pc, TaskPc, ClaimPc, DraftPc
  <2> QED
    BY <1>1, <2>1, <2>2, TypeOfParts DEF ClaimTask, MayCall, TypeOK
<1>2. CASE ClaimRead(m)
  <2>1. t \in Task
    BY <1>0, <1>2 DEF ClaimRead, WellFormed, TaskPc, ClaimPc
  <2>2. call' \in [Actor -> Call] /\ CallsFormed'
    <3>1. CASE Return(m)
      BY <1>0, <3>1, ReturnType
    <3>2. CASE file["in_progress"][t] # Absent /\ ~Return(m)
      <4>1. PICK pc \in {"claim_rollback", "claim_deps", "claim_write"} :
               call' = [call EXCEPT ![m].draft = file["in_progress"][t], ![m].pc = pc]
        BY <1>2, <3>2 DEF ClaimRead, AfterChecks, SizeCheck
      <4>2. file["in_progress"][t] \in Content
        BY <1>0, <2>1, <3>2 DEF Files
      <4>3. pc \in Pc
        BY DEF Pc
      <4> QED
        BY <1>0, <2>1, <4>1, <4>2, <4>3, ReadType
    <3> QED
      BY <1>2, <3>1, <3>2 DEF ClaimRead
  <2> QED
    BY <1>0, <1>2, <2>2, TypeOfParts DEF ClaimRead, TypeOK
<1>3. CASE ClaimDeps(m)
  <2>1. PICK pc \in {"claim_rollback", "claim_block", "claim_write"} : Goto(m, pc)
    BY <1>3 DEF ClaimDeps, AfterChecks, SizeCheck
  <2>2. t \in Task /\ call[m].draft \in Content /\ pc \in Pc
    BY <1>0, <1>3 DEF ClaimDeps, WellFormed, TaskPc, ClaimPc, DraftPc, Pc
  <2>3. call' \in [Actor -> Call] /\ CallsFormed'
    BY <1>0, <2>1, <2>2, GotoType
  <2> QED
    BY <1>0, <1>3, <2>3, TypeOfParts DEF ClaimDeps, TypeOK
<1>4. CASE ClaimBlock(m)
  <2>1. t \in Task /\ call[m].draft \in Content
    BY <1>0, <1>4 DEF ClaimBlock, WellFormed, TaskPc, ClaimPc, DraftPc
  <2> DEFINE c == [call[m].draft EXCEPT !.status = "blocked"]
  <2>2. c \in Content
    BY <1>0, <2>1 DEF Content
  <2>3. file' \in Files
    <3>1. file' = Written("in_progress", t, c)
      BY <1>4 DEF ClaimBlock
    <3> HIDE DEF c, t
    <3> QED
      BY <1>0, <2>1, <2>2, <3>1, WrittenIs
  <2>4. call' \in [Actor -> Call] /\ CallsFormed'
    BY <1>0, <1>4, <2>1, GotoType DEF ClaimBlock, Pc, DraftPc
  <2> QED
    BY <1>4, <2>3, <2>4, TypeOfParts DEF ClaimBlock, TypeOK
<1>5. CASE ClaimPark(m)
  <2>1. t \in Task
    BY <1>0, <1>5 DEF ClaimPark, WellFormed, TaskPc, ClaimPc
  <2>2. file' \in Files
    BY <1>0, <1>5, <2>1, RenamedIfThereIs DEF ClaimPark
  <2>3. call' \in [Actor -> Call] /\ CallsFormed'
    BY <1>0, <1>5, ReturnType DEF ClaimPark
  <2> QED
    BY <1>5, <2>2, <2>3, TypeOfParts DEF ClaimPark, TypeOK
<1>6. CASE ClaimRollback(m)
  <2>1. t \in Task
    BY <1>0, <1>6 DEF ClaimRollback, WellFormed, TaskPc, ClaimPc
  <2>2. file' \in Files
    BY <1>0, <1>6, <2>1, RenamedIfThereIs DEF ClaimRollback
  <2>3. call' \in [Actor -> Call] /\ CallsFormed'
    BY <1>0, <1>6, ReturnType DEF ClaimRollback
  <2> QED
    BY <1>6, <2>2, <2>3, TypeOfParts DEF ClaimRollback, TypeOK
<1>7. CASE ClaimWrite(m)
  <2>1. t \in Task /\ call[m].draft \in Content
    BY <1>0, <1>7 DEF ClaimWrite, WellFormed, TaskPc, ClaimPc, DraftPc
  <2>2. ClaimedBy(call[m].draft, m) \in Content
    BY <1>0, <2>1 DEF ClaimedBy, Content
  <2>3. file' \in Files
    BY <1>0, <1>7, <2>1, <2>2, WrittenIs DEF ClaimWrite
  <2>4. call' \in [Actor -> Call] /\ CallsFormed'
    BY <1>0, <1>7, ReturnType DEF ClaimWrite
  <2> QED
    BY <1>7, <2>1, <2>3, <2>4, TypeOfParts DEF ClaimWrite, TypeOK
<1> QED
  BY <1>1, <1>2, <1>3, <1>4, <1>5, <1>6, <1>7

LEMMA EndTypes ==
    ASSUME TypeOK, CallsFormed, NEW m \in Member,
           \/ \E t \in Task : CompleteTask(m, t)
           \/ CompleteRead(m) \/ CompleteRollback(m) \/ CompleteWrite(m)
           \/ \E t \in Task, r \in Task \cup {NoTask} : SupersedeTask(m, t, r)
           \/ SupersedeTry(m) \/ SupersedeRead(m) \/ SupersedeRollback(m)
           \/ SupersedeWrite(m)
    PROVE  TypeOK' /\ CallsFormed'
<1> DEFINE t == call[m].task
<1>0. /\ m \in Actor
      /\ WellFormed(call[m])
      /\ file \in Files
      /\ "pending" \in Dir /\ "in_progress" \in Dir /\ "blocked" \in Dir
      /\ "completed" \in Dir /\ "superseded" \in Dir
  BY FilesOf DEF Actor, CallsFormed, Dir
<1>1. ASSUME NEW u \in Task, CompleteTask(m, u) PROVE TypeOK' /\ CallsFormed'
  <2>1. file' \in Files
    BY <1>0, <1>1, RenamedIs DEF CompleteTask
  <2>2. call' \in [Actor -> Call] /\ CallsFormed'
    BY <1>0, <1>1, BeginType DEF CompleteTask, Pc, TaskPc, DraftPc
  <2> QED
    BY <1>1, <2>1, <2>2, TypeOfParts DEF CompleteTask, MayCall, TypeOK
<1>2. CASE CompleteRead(m)
  <2>1. t \in Task
    BY <1>0, <1>2 DEF CompleteRead, WellFormed, TaskPc
  <2>2. call' \in [Actor -> Call] /\ CallsFormed'
    <3>1. CASE Return(m)
      BY <1>0, <3>1, ReturnType
    <3>2. CASE ~Return(m)
      <4>1. PICK pc \in {"complete_rollback", "complete_write"} :
               call' = [call EXCEPT ![m].draft = file["completed"][t], ![m].pc = pc]
        <5>1. PICK pc \in {"complete_rollback"} \cup SizeCheck(t, "complete_write", "complete_rollback") :
                 call' = [call EXCEPT ![m].draft = file["completed"][t], ![m].pc = pc]
          BY <1>2, <3>2 DEF CompleteRead
        <5>2. pc \in {"complete_rollback", "complete_write"}
          BY DEF SizeCheck
        <5> QED
          BY <5>1, <5>2
      <4>2. file["completed"][t] \in Content
        <5>1. file["completed"][t] # Absent
          BY <1>2, <3>2 DEF CompleteRead
        <5> QED
          BY <1>0, <2>1, <5>1 DEF Files
      <4>3. pc \in Pc
        BY DEF Pc
      <4> QED
        BY <1>0, <2>1, <4>1, <4>2, <4>3, ReadType
    <3> QED
      BY <3>1, <3>2
  <2> QED
    BY <1>0, <1>2, <2>2, TypeOfParts DEF CompleteRead, TypeOK
<1>3. CASE CompleteRollback(m)
  <2>1. t \in Task
    BY <1>0, <1>3 DEF CompleteRollback, WellFormed, TaskPc
  <2>2. file' \in Files
    BY <1>0, <1>3, <2>1, RenamedIfThereIs DEF CompleteRollback
  <2>3. call' \in [Actor -> Call] /\ CallsFormed'
    BY <1>0, <1>3, ReturnType DEF CompleteRollback
  <2> QED
    BY <1>3, <2>2, <2>3, TypeOfParts DEF CompleteRollback, TypeOK
<1>4. CASE CompleteWrite(m)
  <2>1. t \in Task /\ call[m].draft \in Content
    BY <1>0, <1>4 DEF CompleteWrite, WellFormed, TaskPc, DraftPc
  <2> DEFINE c == [call[m].draft EXCEPT !.status = "completed"]
  <2>2. c \in Content
    BY <1>0, <2>1 DEF Content
  <2>3. file' \in Files
    <3>1. file' = Written("completed", t, c)
      BY <1>4 DEF CompleteWrite
    <3> HIDE DEF c, t
    <3> QED
      BY <1>0, <2>1, <2>2, <3>1, WrittenIs
  <2>4. call' \in [Actor -> Call] /\ CallsFormed'
    BY <1>0, <1>4, BeginType DEF CompleteWrite, Pc, TaskPc, ClaimPc, DraftPc
  <2> QED
    BY <1>4, <2>1, <2>3, <2>4, TypeOfParts DEF CompleteWrite, TypeOK
<1>5. ASSUME NEW u \in Task, NEW r \in Task \cup {NoTask}, SupersedeTask(m, u, r)
      PROVE  TypeOK' /\ CallsFormed'
  <2> DEFINE c == [Start("supersede_try", u) EXCEPT !.replacement = r]
  <2>1. WellFormed(c)
    BY IdleIs DEF Start, Idle, WellFormed, Call, Pc, TaskPc, ClaimPc, DraftPc
  <2>2. call' \in [Actor -> Call] /\ CallsFormed'
    BY <1>0, <1>5, <2>1, CallsUpdate DEF SupersedeTask
  <2> QED
    BY <1>0, <1>5, <2>2, TypeOfParts DEF SupersedeTask, MayCall, TypeOK
<1>6. CASE SupersedeTry(m)
  <2> DEFINE d == call[m].from
  <2>1. t \in Task /\ d \in {"pending", "in_progress", "blocked"}
    BY <1>0, <1>6 DEF SupersedeTry, WellFormed, TaskPc
  <2>2. CASE file' = Renamed(d, "superseded", t) /\ Goto(m, "supersede_read")
    <3>1. file' \in Files
      BY <1>0, <2>1, <2>2, RenamedIs
    <3>2. call' \in [Actor -> Call] /\ CallsFormed'
      BY <1>0, <2>1, <2>2, GotoType DEF Pc, DraftPc
    <3> QED
      BY <1>6, <3>1, <3>2, TypeOfParts DEF SupersedeTry, TypeOK
  <2>3. CASE d \in DOMAIN NextTry /\ call' = [call EXCEPT ![m].from = NextTry[d]] /\ file' = file
    <3> DEFINE c == [call[m] EXCEPT !.from = NextTry[d]]
    <3>1. NextTry[d] \in {"in_progress", "blocked"}
      BY <2>1, <2>3 DEF NextTry
    <3>2. WellFormed(c)
      BY <1>0, <3>1, <1>6 DEF WellFormed, Call, SupersedeTry
    <3>3. call' = [call EXCEPT ![m] = c]
      BY <2>3
    <3>4. call' \in [Actor -> Call] /\ CallsFormed'
      BY <1>0, <3>2, <3>3, CallsUpdate
    <3> QED
      BY <1>0, <1>6, <2>3, <3>4, TypeOfParts DEF SupersedeTry, TypeOK
  <2>4. CASE Return(m) /\ file' = file
    <3>1. call' \in [Actor -> Call] /\ CallsFormed'
      BY <1>0, <2>4, ReturnType
    <3> QED
      BY <1>0, <1>6, <2>4, <3>1, TypeOfParts DEF SupersedeTry, TypeOK
  <2> QED
    BY <1>6, <2>2, <2>3, <2>4 DEF SupersedeTry
<1>7. CASE SupersedeRead(m)
  <2>1. t \in Task
    BY <1>0, <1>7 DEF SupersedeRead, WellFormed, TaskPc
  <2>2. call' \in [Actor -> Call] /\ CallsFormed'
    <3>1. CASE Return(m)
      BY <1>0, <3>1, ReturnType
    <3>2. CASE ~Return(m)
      <4>1. PICK pc \in SizeCheck(t, "supersede_write", "supersede_rollback") :
               call' = [call EXCEPT ![m].draft = file["superseded"][t], ![m].pc = pc]
        BY <1>7, <3>2 DEF SupersedeRead
      <4>2. file["superseded"][t] \in Content
        BY <1>0, <1>7, <2>1, <3>2 DEF Files, SupersedeRead
      <4>3. /\ pc \in {"supersede_write", "supersede_rollback"}
            /\ pc = "supersede_rollback" => t \in Oversized
        BY <4>1 DEF SizeCheck
      <4>4. pc \in Pc
        BY <4>3 DEF Pc
      <4>5. call[m].from \in {"pending", "in_progress", "blocked"}
        BY <1>0, <1>7 DEF SupersedeRead, WellFormed
      <4> QED
        BY <1>0, <2>1, <4>1, <4>2, <4>3, <4>4, <4>5, ReadType
    <3> QED
      BY <3>1, <3>2
  <2> QED
    BY <1>0, <1>7, <2>2, TypeOfParts DEF SupersedeRead, TypeOK
<1>8. CASE SupersedeRollback(m)
  <2>1. t \in Task /\ call[m].from \in {"pending", "in_progress", "blocked"}
    BY <1>0, <1>8 DEF SupersedeRollback, WellFormed, TaskPc
  <2>2. file' \in Files
    BY <1>0, <1>8, <2>1, RenamedIfThereIs DEF SupersedeRollback
  <2>3. call' \in [Actor -> Call] /\ CallsFormed'
    BY <1>0, <1>8, ReturnType DEF SupersedeRollback
  <2> QED
    BY <1>8, <2>2, <2>3, TypeOfParts DEF SupersedeRollback, TypeOK
<1>9. CASE SupersedeWrite(m)
  <2>1. t \in Task /\ call[m].draft \in Content
    BY <1>0, <1>9 DEF SupersedeWrite, WellFormed, TaskPc, DraftPc
  <2>2. call[m].replacement \in Task \cup {NoTask}
    BY <1>0 DEF WellFormed, Call
  <2> DEFINE c == [call[m].draft EXCEPT !.status = "superseded",
                                        !.replacement = call[m].replacement]
  <2>3. c \in Content
    BY <1>0, <2>1, <2>2 DEF Content
  <2>4. file' \in Files
    <3>1. file' = Written("superseded", t, c)
      BY <1>9 DEF SupersedeWrite
    <3> HIDE DEF c, t
    <3> QED
      BY <1>0, <2>1, <2>3, <3>1, WrittenIs
  <2>5. call' \in [Actor -> Call] /\ CallsFormed'
    <3>1. call' = [call EXCEPT ![m] = Start("unblock_list", NoTask)]
      BY <1>9 DEF SupersedeWrite
    <3>2. "unblock_list" \in Pc /\ "unblock_list" \notin TaskPc \cup DraftPc
      BY DEF Pc, TaskPc, ClaimPc, DraftPc
    <3> QED
      BY <1>0, <3>1, <3>2, BeginType
  <2> QED
    BY <1>9, <2>1, <2>4, <2>5, TypeOfParts DEF SupersedeWrite, TypeOK
<1> QED
  BY <1>1, <1>2, <1>3, <1>4, <1>5, <1>6, <1>7, <1>8, <1>9

LEMMA UnblockTypes ==
    ASSUME TypeOK, CallsFormed, NEW a \in Actor,
           Poll(a) \/ UnblockStep(a)
    PROVE  TypeOK' /\ CallsFormed'
<1> DEFINE t == call[a].task
<1>0. /\ WellFormed(call[a])
      /\ file \in Files
      /\ "blocked" \in Dir /\ "pending" \in Dir
  BY FilesOf DEF CallsFormed, Dir
<1>1. CASE Poll(a)
  <2>1. call' \in [Actor -> Call] /\ CallsFormed'
    BY <1>1, BeginType DEF Poll, Pc, TaskPc, ClaimPc, DraftPc
  <2> QED
    BY <1>0, <1>1, <2>1, TypeOfParts DEF Poll, TypeOK
<1>2. CASE UnblockList(a)
  <2>1. CASE Return(a)
    <3>1. call' \in [Actor -> Call] /\ CallsFormed'
      BY <2>1, ReturnType
    <3> QED
      BY <1>0, <1>2, <3>1, TypeOfParts DEF UnblockList, TypeOK
  <2>2. CASE ~Return(a)
    <3> DEFINE blocked == {u \in Task : file["blocked"][u] # Absent}
               c == [call[a] EXCEPT !.pc = "unblock_states", !.todo = blocked]
    <3>1. WellFormed(c)
      <4>1. "unblock_states" \in Pc /\ "unblock_states" \notin TaskPc \cup DraftPc
        BY DEF Pc, TaskPc, ClaimPc, DraftPc
      <4>2. c \in Call /\ c.pc = "unblock_states"
        BY <1>0, <4>1 DEF WellFormed, Call
      <4> HIDE DEF c
      <4> QED
        BY <4>1, <4>2 DEF WellFormed
    <3>2. call' = [call EXCEPT ![a] = c]
      BY <1>2, <2>2 DEF UnblockList
    <3>3. call' \in [Actor -> Call] /\ CallsFormed'
      BY <3>1, <3>2, CallsUpdate
    <3> QED
      BY <1>0, <1>2, <3>3, TypeOfParts DEF UnblockList, TypeOK
  <2> QED
    BY <2>1, <2>2
<1>3. CASE UnblockStates(a)
  <2>1. call[a].todo \in SUBSET Task /\ DependencyStates \in States
    BY <1>0, StatesFromFiles DEF WellFormed, Call
  <2>2. call' \in [Actor -> Call] /\ CallsFormed'
    BY <1>3, <2>1, ContinueType DEF UnblockStates
  <2> QED
    BY <1>0, <1>3, <2>2, TypeOfParts DEF UnblockStates, TypeOK
<1>4. CASE UnblockWrite(a)
  <2>1. PICK u \in call[a].todo :
           /\ file' = Written("blocked", u, New)
           /\ call' = [call EXCEPT ![a].pc = "unblock_move", ![a].task = u]
    BY <1>4 DEF UnblockWrite
  <2>2. u \in Task
    BY <1>0 DEF WellFormed, Call
  <2>3. file' \in Files
    BY <1>0, <2>1, <2>2, NewIs, WrittenIs
  <2> DEFINE c == [call[a] EXCEPT !.pc = "unblock_move", !.task = u]
  <2>4. WellFormed(c)
    BY <1>0, <2>2 DEF WellFormed, Call, Pc, TaskPc, ClaimPc, DraftPc
  <2>5. call' = [call EXCEPT ![a] = c]
    BY <2>1
  <2>6. call' \in [Actor -> Call] /\ CallsFormed'
    BY <2>4, <2>5, CallsUpdate
  <2> QED
    BY <1>4, <2>3, <2>6, TypeOfParts DEF UnblockWrite, TypeOK
<1>5. CASE UnblockMove(a)
  <2>1. /\ t \in Task
        /\ call[a].todo \ {t} \in SUBSET Task
        /\ call[a].states \in States
    BY <1>0, <1>5 DEF UnblockMove, WellFormed, Call, TaskPc
  <2>2. [call[a].states EXCEPT ![t] = New] \in States
    BY <2>1, NewIs DEF States
  <2>3. CASE file["blocked"][t] # Absent
    <3>1. file' \in Files
      BY <1>0, <1>5, <2>1, <2>3, RenamedIs DEF UnblockMove
    <3>2. call' \in [Actor -> Call] /\ CallsFormed'
      BY <1>5, <2>1, <2>2, <2>3, ContinueType DEF UnblockMove
    <3>3. requeued' \subseteq Task
      BY <1>5, <2>1 DEF UnblockMove, TypeOK
    <3> QED
      BY <1>5, <3>1, <3>2, <3>3, TypeOfParts DEF UnblockMove, TypeOK
  <2>4. CASE file["blocked"][t] = Absent
    <3>1. call' \in [Actor -> Call] /\ CallsFormed'
      BY <1>5, <2>1, <2>4, ContinueType DEF UnblockMove
    <3> QED
      BY <1>0, <1>5, <2>4, <3>1, TypeOfParts DEF UnblockMove, TypeOK
  <2> QED
    BY <2>3, <2>4
<1> QED
  BY <1>1, <1>2, <1>3, <1>4, <1>5 DEF UnblockStep

LEMMA HousekeepTypes ==
    ASSUME TypeOK, CallsFormed, NEW a \in Actor,
           Housekeep(a) \/ HousekeepStep(a)
    PROVE  TypeOK' /\ CallsFormed'
<1> DEFINE t == call[a].task
<1>0. /\ WellFormed(call[a])
      /\ file \in Files
      /\ "in_progress" \in Dir /\ "pending" \in Dir
      /\ \A u : call[a].todo \ {u} \in SUBSET Task
  BY FilesOf DEF CallsFormed, Dir, WellFormed, Call
<1>1. CASE Housekeep(a)
  <2> DEFINE listed == {u \in Task : file["in_progress"][u] # Absent}
  <2>1. NextFile(a, listed)
    BY <1>1 DEF Housekeep, NextFile
  <2>2. listed \in SUBSET Task
    OBVIOUS
  <2>3. call' \in [Actor -> Call] /\ CallsFormed'
    BY <2>1, <2>2, NextFileType
  <2> QED
    BY <1>0, <1>1, <2>3, TypeOfParts DEF Housekeep, TypeOK
<1>2. CASE HousekeepStat(a)
  <2>1. PICK u \in call[a].todo :
           \/ NextFile(a, call[a].todo \ {u})
           \/ call' = [call EXCEPT ![a].pc = "housekeep_read", ![a].task = u]
    BY <1>2 DEF HousekeepStat
  <2>2. CASE NextFile(a, call[a].todo \ {u})
    <3>1. call' \in [Actor -> Call] /\ CallsFormed'
      BY <1>0, <2>2, NextFileType
    <3> QED
      BY <1>0, <1>2, <3>1, TypeOfParts DEF HousekeepStat, TypeOK
  <2>3. CASE call' = [call EXCEPT ![a].pc = "housekeep_read", ![a].task = u]
    <3> DEFINE c == [call[a] EXCEPT !.pc = "housekeep_read", !.task = u]
    <3>1. WellFormed(c)
      BY <1>0 DEF WellFormed, Call, Pc, TaskPc, ClaimPc, DraftPc
    <3>2. call' = [call EXCEPT ![a] = c]
      BY <2>3
    <3>3. call' \in [Actor -> Call] /\ CallsFormed'
      BY <3>1, <3>2, CallsUpdate
    <3> QED
      BY <1>0, <1>2, <3>3, TypeOfParts DEF HousekeepStat, TypeOK
  <2> QED
    BY <2>1, <2>2, <2>3
<1>3. CASE HousekeepRead(a)
  <2>1. t \in Task
    BY <1>0, <1>3 DEF HousekeepRead, WellFormed, TaskPc
  <2>2. CASE NextFile(a, call[a].todo \ {t})
    <3>1. call' \in [Actor -> Call] /\ CallsFormed'
      BY <1>0, <2>2, NextFileType
    <3> QED
      BY <1>0, <1>3, <3>1, TypeOfParts DEF HousekeepRead, TypeOK
  <2>3. CASE /\ Requeueable(file["in_progress"][t])
             /\ call' = [call EXCEPT ![a].pc = "housekeep_write",
                                     ![a].draft = file["in_progress"][t]]
    <3>1. file["in_progress"][t] \in Content
      BY <1>0, <2>1, <2>3 DEF Requeueable, Files
    <3> DEFINE c == [call[a] EXCEPT !.pc = "housekeep_write",
                                    !.draft = file["in_progress"][t]]
    <3>2. WellFormed(c)
      BY <1>0, <2>1, <3>1 DEF WellFormed, Call, Pc, TaskPc, ClaimPc, DraftPc
    <3>3. call' = [call EXCEPT ![a] = c]
      BY <2>3
    <3>4. call' \in [Actor -> Call] /\ CallsFormed'
      BY <3>2, <3>3, CallsUpdate
    <3> QED
      BY <1>0, <1>3, <3>4, TypeOfParts DEF HousekeepRead, TypeOK
  <2> QED
    BY <1>3, <2>2, <2>3 DEF HousekeepRead
<1>4. CASE HousekeepWrite(a)
  <2>1. t \in Task /\ call[a].draft \in Content
    BY <1>0, <1>4 DEF HousekeepWrite, WellFormed, TaskPc, DraftPc
  <2>2. [call[a].draft EXCEPT !.status = "pending", !.claimedBy = NoMember,
                              !.claimFresh = FALSE] \in Content
    BY <1>0, <2>1 DEF Content
  <2>3. file' \in Files
    BY <1>0, <1>4, <2>1, <2>2, WrittenIs DEF HousekeepWrite
  <2>4. call' \in [Actor -> Call] /\ CallsFormed'
    BY <1>4, <2>1, GotoType DEF HousekeepWrite, Pc, DraftPc
  <2> QED
    BY <1>4, <2>3, <2>4, TypeOfParts DEF HousekeepWrite, TypeOK
<1>5. CASE HousekeepMove(a)
  <2>1. t \in Task
    BY <1>0, <1>5 DEF HousekeepMove, WellFormed, TaskPc
  <2>2. file' \in Files
    BY <1>0, <1>5, <2>1, RenamedIfThereIs DEF HousekeepMove
  <2>3. call' \in [Actor -> Call] /\ CallsFormed'
    BY <1>0, <1>5, NextFileType DEF HousekeepMove
  <2>4. requeued' \subseteq Task
    BY <1>5, <2>1 DEF HousekeepMove, TypeOK
  <2> QED
    BY <1>5, <2>2, <2>3, <2>4, TypeOfParts DEF HousekeepMove, TypeOK
<1> QED
  BY <1>1, <1>2, <1>3, <1>4, <1>5 DEF HousekeepStep

LEMMA AgedIs ==
    ASSUME TypeOK, NEW t \in Task, Age(t)
    PROVE  /\ file' \in Files
           /\ \A d \in Dir, u \in Task :
                 /\ file'[d][u] = Absent <=> file[d][u] = Absent
                 /\ file'[d][u] # Absent => file'[d][u].status = file[d][u].status
<1>1. \A c \in Content : /\ Aged(c) \in Content
                         /\ Aged(c).status = c.status
  BY DEF Aged, Content
<1>2. \A d \in Dir, u \in Task :
         /\ file'[d][u] = IF u = t /\ MayAge(d, t) THEN Aged(file[d][u]) ELSE file[d][u]
         /\ file[d][u] \in Content \cup {Absent}
  BY FilesOf DEF Age, Files
<1>3. \A d \in Dir : MayAge(d, t) => file[d][t] # Absent
  BY DEF MayAge
<1>4. \A d \in Dir, u \in Task : file'[d][u] \in Content \cup {Absent}
  BY <1>1, <1>2, <1>3
<1>5. file' \in Files
  BY <1>4, FilesOf DEF Age, Files
<1> QED
  BY <1>1, <1>2, <1>3, <1>5, AbsentAssumption

LEMMA OtherTypes ==
    ASSUME TypeOK, CallsFormed,
           \/ \E t \in Task : AddTask(t) \/ Age(t)
           \/ \E a \in Actor : Crash(a)
    PROVE  TypeOK' /\ CallsFormed'
<1>0. file \in Files /\ "pending" \in Dir
  BY FilesOf DEF Dir
<1>1. ASSUME NEW t \in Task, AddTask(t) PROVE TypeOK' /\ CallsFormed'
  <2>1. file' \in Files
    BY <1>0, <1>1, NewIs, WrittenIs DEF AddTask
  <2> QED
    BY <1>1, <2>1, TypeOfParts DEF AddTask, TypeOK, CallsFormed
<1>2. ASSUME NEW t \in Task, Age(t) PROVE TypeOK' /\ CallsFormed'
  BY <1>2, AgedIs, TypeOfParts DEF Age, TypeOK, CallsFormed
<1>3. ASSUME NEW a \in Actor, Crash(a) PROVE TypeOK' /\ CallsFormed'
  <2>1. call' \in [Actor -> Call] /\ CallsFormed'
    BY <1>3, ReturnType DEF Crash
  <2> QED
    BY <1>0, <1>3, <2>1, TypeOfParts DEF Crash, TypeOK
<1> QED
  BY <1>1, <1>2, <1>3

LEMMA TypeInit == Init => TypeOK /\ CallsFormed
<1> SUFFICES ASSUME Init PROVE TypeOK /\ CallsFormed
  OBVIOUS
<1>1. Idle \in Call
  BY IdleIs DEF WellFormed
<1> QED
  BY <1>1, IdleIs, BoundAssumption DEF Init, TypeOK, CallsFormed

LEMMA TypeStep == TypeOK /\ CallsFormed /\ [Next]_vars => TypeOK' /\ CallsFormed'
<1> SUFFICES ASSUME TypeOK, CallsFormed, [Next]_vars PROVE TypeOK' /\ CallsFormed'
  OBVIOUS
<1>1. Member \subseteq Actor /\ Resident \subseteq Actor /\ Housekeeper \subseteq Actor
  BY DEF Actor
<1>2. CASE UNCHANGED vars
  BY <1>2 DEF vars, TypeOK, CallsFormed
<1>3. CASE Next
  BY <1>1, <1>3, ClaimTypes, EndTypes, UnblockTypes, HousekeepTypes, OtherTypes
     DEF Next, Step, MemberStep
<1> QED
  BY <1>2, <1>3

\* The type invariant: files and calls hold what the code writes.
THEOREM StoreTypeCorrect == Spec => []TypeOK
<1>1. TypeOK /\ CallsFormed /\ [Next]_vars => (TypeOK /\ CallsFormed)'
  BY TypeStep
<1> QED
  BY <1>1, TypeInit, PTL DEF Spec

-----------------------------------------------------------------------------
(* No claim before the ends of the dependencies *)

\* A rename takes the content along, so it tells no new ends.
LEMMA RenameKeepsEnds ==
    ASSUME file \in Files, EndsWritten, NEW from \in Dir, NEW to \in Dir,
           from # to, NEW t \in Task, finished' = finished,
           file' = Renamed(from, to, t) \/ file' = RenamedIfThere(from, to, t)
    PROVE  EndsWritten'
<1>1. CASE file' = Renamed(from, to, t)
  BY <1>1, RenamedIs DEF EndsWritten
<1>2. CASE file' = file
  BY <1>2 DEF EndsWritten
<1> QED
  BY <1>1, <1>2, RenamedIfThereIs

\* A write tells an end only together with the history of ends.
LEMMA WriteKeepsEnds ==
    ASSUME file \in Files, EndsWritten, NEW d \in Dir, NEW t \in Task,
           NEW c \in Content, file' = Written(d, t, c),
           finished \subseteq finished', c.status \in Ends => t \in finished'
    PROVE  EndsWritten'
<1> SUFFICES ASSUME NEW e \in Dir, NEW u \in Task,
                    file'[e][u] # Absent, file'[e][u].status \in Ends
             PROVE  u \in finished'
  BY DEF EndsWritten
<1>1. CASE e = d /\ u = t
  <2>1. file'[e][u] = [c EXCEPT !.stale = FALSE]
    BY <1>1, WrittenIs
  <2>2. file'[e][u].status = c.status
    BY <2>1, FreshIs
  <2> QED
    BY <1>1, <2>2
<1>2. CASE ~(e = d /\ u = t)
  <2>1. file'[e][u] = file[e][u]
    BY <1>2 DEF Written, Files
  <2> QED
    BY <2>1 DEF EndsWritten
<1> QED
  BY <1>1, <1>2

LEMMA EndsStep ==
    ASSUME TypeOK, CallsFormed, EndsWritten, [Next]_vars
    PROVE  EndsWritten' /\ finished \subseteq finished'
<1>0. /\ file \in Files
      /\ "pending" \in Dir /\ "in_progress" \in Dir /\ "blocked" \in Dir
      /\ "completed" \in Dir /\ "superseded" \in Dir
      /\ \A a \in Actor : WellFormed(call[a])
      /\ Member \subseteq Actor /\ Resident \subseteq Actor /\ Housekeeper \subseteq Actor
  BY FilesOf DEF Dir, Actor, CallsFormed
<1>1. CASE file' = file /\ finished' = finished
  BY <1>1 DEF EndsWritten
<1>2. ASSUME NEW t \in Task, AddTask(t) PROVE EndsWritten' /\ finished' = finished
  BY <1>0, <1>2, NewIs, WriteKeepsEnds DEF AddTask, Ends
<1>3. ASSUME NEW t \in Task, Age(t) PROVE EndsWritten' /\ finished' = finished
  BY <1>3, AgedIs DEF EndsWritten, Age
<1>4. ASSUME NEW a \in Actor, NEW t \in Task, ClaimTask(a, t) \/ CompleteTask(a, t)
      PROVE  EndsWritten' /\ finished' = finished
  BY <1>0, <1>4, RenameKeepsEnds DEF ClaimTask, CompleteTask
<1>5. ASSUME NEW a \in Actor, ClaimPark(a) \/ ClaimRollback(a) \/ CompleteRollback(a)
                               \/ HousekeepMove(a)
      PROVE  EndsWritten' /\ finished' = finished
  <2>1. call[a].task \in Task
    BY <1>0, <1>5 DEF ClaimPark, ClaimRollback, CompleteRollback, HousekeepMove,
                      WellFormed, TaskPc, ClaimPc
  <2> QED
    BY <1>0, <1>5, <2>1, RenameKeepsEnds
       DEF ClaimPark, ClaimRollback, CompleteRollback, HousekeepMove
<1>6. ASSUME NEW a \in Actor, SupersedeTry(a) \/ SupersedeRollback(a)
      PROVE  EndsWritten' /\ finished' = finished
  <2>1. call[a].task \in Task /\ call[a].from \in {"pending", "in_progress", "blocked"}
    BY <1>0, <1>6 DEF SupersedeTry, SupersedeRollback, WellFormed, TaskPc
  <2>2. call[a].from \in Dir /\ call[a].from # "superseded"
    BY <1>0, <2>1
  <2>3. CASE file' = file
    BY <1>1, <1>6, <2>3 DEF SupersedeTry, SupersedeRollback
  <2>4. CASE file' # file
    BY <1>0, <1>6, <2>1, <2>2, <2>4, RenameKeepsEnds DEF SupersedeTry, SupersedeRollback
  <2> QED
    BY <2>3, <2>4
<1>7. ASSUME NEW a \in Actor, UnblockMove(a)
      PROVE  EndsWritten' /\ finished' = finished
  <2>1. call[a].task \in Task
    BY <1>0, <1>7 DEF UnblockMove, WellFormed, TaskPc
  <2>2. CASE file' = file
    BY <1>1, <1>7, <2>2 DEF UnblockMove
  <2>3. CASE file' = Renamed("blocked", "pending", call[a].task)
    BY <1>0, <1>7, <2>1, <2>3, RenameKeepsEnds DEF UnblockMove
  <2> QED
    BY <1>7, <2>2, <2>3 DEF UnblockMove
<1>8. ASSUME NEW a \in Actor, UnblockWrite(a)
      PROVE  EndsWritten' /\ finished' = finished
  <2>1. PICK u \in call[a].todo : file' = Written("blocked", u, New)
    BY <1>8 DEF UnblockWrite
  <2>2. u \in Task
    BY <1>0 DEF WellFormed, Call
  <2> QED
    BY <1>0, <1>8, <2>1, <2>2, NewIs, WriteKeepsEnds DEF UnblockWrite, Ends
<1>9. ASSUME NEW a \in Actor, ClaimBlock(a) \/ ClaimWrite(a) \/ HousekeepWrite(a),
             a \in Member \/ HousekeepWrite(a)
      PROVE  EndsWritten' /\ finished' = finished
  <2>1. call[a].task \in Task /\ call[a].draft \in Content
    BY <1>0, <1>9 DEF ClaimBlock, ClaimWrite, HousekeepWrite, WellFormed,
                      TaskPc, ClaimPc, DraftPc
  <2>2. PICK c \in Content : /\ file' = Written("in_progress", call[a].task, c)
                             /\ c.status \in {"blocked", "in_progress", "pending"}
    <3>1. CASE ClaimBlock(a)
      <4>1. [call[a].draft EXCEPT !.status = "blocked"] \in Content
        BY <1>0, <2>1 DEF Content
      <4> QED
        BY <3>1, <4>1, <2>1 DEF ClaimBlock, Content
    <3>2. CASE ClaimWrite(a) /\ a \in Member
      <4>1. ClaimedBy(call[a].draft, a) \in Content
            /\ ClaimedBy(call[a].draft, a).status = "in_progress"
        BY <1>0, <2>1, <3>2 DEF Content, ClaimedBy
      <4> QED
        BY <3>2, <4>1 DEF ClaimWrite
    <3>3. CASE HousekeepWrite(a)
      <4>1. [call[a].draft EXCEPT !.status = "pending", !.claimedBy = NoMember,
                                  !.claimFresh = FALSE] \in Content
        BY <1>0, <2>1 DEF Content
      <4> QED
        BY <3>3, <4>1, <2>1 DEF HousekeepWrite, Content
    <3> QED
      BY <1>9, <3>1, <3>2, <3>3 DEF ClaimBlock, ClaimWrite, HousekeepWrite
  <2>3. finished' = finished
    BY <1>9 DEF ClaimBlock, ClaimWrite, HousekeepWrite
  <2> QED
    BY <1>0, <2>1, <2>2, <2>3, WriteKeepsEnds DEF Ends
<1>10. ASSUME NEW a \in Actor, CompleteWrite(a) \/ SupersedeWrite(a)
       PROVE  EndsWritten' /\ finished \subseteq finished'
  <2>1. /\ call[a].task \in Task /\ call[a].draft \in Content
        /\ call[a].replacement \in Task \cup {NoTask}
    BY <1>0, <1>10 DEF CompleteWrite, SupersedeWrite, WellFormed, TaskPc, DraftPc, Call
  <2>2. \E d \in Dir, c \in Content : file' = Written(d, call[a].task, c)
    <3>1. /\ [call[a].draft EXCEPT !.status = "completed"] \in Content
          /\ [call[a].draft EXCEPT !.status = "superseded",
                                   !.replacement = call[a].replacement] \in Content
      BY <1>0, <2>1 DEF Content
    <3> QED
      BY <1>0, <1>10, <3>1 DEF CompleteWrite, SupersedeWrite
  <2>3. finished' = finished \cup {call[a].task}
    BY <1>10 DEF CompleteWrite, SupersedeWrite
  <2> QED
    BY <1>0, <2>1, <2>2, <2>3, WriteKeepsEnds
<1>11. CASE UNCHANGED vars
  BY <1>1, <1>11 DEF vars
<1>12. ASSUME NEW a \in Actor, Step(a) \/ Crash(a)
       PROVE  EndsWritten' /\ finished \subseteq finished'
  <2>1. CASE /\ a \in Member
             /\ ClaimRead(a) \/ ClaimDeps(a) \/ CompleteRead(a) \/ SupersedeRead(a)
    BY <1>1, <2>1 DEF ClaimRead, ClaimDeps, CompleteRead, SupersedeRead
  <2>2. CASE /\ a \in Member
             /\ ClaimBlock(a) \/ ClaimPark(a) \/ ClaimRollback(a) \/ ClaimWrite(a)
                \/ CompleteRollback(a) \/ CompleteWrite(a)
                \/ SupersedeTry(a) \/ SupersedeRollback(a) \/ SupersedeWrite(a)
    BY <2>2, <1>5, <1>6, <1>9, <1>10
  <2>3. CASE UnblockStep(a)
    BY <2>3, <1>1, <1>7, <1>8 DEF UnblockStep, UnblockList, UnblockStates
  <2>4. CASE HousekeepStep(a)
    BY <2>4, <1>1, <1>5, <1>9 DEF HousekeepStep, HousekeepStat, HousekeepRead
  <2>5. CASE Crash(a)
    BY <1>1, <2>5 DEF Crash
  <2> QED
    BY <1>12, <2>1, <2>2, <2>3, <2>4, <2>5 DEF Step, MemberStep
<1>13. CASE Next
  BY <1>0, <1>1, <1>2, <1>3, <1>4, <1>12, <1>13 DEF Next, Poll, Housekeep, SupersedeTask
<1> QED
  BY <1>11, <1>13

\* The only step to claim_write of a task with dependencies checks them.
LEMMA CheckedStep ==
    ASSUME TypeOK, CallsFormed, EndsWritten, ClaimChecked, NoPrematureClaim, [Next]_vars
    PROVE  ClaimChecked' /\ NoPrematureClaim'
<1>0. /\ file \in Files
      /\ finished \subseteq finished'
      /\ \A a \in Actor : WellFormed(call[a])
      /\ Member \subseteq Actor
      /\ call \in [Actor -> Call]
      /\ call' \in [Actor -> Call]
      /\ holders \in [Task -> SUBSET Member]
  BY FilesOf, EndsStep, TypeStep DEF Actor, CallsFormed, TypeOK
<1> USE <1>0
<1>1. ASSUME NEW b \in Actor,
             \A a \in Actor : a # b => call'[a] = call[a],
             call'[b].pc = "claim_write" => Deps[call'[b].task] \subseteq finished
      PROVE  ClaimChecked'
  BY <1>1 DEF ClaimChecked
<1>2. ASSUME holders' = holders PROVE NoPrematureClaim'
  BY <1>2 DEF NoPrematureClaim
<1>3. ASSUME call' = call PROVE ClaimChecked'
  BY <1>3 DEF ClaimChecked
<1>4. ASSUME NEW b \in Actor, NEW c, call' = [call EXCEPT ![b] = c],
             c.pc # "claim_write"
      PROVE  ClaimChecked'
  BY <1>1, <1>4
<1>5. ASSUME NEW b \in Actor, Return(b) PROVE ClaimChecked'
  BY <1>4, <1>5, IdleIs DEF Return
<1>6. ASSUME NEW b \in Actor, NEW pc, pc # "claim_write",
             \/ Goto(b, pc)
             \/ \E x : call' = [call EXCEPT ![b].draft = x, ![b].pc = pc]
             \/ \E x : call' = [call EXCEPT ![b].pc = pc, ![b].draft = x]
             \/ \E x : call' = [call EXCEPT ![b].pc = pc, ![b].task = x]
             \/ \E x : call' = [call EXCEPT ![b].pc = pc, ![b].todo = x]
      PROVE  ClaimChecked'
  <2>1. /\ \A a \in Actor : a # b => call'[a] = call[a]
        /\ call'[b].pc = pc
    <3>0. call[b] \in Call
      BY DEF WellFormed
    <3>1. CASE Goto(b, pc)
      BY <3>0, <3>1 DEF Goto, Call
    <3>2. ASSUME NEW x, call' = [call EXCEPT ![b].draft = x, ![b].pc = pc]
          PROVE  (\A a \in Actor : a # b => call'[a] = call[a]) /\ call'[b].pc = pc
      BY <3>0, <3>2 DEF Call
    <3>3. ASSUME NEW x, call' = [call EXCEPT ![b].pc = pc, ![b].draft = x]
          PROVE  (\A a \in Actor : a # b => call'[a] = call[a]) /\ call'[b].pc = pc
      BY <3>0, <3>3 DEF Call
    <3>4. ASSUME NEW x, call' = [call EXCEPT ![b].pc = pc, ![b].task = x]
          PROVE  (\A a \in Actor : a # b => call'[a] = call[a]) /\ call'[b].pc = pc
      BY <3>0, <3>4 DEF Call
    <3>5. ASSUME NEW x, call' = [call EXCEPT ![b].pc = pc, ![b].todo = x]
          PROVE  (\A a \in Actor : a # b => call'[a] = call[a]) /\ call'[b].pc = pc
      BY <3>0, <3>5 DEF Call
    <3> QED
      BY <1>6, <3>1, <3>2, <3>3, <3>4, <3>5
  <2> QED
    BY <1>1, <1>6, <2>1
<1>7. ASSUME NEW b \in Actor, NEW todo, NEW states, Continue(b, todo, states)
      PROVE  ClaimChecked'
  <2>1. [Start("unblock_write", NoTask) EXCEPT !.todo = {t \in todo : Satisfied(states, t)},
                                               !.states = states].pc = "unblock_write"
    BY DEF Start, Idle
  <2> QED
    BY <1>4, <1>7, <2>1, IdleIs DEF Continue
<1>8. ASSUME NEW b \in Actor, NEW todo, NextFile(b, todo) PROVE ClaimChecked'
  <2>1. [Start("housekeep_stat", NoTask) EXCEPT !.todo = todo].pc = "housekeep_stat"
    BY DEF Start, Idle
  <2> QED
    BY <1>4, <1>8, <2>1, IdleIs DEF NextFile
<1>9. ASSUME NEW b \in Actor, NEW pc \in Pc, NEW t \in Task \cup {NoTask},
             pc # "claim_write", call' = [call EXCEPT ![b] = Start(pc, t)]
      PROVE  ClaimChecked'
  <2>1. Start(pc, t).pc = pc
    BY <1>9, StartIs
  <2> HIDE DEF Start
  <2> QED
    BY <1>4, <1>9, <2>1
<1>10. ASSUME NEW m \in Member, NEW t \in Task, ClaimTask(m, t) \/ CompleteTask(m, t)
       PROVE  ClaimChecked' /\ NoPrematureClaim'
  BY <1>2, <1>9, <1>10 DEF ClaimTask, CompleteTask, Pc
<1>11. ASSUME NEW m \in Member, ClaimRead(m) PROVE ClaimChecked' /\ NoPrematureClaim'
  <2> DEFINE t == call[m].task
  <2>1. CASE Return(m)
    BY <1>2, <1>5, <1>11, <2>1 DEF ClaimRead
  <2>2. CASE Deps[t] = {}
    <3>1. CASE ~Return(m)
      <4>1. PICK pc, x : call' = [call EXCEPT ![m].draft = x, ![m].pc = pc]
        BY <1>11, <3>1 DEF ClaimRead
      <4>2. /\ \A a \in Actor : a # m => call'[a] = call[a]
            /\ call'[m].task = t
        BY <4>1 DEF WellFormed, Call
      <4> QED
        BY <1>1, <1>2, <1>11, <2>2, <4>2 DEF ClaimRead
    <3> QED
      BY <2>1, <3>1
  <2>3. CASE Deps[t] # {} /\ ~Return(m)
    <3>1. PICK pc \in {"claim_rollback", "claim_deps"} :
             call' = [call EXCEPT ![m].draft = file["in_progress"][t], ![m].pc = pc]
      BY <1>11, <2>3 DEF ClaimRead
    <3> QED
      BY <1>2, <1>6, <1>11, <3>1 DEF ClaimRead
  <2> QED
    BY <2>1, <2>2, <2>3
<1>12. ASSUME NEW m \in Member, ClaimDeps(m) PROVE ClaimChecked' /\ NoPrematureClaim'
  <2> DEFINE t == call[m].task
  <2>1. t \in Task
    BY <1>12 DEF ClaimDeps, WellFormed, TaskPc, ClaimPc
  <2>2. CASE Satisfied(DependencyStates, t)
    <3>1. PICK pc : Goto(m, pc)
      BY <1>12 DEF ClaimDeps
    <3>2. /\ \A a \in Actor : a # m => call'[a] = call[a]
          /\ call'[m].task = t
      BY <3>1 DEF Goto, WellFormed, Call
    <3>3. Deps[t] \subseteq finished
      BY <2>1, <2>2, SatisfiedHasEnded
    <3> QED
      BY <1>1, <1>2, <1>12, <3>2, <3>3 DEF ClaimDeps
  <2>3. CASE ~Satisfied(DependencyStates, t)
    BY <1>2, <1>6, <1>12, <2>3 DEF ClaimDeps
  <2> QED
    BY <2>2, <2>3
<1>13. ASSUME NEW m \in Member, ClaimWrite(m) PROVE ClaimChecked' /\ NoPrematureClaim'
  <2>1. call[m].task \in Task /\ Deps[call[m].task] \subseteq finished
    BY <1>13 DEF ClaimWrite, ClaimChecked, WellFormed, TaskPc, ClaimPc
  <2>2. NoPrematureClaim'
    BY <1>13, <2>1 DEF ClaimWrite, NoPrematureClaim
  <2> QED
    BY <1>5, <1>13, <2>2 DEF ClaimWrite
<1>14. ASSUME NEW m \in Member, ClaimBlock(m) \/ ClaimPark(m) \/ ClaimRollback(m)
       PROVE  ClaimChecked' /\ NoPrematureClaim'
  BY <1>2, <1>5, <1>6, <1>14 DEF ClaimBlock, ClaimPark, ClaimRollback
<1>15. ASSUME NEW m \in Member, CompleteRead(m) PROVE ClaimChecked' /\ NoPrematureClaim'
  <2>1. \/ Return(m)
        \/ \E pc \in {"complete_rollback", "complete_write"} : \E x :
               call' = [call EXCEPT ![m].draft = x, ![m].pc = pc]
    BY <1>15 DEF CompleteRead, SizeCheck
  <2> QED
    BY <1>2, <1>5, <1>6, <1>15, <2>1 DEF CompleteRead
<1>16. ASSUME NEW m \in Member, CompleteRollback(m) \/ SupersedeRollback(m)
       PROVE  ClaimChecked' /\ NoPrematureClaim'
  BY <1>2, <1>5, <1>16 DEF CompleteRollback, SupersedeRollback
<1>17. ASSUME NEW m \in Member, CompleteWrite(m) \/ SupersedeWrite(m)
       PROVE  ClaimChecked' /\ NoPrematureClaim'
  <2>1. ClaimChecked'
    BY <1>9, <1>17 DEF CompleteWrite, SupersedeWrite, Pc
  <2>2. \A t \in Task : holders'[t] \subseteq holders[t]
    BY <1>17 DEF CompleteWrite, SupersedeWrite
  <2> QED
    BY <2>1, <2>2 DEF NoPrematureClaim
<1>18. ASSUME NEW m \in Member, NEW t \in Task, NEW r \in Task \cup {NoTask},
              SupersedeTask(m, t, r)
       PROVE  ClaimChecked' /\ NoPrematureClaim'
  <2>1. [Start("supersede_try", t) EXCEPT !.replacement = r].pc = "supersede_try"
    BY DEF Start, Idle
  <2> QED
    BY <1>2, <1>4, <1>18, <2>1 DEF SupersedeTask
<1>19. ASSUME NEW m \in Member, SupersedeTry(m)
       PROVE  ClaimChecked' /\ NoPrematureClaim'
  <2>1. CASE \E d : call' = [call EXCEPT ![m].from = d]
    <3>1. /\ \A a \in Actor : a # m => call'[a] = call[a]
          /\ call'[m].pc = "supersede_try"
      BY <1>19, <2>1 DEF SupersedeTry, WellFormed, Call
    <3> QED
      BY <1>1, <1>2, <1>19, <3>1 DEF SupersedeTry
  <2>2. CASE Return(m) \/ Goto(m, "supersede_read")
    BY <1>2, <1>5, <1>6, <1>19, <2>2 DEF SupersedeTry
  <2> QED
    BY <1>19, <2>1, <2>2 DEF SupersedeTry
<1>20. ASSUME NEW m \in Member, SupersedeRead(m)
       PROVE  ClaimChecked' /\ NoPrematureClaim'
  <2>1. \/ Return(m)
        \/ \E pc \in {"supersede_rollback", "supersede_write"} : \E x :
               call' = [call EXCEPT ![m].draft = x, ![m].pc = pc]
    BY <1>20 DEF SupersedeRead, SizeCheck
  <2> QED
    BY <1>2, <1>5, <1>6, <1>20, <2>1 DEF SupersedeRead
<1>21. ASSUME NEW a \in Actor, Poll(a) \/ UnblockStep(a)
       PROVE  ClaimChecked' /\ NoPrematureClaim'
  <2>1. holders' = holders
    BY <1>21 DEF Poll, UnblockStep, UnblockList, UnblockStates, UnblockWrite, UnblockMove
  <2>2. CASE Poll(a)
    BY <1>2, <1>9, <2>1, <2>2 DEF Poll, Pc
  <2>3. CASE UnblockList(a) \/ UnblockWrite(a)
    BY <1>2, <1>5, <1>6, <2>1, <2>3 DEF UnblockList, UnblockWrite
  <2>4. CASE UnblockStates(a) \/ UnblockMove(a)
    BY <1>2, <1>7, <2>1, <2>4 DEF UnblockStates, UnblockMove
  <2> QED
    BY <1>2, <1>21, <2>1, <2>2, <2>3, <2>4 DEF UnblockStep
<1>22. ASSUME NEW a \in Actor, Housekeep(a) \/ HousekeepStep(a)
       PROVE  ClaimChecked' /\ NoPrematureClaim'
  <2>1. holders' = holders
    BY <1>22 DEF Housekeep, HousekeepStep, HousekeepStat, HousekeepRead, HousekeepWrite,
                 HousekeepMove
  <2>2. CASE Housekeep(a)
    <3>1. NextFile(a, {t \in Task : file["in_progress"][t] # Absent})
      BY <2>2 DEF Housekeep, NextFile
    <3> QED
      BY <1>2, <1>8, <2>1, <3>1
  <2>3. CASE HousekeepStat(a) \/ HousekeepRead(a)
    BY <1>2, <1>6, <1>8, <2>1, <2>3 DEF HousekeepStat, HousekeepRead
  <2>4. CASE HousekeepWrite(a) \/ HousekeepMove(a)
    BY <1>2, <1>6, <1>8, <2>1, <2>4 DEF HousekeepWrite, HousekeepMove
  <2> QED
    BY <1>22, <2>2, <2>3, <2>4 DEF HousekeepStep
<1>23. ASSUME NEW t \in Task, AddTask(t) \/ Age(t)
       PROVE  ClaimChecked' /\ NoPrematureClaim'
  BY <1>2, <1>3, <1>23 DEF AddTask, Age
<1>24. ASSUME NEW a \in Actor, Crash(a) PROVE ClaimChecked' /\ NoPrematureClaim'
  BY <1>2, <1>5, <1>24 DEF Crash
<1>25. CASE UNCHANGED vars
  BY <1>2, <1>3, <1>25 DEF vars
<1>26. ASSUME NEW a \in Actor, Step(a) PROVE ClaimChecked' /\ NoPrematureClaim'
  BY <1>11, <1>12, <1>13, <1>14, <1>15, <1>16, <1>17, <1>19, <1>20, <1>21, <1>22, <1>26
     DEF Step, MemberStep
<1>27. CASE Next
  BY <1>10, <1>18, <1>21, <1>22, <1>23, <1>24, <1>26, <1>27 DEF Next, Actor
<1> QED
  BY <1>25, <1>27

ClaimsInv == TypeOK /\ CallsFormed /\ EndsWritten /\ ClaimChecked /\ NoPrematureClaim

\* No claim is answered ok before the ends of the dependencies are written.
THEOREM ClaimsNeverPremature == Spec => []NoPrematureClaim
<1>1. Init => ClaimsInv
  <2> SUFFICES ASSUME Init PROVE ClaimsInv
    OBVIOUS
  <2>1. EndsWritten /\ NoPrematureClaim
    BY DEF Init, EndsWritten, NoPrematureClaim
  <2>2. ClaimChecked
    BY IdleIs DEF Init, ClaimChecked
  <2> QED
    BY <2>1, <2>2, TypeInit DEF ClaimsInv
<1>2. ClaimsInv /\ [Next]_vars => ClaimsInv'
  BY TypeStep, EndsStep, CheckedStep DEF ClaimsInv
<1>3. ClaimsInv => NoPrematureClaim
  BY DEF ClaimsInv
<1> QED
  BY <1>1, <1>2, <1>3, PTL DEF Spec

-----------------------------------------------------------------------------
(* One holder *)

\* A step leaves the task some file, and does not bring it back to pending/.
Stays(t) == (\E d \in Dir : file[d][t] # Absent) => (\E d \in Dir : file'[d][t] # Absent)
NotBack(t) == file'["pending"][t] # Absent => file["pending"][t] # Absent

LEMMA SameFiles ==
    ASSUME file' = file, NEW t \in Task
    PROVE  Stays(t) /\ NotBack(t)
BY DEF Stays, NotBack

LEMMA RenameEffect ==
    ASSUME file \in Files, NEW from \in Dir, NEW to \in Dir, from # to,
           NEW u \in Task, NEW t \in Task,
           \/ file' = Renamed(from, to, u) /\ file[from][u] # Absent
           \/ file' = RenamedIfThere(from, to, u)
    PROVE  /\ Stays(t)
           /\ to # "pending" \/ u # t => NotBack(t)
<1>0. "pending" \in Dir
  BY DEF Dir
<1>1. CASE file' = Renamed(from, to, u) /\ file[from][u] # Absent
  BY <1>0, <1>1, RenamedIs DEF Stays, NotBack
<1>2. CASE file' = file
  BY <1>2, SameFiles
<1> QED
  BY <1>1, <1>2, RenamedIfThereIs

LEMMA WriteEffect ==
    ASSUME file \in Files, NEW d \in Dir, NEW u \in Task, NEW c \in Content,
           file' = Written(d, u, c), NEW t \in Task
    PROVE  /\ Stays(t)
           /\ file'[d][u] # Absent
           /\ d # "pending" \/ u # t => NotBack(t)
<1>1. [c EXCEPT !.stale = FALSE] # Absent
  BY FreshIs, AbsentAssumption
<1>2. \A e \in Dir, v \in Task :
         file'[e][v] = IF e = d /\ v = u THEN [c EXCEPT !.stale = FALSE] ELSE file[e][v]
  BY DEF Written, Files
<1>3. "pending" \in Dir
  BY DEF Dir
<1> QED
  BY <1>1, <1>2, <1>3 DEF Stays, NotBack

\* Only an addition and the rollback of a claim bring a task to pending/ that
\* is neither put back nor too large.
LEMMA FileStep ==
    ASSUME TypeOK, CallsFormed, [Next]_vars, NEW t \in Task
    PROVE  /\ Stays(t)
           /\ \/ NotBack(t)
              \/ t \in requeued' \cup Oversized
              \/ AddTask(t)
              \/ \E m \in Member : ClaimRollback(m) /\ call[m].task = t
<1> DEFINE Fine == /\ Stays(t)
                   /\ \/ NotBack(t)
                      \/ t \in requeued' \cup Oversized
                      \/ AddTask(t)
                      \/ \E m \in Member : ClaimRollback(m) /\ call[m].task = t
<1>0. /\ file \in Files
      /\ "pending" \in Dir /\ "in_progress" \in Dir /\ "blocked" \in Dir
      /\ "completed" \in Dir /\ "superseded" \in Dir
      /\ \A a \in Actor : WellFormed(call[a])
      /\ Member \subseteq Actor /\ Resident \subseteq Actor /\ Housekeeper \subseteq Actor
  BY FilesOf DEF Dir, Actor, CallsFormed
<1> USE <1>0
<1>1. ASSUME file' = file PROVE Fine
  BY <1>1, SameFiles
<1>2. ASSUME NEW u \in Task, AddTask(u) PROVE Fine
  BY <1>2, NewIs, WriteEffect DEF AddTask
<1>3. ASSUME NEW u \in Task, Age(u) PROVE Fine
  BY <1>3, AgedIs DEF Stays, NotBack
<1>4. ASSUME NEW a \in Actor, NEW u \in Task, ClaimTask(a, u) \/ CompleteTask(a, u)
      PROVE  Fine
  BY <1>4, RenameEffect DEF ClaimTask, CompleteTask
<1>5. ASSUME NEW a \in Actor, ClaimPark(a) \/ CompleteRollback(a) PROVE Fine
  <2>1. call[a].task \in Task
    BY <1>5 DEF ClaimPark, CompleteRollback, WellFormed, TaskPc, ClaimPc
  <2> QED
    BY <1>5, <2>1, RenameEffect DEF ClaimPark, CompleteRollback
<1>6. ASSUME NEW a \in Member, ClaimRollback(a) PROVE Fine
  <2>1. call[a].task \in Task
    BY <1>6 DEF ClaimRollback, WellFormed, TaskPc, ClaimPc
  <2> QED
    BY <1>6, <2>1, RenameEffect DEF ClaimRollback
<1>7. ASSUME NEW a \in Actor, HousekeepMove(a) PROVE Fine
  <2>1. call[a].task \in Task
    BY <1>7 DEF HousekeepMove, WellFormed, TaskPc, ClaimPc
  <2>2. CASE file["in_progress"][call[a].task] = Absent
    BY <1>1, <1>7, <2>1, <2>2, RenamedIfThereIs DEF HousekeepMove
  <2>3. CASE file["in_progress"][call[a].task] # Absent
    BY <1>7, <2>1, <2>3, RenameEffect DEF HousekeepMove
  <2> QED
    BY <2>2, <2>3
<1>8. ASSUME NEW a \in Actor, SupersedeTry(a) PROVE Fine
  <2>1. call[a].task \in Task /\ call[a].from \in {"pending", "in_progress", "blocked"}
    BY <1>8 DEF SupersedeTry, WellFormed, TaskPc
  <2>2. call[a].from \in Dir /\ call[a].from # "superseded"
    BY <2>1
  <2>3. CASE file' = file
    BY <1>1, <2>3
  <2>4. CASE file' # file
    BY <1>8, <2>1, <2>2, <2>4, RenameEffect DEF SupersedeTry
  <2> QED
    BY <2>3, <2>4
<1>9. ASSUME NEW a \in Actor, SupersedeRollback(a) PROVE Fine
  <2>1. /\ call[a].task \in Task /\ call[a].from \in {"pending", "in_progress", "blocked"}
        /\ call[a].task \in Oversized
    BY <1>9 DEF SupersedeRollback, WellFormed, TaskPc
  <2>2. call[a].from \in Dir /\ call[a].from # "superseded"
    BY <2>1
  <2> QED
    BY <1>9, <2>1, <2>2, RenameEffect DEF SupersedeRollback
<1>10. ASSUME NEW a \in Actor, UnblockMove(a) PROVE Fine
  <2>1. call[a].task \in Task
    BY <1>10 DEF UnblockMove, WellFormed, TaskPc
  <2>2. CASE file["blocked"][call[a].task] = Absent
    BY <1>1, <1>10, <2>2 DEF UnblockMove
  <2>3. CASE file["blocked"][call[a].task] # Absent
    BY <1>10, <2>1, <2>3, RenameEffect DEF UnblockMove
  <2> QED
    BY <2>2, <2>3
<1>11. ASSUME NEW a \in Actor, UnblockWrite(a) PROVE Fine
  <2>1. PICK u \in call[a].todo : file' = Written("blocked", u, New)
    BY <1>11 DEF UnblockWrite
  <2>2. u \in Task
    BY DEF WellFormed, Call
  <2> QED
    BY <2>1, <2>2, NewIs, WriteEffect
<1>12. ASSUME NEW a \in Actor,
              \/ a \in Member /\ (ClaimBlock(a) \/ ClaimWrite(a) \/ CompleteWrite(a)
                                  \/ SupersedeWrite(a))
              \/ HousekeepWrite(a)
       PROVE  Fine
  <2>1. call[a].task \in Task /\ call[a].draft \in Content
    BY <1>12 DEF ClaimBlock, ClaimWrite, CompleteWrite, SupersedeWrite, HousekeepWrite,
                 WellFormed, TaskPc, ClaimPc, DraftPc
  <2>2. call[a].replacement \in Task \cup {NoTask}
    BY DEF WellFormed, Call
  <2>3. /\ [call[a].draft EXCEPT !.status = "blocked"] \in Content
        /\ [call[a].draft EXCEPT !.status = "completed"] \in Content
        /\ [call[a].draft EXCEPT !.status = "superseded",
                                 !.replacement = call[a].replacement] \in Content
        /\ [call[a].draft EXCEPT !.status = "pending", !.claimedBy = NoMember,
                                 !.claimFresh = FALSE] \in Content
        /\ a \in Member => ClaimedBy(call[a].draft, a) \in Content
    BY <2>1, <2>2 DEF Content, ClaimedBy
  <2>4. \E d \in Dir \ {"pending"}, c \in Content : file' = Written(d, call[a].task, c)
    BY <1>12, <2>3
       DEF ClaimBlock, ClaimWrite, CompleteWrite, SupersedeWrite, HousekeepWrite
  <2> QED
    BY <2>1, <2>4, WriteEffect
<1>13. CASE UNCHANGED vars
  BY <1>1, <1>13 DEF vars
<1>14. ASSUME NEW a \in Member, MemberStep(a) PROVE Fine
  BY <1>1, <1>5, <1>6, <1>8, <1>9, <1>12, <1>14
     DEF MemberStep, ClaimRead, ClaimDeps, CompleteRead, SupersedeRead
<1>15. ASSUME NEW a \in Actor, UnblockStep(a) \/ HousekeepStep(a) PROVE Fine
  BY <1>1, <1>7, <1>10, <1>11, <1>12, <1>15
     DEF UnblockStep, UnblockList, UnblockStates, HousekeepStep, HousekeepStat, HousekeepRead
<1>16. CASE Next
  BY <1>1, <1>2, <1>3, <1>4, <1>14, <1>15, <1>16
     DEF Next, Step, Poll, Housekeep, SupersedeTask, Crash
<1> QED
  BY <1>13, <1>16

NoNewClaim == \A a \in Actor, t \in Task : Claiming(a, t)' => Claiming(a, t)

\* A call that does not claim afterwards, or goes on claiming the same task.
LEMMA OneCallChanges ==
    ASSUME NEW b \in Actor,
           \A a \in Actor : a # b => call'[a] = call[a],
           \/ call'[b].pc \notin ClaimPc
           \/ call'[b].task = call[b].task /\ call[b].pc \in ClaimPc
    PROVE  NoNewClaim
BY DEF NoNewClaim, Claiming

LEMMA ReturnClaims ==
    ASSUME TypeOK, NEW b \in Actor, Return(b)
    PROVE  /\ NoNewClaim
           /\ \A t \in Task : ~Claiming(b, t)'
<1>1. /\ \A a \in Actor : a # b => call'[a] = call[a]
      /\ call'[b] = Idle
  BY DEF Return, TypeOK
<1>2. Idle.pc \notin ClaimPc
  BY IdleIs DEF ClaimPc
<1> QED
  BY <1>1, <1>2, OneCallChanges DEF Claiming

\* Who claims a task was claiming it already, or has just renamed its file.
LEMMA ClaimingStep ==
    ASSUME TypeOK, CallsFormed, [Next]_vars
    PROVE  NoNewClaim \/ \E m \in Member, t \in Task : ClaimTask(m, t)
<1>0. /\ call \in [Actor -> Call]
      /\ Member \subseteq Actor /\ Resident \subseteq Actor /\ Housekeeper \subseteq Actor
      /\ \A a \in Actor : call[a] \in Call
  BY DEF Actor, TypeOK
<1> USE <1>0
<1>1. ASSUME NEW b \in Actor, NEW c, call' = [call EXCEPT ![b] = c], c.pc \notin ClaimPc
      PROVE  NoNewClaim
  BY <1>1, OneCallChanges
<1>2. ASSUME NEW b \in Actor, Return(b) PROVE NoNewClaim
  BY <1>2, ReturnClaims
<1>3. ASSUME NEW b \in Actor, NEW pc, Goto(b, pc), pc \notin ClaimPc \/ call[b].pc \in ClaimPc
      PROVE  NoNewClaim
  <2>1. /\ \A a \in Actor : a # b => call'[a] = call[a]
        /\ call'[b].pc = pc
        /\ call'[b].task = call[b].task
    BY <1>3 DEF Goto, Call
  <2> QED
    BY <1>3, <2>1, OneCallChanges
<1>4. ASSUME NEW b \in Actor, NEW pc, NEW x,
             call' = [call EXCEPT ![b].draft = x, ![b].pc = pc],
             pc \notin ClaimPc \/ call[b].pc \in ClaimPc
      PROVE  NoNewClaim
  <2>1. /\ \A a \in Actor : a # b => call'[a] = call[a]
        /\ call'[b].pc = pc
        /\ call'[b].task = call[b].task
    BY <1>4 DEF Call
  <2> QED
    BY <1>4, <2>1, OneCallChanges
<1>5. ASSUME NEW b \in Actor, NEW todo, NEW states, Continue(b, todo, states)
      PROVE  NoNewClaim
  <2>1. [Start("unblock_write", NoTask) EXCEPT !.todo = {t \in todo : Satisfied(states, t)},
                                               !.states = states].pc = "unblock_write"
    BY DEF Start, Idle
  <2> QED
    BY <1>1, <1>5, <2>1, IdleIs DEF Continue, ClaimPc
<1>6. ASSUME NEW b \in Actor, NEW todo, NextFile(b, todo) PROVE NoNewClaim
  <2>1. [Start("housekeep_stat", NoTask) EXCEPT !.todo = todo].pc = "housekeep_stat"
    BY DEF Start, Idle
  <2> QED
    BY <1>1, <1>6, <2>1, IdleIs DEF NextFile, ClaimPc
<1>7. ASSUME NEW b \in Actor, NEW pc \in Pc \ ClaimPc, NEW t \in Task \cup {NoTask},
             call' = [call EXCEPT ![b] = Start(pc, t)]
      PROVE  NoNewClaim
  <2>1. Start(pc, t).pc = pc
    BY StartIs
  <2> HIDE DEF Start
  <2> QED
    BY <1>1, <1>7, <2>1
<1>8. ASSUME call' = call PROVE NoNewClaim
  BY <1>8 DEF NoNewClaim, Claiming
<1>9. ASSUME NEW m \in Member, MemberStep(m) PROVE NoNewClaim
  <2>1. CASE ClaimRead(m)
    <3>1. CASE Return(m)
      BY <1>2, <3>1
    <3>2. CASE ~Return(m)
      <4>1. PICK pc, x : call' = [call EXCEPT ![m].draft = x, ![m].pc = pc]
        BY <2>1, <3>2 DEF ClaimRead
      <4> QED
        BY <1>4, <2>1, <4>1 DEF ClaimRead, ClaimPc
    <3> QED
      BY <3>1, <3>2
  <2>2. CASE ClaimDeps(m)
    <3>1. PICK pc : Goto(m, pc)
      BY <2>2 DEF ClaimDeps
    <3> QED
      BY <1>3, <2>2, <3>1 DEF ClaimDeps, ClaimPc
  <2>3. CASE ClaimBlock(m)
    BY <1>3, <2>3 DEF ClaimBlock, ClaimPc
  <2>4. CASE \/ ClaimPark(m) \/ ClaimRollback(m) \/ ClaimWrite(m)
             \/ CompleteRollback(m) \/ SupersedeRollback(m)
    BY <1>2, <2>4 DEF ClaimPark, ClaimRollback, ClaimWrite, CompleteRollback,
                      SupersedeRollback
  <2>5. CASE CompleteRead(m) \/ SupersedeRead(m)
    <3>1. CASE Return(m)
      BY <1>2, <3>1
    <3>2. CASE ~Return(m)
      <4>1. CASE CompleteRead(m)
        <5>1. PICK pc \in IF file["completed"][call[m].task].claimedBy \notin {NoMember, m}
                          THEN {"complete_rollback"}
                          ELSE SizeCheck(call[m].task, "complete_write", "complete_rollback") :
                 call' = [call EXCEPT ![m].draft = file["completed"][call[m].task], ![m].pc = pc]
          BY <3>2, <4>1, Zenon DEF CompleteRead
        <5>2. pc \notin ClaimPc
          BY DEF SizeCheck, ClaimPc
        <5>3. /\ \A a \in Actor : a # m => call'[a] = call[a]
              /\ call'[m].pc = pc
          BY <5>1 DEF Call
        <5> QED
          BY <5>2, <5>3, OneCallChanges
      <4>2. CASE SupersedeRead(m)
        <5>1. PICK pc \in SizeCheck(call[m].task, "supersede_write", "supersede_rollback") :
                 call' = [call EXCEPT ![m].draft = file["superseded"][call[m].task], ![m].pc = pc]
          BY <3>2, <4>2, Zenon DEF SupersedeRead
        <5>2. pc \notin ClaimPc
          BY DEF SizeCheck, ClaimPc
        <5>3. /\ \A a \in Actor : a # m => call'[a] = call[a]
              /\ call'[m].pc = pc
          BY <5>1 DEF Call
        <5> QED
          BY <5>2, <5>3, OneCallChanges
      <4> QED
        BY <2>5, <4>1, <4>2
    <3> QED
      BY <3>1, <3>2
  <2>6. CASE CompleteWrite(m) \/ SupersedeWrite(m)
    BY <1>7, <2>6 DEF CompleteWrite, SupersedeWrite, Pc, ClaimPc
  <2>7. CASE SupersedeTry(m)
    <3>1. CASE \E d : call' = [call EXCEPT ![m].from = d]
      <4>1. /\ \A a \in Actor : a # m => call'[a] = call[a]
            /\ call'[m].pc = "supersede_try"
        BY <2>7, <3>1 DEF SupersedeTry, Call
      <4> QED
        BY <4>1, OneCallChanges DEF ClaimPc
    <3>2. CASE Return(m) \/ Goto(m, "supersede_read")
      BY <1>2, <1>3, <3>2 DEF ClaimPc
    <3> QED
      BY <2>7, <3>1, <3>2 DEF SupersedeTry
  <2> QED
    BY <1>9, <2>1, <2>2, <2>3, <2>4, <2>5, <2>6, <2>7 DEF MemberStep
<1>10. ASSUME NEW b \in Actor, NEW pc \in Pc \ ClaimPc, NEW x,
              \/ call' = [call EXCEPT ![b].pc = pc, ![b].task = x]
              \/ call' = [call EXCEPT ![b].pc = pc, ![b].todo = x]
              \/ call' = [call EXCEPT ![b].pc = pc, ![b].draft = x]
       PROVE  NoNewClaim
  <2>1. \A a \in Actor : a # b => call'[a] = call[a]
    BY <1>10
  <2>2. call'[b].pc = pc
    <3>1. CASE call' = [call EXCEPT ![b].pc = pc, ![b].task = x]
      BY <3>1 DEF Call
    <3>2. CASE call' = [call EXCEPT ![b].pc = pc, ![b].todo = x]
      BY <3>2 DEF Call
    <3>3. CASE call' = [call EXCEPT ![b].pc = pc, ![b].draft = x]
      BY <3>3 DEF Call
    <3> QED
      BY <1>10, <3>1, <3>2, <3>3
  <2> QED
    BY <1>10, <2>1, <2>2, OneCallChanges
<1>11. ASSUME NEW a \in Actor, UnblockStep(a) PROVE NoNewClaim
  <2>1. CASE UnblockList(a) \/ UnblockWrite(a)
    BY <1>2, <1>10, <2>1 DEF UnblockList, UnblockWrite, Pc, ClaimPc
  <2>2. CASE UnblockStates(a) \/ UnblockMove(a)
    BY <1>5, <2>2 DEF UnblockStates, UnblockMove
  <2> QED
    BY <1>11, <2>1, <2>2 DEF UnblockStep
<1>12. ASSUME NEW a \in Actor, HousekeepStep(a) PROVE NoNewClaim
  <2>1. CASE HousekeepStat(a) \/ HousekeepRead(a)
    BY <1>6, <1>10, <2>1 DEF HousekeepStat, HousekeepRead, Pc, ClaimPc
  <2>2. CASE HousekeepWrite(a) \/ HousekeepMove(a)
    BY <1>3, <1>6, <2>2 DEF HousekeepWrite, HousekeepMove, ClaimPc
  <2> QED
    BY <1>12, <2>1, <2>2 DEF HousekeepStep
<1>13. ASSUME NEW h \in Housekeeper, Housekeep(h) PROVE NoNewClaim
  <2>1. NextFile(h, {t \in Task : file["in_progress"][t] # Absent})
    BY <1>13 DEF Housekeep, NextFile
  <2> QED
    BY <1>6, <2>1
<1>14. ASSUME NEW m \in Member, NEW t \in Task, NEW r \in Task \cup {NoTask},
              SupersedeTask(m, t, r)
       PROVE  NoNewClaim
  <2>1. [Start("supersede_try", t) EXCEPT !.replacement = r].pc = "supersede_try"
    BY DEF Start, Idle
  <2> QED
    BY <1>1, <1>14, <2>1 DEF SupersedeTask, ClaimPc
<1>15. ASSUME NEW m \in Member, NEW t \in Task, CompleteTask(m, t) PROVE NoNewClaim
  BY <1>7, <1>15 DEF CompleteTask, Pc, ClaimPc
<1>16. ASSUME NEW r \in Resident, Poll(r) PROVE NoNewClaim
  BY <1>7, <1>16 DEF Poll, Pc, ClaimPc
<1>17. CASE UNCHANGED vars
  BY <1>8, <1>17 DEF vars
<1>18. ASSUME NEW t \in Task, AddTask(t) \/ Age(t) PROVE NoNewClaim
  BY <1>8, <1>18 DEF AddTask, Age
<1>19. ASSUME NEW a \in Actor, Crash(a) PROVE NoNewClaim
  BY <1>2, <1>19 DEF Crash
<1>20. CASE Next
  BY <1>9, <1>11, <1>12, <1>13, <1>14, <1>15, <1>16, <1>18, <1>19, <1>20 DEF Next, Step
<1> QED
  BY <1>17, <1>20

\* The holders of a task grow by the caller of a claim alone.
LEMMA HoldersStep ==
    ASSUME TypeOK, CallsFormed, [Next]_vars, NEW t \in Task
    PROVE  \/ holders'[t] \subseteq holders[t]
           \/ \E m \in Member : /\ ClaimWrite(m) /\ call[m].task = t
                               /\ holders'[t] = holders[t] \cup {m}
<1>1. ASSUME holders' = holders PROVE holders'[t] \subseteq holders[t]
  BY <1>1
<1>2. ASSUME NEW m \in Member, ClaimWrite(m)
      PROVE  \/ holders'[t] \subseteq holders[t]
             \/ call[m].task = t /\ holders'[t] = holders[t] \cup {m}
  BY <1>2 DEF ClaimWrite, TypeOK
<1>3. ASSUME NEW m \in Member, CompleteWrite(m)
      PROVE  holders'[t] \subseteq holders[t]
  BY <1>3 DEF CompleteWrite, TypeOK
<1>4. ASSUME NEW m \in Member, MemberStep(m), ~ClaimWrite(m), ~CompleteWrite(m)
      PROVE  holders' = holders
  BY <1>4 DEF MemberStep, ClaimRead, ClaimDeps, ClaimBlock, ClaimPark, ClaimRollback,
              CompleteRead, CompleteRollback, SupersedeTry, SupersedeRead,
              SupersedeRollback, SupersedeWrite
<1>5. ASSUME NEW a \in Actor, UnblockStep(a) \/ HousekeepStep(a) PROVE holders' = holders
  BY <1>5 DEF UnblockStep, UnblockList, UnblockStates, UnblockWrite, UnblockMove,
              HousekeepStep, HousekeepStat, HousekeepRead, HousekeepWrite, HousekeepMove
<1>6. CASE UNCHANGED vars
  BY <1>1, <1>6 DEF vars
<1>7. CASE Next
  <2>1. CASE \E a \in Actor : Step(a)
    BY <1>1, <1>2, <1>3, <1>4, <1>5, <2>1 DEF Step
  <2>2. CASE ~\E a \in Actor : Step(a)
    <3>1. holders' = holders
      BY <1>7, <2>2 DEF Next, AddTask, Age, ClaimTask, CompleteTask, SupersedeTask, Poll,
                        Housekeep, Crash
    <3> QED
      BY <1>1, <3>1
  <2> QED
    BY <2>1, <2>2
<1> QED
  BY <1>6, <1>7

LEMMA RequeuedStep ==
    ASSUME [Next]_vars
    PROVE  requeued \subseteq requeued'
<1>1. ASSUME NEW m \in Member, MemberStep(m) PROVE requeued' = requeued
  BY <1>1 DEF MemberStep, ClaimRead, ClaimDeps, ClaimBlock, ClaimPark, ClaimRollback,
              ClaimWrite, CompleteRead, CompleteRollback, CompleteWrite, SupersedeTry,
              SupersedeRead, SupersedeRollback, SupersedeWrite
<1>2. ASSUME NEW a \in Actor, UnblockStep(a) \/ HousekeepStep(a)
      PROVE  requeued \subseteq requeued'
  BY <1>2 DEF UnblockStep, UnblockList, UnblockStates, UnblockWrite, UnblockMove,
              HousekeepStep, HousekeepStat, HousekeepRead, HousekeepWrite, HousekeepMove
<1>3. CASE Next
  BY <1>1, <1>2, <1>3 DEF Next, Step, AddTask, Age, ClaimTask, CompleteTask, SupersedeTask,
                          Poll, Housekeep, Crash
<1>4. CASE UNCHANGED vars
  BY <1>4 DEF vars
<1> QED
  BY <1>3, <1>4

\* The file that was renamed is the one that is claimed.
LEMMA ClaimTaskIs ==
    ASSUME TypeOK, NEW m \in Member, NEW t \in Task, ClaimTask(m, t)
    PROVE  /\ Claiming(m, t)'
           /\ \A a \in Actor, u \in Task : Claiming(a, u)' =>
                 Claiming(a, u) \/ (a = m /\ u = t)
           /\ file["pending"][t] # Absent
           /\ file'["pending"][t] = Absent
           /\ file'["in_progress"][t] # Absent
           /\ holders' = holders
<1>1. m \in Actor /\ "pending" \in Dir /\ "in_progress" \in Dir
  BY DEF Actor, Dir
<1>2. /\ Start("claim_read", t).pc = "claim_read"
      /\ Start("claim_read", t).task = t
  BY StartIs DEF Pc
<1>3. call' = [call EXCEPT ![m] = Start("claim_read", t)] /\ call \in [Actor -> Call]
  BY DEF ClaimTask, TypeOK
<1>4. /\ file["pending"][t] # Absent
      /\ file' = Renamed("pending", "in_progress", t)
      /\ holders' = holders
  BY DEF ClaimTask
<1> HIDE DEF Start
<1>5. Claiming(m, t)'
  BY <1>1, <1>2, <1>3 DEF Claiming, ClaimPc
<1>6. \A a \in Actor, u \in Task : Claiming(a, u)' => Claiming(a, u) \/ (a = m /\ u = t)
  BY <1>1, <1>2, <1>3 DEF Claiming
<1> QED
  BY <1>1, <1>4, <1>5, <1>6, FilesOf, RenamedIs

LEMMA StillThereStep ==
    ASSUME TypeOK, CallsFormed, StillThere, [Next]_vars
    PROVE  StillThere'
<1> SUFFICES ASSUME NEW t \in Task,
                    holders'[t] # {} \/ \E m \in Actor : Claiming(m, t)'
             PROVE  \E d \in Dir : file'[d][t] # Absent
  BY DEF StillThere
<1>1. Stays(t)
  BY FileStep
<1>2. CASE \E m \in Member : ClaimTask(m, t)
  BY <1>2, ClaimTaskIs DEF Dir
<1>3. CASE ~\E m \in Member : ClaimTask(m, t)
  <2>1. \A m \in Actor : Claiming(m, t)' => Claiming(m, t)
    <3>1. CASE NoNewClaim
      BY <3>1 DEF NoNewClaim
    <3>2. CASE \E m \in Member, u \in Task : ClaimTask(m, u)
      BY <1>3, <3>2, ClaimTaskIs
    <3> QED
      BY <3>1, <3>2, ClaimingStep
  <2>2. holders'[t] # {} => holders[t] # {} \/ \E m \in Actor : Claiming(m, t)
    BY HoldersStep DEF ClaimWrite, Claiming, ClaimPc, Actor
  <2>3. holders[t] # {} \/ \E m \in Actor : Claiming(m, t)
    BY <2>1, <2>2
  <2> QED
    BY <1>1, <2>3 DEF StillThere, Stays
<1> QED
  BY <1>2, <1>3

LEMMA TokenStep ==
    ASSUME TypeOK, CallsFormed, StillThere, Token, [Next]_vars
    PROVE  Token'
<1> SUFFICES ASSUME NEW t \in Task, t \notin requeued', t \notin Oversized
             PROVE  /\ \A m, n \in Actor : Claiming(m, t)' /\ Claiming(n, t)' => m = n
                    /\ \A m \in Actor : Claiming(m, t)' =>
                          file'["pending"][t] = Absent /\ holders'[t] = {}
                    /\ holders'[t] # {} => file'["pending"][t] = Absent
                    /\ \A m, n \in holders'[t] : m = n
  BY DEF Token
<1>1. /\ \A m, n \in Actor : Claiming(m, t) /\ Claiming(n, t) => m = n
      /\ \A m \in Actor : Claiming(m, t) => file["pending"][t] = Absent /\ holders[t] = {}
      /\ holders[t] # {} => file["pending"][t] = Absent
      /\ \A m, n \in holders[t] : m = n
  BY RequeuedStep DEF Token
<1>2. CASE \E m \in Member : ClaimTask(m, t)
  BY <1>1, <1>2, ClaimTaskIs
<1>3. CASE ~\E m \in Member : ClaimTask(m, t)
  <2>1. \A m \in Actor : Claiming(m, t)' => Claiming(m, t)
    <3>1. CASE NoNewClaim
      BY <3>1 DEF NoNewClaim
    <3>2. CASE \E m \in Member, u \in Task : ClaimTask(m, u)
      BY <1>3, <3>2, ClaimTaskIs
    <3> QED
      BY <3>1, <3>2, ClaimingStep
  <2>2. CASE \E m \in Member : ClaimWrite(m) /\ call[m].task = t
    <3>1. PICK m \in Member : ClaimWrite(m) /\ call[m].task = t
      BY <2>2
    <3>2. m \in Actor /\ Claiming(m, t) /\ Return(m)
      BY <3>1 DEF Claiming, ClaimPc, ClaimWrite, Actor
    <3>3. \A a \in Actor : ~Claiming(a, t)'
      BY <1>1, <2>1, <3>2, ReturnClaims
    <3>4. holders'[t] = {m}
      BY <1>1, <3>1, <3>2 DEF ClaimWrite, TypeOK
    <3>5. file["pending"][t] = Absent
      BY <1>1, <3>2
    <3>6. NotBack(t)
      <4>1. call[m].draft \in Content /\ m \in Actor
        BY <3>1, <3>2 DEF CallsFormed, WellFormed, ClaimWrite, DraftPc
      <4>2. ClaimedBy(call[m].draft, m) \in Content
        BY <4>1 DEF ClaimedBy, Content, Dir
      <4>3. file' = Written("in_progress", t, ClaimedBy(call[m].draft, m))
        BY <3>1 DEF ClaimWrite
      <4>4. "in_progress" \in Dir
        BY DEF Dir
      <4> QED
        BY <4>2, <4>3, <4>4, FilesOf, WriteEffect
    <3> QED
      BY <3>3, <3>4, <3>5, <3>6 DEF NotBack
  <2>3. CASE \E m \in Member : ClaimRollback(m) /\ call[m].task = t
    <3>1. PICK m \in Member : ClaimRollback(m) /\ call[m].task = t
      BY <2>3
    <3>2. m \in Actor /\ Claiming(m, t) /\ Return(m) /\ holders' = holders
      BY <3>1 DEF Claiming, ClaimPc, ClaimRollback, Actor
    <3>3. \A a \in Actor : ~Claiming(a, t)'
      BY <1>1, <2>1, <3>2, ReturnClaims
    <3>4. holders'[t] = {}
      BY <1>1, <3>2
    <3> QED
      BY <3>3, <3>4
  <2>4. CASE AddTask(t)
    <3>1. /\ holders[t] = {} /\ \A m \in Actor : ~Claiming(m, t)
          /\ holders' = holders
      BY <2>4 DEF AddTask, StillThere
    <3> QED
      BY <2>1, <3>1
  <2>5. CASE /\ ~\E m \in Member : ClaimWrite(m) /\ call[m].task = t
             /\ ~\E m \in Member : ClaimRollback(m) /\ call[m].task = t
             /\ ~AddTask(t)
    <3>1. holders'[t] \subseteq holders[t]
      BY <2>5, HoldersStep
    <3>2. NotBack(t)
      BY <2>5, FileStep
    <3> QED
      BY <1>1, <2>1, <3>1, <3>2 DEF NotBack
  <2> QED
    BY <2>2, <2>3, <2>4, <2>5
<1> QED
  BY <1>2, <1>3

TokenInv == TypeOK /\ CallsFormed /\ StillThere /\ Token

\* Until a task is put back, claimTask answers ok to one member at most.
THEOREM FirstClaimAlwaysExclusive == Spec => []FirstClaimExclusive
<1>1. Init => TokenInv
  <2> SUFFICES ASSUME Init PROVE TokenInv
    OBVIOUS
  <2>1. \A m \in Actor, t \in Task : ~Claiming(m, t)
    BY IdleIs DEF Init, Claiming, ClaimPc
  <2>2. StillThere /\ Token
    BY <2>1 DEF Init, StillThere, Token
  <2> QED
    BY <2>2, TypeInit DEF TokenInv
<1>2. TokenInv /\ [Next]_vars => TokenInv'
  BY TypeStep, StillThereStep, TokenStep DEF TokenInv
<1>3. TokenInv => FirstClaimExclusive
  <2> SUFFICES ASSUME Token, NEW t \in Task \ (requeued \cup Oversized)
               PROVE  Cardinality(holders[t]) <= 1
    BY DEF TokenInv, FirstClaimExclusive
  <2>1. CASE holders[t] = {}
    BY <2>1, FS_EmptySet
  <2>2. CASE holders[t] # {}
    <3>1. PICK m : holders[t] = {m}
      BY <2>2 DEF Token
    <3> QED
      BY <3>1, FS_Singleton
  <2> QED
    BY <2>1, <2>2
<1> QED
  BY <1>1, <1>2, <1>3, PTL DEF Spec

=============================================================================
