------------------------------ MODULE TaskStore ------------------------------
(***************************************************************************)
(* The task store of an agents team: one JSON file per task, in the        *)
(* directory named after its status, moved with rename().  There is no     *)
(* lock and no server: every member's process (command line or MCP tool),  *)
(* every resident agent's poll loop and the coordinator's housekeeping     *)
(* work on the same directories.  A call is a sequence of file operations; *)
(* one action is one file operation with the synchronous code up to the    *)
(* next await, so other actors' operations come in between.                *)
(*                                                                         *)
(* Files: agents/task-store.ts, agents/fs-atomic.ts and the tasks half of  *)
(* agents/housekeeping.ts.                                                 *)
(***************************************************************************)
EXTENDS Naturals, FiniteSets

CONSTANTS
    Task,           \* the ids that may be added
    Member,         \* callers of claim, complete and supersede
    Resident,       \* poll loops of resident agents
    Housekeeper,    \* runs of housekeepTasksInProgress
    NoTask, NoMember, Absent,
    Deps,           \* depends_on of each task, fixed when it is added
    Assigned,       \* assigned_to of each task, or NoMember
    Supersedable,   \* bound: the tasks somebody may supersede
    Oversized,      \* tasks that an update may take beyond MAX_TASK_BYTES
    TimePasses,     \* bound: whether the housekeeping TTL may run out
    MaxCalls,       \* bound: claims, completions and supersessions
    MaxCrashes      \* bound: calls that are killed half way

Actor == Member \cup Resident \cup Housekeeper

ASSUME TaskAssumption ==
    /\ NoTask \notin Task
    /\ Deps \in [Task -> SUBSET Task]
    /\ Supersedable \subseteq Task
    /\ Oversized \subseteq Task
ASSUME ActorAssumption ==
    /\ NoMember \notin Member
    /\ Assigned \in [Task -> Member \cup {NoMember}]
ASSUME BoundAssumption ==
    /\ TimePasses \in BOOLEAN
    /\ MaxCalls \in Nat
    /\ MaxCrashes \in Nat

VARIABLES
    file,       \* directory -> task -> content of <id>.json, or Absent
    call,       \* actor -> the call it is in
    calls,      \* calls of members so far
    crashes,    \* calls killed so far
    holders,    \* history: members a claim of the task answered ok, and whose
                \* own completion of it has not
    requeued,   \* history: tasks put back into pending/
    finished    \* history: tasks whose end has been written to their file

vars == <<file, call, calls, crashes, holders, requeued, finished>>

-----------------------------------------------------------------------------
(* Types *)

Dir == {"pending", "in_progress", "completed", "blocked", "superseded"}

\* The fields of an AgentTask that any decision depends on.  stale is the age
\* of the file (mtime), claimFresh that of claimed_at; both against the TTL.
Content == [status: Dir, claimedBy: Member \cup {NoMember},
            claimFresh: BOOLEAN, stale: BOOLEAN,
            replacement: Task \cup {NoTask}]

ASSUME AbsentAssumption == Absent \notin Content

\* What the map of readTaskDependencyStates holds of each task.
States == [Task -> Content \cup {Absent}]

Pc == {"idle",
       "claim_read", "claim_rollback", "claim_deps", "claim_block",
       "claim_park", "claim_write",
       "complete_read", "complete_rollback", "complete_write",
       "supersede_try", "supersede_read", "supersede_rollback",
       "supersede_write",
       "unblock_list", "unblock_states", "unblock_write", "unblock_move",
       "housekeep_stat", "housekeep_read", "housekeep_write",
       "housekeep_move"}

Call == [pc: Pc, task: Task \cup {NoTask},
         draft: Content \cup {Absent},        \* the task object in memory
         from: Dir,                           \* supersede: where it found it
         replacement: Task \cup {NoTask},     \* supersede: its argument
         todo: SUBSET Task,                   \* loops: files still to visit
         states: States]                      \* unblock: the states it read

NoStates == [t \in Task |-> Absent]
Idle == [pc |-> "idle", task |-> NoTask, draft |-> Absent,
         from |-> "pending", replacement |-> NoTask, todo |-> {},
         states |-> NoStates]

New == [status |-> "pending", claimedBy |-> NoMember, claimFresh |-> FALSE,
        stale |-> FALSE, replacement |-> NoTask]

-----------------------------------------------------------------------------
(* File operations *)

\* Faulty: the source is copied and stays where it was.
Copied(from, to, t) == [file EXCEPT ![to][t] = file[from][t]]

\* rename() replaces what is at the destination and keeps the mtime.
Renamed(from, to, t) ==
    [file EXCEPT ![to][t] = file[from][t], ![from][t] = Absent]

\* atomicJsonWrite: a new file is renamed onto the path, whether or not the
\* path still exists.
Written(d, t, content) ==
    [file EXCEPT ![d][t] = [content EXCEPT !.stale = FALSE]]

\* rename(), with an error that the caller swallows when there is no source.
RenamedIfThere(from, to, t) ==
    IF file[from][t] = Absent THEN file ELSE Renamed(from, to, t)

Start(pc, t) == [Idle EXCEPT !.pc = pc, !.task = t]
\* A member's process that is in no call begins one.
MayCall(m) == call[m] = Idle /\ calls < MaxCalls

Goto(a, pc) == call' = [call EXCEPT ![a].pc = pc]
Return(a) == call' = [call EXCEPT ![a] = Idle]

-----------------------------------------------------------------------------
(* Dependencies *)

\* listTasks reads the directories in this order, and a later entry of the map
\* replaces an earlier one.
ReadOrder == [pending |-> 1, in_progress |-> 2, completed |-> 3,
              blocked |-> 4, superseded |-> 5]

\* Faulty: a task has the status of its directory.
DirectoryStates ==
    [t \in Task |->
        LET found == {d \in Dir : file[d][t] # Absent}
            last == CHOOSE d \in found :
                        \A e \in found : ReadOrder[e] <= ReadOrder[d]
        IN IF found = {} THEN Absent
           ELSE [file[last][t] EXCEPT !.status = last]]

\* The status comes from the content of the file, not from its directory.
DependencyStates ==
    [t \in Task |->
        LET found == {d \in Dir : file[d][t] # Absent}
        IN IF found = {} THEN Absent
           ELSE file[CHOOSE d \in found :
                        \A e \in found : ReadOrder[e] <= ReadOrder[d]][t]]

\* u is resolved if the tasks of S are.
Leads(states, u, S) ==
    /\ states[u] # Absent
    /\ \/ states[u].status = "completed"
       \/ /\ states[u].status = "superseded"
          /\ states[u].replacement \in S \cup {NoTask}

\* The least set of tasks that the rule builds: a chain of replacements must
\* end, and one that comes back to itself resolves nothing.
Resolved(states) ==
    {t \in Task : \A S \in SUBSET Task :
                     (\A u \in Task : Leads(states, u, S) => u \in S) => t \in S}

Satisfied(states, t) == Deps[t] \subseteq Resolved(states)

-----------------------------------------------------------------------------
(* Adding a task *)

AddTask(t) ==
    /\ \A d \in Dir : file[d][t] = Absent
    /\ file' = Written("pending", t, New)
    /\ UNCHANGED <<call, calls, crashes, holders, requeued, finished>>

-----------------------------------------------------------------------------
(* Claiming a task *)

Claimable(content, t, m) ==
    IF content.claimedBy # NoMember THEN content.claimedBy = m
                                    ELSE Assigned[t] \in {NoMember, m}

\* Step 1: the rename that wins the race.  Without a source the call fails.
ClaimTask(m, t) ==
    /\ MayCall(m)
    /\ file["pending"][t] # Absent
    /\ file' = Renamed("pending", "in_progress", t)
    /\ call' = [call EXCEPT ![m] = Start("claim_read", t)]
    /\ calls' = calls + 1
    /\ UNCHANGED <<crashes, holders, requeued, finished>>

\* The update is written, or rolled back if it is too large: that depends on
\* the caller's name, artifacts and reason.
SizeCheck(t, write, rollback) ==
    {write} \cup (IF t \in Oversized THEN {rollback} ELSE {})
AfterChecks(t) == SizeCheck(t, "claim_write", "claim_rollback")

\* Step 2: read the file that was moved, if it is still there.
ClaimRead(m) ==
    LET t == call[m].task
        content == file["in_progress"][t]
    IN /\ call[m].pc = "claim_read"
       /\ \/ /\ content = Absent
             /\ Return(m)
          \/ /\ content # Absent
             /\ \E pc \in IF ~Claimable(content, t, m) THEN {"claim_rollback"}
                          ELSE IF Deps[t] # {} THEN {"claim_deps"}
                          ELSE AfterChecks(t) :
                    call' = [call EXCEPT ![m].draft = content, ![m].pc = pc]
       /\ UNCHANGED <<file, calls, crashes, holders, requeued, finished>>

ClaimDeps(m) ==
    LET t == call[m].task
    IN /\ call[m].pc = "claim_deps"
       /\ \E pc \in IF Satisfied(DependencyStates, t) THEN AfterChecks(t)
                                                    ELSE {"claim_block"} :
             Goto(m, pc)
       /\ UNCHANGED <<file, calls, crashes, holders, requeued, finished>>

\* Unmet dependencies: rewrite in place, then park the file in blocked/.
ClaimBlock(m) ==
    /\ call[m].pc = "claim_block"
    /\ file' = Written("in_progress", call[m].task,
                       [call[m].draft EXCEPT !.status = "blocked"])
    /\ Goto(m, "claim_park")
    /\ UNCHANGED <<calls, crashes, holders, requeued, finished>>

ClaimPark(m) ==
    /\ call[m].pc = "claim_park"
    /\ file' = RenamedIfThere("in_progress", "blocked", call[m].task)
    /\ Return(m)
    /\ UNCHANGED <<calls, crashes, holders, requeued, finished>>

ClaimRollback(m) ==
    /\ call[m].pc = "claim_rollback"
    /\ file' = RenamedIfThere("in_progress", "pending", call[m].task)
    /\ Return(m)
    /\ UNCHANGED <<calls, crashes, holders, requeued, finished>>

ClaimedBy(content, m) ==
    [content EXCEPT !.status = "in_progress", !.claimedBy = m,
                    !.claimFresh = TRUE]

\* Steps 3 and 4: the claim is written and the caller is told ok.
ClaimWrite(m) ==
    LET t == call[m].task
    IN /\ call[m].pc = "claim_write"
       /\ file' = Written("in_progress", t, ClaimedBy(call[m].draft, m))
       /\ holders' = [holders EXCEPT ![t] = @ \cup {m}]
       /\ Return(m)
       /\ UNCHANGED <<calls, crashes, requeued, finished>>

-----------------------------------------------------------------------------
(* Completing a task *)

CompleteTask(m, t) ==
    /\ MayCall(m)
    /\ file["in_progress"][t] # Absent
    /\ file' = Renamed("in_progress", "completed", t)
    /\ call' = [call EXCEPT ![m] = Start("complete_read", t)]
    /\ calls' = calls + 1
    /\ UNCHANGED <<crashes, holders, requeued, finished>>

\* A file that nobody has claimed may be completed by anybody.  An invalid
\* artifact path ends the call here, with the file already in completed/.
CompleteRead(m) ==
    LET t == call[m].task
        content == file["completed"][t]
        foreign == content.claimedBy \notin {NoMember, m}
    IN /\ call[m].pc = "complete_read"
       /\ \/ /\ content = Absent
             /\ Return(m)
          \/ /\ content # Absent
             /\ ~foreign
             /\ Return(m)
          \/ /\ content # Absent
             /\ \E pc \in IF foreign THEN {"complete_rollback"}
                          ELSE SizeCheck(t, "complete_write",
                                            "complete_rollback") :
                    call' = [call EXCEPT ![m].draft = content, ![m].pc = pc]
       /\ UNCHANGED <<file, calls, crashes, holders, requeued, finished>>

CompleteRollback(m) ==
    /\ call[m].pc = "complete_rollback"
    /\ file' = RenamedIfThere("completed", "in_progress", call[m].task)
    /\ Return(m)
    /\ UNCHANGED <<calls, crashes, holders, requeued, finished>>

CompleteWrite(m) ==
    LET t == call[m].task
    IN /\ call[m].pc = "complete_write"
       /\ file' = Written("completed", t,
                          [call[m].draft EXCEPT !.status = "completed"])
       /\ holders' = [holders EXCEPT ![t] = @ \ {m}]
       /\ finished' = finished \cup {t}
       /\ call' = [call EXCEPT ![m] = Start("unblock_list", NoTask)]
       /\ UNCHANGED <<calls, crashes, requeued>>

-----------------------------------------------------------------------------
(* Superseding a task *)

\* The directories are tried one after the other, each with its own rename.
NextTry == [pending |-> "in_progress", in_progress |-> "blocked"]

SupersedeTask(m, t, r) ==
    /\ MayCall(m)
    /\ t \in Supersedable
    /\ call' = [call EXCEPT ![m] = [Start("supersede_try", t)
                                       EXCEPT !.replacement = r]]
    /\ calls' = calls + 1
    /\ UNCHANGED <<file, crashes, holders, requeued, finished>>

SupersedeTry(m) ==
    LET t == call[m].task
        d == call[m].from
    IN /\ call[m].pc = "supersede_try"
       /\ \/ /\ file[d][t] # Absent
             /\ file' = Renamed(d, "superseded", t)
             /\ Goto(m, "supersede_read")
          \/ /\ file[d][t] = Absent
             /\ d \in DOMAIN NextTry
             /\ call' = [call EXCEPT ![m].from = NextTry[d]]
             /\ UNCHANGED file
          \/ /\ file[d][t] = Absent
             /\ d \notin DOMAIN NextTry
             /\ Return(m)
             /\ UNCHANGED file
       /\ UNCHANGED <<calls, crashes, holders, requeued, finished>>

SupersedeRead(m) ==
    LET t == call[m].task
        content == file["superseded"][t]
    IN /\ call[m].pc = "supersede_read"
       /\ \/ /\ content = Absent
             /\ Return(m)
          \/ /\ content # Absent
             /\ \E pc \in SizeCheck(t, "supersede_write",
                                       "supersede_rollback") :
                    call' = [call EXCEPT ![m].draft = content, ![m].pc = pc]
       /\ UNCHANGED <<file, calls, crashes, holders, requeued, finished>>

SupersedeRollback(m) ==
    /\ call[m].pc = "supersede_rollback"
    /\ file' = RenamedIfThere("superseded", call[m].from, call[m].task)
    /\ Return(m)
    /\ UNCHANGED <<calls, crashes, holders, requeued, finished>>

SupersedeWrite(m) ==
    LET t == call[m].task
    IN /\ call[m].pc = "supersede_write"
       /\ file' = Written("superseded", t,
                          [call[m].draft EXCEPT
                              !.status = "superseded",
                              !.replacement = call[m].replacement])
       /\ finished' = finished \cup {t}
       /\ call' = [call EXCEPT ![m] = Start("unblock_list", NoTask)]
       /\ UNCHANGED <<calls, crashes, holders, requeued>>

-----------------------------------------------------------------------------
(* unblockSatisfiedBlockedTasks: the end of a completion and of a           *)
(* supersession, and the beginning of a resident's poll                     *)

\* Faulty: the poll looks for work only, and leaves the unblocking to
\* completions.
PollWithoutUnblocking(r) ==
    /\ call[r] = Idle
    /\ UNCHANGED vars

\* A poll reads on after the unblocking and changes nothing more.
Poll(r) ==
    /\ call[r] = Idle
    /\ call' = [call EXCEPT ![r] = Start("unblock_list", NoTask)]
    /\ UNCHANGED <<file, calls, crashes, holders, requeued, finished>>

UnblockList(a) ==
    LET blocked == {t \in Task : file["blocked"][t] # Absent}
    IN /\ call[a].pc = "unblock_list"
       /\ \/ /\ blocked = {}
             /\ Return(a)
          \/ /\ blocked # {}
             /\ call' = [call EXCEPT ![a].pc = "unblock_states",
                                     ![a].todo = blocked]
       /\ UNCHANGED <<file, calls, crashes, holders, requeued, finished>>

\* The loop goes on with the tasks whose dependencies the states satisfy.
Continue(a, todo, states) ==
    LET ready == {t \in todo : Satisfied(states, t)}
    IN call' = [call EXCEPT ![a] =
                   IF ready = {} THEN Idle
                   ELSE [Start("unblock_write", NoTask) EXCEPT
                            !.todo = ready, !.states = states]]

UnblockStates(a) ==
    /\ call[a].pc = "unblock_states"
    /\ Continue(a, call[a].todo, DependencyStates)
    /\ UNCHANGED <<file, calls, crashes, holders, requeued, finished>>

\* The task as it was listed is written back, also when it has left blocked/.
UnblockWrite(a) ==
    /\ call[a].pc = "unblock_write"
    /\ \E t \in call[a].todo :
          /\ file' = Written("blocked", t, New)
          /\ call' = [call EXCEPT ![a].pc = "unblock_move", ![a].task = t]
    /\ UNCHANGED <<calls, crashes, holders, requeued, finished>>

UnblockMove(a) ==
    LET t == call[a].task
        rest == call[a].todo \ {t}
    IN /\ call[a].pc = "unblock_move"
       /\ \/ /\ file["blocked"][t] # Absent
             /\ file' = Renamed("blocked", "pending", t)
             /\ requeued' = requeued \cup {t}
             /\ Continue(a, rest, [call[a].states EXCEPT ![t] = New])
          \/ /\ file["blocked"][t] = Absent
             /\ Continue(a, rest, call[a].states)
             /\ UNCHANGED <<file, requeued>>
       /\ UNCHANGED <<calls, crashes, holders, finished>>

-----------------------------------------------------------------------------
(* housekeepTasksInProgress *)

Housekeep(h) ==
    LET listed == {t \in Task : file["in_progress"][t] # Absent}
    IN /\ call[h] = Idle
       /\ listed # {}
       /\ call' = [call EXCEPT ![h] = [Start("housekeep_stat", NoTask)
                                          EXCEPT !.todo = listed]]
       /\ UNCHANGED <<file, calls, crashes, holders, requeued, finished>>

\* continue: on to the next file, or the end of the run.
NextFile(h, todo) ==
    call' = [call EXCEPT ![h] =
                IF todo = {} THEN Idle
                ELSE [Start("housekeep_stat", NoTask) EXCEPT !.todo = todo]]

Old(t) == file["in_progress"][t] # Absent /\ file["in_progress"][t].stale

HousekeepStat(h) ==
    /\ call[h].pc = "housekeep_stat"
    /\ \E t \in call[h].todo :
          \/ /\ ~Old(t)
             /\ NextFile(h, call[h].todo \ {t})
          \/ /\ Old(t)
             /\ call' = [call EXCEPT ![h].pc = "housekeep_read",
                                     ![h].task = t]
    /\ UNCHANGED <<file, calls, crashes, holders, requeued, finished>>

\* A file without a claim is requeued on its mtime alone.
Requeueable(content) == content # Absent /\ ~content.claimFresh

HousekeepRead(h) ==
    LET t == call[h].task
        content == file["in_progress"][t]
    IN /\ call[h].pc = "housekeep_read"
       /\ \/ /\ ~Requeueable(content)
             /\ NextFile(h, call[h].todo \ {t})
          \/ /\ Requeueable(content)
             /\ call' = [call EXCEPT ![h].pc = "housekeep_write",
                                     ![h].draft = content]
       /\ UNCHANGED <<file, calls, crashes, holders, requeued, finished>>

HousekeepWrite(h) ==
    /\ call[h].pc = "housekeep_write"
    /\ file' = Written("in_progress", call[h].task,
                       [call[h].draft EXCEPT !.status = "pending",
                                             !.claimedBy = NoMember,
                                             !.claimFresh = FALSE])
    /\ Goto(h, "housekeep_move")
    /\ UNCHANGED <<calls, crashes, holders, requeued, finished>>

HousekeepMove(h) ==
    LET t == call[h].task
    IN /\ call[h].pc = "housekeep_move"
       /\ file' = RenamedIfThere("in_progress", "pending", t)
       /\ requeued' = IF file["in_progress"][t] = Absent
                      THEN requeued ELSE requeued \cup {t}
       /\ NextFile(h, call[h].todo \ {t})
       /\ UNCHANGED <<calls, crashes, holders, finished>>

-----------------------------------------------------------------------------
(* The environment *)

\* The TTL runs out for what has been written of a task so far.  Housekeeping
\* looks into in_progress/ alone, and only pending/ files get there as they are.
Aged(content) == [content EXCEPT !.stale = TRUE, !.claimFresh = FALSE]
MayAge(d, t) == /\ d \in {"pending", "in_progress"}
                /\ file[d][t] # Absent
                /\ file[d][t] # Aged(file[d][t])

Age(t) ==
    /\ TimePasses
    /\ \E d \in Dir : MayAge(d, t)
    /\ file' = [d \in Dir |-> [file[d] EXCEPT
                   ![t] = IF MayAge(d, t) THEN Aged(@) ELSE @]]
    /\ UNCHANGED <<call, calls, crashes, holders, requeued, finished>>

\* A call ends between two file operations: a member's process is killed, or a
\* poll or a housekeeping run meets an exception, which its timer swallows.
Crash(a) ==
    /\ call[a] # Idle
    /\ crashes < MaxCrashes
    /\ crashes' = crashes + 1
    /\ Return(a)
    /\ UNCHANGED <<file, calls, holders, requeued, finished>>

-----------------------------------------------------------------------------
Init ==
    /\ file = [d \in Dir |-> [t \in Task |-> Absent]]
    /\ call = [a \in Actor |-> Idle]
    /\ calls = 0
    /\ crashes = 0
    /\ holders = [t \in Task |-> {}]
    /\ requeued = {}
    /\ finished = {}

MemberStep(m) ==
    \/ ClaimRead(m) \/ ClaimDeps(m) \/ ClaimBlock(m) \/ ClaimPark(m)
    \/ ClaimRollback(m) \/ ClaimWrite(m)
    \/ CompleteRead(m) \/ CompleteRollback(m) \/ CompleteWrite(m)
    \/ SupersedeTry(m) \/ SupersedeRead(m) \/ SupersedeRollback(m)
    \/ SupersedeWrite(m)

UnblockStep(a) ==
    \/ UnblockList(a) \/ UnblockStates(a) \/ UnblockWrite(a) \/ UnblockMove(a)

HousekeepStep(h) ==
    \/ HousekeepStat(h) \/ HousekeepRead(h) \/ HousekeepWrite(h)
    \/ HousekeepMove(h)

Step(a) ==
    \/ (a \in Member /\ MemberStep(a))
    \/ UnblockStep(a)
    \/ HousekeepStep(a)

Next ==
    \/ \E t \in Task : AddTask(t) \/ Age(t)
    \/ \E m \in Member, t \in Task : ClaimTask(m, t) \/ CompleteTask(m, t)
    \/ \E m \in Member, t \in Task, r \in Task \cup {NoTask} :
          SupersedeTask(m, t, r)
    \/ \E r \in Resident : Poll(r)
    \/ \E h \in Housekeeper : Housekeep(h)
    \/ \E a \in Actor : Step(a) \/ Crash(a)

Spec == Init /\ [][Next]_vars

\* A call goes on to its end; residents poll and the coordinator housekeeps
\* for as long as the team exists (setTimeout and setInterval), and the TTL
\* runs out.  Nothing is assumed of what the members choose to do.
FairSpec ==
    /\ Spec
    /\ \A a \in Actor : WF_vars(Step(a))
    /\ \A r \in Resident : WF_vars(Poll(r))
    /\ \A h \in Housekeeper : WF_vars(Housekeep(h))
    /\ \A t \in Task : WF_vars(Age(t))

-----------------------------------------------------------------------------
(* Properties *)

\* The type invariant: files and calls hold what task-store.ts writes.
TypeOK ==
    /\ file \in [Dir -> [Task -> Content \cup {Absent}]]
    /\ call \in [Actor -> Call]
    /\ calls \in 0..MaxCalls
    /\ crashes \in 0..MaxCrashes
    /\ holders \in [Task -> SUBSET Member]
    /\ requeued \subseteq Task
    /\ finished \subseteq Task

\* No member is told ok for a task before the end of each of its dependencies
\* has been written by the call that ends it.  The directory a file lies in is
\* no evidence of that: completeTask moves a file first and may move it back.
NoPrematureClaim ==
    \A t \in Task : holders[t] # {} => Deps[t] \subseteq finished

\* Until a task is put back into pending/, claimTask answers ok to one member
\* at most, whatever completions, supersessions and crashes come in between.
\* A claim that is rolled back for its size puts the task back as well.
FirstClaimExclusive ==
    \A t \in Task \ (requeued \cup Oversized) : Cardinality(holders[t]) <= 1

\* A task with satisfied dependencies does not stay in blocked/: also when the
\* claim that found them unmet parks the file after the completion's own pass
\* over blocked/, the next poll of a resident frees it.
NoneForgotten ==
    \A t \in Task : file["blocked"][t] # Absent => ~Satisfied(DependencyStates, t)

BlockedFreed == []<>NoneForgotten

\* No task stays in in_progress/: neither one whose holder went away nor one
\* whose claim was killed between the rename and the write.
NoneStuck == \A t \in Task : file["in_progress"][t] = Absent

NothingStuckInProgress == []<>NoneStuck

\* What "race-free" at task-store.ts:2 and :262 promises: a task that nobody
\* has completed is held by one member at most.
ExclusiveClaim == \A t \in Task : Cardinality(holders[t]) <= 1

=============================================================================
