------------------------------ MODULE MCTaskStore ------------------------------
(***************************************************************************)
(* Instances of TaskStore with two members.  "recovery": one task, any     *)
(* member's, the TTL and a housekeeper.  "dependencies": a task of the     *)
(* first member that an update may take beyond its size limit, a task that *)
(* depends on it, and a resident agent.                                    *)
(***************************************************************************)
EXTENDS TaskStore, TLC

CONSTANTS t1, t2, m1, m2, r1, h1

\* The second task depends on the first.
MCDeps == (t1 :> {}) @@ (t2 :> {t1})
MCUnassigned == (t1 :> NoMember) @@ (t2 :> NoMember)

VARIABLE scenario

mcvars == <<vars, scenario>>

TwoTasks == INSTANCE TaskStore WITH
    Assigned <- (t1 :> m1) @@ (t2 :> NoMember), Oversized <- {t1}, TimePasses <- FALSE

\* The members are alike when the task is anyone's: the first call is that of m1.
Recovers(action) ==
    /\ scenario = "recovery" /\ action /\ call'[r1] = Idle /\ calls' <= 3
    /\ \A d \in Dir : file'[d][t2] = Absent
    /\ calls' <= 1 => call'[m2] = Idle
    /\ \A m \in Member : call'[m].replacement = NoTask
    /\ UNCHANGED scenario
Depends(action) ==
    /\ scenario = "dependencies" /\ action /\ call'[h1] = Idle
    /\ UNCHANGED scenario

MCInit == Init /\ scenario \in {"recovery", "dependencies"}

MCNext == Recovers(Next) \/ Depends(TwoTasks!Next)

MCSpec ==
    /\ MCInit /\ [][MCNext]_mcvars
    /\ \A m \in Member : WF_mcvars(Recovers(Step(m)) \/ Depends(TwoTasks!Step(m)))
    /\ WF_mcvars(Depends(TwoTasks!Step(r1)))
    /\ WF_mcvars(Depends(TwoTasks!Poll(r1)))
    /\ WF_mcvars(Recovers(Step(h1)))
    /\ WF_mcvars(Recovers(Housekeep(h1)))
    /\ WF_mcvars(Recovers(Age(t1)))

\* Two members and a resident agent, without a bound but that on calls.
PlainSpec == MCInit /\ [][Next /\ UNCHANGED scenario]_mcvars

(* The liveness of TaskStore: BlockedFreed where a resident polls, and     *)
(* NothingStuckInProgress where a housekeeper runs.                        *)
MCSettles == []<>(IF scenario = "recovery" THEN NoneStuck ELSE NoneForgotten)
=============================================================================
