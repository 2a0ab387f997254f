-------------------------------- MODULE Team --------------------------------
(***************************************************************************)
(* The coordinator of an agents team and the agents it runs.  Every two    *)
(* seconds it compares members.json with what runs, starts the missing     *)
(* members and stops the removed ones; at the end of the workflow it stops *)
(* all of them.  A reconciliation awaits (the file, a start, up to ten     *)
(* seconds for a member that is told to leave) and the interval timer does *)
(* not wait for it, so several are in progress at a time.  One action is   *)
(* the code from one await to the next.                                    *)
(*                                                                         *)
(* A resident agent polls its inbox and tasks and runs a command-line      *)
(* agent when it finds work; a CUSTOM member is one script, run once.      *)
(*                                                                         *)
(* Files: agents/coordinator.ts, agents/resident-agent.ts, and upsertMember*)
(* and removeMember of agents/store.ts.                                    *)
(***************************************************************************)
EXTENDS Naturals, FiniteSets

CONSTANTS
    Teammate,             \* members other than the lead, people and dormant ones
    Custom,             \* members that run as one script (worker CUSTOM)
    Initial,            \* members of the workflow definition
    Busy,               \* bound: members for whom work may arrive (a poll that
                        \* finds an empty inbox changes nothing)
    Agent,              \* bound: agents started over the run
    Tick,               \* bound: reconciliations in progress at a time
    Editor,             \* processes that change members.json
    NoTeammate, NoAgent,
    MaxTeammates, MaxSpawnsPerMinute,
    MaxEdits            \* bound: changes of members.json

ASSUME TeamAssumption ==
    /\ Custom \subseteq Teammate
    /\ {Initial, Busy} \subseteq SUBSET Teammate /\ IsFiniteSet(Initial)
    /\ NoTeammate \notin Teammate
    /\ NoAgent \notin Agent
    /\ {MaxTeammates, MaxSpawnsPerMinute, MaxEdits} \subseteq Nat

VARIABLES
    desired,    \* members.json
    editor,     \* editor -> the change it is making
    edits,
    agent,      \* agent -> its state
    listed,     \* residentAgents and teammates of the coordinator
    tick,       \* reconciliation -> where it is
    coord,      \* where start() or stop() is
    starting,   \* members start() has still to start
    spawns      \* spawnTimestamps within the last minute

teamVars == <<desired, editor, edits, agent, listed, tick, coord, starting,
              spawns>>

-----------------------------------------------------------------------------
(* Types *)

(* of: the member; on: not stopped; poll: where a resident agent's loop is *)
(* (a script has none); cli: its process, which may take its time to die.  *)
AgentState ==
    [of : Teammate \cup {NoTeammate}, on : BOOLEAN,
     poll : {"none", "timer", "peek", "dispatch"},
     cli : {"none", "live", "dying"}]

Unborn == [of |-> NoTeammate, on |-> FALSE, poll |-> "none", cli |-> "none"]

TickState ==
    [pc : {"idle", "read", "spawn", "remove", "wait"},
     todo : SUBSET Teammate, want : SUBSET Teammate, ran : SUBSET Teammate,
     at : Agent \cup {NoAgent}, seen : SUBSET Agent]

NoTick == [pc |-> "idle", todo |-> {}, want |-> {}, ran |-> {},
           at |-> NoAgent, seen |-> {}]

EditState == [op : {"none", "upsert", "remove"}, who : Teammate \cup {NoTeammate},
              file : SUBSET Teammate]
NoEdit == [op |-> "none", who |-> NoTeammate, file |-> {}]

Resident(a) == agent[a].of \in Teammate \ Custom
Script(a) == agent[a].of \in Custom
(* isRunning of a resident agent, not settled for a script *)
Running(a) == IF Script(a) THEN agent[a].cli # "none" ELSE agent[a].on

RunningAgents == {a \in listed : Running(a)}
Has(m) == \E a \in listed : agent[a].of = m
(* An agent that is not listed and has nothing in progress is forgotten.   *)
Over(s) == ~s.on /\ s.poll = "none" /\ s.cli = "none"
Kept(agents, list) ==
    [a \in Agent |-> IF a \notin list /\ Over(agents[a]) THEN Unborn ELSE agents[a]]
Unused == {a \in Agent : agent[a] = Unborn}
Fresh == CHOOSE a \in Unused : TRUE

stopping == coord \notin {"starting", "running"}

Started(m) == [of |-> m, on |-> m \notin Custom,
               poll |-> IF m \in Custom THEN "none" ELSE "timer",
               cli |-> IF m \in Custom THEN "live" ELSE "none"]

TeamInit ==
    /\ desired = Initial
    /\ editor = [e \in Editor |-> NoEdit]
    /\ edits = 0
    /\ agent = [a \in Agent |-> Unborn]
    /\ listed = {}
    /\ tick = [t \in Tick |-> NoTick]
    /\ coord = "starting"
    /\ starting = Initial
    /\ spawns = 0

-----------------------------------------------------------------------------
(* members.json: read, then written as a whole.                            *)

EditRead(e, op, m) ==
    /\ editor[e] = NoEdit
    /\ edits < MaxEdits
    /\ op = "remove" => m \in desired
    /\ edits' = edits + 1
    /\ editor' = [editor EXCEPT ![e] = [op |-> op, who |-> m, file |-> desired]]
    /\ UNCHANGED <<desired, agent, listed, tick, coord, starting, spawns>>

EditWrite(e) ==
    /\ editor[e] # NoEdit
    /\ desired' = IF editor[e].op = "upsert"
                  THEN editor[e].file \cup {editor[e].who}
                  ELSE editor[e].file \ {editor[e].who}
    /\ editor' = [editor EXCEPT ![e] = NoEdit]
    /\ UNCHANGED <<edits, agent, listed, tick, coord, starting, spawns>>

-----------------------------------------------------------------------------
(* Agents *)

(* ResidentAgent.stop(): the timer is cleared, the dispatch aborted and    *)
(* its processes killed; the loop itself is not told.                      *)
StoppedAgent(s) ==
    [s EXCEPT !.on = FALSE,
              !.poll = IF @ = "timer" THEN "none" ELSE @,
              !.cli = IF @ = "live" THEN "dying" ELSE @]

(* abortController.abort() of a script: its step is cancelled. *)
AbortedScript(s) == [s EXCEPT !.cli = IF @ = "live" THEN "dying" ELSE @]

AgentStep(a, state) ==
    /\ agent' = Kept([agent EXCEPT ![a] = state], listed)
    /\ UNCHANGED <<desired, editor, edits, listed, tick, coord, starting, spawns>>

(* Two awaits: the inbox is listed, then the tasks are looked through. *)
Poll(a) ==
    /\ agent[a].poll = "timer"
    /\ agent[a].of \in Busy
    /\ AgentStep(a, [agent[a] EXCEPT !.poll = "peek"])

(* The agent that was stopped meanwhile polls no more. *)
Polled(s) == [s EXCEPT !.poll = IF s.on THEN "timer" ELSE "none"]

NoWork(a) ==
    /\ agent[a].poll = "peek"
    /\ AgentStep(a, Polled(agent[a]))

(* Whether the agent was stopped during the two awaits is not looked at. *)
Dispatch(a) ==
    /\ agent[a].poll = "peek"
    /\ AgentStep(a, [agent[a] EXCEPT !.poll = "dispatch", !.cli = "live"])

(* A process ends by itself, or because it was killed. *)
CliEnds(a) ==
    /\ agent[a].cli # "none"
    /\ AgentStep(a, [(IF Script(a) THEN agent[a] ELSE Polled(agent[a]))
                        EXCEPT !.cli = "none"])

-----------------------------------------------------------------------------
(* AgentCoordinator.start(): the members of the definition, one after      *)
(* another, whatever the cap; then the timers.                             *)

SpawnInitial(m) ==
    /\ coord = "starting"
    /\ m \in starting
    /\ Unused # {}
    /\ agent' = [agent EXCEPT ![Fresh] = Started(m)]
    /\ listed' = listed \cup {Fresh}
    /\ starting' = starting \ {m}
    /\ UNCHANGED <<desired, editor, edits, tick, coord, spawns>>

StartDone ==
    /\ coord = "starting"
    /\ starting = {}
    /\ coord' = "running"
    /\ UNCHANGED <<desired, editor, edits, agent, listed, tick, starting, spawns>>

-----------------------------------------------------------------------------
(* reconcile() *)

ReconcileStart(t) ==
    /\ coord = "running"
    /\ tick[t].pc = "idle"
    /\ tick' = [tick EXCEPT ![t].pc = "read"]
    /\ UNCHANGED <<desired, editor, edits, agent, listed, coord, starting, spawns>>

Leave(t) ==
    /\ tick' = [tick EXCEPT ![t] = NoTick]
    /\ UNCHANGED <<agent, listed, spawns>>

(* members.json is read, stopped agents are forgotten, and what runs now   *)
(* is remembered.  The first start follows without an await in the code.   *)
ReconcileRead(t) ==
    /\ tick[t].pc = "read"
    /\ IF stopping THEN Leave(t)
       ELSE LET kept == {a \in listed : Resident(a) => agent[a].on}
            IN  /\ listed' = kept
                /\ tick' = [tick EXCEPT ![t] =
                       [NoTick EXCEPT !.pc = "spawn", !.todo = desired,
                            !.want = desired,
                            !.ran = {agent[a].of : a \in {b \in kept : Running(b)}}]]
                /\ agent' = Kept(agent, kept)
                /\ UNCHANGED spawns
    /\ UNCHANGED <<desired, editor, edits, coord, starting>>

\* Faulty: agents started since the snapshot are not looked at.
StaleMissing(t) == tick[t].todo \ tick[t].ran
Missing(t) == {m \in tick[t].todo : m \notin tick[t].ran /\ ~Has(m)}
MaySpawn == /\ Cardinality(RunningAgents) < MaxTeammates
            /\ spawns < MaxSpawnsPerMinute

(* Spawning ends with an await; the next member is looked at after it.     *)
(* The members come sorted; which comes first is left open.                *)
ReconcileSpawn(t, m) ==
    /\ tick[t].pc = "spawn"
    /\ ~stopping
    /\ m \in Missing(t)
    /\ MaySpawn
    /\ Unused # {}
    /\ agent' = [agent EXCEPT ![Fresh] = Started(m)]
    /\ listed' = listed \cup {Fresh}
    /\ spawns' = spawns + 1
    /\ tick' = [tick EXCEPT ![t].todo = @ \ {m}]
    /\ UNCHANGED <<desired, editor, edits, coord, starting>>

\* Faulty: the reconciliation returns at the cap.
ReturnAtCap(t) ==
    /\ tick[t].pc = "spawn"
    /\ stopping \/ Missing(t) = {} \/ ~MaySpawn
    /\ IF stopping \/ Missing(t) # {} THEN Leave(t)
       ELSE LET gone == {a \in listed : Resident(a) /\ agent[a].of \notin tick[t].want}
            IN  /\ agent' = Kept([a \in Agent |-> IF a \in gone
                                                  THEN StoppedAgent(agent[a])
                                                  ELSE agent[a]], listed \ gone)
                /\ listed' = listed \ gone
                /\ tick' = [tick EXCEPT ![t].pc = "remove"]
                /\ UNCHANGED spawns
    /\ UNCHANGED <<desired, editor, edits, coord, starting>>

(* No member is missing, or one may not be started: removed residents are  *)
(* stopped and forgotten in one go.                                        *)
ReconcileStop(t) ==
    /\ tick[t].pc = "spawn"
    /\ stopping \/ Missing(t) = {} \/ ~MaySpawn
    /\ IF stopping THEN Leave(t)
       ELSE LET gone == {a \in listed : Resident(a) /\ agent[a].of \notin tick[t].want}
            IN  /\ agent' = Kept([a \in Agent |-> IF a \in gone
                                                  THEN StoppedAgent(agent[a])
                                                  ELSE agent[a]], listed \ gone)
                /\ listed' = listed \ gone
                /\ tick' = [tick EXCEPT ![t].pc = "remove"]
                /\ UNCHANGED spawns
    /\ UNCHANGED <<desired, editor, edits, coord, starting>>

ToRemove(t) == {a \in listed \ tick[t].seen :
                  Script(a) /\ Running(a) /\ agent[a].of \notin tick[t].want}

(* shutdownSingleTeammate: a shutdown_request, and a wait.                 *)
ReconcileAsk(t, a) ==
    /\ tick[t].pc = "remove"
    /\ a \in ToRemove(t)
    /\ tick' = [tick EXCEPT ![t].pc = "wait", ![t].at = a, ![t].seen = @ \cup {a}]
    /\ UNCHANGED <<desired, editor, edits, agent, listed, coord, starting, spawns>>

(* The script ended, or ten seconds are over.  Nobody asks whether the     *)
(* member is wanted again.                                                 *)
ReconcileWaited(t) ==
    /\ tick[t].pc = "wait"
    /\ agent' = [agent EXCEPT ![tick[t].at] = AbortedScript(@)]
    /\ tick' = [tick EXCEPT ![t].pc = "remove", ![t].at = NoAgent]
    /\ UNCHANGED <<desired, editor, edits, listed, coord, starting, spawns>>

ReconcileEnd(t) ==
    /\ tick[t].pc = "remove"
    /\ ToRemove(t) = {}
    /\ listed' = {a \in listed : ~(/\ Script(a) /\ ~Running(a)
                                   /\ agent[a].of \notin tick[t].want)}
    /\ agent' = Kept(agent, listed')
    /\ tick' = [tick EXCEPT ![t] = NoTick]
    /\ UNCHANGED <<desired, editor, edits, coord, starting, spawns>>

(* spawnTimestamps older than a minute are dropped. *)
MinutePasses ==
    /\ spawns > 0
    /\ spawns' = 0
    /\ UNCHANGED <<desired, editor, edits, agent, listed, tick, coord, starting>>

-----------------------------------------------------------------------------
(* AgentCoordinator.stop() *)

CoordStep(from, to) == coord = from /\ coord' = to
Scripts == {a \in listed : Script(a)}

StopResidents ==
    /\ CoordStep("running", "asking")
    /\ agent' = [a \in Agent |-> IF a \in listed /\ Resident(a) /\ agent[a].on
                                 THEN StoppedAgent(agent[a]) ELSE agent[a]]
    /\ UNCHANGED <<desired, editor, edits, listed, tick, starting, spawns>>

(* The scripts are sent shutdown_request; they settle, acknowledge it or   *)
(* let the wait time run out, and what is left of them is aborted.         *)
AbortScripts ==
    /\ CoordStep("asking", "aborted")
    /\ agent' = [a \in Agent |-> IF a \in Scripts THEN AbortedScript(agent[a])
                                                  ELSE agent[a]]
    /\ UNCHANGED <<desired, editor, edits, listed, tick, starting, spawns>>

(* Five seconds for the scripts to settle; then the timers are cleared,    *)
(* the logs read a last time, stale files requeued and the mailbox removed.*)
TeamStopped ==
    /\ CoordStep("aborted", "stopped")
    /\ UNCHANGED <<desired, editor, edits, agent, listed, tick, starting, spawns>>

-----------------------------------------------------------------------------

PollNext(a) == Poll(a) \/ NoWork(a) \/ Dispatch(a)
ReconcileNext(t) ==
    \/ ReconcileRead(t) \/ ReconcileStop(t) \/ ReconcileWaited(t)
    \/ ReconcileEnd(t)
    \/ \E m \in Teammate : ReconcileSpawn(t, m)
    \/ \E a \in Agent : ReconcileAsk(t, a)
StartNext == StartDone \/ \E m \in Teammate : SpawnInitial(m)
StopNext == AbortScripts \/ TeamStopped

TeamNext ==
    \/ \E e \in Editor : EditWrite(e)
    \/ \E e \in Editor, op \in {"upsert", "remove"}, m \in Teammate : EditRead(e, op, m)
    \/ \E a \in Agent : PollNext(a) \/ CliEnds(a)
    \/ \E t \in Tick : ReconcileStart(t) \/ ReconcileNext(t)
    \/ StartNext \/ MinutePasses \/ StopResidents \/ StopNext

TeamSpec == TeamInit /\ [][TeamNext]_teamVars

-----------------------------------------------------------------------------
(* Properties *)

TeamTypeOK ==
    /\ desired \subseteq Teammate
    /\ editor \in [Editor -> EditState]
    /\ edits \in 0..MaxEdits
    /\ agent \in [Agent -> AgentState]
    /\ listed \subseteq Agent
    /\ tick \in [Tick -> TickState]
    /\ coord \in {"starting", "running", "asking", "aborted", "stopped"}
    /\ starting \subseteq Teammate
    /\ spawns \in 0..MaxSpawnsPerMinute

(* Reconciliations that overlap, on files that are out of date by the time *)
(* they act, never run a member twice, never lose sight of an agent that   *)
(* runs, never start more than the cap allows, and start nothing any more  *)
(* once stop() has stopped the agents (coordinator.ts:366-475, 550-555).   *)
TeamInv ==
    /\ \A a, b \in RunningAgents : agent[a].of = agent[b].of => a = b
    /\ \A a \in Agent : agent[a].on /\ Resident(a) => a \in listed
    /\ \A a \in Agent : Script(a) /\ agent[a].cli # "none" => a \in listed
    /\ Cardinality(RunningAgents) <= MaxTeammates \/ RunningAgents = {}
        \/ Cardinality(RunningAgents) <= Cardinality(Initial)
    /\ stopping => \A a \in Agent : ~agent[a].on

(* That, in states whose parts have their types.                           *)
TeamSafe == TeamTypeOK /\ TeamInv

(* When members.json changes no more, the resident agents that run become  *)
(* the members it lists, if they are not more than the cap, whatever       *)
(* reconciliations with older contents do in between.                      *)
Converged ==
    coord = "running" /\ Cardinality(desired) <= MaxTeammates
    => \A m \in Teammate \ Custom :
           m \in desired <=> \E a \in listed : agent[a].of = m /\ agent[a].on

=============================================================================
