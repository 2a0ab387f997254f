------------------------------ MODULE Supervisor ------------------------------
(***************************************************************************)
(* The Supervisor (scheduler/supervisor.ts) and its HealthChecker: the     *)
(* parent spawns, watches, kills and restarts the Core process.            *)
(*                                                                         *)
(* Start and Stop are the calls of spawnCore and killCore by the owner     *)
(* (Scheduler.start and shutdown, CoreIpcStepRunner); a restarter is a     *)
(* crash or hang callback that calls restartCore.  The calls await inside, *)
(* so their steps interleave, and all of them write proc, ipc and          *)
(* healthChecker.                                                          *)
(***************************************************************************)
EXTENDS Naturals

CONSTANTS
    Core,         \* process identities; bound: how many processes are ever spawned
    NoCore,
    Restarter,    \* the callbacks that may be inside restartCore at the same time
    Transport,    \* the transports in play, of "stdio" and "socket" (tcp is as socket)
    MaxRestarts   \* maxRestarts within the window; the window does not end

Start == "start"
Stop == "stop"
Caller == Restarter \cup {Start, Stop}

\* What an instance has to assume of its constants.
SupervisorConstants ==
    /\ NoCore \notin Core /\ {Start, Stop} \cap Restarter = {}
    /\ Transport \subseteq {"stdio", "socket"}
    /\ MaxRestarts \in Nat

VARIABLES
    transport,     \* ipcTransport, fixed
    process,       \* the state of each Core process
    proc,          \* Supervisor.proc, the process of procExitPromise
    ipc,           \* Supervisor.ipc, by the process at its other end
    healthChecker, \* Supervisor.healthChecker, by its process
    checking,      \* the processes whose HealthChecker has its timer
    watched,       \* the processes whose exit calls the crash callback
    listening,     \* Supervisor.ipcServer accepts a connection
    at,            \* where each caller is
    target,        \* the process a caller works on: its local variable proc
    restarting,    \* Supervisor.restarting
    restarts       \* the number of restartTimestamps

fields == <<proc, ipc, healthChecker, listening>>
health == <<checking, watched>>
counts == <<restarting, restarts>>
vars == <<transport, process, fields, health, at, target, counts>>

\* "up": it serves.  "mute": it neither answers nor reacts to SIGTERM.  "ending": it
\* shuts down after SIGTERM.  "killed": SIGKILL was sent.  "exited": it ended with
\* code 0.  "crashed": it ended with another code or by a signal.
ProcessState == {"unused", "up", "mute", "ending", "killed", "exited", "crashed"}

Place == {"idle", "done",
          "listen",    \* spawn: the server is told to listen
          "connect",   \* spawn: waits for the Core to connect
          "reap",      \* spawn: the Core did not connect and was sent SIGKILL
          "stopping",  \* kill: waits for ipc.stop()
          "term",      \* kill: SIGTERM was sent, waits for the exit or the grace period
          "sigkill",   \* kill: SIGKILL was sent, waits for the exit
          "respawn"}   \* restart: the kill is over

Gone(c)    == process[c] \in {"exited", "crashed"}
Living     == {c \in Core : process[c] \in {"up", "mute", "ending", "killed"}}
Unused     == {c \in Core : process[c] = "unused"}

TypeOK ==
    /\ transport \in Transport
    /\ process \in [Core -> ProcessState]
    /\ {proc, ipc, healthChecker} \subseteq Core \cup {NoCore}
    /\ checking \subseteq Core /\ watched \subseteq Core
    /\ listening \in BOOLEAN
    /\ at \in [Caller -> Place]
    /\ target \in [Caller -> Core \cup {NoCore}]
    /\ restarting \in BOOLEAN /\ restarts \in 0..MaxRestarts

Init ==
    /\ transport \in Transport
    /\ process = [c \in Core |-> "unused"]
    /\ proc = NoCore /\ ipc = NoCore /\ healthChecker = NoCore /\ listening = FALSE
    /\ checking = {} /\ watched = {}
    /\ at = [x \in Caller |-> "idle"]
    /\ target = [x \in Caller |-> NoCore]
    /\ restarting = FALSE /\ restarts = 0

----------------------------------------------------------------------------
(* spawnCore.                                                              *)

Goes(x, place) == at' = [at EXCEPT ![x] = place]

\* The call returns or throws; a restart resets its flag in the finally block.
Returned(x) ==
    /\ Goes(x, IF x \in Restarter THEN "idle" ELSE "done")
    /\ target' = [target EXCEPT ![x] = NoCore]
    /\ restarting' = (restarting /\ x \notin Restarter)

Spawned(c) == process' = [process EXCEPT ![c] = "up"] /\ proc' = c

\* finishSpawn: the protocol, its health checker and the exit handler.
FinishSpawn(x, c) ==
    /\ ipc' = c /\ healthChecker' = c
    /\ checking' = checking \cup {c} /\ watched' = watched \cup {c}
    /\ restarts' = IF x \in Restarter THEN restarts + 1 ELSE restarts
    /\ Returned(x)

\* spawnCoreStdio has no await: the Core is there at once.
SpawnStdio(x) ==
    /\ transport = "stdio"
    /\ \E c \in Unused : Spawned(c) /\ FinishSpawn(x, c)
    /\ UNCHANGED <<transport, listening>>

\* spawnCoreSocket closes the server of an earlier spawn and creates its own.
SpawnSocket(x) ==
    /\ transport = "socket"
    /\ listening' = FALSE
    /\ Goes(x, "listen")
    /\ UNCHANGED <<transport, process, proc, ipc, healthChecker, health, target, counts>>

\* Scheduler.start(), or the spawn that ends a restart.
SpawnCore(x) ==
    /\ at[x] = IF x = Start THEN "idle" ELSE "respawn"
    /\ x # Stop
    /\ SpawnStdio(x) \/ SpawnSocket(x)

\* The server listens: the Core is spawned and has to connect.
ServerListens(x) ==
    /\ at[x] = "listen"
    /\ listening' = TRUE
    /\ \E c \in Unused : Spawned(c) /\ target' = [target EXCEPT ![x] = c]
    /\ Goes(x, "connect")
    /\ UNCHANGED <<transport, ipc, healthChecker, health, counts>>

\* Listening fails: the spawn throws, or, where sockets are not allowed at all, it
\* falls back to the pipes of the process.
ListenFails(x) ==
    /\ at[x] = "listen"
    /\ listening' = FALSE
    /\ \/ Returned(x) /\ UNCHANGED <<process, proc, ipc, healthChecker, health, restarts>>
       \/ \E c \in Unused : Spawned(c) /\ FinishSpawn(x, c)
    /\ UNCHANGED transport

\* The Core connects.  When a killCore has cleared procExitPromise meanwhile,
\* finishSpawn throws before it starts anything.
CoreConnects(x) ==
    LET c == target[x] IN
    /\ at[x] = "connect" /\ process[c] = "up" /\ listening
    /\ IF proc # NoCore
       THEN FinishSpawn(x, c)
       ELSE ipc' = c /\ healthChecker' = c /\ Returned(x) /\ UNCHANGED <<health, restarts>>
    /\ listening' = FALSE
    /\ UNCHANGED <<transport, process, proc>>

\* It does not connect in time: it is killed and awaited (see Exits), and the spawn
\* throws.
ConnectTimesOut(x) ==
    LET c == target[x] IN
    /\ at[x] = "connect"
    /\ IF Gone(c)
       THEN /\ proc' = NoCore /\ listening' = FALSE
            /\ Returned(x)
            /\ UNCHANGED process
       ELSE /\ process' = [process EXCEPT ![c] = "killed"]
            /\ Goes(x, "reap")
            /\ UNCHANGED <<proc, listening, target, restarting>>
    /\ UNCHANGED <<transport, ipc, healthChecker, health, restarts>>

----------------------------------------------------------------------------
(* killCore.                                                               *)

\* The health checker stops, and ipc.stop() is awaited.
KillBegins(x) ==
    /\ checking' = checking \ {healthChecker}
    /\ healthChecker' = NoCore
    /\ Goes(x, "stopping")
    /\ UNCHANGED <<transport, process, proc, ipc, listening, target, restarts>>

\* shutdown(), also while start() is still inside spawnCore.
Shutdown ==
    /\ at[Stop] = "idle" /\ at[Start] # "idle"
    /\ KillBegins(Stop)
    /\ UNCHANGED <<watched, restarting>>

AfterKill(x) == IF x = Stop THEN "done" ELSE "respawn"

\* SIGTERM: a Core that serves shuts down, a mute one does not.  Without a process,
\* or with one that has ended, there is nothing to wait for.
SendsTerm(x) ==
    /\ at[x] = "stopping"
    /\ ipc' = NoCore
    /\ IF proc = NoCore \/ (proc # NoCore /\ Gone(proc))
       THEN /\ Goes(x, AfterKill(x))
            /\ proc' = NoCore /\ listening' = FALSE
            /\ UNCHANGED <<process, target>>
       ELSE /\ process' = [process EXCEPT ![proc] = IF @ = "up" THEN "ending" ELSE @]
            /\ target' = [target EXCEPT ![x] = proc]
            /\ Goes(x, "term")
            /\ UNCHANGED <<proc, listening>>
    /\ UNCHANGED <<transport, healthChecker, health, counts>>

\* The grace period is over: SIGKILL.
GraceEnds(x) ==
    /\ at[x] = "term"
    /\ process' = [process EXCEPT ![target[x]] = "killed"]
    /\ Goes(x, "sigkill")
    /\ UNCHANGED <<transport, fields, health, target, counts>>

AwaitingExit(c) ==
    {x \in Caller : at[x] \in {"term", "sigkill", "reap"} /\ target[x] = c}

\* The process ends; procExitPromise resolves and whoever waits for it goes on in
\* the same turn: the kills to what follows them, a spawn to its exception.
Exits(c) ==
    LET waiters == AwaitingExit(c)
        spawner(x) == at[x] = "reap"
    IN /\ process' = [process EXCEPT ![c] = IF @ = "ending" THEN "exited" ELSE "crashed"]
       /\ proc' = IF waiters # {} THEN NoCore ELSE proc
       /\ listening' = (listening /\ waiters = {})
       /\ at' = [x \in Caller |->
                    IF x \notin waiters THEN at[x]
                    ELSE IF ~spawner(x) THEN AfterKill(x)
                    ELSE IF x \in Restarter THEN "idle" ELSE "done"]
       /\ target' = [x \in Caller |-> IF x \in waiters THEN NoCore ELSE target[x]]
       /\ restarting' = (restarting /\ ~\E x \in waiters \cap Restarter : spawner(x))
       /\ UNCHANGED <<transport, ipc, healthChecker, health, restarts>>

Terminates(c) == process[c] \in {"ending", "killed"} /\ Exits(c)

----------------------------------------------------------------------------
(* Callbacks and restarts.                                                 *)

\* Faulty: nothing keeps two restarts apart.
MayRestartTwice == restarts < MaxRestarts

MayRestart == ~restarting /\ restarts < MaxRestarts

\* restartCore: it kills the Core and spawns another, or throws at once because a
\* restart is in progress or the limit is reached.
RestartCore(x) ==
    /\ at[x] = "idle"
    /\ IF MayRestart
       THEN KillBegins(x) /\ restarting' = TRUE
       ELSE UNCHANGED <<transport, process, fields, checking, at, target, counts>>

\* The exit handler: every exit but code 0 is a crash, a SIGKILL of killCore too.
CrashCallback(x, c) ==
    /\ c \in watched /\ process[c] = "crashed"
    /\ watched' = watched \ {c}
    /\ RestartCore(x)

\* Faulty: only a process that has ended counts as unhealthy.
ExitCallback(x, c) ==
    /\ c \in checking /\ Gone(c)
    /\ RestartCore(x)
    /\ UNCHANGED watched

\* The interval of a health checker finds that no heartbeat was acknowledged for
\* too long; it finds so again at every interval until it is stopped.
HangCallback(x, c) ==
    /\ c \in checking /\ process[c] # "up"
    /\ RestartCore(x)
    /\ UNCHANGED watched

----------------------------------------------------------------------------
(* The Core process, external to the Supervisor.                           *)

GoesMute(c) ==
    /\ process[c] = "up"
    /\ process' = [process EXCEPT ![c] = "mute"]
    /\ UNCHANGED <<transport, fields, health, at, target, counts>>

Crashes(c) == c \in Living /\ process[c] # "killed" /\ Exits(c)

----------------------------------------------------------------------------
Spawns(x) ==
    SpawnCore(x) \/ ServerListens(x) \/ ListenFails(x) \/ CoreConnects(x)
    \/ ConnectTimesOut(x)

Kills(x) == SendsTerm(x) \/ GraceEnds(x)

Next ==
    \/ Shutdown
    \/ \E x \in Caller : Spawns(x) \/ Kills(x)
    \/ \E c \in Core : Terminates(c) \/ GoesMute(c) \/ Crashes(c)
    \/ \E x \in Restarter, c \in Core : CrashCallback(x, c) \/ HangCallback(x, c)

\* Awaits end: the Core connects or the timer fires, it exits or is killed; the
\* interval of a health checker runs.
Fairness ==
    /\ \A x \in Caller : WF_vars(Spawns(x)) /\ WF_vars(Kills(x))
    /\ \A c \in Core : WF_vars(Terminates(c))
    /\ \A c \in Core : WF_vars(\E x \in Restarter : HangCallback(x, c))

Spec == Init /\ [][Next]_vars /\ Fairness

----------------------------------------------------------------------------
(* Properties.                                                             *)

\* At most one Core process lives, and it is the one the Supervisor would kill, or
\* one that a call is about to reap: restarts, shutdown() and a start() that is
\* still waiting for its connection do not lose a process between them.
OneCore ==
    /\ \A c, d \in Living : c = d
    /\ \A c \in Living : c = proc \/ \E x \in Caller : target[x] = c

\* A Core that does not answer heartbeats is killed, whoever restarts it or shuts
\* it down meanwhile, unless the restarts are used up.
HangEnds ==
    <>[](\A c \in checking :
            process[c] = "mute" => Gone(c) \/ restarts = MaxRestarts \/ Unused = {})
=============================================================================
