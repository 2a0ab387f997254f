----------------------------- MODULE MCServices -----------------------------
(***************************************************************************)
(* Instances of the two services that run for long, the Scheduler and the  *)
(* Daemon, with the Supervisor and the dead letter queue of the former.    *)
(* The scenario is chosen at the start: one of them runs, the others rest. *)
(*                                                                         *)
(* The daemon has a source of each kind.  The trigger of the file watcher  *)
(* has a debounce time, a gate and an analyzer; that of the timer has a    *)
(* cooldown and pauses after two failures.                                 *)
(***************************************************************************)
EXTENDS Scheduler, Daemon, SchedulerServices, TLC

CONSTANTS ja, jb, jc, jd, je, k1, p1, p2, p3, r1, r2

\* ja and jb share a key.  In the queue jb comes first, then ja and je, then jc and
\* jd, each pair in the order of insertion.
MCJob == {ja, jb, jc, jd, je}
MCKey == {k1}
MCInteractive == {jb}
MCPriorityValue == ja :> 1 @@ jb :> 0 @@ jc :> 0 @@ jd :> 0 @@ je :> 1
MCKeyOf == ja :> k1 @@ jb :> k1 @@ jc :> NoKey @@ jd :> NoKey @@ je :> NoKey
MCJobMaxAttempts == ja :> 2 @@ jb :> 1 @@ jc :> 2 @@ jd :> 2 @@ je :> 2

CONSTANTS fs, cron, hook, cmd, c1, review, build

MCSource   == {fs, cron, hook, cmd}
MCKind     == fs :> "fswatch" @@ cron :> "cron" @@ hook :> "webhook" @@ cmd :> "command"
MCNone     == {}
MCChange   == {c1}
MCOutput   == {"", "new"}
MCTrigger  == {review, build}
MCOn       == review :> fs @@ build :> cron
MCDebounce == review :> 1 @@ build :> 0
MCCooldown == review :> 0 @@ build :> 1
MCBuild    == {build}
MCReview   == {review}
MCRetries  == review :> 0 @@ build :> 2

VARIABLE scenario

mcvars == <<vars, supervisorVars, letterVars, wholeVars, scenario>>

\* Two jobs with one key, a Core, and one kind of fault, without LATEST_WINS where
\* calls time out; "queue": four jobs pass the queue; "core": the Supervisor;
\* "letters": the dead letter queue; the others: the daemon, with the sources that
\* produce events besides the one stopped with them.
Fault == {"timeouts", "cancels", "crash"}

Active == [files |-> {fs, hook}, timer |-> {cron}, command |-> {cmd, fs}]

Scenario == Fault \cup {"queue", "core", "letters"} \cup DOMAIN Active

Offered == IF scenario \in Fault THEN {ja, jb} ELSE Job \ {ja}

MCInit == Init /\ Sup!Init /\ Dlq!Init /\ DaemonInit /\ scenario \in Scenario

Schedules ==
    /\ scenario \in Fault \cup {"queue"} /\ Next
    /\ submitted' \subseteq Offered
    /\ IF scenario = "timeouts" THEN replaced' = {} ELSE timeouts' = 0
    /\ scenario # "cancels" => cancels' = 0
    /\ scenario # "crash" => ~CoreCrashes
    /\ scenario = "queue" =>
           atCore' = atCore /\ timers' = timers /\ ending' = "no" /\ replaced' = {}
    /\ UNCHANGED <<supervisorVars, letterVars, wholeVars, scenario>>

Supervises ==
    /\ scenario = "core" /\ Sup!Next
    /\ UNCHANGED <<vars, letterVars, wholeVars, scenario>>

Buries ==
    /\ scenario = "letters" /\ Dlq!Next
    /\ UNCHANGED <<vars, supervisorVars, wholeVars, scenario>>

\* The timer alone meets the bounds of the specification, a crash one event less.
Triggers ==
    /\ scenario \in DOMAIN Active
    /\ \/ StartDaemon \/ Loop \/ Chain \/ Stop \/ GraceOver \/ Stopping \/ Tick \/ Crash
       \/ \E s \in Active[scenario] : SourceStep(s) /\ UNCHANGED daemonVars
    /\ IF scenario = "timer" THEN crashes' > 0 => emitted' < MaxEvents
                             ELSE clock' <= 1 /\ emitted' <= 3 /\ crashes' = 0
    /\ UNCHANGED <<vars, supervisorVars, letterVars, scenario>>

MCNext == Schedules \/ Supervises \/ Buries \/ Triggers

\* The fairness of Supervisor and of Daemon: those that rest enable none of it.
Rest == UNCHANGED <<vars, letterVars, wholeVars, scenario>>

MCFairness ==
    /\ \A x \in Sup!Caller :
          /\ WF_mcvars(scenario = "core" /\ Sup!Spawns(x) /\ Rest)
          /\ WF_mcvars(scenario = "core" /\ Sup!Kills(x) /\ Rest)
    /\ \A q \in Core :
          /\ WF_mcvars(scenario = "core" /\ Sup!Terminates(q) /\ Rest)
          /\ WF_mcvars(scenario = "core" /\ (\E x \in Restarter : Sup!HangCallback(x, q)) /\ Rest)
    /\ WF_wholeVars(Loop) /\ WF_wholeVars(Chain) /\ WF_wholeVars(Stopping)

MCSpec == MCInit /\ [][MCNext]_mcvars /\ MCFairness
=============================================================================
