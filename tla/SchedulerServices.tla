-------------------------- MODULE SchedulerServices --------------------------
(***************************************************************************)
(* What a Scheduler owns beside its queue: the Supervisor of its Core and  *)
(* its dead letter queue.  They share no state with it or with each other; *)
(* their variables have names here that do not meet those of the Scheduler *)
(* and the Daemon.                                                         *)
(***************************************************************************)
EXTENDS Naturals

CONSTANTS
    Core, NoCore, Restarter, Transport, MaxRestarts,
    Letter, MaxSize

VARIABLES
    transport, process, proc, ipc, healthChecker, checking, watched, listening,
    place, target, restarting, restarts,
    entries, file, intact, pushed, taken

supervisorVars == <<transport, process, proc, ipc, healthChecker, checking, watched, listening,
                   place, target, restarting, restarts>>
letterVars == <<entries, file, intact, pushed, taken>>

Sup == INSTANCE Supervisor WITH at <- place

Dlq == INSTANCE DeadLetterQueue

ASSUME InstancesFit == Sup!SupervisorConstants /\ Dlq!DlqConstants

\* One Core at most lives, and the Supervisor knows it (Supervisor.OneCore).
SupervisorInv == Sup!TypeOK /\ Sup!OneCore

\* A restart gives back what was not taken (DeadLetterQueue.LettersKept).
LettersInv == Dlq!TypeOK /\ Dlq!LettersKept

\* A Core that does not answer is killed (Supervisor.HangEnds).
HangEnds == Sup!HangEnds
=============================================================================
