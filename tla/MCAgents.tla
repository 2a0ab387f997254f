------------------------------ MODULE MCAgents ------------------------------
(***************************************************************************)
(* Instances of Mailbox, EventLog and Team for one run; the scenario says  *)
(* which of them runs.                                                     *)
(*                                                                         *)
(* Mailbox: a member's agent, the lead's broker, an inbox nobody reads, a  *)
(* broadcast and two messages to the lead.  The runs of housekeeping       *)
(* follow each other, or a second one overlaps with them (the last one of  *)
(* stop() with that of the timer).                                         *)
(*                                                                         *)
(* Team: three members, one of them a script, of whom two may run; and two *)
(* resident agents that find work, of whom one may run.                    *)
(***************************************************************************)
EXTENDS Mailbox, EventLog, Team, TLC

CONSTANTS lead, dev, ops, m1, m2, m3, b, h1, h2, x, y, z

MCTo == (m1 :> {dev, ops}) @@ (m2 :> {lead}) @@ (m3 :> {lead})
MCInbox == [r \in Reader |-> IF r \in Broker THEN lead ELSE dev]
MCSends == {{<<dev, m1>>, <<ops, m1>>}, {<<lead, m2>>, <<lead, m3>>}}

VARIABLE scenario

mcvars == <<vars, logVars, teamVars, scenario>>

Overlap == INSTANCE Mailbox WITH
    Housekeeper <- {h1, h2}, Sends <- {{<<dev, m1>>}}, MaxCrashes <- 0

Unsent == INSTANCE Mailbox WITH Sends <- {{}}

Residents == INSTANCE Team WITH
    Teammate <- {x, y}, Custom <- {}, Initial <- {x}, Busy <- {x}, MaxTeammates <- 1

\* One fault at a time.
InTurn(action) ==
    /\ scenario = "in turn" /\ action /\ late' + crashes' <= 1
    /\ UNCHANGED <<logVars, teamVars, scenario>>
Logging(action) == scenario = "log" /\ action /\ UNCHANGED <<vars, teamVars, scenario>>
Mixed(action) == scenario = "mixed" /\ action /\ UNCHANGED <<vars, logVars, scenario>>
Pure(action) == scenario = "residents" /\ action /\ UNCHANGED <<vars, logVars, scenario>>

MCInit ==
    /\ LogInit
    /\ \/ scenario = "in turn" /\ Init /\ TeamInit
       \/ scenario = "overlap" /\ Overlap!Init /\ TeamInit
       \/ scenario \in {"log", "mixed"} /\ Unsent!Init /\ TeamInit
       \/ scenario = "residents" /\ Unsent!Init /\ Residents!TeamInit

MCNext ==
    \/ InTurn(Next)
    \/ scenario = "overlap" /\ Overlap!Next /\ UNCHANGED <<logVars, teamVars, scenario>>
    \/ Logging(LogNext)
    \/ Mixed(TeamNext)
    \/ Pure(Residents!TeamNext)

(* Calls in progress go on, readers and housekeeping come back at their    *)
(* intervals, and time passes.  Nobody has to acknowledge anything.        *)
MailboxFairness ==
    /\ \A r \in Reader : /\ WF_mcvars(InTurn(ReaderNext(r)))
                         /\ WF_mcvars(InTurn(RecvList(r)))
                         /\ WF_mcvars(InTurn(Forget(r)))
                         /\ WF_mcvars(InTurn(r \in Broker /\ BrokerRun(r)))
    /\ \A h \in Housekeeper : WF_mcvars(InTurn(KeeperRun(h)))
    /\ \A h \in Housekeeper, i \in Member : WF_mcvars(InTurn(KeepList(h, i)))
    /\ \A c \in Copy : WF_mcvars(InTurn(Age("processing", c)))

(* Timers fire, awaited calls return, the clock runs.  A process that was  *)
(* killed ends; a live one need not.                                       *)
MemberFairness ==
    /\ \A e \in Editor : WF_mcvars(Mixed(EditWrite(e)) \/ Pure(Residents!EditWrite(e)))
    /\ \A a \in Agent :
        WF_mcvars(agent[a].cli = "dying"
                  /\ (Mixed(CliEnds(a)) \/ Pure(Residents!CliEnds(a))))
    /\ \A t \in Tick :
        /\ WF_mcvars(Mixed(ReconcileStart(t)) \/ Pure(Residents!ReconcileStart(t)))
        /\ WF_mcvars(Mixed(ReconcileNext(t)) \/ Pure(Residents!ReconcileNext(t)))
    /\ WF_mcvars(Mixed(StartNext) \/ Pure(Residents!StartNext))
    /\ WF_mcvars(Mixed(StopNext) \/ Pure(Residents!StopNext))
    /\ WF_mcvars(Mixed(MinutePasses) \/ Pure(Residents!MinutePasses))

MCSpec == MCInit /\ [][MCNext]_mcvars /\ MailboxFairness /\ MemberFairness

(* The mailbox settles, where two housekeepers do not undo each other's    *)
(* count of attempts for ever, and the team converges.                     *)
MCSettles ==
    <>[](/\ scenario = "in turn" => Settled
         /\ scenario = "mixed" => Converged
         /\ scenario = "residents" => Residents!Converged)
=============================================================================
