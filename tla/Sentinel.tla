------------------------------ MODULE Sentinel ------------------------------
(***************************************************************************)
(* The stall sentinel (workflow/sentinel) over one step of a workflow: the *)
(* guards that the executor puts, one after the other, around each run and *)
(* each completion check of the step; the watcher of the worker's output   *)
(* and the watcher that runs a probe; and what the executor makes of a run *)
(* that the sentinel aborted.                                              *)
(*                                                                         *)
(* A watcher decides in one turn and acts in a later one: it first awaits  *)
(* the write of _stall/event.json, which may fail, and the probe watcher   *)
(* also awaits the probe and its log.  The run may end, and its guard be   *)
(* stopped, in any of these windows.                                       *)
(***************************************************************************)
EXTENDS Integers, FiniteSets, Sequences

CONSTANTS
    Guards,        \* how many runs and checks the step goes through
    Policies,      \* the stall policies that these may have, per run and check
    Digest,        \* digests of a probe's output
    MaxProbes,     \* bound: how many probes of a guard are judged
    MaxLost,       \* bound: how many writes of event.json fail
    Nil

Guard == 1..Guards
Kind == {"no_output", "no_progress", "terminal"}

\* timeout is no_output_timeout in ticks of the clock, 0 where there is none;
\* probe says whether the policy has one; stalls and errors are its
\* stall_threshold and probe_error_threshold.
Policy == [timeout: Nat, anyEvent: BOOLEAN, probe: BOOLEAN,
           stalls: Nat \ {0}, errors: Nat \ {0},
           onError: {"ignore", "stall", "terminal"},
           onStall: {"interrupt", "ignore"}, onTerminal: {"interrupt", "ignore"}]

\* What a probe reports: a class and a digest, or nothing that can be read.
Report == [class: {"failed", "terminal"}, digest: {Nil}]
          \cup [class: {"progressing", "unchanged"}, digest: Digest]

ASSUME SentinelAssumption ==
    /\ Policies \subseteq [Guard -> Policy] /\ Nil \notin Digest \cup Kind
    /\ Guards \in Nat /\ MaxProbes \in Nat /\ MaxLost \in Nat

VARIABLES
    policy,      \* per guard, the policy that resolveStallPolicy returned
    run,         \* per guard: "waiting", "running" or "ended", its run or check
    hung,        \* the runs that do nothing more of themselves
    signal,      \* the abort signal of the run, and who set it
    outcome,     \* what the executor made of the run
    silent,      \* ticks since the last activity that the tracker recorded
    output,      \* per guard, the NoOutputWatcher: what it is at, what it decided
    probe,       \* per guard, the NoProgressWatcher
    stopped,     \* the guards whose watchers were told to stop
    trigger,     \* per guard, lastTrigger
    heard,       \* history: per guard, the reports that were judged
    ran,         \* history: ticks that the guard's run has lasted
    lost         \* history: the guards for which a write of event.json failed

watchers == <<output, probe, trigger, heard, lost>>
sentinelVars == <<policy, run, hung, signal, outcome, silent, stopped, ran, watchers>>

Watcher(states) == [at: states, decided: Kind \cup {Nil}]

SentinelTypeOK ==
    /\ policy \in Policies
    /\ run \in [Guard -> {"waiting", "running", "ended"}] /\ hung \subseteq Guard
    /\ signal \in [Guard -> {"none", "sentinel", "workflow"}]
    /\ outcome \in [Guard -> {"none", "own", "on_stall", "on_terminal"}]
    /\ silent \in Nat
    /\ output \in [Guard -> Watcher({"off", "watching", "writing"})]
    /\ \A g \in Guard :
         /\ [at |-> probe[g].at, decided |-> probe[g].decided] \in
                Watcher({"off", "due", "probing", "logging", "writing", "noting"})
         /\ probe[g].report \in Report /\ probe[g].last \in Digest \cup {Nil}
         /\ probe[g].same \in Nat /\ probe[g].errors \in Nat
    /\ stopped \subseteq Guard /\ lost \subseteq Guard
    /\ trigger \in [Guard -> Kind \cup {Nil}]
    /\ heard \in [Guard -> Seq(Report)]
    /\ ran \in [Guard -> Nat]

NoReport == [class |-> "failed", digest |-> Nil]

\* A NoProgressWatcher that does nothing, with the trigger it decided for.
Dropped(decided) == [at |-> "off", decided |-> decided, report |-> NoReport,
                     last |-> Nil, same |-> 0, errors |-> 0]

SentinelInit ==
    /\ policy \in Policies
    /\ run = [g \in Guard |-> "waiting"] /\ hung = {}
    /\ signal = [g \in Guard |-> "none"]
    /\ outcome = [g \in Guard |-> "none"]
    /\ silent = 0
    /\ output = [g \in Guard |-> [at |-> "off", decided |-> Nil]]
    /\ probe = [g \in Guard |-> Dropped(Nil)]
    /\ stopped = {} /\ lost = {}
    /\ trigger = [g \in Guard |-> Nil]
    /\ heard = [g \in Guard |-> <<>>] /\ ran = [g \in Guard |-> 0]

-----------------------------------------------------------------------------
(* The step: its runs and checks, what they emit, and how they end.        *)

\* Faulty: the record of the step's last run is kept.
KeptRecord == silent

\* startGuard registers the step, with the time of now.
Registered == 0

\* guardStep or guardCheck, and the run or check that it guards.
StartRun(g) ==
    /\ run[g] = "waiting" /\ \A i \in 1..(g - 1) : run[i] = "ended"
    /\ "workflow" \notin {signal[i] : i \in Guard}
    /\ run' = [run EXCEPT ![g] = "running"]
    /\ hung' \in {hung, hung \cup {g}}
    /\ silent' = Registered
    /\ output' = [output EXCEPT ![g].at = IF policy[g].timeout > 0 THEN "watching" ELSE "off"]
    /\ probe' = [probe EXCEPT ![g].at = IF policy[g].probe THEN "due" ELSE "off"]
    /\ UNCHANGED <<policy, signal, outcome, stopped, ran, trigger, heard, lost>>

\* A worker_event of the step, or a step_phase or step_state, which counts
\* only when activity_source is any_event.
Event(g, worker) ==
    /\ run[g] = "running" /\ g \notin hung
    /\ worker \/ policy[g].anyEvent
    /\ silent' = 0
    /\ UNCHANGED <<policy, run, hung, signal, outcome, stopped, ran, watchers>>

Tick ==
    /\ \E g \in Guard :
         /\ run[g] = "running" /\ silent < policy[g].timeout
         /\ ran' = [ran EXCEPT ![g] = IF @ < policy[g].timeout THEN @ + 1 ELSE @]
    /\ silent' = silent + 1
    /\ UNCHANGED <<policy, run, hung, signal, outcome, stopped, watchers>>

\* The workflow is aborted: its listener aborts the controller of the run.
WorkflowAbort(g) ==
    /\ run[g] = "running" /\ signal[g] = "none"
    /\ signal' = [signal EXCEPT ![g] = "workflow"]
    /\ UNCHANGED <<policy, run, hung, outcome, silent, stopped, ran, watchers>>

\* resolveActionConfig: the part of the policy that says what the run becomes.
ActionConfig(g) == IF trigger[g] = "terminal" THEN "on_terminal" ELSE "on_stall"

\* The run ends, of itself or because it is aborted; the guard is stopped
\* (its stop(), and later the controller's stopAll) and the step unregistered;
\* a run that the sentinel aborted takes its outcome from the trigger,
\* whatever the runner returned.
RunEnds(g) ==
    /\ run[g] = "running"
    /\ g \notin hung \/ signal[g] # "none"
    /\ run' = [run EXCEPT ![g] = "ended"]
    /\ stopped' = stopped \cup {g}
    /\ output' = [output EXCEPT ![g].at = IF @ = "watching" THEN "off" ELSE @]
    /\ probe' = [probe EXCEPT ![g] = IF @.at = "due" THEN Dropped(Nil) ELSE @]
    /\ outcome' = [outcome EXCEPT ![g] = IF signal[g] = "sentinel" THEN ActionConfig(g) ELSE "own"]
    /\ UNCHANGED <<policy, hung, signal, silent, ran, trigger, heard, lost>>

-----------------------------------------------------------------------------
(* The end of both watchers' decisions.                                    *)

\* abort() of a controller that is aborted already has no effect.
Abort(g) == signal' = [signal EXCEPT ![g] = IF @ = "none" THEN "sentinel" ELSE @]

\* onTrigger and abortStep, after event.json is written.
Act(g, kind) ==
    /\ trigger' = [trigger EXCEPT ![g] = kind]
    /\ Abort(g)

-----------------------------------------------------------------------------
(* NoOutputWatcher                                                         *)

\* check() finds the step silent for as long as the timeout.  The watcher
\* that ignores only writes an event, once, and goes on.
OutputCheck(g) ==
    /\ output[g].at = "watching" /\ g \notin stopped
    /\ silent >= policy[g].timeout
    /\ policy[g].onStall # "ignore"
    /\ output' = [output EXCEPT ![g] = [at |-> "writing", decided |-> "no_output"]]
    /\ UNCHANGED <<policy, run, hung, signal, outcome, silent, stopped, ran, probe, trigger,
                   heard, lost>>

\* writeStallEvent returned.
OutputAct(g) ==
    /\ output[g].at = "writing"
    /\ output' = [output EXCEPT ![g].at = "off"]
    /\ Act(g, output[g].decided)
    /\ UNCHANGED <<policy, run, hung, outcome, silent, stopped, ran, probe, heard, lost>>

\* writeStallEvent threw: the check ends, and its timer is cleared already.
OutputWriteFails(g) ==
    /\ output[g].at = "writing" /\ Cardinality(lost) < MaxLost
    /\ output' = [output EXCEPT ![g].at = "off"]
    /\ lost' = lost \cup {g}
    /\ UNCHANGED <<policy, run, hung, signal, outcome, silent, stopped, ran, probe, trigger,
                   heard>>

-----------------------------------------------------------------------------
(* NoProgressWatcher                                                       *)

\* The timer fires and the probe's command is started.
ProbeStart(g) ==
    /\ probe[g].at = "due" /\ g \notin stopped
    /\ probe' = [probe EXCEPT ![g].at = "probing"]
    /\ UNCHANGED <<policy, run, hung, signal, outcome, silent, stopped, ran, output, trigger,
                   heard, lost>>

\* The probe ended, or its timeout came first, which is a failure.  When the
\* guard was stopped meanwhile, nothing follows.
ProbeEnd(g, report) ==
    /\ probe[g].at = "probing"
    /\ Len(heard[g]) < MaxProbes
    /\ probe' = [probe EXCEPT ![g] = IF g \in stopped THEN Dropped(Nil)
                                     ELSE [@ EXCEPT !.at = "logging", !.report = report]]
    /\ UNCHANGED <<policy, run, hung, signal, outcome, silent, stopped, ran, output, trigger,
                   heard, lost>>

\* The next timer, unless the watcher was stopped.
Rescheduled(g, p) == IF g \in stopped THEN Dropped(Nil) ELSE [p EXCEPT !.at = "due"]

Ignored(g, kind) ==
    (IF kind = "terminal" THEN policy[g].onTerminal ELSE policy[g].onStall) = "ignore"

\* The counts after a report.
Counted(p) ==
    LET r == p.report IN
    CASE r.class = "failed" -> [p EXCEPT !.errors = @ + 1]
      [] r.class = "terminal" -> [p EXCEPT !.errors = 0]
      [] r.class = "progressing" -> [p EXCEPT !.errors = 0, !.last = r.digest, !.same = 0]
      [] r.class = "unchanged" ->
           [p EXCEPT !.errors = 0, !.last = r.digest,
                     !.same = IF r.digest = p.last THEN @ + 1 ELSE 1]

\* What the counts say: the kind of trigger, or Nil.
Verdict(g, p) ==
    CASE p.report.class = "failed" ->
           IF policy[g].onError = "ignore" \/ p.errors < policy[g].errors THEN Nil
           ELSE IF policy[g].onError = "terminal" THEN "terminal" ELSE "no_progress"
      [] p.report.class = "terminal" -> "terminal"
      [] p.report.class = "progressing" -> Nil
      [] p.report.class = "unchanged" ->
           IF p.same < policy[g].stalls THEN Nil ELSE "no_progress"

\* An ignored trigger takes back the count that led to it.
Forgiven(p) ==
    CASE p.report.class = "failed" -> [p EXCEPT !.errors = 0]
      [] p.report.class = "unchanged" -> [p EXCEPT !.same = 0]
      [] OTHER -> p

\* The report is in the log, and runProbe goes on without another look at
\* whether the watcher was stopped.
ProbeJudge(g) ==
    LET p == Counted(probe[g])
        kind == Verdict(g, p)
        next == IF kind = Nil THEN Rescheduled(g, p)
                ELSE IF Ignored(g, kind) THEN [Forgiven(p) EXCEPT !.at = "noting"]
                ELSE [p EXCEPT !.at = "writing", !.decided = kind] IN
    /\ probe[g].at = "logging"
    /\ heard' = [heard EXCEPT ![g] = Append(@, p.report)]
    /\ probe' = [probe EXCEPT ![g] = [next EXCEPT !.report = NoReport]]
    /\ UNCHANGED <<policy, run, hung, signal, outcome, silent, stopped, ran, output, trigger,
                   lost>>

ProbeAct(g) ==
    /\ probe[g].at = "writing"
    /\ probe' = [probe EXCEPT ![g] = Dropped(@.decided)]
    /\ Act(g, probe[g].decided)
    /\ UNCHANGED <<policy, run, hung, outcome, silent, stopped, ran, output, heard, lost>>

\* The event of an ignored trigger is written, and the watcher goes on.
ProbeNoted(g) ==
    /\ probe[g].at = "noting"
    /\ probe' = [probe EXCEPT ![g] = Rescheduled(g, @)]
    /\ UNCHANGED <<policy, run, hung, signal, outcome, silent, stopped, ran, output, trigger,
                   heard, lost>>

\* writeStallEvent threw: runProbe does too, and no other probe is scheduled.
ProbeWriteFails(g) ==
    /\ probe[g].at \in {"writing", "noting"} /\ Cardinality(lost) < MaxLost
    /\ probe' = [probe EXCEPT ![g] = Dropped(@.decided)]
    /\ lost' = lost \cup {g}
    /\ UNCHANGED <<policy, run, hung, signal, outcome, silent, stopped, ran, output, trigger,
                   heard>>

-----------------------------------------------------------------------------

WatcherStep(g) == ProbeStart(g) \/ ProbeJudge(g) \/ ProbeNoted(g)

SentinelNext ==
    \/ Tick
    \/ \E g \in Guard :
         \/ StartRun(g) \/ RunEnds(g) \/ WorkflowAbort(g)
         \/ \E worker \in BOOLEAN : Event(g, worker)
         \/ OutputCheck(g) \/ OutputAct(g) \/ OutputWriteFails(g)
         \/ WatcherStep(g) \/ ProbeAct(g) \/ ProbeWriteFails(g)
         \/ \E report \in Report : ProbeEnd(g, report)

\* The timers fire, the probes and the writes return, and a run that is
\* aborted ends.  Nothing makes a run end of itself.
SentinelFairness ==
    /\ WF_sentinelVars(Tick)
    /\ \A g \in Guard :
         /\ WF_sentinelVars(signal[g] # "none" /\ RunEnds(g))
         /\ WF_sentinelVars(OutputCheck(g)) /\ WF_sentinelVars(OutputAct(g))
         /\ WF_sentinelVars(WatcherStep(g)) /\ WF_sentinelVars(ProbeAct(g))
         /\ WF_sentinelVars(\E report \in Report : ProbeEnd(g, report))

SentinelSpec == SentinelInit /\ [][SentinelNext]_sentinelVars /\ SentinelFairness

-----------------------------------------------------------------------------

\* From the n-th on, the reports that tell of progress.
Since(reports, n) ==
    {i \in n..Len(reports) : reports[i].class \in {"progressing", "unchanged"}}

\* The last n reports failed.
LastFailed(reports, n) ==
    n <= Len(reports) /\ \A i \in (Len(reports) - n + 1)..Len(reports) : reports[i].class = "failed"

\* Of the reports that tell of progress, the last n say that there was none, with
\* this digest.
LastSame(reports, n, digest) ==
    \E k \in 1..(Len(reports) + 1) :
      /\ Cardinality(Since(reports, k)) >= n
      /\ \A i \in Since(reports, k) : reports[i] = [class |-> "unchanged", digest |-> digest]

\* The reports that stand for a trigger of the probe watcher: the last is
\* terminal; or the last errors of them failed; or, of those that tell of
\* progress, the last stalls say the same and none that there was any.
Stands(g, kind, reports) ==
    \/ kind = "terminal" /\ reports # <<>> /\ reports[Len(reports)].class = "terminal"
    \/ /\ policy[g].onError = IF kind = "terminal" THEN "terminal" ELSE "stall"
       /\ LastFailed(reports, policy[g].errors)
    \/ kind = "no_progress" /\ \E d \in Digest : LastSame(reports, policy[g].stalls, d)

(* A run is declared stalled only on grounds of its own: for want of       *)
(* output, after it has run for the whole timeout itself, whatever the     *)
(* runs before it did; for want of progress or a terminal condition, on    *)
(* the reports of its own probes.  And the sentinel never aborts a run     *)
(* without leaving the trigger that its outcome is taken from.             *)
StallJustified ==
    \A g \in Guard :
      /\ output[g].decided # Nil => ran[g] = policy[g].timeout
      /\ probe[g].decided # Nil => Stands(g, probe[g].decided, heard[g])
      /\ signal[g] = "sentinel" => trigger[g] \in {output[g].decided, probe[g].decided} \ {Nil}
      /\ outcome[g] = "on_terminal" => "terminal" \in {probe[g].decided}

(* With the types of the runs.                                             *)
SentinelInv == SentinelTypeOK /\ StallJustified

(* A run that hangs is ended in the end: the sentinel aborts it, unless    *)
(* the policy ignores stalls or the record of the stall could not be       *)
(* written, which leaves the run unguarded.                                *)
HungEnded ==
    \A g \in hung :
      run[g] = "running" /\ policy[g].timeout > 0 /\ policy[g].onStall # "ignore" => g \in lost

=============================================================================
