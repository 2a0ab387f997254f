--------------------------- MODULE CompletionCheck ---------------------------
(***************************************************************************)
(* The completion checks of a workflow's steps (runCheck of the two step   *)
(* runners, workflow/completion-decision.ts).  After each iteration of a   *)
(* step a worker is asked whether the step is complete.  It answers by the *)
(* decision file of the check, which outlives the check and may be shared  *)
(* with other steps, or by what it prints.  The answer should name the     *)
(* check, by the id that the worker was given; one that does not counts    *)
(* when the file is not too old.                                           *)
(*                                                                         *)
(* File times may be rounded down.  The file is first stat'ed, then read.  *)
(***************************************************************************)
EXTENDS Integers, FiniteSets

CONSTANTS
    Check,         \* the checks; a check is also its checkId
    Orders,        \* what checks there may be: functions from Check to Def
    None,
    Grace,         \* STALE_DECISION_FILE_GRACE_MS in ticks of the clock
    Granularity,   \* the file times are multiples of it, or exact
    MaxTime,       \* bound: the last tick of the clock
    MaxWrites      \* bound: how often a worker writes the file

\* The check of the step's iteration before, or None; and whether its worker is
\* CUSTOM: a script and its exit code.
Def == [previous: Check \cup {None}, custom: BOOLEAN]

ASSUME ChecksAssumption ==
    /\ Orders \subseteq [Check -> Def] /\ None \notin Check
    /\ Granularity \in Nat \ {0} /\ Grace \in Nat /\ Grace >= Granularity - 1
    /\ MaxTime \in Nat /\ MaxWrites \in Nat

Decision == {"complete", "incomplete"}

\* An answer: JSON with an id or without one, a marker (PASS, FAIL, COMPLETE,
\* INCOMPLETE), or nothing that can be parsed.
Answer == [form: {"json"}, id: Check \cup {None}, decision: Decision]
          \cup [form: {"marker"}, id: {None}, decision: Decision]
          \cup [form: {"nothing"}, id: {None}, decision: {"incomplete"}]

Nothing == [form |-> "nothing", id |-> None, decision |-> "incomplete"]

VARIABLES
    def,        \* per check, its definition
    now,
    await,      \* per check, the await that runCheck is in
    started,    \* checkStartedAt
    stray,      \* the checks that were given up while their worker goes on
    file,       \* the decision file: None or an answer, its writer and its time
    writes,     \* per check, how often its worker wrote the file
    printed,    \* per check, the text of its worker
    mtime,      \* per check, the time that stat returned
    decision,    \* per check, what runCheck returned
    basis,      \* history: the channel that the decision was taken from
    read        \* history: the file as it was read

checkVars == <<def, now, await, started, stray, file, writes, printed, mtime, decision, basis, read>>

File == [answer: Answer, by: Check, time: 0..MaxTime] \cup {None}

\* The absence of a file is not a file.
ASSUME NoFile == None \notin [answer: Answer, by: Check, time: 0..MaxTime]

ChecksTypeOK ==
    /\ def \in Orders
    /\ now \in 0..MaxTime
    /\ await \in [Check -> {"waiting", "running", "stat", "reading", "done"}]
    /\ started \in [Check -> 0..MaxTime] /\ stray \subseteq Check
    /\ file \in File /\ writes \in [Check -> 0..MaxWrites]
    /\ printed \in [Check -> Answer] /\ mtime \in [Check -> 0..MaxTime]
    /\ decision \in [Check -> Decision \cup {"none", "undecided", "failed"}]
    /\ basis \in [Check -> {"none", "file", "text"}] /\ read \in [Check -> File]

ChecksInit ==
    /\ def \in Orders
    /\ now = 0 /\ stray = {} /\ file = None
    /\ await = [c \in Check |-> "waiting"] /\ started = [c \in Check |-> 0]
    /\ writes = [c \in Check |-> 0] /\ printed = [c \in Check |-> Nothing]
    /\ mtime = [c \in Check |-> 0] /\ decision = [c \in Check |-> "none"]
    /\ basis = [c \in Check |-> "none"] /\ read = [c \in Check |-> None]

---------------------------------------------------------------------------
(* The worker.                                                             *)

TimePasses ==
    /\ now < MaxTime /\ \E c \in Check : await[c] # "done"
    /\ now' = now + 1
    /\ UNCHANGED <<def, await, started, stray, file, writes, printed, mtime, decision, basis, read>>

\* A step comes to a check again when the check before did not complete it: the
\* next iteration, or a retry.
StartCheck(c) ==
    /\ await[c] = "waiting"
    /\ def[c].previous # None => decision[def[c].previous] \notin {"none", "complete"}
    /\ await' = [await EXCEPT ![c] = "running"]
    /\ started' = [started EXCEPT ![c] = now]
    /\ UNCHANGED <<def, now, stray, file, writes, printed, mtime, decision, basis, read>>

\* A worker names its own check, or none, or the one that it finds in the file.
Named(c) == {c, None} \cup (IF file = None THEN {} ELSE {file.answer.id})

\* The worker writes the file; the worker of a check that was given up may do
\* so after the check is over.
WriteFile(c, answer, time) ==
    /\ await[c] = "running" \/ c \in stray
    /\ ~def[c].custom /\ writes[c] < MaxWrites
    /\ answer.id \in Named(c)
    /\ file' = [answer |-> answer, by |-> c, time |-> time]
    /\ writes' = [writes EXCEPT ![c] = @ + 1]
    /\ UNCHANGED <<def, now, await, started, stray, printed, mtime, decision, basis, read>>

Returns(c, result) ==
    /\ await' = [await EXCEPT ![c] = "done"]
    /\ decision' = [decision EXCEPT ![c] = result]

\* The worker succeeds; what it printed may hold an answer as well.
WorkerSucceeds(c, text) ==
    /\ await[c] = "running" /\ ~def[c].custom
    /\ text.id \in Named(c)
    /\ await' = [await EXCEPT ![c] = "stat"]
    /\ printed' = [printed EXCEPT ![c] = text]
    /\ UNCHANGED <<def, now, started, stray, file, writes, mtime, decision, basis, read>>

\* The worker fails, is cancelled or is late; some of it may go on.
WorkerFails(c) ==
    /\ await[c] = "running"
    /\ Returns(c, "failed")
    /\ stray' = stray \cup {c}
    /\ UNCHANGED <<def, now, started, file, writes, printed, mtime, basis, read>>

\* The script of a CUSTOM check: exit 0, exit 1, or another exit.
ScriptEnds(c) ==
    /\ await[c] = "running" /\ def[c].custom
    /\ \E result \in Decision \cup {"failed"} : Returns(c, result)
    /\ UNCHANGED <<def, now, started, stray, file, writes, printed, mtime, basis, read>>

---------------------------------------------------------------------------
(* resolveCompletionDecision                                               *)

\* An answer without an id counts when the file is not older than the check by
\* more than the grace.
Fresh(c) == mtime[c] + Grace >= started[c]

\* Faulty: whatever check the file names.
AnyId(c, f) == f # None /\ f.answer.form # "nothing" /\ Fresh(c)

\* tryDecisionFromFile, applyCheckIdToDecision
InFile(c, f) ==
    /\ f # None /\ f.answer.form # "nothing"
    /\ IF f.answer.id = None THEN Fresh(c) ELSE f.answer.id = c

\* tryDecisionFromWorkerText, parseStructuredDecisionFromLines
InText(c) == printed[c].form # "nothing" /\ printed[c].id \in {c, None}

\* The text, or "could not parse completion decision", which the step takes for
\* incomplete.
FromText(c) ==
    /\ Returns(c, IF InText(c) THEN printed[c].decision ELSE "undecided")
    /\ basis' = [basis EXCEPT ![c] = IF InText(c) THEN "text" ELSE "none"]

\* stat: there is no file, or its time is kept.
Stat(c) ==
    /\ await[c] = "stat"
    /\ IF file = None
       THEN FromText(c) /\ UNCHANGED mtime
       ELSE /\ await' = [await EXCEPT ![c] = "reading"]
            /\ mtime' = [mtime EXCEPT ![c] = file.time]
            /\ UNCHANGED <<decision, basis>>
    /\ UNCHANGED <<def, now, started, stray, file, writes, printed, read>>

ReadFile(c) ==
    /\ await[c] = "reading"
    /\ read' = [read EXCEPT ![c] = file]
    /\ IF InFile(c, file)
       THEN Returns(c, file.answer.decision) /\ basis' = [basis EXCEPT ![c] = "file"]
       ELSE FromText(c)
    /\ UNCHANGED <<def, now, started, stray, file, writes, printed, mtime>>

---------------------------------------------------------------------------

ChecksNext ==
    \/ TimePasses
    \/ \E c \in Check :
        \/ StartCheck(c) \/ WorkerFails(c) \/ ScriptEnds(c) \/ Stat(c) \/ ReadFile(c)
        \/ \E answer \in Answer : \E time \in {now, now - (now % Granularity)} : WriteFile(c, answer, time)
        \/ \E text \in Answer : WorkerSucceeds(c, text)

ChecksSpec == ChecksInit /\ [][ChecksNext]_checkVars

(* Whoever shares the file and in whatever order they write it: an answer  *)
(* of another check's worker decides a check only when it names this check *)
(* and not its writer's, or when it names none and was written no longer   *)
(* before the check began than the grace lasts.                            *)
NotMistaken ==
    \A c \in Check : basis[c] = "file" /\ read[c].by # c =>
        /\ read[c].answer.id \in {c, None}
        /\ read[c].answer.id = None => read[c].time + Grace >= started[c]

(* What the worker of a check wrote for this check is heard, when nobody   *)
(* else wrote the file since: it is not taken for stale because the file   *)
(* system rounds its time, and the text does not overrule it.              *)
OwnHeard ==
    \A c \in Check :
        /\ read[c] # None /\ read[c].by = c
        /\ read[c].answer.form # "nothing" /\ read[c].answer.id \in {c, None}
        => decision[c] = read[c].answer.decision

\* A step is complete when a worker said so: never by an answer that could not
\* be parsed, nor by two of which the wrong one is taken.
CompleteWasSaid ==
    \A c \in Check : ~def[c].custom /\ decision[c] = "complete" =>
        IF basis[c] = "file" THEN read[c].answer.decision = "complete"
        ELSE basis[c] = "text" /\ printed[c].decision = "complete" /\ printed[c].id \in {c, None}

DecisionsFounded == NotMistaken /\ OwnHeard /\ CompleteWasSaid

(* With the types of the checks.                                           *)
ChecksInv == ChecksTypeOK /\ DecisionsFounded
=============================================================================
