----------------------------- MODULE Management -----------------------------
(***************************************************************************)
(* The management agent (workflow/management): invokeHook of its           *)
(* controller, from the call of the executor to the directive it returns,  *)
(* with either engine.  The worker engine runs one worker per hook, which  *)
(* leaves its decision in a file of the hook's own directory.  The Pi      *)
(* engine prompts an agent in one session that all hooks share, and the    *)
(* agent answers by a tool that leaves the decision in fields of the       *)
(* engine.  Steps run concurrently, and so do their hooks.                 *)
(*                                                                         *)
(* What the executor does with a directive is in WorkflowExecutor.         *)
(***************************************************************************)
EXTENDS Integers, FiniteSets

CONSTANTS
    Hooks,              \* how many hooks are invoked
    KindOf,             \* the hook that an invocation is of
    Engines,            \* of "worker" and "pi", the ones that may be configured
    Directives,         \* what the agent may answer
    MaxInterventions,   \* max_consecutive_interventions
    Concurrency,        \* how many hooks are answered at a time
    Unset

\* The invocations, in the order of the calls; each has a hook_id of its own.
Hook == 1..Hooks

Actions == {"proceed", "skip", "modify_instructions", "force_complete", "force_incomplete",
            "retry", "abort_workflow", "adjust_timeout", "annotate"}
Kinds == {"pre_step", "post_step", "pre_check", "post_check", "on_stall"}

ASSUME ManagementAssumption ==
    /\ Hooks \in Nat /\ KindOf \in [Hook -> Kinds] /\ Engines \subseteq {"worker", "pi"}
    /\ Directives \subseteq Actions /\ Unset \notin Hook /\ Unset \notin Actions
    /\ MaxInterventions \in Nat \ {0} /\ Concurrency \in Nat \ {0}

VARIABLES
    engine,      \* the engine that is configured
    await,       \* per hook, the await that its invocation is in
    answer,      \* per hook, the directive that it is about to return
    streak,      \* consecutiveInterventions
    closing,     \* less than min_remaining_time is left of the workflow
    wfAborted,   \* the workflow is aborted
    session,     \* PiSdkEngine.session and sessionPromise
    accepting,   \* PiSdkEngine.acceptingToolCalls
    captured,    \* PiSdkEngine.capturedHookId and capturedDirective
    turn,        \* per hook, what its prompt or worker still is to do
    file,        \* per hook, decision.json
    given        \* history: per hook, what was decided under its hook_id

engineVars == <<session, accepting, captured, turn, file, given>>
hookVars == <<engine, await, answer, streak, closing, wfAborted, engineVars>>

Awaits == {"idle", "bypass", "context", "session", "asking", "audit", "logging", "done"}
Decision == [hook: Hook \cup {Unset}, directive: Directives]

HooksTypeOK ==
    /\ engine \in Engines
    /\ await \in [Hook -> Awaits] /\ answer \in [Hook -> Actions]
    /\ streak \in Nat /\ closing \in BOOLEAN /\ wfAborted \in BOOLEAN
    /\ session \in {"none", "creating", "ready", "failed"} /\ accepting \in BOOLEAN
    /\ captured \in Decision \cup {Unset}
    /\ turn \in [Hook -> {"none", "open", "over"}]
    /\ file \in [Hook -> Decision \cup {Unset}]
    /\ given \in [Hook -> SUBSET Directives]

HooksInit ==
    /\ engine \in Engines
    /\ await = [h \in Hook |-> "idle"] /\ answer = [h \in Hook |-> "proceed"]
    /\ streak = 0 /\ closing = FALSE /\ wfAborted = FALSE
    /\ session = "none" /\ accepting = FALSE /\ captured = Unset
    /\ turn = [h \in Hook |-> "none"] /\ file = [h \in Hook |-> Unset]
    /\ given = [h \in Hook |-> {}]

Goes(h, next) == await' = [await EXCEPT ![h] = next]

InFlight == {h \in Hook : await[h] \notin {"idle", "done"}}

-----------------------------------------------------------------------------
(* The permission matrix and the status a step must have.                  *)

PermittedAt(directive) ==
    CASE directive = "skip" -> {"pre_step"}
      [] directive = "modify_instructions" -> {"pre_step", "pre_check", "on_stall"}
      [] directive \in {"force_complete", "force_incomplete"} -> {"post_check"}
      [] directive = "retry" -> {"on_stall"}
      [] directive = "adjust_timeout" -> {"pre_step", "pre_check"}
      [] OTHER -> Kinds

\* The status that the executor passes with each hook; after a step it is a
\* terminal one.
StatusAt(kind) ==
    CASE kind = "pre_step" -> "READY"
      [] kind = "on_stall" -> "RUNNING"
      [] kind = "post_step" -> "TERMINAL"
      [] OTHER -> "CHECKING"

\* validateDirective
Permitted(directive, kind) ==
    /\ kind \in PermittedAt(directive)
    /\ directive = "skip" => StatusAt(kind) = "READY"
    /\ directive \in {"force_complete", "force_incomplete"} => StatusAt(kind) = "CHECKING"
    /\ directive = "adjust_timeout" => StatusAt(kind) \in {"READY", "CHECKING"}
    /\ directive = "retry" => StatusAt(kind) = "RUNNING"

-----------------------------------------------------------------------------
(* The controller                                                          *)

Bypassed == closing \/ streak >= MaxInterventions

\* The executor invokes a hook.
Call(h) ==
    /\ await[h] = "idle" /\ \A i \in 1..(h - 1) : await[i] # "idle"
    /\ Cardinality(InFlight) < Concurrency
    /\ Goes(h, IF Bypassed THEN "bypass" ELSE "context")
    /\ UNCHANGED <<engine, answer, streak, closing, wfAborted, engineVars>>

\* A hook that is bypassed starts the count of interventions again.
Bypass(h) ==
    /\ await[h] = "bypass"
    /\ Goes(h, "logging")
    /\ streak' = IF streak >= MaxInterventions THEN 0 ELSE streak
    /\ UNCHANGED <<engine, answer, closing, wfAborted, engineVars>>

\* The invocation's directory and input.json are written, and the engine is
\* called.  The Pi engine forgets what it has captured, of whichever hook.
ContextWritten(h) ==
    /\ await[h] = "context"
    /\ \/ wfAborted /\ Goes(h, "done") /\ UNCHANGED engineVars
       \/ /\ ~wfAborted /\ engine = "worker"
          /\ Goes(h, "asking")
          /\ turn' = [turn EXCEPT ![h] = "open"]
          /\ UNCHANGED <<session, accepting, captured, file, given>>
       \/ /\ ~wfAborted /\ engine = "pi"
          /\ Goes(h, "session")
          /\ captured' = Unset /\ accepting' = TRUE
          /\ session' = IF session = "none" THEN "creating" ELSE session
          /\ UNCHANGED <<turn, file, given>>
    /\ UNCHANGED <<engine, answer, streak, closing, wfAborted>>

\* The engine returned: the directive is validated, the count of interventions
\* brought up to date, and the decision logged.
Conclude(h, directive, genuine) ==
    LET valid == Permitted(directive, KindOf[h])
        final == IF valid THEN directive ELSE "proceed" IN
    /\ Goes(h, "logging")
    /\ answer' = [answer EXCEPT ![h] = final]
    /\ streak' = IF final = "proceed" THEN 0 ELSE IF genuine THEN streak + 1 ELSE streak

\* The engine gives up on a hook: its directive is to proceed.
Fallback(h) ==
    /\ Conclude(h, "proceed", FALSE)
    /\ accepting' = FALSE
    /\ UNCHANGED <<engine, closing, wfAborted, session, captured, file, given>>

\* The line is in decisions.jsonl, and the directive goes to the executor.
Logged(h) ==
    /\ await[h] = "logging"
    /\ Goes(h, "done")
    /\ wfAborted' = (wfAborted \/ answer[h] = "abort_workflow")
    /\ UNCHANGED <<engine, answer, streak, closing, engineVars>>

\* The line could not be written: invokeHook throws, and the executor goes on
\* without the directive.
LogFails(h) ==
    /\ await[h] = "logging"
    /\ Goes(h, "done")
    /\ answer' = [answer EXCEPT ![h] = "proceed"]
    /\ UNCHANGED <<engine, streak, closing, wfAborted, engineVars>>

-----------------------------------------------------------------------------
(* PiSdkEngine                                                             *)

\* createSession returns, or throws: the promise that failed is kept.
SessionEnds(how) ==
    /\ session = "creating"
    /\ session' = how
    /\ UNCHANGED <<engine, await, answer, streak, closing, wfAborted, accepting, captured,
                   turn, file, given>>

\* The session, which may have been disposed meanwhile, is prompted.
PromptStart(h) ==
    /\ await[h] = "session" /\ session \in {"ready", "none"}
    /\ Goes(h, "asking")
    /\ turn' = [turn EXCEPT ![h] = "open"]
    /\ UNCHANGED <<engine, answer, streak, closing, wfAborted, session, accepting, captured,
                   file, given>>

NoSession(h) ==
    /\ await[h] = "session" /\ session = "failed"
    /\ Fallback(h) /\ UNCHANGED turn

\* The agent calls the decision tool, once in each turn, with the hook_id of
\* the prompt or with one that it was given before.  A turn whose hook has
\* timed out may still be going on.
ToolCall(h, id, directive) ==
    /\ engine = "pi" /\ turn[h] = "open" /\ turn[id] # "none" /\ accepting
    /\ captured' = [hook |-> id, directive |-> directive]
    /\ given' = IF await[id] = "done" THEN given ELSE [given EXCEPT ![id] = @ \cup {directive}]
    /\ turn' = [turn EXCEPT ![h] = "over"]
    /\ UNCHANGED <<engine, await, answer, streak, closing, wfAborted, session, accepting, file>>

\* The tool rejects the call: no invocation is open.
ToolRejects(h) ==
    /\ engine = "pi" /\ turn[h] = "open" /\ ~accepting
    /\ turn' = [turn EXCEPT ![h] = "over"]
    /\ UNCHANGED <<engine, await, answer, streak, closing, wfAborted, session, accepting,
                   captured, file, given>>

\* Faulty: whatever was captured is taken for the answer.
Anyones(h) == captured # Unset

\* The decision that was captured is of this hook.
Answered(h) == captured # Unset /\ captured.hook = h

\* session.prompt returns.
PromptEnds(h) ==
    /\ engine = "pi" /\ await[h] = "asking"
    /\ turn' = [turn EXCEPT ![h] = "over"]
    /\ \/ /\ Answered(h)
          /\ Goes(h, "audit")
          /\ answer' = [answer EXCEPT ![h] = captured.directive]
          /\ accepting' = FALSE
          /\ UNCHANGED <<engine, streak, closing, wfAborted, session, captured, file, given>>
       \/ ~Answered(h) /\ Fallback(h)

\* decision.json is written, and the finally of invokeHook refuses the calls
\* of the tool once more.
Audited(h) ==
    /\ await[h] = "audit"
    /\ Conclude(h, answer[h], TRUE)
    /\ accepting' = FALSE
    /\ UNCHANGED <<engine, closing, wfAborted, session, captured, turn, file, given>>

\* The prompt throws, or decision.json cannot be written.
PromptFails(h) ==
    /\ engine = "pi" /\ await[h] \in {"asking", "audit"}
    /\ Fallback(h)
    /\ turn' = [turn EXCEPT ![h] = "over"]

\* stop() of the controller, at the end of the workflow, disposes the session.
Dispose ==
    /\ wfAborted /\ session = "ready"
    /\ session' = "none"
    /\ UNCHANGED <<engine, await, answer, streak, closing, wfAborted, accepting, captured,
                   turn, file, given>>

-----------------------------------------------------------------------------
(* WorkerEngine                                                            *)

\* The worker writes decision.json, with a hook_id or without one.
WorkerWrites(h, id, directive) ==
    /\ engine = "worker" /\ turn[h] = "open"
    /\ file' = [file EXCEPT ![h] = [hook |-> id, directive |-> directive]]
    /\ given' = IF id \in {h, Unset} /\ await[h] # "done" THEN [given EXCEPT ![h] = @ \cup {directive}] ELSE given
    /\ turn' = [turn EXCEPT ![h] = "over"]
    /\ UNCHANGED <<engine, await, answer, streak, closing, wfAborted, session, accepting,
                   captured>>

\* The worker returns or throws: its file, when there is one and its hook_id
\* does not say another hook, is the decision (resolveManagementDecision).
WorkerEnds(h) ==
    /\ engine = "worker" /\ await[h] = "asking"
    /\ IF file[h] # Unset /\ file[h].hook \in {h, Unset}
       THEN Conclude(h, file[h].directive, TRUE)
       ELSE Conclude(h, "proceed", FALSE)
    /\ turn' = [turn EXCEPT ![h] = "over"]
    /\ UNCHANGED <<engine, closing, wfAborted, session, accepting, captured, file, given>>

-----------------------------------------------------------------------------

\* The time for the hook is over, or the workflow is aborted.  The prompt or
\* the worker is told to stop, and nobody waits until it has.
Expire(h) ==
    /\ await[h] = "asking"
    /\ Fallback(h) /\ UNCHANGED turn

\* The workflow comes near its timeout, or is aborted.
WorkflowNearsEnd ==
    /\ ~closing /\ \E h \in Hook : await[h] = "idle"
    /\ closing' = TRUE
    /\ UNCHANGED <<engine, await, answer, streak, wfAborted, engineVars>>

WorkflowAborted ==
    /\ ~wfAborted /\ \E h \in Hook : await[h] # "done"
    /\ wfAborted' = TRUE
    /\ UNCHANGED <<engine, await, answer, streak, closing, engineVars>>

HookStep(h) ==
    \/ Bypass(h) \/ ContextWritten(h) \/ PromptStart(h) \/ NoSession(h)
    \/ Audited(h) \/ Expire(h) \/ Logged(h)

HooksNext ==
    \/ \E h \in Hook :
         \/ Call(h) \/ HookStep(h) \/ LogFails(h)
         \/ \E id \in Hook, d \in Directives : ToolCall(h, id, d)
         \/ ToolRejects(h) \/ PromptEnds(h) \/ PromptFails(h)
         \/ \E id \in Hook \cup {Unset}, d \in Directives : WorkerWrites(h, id, d)
         \/ WorkerEnds(h)
    \/ \E how \in {"ready", "failed"} : SessionEnds(how)
    \/ Dispose \/ WorkflowNearsEnd \/ WorkflowAborted

\* The awaits of file operations return, and the timeout of a hook fires.
\* The creation of a session is assumed to end, since no timeout covers it.
HooksFairness ==
    /\ \A h \in Hook : WF_hookVars(HookStep(h))
    /\ WF_hookVars(\E how \in {"ready", "failed"} : SessionEnds(how))

HooksSpec == HooksInit /\ [][HooksNext]_hookVars /\ HooksFairness

-----------------------------------------------------------------------------

(* A directive other than proceed is one that was decided under the hook's *)
(* own hook_id, and one that is permitted at this hook: concurrent hooks   *)
(* and late answers are never taken for each other.                        *)
Attributed ==
    \A h \in Hook :
      await[h] \in {"logging", "done"} /\ answer[h] # "proceed" =>
          answer[h] \in given[h] /\ KindOf[h] \in PermittedAt(answer[h])

(* The hooks that are in flight together may each pass the limit of        *)
(* consecutive interventions once, and no more than that.                  *)
InterventionsBounded == streak < MaxInterventions + Concurrency

(* Both, with the types of the hooks.                                      *)
HooksInv == HooksTypeOK /\ Attributed /\ InterventionsBounded

(* Every invocation of a hook returns in the end: by a decision, or by its *)
(* timeout.                                                                *)
HooksReturned == InFlight = {}

=============================================================================
