------------------------ MODULE MCWorkflowExecutor ------------------------
(* Small workflows for the model checker. *)
EXTENDS WorkflowExecutor

MCStep == 1..3

\* A step with nothing special about it.
Plain ==
    [depends_on |-> {}, on_failure |-> "abort", max_retries |-> 0,
     completion_check |-> FALSE, max_iterations |-> 1,
     on_iterations_exhausted |-> "abort", inputs |-> FALSE,
     outputs |-> FALSE, hooks |-> {}, stall |-> FALSE,
     subworkflow |-> FALSE, scope_guard |-> FALSE, convergence |-> FALSE]

After(d, p) == [Plain EXCEPT !.depends_on = d, !.on_failure = p]

Flow(limit, locked, moves, defs) ==
    [concurrency |-> limit, branch_lock |-> locked,
     branch_transition |-> moves, steps |-> defs]

Policy == {"abort", "continue", "retry"}

\* Every shape of three steps (definition order is not dependency order in
\* the last one), every policy of the first step to run, one or two slots.
PolicyFlows ==
    LET Retrying(p) == [After({}, p) EXCEPT !.max_retries = 1]
    IN  {Flow(limit, FALSE, {}, defs) : limit \in 1..2,
            defs \in UNION {
               {<<Retrying(p), After({1}, "abort"), After({1, 2}, "abort")>>,
                <<Retrying(p), After({1}, "continue"), After({}, "abort")>>,
                <<Retrying(p), After({}, "continue"), After({1, 2}, "abort")>>,
                <<After({2}, "abort"), After({3}, "abort"), Retrying(p)>>}
               : p \in Policy}}

\* A completion check with everything that can happen around it, before a step
\* that depends on it.
Checked(p, e) ==
    [Plain EXCEPT !.on_failure = p, !.completion_check = TRUE,
        !.max_iterations = 2, !.on_iterations_exhausted = e,
        !.max_retries = 1]

CheckFlows ==
    {Flow(2, FALSE, {}, <<s, After({1}, "abort"), After({1, 2}, "abort")>>) :
        s \in {[Checked(p, e) EXCEPT !.outputs = o, !.stall = o,
                   !.scope_guard = g, !.convergence = g, !.subworkflow = o # g]
                : p \in {"abort", "continue", "retry"}, e \in {"abort", "continue"},
                  o \in BOOLEAN, g \in BOOLEAN}}

\* Management hooks on two independent steps that compete for one slot, and
\* on a dependent one.
HookFlows ==
    {Flow(limit, FALSE, {},
          <<[s EXCEPT !.hooks = h],
            [After(IF limit = 1 THEN {} ELSE {1}, "abort") EXCEPT !.hooks = h],
            After({1, 2}, "abort")>>) :
        s \in {[Plain EXCEPT !.stall = TRUE, !.on_failure = "continue"],
               Checked("abort", "continue")},
        h \in {Hook, {"pre_step", "post_step"}}, limit \in 1..2}

\* Branch lock, branch transition, inputs, outputs, exports, child workflows.
DataFlows ==
    {Flow(2, locked, moves,
          <<[Plain EXCEPT !.outputs = TRUE, !.subworkflow = w,
                          !.on_failure = p, !.max_retries = 1],
            [After({1}, "abort") EXCEPT !.inputs = TRUE, !.subworkflow = w # locked,
                                        !.outputs = TRUE],
            After({1, 2}, "abort")>>) :
        locked \in BOOLEAN, moves \in {{}, {1}}, w \in BOOLEAN,
        p \in {"continue", "retry"}}

\* Three steps for the liveness run: hooks that compete with launches for the
\* slots, a retry, a completion check, outputs whose collection may throw.  No
\* on_stall hook: its retry directive has no bound of its own.
LiveFlow(limit, d, h) ==
    Flow(limit, FALSE, {},
         <<[After({}, "retry") EXCEPT !.max_retries = 1, !.outputs = TRUE,
               !.hooks = h],
           [Checked("continue", "abort") EXCEPT !.hooks = h],
           [After(d, "abort") EXCEPT !.hooks = h]>>)

LiveFlows ==
    {LiveFlow(1, {1}, {"pre_step"}), LiveFlow(2, {1, 2}, {"pre_step"}),
     LiveFlow(2, {1}, {}),
     Flow(2, FALSE, {}, <<After({2}, "abort"), After({3}, "abort"),
                          Checked("retry", "abort")>>)}

AllFlows == PolicyFlows \cup CheckFlows \cup HookFlows \cup DataFlows \cup LiveFlows

(* What the executor promises about ending.  The first part is asked of    *)
(* the workflows without an on_stall hook.                                 *)
MCEnds == (wf \in LiveFlows => EndsUnlessStranded) /\ AbortEnds
=============================================================================
