------------------------------ MODULE Executor ------------------------------
(***************************************************************************)
(* DAGExecutor.execute (app/orchestration/executor.py): one plan run wave  *)
(* by wave.  A wave is every remaining step whose dependencies have a      *)
(* result; its agents run concurrently under asyncio.gather, on ONE        *)
(* database session, and nothing is visible to another transaction before  *)
(* the single commit at the end.                                           *)
(***************************************************************************)
EXTENDS Statuses, PlanGraph

CONSTANT Steps      \* every step id a plan may use

VARIABLES
    steps,          \* the plan: its steps,
    deps,           \*   depends_on,
    refs,           \*   the dependencies the arguments point into, and
    op,             \*   the kind of operation of each step
    pc,             \* where execute() is
    results,        \* results[s].status, and the step rows of the transaction
    output,         \* output[d][s]: what s finds where it points into d's data
    wave,           \* the wave being run: a status, or "running"
    proposals,      \* the steps with an ActionApproval row
    execution,      \* the status of the Execution row
    committed,      \* whether the transaction was committed
    broken,         \* whether the session's transaction is unusable
    effects         \* the steps whose agent changed something at Google

plan == <<steps, deps, refs, op>>
vars == <<steps, deps, refs, op, pc, results, output, wave, proposals,
          execution, committed, broken, effects>>

(***************************************************************************)
(* The operations fall in three kinds: those that only read, draft_email   *)
(* (it creates a Gmail draft), and the writes of                           *)
(* APPROVAL_REQUIRED_OPERATIONS.                                           *)
(***************************************************************************)
OperationKinds == {"read", "draft", "write"}

\* A gate that knows nothing of one of its operations.
MutRequiresApproval(s) == FALSE

\* AgentRegistry.requires_approval: draft_email is not in the set.
RequiresApproval(s) == op[s] = "write"

Findings == {"missing", "unfit", "fit"}
NoOutput == [d \in Steps |-> [s \in Steps |-> "missing"]]
NoWave == [s \in Steps |-> "none"]

Init ==
    /\ steps \in SUBSET Steps
    /\ deps \in [Steps -> SUBSET Steps]
    /\ refs \in [Steps -> SUBSET Steps]
    /\ \A s \in Steps \ steps : deps[s] = {} /\ refs[s] = {}
    /\ ValidGraph(steps, deps, refs)
    /\ op \in [Steps -> OperationKinds]
    /\ \A s \in Steps \ steps : op[s] = "read"
    /\ pc = "begin"
    /\ results = [s \in Steps |-> "none"]
    /\ output = NoOutput
    /\ wave = NoWave
    /\ proposals = {}
    /\ execution = "absent"
    /\ committed = FALSE
    /\ broken = FALSE
    /\ effects = {}

Settled == {s \in steps : results[s] # "none"}
Remaining == steps \ Settled

\* The loop ends when nothing remains.
LoopOr(left) == IF left = {} THEN "finish" ELSE "scan"

\* The Execution row is added and flushed.
Begin ==
    /\ pc = "begin"
    /\ execution' = "running"
    /\ pc' = LoopOr(steps)
    /\ UNCHANGED <<plan, results, output, wave, proposals, committed, broken,
                   effects>>

-----------------------------------------------------------------------------
\* Readiness that waits only for the dependencies the arguments use.
MutReadyByReference == {s \in Remaining : refs[s] \subseteq Settled}

\* Readiness that wants every dependency to have completed.
MutReadyCompleted ==
    {s \in Remaining : \A d \in deps[s] : results[d] = "completed"}

Ready == {s \in Remaining : deps[s] \subseteq Settled}

DependencyFailed(s) == \E d \in deps[s] : results[d] \in Unavailable

\* _resolve_references raises: a field, element or shape is not there.
Unresolved(s) == \E d \in refs[s] : output[d][s] = "missing"

\* What the loop over the ready steps decides for one of them.
Screen(s) ==
    IF DependencyFailed(s) THEN "skipped"
    ELSE IF Unresolved(s) THEN "failed"
    ELSE IF RequiresApproval(s) THEN "awaiting_approval" ELSE "running"

\* One pass of "while remaining": approvals are flushed, agents are started.
\* (With no ready step the code raises RuntimeError: NeverStuck.)
Scan ==
    /\ pc = "scan"
    /\ Ready # {}
    /\ wave' = [s \in Steps |-> IF s \in Ready THEN Screen(s) ELSE "none"]
    /\ proposals' =
         proposals \cup {s \in Ready : Screen(s) = "awaiting_approval"}
    /\ pc' = "gather"
    /\ UNCHANGED <<plan, results, output, execution, committed, broken, effects>>

-----------------------------------------------------------------------------
Running(s) == pc = "gather" /\ wave[s] = "running"

\* The resolved arguments satisfy the operation's contract.
ArgumentsFit(s) == \A d \in refs[s] : output[d][s] = "fit"

\* The step leaves asyncio.gather with this status.
Leave(s, status) == wave' = [wave EXCEPT ![s] = status]

\* registry.execute validates the resolved arguments and raises ValueError.
AgentRefused(s) ==
    /\ Running(s)
    /\ ~ ArgumentsFit(s)
    /\ Leave(s, "failed")
    /\ UNCHANGED <<plan, pc, results, output, proposals, execution, committed,
                   broken, effects>>

\* drafts().create takes effect at Google, before its answer is seen.
AgentDrafts(s) ==
    /\ Running(s)
    /\ ArgumentsFit(s)
    /\ op[s] # "read"
    /\ effects' = effects \cup {s}
    /\ UNCHANGED <<plan, pc, results, output, wave, proposals, execution,
                   committed, broken>>

\* The agent gave up, or the process died, while its request was under way.
GivenUp(s) ==
    \/ "failed" \in {wave[s], results[s]}
    \/ pc = "raised" /\ wave[s] = "running"

\* Google creates the draft all the same: nothing cancels a call that was sent.
DraftLands(s) ==
    /\ GivenUp(s)
    /\ op[s] = "draft" /\ ArgumentsFit(s)
    /\ effects' = effects \cup {s}
    /\ UNCHANGED <<plan, pc, results, output, wave, proposals, execution,
                   committed, broken>>

\* The agent completes; its data holds, or does not hold, what each later
\* step that points into it looks for.
AgentCompletes(s) ==
    /\ Running(s)
    /\ ArgumentsFit(s)
    /\ op[s] # "read" => s \in effects
    /\ Leave(s, "completed")
    /\ \E found \in [{t \in Steps : s \in refs[t]} -> Findings] :
         output' = [output EXCEPT ![s] =
                       [t \in Steps |-> IF s \in refs[t] THEN found[t]
                                        ELSE "missing"]]
    /\ UNCHANGED <<plan, pc, results, proposals, execution, committed, broken,
                   effects>>

\* AgentResult(failed), or any exception gather collects.
AgentFails(s) ==
    /\ Running(s)
    /\ ArgumentsFit(s)
    /\ Leave(s, "failed")
    /\ UNCHANGED <<plan, pc, results, output, proposals, execution, committed,
                   broken, effects>>

\* A database error inside an agent: gather collects the exception, but the
\* transaction the whole execution shares can only be rolled back.
AgentBreaksSession(s) ==
    /\ Running(s)
    /\ ArgumentsFit(s)
    /\ Leave(s, "failed")
    /\ broken' = TRUE
    /\ UNCHANGED <<plan, pc, results, output, proposals, execution, committed,
                   effects>>

Gathered == pc = "gather" /\ \A s \in Steps : wave[s] # "running"

\* The wave's results are recorded, their rows added and flushed.
Record ==
    /\ Gathered
    /\ ~ broken
    /\ results' =
         [s \in Steps |-> IF wave[s] # "none" THEN wave[s] ELSE results[s]]
    /\ wave' = NoWave
    /\ pc' = LoopOr({s \in Remaining : wave[s] = "none"})
    /\ UNCHANGED <<plan, output, proposals, execution, committed, broken,
                   effects>>

-----------------------------------------------------------------------------
\* A commit made before the statuses of the steps are summarised.
MutCommit ==
    /\ pc = "finish"
    /\ committed' = TRUE
    /\ pc' = "done"
    /\ UNCHANGED <<plan, results, output, wave, proposals, execution, broken,
                   effects>>

\* The execution gets its status and the transaction is committed.
Commit ==
    /\ pc = "finish"
    /\ execution' = Summary({results[s] : s \in steps})
    /\ committed' = TRUE
    /\ pc' = "done"
    /\ UNCHANGED <<plan, results, output, wave, proposals, broken, effects>>

\* execute() raises, or the process stops: the transaction is rolled back.
Rollback ==
    /\ execution' = "absent"
    /\ proposals' = {}
    /\ pc' = "raised"
    /\ UNCHANGED <<plan, results, output, wave, committed, broken, effects>>

\* The flush after a wave fails on the broken transaction.
FlushFails == Gathered /\ broken /\ Rollback

\* A flush or the commit fails, the connection is lost, the process dies.
Crash == pc \in {"scan", "gather", "finish"} /\ Rollback

-----------------------------------------------------------------------------
Agent(s) ==
    \/ AgentRefused(s) \/ AgentDrafts(s) \/ AgentCompletes(s)
    \/ AgentFails(s) \/ AgentBreaksSession(s)

Executes == Begin \/ Scan \/ Record \/ Commit \/ FlushFails

Next == Executes \/ Crash \/ \E s \in Steps : Agent(s) \/ DraftLands(s)

Spec == Init /\ [][Next]_vars

\* The event loop goes on, and every agent answers or fails: its sockets have
\* timeouts (an agent that drafts once more is not progress).
AgentEnds(s) == AgentRefused(s) \/ AgentCompletes(s) \/ AgentFails(s)

FairSpec ==
    Spec /\ WF_vars(Executes) /\ \A s \in Steps : WF_vars(AgentEnds(s))

-----------------------------------------------------------------------------
TypeOK ==
    /\ steps \in SUBSET Steps
    /\ deps \in [Steps -> SUBSET Steps]
    /\ refs \in [Steps -> SUBSET Steps]
    /\ op \in [Steps -> OperationKinds]
    /\ pc \in {"begin", "scan", "gather", "finish", "done", "raised"}
    /\ results \in [Steps -> StepStatus \cup {"none"}]
    /\ output \in [Steps -> [Steps -> Findings]]
    /\ wave \in [Steps -> StepStatus \cup {"none", "running"}]
    /\ proposals \in SUBSET Steps
    /\ execution \in ExecutionSummary \cup {"absent", "running"}
    /\ committed \in BOOLEAN
    /\ committed => execution \in ExecutionSummary
    /\ broken \in BOOLEAN
    /\ effects \in SUBSET Steps

(***************************************************************************)
(* DESIGN.md, F: a step is skipped exactly when a dependency did not       *)
(* complete; an independent branch is never skipped by somebody else's     *)
(* failure.                                                                *)
(***************************************************************************)
SkippedByDependency ==
    \A s \in Settled :
        results[s] = "skipped" <=> \E d \in deps[s] : results[d] # "completed"

(***************************************************************************)
(* "Execution plan has no runnable steps" is never raised: whenever a step *)
(* remains, one is ready, for every plan validate_graph accepts.           *)
(***************************************************************************)
NeverStuck == pc = "scan" => Ready # {}

(***************************************************************************)
(* A step runs only on inputs that exist: every dependency completed, and  *)
(* every reference resolved in the data of a completed step.               *)
(***************************************************************************)
InputsExist ==
    \A s \in Steps :
        (wave[s] = "running" \/ results[s] = "completed") =>
            \A d \in deps[s] :
                /\ results[d] = "completed"
                /\ d \in refs[s] => output[d][s] # "missing"

(***************************************************************************)
(* An execution is committed as completed only if every step completed:    *)
(* the summary ignores skipped steps, but each of them has a failed or     *)
(* pending step behind it.                                                 *)
(***************************************************************************)
CompletedMeansAll ==
    execution = "completed" => \A s \in steps : results[s] = "completed"

(***************************************************************************)
(* What a committed execution hands to the approval endpoints: a result    *)
(* for every step, an approval row for exactly the pending ones (so        *)
(* _execution_step always finds its row), and their summary.               *)
(***************************************************************************)
CommittedWhole ==
    IF committed
    THEN /\ Remaining = {}
         /\ proposals = {s \in steps : results[s] = "awaiting_approval"}
         /\ execution = Summary({results[s] : s \in steps})
    ELSE pc = "raised" => proposals = {} /\ execution = "absent"

(***************************************************************************)
(* Nothing behind the approval gate reaches Google from a query, however   *)
(* its arguments were produced.                                            *)
(***************************************************************************)
GatedNeverRuns ==
    \A s \in Steps : op[s] = "write" =>
        wave[s] # "running" /\ s \notin effects /\ results[s] # "completed"

(***************************************************************************)
(* execute() returns or raises.                                            *)
(***************************************************************************)
Terminates == <>(pc \in {"done", "raised"})

\* The abstract view: results are outcomes, the commit publishes them.
Gated == {s \in Steps : op[s] = "write"}
Contract == INSTANCE PlanContract WITH
    gated <- Gated,
    outcome <- results,
    applied <- effects,
    published <- IF pc = "done" THEN execution ELSE "unpublished",
    offered <- IF pc = "done" THEN proposals ELSE {}

(***************************************************************************)
(* The executor keeps the contract of PlanContract: outcomes once and in   *)
(* dependency order, skips exactly where they are due, no effect of a step *)
(* behind the gate, and one publication that offers exactly the pending    *)
(* steps, whatever agents, failures and crashes do.                        *)
(***************************************************************************)
KeepsContract == Contract!Spec

=============================================================================
