------------------------------ MODULE Statuses ------------------------------
(***************************************************************************)
(* The status vocabulary of app/schemas/contracts.py that the executor,    *)
(* the approval endpoints and the database rows share, and the rule both   *)
(* writers of executions.status use to summarise the steps.                *)
(***************************************************************************)

\* ExecutionStatus values a finished step record can hold.
StepStatus == {"completed", "failed", "skipped", "awaiting_approval"}

\* executions.status of a committed row: never "running" after execute() ends.
ExecutionSummary == {"completed", "failed", "awaiting_approval"}

\* A dependency in one of these statuses makes its dependents skip.
Unavailable == {"failed", "skipped", "awaiting_approval"}

\* A summary that reports a skipped step as the status of the whole.
MutSummarySkips(S) ==
    IF "failed" \in S THEN "failed"
    ELSE IF "awaiting_approval" \in S THEN "awaiting_approval"
    ELSE IF "skipped" \in S THEN "skipped" ELSE "completed"

(***************************************************************************)
(* Any failure makes the execution failed, otherwise any pending approval  *)
(* makes it awaiting_approval, otherwise it is completed: a skipped step   *)
(* counts for nothing.                                                     *)
(***************************************************************************)
Summary(S) ==
    IF "failed" \in S THEN "failed"
    ELSE IF "awaiting_approval" \in S THEN "awaiting_approval" ELSE "completed"

(***************************************************************************)
(* What execute() commits of an execution with actions awaiting approval,  *)
(* and where the approval endpoints begin: the step of every action is     *)
(* pending, every other step is over, and the execution has the summary.   *)
(***************************************************************************)
PendingRows(actions, step, others, execution) ==
    /\ step = [a \in actions |-> "awaiting_approval"]
    /\ others \in SUBSET {"completed", "failed", "skipped"}
    /\ execution = Summary(others \cup {"awaiting_approval"})
=============================================================================
