----------------------------- MODULE Approvals -----------------------------
(***************************************************************************)
(* The approve and reject endpoints (app/api/routes/approvals.py) working  *)
(* on the committed rows of ONE execution: its pending approvals, their    *)
(* steps, the execution row and the audit log.  Any number of HTTP         *)
(* requests run concurrently, each in a database transaction of its own    *)
(* (READ COMMITTED); every await of a handler is a step of its own, so     *)
(* handlers interleave exactly where the code lets them.                   *)
(*                                                                         *)
(* The Google API is on the other side of a network: a call that was sent  *)
(* may take effect before, after, or without its answer being seen, and it *)
(* stays in flight when the request that sent it has already ended (the    *)
(* client library runs it in a thread nothing cancels).                    *)
(***************************************************************************)
EXTENDS Statuses

CONSTANTS
    Actions,     \* the approvals of the execution, each with a step of its own
    Requests,    \* the HTTP requests that will ever arrive, each used once
    NoRequest    \* the value of a row lock nobody holds

ASSUME NoRequestAssumption == NoRequest \notin Requests
ASSUME ActionsAssumption == Actions # {}

VARIABLES
    \* committed rows
    approval,    \* action_approvals.status
    step,        \* execution_steps.status of the approval's step
    others,      \* the set of statuses of the execution's other steps
    execution,   \* executions.status
    audit,       \* audit_logs, each row tagged with the request that wrote it
    sound,       \* approvals whose stored arguments pass the operation's contract
    \* row locks and requests
    lock,        \* the request that holds SELECT ... FOR UPDATE on an approval
    pc,          \* where the handler of a request is
    kind,        \* which endpoint the request calls
    target,      \* the approval id in its path
    owner,       \* whether the session's user owns that approval
    result,      \* the AgentResult status the approved operation returned
    loaded,      \* executions.status as this transaction loaded it
    seen,        \* the step statuses _refresh_execution_status selected
    reply,       \* the HTTP status the client got
    \* the Google side
    call         \* the request's call to the Google API

rows == <<approval, step, others, execution, audit, sound>>
local == <<kind, target, owner, result, loaded, seen>>
vars == <<approval, step, others, execution, audit, sound, lock, pc, kind,
          target, owner, result, loaded, seen, reply, call>>

ApprovalStatus == {"awaiting_approval", "approved", "failed", "rejected"}
Undecided == "awaiting_approval"

\* The places where a handler holds a transaction and the approval's row lock.
ApprovePlaces == {"execute", "google", "record", "refresh", "commit_approve"}
RejectPlaces == {"reject", "commit_reject"}
InTransaction == ApprovePlaces \cup RejectPlaces
Places == {"idle", "begin", "done"} \cup InTransaction

AuditRow == [request : Requests, action : Actions,
             status : {"approved", "failed", "rejected"}]

-----------------------------------------------------------------------------
(***************************************************************************)
(* The rows as DAGExecutor.execute commits them: every approval is pending *)
(* with its step, and the execution row holds the summary of all steps.    *)
(* The executor stores resolved arguments without validating them again,   *)
(* so any subset of the stored actions may fail its contract later.        *)
(***************************************************************************)
Init ==
    /\ approval = [a \in Actions |-> Undecided]
    /\ PendingRows(Actions, step, others, execution)
    /\ audit = {}
    /\ sound \in SUBSET Actions
    /\ lock = [a \in Actions |-> NoRequest]
    /\ pc = [r \in Requests |-> "idle"]
    /\ kind \in [Requests -> {"approve", "reject"}]
    /\ target \in [Requests -> Actions]
    /\ owner \in [Requests -> BOOLEAN]
    /\ result = [r \in Requests |-> "none"]
    /\ loaded = [r \in Requests |-> "none"]
    /\ seen = [r \in Requests |-> {}]
    /\ reply = [r \in Requests |-> "none"]
    /\ call = [r \in Requests |-> "none"]

Goto(r, place) == pc' = [pc EXCEPT ![r] = place]

\* A failure path that keeps the row lock.
MutRoll(r, status) ==
    /\ Goto(r, "done")
    /\ reply' = [reply EXCEPT ![r] = status]
    /\ UNCHANGED <<rows, local, lock, call>>

\* The handler raises or returns before it wrote anything that survives: the
\* session is rolled back and its row lock, if it holds one, is released.
Roll(r, status) ==
    /\ Goto(r, "done")
    /\ reply' = [reply EXCEPT ![r] = status]
    /\ lock' = [a \in Actions |-> IF lock[a] = r THEN NoRequest ELSE lock[a]]
    /\ UNCHANGED <<rows, local, call>>

\* A client sends POST /actions/{approval_id}/approve or /reject.
Arrive(r) ==
    /\ pc[r] = "idle"
    /\ Goto(r, "begin")
    /\ UNCHANGED <<rows, local, lock, reply, call>>

\* _pending_approval selects by id AND user: another user's id finds no row.
NotFound(r) ==
    /\ pc[r] = "begin"
    /\ ~ owner[r]
    /\ Roll(r, "404")

\* SELECT ... FOR UPDATE waits until no other transaction holds the row.
RowIsFree(r) ==
    /\ pc[r] = "begin"
    /\ owner[r]
    /\ lock[target[r]] = NoRequest

\* An approval that is not pending any more is a conflict.
NotPending(r) ==
    /\ RowIsFree(r)
    /\ approval[target[r]] # Undecided
    /\ Roll(r, "409")

\* The code without FOR UPDATE.
MutMayProceedUnlocked(r) ==
    pc[r] = "begin" /\ owner[r] /\ approval[target[r]] = Undecided

MayProceed(r) == RowIsFree(r) /\ approval[target[r]] = Undecided

\* The row is pending: the handler goes on with its lock.
Acquire(r) ==
    /\ MayProceed(r)
    /\ lock' = [lock EXCEPT ![target[r]] = r]
    /\ Goto(r, IF kind[r] = "approve" THEN "execute" ELSE "reject")
    /\ UNCHANGED <<rows, local, reply, call>>

-----------------------------------------------------------------------------
(***************************************************************************)
(* approve_action: registry.execute on the stored service, operation and   *)
(* arguments.                                                              *)
(***************************************************************************)

\* registry.execute validated the arguments and the agent sends the write.
Send(r) ==
    /\ pc[r] = "execute"
    /\ target[r] \in sound
    /\ call' = [call EXCEPT ![r] = "flying"]
    /\ Goto(r, "google")
    /\ UNCHANGED <<rows, local, lock, reply>>

\* Google applies a call in flight, whatever became of the request.
Land(r) ==
    /\ call[r] = "flying"
    /\ call' = [call EXCEPT ![r] = "landed"]
    /\ UNCHANGED <<rows, local, lock, pc, reply>>

\* Or it never applies it: refused, or lost on the way.
Lose(r) ==
    /\ call[r] = "flying"
    /\ call' = [call EXCEPT ![r] = "lost"]
    /\ UNCHANGED <<rows, local, lock, pc, reply>>

\* Google answers and the agent returns AgentResult(completed).
MutAgentCompletes(r) == pc[r] = "google"
AgentCompletes(r) == pc[r] = "google" /\ call[r] = "landed"

Completed(r) ==
    /\ AgentCompletes(r)
    /\ result' = [result EXCEPT ![r] = "completed"]
    /\ Goto(r, "record")
    /\ UNCHANGED <<rows, lock, kind, target, owner, loaded, seen, reply, call>>

\* safely_execute turns HttpError (which may follow the effect) and the
\* agent's own argument errors (before any call) into AgentResult(failed).
Failed(r) ==
    /\ \/ pc[r] = "execute" /\ target[r] \in sound
       \/ pc[r] = "google" /\ call[r] # "flying"
    /\ result' = [result EXCEPT ![r] = "failed"]
    /\ Goto(r, "record")
    /\ UNCHANGED <<rows, lock, kind, target, owner, loaded, seen, reply, call>>

\* Anything else raises out of registry.execute and is answered 502: arguments
\* that fail their contract, credentials that cannot be loaded, a timeout or a
\* broken connection while the call is in flight or after it landed.
ExecuteRaises(r) ==
    /\ pc[r] \in {"execute", "google"}
    /\ Roll(r, "502")

(***************************************************************************)
(* The step and the approval are changed in the session, then              *)
(* _refresh_execution_status loads the execution row ...                   *)
(***************************************************************************)
Record(r) ==
    /\ pc[r] = "record"
    /\ loaded' = [loaded EXCEPT ![r] = execution]
    /\ Goto(r, "refresh")
    /\ UNCHANGED <<rows, lock, kind, target, owner, result, seen, reply, call>>

\* The statuses of the execution's approvals alone.
MutVisibleDecidedOnly(r) ==
    {result[r]} \cup {step[b] : b \in Actions \ {target[r]}}

\* What a SELECT of the step statuses returns to this transaction: its own
\* flushed change, and the last committed value of every other step.
Visible(r) ==
    others \cup {result[r]} \cup {step[b] : b \in Actions \ {target[r]}}

\* ... and selects the statuses of all its steps.
Refresh(r) ==
    /\ pc[r] = "refresh"
    /\ seen' = [seen EXCEPT ![r] = Visible(r)]
    /\ Goto(r, "commit_approve")
    /\ UNCHANGED <<rows, lock, kind, target, owner, result, loaded, reply, call>>

Decision(r) == IF result[r] = "completed" THEN "approved" ELSE "failed"

\* SQLAlchemy writes executions.status only if it differs from what it loaded.
Flushed(r, status) == IF status = loaded[r] THEN execution ELSE status

\* A commit that leaves the step's row as it was.
MutPersist(r, decision, stepStatus, summary) ==
    /\ approval' = [approval EXCEPT ![target[r]] = decision]
    /\ step' = step
    /\ execution' = Flushed(r, summary)
    /\ audit' = audit \cup
           {[request |-> r, action |-> target[r], status |-> decision]}

\* One transaction: the approval, its step, the audit row, the execution row.
Persist(r, decision, stepStatus, summary) ==
    /\ approval' = [approval EXCEPT ![target[r]] = decision]
    /\ step' = [step EXCEPT ![target[r]] = stepStatus]
    /\ execution' = Flushed(r, summary)
    /\ audit' = audit \cup
           {[request |-> r, action |-> target[r], status |-> decision]}

\* The transaction ends and the client is answered: 200, or 500 when PostgreSQL
\* committed and its own answer to COMMIT was lost.
Finish(r) ==
    /\ lock' = [lock EXCEPT ![target[r]] = NoRequest]
    /\ Goto(r, "done")
    /\ \E status \in {"200", "500"} : reply' = [reply EXCEPT ![r] = status]
    /\ UNCHANGED <<others, sound, local, call>>

CommitApprove(r) ==
    /\ pc[r] = "commit_approve"
    /\ Persist(r, Decision(r), result[r], Summary(seen[r]))
    /\ Finish(r)

-----------------------------------------------------------------------------
(***************************************************************************)
(* reject_action: the step is skipped, the execution is loaded and set to  *)
(* failed whatever its other steps are, and everything is committed.       *)
(***************************************************************************)
LoadForReject(r) ==
    /\ pc[r] = "reject"
    /\ loaded' = [loaded EXCEPT ![r] = execution]
    /\ Goto(r, "commit_reject")
    /\ UNCHANGED <<rows, lock, kind, target, owner, result, seen, reply, call>>

CommitReject(r) ==
    /\ pc[r] = "commit_reject"
    /\ Persist(r, "rejected", "skipped", "failed")
    /\ Finish(r)

\* The database connection, the commit or the whole process fails at any
\* point of a transaction: nothing of it survives, but a call sent stays sent.
\* (A commit that took effect and was not answered is in Finish.)
Abort(r) ==
    /\ pc[r] \in InTransaction
    /\ Roll(r, "500")

-----------------------------------------------------------------------------
Handler(r) ==
    \/ NotFound(r) \/ NotPending(r) \/ Acquire(r)
    \/ Send(r) \/ Completed(r) \/ Failed(r) \/ ExecuteRaises(r)
    \/ Record(r) \/ Refresh(r) \/ CommitApprove(r)
    \/ LoadForReject(r) \/ CommitReject(r)

Network(r) == Land(r) \/ Lose(r)

Next == \E r \in Requests : Arrive(r) \/ Handler(r) \/ Network(r) \/ Abort(r)

Spec == Init /\ [][Next]_vars

-----------------------------------------------------------------------------
TypeOK ==
    /\ approval \in [Actions -> ApprovalStatus]
    /\ step \in [Actions -> StepStatus]
    /\ others \in SUBSET {"completed", "failed", "skipped"}
    /\ execution \in ExecutionSummary
    /\ audit \in SUBSET AuditRow
    /\ sound \in SUBSET Actions
    /\ lock \in [Actions -> Requests \cup {NoRequest}]
    /\ pc \in [Requests -> Places]
    /\ kind \in [Requests -> {"approve", "reject"}]
    /\ target \in [Requests -> Actions]
    /\ owner \in [Requests -> BOOLEAN]
    /\ result \in [Requests -> {"none", "completed", "failed"}]
    /\ loaded \in [Requests -> ExecutionSummary \cup {"none"}]
    /\ seen \in [Requests -> SUBSET (StepStatus \cup {"none"})]
    /\ reply \in [Requests -> {"none", "200", "404", "409", "500", "502"}]
    /\ call \in [Requests -> {"none", "flying", "landed", "lost"}]

(***************************************************************************)
(* An approval and the step it stands for never disagree: the endpoints    *)
(* change both in one transaction (approve_action, reject_action).         *)
(***************************************************************************)
RowsAgree ==
    \A a \in Actions :
        <<approval[a], step[a]>> \in
            {<<"awaiting_approval", "awaiting_approval">>,
             <<"approved", "completed">>, <<"failed", "failed">>,
             <<"rejected", "skipped">>}

(***************************************************************************)
(* The audit log holds nothing about a pending approval, and exactly one   *)
(* row, naming the decision that stands, about a decided one, however many *)
(* requests raced for it.                                                  *)
(***************************************************************************)
AuditExact ==
    \A a \in Actions :
        LET about == {row \in audit : row.action = a}
        IN IF approval[a] = Undecided THEN about = {}
           ELSE \E row \in about : about = {row} /\ row.status = approval[a]

(***************************************************************************)
(* The three records of a decision, the approval, its step and the audit   *)
(* log, tell the same story after any race of requests.                    *)
(***************************************************************************)
RecordsAgree == RowsAgree /\ AuditExact

(***************************************************************************)
(* executions.status is "completed" only when no step failed and none is   *)
(* pending, although _refresh_execution_status decides it from a snapshot  *)
(* other transactions may have outdated before it commits.                 *)
(***************************************************************************)
HonestCompletion ==
    execution = "completed" =>
        /\ "failed" \notin others
        /\ \A a \in Actions : step[a] \in {"completed", "skipped"}

(***************************************************************************)
(* "approved" is never recorded without the effect it reports: Google      *)
(* applied the call of the request that the audit log names for it.        *)
(***************************************************************************)
ApprovedWasWritten ==
    \A a \in Actions : approval[a] = "approved" =>
        \E row \in audit :
            /\ row.action = a
            /\ kind[row.request] = "approve" /\ call[row.request] = "landed"

(***************************************************************************)
(* Every effect on Google is accounted for: its request still holds the    *)
(* row, or wrote the one audit row of the approval, or its client was told *)
(* 5xx, the only way an effect can be repeated or follow a rejection.      *)
(***************************************************************************)
WritesAccountedFor ==
    \A r \in Requests : call[r] = "landed" =>
        \/ pc[r] \in ApprovePlaces /\ lock[target[r]] = r
        \/ reply[r] \in {"500", "502"}
        \/ \E row \in audit :
              /\ row.request = r /\ row.action = target[r]
              /\ row.status = approval[target[r]]
              /\ row.status \in {"approved", "failed"}

(***************************************************************************)
(* What the records say and what Google has match, both ways.              *)
(***************************************************************************)
EffectsMatchRecords == ApprovedWasWritten /\ WritesAccountedFor

(***************************************************************************)
(* A decision is final: no later or concurrent request changes it.         *)
(***************************************************************************)
DecidedForever ==
    [][\A a \in Actions :
          approval[a] # Undecided => approval'[a] = approval[a]]_vars

(***************************************************************************)
(* A processed approval is not executed again: a call is sent only by an   *)
(* owner's approve request, while the approval is pending and no other     *)
(* handler is waiting for Google's answer about it.                        *)
(***************************************************************************)
CallsOnlyWhilePending ==
    [][\A r \in Requests :
          (call[r] = "none" /\ call'[r] # "none") =>
              /\ kind[r] = "approve" /\ owner[r]
              /\ approval[target[r]] = Undecided
              /\ \A q \in Requests \ {r} :
                    target[q] = target[r] => pc[q] # "google"]_vars

(***************************************************************************)
(* README.md: "Execute stored action" happens once per approval, and the   *)
(* test test_approval_executes_stored_action_exactly_once.  Refuted: the   *)
(* effect survives a rolled back transaction.                              *)
(***************************************************************************)
WriteAtMostOnce ==
    \A q, r \in Requests :
        (call[q] = "landed" /\ call[r] = "landed" /\ target[q] = target[r])
            => q = r
=============================================================================
