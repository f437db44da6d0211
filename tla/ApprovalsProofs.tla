--------------------------- MODULE ApprovalsProofs ---------------------------
(***************************************************************************)
(* Proofs about Approvals and ApprovalCard for any number of approvals,    *)
(* requests and cards: the row lock, the finality of decisions, the audit  *)
(* log, the honesty of "completed" and of the cards, and what every effect *)
(* at Google leads back to.                                                *)
(***************************************************************************)
EXTENDS ApprovalCard, TLAPS

\* A handler in its transaction holds the lock of its row, which is pending,
\* and a held lock belongs to such a handler.
LockInv ==
    /\ \A r \in Requests : pc[r] \in InTransaction =>
          /\ lock[target[r]] = r
          /\ approval[target[r]] = Undecided
          /\ owner[r]
    /\ \A a \in Actions : lock[a] \in Requests =>
          target[lock[a]] = a /\ pc[lock[a]] \in InTransaction

\* A handler is in the part of the code its endpoint runs.
PlaceInv ==
    \A r \in Requests :
        /\ pc[r] \in ApprovePlaces => kind[r] = "approve"
        /\ pc[r] \in RejectPlaces => kind[r] = "reject"

\* Only an owner's approve request that got past "execute" has sent a call.
CallInv ==
    \A r \in Requests :
        /\ pc[r] \in {"idle", "begin", "execute"} \cup RejectPlaces =>
               call[r] = "none"
        /\ call[r] # "none" => kind[r] = "approve" /\ owner[r]
        /\ pc[r] = "google" => call[r] # "none"

\* A result was returned, and "completed" only after the effect.
ResultInv ==
    \A r \in Requests : pc[r] \in {"record", "refresh", "commit_approve"} =>
        /\ result[r] \in {"completed", "failed"}
        /\ result[r] = "completed" => call[r] = "landed"

\* The audit log: one row for each decided approval, naming its decision.
AuditInv ==
    /\ \A row \in audit : approval[row.action] = row.status
    /\ \A x, y \in audit : x.action = y.action => x = y
    /\ \A a \in Actions : approval[a] # Undecided =>
          \E row \in audit : row.action = a

\* A request that is over got an answer; an approve request that sent a call
\* was told 5xx, or 200 with an audit row of its own.
ReplyInv ==
    \A r \in Requests :
        /\ pc[r] # "done" => reply[r] = "none"
        /\ pc[r] = "done" /\ call[r] # "none" =>
              reply[r] \in {"200", "500", "502"}
        /\ pc[r] = "done" /\ reply[r] = "200" /\ kind[r] = "approve" =>
              \E row \in audit :
                  /\ row.request = r /\ row.action = target[r]
                  /\ row.status \in {"approved", "failed"}

\* A snapshot without failures or pending steps tells of final steps.
SeenInv ==
    \A r \in Requests : pc[r] = "commit_approve" =>
        /\ others \subseteq seen[r]
        /\ result[r] \in seen[r]
        /\ Summary(seen[r]) = "completed" =>
              \A a \in Actions \ {target[r]} : step[a] \in {"completed", "skipped"}

IInv ==
    /\ TypeOK /\ RowsAgree /\ LockInv /\ PlaceInv /\ CallInv /\ ResultInv
    /\ AuditInv /\ ReplyInv /\ SeenInv /\ HonestCompletion
    /\ ApprovedWasWritten
-----------------------------------------------------------------------------
LEMMA SummaryType == \A S : Summary(S) \in ExecutionSummary
    BY DEF Summary, ExecutionSummary

LEMMA InitInv == Init => IInv
<1> SUFFICES ASSUME Init PROVE IInv
    OBVIOUS
<1> USE DEF PendingRows
<1>1. TypeOK
    BY SummaryType DEF Init, TypeOK, ApprovalStatus, StepStatus, Places, Undecided
<1>2. RowsAgree /\ PlaceInv /\ CallInv /\ ResultInv /\ SeenInv
    BY DEF Init, RowsAgree, PlaceInv, CallInv, ResultInv, SeenInv,
           ApprovePlaces, RejectPlaces, Undecided
<1>3. LockInv
    BY NoRequestAssumption DEF Init, LockInv, InTransaction, ApprovePlaces,
                               RejectPlaces
<1>4. AuditInv /\ ReplyInv
    BY DEF Init, AuditInv, ReplyInv, Undecided
<1>5. HonestCompletion /\ ApprovedWasWritten
    BY DEF Init, HonestCompletion, ApprovedWasWritten, Summary, Undecided
<1> QED
    BY <1>1, <1>2, <1>3, <1>4, <1>5 DEF IInv

-----------------------------------------------------------------------------
(***************************************************************************)
(* The steps of a handler that touch no committed row and no lock: they    *)
(* move one request, or its call, along.                                   *)
(***************************************************************************)
Quiet(r) ==
    \/ Arrive(r) \/ Send(r) \/ Land(r) \/ Lose(r) \/ Completed(r) \/ Failed(r)
    \/ Record(r) \/ Refresh(r) \/ LoadForReject(r)

LEMMA QuietFrame ==
    ASSUME TypeOK, NEW r \in Requests, Quiet(r)
    PROVE  /\ UNCHANGED <<rows, lock, kind, target, owner, reply>>
           /\ \A q \in Requests \ {r} :
                 /\ pc'[q] = pc[q] /\ call'[q] = call[q]
                 /\ result'[q] = result[q] /\ seen'[q] = seen[q]
           /\ pc[r] \in InTransaction <=> pc'[r] \in InTransaction
           /\ pc[r] \in ApprovePlaces <=> pc'[r] \in ApprovePlaces
           /\ pc[r] \in RejectPlaces <=> pc'[r] \in RejectPlaces
           /\ pc[r] = "done" <=> pc'[r] = "done"
<1> USE DEF TypeOK, Goto, local, InTransaction, ApprovePlaces, RejectPlaces
<1>1. CASE Arrive(r)
    BY <1>1 DEF Arrive
<1>2. CASE Send(r)
    BY <1>2 DEF Send
<1>3. CASE Land(r)
    BY <1>3 DEF Land
<1>4. CASE Lose(r)
    BY <1>4 DEF Lose
<1>5. CASE Completed(r)
    BY <1>5 DEF Completed, AgentCompletes
<1>6. CASE Failed(r)
    BY <1>6 DEF Failed
<1>7. CASE Record(r)
    BY <1>7 DEF Record
<1>8. CASE Refresh(r)
    BY <1>8 DEF Refresh
<1>9. CASE LoadForReject(r)
    BY <1>9 DEF LoadForReject
<1> QED
    BY <1>1, <1>2, <1>3, <1>4, <1>5, <1>6, <1>7, <1>8, <1>9 DEF Quiet

LEMMA QuietType ==
    ASSUME IInv, NEW r \in Requests, Quiet(r)
    PROVE  TypeOK'
<1>1. Visible(r) \in SUBSET (StepStatus \cup {"none"})
    BY DEF Visible, IInv, TypeOK, StepStatus
<1>2. loaded' \in [Requests -> ExecutionSummary \cup {"none"}]
    BY DEF Quiet, Arrive, Send, Land, Lose, Completed, Failed, Record, Refresh,
           LoadForReject, local, IInv, TypeOK
<1>3. seen' \in [Requests -> SUBSET (StepStatus \cup {"none"})]
    BY <1>1 DEF Quiet, Arrive, Send, Land, Lose, Completed, Failed, Record,
           Refresh, LoadForReject, local, IInv, TypeOK
<1>4. result' \in [Requests -> {"none", "completed", "failed"}]
    BY DEF Quiet, Arrive, Send, Land, Lose, Completed, Failed, Record, Refresh,
           LoadForReject, local, IInv, TypeOK
<1>5. call' \in [Requests -> {"none", "flying", "landed", "lost"}]
    BY DEF Quiet, Arrive, Send, Land, Lose, Completed, Failed, Record, Refresh,
           LoadForReject, local, IInv, TypeOK
<1>6. pc' \in [Requests -> Places]
    BY DEF Quiet, Arrive, Send, Land, Lose, Completed, Failed, Record, Refresh,
           LoadForReject, Goto, IInv, TypeOK, Places, InTransaction,
           ApprovePlaces, RejectPlaces
<1> QED
  <2>1. TypeOK
      BY DEF IInv
  <2>2. UNCHANGED <<rows, lock, kind, target, owner, reply>>
      BY <2>1, QuietFrame
  <2> QED BY <1>2, <1>3, <1>4, <1>5, <1>6, <2>1, <2>2 DEF TypeOK, rows

LEMMA QuietInv ==
    ASSUME IInv, NEW r \in Requests, Quiet(r)
    PROVE  IInv'
<1> USE DEF IInv
<1>1. TypeOK'
    BY QuietType
<1>2. /\ UNCHANGED <<rows, lock, kind, target, owner, reply>>
      /\ \A q \in Requests \ {r} :
            /\ pc'[q] = pc[q] /\ call'[q] = call[q]
            /\ result'[q] = result[q] /\ seen'[q] = seen[q]
      /\ pc[r] \in InTransaction <=> pc'[r] \in InTransaction
      /\ pc[r] \in ApprovePlaces <=> pc'[r] \in ApprovePlaces
      /\ pc[r] \in RejectPlaces <=> pc'[r] \in RejectPlaces
      /\ pc[r] = "done" <=> pc'[r] = "done"
    BY QuietFrame
<1>3. RowsAgree' /\ AuditInv' /\ HonestCompletion'
    BY <1>2 DEF RowsAgree, AuditInv, HonestCompletion, rows
<1>4. \A q \in Requests : /\ pc'[q] \in InTransaction <=> pc[q] \in InTransaction
                          /\ pc'[q] \in ApprovePlaces <=> pc[q] \in ApprovePlaces
                          /\ pc'[q] \in RejectPlaces <=> pc[q] \in RejectPlaces
    BY <1>2
<1>5. LockInv'
    BY <1>2, <1>4 DEF LockInv, rows
<1>6. PlaceInv'
    BY <1>2, <1>4 DEF PlaceInv
<1>7. call[r] = "landed" => call'[r] = "landed"
    BY DEF Quiet, Arrive, Send, Land, Lose, Completed, Failed, Record, Refresh,
           LoadForReject, CallInv
<1>8. CallInv'
  <2>1. /\ pc'[r] \in {"idle", "begin", "execute"} \cup RejectPlaces =>
               call'[r] = "none"
        /\ call'[r] # "none" => kind[r] = "approve" /\ owner[r]
        /\ pc'[r] = "google" => call'[r] # "none"
      BY DEF Quiet, Arrive, Send, Land, Lose, Completed, Failed, Record, Refresh,
             LoadForReject, Goto, CallInv, LockInv, PlaceInv, TypeOK,
             InTransaction, ApprovePlaces, RejectPlaces
  <2> QED BY <2>1, <1>2 DEF CallInv
<1>9. ResultInv'
  <2>1. pc'[r] \in {"record", "refresh", "commit_approve"} =>
           /\ result'[r] \in {"completed", "failed"}
           /\ result'[r] = "completed" => call'[r] = "landed"
    <3>1. CASE Arrive(r) \/ Send(r) \/ LoadForReject(r)
        BY <3>1 DEF Arrive, Send, LoadForReject, Goto, TypeOK
    <3>2. CASE Land(r) \/ Lose(r)
        BY <3>2 DEF Land, Lose, local, ResultInv, TypeOK
    <3>3. CASE Completed(r) \/ Failed(r)
        BY <3>3 DEF Completed, Failed, AgentCompletes, TypeOK
    <3>4. CASE Record(r) \/ Refresh(r)
        BY <3>4 DEF Record, Refresh, ResultInv, TypeOK
    <3> QED BY <3>1, <3>2, <3>3, <3>4 DEF Quiet
  <2> QED BY <2>1, <1>2 DEF ResultInv
<1>10. ReplyInv'
  <2>1. pc[r] = "done" /\ call'[r] # "none" => call[r] # "none"
      BY <1>2 DEF Quiet, Arrive, Send, Land, Lose, Completed, Failed, Record,
             Refresh, LoadForReject, Goto, TypeOK
  <2> QED BY <2>1, <1>2 DEF ReplyInv, rows
<1>11. SeenInv'
  <2>1. pc'[r] = "commit_approve" =>
           /\ others \subseteq seen'[r]
           /\ result'[r] \in seen'[r]
           /\ Summary(seen'[r]) = "completed" =>
                 \A a \in Actions \ {target[r]} : step[a] \in {"completed", "skipped"}
    <3> SUFFICES ASSUME pc'[r] = "commit_approve"
                 PROVE  /\ others \subseteq seen'[r]
                        /\ result'[r] \in seen'[r]
                        /\ Summary(seen'[r]) = "completed" =>
                              \A a \in Actions \ {target[r]} :
                                  step[a] \in {"completed", "skipped"}
        OBVIOUS
    <3>1. CASE Refresh(r)
      <4>1. seen'[r] = Visible(r) /\ result'[r] = result[r]
          BY <3>1 DEF Refresh, TypeOK
      <4>2. Summary(Visible(r)) = "completed" =>
               "failed" \notin Visible(r) /\ "awaiting_approval" \notin Visible(r)
          BY DEF Summary
      <4>3. \A a \in Actions \ {target[r]} : step[a] \in Visible(r)
          BY DEF Visible
      <4>4. \A a \in Actions : step[a] \in StepStatus
          BY DEF TypeOK
      <4> QED BY <4>1, <4>2, <4>3, <4>4 DEF Visible, StepStatus
    <3>2. CASE Land(r) \/ Lose(r)
        BY <3>2 DEF Land, Lose, SeenInv, local
    <3>3. CASE Arrive(r) \/ Send(r) \/ Completed(r) \/ Failed(r) \/ Record(r) \/ LoadForReject(r)
        BY <3>3 DEF Arrive, Send, Completed, Failed, Record, LoadForReject, Goto, TypeOK
    <3> QED BY <3>1, <3>2, <3>3 DEF Quiet
  <2> QED BY <2>1, <1>2 DEF SeenInv, rows
<1>12. ApprovedWasWritten'
  <2>1. \A q \in Requests : call[q] = "landed" => call'[q] = "landed"
      BY <1>2, <1>7
  <2>2. \A row \in audit : row.request \in Requests
      BY DEF TypeOK, AuditRow
  <2> QED BY <2>1, <2>2, <1>2 DEF ApprovedWasWritten, rows
<1> QED
    BY <1>1, <1>3, <1>5, <1>6, <1>8, <1>9, <1>10, <1>11, <1>12

-----------------------------------------------------------------------------
LEMMA AcquireInv ==
    ASSUME IInv, NEW r \in Requests, Acquire(r)
    PROVE  IInv'
<1> USE DEF IInv
<1>1. /\ pc[r] = "begin" /\ owner[r] /\ lock[target[r]] = NoRequest
      /\ approval[target[r]] = Undecided
      /\ UNCHANGED <<rows, local, reply, call>>
      /\ pc'[r] = IF kind[r] = "approve" THEN "execute" ELSE "reject"
      /\ lock' = [lock EXCEPT ![target[r]] = r]
      /\ \A q \in Requests \ {r} : pc'[q] = pc[q]
    BY DEF Acquire, MayProceed, RowIsFree, Goto, TypeOK
<1>2. TypeOK'
    BY <1>1 DEF TypeOK, Acquire, Goto, Places, InTransaction, ApprovePlaces,
                RejectPlaces, rows, local
<1>3. RowsAgree' /\ AuditInv' /\ HonestCompletion' /\ ApprovedWasWritten'
    BY <1>1 DEF RowsAgree, AuditInv, HonestCompletion, ApprovedWasWritten,
                rows, local
<1>4. LockInv'
  <2>1. \A q \in Requests \ {r} : pc[q] \in InTransaction => target[q] # target[r]
      BY <1>1, NoRequestAssumption DEF LockInv
  <2>2. ASSUME NEW q \in Requests, pc'[q] \in InTransaction
        PROVE  lock'[target'[q]] = q /\ approval'[target'[q]] = Undecided /\ owner'[q]
      BY <1>1, <2>1, <2>2 DEF LockInv, rows, local, TypeOK
  <2>3. ASSUME NEW a \in Actions, lock'[a] \in Requests
        PROVE  target'[lock'[a]] = a /\ pc'[lock'[a]] \in InTransaction
    <3>1. CASE a = target[r]
        BY <3>1, <1>1 DEF local, TypeOK, InTransaction, ApprovePlaces, RejectPlaces
    <3>2. CASE a # target[r]
      <4>1. lock'[a] = lock[a] /\ lock[a] # r
          BY <2>3, <3>2, <1>1 DEF TypeOK, LockInv
      <4> QED BY <4>1, <2>3, <1>1 DEF LockInv, local
    <3> QED BY <3>1, <3>2
  <2> QED BY <2>2, <2>3 DEF LockInv
<1>5. PlaceInv'
    BY <1>1 DEF PlaceInv, local, TypeOK, ApprovePlaces, RejectPlaces
<1>6. CallInv' /\ ResultInv'
    BY <1>1 DEF CallInv, ResultInv, local, RejectPlaces, TypeOK
<1>7. ReplyInv'
    BY <1>1 DEF ReplyInv, local, rows
<1>8. SeenInv'
    BY <1>1 DEF SeenInv, local, rows
<1> QED
    BY <1>2, <1>3, <1>4, <1>5, <1>6, <1>7, <1>8

(***************************************************************************)
(* A handler that ends without a commit leaves every row as it was.        *)
(***************************************************************************)
LEMMA RollInv ==
    ASSUME IInv, NEW r \in Requests, NEW status \in {"404", "409", "500", "502"},
           Roll(r, status), pc[r] \in InTransaction \cup {"begin"},
           status \in {"404", "409"} => pc[r] = "begin"
    PROVE  IInv'
<1> USE DEF IInv
<1>1. /\ UNCHANGED <<rows, local, call>>
      /\ pc'[r] = "done" /\ reply'[r] = status
      /\ \A q \in Requests \ {r} : pc'[q] = pc[q] /\ reply'[q] = reply[q]
      /\ \A a \in Actions : lock'[a] = IF lock[a] = r THEN NoRequest ELSE lock[a]
    BY DEF Roll, Goto, TypeOK
<1>2. TypeOK'
    BY DEF TypeOK, Roll, Goto, Places, rows, local
<1>3. RowsAgree' /\ AuditInv' /\ HonestCompletion'
    BY <1>1 DEF RowsAgree, AuditInv, HonestCompletion, rows
<1>4. LockInv'
  <2>1. ASSUME NEW q \in Requests, pc'[q] \in InTransaction
        PROVE  lock'[target'[q]] = q /\ approval'[target'[q]] = Undecided /\ owner'[q]
    <3>1. q # r
        BY <1>1, <2>1 DEF InTransaction, ApprovePlaces, RejectPlaces
    <3> QED BY <3>1, <1>1, <2>1 DEF LockInv, rows, local, TypeOK
  <2>2. ASSUME NEW a \in Actions, lock'[a] \in Requests
        PROVE  target'[lock'[a]] = a /\ pc'[lock'[a]] \in InTransaction
    <3>1. lock'[a] = lock[a] /\ lock[a] # r
        BY <1>1, <2>2, NoRequestAssumption
    <3> QED BY <3>1, <1>1, <2>2 DEF LockInv, local
  <2> QED BY <2>1, <2>2 DEF LockInv
<1>5. PlaceInv' /\ CallInv' /\ ResultInv'
    BY <1>1 DEF PlaceInv, CallInv, ResultInv, local, ApprovePlaces, RejectPlaces
<1>6. ReplyInv'
  <2>1. status \in {"404", "409"} => call[r] = "none"
      BY DEF CallInv
  <2> QED BY <1>1, <2>1 DEF ReplyInv, rows, local
<1>7. SeenInv'
    BY <1>1 DEF SeenInv, rows, local
<1>8. ApprovedWasWritten'
    BY <1>1 DEF ApprovedWasWritten, rows, local
<1> QED
    BY <1>2, <1>3, <1>4, <1>5, <1>6, <1>7, <1>8
(***************************************************************************)
(* The commit of a decision, as both endpoints make it.                    *)
(***************************************************************************)
Decides(r, decision, stepStatus, summary) ==
    /\ Persist(r, decision, stepStatus, summary)
    /\ Finish(r)
    /\ summary \in ExecutionSummary
    /\ \/ /\ pc[r] = "commit_approve"
          /\ summary = Summary(seen[r])
          /\ stepStatus = result[r]
          /\ decision = Decision(r)
       \/ /\ pc[r] = "commit_reject"
          /\ summary = "failed"
          /\ stepStatus = "skipped"
          /\ decision = "rejected"

LEMMA DecidesInv ==
    ASSUME IInv, NEW r \in Requests, NEW decision, NEW stepStatus, NEW summary,
           Decides(r, decision, stepStatus, summary)
    PROVE  IInv'
<1> USE DEF IInv
<1> DEFINE a == target[r]
<1>1. /\ a \in Actions /\ pc[r] \in InTransaction
      /\ lock[a] = r /\ approval[a] = Undecided /\ owner[r]
    BY DEF Decides, LockInv, InTransaction, ApprovePlaces, RejectPlaces, TypeOK
<1>2. /\ UNCHANGED <<others, sound, local, call>>
      /\ pc'[r] = "done" /\ reply'[r] \in {"200", "500"} /\ lock'[a] = NoRequest
      /\ \A q \in Requests \ {r} : pc'[q] = pc[q] /\ reply'[q] = reply[q]
      /\ \A b \in Actions \ {a} : /\ lock'[b] = lock[b]
                                /\ approval'[b] = approval[b]
                                /\ step'[b] = step[b]
      /\ approval'[a] = decision /\ step'[a] = stepStatus
      /\ audit' = audit \cup {[request |-> r, action |-> a, status |-> decision]}
    BY <1>1 DEF Decides, Persist, Finish, Goto, TypeOK
<1>3. <<decision, stepStatus>> \in {<<"approved", "completed">>,
                                   <<"failed", "failed">>, <<"rejected", "skipped">>}
    BY DEF Decides, Decision, ResultInv
<1>4. TypeOK'
  <2>1. Flushed(r, summary) \in ExecutionSummary
      BY DEF Flushed, Decides, TypeOK
  <2>2. approval' \in [Actions -> ApprovalStatus] /\ step' \in [Actions -> StepStatus]
      BY <1>3 DEF Decides, Persist, TypeOK, ApprovalStatus, StepStatus
  <2>3. audit' \in SUBSET AuditRow
      BY <1>1, <1>2, <1>3 DEF TypeOK, AuditRow
  <2>4. lock' \in [Actions -> Requests \cup {NoRequest}] /\ pc' \in [Requests -> Places]
      BY DEF Decides, Finish, Goto, TypeOK, Places
  <2>5. reply' \in [Requests -> {"none", "200", "404", "409", "500", "502"}]
      BY DEF Decides, Finish, TypeOK
  <2>6. execution' \in ExecutionSummary
      BY <2>1 DEF Decides, Persist
  <2> QED BY <1>2, <2>2, <2>3, <2>4, <2>5, <2>6 DEF TypeOK, local
<1>5. RowsAgree'
    BY <1>2, <1>3 DEF RowsAgree
<1>6. \A q \in Requests \ {r} : pc[q] \in InTransaction => target[q] # a
    BY <1>1 DEF LockInv
<1>7. LockInv'
  <2>1. ASSUME NEW q \in Requests, pc'[q] \in InTransaction
        PROVE  lock'[target'[q]] = q /\ approval'[target'[q]] = Undecided /\ owner'[q]
    <3>1. q # r
        BY <1>2, <2>1 DEF InTransaction, ApprovePlaces, RejectPlaces
    <3>2. target'[q] = target[q] /\ target[q] \in Actions \ {a} /\ owner' = owner
        BY <3>1, <1>2, <1>6, <2>1 DEF local, TypeOK
    <3> QED BY <3>1, <3>2, <1>2, <2>1 DEF LockInv
  <2>2. ASSUME NEW b \in Actions, lock'[b] \in Requests
        PROVE  target'[lock'[b]] = b /\ pc'[lock'[b]] \in InTransaction
    <3>1. b # a
        BY <1>2, <2>2, NoRequestAssumption
    <3>2. lock'[b] = lock[b] /\ lock[b] # r
        BY <3>1, <1>2, <2>2 DEF LockInv
    <3> QED BY <3>2, <1>2, <2>2 DEF LockInv, local
  <2> QED BY <2>1, <2>2 DEF LockInv
<1>8. PlaceInv' /\ CallInv' /\ ResultInv'
    BY <1>2 DEF PlaceInv, CallInv, ResultInv, local, ApprovePlaces, RejectPlaces
<1>9. \A row \in audit : row.action # a
    BY <1>1 DEF AuditInv, TypeOK, AuditRow, Undecided
<1>10. AuditInv'
  <2>1. \A row \in audit' : approval'[row.action] = row.status
      BY <1>1, <1>2, <1>9 DEF AuditInv, TypeOK, AuditRow
  <2>2. \A x, y \in audit' : x.action = y.action => x = y
      BY <1>2, <1>9 DEF AuditInv
  <2>3. \A b \in Actions : approval'[b] # Undecided =>
            \E row \in audit' : row.action = b
    <3>1. [request |-> r, action |-> a, status |-> decision] \in audit'
        BY <1>2
    <3>2. audit \subseteq audit'
        BY <1>2
    <3>3. \A b \in Actions \ {a} : approval'[b] # Undecided =>
             \E row \in audit : row.action = b
        BY <1>2 DEF AuditInv
    <3> QED BY <3>1, <3>2, <3>3
  <2> QED BY <2>1, <2>2, <2>3 DEF AuditInv
<1>11. ReplyInv'
  <2>1. kind[r] = "approve" => decision \in {"approved", "failed"}
      BY DEF Decides, Decision, PlaceInv, RejectPlaces
  <2>2. \A q \in Requests \ {r} :
           /\ pc'[q] # "done" => reply'[q] = "none"
           /\ pc'[q] = "done" /\ call'[q] # "none" =>
                 reply'[q] \in {"200", "500", "502"}
           /\ pc'[q] = "done" /\ reply'[q] = "200" /\ kind'[q] = "approve" =>
                 \E row \in audit' :
                     /\ row.request = q /\ row.action = target'[q]
                     /\ row.status \in {"approved", "failed"}
      BY <1>2 DEF ReplyInv, local
  <2>3. kind'[r] = "approve" =>
           \E row \in audit' :
               /\ row.request = r /\ row.action = target'[r]
               /\ row.status \in {"approved", "failed"}
    <3>1. [request |-> r, action |-> a, status |-> decision] \in audit'
        BY <1>2
    <3> QED BY <1>2, <2>1, <3>1 DEF local
  <2> QED BY <1>2, <2>2, <2>3 DEF ReplyInv
<1>12. \A b \in Actions : step[b] \in {"completed", "skipped"} => step'[b] = step[b]
    BY <1>1, <1>2 DEF RowsAgree, Undecided
<1>13. SeenInv'
    BY <1>2, <1>12 DEF SeenInv, local, TypeOK
<1>14. HonestCompletion'
  <2>1. execution # "completed"
      BY <1>1 DEF HonestCompletion, RowsAgree, Undecided
  <2> SUFFICES ASSUME execution' = "completed"
               PROVE  /\ "failed" \notin others
                      /\ \A b \in Actions : step'[b] \in {"completed", "skipped"}
      BY <1>2 DEF HonestCompletion
  <2>2. summary = "completed"
      BY <2>1 DEF Decides, Persist, Flushed
  <2>3. pc[r] = "commit_approve" /\ Summary(seen[r]) = "completed" /\ stepStatus = result[r]
      BY <2>2 DEF Decides
  <2>4. "failed" \notin seen[r]
      BY <2>3 DEF Summary
  <2>5. "failed" \notin others /\ result[r] # "failed"
      BY <2>3, <2>4 DEF SeenInv
  <2>6. step'[a] = "completed"
      BY <1>2, <2>3, <2>5 DEF ResultInv
  <2>7. \A b \in Actions \ {a} : step[b] \in {"completed", "skipped"}
      BY <2>3 DEF SeenInv
  <2> QED BY <1>2, <2>5, <2>6, <2>7
<1>15. ApprovedWasWritten'
  <2> SUFFICES ASSUME NEW b \in Actions, approval'[b] = "approved"
               PROVE  \E row \in audit' :
                         /\ row.action = b /\ kind'[row.request] = "approve"
                         /\ call'[row.request] = "landed"
      BY DEF ApprovedWasWritten
  <2>1. CASE b = a
    <3>1. pc[r] = "commit_approve" /\ result[r] = "completed"
        BY <1>2, <2>1 DEF Decides, Decision
    <3>2. kind[r] = "approve" /\ call[r] = "landed"
        BY <3>1 DEF PlaceInv, ResultInv, ApprovePlaces
    <3>3. [request |-> r, action |-> a, status |-> decision] \in audit'
        BY <1>2
    <3> QED BY <3>2, <3>3, <2>1, <1>2 DEF local
  <2>2. CASE b # a
    <3>1. audit \subseteq audit' /\ UNCHANGED <<kind, call>>
        BY <1>2 DEF local
    <3> QED BY <2>2, <3>1, <1>2 DEF ApprovedWasWritten
  <2> QED BY <2>1, <2>2
<1> QED
    BY <1>4, <1>5, <1>7, <1>8, <1>10, <1>11, <1>13, <1>14, <1>15

LEMMA StutterInv == IInv /\ UNCHANGED vars => IInv'
    BY DEF IInv, vars, TypeOK, RowsAgree, LockInv, PlaceInv, CallInv, ResultInv,
           AuditInv, ReplyInv, SeenInv, HonestCompletion, ApprovedWasWritten

(***************************************************************************)
(* Every step of a request is one of the four kinds the lemmas above are   *)
(* about.                                                                  *)
(***************************************************************************)
LEMMA StepKinds ==
    ASSUME NEW r \in Requests, Arrive(r) \/ Handler(r) \/ Network(r) \/ Abort(r)
    PROVE  \/ Quiet(r)
           \/ Acquire(r)
           \/ \E status \in {"404", "409", "500", "502"} :
                 /\ Roll(r, status)
                 /\ pc[r] \in InTransaction \cup {"begin"}
                 /\ status \in {"404", "409"} => pc[r] = "begin"
           \/ \E decision, stepStatus, summary :
                 Decides(r, decision, stepStatus, summary)
<1>1. CASE NotFound(r) \/ NotPending(r) \/ ExecuteRaises(r) \/ Abort(r)
    BY <1>1 DEF NotFound, NotPending, RowIsFree, ExecuteRaises, Abort,
                InTransaction, ApprovePlaces, RejectPlaces
<1>2. CASE CommitApprove(r)
  <2>1. Decides(r, Decision(r), result[r], Summary(seen[r]))
      BY <1>2, SummaryType DEF CommitApprove, Decides
  <2> QED BY <2>1
<1>3. CASE CommitReject(r)
  <2>1. Decides(r, "rejected", "skipped", "failed")
      BY <1>3 DEF CommitReject, Decides, ExecutionSummary
  <2> QED BY <2>1
<1> QED
    BY <1>1, <1>2, <1>3 DEF Handler, Network, Quiet

(***************************************************************************)
(* The inductive invariant of the two endpoints.                           *)
(***************************************************************************)
THEOREM Invariance == Spec => []IInv
<1>1. IInv /\ [Next]_vars => IInv'
  <2> SUFFICES ASSUME IInv, [Next]_vars PROVE IInv'
      OBVIOUS
  <2>1. CASE UNCHANGED vars
      BY <2>1, StutterInv
  <2>2. ASSUME NEW r \in Requests, Arrive(r) \/ Handler(r) \/ Network(r) \/ Abort(r)
        PROVE  IInv'
      BY <2>2, StepKinds, QuietInv, AcquireInv, RollInv, DecidesInv
  <2> QED BY <2>1, <2>2 DEF Next
<1> QED
    BY <1>1, InitInv, PTL DEF Spec
-----------------------------------------------------------------------------
(***************************************************************************)
(* Every variable keeps its type.                                          *)
(***************************************************************************)
THEOREM TypeCorrect == Spec => []TypeOK
<1>1. IInv => TypeOK
    BY DEF IInv
<1> QED
    BY <1>1, Invariance, PTL

(***************************************************************************)
(* An approval and its step always agree.                                  *)
(***************************************************************************)
LEMMA RowsAlwaysAgree == Spec => []RowsAgree
<1>1. IInv => RowsAgree
    BY DEF IInv
<1> QED
    BY <1>1, Invariance, PTL

(***************************************************************************)
(* However many requests race for an approval, the audit log has exactly   *)
(* one row about it once it is decided, and none before.                   *)
(***************************************************************************)
LEMMA AuditIsExact == Spec => []AuditExact
<1>1. IInv => AuditExact
  <2> SUFFICES ASSUME IInv, NEW a \in Actions
               PROVE  IF approval[a] = Undecided
                      THEN {row \in audit : row.action = a} = {}
                      ELSE \E row \in {x \in audit : x.action = a} :
                             /\ {x \in audit : x.action = a} = {row}
                             /\ row.status = approval[a]
      BY DEF AuditExact
  <2>1. \A row \in audit : row.status # Undecided
      BY DEF IInv, TypeOK, AuditRow, Undecided
  <2>2. CASE approval[a] = Undecided
      BY <2>1, <2>2 DEF IInv, AuditInv
  <2>3. CASE approval[a] # Undecided
    <3>1. PICK row \in audit : row.action = a
        BY <2>3 DEF IInv, AuditInv
    <3>2. {x \in audit : x.action = a} = {row} /\ row.status = approval[a]
        BY <3>1 DEF IInv, AuditInv
    <3> QED BY <2>3, <3>1, <3>2
  <2> QED BY <2>2, <2>3
<1> QED
    BY <1>1, Invariance, PTL

(***************************************************************************)
(* The three records of a decision agree after any race of requests.       *)
(***************************************************************************)
THEOREM RecordsAlwaysAgree == Spec => []RecordsAgree
<1> QED
    BY RowsAlwaysAgree, AuditIsExact, PTL DEF RecordsAgree

(***************************************************************************)
(* "completed" is never recorded while a step is pending or failed, even   *)
(* though it is computed from a snapshot.                                  *)
(***************************************************************************)
THEOREM CompletionIsHonest == Spec => []HonestCompletion
<1>1. IInv => HonestCompletion
    BY DEF IInv
<1> QED
    BY <1>1, Invariance, PTL

(***************************************************************************)
(* "approved" is never recorded without its effect.                        *)
(***************************************************************************)
LEMMA ApprovedMeansWritten == Spec => []ApprovedWasWritten
<1>1. IInv => ApprovedWasWritten
    BY DEF IInv
<1> QED
    BY <1>1, Invariance, PTL

(***************************************************************************)
(* Every effect at Google is in the hands of its request, in the audit     *)
(* log, or was answered with an error.                                     *)
(***************************************************************************)
LEMMA EffectsAreAccountedFor == Spec => []WritesAccountedFor
<1>1. IInv => WritesAccountedFor
  <2> SUFFICES ASSUME IInv, NEW r \in Requests, call[r] = "landed"
               PROVE  \/ pc[r] \in ApprovePlaces /\ lock[target[r]] = r
                      \/ reply[r] \in {"500", "502"}
                      \/ \E row \in audit :
                            /\ row.request = r /\ row.action = target[r]
                            /\ row.status = approval[target[r]]
                            /\ row.status \in {"approved", "failed"}
      BY DEF WritesAccountedFor
  <2>1. kind[r] = "approve" /\ pc[r] \notin {"idle", "begin"} \cup RejectPlaces
      BY DEF IInv, CallInv
  <2>2. pc[r] \in ApprovePlaces \cup {"done"}
      BY <2>1 DEF IInv, TypeOK, Places, InTransaction
  <2>3. CASE pc[r] \in ApprovePlaces
      BY <2>3 DEF IInv, LockInv, InTransaction
  <2>4. CASE pc[r] = "done"
    <3>1. CASE reply[r] \in {"500", "502"}
        BY <3>1
    <3>2. CASE reply[r] = "200"
      <4>1. PICK row \in audit : /\ row.request = r /\ row.action = target[r]
                                /\ row.status \in {"approved", "failed"}
          BY <2>1, <2>4, <3>2 DEF IInv, ReplyInv
      <4> QED BY <4>1 DEF IInv, AuditInv
    <3> QED BY <2>4, <3>1, <3>2 DEF IInv, ReplyInv
  <2> QED BY <2>2, <2>3, <2>4
<1> QED
    BY <1>1, Invariance, PTL

(***************************************************************************)
(* What the records say and what Google has match, both ways.              *)
(***************************************************************************)
THEOREM EffectsAlwaysMatchRecords == Spec => []EffectsMatchRecords
<1> QED
    BY ApprovedMeansWritten, EffectsAreAccountedFor, PTL DEF EffectsMatchRecords

-----------------------------------------------------------------------------
\* The client of the request was told that it failed.
ToldError(r) == reply[r] \in {"500", "502"}

\* What WriteAtMostOnce leaves of "exactly once": only an effect whose client
\* was told of a failure can be repeated.
RepeatsFollowErrors ==
    \A q, r \in Requests :
        (call[q] = "landed" /\ call[r] = "landed" /\ target[q] = target[r])
            => q = r \/ ToldError(q) \/ ToldError(r)

\* Only such an effect can stand beside a rejection, or come after it.
RejectedLeavesNothing ==
    \A r \in Requests :
        (call[r] = "landed" /\ approval[target[r]] = "rejected") => ToldError(r)

(***************************************************************************)
(* test_approval_executes_stored_action_exactly_once says more than the    *)
(* code keeps (WriteAtMostOnce is refuted): the same write reaches Google  *)
(* twice only if approve_action or its transaction failed with 5xx after   *)
(* the first effect.  Two effects without an error would need two locks of *)
(* one row, or two audit rows of one approval.                             *)
(***************************************************************************)
THEOREM RepeatsOnlyAfterErrors == Spec => []RepeatsFollowErrors
<1>1. IInv /\ WritesAccountedFor => RepeatsFollowErrors
  <2> SUFFICES ASSUME IInv, WritesAccountedFor,
                      NEW q \in Requests, NEW r \in Requests,
                      call[q] = "landed", call[r] = "landed",
                      target[q] = target[r], ~ ToldError(q), ~ ToldError(r)
               PROVE  q = r
      BY DEF RepeatsFollowErrors
  <2> DEFINE Works(p) == pc[p] \in ApprovePlaces /\ lock[target[p]] = p
             Wrote(p, row) == /\ row.request = p /\ row.action = target[p]
                              /\ row.status = approval[target[p]]
                              /\ row.status \in {"approved", "failed"}
  <2>1. \A p \in {q, r} : Works(p) \/ \E row \in audit : Wrote(p, row)
      BY DEF WritesAccountedFor, ToldError
  <2>2. \A p \in {q, r} : Works(p) => approval[target[p]] = Undecided
      BY DEF IInv, LockInv, InTransaction
  <2>3. CASE Works(q) \/ Works(r)
      BY <2>1, <2>2, <2>3 DEF Undecided
  <2>4. CASE \E x, y \in audit : Wrote(q, x) /\ Wrote(r, y)
      BY <2>4 DEF IInv, AuditInv
  <2> QED BY <2>1, <2>3, <2>4
<1> QED
    BY <1>1, Invariance, EffectsAreAccountedFor, PTL

(***************************************************************************)
(* reject_action and an effect never meet behind the user's back: when an  *)
(* approval stands rejected, every effect of it was answered with an error *)
(* (its call was in flight, or had landed, when approve_action failed).    *)
(***************************************************************************)
THEOREM RejectionsLeaveNothing == Spec => []RejectedLeavesNothing
<1>1. IInv /\ WritesAccountedFor => RejectedLeavesNothing
  <2> SUFFICES ASSUME IInv, WritesAccountedFor, NEW r \in Requests,
                      call[r] = "landed", approval[target[r]] = "rejected"
               PROVE  ToldError(r)
      BY DEF RejectedLeavesNothing
  <2>1. pc[r] \notin ApprovePlaces
      BY DEF IInv, LockInv, InTransaction, Undecided
  <2> QED BY <2>1 DEF WritesAccountedFor, ToldError
<1> QED
    BY <1>1, Invariance, EffectsAreAccountedFor, PTL

(***************************************************************************)
(* A decision is never changed.                                            *)
(***************************************************************************)
THEOREM DecisionsAreFinal == Spec => DecidedForever
<1>1. ASSUME IInv, [Next]_vars
      PROVE  [\A a \in Actions :
                 approval[a] # Undecided => approval'[a] = approval[a]]_vars
  <2> SUFFICES ASSUME NEW r \in Requests,
                      Arrive(r) \/ Handler(r) \/ Network(r) \/ Abort(r),
                      NEW a \in Actions, approval[a] # Undecided
               PROVE  approval'[a] = approval[a]
      BY <1>1 DEF Next
  <2>1. CASE Quiet(r)
      BY <2>1, <1>1, QuietFrame DEF IInv, rows
  <2>2. CASE Acquire(r)
      BY <2>2 DEF Acquire, rows
  <2>3. ASSUME NEW status, Roll(r, status) PROVE approval'[a] = approval[a]
      BY <2>3 DEF Roll, rows
  <2>4. ASSUME NEW decision, NEW stepStatus, NEW summary,
               Decides(r, decision, stepStatus, summary)
        PROVE  approval'[a] = approval[a]
    <3>1. approval[target[r]] = Undecided
        BY <2>4, <1>1 DEF Decides, IInv, LockInv, InTransaction, ApprovePlaces,
                          RejectPlaces
    <3> QED BY <3>1, <2>4, <1>1 DEF Decides, Persist, IInv, TypeOK
  <2> QED BY <2>1, <2>2, <2>3, <2>4, StepKinds
<1> QED
    BY <1>1, Invariance, PTL DEF Spec, DecidedForever

(***************************************************************************)
(* A processed approval is never executed again, and two requests never    *)
(* wait for Google about the same approval.                                *)
(***************************************************************************)
THEOREM ProcessedApprovalsAreNotExecuted == Spec => CallsOnlyWhilePending
<1>1. ASSUME IInv, [Next]_vars
      PROVE  [\A r \in Requests :
                 (call[r] = "none" /\ call'[r] # "none") =>
                     /\ kind[r] = "approve" /\ owner[r]
                     /\ approval[target[r]] = Undecided
                     /\ \A q \in Requests \ {r} :
                           target[q] = target[r] => pc[q] # "google"]_vars
  <2> SUFFICES ASSUME NEW q \in Requests,
                      Arrive(q) \/ Handler(q) \/ Network(q) \/ Abort(q),
                      NEW r \in Requests,
                      call[r] = "none" /\ call'[r] # "none"
               PROVE  /\ kind[r] = "approve" /\ owner[r]
                      /\ approval[target[r]] = Undecided
                      /\ \A p \in Requests \ {r} :
                            target[p] = target[r] => pc[p] # "google"
      BY <1>1 DEF Next
  <2>1. r = q /\ Send(r)
    <3>1. CASE Land(q) \/ Lose(q)
        BY <3>1, <1>1 DEF Land, Lose, IInv, TypeOK
    <3>2. CASE Send(q)
        BY <3>2, <1>1 DEF Send, IInv, TypeOK
    <3>3. CASE ~ Land(q) /\ ~ Lose(q) /\ ~ Send(q)
      <4>1. call' = call
          BY <3>3 DEF Arrive, Handler, Network, Abort, NotFound, NotPending,
                      Acquire, Completed, Failed, ExecuteRaises, Record,
                      Refresh, CommitApprove, LoadForReject, CommitReject,
                      Roll, Finish
      <4> QED BY <4>1
    <3> QED BY <3>1, <3>2, <3>3
  <2>2. pc[r] = "execute"
      BY <2>1 DEF Send
  <2>3. kind[r] = "approve" /\ owner[r] /\ approval[target[r]] = Undecided
        /\ lock[target[r]] = r
      BY <2>2, <1>1 DEF IInv, PlaceInv, LockInv, InTransaction, ApprovePlaces
  <2>4. ASSUME NEW p \in Requests \ {r}, target[p] = target[r], pc[p] = "google"
        PROVE  FALSE
      BY <2>3, <2>4, <1>1 DEF IInv, LockInv, InTransaction, ApprovePlaces
  <2> QED BY <2>3, <2>4
<1> QED
    BY <1>1, Invariance, PTL DEF Spec, CallsOnlyWhilePending

-----------------------------------------------------------------------------
(***************************************************************************)
(* The endpoints behind their cards (ApprovalCard): what is proved above   *)
(* holds when cards send the requests, and the cards say what the records  *)
(* say.                                                                    *)
(***************************************************************************)
(***************************************************************************)
(* Seen from the endpoints, a card is one more client: pressing it is the  *)
(* arrival of a request, and its answers change nothing there.             *)
(***************************************************************************)
THEOREM CardsAreClients == CardSpec => Spec
<1>1. [CardNext]_cardVars => [Next]_vars
  <2> SUFFICES ASSUME [CardNext]_cardVars PROVE [Next]_vars
      OBVIOUS
  <2>1. ASSUME NEW a \in Actions, NEW r \in Requests, Press(a, r) PROVE Next
      BY <2>1 DEF Press, Next
  <2>2. ASSUME NEW a \in Actions, Answer(a) \/ NoAnswer(a) PROVE UNCHANGED vars
      BY <2>2 DEF Answer, NoAnswer, Settle
  <2>3. CASE UNCHANGED cardVars
      BY <2>3 DEF cardVars
  <2> QED BY <2>1, <2>2, <2>3 DEF CardNext
<1> QED
    BY <1>1, PTL DEF CardSpec, CardInit, Spec

\* So the cards may rely on the invariant and the decisions of the endpoints.
LEMMA CardsKeepInvariant == CardSpec => []IInv /\ DecidedForever
    BY CardsAreClients, Invariance, DecisionsAreFinal, PTL

-----------------------------------------------------------------------------
\* An answer tells what became of the approval.
ToldInv ==
    \A r \in Requests :
        /\ reply[r] = "200" =>
              approval[target[r]] \in
                  (IF kind[r] = "approve" THEN {"approved", "failed"} ELSE {"rejected"})
        /\ reply[r] = "409" => approval[target[r]] # Undecided

\* A card waits exactly for a request of its own that has arrived.
WaitInv ==
    /\ \A a \in Actions :
          /\ card[a] \in Deciding <=> sent[a] # NoRequest
          /\ sent[a] # NoRequest => sent[a] \in byCard /\ target[sent[a]] = a
    /\ \A r \in byCard : pc[r] # "idle"

\* A request of a card that is neither awaited nor warned about is over, and a
\* call it made is behind a card that says approved.
FateInv ==
    \A r \in byCard :
        \/ sent[target[r]] = r
        \/ r \in warned
        \/ pc[r] = "done" /\ (call[r] # "none" => card[target[r]] = "approved")

CInv == CardTypeOK /\ ToldInv /\ WaitInv /\ FateInv /\ CardsTellDecision

\* The decisions stand, as DecidedForever says of a step.
Standing ==
    \A a \in Actions : approval[a] # Undecided => approval'[a] = approval[a]

LEMMA CardInitInv == CardInit => CInv
<1> SUFFICES ASSUME CardInit PROVE CInv
    OBVIOUS
<1>1. TypeOK
    BY InitInv DEF CardInit, IInv
<1>2. CardTypeOK
    BY <1>1 DEF CardInit, CardTypeOK, CardState
<1>3. ToldInv /\ WaitInv
    BY DEF CardInit, Init, PendingRows, ToldInv, WaitInv, Deciding
<1>4. FateInv /\ CardsTellDecision
    BY DEF CardInit, FateInv, CardsTellDecision
<1> QED
    BY <1>2, <1>3, <1>4 DEF CInv

(***************************************************************************)
(* What a step of the endpoints leaves alone: the paths, the requests that *)
(* are over, and their answers.                                            *)
(***************************************************************************)
LEMMA EndpointFrame ==
    ASSUME IInv, [Next]_vars
    PROVE  /\ UNCHANGED <<target, kind>>
           /\ \A q \in Requests :
                 /\ pc[q] # "idle" => pc'[q] # "idle"
                 /\ pc[q] = "done" =>
                       /\ pc'[q] = "done" /\ reply'[q] = reply[q]
                       /\ call[q] = "none" => call'[q] = "none"
<1> USE DEF IInv
<1>1. CASE UNCHANGED vars
    BY <1>1 DEF vars
<1>2. ASSUME NEW r \in Requests, Arrive(r) \/ Handler(r) \/ Network(r) \/ Abort(r)
      PROVE  /\ UNCHANGED <<target, kind>>
             /\ \A q \in Requests \ {r} :
                   pc'[q] = pc[q] /\ reply'[q] = reply[q] /\ call'[q] = call[q]
             /\ pc'[r] # "idle" \/ pc[r] = "idle"
             /\ pc[r] = "done" =>
                   /\ pc'[r] = "done" /\ reply'[r] = reply[r]
                   /\ call[r] = "none" => call'[r] = "none"
  <2>1. CASE Quiet(r)
    <3>1. pc[r] # "idle" => pc'[r] # "idle"
        BY <2>1 DEF Quiet, Arrive, Send, Land, Lose, Completed, AgentCompletes,
                    Failed, Record, Refresh, LoadForReject, Goto, TypeOK
    <3>2. pc[r] = "done" /\ call[r] = "none" => call'[r] = "none"
        BY <2>1 DEF Quiet, Arrive, Send, Land, Lose, Completed, AgentCompletes,
                    Failed, Record, Refresh, LoadForReject, TypeOK
    <3> QED BY <2>1, <3>1, <3>2, QuietFrame
  <2>2. CASE Acquire(r)
      BY <2>2 DEF Acquire, MayProceed, RowIsFree, Goto, TypeOK, local
  <2>3. ASSUME NEW status, Roll(r, status), pc[r] \in InTransaction \cup {"begin"}
        PROVE  /\ UNCHANGED <<target, kind, call>> /\ pc[r] # "done"
               /\ pc'[r] = "done"
               /\ \A q \in Requests \ {r} : pc'[q] = pc[q] /\ reply'[q] = reply[q]
      BY <2>3 DEF Roll, Goto, TypeOK, local, InTransaction, ApprovePlaces,
                  RejectPlaces
  <2>4. ASSUME NEW decision, NEW stepStatus, NEW summary,
               Decides(r, decision, stepStatus, summary)
        PROVE  /\ UNCHANGED <<target, kind, call>> /\ pc[r] # "done"
               /\ pc'[r] = "done"
               /\ \A q \in Requests \ {r} : pc'[q] = pc[q] /\ reply'[q] = reply[q]
      BY <2>4 DEF Decides, Finish, Goto, TypeOK, local
  <2> QED BY <1>2, <2>1, <2>2, <2>3, <2>4, StepKinds
<1> QED
    BY <1>1, <1>2 DEF Next

(***************************************************************************)
(* The answers go on telling what became of the approvals.                 *)
(***************************************************************************)
LEMMA ToldStep ==
    ASSUME IInv, ToldInv, [Next]_vars, Standing
    PROVE  ToldInv'
<1> USE DEF IInv
<1>1. CASE UNCHANGED vars
    BY <1>1 DEF vars, ToldInv
<1>2. ASSUME NEW r \in Requests, Arrive(r) \/ Handler(r) \/ Network(r) \/ Abort(r)
      PROVE  ToldInv'
  <2>1. UNCHANGED <<target, kind>> /\ target \in [Requests -> Actions]
      BY EndpointFrame, <1>2 DEF Next, TypeOK
  <2>2. ASSUME NEW q \in Requests, reply'[q] = reply[q]
        PROVE  /\ reply'[q] = "200" =>
                     approval'[target[q]] \in
                        (IF kind[q] = "approve" THEN {"approved", "failed"}
                         ELSE {"rejected"})
               /\ reply'[q] = "409" => approval'[target[q]] # Undecided
      BY <2>1, <2>2 DEF ToldInv, Standing, Undecided
  <2>3. CASE reply' = reply
      BY <2>1, <2>2, <2>3 DEF ToldInv
  <2>4. CASE NotPending(r)
      BY <2>1, <2>2, <2>4 DEF NotPending, Roll, ToldInv, Standing, TypeOK
  <2>5. ASSUME NEW status \in {"404", "500", "502"}, Roll(r, status) PROVE ToldInv'
      BY <2>1, <2>2, <2>5 DEF Roll, ToldInv, TypeOK
  <2>6. CASE CommitApprove(r)
    <3>1. kind[r] = "approve"
        BY <2>6 DEF CommitApprove, PlaceInv, ApprovePlaces
    <3>2. approval'[target[r]] \in {"approved", "failed"}
        BY <2>1, <2>6 DEF CommitApprove, Persist, Decision, TypeOK
    <3>3. \A q \in Requests \ {r} : reply'[q] = reply[q]
        BY <2>6 DEF CommitApprove, Finish, TypeOK
    <3>4. reply'[r] \in {"200", "500"}
        BY <2>6 DEF CommitApprove, Finish, TypeOK
    <3> QED BY <2>1, <2>2, <3>1, <3>2, <3>3, <3>4 DEF ToldInv
  <2>7. CASE CommitReject(r)
    <3>1. kind[r] = "reject"
        BY <2>7 DEF CommitReject, PlaceInv, RejectPlaces
    <3>2. approval'[target[r]] = "rejected"
        BY <2>1, <2>7 DEF CommitReject, Persist, TypeOK
    <3>3. \A q \in Requests \ {r} : reply'[q] = reply[q]
        BY <2>7 DEF CommitReject, Finish, TypeOK
    <3>4. reply'[r] \in {"200", "500"}
        BY <2>7 DEF CommitReject, Finish, TypeOK
    <3> QED BY <2>1, <2>2, <3>1, <3>2, <3>3, <3>4 DEF ToldInv
  <2>8. CASE Quiet(r) \/ Acquire(r)
      BY <2>3, <2>8, QuietFrame DEF Acquire
  <2> QED BY <1>2, <2>4, <2>5, <2>6, <2>7, <2>8
          DEF Handler, Network, Quiet, NotFound, ExecuteRaises, Abort
<1> QED
    BY <1>1, <1>2 DEF Next

-----------------------------------------------------------------------------
\* A step of the endpoints that no card has a part in.
LEMMA OthersStep ==
    ASSUME IInv, IInv', CInv, [Next]_vars, Standing, UNCHANGED cards
    PROVE  CInv'
<1> USE DEF CInv, cards
<1>1. CardTypeOK'
    BY DEF CardTypeOK, IInv
<1>2. ToldInv'
    BY ToldStep
<1>3. byCard \subseteq Requests /\ \A a \in Actions : sent[a] # NoRequest => sent[a] \in Requests
    BY DEF CardTypeOK
<1>4. WaitInv'
    BY <1>3, EndpointFrame DEF WaitInv
<1>5. FateInv'
    BY <1>3, EndpointFrame DEF FateInv
<1>6. CardsTellDecision'
    BY DEF CardsTellDecision, Standing, Undecided
<1> QED
    BY <1>1, <1>2, <1>4, <1>5, <1>6

\* A press: the request is new, and the card awaits it.
LEMMA PressStep ==
    ASSUME IInv, IInv', CInv, Standing, NEW a \in Actions, NEW r \in Requests,
           Press(a, r)
    PROVE  CInv'
<1> USE DEF CInv
<1>1. /\ UNCHANGED <<rows, local, lock, reply, call, warned>>
      /\ pc[r] = "idle" /\ pc'[r] = "begin"
      /\ \A q \in Requests \ {r} : pc'[q] = pc[q]
    BY DEF Press, Arrive, Goto, CardTypeOK, TypeOK
<1>2. /\ card[a] = "pending" /\ target[r] = a
      /\ card'[a] \in Deciding /\ sent'[a] = r
      /\ \A b \in Actions \ {a} : card'[b] = card[b] /\ sent'[b] = sent[b]
      /\ byCard' = byCard \cup {r}
    BY DEF Press, CardTypeOK, Deciding
<1>3. r \notin byCard /\ sent[a] = NoRequest /\ r # NoRequest
    BY <1>1, <1>2, NoRequestAssumption DEF WaitInv, Deciding
<1>4. CardTypeOK'
    BY <1>1, <1>2 DEF CardTypeOK, IInv, Press, CardState, Deciding
<1>5. ToldInv'
    BY <1>1 DEF ToldInv, rows, local
<1>6. WaitInv'
    BY <1>1, <1>2, <1>3 DEF WaitInv, local, CardTypeOK
<1>7. FateInv'
  <2> SUFFICES ASSUME NEW q \in byCard \cup {r}
               PROVE  \/ sent'[target[q]] = q
                      \/ q \in warned
                      \/ pc'[q] = "done" /\ (call[q] # "none" => card'[target[q]] = "approved")
      BY <1>1, <1>2 DEF FateInv, local
  <2>1. CASE q = r
      BY <1>2, <2>1
  <2>2. CASE q # r
    <3>1. q \in byCard /\ q \in Requests /\ target[q] \in Actions
        BY <2>2 DEF CardTypeOK, TypeOK
    <3>2. q # NoRequest
        BY <3>1, NoRequestAssumption
    <3> QED BY <2>2, <3>1, <3>2, <1>1, <1>2, <1>3 DEF FateInv
  <2> QED BY <2>1, <2>2
<1>8. CardsTellDecision'
    BY <1>1, <1>2 DEF CardsTellDecision, rows, Deciding
<1> QED
    BY <1>4, <1>5, <1>6, <1>7, <1>8

\* The card stops waiting, with the answer or without one.
LEMMA SettleStep ==
    ASSUME IInv, IInv', CInv, NEW a \in Actions, Answer(a) \/ NoAnswer(a)
    PROVE  CInv'
<1> USE DEF CInv
<1>1. PICK r \in Requests, state \in CardState \ Deciding :
         /\ r = sent[a]
         /\ Settle(a, state)
         /\ \/ state = "pending"
            \/ pc[r] = "done" /\ state = Shown(r)
  <2>1. sent[a] \in Requests
      BY DEF Answer, NoAnswer, CardTypeOK
  <2>2. Shown(sent[a]) \in CardState \ Deciding
      BY DEF Shown, CardState, Deciding
  <2> QED BY <2>1, <2>2 DEF Answer, NoAnswer, CardState, Deciding
<1>2. /\ UNCHANGED <<vars, byCard>>
      /\ card'[a] = state /\ sent'[a] = NoRequest
      /\ \A b \in Actions \ {a} : card'[b] = card[b] /\ sent'[b] = sent[b]
      /\ warned' = IF state = "pending" THEN warned \cup {r} ELSE warned
    BY <1>1 DEF Settle, CardTypeOK
<1>3. r \in byCard /\ target[r] = a /\ byCard \subseteq Requests
    BY <1>1, NoRequestAssumption DEF WaitInv, CardTypeOK
<1>4. CardTypeOK'
    BY <1>1, <1>2, <1>3 DEF CardTypeOK, Settle, IInv, vars
<1>5. ToldInv'
    BY <1>2 DEF ToldInv, vars
<1>6. WaitInv'
    BY <1>1, <1>2 DEF WaitInv, vars, CardTypeOK
<1>7. FateInv'
  <2> SUFFICES ASSUME NEW q \in byCard
               PROVE  \/ sent'[target[q]] = q
                      \/ q \in warned'
                      \/ pc[q] = "done" /\ (call[q] # "none" => card'[target[q]] = "approved")
      BY <1>2 DEF FateInv, vars
  <2>1. CASE q = r /\ state = "pending"
      BY <2>1, <1>2
  <2>2. CASE q = r /\ state # "pending"
    <3>1. pc[r] = "done" /\ state = Shown(r)
        BY <2>2, <1>1
    <3>2. call[r] # "none" => kind[r] = "approve" /\ reply[r] \in {"200", "500", "502"}
        BY <3>1 DEF IInv, CallInv, ReplyInv
    <3>3. call[r] # "none" => Shown(r) = "approved"
        BY <3>1, <3>2, <2>2 DEF Shown
    <3> QED BY <2>2, <3>1, <3>3, <1>2, <1>3
  <2>3. CASE q # r
    <3>1. q \in Requests /\ target[q] \in Actions
        BY <1>3 DEF CardTypeOK, TypeOK
    <3>2. CASE target[q] = a
      <4>1. card[a] # "approved"
          BY <1>1, NoRequestAssumption DEF WaitInv, Deciding
      <4> QED BY <2>3, <3>2, <4>1, <1>1, <1>2 DEF FateInv
    <3>3. CASE target[q] # a
        BY <3>1, <3>3, <1>2 DEF FateInv
    <3> QED BY <3>2, <3>3
  <2> QED BY <2>1, <2>2, <2>3
<1>8. CardsTellDecision'
  <2>1. /\ state = "rejected" => approval[a] = "rejected"
        /\ state = "approved" => approval[a] \in {"approved", "failed"}
        /\ state = "processed" => approval[a] # Undecided
    <3>1. CASE state = "pending"
        BY <3>1
    <3>2. CASE state = Shown(r)
        BY <3>2, <1>3 DEF Shown, ToldInv, CardTypeOK, TypeOK
    <3> QED BY <1>1, <3>1, <3>2
  <2> QED BY <2>1, <1>2 DEF CardsTellDecision, vars
<1> QED
    BY <1>4, <1>5, <1>6, <1>7, <1>8

(***************************************************************************)
(* The inductive invariant of the cards, on top of the endpoints'.         *)
(***************************************************************************)
THEOREM CardInvariance == CardSpec => []CInv
<1>1. CardInit => CInv
    BY CardInitInv
<1>2. IInv /\ IInv' /\ CInv /\ [Standing]_vars /\ [CardNext]_cardVars => CInv'
  <2> SUFFICES ASSUME IInv, IInv', CInv, [Standing]_vars, [CardNext]_cardVars
               PROVE  CInv'
      OBVIOUS
  <2>1. Standing
      BY DEF Standing, vars
  <2>2. CASE UNCHANGED cards /\ [Next]_vars
      BY <2>1, <2>2, OthersStep
  <2>3. CASE \E a \in Actions : \E r \in Requests : Press(a, r)
      BY <2>1, <2>3, PressStep
  <2>4. CASE \E a \in Actions : Answer(a) \/ NoAnswer(a)
      BY <2>4, SettleStep
  <2> QED BY <2>2, <2>3, <2>4 DEF CardNext, cardVars
<1>3. CardSpec => [][Standing]_vars
    BY CardsKeepInvariant, PTL DEF DecidedForever, Standing
<1> QED
    BY <1>1, <1>2, <1>3, CardsKeepInvariant, PTL DEF CardSpec

(***************************************************************************)
(* The cards and the rows keep their types.                                *)
(***************************************************************************)
THEOREM CardTypeCorrect == CardSpec => []CardTypeOK
<1>1. CInv => CardTypeOK
    BY DEF CInv
<1> QED
    BY <1>1, CardInvariance, PTL

(***************************************************************************)
(* A card shows the decision that was recorded, and never hides a write it *)
(* has caused, for any number of cards, tabs and racing requests.          *)
(***************************************************************************)
THEOREM HonestCards == CardSpec => []CardsAreHonest
<1>1. CInv => CardsAreHonest
    BY DEF CInv, FateInv, CardsAreHonest, NoSilentWrite
<1> QED
    BY <1>1, CardInvariance, PTL
=============================================================================
