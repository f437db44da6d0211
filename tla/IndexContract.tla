---------------------------- MODULE IndexContract ----------------------------
(***************************************************************************)
(* What the synchronisation promises to the readers of the local index     *)
(* (search.py, sync.py): an attempt is announced in sync_state, and what   *)
(* it indexed appears in one step with "completed"; nothing indexed ever   *)
(* disappears.  WorkspaceSync implements it, WorkspaceSearch builds on it. *)
(***************************************************************************)
EXTENDS Integers

CONSTANTS Kinds,       \* the services
          Items, ServiceOf,
          MaxVersion   \* bound of the model

VARIABLES index, row

Init ==
    /\ index = [i \in Items |-> 0]
    /\ row = [s \in Kinds |-> [status |-> "missing", success |-> FALSE]]

Begin(s) ==
    /\ row' = [row EXCEPT ![s].status = "running"]
    /\ UNCHANGED index

\* What other services own stays as it is, and what was there stays there.
\* A mutant rebuilds the rows of the service.
MutFinish(s) ==
    /\ row[s].status # "missing"
    /\ row' = [row EXCEPT ![s] = [status |-> "completed", success |-> TRUE]]
    /\ index' \in [Items -> 0 .. MaxVersion]
    /\ \A i \in Items : ServiceOf[i] # s => index'[i] = index[i]
Finish(s) ==
    /\ row[s].status # "missing"
    /\ row' = [row EXCEPT ![s] = [status |-> "completed", success |-> TRUE]]
    /\ index' \in [Items -> 0 .. MaxVersion]
    /\ \A i \in Items : /\ ServiceOf[i] # s => index'[i] = index[i]
                        /\ index[i] > 0 => index'[i] > 0

FailSync(s) ==
    /\ row[s].status # "missing"
    /\ row' = [row EXCEPT ![s].status = "failed"]
    /\ UNCHANGED index

Next == \E s \in Kinds : Begin(s) \/ Finish(s) \/ FailSync(s)

Spec == Init /\ [][Next]_<<index, row>>

=============================================================================
