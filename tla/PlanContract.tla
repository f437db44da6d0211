---------------------------- MODULE PlanContract ----------------------------
(***************************************************************************)
(* What executing a plan promises, with nothing of how it is scheduled:    *)
(* every step gets one outcome, once, after all the steps it depends on;   *)
(* it is skipped exactly when one of those did not complete; a gated step  *)
(* neither changes anything at Google nor completes, but is offered for    *)
(* approval; and outcomes and offers are published together or not at all. *)
(* DAGExecutor.execute is the implementation (module Executor).            *)
(***************************************************************************)
EXTENDS Statuses, PlanGraph

CONSTANT Steps      \* every step id a plan may use

VARIABLES
    steps,          \* the steps of the plan
    deps,           \* deps[s]: the steps s depends on
    gated,          \* the steps whose operation needs an approval
    outcome,        \* outcome[s]: "none" until s is settled
    applied,        \* the steps that changed something at Google
    published,      \* "unpublished", or the status the execution ended with
    offered         \* the steps an approval can be given for

vars == <<steps, deps, gated, outcome, applied, published, offered>>

Settled == {s \in steps : outcome[s] # "none"}

Blocked(s) == \E d \in deps[s] : outcome[d] \in Unavailable

Init ==
    /\ steps \in SUBSET Steps
    /\ deps \in [Steps -> SUBSET Steps]
    /\ ValidGraph(steps, deps, deps)
    /\ gated \in SUBSET Steps
    /\ outcome = [s \in Steps |-> "none"]
    /\ applied = {}
    /\ published = "unpublished"
    /\ offered = {}

\* A step that is not gated takes effect, after all it depends on completed;
\* it may have been given up by then.
Apply ==
    /\ \E s \in steps \ gated :
         /\ outcome[s] \in {"none", "failed"}
         /\ \A d \in deps[s] : outcome[d] = "completed"
         /\ applied' = applied \cup {s}
    /\ UNCHANGED <<steps, deps, gated, outcome, published, offered>>

\* A set of steps whose dependencies are all settled is settled together.
Settle ==
    /\ \E now \in SUBSET (steps \ Settled) :
         /\ \A s \in now : deps[s] \subseteq Settled
         /\ outcome' \in [Steps -> StepStatus \cup {"none"}]
         /\ \A s \in Steps \ now : outcome'[s] = outcome[s]
         /\ \A s \in now :
              /\ outcome'[s] \in StepStatus
              /\ outcome'[s] = "skipped" <=> Blocked(s)
              /\ s \in gated => outcome'[s] # "completed"
              /\ s \notin gated => outcome'[s] # "awaiting_approval"
    /\ UNCHANGED <<steps, deps, gated, applied, published, offered>>

\* The outcome of the whole plan becomes visible, once, when it is complete,
\* with an offer for each step that awaits approval.
Publish ==
    /\ published = "unpublished"
    /\ Settled = steps
    /\ published' = Summary({outcome[s] : s \in steps})
    /\ offered' = {s \in steps : outcome[s] = "awaiting_approval"}
    /\ UNCHANGED <<steps, deps, gated, outcome, applied>>

Next == Apply \/ Settle \/ Publish

Spec == Init /\ [][Next]_vars
=============================================================================
