--------------------------- MODULE PlanValidation ---------------------------
(***************************************************************************)
(* ExecutionPlan.validate_graph (src/app/schemas/contracts.py) as the      *)
(* search it is, where Interpretation takes its verdict in one step.  The  *)
(* recursion visit is a machine: path holds the calls in progress, the     *)
(* current one last.  The loops over steps and dependencies take them in   *)
(* any order.                                                              *)
(***************************************************************************)
EXTENDS Interpretation, Sequences

VARIABLES checking,     \* a validation is under way
          answer,       \* the plan it is about
          path,         \* the calls of visit that have not returned
          visit_state   \* 0 not visited, 1 being visited, 2 visited

validation == <<checking, answer, path, visit_state>>

NotVisited == [s \in Ids |-> 0]
Idle == /\ checking = FALSE /\ answer = NoPlan
        /\ path = <<>> /\ visit_state = NotVisited

\* validate_graph returns or raises, and its variables are gone.
Leave == /\ checking' = FALSE /\ answer' = NoPlan
         /\ path' = <<>> /\ visit_state' = NotVisited

ValidatingInit == Init /\ Idle

-----------------------------------------------------------------------------
\* The answer of the model is a plan, whatever its graph.
Receive ==
    /\ pc = "plan" /\ ~checking
    /\ checking' = TRUE /\ answer' \in Drafts
    /\ UNCHANGED <<vars, path, visit_state>>

\* The first loop: no step depends on itself or on an unknown one, and
\* references are among the dependencies.
Declared(p) ==
    \A s \in p.steps : p.deps[s] \subseteq p.steps \ {s} /\ p.refs[s] \subseteq p.deps[s]

Searching == checking /\ Declared(answer)

Current == path[Len(path)]

\* What the loop that calls visit runs over: that of validate_graph itself, or
\* that of the current call.
Loop == IF path = <<>> THEN answer.steps ELSE answer.deps[Current]

\* A call that finds its step being visited closes a cycle; one that finds it
\* visited returns at once.  A mutant takes one for the other.
MutClosesCycle(s) == visit_state[s] # 0
ClosesCycle(s) == visit_state[s] = 1

Visit(s) ==
    /\ Searching /\ s \in Loop /\ visit_state[s] = 0
    /\ path' = Append(path, s)
    /\ visit_state' = [visit_state EXCEPT ![s] = 1]
    /\ UNCHANGED <<vars, checking, answer>>

LoopEnds == \A s \in Loop : visit_state[s] = 2

Return ==
    /\ Searching /\ path # <<>> /\ LoopEnds
    /\ path' = SubSeq(path, 1, Len(path) - 1)
    /\ visit_state' = [visit_state EXCEPT ![Current] = 2]
    /\ UNCHANGED <<vars, checking, answer>>

\* ValueError: the plan is asked for once more.
Rejected == ~Declared(answer) \/ \E s \in Loop : ClosesCycle(s)

Reject ==
    /\ checking /\ Rejected
    /\ Retry /\ Leave
    /\ UNCHANGED <<query, said, intent, draft, plan>>

Accept ==
    /\ Searching /\ path = <<>> /\ LoopEnds
    /\ draft' = answer /\ pc' = "rewrite" /\ Leave
    /\ UNCHANGED <<attempt, query, said, intent, plan>>

Others ==
    /\ ~checking
    /\ Unavailable \/ Garbled \/ Classify \/ Rewrite \/ Raise
    /\ UNCHANGED validation

ValidatingNext ==
    \/ Receive \/ Reject \/ Accept \/ Return \/ Others
    \/ \E s \in Ids : Visit(s)

ValidatingSpec == ValidatingInit /\ [][ValidatingNext]_<<vars, validation>>

-----------------------------------------------------------------------------
ValidationTypeOK ==
    /\ TypeOK
    /\ checking \in BOOLEAN /\ answer \in Plan
    /\ path \in Seq(Ids) /\ visit_state \in [Ids -> 0 .. 2]
    /\ checking => pc = "plan"
    /\ ~checking => Idle

(***************************************************************************)
(* validate_graph accepts the valid graphs and no others: a shared         *)
(* dependency is no cycle, and a cycle is found from wherever the search   *)
(* enters it.                                                              *)
(***************************************************************************)
GraphIsDecided ==
    [][checking /\ ~checking' => (pc' = "rewrite" <=> Parses(answer))]_<<vars, validation>>

=============================================================================
