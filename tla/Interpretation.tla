--------------------------- MODULE Interpretation ---------------------------
(***************************************************************************)
(* From a query to an executable plan: IntentClassifier.classify and       *)
(* QueryPlanner.create_plan (src/app/orchestration/classifier.py and       *)
(* planner.py), the boundary between the language model and the rest.      *)
(* Whatever the model answers is validated, rewritten where the code knows *)
(* better, and asked for once more when it does not fit.                   *)
(*                                                                         *)
(* A plan is its graph with, per step, the kind of its operation, the      *)
(* services a workspace_search covers, and what its arguments are worth.   *)
(* The graph is validated when the model's JSON is parsed and never again, *)
(* although routing rewrites references and adds steps afterwards.  Where  *)
(* the code takes the first of a list (a calendar step, a free name), the  *)
(* model takes any.                                                        *)
(***************************************************************************)
EXTENDS PlanGraph, Naturals

CONSTANTS Ids,       \* step ids
          Targets,   \* the services of _contextual_services
          Names,     \* Names[t]: workspace_<t>, workspace_<t>_2, ...
          Drafts,    \* the plans the language model may return
          Queries    \* what the code finds out about the text of a query

Kinds == Targets \cup {"calendar", "workspace", "create", "write", "other"}
Fitness == {"fit", "amiss", "unfit", "odd"}

\* A native search of a target service has the target itself as its kind; create
\* is create_event, write any other write.  An "amiss" argument is one the
\* rewriting code sets if it rewrites the step, an "odd" one has a type that code
\* does not expect: a time_min that is a reference, a services that is no list.
\* replaced[s] are the outputs read by arguments it would set, and by no other.
Plan == [steps : SUBSET Ids, kind : [Ids -> Kinds],
         covers : [Ids -> SUBSET Targets],
         deps : [Ids -> SUBSET Ids], refs : [Ids -> SUBSET Ids],
         replaced : [Ids -> SUBSET Ids], args : [Ids -> Fitness]]

\* The regular expressions on the query: write and read words, services hinted
\* at, contextual retrieval and the services it desires.
Query == [writes : BOOLEAN, reads : BOOLEAN, hinted : BOOLEAN,
          contextual : BOOLEAN, desired : SUBSET Targets]

\* What the model says of the query: whether it needs clarification, selects a
\* service, has a date range, and asks for the next event.
Intent == [asks : BOOLEAN, services : BOOLEAN, ranged : BOOLEAN, upcoming : BOOLEAN]
NoIntent == [asks |-> FALSE, services |-> FALSE, ranged |-> FALSE, upcoming |-> FALSE]

ASSUME InterpretationAssumption ==
    /\ Targets \cap {"calendar", "workspace", "create", "write", "other"} = {}
    /\ Names \in [Targets -> SUBSET Ids]
    /\ Drafts \subseteq Plan /\ Queries \subseteq Query

VARIABLES pc, attempt, query,
          said,      \* the intent as the model gave it
          intent,    \* the intent after the clarification policy
          draft,     \* the plan as the model gave it
          plan       \* the plan handed to the executor

vars == <<pc, attempt, query, said, intent, draft, plan>>

NoPlan == [steps |-> {}, kind |-> [s \in Ids |-> "other"],
           covers |-> [s \in Ids |-> {}], deps |-> [s \in Ids |-> {}],
           refs |-> [s \in Ids |-> {}], replaced |-> [s \in Ids |-> {}],
           args |-> [s \in Ids |-> "fit"]]

Init ==
    /\ pc = "classify" /\ attempt = 1
    /\ query \in Queries
    /\ said = NoIntent /\ intent = NoIntent
    /\ draft = NoPlan /\ plan = NoPlan

\* Both loops repair once; then LLMProviderError.  A mutant never gives up.
MutRetry == attempt' = attempt + 1 /\ UNCHANGED pc
Retry ==
    IF attempt = 1 THEN attempt' = 2 /\ UNCHANGED pc
    ELSE pc' = "502" /\ UNCHANGED attempt

-----------------------------------------------------------------------------
\* The model cannot be reached, or its answer is no JSON object: no repair.
Unavailable ==
    /\ pc \in {"classify", "plan"}
    /\ pc' = "502"
    /\ UNCHANGED <<attempt, query, said, intent, draft, plan>>

\* The answer does not satisfy the schema of an Intent or an ExecutionPlan.
Garbled ==
    /\ pc \in {"classify", "plan"}
    /\ Retry
    /\ UNCHANGED <<query, said, intent, draft, plan>>

\* _apply_clarification_policy: a read may be inferred, a write may not.
MutInferable(i) == query.reads /\ (i.services \/ query.hinted)
Inferable(i) == ~query.writes /\ query.reads /\ (i.services \/ query.hinted)
Policy(i) ==
    IF i.asks /\ Inferable(i) THEN [i EXCEPT !.asks = FALSE, !.services = TRUE] ELSE i

Classify ==
    /\ pc = "classify"
    /\ said' \in Intent
    /\ LET i == Policy(said') IN
         IF i.asks \/ i.services
         THEN /\ intent' = i /\ attempt' = 1
              /\ pc' = IF i.asks THEN "clarify" ELSE "plan"
         ELSE Retry /\ UNCHANGED intent
    /\ UNCHANGED <<query, draft, plan>>

-----------------------------------------------------------------------------
\* ExecutionPlan.model_validate.
Parses(p) == ValidGraph(p.steps, p.deps, p.refs)

Draft ==
    /\ pc = "plan"
    /\ \E p \in Drafts :
         IF Parses(p)
         THEN draft' = p /\ pc' = "rewrite" /\ UNCHANGED attempt
         ELSE Retry /\ UNCHANGED draft
    /\ UNCHANGED <<query, said, intent, plan>>

(***************************************************************************)
(* _canonical_arguments: what the query and the intent say takes the place *)
(* of what the model put into the arguments, the time and the attendees of *)
(* an event to create and the time range of a search, whether that was a   *)
(* value, nothing or a reference to the output of a step.  A search of the *)
(* index lacking its query gets it, and one without services the requested *)
(* ones.                                                                   *)
(***************************************************************************)
Rewritten(p) ==
    {s \in p.steps : \/ p.kind[s] \in {"create", "workspace"}
                     \/ intent.ranged /\ p.kind[s] \in Targets \cup {"calendar"}
                     \/ intent.upcoming /\ p.kind[s] = "calendar"}

\* What is missing is added to a search of the index, and only its dates are
\* replaced.  A mutant starts from empty arguments.
MutKept(p, s) == IF s \in Rewritten(p) THEN {} ELSE p.refs[s]
Kept(p, s) ==
    IF s \in Rewritten(p) /\ (p.kind[s] = "workspace" => intent.ranged)
    THEN p.refs[s] \ p.replaced[s] ELSE p.refs[s]

Canonical(p, requested) ==
    [p EXCEPT
        !.refs = [s \in Ids |-> Kept(p, s)],
        !.covers = [s \in Ids |->
            IF p.kind[s] = "workspace" /\ p.args[s] # "odd" /\ p.covers[s] = {}
            THEN requested ELSE p.covers[s]],
        !.args = [s \in Ids |->
            IF s \in Rewritten(p) /\ p.args[s] = "amiss" THEN "fit" ELSE p.args[s]]]
Canonicals(p) ==
    {Canonical(p, r) : r \in IF intent.services THEN SUBSET Targets ELSE {{}}}

Calendar(p) == {s \in p.steps : p.kind[s] = "calendar"}

\* The native searches a contextual query routes through the index.
Routable(p) ==
    {s \in p.steps : p.kind[s] \in Targets /\ p.deps[s] \cap Calendar(p) # {}}

\* The services a contextual query desires and no workspace_search covers.
Covered(p) ==
    UNION {p.covers[s] : s \in {t \in p.steps : p.kind[t] = "workspace"}}
MutMissing(p) == {}
Missing(p) ==
    query.desired \ (Covered(p) \cup {p.kind[s] : s \in Routable(p)})

\* What _route_contextual_retrieval may return: on[s] is the calendar step a
\* routed search reads, c the one the added searches read.
Route(p, on, names, c) ==
    LET added == {names[t] : t \in Missing(p)}
        reads(s) == IF s \in added THEN {c}
                    ELSE IF s \in Routable(p) THEN {on[s]} ELSE p.refs[s]
        covers(s) == IF s \in added THEN {t \in Missing(p) : names[t] = s}
                     ELSE IF s \in Routable(p) THEN {p.kind[s]} ELSE p.covers[s]
        new == added \cup Routable(p)
    IN [steps |-> p.steps \cup added,
        kind |-> [s \in Ids |-> IF s \in new THEN "workspace" ELSE p.kind[s]],
        covers |-> [s \in Ids |-> covers(s)],
        deps |-> [s \in Ids |-> IF s \in added THEN {c} ELSE p.deps[s]],
        refs |-> [s \in Ids |-> reads(s)],
        replaced |-> [s \in Ids |-> IF s \in new THEN {} ELSE p.replaced[s]],
        args |-> [s \in Ids |-> IF s \in new THEN "fit" ELSE p.args[s]]]

Sources(p) ==
    {on \in [Routable(p) -> Calendar(p)] : \A s \in Routable(p) : on[s] \in p.deps[s]}

\* Names for the added steps, and a mutant that does not look for a free one.
MutFree(p, t) == Names[t]
Free(p, t) == Names[t] \ p.steps
Namings(p) ==
    {names \in [Missing(p) -> Ids] :
        /\ \A t \in Missing(p) : names[t] \in Free(p, t)
        /\ \A t, u \in Missing(p) : names[t] = names[u] => t = u}

Contextual(p) == query.contextual /\ Calendar(p) # {}
Routings(p) ==
    IF Contextual(p)
    THEN {Route(p, on, names, c) :
             on \in Sources(p), names \in Namings(p), c \in Calendar(p)}
    ELSE {p}

\* An argument of the wrong type makes _canonical_arguments or the routing
\* raise TypeError or AttributeError, which the repair does not catch.
Chokes(p) ==
    \E s \in p.steps :
        /\ p.args[s] = "odd"
        /\ \/ p.kind[s] = "calendar" /\ intent.ranged /\ ~intent.upcoming
           \/ p.kind[s] = "workspace" /\ Contextual(p)

\* validate_plan lets a reference stand for any argument.
Allowed(p, s) ==
    p.args[s] \in IF p.kind[s] = "calendar" THEN {"fit", "odd"} ELSE {"fit"}

\* Any ValidationError or ValueError of the rewriting or of validate_plan.
Again ==
    /\ draft' = NoPlan /\ UNCHANGED plan
    /\ IF attempt = 1 THEN attempt' = 2 /\ pc' = "plan"
       ELSE pc' = "502" /\ UNCHANGED attempt

\* _apply_intent_constraints, then AgentRegistry.validate_plan; a plan that is
\* not allowed is asked for once more, and so is one that gets a value it cannot
\* have, such as a start that is no timestamp.
Rewrite ==
    /\ pc = "rewrite"
    /\ \/ /\ ~Chokes(draft)
          /\ \E q \in Canonicals(draft) : \E p \in Routings(q) :
               IF \A s \in p.steps : Allowed(p, s)
               THEN plan' = p /\ pc' = "planned" /\ UNCHANGED <<attempt, draft>>
               ELSE Again
       \/ Rewritten(draft) # {} /\ Again
    /\ UNCHANGED <<query, said, intent>>

Raise ==
    /\ pc = "rewrite" /\ Chokes(draft)
    /\ pc' = "500"
    /\ UNCHANGED <<attempt, query, said, intent, draft, plan>>

Next == Unavailable \/ Garbled \/ Classify \/ Draft \/ Rewrite \/ Raise

Spec == Init /\ [][Next]_vars

-----------------------------------------------------------------------------
TypeOK ==
    /\ pc \in {"classify", "plan", "rewrite", "planned", "clarify", "500", "502"}
    /\ attempt \in {1, 2}
    /\ query \in Queries
    /\ said \in Intent /\ intent \in Intent
    /\ draft \in Plan /\ plan \in Plan

(***************************************************************************)
(* The executor gets what it relies on (Executor's Init and NeverStuck):   *)
(* the graph is still valid after the routing that nothing validates, and  *)
(* every argument passes the contract of its operation.                    *)
(***************************************************************************)
PlannedIsValid ==
    pc = "planned" =>
        /\ ValidGraph(plan.steps, plan.deps, plan.refs)
        /\ \A s \in plan.steps : plan.args[s] \notin {"unfit", "amiss"}

\* A write of the plan is a write the model drafted, waiting for the same steps;
\* none is dropped, and none reads an output it was not drafted to read.  A
\* create_event may lose what it read to what the query says, no other write.
Writes(p) == {s \in p.steps : p.kind[s] \in {"create", "write"}}
WritesAsDrafted ==
    pc = "planned" =>
        /\ Writes(plan) = Writes(draft)
        /\ \A s \in Writes(draft) :
              /\ plan.kind[s] = draft.kind[s] /\ plan.deps[s] = draft.deps[s]
              /\ plan.refs[s] \subseteq draft.refs[s]
              /\ draft.refs[s] \ plan.refs[s] \subseteq
                    IF draft.kind[s] = "create" THEN draft.replaced[s] ELSE {}

\* Every desired service is searched in the index, and no search is left to route.
ContextCovered ==
    pc = "planned" /\ Contextual(plan) =>
        query.desired \subseteq Covered(plan) /\ Routable(plan) = {}

(***************************************************************************)
(* What the rewriting makes of a plan: a contextual query about a meeting  *)
(* searches the index for every service it desires, once a calendar step   *)
(* provides the meeting, and no search is routed twice, whichever steps    *)
(* the model had planned; meanwhile no write is dropped, added, reordered  *)
(* or made to read anything else, except for the arguments of a            *)
(* create_event that _canonical_arguments takes from the query.            *)
(***************************************************************************)
RoutingIsFaithful == ContextCovered /\ WritesAsDrafted

(***************************************************************************)
(* "Permit semantic inference for reads without relaxing write safety":    *)
(* a query with a write word that the model wants clarified is never       *)
(* planned (_apply_clarification_policy).                                  *)
(***************************************************************************)
WritesAreClarified ==
    pc \in {"plan", "rewrite", "planned"} => ~(said.asks /\ query.writes)

=============================================================================
