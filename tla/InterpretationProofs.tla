------------------------ MODULE InterpretationProofs ------------------------
(***************************************************************************)
(* Routing keeps a plan executable, for every set of step ids, services    *)
(* and plans: what validate_graph established when the model's answer was  *)
(* parsed still holds of the plan that reaches the executor, and the       *)
(* search of validate_graph accepts exactly the plans of which it holds.   *)
(***************************************************************************)
EXTENDS PlanValidation, SequenceTheorems, TLAPS

(***************************************************************************)
(* The rewritten plan, field by field, without the LETs of Route.          *)
(***************************************************************************)
Added(p, names) == {names[t] : t \in Missing(p)}

LEMMA RouteFields ==
    ASSUME NEW p \in Plan, TypeOK, InterpretationAssumption,
           NEW on \in Sources(p), NEW names \in Namings(p), NEW c \in Calendar(p)
    PROVE  LET q == Route(p, on, names, c)
               added == Added(p, names)
           IN /\ added \subseteq Ids /\ added \cap p.steps = {}
              /\ q \in Plan
              /\ q.steps = p.steps \cup added
              /\ \A s \in added : q.deps[s] = {c} /\ q.refs[s] = {c}
                                  /\ q.kind[s] = "workspace"
              /\ \A s \in p.steps :
                    /\ q.deps[s] = p.deps[s]
                    /\ s \in Routable(p) =>
                          q.refs[s] = {on[s]} /\ q.kind[s] = "workspace"
                    /\ s \notin Routable(p) =>
                          q.refs[s] = p.refs[s] /\ q.kind[s] = p.kind[s]
<1> DEFINE q == Route(p, on, names, c)
           added == Added(p, names)
<1>1. added \subseteq Ids /\ added \cap p.steps = {}
  BY DEF Added, Namings, Free
<1>2. c \in Ids /\ c \in p.steps
  BY DEF Calendar, Plan
<1>3. Missing(p) \subseteq Targets
  BY DEF Missing, TypeOK, Query, InterpretationAssumption
<1>4. \A s \in Routable(p) : s \in p.steps /\ on[s] \in Ids /\ p.kind[s] \in Targets
  BY DEF Routable, Sources, Calendar, Plan
<1>5. q.steps = p.steps \cup added
  BY DEF Route, Added
<1>6. q \in Plan
  <2>1. q.steps \in SUBSET Ids
    BY <1>1, <1>5 DEF Plan
  <2>2. q.kind \in [Ids -> Kinds]
    BY DEF Route, Plan, Kinds
  <2>3. q.covers \in [Ids -> SUBSET Targets]
    BY <1>3, <1>4 DEF Route, Plan
  <2>4. q.deps \in [Ids -> SUBSET Ids]
    BY <1>2 DEF Route, Plan
  <2>5. q.refs \in [Ids -> SUBSET Ids]
    BY <1>2, <1>4 DEF Route, Plan
  <2>6. q.args \in [Ids -> Fitness]
    BY DEF Route, Plan, Fitness
  <2>7. q.replaced \in [Ids -> SUBSET Ids]
    BY DEF Route, Plan
  <2> QED BY <2>1, <2>2, <2>3, <2>4, <2>5, <2>6, <2>7 DEF Route, Plan
<1>7. \A s \in added : q.deps[s] = {c} /\ q.refs[s] = {c} /\ q.kind[s] = "workspace"
  BY <1>1 DEF Route, Added
<1>8. \A s \in p.steps :
         /\ q.deps[s] = p.deps[s]
         /\ s \in Routable(p) => q.refs[s] = {on[s]} /\ q.kind[s] = "workspace"
         /\ s \notin Routable(p) => q.refs[s] = p.refs[s] /\ q.kind[s] = p.kind[s]
  BY <1>1 DEF Route, Added, Plan
<1> QED BY <1>1, <1>5, <1>6, <1>7, <1>8

(***************************************************************************)
(* Adding steps that depend on one old step, and reading a dependency      *)
(* instead of another, keeps a valid graph valid.                          *)
(***************************************************************************)
LEMMA RouteIsValid ==
    ASSUME NEW p \in Plan, TypeOK, InterpretationAssumption,
           ValidGraph(p.steps, p.deps, p.refs),
           NEW on \in Sources(p), NEW names \in Namings(p), NEW c \in Calendar(p)
    PROVE  LET q == Route(p, on, names, c) IN ValidGraph(q.steps, q.deps, q.refs)
<1> DEFINE q == Route(p, on, names, c)
           added == Added(p, names)
<1>1. /\ added \cap p.steps = {} /\ q.steps = p.steps \cup added
      /\ \A s \in added : q.deps[s] = {c} /\ q.refs[s] = {c}
      /\ \A s \in p.steps :
            /\ q.deps[s] = p.deps[s]
            /\ s \in Routable(p) => q.refs[s] = {on[s]}
            /\ s \notin Routable(p) => q.refs[s] = p.refs[s]
  BY RouteFields
<1>2. c \in p.steps /\ \A s \in Routable(p) : on[s] \in p.deps[s]
  BY DEF Calendar, Sources
<1>3. \A s \in q.steps : q.deps[s] \subseteq q.steps /\ q.refs[s] \subseteq q.deps[s]
  BY <1>1, <1>2 DEF ValidGraph
<1>4. ASSUME NEW S \in SUBSET q.steps, S # {}
      PROVE  \E s \in S : q.deps[s] \cap S = {}
  <2>1. CASE S \cap p.steps = {}
    BY <1>1, <1>2, <1>4, <2>1
  <2>2. CASE S \cap p.steps # {}
    <3>1. PICK s \in S \cap p.steps : p.deps[s] \cap (S \cap p.steps) = {}
      BY <2>2 DEF ValidGraph, Acyclic
    <3>2. p.deps[s] \subseteq p.steps
      BY DEF ValidGraph
    <3> QED BY <1>1, <3>1, <3>2
  <2> QED BY <2>1, <2>2
<1> QED BY <1>3, <1>4 DEF ValidGraph, Acyclic

LEMMA RoutingsAreValid ==
    ASSUME NEW p \in Plan, TypeOK, InterpretationAssumption,
           ValidGraph(p.steps, p.deps, p.refs), NEW q \in Routings(p)
    PROVE  q \in Plan /\ ValidGraph(q.steps, q.deps, q.refs)
<1>1. CASE Contextual(p)
  <2>1. PICK on \in Sources(p), names \in Namings(p), c \in Calendar(p) :
           q = Route(p, on, names, c)
    BY <1>1 DEF Routings
  <2> QED BY <2>1, RouteFields, RouteIsValid
<1>2. CASE ~Contextual(p)
  BY <1>2 DEF Routings
<1> QED BY <1>1, <1>2

-----------------------------------------------------------------------------
(***************************************************************************)
(* What RoutingIsFaithful says of a plan, as a fact about one routing.     *)
(***************************************************************************)
SameWrites(p, q) ==
    /\ Writes(q) = Writes(p)
    /\ \A s \in Writes(p) :
          q.kind[s] = p.kind[s] /\ q.deps[s] = p.deps[s] /\ q.refs[s] = p.refs[s]

AllCovered(q) ==
    Contextual(q) => query.desired \subseteq Covered(q) /\ Routable(q) = {}

\* A write is no step that routing adds or rewrites.
LEMMA RouteKeepsWrites ==
    ASSUME NEW p \in Plan, TypeOK, InterpretationAssumption,
           NEW on \in Sources(p), NEW names \in Namings(p), NEW c \in Calendar(p)
    PROVE  SameWrites(p, Route(p, on, names, c))
<1> DEFINE q == Route(p, on, names, c)
<1>1. /\ Added(p, names) \cap p.steps = {} /\ q.steps = p.steps \cup Added(p, names)
      /\ \A s \in Added(p, names) : q.kind[s] = "workspace"
      /\ \A s \in p.steps :
            /\ q.deps[s] = p.deps[s]
            /\ s \in Routable(p) => q.kind[s] = "workspace"
            /\ s \notin Routable(p) => q.refs[s] = p.refs[s] /\ q.kind[s] = p.kind[s]
  BY RouteFields
<1>2. \A s \in Routable(p) : p.kind[s] \notin {"create", "write"}
  BY DEF Routable, InterpretationAssumption
<1> HIDE DEF q
<1>3. SameWrites(p, q)
  BY <1>1, <1>2 DEF SameWrites, Writes
<1> QED BY <1>3 DEF q

\* A desired service was covered, is that of a routed search, or got a step.
LEMMA RouteCovers ==
    ASSUME NEW p \in Plan, TypeOK, InterpretationAssumption,
           NEW on \in Sources(p), NEW names \in Namings(p), NEW c \in Calendar(p)
    PROVE  AllCovered(Route(p, on, names, c))
<1> DEFINE q == Route(p, on, names, c)
           added == Added(p, names)
<1>1. /\ added \subseteq Ids /\ added \cap p.steps = {} /\ q.steps = p.steps \cup added
      /\ \A s \in added : q.kind[s] = "workspace"
      /\ \A s \in p.steps :
            /\ q.deps[s] = p.deps[s]
            /\ s \in Routable(p) => q.kind[s] = "workspace"
            /\ s \notin Routable(p) => q.kind[s] = p.kind[s]
  BY RouteFields
<1>2. /\ \A t \in Missing(p) : names[t] \in added /\ t \in q.covers[names[t]]
      /\ \A s \in Routable(p) : s \in p.steps /\ q.covers[s] = {p.kind[s]}
      /\ \A s \in p.steps : s \notin Routable(p) => q.covers[s] = p.covers[s]
  <2>1. \A s \in Ids : q.covers[s] =
           IF s \in added THEN {t \in Missing(p) : names[t] = s}
           ELSE IF s \in Routable(p) THEN {p.kind[s]} ELSE p.covers[s]
    BY DEF Route, Added
  <2>2. \A t \in Missing(p) : names[t] \in added
    BY DEF Added
  <2>3. \A s \in Routable(p) : s \in p.steps
    BY DEF Routable
  <2>4. p.steps \subseteq Ids
    BY DEF Plan
  <2> HIDE DEF q, added
  <2>5. ASSUME NEW t \in Missing(p) PROVE t \in q.covers[names[t]]
    <3>1. names[t] \in Ids /\ names[t] \in added
      BY <1>1, <2>2
    <3>2. q.covers[names[t]] = {u \in Missing(p) : names[u] = names[t]}
      BY <2>1, <3>1
    <3> QED BY <3>2
  <2>6. ASSUME NEW s \in Routable(p) PROVE q.covers[s] = {p.kind[s]}
    <3>1. s \in Ids /\ s \notin added
      BY <1>1, <2>3, <2>4
    <3> QED BY <2>1, <3>1
  <2>7. ASSUME NEW s \in p.steps, s \notin Routable(p) PROVE q.covers[s] = p.covers[s]
    <3>1. s \in Ids /\ s \notin added
      BY <1>1, <2>4
    <3> QED BY <2>1, <2>7, <3>1
  <2> QED BY <2>2, <2>3, <2>5, <2>6, <2>7
<1>3. \A s \in Routable(p) : p.kind[s] \in Targets /\ p.kind[s] # "workspace"
                              /\ p.kind[s] # "calendar"
  BY DEF Routable, InterpretationAssumption
<1> HIDE DEF q, added
<1>4. query.desired \subseteq Covered(q)
  <2> SUFFICES ASSUME NEW t \in query.desired PROVE t \in Covered(q)
    OBVIOUS
  <2>1. CASE t \in Missing(p)
    BY <1>1, <1>2, <2>1 DEF Covered
  <2>2. CASE t \in Covered(p)
    <3>1. PICK s \in p.steps : p.kind[s] = "workspace" /\ t \in p.covers[s]
      BY <2>2 DEF Covered
    <3>2. s \notin Routable(p)
      BY <1>3, <3>1
    <3> QED BY <1>1, <1>2, <3>1, <3>2 DEF Covered
  <2>3. CASE \E s \in Routable(p) : t = p.kind[s]
    <3>1. PICK s \in Routable(p) : t = p.kind[s]
      BY <2>3
    <3> QED BY <1>1, <1>2, <3>1 DEF Covered
  <2> QED BY <2>1, <2>2, <2>3 DEF Missing
<1>5. Calendar(q) = Calendar(p)
  <2>1. \A s \in Calendar(p) : s \notin Routable(p)
    BY <1>3 DEF Calendar
  <2> QED BY <1>1, <2>1 DEF Calendar
<1>6. Routable(q) = {}
  <2> SUFFICES ASSUME NEW s \in Routable(q) PROVE FALSE
    OBVIOUS
  <2>1. s \in q.steps /\ q.kind[s] # "workspace" /\ q.kind[s] \in Targets
        /\ q.deps[s] \cap Calendar(p) # {}
    BY <1>5 DEF Routable, InterpretationAssumption
  <2>2. s \in p.steps /\ s \notin Routable(p)
    BY <1>1, <2>1
  <2> QED BY <1>1, <2>1, <2>2 DEF Routable
<1>7. AllCovered(q)
  BY <1>4, <1>6 DEF AllCovered
<1> QED BY <1>7 DEF q

LEMMA RoutingsAreFaithful ==
    ASSUME NEW p \in Plan, TypeOK, InterpretationAssumption, NEW q \in Routings(p)
    PROVE  SameWrites(p, q) /\ AllCovered(q)
<1>1. CASE Contextual(p)
  <2>1. PICK on \in Sources(p), names \in Namings(p), c \in Calendar(p) :
           q = Route(p, on, names, c)
    BY <1>1 DEF Routings
  <2> QED BY <2>1, RouteKeepsWrites, RouteCovers
<1>2. CASE ~Contextual(p)
  BY <1>2 DEF Routings, SameWrites, AllCovered
<1> QED BY <1>1, <1>2

-----------------------------------------------------------------------------
(***************************************************************************)
(* The arguments are rewritten first: a step reads less than the model     *)
(* drafted, if anything changes, and only where the query has its say.     *)
(***************************************************************************)
LEMMA CanonicalFields ==
    ASSUME NEW p \in Plan, NEW q \in Canonicals(p)
    PROVE  /\ q \in Plan /\ q.steps = p.steps /\ q.kind = p.kind /\ q.deps = p.deps
           /\ \A s \in Ids : q.refs[s] = Kept(p, s)
<1>1. PICK r \in SUBSET Targets : q = Canonical(p, r)
  BY DEF Canonicals
<1> DEFINE refs == [s \in Ids |-> Kept(p, s)]
           covers == [s \in Ids |->
              IF p.kind[s] = "workspace" /\ p.args[s] # "odd" /\ p.covers[s] = {}
              THEN r ELSE p.covers[s]]
           args == [s \in Ids |->
              IF s \in Rewritten(p) /\ p.args[s] = "amiss" THEN "fit" ELSE p.args[s]]
<1>2. q = [p EXCEPT !.refs = refs, !.covers = covers, !.args = args]
  BY <1>1 DEF Canonical
<1>3. refs \in [Ids -> SUBSET Ids] /\ \A s \in Ids : refs[s] = Kept(p, s)
  BY DEF Kept, Plan
<1>4. covers \in [Ids -> SUBSET Targets]
  BY DEF Plan
<1>5. args \in [Ids -> Fitness]
  BY DEF Plan, Fitness
<1> HIDE DEF refs, covers, args
<1>6. q \in Plan
  BY <1>2, <1>3, <1>4, <1>5 DEF Plan
<1>7. q.steps = p.steps /\ q.kind = p.kind /\ q.deps = p.deps /\ q.refs = refs
  BY <1>2 DEF Plan
<1> QED BY <1>3, <1>6, <1>7

LEMMA CanonicalIsValid ==
    ASSUME NEW p \in Plan, NEW q \in Canonicals(p), ValidGraph(p.steps, p.deps, p.refs)
    PROVE  ValidGraph(q.steps, q.deps, q.refs)
<1>1. /\ q.steps = p.steps /\ q.deps = p.deps
      /\ \A s \in Ids : q.refs[s] = Kept(p, s)
  BY CanonicalFields
<1>2. \A s \in p.steps : s \in Ids /\ Kept(p, s) \subseteq p.refs[s]
  BY DEF Kept, Plan
<1> QED BY <1>1, <1>2 DEF ValidGraph

\* What both rewritings together leave of the writes.
WritesKept(p, q) ==
    /\ Writes(q) = Writes(p)
    /\ \A s \in Writes(p) :
          /\ q.kind[s] = p.kind[s] /\ q.deps[s] = p.deps[s]
          /\ q.refs[s] \subseteq p.refs[s]
          /\ p.refs[s] \ q.refs[s] \subseteq
                IF p.kind[s] = "create" THEN p.replaced[s] ELSE {}

LEMMA RewrittenIsFaithful ==
    ASSUME NEW p \in Plan, TypeOK, InterpretationAssumption,
           NEW c \in Canonicals(p), NEW q \in Routings(c)
    PROVE  WritesKept(p, q) /\ AllCovered(q)
<1>1. /\ c \in Plan /\ c.steps = p.steps /\ c.kind = p.kind /\ c.deps = p.deps
      /\ \A s \in Ids : c.refs[s] = Kept(p, s)
  BY CanonicalFields
<1>2. SameWrites(c, q) /\ AllCovered(q)
  BY <1>1, RoutingsAreFaithful
<1>3. Writes(c) = Writes(p) /\ \A s \in Writes(p) : s \in Ids
  BY <1>1 DEF Writes, Plan
<1>4. \A s \in Writes(p) : p.kind[s] # "create" => s \notin Rewritten(p)
  BY DEF Writes, Rewritten, InterpretationAssumption
<1>5. ASSUME NEW s \in Writes(p)
      PROVE  /\ Kept(p, s) \subseteq p.refs[s]
             /\ p.refs[s] \ Kept(p, s) \subseteq
                   IF p.kind[s] = "create" THEN p.replaced[s] ELSE {}
  BY <1>4 DEF Kept
<1>6. WritesKept(p, q)
  BY <1>1, <1>2, <1>3, <1>5 DEF SameWrites, WritesKept
<1> QED BY <1>2, <1>6

-----------------------------------------------------------------------------
(***************************************************************************)
(* The graph of a parsed draft is valid, and a write the model asked to    *)
(* clarify has not passed the classifier.                                  *)
(***************************************************************************)
IInv == /\ TypeOK
        /\ pc \in {"rewrite", "planned"} => ValidGraph(draft.steps, draft.deps, draft.refs)
        /\ PlannedIsValid
        /\ WritesAreClarified
        /\ RoutingIsFaithful

LEMMA NoPlanIsPlan == ASSUME InterpretationAssumption PROVE NoPlan \in Plan
  BY DEF NoPlan, Plan, Kinds, Fitness

LEMMA Initially == ASSUME InterpretationAssumption, Init PROVE IInv
<1>1. TypeOK
  BY NoPlanIsPlan DEF Init, TypeOK, NoIntent, Intent
<1> QED BY <1>1 DEF Init, IInv, PlannedIsValid, WritesAreClarified, RoutingIsFaithful, WritesAsDrafted, ContextCovered

LEMMA Inductive ==
    ASSUME InterpretationAssumption, IInv, [Next]_vars PROVE IInv'
<1> USE DEF IInv
<1>1. CASE Unavailable
  BY <1>1 DEF Unavailable, TypeOK, PlannedIsValid, WritesAreClarified, RoutingIsFaithful, WritesAsDrafted, ContextCovered
<1>2. CASE Garbled
  BY <1>2 DEF Garbled, Retry, TypeOK, PlannedIsValid, WritesAreClarified, RoutingIsFaithful, WritesAsDrafted, ContextCovered
<1>3. CASE Classify
  <2>1. said' \in Intent /\ Policy(said') \in Intent
    BY <1>3 DEF Classify, Policy, Intent
  <2>2. TypeOK'
    BY <1>3, <2>1 DEF Classify, Retry, TypeOK
  <2>3. pc' \in {"classify", "clarify", "plan", "502"}
    BY <1>3 DEF Classify, Retry
  <2>4. pc' = "plan" => ~(said'.asks /\ query'.writes)
    BY <1>3 DEF Classify, Retry, Policy, Inferable, Intent
  <2> QED BY <2>2, <2>3, <2>4 DEF PlannedIsValid, WritesAreClarified, RoutingIsFaithful, WritesAsDrafted, ContextCovered
<1>4. CASE Draft
  <2>1. PICK p \in Drafts :
           IF Parses(p) THEN draft' = p /\ pc' = "rewrite" /\ UNCHANGED attempt
           ELSE Retry /\ UNCHANGED draft
    BY <1>4 DEF Draft
  <2>2. p \in Plan
    BY DEF InterpretationAssumption
  <2>3. TypeOK'
    BY <1>4, <2>1, <2>2 DEF Draft, Retry, TypeOK
  <2>4. pc' = "rewrite" => ValidGraph(draft'.steps, draft'.deps, draft'.refs)
    BY <1>4, <2>1 DEF Draft, Retry, Parses
  <2>5. pc' \in {"plan", "rewrite", "502"}
    BY <1>4, <2>1 DEF Draft, Retry
  <2> QED BY <1>4, <2>3, <2>4, <2>5 DEF Draft, PlannedIsValid, WritesAreClarified, RoutingIsFaithful, WritesAsDrafted, ContextCovered
<1>5. CASE Rewrite
  <2>1. CASE Again
    <3>1. TypeOK'
      BY <1>5, <2>1, NoPlanIsPlan DEF Rewrite, Again, TypeOK
    <3>2. pc' \in {"plan", "502"} /\ said' = said /\ query' = query /\ pc = "rewrite"
      BY <1>5, <2>1 DEF Rewrite, Again
    <3> QED BY <3>1, <3>2 DEF PlannedIsValid, WritesAreClarified, RoutingIsFaithful,
                              WritesAsDrafted, ContextCovered
  <2>2. CASE ~Again
    <3>0. PICK c \in Canonicals(draft) :
             \E p \in Routings(c) :
                 /\ \A s \in p.steps : Allowed(p, s)
                 /\ plan' = p /\ pc' = "planned" /\ UNCHANGED <<attempt, draft>>
      BY <1>5, <2>2 DEF Rewrite
    <3>1. PICK p \in Routings(c) :
             /\ \A s \in p.steps : Allowed(p, s)
             /\ plan' = p /\ pc' = "planned" /\ UNCHANGED <<attempt, draft>>
      BY <3>0
    <3>2. draft \in Plan /\ ValidGraph(draft.steps, draft.deps, draft.refs)
          /\ UNCHANGED <<query, said, intent>> /\ pc = "rewrite"
      BY <1>5 DEF Rewrite, TypeOK
    <3>3. c \in Plan /\ ValidGraph(c.steps, c.deps, c.refs)
      BY <3>2, CanonicalFields, CanonicalIsValid
    <3>4. p \in Plan /\ ValidGraph(p.steps, p.deps, p.refs)
      BY <3>3, RoutingsAreValid
    <3>5. TypeOK'
      BY <3>1, <3>2, <3>4 DEF TypeOK
    <3>6. PlannedIsValid'
      <4>1. \A s \in p.steps : p.args[s] \notin {"unfit", "amiss"}
        BY <3>1 DEF Allowed
      <4> QED BY <3>1, <3>4, <4>1 DEF PlannedIsValid
    <3>7. RoutingIsFaithful'
      <4>1. WritesKept(draft, p) /\ AllCovered(p)
        BY <3>2, RewrittenIsFaithful
      <4>2. WritesAsDrafted'
        BY <3>1, <4>1 DEF WritesAsDrafted, WritesKept
      <4>3. ContextCovered'
        BY <3>1, <3>2, <4>1 DEF ContextCovered, AllCovered, Contextual, Routable, Covered,
                                Calendar
      <4> QED BY <4>2, <4>3 DEF RoutingIsFaithful
    <3>8. WritesAreClarified'
      BY <3>2 DEF WritesAreClarified
    <3>9. (pc \in {"rewrite", "planned"} => ValidGraph(draft.steps, draft.deps, draft.refs))'
      BY <3>1, <3>2
    <3> QED BY <3>5, <3>6, <3>7, <3>8, <3>9
  <2> QED BY <2>1, <2>2
<1>6. CASE Raise
  BY <1>6 DEF Raise, TypeOK, PlannedIsValid, WritesAreClarified, RoutingIsFaithful, WritesAsDrafted, ContextCovered
<1>7. CASE UNCHANGED vars
  BY <1>7 DEF vars, TypeOK, PlannedIsValid, WritesAreClarified, RoutingIsFaithful, WritesAsDrafted, ContextCovered,
              Contextual, Routable, Covered, Calendar
<1> QED BY <1>1, <1>2, <1>3, <1>4, <1>5, <1>6, <1>7 DEF Next

(***************************************************************************)
(* The strengthened invariant holds of every behaviour.                    *)
(***************************************************************************)
THEOREM Invariance == Spec => []IInv
<1>1. Init => IInv BY Initially, InterpretationAssumption
<1>2. IInv /\ [Next]_vars => IInv' BY Inductive, InterpretationAssumption
<1> QED BY <1>1, <1>2, PTL DEF Spec

(***************************************************************************)
(* A planned query has a valid graph and arguments within the contracts of *)
(* the operations, whatever the language model answered: the executor      *)
(* never finds an unknown, repeated or cyclic step.                        *)
(***************************************************************************)
THEOREM PlansAreExecutable == Spec => []PlannedIsValid
<1>1. IInv => PlannedIsValid BY DEF IInv
<1> QED BY <1>1, Invariance, PTL

(***************************************************************************)
(* A query with a write word that the model wants clarified is never       *)
(* planned.                                                                *)
(***************************************************************************)
THEOREM ClarificationHolds == Spec => []WritesAreClarified
<1>1. IInv => WritesAreClarified BY DEF IInv
<1> QED BY <1>1, Invariance, PTL

(***************************************************************************)
(* The plan of a contextual query about a meeting searches the index for   *)
(* every service the query desires and routes no search twice; the writes  *)
(* are those of the draft, in its order, and read nothing new: only a      *)
(* create_event may lose what it read, to what the query says.  Whichever  *)
(* steps the language model proposed (_apply_intent_constraints).          *)
(***************************************************************************)
THEOREM RoutingFaithful == Spec => []RoutingIsFaithful
<1>1. IInv => RoutingIsFaithful BY DEF IInv
<1> QED BY <1>1, Invariance, PTL

(***************************************************************************)
(* The variables keep their types.                                         *)
(***************************************************************************)
THEOREM TypeCorrect == Spec => []TypeOK
<1>1. IInv => TypeOK BY DEF IInv
<1> QED BY <1>1, Invariance, PTL

-----------------------------------------------------------------------------
(***************************************************************************)
(* The hand-over to the executor.  DAGExecutor.execute validates nothing:  *)
(* it begins with the steps of the plan, their dependencies and the        *)
(* references between them, and with operations of any kind.               *)
(***************************************************************************)
OfPlan(f) == [s \in Ids |-> IF s \in plan.steps THEN f[s] ELSE {}]

Executing(operations) == INSTANCE Executor WITH
    Steps <- Ids,
    steps <- plan.steps, deps <- OfPlan(plan.deps), refs <- OfPlan(plan.refs),
    op <- [s \in Ids |-> IF s \in plan.steps THEN operations[s] ELSE "read"],
    pc <- "begin",
    results <- [s \in Ids |-> "none"],
    output <- [d \in Ids |-> [s \in Ids |-> "missing"]],
    wave <- [s \in Ids |-> "none"],
    proposals <- {}, execution <- "absent", committed <- FALSE, broken <- FALSE,
    effects <- {}

(***************************************************************************)
(* Every planned query is an initial state of Executor, whatever the       *)
(* language model answered, was repaired or was rewritten: what is proved  *)
(* of Executor holds of every plan the planner lets through.               *)
(***************************************************************************)
THEOREM PlansAreHandedOver ==
    Spec => [](pc = "planned" =>
                  \A operations \in [Ids -> {"read", "draft", "write"}] :
                      Executing(operations)!Init)
<1>1. TypeOK /\ PlannedIsValid =>
         (pc = "planned" =>
              \A operations \in [Ids -> {"read", "draft", "write"}] :
                  Executing(operations)!Init)
  <2> SUFFICES ASSUME TypeOK, PlannedIsValid, pc = "planned",
                      NEW operations \in [Ids -> {"read", "draft", "write"}]
               PROVE  Executing(operations)!Init
      OBVIOUS
  <2>1. /\ plan.steps \in SUBSET Ids
        /\ OfPlan(plan.deps) \in [Ids -> SUBSET Ids]
        /\ OfPlan(plan.refs) \in [Ids -> SUBSET Ids]
      BY DEF TypeOK, Plan, OfPlan
  <2>2. \A s \in Ids \ plan.steps : OfPlan(plan.deps)[s] = {} /\ OfPlan(plan.refs)[s] = {}
      BY DEF OfPlan
  <2>3. Executing(operations)!ValidGraph(plan.steps, OfPlan(plan.deps), OfPlan(plan.refs))
    <3>1. \A s \in plan.steps : OfPlan(plan.deps)[s] = plan.deps[s]
                                /\ OfPlan(plan.refs)[s] = plan.refs[s]
        BY <2>1 DEF OfPlan
    <3> QED
        BY <3>1 DEF PlannedIsValid, ValidGraph, Acyclic,
                    Executing!ValidGraph, Executing!Acyclic
  <2> QED BY <2>1, <2>2, <2>3 DEF Executing!Init, Executing!OperationKinds,
                                  Executing!NoOutput, Executing!NoWave
<1> QED BY <1>1, TypeCorrect, PlansAreExecutable, PTL

-----------------------------------------------------------------------------
(***************************************************************************)
(* The search of validate_graph.  The steps it has finished (state 2) have *)
(* finished dependencies, so they are acyclic whatever the rest is; the    *)
(* calls in progress (state 1) are a chain of dependencies, so whoever     *)
(* meets one of them again has found a cycle.                              *)
(***************************************************************************)
Finished == {s \in answer.steps : visit_state[s] = 2}

Chain ==
    /\ \A i \in 1 .. Len(path) : path[i] \in answer.steps /\ visit_state[path[i]] = 1
    /\ \A i, j \in 1 .. Len(path) : path[i] = path[j] => i = j
    /\ \A i \in 1 .. Len(path) - 1 : path[i + 1] \in answer.deps[path[i]]
    /\ \A s \in Ids : visit_state[s] = 1 => \E i \in 1 .. Len(path) : path[i] = s

FinishedClosed ==
    /\ \A s \in Finished : answer.deps[s] \subseteq Finished
    /\ Acyclic(Finished, answer.deps)

SearchInv ==
    /\ ValidationTypeOK
    /\ checking => answer \in Drafts
    /\ path # <<>> => Searching
    /\ Chain /\ FinishedClosed

LEMMA IdleIsPlain == Idle => Chain /\ FinishedClosed /\ (path # <<>> => Searching)
<1> SUFFICES ASSUME Idle PROVE Chain /\ FinishedClosed /\ (path # <<>> => Searching)
  OBVIOUS
<1>1. /\ path = <<>> /\ Len(path) = 0 /\ 1 .. Len(path) = {} /\ 1 .. Len(path) - 1 = {}
      /\ answer.steps = {} /\ \A s \in Ids : visit_state[s] = 0
  BY DEF Idle, NoPlan, NotVisited
<1>2. Chain
  BY <1>1 DEF Chain
<1>3. Finished = {}
  BY <1>1 DEF Finished
<1> QED BY <1>1, <1>2, <1>3 DEF FinishedClosed, Acyclic

\* Valid graphs are the declared ones without a cycle.
LEMMA ParsesIsDeclared ==
    ASSUME NEW p
    PROVE  Parses(p) <=> Declared(p) /\ Acyclic(p.steps, p.deps)
<1>1. ASSUME Acyclic(p.steps, p.deps), NEW s \in p.steps PROVE s \notin p.deps[s]
  <2>1. \E t \in {s} : p.deps[t] \cap {s} = {}
    BY <1>1 DEF Acyclic
  <2> QED BY <2>1
<1> QED BY <1>1 DEF Parses, ValidGraph, Declared

(***************************************************************************)
(* The two verdicts.                                                       *)
(***************************************************************************)
LEMMA RejectedIsInvalid ==
    ASSUME SearchInv, checking, Rejected
    PROVE  ~Parses(answer)
<1>1. CASE ~Declared(answer)
  BY <1>1, ParsesIsDeclared
<1>2. CASE Declared(answer)
  <2>1. PICK s \in Loop : visit_state[s] = 1
    BY <1>2 DEF Rejected, ClosesCycle
  <2>2. answer \in Plan /\ path \in Seq(Ids)
    BY DEF SearchInv, ValidationTypeOK
  <2>3. s \in Ids
    BY <2>1, <2>2 DEF Loop, Current, Plan
  <2>4. PICK k \in 1 .. Len(path) : path[k] = s
    BY <2>1, <2>3 DEF SearchInv, Chain
  <2>5. path # <<>> /\ s \in answer.deps[path[Len(path)]]
    BY <2>1, <2>2, <2>4 DEF Loop, Current
  <2> DEFINE S == {path[i] : i \in k .. Len(path)}
  <2>6. S \subseteq answer.steps /\ S # {}
    BY <2>2, <2>4 DEF SearchInv, Chain
  <2>7. ASSUME NEW i \in k .. Len(path) PROVE answer.deps[path[i]] \cap S # {}
    <3>1. CASE i = Len(path)
      BY <2>2, <2>4, <2>5, <3>1
    <3>2. CASE i # Len(path)
      <4>1. i \in 1 .. Len(path) - 1 /\ i + 1 \in k .. Len(path)
        BY <2>2, <3>2
      <4>2. path[i + 1] \in answer.deps[path[i]]
        BY <4>1 DEF SearchInv, Chain
      <4>3. path[i + 1] \in S
        BY <4>1
      <4> QED BY <4>2, <4>3
    <3> QED BY <3>1, <3>2
  <2>8. \A t \in S : answer.deps[t] \cap S # {}
    BY <2>7
  <2> HIDE DEF S
  <2>9. ~Acyclic(answer.steps, answer.deps)
    BY <2>6, <2>8 DEF Acyclic
  <2> QED BY <2>9, ParsesIsDeclared
<1> QED BY <1>1, <1>2

LEMMA AcceptedIsValid ==
    ASSUME SearchInv, Searching, path = <<>>, LoopEnds
    PROVE  Parses(answer)
<1>1. Finished = answer.steps
  BY DEF Finished, LoopEnds, Loop
<1> QED
  BY <1>1, ParsesIsDeclared DEF SearchInv, FinishedClosed, Searching

(***************************************************************************)
(* The steps of the search.                                                *)
(***************************************************************************)
LEMMA VisitKeeps ==
    ASSUME SearchInv, NEW s \in Ids, Visit(s)
    PROVE  SearchInv'
<1>1. /\ path \in Seq(Ids) /\ visit_state \in [Ids -> 0 .. 2] /\ answer \in Plan
      /\ checking /\ Declared(answer) /\ visit_state[s] = 0
      /\ path' = Append(path, s) /\ visit_state' = [visit_state EXCEPT ![s] = 1]
      /\ UNCHANGED <<vars, checking, answer>>
  BY DEF Visit, Searching, SearchInv, ValidationTypeOK
<1>2. Len(path') = Len(path) + 1 /\ path'[Len(path) + 1] = s
      /\ \A i \in 1 .. Len(path) : path'[i] = path[i]
  BY <1>1
<1>3. s \in answer.steps
  <2>1. CASE path = <<>>
    BY <2>1 DEF Visit, Loop
  <2>2. CASE path # <<>>
    <3>1. Len(path) \in 1 .. Len(path)
      BY <1>1, <2>2
    <3>2. Current \in answer.steps
      BY <3>1 DEF Current, SearchInv, Chain
    <3> QED BY <1>1, <2>2, <3>2 DEF Visit, Loop, Declared
  <2> QED BY <2>1, <2>2
<1>4. \A i \in 1 .. Len(path) : path[i] # s
  BY <1>1 DEF SearchInv, Chain
<1>5. Chain'
  <2>1. \A i \in 1 .. Len(path') : path'[i] \in answer'.steps /\ visit_state'[path'[i]] = 1
    BY <1>1, <1>2, <1>3, <1>4 DEF SearchInv, Chain
  <2>2. \A i, j \in 1 .. Len(path') : path'[i] = path'[j] => i = j
    BY <1>1, <1>2, <1>4 DEF SearchInv, Chain
  <2>3. \A i \in 1 .. Len(path') - 1 : path'[i + 1] \in answer'.deps[path'[i]]
    <3> SUFFICES ASSUME NEW i \in 1 .. Len(path) PROVE path'[i + 1] \in answer.deps[path'[i]]
      BY <1>1, <1>2
    <3>1. CASE i = Len(path)
      BY <1>1, <1>2, <3>1 DEF Visit, Loop, Current
    <3>2. CASE i # Len(path)
      <4>1. i \in 1 .. Len(path) - 1 /\ i + 1 \in 1 .. Len(path)
        BY <1>1, <3>2
      <4> QED BY <1>2, <4>1 DEF SearchInv, Chain
    <3> QED BY <3>1, <3>2
  <2>4. \A t \in Ids : visit_state'[t] = 1 => \E i \in 1 .. Len(path') : path'[i] = t
    <3> SUFFICES ASSUME NEW t \in Ids, visit_state'[t] = 1
                 PROVE  \E i \in 1 .. Len(path') : path'[i] = t
      OBVIOUS
    <3>1. CASE t = s
      BY <1>1, <1>2, <3>1
    <3>2. CASE t # s
      <4>1. PICK i \in 1 .. Len(path) : path[i] = t
        BY <1>1, <3>2 DEF SearchInv, Chain
      <4> QED BY <1>1, <1>2, <4>1
    <3> QED BY <3>1, <3>2
  <2> QED BY <2>1, <2>2, <2>3, <2>4 DEF Chain
<1>6. Finished' = Finished
  BY <1>1 DEF Finished, Plan
<1>7. ValidationTypeOK'
  <2>1. TypeOK' /\ pc' = "plan" /\ checking' /\ checking' \in BOOLEAN
    BY <1>1 DEF SearchInv, ValidationTypeOK, TypeOK, vars
  <2>2. visit_state' \in [Ids -> 0 .. 2] /\ path' \in Seq(Ids)
    BY <1>1
  <2> QED BY <1>1, <2>1, <2>2 DEF ValidationTypeOK
<1>8. FinishedClosed' /\ answer' \in Drafts
  BY <1>1, <1>6 DEF SearchInv, FinishedClosed
<1>9. checking' /\ Declared(answer)'
  BY <1>1 DEF Declared
<1> QED
  BY <1>5, <1>7, <1>8, <1>9 DEF SearchInv, Searching

LEMMA BeginningOf ==
    ASSUME NEW S, NEW s \in Seq(S), NEW n \in 0 .. Len(s)
    PROVE  /\ SubSeq(s, 1, n) \in Seq(S) /\ Len(SubSeq(s, 1, n)) = n
           /\ \A i \in 1 .. n : SubSeq(s, 1, n)[i] = s[i]
<1>1. n \in Int /\ 1 \in Int /\ \A i \in 1 .. n : s[i] \in S
  OBVIOUS
<1>2. /\ SubSeq(s, 1, n) \in Seq(S)
      /\ Len(SubSeq(s, 1, n)) = IF 1 <= n THEN n - 1 + 1 ELSE 0
      /\ \A i \in 1 .. n - 1 + 1 : SubSeq(s, 1, n)[i] = s[1 + i - 1]
  BY ONLY <1>1, SubSeqProperties
<1>3. Len(SubSeq(s, 1, n)) = n
  <2>1. n \in Nat
    OBVIOUS
  <2> QED BY <1>2, <2>1
<1>4. ASSUME NEW i \in 1 .. n PROVE SubSeq(s, 1, n)[i] = s[i]
  <2>1. i \in 1 .. n - 1 + 1 /\ 1 + i - 1 = i
    OBVIOUS
  <2> QED BY <1>2, <2>1
<1> QED BY <1>2, <1>3, <1>4

LEMMA ReturnKeeps ==
    ASSUME SearchInv, Return
    PROVE  SearchInv'
<1>1. /\ path \in Seq(Ids) /\ visit_state \in [Ids -> 0 .. 2] /\ answer \in Plan
      /\ checking /\ Declared(answer) /\ path # <<>>
      /\ path' = SubSeq(path, 1, Len(path) - 1)
      /\ visit_state' = [visit_state EXCEPT ![Current] = 2]
      /\ UNCHANGED <<vars, checking, answer>>
  BY DEF Return, Searching, SearchInv, ValidationTypeOK
<1>2. /\ Len(path) \in 1 .. Len(path)
      /\ path' \in Seq(Ids) /\ Len(path') = Len(path) - 1
      /\ \A i \in 1 .. Len(path') : i \in 1 .. Len(path) /\ i # Len(path) /\ path'[i] = path[i]
  <2>1. Len(path) \in Nat /\ Len(path) # 0
    BY <1>1
  <2>2. 1 \in 1 .. Len(path) + 1 /\ Len(path) - 1 \in 0 .. Len(path)
    BY <2>1
  <2>3. /\ path' \in Seq(Ids) /\ Len(path') = Len(path) - 1
        /\ \A i \in 1 .. Len(path) - 1 : path'[i] = path[i]
    BY <1>1, <2>1, <2>2, BeginningOf
  <2> QED BY <2>1, <2>3
<1>3. Current \in answer.steps /\ Current \in Ids /\ visit_state[Current] = 1
  BY <1>1, <1>2 DEF Current, SearchInv, Chain
<1>4. Chain'
  <2>1. \A i \in 1 .. Len(path') : path'[i] # Current
    BY <1>2 DEF Current, SearchInv, Chain
  <2>2. \A i \in 1 .. Len(path') : path'[i] \in answer'.steps /\ visit_state'[path'[i]] = 1
    BY <1>1, <1>2, <2>1 DEF SearchInv, Chain
  <2>3. \A i, j \in 1 .. Len(path') : path'[i] = path'[j] => i = j
    BY <1>2 DEF SearchInv, Chain
  <2>4. \A i \in 1 .. Len(path') - 1 : path'[i + 1] \in answer'.deps[path'[i]]
    <3> SUFFICES ASSUME NEW i \in 1 .. Len(path') - 1
                 PROVE  path'[i + 1] \in answer.deps[path'[i]]
      BY <1>1
    <3>1. i \in 1 .. Len(path') /\ i + 1 \in 1 .. Len(path') /\ i \in 1 .. Len(path) - 1
      BY <1>1, <1>2
    <3> QED BY <1>2, <3>1 DEF SearchInv, Chain
  <2>5. \A t \in Ids : visit_state'[t] = 1 => \E i \in 1 .. Len(path') : path'[i] = t
    <3> SUFFICES ASSUME NEW t \in Ids, visit_state'[t] = 1
                 PROVE  \E i \in 1 .. Len(path') : path'[i] = t
      OBVIOUS
    <3>1. t # Current /\ visit_state[t] = 1
      BY <1>1, <1>3
    <3>2. PICK i \in 1 .. Len(path) : path[i] = t
      BY <3>1 DEF SearchInv, Chain
    <3>3. i \in 1 .. Len(path')
      BY <1>1, <1>2, <3>1, <3>2 DEF Current
    <3> QED BY <1>2, <3>2, <3>3
  <2> QED BY <2>2, <2>3, <2>4, <2>5 DEF Chain
<1>5. Finished' = Finished \cup {Current} /\ Current \notin Finished
  BY <1>1, <1>3 DEF Finished, Plan
<1>6. answer.deps[Current] \subseteq Finished
  BY <1>1, <1>3 DEF Return, LoopEnds, Loop, Finished, Declared
<1>7. FinishedClosed'
  <2>1. \A t \in Finished' : answer'.deps[t] \subseteq Finished'
    BY <1>1, <1>5, <1>6 DEF SearchInv, FinishedClosed
  <2>2. ASSUME NEW S \in SUBSET (Finished \cup {Current}), S # {}
        PROVE  \E t \in S : answer.deps[t] \cap S = {}
    <3>1. CASE S \cap Finished = {}
      BY <1>6, <2>2, <3>1
    <3>2. CASE S \cap Finished # {}
      <4>1. PICK t \in S \cap Finished : answer.deps[t] \cap (S \cap Finished) = {}
        BY <3>2 DEF SearchInv, FinishedClosed, Acyclic
      <4>2. answer.deps[t] \subseteq Finished
        BY <4>1 DEF SearchInv, FinishedClosed
      <4> QED BY <4>1, <4>2
    <3> QED BY <3>1, <3>2
  <2> QED BY <1>1, <1>5, <2>1, <2>2 DEF FinishedClosed, Acyclic
<1>8. ValidationTypeOK'
  <2>1. TypeOK' /\ pc' = "plan" /\ checking' /\ checking' \in BOOLEAN
    BY <1>1 DEF SearchInv, ValidationTypeOK, TypeOK, vars
  <2>2. visit_state' \in [Ids -> 0 .. 2]
    BY <1>1, <1>3
  <2> QED BY <1>1, <1>2, <2>1, <2>2 DEF ValidationTypeOK
<1>9. checking' /\ Declared(answer)' /\ answer' \in Drafts
  BY <1>1 DEF Declared, SearchInv
<1> QED
  BY <1>4, <1>7, <1>8, <1>9 DEF SearchInv, Searching

(***************************************************************************)
(* Between validations nothing of the search is left, and a verdict is the *)
(* one Interpretation draws at once.                                       *)
(***************************************************************************)
LEMMA LeaveKeeps ==
    ASSUME InterpretationAssumption, SearchInv, TypeOK', Leave
    PROVE  SearchInv'
<1>1. Idle' /\ ~checking'
  BY DEF Leave, Idle
<1>2. (Chain /\ FinishedClosed /\ (path # <<>> => Searching))'
  BY <1>1, IdleIsPlain, PTL
<1>3. ValidationTypeOK'
  <2>1. answer' \in Plan
    BY NoPlanIsPlan DEF Leave
  <2>2. visit_state' \in [Ids -> 0 .. 2]
    BY DEF Leave, NotVisited
  <2>3. path' \in Seq(Ids)
    BY DEF Leave
  <2>4. checking' \in BOOLEAN
    BY DEF Leave
  <2> QED BY <1>1, <2>1, <2>2, <2>3, <2>4 DEF ValidationTypeOK
<1> QED BY <1>1, <1>2, <1>3 DEF SearchInv

LEMMA ReceiveKeeps ==
    ASSUME InterpretationAssumption, SearchInv, Receive
    PROVE  SearchInv'
<1>1. /\ path = <<>> /\ visit_state = NotVisited /\ path' = path /\ visit_state' = visit_state
      /\ checking' /\ checking' \in BOOLEAN /\ answer' \in Drafts /\ pc = "plan"
      /\ UNCHANGED vars
  BY DEF Receive, SearchInv, ValidationTypeOK, Idle
<1>2. answer' \in Plan
  BY <1>1 DEF InterpretationAssumption
<1>3. \A s \in Ids : visit_state'[s] = 0
  BY <1>1 DEF NotVisited
<1>4. Chain'
  <2>1. Len(path') = 0 /\ 1 .. Len(path') = {} /\ 1 .. Len(path') - 1 = {}
    BY <1>1
  <2> QED BY <1>3, <2>1 DEF Chain
<1>5. Finished' = {}
  BY <1>2, <1>3 DEF Finished, Plan
<1>6. TypeOK' /\ pc' = "plan"
  BY <1>1 DEF SearchInv, ValidationTypeOK, TypeOK, vars
<1>7. path' \in Seq(Ids) /\ visit_state' \in [Ids -> 0 .. 2]
  BY <1>1 DEF SearchInv, ValidationTypeOK
<1>8. ValidationTypeOK'
  BY <1>1, <1>2, <1>6, <1>7 DEF ValidationTypeOK
<1> QED BY <1>1, <1>4, <1>5, <1>8 DEF SearchInv, FinishedClosed, Acyclic

LEMMA RejectIsDraft == ASSUME SearchInv, Reject PROVE Draft
<1>1. pc = "plan" /\ answer \in Drafts /\ ~Parses(answer)
  BY RejectedIsInvalid DEF Reject, SearchInv, ValidationTypeOK
<1> QED BY <1>1 DEF Reject, Draft

LEMMA AcceptIsDraft == ASSUME SearchInv, Accept PROVE Draft
<1>1. pc = "plan" /\ answer \in Drafts /\ Parses(answer)
  BY AcceptedIsValid DEF Accept, Searching, SearchInv, ValidationTypeOK
<1> QED BY <1>1 DEF Accept, Draft

\* Each step of the detailed module is one of Interpretation, or none.
LEMMA ValidationSteps ==
    ASSUME SearchInv, [ValidatingNext]_<<vars, validation>>
    PROVE  [Next]_vars
<1>1. CASE Receive
  BY <1>1 DEF Receive
<1>2. CASE Reject
  BY <1>2, RejectIsDraft DEF Next
<1>3. CASE Accept
  BY <1>3, AcceptIsDraft DEF Next
<1>4. CASE Return
  BY <1>4 DEF Return
<1>5. CASE Others
  BY <1>5 DEF Others, Next
<1>6. CASE \E s \in Ids : Visit(s)
  BY <1>6 DEF Visit
<1>7. CASE UNCHANGED <<vars, validation>>
  BY <1>7
<1> QED
  BY <1>1, <1>2, <1>3, <1>4, <1>5, <1>6, <1>7 DEF ValidatingNext

LEMMA OthersKeep ==
    ASSUME SearchInv, TypeOK', Others \/ UNCHANGED <<vars, validation>>
    PROVE  SearchInv'
<1>1. /\ checking' = checking /\ answer' = answer
      /\ path' = path /\ visit_state' = visit_state
      /\ checking => pc' = pc
  BY DEF Others, validation, vars
<1>2. (Idle => Idle') /\ (Searching => Searching') /\ (Chain => Chain')
  BY <1>1 DEF Idle, Searching, Declared, Chain
<1>3. FinishedClosed => FinishedClosed'
  BY <1>1 DEF FinishedClosed, Finished, Acyclic
<1> QED
  BY <1>1, <1>2, <1>3 DEF SearchInv, ValidationTypeOK

LEMMA SearchInductive ==
    ASSUME InterpretationAssumption, IInv, SearchInv, [ValidatingNext]_<<vars, validation>>
    PROVE  IInv' /\ SearchInv'
<1>1. IInv' /\ TypeOK'
  BY ValidationSteps, Inductive DEF IInv
<1>2. CASE Receive
  BY <1>1, <1>2, ReceiveKeeps
<1>3. CASE Reject \/ Accept
  BY <1>1, <1>3, LeaveKeeps DEF Reject, Accept
<1>4. CASE Return
  BY <1>1, <1>4, ReturnKeeps
<1>5. CASE Others \/ UNCHANGED <<vars, validation>>
  BY <1>1, <1>5, OthersKeep
<1>6. CASE \E s \in Ids : Visit(s)
  BY <1>1, <1>6, VisitKeeps
<1> QED
  BY <1>1, <1>2, <1>3, <1>4, <1>5, <1>6 DEF ValidatingNext

LEMMA SearchInitially ==
    ASSUME InterpretationAssumption, ValidatingInit PROVE IInv /\ SearchInv
<1>1. IInv /\ Idle
  BY Initially DEF ValidatingInit
<1>2. answer \in Plan /\ path \in Seq(Ids) /\ visit_state \in [Ids -> 0 .. 2] /\ checking = FALSE
  BY <1>1, NoPlanIsPlan DEF Idle, NotVisited
<1>3. ValidationTypeOK
  BY <1>1, <1>2 DEF ValidationTypeOK, IInv
<1> QED BY <1>1, <1>2, <1>3, IdleIsPlain DEF SearchInv

LEMMA SearchInvariance == ValidatingSpec => [](IInv /\ SearchInv)
<1>1. ValidatingInit => IInv /\ SearchInv
  BY SearchInitially, InterpretationAssumption
<1>2. (IInv /\ SearchInv) /\ [ValidatingNext]_<<vars, validation>> => (IInv /\ SearchInv)'
  BY SearchInductive, InterpretationAssumption
<1> QED BY <1>1, <1>2, PTL DEF ValidatingSpec

(***************************************************************************)
(* The types of the search; nothing of it is left between validations.     *)
(***************************************************************************)
THEOREM ValidationTypeCorrect == ValidatingSpec => []ValidationTypeOK
<1>1. SearchInv => ValidationTypeOK BY DEF SearchInv
<1> QED BY <1>1, SearchInvariance, PTL

(***************************************************************************)
(* validate_graph accepts exactly the valid graphs (ValidGraph), of any    *)
(* number of steps and in whatever order the plan lists them.              *)
(***************************************************************************)
THEOREM GraphDecided == ValidatingSpec => GraphIsDecided
<1>1. SearchInv /\ [ValidatingNext]_<<vars, validation>>
         => [checking /\ ~checking' => (pc' = "rewrite" <=> Parses(answer))]_<<vars, validation>>
  <2> SUFFICES ASSUME SearchInv, [ValidatingNext]_<<vars, validation>>, checking, ~checking'
               PROVE  pc' = "rewrite" <=> Parses(answer)
    OBVIOUS
  <2>1. Reject \/ Accept
    BY DEF ValidatingNext, Receive, Return, Others, Visit, validation
  <2>2. CASE Reject
    <3>1. pc' # "rewrite"
      BY <2>2 DEF Reject, Retry, SearchInv, ValidationTypeOK
    <3> QED BY <2>2, <3>1, RejectedIsInvalid DEF Reject
  <2>3. CASE Accept
    BY <2>3, AcceptedIsValid DEF Accept
  <2> QED BY <2>1, <2>2, <2>3
<1> QED
  BY <1>1, SearchInvariance, PTL DEF ValidatingSpec, GraphIsDecided

(***************************************************************************)
(* With the search in the place of the verdict, the module still does what *)
(* Interpretation says, so all that is proved above holds of it.           *)
(***************************************************************************)
THEOREM ValidationImplements == ValidatingSpec => Spec
<1>1. ValidatingInit => Init
  BY DEF ValidatingInit
<1>2. SearchInv /\ [ValidatingNext]_<<vars, validation>> => [Next]_vars
  BY ValidationSteps
<1> QED
  BY <1>1, <1>2, SearchInvariance, PTL DEF ValidatingSpec, Spec

(***************************************************************************)
(* The recursion ends: each step of it takes one step id from not visited  *)
(* to being visited to visited, so a plan takes two steps for each of its  *)
(* ids at most, and until there is a verdict there is such a step.         *)
(***************************************************************************)
SearchAdvances ==
    [][checking /\ checking' =>
          \E s \in Ids : /\ visit_state[s] < 2
                         /\ visit_state' = [visit_state EXCEPT ![s] = visit_state[s] + 1]
      ]_<<vars, validation>>

SearchGoesOn ==
    checking => \/ Rejected
                \/ Searching /\ LoopEnds
                \/ Searching /\ \E s \in Loop : visit_state[s] = 0

THEOREM SearchEnds == ValidatingSpec => SearchAdvances /\ []SearchGoesOn
<1>1. SearchInv /\ [ValidatingNext]_<<vars, validation>>
         => [checking /\ checking' =>
                \E s \in Ids : /\ visit_state[s] < 2
                               /\ visit_state' = [visit_state EXCEPT ![s] = visit_state[s] + 1]
            ]_<<vars, validation>>
  <2> SUFFICES ASSUME SearchInv, ValidatingNext, checking, checking'
               PROVE  \E s \in Ids : /\ visit_state[s] < 2
                                     /\ visit_state' = [visit_state EXCEPT ![s] = visit_state[s] + 1]
    OBVIOUS
  <2>1. Return \/ \E s \in Ids : Visit(s)
    BY DEF ValidatingNext, Receive, Reject, Accept, Leave, Others
  <2>2. CASE \E s \in Ids : Visit(s)
    <3>1. PICK s \in Ids : Visit(s)
      BY <2>2
    <3>2. visit_state[s] = 0 /\ visit_state' = [visit_state EXCEPT ![s] = 1]
      BY <3>1 DEF Visit
    <3>3. visit_state[s] < 2 /\ visit_state[s] + 1 = 1
      BY <3>2
    <3> QED BY <3>2, <3>3
  <2>3. CASE Return
    <3>1. /\ path \in Seq(Ids) /\ path # <<>>
          /\ visit_state' = [visit_state EXCEPT ![Current] = 2]
      BY <2>3 DEF Return, SearchInv, ValidationTypeOK
    <3>2. Len(path) \in 1 .. Len(path)
      BY <3>1
    <3>3. Current \in Ids /\ visit_state[Current] = 1
      BY <3>1, <3>2 DEF Current, SearchInv, Chain
    <3>4. visit_state[Current] < 2 /\ visit_state[Current] + 1 = 2
      BY <3>3
    <3> QED BY <3>1, <3>3, <3>4
  <2> QED BY <2>1, <2>2, <2>3
<1>2. SearchInv => SearchGoesOn
  <2> SUFFICES ASSUME SearchInv, checking, ~Rejected PROVE
                 /\ Searching
                 /\ LoopEnds \/ \E s \in Loop : visit_state[s] = 0
    BY DEF SearchGoesOn
  <2>1. Searching
    BY DEF Rejected, Searching
  <2>2. path # <<>> => Current \in Ids
    <3> SUFFICES ASSUME path # <<>> PROVE path[Len(path)] \in Ids
      BY DEF Current
    <3>1. path \in Seq(Ids)
      BY DEF SearchInv, ValidationTypeOK
    <3> QED BY <3>1
  <2>3. Loop \subseteq Ids
    BY <2>2 DEF Loop, SearchInv, ValidationTypeOK, Plan
  <2>4. \A s \in Loop : visit_state[s] \in 0 .. 2 /\ visit_state[s] # 1
    BY <2>3 DEF Rejected, ClosesCycle, SearchInv, ValidationTypeOK
  <2> QED BY <2>1, <2>4 DEF LoopEnds
<1> QED
  BY <1>1, <1>2, SearchInvariance, PTL DEF ValidatingSpec, SearchAdvances

=============================================================================
