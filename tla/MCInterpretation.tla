-------------------------- MODULE MCInterpretation --------------------------
(* Plans of at most three steps over three ids, one of which is a name the  *)
(* routing would like to use, with at most one argument that does not fit.  *)
EXTENDS PlanValidation, Integers, FiniteSets

CONSTANTS a, b, gmail, gmail2, drive

AllNames == [t \in Targets |-> IF t = "gmail" THEN {gmail, gmail2} ELSE {drive}]
Used == {a, b, gmail}
Spread(f, none) == [s \in Ids |-> IF s \in Used THEN f[s] ELSE none]

\* The first step depends on nothing, so there are a diamond of three steps, a
\* cycle of two, a step that depends on itself, and an unknown step.
Graphs == {d \in [Used -> SUBSET Used] :
              d[a] = {} /\ gmail \notin d[gmail]}

Arguments == {[s \in Used |-> IF s = b THEN x ELSE "fit"] : x \in Fitness}

SomeKinds == {k \in [Used -> Kinds] :
                 /\ k[a] \in {"calendar", "other"}
                 /\ k[b] \in {"calendar", "gmail", "workspace", "create"}
                 /\ k[gmail] \in {"calendar", "gmail", "workspace", "write"}}

SomeDrafts ==
    {[steps |-> S, kind |-> Spread(k, "other"),
      covers |-> [s \in Ids |-> IF s = b /\ k[s] = "workspace" THEN {"gmail"} ELSE {}],
      deps |-> Spread(d, {}), refs |-> Spread(d, {}),
      replaced |-> [s \in Ids |-> {a}], args |-> Spread(f, "fit")] :
        S \in {{a, b}, Used}, k \in SomeKinds, d \in Graphs, f \in Arguments}

Meetings == {<<FALSE, {}>>, <<TRUE, {}>>, <<TRUE, Targets>>}
SomeQueries ==
    {[writes |-> w, reads |-> ~w, hinted |-> ~w, contextual |-> m[1], desired |-> m[2]] :
        w \in BOOLEAN, m \in Meetings}
    \cup {[writes |-> TRUE, reads |-> TRUE, hinted |-> TRUE, contextual |-> FALSE,
           desired |-> {}]}

=============================================================================
