----------------------------- MODULE PlanGraph -----------------------------
(***************************************************************************)
(* The dependency graph of an ExecutionPlan (app/schemas/contracts.py), as *)
(* ExecutionPlan.validate_graph accepts it.  Steps are identified by their *)
(* ids, so ids cannot repeat; deps[s] is depends_on and refs[s] the steps  *)
(* whose output the arguments of s point into.                             *)
(***************************************************************************)

\* Every set of steps has a member that depends on none of the set.
Acyclic(steps, deps) ==
    \A S \in SUBSET steps : S # {} => \E s \in S : deps[s] \cap S = {}

(***************************************************************************)
(* No self-dependency, no unknown step, every reference declared as a      *)
(* dependency, and no cycle (Acyclic excludes self-dependencies too).      *)
(* PlanValidation is the search by which the code decides this.            *)
(***************************************************************************)
ValidGraph(steps, deps, refs) ==
    /\ \A s \in steps : deps[s] \subseteq steps /\ refs[s] \subseteq deps[s]
    /\ Acyclic(steps, deps)
=============================================================================
