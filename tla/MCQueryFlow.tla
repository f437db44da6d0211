---------------------------- MODULE MCQueryFlow ----------------------------
(* Instances of QueryFlow for TLC. *)
EXTENDS QueryFlow, TLC

Alike == Permutations(Requests) \cup Permutations(Tabs) \cup Permutations(Users)

=============================================================================
