-------------------------- MODULE MCWorkspaceSearch --------------------------
(* An instance of WorkspaceSearch for TLC: the three services, two messages *)
(* of one thread that match the query, and a long file that does not.       *)
EXTENDS WorkspaceSearch

CONSTANTS m1, m2, d1

Owner == [i \in Items |-> IF i = d1 THEN "google_drive" ELSE "gmail"]
Matching == Items \ {d1}
Length == [i \in Items |-> IF i = d1 THEN 3 ELSE 1]
Thread == [i \in Items |-> IF i = m2 THEN m1 ELSE i]

=============================================================================
