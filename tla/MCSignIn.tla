------------------------------ MODULE MCSignIn ------------------------------
(* Two sign-ins, a work with two agents (a query, a synchronisation) and a  *)
(* work with one (an approval).                                             *)
EXTENDS SignIn

CONSTANTS w1, w2, b1, b2, b3

MCWorkOf == [b \in Builds |-> IF b = b3 THEN w2 ELSE w1]
=============================================================================
