----------------------------- MODULE MCExecutor -----------------------------
(***************************************************************************)
(* Every valid plan over a few step ids, given as model values.            *)
(***************************************************************************)
EXTENDS Executor

=============================================================================
