----------------------------- MODULE MCSyncLock -----------------------------
(***************************************************************************)
(* Instances of SyncLock: the jobs of one user are model values.           *)
(***************************************************************************)
EXTENDS SyncLock

=============================================================================
