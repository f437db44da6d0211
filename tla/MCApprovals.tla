---------------------------- MODULE MCApprovals ----------------------------
(***************************************************************************)
(* Small instances of Approvals: requests and approvals are model values.  *)
(***************************************************************************)
EXTENDS ApprovalCard

\* The other steps of the execution never change, and a summary asks of them
\* only whether one failed: none, all fine, or one failed stand for the rest.
OthersBound ==
    others \in {{}, {"completed", "skipped"}, {"completed", "failed"}}

=============================================================================
