-------------------------- MODULE MCCsrEnrollment --------------------------
(* Instances of CsrEnrollment for TLC. *)
EXTENDS CsrEnrollment

CONSTANTS g1, g2, hub

\* Every grant is for the one request, as when the operator approves it again.
SameRequest == [g \in Grants |-> hub]
=============================================================================
