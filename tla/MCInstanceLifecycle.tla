------------------------ MODULE MCInstanceLifecycle ------------------------
(* Instances of InstanceLifecycle for TLC.                                 *)
EXTENDS InstanceLifecycle, TLC

CallersSymmetry == Permutations(Callers)
=============================================================================
