------------------------ MODULE MCSequenceInventory ------------------------
(* Instances of SequenceInventory for TLC.                                 *)
EXTENDS SequenceInventory, TLC

CONSTANTS r1, r2, r3, a, b, q1, q2

\* a is launched twice by the host, b once by a caller.
RunIds == r1 :> a @@ r2 :> a @@ r3 :> b
=============================================================================
