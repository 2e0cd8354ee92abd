------------------------- MODULE MCInstanceRegistry -------------------------
(* Instances of InstanceRegistry for TLC.                                  *)
EXTENDS InstanceRegistry, TLC

CONSTANTS idA, idB, nameN

NamelessEntries == [e \in Entries |-> None]
NamedEntries == [e \in Entries |-> IF e = idA THEN nameN ELSE None]
RunsSymmetry == Permutations(Runs)
=============================================================================
