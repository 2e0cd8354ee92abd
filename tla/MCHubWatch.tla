----------------------------- MODULE MCHubWatch -----------------------------
(* Instances of HubWatch for TLC.                                          *)
EXTENDS HubWatch

CONSTANTS instance, topic, w1

InstanceWatch == [w \in Subscribers |-> instance]
=============================================================================
