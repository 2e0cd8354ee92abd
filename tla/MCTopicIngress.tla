--------------------------- MODULE MCTopicIngress ---------------------------
(* Instances of TopicIngress for TLC.                                      *)
EXTENDS TopicIngress
=============================================================================
