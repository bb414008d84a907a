------------------------------- MODULE MCQueue -------------------------------
(* Instances of QueueForward for TLC. *)
EXTENDS QueueForward

CONSTANTS f1, f2, m1, m2, c1, fw1, fw2

MCOne == [f \in Flow |-> fw1]
MCEach == [f \in Flow |-> IF f = f1 THEN fw1 ELSE fw2]
MCQueues == [F \in Forward |-> "queue"]
MCServices == [F \in Forward |-> "service"]
MCKinds == [F \in Forward |-> IF F = fw1 THEN "queue" ELSE "service"]
MCTarget == [c \in Consumer |-> "target"]
MCSource == [c \in Consumer |-> "source"]
=============================================================================
