--------------------------- MODULE MCQueueReplan ---------------------------
(* Instances of QueueReplan for TLC. *)
EXTENDS QueueReplan
CONSTANTS t1, t2
=============================================================================
