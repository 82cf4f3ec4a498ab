--------------------------- MODULE MCTaskDBuffer ---------------------------
(***************************************************************************)
(* Instances of TaskDBuffer for TLC.  Two slots per buffer tell a batch    *)
(* apart from its last task, and five adds fill both buffers once more.    *)
(***************************************************************************)
EXTENDS TaskDBuffer, TLC

CONSTANTS p1, p2

OneProducer == {p1}
TwoProducers == {p1, p2}
=============================================================================
