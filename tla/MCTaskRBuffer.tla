--------------------------- MODULE MCTaskRBuffer ---------------------------
(***************************************************************************)
(* Instances of TaskRBuffer for TLC.  A ring of two slots with positions   *)
(* that wrap at four meets every combination of full, empty and wrapped;   *)
(* three tasks tell apart an overwritten, a repeated and a reordered one.  *)
(***************************************************************************)
EXTENDS TaskRBuffer, TLC

CONSTANTS p1, p2, w1, t1, t2, t3

OneProducer == {p1}
TwoProducers == {p1, p2}
OneWorker == {w1}
ThreeTasks == {t1, t2, t3}
=============================================================================
