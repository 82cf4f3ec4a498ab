----------------------------- MODULE MCConnMgr -----------------------------
(***************************************************************************)
(* Instances of ConnMgr for TLC.                                           *)
(***************************************************************************)
EXTENDS ConnMgr, TLC
=============================================================================
