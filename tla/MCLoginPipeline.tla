-------------------------- MODULE MCLoginPipeline --------------------------
(***************************************************************************)
(* Instances of LoginPipeline for TLC.                                     *)
(***************************************************************************)
EXTENDS LoginPipeline, TLC
=============================================================================
