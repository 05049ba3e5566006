---------------------------- MODULE MCOrderEngine ----------------------------
(***************************************************************************)
(* Instances of OrderEngine for TLC.                                       *)
(***************************************************************************)
EXTENDS OrderEngine, TLC

CONSTANTS o1, o2
===============================================================================
