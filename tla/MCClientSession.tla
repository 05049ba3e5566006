-------------------------- MODULE MCClientSession --------------------------
(* Instances of ClientSession for TLC: two accounts, one after the other. *)
EXTENDS ClientSession

CONSTANTS a, b
MCAccount == [s \in Sessions |-> IF s = 1 THEN a ELSE b]
=============================================================================
