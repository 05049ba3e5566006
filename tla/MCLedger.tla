------------------------------- MODULE MCLedger -------------------------------
(***************************************************************************)
(* Instances of Ledger for TLC.                                            *)
(***************************************************************************)
EXTENDS Ledger, TLC

CONSTANTS w1

\* The withdrawal needs all of the money, the others are smaller.
MCAmount == [t \in Transactions |-> IF t = w1 THEN 2 ELSE 1]

\* Behaviours are followed while at most one transaction has been disturbed, and until
\* the balance was both overwritten and pressed.
Few == Cardinality(disturbed) <= 1 /\ ~(lost /\ pressed)

Symmetry == Permutations(Handlers)
===============================================================================
