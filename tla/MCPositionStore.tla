---------------------------- MODULE MCPositionStore ----------------------------
(***************************************************************************)
(* Instances of PositionStore for TLC.                                     *)
(***************************************************************************)
EXTENDS PositionStore, TLC

\* Three orders are filled, or two and positions are reopened.
Few == reopened = {} \/ Cardinality(filled) <= 2

\* Positions and editors are interchangeable.
Symmetry == Permutations(Ids) \cup Permutations(Editors)
===============================================================================
