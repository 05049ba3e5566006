----------------------------- MODULE MCSettlement -----------------------------
(***************************************************************************)
(* Instances of Settlement for TLC.                                        *)
(***************************************************************************)
EXTENDS Settlement

CONSTANTS o1,
          MaxUnderway  \* bound: events the three listeners have not handled

\* A loss larger than the consumable bonus.
MCProfits == {-4}

\* Behaviours are followed while few events wait.
Few == Len(outcomes) + Len(updates) + Len(closes) <= MaxUnderway
===============================================================================
