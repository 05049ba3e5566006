------------------------------ MODULE MCCalls ------------------------------
(* Instances of Calls for TLC. *)
EXTENDS Calls, FiniteSetsExt, TLC

CONSTANTS MaxUnderway, \* bound: messages on their way
          MaxStranded, \* the same bound once a connection was lost
          MaxOdd       \* bound: disturbances followed, lost connections aside

Underway == MapThenSumSet(LAMBDA k : Len(toGw[k]) + Len(resp[k]) + Len(bcast[k]), Conns)

\* Behaviours are followed as long as few disturbances occur.
Calm ==
    /\ Cardinality(odd \ {"drop"}) <= MaxOdd
    /\ Underway <= IF "drop" \in odd THEN MaxStranded ELSE MaxUnderway

\* Pages and tabs are interchangeable.
Symmetry == Permutations(Admins) \cup Permutations(Tabs)
=============================================================================
