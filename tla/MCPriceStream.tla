--------------------------- MODULE MCPriceStream ---------------------------
(* Instances of PriceStream for TLC: two users, one after the other. *)
EXTENDS PriceStream

CONSTANTS a, b,     \* the users
          Second,   \* the first token issued to b
          k1, k2    \* the components

MCOwner == [t \in Tokens |-> IF t < Second THEN a ELSE b]

\* Two moves let two components mount, or one mount and change: k1 is the one
\* that shows more.
InOrder == comp[k2].want \subseteq comp[k1].want

\* Behaviours are followed until the first disturbance that the client makes.
Calm == odd \subseteq {"halfway"} /\ InOrder
=============================================================================
