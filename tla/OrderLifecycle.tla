---------------------------- MODULE OrderLifecycle ----------------------------
(***************************************************************************)
(* What the order engine promises about one order record: an order that is *)
(* accepted is PENDING once, leaves PENDING once, and never changes again; *)
(* the only step that opens a position is the one that makes it FILLED.    *)
(* OrderEngine implements this specification for orders that carry no      *)
(* slippage limit (see OrderEngine!Lifecycle).                             *)
(***************************************************************************)
EXTENDS Naturals

CONSTANT Orders      \* identifiers of the orders the platform knows

VARIABLES status,    \* status of each order record
          fills      \* how many times each order was turned into a position

vars == <<status, fills>>

Init == /\ status = [o \in Orders |-> "NONE"]
        /\ fills = [o \in Orders |-> 0]

\* The order is accepted and waits for a price.
Accept(o) == /\ status[o] = "NONE"
             /\ status' = [status EXCEPT ![o] = "PENDING"]
             /\ UNCHANGED fills

\* The order is executed: exactly one position results.
Fill(o) == /\ status[o] = "PENDING"
           /\ status' = [status EXCEPT ![o] = "FILLED"]
           /\ fills' = [fills EXCEPT ![o] = @ + 1]

\* The order ends without a position.
Drop(o) == /\ status[o] = "PENDING"
           /\ \E s \in {"CANCELED", "REJECTED"} :
                 status' = [status EXCEPT ![o] = s]
           /\ UNCHANGED fills

Next == \E o \in Orders : Accept(o) \/ Fill(o) \/ Drop(o)

Spec == Init /\ [][Next]_vars
===============================================================================
