----------------------------- MODULE MarginAccount -----------------------------
(***************************************************************************)
(* What auth-service promises about the margin of one user: the margin of  *)
(* an order is locked once, in full, from cash first and from bonus that   *)
(* no other order holds; it is given back in one transaction, never in     *)
(* two, and never more than was locked; a profit leaves the bonus alone,   *)
(* and a loss takes cash only when all the bonus that is free is used up.  *)
(* Settlement, with its two services, three listeners and four tasks that  *)
(* announce closes, implements this specification.                         *)
(***************************************************************************)
EXTENDS Integers

CONSTANTS Orders,       \* orders of the user
          Cash, Bonus,  \* the amounts at the start
          Margin        \* what an order requires

VARIABLES wallet,       \* available, locked, bonus, bonusLocked
          held,         \* cash and bonus locked for each order
          stage         \* of each order's margin: "none", "locked", "returned"

vars == <<wallet, held, stage>>

Nothing == [cash |-> 0, bonus |-> 0]

Init == /\ wallet = [available |-> Cash, locked |-> 0, bonus |-> Bonus, bonusLocked |-> 0]
        /\ held = [o \in Orders |-> Nothing]
        /\ stage = [o \in Orders |-> "none"]

Stage(o, from, to) == stage[o] = from /\ stage' = [stage EXCEPT ![o] = to]

\* An order is placed: bonus is locked only when the cash does not suffice.
LockMargin(o) ==
  /\ Stage(o, "none", "locked")
  /\ \E cash \in 0..Margin :
       LET bonus == Margin - cash IN
       /\ cash > 0 => cash <= wallet.available
       /\ bonus > 0 => cash >= wallet.available /\ wallet.bonusLocked + bonus <= wallet.bonus
       /\ wallet' = [wallet EXCEPT !.available = @ - cash, !.locked = @ + cash,
                                   !.bonusLocked = @ + bonus]
       /\ held' = [held EXCEPT ![o] = [cash |-> cash, bonus |-> bonus]]

\* An order ends without a position: all of its margin is free again.
ReturnMargin(o) ==
  /\ Stage(o, "locked", "returned")
  /\ wallet' = [wallet EXCEPT !.available = @ + held[o].cash, !.locked = @ - held[o].cash,
                              !.bonusLocked = @ - held[o].bonus]
  /\ held' = [held EXCEPT ![o] = Nothing]

\* A position is settled: margin is given back and a result applied.  What a partial
\* close does not give back stays locked.
SettleMargin(o) ==
  /\ Stage(o, "locked", "returned")
  /\ \E cash \in 0..held[o].cash, bonus \in 0..held[o].bonus :
       LET free == wallet.bonus - (wallet.bonusLocked - bonus)
           spent == wallet.bonus - wallet'.bonus
           gain == wallet'.available - (wallet.available + cash)
       IN
       /\ 0 <= spent /\ spent <= free
       /\ gain > 0 => spent = 0
       /\ gain < 0 => spent = free
       /\ wallet' = [wallet EXCEPT !.available = @ + cash + gain, !.locked = @ - cash,
                                   !.bonus = @ - spent, !.bonusLocked = @ - bonus]
       /\ held' = [held EXCEPT ![o] = [cash |-> @.cash - cash, bonus |-> @.bonus - bonus]]

Next == \E o \in Orders : LockMargin(o) \/ ReturnMargin(o) \/ SettleMargin(o)

Spec == Init /\ [][Next]_vars
================================================================================
