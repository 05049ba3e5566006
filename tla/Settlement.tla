------------------------------ MODULE Settlement ------------------------------
(***************************************************************************)
(* The margin of one user's orders and positions between Postgres, written *)
(* by backend/auth-service, and Redis, written by apps/order-engine.       *)
(*                                                                         *)
(* place_order locks the margin in the transaction that inserts the order. *)
(* From then on the two services only exchange NATS messages: the engine's *)
(* tasks publish what they did one await at a time, and three tasks of     *)
(* auth-service consume evt.order.updated, evt.position.updated and        *)
(* event.position.closed, each in its own order, and give margin back.     *)
(* All three subjects are core NATS: a restart loses what is queued.       *)
(*                                                                         *)
(* The account is a hedging account, so each order has a position of its   *)
(* own, and the engine publishes one outcome per order, as it does for     *)
(* orders without a slippage limit whose script does not abort.            *)
(***************************************************************************)
EXTENDS Integers, Sequences, FiniteSets

CONSTANTS
  Orders,       \* orders; the position of an order carries its id
  None,         \* no order
  Cash, Bonus,  \* available_balance and bonus_balance at the start
  Margin,       \* margin an order requires
  Profits,      \* realised profits of a close
  MaxReopens,   \* bound of the model on reopened positions
  MaxFaults     \* bound of the model on restarts and failed transactions

ASSUME Amounts == /\ Cash \in Nat /\ Bonus \in Nat /\ Margin \in Nat \ {0}
                  /\ Profits \subseteq Int
ASSUME Bounds == /\ MaxReopens \in Nat /\ MaxFaults \in Nat
                 /\ IsFiniteSet(Orders) /\ None \notin Orders

VARIABLES
  wallet,       \* available, locked, bonus, bonusLocked: the user's row in wallets
  row,          \* status, cash, bonus: the order's row in orders
  cancelling,   \* orders whose cancel command is on its way to the engine
  engine,       \* status of the order in Redis, "sent" while its command is queued
  hash,         \* status, size, original, cash, bonus, pnl of pos:by_id:{id}
  todo,         \* what each task of the engine has still to publish
  outcomes,     \* evt.order.updated
  updates,      \* evt.position.updated
  closes,       \* event.position.closed
  rolling,      \* the order whose rollback the order listener still owes
  listening,    \* the position listener's task runs
  db,           \* status, released: the position's row in positions
  held,         \* history: cash and bonus the wallet holds for each order
  reopened,     \* history: positions an administrator reopened
  faults

redis   == <<cancelling, engine, hash, todo>>
streams == <<outcomes, updates, closes>>
limits  == <<reopened, faults>>
vars == <<wallet, row, redis, streams, rolling, listening, db, held, limits>>

\* The engine's tasks that publish: one that fills the order, and those that close,
\* close all (also to liquidate), trigger stop losses, and reopen.
Handlers == Orders \cup {"close", "closeAll", "trigger", "reopen"}
Ended    == {"cancelled", "rejected"}

NoMargin == [cash |-> 0, bonus |-> 0]
NoHash   == [status |-> "none", size |-> 0, original |-> 0, cash |-> 0, bonus |-> 0, pnl |-> 0]

Init == /\ wallet = [available |-> Cash, locked |-> 0, bonus |-> Bonus, bonusLocked |-> 0]
        /\ row = [o \in Orders |-> [status |-> "none", cash |-> 0, bonus |-> 0]]
        /\ cancelling = {}
        /\ engine = [o \in Orders |-> "none"]
        /\ hash = [o \in Orders |-> NoHash]
        /\ todo = [h \in Handlers |-> <<>>]
        /\ outcomes = <<>> /\ updates = <<>> /\ closes = <<>>
        /\ rolling = None /\ listening = TRUE
        /\ db = [o \in Orders |-> [status |-> "none", released |-> FALSE]]
        /\ held = [o \in Orders |-> NoMargin]
        /\ reopened = {} /\ faults = 0

-------------------------------------------------------------------------------
(* The wallet: lock_margin, and what gives margin back.                    *)

Least(a, b) == IF a <= b THEN a ELSE b
AtLeastZero(a) == IF a >= 0 THEN a ELSE 0

\* Bonus that no margin holds.
Consumable(w) == AtLeastZero(w.bonus - w.bonusLocked)

\* Cash first, the rest from the bonus.
Split(w) == LET cash == Least(Margin, AtLeastZero(w.available))
            IN  [cash |-> cash, bonus |-> Margin - cash]

Lock(w, m) == [w EXCEPT !.available = @ - m.cash, !.locked = @ + m.cash,
                        !.bonusLocked = @ + m.bonus]

Unlock(w, m) == [w EXCEPT !.available = @ + m.cash, !.locked = @ - m.cash,
                          !.bonusLocked = @ - m.bonus]

\* Mutant: a loss is taken from the whole bonus, also from what is locked.
ApplyToWholeBonus(w, pnl) ==
  LET absorbed == Least(AtLeastZero(-pnl), w.bonus)
  IN  [w EXCEPT !.bonus = @ - absorbed, !.available = @ + pnl + absorbed]

\* A profit is cash; a loss takes the consumable bonus first.
Apply(w, pnl) ==
  LET absorbed == Least(AtLeastZero(-pnl), Consumable(w))
  IN  [w EXCEPT !.bonus = @ - absorbed, !.available = @ + pnl + absorbed]

Holds(o, m)   == held' = [held EXCEPT ![o] = [cash |-> @.cash + m.cash, bonus |-> @.bonus + m.bonus]]
LetsGo(o, m) == Holds(o, [cash |-> -m.cash, bonus |-> -m.bonus])

-------------------------------------------------------------------------------
(* auth-service: place_order and cancel_order.                             *)

\* Lock and insert in one transaction, then publish the command; the publication
\* (or the Redis call before it) may fail, which leaves the row pending.
Place(o) ==
  LET m == Split(wallet) IN
  /\ row[o].status = "none"
  /\ m.bonus <= Consumable(wallet)
  /\ wallet' = Lock(wallet, m)
  /\ row' = [row EXCEPT ![o] = [status |-> "pending", cash |-> m.cash, bonus |-> m.bonus]]
  /\ engine' \in {engine, [engine EXCEPT ![o] = "sent"]}
  /\ Holds(o, m)
  /\ UNCHANGED <<cancelling, hash, todo, streams, rolling, listening, db, limits>>

\* The row first, then the command, whose publication may fail.
RequestCancel(o) ==
  /\ row[o].status = "pending"
  /\ row' = [row EXCEPT ![o].status = "cancelling"]
  /\ cancelling' \in {cancelling, cancelling \cup {o}}
  /\ UNCHANGED <<wallet, engine, hash, todo, streams, rolling, listening, db, held, limits>>

-------------------------------------------------------------------------------
(* The engine: outcomes of orders, and scripts on positions.  After its    *)
(* script a task has a list of messages to publish.                        *)

Idle(h) == todo[h] = <<>>

Ends(o, status) ==
  /\ engine' = [engine EXCEPT ![o] = status]
  /\ outcomes' = Append(outcomes, [order |-> o, status |-> status])
  /\ UNCHANGED <<wallet, row, hash, todo, updates, closes, rolling, listening, db, held, limits>>

Accepts(o) == /\ engine[o] = "sent"
              /\ engine' = [engine EXCEPT ![o] = "pending"]
              /\ UNCHANGED <<wallet, row, cancelling, hash, todo, streams, rolling, listening, db,
                             held, limits>>

Rejects(o) == engine[o] = "sent" /\ Ends(o, "rejected") /\ UNCHANGED cancelling

Cancels(o) == /\ o \in cancelling /\ engine[o] = "pending"
              /\ Ends(o, "cancelled")
              /\ cancelling' = cancelling \ {o}

\* A cancel that comes before its order or after its outcome changes nothing.
CancelIsLate(o) == /\ o \in cancelling /\ engine[o] # "pending"
                   /\ cancelling' = cancelling \ {o}
                   /\ UNCHANGED <<wallet, row, engine, hash, todo, streams, rolling, listening, db,
                                  held, limits>>

Message(kind, o, status) == [kind |-> kind, pos |-> o, status |-> status]
ClosedMessage(o, m, pnl) == [kind |-> "closed", pos |-> o, cash |-> m.cash, bonus |-> m.bonus,
                             pnl |-> pnl]

Engine(h, o, position, messages) ==
  /\ hash' = [hash EXCEPT ![o] = position]
  /\ todo' = [todo EXCEPT ![h] = messages]
  /\ UNCHANGED <<wallet, row, cancelling, streams, rolling, listening, db, held, faults>>

\* The position takes over the margin its order's command carried.
Fills(o) ==
  /\ engine[o] = "pending"
  /\ engine' = [engine EXCEPT ![o] = "filled"]
  /\ Engine(o, o, [status |-> "open", size |-> 2, original |-> 0, cash |-> row[o].cash,
                   bonus |-> row[o].bonus, pnl |-> 0],
            <<Message("filled", o, "filled"), Message("updated", o, "open")>>)
  /\ UNCHANGED reopened

IsOpen(o) == hash[o].status = "open"

\* Half of the position is closed, with half of its margin.
Half(o) == [cash |-> hash[o].cash \div 2, bonus |-> hash[o].bonus \div 2]

\* Mutant: the event carries the margin of the whole position.
ClosesPartWhole(o, pnl) ==
  LET p == hash[o] IN
  /\ IsOpen(o) /\ p.size = 2 /\ Idle("close")
  /\ Engine("close", o, [p EXCEPT !.size = 1, !.cash = @ - Half(o).cash,
                                  !.bonus = @ - Half(o).bonus, !.pnl = @ + pnl],
            <<ClosedMessage(o, p, pnl), Message("updated", o, "closed")>>)
  /\ UNCHANGED <<engine, reopened>>

\* The handler publishes a partial close as a close: its status override is
\* Closed in both cases.
ClosesPart(o, pnl) ==
  LET p == hash[o] IN
  /\ IsOpen(o) /\ p.size = 2 /\ Idle("close")
  /\ Engine("close", o, [p EXCEPT !.size = 1, !.cash = @ - Half(o).cash,
                                  !.bonus = @ - Half(o).bonus, !.pnl = @ + pnl],
            <<ClosedMessage(o, Half(o), pnl), Message("updated", o, "closed")>>)
  /\ UNCHANGED <<engine, reopened>>

\* The script leaves the margin fields of a position it closes.
Gone(o, pnl) ==
  [hash[o] EXCEPT !.status = "closed", !.size = 0, !.original = hash[o].size, !.pnl = @ + pnl]

Closes(o, pnl) ==
  /\ IsOpen(o) /\ Idle("close")
  /\ Engine("close", o, Gone(o, pnl),
            <<ClosedMessage(o, hash[o], pnl), Message("updated", o, "closed")>>)
  /\ UNCHANGED <<engine, reopened>>

\* close_all publishes the two messages the other way round.
ClosesAll(o, pnl) ==
  /\ IsOpen(o) /\ Idle("closeAll")
  /\ Engine("closeAll", o, Gone(o, pnl),
            <<Message("updated", o, "closed"), ClosedMessage(o, hash[o], pnl)>>)
  /\ UNCHANGED <<engine, reopened>>

\* A triggered close reads the hash back for its event: "triggered".
Triggers(o, pnl) ==
  /\ IsOpen(o) /\ Idle("trigger")
  /\ Engine("trigger", o, Gone(o, pnl),
            <<Message("triggered", o, "closed"), Message("updated", o, "closed")>>)
  /\ UNCHANGED <<engine, reopened>>

\* The margin is not locked again.
Reopens(o) ==
  /\ hash[o].status = "closed"
  /\ o \notin reopened /\ Cardinality(reopened) < MaxReopens
  /\ Idle("reopen")
  /\ Engine("reopen", o, [hash[o] EXCEPT !.status = "open", !.size = hash[o].original],
            <<Message("updated", o, "open")>>)
  /\ reopened' = reopened \cup {o}
  /\ UNCHANGED engine

\* The task publishes its next message; an update carries the fields of the hash
\* of this moment, and the status its caller gave.
Publishes(h) ==
  LET next == Head(todo[h])
      p == hash[next.pos]
  IN
  /\ ~Idle(h)
  /\ todo' = [todo EXCEPT ![h] = Tail(@)]
  /\ \/ /\ next.kind = "filled"
        /\ outcomes' = Append(outcomes, [order |-> next.pos, status |-> "filled"])
        /\ UNCHANGED <<updates, closes>>
     \/ /\ next.kind = "updated"
        /\ updates' = IF listening
                      THEN Append(updates, [pos |-> next.pos, status |-> next.status,
                                            size |-> p.size])
                      ELSE updates
        /\ UNCHANGED <<outcomes, closes>>
     \/ /\ next.kind \in {"closed", "triggered"}
        /\ closes' = Append(closes,
                       IF next.kind = "closed" THEN next ELSE ClosedMessage(next.pos, p, p.pnl))
        /\ UNCHANGED <<outcomes, updates>>
  /\ UNCHANGED <<wallet, row, cancelling, engine, hash, rolling, listening, db, held, limits>>

-------------------------------------------------------------------------------
(* The three listeners of auth-service.                                    *)

\* Mutant: only a row that is still pending takes the outcome.
OutcomeIfPending ==
  LET e == Head(outcomes) IN
  /\ rolling = None /\ outcomes # <<>>
  /\ outcomes' = Tail(outcomes)
  /\ row' = IF row[e.order].status = "pending"
            THEN [row EXCEPT ![e.order].status = e.status] ELSE row
  /\ rolling' = IF row[e.order].status = "pending" /\ e.status \in Ended THEN e.order ELSE None
  /\ UNCHANGED <<wallet, redis, updates, closes, listening, db, held, limits>>

\* UPDATE ... WHERE status <> the new one; if it changed the row and the order did
\* not fill, the rollback follows in a transaction of its own.
Outcome ==
  LET e == Head(outcomes) IN
  /\ rolling = None /\ outcomes # <<>>
  /\ outcomes' = Tail(outcomes)
  /\ row' = [row EXCEPT ![e.order].status = e.status]
  /\ rolling' = IF row[e.order].status # e.status /\ e.status \in Ended THEN e.order ELSE None
  /\ UNCHANGED <<wallet, redis, updates, closes, listening, db, held, limits>>

Rollback == /\ rolling # None
            /\ wallet' = Unlock(wallet, row[rolling])
            /\ LetsGo(rolling, row[rolling])
            /\ rolling' = None
            /\ UNCHANGED <<row, redis, streams, listening, db, limits>>

\* The upsert of the position's row; bonus_wallet_released is not in it.
Update == /\ listening /\ updates # <<>>
          /\ Head(updates).size > 0
          /\ db' = [db EXCEPT ![Head(updates).pos].status = Head(updates).status]
          /\ updates' = Tail(updates)
          /\ UNCHANGED <<wallet, row, redis, outcomes, closes, rolling, listening, held, limits>>

\* pnl_percent divides by entry price times size before the row is written: a
\* position without size panics the task, and nobody starts it again.
UpdatePanics == /\ listening /\ updates # <<>>
                /\ Head(updates).size = 0
                /\ listening' = FALSE
                /\ updates' = <<>>
                /\ UNCHANGED <<wallet, row, redis, outcomes, closes, rolling, db, held, limits>>

Unsettled(o) == db[o].status # "none" /\ ~db[o].released

\* Mutant: bonus_wallet_released is not looked at.
SettlesAgain ==
  LET e == Head(closes) IN
  /\ closes # <<>> /\ db[e.pos].status # "none"
  /\ closes' = Tail(closes)
  /\ wallet' = Apply(Unlock(wallet, e), e.pnl)
  /\ LetsGo(e.pos, e)
  /\ db' = [db EXCEPT ![e.pos].released = TRUE]
  /\ UNCHANGED <<row, redis, outcomes, updates, rolling, listening, limits>>

\* release_and_apply_pnl, in one transaction.
Settles == LET e == Head(closes) IN
           /\ closes # <<>> /\ Unsettled(e.pos)
           /\ closes' = Tail(closes)
           /\ wallet' = Apply(Unlock(wallet, e), e.pnl)
           /\ LetsGo(e.pos, e)
           /\ db' = [db EXCEPT ![e.pos].released = TRUE]
           /\ UNCHANGED <<row, redis, outcomes, updates, rolling, listening, limits>>

\* No row of the position, or one already released: the event is done with.
SettlesNothing == /\ closes # <<>> /\ ~Unsettled(Head(closes).pos)
                  /\ closes' = Tail(closes)
                  /\ UNCHANGED <<wallet, row, redis, outcomes, updates, rolling, listening, db,
                                 held, limits>>

\* A transaction of the rollback or the settlement fails and is only logged.
Fault == faults < MaxFaults /\ faults' = faults + 1 /\ UNCHANGED reopened

RollbackFails == /\ rolling # None /\ Fault
                 /\ rolling' = None
                 /\ UNCHANGED <<wallet, row, redis, streams, listening, db, held>>

SettleFails == /\ closes # <<>> /\ Fault
               /\ closes' = Tail(closes)
               /\ UNCHANGED <<wallet, row, redis, outcomes, updates, rolling, listening, db, held>>

\* auth-service stops and starts: what its subscriptions held is lost.
Restart == /\ Fault
           /\ outcomes' = <<>> /\ updates' = <<>> /\ closes' = <<>>
           /\ rolling' = None /\ listening' = TRUE
           /\ UNCHANGED <<wallet, row, redis, db, held>>

-------------------------------------------------------------------------------
Api(o)      == Place(o) \/ RequestCancel(o)
OrderStep(o) == \/ Accepts(o) \/ Rejects(o) \/ Cancels(o) \/ CancelIsLate(o)
                \/ Fills(o)
CloseStep(o) == \/ Reopens(o)
                \/ \E pnl \in Profits :
                     ClosesPart(o, pnl) \/ Closes(o, pnl) \/ Triggers(o, pnl) \/ ClosesAll(o, pnl)
Listeners    == \/ Outcome \/ Rollback \/ Update \/ UpdatePanics \/ Settles \/ SettlesNothing
Trouble      == RollbackFails \/ SettleFails \/ Restart

Next == \/ \E o \in Orders : Api(o) \/ OrderStep(o) \/ CloseStep(o)
        \/ \E h \in Handlers : Publishes(h)
        \/ Listeners \/ Trouble

\* The order listener keeps handling what is published.
Spec == Init /\ [][Next]_vars /\ WF_vars(Outcome) /\ WF_vars(Rollback)

-------------------------------------------------------------------------------
(* Properties.                                                             *)

Amount  == [cash : Int, bonus : Int]
Kinds   == {"filled", "updated", "closed", "triggered"}

\* Types; in particular a reopened position is never larger than the one filled.
TypeOK == /\ wallet \in [available : Int, locked : Int, bonus : Int, bonusLocked : Int]
          /\ row \in [Orders -> [status : {"none", "pending", "cancelling", "filled"} \cup Ended,
                                 cash : Nat, bonus : Nat]]
          /\ cancelling \subseteq Orders
          /\ engine \in [Orders -> {"none", "sent", "pending", "filled"} \cup Ended]
          /\ hash \in [Orders -> [status : {"none", "open", "closed"},
                                  size : 0..2, original : 0..2, cash : Nat, bonus : Nat,
                                  pnl : Int]]
          /\ \A h \in Handlers : \A i \in 1..Len(todo[h]) : todo[h][i].kind \in Kinds
          /\ rolling \in Orders \cup {None} /\ listening \in BOOLEAN
          /\ db \in [Orders -> [status : {"none", "open", "closed"},
                                released : BOOLEAN]]
          /\ held \in [Orders -> Amount]
          /\ reopened \subseteq Orders /\ faults \in 0..MaxFaults

\* What an order or its position needs: the margin of the order until the engine
\* ends it, then the margin in the hash as long as the position is open.
Owed(o) == CASE engine[o] = "filled" /\ IsOpen(o) -> [cash |-> hash[o].cash, bonus |-> hash[o].bonus]
             [] engine[o] \in {"sent", "pending"} -> [cash |-> row[o].cash, bonus |-> row[o].bonus]
             [] OTHER -> NoMargin

\* Every live order and open position is backed by margin the wallet still holds,
\* whatever is closed partly, triggered, lost or handled late.  A position an
\* administrator reopened is not: nothing locks its margin again.
ExposureCovered ==
  \A o \in Orders \ reopened : Owed(o).cash <= held[o].cash /\ Owed(o).bonus <= held[o].bonus

\* The wallet never gives back more than it holds for an order, although closes of
\* a position are announced by four handlers and again after a reopen.
NoOverRelease == \A o \in Orders : held[o].cash >= 0 /\ held[o].bonus >= 0

\* Losses never eat bonus that is locked for another position: no settlement runs
\* into the CHECK constraints of the wallets table.
BonusCovered == /\ 0 <= wallet.bonusLocked /\ wallet.bonusLocked <= wallet.bonus
                /\ 0 <= wallet.locked

\* The types of the rows together with the CHECK constraints of the schema.
WalletSound == TypeOK /\ BonusCovered

\* The stage of an order's margin: a settlement marks the position's row, a rollback
\* leaves nothing.
Stage(o) == IF row[o].status = "none" THEN "none"
            ELSE IF db[o].released \/ held[o] = NoMargin THEN "returned" ELSE "locked"

\* The two services together keep the account of MarginAccount: margin is locked
\* once and given back in one transaction, although closes of a position are
\* announced by four handlers and again after a reopen, and a loss spends the free
\* bonus before cash.
Account == INSTANCE MarginAccount WITH stage <- [o \in Orders |-> Stage(o)]
AccountSpec == Account!Spec

\* The margin of an order the engine cancelled or rejected is returned in the end,
\* also when its row said "cancelling", unless something failed in between.
EndedIsReturned ==
  \A o \in Orders : engine[o] \in Ended ~> (held[o] = NoMargin \/ faults > 0)
===============================================================================
