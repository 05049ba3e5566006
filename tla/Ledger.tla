-------------------------------- MODULE Ledger --------------------------------
(***************************************************************************)
(* Deposits, withdrawals, direct deposits and referral commissions of one  *)
(* user's spot wallet, as backend/auth-service books them.                 *)
(*                                                                         *)
(* A request runs SQL statements one at a time on a connection pool, none  *)
(* of them in a transaction.  create_ledger_entry reads the balance, adds, *)
(* inserts a ledger entry and stores the sum, while place_order and the    *)
(* rollback of an order change the same row relatively.  Each action is    *)
(* one statement, with the code up to the next one; requests interleave.   *)
(* get_or_create_wallet finds the wallet (its UNIQUE key admits one), and  *)
(* inserting an entry stands for its mirror in transactions as well.       *)
(***************************************************************************)
EXTENDS Integers, FiniteSets, Functions

CONSTANTS
  Handlers,      \* requests under way at once
  None,          \* no transaction
  Deposits,      \* a user asks, an administrator approves or rejects
  Withdrawals,   \* likewise
  Directs,       \* deposits an administrator makes in one step
  Commissions,   \* shares of other users' deposits, paid to this user
  Amount,        \* net_amount of each transaction
  Start,         \* available_balance at the start
  Margin,        \* margin of the user's next order
  MaxFaults      \* bound of the model on requests cut off

Transactions == Deposits \cup Withdrawals \cup Directs \cup Commissions

ASSUME LedgerAssumption ==
  /\ None \notin Transactions \cup Handlers
  /\ Withdrawals \cap (Deposits \cup Directs \cup Commissions) = {}
  /\ (Directs \cup Commissions) \cap Deposits = {} /\ Directs \cap Commissions = {}
  /\ Amount \in [Transactions -> Nat \ {0}]
  /\ Start \in Nat /\ Margin \in Nat \ {0} /\ MaxFaults \in Nat
  /\ IsFiniteSet(Transactions) /\ IsFiniteSet(Handlers)

VARIABLES
  wallet,        \* available, locked: the user's row in wallets
  status,        \* the transaction's status ("none" before its row is inserted)
  entries,       \* how many ledger entries bear its reference
  req,           \* the request: its next statement, its transaction, the balance it read
  applied,       \* history: how often the wallet took the amount
  lost,          \* history: a stored balance has undone another change
  pressed,       \* history: the balance fell between a withdrawal's check and its reading
  disturbed,     \* history: transactions two requests worked on at once, or one was cut off
  faults

vars == <<wallet, status, entries, req, applied, lost, pressed, disturbed, faults>>

Reviewed == Deposits \cup Withdrawals
Settled  == {"approved", "completed", "rejected"}
Statuses == Settled \cup {"none", "pending"}
Steps    == {"idle", "request", "check", "read", "insert", "store", "complete", "reject"}
Idle     == [at |-> "idle", tx |-> None, seen |-> 0]

Init == /\ wallet = [available |-> Start, locked |-> 0]
        /\ status = [t \in Transactions |-> "none"]
        /\ entries = [t \in Transactions |-> 0]
        /\ req = [h \in Handlers |-> Idle]
        /\ applied = [t \in Transactions |-> 0]
        /\ lost = FALSE /\ pressed = FALSE /\ disturbed = {} /\ faults = 0

Delta(t) == IF t \in Withdrawals THEN -Amount[t] ELSE Amount[t]

Goes(h, at) == req' = [req EXCEPT ![h].at = at]
Ends(h)     == req' = [req EXCEPT ![h] = Idle]

\* The request takes on t; history notes whether another one is at it.
Starts(h, t, at) ==
  /\ req[h].at = "idle"
  /\ req' = [req EXCEPT ![h] = [at |-> at, tx |-> t, seen |-> 0]]
  /\ disturbed' = IF \E k \in Handlers : req[k].tx = t THEN disturbed \cup {t} ELSE disturbed

\* The balance falls while another request still has to read what it found sufficient.
Presses(h) ==
  pressed' = (pressed \/ /\ wallet'.available < wallet.available
                         /\ \E k \in Handlers \ {h} : req[k].at = "read" /\ req[k].tx \in Withdrawals)

-------------------------------------------------------------------------------
(* Requests.                                                               *)

\* create_deposit_request: one INSERT, nothing else.
RequestDeposit(t) ==
  /\ t \in Deposits /\ status[t] = "none"
  /\ status' = [status EXCEPT ![t] = "pending"]
  /\ UNCHANGED <<wallet, entries, req, applied, lost, pressed, disturbed, faults>>

\* create_withdrawal_request: the balance is compared ...
AskWithdrawal(h, t) ==
  /\ t \in Withdrawals /\ status[t] = "none" /\ \A k \in Handlers : req[k].tx # t
  /\ Amount[t] <= wallet.available
  /\ Starts(h, t, "request")
  /\ UNCHANGED <<wallet, status, entries, applied, lost, pressed, faults>>

\* ... and the row inserted; no money is set aside for it.
InsertWithdrawal(h) ==
  /\ req[h].at = "request"
  /\ status' = [status EXCEPT ![req[h].tx] = "pending"]
  /\ Ends(h)
  /\ UNCHANGED <<wallet, entries, applied, lost, pressed, disturbed, faults>>

\* create_direct_deposit: the row is inserted as approved, then the money booked.
InsertDirect(h, t) ==
  /\ t \in Directs /\ status[t] = "none"
  /\ Starts(h, t, "read")
  /\ status' = [status EXCEPT ![t] = "approved"]
  /\ UNCHANGED <<wallet, entries, applied, lost, pressed, faults>>

\* accrue_commission_on_deposit, at the end of another user's approval: a pending row
\* in affiliate_commissions, then the money.
InsertCommission(h, t) ==
  /\ t \in Commissions /\ status[t] = "none"
  /\ Starts(h, t, "read")
  /\ status' = [status EXCEPT ![t] = "pending"]
  /\ UNCHANGED <<wallet, entries, applied, lost, pressed, faults>>

\* Mutant: a transaction is approved whatever its status.
ApproveAnew(h, t) ==
  /\ t \in Reviewed /\ status[t] # "none"
  /\ Starts(h, t, IF t \in Withdrawals THEN "check" ELSE "read")
  /\ UNCHANGED <<wallet, status, entries, applied, lost, pressed, faults>>

\* approve_transaction reads the row; a withdrawal's balance is checked next.
Approve(h, t) ==
  /\ t \in Reviewed /\ status[t] = "pending"
  /\ Starts(h, t, IF t \in Withdrawals THEN "check" ELSE "read")
  /\ UNCHANGED <<wallet, status, entries, applied, lost, pressed, faults>>

\* Mutant: the balance is read but not compared.
CheckNothing(h) ==
  /\ req[h].at = "check"
  /\ Goes(h, "read")
  /\ UNCHANGED <<wallet, status, entries, applied, lost, pressed, disturbed, faults>>

\* With too little the request ends (400) and the transaction stays pending.
CheckFunds(h) ==
  /\ req[h].at = "check"
  /\ \/ wallet.available >= Amount[req[h].tx] /\ Goes(h, "read")
     \/ wallet.available < Amount[req[h].tx] /\ Ends(h)
  /\ UNCHANGED <<wallet, status, entries, applied, lost, pressed, disturbed, faults>>

\* reject_transaction: the row is read, then updated whatever it has become.
Reject(h, t) ==
  /\ t \in Reviewed /\ status[t] = "pending"
  /\ Starts(h, t, "reject")
  /\ UNCHANGED <<wallet, status, entries, applied, lost, pressed, faults>>

MarkRejected(h) ==
  /\ req[h].at = "reject"
  /\ status' = [status EXCEPT ![req[h].tx] = "rejected"]
  /\ Ends(h)
  /\ UNCHANGED <<wallet, entries, applied, lost, pressed, disturbed, faults>>

-------------------------------------------------------------------------------
(* create_ledger_entry, and the status after it.                           *)

ReadBalance(h) ==
  /\ req[h].at = "read"
  /\ req' = [req EXCEPT ![h] = [at |-> "insert", tx |-> @.tx, seen |-> wallet.available]]
  /\ UNCHANGED <<wallet, status, entries, applied, lost, pressed, disturbed, faults>>

InsertEntry(h) ==
  /\ req[h].at = "insert"
  /\ entries' = [entries EXCEPT ![req[h].tx] = @ + 1]
  /\ Goes(h, "store")
  /\ UNCHANGED <<wallet, status, applied, lost, pressed, disturbed, faults>>

\* Mutant: every amount is credited.
StoreCredit(h) ==
  LET t == req[h].tx IN
  /\ req[h].at = "store"
  /\ wallet' = [wallet EXCEPT !.available = req[h].seen + Amount[t]]
  /\ applied' = [applied EXCEPT ![t] = @ + 1]
  /\ lost' = (lost \/ wallet.available # req[h].seen)
  /\ Presses(h)
  /\ IF t \in Directs THEN Ends(h) ELSE Goes(h, "complete")
  /\ UNCHANGED <<status, entries, disturbed, faults>>

\* The sum of what was read and the amount, whatever the row holds by now.
StoreBalance(h) ==
  LET t == req[h].tx IN
  /\ req[h].at = "store"
  /\ wallet' = [wallet EXCEPT !.available = req[h].seen + Delta(t)]
  /\ applied' = [applied EXCEPT ![t] = @ + 1]
  /\ lost' = (lost \/ wallet.available # req[h].seen)
  /\ Presses(h)
  /\ IF t \in Directs THEN Ends(h) ELSE Goes(h, "complete")
  /\ UNCHANGED <<status, entries, disturbed, faults>>

\* Mutant: the status is left as it is.
CompleteNothing(h) ==
  /\ req[h].at = "complete"
  /\ Ends(h)
  /\ UNCHANGED <<wallet, status, entries, applied, lost, pressed, disturbed, faults>>

\* The row is updated whatever its status has become.
Complete(h) ==
  /\ req[h].at = "complete"
  /\ status' = [status EXCEPT ![req[h].tx] = "completed"]
  /\ Ends(h)
  /\ UNCHANGED <<wallet, entries, applied, lost, pressed, disturbed, faults>>

-------------------------------------------------------------------------------
(* Others.                                                                 *)

\* place_order's lock_margin: the cash part of the margin, in one transaction.
LockMargin ==
  LET cash == IF wallet.available < Margin THEN wallet.available ELSE Margin IN
  /\ wallet.locked = 0 /\ wallet.available > 0
  /\ wallet' = [available |-> wallet.available - cash, locked |-> cash]
  /\ Presses(None)
  /\ UNCHANGED <<status, entries, req, applied, lost, disturbed, faults>>

\* rollback_order_margin_lock.
UnlockMargin ==
  /\ wallet.locked > 0
  /\ wallet' = [available |-> wallet.available + wallet.locked, locked |-> 0]
  /\ UNCHANGED <<status, entries, req, applied, lost, pressed, disturbed, faults>>

\* A statement fails (500), the client goes away and its request is dropped, or the
\* service restarts: what was written stays.  Nothing resumes the request.
CutOff(cut) ==
  /\ faults < MaxFaults /\ cut # {} /\ \A h \in cut : req[h].at # "idle"
  /\ req' = [h \in Handlers |-> IF h \in cut THEN Idle ELSE req[h]]
  /\ disturbed' = disturbed \cup {req[h].tx : h \in cut}
  /\ faults' = faults + 1
  /\ UNCHANGED <<wallet, status, entries, applied, lost, pressed>>

Request(h) == \/ \E t \in Withdrawals : AskWithdrawal(h, t)
              \/ \E t \in Directs : InsertDirect(h, t)
              \/ \E t \in Commissions : InsertCommission(h, t)
              \/ \E t \in Reviewed : Approve(h, t) \/ Reject(h, t)

Books(h) == ReadBalance(h) \/ InsertEntry(h) \/ StoreBalance(h) \/ Complete(h)

Next == \/ \E t \in Deposits : RequestDeposit(t)
        \/ \E h \in Handlers : \/ Request(h) \/ InsertWithdrawal(h) \/ CheckFunds(h)
                               \/ MarkRejected(h) \/ Books(h)
        \/ LockMargin \/ UnlockMargin
        \/ \E cut \in SUBSET Handlers : CutOff(cut)

Spec == Init /\ [][Next]_vars

-------------------------------------------------------------------------------
(* Properties.                                                             *)

Requests == [at : Steps, tx : Transactions \cup {None}, seen : Int]

TypeOK == /\ wallet \in [available : Int, locked : Nat]
          /\ status \in [Transactions -> Statuses]
          /\ entries \in [Transactions -> Nat] /\ applied \in [Transactions -> Nat]
          /\ req \in [Handlers -> Requests]
          /\ lost \in BOOLEAN /\ pressed \in BOOLEAN
          /\ disturbed \subseteq Transactions /\ faults \in 0..MaxFaults

\* Requests at work on t.
At(t) == {h \in Handlers : req[h].tx = t}

\* What e[t] bookings of every transaction t come to.
Total(e) == SumFunction([t \in Transactions |-> e[t] * Delta(t)])

\* The ledger explains the wallet: cash, free or locked, is what the user started with
\* plus every entry, also when a transaction was approved twice.  create_ledger_entry
\* stores an absolute balance, so it is true only until one request stores over the
\* change of another (lost), or is cut off between its entry and its store.
LedgerExplainsWallet ==
  ~lost /\ faults = 0 /\ (\A h \in Handlers : req[h].at # "store") =>
    wallet.available + wallet.locked = Start + Total(entries)

\* The status says whether the money moved: an approved or completed transaction was
\* booked once, any other never; of transactions no two requests worked on at once and
\* no request was cut off at.  (approve_transaction books first and marks afterwards,
\* and nothing keeps a second approval out.)
StatusTellsMoney ==
  \A t \in Transactions \ disturbed : At(t) = {} =>
    /\ entries[t] = applied[t]
    /\ applied[t] = IF status[t] \in {"approved", "completed"} THEN 1 ELSE 0

\* What is settled and not being worked on stays so, in every respect: no later
\* request takes it on, so it is never booked again, rejected or reopened.
Closed(t) == status[t] \in Settled /\ At(t) = {}

SettledStays ==
  [][\A t \in Transactions :
       Closed(t) => Closed(t)' /\ status'[t] = status[t] /\ entries'[t] = entries[t]
                               /\ applied'[t] = applied[t]]_vars

\* The balance never falls below zero, although the withdrawal's check, the balance it
\* is computed from and the balance stored belong to three moments; unless it fell
\* between a withdrawal's check and its reading.  Lost updates do no harm here.
NoOverdraft == ~pressed => wallet.available >= 0
===============================================================================
