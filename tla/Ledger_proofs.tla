---------------------------- MODULE Ledger_proofs ----------------------------
(***************************************************************************)
(* Proofs about Ledger, for any requests, transactions, amounts and        *)
(* faults: types, that a transaction's status says whether its money       *)
(* moved, that settled transactions stay so, and when no overdraft occurs. *)
(***************************************************************************)
EXTENDS Ledger, SumTheorems, TLAPS

\* A request works on a transaction its step is for.
RequestOK(r) ==
  /\ r.at = "idle" <=> r.tx = None
  /\ r.at \in {"request", "check"} => r.tx \in Withdrawals
  /\ r.at = "reject" => r.tx \in Reviewed
  /\ r.at = "complete" => r.tx \notin Directs

Open(t) == IF t \in Directs THEN "approved" ELSE "pending"

\* s, e and a are the status, entries and applications of t at step at.
Midway(at, t, s, e, a) == /\ s = IF at = "request" THEN "none" ELSE Open(t)
                          /\ e = IF at \in {"store", "complete"} THEN 1 ELSE 0
                          /\ a = IF at = "complete" THEN 1 ELSE 0

AtRest(s, e, a) == e = a /\ a = IF s \in {"approved", "completed"} THEN 1 ELSE 0

\* What a request has done to its transaction when no other one interferes.
Halfway(at, t) == Midway(at, t, status[t], entries[t], applied[t])

Resting(t) == AtRest(status[t], entries[t], applied[t])

BookOK(t) ==
  t \notin disturbed =>
    /\ \A h \in Handlers : req[h].tx = t => Halfway(req[h].at, t)
    /\ \A h, k \in Handlers : req[h].tx = t /\ req[k].tx = t => h = k
    /\ (\A h \in Handlers : req[h].tx # t) => Resting(t)

IInv == /\ TypeOK
        /\ \A h \in Handlers : RequestOK(req[h])
        /\ \A t \in Transactions : BookOK(t)

\* What a withdrawal found sufficient is so until it is stored.
Sufficient(r) ==
  /\ r.at \in {"insert", "store"} => r.seen >= 0
  /\ r.tx \in Withdrawals /\ r.at = "read" => wallet.available >= Amount[r.tx]
  /\ r.tx \in Withdrawals /\ r.at \in {"insert", "store"} => r.seen >= Amount[r.tx]

FundsInv == ~pressed => wallet.available >= 0 /\ \A h \in Handlers : Sufficient(req[h])

-------------------------------------------------------------------------------
(* Types and requests.                                                     *)

\* One request moves on, or starts.
LEMMA ReqStep ==
  ASSUME IInv, NEW h \in Handlers, NEW r, r \in Requests, RequestOK(r),
         req' = [req EXCEPT ![h] = r]
  PROVE  /\ req' \in [Handlers -> Requests]
         /\ \A k \in Handlers : RequestOK(req'[k])
         /\ req'[h] = r /\ \A k \in Handlers : k # h => req'[k] = req[k]
<1>1. /\ req \in [Handlers -> Requests] /\ \A k \in Handlers : RequestOK(req[k])
  BY DEF IInv, TypeOK
<1>2. req'[h] = r /\ \A k \in Handlers : k # h => req'[k] = req[k]
  BY <1>1
<1>3. req' \in [Handlers -> Requests]
  BY <1>1
<1>. QED  BY <1>1, <1>2, <1>3

\* The request's next step.
Moved(r, at) == [at |-> at, tx |-> r.tx, seen |-> r.seen]

LEMMA GoesStep ==
  ASSUME IInv, NEW h \in Handlers, NEW at \in Steps, Goes(h, at)
  PROVE  req' = [req EXCEPT ![h] = Moved(req[h], at)] /\ Moved(req[h], at) \in Requests
<1>1. req \in [Handlers -> Requests] /\ req[h] \in Requests
  BY DEF IInv, TypeOK
<1>2. [req[h] EXCEPT !.at = at] = Moved(req[h], at)
  BY <1>1 DEF Requests, Moved
<1>. QED  BY <1>1, <1>2 DEF Goes, Requests, Moved

LEMMA IdleIsRequest == Idle \in Requests /\ RequestOK(Idle) /\ Idle.tx = None /\ Idle.at = "idle"
BY LedgerAssumption DEF Idle, Requests, Steps, RequestOK, Transactions, Reviewed

LEMMA KindsAreTransactions ==
  /\ Deposits \subseteq Transactions /\ Withdrawals \subseteq Transactions
  /\ Directs \subseteq Transactions /\ Commissions \subseteq Transactions
  /\ Reviewed \subseteq Transactions
BY DEF Transactions, Reviewed

-------------------------------------------------------------------------------
(* One step of one request on one transaction.                             *)

\* Only t's row, ledger entries and applications change.
Touches(t, s, e, a) == /\ status' = [status EXCEPT ![t] = s]
                       /\ entries' = [entries EXCEPT ![t] = e]
                       /\ applied' = [applied EXCEPT ![t] = a]

Others == /\ wallet' \in [available : Int, locked : Nat]
          /\ lost' \in BOOLEAN /\ pressed' \in BOOLEAN /\ faults' = faults

LEMMA TouchesNothing ==
  ASSUME IInv, NEW t \in Transactions, UNCHANGED <<status, entries, applied>>
  PROVE  Touches(t, status[t], entries[t], applied[t])
BY DEF IInv, TypeOK, Touches

LEMMA Advance ==
  ASSUME IInv, Others, NEW h \in Handlers, NEW t \in Transactions,
         NEW r \in Requests, RequestOK(r), r.tx \in {t, None}, req[h].tx \in {t, None},
         req' = [req EXCEPT ![h] = r],
         NEW s \in Statuses, NEW e \in Nat, NEW a \in Nat, Touches(t, s, e, a),
         disturbed \subseteq disturbed', disturbed' \subseteq disturbed \cup {t},
         t \notin disturbed' => /\ \A k \in Handlers : k # h => req[k].tx # t
                                /\ r.tx = t => Midway(r.at, t, s, e, a)
                                /\ r.tx = None => AtRest(s, e, a)
  PROVE  IInv'
<1>1. /\ req' \in [Handlers -> Requests] /\ \A k \in Handlers : RequestOK(req'[k])
      /\ req'[h] = r /\ \A k \in Handlers : k # h => req'[k] = req[k]
  BY ReqStep
<1>2. TypeOK'
  <2>1. /\ status' \in [Transactions -> Statuses]
        /\ entries' \in [Transactions -> Nat] /\ applied' \in [Transactions -> Nat]
    BY DEF IInv, TypeOK, Touches
  <2>2. disturbed' \subseteq Transactions /\ faults' \in 0..MaxFaults
    BY DEF IInv, TypeOK, Others
  <2>. QED  BY <1>1, <2>1, <2>2 DEF TypeOK, Others
<1>3. /\ status'[t] = s /\ entries'[t] = e /\ applied'[t] = a
      /\ \A u \in Transactions : u # t => /\ status'[u] = status[u] /\ entries'[u] = entries[u]
                                         /\ applied'[u] = applied[u]
  BY DEF IInv, TypeOK, Touches
<1>4. BookOK(t)'
  <2>1. t \notin disturbed' => \A k \in Handlers : req'[k].tx = t => k = h
    BY <1>1
  <2>2. t \notin disturbed' =>
          \A k \in Handlers : req'[k].tx = t =>
            Midway(req'[k].at, t, status'[t], entries'[t], applied'[t])
    BY <2>1, <1>1, <1>3
  <2>3. t \notin disturbed' /\ (\A k \in Handlers : req'[k].tx # t) =>
          AtRest(status'[t], entries'[t], applied'[t])
    BY <1>1, <1>3
  <2>. QED  BY <2>1, <2>2, <2>3 DEF BookOK, Halfway, Resting, Midway, AtRest, Open
<1>5. ASSUME NEW u \in Transactions, u # t PROVE BookOK(u)'
  <2>1. u # None
    BY LedgerAssumption
  <2>2. BookOK(u)
    BY DEF IInv
  <2>3. \A k \in Handlers : req'[k].tx = u => req'[k] = req[k]
    BY <1>1, <1>5, <2>1
  <2>4. \A k \in Handlers : req[k].tx = u => req'[k] = req[k]
    BY <1>1, <1>5, <2>1
  <2>5. u \notin disturbed' => u \notin disturbed
    OBVIOUS
  <2>. QED  BY <1>3, <1>5, <2>2, <2>3, <2>4, <2>5 DEF BookOK, Halfway, Resting, Midway, AtRest, Open
<1>. QED  BY <1>1, <1>2, <1>4, <1>5 DEF IInv

LEMMA OthersStay ==
  ASSUME IInv, UNCHANGED <<wallet, lost, pressed, faults>>
  PROVE  Others
BY DEF IInv, TypeOK, Others

-------------------------------------------------------------------------------
(* The inductive invariant: what starts a request.                         *)

LEMMA StartsInv ==
  ASSUME IInv, NEW h \in Handlers, NEW t \in Transactions, NEW at \in Steps \ {"idle"},
         Starts(h, t, at), UNCHANGED <<wallet, lost, pressed, faults>>,
         RequestOK([at |-> at, tx |-> t, seen |-> 0]),
         NEW s \in Statuses, Touches(t, s, entries[t], applied[t]),
         t \notin disturbed' /\ (\A k \in Handlers : req[k].tx # t) => Midway(at, t, s, entries[t], applied[t])
  PROVE  IInv'
<1> DEFINE r == [at |-> at, tx |-> t, seen |-> 0]
<1>1. r \in Requests
  BY DEF Requests
<1>2. entries[t] \in Nat /\ applied[t] \in Nat
  BY DEF IInv, TypeOK
<1>3. req[h].tx = None
  BY DEF IInv, RequestOK, Starts
<1>4. /\ disturbed \subseteq disturbed' /\ disturbed' \subseteq disturbed \cup {t}
      /\ t \notin disturbed' => \A k \in Handlers : req[k].tx # t
  BY DEF Starts
<1>5. Others
  BY OthersStay
<1>6. r.tx = t /\ r.at = at /\ t # None
  BY LedgerAssumption
<1>7. req' = [req EXCEPT ![h] = r] /\ RequestOK(r)
  BY DEF Starts
<1> HIDE DEF r
<1>. QED  BY ZenonT(60), <1>1, <1>2, <1>3, <1>4, <1>5, <1>6, <1>7, Advance

\* Kinds are disjoint where it matters.
LEMMA Kinds ==
  /\ \A t \in Reviewed : t \notin Directs /\ t \notin Commissions
  /\ \A t \in Withdrawals : t \in Reviewed /\ t \notin Directs
  /\ \A t \in Commissions : t \notin Directs /\ t \notin Reviewed /\ t \notin Withdrawals
  /\ \A t \in Directs : t \notin Reviewed /\ t \notin Withdrawals
BY LedgerAssumption DEF Reviewed

LEMMA RequestInv == ASSUME IInv, NEW h \in Handlers, Request(h) PROVE IInv'
<1>. USE DEF Steps, Settled, Statuses
<1>1. \A t \in Transactions : t # None /\ (\A at : [at |-> at, tx |-> t, seen |-> 0].tx = t)
  BY LedgerAssumption
<1>2. ASSUME NEW t \in Withdrawals, AskWithdrawal(h, t) PROVE IInv'
  <2>1. t \in Transactions
    BY KindsAreTransactions
  <2>2. Touches(t, "none", entries[t], applied[t])
    BY <1>2, <2>1, TouchesNothing DEF AskWithdrawal
  <2>3. RequestOK([at |-> "request", tx |-> t, seen |-> 0])
    BY <1>1, <2>1 DEF RequestOK
  <2>4. t \notin disturbed' => Midway("request", t, "none", entries[t], applied[t])
    <3>1. t \notin disturbed' => t \notin disturbed
      BY <1>2 DEF AskWithdrawal, Starts
    <3>. QED  BY <1>2, <2>1, <3>1 DEF AskWithdrawal, IInv, BookOK, Resting, AtRest, Midway
  <2>. QED  BY <1>2, <2>1, <2>2, <2>3, <2>4, StartsInv DEF AskWithdrawal
<1>3. ASSUME NEW t \in Directs, InsertDirect(h, t) PROVE IInv'
  <2>1. t \in Transactions
    BY KindsAreTransactions
  <2>2. Touches(t, "approved", entries[t], applied[t])
    BY <1>3, <2>1 DEF InsertDirect, Touches, IInv, TypeOK
  <2>3. RequestOK([at |-> "read", tx |-> t, seen |-> 0])
    BY <1>1, <2>1 DEF RequestOK
  <2>4. t \notin disturbed' /\ (\A k \in Handlers : req[k].tx # t)
          => Midway("read", t, "approved", entries[t], applied[t])
    <3>1. t \notin disturbed' => t \notin disturbed
      BY <1>3 DEF InsertDirect, Starts
    <3>. QED  BY <1>3, <2>1, <3>1 DEF InsertDirect, IInv, BookOK, Resting, AtRest, Midway, Open
  <2>. QED  BY <1>3, <2>1, <2>2, <2>3, <2>4, StartsInv DEF InsertDirect
<1>4. ASSUME NEW t \in Commissions, InsertCommission(h, t) PROVE IInv'
  <2>1. t \in Transactions
    BY KindsAreTransactions
  <2>2. Touches(t, "pending", entries[t], applied[t])
    BY <1>4, <2>1 DEF InsertCommission, Touches, IInv, TypeOK
  <2>3. RequestOK([at |-> "read", tx |-> t, seen |-> 0])
    BY <1>1, <2>1 DEF RequestOK
  <2>4. t \notin disturbed' /\ (\A k \in Handlers : req[k].tx # t)
          => Midway("read", t, "pending", entries[t], applied[t])
    <3>1. t \notin disturbed' => t \notin disturbed
      BY <1>4 DEF InsertCommission, Starts
    <3>. QED  BY <1>4, <2>1, <3>1, Kinds
         DEF InsertCommission, IInv, BookOK, Resting, AtRest, Midway, Open
  <2>. QED  BY <1>4, <2>1, <2>2, <2>3, <2>4, StartsInv DEF InsertCommission
<1>5. ASSUME NEW t \in Reviewed, Approve(h, t) PROVE IInv'
  <2> DEFINE at == IF t \in Withdrawals THEN "check" ELSE "read"
  <2>1. t \in Transactions
    BY KindsAreTransactions
  <2>2. Touches(t, "pending", entries[t], applied[t])
    BY <1>5, <2>1, TouchesNothing DEF Approve
  <2>3. RequestOK([at |-> at, tx |-> t, seen |-> 0])
    BY <1>1, <2>1 DEF RequestOK
  <2>4. t \notin disturbed' /\ (\A k \in Handlers : req[k].tx # t)
          => Midway(at, t, "pending", entries[t], applied[t])
    <3>1. t \notin disturbed' => t \notin disturbed
      BY <1>5 DEF Approve, Starts
    <3>. QED  BY <1>5, <2>1, <3>1, Kinds DEF Approve, IInv, BookOK, Resting, AtRest, Midway, Open
  <2>. QED  BY <1>5, <2>1, <2>2, <2>3, <2>4, StartsInv DEF Approve
<1>6. ASSUME NEW t \in Reviewed, Reject(h, t) PROVE IInv'
  <2>1. t \in Transactions
    BY KindsAreTransactions
  <2>2. Touches(t, "pending", entries[t], applied[t])
    BY <1>6, <2>1, TouchesNothing DEF Reject
  <2>3. RequestOK([at |-> "reject", tx |-> t, seen |-> 0])
    BY <1>1, <2>1 DEF RequestOK
  <2>4. t \notin disturbed' /\ (\A k \in Handlers : req[k].tx # t)
          => Midway("reject", t, "pending", entries[t], applied[t])
    <3>1. t \notin disturbed' => t \notin disturbed
      BY <1>6 DEF Reject, Starts
    <3>. QED  BY <1>6, <2>1, <3>1, Kinds DEF Reject, IInv, BookOK, Resting, AtRest, Midway, Open
  <2>. QED  BY <1>6, <2>1, <2>2, <2>3, <2>4, StartsInv DEF Reject
<1>. QED  BY <1>2, <1>3, <1>4, <1>5, <1>6 DEF Request

-------------------------------------------------------------------------------
(* The inductive invariant: a request's further statements.                *)

LEMMA AtWork ==
  ASSUME IInv, NEW h \in Handlers, req[h].at # "idle"
  PROVE  /\ req[h].tx \in Transactions /\ RequestOK(req[h])
         /\ status[req[h].tx] \in Statuses /\ entries[req[h].tx] \in Nat /\ applied[req[h].tx] \in Nat
         /\ req[h].tx \notin disturbed =>
              /\ \A k \in Handlers : k # h => req[k].tx # req[h].tx
              /\ Midway(req[h].at, req[h].tx, status[req[h].tx], entries[req[h].tx], applied[req[h].tx])
<1>1. req[h] \in Requests /\ RequestOK(req[h])
  BY DEF IInv, TypeOK
<1>2. req[h].tx \in Transactions
  BY <1>1 DEF Requests, RequestOK
<1>3. BookOK(req[h].tx)
  BY <1>2 DEF IInv
<1>. QED  BY <1>1, <1>2, <1>3 DEF IInv, TypeOK, BookOK, Halfway

\* The request goes on, or ends.
LEMMA FurtherInv ==
  ASSUME IInv, Others, NEW h \in Handlers, req[h].at # "idle", disturbed' = disturbed,
         NEW t \in Transactions, t = req[h].tx,
         NEW s \in Statuses, NEW e \in Nat, NEW a \in Nat, Touches(t, s, e, a),
         NEW r \in Requests, RequestOK(r), req' = [req EXCEPT ![h] = r], r.tx \in {t, None},
         Halfway(req[h].at, t) => /\ r.tx = t => Midway(r.at, t, s, e, a)
                                  /\ r.tx = None => AtRest(s, e, a)
  PROVE  IInv'
<1>1. t \notin disturbed => (\A k \in Handlers : k # h => req[k].tx # t) /\ Halfway(req[h].at, t)
  BY AtWork DEF Halfway
<1>2. disturbed \subseteq disturbed' /\ disturbed' \subseteq disturbed \cup {t}
  OBVIOUS
<1>3. t \notin disturbed' => /\ \A k \in Handlers : k # h => req[k].tx # t
                             /\ r.tx = t => Midway(r.at, t, s, e, a)
                             /\ r.tx = None => AtRest(s, e, a)
  BY <1>1
<1>4. req[h].tx \in {t, None}
  OBVIOUS
<1>. QED  BY ZenonT(60), <1>2, <1>3, <1>4, Advance

LEMMA MovedFields ==
  ASSUME NEW r, NEW at
  PROVE  Moved(r, at).at = at /\ Moved(r, at).tx = r.tx /\ Moved(r, at).seen = r.seen
BY DEF Moved

LEMMA ReviewInv ==
  ASSUME IInv, NEW h \in Handlers, InsertWithdrawal(h) \/ CheckFunds(h) \/ MarkRejected(h)
  PROVE  IInv'
<1>1. req[h].at # "idle"
  BY DEF InsertWithdrawal, CheckFunds, MarkRejected
<1>0. PICK t \in Transactions : t = req[h].tx
  BY <1>1, AtWork
<1>2. /\ t \in Transactions /\ t = req[h].tx /\ RequestOK(req[h]) /\ t # None
      /\ status[t] \in Statuses /\ entries[t] \in Nat /\ applied[t] \in Nat
  BY <1>0, <1>1, AtWork, LedgerAssumption
<1>3. Others /\ disturbed' = disturbed
  BY OthersStay DEF InsertWithdrawal, CheckFunds, MarkRejected
<1>4. CASE InsertWithdrawal(h)
  <2>1. Touches(t, "pending", entries[t], applied[t]) /\ req' = [req EXCEPT ![h] = Idle]
    BY <1>2, <1>4 DEF InsertWithdrawal, Touches, Ends, IInv, TypeOK
  <2>2. Halfway(req[h].at, t) => AtRest("pending", entries[t], applied[t])
    BY <1>2, <1>4 DEF InsertWithdrawal, Halfway, Midway, AtRest
  <2>3. "pending" \in Statuses
    BY DEF Statuses
  <2>. QED  BY <1>1, <1>2, <1>3, <2>1, <2>2, <2>3, IdleIsRequest, FurtherInv
<1>5. CASE MarkRejected(h)
  <2>1. Touches(t, "rejected", entries[t], applied[t]) /\ req' = [req EXCEPT ![h] = Idle]
    BY <1>2, <1>5 DEF MarkRejected, Touches, Ends, IInv, TypeOK
  <2>2. Halfway(req[h].at, t) => AtRest("rejected", entries[t], applied[t])
    BY <1>2, <1>5 DEF MarkRejected, Halfway, Midway, AtRest
  <2>3. "rejected" \in Statuses
    BY DEF Statuses, Settled
  <2>. QED  BY <1>1, <1>2, <1>3, <2>1, <2>2, <2>3, IdleIsRequest, FurtherInv
<1>6. CASE CheckFunds(h)
  <2>1. Touches(t, status[t], entries[t], applied[t])
    BY <1>2, <1>6, TouchesNothing DEF CheckFunds
  <2>2. t \in Withdrawals /\ Open(t) = "pending"
    BY <1>2, <1>6, Kinds DEF CheckFunds, RequestOK, Open
  <2>3. CASE Ends(h)
    <3>1. req' = [req EXCEPT ![h] = Idle]
      BY <2>3 DEF Ends
    <3>2. Halfway(req[h].at, t) => AtRest(status[t], entries[t], applied[t])
      BY <1>2, <1>6, <2>2 DEF CheckFunds, Halfway, Midway, AtRest
    <3>. QED  BY <1>1, <1>2, <1>3, <2>1, <3>1, <3>2, IdleIsRequest, FurtherInv
  <2>4. CASE Goes(h, "read")
    <3>1. req' = [req EXCEPT ![h] = Moved(req[h], "read")] /\ Moved(req[h], "read") \in Requests
      BY <2>4, GoesStep DEF Steps
    <3>2. PICK r \in Requests : r = Moved(req[h], "read")
      BY <3>1
    <3>3. r.at = "read" /\ r.tx = t
      BY <1>2, <3>2, MovedFields
    <3>4. RequestOK(r)
      BY <3>3, <1>2 DEF RequestOK
    <3>5. Halfway(req[h].at, t) => Midway(r.at, t, status[t], entries[t], applied[t])
      BY <1>2, <1>6, <3>3 DEF CheckFunds, Halfway, Midway
    <3>. QED  BY ZenonT(60), <1>1, <1>2, <1>3, <2>1, <3>1, <3>2, <3>3, <3>4, <3>5, FurtherInv
  <2>. QED  BY <1>2, <1>6, <2>3, <2>4 DEF CheckFunds
<1>. QED  BY <1>4, <1>5, <1>6

LEMMA BooksInv == ASSUME IInv, NEW h \in Handlers, Books(h) PROVE IInv'
<1>1. req[h].at # "idle" /\ disturbed' = disturbed
  BY DEF Books, ReadBalance, InsertEntry, StoreBalance, Complete
<1>0. PICK t \in Transactions : t = req[h].tx
  BY <1>1, AtWork
<1>2. /\ t \in Transactions /\ t = req[h].tx /\ RequestOK(req[h]) /\ t # None
      /\ status[t] \in Statuses /\ entries[t] \in Nat /\ applied[t] \in Nat
      /\ req[h] \in Requests
  BY <1>0, <1>1, AtWork, LedgerAssumption DEF IInv, TypeOK
<1>3. wallet \in [available : Int, locked : Nat] /\ lost \in BOOLEAN /\ pressed \in BOOLEAN
  BY DEF IInv, TypeOK
<1>4. CASE ReadBalance(h)
  <2>1. Touches(t, status[t], entries[t], applied[t]) /\ Others
    BY <1>2, <1>4, TouchesNothing, OthersStay DEF ReadBalance
  <2>2. PICK r \in Requests : r = [at |-> "insert", tx |-> t, seen |-> wallet.available]
    BY <1>2, <1>3 DEF Requests, Steps
  <2>3. req' = [req EXCEPT ![h] = r]
    BY <1>2, <1>4, <2>2 DEF ReadBalance, IInv, TypeOK
  <2>4. RequestOK(r) /\ r.tx = t /\ r.at = "insert"
    BY <1>2, <2>2 DEF RequestOK
  <2>5. Halfway(req[h].at, t) => Midway(r.at, t, status[t], entries[t], applied[t])
    BY <1>4, <2>4 DEF ReadBalance, Halfway, Midway
  <2>6. /\ r.tx \in {t, None}
        /\ Halfway(req[h].at, t) => /\ r.tx = t => Midway(r.at, t, status[t], entries[t], applied[t])
                                    /\ r.tx = None => AtRest(status[t], entries[t], applied[t])
    BY <1>2, <2>4, <2>5
  <2>. QED  BY <1>1, <1>2, <2>1, <2>2, <2>3, <2>4, <2>6, FurtherInv
<1>5. CASE InsertEntry(h)
  <2>1. Touches(t, status[t], entries[t] + 1, applied[t]) /\ Others
    BY <1>2, <1>5, OthersStay DEF InsertEntry, Touches, IInv, TypeOK
  <2>2. req' = [req EXCEPT ![h] = Moved(req[h], "store")] /\ Moved(req[h], "store") \in Requests
    BY <1>5, GoesStep DEF InsertEntry, Steps
  <2>3. PICK r \in Requests : r = Moved(req[h], "store")
    BY <2>2
  <2>4. r.at = "store" /\ r.tx = t
    BY <1>2, <2>3, MovedFields
  <2>5. RequestOK(r)
    BY <1>2, <2>4 DEF RequestOK
  <2>6. Halfway(req[h].at, t) => Midway(r.at, t, status[t], entries[t] + 1, applied[t])
    BY <1>5, <2>4 DEF InsertEntry, Halfway, Midway
  <2>7. entries[t] + 1 \in Nat
    BY <1>2
  <2>. QED  BY ZenonT(60), <1>1, <1>2, <2>1, <2>2, <2>3, <2>4, <2>5, <2>6, <2>7, FurtherInv
<1>6. CASE StoreBalance(h)
  <2>1. Touches(t, status[t], entries[t], applied[t] + 1)
    BY <1>2, <1>6 DEF StoreBalance, Touches, IInv, TypeOK
  <2>2. Amount[t] \in Nat /\ req[h].seen \in Int
    BY <1>2, LedgerAssumption DEF Requests
  <2>3. req[h].seen + Delta(t) \in Int
    BY <2>2 DEF Delta
  <2>4. Others
    <3>1. wallet' \in [available : Int, locked : Nat]
      BY <1>2, <1>3, <1>6, <2>3 DEF StoreBalance
    <3>2. lost' \in BOOLEAN /\ pressed' \in BOOLEAN /\ faults' = faults
      BY <1>3, <1>6 DEF StoreBalance, Presses
    <3>. QED  BY <3>1, <3>2 DEF Others
  <2>5. applied[t] + 1 \in Nat
    BY <1>2
  <2>6. CASE t \in Directs
    <3>1. req' = [req EXCEPT ![h] = Idle]
      BY <1>2, <1>6, <2>6 DEF StoreBalance, Ends
    <3>2. Halfway(req[h].at, t) => AtRest(status[t], entries[t], applied[t] + 1)
      BY <1>6, <2>6 DEF StoreBalance, Halfway, Midway, AtRest, Open
    <3>. QED  BY <1>1, <1>2, <2>1, <2>4, <2>5, <3>1, <3>2, IdleIsRequest, FurtherInv
  <2>7. CASE t \notin Directs
    <3>1. Goes(h, "complete")
      BY <1>2, <1>6, <2>7 DEF StoreBalance
    <3>2. req' = [req EXCEPT ![h] = Moved(req[h], "complete")] /\ Moved(req[h], "complete") \in Requests
      BY <3>1, GoesStep DEF Steps
    <3>3. PICK r \in Requests : r = Moved(req[h], "complete")
      BY <3>2
    <3>4. r.at = "complete" /\ r.tx = t
      BY <1>2, <3>3, MovedFields
    <3>5. RequestOK(r)
      BY <1>2, <2>7, <3>4 DEF RequestOK
    <3>6. Halfway(req[h].at, t) => Midway(r.at, t, status[t], entries[t], applied[t] + 1)
      BY <1>6, <3>4 DEF StoreBalance, Halfway, Midway
    <3>7. /\ r.tx \in {t, None}
          /\ Halfway(req[h].at, t) =>
               /\ r.tx = t => Midway(r.at, t, status[t], entries[t], applied[t] + 1)
               /\ r.tx = None => AtRest(status[t], entries[t], applied[t] + 1)
      BY <1>2, <3>4, <3>6
    <3>8. req' = [req EXCEPT ![h] = r]
      BY <3>2, <3>3
    <3>9. t = req[h].tx /\ status[t] \in Statuses /\ entries[t] \in Nat
      BY <1>2
    <3>. QED  BY <1>1, <2>1, <2>4, <2>5, <3>5, <3>7, <3>8, <3>9, FurtherInv
  <2>. QED  BY <2>6, <2>7
<1>7. CASE Complete(h)
  <2>1. Touches(t, "completed", entries[t], applied[t]) /\ req' = [req EXCEPT ![h] = Idle] /\ Others
    BY <1>2, <1>7, OthersStay DEF Complete, Touches, Ends, IInv, TypeOK
  <2>2. Halfway(req[h].at, t) => AtRest("completed", entries[t], applied[t])
    BY <1>7 DEF Complete, Halfway, Midway, AtRest
  <2>3. "completed" \in Statuses
    BY DEF Statuses, Settled
  <2>. QED  BY <1>1, <1>2, <2>1, <2>2, <2>3, IdleIsRequest, FurtherInv
<1>. QED  BY <1>4, <1>5, <1>6, <1>7 DEF Books

-------------------------------------------------------------------------------
(* The inductive invariant: the other steps.                               *)

LEMMA RequestDepositInv == ASSUME IInv, NEW t \in Deposits, RequestDeposit(t) PROVE IInv'
<1>1. t \in Transactions /\ t # None /\ t \notin Withdrawals /\ t \notin Directs
  BY LedgerAssumption DEF RequestDeposit, Transactions
<1>2. Touches(t, "pending", entries[t], applied[t])
  BY <1>1 DEF RequestDeposit, Touches, IInv, TypeOK
<1>3. TypeOK'
  BY <1>1 DEF RequestDeposit, IInv, TypeOK, Statuses
<1>4. BookOK(t)'
  <2>1. BookOK(t)
    BY <1>1 DEF IInv
  <2>2. t \notin disturbed => \A h \in Handlers : req[h].tx # t
    <3>1. ASSUME t \notin disturbed, NEW h \in Handlers, req[h].tx = t PROVE FALSE
      <4>1. Halfway(req[h].at, t)
        BY <2>1, <3>1 DEF BookOK
      <4>2. req[h].at = "request"
        BY <1>1, <4>1 DEF RequestDeposit, Halfway, Midway, Open
      <4>. QED  BY <1>1, <3>1, <4>2 DEF IInv, RequestOK
    <3>. QED  BY <3>1
  <2>3. t \notin disturbed => AtRest("pending", entries[t], applied[t])
    BY <2>1, <2>2 DEF BookOK, Resting, AtRest, RequestDeposit
  <2>4. status'[t] = "pending" /\ UNCHANGED <<entries, applied, req, disturbed>>
    BY <1>1 DEF RequestDeposit, IInv, TypeOK
  <2>. QED  BY <2>2, <2>3, <2>4 DEF BookOK, Halfway, Resting, Midway, AtRest
<1>5. ASSUME NEW u \in Transactions, u # t PROVE BookOK(u)'
  <2>1. status'[u] = status[u]
    BY <1>1, <1>5 DEF RequestDeposit, IInv, TypeOK
  <2>. QED  BY <1>5, <2>1 DEF RequestDeposit, IInv, BookOK, Halfway, Resting, Midway, AtRest, Open
<1>6. \A h \in Handlers : RequestOK(req[h])'
  BY DEF IInv, RequestDeposit, RequestOK
<1>. QED  BY <1>3, <1>4, <1>5, <1>6 DEF IInv

LEMMA QuietInv ==
  ASSUME IInv, Others, UNCHANGED <<status, entries, req, applied, disturbed>>
  PROVE  IInv'
<1>1. TypeOK'
  BY DEF IInv, TypeOK, Others
<1>2. \A t \in Transactions : BookOK(t)'
  BY DEF IInv, BookOK, Halfway, Resting, Midway, AtRest, Open
<1>3. \A h \in Handlers : RequestOK(req[h])'
  BY DEF IInv, RequestOK
<1>. QED  BY <1>1, <1>2, <1>3 DEF IInv

LEMMA MarginInv == ASSUME IInv, LockMargin \/ UnlockMargin PROVE IInv'
<1>1. wallet.available \in Int /\ wallet.locked \in Nat /\ Margin \in Nat
  BY LedgerAssumption DEF IInv, TypeOK
<1>2. CASE LockMargin
  <2>1. wallet' \in [available : Int, locked : Nat]
    BY <1>1, <1>2 DEF LockMargin
  <2>2. lost' \in BOOLEAN /\ pressed' \in BOOLEAN /\ faults' = faults
    BY <1>2 DEF LockMargin, Presses, IInv, TypeOK
  <2>. QED  BY <1>2, <2>1, <2>2, QuietInv DEF LockMargin, Others
<1>3. CASE UnlockMargin
  <2>1. wallet' \in [available : Int, locked : Nat]
    BY <1>1, <1>3 DEF UnlockMargin
  <2>2. lost' \in BOOLEAN /\ pressed' \in BOOLEAN /\ faults' = faults
    BY <1>3 DEF UnlockMargin, IInv, TypeOK
  <2>. QED  BY <1>3, <2>1, <2>2, QuietInv DEF UnlockMargin, Others
<1>. QED  BY <1>2, <1>3

LEMMA CutOffInv == ASSUME IInv, NEW cut \in SUBSET Handlers, CutOff(cut) PROVE IInv'
<1>1. \A h \in Handlers : req'[h] = IF h \in cut THEN Idle ELSE req[h]
  BY DEF CutOff
<1>2. req' \in [Handlers -> Requests]
  BY IdleIsRequest DEF CutOff, IInv, TypeOK
<1>3. \A h \in cut : req[h].tx \in Transactions
  BY AtWork DEF CutOff
<1>4. TypeOK'
  <2>1. disturbed' \subseteq Transactions
    BY <1>3 DEF CutOff, IInv, TypeOK
  <2>2. faults' \in 0..MaxFaults
    BY LedgerAssumption DEF CutOff, IInv, TypeOK
  <2>. QED  BY <1>2, <2>1, <2>2 DEF CutOff, IInv, TypeOK
<1>5. \A h \in Handlers : RequestOK(req'[h])
  BY <1>1, IdleIsRequest DEF IInv
<1>6. ASSUME NEW t \in Transactions PROVE BookOK(t)'
  <2>1. t # None
    BY LedgerAssumption
  <2>2. t \notin disturbed' => t \notin disturbed /\ \A h \in cut : req[h].tx # t
    BY DEF CutOff
  <2>3. t \notin disturbed' =>
          \A h \in Handlers : /\ req'[h].tx = t => req'[h] = req[h]
                              /\ req[h].tx = t => req'[h] = req[h]
    BY <1>1, <2>1, <2>2, IdleIsRequest
  <2>4. BookOK(t)
    BY DEF IInv
  <2>. QED  BY <2>2, <2>3, <2>4 DEF CutOff, BookOK, Halfway, Resting, Midway, AtRest, Open
<1>. QED  BY <1>4, <1>5, <1>6 DEF IInv

LEMMA InitInv == Init => IInv
<1>. SUFFICES ASSUME Init PROVE IInv
  OBVIOUS
<1>1. \A h \in Handlers : req[h] = Idle
  BY DEF Init
<1>2. TypeOK
  <2>1. wallet \in [available : Int, locked : Nat] /\ faults \in 0..MaxFaults
    BY LedgerAssumption DEF Init
  <2>2. req \in [Handlers -> Requests]
    BY IdleIsRequest DEF Init
  <2>3. /\ status \in [Transactions -> Statuses]
        /\ entries \in [Transactions -> Nat] /\ applied \in [Transactions -> Nat]
    BY DEF Init, Statuses
  <2>. QED  BY <2>1, <2>2, <2>3 DEF Init, TypeOK
<1>3. \A t \in Transactions : BookOK(t)
  BY <1>1, IdleIsRequest, LedgerAssumption DEF Init, BookOK, Resting, AtRest
<1>. QED  BY <1>1, <1>2, <1>3, IdleIsRequest DEF IInv

LEMMA StepInv == IInv /\ [Next]_vars => IInv'
<1>. SUFFICES ASSUME IInv, [Next]_vars PROVE IInv'
  OBVIOUS
<1>1. CASE UNCHANGED vars
  BY <1>1, OthersStay, QuietInv DEF vars
<1>2. CASE Next
  BY <1>2, RequestInv, ReviewInv, BooksInv, RequestDepositInv, MarginInv, CutOffInv DEF Next
<1>. QED  BY <1>1, <1>2

-------------------------------------------------------------------------------
(* What is settled stays so.                                               *)

Untouched(t) == /\ \A k \in Handlers : req'[k].tx # t
                /\ status'[t] = status[t] /\ entries'[t] = entries[t] /\ applied'[t] = applied[t]

\* A step for another transaction u.
LEMMA Elsewhere ==
  ASSUME IInv, NEW t \in Transactions, Closed(t), NEW h \in Handlers, NEW u \in Transactions, u # t,
         req'[h].tx \in {u, None}, \A k \in Handlers : k # h => req'[k] = req[k],
         \E s, e, a : Touches(u, s, e, a)
  PROVE  Untouched(t)
<1>1. t # None
  BY LedgerAssumption
<1>2. \A k \in Handlers : req[k].tx # t
  BY DEF Closed, At
<1>3. status'[t] = status[t] /\ entries'[t] = entries[t] /\ applied'[t] = applied[t]
  BY DEF Touches, IInv, TypeOK
<1>. QED  BY <1>1, <1>2, <1>3 DEF Untouched

LEMMA ClosedRequest ==
  ASSUME IInv, NEW t \in Transactions, Closed(t), NEW h \in Handlers, Request(h)
  PROVE  Untouched(t)
<1>1. PICK u \in Transactions, at \in Steps :
         /\ Starts(h, u, at) /\ status[u] \in {"none", "pending"}
         /\ \E s \in Statuses : Touches(u, s, entries[u], applied[u])
  <2>1. ASSUME NEW u \in Withdrawals, AskWithdrawal(h, u)
        PROVE  Starts(h, u, "request") /\ status[u] = "none" /\ UNCHANGED <<status, entries, applied>>
    BY <2>1 DEF AskWithdrawal
  <2>2. ASSUME NEW u \in Directs, InsertDirect(h, u)
        PROVE  /\ Starts(h, u, "read") /\ status[u] = "none"
               /\ status' = [status EXCEPT ![u] = "approved"] /\ UNCHANGED <<entries, applied>>
    BY <2>2 DEF InsertDirect
  <2>3. ASSUME NEW u \in Commissions, InsertCommission(h, u)
        PROVE  /\ Starts(h, u, "read") /\ status[u] = "none"
               /\ status' = [status EXCEPT ![u] = "pending"] /\ UNCHANGED <<entries, applied>>
    BY <2>3 DEF InsertCommission
  <2>4. ASSUME NEW u \in Reviewed, Approve(h, u) \/ Reject(h, u)
        PROVE  /\ \E at \in Steps : Starts(h, u, at)
               /\ status[u] = "pending" /\ UNCHANGED <<status, entries, applied>>
    BY <2>4 DEF Approve, Reject, Steps
  <2>5. \A u \in Transactions : UNCHANGED <<entries, applied>> =>
          entries' = [entries EXCEPT ![u] = entries[u]] /\ applied' = [applied EXCEPT ![u] = applied[u]]
    BY DEF IInv, TypeOK
  <2>6. \A u \in Transactions : UNCHANGED status => status' = [status EXCEPT ![u] = status[u]]
    BY DEF IInv, TypeOK
  <2>7. \A u \in Transactions : status[u] \in Statuses
    BY DEF IInv, TypeOK
  <2>8. "request" \in Steps /\ "read" \in Steps /\ "approved" \in Statuses /\ "pending" \in Statuses
    BY DEF Steps, Statuses, Settled
  <2>. QED  BY <2>1, <2>2, <2>3, <2>4, <2>5, <2>6, <2>7, <2>8, KindsAreTransactions DEF Request, Touches
<1>2. \E s, e, a : Touches(u, s, e, a)
  BY <1>1
<1>3. u # t
  BY <1>1 DEF Closed, Settled
<1>4. req'[h].tx = u /\ \A k \in Handlers : k # h => req'[k] = req[k]
  BY <1>1 DEF Starts, IInv, TypeOK
<1>. QED  BY <1>1, <1>2, <1>3, <1>4, Elsewhere

LEMMA ClosedFurther ==
  ASSUME IInv, NEW t \in Transactions, Closed(t), NEW h \in Handlers,
         Books(h) \/ InsertWithdrawal(h) \/ CheckFunds(h) \/ MarkRejected(h)
  PROVE  Untouched(t)
<1>1. req[h].at # "idle"
  BY DEF Books, ReadBalance, InsertEntry, StoreBalance, Complete,
         InsertWithdrawal, CheckFunds, MarkRejected
<1>2. PICK u \in Transactions : u = req[h].tx
  BY <1>1, AtWork
<1>3. u # t
  BY <1>2 DEF Closed, At
<1>4. req'[h].tx \in {u, None} /\ \A k \in Handlers : k # h => req'[k] = req[k]
  <2>1. ASSUME Ends(h) PROVE req'[h].tx = None /\ \A k \in Handlers : k # h => req'[k] = req[k]
    BY <2>1, IdleIsRequest DEF Ends, IInv, TypeOK
  <2>2. ASSUME NEW at \in Steps, Goes(h, at)
        PROVE  req'[h].tx = u /\ \A k \in Handlers : k # h => req'[k] = req[k]
    BY <1>2, <2>2, GoesStep, MovedFields DEF IInv, TypeOK
  <2>3. ASSUME ReadBalance(h)
        PROVE  req'[h].tx = u /\ \A k \in Handlers : k # h => req'[k] = req[k]
    BY <1>2, <2>3 DEF ReadBalance, IInv, TypeOK
  <2>4. Ends(h) \/ Goes(h, "read") \/ Goes(h, "store") \/ Goes(h, "complete") \/ ReadBalance(h)
    BY DEF Books, InsertEntry, StoreBalance, Complete, InsertWithdrawal, CheckFunds, MarkRejected
  <2>5. {"read", "store", "complete"} \subseteq Steps
    BY DEF Steps
  <2>. QED  BY <2>1, <2>2, <2>3, <2>4, <2>5
<1>5. \E s, e, a : Touches(u, s, e, a)
  <2>1. /\ \E s : status' = [status EXCEPT ![u] = s]
        /\ \E e : entries' = [entries EXCEPT ![u] = e]
        /\ \E a : applied' = [applied EXCEPT ![u] = a]
    <3>1. status = [status EXCEPT ![u] = status[u]] /\ entries = [entries EXCEPT ![u] = entries[u]]
          /\ applied = [applied EXCEPT ![u] = applied[u]]
      BY DEF IInv, TypeOK
    <3>2. \E s : status' = [status EXCEPT ![u] = s]
      BY <1>2, <3>1 DEF Books, ReadBalance, InsertEntry, StoreBalance, Complete,
                        InsertWithdrawal, CheckFunds, MarkRejected
    <3>3. \E e : entries' = [entries EXCEPT ![u] = e]
      BY <1>2, <3>1 DEF Books, ReadBalance, InsertEntry, StoreBalance, Complete,
                        InsertWithdrawal, CheckFunds, MarkRejected
    <3>4. \E a : applied' = [applied EXCEPT ![u] = a]
      BY <1>2, <3>1 DEF Books, ReadBalance, InsertEntry, StoreBalance, Complete,
                        InsertWithdrawal, CheckFunds, MarkRejected
    <3>. QED  BY <3>2, <3>3, <3>4
  <2>. QED  BY <2>1 DEF Touches
<1>. QED  BY <1>2, <1>3, <1>4, <1>5, Elsewhere

LEMMA ClosedStep ==
  ASSUME IInv, [Next]_vars, NEW t \in Transactions, Closed(t)
  PROVE  Closed(t)' /\ status'[t] = status[t] /\ entries'[t] = entries[t] /\ applied'[t] = applied[t]
<1>1. \A k \in Handlers : req[k].tx # t
  BY DEF Closed, At
<1>2. ASSUME UNCHANGED <<status, entries, req, applied>> PROVE Untouched(t)
  BY <1>1, <1>2 DEF Untouched
<1>3. ASSUME NEW u \in Deposits, RequestDeposit(u) PROVE Untouched(t)
  <2>1. u # t
    BY <1>3 DEF RequestDeposit, Closed, Settled
  <2>. QED  BY <1>1, <1>3, <2>1 DEF RequestDeposit, Untouched, IInv, TypeOK
<1>4. ASSUME NEW cut \in SUBSET Handlers, CutOff(cut) PROVE Untouched(t)
  <2>1. t # None
    BY LedgerAssumption
  <2>. QED  BY <1>1, <1>4, <2>1, IdleIsRequest DEF CutOff, Untouched
<1>5. Untouched(t)
  BY <1>2, <1>3, <1>4, ClosedRequest, ClosedFurther DEF Next, vars, LockMargin, UnlockMargin
<1>. QED  BY <1>5 DEF Untouched, Closed, At

-------------------------------------------------------------------------------
(* What a withdrawal found sufficient stays so.                            *)

SufficientFor(r, available) ==
  /\ r.at \in {"insert", "store"} => r.seen >= 0
  /\ r.tx \in Withdrawals /\ r.at = "read" => available >= Amount[r.tx]
  /\ r.tx \in Withdrawals /\ r.at \in {"insert", "store"} => r.seen >= Amount[r.tx]

\* A request that is not affected.
LEMMA StillSufficient ==
  ASSUME IInv, FundsInv, ~pressed, NEW k \in Handlers, wallet'.available \in Int,
         \/ wallet'.available >= wallet.available
         \/ ~(req[k].at = "read" /\ req[k].tx \in Withdrawals)
  PROVE  SufficientFor(req[k], wallet'.available)
<1>1. Sufficient(req[k])
  BY DEF FundsInv
<1>2. wallet.available \in Int /\ req[k] \in Requests
  BY DEF IInv, TypeOK
<1>3. req[k].tx \in Withdrawals => Amount[req[k].tx] \in Int
  BY KindsAreTransactions, LedgerAssumption
<1>. QED  BY <1>1, <1>2, <1>3 DEF Sufficient, SufficientFor

\* The money stays and one request moves.
LEMMA FundsMoves ==
  ASSUME IInv, FundsInv, UNCHANGED <<wallet, pressed>>, NEW h \in Handlers, NEW r,
         req' = [req EXCEPT ![h] = r], ~pressed => SufficientFor(r, wallet.available)
  PROVE  FundsInv'
<1>. SUFFICES ASSUME ~pressed PROVE /\ wallet'.available >= 0
                                   /\ \A k \in Handlers : SufficientFor(req'[k], wallet'.available)
  BY DEF FundsInv, Sufficient, SufficientFor
<1>1. wallet'.available \in Int /\ wallet'.available >= wallet.available
  BY DEF IInv, TypeOK
<1>2. req'[h] = r /\ \A k \in Handlers : k # h => req'[k] = req[k]
  BY DEF IInv, TypeOK
<1>3. \A k \in Handlers : SufficientFor(req[k], wallet'.available)
  BY <1>1, StillSufficient
<1>. QED  BY <1>2, <1>3 DEF FundsInv

LEMMA IdleSuffices == \A available : SufficientFor(Idle, available)
BY IdleIsRequest DEF SufficientFor

LEMMA FundsRequest == ASSUME IInv, FundsInv, NEW h \in Handlers, Request(h) PROVE FundsInv'
<1>1. UNCHANGED <<wallet, pressed>>
  BY DEF Request, AskWithdrawal, InsertDirect, InsertCommission, Approve, Reject
<1>2. PICK u \in Transactions, at \in Steps :
        Starts(h, u, at) /\ at \in {"request", "check", "read", "reject"} /\ (at = "read" => u \notin Withdrawals)
  <2>1. {"request", "check", "read", "reject"} \subseteq Steps
    BY DEF Steps
  <2>. QED  BY <2>1, Kinds, KindsAreTransactions
            DEF Request, AskWithdrawal, InsertDirect, InsertCommission, Approve, Reject
<1> DEFINE r == [at |-> at, tx |-> u, seen |-> 0]
<1>3. r.tx = u /\ r.at = at
  OBVIOUS
<1>4. req' = [req EXCEPT ![h] = r]
  BY <1>2 DEF Starts
<1> HIDE DEF r
<1>5. SufficientFor(r, wallet.available)
  BY <1>2, <1>3 DEF SufficientFor
<1>. QED  BY <1>1, <1>4, <1>5, FundsMoves

LEMMA FundsFurther ==
  ASSUME IInv, FundsInv, NEW h \in Handlers,
         \/ ReadBalance(h) \/ InsertEntry(h) \/ Complete(h)
         \/ InsertWithdrawal(h) \/ CheckFunds(h) \/ MarkRejected(h)
  PROVE  FundsInv'
<1>1. UNCHANGED <<wallet, pressed>>
  BY DEF ReadBalance, InsertEntry, Complete, InsertWithdrawal, CheckFunds, MarkRejected
<1>2. req[h] \in Requests /\ wallet.available \in Int
  BY DEF IInv, TypeOK
<1>3. CASE Ends(h)
  BY <1>1, <1>3, IdleSuffices, FundsMoves DEF Ends
<1>4. CASE CheckFunds(h) /\ Goes(h, "read")
  <2>1. req' = [req EXCEPT ![h] = Moved(req[h], "read")]
    BY <1>4, GoesStep DEF Steps
  <2>2. Moved(req[h], "read").at = "read" /\ Moved(req[h], "read").tx = req[h].tx
    BY MovedFields
  <2>3. wallet.available >= Amount[req[h].tx]
    <3>1. req[h].at = "check" /\ req[h].at # "idle"
      BY <1>4 DEF CheckFunds
    <3>2. Idle.at = "idle" /\ req' # [req EXCEPT ![h] = Idle]
      BY <2>1, <2>2, IdleIsRequest DEF IInv, TypeOK
    <3>. QED  BY <1>4, <3>2 DEF CheckFunds, Ends
  <2>4. SufficientFor(Moved(req[h], "read"), wallet.available)
    BY <2>2, <2>3 DEF SufficientFor
  <2>. QED  BY <1>1, <2>1, <2>4, FundsMoves
<1>5. CASE ReadBalance(h)
  <2> DEFINE r == [at |-> "insert", tx |-> req[h].tx, seen |-> wallet.available]
  <2>1. r.at = "insert" /\ r.tx = req[h].tx /\ r.seen = wallet.available
    OBVIOUS
  <2>2. req' = [req EXCEPT ![h] = r]
    BY <1>5 DEF ReadBalance, IInv, TypeOK
  <2> HIDE DEF r
  <2>3. ~pressed => SufficientFor(r, wallet.available)
    BY <1>5, <2>1 DEF ReadBalance, FundsInv, Sufficient, SufficientFor
  <2>. QED  BY <1>1, <2>2, <2>3, FundsMoves
<1>6. CASE InsertEntry(h)
  <2>1. req' = [req EXCEPT ![h] = Moved(req[h], "store")]
    BY <1>6, GoesStep DEF InsertEntry, Steps
  <2>2. /\ Moved(req[h], "store").at = "store" /\ Moved(req[h], "store").tx = req[h].tx
        /\ Moved(req[h], "store").seen = req[h].seen
    BY MovedFields
  <2>3. ~pressed => SufficientFor(Moved(req[h], "store"), wallet.available)
    BY <1>6, <2>2 DEF InsertEntry, FundsInv, Sufficient, SufficientFor
  <2>. QED  BY <1>1, <2>1, <2>3, FundsMoves
<1>. QED  BY <1>3, <1>4, <1>5, <1>6 DEF Complete, InsertWithdrawal, CheckFunds, MarkRejected

LEMMA FundsStore == ASSUME IInv, FundsInv, NEW h \in Handlers, StoreBalance(h) PROVE FundsInv'
<1>. SUFFICES ASSUME ~pressed' PROVE /\ wallet'.available >= 0
                                    /\ \A k \in Handlers : SufficientFor(req'[k], wallet'.available)
  BY DEF FundsInv, Sufficient, SufficientFor
<1>1. req[h].at = "store" /\ req[h].at # "idle" /\ ~pressed
  BY DEF StoreBalance, Presses
<1>2. req[h].tx \in Transactions /\ req[h].seen \in Int /\ Amount[req[h].tx] \in Nat
  BY <1>1, AtWork, LedgerAssumption DEF IInv, TypeOK, Requests
<1>3. wallet'.available = req[h].seen + Delta(req[h].tx)
  BY DEF StoreBalance, IInv, TypeOK
<1>4. Sufficient(req[h])
  BY <1>1 DEF FundsInv
<1>5. wallet'.available \in Int /\ wallet'.available >= 0
  BY <1>1, <1>2, <1>3, <1>4 DEF Sufficient, Delta
<1>6. ASSUME NEW k \in Handlers, k # h PROVE SufficientFor(req'[k], wallet'.available)
  <2>1. req'[k] = req[k]
    BY <1>6 DEF StoreBalance, Ends, Goes, IInv, TypeOK
  <2>2. \/ wallet'.available >= wallet.available
        \/ ~(req[k].at = "read" /\ req[k].tx \in Withdrawals)
    <3>1. wallet.available \in Int
      BY DEF IInv, TypeOK
    <3>2. ~(wallet'.available < wallet.available /\ req[k].at = "read" /\ req[k].tx \in Withdrawals)
      BY <1>6 DEF StoreBalance, Presses
    <3>. QED  BY <1>5, <3>1, <3>2
  <2>. QED  BY <1>1, <1>5, <2>1, <2>2, StillSufficient
<1>7. SufficientFor(req'[h], wallet'.available)
  <2>1. CASE Ends(h)
    BY <2>1, IdleSuffices DEF Ends, IInv, TypeOK
  <2>2. CASE Goes(h, "complete")
    <3>1. req' = [req EXCEPT ![h] = Moved(req[h], "complete")]
      BY <2>2, GoesStep DEF Steps
    <3>2. req'[h].at = "complete"
      BY <3>1, MovedFields DEF IInv, TypeOK
    <3>. QED  BY <3>2 DEF SufficientFor
  <2>. QED  BY <2>1, <2>2 DEF StoreBalance
<1>. QED  BY <1>5, <1>6, <1>7

LEMMA FundsMargin == ASSUME IInv, FundsInv, LockMargin \/ UnlockMargin PROVE FundsInv'
<1>. SUFFICES ASSUME ~pressed' PROVE /\ wallet'.available >= 0
                                    /\ \A k \in Handlers : SufficientFor(req'[k], wallet'.available)
  BY DEF FundsInv, Sufficient, SufficientFor
<1>1. wallet.available \in Int /\ wallet.locked \in Nat /\ Margin \in Nat
  BY LedgerAssumption DEF IInv, TypeOK
<1>2. ~pressed /\ req' = req
  <2>1. ASSUME Presses(None) PROVE ~pressed
    BY <2>1 DEF Presses
  <2>. QED  BY <2>1 DEF LockMargin, UnlockMargin
<1>3. wallet.available >= 0
  BY <1>2 DEF FundsInv
<1>4. wallet'.available \in Int /\ wallet'.available >= 0
  BY <1>1, <1>3 DEF LockMargin, UnlockMargin
<1>5. ASSUME NEW k \in Handlers
      PROVE  \/ wallet'.available >= wallet.available
             \/ ~(req[k].at = "read" /\ req[k].tx \in Withdrawals)
  <2>1. CASE LockMargin
    <3>1. k # None
      BY LedgerAssumption
    <3>2. ~(wallet'.available < wallet.available /\ req[k].at = "read" /\ req[k].tx \in Withdrawals)
      BY <2>1, <3>1 DEF LockMargin, Presses
    <3>. QED  BY <1>1, <1>4, <3>2
  <2>2. CASE UnlockMargin
    BY <1>1, <2>2 DEF UnlockMargin
  <2>. QED  BY <2>1, <2>2
<1>. QED  BY <1>2, <1>4, <1>5, StillSufficient

LEMMA FundsStep == ASSUME IInv, FundsInv, [Next]_vars PROVE FundsInv'
<1>1. ASSUME UNCHANGED <<wallet, pressed, req>> PROVE FundsInv'
  BY <1>1 DEF FundsInv, Sufficient
<1>2. ASSUME NEW cut \in SUBSET Handlers, CutOff(cut) PROVE FundsInv'
  <2>1. \A k \in Handlers : req'[k] \in {Idle, req[k]}
    BY <1>2 DEF CutOff
  <2>2. wallet' = wallet /\ pressed' = pressed
    BY <1>2 DEF CutOff
  <2>3. \A k \in Handlers : ~pressed => SufficientFor(req[k], wallet.available)
    BY DEF FundsInv, Sufficient, SufficientFor
  <2>4. \A k \in Handlers : ~pressed => SufficientFor(req'[k], wallet'.available)
    BY <2>1, <2>2, <2>3, IdleSuffices
  <2>. QED  BY <2>2, <2>4 DEF FundsInv, Sufficient, SufficientFor
<1>. QED  BY <1>1, <1>2, FundsRequest, FundsFurther, FundsStore, FundsMargin
          DEF Next, Books, vars, RequestDeposit

-------------------------------------------------------------------------------
(* The wallet is the sum of what was applied to it.                        *)

\* Requests between their entry and their store.
Storing(t) == {h \in Handlers : req[h].at = "store" /\ req[h].tx = t}

\* What was stored is in the wallet, unless a store undid another change; an entry
\* is stored or its request is about to, unless one was cut off.
SumInv ==
  /\ ~lost => wallet.available + wallet.locked = Start + Total(applied)
  /\ faults = 0 => \A t \in Transactions : entries[t] = applied[t] + Cardinality(Storing(t))

LEMMA DeltaType == \A t \in Transactions : Delta(t) \in Int
BY LedgerAssumption DEF Delta

LEMMA TotalType == ASSUME NEW e \in [Transactions -> Nat] PROVE Total(e) \in Int
<1>. DEFINE f == [t \in Transactions |-> e[t] * Delta(t)]
<1>1. f \in [Transactions -> Int]
  BY DeltaType
<1>. HIDE DEF f
<1>2. SumFunction(f) \in Int
  BY <1>1, SumType, LedgerAssumption
<1>. QED BY <1>2 DEF Total, f

\* One more booking of t adds its amount.
LEMMA TotalGrows ==
  ASSUME NEW e \in [Transactions -> Nat], NEW t \in Transactions
  PROVE  Total([e EXCEPT ![t] = @ + 1]) = Total(e) + Delta(t)
<1>. DEFINE n == [e EXCEPT ![t] = @ + 1]
            f == [u \in Transactions |-> e[u] * Delta(u)]
            h == [u \in Transactions |-> n[u] * Delta(u)]
<1>1. n \in [Transactions -> Nat] /\ n[t] = e[t] + 1 /\ \A u \in Transactions \ {t} : n[u] = e[u]
  OBVIOUS
<1>. HIDE DEF n
<1>2. f \in [Transactions -> Int] /\ h \in [Transactions -> Int]
  BY <1>1, DeltaType
<1>3. \A u \in Transactions \ {t} : h[u] = f[u]
  BY <1>1
<1>4. h[t] - f[t] = Delta(t)
  <2>1. e[t] \in Nat /\ Delta(t) \in Int /\ h[t] = (e[t] + 1) * Delta(t) /\ f[t] = e[t] * Delta(t)
    BY <1>1, DeltaType
  <2>. HIDE DEF f, h
  <2>2. \A k, d \in Int : (k + 1) * d - k * d = d
    OBVIOUS
  <2>. QED BY <2>1, <2>2
<1>. HIDE DEF f, h
<1>5. SumFunction(h) = SumFunction(f) + (h[t] - f[t])
  BY <1>2, <1>3, SumChange, LedgerAssumption
<1>. QED BY <1>4, <1>5 DEF Total, f, h, n

\* A request that neither enters nor leaves "store" leaves the counts.
LEMMA StoringStays ==
  ASSUME \A h \in Handlers : req'[h] = req[h] \/ (req[h].at # "store" /\ req'[h].at # "store")
  PROVE  \A t \in Transactions : Storing(t)' = Storing(t)
BY DEF Storing

LEMMA StoringFinite ==
  \A t \in Transactions : IsFiniteSet(Storing(t)) /\ Cardinality(Storing(t)) \in Nat
BY LedgerAssumption, FS_Subset, FS_CardinalityType DEF Storing

\* Steps that move no money and store nothing.
LEMMA SumQuiet ==
  ASSUME SumInv,
         \A h \in Handlers : req'[h] = req[h] \/ (req[h].at # "store" /\ req'[h].at # "store"),
         wallet' = wallet, entries' = entries, applied' = applied, lost' = lost, faults' = faults
  PROVE  SumInv'
<1>1. \A t \in Transactions : Storing(t)' = Storing(t)
  BY StoringStays
<1>2. Total(applied)' = Total(applied)
  BY DEF Total
<1>. QED BY <1>1, <1>2 DEF SumInv

LEMMA SumEntry == ASSUME IInv, SumInv, NEW h \in Handlers, InsertEntry(h) PROVE SumInv'
<1>0. req[h] \in Requests /\ req[h].tx \in Transactions
  <2>1. req[h] \in Requests /\ RequestOK(req[h]) /\ req[h].at # "idle"
    BY DEF IInv, TypeOK, InsertEntry
  <2>. QED BY <2>1 DEF RequestOK, Requests
<1>. PICK t \in Transactions : t = req[h].tx
  BY <1>0
<1>1. /\ req \in [Handlers -> Requests]
      /\ entries \in [Transactions -> Nat] /\ applied \in [Transactions -> Nat]
  BY DEF IInv, TypeOK
<1>2. /\ req[h].at # "store" /\ req'[h].at = "store" /\ req'[h].tx = t
      /\ \A k \in Handlers : k # h => req'[k] = req[k]
      /\ entries' = [entries EXCEPT ![t] = @ + 1] /\ UNCHANGED <<wallet, applied, lost, faults>>
  BY <1>0, <1>1 DEF InsertEntry, Goes, Requests
<1>3. Storing(t)' = Storing(t) \cup {h} /\ h \notin Storing(t)
  BY <1>2 DEF Storing
<1>4. Cardinality(Storing(t))' = Cardinality(Storing(t)) + 1
  <2>1. IsFiniteSet(Storing(t))
    BY <1>1, StoringFinite
  <2>. QED BY ZenonT(60), <1>3, <2>1, FS_AddElement
<1>5. ASSUME NEW u \in Transactions, u # t PROVE Storing(u)' = Storing(u)
  BY <1>2, <1>5 DEF Storing
<1>6. Total(applied)' = Total(applied)
  BY <1>2 DEF Total
<1>7. faults' = 0 => \A u \in Transactions : entries'[u] = applied'[u] + Cardinality(Storing(u)')
  <2>1. ASSUME faults' = 0, NEW u \in Transactions
        PROVE  entries'[u] = applied'[u] + Cardinality(Storing(u)')
    <3>1. entries[u] = applied[u] + Cardinality(Storing(u))
      BY <1>2, <2>1 DEF SumInv
    <3>2. CASE u = t
      BY <1>1, <1>2, <1>4, <3>1, <3>2, StoringFinite
    <3>3. CASE u # t
      BY <1>1, <1>2, <1>5, <3>1, <3>3
    <3>. QED BY <3>2, <3>3
  <2>. QED BY <2>1
<1>. QED BY <1>2, <1>6, <1>7 DEF SumInv

LEMMA SumStore == ASSUME IInv, SumInv, NEW h \in Handlers, StoreBalance(h) PROVE SumInv'
<1>0. req[h] \in Requests /\ req[h].tx \in Transactions
  <2>1. req[h] \in Requests /\ RequestOK(req[h]) /\ req[h].at # "idle"
    BY DEF IInv, TypeOK, StoreBalance
  <2>. QED BY <2>1 DEF RequestOK, Requests
<1>. PICK t \in Transactions : t = req[h].tx
  BY <1>0
<1>1. /\ req \in [Handlers -> Requests]
      /\ entries \in [Transactions -> Nat] /\ applied \in [Transactions -> Nat]
      /\ wallet \in [available : Int, locked : Nat] /\ req[h].seen \in Int
  BY <1>0 DEF IInv, TypeOK, Requests
<1>2. /\ req[h].at = "store" /\ req'[h].at # "store"
      /\ \A k \in Handlers : k # h => req'[k] = req[k]
  BY <1>0, <1>1 DEF StoreBalance, Goes, Ends, Idle, Requests
<1>3. /\ applied' = [applied EXCEPT ![t] = @ + 1] /\ UNCHANGED <<entries, faults>>
      /\ wallet'.available = req[h].seen + Delta(t) /\ wallet'.locked = wallet.locked
      /\ ~lost' => ~lost /\ wallet.available = req[h].seen
  BY <1>1 DEF StoreBalance
<1>4. Storing(t)' = Storing(t) \ {h} /\ h \in Storing(t)
  BY <1>2 DEF Storing
<1>5. Cardinality(Storing(t))' = Cardinality(Storing(t)) - 1
  <2>1. IsFiniteSet(Storing(t))
    BY <1>1, StoringFinite
  <2>. QED BY ZenonT(60), <1>4, <2>1, FS_RemoveElement
<1>6. ASSUME NEW u \in Transactions, u # t PROVE Storing(u)' = Storing(u)
  BY <1>2, <1>6 DEF Storing
<1>7. faults' = 0 => \A u \in Transactions : entries'[u] = applied'[u] + Cardinality(Storing(u)')
  <2>1. ASSUME faults' = 0, NEW u \in Transactions
        PROVE  entries'[u] = applied'[u] + Cardinality(Storing(u)')
    <3>1. entries[u] = applied[u] + Cardinality(Storing(u))
      BY <1>3, <2>1 DEF SumInv
    <3>2. CASE u = t
      BY <1>1, <1>3, <1>5, <3>1, <3>2, StoringFinite
    <3>3. CASE u # t
      BY <1>1, <1>3, <1>6, <3>1, <3>3
    <3>. QED BY <3>2, <3>3
  <2>. QED BY <2>1
<1>8. ~lost' => wallet'.available + wallet'.locked = Start + Total(applied)'
  <2>1. Total(applied)' = Total(applied) + Delta(t)
    <3>1. Total(applied)' = Total(applied')
      BY DEF Total, Delta
    <3>. QED BY <1>1, <1>3, <3>1, TotalGrows
  <2>2. Total(applied) \in Int /\ Delta(t) \in Int /\ Start \in Int
    BY <1>1, TotalType, DeltaType, LedgerAssumption
  <2>. QED BY <1>1, <1>3, <2>1, <2>2 DEF SumInv
<1>. QED BY <1>7, <1>8 DEF SumInv

LEMMA SumStep == ASSUME IInv, SumInv, [Next]_vars PROVE SumInv'
<1>1. req \in [Handlers -> Requests]
  BY DEF IInv, TypeOK
<1>2. ASSUME NEW h \in Handlers, Request(h) PROVE SumInv'
  <2>1. req[h].at = "idle" /\ req'[h].at # "store" /\ \A k \in Handlers : k # h => req'[k] = req[k]
    BY <1>1, <1>2 DEF Request, AskWithdrawal, InsertDirect, InsertCommission, Approve, Reject, Starts
  <2>2. wallet' = wallet /\ entries' = entries /\ applied' = applied /\ lost' = lost /\ faults' = faults
    BY <1>2 DEF Request, AskWithdrawal, InsertDirect, InsertCommission, Approve, Reject
  <2>. QED BY <2>1, <2>2, SumQuiet
<1>3. ASSUME NEW h \in Handlers,
             InsertWithdrawal(h) \/ CheckFunds(h) \/ MarkRejected(h) \/ ReadBalance(h) \/ Complete(h)
      PROVE  SumInv'
  <2>1. /\ req[h].at # "store" /\ req'[h].at # "store"
        /\ \A k \in Handlers : k # h => req'[k] = req[k]
    BY <1>1, <1>3 DEF InsertWithdrawal, CheckFunds, MarkRejected, ReadBalance, Complete, Goes, Ends,
                      Idle, Requests
  <2>2. wallet' = wallet /\ entries' = entries /\ applied' = applied /\ lost' = lost /\ faults' = faults
    BY <1>3 DEF InsertWithdrawal, CheckFunds, MarkRejected, ReadBalance, Complete
  <2>. QED BY <2>1, <2>2, SumQuiet
<1>4. CASE LockMargin \/ UnlockMargin
  <2>1. wallet'.available + wallet'.locked = wallet.available + wallet.locked
    <3>1. wallet \in [available : Int, locked : Nat] /\ Margin \in Nat
      BY LedgerAssumption DEF IInv, TypeOK
    <3>. QED BY <1>4, <3>1 DEF LockMargin, UnlockMargin
  <2>2. UNCHANGED <<entries, req, applied, lost, faults>>
    BY <1>4 DEF LockMargin, UnlockMargin
  <2>3. Total(applied)' = Total(applied) /\ \A t \in Transactions : Storing(t)' = Storing(t)
    BY <2>2 DEF Total, Storing
  <2>. QED BY <2>1, <2>2, <2>3 DEF SumInv
<1>5. ASSUME NEW cut \in SUBSET Handlers, CutOff(cut) PROVE SumInv'
  <2>1. faults' # 0 /\ UNCHANGED <<wallet, applied, lost>>
    BY <1>5 DEF CutOff, IInv, TypeOK
  <2>2. Total(applied)' = Total(applied)
    BY <2>1 DEF Total
  <2>. QED BY <2>1, <2>2 DEF SumInv
<1>6. ASSUME NEW t \in Deposits, RequestDeposit(t) PROVE SumInv'
  BY <1>6, SumQuiet DEF RequestDeposit
<1>7. CASE UNCHANGED vars
  BY <1>7, SumQuiet DEF vars
<1>. QED BY <1>2, <1>3, <1>4, <1>5, <1>6, <1>7, SumEntry, SumStore DEF Next, Books

-------------------------------------------------------------------------------
(* The theorems.                                                           *)

\* Wallet, rows and requests keep their types, for any number of each.
THEOREM LedgerTypeCorrect == Spec => []TypeOK
<1>1. IInv => TypeOK
  BY DEF IInv
<1>. QED  BY <1>1, InitInv, StepInv, PTL DEF Spec

\* approve_transaction, create_direct_deposit and the commission leave a transaction
\* booked exactly when its status says so, when nothing else works on it.
THEOREM StatusIsMoney == Spec => []StatusTellsMoney
<1>1. IInv => StatusTellsMoney
  BY DEF IInv, BookOK, StatusTellsMoney, At, Resting, AtRest
<1>. QED  BY <1>1, InitInv, StepInv, PTL DEF Spec

\* Settled transactions are never booked, rejected or approved again, across failures,
\* restarts and any number of concurrent requests.
THEOREM SettledIsFinal == Spec => SettledStays
<1>1. IInv /\ [Next]_vars => [\A t \in Transactions :
         Closed(t) => Closed(t)' /\ status'[t] = status[t] /\ entries'[t] = entries[t]
                                 /\ applied'[t] = applied[t]]_vars
  BY ClosedStep
<1>. QED  BY <1>1, InitInv, StepInv, PTL DEF Spec, SettledStays

\* approve_transaction overdraws the wallet only if the balance fell between its check
\* of a withdrawal and its reading in create_ledger_entry.
THEOREM OverdraftNeedsPressure == Spec => []NoOverdraft
<1>1. Init => FundsInv
  <2>. SUFFICES ASSUME Init PROVE FundsInv
    OBVIOUS
  <2>1. wallet.available = Start /\ \A h \in Handlers : req[h] = Idle
    BY DEF Init
  <2>2. Start >= 0
    BY LedgerAssumption
  <2>. QED  BY <2>1, <2>2, IdleIsRequest DEF FundsInv, Sufficient
<1>2. FundsInv => NoOverdraft
  BY DEF FundsInv, NoOverdraft
<1>. QED  BY <1>1, <1>2, InitInv, StepInv, FundsStep, PTL DEF Spec

\* create_ledger_entry keeps ledger and wallet together, for any number of
\* transactions and requests at once: cash, free or locked by place_order, is the
\* start plus all entries, unless a store went over another change or was cut off.
THEOREM LedgerIsTheWallet == Spec => []LedgerExplainsWallet
<1>1. Init => SumInv
  <2>. SUFFICES ASSUME Init PROVE SumInv
    OBVIOUS
  <2>. DEFINE f == [t \in Transactions |-> applied[t] * Delta(t)]
  <2>1. f \in [Transactions -> Int] /\ \A t \in Transactions : f[t] = 0
    BY DeltaType DEF Init
  <2>2. Total(applied) = 0
    <3>. HIDE DEF f
    <3>1. SumFunction(f) = 0
      BY <2>1, SumZero, LedgerAssumption
    <3>. QED BY <3>1 DEF Total, f
  <2>3. \A t \in Transactions : Storing(t) = {}
    BY DEF Init, Storing, Idle
  <2>4. wallet.available + wallet.locked = Start
    BY LedgerAssumption DEF Init
  <2>5. \A t \in Transactions : entries[t] = 0 /\ applied[t] = 0
    BY DEF Init
  <2>6. \A t \in Transactions : entries[t] = applied[t] + Cardinality(Storing(t))
    BY <2>3, <2>5, FS_EmptySet
  <2>. QED BY <2>2, <2>4, <2>6, LedgerAssumption DEF SumInv
<1>2. IInv /\ SumInv => LedgerExplainsWallet
  <2>. SUFFICES ASSUME IInv, SumInv, ~lost, faults = 0, \A h \in Handlers : req[h].at # "store"
                PROVE  wallet.available + wallet.locked = Start + Total(entries)
    BY DEF LedgerExplainsWallet
  <2>1. entries \in [Transactions -> Nat] /\ applied \in [Transactions -> Nat]
    BY DEF IInv, TypeOK
  <2>2. ASSUME NEW t \in Transactions PROVE entries[t] = applied[t]
    <3>1. Storing(t) = {}
      BY DEF Storing
    <3>. QED BY <2>1, <3>1, FS_EmptySet DEF SumInv
  <2>3. entries = applied
    BY <2>1, <2>2
  <2>. QED BY <2>3 DEF SumInv
<1>. QED  BY <1>1, <1>2, InitInv, StepInv, SumStep, PTL DEF Spec
===============================================================================
