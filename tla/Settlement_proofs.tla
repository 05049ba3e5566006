--------------------------- MODULE Settlement_proofs ---------------------------
(***************************************************************************)
(* Proofs about Settlement, for any number of orders, any amounts of cash, *)
(* bonus and margin, any profits, and any number of reopened positions,    *)
(* restarts and failed transactions.                                       *)
(***************************************************************************)
EXTENDS Settlement, SumTheorems, SequenceTheorems, TLAPS

USE DEF redis, streams, limits

-------------------------------------------------------------------------------
(* The inductive invariant.                                                *)

\* The messages: a close with the margin it gives back, and the other three.
Closing == [kind : {"closed"}, pos : Orders, cash : Nat, bonus : Nat, pnl : Int]
Notice  == [kind : {"filled", "triggered"}, pos : Orders, status : {"filled", "closed"}]
             \cup [kind : {"updated"}, pos : Orders, status : {"open", "closed"}]
Outcomes == [order : Orders, status : {"filled"} \cup Ended]
Updates  == [pos : Orders, status : {"open", "closed"}, size : 0..2]

StreamsOK == /\ todo \in [Handlers -> Seq(Closing \cup Notice)]
             /\ outcomes \in Seq(Outcomes)
             /\ updates \in Seq(Updates)
             /\ closes \in Seq(Closing)

Type == TypeOK /\ StreamsOK

\* A position that no administrator reopened is open.
Exposed(o) == IsOpen(o) /\ o \notin reopened

\* A message is about a filled order; a close of a position that is still open gave
\* away margin the hash no longer carries; a triggered position is closed.
MessageOK(m) ==
  /\ engine[m.pos] = "filled"
  /\ m.kind = "closed" =>
       /\ m.cash <= row[m.pos].cash /\ m.bonus <= row[m.pos].bonus
       /\ Exposed(m.pos) => /\ m.cash + hash[m.pos].cash <= row[m.pos].cash
                            /\ m.bonus + hash[m.pos].bonus <= row[m.pos].bonus
  /\ m.kind = "triggered" => ~Exposed(m.pos)

MessagesOK == /\ \A h \in Handlers : \A i \in 1..Len(todo[h]) : MessageOK(todo[h][i])
              /\ \A i \in 1..Len(closes) : MessageOK(closes[i])
              /\ \A i \in 1..Len(updates) : engine[updates[i].pos] = "filled"

\* The wallet holds what the order's transaction locked.
HoldsAll(o) == held[o].cash = row[o].cash /\ held[o].bonus = row[o].bonus

\* An outcome other than a fill is announced once, and its margin is still locked.
Owing(i) == /\ engine[outcomes[i].order] = outcomes[i].status
            /\ HoldsAll(outcomes[i].order)
            /\ rolling # outcomes[i].order
            /\ \A j \in 1..Len(outcomes) :
                 j # i /\ outcomes[j].status \in Ended => outcomes[j].order # outcomes[i].order

OutcomesOK == \A i \in 1..Len(outcomes) : outcomes[i].status \in Ended => Owing(i)
RollingOK  == rolling # None => engine[rolling] \in Ended /\ HoldsAll(rolling)

\* What the wallet holds for an order in each phase of its life.
HeldOK(o) ==
  /\ row[o].status = "none" => engine[o] = "none" /\ held[o] = NoMargin
  /\ hash[o].status # "none" \/ db[o].status # "none" \/ db[o].released => engine[o] = "filled"
  /\ engine[o] \in {"none", "sent", "pending"} => HoldsAll(o)
  /\ engine[o] = "filled" /\ ~db[o].released => HoldsAll(o)
  /\ 0 <= held[o].cash /\ 0 <= held[o].bonus
  /\ hash[o].cash <= row[o].cash /\ hash[o].bonus <= row[o].bonus
  /\ Exposed(o) => hash[o].cash <= held[o].cash /\ hash[o].bonus <= held[o].bonus

BooksOK == \A o \in Orders : HeldOK(o)

Inv == Type /\ MessagesOK /\ OutcomesOK /\ RollingOK /\ BooksOK

-------------------------------------------------------------------------------
(* Numbers and sequences.                                                  *)

\* Half of a margin is a margin, and leaves one.
LEMMA HalfOf ==
  ASSUME NEW n \in Nat
  PROVE  n \div 2 \in Nat /\ n \div 2 <= n /\ n - (n \div 2) \in Nat
OBVIOUS

\* Every element of the second sequence is one of the first.
Kept(old, new) == \A i \in 1..Len(new) : \E j \in 1..Len(old) : new[i] = old[j]

\* A sequence whose head is taken.
LEMMA Taken ==
  ASSUME NEW S, NEW s \in Seq(S), s # <<>>
  PROVE  /\ Head(s) \in S /\ Tail(s) \in Seq(S)
         /\ 1 \in 1..Len(s) /\ Head(s) = s[1]
         /\ \A i \in 1..Len(Tail(s)) : i + 1 \in 1..Len(s) /\ Tail(s)[i] = s[i + 1]
         /\ Kept(s, Tail(s))
<1>1. Len(s) \in Nat /\ Len(s) # 0
  OBVIOUS
<1>2. /\ Head(s) \in S /\ Tail(s) \in Seq(S)
      /\ 1 \in 1..Len(s) /\ Head(s) = s[1]
      /\ \A i \in 1..Len(Tail(s)) : i + 1 \in 1..Len(s) /\ Tail(s)[i] = s[i + 1]
  BY <1>1, HeadTailProperties
<1>. QED BY <1>2 DEF Kept

\* A sequence that an element is appended to.
LEMMA Appended ==
  ASSUME NEW S, NEW s \in Seq(S), NEW e \in S
  PROVE  /\ Append(s, e) \in Seq(S)
         /\ \A i \in 1..Len(Append(s, e)) :
              \/ i \in 1..Len(s) /\ Append(s, e)[i] = s[i]
              \/ i \notin 1..Len(s) /\ Append(s, e)[i] = e
BY AppendProperties

\* An unchanged sequence.
LEMMA Unmoved == ASSUME NEW s PROVE Kept(s, s)
BY DEF Kept

\* What is left of a stream when a message is taken, or all are lost.
LEMMA Rest ==
  ASSUME NEW S, NEW s \in Seq(S), NEW t, t = s \/ (s # <<>> /\ t = Tail(s)) \/ t = <<>>
  PROVE  Kept(s, t)
<1>1. CASE t = s
  BY <1>1, Unmoved
<1>2. CASE s # <<>> /\ t = Tail(s)
  BY <1>2, Taken
<1>3. CASE t = <<>>
  BY <1>3 DEF Kept
<1>. QED BY <1>1, <1>2, <1>3

-------------------------------------------------------------------------------
(* Type correctness.                                                       *)

LEMMA TypeInit == Init => Type
<1>. SUFFICES ASSUME Init PROVE Type
  OBVIOUS
<1>1. TypeOK
  BY Bounds, Amounts DEF Init, TypeOK, NoMargin, NoHash, Amount
<1>2. StreamsOK
  BY DEF Init, StreamsOK
<1>. QED BY <1>1, <1>2 DEF Type

\* What lock_margin splits is a margin.
LEMMA SplitType ==
  ASSUME Type
  PROVE  LET m == Split(wallet) IN m.cash \in Nat /\ m.bonus \in Nat
<1>. DEFINE free == AtLeastZero(wallet.available)
            cash == Least(Margin, free)
<1>1. free \in Nat
  BY DEF Type, TypeOK, AtLeastZero
<1>2. cash \in Nat /\ cash <= Margin /\ Margin \in Nat
  BY <1>1, Amounts DEF Least
<1>. QED BY <1>2 DEF Split

\* The wallet keeps whole amounts.
Wallet == [available : Int, locked : Int, bonus : Int, bonusLocked : Int]

LEMMA LockType ==
  ASSUME NEW w \in Wallet, NEW m, m.cash \in Int, m.bonus \in Int
  PROVE  Lock(w, m) \in Wallet /\ Unlock(w, m) \in Wallet
<1>. DEFINE a == w.available - m.cash  b == w.locked + m.cash  c == w.bonusLocked + m.bonus
            d == w.available + m.cash  e == w.locked - m.cash  f == w.bonusLocked - m.bonus
<1>1. {a, b, c, d, e, f} \subseteq Int
  BY DEF Wallet
<1>. HIDE DEF a, b, c, d, e, f
<1>2. /\ [w EXCEPT !.available = a, !.locked = b, !.bonusLocked = c] \in Wallet
      /\ [w EXCEPT !.available = d, !.locked = e, !.bonusLocked = f] \in Wallet
  BY <1>1 DEF Wallet
<1>. QED BY <1>2 DEF Lock, Unlock, a, b, c, d, e, f

LEMMA ApplyType ==
  ASSUME NEW w \in Wallet, NEW pnl \in Int
  PROVE  Apply(w, pnl) \in Wallet
<1>. DEFINE absorbed == Least(AtLeastZero(-pnl), Consumable(w))
            a == w.bonus - absorbed  b == w.available + pnl + absorbed
<1>1. AtLeastZero(-pnl) \in Int /\ Consumable(w) \in Int
  BY DEF AtLeastZero, Consumable, Wallet
<1>2. absorbed \in Int
  BY <1>1 DEF Least
<1>3. a \in Int /\ b \in Int
  BY <1>2 DEF Wallet
<1>. HIDE DEF a, b
<1>4. [w EXCEPT !.bonus = a, !.available = b] \in Wallet
  BY <1>3 DEF Wallet
<1>. QED BY <1>4 DEF Apply, a, b

\* So does the account of what is held.
LEMMA HeldType ==
  ASSUME Type, NEW o \in Orders, NEW m, m.cash \in Int, m.bonus \in Int
  PROVE  /\ Holds(o, m) => held' \in [Orders -> Amount]
         /\ LetsGo(o, m) => held' \in [Orders -> Amount]
<1>1. held[o].cash \in Int /\ held[o].bonus \in Int /\ held \in [Orders -> Amount]
  BY DEF Type, TypeOK, Amount
<1>2. \A a, b \in Int : [held EXCEPT ![o] = [cash |-> a, bonus |-> b]] \in [Orders -> Amount]
  BY <1>1 DEF Amount
<1>3. /\ held[o].cash + m.cash \in Int /\ held[o].bonus + m.bonus \in Int
      /\ held[o].cash + (-m.cash) \in Int /\ held[o].bonus + (-m.bonus) \in Int
  BY <1>1
<1>4. Holds(o, m) => held' \in [Orders -> Amount]
  BY <1>2, <1>3 DEF Holds
<1>5. ASSUME LetsGo(o, m) PROVE held' \in [Orders -> Amount]
  <2>1. held' = [held EXCEPT ![o] = [cash |-> held[o].cash + (-m.cash),
                                     bonus |-> held[o].bonus + (-m.bonus)]]
    BY <1>5, Zenon DEF LetsGo, Holds
  <2>. QED BY <1>2, <1>3, <2>1
<1>. QED BY <1>4, <1>5

\* A row keeps its type when its status changes.
LEMMA RowStatus ==
  ASSUME TypeOK, NEW o \in Orders,
         NEW status \in {"none", "pending", "cancelling", "filled"} \cup Ended
  PROVE  [row EXCEPT ![o].status = status]
           \in [Orders -> [status : {"none", "pending", "cancelling", "filled"} \cup Ended,
                           cash : Nat, bonus : Nat]]
<1>. DEFINE Row == [status : {"none", "pending", "cancelling", "filled"} \cup Ended,
                    cash : Nat, bonus : Nat]
<1>1. row \in [Orders -> Row] /\ row[o] \in Row
  BY DEF TypeOK
<1>2. [row[o] EXCEPT !.status = status] \in Row
  BY <1>1
<1>. QED BY <1>1, <1>2

\* auth-service placing and cancelling.
LEMMA ApiType == ASSUME Type, NEW o \in Orders, Api(o) PROVE Type'
<1>1. CASE Place(o)
  <2>. DEFINE m == Split(wallet)
  <2>1. m.cash \in Nat /\ m.bonus \in Nat
    BY SplitType
  <2>2. /\ wallet' \in [available : Int, locked : Int, bonus : Int, bonusLocked : Int]
        /\ held' \in [Orders -> Amount]
    <3>1. wallet \in Wallet /\ wallet' = Lock(wallet, m) /\ Holds(o, m)
      BY <1>1 DEF Place, Wallet, Type, TypeOK
    <3>. HIDE DEF m
    <3>2. m.cash \in Int /\ m.bonus \in Int
      BY <2>1
    <3>3. Lock(wallet, m) \in Wallet
      BY <3>1, <3>2, LockType
    <3>4. held' \in [Orders -> Amount]
      BY <3>1, <3>2, HeldType
    <3>. QED BY <3>1, <3>3, <3>4 DEF Wallet
  <2>3. /\ row' \in [Orders -> [status : {"none", "pending", "cancelling", "filled"} \cup Ended,
                                cash : Nat, bonus : Nat]]
        /\ engine' \in [Orders -> {"none", "sent", "pending", "filled"} \cup Ended]
    BY <1>1, <2>1 DEF Place, Type, TypeOK
  <2>. QED BY <1>1, <2>2, <2>3 DEF Place, Type, TypeOK, StreamsOK
<1>2. CASE RequestCancel(o)
  <2>1. row' \in [Orders -> [status : {"none", "pending", "cancelling", "filled"} \cup Ended,
                             cash : Nat, bonus : Nat]]
    BY <1>2, RowStatus DEF RequestCancel, Type
  <2>2. cancelling' \subseteq Orders
    BY <1>2 DEF RequestCancel, Type, TypeOK
  <2>. QED BY <1>2, <2>1, <2>2 DEF RequestCancel, Type, TypeOK, StreamsOK
<1>. QED BY <1>1, <1>2 DEF Api

\* The engine's outcomes of orders.
LEMMA EndsType ==
  ASSUME Type, NEW o \in Orders, NEW status \in Ended, Ends(o, status),
         cancelling' \in {cancelling, cancelling \ {o}}
  PROVE  Type'
<1>1. outcomes' \in Seq(Outcomes)
  BY Appended DEF Type, StreamsOK, Ends, Outcomes
<1>. QED BY <1>1 DEF Ends, Type, TypeOK, StreamsOK, Ended

\* A script of the engine that leaves a position and one or two messages.
LEMMA EngineType ==
  ASSUME Type, NEW h \in Handlers, NEW o \in Orders,
         NEW position \in [status : {"none", "open", "closed"}, size : 0..2, original : 0..2,
                           cash : Nat, bonus : Nat, pnl : Int],
         NEW messages \in Seq(Closing \cup Notice), Engine(h, o, position, messages),
         engine' \in [Orders -> {"none", "sent", "pending", "filled"} \cup Ended],
         reopened' \subseteq Orders
  PROVE  Type'
<1>1. todo' \in [Handlers -> Seq(Closing \cup Notice)]
  BY DEF Engine, Type, StreamsOK
<1>2. \A g \in Handlers : \A i \in 1..Len(todo'[g]) : todo'[g][i].kind \in Kinds
  BY <1>1 DEF Closing, Notice, Kinds
<1>3. hash' \in [Orders -> [status : {"none", "open", "closed"}, size : 0..2, original : 0..2,
                            cash : Nat, bonus : Nat, pnl : Int]]
  BY DEF Engine, Type, TypeOK
<1>. QED BY <1>1, <1>2, <1>3 DEF Engine, Type, TypeOK, StreamsOK

LEMMA OrderType == ASSUME Type, NEW o \in Orders, OrderStep(o) PROVE Type'
<1>1. CASE Accepts(o)
  BY <1>1 DEF Accepts, Type, TypeOK, StreamsOK
<1>2. CASE Rejects(o)
  BY <1>2, EndsType DEF Rejects, Ended
<1>3. CASE Cancels(o)
  BY <1>3, EndsType DEF Cancels, Ended
<1>4. CASE CancelIsLate(o)
  BY <1>4 DEF CancelIsLate, Type, TypeOK, StreamsOK
<1>5. CASE Fills(o)
  <2>. DEFINE position == [status |-> "open", size |-> 2, original |-> 0, cash |-> row[o].cash,
                           bonus |-> row[o].bonus, pnl |-> 0]
              messages == <<Message("filled", o, "filled"), Message("updated", o, "open")>>
  <2>1. position \in [status : {"none", "open", "closed"}, size : 0..2, original : 0..2,
                      cash : Nat, bonus : Nat, pnl : Int]
    BY SMTT(60) DEF Type, TypeOK
  <2>2. messages \in Seq(Closing \cup Notice)
    BY DEF Message, Notice
  <2>3. /\ engine' \in [Orders -> {"none", "sent", "pending", "filled"} \cup Ended]
        /\ reopened' \subseteq Orders /\ o \in Handlers
    BY <1>5 DEF Fills, Type, TypeOK, Handlers
  <2>4. Engine(o, o, position, messages)
    BY <1>5 DEF Fills
  <2>. HIDE DEF position, messages
  <2>. QED BY <2>1, <2>2, <2>3, <2>4, EngineType
<1>. QED BY <1>1, <1>2, <1>3, <1>4, <1>5 DEF OrderStep

\* The hash of a position, before and after a script.
Hash == [status : {"none", "open", "closed"}, size : 0..2, original : 0..2,
         cash : Nat, bonus : Nat, pnl : Int]

\* Half the margin of a position and what the other half leaves.
LEMMA HalfType ==
  ASSUME Type, NEW o \in Orders
  PROVE  /\ hash[o] \in Hash
         /\ Half(o).cash \in Nat /\ Half(o).bonus \in Nat
         /\ hash[o].cash - Half(o).cash \in Nat /\ hash[o].bonus - Half(o).bonus \in Nat
<1>1. hash[o] \in Hash
  BY DEF Type, TypeOK, Hash
<1>2. hash[o].cash \in Nat /\ hash[o].bonus \in Nat
  BY <1>1 DEF Hash
<1>. QED BY <1>1, <1>2, HalfOf DEF Half

\* A position after a partial close, a close and a reopen.
LEMMA ScriptTypes ==
  ASSUME Type, NEW o \in Orders, NEW pnl \in Int
  PROVE  /\ [hash[o] EXCEPT !.size = 1, !.cash = @ - Half(o).cash,
                            !.bonus = @ - Half(o).bonus, !.pnl = @ + pnl] \in Hash
         /\ Gone(o, pnl) \in Hash
         /\ [hash[o] EXCEPT !.status = "open", !.size = hash[o].original] \in Hash
<1>. DEFINE a == hash[o].cash - Half(o).cash  b == hash[o].bonus - Half(o).bonus
            c == hash[o].pnl + pnl
<1>1. hash[o] \in Hash /\ a \in Nat /\ b \in Nat
  BY HalfType
<1>2. c \in Int /\ hash[o].size \in 0..2 /\ hash[o].original \in 0..2 /\ {0, 1} \subseteq 0..2
  BY <1>1 DEF Hash
<1>. HIDE DEF a, b, c
<1>3. [hash[o] EXCEPT !.size = 1, !.cash = a, !.bonus = b, !.pnl = c] \in Hash
  BY <1>1, <1>2 DEF Hash
<1>4. [hash[o] EXCEPT !.status = "closed", !.size = 0, !.original = hash[o].size, !.pnl = c]
        \in Hash
  BY <1>1, <1>2 DEF Hash
<1>5. [hash[o] EXCEPT !.status = "open", !.size = hash[o].original] \in Hash
  BY <1>1, <1>2 DEF Hash
<1>. QED BY <1>3, <1>4, <1>5 DEF Gone, a, b, c

\* The message of a close.
LEMMA ClosedMessageType ==
  ASSUME NEW o \in Orders, NEW m, m.cash \in Nat, m.bonus \in Nat, NEW pnl \in Int
  PROVE  ClosedMessage(o, m, pnl) \in Closing
BY DEF ClosedMessage, Closing

LEMMA CloseType == ASSUME Type, NEW o \in Orders, CloseStep(o) PROVE Type'
<1>1. /\ {"close", "closeAll", "trigger", "reopen"} \subseteq Handlers
      /\ Message("updated", o, "closed") \in Notice /\ Message("updated", o, "open") \in Notice
      /\ Message("triggered", o, "closed") \in Notice
  BY DEF Handlers, Message, Notice
<1>2. hash[o] \in Hash /\ hash[o].cash \in Nat /\ hash[o].bonus \in Nat
  BY HalfType DEF Hash
<1>3. /\ engine \in [Orders -> {"none", "sent", "pending", "filled"} \cup Ended]
      /\ reopened \subseteq Orders
  BY DEF Type, TypeOK
<1>4. ASSUME NEW h \in Handlers, NEW position \in Hash, NEW m1 \in Closing \cup Notice,
             NEW m2 \in Closing \cup Notice, Engine(h, o, position, <<m1, m2>>),
             UNCHANGED <<engine, reopened>>
      PROVE  Type'
  <2>. DEFINE messages == <<m1, m2>>
  <2>1. messages \in Seq(Closing \cup Notice) /\ Engine(h, o, position, messages)
    BY <1>4
  <2>. HIDE DEF messages
  <2>. QED BY <1>3, <1>4, <2>1, EngineType DEF Hash
<1>5. CASE Reopens(o)
  <2>. DEFINE messages == <<Message("updated", o, "open")>>
              position == [hash[o] EXCEPT !.status = "open", !.size = hash[o].original]
  <2>1. 0 \in Int
    BY SMTT(60)
  <2>2. position \in Hash
    BY <2>1, ScriptTypes
  <2>3. messages \in Seq(Closing \cup Notice)
    BY <1>1
  <2>4. /\ Engine("reopen", o, position, messages) /\ reopened' \subseteq Orders
        /\ engine' \in [Orders -> {"none", "sent", "pending", "filled"} \cup Ended]
    BY <1>3, <1>5 DEF Reopens
  <2>5. "reopen" \in Handlers
    BY <1>1
  <2>. HIDE DEF messages, position
  <2>. QED BY <2>2, <2>3, <2>4, <2>5, EngineType DEF Hash
<1>6. ASSUME NEW pnl \in Profits,
             ClosesPart(o, pnl) \/ Closes(o, pnl) \/ Triggers(o, pnl) \/ ClosesAll(o, pnl)
      PROVE  Type'
  <2>1. pnl \in Int
    BY Amounts
  <2>2. ClosedMessage(o, Half(o), pnl) \in Closing /\ ClosedMessage(o, hash[o], pnl) \in Closing
    BY <1>2, <2>1, HalfType, ClosedMessageType
  <2>3. CASE ClosesPart(o, pnl)
    BY <1>1, <1>3, <1>4, <2>1, <2>2, <2>3, ScriptTypes DEF ClosesPart
  <2>4. CASE Closes(o, pnl)
    BY <1>1, <1>3, <1>4, <2>1, <2>2, <2>4, ScriptTypes DEF Closes
  <2>5. CASE Triggers(o, pnl)
    BY <1>1, <1>3, <1>4, <2>1, <2>2, <2>5, ScriptTypes DEF Triggers
  <2>6. CASE ClosesAll(o, pnl)
    BY <1>1, <1>3, <1>4, <2>1, <2>2, <2>6, ScriptTypes DEF ClosesAll
  <2>. QED BY <1>6, <2>3, <2>4, <2>5, <2>6
<1>. QED BY <1>5, <1>6 DEF CloseStep

\* The next message of a task, and what publishing makes of it.
LEMMA NextMessage ==
  ASSUME Type, NEW h \in Handlers, ~Idle(h)
  PROVE  LET m == Head(todo[h]) IN
         /\ m \in Closing \cup Notice /\ m.pos \in Orders /\ hash[m.pos] \in Hash
         /\ Tail(todo[h]) \in Seq(Closing \cup Notice)
         /\ (m.kind = "closed" => m \in Closing)
         /\ (m.kind = "updated" => m.status \in {"open", "closed"})
         /\ ClosedMessage(m.pos, hash[m.pos], hash[m.pos].pnl) \in Closing
<1>. DEFINE m == Head(todo[h])
<1>1. m \in Closing \cup Notice /\ Tail(todo[h]) \in Seq(Closing \cup Notice)
  BY Taken DEF Type, StreamsOK, Idle
<1>. HIDE DEF m
<1>2. /\ m.pos \in Orders /\ (m.kind = "closed" => m \in Closing)
      /\ (m.kind = "updated" => m.status \in {"open", "closed"})
  BY <1>1 DEF Closing, Notice
<1>3. hash[m.pos] \in Hash
  BY <1>2 DEF Type, TypeOK, Hash
<1>4. ClosedMessage(m.pos, hash[m.pos], hash[m.pos].pnl) \in Closing
  BY <1>2, <1>3, ClosedMessageType DEF Hash
<1>. QED BY <1>1, <1>2, <1>3, <1>4 DEF m

LEMMA PublishType == ASSUME Type, NEW h \in Handlers, Publishes(h) PROVE Type'
<1>. DEFINE m == Head(todo[h])
            p == hash[m.pos]
            c == IF m.kind = "closed" THEN m ELSE ClosedMessage(m.pos, p, p.pnl)
            u == [pos |-> m.pos, status |-> m.status, size |-> p.size]
            f == [order |-> m.pos, status |-> "filled"]
<1>1. /\ m \in Closing \cup Notice /\ m.pos \in Orders /\ p \in Hash
      /\ Tail(todo[h]) \in Seq(Closing \cup Notice)
      /\ c \in Closing /\ (m.kind = "updated" => m.status \in {"open", "closed"})
  BY NextMessage DEF Publishes
<1>2. f \in Outcomes /\ (m.kind = "updated" => u \in Updates)
  BY <1>1 DEF Outcomes, Updates, Hash
<1>3. todo' \in [Handlers -> Seq(Closing \cup Notice)]
  BY <1>1 DEF Publishes, Type, StreamsOK
<1>4. \A g \in Handlers : \A i \in 1..Len(todo'[g]) : todo'[g][i].kind \in Kinds
  BY <1>3 DEF Closing, Notice, Kinds
<1>5. /\ Append(closes, c) \in Seq(Closing) /\ Append(outcomes, f) \in Seq(Outcomes)
      /\ (m.kind = "updated" => Append(updates, u) \in Seq(Updates))
  BY <1>1, <1>2, Appended DEF Type, StreamsOK
<1>6. outcomes' \in Seq(Outcomes) /\ updates' \in Seq(Updates) /\ closes' \in Seq(Closing)
  BY <1>5 DEF Publishes, Type, StreamsOK
<1>. QED BY <1>3, <1>4, <1>6 DEF Publishes, Type, TypeOK, StreamsOK

\* The listeners: an outcome and its rollback, an update, a settlement.
LEMMA SettlementType ==
  ASSUME Type, closes # <<>>, Settles
  PROVE  /\ wallet' \in Wallet /\ held' \in [Orders -> Amount]
         /\ db' \in [Orders -> [status : {"none", "open", "closed"}, released : BOOLEAN]]
<1>. DEFINE e == Head(closes)
<1>1. e \in Closing
  BY Taken DEF Type, StreamsOK
<1>2. /\ wallet' = Apply(Unlock(wallet, e), e.pnl) /\ LetsGo(e.pos, e)
      /\ db' = [db EXCEPT ![e.pos].released = TRUE]
  BY DEF Settles
<1>. HIDE DEF e
<1>3. e.pos \in Orders /\ e.cash \in Int /\ e.bonus \in Int /\ e.pnl \in Int
  BY <1>1 DEF Closing
<1>4. wallet \in Wallet
  BY DEF Type, TypeOK, Wallet
<1>5. Unlock(wallet, e) \in Wallet
  BY <1>3, <1>4, LockType
<1>6. wallet' \in Wallet
  BY <1>2, <1>3, <1>5, ApplyType
<1>7. held' \in [Orders -> Amount]
  BY <1>2, <1>3, HeldType
<1>8. db' \in [Orders -> [status : {"none", "open", "closed"}, released : BOOLEAN]]
  BY ZenonT(60), <1>2, <1>3 DEF Type, TypeOK
<1>. QED BY <1>6, <1>7, <1>8

LEMMA ListenerType == ASSUME Type, Listeners PROVE Type'
<1>1. CASE Outcome
  <2>. DEFINE e == Head(outcomes)
  <2>1. e \in Outcomes /\ Tail(outcomes) \in Seq(Outcomes)
    BY <1>1, Taken DEF Outcome, Type, StreamsOK
  <2>2. /\ row' = [row EXCEPT ![e.order].status = e.status]
        /\ rolling' \in {e.order, None} /\ outcomes' = Tail(outcomes)
    BY <1>1 DEF Outcome
  <2>. HIDE DEF e
  <2>3. /\ e.order \in Orders
        /\ e.status \in {"none", "pending", "cancelling", "filled"} \cup Ended
    BY <2>1 DEF Outcomes
  <2>4. row' \in [Orders -> [status : {"none", "pending", "cancelling", "filled"} \cup Ended,
                             cash : Nat, bonus : Nat]]
    BY <2>2, <2>3, RowStatus DEF Type
  <2>5. UNCHANGED <<wallet, redis, updates, closes, listening, db, held, limits>>
    BY <1>1 DEF Outcome
  <2>. QED BY <2>1, <2>2, <2>3, <2>4, <2>5 DEF Type, TypeOK, StreamsOK
<1>2. CASE Rollback
  <2>1. /\ wallet' = Unlock(wallet, row[rolling]) /\ LetsGo(rolling, row[rolling])
        /\ rolling \in Orders /\ wallet \in Wallet
        /\ row[rolling].cash \in Int /\ row[rolling].bonus \in Int
    BY <1>2 DEF Rollback, Type, TypeOK, Wallet
  <2>2. wallet' \in Wallet
    BY <2>1, LockType
  <2>3. held' \in [Orders -> Amount]
    BY <2>1, HeldType
  <2>. QED BY <1>2, <2>2, <2>3 DEF Rollback, Wallet, Type, TypeOK, StreamsOK
<1>3. CASE Update
  <2>1. Head(updates) \in Updates /\ Tail(updates) \in Seq(Updates)
    BY <1>3, Taken DEF Update, Type, StreamsOK
  <2>2. db' \in [Orders -> [status : {"none", "open", "closed"}, released : BOOLEAN]]
    BY ZenonT(60), <1>3, <2>1 DEF Update, Updates, Type, TypeOK
  <2>. QED BY <1>3, <2>1, <2>2 DEF Update, Type, TypeOK, StreamsOK
<1>4. CASE UpdatePanics
  <2>1. updates' \in Seq(Updates)
    BY <1>4 DEF UpdatePanics
  <2>. QED BY <1>4, <2>1 DEF UpdatePanics, Type, TypeOK, StreamsOK
<1>5. CASE Settles
  <2>1. Tail(closes) \in Seq(Closing)
    BY <1>5, Taken DEF Settles, Type, StreamsOK
  <2>2. closes # <<>>
    BY <1>5 DEF Settles
  <2>. QED BY <1>5, <2>1, <2>2, SettlementType DEF Settles, Wallet, Type, TypeOK, StreamsOK
<1>6. CASE SettlesNothing
  <2>1. Tail(closes) \in Seq(Closing)
    BY <1>6, Taken DEF SettlesNothing, Type, StreamsOK
  <2>. QED BY <1>6, <2>1 DEF SettlesNothing, Type, TypeOK, StreamsOK
<1>. QED BY <1>1, <1>2, <1>3, <1>4, <1>5, <1>6 DEF Listeners

LEMMA TroubleType == ASSUME Type, Trouble PROVE Type'
<1>1. Fault => faults' \in 0..MaxFaults
  BY Bounds DEF Fault, Type, TypeOK
<1>2. CASE RollbackFails
  BY <1>1, <1>2 DEF RollbackFails, Fault, Type, TypeOK, StreamsOK
<1>3. CASE SettleFails
  <2>1. Tail(closes) \in Seq(Closing)
    BY <1>3, Taken DEF SettleFails, Type, StreamsOK
  <2>. QED BY <1>1, <1>3, <2>1 DEF SettleFails, Fault, Type, TypeOK, StreamsOK
<1>4. CASE Restart
  BY SMTT(60), <1>1, <1>4 DEF Restart, Fault, Type, TypeOK, StreamsOK
<1>. QED BY <1>2, <1>3, <1>4 DEF Trouble

\* Every step keeps the types.
LEMMA TypeStep == ASSUME Type, [Next]_vars PROVE Type'
<1>1. CASE UNCHANGED vars
  BY <1>1 DEF vars, Type, TypeOK, StreamsOK
<1>. QED BY <1>1, ApiType, OrderType, CloseType, PublishType, ListenerType, TroubleType DEF Next

-------------------------------------------------------------------------------
(* What no step changes.                                                   *)

\* The margin an order was placed with, and what the wallet holds for it.
SameMargin(x) == row'[x].cash = row[x].cash /\ row'[x].bonus = row[x].bonus

\* An outcome is final; a filled order's position only loses margin and exposure.
Final(x) ==
  /\ engine[x] \in Ended \cup {"filled"} => engine'[x] = engine[x] /\ SameMargin(x)
  /\ engine[x] \in Ended /\ (rolling = x => ~Rollback) => held'[x] = held[x]
  /\ engine[x] = "filled" /\ hash'[x].status = "open" /\ x \notin reopened'
       => /\ Exposed(x)
          /\ hash'[x].cash <= hash[x].cash /\ hash'[x].bonus <= hash[x].bonus

\* A step that leaves the books of an order alone.
LEMMA Quiet ==
  ASSUME Type, NEW x \in Orders, engine'[x] = engine[x], SameMargin(x), held'[x] = held[x],
         hash'[x] = hash[x], reopened' = reopened
  PROVE  Final(x)
<1>1. hash[x] \in Hash
  BY HalfType
<1>. QED BY <1>1 DEF Final, Exposed, IsOpen, Hash

LEMMA ApiFinal == ASSUME Inv, NEW o \in Orders, NEW x \in Orders, Api(o) PROVE Final(x)
<1>1. CASE Place(o)
  <2>1. CASE x = o
    BY <1>1, <2>1 DEF Place, Inv, BooksOK, HeldOK, Final, Ended
  <2>2. CASE x # o
    <3>1. /\ engine'[x] = engine[x] /\ SameMargin(x) /\ held'[x] = held[x]
          /\ hash'[x] = hash[x] /\ reopened' = reopened
      BY <1>1, <2>2 DEF Place, Holds, SameMargin, Inv, Type, TypeOK
    <3>. QED BY <3>1, Quiet DEF Inv
  <2>. QED BY <2>1, <2>2
<1>2. CASE RequestCancel(o)
  <2>1. /\ engine'[x] = engine[x] /\ SameMargin(x) /\ held'[x] = held[x]
        /\ hash'[x] = hash[x] /\ reopened' = reopened
    BY SMTT(60), <1>2 DEF RequestCancel, SameMargin, Inv, Type, TypeOK
  <2>. QED BY <2>1, Quiet DEF Inv
<1>. QED BY <1>1, <1>2 DEF Api

LEMMA OrderFinal == ASSUME Inv, NEW o \in Orders, NEW x \in Orders, OrderStep(o) PROVE Final(x)
<1>1. /\ SameMargin(x) /\ held'[x] = held[x] /\ reopened' = reopened
      /\ engine \in [Orders -> {"none", "sent", "pending", "filled"} \cup Ended]
      /\ hash \in [Orders -> Hash]
  BY DEF OrderStep, Accepts, Rejects, Cancels, CancelIsLate, Ends, Fills, Engine, SameMargin,
         Inv, Type, TypeOK, Hash
<1>2. CASE x = o /\ ~CancelIsLate(o)
  BY <1>2 DEF OrderStep, Accepts, Rejects, Cancels, Fills, Final, Ended
<1>3. CASE x # o \/ CancelIsLate(o)
  <2>1. engine'[x] = engine[x] /\ hash'[x] = hash[x]
    BY <1>1, <1>3 DEF OrderStep, Accepts, Rejects, Cancels, CancelIsLate, Ends, Fills, Engine
  <2>. QED BY <1>1, <2>1, Quiet DEF Inv
<1>. QED BY <1>2, <1>3

LEMMA CloseFinal == ASSUME Inv, NEW o \in Orders, NEW x \in Orders, CloseStep(o) PROVE Final(x)
<1>1. /\ engine' = engine /\ row' = row /\ held' = held
      /\ \E p : hash' = [hash EXCEPT ![o] = p]
  BY DEF CloseStep, Reopens, ClosesPart, Closes, ClosesAll, Triggers, Engine
<1>2. hash \in [Orders -> Hash] /\ hash[o] \in Hash
  BY DEF Inv, Type, TypeOK, Hash
<1>3. x \in reopened => x \in reopened'
  BY DEF CloseStep, Reopens, ClosesPart, Closes, ClosesAll, Triggers
<1>4. CASE x # o
  <2>1. hash'[x] = hash[x]
    BY <1>1, <1>2, <1>4
  <2>2. hash[x] \in Hash
    BY <1>2
  <2>. QED BY <1>1, <1>3, <2>1, <2>2 DEF Final, SameMargin, Exposed, IsOpen, Hash
<1>5. CASE x = o
  <2>1. engine'[x] = engine[x] /\ SameMargin(x) /\ held'[x] = held[x]
    BY <1>1 DEF SameMargin
  <2>2. \/ hash'[o].status = "closed" \/ o \in reopened'
        \/ /\ IsOpen(o) /\ hash'[o].status = "open"
           /\ hash'[o].cash = hash[o].cash - Half(o).cash
           /\ hash'[o].bonus = hash[o].bonus - Half(o).bonus
    <3>1. CASE Reopens(o)
      BY <3>1 DEF Reopens
    <3>2. ASSUME NEW pnl \in Profits, Closes(o, pnl) \/ ClosesAll(o, pnl) \/ Triggers(o, pnl)
          PROVE  hash'[o].status = "closed"
      <4>1. hash'[o] = Gone(o, pnl)
        BY <1>2, <3>2 DEF Closes, ClosesAll, Triggers, Engine
      <4>. QED BY <1>2, <4>1 DEF Gone, Hash
    <3>3. ASSUME NEW pnl \in Profits, ClosesPart(o, pnl)
          PROVE  /\ IsOpen(o) /\ hash'[o].status = "open"
                 /\ hash'[o].cash = hash[o].cash - Half(o).cash
                 /\ hash'[o].bonus = hash[o].bonus - Half(o).bonus
      BY <1>2, <3>3 DEF ClosesPart, Engine, IsOpen, Hash
    <3>. QED BY <3>1, <3>2, <3>3 DEF CloseStep
  <2>3. /\ hash[o].cash - Half(o).cash <= hash[o].cash
        /\ hash[o].bonus - Half(o).bonus <= hash[o].bonus
    BY <1>2, HalfType DEF Inv, Hash
  <2>. QED BY <1>3, <1>5, <2>1, <2>2, <2>3 DEF Final, Exposed
<1>. QED BY <1>4, <1>5

LEMMA PublishFinal == ASSUME Inv, NEW h \in Handlers, NEW x \in Orders, Publishes(h) PROVE Final(x)
<1>1. /\ engine'[x] = engine[x] /\ SameMargin(x) /\ held'[x] = held[x]
      /\ hash'[x] = hash[x] /\ reopened' = reopened
  BY DEF Publishes, SameMargin
<1>. QED BY <1>1, Quiet DEF Inv

\* The message a listener takes is fine and stays of its type.
LEMMA NextClose ==
  ASSUME Inv, closes # <<>>
  PROVE  /\ Head(closes) \in Closing /\ MessageOK(Head(closes))
<1>1. Head(closes) \in Closing /\ 1 \in 1..Len(closes) /\ Head(closes) = closes[1]
  BY Taken DEF Inv, Type, StreamsOK
<1>. QED BY <1>1 DEF Inv, MessagesOK

LEMMA ListenerFinal == ASSUME Inv, NEW x \in Orders, Listeners \/ Trouble PROVE Final(x)
<1>1. engine'[x] = engine[x] /\ hash'[x] = hash[x] /\ reopened' = reopened
  BY DEF Listeners, Trouble, Outcome, Rollback, Update, UpdatePanics, Settles, SettlesNothing,
         RollbackFails, SettleFails, Restart, Fault
<1>2. SameMargin(x)
  <2>1. CASE Outcome
    <3>. DEFINE e == Head(outcomes)
    <3>1. row' = [row EXCEPT ![e.order].status = e.status]
      BY <2>1 DEF Outcome
    <3>. HIDE DEF e
    <3>. QED BY SMTT(60), <3>1 DEF SameMargin, Inv, Type, TypeOK
  <2>2. CASE ~Outcome
    BY <2>2 DEF Listeners, Trouble, Rollback, Update, UpdatePanics, Settles, SettlesNothing,
                RollbackFails, SettleFails, Restart, SameMargin
  <2>. QED BY <2>1, <2>2
<1>3. CASE Settles
  <2>. DEFINE e == Head(closes)
  <2>1. e \in Closing /\ MessageOK(e) /\ e.pos \in Orders
    BY <1>3, NextClose DEF Settles, Closing
  <2>2. engine[e.pos] = "filled"
    BY <2>1 DEF MessageOK
  <2>3. LetsGo(e.pos, e)
    BY <1>3 DEF Settles
  <2>. HIDE DEF e
  <2>4. engine[x] \in Ended => held'[x] = held[x]
    BY <2>2, <2>3 DEF LetsGo, Holds, Inv, Type, TypeOK, Ended
  <2>5. hash[x] \in Hash
    BY HalfType DEF Inv
  <2>. QED BY <1>1, <1>2, <2>4, <2>5 DEF Final, Exposed, IsOpen, Hash
<1>4. CASE Rollback
  <2>1. rolling # x => held'[x] = held[x]
    BY <1>4 DEF Rollback, LetsGo, Holds, Inv, Type, TypeOK
  <2>2. hash[x] \in Hash
    BY HalfType DEF Inv
  <2>. QED BY <1>1, <1>2, <1>4, <2>1, <2>2 DEF Final, Exposed, IsOpen, Hash
<1>5. CASE ~Settles /\ ~Rollback
  <2>1. held' = held
    BY <1>5 DEF Listeners, Trouble, Outcome, Update, UpdatePanics, SettlesNothing,
                RollbackFails, SettleFails, Restart
  <2>. QED BY <1>1, <1>2, <2>1, Quiet DEF Inv
<1>. QED BY <1>3, <1>4, <1>5

LEMMA FinalStep == ASSUME Inv, [Next]_vars, NEW x \in Orders PROVE Final(x)
<1>1. CASE UNCHANGED vars
  BY <1>1, Quiet DEF vars, SameMargin, Inv
<1>. QED BY <1>1, ApiFinal, OrderFinal, CloseFinal, PublishFinal, ListenerFinal DEF Next

-------------------------------------------------------------------------------
(* The messages.                                                           *)

\* What MessageOK says of a message after the step.
StillOK(m) ==
  /\ engine'[m.pos] = "filled"
  /\ m.kind = "closed" =>
       /\ m.cash <= row'[m.pos].cash /\ m.bonus <= row'[m.pos].bonus
       /\ hash'[m.pos].status = "open" /\ m.pos \notin reopened' =>
            /\ m.cash + hash'[m.pos].cash <= row'[m.pos].cash
            /\ m.bonus + hash'[m.pos].bonus <= row'[m.pos].bonus
  /\ m.kind = "triggered" => ~(hash'[m.pos].status = "open" /\ m.pos \notin reopened')

LEMMA MessagesNext ==
  ASSUME \A h \in Handlers : \A i \in 1..Len(todo'[h]) : StillOK(todo'[h][i]),
         \A i \in 1..Len(closes') : StillOK(closes'[i]),
         \A i \in 1..Len(updates') : engine'[updates'[i].pos] = "filled"
  PROVE  MessagesOK'
BY DEF MessagesOK, MessageOK, StillOK, Exposed, IsOpen

\* A message that was fine is fine after any step.
LEMMA MessageStays ==
  ASSUME Inv, Type', [Next]_vars, NEW m \in Closing \cup Notice, MessageOK(m)
  PROVE  StillOK(m)
<1>1. m.pos \in Orders /\ (m.kind = "closed" => m.cash \in Nat /\ m.bonus \in Nat)
  BY DEF Closing, Notice
<1>2. Final(m.pos)
  BY <1>1, FinalStep
<1>3. /\ hash[m.pos] \in Hash /\ hash'[m.pos] \in Hash
      /\ row[m.pos].cash \in Nat /\ row[m.pos].bonus \in Nat
  BY <1>1 DEF Inv, Type, TypeOK, Hash
<1>. QED BY <1>1, <1>2, <1>3 DEF Final, SameMargin, MessageOK, StillOK, Hash

\* So are the queued messages a step leaves.
LEMMA TodoStays ==
  ASSUME Inv, Type', [Next]_vars, NEW h \in Handlers, NEW i \in 1..Len(todo[h])
  PROVE  StillOK(todo[h][i])
<1>1. todo[h][i] \in Closing \cup Notice /\ MessageOK(todo[h][i])
  BY DEF Inv, Type, StreamsOK, MessagesOK
<1>. QED BY <1>1, MessageStays

LEMMA ClosesStay ==
  ASSUME Inv, Type', [Next]_vars, NEW i \in 1..Len(closes)
  PROVE  StillOK(closes[i])
<1>1. closes[i] \in Closing \cup Notice /\ MessageOK(closes[i])
  BY DEF Inv, Type, StreamsOK, MessagesOK
<1>. QED BY <1>1, MessageStays

LEMMA UpdatesStay ==
  ASSUME Inv, [Next]_vars, NEW i \in 1..Len(updates)
  PROVE  engine'[updates[i].pos] = "filled"
<1>1. updates[i] \in Updates /\ engine[updates[i].pos] = "filled"
  BY DEF Inv, Type, StreamsOK, MessagesOK
<1>2. updates[i].pos \in Orders
  BY <1>1 DEF Updates
<1>3. Final(updates[i].pos)
  BY <1>2, FinalStep
<1>. QED BY <1>1, <1>3 DEF Final

\* A step that only takes messages.
LEMMA NothingNew ==
  ASSUME Inv, Type', [Next]_vars, todo' = todo, Kept(closes, closes'), Kept(updates, updates')
  PROVE  MessagesOK'
<1>1. \A h \in Handlers : \A i \in 1..Len(todo'[h]) : StillOK(todo'[h][i])
  BY TodoStays
<1>2. \A i \in 1..Len(closes') : StillOK(closes'[i])
  BY ClosesStay DEF Kept
<1>3. \A i \in 1..Len(updates') : engine'[updates'[i].pos] = "filled"
  BY SMTT(60), UpdatesStay DEF Kept
<1>. QED BY <1>1, <1>2, <1>3, MessagesNext

\* A step of the engine that leaves a task with new messages.
LEMMA NewMessages ==
  ASSUME Inv, Type', [Next]_vars, NEW h \in Handlers, NEW messages,
         todo' = [todo EXCEPT ![h] = messages], closes' = closes, updates' = updates,
         \A i \in 1..Len(messages) : StillOK(messages[i])
  PROVE  MessagesOK'
<1>1. \A g \in Handlers : \A i \in 1..Len(todo'[g]) : StillOK(todo'[g][i])
  <2>. TAKE g \in Handlers
  <2>. TAKE i \in 1..Len(todo'[g])
  <2>1. CASE g = h
    BY <2>1 DEF Inv, Type, StreamsOK
  <2>2. CASE g # h
    <3>1. todo'[g] = todo[g]
      BY <2>2 DEF Inv, Type, StreamsOK
    <3>. QED BY <3>1, TodoStays
  <2>. QED BY <2>1, <2>2
<1>. QED BY <1>1, ClosesStay, UpdatesStay, MessagesNext

LEMMA ApiMessages == ASSUME Inv, Type', [Next]_vars, NEW o \in Orders, Api(o) PROVE MessagesOK'
BY NothingNew, Unmoved DEF Api, Place, RequestCancel

LEMMA OrderMessages ==
  ASSUME Inv, Type', [Next]_vars, NEW o \in Orders, OrderStep(o) PROVE MessagesOK'
<1>1. CASE ~Fills(o)
  BY <1>1, NothingNew, Unmoved
     DEF OrderStep, Accepts, Rejects, Cancels, CancelIsLate, Ends
<1>2. CASE Fills(o)
  <2>. DEFINE messages == <<Message("filled", o, "filled"), Message("updated", o, "open")>>
  <2>1. engine'[o] = "filled"
    BY <1>2 DEF Fills, Inv, Type, TypeOK
  <2>2. \A i \in 1..Len(messages) : StillOK(messages[i])
    BY <2>1 DEF StillOK, Message
  <2>3. /\ todo' = [todo EXCEPT ![o] = messages] /\ closes' = closes /\ updates' = updates
        /\ o \in Handlers
    BY <1>2 DEF Fills, Engine, Handlers
  <2>. HIDE DEF messages
  <2>. QED BY <2>2, <2>3, NewMessages
<1>. QED BY <1>1, <1>2

LEMMA ListenerMessages ==
  ASSUME Inv, Type', [Next]_vars, Listeners \/ Trouble PROVE MessagesOK'
<1>1. todo' = todo
  BY DEF Listeners, Trouble, Outcome, Rollback, Update, UpdatePanics, Settles, SettlesNothing,
         RollbackFails, SettleFails, Restart
<1>2. closes' = closes \/ (closes # <<>> /\ closes' = Tail(closes)) \/ closes' = <<>>
  BY DEF Listeners, Trouble, Outcome, Rollback, Update, UpdatePanics, Settles, SettlesNothing,
         RollbackFails, SettleFails, Restart
<1>3. updates' = updates \/ (updates # <<>> /\ updates' = Tail(updates)) \/ updates' = <<>>
  BY DEF Listeners, Trouble, Outcome, Rollback, Update, UpdatePanics, Settles, SettlesNothing,
         RollbackFails, SettleFails, Restart
<1>4. Kept(closes, closes')
  BY <1>2, Rest DEF Inv, Type, StreamsOK
<1>5. Kept(updates, updates')
  BY <1>3, Rest DEF Inv, Type, StreamsOK
<1>. QED BY <1>1, <1>4, <1>5, NothingNew

\* The margin a close gives away is no longer in the hash, or the position is not open.
LEMMA CloseMessages ==
  ASSUME Inv, Type', [Next]_vars, NEW o \in Orders, CloseStep(o) PROVE MessagesOK'
<1>1. /\ hash \in [Orders -> Hash] /\ hash[o] \in Hash
      /\ hash[o].cash \in Nat /\ hash[o].bonus \in Nat
      /\ row[o].cash \in Nat /\ row[o].bonus \in Nat
      /\ hash[o].cash <= row[o].cash /\ hash[o].bonus <= row[o].bonus
  BY DEF Inv, Type, TypeOK, BooksOK, HeldOK, Hash
<1>2. /\ engine' = engine /\ row' = row /\ closes' = closes /\ updates' = updates
      /\ \E p : hash' = [hash EXCEPT ![o] = p]
  BY DEF CloseStep, Reopens, ClosesPart, Closes, ClosesAll, Triggers, Engine
<1>3. engine[o] = "filled"
  <2>1. hash[o].status # "none"
    BY DEF CloseStep, Reopens, ClosesPart, Closes, ClosesAll, Triggers, IsOpen
  <2>. QED BY <2>1 DEF Inv, BooksOK, HeldOK
<1>4. {"close", "closeAll", "trigger", "reopen"} \subseteq Handlers
  BY DEF Handlers
<1>5. \A status : StillOK(Message("updated", o, status))
  BY <1>2, <1>3 DEF StillOK, Message
<1>6. CASE Reopens(o)
  <2>. DEFINE messages == <<Message("updated", o, "open")>>
  <2>1. todo' = [todo EXCEPT !["reopen"] = messages]
    BY <1>6 DEF Reopens, Engine
  <2>2. \A i \in 1..Len(messages) : StillOK(messages[i])
    BY <1>5
  <2>. HIDE DEF messages
  <2>. QED BY <1>2, <1>4, <2>1, <2>2, NewMessages
<1>7. ASSUME NEW pnl \in Profits, hash' = [hash EXCEPT ![o] = Gone(o, pnl)]
      PROVE  /\ StillOK(ClosedMessage(o, hash[o], pnl))
             /\ StillOK(Message("triggered", o, "closed"))
  <2>1. hash'[o].status = "closed"
    BY <1>1, <1>7 DEF Gone, Hash
  <2>. QED BY <1>1, <1>2, <1>3, <2>1 DEF StillOK, ClosedMessage, Message
<1>8. ASSUME NEW pnl \in Profits, Closes(o, pnl) PROVE MessagesOK'
  <2>. DEFINE messages == <<ClosedMessage(o, hash[o], pnl), Message("updated", o, "closed")>>
  <2>1. todo' = [todo EXCEPT !["close"] = messages] /\ hash' = [hash EXCEPT ![o] = Gone(o, pnl)]
    BY <1>8 DEF Closes, Engine
  <2>2. /\ StillOK(ClosedMessage(o, hash[o], pnl)) /\ StillOK(Message("triggered", o, "closed"))
        /\ StillOK(Message("updated", o, "closed"))
    BY <1>5, <1>7, <2>1
  <2>3. \A i \in 1..Len(messages) : StillOK(messages[i])
    BY <2>2
  <2>. HIDE DEF messages
  <2>. QED BY <1>2, <1>4, <2>1, <2>3, NewMessages
<1>9. ASSUME NEW pnl \in Profits, ClosesAll(o, pnl) PROVE MessagesOK'
  <2>. DEFINE messages == <<Message("updated", o, "closed"), ClosedMessage(o, hash[o], pnl)>>
  <2>1. todo' = [todo EXCEPT !["closeAll"] = messages] /\ hash' = [hash EXCEPT ![o] = Gone(o, pnl)]
    BY <1>9 DEF ClosesAll, Engine
  <2>2. /\ StillOK(ClosedMessage(o, hash[o], pnl)) /\ StillOK(Message("triggered", o, "closed"))
        /\ StillOK(Message("updated", o, "closed"))
    BY <1>5, <1>7, <2>1
  <2>3. \A i \in 1..Len(messages) : StillOK(messages[i])
    BY <2>2
  <2>. HIDE DEF messages
  <2>. QED BY <1>2, <1>4, <2>1, <2>3, NewMessages
<1>10. ASSUME NEW pnl \in Profits, Triggers(o, pnl) PROVE MessagesOK'
  <2>. DEFINE messages == <<Message("triggered", o, "closed"), Message("updated", o, "closed")>>
  <2>1. todo' = [todo EXCEPT !["trigger"] = messages] /\ hash' = [hash EXCEPT ![o] = Gone(o, pnl)]
    BY <1>10 DEF Triggers, Engine
  <2>2. /\ StillOK(ClosedMessage(o, hash[o], pnl)) /\ StillOK(Message("triggered", o, "closed"))
        /\ StillOK(Message("updated", o, "closed"))
    BY <1>5, <1>7, <2>1
  <2>3. \A i \in 1..Len(messages) : StillOK(messages[i])
    BY <2>2
  <2>. HIDE DEF messages
  <2>. QED BY <1>2, <1>4, <2>1, <2>3, NewMessages
<1>11. ASSUME NEW pnl \in Profits, ClosesPart(o, pnl) PROVE MessagesOK'
  <2>. DEFINE messages == <<ClosedMessage(o, Half(o), pnl), Message("updated", o, "closed")>>
  <2>1. /\ todo' = [todo EXCEPT !["close"] = messages]
        /\ hash'[o].cash = hash[o].cash - Half(o).cash
        /\ hash'[o].bonus = hash[o].bonus - Half(o).bonus
    BY <1>1, <1>11 DEF ClosesPart, Engine, Hash
  <2>2. /\ Half(o).cash \in Nat /\ Half(o).cash <= hash[o].cash
        /\ Half(o).bonus \in Nat /\ Half(o).bonus <= hash[o].bonus
    BY <1>1, HalfOf DEF Half
  <2>3. StillOK(ClosedMessage(o, Half(o), pnl))
    BY <1>1, <1>2, <1>3, <2>1, <2>2 DEF StillOK, ClosedMessage
  <2>4. \A i \in 1..Len(messages) : StillOK(messages[i])
    BY <1>5, <2>3
  <2>. HIDE DEF messages
  <2>. QED BY <1>2, <1>4, <2>1, <2>4, NewMessages
<1>. QED BY <1>6, <1>8, <1>9, <1>10, <1>11 DEF CloseStep

\* A published message is one of the task's, or made from the hash of a closed position.
LEMMA PublishMessages ==
  ASSUME Inv, Type', [Next]_vars, NEW h \in Handlers, Publishes(h) PROVE MessagesOK'
<1>. DEFINE m == Head(todo[h])
            p == hash[m.pos]
            c == IF m.kind = "closed" THEN m ELSE ClosedMessage(m.pos, p, p.pnl)
            u == [pos |-> m.pos, status |-> m.status, size |-> p.size]
<1>1. todo[h] \in Seq(Closing \cup Notice) /\ todo[h] # <<>>
  BY DEF Publishes, Idle, Inv, Type, StreamsOK
<1>2. /\ m \in Closing \cup Notice /\ 1 \in 1..Len(todo[h]) /\ m = todo[h][1]
      /\ Kept(todo[h], Tail(todo[h]))
  BY <1>1, Taken
<1>3. MessageOK(m) /\ StillOK(m)
  <2>1. MessageOK(todo[h][1]) /\ StillOK(todo[h][1])
    BY SMTT(60), <1>2, TodoStays DEF Inv, MessagesOK
  <2>. HIDE DEF m
  <2>. QED BY <1>2, <2>1 DEF MessageOK, StillOK
<1>4. /\ m.pos \in Orders /\ p \in Hash
      /\ c \in Closing /\ (m.kind = "updated" => m.status \in {"open", "closed"})
  BY NextMessage DEF Publishes, Inv
<1>5. engine' = engine /\ row' = row /\ hash' = hash /\ reopened' = reopened
  BY DEF Publishes
<1>6. engine'[m.pos] = "filled" /\ (m.kind = "closed" => StillOK(m))
  BY <1>3 DEF StillOK
<1>7. /\ todo' = [todo EXCEPT ![h] = Tail(@)]
      /\ updates' \in {updates, Append(updates, u)}
      /\ (m.kind # "updated" => updates' = updates)
      /\ \/ m.kind \in {"closed", "triggered"} /\ closes' = Append(closes, c)
         \/ closes' = closes
  BY DEF Publishes
<1>8. \A g \in Handlers : \A i \in 1..Len(todo'[g]) : StillOK(todo'[g][i])
  <2>. TAKE g \in Handlers
  <2>. TAKE i \in 1..Len(todo'[g])
  <2>1. CASE g = h
    <3>1. todo'[g] = Tail(todo[h])
      BY <1>7, <2>1 DEF Inv, Type, StreamsOK
    <3>. QED BY <1>2, <3>1, TodoStays DEF Kept
  <2>2. CASE g # h
    <3>1. todo'[g] = todo[g]
      BY <1>7, <2>2 DEF Inv, Type, StreamsOK
    <3>. QED BY <3>1, TodoStays
  <2>. QED BY <2>1, <2>2
<1>9. m.kind \in {"closed", "triggered"} => StillOK(c)
  <2>1. CASE m.kind = "closed"
    BY <1>6, <2>1
  <2>2. CASE m.kind = "triggered"
    <3>. HIDE DEF m
    <3>1. ~(hash'[m.pos].status = "open" /\ m.pos \notin reopened')
      BY <1>3, <2>2 DEF StillOK
    <3>2. p.cash <= row'[m.pos].cash /\ p.bonus <= row'[m.pos].bonus
      BY <1>4, <1>5 DEF Inv, BooksOK, HeldOK
    <3>3. c = ClosedMessage(m.pos, p, p.pnl)
      BY <2>2
    <3>. QED BY <1>6, <3>1, <3>2, <3>3 DEF StillOK, ClosedMessage
  <2>. QED BY <2>1, <2>2
<1>. HIDE DEF m, c, p
<1>10. \A i \in 1..Len(closes') : StillOK(closes'[i])
  <2>1. CASE closes' = closes
    BY <2>1, ClosesStay
  <2>2. CASE StillOK(c) /\ closes' = Append(closes, c)
    <3>1. \A i \in 1..Len(closes') : \/ i \in 1..Len(closes) /\ closes'[i] = closes[i]
                                     \/ i \notin 1..Len(closes) /\ closes'[i] = c
      BY <1>4, <2>2, Appended DEF Inv, Type, StreamsOK
    <3>. QED BY <2>2, <3>1, ClosesStay
  <2>. QED BY <1>7, <1>9, <2>1, <2>2
<1>11. \A i \in 1..Len(updates') : engine'[updates'[i].pos] = "filled"
  <2>1. CASE updates' = updates
    BY <2>1, UpdatesStay
  <2>2. CASE m.kind = "updated" /\ updates' = Append(updates, u)
    <3>1. u \in Updates
      BY <1>4, <2>2 DEF Updates, Hash
    <3>2. engine'[u.pos] = "filled"
      BY <1>6
    <3>. HIDE DEF u
    <3>. QED BY SMTT(60), <2>2, <3>1, <3>2, Appended, UpdatesStay DEF Inv, Type, StreamsOK
  <2>. QED BY <1>7, <2>1, <2>2
<1>. QED BY <1>8, <1>10, <1>11, MessagesNext

LEMMA MessagesStep == ASSUME Inv, Type', [Next]_vars PROVE MessagesOK'
<1>1. CASE UNCHANGED vars
  BY <1>1, NothingNew, Unmoved DEF vars
<1>. QED BY <1>1, ApiMessages, OrderMessages, CloseMessages, PublishMessages, ListenerMessages
         DEF Next

-------------------------------------------------------------------------------
(* The outcomes and the rollback that follows one.                         *)

\* The margin of an order whose end is announced but not handled is still held.
LEMMA OldOutcome ==
  ASSUME Inv, [Next]_vars, NEW i \in 1..Len(outcomes), outcomes[i].status \in Ended
  PROVE  /\ outcomes[i].order \in Orders
         /\ engine'[outcomes[i].order] = outcomes[i].status
         /\ held'[outcomes[i].order].cash = row'[outcomes[i].order].cash
         /\ held'[outcomes[i].order].bonus = row'[outcomes[i].order].bonus
         /\ rolling # outcomes[i].order
<1>1. outcomes[i] \in Outcomes /\ Owing(i)
  BY DEF Inv, Type, StreamsOK, OutcomesOK
<1>2. outcomes[i].order \in Orders
  BY <1>1 DEF Outcomes
<1>3. Final(outcomes[i].order)
  BY <1>2, FinalStep
<1>. QED BY <1>1, <1>2, <1>3 DEF Owing, HoldsAll, Final, SameMargin

\* A step that announces no order's end.
LEMMA NoNewOutcome ==
  ASSUME Inv, [Next]_vars,
         outcomes' = outcomes \/ (outcomes # <<>> /\ outcomes' = Tail(outcomes)) \/ outcomes' = <<>>,
         \A i \in 1..Len(outcomes') :
           outcomes'[i].status \in Ended => rolling' # outcomes'[i].order
  PROVE  OutcomesOK'
<1>1. CASE outcomes' = outcomes
  BY <1>1, OldOutcome DEF Inv, OutcomesOK, Owing, HoldsAll
<1>2. CASE outcomes # <<>> /\ outcomes' = Tail(outcomes)
  <2>1. \A i \in 1..Len(outcomes') : i + 1 \in 1..Len(outcomes) /\ outcomes'[i] = outcomes[i + 1]
    BY <1>2, Taken DEF Inv, Type, StreamsOK
  <2>2. \A i, j \in 1..Len(outcomes') : i # j => i + 1 # j + 1
    OBVIOUS
  <2>. QED BY SMTT(60), <2>1, <2>2, OldOutcome DEF Inv, OutcomesOK, Owing, HoldsAll
<1>3. CASE outcomes' = <<>>
  BY <1>3 DEF OutcomesOK
<1>. QED BY <1>1, <1>2, <1>3

\* A step that announces one.
LEMMA NewOutcome ==
  ASSUME Inv, [Next]_vars, NEW e \in Outcomes, outcomes' = Append(outcomes, e), rolling' = rolling,
         e.status \in Ended =>
           /\ engine[e.order] \notin Ended /\ engine'[e.order] = e.status
           /\ HoldsAll(e.order)'
  PROVE  OutcomesOK'
<1>1. /\ outcomes \in Seq(Outcomes)
      /\ \A i \in 1..Len(outcomes') :
           \/ i \in 1..Len(outcomes) /\ outcomes'[i] = outcomes[i]
           \/ i \notin 1..Len(outcomes) /\ outcomes'[i] = e
  BY Appended DEF Inv, Type, StreamsOK
<1>2. \A i, j \in 1..Len(outcomes') : i # j => i \in 1..Len(outcomes) \/ j \in 1..Len(outcomes)
  BY <1>1, AppendProperties
<1>3. e.status \in Ended => \A i \in 1..Len(outcomes) :
        outcomes[i].status \in Ended => outcomes[i].order # e.order
  BY DEF Inv, OutcomesOK, Owing
<1>4. e.status \in Ended => rolling # e.order
  BY Bounds DEF Inv, RollingOK, Outcomes
<1>5. ASSUME NEW i \in 1..Len(outcomes'), outcomes'[i].status \in Ended
      PROVE  /\ engine'[outcomes'[i].order] = outcomes'[i].status
             /\ held'[outcomes'[i].order].cash = row'[outcomes'[i].order].cash
             /\ held'[outcomes'[i].order].bonus = row'[outcomes'[i].order].bonus
             /\ rolling' # outcomes'[i].order
  BY <1>1, <1>4, <1>5, OldOutcome DEF HoldsAll
<1>6. ASSUME NEW i \in 1..Len(outcomes'), NEW j \in 1..Len(outcomes'), i # j,
             outcomes'[i].status \in Ended, outcomes'[j].status \in Ended
      PROVE  outcomes'[j].order # outcomes'[i].order
  BY <1>1, <1>2, <1>3, <1>6 DEF Inv, OutcomesOK, Owing
<1>. QED BY <1>5, <1>6 DEF OutcomesOK, Owing, HoldsAll

LEMMA OutcomesStep == ASSUME Inv, [Next]_vars PROVE OutcomesOK'
<1>1. ASSUME outcomes' = outcomes, rolling' \in {rolling, None} PROVE OutcomesOK'
  <2>1. \A i \in 1..Len(outcomes) :
          outcomes[i].status \in Ended => rolling' # outcomes[i].order
    BY <1>1, OldOutcome, Bounds
  <2>. QED BY <1>1, <2>1, NoNewOutcome
<1>2. CASE UNCHANGED vars
  BY <1>1, <1>2 DEF vars
<1>3. ASSUME NEW o \in Orders, Api(o) \/ CloseStep(o) \/ Accepts(o) \/ CancelIsLate(o) \/ Fills(o)
      PROVE  OutcomesOK'
  BY <1>1, <1>3 DEF Api, Place, RequestCancel, CloseStep, Reopens, ClosesPart, Closes, ClosesAll,
                    Triggers, Engine, Accepts, CancelIsLate, Fills
<1>4. ASSUME NEW o \in Orders, NEW status \in Ended, Ends(o, status),
             engine[o] \in {"sent", "pending"}
      PROVE  OutcomesOK'
  <2>. DEFINE e == [order |-> o, status |-> status]
  <2>1. e \in Outcomes /\ outcomes' = Append(outcomes, e) /\ rolling' = rolling
    BY <1>4 DEF Outcomes, Ends
  <2>2. /\ engine[e.order] \notin Ended /\ engine'[e.order] = e.status
        /\ held' = held /\ row' = row /\ HoldsAll(o)
    BY <1>4 DEF Ends, Ended, Inv, Type, TypeOK, BooksOK, HeldOK
  <2>3. HoldsAll(e.order)'
    BY <2>2 DEF HoldsAll
  <2>. HIDE DEF e
  <2>. QED BY <2>1, <2>2, <2>3, NewOutcome
<1>5. ASSUME NEW o \in Orders, Rejects(o) \/ Cancels(o) PROVE OutcomesOK'
  BY <1>4, <1>5 DEF Rejects, Cancels, Ended
<1>6. ASSUME NEW h \in Handlers, Publishes(h) PROVE OutcomesOK'
  <2>. DEFINE e == [order |-> Head(todo[h]).pos, status |-> "filled"]
  <2>1. rolling' = rolling /\ (outcomes' = outcomes \/ outcomes' = Append(outcomes, e))
    BY <1>6 DEF Publishes
  <2>2. e \in Outcomes /\ e.status \notin Ended
    BY <1>6, NextMessage DEF Publishes, Outcomes, Ended, Inv
  <2>. HIDE DEF e
  <2>. QED BY <1>1, <2>1, <2>2, NewOutcome
<1>7. CASE Outcome
  <2>1. /\ outcomes # <<>> /\ outcomes' = Tail(outcomes)
        /\ rolling' = None \/ (rolling' = Head(outcomes).order /\ Head(outcomes).status \in Ended)
    BY <1>7 DEF Outcome
  <2>2. /\ 1 \in 1..Len(outcomes) /\ Head(outcomes) = outcomes[1]
        /\ \A i \in 1..Len(outcomes') : i + 1 \in 1..Len(outcomes) /\ outcomes'[i] = outcomes[i + 1]
    BY <2>1, Taken DEF Inv, Type, StreamsOK
  <2>3. ASSUME NEW i \in 1..Len(outcomes'), outcomes'[i].status \in Ended
        PROVE  rolling' # outcomes'[i].order
    <3>1. i + 1 # 1 /\ Owing(i + 1) /\ outcomes'[i].order \in Orders
      BY <2>2, <2>3, OldOutcome DEF Inv, OutcomesOK
    <3>. QED BY <2>1, <2>2, <2>3, <3>1, Bounds DEF Owing
  <2>. QED BY <2>1, <2>3, NoNewOutcome
<1>8. ASSUME Listeners \/ Trouble, ~Outcome, ~Restart PROVE OutcomesOK'
  BY <1>1, <1>8 DEF Listeners, Trouble, Rollback, Update, UpdatePanics, Settles, SettlesNothing,
                    RollbackFails, SettleFails
<1>9. CASE Restart
  BY <1>9 DEF Restart, OutcomesOK
<1>. QED BY <1>2, <1>3, <1>5, <1>6, <1>7, <1>8, <1>9 DEF Next, OrderStep

LEMMA RollingStep == ASSUME Inv, [Next]_vars PROVE RollingOK'
<1>1. \/ rolling' = None \/ (rolling' = rolling /\ ~Rollback)
      \/ /\ Outcome /\ outcomes # <<>>
         /\ rolling' = Head(outcomes).order /\ Head(outcomes).status \in Ended
  <2>1. CASE UNCHANGED vars
    BY <2>1 DEF vars, Rollback
  <2>2. ASSUME NEW o \in Orders, Api(o) \/ OrderStep(o) \/ CloseStep(o)
        PROVE  rolling' = rolling
    BY <2>2 DEF Api, Place, RequestCancel, OrderStep, Accepts, Rejects, Cancels, CancelIsLate,
                Ends, Fills, CloseStep, Reopens, ClosesPart, Closes, ClosesAll, Triggers, Engine
  <2>3. ASSUME NEW h \in Handlers, Publishes(h) PROVE rolling' = rolling
    BY <2>3 DEF Publishes
  <2>4. rolling' = rolling => rolling' = None \/ ~Rollback
    BY DEF Rollback
  <2>5. ASSUME Listeners \/ Trouble, ~Outcome PROVE rolling' \in {rolling, None}
    BY <2>5 DEF Listeners, Trouble, Rollback, Update, UpdatePanics, Settles, SettlesNothing,
                RollbackFails, SettleFails, Restart
  <2>6. CASE Outcome
    BY <2>6 DEF Outcome
  <2>. QED BY <2>1, <2>2, <2>3, <2>4, <2>5, <2>6 DEF Next
<1>2. CASE rolling' = None
  BY <1>2 DEF RollingOK
<1>3. CASE rolling' = rolling /\ rolling # None /\ ~Rollback
  <2>1. rolling \in Orders /\ engine[rolling] \in Ended /\ HoldsAll(rolling)
    BY <1>3 DEF Inv, Type, TypeOK, RollingOK
  <2>2. Final(rolling)
    BY <2>1, FinalStep
  <2>3. engine'[rolling] \in Ended /\ SameMargin(rolling) /\ held'[rolling] = held[rolling]
    BY <1>3, <2>1, <2>2 DEF Final
  <2>. QED BY <1>3, <2>1, <2>3 DEF RollingOK, HoldsAll, SameMargin
<1>4. CASE outcomes # <<>> /\ rolling' = Head(outcomes).order /\ Head(outcomes).status \in Ended
  <2>1. 1 \in 1..Len(outcomes) /\ Head(outcomes) = outcomes[1]
    BY <1>4, Taken DEF Inv, Type, StreamsOK
  <2>. QED BY <1>4, <2>1, OldOutcome DEF RollingOK, HoldsAll
<1>. QED BY <1>1, <1>2, <1>3, <1>4

-------------------------------------------------------------------------------
(* The books.                                                              *)

\* An order whose part of the books a step leaves alone.
LEMMA BooksQuiet ==
  ASSUME Inv, NEW x \in Orders, row'[x] = row[x], engine'[x] = engine[x], held'[x] = held[x],
         hash'[x] = hash[x], db'[x] = db[x], x \in reopened' <=> x \in reopened
  PROVE  HeldOK(x)'
BY DEF Inv, BooksOK, HeldOK, HoldsAll, Exposed, IsOpen

LEMMA PlaceBooks == ASSUME Inv, NEW o \in Orders, Place(o) PROVE BooksOK'
<1>. DEFINE m == Split(wallet)
<1>1. m.cash \in Nat /\ m.bonus \in Nat
  BY SplitType DEF Inv
<1>2. /\ row[o].status = "none" /\ engine[o] = "none" /\ held[o] = NoMargin
      /\ hash[o].status = "none" /\ db[o].status = "none" /\ ~db[o].released
      /\ hash[o].cash <= 0 /\ hash[o].bonus <= 0
  BY SMTT(60) DEF Place, Inv, BooksOK, HeldOK, HoldsAll, NoMargin, Type, TypeOK
<1>3. /\ row' = [row EXCEPT ![o] = [status |-> "pending", cash |-> m.cash, bonus |-> m.bonus]]
      /\ engine' \in {engine, [engine EXCEPT ![o] = "sent"]} /\ Holds(o, m)
      /\ hash' = hash /\ db' = db /\ reopened' = reopened
  BY DEF Place
<1>. HIDE DEF m
<1>4. /\ row'[o] = [status |-> "pending", cash |-> m.cash, bonus |-> m.bonus]
      /\ engine'[o] \in {"none", "sent"}
      /\ held'[o].cash = m.cash /\ held'[o].bonus = m.bonus
  BY SMTT(60), <1>1, <1>2, <1>3 DEF Holds, NoMargin, Inv, Type, TypeOK
<1>5. hash[o].cash \in Nat /\ hash[o].bonus \in Nat
  BY HalfType DEF Inv, Hash
<1>6. HeldOK(o)'
  BY <1>1, <1>2, <1>3, <1>4, <1>5 DEF HeldOK, HoldsAll, Exposed, IsOpen
<1>7. ASSUME NEW x \in Orders, x # o PROVE HeldOK(x)'
  <2>1. row'[x] = row[x] /\ engine'[x] = engine[x] /\ held'[x] = held[x]
    BY <1>3, <1>7 DEF Holds, Inv, Type, TypeOK
  <2>. QED BY <1>3, <2>1, BooksQuiet
<1>. QED BY <1>6, <1>7 DEF BooksOK

LEMMA RowBooks ==
  ASSUME Inv, NEW o \in Orders, NEW status, status # "none", engine' = engine,
         row[o].status # "none" \/ engine[o] # "none",
         row' = [row EXCEPT ![o].status = status],
         held' = held, hash' = hash, db' = db, reopened' = reopened
  PROVE  BooksOK'
<1>1. /\ row'[o].status = status /\ row'[o].cash = row[o].cash /\ row'[o].bonus = row[o].bonus
      /\ \A x \in Orders : x # o => row'[x] = row[x]
  BY DEF Inv, Type, TypeOK
<1>2. HeldOK(o)'
  BY <1>1 DEF Inv, BooksOK, HeldOK, HoldsAll, Exposed, IsOpen
<1>. QED BY <1>1, <1>2, BooksQuiet DEF BooksOK

LEMMA OrderBooks == ASSUME Inv, NEW o \in Orders, OrderStep(o) PROVE BooksOK'
<1>1. /\ row' = row /\ held' = held /\ db' = db /\ reopened' = reopened
      /\ engine \in [Orders -> {"none", "sent", "pending", "filled"} \cup Ended]
  BY DEF OrderStep, Accepts, Rejects, Cancels, CancelIsLate, Ends, Fills, Engine, Inv, Type, TypeOK
<1>2. CASE CancelIsLate(o)
  BY <1>1, <1>2, BooksQuiet DEF CancelIsLate, BooksOK
<1>3. CASE ~CancelIsLate(o)
  <2>1. /\ engine[o] \in {"sent", "pending"} /\ HeldOK(o)
        /\ \A x \in Orders : x # o => engine'[x] = engine[x] /\ hash'[x] = hash[x]
    BY <1>1, <1>3 DEF OrderStep, Accepts, Rejects, Cancels, Ends, Fills, Engine,
                      Inv, BooksOK, Type, TypeOK
  <2>2. CASE Fills(o)
    <3>1. /\ engine'[o] = "filled"
          /\ hash'[o] = [status |-> "open", size |-> 2, original |-> 0, cash |-> row[o].cash,
                         bonus |-> row[o].bonus, pnl |-> 0]
      BY <2>2 DEF Fills, Engine, Inv, Type, TypeOK
    <3>2. row[o].cash \in Nat /\ row[o].bonus \in Nat
      BY DEF Inv, Type, TypeOK
    <3>3. HeldOK(o)'
      BY <1>1, <2>1, <3>1, <3>2 DEF HeldOK, HoldsAll, Exposed, IsOpen
    <3>. QED BY <1>1, <2>1, <3>3, BooksQuiet DEF BooksOK
  <2>3. CASE ~Fills(o)
    <3>1. hash' = hash /\ engine'[o] \in {"pending"} \cup Ended
      BY <1>1, <1>3, <2>3 DEF OrderStep, Accepts, Rejects, Cancels, Ends, Ended
    <3>2. hash[o].status = "none" /\ db[o].status = "none" /\ ~db[o].released
      BY <2>1 DEF HeldOK
    <3>3. HeldOK(o)'
      BY <1>1, <2>1, <3>1, <3>2 DEF HeldOK, HoldsAll, Exposed, IsOpen, Ended
    <3>. QED BY <1>1, <2>1, <3>1, <3>3, BooksQuiet DEF BooksOK
  <2>. QED BY <2>2, <2>3
<1>. QED BY <1>2, <1>3

LEMMA CloseBooks == ASSUME Inv, NEW o \in Orders, CloseStep(o) PROVE BooksOK'
<1>1. /\ engine' = engine /\ row' = row /\ held' = held /\ db' = db
      /\ \E p : hash' = [hash EXCEPT ![o] = p]
      /\ \A x \in Orders : x # o => (x \in reopened' <=> x \in reopened)
  BY DEF CloseStep, Reopens, ClosesPart, Closes, ClosesAll, Triggers, Engine
<1>2. hash \in [Orders -> Hash] /\ hash[o] \in Hash /\ HeldOK(o)
  BY DEF Inv, Type, TypeOK, BooksOK, Hash
<1>3. engine[o] = "filled" /\ Final(o)
  <2>1. hash[o].status # "none"
    BY DEF CloseStep, Reopens, ClosesPart, Closes, ClosesAll, Triggers, IsOpen
  <2>. QED BY <1>2, <2>1, CloseFinal DEF HeldOK
<1>4. /\ hash'[o].cash <= hash[o].cash /\ hash'[o].bonus <= hash[o].bonus
      /\ hash'[o].cash \in Int /\ hash'[o].bonus \in Int
  <2>1. /\ hash[o].cash \in Int /\ hash[o].bonus \in Int
        /\ hash[o].cash - Half(o).cash \in Int /\ hash[o].bonus - Half(o).bonus \in Int
        /\ hash[o].cash - Half(o).cash <= hash[o].cash
        /\ hash[o].bonus - Half(o).bonus <= hash[o].bonus
    BY <1>2, HalfType DEF Inv, Hash
  <2>2. CASE Reopens(o)
    BY <1>2, <2>1, <2>2 DEF Reopens, Engine, Hash
  <2>3. ASSUME NEW pnl \in Profits, ClosesPart(o, pnl)
        PROVE  /\ hash'[o].cash = hash[o].cash - Half(o).cash
               /\ hash'[o].bonus = hash[o].bonus - Half(o).bonus
    BY <1>2, <2>3 DEF ClosesPart, Engine, Hash
  <2>4. ASSUME NEW pnl \in Profits, Closes(o, pnl) \/ ClosesAll(o, pnl) \/ Triggers(o, pnl)
        PROVE  hash'[o].cash = hash[o].cash /\ hash'[o].bonus = hash[o].bonus
    <3>1. hash'[o] = Gone(o, pnl)
      BY <1>2, <2>4 DEF Closes, ClosesAll, Triggers, Engine
    <3>. QED BY <1>2, <3>1 DEF Gone, Hash
  <2>. QED BY <2>1, <2>2, <2>3, <2>4 DEF CloseStep
<1>5. /\ row[o].cash \in Int /\ row[o].bonus \in Int /\ held[o].cash \in Int /\ held[o].bonus \in Int
      /\ hash[o].cash \in Int /\ hash[o].bonus \in Int
  <2>1. hash[o].cash \in Int /\ hash[o].bonus \in Int
    BY <1>2 DEF Hash
  <2>2. row[o].cash \in Nat /\ row[o].bonus \in Nat
    BY DEF Inv, Type, TypeOK
  <2>3. held[o] \in Amount
    BY DEF Inv, Type, TypeOK
  <2>. QED BY <2>1, <2>2, <2>3 DEF Amount
<1>6. HeldOK(o)'
  BY <1>1, <1>2, <1>3, <1>4, <1>5 DEF HeldOK, HoldsAll, Final, Exposed, IsOpen
<1>7. ASSUME NEW x \in Orders, x # o PROVE HeldOK(x)'
  <2>1. hash'[x] = hash[x]
    BY <1>1, <1>2, <1>7
  <2>. QED BY <1>1, <1>7, <2>1, BooksQuiet
<1>. QED BY <1>6, <1>7 DEF BooksOK

\* A settlement gives back what the close carried, once.
LEMMA SettleBooks == ASSUME Inv, Settles PROVE BooksOK'
<1>. DEFINE e == Head(closes)
<1>1. e \in Closing /\ MessageOK(e)
  BY NextClose DEF Settles
<1>2. /\ LetsGo(e.pos, e) /\ db' = [db EXCEPT ![e.pos].released = TRUE] /\ ~db[e.pos].released
      /\ row' = row /\ engine' = engine /\ hash' = hash /\ reopened' = reopened
  BY DEF Settles, Unsettled
<1>. HIDE DEF e
<1>. PICK o \in Orders : o = e.pos
  BY <1>1 DEF Closing
<1>3. e.pos = o /\ e.kind = "closed" /\ e.cash \in Nat /\ e.bonus \in Nat
  BY <1>1 DEF Closing
<1>4. HeldOK(o) /\ engine[o] = "filled"
  BY <1>1, <1>3 DEF Inv, BooksOK, MessageOK
<1>5. held'[o].cash = held[o].cash - e.cash /\ held'[o].bonus = held[o].bonus - e.bonus
  <2>1. held' = [held EXCEPT ![o] = [cash |-> held[o].cash + (-e.cash),
                                        bonus |-> held[o].bonus + (-e.bonus)]]
    BY <1>2, <1>3, Zenon DEF LetsGo, Holds
  <2>2. /\ held[o].cash + (-e.cash) = held[o].cash - e.cash
        /\ held[o].bonus + (-e.bonus) = held[o].bonus - e.bonus
    BY <1>3 DEF Inv, Type, TypeOK, Amount
  <2>. QED BY <1>3, <2>1, <2>2 DEF Inv, Type, TypeOK
<1>6. db'[o].released /\ db'[o].status = db[o].status
  BY <1>2, <1>3 DEF Inv, Type, TypeOK
<1>7. /\ row[o].cash \in Nat /\ row[o].bonus \in Nat
      /\ held[o].cash \in Int /\ held[o].bonus \in Int
      /\ hash[o].cash \in Nat /\ hash[o].bonus \in Nat
  BY <1>3 DEF Inv, Type, TypeOK, Amount
<1>8. HeldOK(o)'
  BY <1>1, <1>2, <1>3, <1>4, <1>5, <1>6, <1>7 DEF HeldOK, HoldsAll, MessageOK, Exposed, IsOpen
<1>9. ASSUME NEW x \in Orders, x # o PROVE HeldOK(x)'
  <2>1. held'[x] = held[x] /\ db'[x] = db[x]
    BY <1>2, <1>3, <1>9 DEF LetsGo, Holds, Inv, Type, TypeOK
  <2>. QED BY <1>2, <2>1, BooksQuiet
<1>. QED BY <1>8, <1>9 DEF BooksOK

\* A rollback gives back what was locked.
LEMMA RollbackBooks == ASSUME Inv, Rollback PROVE BooksOK'
<1>. DEFINE m == row[rolling]
<1>. PICK o \in Orders : o = rolling
  BY DEF Rollback, Inv, Type, TypeOK
<1>1. /\ o = rolling /\ engine[o] \in Ended /\ HoldsAll(o) /\ HeldOK(o)
      /\ LetsGo(o, m) /\ m.cash \in Nat /\ m.bonus \in Nat
      /\ row' = row /\ engine' = engine /\ hash' = hash /\ db' = db /\ reopened' = reopened
  BY DEF Rollback, Inv, RollingOK, BooksOK, Type, TypeOK
<1>2. held'[o].cash = 0 /\ held'[o].bonus = 0
  <2>1. held' = [held EXCEPT ![o] = [cash |-> held[o].cash + (-m.cash),
                                    bonus |-> held[o].bonus + (-m.bonus)]]
    BY <1>1, Zenon DEF LetsGo, Holds
  <2>2. held[o].cash + (-m.cash) = 0 /\ held[o].bonus + (-m.bonus) = 0
    BY <1>1 DEF HoldsAll, Inv, Type, TypeOK, Amount
  <2>. QED BY <1>1, <2>1, <2>2 DEF Inv, Type, TypeOK
<1>3. HeldOK(o)'
  BY <1>1, <1>2 DEF HeldOK, HoldsAll, Exposed, IsOpen, Ended
<1>4. ASSUME NEW x \in Orders, x # o PROVE HeldOK(x)'
  <2>1. held'[x] = held[x]
    BY <1>1, <1>4 DEF LetsGo, Holds, Inv, Type, TypeOK
  <2>. QED BY <1>1, <2>1, BooksQuiet
<1>. QED BY <1>3, <1>4 DEF BooksOK

\* The row of a position is written for a filled order.
LEMMA UpdateBooks == ASSUME Inv, Update PROVE BooksOK'
<1>1. Head(updates) \in Updates /\ 1 \in 1..Len(updates) /\ Head(updates) = updates[1]
  BY Taken DEF Update, Inv, Type, StreamsOK
<1>. PICK o \in Orders : o = Head(updates).pos
  BY <1>1 DEF Updates
<1>2. engine[o] = "filled" /\ HeldOK(o)
  BY <1>1 DEF Inv, MessagesOK, BooksOK
<1>3. /\ db' = [db EXCEPT ![o].status = Head(updates).status]
      /\ row' = row /\ engine' = engine /\ hash' = hash /\ held' = held /\ reopened' = reopened
  BY DEF Update
<1>4. db'[o].released = db[o].released /\ \A x \in Orders : x # o => db'[x] = db[x]
  BY <1>3 DEF Inv, Type, TypeOK
<1>5. HeldOK(o)'
  BY <1>2, <1>3, <1>4 DEF HeldOK, HoldsAll, Exposed, IsOpen
<1>. QED BY <1>3, <1>4, <1>5, BooksQuiet DEF BooksOK

LEMMA OutcomeBooks == ASSUME Inv, Outcome PROVE BooksOK'
<1>. DEFINE e == Head(outcomes)
<1>0. e \in Outcomes
  BY Taken DEF Outcome, Inv, Type, StreamsOK
<1>1. e.order \in Orders /\ e.status # "none"
  BY <1>0 DEF Outcomes, Ended
<1>2. row' = [row EXCEPT ![e.order].status = e.status]
  BY DEF Outcome
<1>3. /\ engine' = engine /\ held' = held /\ hash' = hash /\ db' = db /\ reopened' = reopened
  BY DEF Outcome
<1>. HIDE DEF e
<1>4. ASSUME NEW x \in Orders
      PROVE  /\ row'[x].cash = row[x].cash /\ row'[x].bonus = row[x].bonus
             /\ row'[x].status = "none" => row[x].status = "none"
  BY SMTT(60), <1>1, <1>2 DEF Inv, Type, TypeOK
<1>5. ASSUME NEW x \in Orders PROVE HeldOK(x)'
  BY <1>3, <1>4 DEF Inv, BooksOK, HeldOK, HoldsAll, Exposed, IsOpen
<1>. QED BY <1>5 DEF BooksOK

LEMMA BooksStep == ASSUME Inv, [Next]_vars PROVE BooksOK'
<1>1. ASSUME UNCHANGED <<row, engine, held, hash, db, reopened>> PROVE BooksOK'
  BY <1>1, BooksQuiet DEF BooksOK
<1>2. CASE UNCHANGED vars
  BY <1>1, <1>2 DEF vars
<1>3. ASSUME NEW o \in Orders, RequestCancel(o) PROVE BooksOK'
  <2>1. "cancelling" # "none"
    OBVIOUS
  <2>. QED BY <1>3, <2>1, RowBooks DEF RequestCancel
<1>4. ASSUME NEW h \in Handlers, Publishes(h) PROVE BooksOK'
  BY <1>1, <1>4 DEF Publishes
<1>5. CASE UpdatePanics \/ SettlesNothing \/ Trouble
  BY <1>1, <1>5 DEF UpdatePanics, SettlesNothing, Trouble, RollbackFails, SettleFails, Restart, Fault
<1>. QED BY <1>2, <1>3, <1>4, <1>5, PlaceBooks, OrderBooks, CloseBooks, SettleBooks, RollbackBooks,
            UpdateBooks, OutcomeBooks
         DEF Next, Api, Listeners

-------------------------------------------------------------------------------
(* The wallet adds up: what is locked in it is what it holds for the       *)
(* orders, and bonus that is locked is never spent.                        *)

CashHeld  == SumFunction([o \in Orders |-> held[o].cash])
BonusHeld == SumFunction([o \in Orders |-> held[o].bonus])

WalletInv == /\ wallet.locked = CashHeld /\ wallet.bonusLocked = BonusHeld
             /\ wallet.bonusLocked <= wallet.bonus

\* One order's margin moves, and the sums move by as much.
LEMMA HeldSums ==
  ASSUME Type, Type', NEW o \in Orders, \A x \in Orders \ {o} : held'[x] = held[x]
  PROVE  /\ CashHeld \in Int /\ CashHeld' = CashHeld + (held'[o].cash - held[o].cash)
         /\ BonusHeld \in Int /\ BonusHeld' = BonusHeld + (held'[o].bonus - held[o].bonus)
<1>. DEFINE c == [x \in Orders |-> held[x].cash]  d == [x \in Orders |-> held'[x].cash]
            b == [x \in Orders |-> held[x].bonus] f == [x \in Orders |-> held'[x].bonus]
<1>1. c \in [Orders -> Int] /\ d \in [Orders -> Int] /\ b \in [Orders -> Int] /\ f \in [Orders -> Int]
  BY DEF Type, TypeOK, Amount
<1>2. \A x \in Orders \ {o} : d[x] = c[x] /\ f[x] = b[x]
  OBVIOUS
<1>3. /\ c[o] = held[o].cash /\ d[o] = held'[o].cash
      /\ b[o] = held[o].bonus /\ f[o] = held'[o].bonus
  OBVIOUS
<1>4. /\ CashHeld = SumFunction(c) /\ CashHeld' = SumFunction(d)
      /\ BonusHeld = SumFunction(b) /\ BonusHeld' = SumFunction(f)
  BY Zenon DEF CashHeld, BonusHeld
<1>. HIDE DEF c, d, b, f
<1>5. IsFiniteSet(Orders)
  BY Bounds
<1>6. SumFunction(c) \in Int /\ SumFunction(b) \in Int
  BY <1>1, <1>5, SumType
<1>7. SumFunction(d) = SumFunction(c) + (d[o] - c[o])
  BY <1>1, <1>2, <1>5, SumChange
<1>8. SumFunction(f) = SumFunction(b) + (f[o] - b[o])
  BY <1>1, <1>2, <1>5, SumChange
<1>. QED BY <1>3, <1>4, <1>6, <1>7, <1>8

\* What the wallet's operations do to it, field by field.
LEMMA LockFields ==
  ASSUME NEW w \in Wallet, NEW m, m.cash \in Int, m.bonus \in Int
  PROVE  /\ Lock(w, m).locked = w.locked + m.cash
         /\ Lock(w, m).bonusLocked = w.bonusLocked + m.bonus
         /\ Lock(w, m).bonus = w.bonus
         /\ Unlock(w, m).locked = w.locked - m.cash
         /\ Unlock(w, m).bonusLocked = w.bonusLocked - m.bonus
         /\ Unlock(w, m).bonus = w.bonus
BY DEF Lock, Unlock, Wallet

LEMMA ApplyFields ==
  ASSUME NEW w \in Wallet, NEW pnl \in Int, w.bonusLocked <= w.bonus
  PROVE  /\ Apply(w, pnl).locked = w.locked /\ Apply(w, pnl).bonusLocked = w.bonusLocked
         /\ Apply(w, pnl).bonusLocked <= Apply(w, pnl).bonus
<1>. DEFINE absorbed == Least(AtLeastZero(-pnl), Consumable(w))
<1>1. w.bonus \in Int /\ w.bonusLocked \in Int
  BY DEF Wallet
<1>2. Consumable(w) = w.bonus - w.bonusLocked
  BY <1>1 DEF Consumable, AtLeastZero
<1>3. AtLeastZero(-pnl) \in Int
  BY DEF AtLeastZero
<1>4. absorbed \in Int /\ absorbed <= w.bonus - w.bonusLocked
  BY <1>1, <1>2, <1>3 DEF Least
<1>5. /\ Apply(w, pnl).locked = w.locked /\ Apply(w, pnl).bonusLocked = w.bonusLocked
      /\ Apply(w, pnl).bonus = w.bonus - absorbed
  BY DEF Apply, Wallet
<1>. HIDE DEF absorbed
<1>. QED BY <1>1, <1>4, <1>5

LEMMA PlaceWallet ==
  ASSUME Inv, Inv', WalletInv, NEW o \in Orders, Place(o)
  PROVE  WalletInv'
<1>. DEFINE m == Split(wallet)
<1>1. /\ wallet \in Wallet /\ m.cash \in Nat /\ m.bonus \in Nat
      /\ held[o].cash \in Int /\ held[o].bonus \in Int
  BY SplitType DEF Inv, Type, TypeOK, Wallet, Amount
<1>2. wallet' = Lock(wallet, m) /\ Holds(o, m) /\ m.bonus <= Consumable(wallet)
  BY DEF Place
<1>. HIDE DEF m
<1>3. /\ wallet'.locked = wallet.locked + m.cash /\ wallet'.bonus = wallet.bonus
      /\ wallet'.bonusLocked = wallet.bonusLocked + m.bonus
  BY <1>1, <1>2, LockFields
<1>4. held'[o].cash = held[o].cash + m.cash /\ held'[o].bonus = held[o].bonus + m.bonus
  BY <1>2 DEF Holds, Inv, Type, TypeOK
<1>5. \A x \in Orders \ {o} : held'[x] = held[x]
  BY <1>2 DEF Holds, Inv, Type, TypeOK
<1>6. /\ CashHeld \in Int /\ CashHeld' = CashHeld + (held'[o].cash - held[o].cash)
      /\ BonusHeld \in Int /\ BonusHeld' = BonusHeld + (held'[o].bonus - held[o].bonus)
  BY <1>5, HeldSums DEF Inv
<1>7. wallet'.bonusLocked <= wallet'.bonus
  BY <1>1, <1>2, <1>3 DEF WalletInv, Consumable, AtLeastZero, Wallet
<1>8. wallet'.locked = CashHeld' /\ wallet'.bonusLocked = BonusHeld'
  BY <1>1, <1>3, <1>4, <1>6 DEF WalletInv
<1>. QED BY <1>7, <1>8 DEF WalletInv

\* Margin m of an order is given back.
LEMMA LetsGoSums ==
  ASSUME Inv, Inv', NEW o \in Orders, NEW m, m.cash \in Int, m.bonus \in Int, LetsGo(o, m)
  PROVE  /\ CashHeld \in Int /\ CashHeld' = CashHeld - m.cash
         /\ BonusHeld \in Int /\ BonusHeld' = BonusHeld - m.bonus
<1>1. held' = [held EXCEPT ![o] = [cash |-> held[o].cash + (-m.cash),
                                   bonus |-> held[o].bonus + (-m.bonus)]]
  BY Zenon DEF LetsGo, Holds
<1>2. held[o].cash \in Int /\ held[o].bonus \in Int
  BY DEF Inv, Type, TypeOK, Amount
<1>3. held'[o].cash = held[o].cash + (-m.cash) /\ held'[o].bonus = held[o].bonus + (-m.bonus)
  BY <1>1 DEF Inv, Type, TypeOK
<1>4. \A x \in Orders \ {o} : held'[x] = held[x]
  BY <1>1 DEF Inv, Type, TypeOK
<1>5. /\ CashHeld \in Int /\ CashHeld' = CashHeld + (held'[o].cash - held[o].cash)
      /\ BonusHeld \in Int /\ BonusHeld' = BonusHeld + (held'[o].bonus - held[o].bonus)
  BY <1>4, HeldSums DEF Inv
<1>. QED BY <1>2, <1>3, <1>5

LEMMA RollbackWallet ==
  ASSUME Inv, Inv', WalletInv, Rollback
  PROVE  WalletInv'
<1>. PICK m : m = row[rolling]
  OBVIOUS
<1>1. /\ rolling \in Orders /\ wallet \in Wallet /\ m.cash \in Nat /\ m.bonus \in Nat
  BY DEF Rollback, Inv, Type, TypeOK, Wallet
<1>2. wallet' = Unlock(wallet, m) /\ LetsGo(rolling, m)
  BY DEF Rollback
<1>3. /\ wallet'.locked = wallet.locked - m.cash /\ wallet'.bonus = wallet.bonus
      /\ wallet'.bonusLocked = wallet.bonusLocked - m.bonus
  BY <1>1, <1>2, LockFields
<1>4. /\ CashHeld \in Int /\ CashHeld' = CashHeld - m.cash
      /\ BonusHeld \in Int /\ BonusHeld' = BonusHeld - m.bonus
  <2>1. m.cash \in Int /\ m.bonus \in Int
    BY <1>1
  <2>. QED BY <1>1, <1>2, <2>1, LetsGoSums
<1>5. wallet.bonus \in Int
  BY <1>1 DEF Wallet
<1>. QED BY <1>1, <1>3, <1>4, <1>5 DEF WalletInv

LEMMA SettlesWallet ==
  ASSUME Inv, Inv', WalletInv, Settles
  PROVE  WalletInv'
<1>. PICK e : e = Head(closes)
  OBVIOUS
<1>1. e \in Closing /\ wallet \in Wallet
  BY NextClose DEF Settles, Inv, Type, TypeOK, Wallet
<1>2. wallet' = Apply(Unlock(wallet, e), e.pnl) /\ LetsGo(e.pos, e)
  BY DEF Settles
<1>3. /\ e.pos \in Orders /\ e.cash \in Nat /\ e.bonus \in Nat /\ e.pnl \in Int
      /\ e.cash \in Int /\ e.bonus \in Int
  BY <1>1 DEF Closing
<1>. PICK w : w = Unlock(wallet, e)
  OBVIOUS
<1>4. /\ w \in Wallet /\ w.bonus = wallet.bonus /\ w.locked = wallet.locked - e.cash
      /\ w.bonusLocked = wallet.bonusLocked - e.bonus
  BY SMTT(60), <1>1, <1>3, LockFields, LockType
<1>5. wallet.bonusLocked \in Int /\ wallet.bonus \in Int
  BY <1>1 DEF Wallet
<1>6. w.bonusLocked <= w.bonus
  BY <1>3, <1>4, <1>5 DEF WalletInv
<1>7. /\ wallet'.locked = w.locked /\ wallet'.bonusLocked = w.bonusLocked
      /\ wallet'.bonusLocked <= wallet'.bonus
  BY <1>2, <1>3, <1>4, <1>6, ApplyFields
<1>8. /\ CashHeld \in Int /\ CashHeld' = CashHeld - e.cash
      /\ BonusHeld \in Int /\ BonusHeld' = BonusHeld - e.bonus
  BY <1>2, <1>3, LetsGoSums
<1>. QED BY <1>4, <1>7, <1>8 DEF WalletInv

LEMMA WalletQuiet == ASSUME WalletInv, UNCHANGED <<wallet, held>> PROVE WalletInv'
BY DEF WalletInv, CashHeld, BonusHeld

LEMMA WalletStep == ASSUME Inv, Inv', WalletInv, [Next]_vars PROVE WalletInv'
<1>1. CASE UNCHANGED vars
  BY <1>1, WalletQuiet DEF vars
<1>2. ASSUME NEW o \in Orders, RequestCancel(o) \/ OrderStep(o) PROVE WalletInv'
  BY <1>2, WalletQuiet DEF RequestCancel, OrderStep, Accepts, Rejects, Cancels, CancelIsLate, Fills,
                           Ends, Engine
<1>3. ASSUME NEW o \in Orders, CloseStep(o) PROVE WalletInv'
  BY <1>3, WalletQuiet DEF CloseStep, Reopens, ClosesPart, Closes, Triggers, ClosesAll, Engine
<1>4. ASSUME NEW h \in Handlers, Publishes(h) PROVE WalletInv'
  BY <1>4, WalletQuiet DEF Publishes
<1>5. CASE Outcome \/ Update \/ UpdatePanics \/ SettlesNothing
  BY <1>5, WalletQuiet DEF Outcome, Update, UpdatePanics, SettlesNothing
<1>6. CASE Trouble
  BY <1>6, WalletQuiet DEF Trouble, RollbackFails, SettleFails, Restart
<1>. QED BY <1>1, <1>2, <1>3, <1>4, <1>5, <1>6, PlaceWallet, RollbackWallet, SettlesWallet
         DEF Next, Api, Listeners

LEMMA WalletInit == Init => WalletInv
<1>. SUFFICES ASSUME Init PROVE WalletInv
  OBVIOUS
<1>. DEFINE c == [x \in Orders |-> held[x].cash]  b == [x \in Orders |-> held[x].bonus]
<1>1. /\ c \in [Orders -> Int] /\ b \in [Orders -> Int]
      /\ \A x \in Orders : c[x] = 0 /\ b[x] = 0
  BY DEF Init, NoMargin
<1>2. SumFunction(c) = 0 /\ SumFunction(b) = 0
  <2>. HIDE DEF c, b
  <2>. QED BY <1>1, Bounds, SumZero
<1>3. CashHeld = 0 /\ BonusHeld = 0
  BY <1>2, Zenon DEF CashHeld, BonusHeld
<1>. QED BY <1>3, Amounts DEF Init, WalletInv

-------------------------------------------------------------------------------
(* The outcomes of orders and their margin.                                *)

\* An outcome on its way is the one the engine came to.
Told == \A i \in 1..Len(outcomes) : engine[outcomes[i].order] = outcomes[i].status

\* An order that was placed has the margin an order requires, and a row that says
\* how it ended took that from the engine.
RowOK(o) == /\ row[o].status # "none" => row[o].cash + row[o].bonus = Margin
            /\ row[o].status \in Ended => engine[o] = row[o].status

\* The margin of an order that ended without a fill is returned, about to be, or
\* will be when the outcome is handled.
Awaited(o) == \E i \in 1..Len(outcomes) : outcomes[i].order = o
SettledOK(o) == engine[o] \in Ended /\ faults = 0 =>
                  \/ held[o] = NoMargin
                  \/ rolling = o
                  \/ Awaited(o) /\ row[o].status \notin Ended

Fates == Told /\ \A o \in Orders : RowOK(o) /\ SettledOK(o)

\* An outcome is announced only by Ends and by the task that filled the order.
LEMMA OutcomesChange ==
  ASSUME Inv, [Next]_vars
  PROVE  \/ outcomes' = outcomes \/ Outcome \/ Restart
         \/ \E e \in Outcomes : /\ outcomes' = Append(outcomes, e)
                               /\ engine'[e.order] = e.status
<1>1. ASSUME NEW o \in Orders, NEW s \in Ended, Ends(o, s)
      PROVE  \E e \in Outcomes : outcomes' = Append(outcomes, e) /\ engine'[e.order] = e.status
  <2>1. [order |-> o, status |-> s] \in Outcomes
    BY DEF Outcomes
  <2>2. engine'[o] = s
    BY <1>1 DEF Ends, Inv, Type, TypeOK
  <2>. QED BY <1>1, <2>1, <2>2 DEF Ends
<1>2. ASSUME NEW o \in Orders, Rejects(o) \/ Cancels(o)
      PROVE  \E e \in Outcomes : outcomes' = Append(outcomes, e) /\ engine'[e.order] = e.status
  BY <1>1, <1>2 DEF Rejects, Cancels, Ended
<1>3. ASSUME NEW h \in Handlers, Publishes(h), outcomes' # outcomes
      PROVE  \E e \in Outcomes : outcomes' = Append(outcomes, e) /\ engine'[e.order] = e.status
  <2>. DEFINE m == Head(todo[h])
  <2>1. m.pos \in Orders /\ MessageOK(m)
    <3>1. 1 \in 1..Len(todo[h]) /\ m = todo[h][1]
      BY <1>3, Taken DEF Publishes, Idle, Inv, Type, StreamsOK
    <3>2. MessageOK(todo[h][1])
      BY <3>1 DEF Inv, MessagesOK
    <3>. HIDE DEF m
    <3>3. MessageOK(m)
      BY <3>1, <3>2
    <3>. QED BY <1>3, <3>3, NextMessage DEF Publishes, Inv, m
  <2>2. outcomes' = Append(outcomes, [order |-> m.pos, status |-> "filled"])
    BY <1>3 DEF Publishes
  <2>3. engine' = engine
    BY <1>3 DEF Publishes
  <2>. HIDE DEF m
  <2>4. [order |-> m.pos, status |-> "filled"] \in Outcomes
    BY <2>1 DEF Outcomes
  <2>. QED BY SMTT(60), <2>1, <2>2, <2>3, <2>4 DEF MessageOK
<1>4. ASSUME outcomes' # outcomes, ~Outcome, ~Restart
      PROVE  \E e \in Outcomes : outcomes' = Append(outcomes, e) /\ engine'[e.order] = e.status
  <2>1. ASSUME NEW o \in Orders, Api(o) \/ Accepts(o) \/ CancelIsLate(o) \/ Fills(o) \/ CloseStep(o)
        PROVE  outcomes' = outcomes
    BY <2>1 DEF Api, Place, RequestCancel, Accepts, CancelIsLate, Fills, CloseStep, Reopens,
                ClosesPart, Closes, Triggers, ClosesAll, Engine
  <2>2. Rollback \/ Update \/ UpdatePanics \/ Settles \/ SettlesNothing \/ RollbackFails \/ SettleFails
          => outcomes' = outcomes
    BY DEF Rollback, Update, UpdatePanics, Settles, SettlesNothing, RollbackFails, SettleFails
  <2>3. vars' = vars => outcomes' = outcomes
    BY DEF vars
  <2>. QED BY <1>2, <1>3, <1>4, <2>1, <2>2, <2>3 DEF Next, OrderStep, Listeners, Trouble
<1>. QED BY <1>4

LEMMA ToldStep == ASSUME Inv, Told, [Next]_vars PROVE Told'
<1>0. /\ outcomes \in Seq(Outcomes)
      /\ \A i \in 1..Len(outcomes) : outcomes[i].order \in Orders /\ outcomes[i].status \in Ended \cup {"filled"}
  <2>1. outcomes \in Seq(Outcomes)
    BY DEF Inv, Type, StreamsOK
  <2>2. \A e \in Outcomes : e.order \in Orders /\ e.status \in Ended \cup {"filled"}
    BY DEF Outcomes
  <2>. QED BY <2>1, <2>2
<1>1. \A i \in 1..Len(outcomes) : engine'[outcomes[i].order] = outcomes[i].status
  BY <1>0, FinalStep DEF Told, Final
<1>2. CASE outcomes' = outcomes \/ Outcome \/ Restart
  <2>1. \/ outcomes' = outcomes \/ (outcomes # <<>> /\ outcomes' = Tail(outcomes))
        \/ outcomes' = <<>>
    BY <1>2 DEF Outcome, Restart
  <2>2. ASSUME NEW t, outcomes' = t, Kept(outcomes, t) PROVE Told'
    BY <1>1, <2>2 DEF Told, Kept
  <2>. QED BY <1>0, <2>1, <2>2, Rest
<1>3. ASSUME NEW e \in Outcomes, outcomes' = Append(outcomes, e), engine'[e.order] = e.status
      PROVE  Told'
  BY <1>0, <1>1, <1>3, Appended DEF Told
<1>. QED BY <1>2, <1>3, OutcomesChange

\* What every step leaves of the row of a placed order.
LEMMA RowsStay ==
  ASSUME Inv, [Next]_vars, NEW o \in Orders, ~Place(o)
  PROVE  /\ row'[o].cash = row[o].cash /\ row'[o].bonus = row[o].bonus
         /\ \/ row'[o].status = row[o].status
            \/ row[o].status = "pending" /\ row'[o].status = "cancelling"
            \/ /\ Outcome /\ Head(outcomes).order = o
               /\ row'[o].status = Head(outcomes).status
<1>1. CASE row'[o] = row[o]
  BY <1>1
<1>2. ASSUME NEW x \in Orders, Place(x) PROVE row'[o] = row[o]
  BY <1>2 DEF Place, Inv, Type, TypeOK
<1>3. ASSUME NEW x \in Orders, RequestCancel(x), x # o PROVE row'[o] = row[o]
  BY <1>3 DEF RequestCancel, Inv, Type, TypeOK
<1>4. CASE RequestCancel(o)
  BY <1>4 DEF RequestCancel, Inv, Type, TypeOK
<1>5. CASE Outcome
  <2>. DEFINE e == Head(outcomes)
  <2>1. row' = [row EXCEPT ![e.order].status = e.status] /\ row \in [Orders -> [status : {"none", "pending", "cancelling", "filled"} \cup Ended, cash : Nat, bonus : Nat]]
    BY <1>5 DEF Outcome, Inv, Type, TypeOK
  <2>. HIDE DEF e
  <2>2. CASE e.order = o
    <3>1. row'[o] = [row[o] EXCEPT !.status = e.status]
      BY <2>1, <2>2
    <3>2. row'[o].cash = row[o].cash /\ row'[o].bonus = row[o].bonus /\ row'[o].status = e.status
      BY <2>1, <3>1
    <3>. QED BY <1>5, <2>2, <3>2 DEF e
  <2>3. CASE e.order # o
    BY <1>1, <2>1, <2>3
  <2>. QED BY <2>2, <2>3
<1>6. ASSUME NEW x \in Orders, OrderStep(x) \/ CloseStep(x) PROVE row' = row
  BY <1>6 DEF OrderStep, Accepts, Rejects, Cancels, CancelIsLate, Fills, Ends, CloseStep, Reopens,
              ClosesPart, Closes, Triggers, ClosesAll, Engine
<1>7. ASSUME NEW h \in Handlers, Publishes(h) PROVE row' = row
  BY <1>7 DEF Publishes
<1>8. Rollback \/ Update \/ UpdatePanics \/ Settles \/ SettlesNothing \/ Trouble => row' = row
  BY DEF Rollback, Update, UpdatePanics, Settles, SettlesNothing, Trouble, RollbackFails,
         SettleFails, Restart
<1>9. vars' = vars => row' = row
  BY DEF vars
<1>. QED BY <1>1, <1>2, <1>3, <1>4, <1>5, <1>6, <1>7, <1>8, <1>9 DEF Next, Api, Listeners

\* The outcome a listener takes.
LEMMA NextOutcome ==
  ASSUME Inv, Told, Outcome
  PROVE  LET e == Head(outcomes) IN
         /\ 1 \in 1..Len(outcomes) /\ e = outcomes[1]
         /\ e.order \in Orders /\ e.status \in Ended \cup {"filled"} /\ engine[e.order] = e.status
<1>1. outcomes \in Seq(Outcomes) /\ outcomes # <<>>
  BY DEF Outcome, Inv, Type, StreamsOK
<1>2. Head(outcomes) \in Outcomes /\ 1 \in 1..Len(outcomes) /\ Head(outcomes) = outcomes[1]
  BY <1>1, Taken
<1>3. engine[outcomes[1].order] = outcomes[1].status
  BY <1>2 DEF Told
<1>. QED BY <1>2, <1>3 DEF Outcomes

LEMMA RowStep ==
  ASSUME Inv, Told, [Next]_vars, NEW o \in Orders, RowOK(o)
  PROVE  RowOK(o)'
<1>0. /\ engine[o] \in Ended \cup {"filled"} => engine'[o] = engine[o]
      /\ row[o].status = "none" => engine[o] = "none"
  BY FinalStep DEF Final, Inv, BooksOK, HeldOK
<1>1. CASE Place(o)
  <2>. DEFINE m == Split(wallet)
  <2>1. m.cash \in Int /\ m.cash + m.bonus = Margin
    BY Amounts DEF Split, Least, AtLeastZero, Inv, Type, TypeOK
  <2>2. row' = [row EXCEPT ![o] = [status |-> "pending", cash |-> m.cash, bonus |-> m.bonus]]
    BY <1>1 DEF Place
  <2>. HIDE DEF m
  <2>3. row'[o] = [status |-> "pending", cash |-> m.cash, bonus |-> m.bonus]
    BY <2>2 DEF Inv, Type, TypeOK
  <2>. QED BY <2>1, <2>3 DEF RowOK, Ended
<1>2. CASE ~Place(o)
  <2>1. CASE row'[o].status = row[o].status
    BY <1>0, <1>2, <2>1, RowsStay DEF RowOK
  <2>2. CASE row[o].status = "pending" /\ row'[o].status = "cancelling"
    BY <1>2, <2>2, RowsStay DEF RowOK, Ended
  <2>3. CASE Outcome /\ Head(outcomes).order = o /\ row'[o].status = Head(outcomes).status
    <3>1. engine[o] = row'[o].status /\ engine[o] \in Ended \cup {"filled"}
      BY <2>3, NextOutcome
    <3>2. row[o].status # "none" /\ engine'[o] = engine[o]
      BY <1>0, <3>1 DEF Ended
    <3>. QED BY <1>2, <2>3, <3>1, <3>2, RowsStay DEF RowOK
  <2>. QED BY <1>2, <2>1, <2>2, <2>3, RowsStay
<1>. QED BY <1>1, <1>2

\* An outcome that is awaited stays so until it is handled or lost.
LEMMA AwaitedStays ==
  ASSUME Inv, [Next]_vars, NEW o \in Orders, Awaited(o), ~Restart,
         ~(Outcome /\ Head(outcomes).order = o)
  PROVE  Awaited(o)'
<1>0. outcomes \in Seq(Outcomes)
  BY DEF Inv, Type, StreamsOK
<1>1. PICK i \in 1..Len(outcomes) : outcomes[i].order = o
  BY DEF Awaited
<1>2. CASE outcomes' = outcomes
  BY <1>1, <1>2 DEF Awaited
<1>3. CASE Outcome
  <2>1. outcomes' = Tail(outcomes) /\ outcomes # <<>> /\ Head(outcomes) = outcomes[1]
    BY <1>0, <1>3, Taken DEF Outcome
  <2>2. i # 1
    BY <1>1, <1>3, <2>1
  <2>3. i - 1 \in 1..Len(Tail(outcomes)) /\ Tail(outcomes)[i - 1] = outcomes[i]
    BY <1>0, <1>1, <2>1, <2>2, HeadTailProperties
  <2>. QED BY <1>1, <2>1, <2>3 DEF Awaited
<1>4. ASSUME NEW e \in Outcomes, outcomes' = Append(outcomes, e) PROVE Awaited(o)'
  <2>1. i \in 1..Len(Append(outcomes, e)) /\ Append(outcomes, e)[i] = outcomes[i]
    BY <1>0, <1>1, AppendProperties
  <2>. QED BY <1>1, <1>4, <2>1 DEF Awaited
<1>. QED BY <1>2, <1>3, <1>4, OutcomesChange

\* The rollback of an order leaves nothing held for it.
LEMMA RolledBack ==
  ASSUME Inv, Rollback
  PROVE  /\ rolling \in Orders
         /\ held' = [held EXCEPT ![rolling] = NoMargin]
<1>1. /\ rolling \in Orders /\ HoldsAll(rolling) /\ LetsGo(rolling, row[rolling])
      /\ held[rolling] \in Amount /\ row[rolling].cash \in Nat /\ row[rolling].bonus \in Nat
  BY DEF Rollback, Inv, RollingOK, Type, TypeOK
<1>2. held' = [held EXCEPT ![rolling] = [cash |-> held[rolling].cash + (-row[rolling].cash),
                                         bonus |-> held[rolling].bonus + (-row[rolling].bonus)]]
  BY <1>1, Zenon DEF LetsGo, Holds
<1>3. /\ held[rolling].cash + (-row[rolling].cash) = 0
      /\ held[rolling].bonus + (-row[rolling].bonus) = 0
  BY <1>1 DEF HoldsAll, Amount
<1>. QED BY <1>1, <1>2, <1>3 DEF NoMargin

\* Only the engine ends an order, and says so.
LEMMA EndsOnce ==
  ASSUME Inv, [Next]_vars, NEW o \in Orders, engine[o] \notin Ended, engine'[o] \in Ended
  PROVE  Ends(o, engine'[o])
<1>1. ASSUME NEW x \in Orders, NEW s \in Ended, Ends(x, s) PROVE Ends(o, engine'[o])
  <2>1. engine' = [engine EXCEPT ![x] = s]
    BY <1>1 DEF Ends
  <2>2. o = x /\ engine'[o] = s
    BY <2>1 DEF Inv, Type, TypeOK
  <2>. QED BY <1>1, <2>2
<1>2. ASSUME NEW x \in Orders, NEW s \in {"sent", "pending", "filled"},
             engine' \in {engine, [engine EXCEPT ![x] = s]}
      PROVE  FALSE
  BY <1>2 DEF Inv, Type, TypeOK, Ended
<1>3. ASSUME NEW x \in Orders, Place(x) \/ Accepts(x) \/ Fills(x) PROVE FALSE
  BY <1>2, <1>3 DEF Place, Accepts, Fills
<1>4. ASSUME NEW x \in Orders, Rejects(x) \/ Cancels(x) PROVE Ends(o, engine'[o])
  BY <1>1, <1>4 DEF Rejects, Cancels, Ended
<1>5. ASSUME NEW x \in Orders, RequestCancel(x) \/ CancelIsLate(x) \/ CloseStep(x) PROVE engine' = engine
  BY <1>5 DEF RequestCancel, CancelIsLate, CloseStep, Reopens, ClosesPart, Closes, Triggers, ClosesAll
<1>6. ASSUME NEW h \in Handlers, Publishes(h) PROVE engine' = engine
  BY <1>6 DEF Publishes
<1>7. Listeners \/ Trouble \/ vars' = vars => engine' = engine
  BY DEF Listeners, Trouble, Outcome, Rollback, Update, UpdatePanics, Settles, SettlesNothing,
         RollbackFails, SettleFails, Restart, vars
<1>. QED BY <1>3, <1>4, <1>5, <1>6, <1>7 DEF Next, Api, OrderStep

\* Faults are never forgotten, and what they lose is lost in no other step.
LEMMA FaultsCount ==
  ASSUME Inv, [Next]_vars, faults' = 0
  PROVE  faults = 0 /\ ~Trouble
<1>1. faults \in Nat
  BY Bounds DEF Inv, Type, TypeOK
<1>2. ~Trouble
  BY <1>1 DEF Trouble, RollbackFails, SettleFails, Restart, Fault
<1>3. ASSUME NEW o \in Orders, Api(o) \/ OrderStep(o) \/ CloseStep(o) PROVE faults' = faults
  BY <1>3 DEF Api, Place, RequestCancel, OrderStep, Accepts, Rejects, Cancels, CancelIsLate, Fills,
              Ends, CloseStep, Reopens, ClosesPart, Closes, Triggers, ClosesAll, Engine
<1>4. ASSUME NEW h \in Handlers, Publishes(h) PROVE faults' = faults
  BY <1>4 DEF Publishes
<1>5. Listeners \/ vars' = vars => faults' = faults
  BY DEF Listeners, Outcome, Rollback, Update, UpdatePanics, Settles, SettlesNothing, vars
<1>. QED BY <1>2, <1>3, <1>4, <1>5 DEF Next

\* A rollback that is owed stays owed, by the listener that owes it.
LEMMA RollingStays ==
  ASSUME Inv, [Next]_vars, rolling # None, ~Rollback, ~Trouble
  PROVE  rolling' = rolling
<1>1. ASSUME NEW o \in Orders, Api(o) \/ OrderStep(o) \/ CloseStep(o) PROVE rolling' = rolling
  BY <1>1 DEF Api, Place, RequestCancel, OrderStep, Accepts, Rejects, Cancels, CancelIsLate, Fills,
              Ends, CloseStep, Reopens, ClosesPart, Closes, Triggers, ClosesAll, Engine
<1>2. ASSUME NEW h \in Handlers, Publishes(h) PROVE rolling' = rolling
  BY <1>2 DEF Publishes
<1>3. Outcome \/ Update \/ UpdatePanics \/ Settles \/ SettlesNothing \/ vars' = vars
        => rolling' = rolling
  BY DEF Outcome, Update, UpdatePanics, Settles, SettlesNothing, vars
<1>. QED BY <1>1, <1>2, <1>3 DEF Next, Listeners

LEMMA SettledStep ==
  ASSUME Inv, Told, [Next]_vars, NEW o \in Orders, RowOK(o), SettledOK(o)
  PROVE  SettledOK(o)'
<1>. SUFFICES ASSUME engine'[o] \in Ended, faults' = 0
              PROVE  \/ held'[o] = NoMargin
                     \/ rolling' = o
                     \/ Awaited(o)' /\ row'[o].status \notin Ended
  BY DEF SettledOK
<1>0. faults = 0 /\ ~Trouble /\ o # None
  BY FaultsCount, Bounds
<1>1. CASE engine[o] \notin Ended
  <2>1. Ends(o, engine'[o])
    BY <1>1, EndsOnce
  <2>2. /\ row' = row /\ row[o].status \notin Ended
        /\ outcomes' = Append(outcomes, [order |-> o, status |-> engine'[o]])
    BY <1>1, <2>1 DEF Ends, RowOK
  <2>3. outcomes \in Seq(Outcomes) /\ [order |-> o, status |-> engine'[o]] \in Outcomes
    BY DEF Inv, Type, StreamsOK, Outcomes
  <2>4. /\ Len(outcomes') \in 1..Len(outcomes')
        /\ outcomes'[Len(outcomes')] = [order |-> o, status |-> engine'[o]]
    BY <2>2, <2>3, AppendProperties
  <2>. QED BY <2>2, <2>4 DEF Awaited
<1>2. CASE engine[o] \in Ended
  <2>1. CASE Rollback /\ rolling = o
    <3>1. held' = [held EXCEPT ![o] = NoMargin]
      BY <2>1, RolledBack
    <3>. QED BY <3>1 DEF Inv, Type, TypeOK
  <2>2. CASE held[o] = NoMargin /\ ~(Rollback /\ rolling = o)
    BY <1>2, <2>2, FinalStep DEF Final
  <2>3. CASE rolling = o /\ ~Rollback
    BY <1>0, <2>3, RollingStays
  <2>4. CASE Awaited(o) /\ row[o].status \notin Ended /\ Outcome /\ Head(outcomes).order = o
    <3>. DEFINE e == Head(outcomes)
    <3>1. e.order = o /\ e.status \in Ended
      BY <1>2, <2>4, NextOutcome
    <3>2. rolling' = IF row[e.order].status # e.status /\ e.status \in Ended THEN e.order ELSE None
      BY <2>4 DEF Outcome
    <3>. HIDE DEF e
    <3>. QED BY <2>4, <3>1, <3>2
  <2>5. CASE Awaited(o) /\ row[o].status \notin Ended /\ ~(Outcome /\ Head(outcomes).order = o)
    <3>1. ~Restart /\ ~Place(o)
      BY <1>0, <1>2 DEF Trouble, Place, Inv, BooksOK, HeldOK, Ended
    <3>2. row'[o].status \notin Ended
      BY <2>5, <3>1, RowsStay DEF Ended
    <3>. QED BY <2>5, <3>1, <3>2, AwaitedStays
  <2>. QED BY <1>0, <1>2, <2>1, <2>2, <2>3, <2>4, <2>5 DEF SettledOK
<1>. QED BY <1>1, <1>2

LEMMA FatesInit == Init => Fates
BY DEF Init, Fates, Told, RowOK, SettledOK, Ended

LEMMA FatesStep == Inv /\ Fates /\ [Next]_vars => Fates'
BY ToldStep, RowStep, SettledStep DEF Fates

-------------------------------------------------------------------------------
(* The account: each step locks, returns or settles one margin, or stutters. *)

Stages == [o \in Orders |-> Stage(o)]

\* A step that moves no margin.
LEMMA AccountQuiet ==
  ASSUME UNCHANGED <<wallet, held>>,
         \A o \in Orders : /\ row'[o].status = "none" <=> row[o].status = "none"
                           /\ db'[o].released = db[o].released
  PROVE  UNCHANGED <<wallet, held, Stages>>
<1>1. ASSUME NEW o \in Orders PROVE Stage(o)' = Stage(o)
  BY <1>1 DEF Stage
<1>. QED BY <1>1 DEF Stages

\* A step that moves the margin of one order.
LEMMA StageMoves ==
  ASSUME NEW o \in Orders, NEW s, Stage(o)' = s,
         \A x \in Orders \ {o} : /\ row'[x] = row[x] /\ db'[x] = db[x]
                                 /\ held'[x] = held[x]
  PROVE  Stages' = [Stages EXCEPT ![o] = s]
<1>1. ASSUME NEW x \in Orders, x # o PROVE Stage(x)' = Stage(x)
  BY <1>1 DEF Stage
<1>. QED BY <1>1 DEF Stages

\* What an order needs is more than nothing.
LEMMA MarginHeld ==
  ASSUME Inv, Fates, NEW o \in Orders, row[o].status # "none", HoldsAll(o)
  PROVE  held[o] # NoMargin
<1>1. row[o].cash + row[o].bonus = Margin /\ Margin > 0
  BY Amounts DEF Fates, RowOK
<1>. QED BY <1>1 DEF HoldsAll, NoMargin

LEMMA PlaceLocks ==
  ASSUME Inv, WalletInv, Fates, NEW o \in Orders, Place(o)
  PROVE  Account!LockMargin(o)
<1>. DEFINE m == Split(wallet)
<1>1. /\ row[o].status = "none" /\ m.bonus <= Consumable(wallet)
      /\ wallet' = Lock(wallet, m) /\ Holds(o, m) /\ db' = db
      /\ row' = [row EXCEPT ![o] = [status |-> "pending", cash |-> m.cash, bonus |-> m.bonus]]
  BY DEF Place
<1>2. held[o] = NoMargin /\ ~db[o].released
  BY <1>1 DEF Inv, BooksOK, HeldOK
<1>3. /\ m.cash \in 0..Margin /\ m.bonus = Margin - m.cash /\ m.bonus \in Nat
      /\ Margin \in Nat /\ Margin > 0
      /\ m.cash > 0 => m.cash <= wallet.available
      /\ m.bonus > 0 => m.cash >= wallet.available
  BY SMTT(60), Amounts DEF Split, Least, AtLeastZero, Inv, Type, TypeOK
<1>4. m.bonus > 0 => wallet.bonusLocked + m.bonus <= wallet.bonus
  <2>1. wallet.bonusLocked \in Int /\ wallet.bonus \in Int
    BY DEF Inv, Type, TypeOK
  <2>. HIDE DEF m
  <2>. QED BY <1>1, <1>3, <2>1 DEF Consumable, AtLeastZero
<1>. HIDE DEF m
<1>. PICK cash \in 0..Margin : cash = m.cash
  BY <1>3
<1>5. held' = [held EXCEPT ![o] = [cash |-> cash, bonus |-> Margin - cash]]
  <2>1. held' = [held EXCEPT ![o] = [cash |-> held[o].cash + m.cash, bonus |-> held[o].bonus + m.bonus]]
    BY <1>1 DEF Holds
  <2>2. held[o].cash + m.cash = cash /\ held[o].bonus + m.bonus = Margin - cash
    BY <1>2, <1>3 DEF NoMargin
  <2>. QED BY <2>1, <2>2
<1>6. wallet' = [wallet EXCEPT !.available = @ - cash, !.locked = @ + cash,
                               !.bonusLocked = @ + (Margin - cash)]
  BY <1>1, <1>3 DEF Lock
<1>7. Stage(o) = "none" /\ Stage(o)' = "locked"
  <2>1. row'[o].status = "pending" /\ held'[o] = [cash |-> cash, bonus |-> Margin - cash]
    BY <1>1, <1>5 DEF Inv, Type, TypeOK
  <2>2. cash # 0 \/ Margin - cash # 0
    BY <1>3
  <2>3. held'[o] # NoMargin
    BY <2>1, <2>2 DEF NoMargin
  <2>. QED BY <1>1, <1>2, <2>1, <2>3 DEF Stage
<1>8. Stages[o] = "none" /\ Stages' = [Stages EXCEPT ![o] = "locked"]
  <2>1. \A x \in Orders \ {o} : row'[x] = row[x] /\ db'[x] = db[x] /\ held'[x] = held[x]
    BY <1>1, <1>5 DEF Inv, Type, TypeOK
  <2>2. Stages' = [Stages EXCEPT ![o] = "locked"]
    BY <1>7, <2>1, StageMoves
  <2>. QED BY <1>7, <2>2 DEF Stages
<1>. QED BY <1>3, <1>4, <1>5, <1>6, <1>8 DEF Account!LockMargin, Account!Stage, Stages

LEMMA RollbackReturns ==
  ASSUME Inv, Fates, Rollback
  PROVE  \E o \in Orders : Account!ReturnMargin(o)
<1>. PICK o \in Orders : o = rolling
  BY RolledBack
<1>1. /\ engine[o] \in Ended /\ HoldsAll(o) /\ HeldOK(o)
      /\ wallet' = Unlock(wallet, row[o]) /\ row' = row /\ db' = db
      /\ held' = [held EXCEPT ![o] = NoMargin]
  BY RolledBack DEF Rollback, Inv, RollingOK, BooksOK
<1>2. row[o].status # "none" /\ ~db[o].released
  BY <1>1 DEF HeldOK, Ended
<1>3. Stage(o) = "locked" /\ Stage(o)' = "returned"
  <2>1. held[o] # NoMargin
    BY <1>1, <1>2, MarginHeld
  <2>2. held'[o] = NoMargin
    BY <1>1 DEF Inv, Type, TypeOK
  <2>. QED BY <1>1, <1>2, <2>1, <2>2 DEF Stage
<1>4. Stages[o] = "locked" /\ Stages' = [Stages EXCEPT ![o] = "returned"]
  <2>1. \A x \in Orders \ {o} : row'[x] = row[x] /\ db'[x] = db[x] /\ held'[x] = held[x]
    BY <1>1 DEF Inv, Type, TypeOK
  <2>2. Stages' = [Stages EXCEPT ![o] = "returned"]
    BY <1>3, <2>1, StageMoves
  <2>. QED BY <1>3, <2>2 DEF Stages
<1>5. wallet' = [wallet EXCEPT !.available = @ + held[o].cash, !.locked = @ - held[o].cash,
                               !.bonusLocked = @ - held[o].bonus]
  BY <1>1 DEF Unlock, HoldsAll
<1>. QED BY <1>1, <1>4, <1>5 DEF Account!ReturnMargin, Account!Stage, Account!Nothing, NoMargin, Stages

\* A loss takes the bonus that nothing locks, and cash only when that is gone.
LEMMA ApplySpends ==
  ASSUME NEW w \in Wallet, NEW pnl \in Int, w.bonusLocked <= w.bonus
  PROVE  LET spent == w.bonus - Apply(w, pnl).bonus
             gain  == Apply(w, pnl).available - w.available
         IN  /\ Apply(w, pnl) \in Wallet
             /\ 0 <= spent /\ spent <= w.bonus - w.bonusLocked
             /\ gain > 0 => spent = 0
             /\ gain < 0 => spent = w.bonus - w.bonusLocked
<1>. DEFINE absorbed == Least(AtLeastZero(-pnl), Consumable(w))
<1>1. w.bonus \in Int /\ w.bonusLocked \in Int /\ w.available \in Int
  BY DEF Wallet
<1>2. Consumable(w) = w.bonus - w.bonusLocked
  BY <1>1 DEF Consumable, AtLeastZero
<1>3. /\ absorbed \in Int /\ 0 <= absorbed /\ absorbed <= w.bonus - w.bonusLocked
      /\ pnl + absorbed > 0 => absorbed = 0
      /\ pnl + absorbed < 0 => absorbed = w.bonus - w.bonusLocked
  BY <1>1, <1>2 DEF Least, AtLeastZero
<1>4. /\ Apply(w, pnl).bonus = w.bonus - absorbed
      /\ Apply(w, pnl).available = w.available + pnl + absorbed
  BY DEF Apply, Wallet
<1>. HIDE DEF absorbed
<1>5. /\ w.bonus - Apply(w, pnl).bonus = absorbed
      /\ Apply(w, pnl).available - w.available = pnl + absorbed
  BY <1>1, <1>3, <1>4
<1>. QED BY <1>3, <1>5, ApplyType

LEMMA SettlesOnce ==
  ASSUME Inv, WalletInv, Fates, Settles
  PROVE  \E o \in Orders : Account!SettleMargin(o)
<1>. DEFINE e == Head(closes)
<1>1. e \in Closing /\ MessageOK(e)
  BY NextClose DEF Settles
<1>2. /\ wallet' = Apply(Unlock(wallet, e), e.pnl) /\ LetsGo(e.pos, e)
      /\ db' = [db EXCEPT ![e.pos].released = TRUE] /\ ~db[e.pos].released
      /\ row' = row
  BY DEF Settles, Unsettled
<1>. HIDE DEF e
<1>. PICK o \in Orders : o = e.pos
  BY <1>1 DEF Closing
<1>3. /\ e.cash \in Nat /\ e.bonus \in Nat /\ e.pnl \in Int
      /\ e.cash <= row[o].cash /\ e.bonus <= row[o].bonus /\ engine[o] = "filled"
  BY <1>1 DEF Closing, MessageOK
<1>4. /\ row[o].status # "none" /\ HoldsAll(o) /\ held[o] # NoMargin
  BY <1>2, <1>3, MarginHeld DEF Inv, BooksOK, HeldOK
<1>. PICK cash \in 0..held[o].cash, bonus \in 0..held[o].bonus : cash = e.cash /\ bonus = e.bonus
  BY SMTT(60), <1>3, <1>4 DEF HoldsAll, Inv, Type, TypeOK, Amount
<1>5. held' = [held EXCEPT ![o] = [cash |-> @.cash - cash, bonus |-> @.bonus - bonus]]
  <2>1. held' = [held EXCEPT ![o] = [cash |-> held[o].cash + (-e.cash),
                                     bonus |-> held[o].bonus + (-e.bonus)]]
    BY <1>2, Zenon DEF LetsGo, Holds
  <2>2. held[o].cash + (-e.cash) = held[o].cash - cash /\ held[o].bonus + (-e.bonus) = held[o].bonus - bonus
    BY <1>3 DEF Inv, Type, TypeOK, Amount
  <2>. QED BY <2>1, <2>2
<1>6. Stages[o] = "locked" /\ Stages' = [Stages EXCEPT ![o] = "returned"]
  <2>1. \A x \in Orders \ {o} : row'[x] = row[x] /\ db'[x] = db[x] /\ held'[x] = held[x]
    BY <1>2, <1>5 DEF Inv, Type, TypeOK
  <2>2. db'[o].released
    BY <1>2 DEF Inv, Type, TypeOK
  <2>3. Stage(o) = "locked" /\ Stage(o)' = "returned"
    BY <1>2, <1>4, <2>2 DEF Stage
  <2>. QED BY <2>1, <2>3, StageMoves DEF Stages
<1>. PICK w : w = Unlock(wallet, e)
  OBVIOUS
<1>7. wallet \in Wallet /\ w \in Wallet
  <2>1. wallet \in Wallet /\ e.cash \in Int /\ e.bonus \in Int
    BY SMTT(60), <1>3 DEF Inv, Type, TypeOK, Wallet
  <2>. QED BY <2>1, LockType
<1>8. /\ w.available = wallet.available + cash /\ w.locked = wallet.locked - cash
      /\ w.bonusLocked = wallet.bonusLocked - bonus /\ w.bonus = wallet.bonus
  BY <1>7 DEF Unlock, Wallet
<1>. DEFINE free  == wallet.bonus - (wallet.bonusLocked - bonus)
            spent == wallet.bonus - wallet'.bonus
            gain  == wallet'.available - (wallet.available + cash)
<1>9. /\ wallet' \in Wallet /\ 0 <= spent /\ spent <= free
      /\ gain > 0 => spent = 0
      /\ gain < 0 => spent = free
  <2>1. w.bonusLocked <= w.bonus
    BY <1>7, <1>8 DEF WalletInv, Wallet
  <2>. QED BY <1>2, <1>3, <1>7, <1>8, <2>1, ApplySpends
<1>10. wallet' = [wallet EXCEPT !.available = @ + cash + gain, !.locked = @ - cash,
                                !.bonus = @ - spent, !.bonusLocked = @ - bonus]
  <2>1. wallet'.locked = wallet.locked - cash /\ wallet'.bonusLocked = wallet.bonusLocked - bonus
    BY <1>2, <1>7, <1>8 DEF Apply, Wallet
  <2>2. /\ wallet'.available = wallet.available + cash + gain
        /\ wallet'.bonus = wallet.bonus - spent
    BY <1>7, <1>9 DEF Wallet
  <2>. HIDE DEF gain, spent
  <2>. QED BY <1>7, <1>9, <2>1, <2>2 DEF Wallet
<1>. QED BY <1>5, <1>6, <1>9, <1>10, Zenon DEF Account!SettleMargin, Account!Stage, Stages

LEMMA AccountStep ==
  ASSUME Inv, WalletInv, Fates, [Next]_vars
  PROVE  [Account!Next]_<<wallet, held, Stages>>
<1>1. ASSUME UNCHANGED <<wallet, held>>, row' = row, db' = db
      PROVE  UNCHANGED <<wallet, held, Stages>>
  BY <1>1, AccountQuiet
<1>2. CASE UNCHANGED vars
  BY <1>1, <1>2 DEF vars
<1>3. ASSUME NEW o \in Orders, Place(o) PROVE Account!Next
  BY <1>3, PlaceLocks DEF Account!Next
<1>4. ASSUME NEW o \in Orders, RequestCancel(o) PROVE UNCHANGED <<wallet, held, Stages>>
  <2>1. /\ row[o].status = "pending" /\ row' = [row EXCEPT ![o].status = "cancelling"]
        /\ UNCHANGED <<wallet, held, db>>
    BY <1>4 DEF RequestCancel
  <2>2. \A x \in Orders : row'[x].status = "none" <=> row[x].status = "none"
    BY <2>1 DEF Inv, Type, TypeOK
  <2>. QED BY <2>1, <2>2, AccountQuiet
<1>5. ASSUME NEW o \in Orders, OrderStep(o) \/ CloseStep(o)
      PROVE  UNCHANGED <<wallet, held, Stages>>
  BY <1>1, <1>5 DEF OrderStep, Accepts, Rejects, Cancels, CancelIsLate, Fills, Ends, CloseStep,
                    Reopens, ClosesPart, Closes, Triggers, ClosesAll, Engine
<1>6. ASSUME NEW h \in Handlers, Publishes(h) PROVE UNCHANGED <<wallet, held, Stages>>
  BY <1>1, <1>6 DEF Publishes
<1>7. CASE Outcome
  <2>. DEFINE e == Head(outcomes)
  <2>1. /\ row' = [row EXCEPT ![e.order].status = e.status] /\ UNCHANGED <<wallet, held, db>>
    BY <1>7 DEF Outcome
  <2>2. e.order \in Orders /\ e.status \in Ended \cup {"filled"} /\ engine[e.order] = e.status
    BY <1>7, NextOutcome DEF Fates
  <2>. HIDE DEF e
  <2>3. row[e.order].status # "none" /\ e.status # "none"
    BY <2>2 DEF Inv, BooksOK, HeldOK, Ended
  <2>4. \A x \in Orders : row'[x].status = "none" <=> row[x].status = "none"
    BY SMTT(60), <2>1, <2>3 DEF Inv, Type, TypeOK
  <2>. QED BY <2>1, <2>4, AccountQuiet
<1>8. CASE Update
  <2>1. /\ db' = [db EXCEPT ![Head(updates).pos].status = Head(updates).status]
        /\ UNCHANGED <<wallet, held, row>>
    BY <1>8 DEF Update
  <2>2. \A x \in Orders : db'[x].released = db[x].released
    BY SMTT(60), <2>1 DEF Inv, Type, TypeOK
  <2>. QED BY <2>1, <2>2, AccountQuiet
<1>9. CASE UpdatePanics \/ SettlesNothing \/ Trouble
  BY <1>1, <1>9 DEF UpdatePanics, SettlesNothing, Trouble, RollbackFails, SettleFails, Restart
<1>10. Rollback \/ Settles => Account!Next
  BY RollbackReturns, SettlesOnce DEF Account!Next
<1>. QED BY <1>2, <1>3, <1>4, <1>5, <1>6, <1>7, <1>8, <1>9, <1>10 DEF Next, Api, Listeners

-------------------------------------------------------------------------------
(* Theorems.                                                               *)

LEMMA InvInit == Init => Inv
<1>. SUFFICES ASSUME Init PROVE Inv
  OBVIOUS
<1>1. Type
  BY TypeInit
<1>2. MessagesOK /\ OutcomesOK /\ RollingOK
  BY DEF Init, MessagesOK, OutcomesOK, RollingOK
<1>3. BooksOK
  BY DEF Init, BooksOK, HeldOK, HoldsAll, Exposed, IsOpen, NoMargin, NoHash
<1>. QED BY <1>1, <1>2, <1>3 DEF Inv

LEMMA InvStep == Inv /\ [Next]_vars => Inv'
<1>. SUFFICES ASSUME Inv, [Next]_vars PROVE Inv'
  OBVIOUS
<1>1. Type'
  BY TypeStep DEF Inv
<1>. QED BY <1>1, MessagesStep, OutcomesStep, RollingStep, BooksStep DEF Inv

LEMMA InvHolds == Spec => []Inv
BY InvInit, InvStep, PTL DEF Spec

LEMMA WalletHolds == Spec => []WalletInv
<1>1. Inv /\ Inv' /\ WalletInv /\ [Next]_vars => WalletInv'
  BY WalletStep
<1>. QED BY <1>1, WalletInit, InvHolds, PTL DEF Spec

LEMMA FatesHold == Spec => []Fates
BY FatesInit, FatesStep, InvHolds, PTL DEF Spec

\* The rows and the hash keep their types; a position an administrator reopens is
\* never larger than the one that was filled.
THEOREM SettlementTypeCorrect == Spec => []TypeOK
<1>1. Inv => TypeOK
  BY DEF Inv, Type
<1>. QED BY <1>1, InvHolds, PTL

\* The wallet never gives back more than it holds for an order, although three
\* handlers announce closes and the position's row may be written before, between
\* and after them.
THEOREM NothingOverReleased == Spec => []NoOverRelease
<1>1. Inv => NoOverRelease
  BY DEF Inv, BooksOK, HeldOK, NoOverRelease, Type, TypeOK, Amount
<1>. QED BY <1>1, InvHolds, PTL

\* A live order and an open position that nobody reopened are backed by margin the
\* wallet still holds.
THEOREM ExposureIsCovered == Spec => []ExposureCovered
<1>1. ASSUME Inv, NEW o \in Orders \ reopened
      PROVE  Owed(o).cash <= held[o].cash /\ Owed(o).bonus <= held[o].bonus
  <2>1. /\ HeldOK(o) /\ held[o].cash \in Int /\ held[o].bonus \in Int
        /\ row[o].cash \in Nat /\ row[o].bonus \in Nat
    BY <1>1 DEF Inv, BooksOK, Type, TypeOK, Amount
  <2>2. CASE engine[o] = "filled" /\ IsOpen(o)
    BY <1>1, <2>1, <2>2 DEF Owed, HeldOK, Exposed
  <2>3. CASE engine[o] \in {"sent", "pending"}
    BY <2>1, <2>3 DEF Owed, HeldOK, HoldsAll
  <2>4. CASE ~(engine[o] = "filled" /\ IsOpen(o)) /\ engine[o] \notin {"sent", "pending"}
    <3>1. Owed(o) = NoMargin
      BY <2>4 DEF Owed
    <3>. QED BY <2>1, <3>1 DEF NoMargin, HeldOK
  <2>. QED BY <2>2, <2>3, <2>4
<1>2. Inv => ExposureCovered
  BY <1>1 DEF ExposureCovered
<1>. QED BY <1>2, InvHolds, PTL

\* What is locked in the wallet is never negative, and bonus that is locked is never
\* spent: no settlement runs into the CHECK constraints of the wallets table.
THEOREM WalletStaysSound == Spec => []WalletSound
<1>1. ASSUME Inv, WalletInv PROVE WalletSound
  <2>. DEFINE c == [x \in Orders |-> held[x].cash]  b == [x \in Orders |-> held[x].bonus]
  <2>1. c \in [Orders -> Nat] /\ b \in [Orders -> Nat]
    BY SMTT(60), <1>1 DEF Inv, BooksOK, HeldOK, Type, TypeOK, Amount
  <2>2. SumFunction(c) \in Nat /\ SumFunction(b) \in Nat
    <3>. HIDE DEF c, b
    <3>. QED BY <2>1, Bounds, SumNat
  <2>3. CashHeld \in Nat /\ BonusHeld \in Nat
    BY <2>2, Zenon DEF CashHeld, BonusHeld
  <2>. QED BY <1>1, <2>3 DEF WalletInv, WalletSound, BonusCovered, Inv, Type
<1>. QED BY <1>1, WalletHolds, InvHolds, PTL

\* The margin of an order that the engine cancelled or rejected is never forgotten as
\* long as nothing failed: it is returned, its rollback is owed, or its outcome still
\* waits and the row will take it.
EndedIsSettled ==
  \A o \in Orders : engine[o] \in Ended /\ faults = 0 =>
    \/ held[o] = NoMargin
    \/ rolling = o
    \/ \E i \in 1..Len(outcomes) : /\ outcomes[i].order = o
                                   /\ outcomes[i].status # row[o].status

THEOREM EndedIsAccountedFor == Spec => []EndedIsSettled
<1>1. Fates => EndedIsSettled
  <2>. SUFFICES ASSUME Fates, NEW o \in Orders, engine[o] \in Ended, faults = 0,
                       held[o] # NoMargin, rolling # o
                PROVE  \E i \in 1..Len(outcomes) : /\ outcomes[i].order = o
                                                  /\ outcomes[i].status # row[o].status
    BY DEF EndedIsSettled
  <2>1. PICK i \in 1..Len(outcomes) : outcomes[i].order = o
    BY DEF Fates, SettledOK, Awaited
  <2>2. outcomes[i].status = engine[o] /\ row[o].status \notin Ended
    BY <2>1 DEF Fates, SettledOK, Told
  <2>. QED BY <2>1, <2>2
<1>. QED BY <1>1, FatesHold, PTL

\* The order API, the engine and the listeners together implement MarginAccount: the
\* margin of an order is locked once and in full, given back in one transaction at
\* most, and a loss is taken from free bonus before it is taken from cash, whatever
\* the four announcers of closes and the three listeners do in which order.
THEOREM AccountIsKept == Spec => AccountSpec
<1>1. Init => Account!Init
  BY DEF Init, Account!Init, Account!Nothing, NoMargin, Stage
<1>2. Inv /\ WalletInv /\ Fates /\ [Next]_vars => [Account!Next]_(Account!vars)
  BY AccountStep DEF Account!vars, Stages
<1>. QED BY <1>1, <1>2, InvHolds, WalletHolds, FatesHold, PTL DEF Spec, AccountSpec, Account!Spec
===============================================================================
