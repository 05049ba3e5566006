------------------------ MODULE TradingDock_proofs ------------------------
(***************************************************************************)
(* Proofs about TradingDock, for any number of orders, positions, answers  *)
(* on their way, lost connections and visits: the lists keep their types,  *)
(* an order that ended does not come back, a row the socket appended stays *)
(* in its grace, and once nothing is on its way both lists are the         *)
(* server's.                                                               *)
(***************************************************************************)
EXTENDS TradingDock, SequenceTheorems, TLAPS

-------------------------------------------------------------------------------
(* Queues of answers.                                                      *)

\* What is left when the i-th answer is taken.
LEMMA WithoutIs ==
  ASSUME NEW S, NEW q \in Seq(S), NEW i \in 1..Len(q)
  PROVE  /\ Without(q, i) \in Seq(S)
         /\ Len(Without(q, i)) = Len(q) - 1
         /\ \A j \in 1..(Len(q) - 1) : Without(q, i)[j] = IF j < i THEN q[j] ELSE q[j + 1]
<1>. PICK a \in Seq(S), b \in Seq(S) : a = SubSeq(q, 1, i - 1) /\ b = SubSeq(q, i + 1, Len(q))
  <2>1. SubSeq(q, 1, i - 1) \in Seq(S)
    BY SubSeqProperties
  <2>2. SubSeq(q, i + 1, Len(q)) \in Seq(S)
    BY SubSeqProperties
  <2>. QED BY <2>1, <2>2
<1>1. Len(a) = i - 1 /\ \A j \in 1..(i - 1) : a[j] = q[j]
  BY SubSeqProperties
<1>2. Len(b) = Len(q) - i /\ \A j \in 1..(Len(q) - i) : b[j] = q[i + j]
  BY SubSeqProperties
<1>3. Without(q, i) = a \o b
  BY DEF Without
<1>4. /\ a \o b \in Seq(S) /\ Len(a \o b) = Len(a) + Len(b)
      /\ \A j \in 1..(Len(a) + Len(b)) : (a \o b)[j] = IF j <= Len(a) THEN a[j] ELSE b[j - Len(a)]
  BY ZenonT(60), ConcatProperties
<1>n. Len(q) \in Nat /\ i \in 1..Len(q) /\ Len(a) = i - 1 /\ Len(b) = Len(q) - i
  BY <1>1, <1>2
<1>m. Len(a) + Len(b) = Len(q) - 1
  BY ONLY <1>n
<1>5. ASSUME NEW j \in 1..(Len(q) - 1) PROVE Without(q, i)[j] = IF j < i THEN q[j] ELSE q[j + 1]
  <2>1. j \in 1..(Len(a) + Len(b))
    BY <1>m
  <2>2. CASE j < i
    BY <1>1, <1>3, <1>4, <2>1, <2>2
  <2>3. CASE ~(j < i)
    <3>. PICK l \in 1..(Len(q) - i) : l = j - (i - 1) /\ i + l = j + 1
      BY <1>n, <2>3
    <3>1. b[l] = q[j + 1]
      BY <1>2
    <3>2. ~(j <= Len(a)) /\ j - Len(a) = l
      BY <1>n, <2>3
    <3>. QED BY <1>3, <1>4, <2>1, <2>3, <3>1, <3>2
  <2>. QED BY <2>2, <2>3
<1>. QED BY <1>m, <1>3, <1>4, <1>5

\* What is last when x is added.
LEMMA Append1Is ==
  ASSUME NEW S, NEW q \in Seq(S), NEW x \in S
  PROVE  /\ Append1(q, x) \in Seq(S) /\ Append1(q, x) # <<>>
         /\ Len(Append1(q, x)) \in {Len(q), Len(q) + 1}
         /\ Append1(q, x)[Len(Append1(q, x))] = x
         /\ \A j \in 1..Len(q) : Append1(q, x)[j] = q[j]
         /\ \A j \in 1..Len(Append1(q, x)) : j \in 1..Len(q) \/ Append1(q, x)[j] = x
<1>1. CASE q # <<>> /\ q[Len(q)] = x
  <2>1. Append1(q, x) = q
    BY <1>1 DEF Append1
  <2>. QED BY <1>1, <2>1
<1>2. CASE ~(q # <<>> /\ q[Len(q)] = x)
  <2>1. Append1(q, x) = Append(q, x)
    BY <1>2 DEF Append1
  <2>2. /\ Append(q, x) \in Seq(S) /\ Len(Append(q, x)) = Len(q) + 1
        /\ Append(q, x)[Len(q) + 1] = x /\ \A j \in 1..Len(q) : Append(q, x)[j] = q[j]
    OBVIOUS
  <2>. QED BY <2>1, <2>2
<1>. QED BY <1>1, <1>2

-------------------------------------------------------------------------------
(* Messages.                                                               *)

LEMMA OrderMsgIs == \A t, s : OrderMsg(t, s).of = "order" /\ OrderMsg(t, s).t = t /\ OrderMsg(t, s).st = s
BY DEF OrderMsg

LEMMA PositionMsgIs ==
  \A t : /\ OpenedMsg(t).of = "position" /\ OpenedMsg(t).t = t /\ OpenedMsg(t).st = "OPEN"
         /\ ClosedMsg(t).of = "position" /\ ClosedMsg(t).t = t /\ ClosedMsg(t).st = "absent"
BY DEF OpenedMsg, ClosedMsg

LEMMA InMessages ==
  /\ \A t \in Orders, s \in Working \cup Ended : OrderMsg(t, s) \in Messages
  /\ \A t \in Positions : OpenedMsg(t) \in Messages /\ ClosedMsg(t) \in Messages
BY DEF Messages

\* What is on the wire is a message of an order or of a position.
LEMMA OfMessages ==
  ASSUME NEW m \in Messages
  PROVE  /\ m.of = "order" => m.t \in Orders /\ m.st \in Working \cup Ended /\ m = OrderMsg(m.t, m.st)
         /\ m.of = "position" => m.t \in Positions /\ (m = OpenedMsg(m.t) \/ m = ClosedMsg(m.t))
         /\ m.of \in {"order", "position"}
<1>1. CASE \E t \in Orders, s \in Working \cup Ended : m = OrderMsg(t, s)
  BY <1>1, OrderMsgIs
<1>2. CASE \E t \in Positions : m = OpenedMsg(t) \/ m = ClosedMsg(t)
  BY <1>2, PositionMsgIs
<1>. QED BY <1>1, <1>2 DEF Messages

-------------------------------------------------------------------------------
(* Types.                                                                  *)

LEMMA TypeInit == Init => TypeOK
<1>. SUFFICES ASSUME Init PROVE TypeOK
  OBVIOUS
<1>1. drops \in 0..MaxDrops /\ visits \in 0..MaxVisits
  BY DockAssumption DEF Init
<1>2. posAnswers \in Seq(SUBSET Positions) /\ ordAnswers \in Seq([Working -> SUBSET Orders])
  BY DEF Init
<1>3. ordHalf \in [read : SUBSET Working, checked : BOOLEAN, rows : [Working -> SUBSET Orders]]
  BY DEF Init, NoHalf
<1>. QED BY <1>1, <1>2, <1>3 DEF Init, TypeOK

LEMMA OrderTypes == ASSUME TypeOK, NEW t \in Orders, Order(t) PROVE TypeOK'
<1>. USE DEF server, ordSide, posSide, calls, dock, posFetch, ordFetch, posView, ordView, rest
<1>1. ASSUME Place(t) \/ PlaceCommits(t) \/ PlacePublishes(t) \/ PlaceAnswered(t) \/ PlaceFails(t) PROVE TypeOK'
  <2>1. OrderMsg(t, "pending") \in Messages
    BY InMessages DEF Working
  <2>2. CASE Place(t)
    BY <2>2 DEF Place, TypeOK
  <2>3. CASE PlaceCommits(t)
    BY <2>3 DEF PlaceCommits, TypeOK, Working
  <2>4. CASE PlacePublishes(t)
    BY <2>1, <2>4 DEF PlacePublishes, TypeOK
  <2>5. CASE PlaceAnswered(t)
    BY <2>5 DEF PlaceAnswered, TypeOK
  <2>6. CASE PlaceFails(t)
    BY <2>6 DEF PlaceFails, TypeOK, Disturbances
  <2>. QED BY <1>1, <2>2, <2>3, <2>4, <2>5, <2>6
<1>2. CASE Fills(t)
  BY <1>2 DEF Fills, TypeOK, Ended
<1>3. CASE Rejects(t)
  BY <1>3 DEF Rejects, TypeOK, Ended
<1>4. CASE Cancels(t)
  BY <1>4 DEF Cancels, TypeOK, Ended
<1>5. CASE Settles(t) \/ Untold(t)
  <2>1. outcome[t] \in Ended => OrderMsg(t, outcome[t]) \in Messages
    BY InMessages
  <2>2. order[t] \in {"none"} \cup Working \cup Ended /\ outcome[t] \in {"none"} \cup Ended
    BY DEF TypeOK
  <2>3. CASE Settles(t)
    <3>1. order' \in [Orders -> {"none"} \cup Working \cup Ended] /\ report' \in [Orders -> {"none", "due", "told", "untold"}]
      BY <2>2, <2>3 DEF Settles, TypeOK
    <3>2. wire' \subseteq Messages
      BY <2>1, <2>2, <2>3 DEF Settles, TypeOK
    <3>. QED BY <2>3, <3>1, <3>2 DEF Settles, TypeOK
  <2>4. CASE Untold(t)
    <3>1. order' \in [Orders -> {"none"} \cup Working \cup Ended] /\ report' \in [Orders -> {"none", "due", "told", "untold"}]
      BY <2>2, <2>4 DEF Untold, TypeOK
    <3>. QED BY <2>4, <3>1 DEF Untold, TypeOK, Disturbances
  <2>. QED BY <1>5, <2>3, <2>4
<1>6. CASE CancelClick(t)
  BY <1>6 DEF CancelClick, TypeOK
<1>7. CASE CancelServed(t)
  <2>1. OrderMsg(t, "cancelling") \in Messages
    BY InMessages DEF Working
  <2>. QED BY SMTT(60), <1>7, <2>1 DEF CancelServed, TypeOK, Working
<1>8. CASE CancelAnswered(t)
  BY ZenonT(60), <1>8 DEF CancelAnswered, TypeOK, Working
<1>. QED BY <1>1, <1>2, <1>3, <1>4, <1>5, <1>6, <1>7, <1>8 DEF Order

LEMMA PositionTypes == ASSUME TypeOK, NEW t \in Positions, Position(t) PROVE TypeOK'
<1>. USE DEF server, ordSide, posSide, calls, dock, posFetch, ordFetch, posView, ordView, rest
<1>0. OpenedMsg(t) \in Messages /\ ClosedMsg(t) \in Messages
  BY InMessages
<1>1. CASE Opens(t) \/ Reopens(t)
  BY <1>0, <1>1 DEF Opens, Reopens, TypeOK, Disturbances
<1>2. CASE Closes(t)
  <2>1. wire' \subseteq Messages
    BY <1>0, <1>2 DEF Closes, Announces, TypeOK
  <2>2. pos' \in [Positions -> {"none", "open", "closed"}]
    BY <1>2 DEF Closes, TypeOK
  <2>. QED BY <1>2, <2>1, <2>2 DEF Closes, TypeOK
<1>3. CASE Refuses(t)
  BY <1>3 DEF Refuses, TypeOK, Disturbances
<1>4. CASE ClosesElsewhere(t)
  BY <1>0, <1>4 DEF ClosesElsewhere, Announces, TypeOK
<1>5. CASE CloseClick(t) \/ CloseAllNext(t)
  BY SMTT(60), <1>5 DEF CloseClick, CloseAllNext, Bury, TypeOK
<1>6. CASE CloseServed(t)
  BY SMTT(60), <1>6 DEF CloseServed, TypeOK
<1>7. CASE CloseAnswered(t)
  BY <1>7 DEF CloseAnswered, TypeOK
<1>8. CASE GraceEnds(t) \/ TombExpires(t)
  BY <1>8 DEF GraceEnds, TombExpires, TypeOK
<1>. QED BY <1>1, <1>2, <1>3, <1>4, <1>5, <1>6, <1>7, <1>8 DEF Position

HalfType == [read : SUBSET Working, checked : BOOLEAN, rows : [Working -> SUBSET Orders]]

\* A pair of lists whose pending rows were checked.
LEMMA HalfChecked ==
  ASSUME TypeOK, NEW seen, NEW h,
         h = [read |-> ordHalf.read, checked |-> TRUE, rows |-> [ordHalf.rows EXCEPT !["pending"] = @ \ seen]]
  PROVE  /\ h \in HalfType /\ h.read = ordHalf.read /\ h.checked
         /\ h.rows["pending"] = ordHalf.rows["pending"] \ seen
         /\ \A s \in Working : s # "pending" => h.rows[s] = ordHalf.rows[s]
<1>. PICK g : g = [ordHalf.rows EXCEPT !["pending"] = @ \ seen]
  OBVIOUS
<1>1. ordHalf \in HalfType /\ ordHalf.rows \in [Working -> SUBSET Orders]
  BY DEF HalfType, TypeOK
<1>2. "pending" \in Working
  BY DEF Working
<1>3. /\ g \in [Working -> SUBSET Orders] /\ g["pending"] = ordHalf.rows["pending"] \ seen
      /\ \A s \in Working : s # "pending" => g[s] = ordHalf.rows[s]
  BY <1>1, <1>2
<1>4. h = [read |-> ordHalf.read, checked |-> TRUE, rows |-> g]
  OBVIOUS
<1>5. h \in HalfType /\ h.read = ordHalf.read /\ h.checked /\ h.rows = g
  BY <1>1, <1>3, <1>4 DEF HalfType
<1>. QED BY <1>3, <1>5

LEMMA ServingTypes ==
  ASSUME TypeOK, NEW h \in HalfType, Serving(h)
  PROVE  ordHalf' \in HalfType /\ ordAnswers' \in Seq([Working -> SUBSET Orders])
<1>1. NoHalf \in HalfType /\ h.rows \in [Working -> SUBSET Orders]
  BY DEF HalfType, NoHalf
<1>2. Append1(ordAnswers, h.rows) \in Seq([Working -> SUBSET Orders])
  BY <1>1, Append1Is DEF TypeOK
<1>. QED BY <1>1, <1>2 DEF Serving, TypeOK

LEMMA FetchTypes ==
  ASSUME TypeOK,
         \/ ServePositions \/ CheckOrders \/ VisitPositions \/ VisitOrders
         \/ \E i \in 1..MaxAnswers : \/ PositionsAnswered(i) \/ PositionsFail(i)
                                    \/ OrdersAnswered(i) \/ OrdersFail(i)
         \/ \E s \in Working : ServeOrders(s)
  PROVE  TypeOK'
<1>. USE DEF server, ordSide, posSide, calls, dock, posFetch, ordFetch, posView, ordView, rest
<1>1. CASE ServePositions
  <2>. PICK left \in SUBSET Open : /\ posAnswers' = Append1(posAnswers, Open \ left)
                                  /\ odd' = IF left = {} THEN odd ELSE odd \cup {"failed"}
    BY <1>1 DEF ServePositions
  <2>1. posAnswers' \in Seq(SUBSET Positions)
    <3>1. (Open \ left) \in SUBSET Positions /\ posAnswers \in Seq(SUBSET Positions)
      BY DEF Open, TypeOK
    <3>. QED BY <3>1, Append1Is
  <2>2. odd' \subseteq Disturbances
    BY DEF TypeOK, Disturbances
  <2>. QED BY <1>1, <2>1, <2>2 DEF ServePositions, TypeOK
<1>2. CASE VisitPositions \/ VisitOrders
  <2>1. visits' \in 0..MaxVisits
    BY <1>2, DockAssumption DEF VisitPositions, VisitOrders, TypeOK
  <2>. QED BY ZenonT(60), <1>2, <2>1 DEF VisitPositions, VisitOrders, TypeOK
<1>3. ASSUME NEW i \in 1..MaxAnswers, PositionsAnswered(i) PROVE TypeOK'
  <2>1. posAnswers' \in Seq(SUBSET Positions) /\ posAnswers[i] \subseteq Positions
    <3>1. posAnswers \in Seq(SUBSET Positions) /\ i \in 1..Len(posAnswers)
      BY <1>3 DEF PositionsAnswered, TypeOK
    <3>. QED BY <1>3, <3>1, WithoutIs DEF PositionsAnswered
  <2>2. rows' \subseteq Positions /\ grace' \subseteq Positions /\ tombs' \subseteq Positions
    BY <1>3, <2>1 DEF PositionsAnswered, FilterRest, TombsLeft, Merge, TypeOK
  <2>3. odd' \subseteq Disturbances
    BY <1>3 DEF PositionsAnswered, InTurn, TypeOK, Disturbances
  <2>. QED BY <1>3, <2>1, <2>2, <2>3 DEF PositionsAnswered, TypeOK
<1>4. ASSUME NEW i \in 1..MaxAnswers, OrdersAnswered(i) PROVE TypeOK'
  <2>1. ordAnswers' \in Seq([Working -> SUBSET Orders])
    <3>1. ordAnswers \in Seq([Working -> SUBSET Orders]) /\ i \in 1..Len(ordAnswers)
      BY <1>4 DEF OrdersAnswered, TypeOK
    <3>. QED BY <1>4, <3>1, WithoutIs DEF OrdersAnswered
  <2>2. list' \in [Orders -> {"none"} \cup Working] /\ orderTombs' \subseteq Orders
    BY <1>4 DEF OrdersAnswered, ListOf, Working, TypeOK
  <2>3. odd' \subseteq Disturbances
    BY <1>4 DEF OrdersAnswered, InTurn, TypeOK, Disturbances
  <2>. QED BY <1>4, <2>1, <2>2, <2>3 DEF OrdersAnswered, TypeOK
<1>5. ASSUME NEW s \in Working, ServeOrders(s) PROVE TypeOK'
  <2>. PICK h : h = [ordHalf EXCEPT !.read = @ \cup {s}, !.rows = [@ EXCEPT ![s] = With(s)]]
    OBVIOUS
  <2>1. h \in HalfType
    BY DEF HalfType, With, TypeOK
  <2>2. Serving(h)
    BY <1>5 DEF ServeOrders
  <2>3. ordHalf' \in HalfType /\ ordAnswers' \in Seq([Working -> SUBSET Orders])
    BY <2>1, <2>2, ServingTypes
  <2>4. ordAsked' \in BOOLEAN
    BY <1>5 DEF ServeOrders, TypeOK
  <2>. QED BY <1>5, <2>3, <2>4 DEF ServeOrders, HalfType, TypeOK
<1>6. CASE CheckOrders
  <2>. PICK seen, unset :
         /\ seen \subseteq {t \in ordHalf.rows["pending"] : outcome[t] \in {"filled", "rejected"}}
         /\ unset \subseteq seen
         /\ order' = [t \in Orders |-> IF t \in seen \ unset /\ order[t] = "pending" THEN outcome[t] ELSE order[t]]
         /\ odd' = IF unset = {} THEN odd ELSE odd \cup {"failed"}
         /\ Serving([read |-> ordHalf.read, checked |-> TRUE, rows |-> [ordHalf.rows EXCEPT !["pending"] = @ \ seen]])
    BY <1>6 DEF CheckOrders
  <2>. PICK h : h = [read |-> ordHalf.read, checked |-> TRUE, rows |-> [ordHalf.rows EXCEPT !["pending"] = @ \ seen]]
    OBVIOUS
  <2>1. h \in HalfType
    BY HalfChecked
  <2>2. ordHalf' \in HalfType /\ ordAnswers' \in Seq([Working -> SUBSET Orders])
    BY <2>1, ServingTypes
  <2>3. order' \in [Orders -> {"none"} \cup Working \cup Ended]
    BY DEF TypeOK
  <2>4. odd' \subseteq Disturbances
    BY DEF TypeOK, Disturbances
  <2>. QED BY <1>6, <2>2, <2>3, <2>4 DEF CheckOrders, HalfType, TypeOK
<1>7. ASSUME NEW i \in 1..MaxAnswers, PositionsFail(i) \/ OrdersFail(i) PROVE TypeOK'
  <2>1. posAnswers' \in Seq(SUBSET Positions) /\ ordAnswers' \in Seq([Working -> SUBSET Orders])
    BY <1>7, WithoutIs DEF PositionsFail, OrdersFail, TypeOK
  <2>. QED BY <1>7, <2>1 DEF PositionsFail, OrdersFail, TypeOK, Disturbances
<1>. QED BY <1>1, <1>2, <1>3, <1>4, <1>5, <1>6, <1>7

LEMMA SocketTypes ==
  ASSUME TypeOK,
         \/ \E m \in wire : PositionUpdate(m) \/ OrderUpdate(m) \/ Lose(m)
         \/ Drop \/ AuthSuccess \/ AuthRefused \/ GivesUp \/ CloseAllClick
  PROVE  TypeOK'
<1>. USE DEF server, ordSide, posSide, calls, dock, posFetch, ordFetch, posView, ordView, rest
<1>0. wire \subseteq Messages
  BY DEF TypeOK
<1>1. ASSUME NEW m \in wire, PositionUpdate(m) PROVE TypeOK'
  <2>1. m.t \in Positions
    BY <1>0, <1>1, OfMessages DEF PositionUpdate
  <2>2. rows' \subseteq Positions /\ grace' \subseteq Positions /\ tombs' \subseteq Positions
    BY <1>1, <2>1 DEF PositionUpdate, TypeOK
  <2>3. posAsked' \in BOOLEAN /\ ordAsked' \in BOOLEAN
    BY <1>1 DEF PositionUpdate
  <2>. QED BY <1>1, <2>2, <2>3 DEF PositionUpdate, TypeOK
<1>2. ASSUME NEW m \in wire, OrderUpdate(m) PROVE TypeOK'
  <2>1. m.t \in Orders /\ m.st \in Working \cup Ended
    BY <1>0, <1>2, OfMessages DEF OrderUpdate
  <2>2. list' \in [Orders -> {"none"} \cup Working] /\ orderTombs' \subseteq Orders
    BY <1>2, <2>1 DEF OrderUpdate, Shows, TypeOK
  <2>3. posAsked' \in BOOLEAN /\ ordAsked' \in BOOLEAN /\ odd' \subseteq Disturbances
    BY <1>2 DEF OrderUpdate, TypeOK, Disturbances
  <2>. QED BY <1>2, <2>2, <2>3 DEF OrderUpdate, TypeOK
<1>3. ASSUME NEW m \in wire, Lose(m) PROVE TypeOK'
  BY <1>3 DEF Lose, TypeOK, Disturbances
<1>4. CASE Drop \/ AuthSuccess \/ AuthRefused \/ GivesUp \/ CloseAllClick
  <2>1. drops' \in 0..MaxDrops
    BY <1>4, DockAssumption DEF Drop, AuthSuccess, AuthRefused, GivesUp, CloseAllClick, TypeOK
  <2>2. sock' \in {"down", "up", "refused", "off"}
    BY <1>4 DEF Drop, AuthSuccess, AuthRefused, GivesUp, CloseAllClick, TypeOK
  <2>. QED BY ZenonT(60), <1>4, <2>1, <2>2 DEF Drop, AuthSuccess, AuthRefused, GivesUp, CloseAllClick, TypeOK
<1>. QED BY <1>1, <1>2, <1>3, <1>4

LEMMA TypeStep == ASSUME TypeOK, [Next]_vars PROVE TypeOK'
<1>1. CASE UNCHANGED vars
  BY <1>1 DEF vars, server, ordSide, posSide, calls, dock, posFetch, ordFetch, posView, ordView, rest, TypeOK
<1>. QED BY <1>1, OrderTypes, PositionTypes, FetchTypes, SocketTypes DEF Next

-------------------------------------------------------------------------------
(* Rows that the socket appended.                                          *)

LEMMA RowsKept ==
  ASSUME TypeOK, [Next]_vars, NEW t \in rows \cap grace, t \notin rows'
  PROVE  closing'[t] = "sent"
<1>. USE DEF server, ordSide, posSide, calls, dock, posFetch, ordFetch, posView, ordView, rest
<1>0. rows' # rows
  OBVIOUS
<1>1. CASE \E u \in Orders : Order(u)
  BY <1>0, <1>1 DEF Order, Place, PlaceCommits, PlacePublishes, PlaceAnswered, PlaceFails, Fills, Rejects,
                    Cancels, Settles, Untold, CancelClick, CancelServed, CancelAnswered
<1>2. ASSUME NEW u \in Positions, CloseClick(u) \/ CloseAllNext(u) PROVE closing'[t] = "sent"
  BY <1>2 DEF CloseClick, CloseAllNext, Bury, TypeOK
<1>3. ASSUME NEW u \in Positions, Position(u), ~CloseClick(u), ~CloseAllNext(u) PROVE FALSE
  BY <1>0, <1>3 DEF Position, Opens, Reopens, Closes, Refuses, ClosesElsewhere, CloseServed, CloseAnswered,
                    GraceEnds, TombExpires
<1>4. ASSUME NEW i \in 1..MaxAnswers, PositionsAnswered(i) PROVE FALSE
  BY <1>4 DEF PositionsAnswered, Merge
<1>5. ASSUME NEW m \in wire, PositionUpdate(m) PROVE FALSE
  <2>1. m = OpenedMsg(m.t) \/ m = ClosedMsg(m.t)
    BY <1>5, OfMessages DEF PositionUpdate, TypeOK
  <2>2. Opening(m)
    BY <2>1, PositionMsgIs DEF Opening, GatewayStatus
  <2>. QED BY <1>5, <2>2 DEF PositionUpdate
<1>6. ASSUME NEW m \in wire, OrderUpdate(m) \/ Lose(m) PROVE FALSE
  BY <1>0, <1>6 DEF OrderUpdate, Lose
<1>7. ASSUME NEW i \in 1..MaxAnswers, OrdersAnswered(i) \/ OrdersFail(i) \/ PositionsFail(i) PROVE FALSE
  BY <1>0, <1>7 DEF OrdersAnswered, OrdersFail, PositionsFail
<1>8. ASSUME NEW w \in Working, ServeOrders(w) PROVE FALSE
  BY <1>0, <1>8 DEF ServeOrders
<1>9. CASE \/ UNCHANGED vars \/ ServePositions \/ CheckOrders \/ VisitPositions \/ VisitOrders \/ CloseAllClick
           \/ Drop \/ AuthSuccess \/ AuthRefused \/ GivesUp
  BY <1>0, <1>9 DEF vars, ServePositions, CheckOrders, VisitPositions, VisitOrders, CloseAllClick, Drop,
                    AuthSuccess, AuthRefused, GivesUp
<1>. QED BY <1>1, <1>2, <1>3, <1>4, <1>5, <1>6, <1>7, <1>8, <1>9 DEF Next

\* A row that the socket appended is taken off within its grace by nothing but
\* the user's own close: mergePositions keeps it from every answer, however old.
THEOREM AppendedRowsStay == Spec => AppendedStays
<1>1. TypeOK /\ [Next]_vars => [\A t \in rows \cap grace : t \in rows' \/ closing'[t] = "sent"]_vars
  BY RowsKept
<1>. QED BY <1>1, TypeInit, TypeStep, PTL DEF Spec, AppendedStays

-------------------------------------------------------------------------------
(* The order list.                                                         *)

Told(t, s)  == OrderMsg(t, s) \in wire
Early(t)    == Told(t, "pending") \/ placing[t] = "committed"

\* The server's side of one order, and what the dock can have seen of it.
ServerOK(t) ==
  /\ order[t] # "none" <=> placing[t] \in {"committed", "answered", "done"}
  /\ outcome[t] # "none" => order[t] # "none"
  /\ report[t] = "none" <=> outcome[t] = "none"
  /\ report[t] = "told" => order[t] \in Ended
  /\ t \in cancelCmd => order[t] \in {"cancelling"} \cup Ended
  /\ order[t] \in Ended => order[t] = outcome[t]
  /\ \A s \in Ended : Told(t, s) => order[t] = s /\ report[t] = "told"
  /\ Told(t, "cancelling") => order[t] \in {"cancelling"} \cup Ended
  /\ Told(t, "pending") => placing[t] \in {"answered", "done"}
  /\ t \in orderTombs => order[t] \in Ended /\ report[t] = "told"

\* While messages are handled in turn, an older one still to come means that
\* the newer one is still to come as well, and a buried order has none.
TurnOK(t) ==
  /\ Early(t) \/ Told(t, "cancelling") => (report[t] = "told" => Told(t, order[t]))
  /\ Early(t) /\ order[t] = "cancelling" => Told(t, "cancelling")
  /\ t \in orderTombs => list[t] = "none" /\ ~Early(t)

\* A fetch that has not begun is coming ...
Due(t) == \/ sock # "up" \/ ordAsked
          \/ \E s \in Ended : Told(t, s)
          \/ placing[t] \in {"committed", "answered"} \/ cancelling[t] = "ok"
          \/ report[t] = "due" /\ order[t] = "filled"

\* ... or what was read last of the server is what it says now.
View(t) == IF order[t] \in Working THEN order[t] ELSE "none"
Current(t) ==
  /\ \A s \in ordHalf.read : t \in ordHalf.rows[s] <=> order[t] = s
  /\ ordHalf.read = {} /\ ordAnswers # <<>> =>
       \A s \in Working : t \in ordAnswers[Len(ordAnswers)][s] <=> order[t] = s
  /\ ordHalf.read = {} /\ ordAnswers = <<>> =>
       \/ list[t] = View(t)
       \/ order[t] = "cancelling" /\ list[t] = "pending" /\ Told(t, "cancelling")

Disagreeing == {"reordered", "overtaken", "lost", "failed", "untold", "late"}

OrderOK(t) ==
  /\ ServerOK(t)
  /\ "overtaken" \notin odd => TurnOK(t)
  /\ odd \cap Disagreeing = {} => Due(t) \/ Current(t)

OrdersInv == \A t \in Orders : OrderOK(t)

\* An order that a step does not touch.
LEMMA SameOrder ==
  ASSUME NEW t \in Orders, OrderOK(t), order'[t] = order[t], outcome'[t] = outcome[t],
         report'[t] = report[t], t \in cancelCmd' <=> t \in cancelCmd, placing'[t] = placing[t],
         cancelling'[t] = cancelling[t], list'[t] = list[t],
         t \in orderTombs' <=> t \in orderTombs, \A s : Told(t, s)' <=> Told(t, s),
         UNCHANGED <<ordHalf, ordAnswers, sock>>, odd \subseteq odd', ordAsked => ordAsked'
  PROVE  OrderOK(t)'
<1>1. ServerOK(t)'
  BY DEF OrderOK, ServerOK
<1>2. Early(t)' <=> Early(t)
  BY DEF Early
<1>3. TurnOK(t) => TurnOK(t)'
  BY <1>2 DEF TurnOK
<1>4. Due(t) => Due(t)'
  BY DEF Due
<1>5. Current(t) => Current(t)'
  BY DEF Current, View
<1>. QED BY <1>1, <1>3, <1>4, <1>5 DEF OrderOK

\* Steps of positions, of their list and of the dialogs.
LEMMA OrdersAside ==
  ASSUME OrdersInv,
         UNCHANGED <<order, outcome, report, cancelCmd, placing, cancelling, list, orderTombs, ordHalf,
                     ordAnswers, sock>>,
         \A t, s : Told(t, s)' <=> Told(t, s), odd \subseteq odd', ordAsked => ordAsked'
  PROVE  OrdersInv'
BY SameOrder DEF OrdersInv

LEMMA OrdersElsewhere ==
  ASSUME TypeOK, OrdersInv,
         \/ \E t \in Positions : Position(t)
         \/ CloseAllClick \/ ServePositions \/ VisitPositions \/ VisitOrders \/ UNCHANGED vars
         \/ \E i \in 1..MaxAnswers : PositionsAnswered(i) \/ PositionsFail(i)
         \/ \E m \in wire : PositionUpdate(m)
         \/ \E m \in wire : Lose(m) /\ m.of = "position"
  PROVE  OrdersInv'
<1>. USE DEF server, ordSide, posSide, calls, dock, posFetch, ordFetch, posView, ordView, rest
<1>0. \A t, s, u : OrderMsg(t, s) # OpenedMsg(u) /\ OrderMsg(t, s) # ClosedMsg(u)
  BY OrderMsgIs, PositionMsgIs
<1>1. ASSUME NEW t \in Positions, Position(t) PROVE OrdersInv'
  <2>1. /\ UNCHANGED <<order, outcome, report, cancelCmd, placing, cancelling, list, orderTombs, ordAsked, ordHalf,
                       ordAnswers, sock>>
        /\ odd \subseteq odd'
    BY <1>1 DEF Position, Opens, Reopens, Closes, Announces, Refuses, ClosesElsewhere, CloseClick, CloseAllNext, Bury,
                CloseServed, CloseAnswered, GraceEnds, TombExpires
  <2>2. wire' \in {wire, wire \cup {OpenedMsg(t)}, wire \cup {ClosedMsg(t)}}
    BY <1>1 DEF Position, Opens, Reopens, Closes, Announces, Refuses, ClosesElsewhere, CloseClick, CloseAllNext, Bury,
                CloseServed, CloseAnswered, GraceEnds, TombExpires
  <2>3. \A u, s : Told(u, s)' <=> Told(u, s)
    BY <1>0, <2>2 DEF Told
  <2>. QED BY <2>1, <2>3, OrdersAside
<1>2. CASE CloseAllClick \/ ServePositions \/ VisitPositions \/ VisitOrders \/ UNCHANGED vars
  <2>1. /\ UNCHANGED <<order, outcome, report, cancelCmd, placing, cancelling, list, orderTombs, ordHalf,
                       ordAnswers, sock, wire>>
        /\ odd \subseteq odd' /\ (ordAsked => ordAsked')
    <3>1. CASE ServePositions
      BY <3>1 DEF ServePositions
    <3>2. CASE CloseAllClick \/ VisitPositions \/ VisitOrders \/ UNCHANGED vars
      BY <3>2 DEF vars, CloseAllClick, VisitPositions, VisitOrders
    <3>. QED BY <1>2, <3>1, <3>2
  <2>2. \A u, s : Told(u, s)' <=> Told(u, s)
    BY <2>1 DEF Told
  <2>. QED BY <2>1, <2>2, OrdersAside
<1>3. ASSUME NEW i \in 1..MaxAnswers, PositionsAnswered(i) \/ PositionsFail(i) PROVE OrdersInv'
  <2>1. /\ UNCHANGED <<order, outcome, report, cancelCmd, placing, cancelling, list, orderTombs, ordHalf,
                       ordAnswers, sock, wire, ordAsked>>
        /\ odd \subseteq odd'
    BY <1>3 DEF PositionsAnswered, PositionsFail, InTurn
  <2>2. \A u, s : Told(u, s)' <=> Told(u, s)
    BY <2>1 DEF Told
  <2>. QED BY <2>1, <2>2, OrdersAside
<1>4. ASSUME NEW m \in wire, PositionUpdate(m) \/ (Lose(m) /\ m.of = "position") PROVE OrdersInv'
  <2>1. /\ UNCHANGED <<order, outcome, report, cancelCmd, placing, cancelling, list, orderTombs, ordHalf,
                       ordAnswers, sock>>
        /\ wire' = wire \ {m} /\ odd \subseteq odd' /\ m.of = "position"
    BY <1>4 DEF PositionUpdate, Lose
  <2>a. ordAsked => ordAsked'
    <3>1. CASE PositionUpdate(m)
      BY <3>1, Zenon DEF PositionUpdate
    <3>2. CASE Lose(m)
      BY <3>2 DEF Lose
    <3>. QED BY <1>4, <3>1, <3>2
  <2>2. \A u, s : Told(u, s)' <=> Told(u, s)
    BY <2>1, OrderMsgIs DEF Told
  <2>. QED BY <2>1, <2>2, <2>a, OrdersAside
<1>. QED BY <1>1, <1>2, <1>3, <1>4

\* How the wire changes.
LEMMA ToldSame == ASSUME UNCHANGED wire PROVE \A t, s : Told(t, s)' <=> Told(t, s)
BY DEF Told

LEMMA OrderMsgOne == ASSUME NEW t, NEW s, NEW u, NEW r PROVE OrderMsg(t, s) = OrderMsg(u, r) <=> t = u /\ s = r
BY OrderMsgIs

LEMMA ToldAdds ==
  ASSUME NEW u, NEW r, wire' = wire \cup {OrderMsg(u, r)}
  PROVE  \A t, s : Told(t, s)' <=> Told(t, s) \/ (t = u /\ s = r)
BY OrderMsgOne DEF Told

LEMMA ToldTakes ==
  ASSUME NEW u, NEW r, wire' = wire \ {OrderMsg(u, r)}
  PROVE  \A t, s : Told(t, s)' <=> Told(t, s) /\ ~(t = u /\ s = r)
BY OrderMsgOne DEF Told

\* A step that touches one order and begins no fetch.
OnlyOrder(u) ==
  /\ \A t \in Orders \ {u} :
       /\ order'[t] = order[t] /\ outcome'[t] = outcome[t] /\ report'[t] = report[t]
       /\ (t \in cancelCmd' <=> t \in cancelCmd)
       /\ placing'[t] = placing[t] /\ cancelling'[t] = cancelling[t] /\ list'[t] = list[t]
       /\ (t \in orderTombs' <=> t \in orderTombs) /\ (\A s : Told(t, s)' <=> Told(t, s))
  /\ UNCHANGED <<ordHalf, ordAnswers, sock>> /\ odd \subseteq odd' /\ (ordAsked => ordAsked')

LEMMA OneOrder == ASSUME OrdersInv, NEW u \in Orders, OnlyOrder(u), OrderOK(u)' PROVE OrdersInv'
<1>1. ASSUME NEW t \in Orders \ {u} PROVE OrderOK(t)'
  BY <1>1, SameOrder DEF OnlyOrder, OrdersInv
<1>. QED BY <1>1 DEF OrdersInv

LEMMA PlaceOrder ==
  ASSUME TypeOK, OrdersInv, NEW u \in Orders, Place(u) \/ PlaceAnswered(u) \/ PlaceFails(u)
  PROVE  OrdersInv'
<1>. USE DEF server, ordSide, posSide, calls, dock, posFetch, ordFetch, posView, ordView, rest
<1>1. /\ UNCHANGED <<order, outcome, report, cancelCmd, wire, cancelling, list, orderTombs, ordHalf, ordAnswers, sock>>
      /\ odd \subseteq odd'
      /\ \/ placing[u] = "idle" /\ placing' = [placing EXCEPT ![u] = "sent"] /\ UNCHANGED ordAsked
         \/ placing[u] = "answered" /\ placing' = [placing EXCEPT ![u] = "done"] /\ ordAsked'
         \/ placing[u] = "answered" /\ placing' = [placing EXCEPT ![u] = "done"] /\ "lost" \in odd'
            /\ UNCHANGED ordAsked
  BY DEF Place, PlaceAnswered, PlaceFails
<1>2. ordAsked => ordAsked'
  BY <1>1
<1>3. \A t, s : Told(t, s)' <=> Told(t, s)
  BY <1>1, ToldSame
<1>4. \A t \in Orders \ {u} : placing'[t] = placing[t]
  BY <1>1 DEF TypeOK
<1>5. \/ placing[u] = "idle" /\ placing'[u] = "sent"
      \/ placing[u] = "answered" /\ placing'[u] = "done" /\ (ordAsked' \/ "lost" \in odd')
  BY <1>1 DEF TypeOK
<1>6. OnlyOrder(u)
  BY <1>1, <1>2, <1>3, <1>4 DEF OnlyOrder
<1>7. OrderOK(u)
  BY DEF OrdersInv
<1>8. ServerOK(u)'
  BY <1>1, <1>3, <1>5, <1>7 DEF OrderOK, ServerOK
<1>9. Early(u)' <=> Early(u)
  BY <1>3, <1>5 DEF Early
<1>10. TurnOK(u) => TurnOK(u)'
  BY <1>1, <1>3, <1>9 DEF TurnOK
<1>11. "lost" \notin odd' => (Due(u) => Due(u)') /\ (Current(u) => Current(u)')
  <2>1. ASSUME "lost" \notin odd', Due(u) PROVE Due(u)'
    BY <1>1, <1>2, <1>3, <1>5, <2>1 DEF Due
  <2>2. ASSUME Current(u) PROVE Current(u)'
    BY <1>1, <1>3, <2>2 DEF Current, View
  <2>. QED BY <2>1, <2>2
<1>12. OrderOK(u)'
  BY <1>1, <1>7, <1>8, <1>10, <1>11 DEF OrderOK, Disagreeing
<1>. QED BY <1>6, <1>12, OneOrder

LEMMA PlaceServed ==
  ASSUME TypeOK, OrdersInv, NEW u \in Orders, PlaceCommits(u) \/ PlacePublishes(u)
  PROVE  OrdersInv'
<1>. USE DEF server, ordSide, posSide, calls, dock, posFetch, ordFetch, posView, ordView, rest
<1>1. /\ UNCHANGED <<outcome, report, cancelCmd, cancelling, list, orderTombs, ordAsked, ordHalf, ordAnswers, sock, odd>>
      /\ placing' = [placing EXCEPT ![u] = IF placing[u] = "sent" THEN "committed" ELSE "answered"]
  BY DEF PlaceCommits, PlacePublishes
<1>2. \A t \in Orders \ {u} : placing'[t] = placing[t]
  BY <1>1 DEF TypeOK
<1>3. OrderOK(u)
  BY DEF OrdersInv
<1>4. CASE PlaceCommits(u)
  <2>1. /\ placing[u] = "sent" /\ placing'[u] = "committed" /\ order' = [order EXCEPT ![u] = "pending"]
        /\ UNCHANGED wire
    BY <1>4 DEF PlaceCommits, TypeOK
  <2>2. order'[u] = "pending" /\ \A t \in Orders \ {u} : order'[t] = order[t]
    BY <2>1 DEF TypeOK
  <2>3. \A t, s : Told(t, s)' <=> Told(t, s)
    BY <2>1, ToldSame
  <2>4. OnlyOrder(u)
    BY <1>1, <1>2, <2>2, <2>3 DEF OnlyOrder
  <2>5. order[u] = "none" /\ outcome[u] = "none" /\ report[u] = "none" /\ u \notin cancelCmd /\ u \notin orderTombs
        /\ ~Told(u, "pending") /\ ~Told(u, "cancelling") /\ \A s \in Ended : ~Told(u, s)
    BY <1>3, <2>1 DEF OrderOK, ServerOK, Ended
  <2>6. ServerOK(u)'
    BY <1>1, <2>1, <2>2, <2>3, <2>5 DEF ServerOK, Ended
  <2>7. TurnOK(u)' /\ Due(u)'
    BY <1>1, <2>1, <2>2, <2>3, <2>5 DEF TurnOK, Due, Ended
  <2>. QED BY <2>4, <2>6, <2>7, OneOrder DEF OrderOK
<1>5. CASE PlacePublishes(u)
  <2>1. /\ placing[u] = "committed" /\ placing'[u] = "answered" /\ UNCHANGED order
        /\ wire' = wire \cup {OrderMsg(u, "pending")}
    BY <1>5 DEF PlacePublishes, TypeOK
  <2>2. \A t, s : Told(t, s)' <=> Told(t, s) \/ (t = u /\ s = "pending")
    BY <2>1, ToldAdds
  <2>3. OnlyOrder(u)
    BY <1>1, <1>2, <2>1, <2>2 DEF OnlyOrder
  <2>4. ServerOK(u)'
    BY <1>1, <1>3, <2>1, <2>2 DEF OrderOK, ServerOK, Ended
  <2>5. Early(u)' /\ Early(u) /\ Due(u)'
    BY <2>1, <2>2 DEF Early, Due
  <2>6. TurnOK(u) => TurnOK(u)'
    BY <1>1, <2>1, <2>2, <2>5 DEF TurnOK
  <2>. QED BY <1>1, <1>3, <2>3, <2>4, <2>5, <2>6, OneOrder DEF OrderOK
<1>. QED BY <1>4, <1>5

\* The engine decides.
LEMMA EngineOrder ==
  ASSUME TypeOK, OrdersInv, NEW u \in Orders, Fills(u) \/ Rejects(u) \/ Cancels(u)
  PROVE  OrdersInv'
<1>. USE DEF server, ordSide, posSide, calls, dock, posFetch, ordFetch, posView, ordView, rest
<1>1. UNCHANGED <<order, wire, placing, cancelling, list, orderTombs, ordAsked, ordHalf, ordAnswers, sock, odd>>
  BY DEF Fills, Rejects, Cancels
<1>2. /\ \A t \in Orders \ {u} : outcome'[t] = outcome[t] /\ (t \in cancelCmd' <=> t \in cancelCmd)
      /\ \A t \in Orders \ {u} : report'[t] = report[t]
      /\ \/ outcome'[u] = outcome[u] /\ report'[u] = report[u]
         \/ /\ outcome[u] = "none" /\ (u \in cancelCmd \/ order[u] \in Working)
            /\ outcome'[u] # "none" /\ report'[u] = "due"
      /\ u \in cancelCmd' => u \in cancelCmd
  BY DEF Fills, Rejects, Cancels, AtEngine, TypeOK
<1>3. \A t, s : Told(t, s)' <=> Told(t, s)
  BY <1>1, ToldSame
<1>4. OnlyOrder(u)
  BY <1>1, <1>2, <1>3 DEF OnlyOrder
<1>5. OrderOK(u)
  BY DEF OrdersInv
<1>6. ServerOK(u)'
  BY <1>1, <1>2, <1>3, <1>5 DEF OrderOK, ServerOK, Ended, Working
<1>7. TurnOK(u) => TurnOK(u)'
  BY <1>1, <1>2, <1>3, <1>5 DEF TurnOK, Early, OrderOK, ServerOK
<1>8. Due(u) => Due(u)'
  BY <1>1, <1>2, <1>3, <1>5 DEF Due, OrderOK, ServerOK
<1>9. Current(u) => Current(u)'
  BY <1>1, <1>3 DEF Current, View
<1>. QED BY <1>1, <1>4, <1>5, <1>6, <1>7, <1>8, <1>9, OneOrder DEF OrderOK

\* The listener brings the outcome to Postgres and tells the gateway.
LEMMA SettlesOrder == ASSUME TypeOK, OrdersInv, NEW u \in Orders, Settles(u) PROVE OrdersInv'
<1>. USE DEF server, ordSide, posSide, calls, dock, posFetch, ordFetch, posView, ordView, rest
<1>. PICK r : r = outcome[u]
  OBVIOUS
<1>1. /\ UNCHANGED <<outcome, cancelCmd, placing, cancelling, list, orderTombs, ordAsked, ordHalf, ordAnswers,
                     sock, odd>>
      /\ report[u] = "due"
  BY DEF Settles
<1>2. OrderOK(u)
  BY DEF OrdersInv
<1>3. r \in Ended /\ u \notin orderTombs /\ order[u] # "none" /\ \A s \in Ended : ~Told(u, s)
  BY <1>1, <1>2 DEF OrderOK, ServerOK, TypeOK
<1>4. CASE order[u] = r /\ r # "filled"
  <2>1. UNCHANGED <<order, wire>> /\ report' = [report EXCEPT ![u] = "untold"]
    BY <1>4 DEF Settles
  <2>2. report'[u] = "untold" /\ \A t \in Orders \ {u} : report'[t] = report[t]
    BY <2>1 DEF TypeOK
  <2>3. \A t, s : Told(t, s)' <=> Told(t, s)
    BY <2>1, ToldSame
  <2>4. OnlyOrder(u)
    BY <1>1, <2>1, <2>2, <2>3 DEF OnlyOrder
  <2>5. ServerOK(u)'
    BY <1>1, <1>2, <1>3, <2>1, <2>2, <2>3 DEF OrderOK, ServerOK
  <2>6. TurnOK(u) => TurnOK(u)'
    BY <1>1, <1>3, <2>1, <2>2, <2>3 DEF TurnOK, Early
  <2>7. (Due(u) => Due(u)') /\ (Current(u) => Current(u)')
    BY <1>1, <1>4, <2>1, <2>3 DEF Due, Current, View
  <2>. QED BY <1>1, <1>2, <2>4, <2>5, <2>6, <2>7, OneOrder DEF OrderOK
<1>5. CASE ~(order[u] = r /\ r # "filled")
  <2>1. /\ order' = [order EXCEPT ![u] = r] /\ report' = [report EXCEPT ![u] = "told"]
        /\ wire' = wire \cup {OrderMsg(u, r)}
    BY <1>5 DEF Settles
  <2>2. /\ order'[u] = r /\ report'[u] = "told"
        /\ \A t \in Orders \ {u} : order'[t] = order[t] /\ report'[t] = report[t]
    BY <2>1 DEF TypeOK
  <2>3. \A t, s : Told(t, s)' <=> Told(t, s) \/ (t = u /\ s = r)
    BY <2>1, ToldAdds
  <2>4. OnlyOrder(u)
    BY <1>1, <2>2, <2>3 DEF OnlyOrder
  <2>5. ServerOK(u)'
    BY <1>1, <1>2, <1>3, <2>2, <2>3 DEF OrderOK, ServerOK, Ended
  <2>6. TurnOK(u)' /\ Due(u)'
    BY <1>1, <1>3, <2>2, <2>3 DEF TurnOK, Due, Ended
  <2>. QED BY <2>4, <2>5, <2>6, OneOrder DEF OrderOK
<1>. QED BY <1>4, <1>5

\* The event or the message is lost.
LEMMA UntoldOrder == ASSUME TypeOK, OrdersInv, NEW u \in Orders, Untold(u) PROVE OrdersInv'
<1>. USE DEF server, ordSide, posSide, calls, dock, posFetch, ordFetch, posView, ordView, rest
<1>1. /\ UNCHANGED <<outcome, cancelCmd, wire, placing, cancelling, list, orderTombs, ordAsked, ordHalf,
                     ordAnswers, sock>>
      /\ report[u] = "due" /\ odd \subseteq odd' /\ "untold" \in odd'
  BY DEF Untold
<1>2. /\ report'[u] = "untold" /\ order'[u] \in {order[u], outcome[u]}
      /\ \A t \in Orders \ {u} : order'[t] = order[t] /\ report'[t] = report[t]
  BY DEF Untold, TypeOK
<1>3. \A t, s : Told(t, s)' <=> Told(t, s)
  BY <1>1, ToldSame
<1>4. OnlyOrder(u)
  BY <1>1, <1>2, <1>3 DEF OnlyOrder
<1>5. OrderOK(u)
  BY DEF OrdersInv
<1>6. /\ outcome[u] \in Ended /\ order[u] # "none" /\ u \notin orderTombs
      /\ \A s \in Ended : ~Told(u, s)
  BY <1>1, <1>5 DEF OrderOK, ServerOK, TypeOK
<1>7. ServerOK(u)'
  BY <1>1, <1>2, <1>3, <1>5, <1>6 DEF OrderOK, ServerOK, Ended
<1>8. TurnOK(u) => TurnOK(u)'
  BY <1>1, <1>2, <1>3, <1>6 DEF TurnOK, Early, Ended
<1>. QED BY <1>1, <1>4, <1>5, <1>7, <1>8, OneOrder DEF OrderOK, Disagreeing

LEMMA CancelOrder ==
  ASSUME TypeOK, OrdersInv, NEW u \in Orders, CancelClick(u) \/ CancelAnswered(u)
  PROVE  OrdersInv'
<1>. USE DEF server, ordSide, posSide, calls, dock, posFetch, ordFetch, posView, ordView, rest
<1>1. /\ UNCHANGED <<order, outcome, report, cancelCmd, wire, placing, orderTombs, ordHalf, ordAnswers, sock, odd>>
      /\ \/ cancelling[u] \in {"idle", "error"} /\ UNCHANGED <<list, ordAsked>>
         \/ ordAsked' /\ list' = [list EXCEPT ![u] = IF list[u] = "none" THEN "none" ELSE "cancelling"]
      /\ \E c \in {"sent", "idle"} : cancelling' = [cancelling EXCEPT ![u] = c]
  BY DEF CancelClick, CancelAnswered
<1>2. ordAsked => ordAsked'
  BY <1>1
<1>3. \A t, s : Told(t, s)' <=> Told(t, s)
  BY <1>1, ToldSame
<1>4. \A t \in Orders \ {u} : cancelling'[t] = cancelling[t] /\ list'[t] = list[t]
  BY <1>1 DEF TypeOK
<1>5. /\ list[u] = "none" => list'[u] = "none"
      /\ ordAsked' \/ (list'[u] = list[u] /\ cancelling[u] # "ok")
  BY <1>1 DEF TypeOK
<1>6. OnlyOrder(u)
  BY <1>1, <1>2, <1>3, <1>4 DEF OnlyOrder
<1>7. OrderOK(u)
  BY DEF OrdersInv
<1>8. ServerOK(u)'
  BY <1>1, <1>3, <1>7 DEF OrderOK, ServerOK
<1>9. TurnOK(u) => TurnOK(u)'
  BY <1>1, <1>3, <1>5 DEF TurnOK, Early
<1>10. Due(u) \/ Current(u) => Due(u)' \/ Current(u)'
  <2>1. CASE ordAsked'
    BY <2>1 DEF Due
  <2>2. CASE list'[u] = list[u] /\ cancelling[u] # "ok" /\ ~ordAsked
    BY <1>1, <1>3, <2>2 DEF Due, Current, View
  <2>. QED BY <1>2, <1>5, <2>1, <2>2
<1>. QED BY <1>1, <1>6, <1>7, <1>8, <1>9, <1>10, OneOrder DEF OrderOK

LEMMA CancelServedOrder == ASSUME TypeOK, OrdersInv, NEW u \in Orders, CancelServed(u) PROVE OrdersInv'
<1>. USE DEF server, ordSide, posSide, calls, dock, posFetch, ordFetch, posView, ordView, rest
<1>1. /\ UNCHANGED <<outcome, report, placing, list, orderTombs, ordAsked, ordHalf, ordAnswers, sock, odd>>
      /\ cancelling[u] = "sent"
  BY DEF CancelServed
<1>2. OrderOK(u)
  BY DEF OrdersInv
<1>3. CASE order[u] = "pending"
  <2>1. /\ order' = [order EXCEPT ![u] = "cancelling"] /\ cancelCmd' = cancelCmd \cup {u}
        /\ wire' = wire \cup {OrderMsg(u, "cancelling")}
        /\ cancelling' = [cancelling EXCEPT ![u] = "ok"]
    BY <1>3 DEF CancelServed
  <2>2. /\ order'[u] = "cancelling" /\ cancelling'[u] = "ok"
        /\ \A t \in Orders \ {u} : order'[t] = order[t] /\ cancelling'[t] = cancelling[t]
    BY <2>1 DEF TypeOK
  <2>3. \A t, s : Told(t, s)' <=> Told(t, s) \/ (t = u /\ s = "cancelling")
    BY <2>1, ToldAdds
  <2>4. OnlyOrder(u)
    BY <1>1, <2>1, <2>2, <2>3 DEF OnlyOrder
  <2>5. ServerOK(u)'
    BY <1>1, <1>2, <1>3, <2>1, <2>2, <2>3 DEF OrderOK, ServerOK, Ended
  <2>6. u \notin orderTombs
    BY <1>2, <1>3 DEF OrderOK, ServerOK, Ended
  <2>7. TurnOK(u)' /\ Due(u)'
    BY <1>1, <2>2, <2>3, <2>6 DEF TurnOK, Due, Ended
  <2>. QED BY <2>4, <2>5, <2>7, OneOrder DEF OrderOK
<1>4. CASE order[u] # "pending"
  <2>1. UNCHANGED <<order, cancelCmd, wire>> /\ cancelling' = [cancelling EXCEPT ![u] = "error"]
    BY <1>4 DEF CancelServed
  <2>2. /\ \A t \in Orders \ {u} : cancelling'[t] = cancelling[t]
        /\ \A t, s : Told(t, s)' <=> Told(t, s)
    BY <2>1, ToldSame DEF TypeOK
  <2>3. OnlyOrder(u)
    BY <1>1, <2>1, <2>2 DEF OnlyOrder
  <2>4. /\ ServerOK(u) => ServerOK(u)'
        /\ TurnOK(u) => TurnOK(u)'
    BY <1>1, <2>1, <2>2 DEF ServerOK, TurnOK, Early
  <2>5. Due(u) => Due(u)'
    BY <1>1, <2>1, <2>2 DEF Due
  <2>6. Current(u) => Current(u)'
    BY <1>1, <2>1, <2>2 DEF Current, View
  <2>. QED BY <1>1, <1>2, <2>3, <2>4, <2>5, <2>6, OneOrder DEF OrderOK
<1>. QED BY <1>3, <1>4

\* Steps of the connection: while it is down, and once it is back, a fetch is due.
LEMMA ConnectionOrder ==
  ASSUME TypeOK, OrdersInv, Drop \/ AuthSuccess \/ AuthRefused \/ GivesUp
  PROVE  OrdersInv'
<1>. USE DEF server, ordSide, posSide, calls, dock, posFetch, ordFetch, posView, ordView, rest
<1>1. /\ UNCHANGED <<order, outcome, report, cancelCmd, wire, placing, cancelling, list, orderTombs, ordHalf,
                     ordAnswers, odd>>
      /\ sock' # "up" \/ ordAsked'
  BY DEF Drop, AuthSuccess, AuthRefused, GivesUp
<1>2. \A t, s : Told(t, s)' <=> Told(t, s)
  BY <1>1, ToldSame
<1>3. ASSUME NEW t \in Orders PROVE OrderOK(t)'
  <2>1. OrderOK(t)
    BY DEF OrdersInv
  <2>2. (ServerOK(t) => ServerOK(t)') /\ (TurnOK(t) => TurnOK(t)')
    BY <1>1, <1>2 DEF ServerOK, TurnOK, Early
  <2>3. Due(t)'
    BY <1>1 DEF Due
  <2>. QED BY <1>1, <2>1, <2>2, <2>3 DEF OrderOK
<1>. QED BY <1>3 DEF OrdersInv

\* A list is read, or checked: the pair grows, or is complete and queued.
LEMMA ServingOrder ==
  ASSUME TypeOK, NEW h \in HalfType, Serving(h), h.read # {}, NEW t \in Orders,
         \A s \in h.read : t \in h.rows[s] <=> order'[t] = s
  PROVE  Current(t)'
<1>1. CASE h.read = Working /\ h.checked
  <2>1. ordAnswers' = Append1(ordAnswers, h.rows) /\ ordHalf'.read = {}
    BY <1>1 DEF Serving, NoHalf
  <2>2. h.rows \in [Working -> SUBSET Orders]
    BY DEF HalfType
  <2>3. ordAnswers' # <<>> /\ ordAnswers'[Len(ordAnswers')] = h.rows
    <3>1. PICK q \in Seq([Working -> SUBSET Orders]), a \in [Working -> SUBSET Orders] : q = ordAnswers /\ a = h.rows
      BY <2>2 DEF TypeOK
    <3>2. Append1(q, a) # <<>> /\ Append1(q, a)[Len(Append1(q, a))] = a
      BY Append1Is
    <3>. QED BY <2>1, <3>1, <3>2
  <2>. QED BY <1>1, <2>1, <2>3 DEF Current
<1>2. CASE ~(h.read = Working /\ h.checked)
  BY <1>2 DEF Serving, Current
<1>. QED BY <1>1, <1>2

LEMMA ServeOrder == ASSUME TypeOK, OrdersInv, NEW w \in Working, ServeOrders(w) PROVE OrdersInv'
<1>. USE DEF server, ordSide, posSide, calls, dock, posFetch, ordFetch, posView, ordView, rest
<1>. PICK h : h = [ordHalf EXCEPT !.read = @ \cup {w}, !.rows = [@ EXCEPT ![w] = With(w)]]
  OBVIOUS
<1>1. /\ UNCHANGED <<order, outcome, report, cancelCmd, wire, placing, cancelling, list, orderTombs, sock, odd>>
      /\ Serving(h) /\ w \notin ordHalf.read
      /\ ordHalf.read # {} => UNCHANGED ordAsked
  BY DEF ServeOrders
<1>2. /\ h \in HalfType /\ h.read = ordHalf.read \cup {w}
      /\ h.rows[w] = {t \in Orders : order[t] = w}
      /\ \A s \in ordHalf.read : s # w => h.rows[s] = ordHalf.rows[s]
  BY DEF HalfType, With, TypeOK
<1>3. \A t, s : Told(t, s)' <=> Told(t, s)
  BY <1>1, ToldSame
<1>4. ASSUME NEW t \in Orders PROVE OrderOK(t)'
  <2>1. OrderOK(t)
    BY DEF OrdersInv
  <2>2. (ServerOK(t) => ServerOK(t)') /\ (TurnOK(t) => TurnOK(t)')
    BY <1>1, <1>3 DEF ServerOK, TurnOK, Early
  <2>3. ordHalf.read = {} \/ Current(t) => Current(t)'
    <3>1. ASSUME ordHalf.read = {} \/ Current(t), NEW s \in h.read PROVE t \in h.rows[s] <=> order'[t] = s
      <4>1. CASE s = w
        BY <1>1, <1>2, <4>1
      <4>2. CASE s # w
        BY <1>1, <1>2, <3>1, <4>2 DEF Current
      <4>. QED BY <4>1, <4>2
    <3>2. h.read # {}
      BY <1>2
    <3>. QED BY <1>1, <1>2, <3>1, <3>2, ServingOrder
  <2>4. ordHalf.read # {} /\ Due(t) => Due(t)'
    BY <1>1, <1>3 DEF Due
  <2>. QED BY <1>1, <2>1, <2>2, <2>3, <2>4 DEF OrderOK
<1>. QED BY <1>4 DEF OrdersInv

\* list_orders leaves out, and ends, pending rows that are over.
LEMMA CheckOrder == ASSUME TypeOK, OrdersInv, CheckOrders PROVE OrdersInv'
<1>. USE DEF server, ordSide, posSide, calls, dock, posFetch, ordFetch, posView, ordView, rest
<1>. PICK seen, unset :
       /\ seen \subseteq {t \in ordHalf.rows["pending"] : outcome[t] \in {"filled", "rejected"}}
       /\ unset \subseteq seen
       /\ order' = [t \in Orders |-> IF t \in seen \ unset /\ order[t] = "pending" THEN outcome[t] ELSE order[t]]
       /\ odd' = IF unset = {} THEN odd ELSE odd \cup {"failed"}
       /\ Serving([read |-> ordHalf.read, checked |-> TRUE, rows |-> [ordHalf.rows EXCEPT !["pending"] = @ \ seen]])
  BY DEF CheckOrders
<1>. PICK h : h = [read |-> ordHalf.read, checked |-> TRUE, rows |-> [ordHalf.rows EXCEPT !["pending"] = @ \ seen]]
  OBVIOUS
<1>1. /\ UNCHANGED <<outcome, report, cancelCmd, wire, placing, cancelling, list, orderTombs, ordAsked, sock>>
      /\ Serving(h) /\ "pending" \in ordHalf.read
  BY DEF CheckOrders
<1>2. /\ h \in HalfType /\ h.read = ordHalf.read /\ ordHalf.read \subseteq Working
      /\ h.rows["pending"] = ordHalf.rows["pending"] \ seen
      /\ \A s \in Working : s # "pending" => h.rows[s] = ordHalf.rows[s]
  BY HalfChecked DEF TypeOK
<1>3. odd \subseteq odd' /\ ("failed" \notin odd' => unset = {})
  OBVIOUS
<1>4. \A t, s : Told(t, s)' <=> Told(t, s)
  BY <1>1, ToldSame
<1>5. ASSUME NEW t \in Orders PROVE OrderOK(t)'
  <2>1. OrderOK(t)
    BY DEF OrdersInv
  <2>2. \/ order'[t] = order[t]
        \/ order[t] = "pending" /\ order'[t] = outcome[t] /\ outcome[t] \in Ended
    BY DEF Ended
  <2>3. ServerOK(t)'
    BY <1>1, <1>4, <2>1, <2>2 DEF OrderOK, ServerOK, Ended
  <2>4. TurnOK(t) => TurnOK(t)'
    BY <1>1, <1>4, <2>1, <2>2 DEF OrderOK, ServerOK, TurnOK, Early, Ended
  <2>5. Due(t) => Due(t)'
    BY <1>1, <1>4, <2>2 DEF Due
  <2>6. ASSUME Current(t), unset = {} PROVE Current(t)'
    <3>1. ASSUME NEW s \in h.read PROVE t \in h.rows[s] <=> order'[t] = s
      <4>1. t \in ordHalf.rows[s] <=> order[t] = s
        BY <1>2, <2>6, <3>1 DEF Current
      <4>2. CASE t \in seen
        <5>1. order[t] = "pending" /\ outcome[t] \in Ended
          BY <1>1, <2>6, <4>2 DEF Current, Ended
        <5>2. order'[t] = outcome[t]
          BY <2>6, <4>2, <5>1
        <5>3. outcome[t] \notin Working
          BY <5>1 DEF Ended, Working
        <5>. QED BY <1>2, <3>1, <4>1, <4>2, <5>1, <5>2, <5>3 DEF TypeOK
      <4>3. CASE t \notin seen
        BY <1>2, <3>1, <4>1, <4>3
      <4>. QED BY <4>2, <4>3
    <3>. QED BY <1>1, <1>2, <3>1, ServingOrder
  <2>. QED BY <1>3, <2>1, <2>3, <2>4, <2>5, <2>6 DEF OrderOK, Disagreeing
<1>. QED BY <1>5 DEF OrdersInv

\* An answer replaces the list.
LEMMA AnswerOrder == ASSUME TypeOK, OrdersInv, NEW i \in 1..MaxAnswers, OrdersAnswered(i) PROVE OrdersInv'
<1>. USE DEF server, ordSide, posSide, calls, dock, posFetch, ordFetch, posView, ordView, rest
<1>1. /\ UNCHANGED <<order, outcome, report, cancelCmd, wire, placing, cancelling, ordAsked, ordHalf, sock>>
      /\ i \in 1..Len(ordAnswers) /\ ordAnswers' = Without(ordAnswers, i) /\ odd \subseteq odd'
      /\ (i > 1 => "reordered" \in odd') /\ orderTombs' \subseteq orderTombs
  BY DEF OrdersAnswered, InTurn
<1>2. \A t, s : Told(t, s)' <=> Told(t, s)
  BY <1>1, ToldSame
<1>. PICK a \in [Working -> SUBSET Orders] : a = ordAnswers[i]
  BY <1>1 DEF TypeOK
<1>3. \A t \in Orders : list'[t] = IF t \in orderTombs' THEN "none"
                                   ELSE IF t \in a["cancelling"] THEN "cancelling"
                                   ELSE IF t \in a["pending"] THEN "pending" ELSE "none"
  BY DEF OrdersAnswered, ListOf
<1>4. /\ Len(ordAnswers') = Len(ordAnswers) - 1 /\ Len(ordAnswers) \in Nat
      /\ \A j \in 1..(Len(ordAnswers) - 1) :
           ordAnswers'[j] = IF j < i THEN ordAnswers[j] ELSE ordAnswers[j + 1]
  <2>1. PICK q \in Seq([Working -> SUBSET Orders]) : q = ordAnswers
    BY DEF TypeOK
  <2>2. PICK r : r = Without(q, i)
    OBVIOUS
  <2>3. i \in 1..Len(q) /\ Len(q) \in Nat
    BY <1>1, <2>1
  <2>4. Len(r) = Len(q) - 1 /\ \A j \in 1..(Len(q) - 1) : r[j] = IF j < i THEN q[j] ELSE q[j + 1]
    BY <2>2, <2>3, WithoutIs
  <2>. QED BY <1>1, <2>1, <2>2, <2>3, <2>4
<1>5. ordAnswers # <<>> /\ ordAnswers' \in Seq([Working -> SUBSET Orders])
  BY <1>1, WithoutIs DEF TypeOK
<1>6. ASSUME NEW t \in Orders PROVE OrderOK(t)'
  <2>1. OrderOK(t)
    BY DEF OrdersInv
  <2>2. ServerOK(t)' /\ ("overtaken" \notin odd' => TurnOK(t)')
    BY <1>1, <1>2, <1>3, <2>1 DEF OrderOK, ServerOK, TurnOK, Early
  <2>3. Due(t) => Due(t)'
    BY <1>1, <1>2 DEF Due
  <2>4. ASSUME "reordered" \notin odd', Current(t) PROVE Current(t)'
    <3>1. i = 1
      BY <1>1, <2>4
    <3>2. CASE ordHalf.read # {}
      BY <1>1, <2>4, <3>2 DEF Current
    <3>3. CASE ordHalf.read = {}
      <4>1. \A s \in Working : t \in ordAnswers[Len(ordAnswers)][s] <=> order[t] = s
        BY <1>5, <2>4, <3>3 DEF Current
      <4>2. CASE Len(ordAnswers) = 1
        <5>1. ordAnswers' = <<>>
          BY <1>4, <1>5, <4>2
        <5>2. "cancelling" \in Working /\ "pending" \in Working /\ Working = {"pending", "cancelling"}
          BY DEF Working
        <5>3. (t \in a["cancelling"] <=> order[t] = "cancelling") /\ (t \in a["pending"] <=> order[t] = "pending")
          BY <3>1, <4>1, <4>2, <5>2
        <5>4. t \in orderTombs' => order[t] \notin Working
          BY <1>1, <2>1 DEF OrderOK, ServerOK, Ended, Working
        <5>5. list'[t] = View(t)
          BY <1>3, <5>2, <5>3, <5>4 DEF View
        <5>. QED BY <1>1, <3>3, <5>1, <5>5 DEF Current, View
      <4>3. CASE Len(ordAnswers) # 1
        <5>1. /\ Len(ordAnswers') \in 1..(Len(ordAnswers) - 1)
              /\ Len(ordAnswers') + 1 = Len(ordAnswers)
          BY <1>1, <1>4, <4>3
        <5>2. ordAnswers'[Len(ordAnswers')] = ordAnswers[Len(ordAnswers)] /\ ordAnswers' # <<>>
          BY <1>4, <1>5, <3>1, <5>1
        <5>. QED BY <1>1, <3>3, <4>1, <5>2 DEF Current
      <4>. QED BY <4>2, <4>3
    <3>. QED BY <3>2, <3>3
  <2>. QED BY <1>1, <2>1, <2>2, <2>3, <2>4 DEF OrderOK, Disagreeing
<1>. QED BY <1>6 DEF OrdersInv

\* A fetch that fails.
LEMMA FailOrder == ASSUME TypeOK, OrdersInv, NEW i \in 1..MaxAnswers, OrdersFail(i) PROVE OrdersInv'
<1>. USE DEF server, ordSide, posSide, calls, dock, posFetch, ordFetch, posView, ordView, rest
<1>1. /\ UNCHANGED <<order, outcome, report, cancelCmd, wire, placing, cancelling, list, orderTombs>>
      /\ odd \subseteq odd' /\ "failed" \in odd'
  BY DEF OrdersFail
<1>2. \A t, s : Told(t, s)' <=> Told(t, s)
  BY <1>1, ToldSame
<1>3. ASSUME NEW t \in Orders PROVE OrderOK(t)'
  <2>1. OrderOK(t)
    BY DEF OrdersInv
  <2>2. (ServerOK(t) => ServerOK(t)') /\ (TurnOK(t) => TurnOK(t)')
    BY <1>1, <1>2 DEF ServerOK, TurnOK, Early
  <2>. QED BY <1>1, <2>1, <2>2 DEF OrderOK, Disagreeing
<1>. QED BY <1>3 DEF OrdersInv

\* What it means that a message does not overtake an older one.
LEMMA InTurnMsg ==
  ASSUME NEW u \in Orders, NEW r \in Working \cup Ended, ~Overtakes(OrderMsg(u, r))
  PROVE  /\ r # "pending" => ~Early(u)
         /\ r \in Ended => ~Told(u, "cancelling")
<1>1. /\ Rank(OrderMsg(u, "pending")) = 1 /\ Rank(OrderMsg(u, "cancelling")) = 2
      /\ r # "pending" => Rank(OrderMsg(u, r)) \in {2, 3}
      /\ r \in Ended => Rank(OrderMsg(u, r)) = 3
  BY OrderMsgIs DEF Rank, Ended
<1>2. ASSUME NEW s, Told(u, s), Rank(OrderMsg(u, s)) < Rank(OrderMsg(u, r)) PROVE FALSE
  BY <1>2, OrderMsgIs DEF Overtakes, Told
<1>3. r # "pending" => placing[u] # "committed"
  BY OrderMsgIs DEF Overtakes
<1>4. r # "pending" => ~Told(u, "pending")
  BY <1>1, <1>2
<1>5. r \in Ended => ~Told(u, "cancelling")
  BY <1>1, <1>2
<1>. QED BY <1>3, <1>4, <1>5 DEF Early

\* A message of order u is handled or lost in its turn.
LEMMA TakenInTurn ==
  ASSUME TypeOK, OrdersInv, NEW u \in Orders, NEW r \in Working \cup Ended, Told(u, r),
         wire' = wire \ {OrderMsg(u, r)}, UNCHANGED <<order, outcome, report, cancelCmd, placing>>,
         u \in orderTombs' => u \in orderTombs \/ r \in Ended
  PROVE  /\ ServerOK(u)'
         /\ "overtaken" \notin odd /\ ~Overtakes(OrderMsg(u, r)) =>
              /\ (Early(u) \/ Told(u, "cancelling") => (report[u] = "told" => Told(u, order[u])))'
              /\ (Early(u) /\ order[u] = "cancelling" => Told(u, "cancelling"))'
<1>1. \A t, s : Told(t, s)' <=> Told(t, s) /\ ~(t = u /\ s = r)
  BY ToldTakes
<1>2. OrderOK(u)
  BY DEF OrdersInv
<1>3. ServerOK(u)'
  BY <1>1, <1>2 DEF OrderOK, ServerOK
<1>4. ASSUME "overtaken" \notin odd, ~Overtakes(OrderMsg(u, r))
      PROVE  /\ (Early(u) \/ Told(u, "cancelling") => (report[u] = "told" => Told(u, order[u])))'
             /\ (Early(u) /\ order[u] = "cancelling" => Told(u, "cancelling"))'
  <2>1. TurnOK(u) /\ (r # "pending" => ~Early(u)) /\ (r \in Ended => ~Told(u, "cancelling"))
    BY <1>2, <1>4, InTurnMsg DEF OrderOK
  <2>2. (Early(u)' => Early(u)) /\ (Told(u, "cancelling")' => Told(u, "cancelling"))
    BY <1>1 DEF Early
  <2>3. report[u] = "told" => order[u] \in Ended
    BY <1>2 DEF OrderOK, ServerOK
  <2>. QED BY <1>1, <2>1, <2>2, <2>3 DEF TurnOK, Working, Ended
<1>. QED BY <1>3, <1>4

\* order_update
LEMMA UpdateOrder == ASSUME TypeOK, OrdersInv, NEW m \in wire, OrderUpdate(m) PROVE OrdersInv'
<1>. USE DEF server, ordSide, posSide, calls, dock, posFetch, ordFetch, posView, ordView, rest
<1>. PICK u \in Orders, r \in Working \cup Ended : m = OrderMsg(u, r) /\ m.t = u /\ m.st = r
  BY OfMessages DEF OrderUpdate, TypeOK
<1>1. /\ sock = "up" /\ wire' = wire \ {OrderMsg(u, r)} /\ Told(u, r)
      /\ UNCHANGED <<order, outcome, report, cancelCmd, placing, cancelling, ordHalf, ordAnswers, sock>>
      /\ orderTombs' = IF r \in Ended /\ list[u] # "none" THEN orderTombs \cup {u} ELSE orderTombs
      /\ odd \subseteq odd' /\ ("overtaken" \notin odd' => ~Overtakes(OrderMsg(u, r)))
      /\ "late" \notin odd' => ~Late(OrderMsg(u, r))
  BY DEF OrderUpdate, Told
<1>2. (ordAsked => ordAsked') /\ (r \in Ended => ordAsked')
  BY Zenon DEF OrderUpdate, Reconciles
<1>3. /\ list'[u] = IF r \notin Ended /\ (list[u] # "none" \/ r = "pending") THEN r ELSE "none"
      /\ \A t \in Orders \ {u} : list'[t] = list[t]
  BY DEF OrderUpdate, Shows, TypeOK
<1>4. \A t, s : Told(t, s)' <=> Told(t, s) /\ ~(t = u /\ s = r)
  BY <1>1, ToldTakes
<1>5. OnlyOrder(u)
  BY <1>1, <1>2, <1>3, <1>4 DEF OnlyOrder
<1>6. OrderOK(u)
  BY DEF OrdersInv
<1>7. u \in orderTombs' => u \in orderTombs \/ r \in Ended
  BY <1>1
<1>8. ServerOK(u)'
  BY <1>1, <1>7, TakenInTurn
<1>9. ASSUME "overtaken" \notin odd' PROVE TurnOK(u)'
  <2>1. TurnOK(u) /\ (r # "pending" => ~Early(u))
    BY <1>1, <1>6, <1>9, InTurnMsg DEF OrderOK
  <2>2. /\ (Early(u) \/ Told(u, "cancelling") => (report[u] = "told" => Told(u, order[u])))'
        /\ (Early(u) /\ order[u] = "cancelling" => Told(u, "cancelling"))'
    BY <1>1, <1>7, <1>9, TakenInTurn
  <2>3. Early(u)' => Early(u)
    BY <1>1, <1>4 DEF Early
  <2>4. ASSUME u \in orderTombs' PROVE list'[u] = "none" /\ ~Early(u)'
    <3>1. CASE u \in orderTombs
      <4>1. list[u] = "none" /\ ~Early(u)
        BY <2>1, <3>1 DEF TurnOK
      <4>2. r # "pending"
        BY <1>1, <4>1 DEF Early
      <4>. QED BY <1>3, <2>3, <4>1, <4>2
    <3>2. CASE r \in Ended
      BY <1>3, <2>1, <2>3, <3>2 DEF Ended
    <3>. QED BY <1>7, <2>4, <3>1, <3>2
  <2>. QED BY <2>2, <2>4 DEF TurnOK
<1>10. ASSUME odd' \cap Disagreeing = {} PROVE Due(u)' \/ Current(u)'
  <2>1. TurnOK(u) /\ ServerOK(u) /\ (Due(u) \/ Current(u))
    BY <1>1, <1>6, <1>10 DEF OrderOK, Disagreeing
  <2>2. CASE r \in Ended
    BY <1>2, <2>2 DEF Due
  <2>3. CASE r \notin Ended
    <3>1. Due(u) => Due(u)'
      BY <1>1, <1>2, <1>4, <2>3 DEF Due
    <3>2. ASSUME order[u] \in Ended PROVE Due(u)
      <4>1. report[u] = "told" => Told(u, order[u])
        BY <1>1, <2>1, <2>3 DEF TurnOK, Early, Working
      <4>2. (report[u] = "due" /\ order[u] = "filled") \/ report[u] = "told"
        <5>1. ~Silent(u)
          BY <1>1, <1>10, <2>3, OrderMsgIs DEF Late, Disagreeing
        <5>2. report[u] \in {"due", "told", "untold"}
          BY <2>1, <3>2 DEF ServerOK, Ended, TypeOK
        <5>. QED BY <3>2, <5>1, <5>2 DEF Silent
      <4>. QED BY <3>2, <4>1, <4>2 DEF Due
    <3>3. CASE r = "pending" /\ ~Due(u)
      <4>1. order[u] \in Working
        BY <1>1, <2>1, <3>2, <3>3 DEF ServerOK, TypeOK
      <4>2. list'[u] = "pending"
        BY <1>3, <2>3, <3>3
      <4>3. order[u] = "cancelling" => Told(u, "cancelling")'
        BY <1>1, <1>4, <2>1, <3>3 DEF TurnOK, Early
      <4>. QED BY <1>1, <2>1, <3>3, <4>1, <4>2, <4>3 DEF Current, View, Working
    <3>4. CASE r = "cancelling" /\ ~Due(u)
      <4>1. order[u] = "cancelling"
        BY <1>1, <2>1, <3>2, <3>4 DEF ServerOK
      <4>2. list[u] # "none" => list'[u] = "cancelling"
        BY <1>3, <2>3, <3>4
      <4>. QED BY <1>1, <2>1, <3>4, <4>1, <4>2 DEF Current, View, Working
    <3>. QED BY <2>3, <3>1, <3>3, <3>4 DEF Working
  <2>. QED BY <2>2, <2>3
<1>11. OrderOK(u)'
  BY <1>8, <1>9, <1>10 DEF OrderOK
<1>. QED BY <1>5, <1>11, OneOrder

\* A message of an order is lost.
LEMMA LoseOrder == ASSUME TypeOK, OrdersInv, NEW m \in wire, Lose(m), m.of = "order" PROVE OrdersInv'
<1>. USE DEF server, ordSide, posSide, calls, dock, posFetch, ordFetch, posView, ordView, rest
<1>. PICK u \in Orders, r \in Working \cup Ended : m = OrderMsg(u, r)
  BY OfMessages DEF TypeOK
<1>1. /\ sock # "up" \/ "untold" \in odd'
      /\ wire' = wire \ {OrderMsg(u, r)} /\ Told(u, r)
      /\ UNCHANGED <<order, outcome, report, cancelCmd, placing, cancelling, list, orderTombs, ordAsked, ordHalf,
                     ordAnswers, sock>>
      /\ odd \subseteq odd' /\ ("overtaken" \notin odd' => ~Overtakes(OrderMsg(u, r)))
  BY DEF Lose, Told
<1>2. \A t, s : Told(t, s)' <=> Told(t, s) /\ ~(t = u /\ s = r)
  BY <1>1, ToldTakes
<1>3. OnlyOrder(u)
  BY <1>1, <1>2 DEF OnlyOrder
<1>4. OrderOK(u) /\ ServerOK(u)' /\ (Due(u)' \/ "untold" \in odd')
  BY <1>1, TakenInTurn DEF OrdersInv, Due
<1>5. ASSUME "overtaken" \notin odd' PROVE TurnOK(u)'
  <2>1. TurnOK(u)
    BY <1>1, <1>4, <1>5 DEF OrderOK
  <2>2. /\ (Early(u) \/ Told(u, "cancelling") => (report[u] = "told" => Told(u, order[u])))'
        /\ (Early(u) /\ order[u] = "cancelling" => Told(u, "cancelling"))'
    BY <1>1, <1>5, TakenInTurn
  <2>3. Early(u)' => Early(u)
    BY <1>1, <1>2 DEF Early
  <2>. QED BY <1>1, <2>1, <2>2, <2>3 DEF TurnOK
<1>. QED BY <1>3, <1>4, <1>5, OneOrder DEF OrderOK, Disagreeing

LEMMA OrdersStep == ASSUME TypeOK, OrdersInv, [Next]_vars PROVE OrdersInv'
<1>1. ASSUME NEW t \in Orders, Order(t) PROVE OrdersInv'
  BY <1>1, PlaceOrder, PlaceServed, EngineOrder, SettlesOrder, UntoldOrder, CancelOrder, CancelServedOrder
     DEF Order
<1>2. ASSUME NEW m \in wire, Lose(m) PROVE OrdersInv'
  <2>1. m.of \in {"order", "position"}
    BY OfMessages DEF TypeOK
  <2>. QED BY <1>2, <2>1, LoseOrder, OrdersElsewhere
<1>. QED BY <1>1, <1>2, OrdersElsewhere, UpdateOrder, AnswerOrder, FailOrder, ServeOrder, CheckOrder,
         ConnectionOrder DEF Next

LEMMA OrdersInit == Init => OrdersInv
<1>. SUFFICES ASSUME Init, NEW t \in Orders PROVE OrderOK(t)
  BY DEF OrdersInv
<1>1. /\ order[t] = "none" /\ outcome[t] = "none" /\ report[t] = "none" /\ t \notin cancelCmd
      /\ placing[t] = "idle" /\ list[t] = "none" /\ t \notin orderTombs /\ sock # "up" /\ \A s : ~Told(t, s)
  BY DEF Init, Told
<1>. QED BY <1>1 DEF OrderOK, ServerOK, TurnOK, Early, Due, Ended

LEMMA OrdersAlways == Spec => [](TypeOK /\ OrdersInv)
<1>1. TypeOK /\ OrdersInv /\ [Next]_vars => (TypeOK /\ OrdersInv)'
  BY TypeStep, OrdersStep
<1>. QED BY <1>1, TypeInit, OrdersInit, PTL DEF Spec

\* The state keeps its types, and an order whose end took it off the list does
\* not come back: neither an answer served before it ended nor a message that
\* is handled in its turn lists it again.
THEOREM EndedOrdersStayGone == Spec => []ListSound
<1>1. TypeOK /\ OrdersInv => ListSound
  BY DEF OrdersInv, OrderOK, TurnOK, ListSound, EndedStaysGone, Listed, TypeOK
<1>. QED BY <1>1, OrdersAlways, PTL

\* Once nothing is on its way the order list is the server's, in whatever order
\* halves of a fetch, messages, answers and reconnections came and whatever the
\* list route ended by itself: every change of an order is followed by a fetch
\* or came with one, and what is read last is applied last.
THEOREM OrderListIsServers == Spec => []ListAgrees
<1>1. TypeOK /\ OrdersInv => ListAgrees
  <2>. SUFFICES ASSUME TypeOK, OrdersInv, Quiet, odd \cap Disagreeing = {}, NEW t \in Orders
                PROVE  list[t] = View(t)
    BY DEF ListAgrees, View, Disagreeing
  <2>1. \A s : ~Told(t, s)
    BY DEF Quiet, Told
  <2>2. ~Due(t)
    BY <2>1 DEF Quiet, Due
  <2>3. Current(t)
    BY <2>2 DEF OrdersInv, OrderOK
  <2>. QED BY <2>1, <2>3 DEF Current, Quiet, NoHalf
<1>. QED BY <1>1, OrdersAlways, PTL

-------------------------------------------------------------------------------
(* The list of positions.                                                  *)

Opened(t) == OpenedMsg(t) \in wire
Closed(t) == ClosedMsg(t) \in wire
Going(t)  == closing[t] = "sent" \/ t \in closeCmd
InAnswer(t, i) == t \in posAnswers[i]

\* The dock knows nothing of a position before it opens.
Unseen(t) ==
  /\ pos[t] = "none" =>
       /\ t \notin rows /\ t \notin tombs /\ t \notin batch /\ ~Opened(t) /\ ~Closed(t)
       /\ \A i \in 1..Len(posAnswers) : ~InAnswer(t, i)
  /\ "reopened" \notin odd => (Closed(t) => pos[t] = "closed")

\* Only a position that is being closed is buried.
Buried(t) == t \in tombs /\ pos[t] = "open" => Going(t)

\* While it is open it is in every answer after the first that has it, and a
\* row older than the message came by an answer.
Seen(t) ==
  pos[t] = "open" =>
    /\ \A i, j \in 1..Len(posAnswers) : i < j /\ InAnswer(t, i) => InAnswer(t, j)
    /\ Opened(t) /\ t \in rows => \A i \in 1..Len(posAnswers) : InAnswer(t, i)

Awaited(t) == sock # "up" \/ posAsked \/ Opened(t) \/ Going(t) \/ t \in unheard
Shown(t)   == /\ posAnswers # <<>> => InAnswer(t, Len(posAnswers))
              /\ posAnswers = <<>> => t \in rows

Missing == {"reordered", "failed", "untold", "refused", "reopened"}

PositionOK(t) ==
  /\ Unseen(t)
  /\ odd \cap {"refused", "reopened"} = {} => Buried(t)
  /\ odd \cap {"reordered", "failed", "reopened"} = {} => Seen(t)
  /\ odd \cap Missing = {} => (pos[t] = "open" => Awaited(t) \/ Shown(t))

PositionsInv == \A t \in Positions : PositionOK(t)

\* A position that a step does not touch.
LEMMA SamePosition ==
  ASSUME NEW t \in Positions, PositionOK(t), pos'[t] = pos[t], closing'[t] = closing[t],
         t \in closeCmd' <=> t \in closeCmd, t \in unheard => t \in unheard',
         t \in rows' <=> t \in rows, t \in tombs' => t \in tombs,
         t \in batch' => t \in batch \/ t \in rows, Opened(t)' <=> Opened(t), Closed(t)' <=> Closed(t),
         UNCHANGED <<posAnswers, sock>>, odd \subseteq odd', posAsked => posAsked'
  PROVE  PositionOK(t)'
<1>1. \A i : InAnswer(t, i)' <=> InAnswer(t, i)
  BY DEF InAnswer
<1>2. Unseen(t)'
  BY <1>1 DEF PositionOK, Unseen
<1>3. Going(t)' <=> Going(t)
  BY DEF Going
<1>4. Buried(t) => Buried(t)'
  BY <1>3 DEF Buried
<1>5. Seen(t) => Seen(t)'
  BY <1>1 DEF Seen
<1>6. Awaited(t) => Awaited(t)'
  BY <1>3 DEF Awaited
<1>7. Shown(t) => Shown(t)'
  BY <1>1 DEF Shown
<1>. QED BY <1>2, <1>4, <1>5, <1>6, <1>7 DEF PositionOK

\* A step that touches one position and begins no fetch.
OnlyPosition(u) ==
  /\ \A t \in Positions \ {u} :
       /\ pos'[t] = pos[t] /\ closing'[t] = closing[t] /\ (t \in closeCmd' <=> t \in closeCmd)
       /\ (t \in unheard => t \in unheard')
       /\ (t \in rows' <=> t \in rows) /\ (t \in tombs' => t \in tombs)
       /\ (t \in batch' => t \in batch \/ t \in rows)
       /\ (Opened(t)' <=> Opened(t)) /\ (Closed(t)' <=> Closed(t))
  /\ UNCHANGED <<posAnswers, sock>> /\ odd \subseteq odd' /\ (posAsked => posAsked')

LEMMA OnePosition == ASSUME PositionsInv, NEW u \in Positions, OnlyPosition(u), PositionOK(u)' PROVE PositionsInv'
<1>1. ASSUME NEW t \in Positions \ {u} PROVE PositionOK(t)'
  BY <1>1, SamePosition DEF OnlyPosition, PositionsInv
<1>. QED BY <1>1 DEF PositionsInv

LEMMA PositionsAside ==
  ASSUME PositionsInv, UNCHANGED <<pos, unheard, closing, closeCmd, rows, posAnswers, sock>>,
         tombs' \subseteq tombs, batch' \subseteq batch \cup rows,
         \A t : (Opened(t)' <=> Opened(t)) /\ (Closed(t)' <=> Closed(t)),
         odd \subseteq odd', posAsked => posAsked'
  PROVE  PositionsInv'
BY SamePosition DEF PositionsInv

LEMMA HeardSame ==
  ASSUME UNCHANGED wire
  PROVE  \A t : (Opened(t)' <=> Opened(t)) /\ (Closed(t)' <=> Closed(t))
BY DEF Opened, Closed

\* Steps of orders and of their list.
LEMMA PositionsElsewhere ==
  ASSUME TypeOK, PositionsInv,
         \/ \E t \in Orders : Order(t)
         \/ CloseAllClick \/ VisitPositions \/ VisitOrders \/ UNCHANGED vars
         \/ \E t \in Positions : GraceEnds(t) \/ TombExpires(t)
         \/ \E i \in 1..MaxAnswers : OrdersAnswered(i) \/ OrdersFail(i)
         \/ CheckOrders \/ \E s \in Working : ServeOrders(s)
         \/ \E m \in wire : OrderUpdate(m)
         \/ \E m \in wire : Lose(m) /\ m.of = "order"
  PROVE  PositionsInv'
<1>. USE DEF server, ordSide, posSide, calls, dock, posFetch, ordFetch, posView, ordView, rest
<1>0. \A t, s, u : OrderMsg(t, s) # OpenedMsg(u) /\ OrderMsg(t, s) # ClosedMsg(u)
  BY OrderMsgIs, PositionMsgIs
<1>1. ASSUME NEW t \in Orders, Order(t) PROVE PositionsInv'
  <2>1. UNCHANGED <<pos, unheard, closing, closeCmd, rows, tombs, batch, posAnswers, sock>> /\ odd \subseteq odd'
    BY <1>1 DEF Order, Place, PlaceCommits, PlacePublishes, PlaceAnswered, PlaceFails, Fills, Rejects,
                Cancels, Settles, Untold, CancelClick, CancelServed, CancelAnswered
  <2>2. posAsked => posAsked'
    BY <1>1 DEF Order, Place, PlaceCommits, PlacePublishes, PlaceAnswered, PlaceFails, Fills, Rejects,
                Cancels, Settles, Untold, CancelClick, CancelServed, CancelAnswered
  <2>3. wire' = wire \/ \E s : wire' = wire \cup {OrderMsg(t, s)}
    BY <1>1 DEF Order, Place, PlaceCommits, PlacePublishes, PlaceAnswered, PlaceFails, Fills, Rejects,
                Cancels, Settles, Untold, CancelClick, CancelServed, CancelAnswered
  <2>4. \A u : (Opened(u)' <=> Opened(u)) /\ (Closed(u)' <=> Closed(u))
    BY <1>0, <2>3 DEF Opened, Closed
  <2>. QED BY <2>1, <2>2, <2>4, PositionsAside
<1>2. CASE CloseAllClick \/ VisitPositions \/ VisitOrders \/ UNCHANGED vars
  <2>1. /\ UNCHANGED <<pos, unheard, closing, closeCmd, rows, tombs, posAnswers, sock, wire, odd>>
        /\ batch' \subseteq batch \cup rows /\ (posAsked => posAsked')
    BY <1>2 DEF vars, CloseAllClick, VisitPositions, VisitOrders
  <2>. QED BY <2>1, HeardSame, PositionsAside
<1>3. ASSUME NEW t \in Positions, GraceEnds(t) \/ TombExpires(t) PROVE PositionsInv'
  <2>1. /\ UNCHANGED <<pos, unheard, closing, closeCmd, rows, batch, posAnswers, posAsked, sock, wire, odd>>
        /\ tombs' \subseteq tombs
    BY <1>3 DEF GraceEnds, TombExpires
  <2>. QED BY <2>1, HeardSame, PositionsAside
<1>4. ASSUME NEW i \in 1..MaxAnswers, OrdersAnswered(i) \/ OrdersFail(i) PROVE PositionsInv'
  <2>1. /\ UNCHANGED <<pos, unheard, closing, closeCmd, rows, tombs, batch, posAnswers, posAsked, sock, wire>>
        /\ odd \subseteq odd'
    BY <1>4 DEF OrdersAnswered, OrdersFail, InTurn
  <2>. QED BY <2>1, HeardSame, PositionsAside
<1>5. ASSUME CheckOrders \/ \E s \in Working : ServeOrders(s) PROVE PositionsInv'
  <2>1. /\ UNCHANGED <<pos, unheard, closing, closeCmd, rows, tombs, batch, posAnswers, posAsked, sock, wire>>
        /\ odd \subseteq odd'
    BY <1>5 DEF ServeOrders, CheckOrders
  <2>. QED BY <2>1, HeardSame, PositionsAside
<1>6. ASSUME NEW m \in wire, OrderUpdate(m) \/ (Lose(m) /\ m.of = "order") PROVE PositionsInv'
  <2>1. /\ UNCHANGED <<pos, unheard, closing, closeCmd, rows, tombs, batch, posAnswers, sock>>
        /\ wire' = wire \ {m} /\ odd \subseteq odd' /\ m.of = "order"
    BY <1>6 DEF OrderUpdate, Lose
  <2>2. posAsked => posAsked'
    <3>1. CASE OrderUpdate(m)
      BY <3>1, Zenon DEF OrderUpdate
    <3>2. CASE Lose(m)
      BY <3>2 DEF Lose
    <3>. QED BY <1>6, <3>1, <3>2
  <2>3. \A u : (Opened(u)' <=> Opened(u)) /\ (Closed(u)' <=> Closed(u))
    BY <2>1, PositionMsgIs DEF Opened, Closed
  <2>. QED BY <2>1, <2>2, <2>3, PositionsAside
<1>. QED BY <1>1, <1>2, <1>3, <1>4, <1>5, <1>6

LEMMA HeardAdds ==
  ASSUME NEW u
  PROVE  /\ wire' = wire \cup {OpenedMsg(u)} =>
              \A t : (Opened(t)' <=> Opened(t) \/ t = u) /\ (Closed(t)' <=> Closed(t))
         /\ wire' = wire \cup {ClosedMsg(u)} =>
              \A t : (Opened(t)' <=> Opened(t)) /\ (Closed(t)' <=> Closed(t) \/ t = u)
<1>1. \A t : /\ OpenedMsg(t) = OpenedMsg(u) <=> t = u
             /\ ClosedMsg(t) = ClosedMsg(u) <=> t = u
             /\ OpenedMsg(t) # ClosedMsg(u) /\ ClosedMsg(t) # OpenedMsg(u)
  BY PositionMsgIs
<1>. QED BY <1>1 DEF Opened, Closed

\* The engine opens a position, with a message or without.
LEMMA OpensPosition == ASSUME TypeOK, PositionsInv, NEW u \in Positions, Opens(u) PROVE PositionsInv'
<1>. USE DEF server, ordSide, posSide, calls, dock, posFetch, ordFetch, posView, ordView, rest
<1>1. /\ UNCHANGED <<closing, closeCmd, rows, tombs, batch, posAnswers, posAsked, sock, odd>>
      /\ \/ wire' = wire \cup {OpenedMsg(u)} /\ UNCHANGED unheard
         \/ UNCHANGED wire /\ unheard' = unheard \cup {u}
  BY DEF Opens
<1>2. pos[u] = "none" /\ pos'[u] = "open" /\ \A t \in Positions \ {u} : pos'[t] = pos[t]
  BY DEF Opens, TypeOK
<1>3. /\ \A t : (t # u => (Opened(t)' <=> Opened(t))) /\ (Closed(t)' <=> Closed(t))
      /\ Opened(u)' \/ u \in unheard'
  <2>1. CASE wire' = wire \cup {OpenedMsg(u)}
    BY <2>1, HeardAdds
  <2>2. CASE UNCHANGED wire /\ unheard' = unheard \cup {u}
    BY <2>2, HeardSame
  <2>. QED BY <1>1, <2>1, <2>2
<1>4. OnlyPosition(u)
  BY <1>1, <1>2, <1>3 DEF OnlyPosition
<1>5. /\ u \notin rows /\ u \notin tombs /\ ~Closed(u)
      /\ \A i \in 1..Len(posAnswers) : ~InAnswer(u, i)
  BY <1>2 DEF PositionsInv, PositionOK, Unseen
<1>6. \A i \in 1..Len(posAnswers') : ~InAnswer(u, i)'
  BY <1>1, <1>5 DEF InAnswer
<1>7. Unseen(u)'
  BY <1>2, <1>3, <1>5 DEF Unseen
<1>8. Buried(u)' /\ Awaited(u)'
  BY <1>1, <1>3, <1>5 DEF Buried, Awaited
<1>9. Seen(u)'
  BY <1>1, <1>5, <1>6 DEF Seen
<1>. QED BY <1>4, <1>7, <1>8, <1>9, OnePosition DEF PositionOK

\* A closed position is opened again: nothing is claimed of it from then on.
LEMMA ReopensPosition == ASSUME TypeOK, PositionsInv, NEW u \in Positions, Reopens(u) PROVE PositionsInv'
<1>. USE DEF server, ordSide, posSide, calls, dock, posFetch, ordFetch, posView, ordView, rest
<1>1. /\ UNCHANGED <<unheard, closing, closeCmd, rows, tombs, batch, posAnswers, posAsked, sock, wire>>
      /\ odd \subseteq odd' /\ "reopened" \in odd'
  BY DEF Reopens
<1>2. pos'[u] = "open" /\ \A t \in Positions \ {u} : pos'[t] = pos[t]
  BY DEF Reopens, TypeOK
<1>3. \A t : (Opened(t)' <=> Opened(t)) /\ (Closed(t)' <=> Closed(t))
  BY <1>1, HeardSame
<1>4. OnlyPosition(u)
  BY <1>1, <1>2, <1>3 DEF OnlyPosition
<1>. QED BY <1>1, <1>2, <1>4, OnePosition DEF PositionOK, Unseen, Missing

\* A position closes, or a command to close it finds it closed.
LEMMA ClosesPosition ==
  ASSUME TypeOK, PositionsInv, NEW u \in Positions, Closes(u) \/ ClosesElsewhere(u)
  PROVE  PositionsInv'
<1>. USE DEF server, ordSide, posSide, calls, dock, posFetch, ordFetch, posView, ordView, rest
<1>1. /\ UNCHANGED <<unheard, closing, rows, tombs, batch, posAnswers, posAsked, sock>> /\ odd \subseteq odd'
      /\ \A t \in Positions \ {u} : t \in closeCmd' <=> t \in closeCmd
  BY DEF Closes, ClosesElsewhere
<1>2. \A i : InAnswer(u, i)' <=> InAnswer(u, i)
  BY <1>1 DEF InAnswer
<1>3. CASE pos[u] = "open"
  <2>1. wire' \in {wire, wire \cup {ClosedMsg(u)}} /\ pos' = [pos EXCEPT ![u] = "closed"]
    BY <1>3 DEF Closes, ClosesElsewhere, Announces
  <2>2. pos'[u] = "closed" /\ \A t \in Positions \ {u} : pos'[t] = pos[t]
    BY <2>1 DEF TypeOK
  <2>3. \A t : (Opened(t)' <=> Opened(t)) /\ (t # u => (Closed(t)' <=> Closed(t)))
    BY <2>1, HeardAdds, HeardSame
  <2>4. OnlyPosition(u)
    BY <1>1, <2>2, <2>3 DEF OnlyPosition
  <2>5. PositionOK(u)'
    BY <2>2 DEF PositionOK, Unseen, Buried, Seen
  <2>. QED BY <2>4, <2>5, OnePosition
<1>4. CASE pos[u] # "open"
  <2>1. UNCHANGED <<pos, unheard, wire, odd>>
    BY <1>4 DEF Closes, ClosesElsewhere
  <2>2. \A t : (Opened(t)' <=> Opened(t)) /\ (Closed(t)' <=> Closed(t))
    BY <2>1, HeardSame
  <2>3. OnlyPosition(u)
    BY <1>1, <2>1, <2>2 DEF OnlyPosition
  <2>4. Unseen(u)'
    BY <1>1, <1>2, <2>1, <2>2 DEF PositionsInv, PositionOK, Unseen
  <2>5. PositionOK(u)'
    BY <1>4, <2>1, <2>4 DEF PositionOK, Buried, Seen
  <2>. QED BY <2>3, <2>5, OnePosition
<1>. QED BY <1>3, <1>4

LEMMA RefusesPosition == ASSUME TypeOK, PositionsInv, NEW u \in Positions, Refuses(u) PROVE PositionsInv'
<1>. USE DEF server, ordSide, posSide, calls, dock, posFetch, ordFetch, posView, ordView, rest
<1>1. /\ UNCHANGED <<pos, unheard, closing, rows, tombs, batch, posAnswers, posAsked, sock, wire>>
      /\ odd \subseteq odd' /\ "refused" \in odd'
      /\ \A t \in Positions \ {u} : t \in closeCmd' <=> t \in closeCmd
  BY DEF Refuses
<1>2. \A t : (Opened(t)' <=> Opened(t)) /\ (Closed(t)' <=> Closed(t))
  BY <1>1, HeardSame
<1>3. \A i : InAnswer(u, i)' <=> InAnswer(u, i)
  BY <1>1 DEF InAnswer
<1>4. OnlyPosition(u)
  BY <1>1, <1>2 DEF OnlyPosition
<1>5. PositionOK(u)
  BY DEF PositionsInv
<1>6. (Unseen(u) => Unseen(u)') /\ (Seen(u) => Seen(u)')
  BY <1>1, <1>2, <1>3 DEF Unseen, Seen
<1>. QED BY <1>1, <1>4, <1>5, <1>6, OnePosition DEF PositionOK, Missing

\* The dialogs.
LEMMA BuryPosition ==
  ASSUME TypeOK, PositionsInv, NEW u \in Positions, CloseClick(u) \/ CloseAllNext(u)
  PROVE  PositionsInv'
<1>. USE DEF server, ordSide, posSide, calls, dock, posFetch, ordFetch, posView, ordView, rest
<1>1. /\ UNCHANGED <<pos, unheard, closeCmd, batch, posAnswers, posAsked, sock, wire, odd>> /\ Bury(u)
      /\ u \in rows \/ u \in batch
  BY DEF CloseClick, CloseAllNext
<1>2. /\ closing'[u] = "sent" /\ u \notin rows'
      /\ \A t \in Positions \ {u} : /\ closing'[t] = closing[t] /\ (t \in rows' <=> t \in rows)
                                    /\ (t \in tombs' => t \in tombs)
  BY <1>1 DEF Bury, TypeOK
<1>3. \A t : (Opened(t)' <=> Opened(t)) /\ (Closed(t)' <=> Closed(t))
  BY <1>1, HeardSame
<1>4. \A i : InAnswer(u, i)' <=> InAnswer(u, i)
  BY <1>1 DEF InAnswer
<1>5. OnlyPosition(u)
  BY <1>1, <1>2, <1>3 DEF OnlyPosition
<1>6. PositionOK(u) /\ pos[u] # "none"
  BY <1>1 DEF PositionsInv, PositionOK, Unseen
<1>7. Unseen(u)' /\ Buried(u)' /\ Awaited(u)'
  BY <1>1, <1>2, <1>3, <1>6 DEF PositionOK, Unseen, Buried, Awaited, Going
<1>8. Seen(u) => Seen(u)'
  BY <1>1, <1>2, <1>4 DEF Seen
<1>. QED BY <1>1, <1>5, <1>6, <1>7, <1>8, OnePosition DEF PositionOK

LEMMA CloseServedPosition == ASSUME TypeOK, PositionsInv, NEW u \in Positions, CloseServed(u) PROVE PositionsInv'
<1>. USE DEF server, ordSide, posSide, calls, dock, posFetch, ordFetch, posView, ordView, rest
<1>1. /\ UNCHANGED <<pos, unheard, rows, tombs, batch, posAnswers, posAsked, sock, wire, odd>>
      /\ \E c \in {"ok", "error"} : closing' = [closing EXCEPT ![u] = c]
      /\ pos[u] = "open" => u \in closeCmd'
      /\ \A t \in Positions \ {u} : t \in closeCmd' <=> t \in closeCmd
  BY DEF CloseServed
<1>2. \A t \in Positions \ {u} : closing'[t] = closing[t]
  BY <1>1 DEF TypeOK
<1>3. \A t : (Opened(t)' <=> Opened(t)) /\ (Closed(t)' <=> Closed(t))
  BY <1>1, HeardSame
<1>4. \A i : InAnswer(u, i)' <=> InAnswer(u, i)
  BY <1>1 DEF InAnswer
<1>5. OnlyPosition(u)
  BY <1>1, <1>2, <1>3 DEF OnlyPosition
<1>6. PositionOK(u)
  BY DEF PositionsInv
<1>7. (Unseen(u) => Unseen(u)') /\ (Seen(u) => Seen(u)')
  BY <1>1, <1>3, <1>4 DEF Unseen, Seen
<1>8. pos'[u] = "open" => Going(u)'
  BY <1>1 DEF Going
<1>9. Buried(u)' /\ (pos'[u] = "open" => Awaited(u)')
  BY <1>8 DEF Buried, Awaited
<1>. QED BY <1>1, <1>5, <1>6, <1>7, <1>9, OnePosition DEF PositionOK

LEMMA CloseAnsweredPosition ==
  ASSUME TypeOK, PositionsInv, NEW u \in Positions, CloseAnswered(u)
  PROVE  PositionsInv'
<1>. USE DEF server, ordSide, posSide, calls, dock, posFetch, ordFetch, posView, ordView, rest
<1>1. /\ UNCHANGED <<pos, unheard, closeCmd, rows, posAnswers, sock, wire, odd>>
      /\ closing[u] # "sent" /\ closing' = [closing EXCEPT ![u] = "idle"]
      /\ batch' \subseteq batch /\ tombs' \subseteq tombs
  BY DEF CloseAnswered
<1>2. posAsked => posAsked'
  BY Zenon DEF CloseAnswered
<1>3. \A t \in Positions \ {u} : closing'[t] = closing[t]
  BY <1>1 DEF TypeOK
<1>4. \A t : (Opened(t)' <=> Opened(t)) /\ (Closed(t)' <=> Closed(t))
  BY <1>1, HeardSame
<1>5. \A i : InAnswer(u, i)' <=> InAnswer(u, i)
  BY <1>1 DEF InAnswer
<1>6. OnlyPosition(u)
  BY <1>1, <1>2, <1>3, <1>4 DEF OnlyPosition
<1>7. PositionOK(u)
  BY DEF PositionsInv
<1>8. (Unseen(u) => Unseen(u)') /\ (Seen(u) => Seen(u)')
  BY <1>1, <1>4, <1>5 DEF Unseen, Seen
<1>9. Going(u) => Going(u)'
  BY <1>1 DEF Going
<1>10. (Buried(u) => Buried(u)') /\ (Awaited(u) => Awaited(u)')
  BY <1>1, <1>2, <1>4, <1>9 DEF Buried, Awaited
<1>11. Shown(u) => Shown(u)'
  BY <1>1, <1>5 DEF Shown
<1>. QED BY <1>1, <1>6, <1>7, <1>8, <1>10, <1>11, OnePosition DEF PositionOK

LEMMA ConnectionPosition ==
  ASSUME TypeOK, PositionsInv, Drop \/ AuthSuccess \/ AuthRefused \/ GivesUp
  PROVE  PositionsInv'
<1>. USE DEF server, ordSide, posSide, calls, dock, posFetch, ordFetch, posView, ordView, rest
<1>1. /\ UNCHANGED <<pos, unheard, closing, closeCmd, rows, tombs, batch, posAnswers, wire, odd>>
      /\ sock' # "up" \/ posAsked'
  BY DEF Drop, AuthSuccess, AuthRefused, GivesUp
<1>2. \A t : (Opened(t)' <=> Opened(t)) /\ (Closed(t)' <=> Closed(t))
  BY <1>1, HeardSame
<1>3. ASSUME NEW t \in Positions PROVE PositionOK(t)'
  <2>1. PositionOK(t) /\ \A i : InAnswer(t, i)' <=> InAnswer(t, i)
    BY <1>1 DEF PositionsInv, InAnswer
  <2>2. /\ Unseen(t) => Unseen(t)'
        /\ Buried(t) => Buried(t)'
        /\ Seen(t) => Seen(t)'
    BY <1>1, <1>2, <2>1 DEF Unseen, Buried, Seen, Going
  <2>3. Awaited(t)'
    BY <1>1 DEF Awaited
  <2>. QED BY <1>1, <2>1, <2>2, <2>3 DEF PositionOK
<1>. QED BY <1>3 DEF PositionsInv

\* Redis answers with what is open.
LEMMA ServePosition == ASSUME TypeOK, PositionsInv, ServePositions PROVE PositionsInv'
<1>. USE DEF server, ordSide, posSide, calls, dock, posFetch, ordFetch, posView, ordView, rest
<1>0. PICK left \in SUBSET Open : /\ posAnswers' = Append1(posAnswers, Open \ left)
                                  /\ odd' = IF left = {} THEN odd ELSE odd \cup {"failed"}
  BY DEF ServePositions
<1>. PICK open \in SUBSET Positions : open = Open \ left
  BY DEF Open
<1>1. /\ UNCHANGED <<pos, closing, closeCmd, rows, tombs, batch, sock, wire>>
      /\ posAnswers' = Append1(posAnswers, open)
  BY <1>0 DEF ServePositions
<1>a. odd \subseteq odd' /\ ("failed" \notin odd' => open = Open)
  BY <1>0
<1>2. \A t : (Opened(t)' <=> Opened(t)) /\ (Closed(t)' <=> Closed(t))
  BY <1>1, HeardSame
<1>. PICK q \in Seq(SUBSET Positions), n \in Nat : q = posAnswers /\ n = Len(posAnswers)
  BY DEF TypeOK
<1>3. open \subseteq Open
  OBVIOUS
<1>. PICK r, k : r = Append1(q, open) /\ k = Len(r)
  OBVIOUS
<1>4. /\ r # <<>> /\ k \in {n, n + 1} /\ r[k] = open
      /\ \A j \in 1..n : r[j] = q[j]
      /\ \A j \in 1..k : j \in 1..n \/ r[j] = open
  <2>0. PICK S : S = SUBSET Positions
    OBVIOUS
  <2>a. q \in Seq(S) /\ open \in S
    BY <2>0
  <2>1. Append1(q, open) # <<>>
    BY ONLY <2>a, Append1Is
  <2>2. Len(Append1(q, open)) \in {Len(q), Len(q) + 1} /\ Append1(q, open)[Len(Append1(q, open))] = open
    BY ONLY <2>a, Append1Is
  <2>3. ASSUME NEW j \in 1..Len(q) PROVE Append1(q, open)[j] = q[j]
    BY ONLY <2>3, <2>a, j \in 1..Len(q), Append1Is
  <2>4. \A j \in 1..Len(Append1(q, open)) : j \in 1..Len(q) \/ Append1(q, open)[j] = open
    BY ONLY <2>a, Append1Is
  <2>. QED BY <2>1, <2>2, <2>3, <2>4
<1>5. ASSUME NEW t \in Positions PROVE PositionOK(t)'
  <2>1. PositionOK(t)
    BY DEF PositionsInv
  <2>2. /\ \A j \in 1..n : InAnswer(t, j)' <=> InAnswer(t, j)
        /\ \A j \in 1..k : j \notin 1..n => (InAnswer(t, j)' <=> t \in open)
        /\ t \in open => InAnswer(t, k)'
        /\ t \in open => pos[t] = "open"
        /\ "failed" \notin odd' /\ pos[t] = "open" => t \in open
        /\ Len(posAnswers') = k /\ posAnswers' # <<>>
    BY <1>1, <1>3, <1>4, <1>a DEF InAnswer, Open
  <2>3. Unseen(t)'
    BY <1>1, <1>2, <1>a, <2>1, <2>2 DEF PositionOK, Unseen
  <2>4. Buried(t) => Buried(t)'
    BY <1>1 DEF Buried, Going
  <2>5. ASSUME Seen(t), pos[t] = "open", "failed" \notin odd' PROVE Seen(t)'
    <3>1. ASSUME NEW i \in 1..k, NEW j \in 1..k, i < j, InAnswer(t, i)' PROVE InAnswer(t, j)'
      <4>1. CASE j \in 1..n
        <5>1. i \in 1..n
          BY <1>4, <3>1, <4>1
        <5>. QED BY <2>2, <2>5, <3>1, <4>1, <5>1 DEF Seen
      <4>2. CASE j \notin 1..n
        BY <2>2, <2>5, <4>2
      <4>. QED BY <4>1, <4>2
    <3>2. ASSUME Opened(t)', t \in rows', NEW i \in 1..k PROVE InAnswer(t, i)'
      BY <1>1, <1>2, <2>2, <2>5, <3>2 DEF Seen
    <3>. QED BY <2>2, <3>1, <3>2 DEF Seen
  <2>6. "failed" \notin odd' => (pos'[t] = "open" => Shown(t)')
    BY <1>1, <2>2 DEF Shown
  <2>7. pos[t] # "open" => Seen(t)'
    BY <1>1 DEF Seen
  <2>. QED BY <1>1, <1>a, <2>1, <2>3, <2>4, <2>5, <2>6, <2>7 DEF PositionOK, Missing
<1>. QED BY <1>5 DEF PositionsInv

\* An answer is merged into the rows.
LEMMA AnswerPosition ==
  ASSUME TypeOK, PositionsInv, NEW i \in 1..MaxAnswers, PositionsAnswered(i)
  PROVE  PositionsInv'
<1>. USE DEF server, ordSide, posSide, calls, dock, posFetch, ordFetch, posView, ordView, rest
<1>1. /\ UNCHANGED <<pos, unheard, closing, closeCmd, batch, posAsked, sock, wire>>
      /\ posAnswers' = Without(posAnswers, i) /\ i \in 1..Len(posAnswers)
      /\ rows' = (posAnswers[i] \ tombs) \cup (rows \cap grace) /\ tombs' \subseteq tombs
      /\ odd \subseteq odd' /\ (i > 1 => "reordered" \in odd')
  BY DEF PositionsAnswered, FilterRest, TombsLeft, Merge, InTurn
<1>2. \A t : (Opened(t)' <=> Opened(t)) /\ (Closed(t)' <=> Closed(t))
  BY <1>1, HeardSame
<1>. PICK q \in Seq(SUBSET Positions), n \in Nat : q = posAnswers /\ n = Len(posAnswers)
  BY DEF TypeOK
<1>. PICK r : r = Without(q, i)
  OBVIOUS
<1>3. /\ r \in Seq(SUBSET Positions) /\ Len(r) = n - 1
      /\ \A j \in 1..(n - 1) : r[j] = IF j < i THEN q[j] ELSE q[j + 1]
  <2>. PICK S : S = SUBSET Positions
    OBVIOUS
  <2>1. q \in Seq(S) /\ i \in 1..Len(q)
    BY <1>1
  <2>2. /\ Without(q, i) \in Seq(S) /\ Len(Without(q, i)) = Len(q) - 1
        /\ \A j \in 1..(Len(q) - 1) : Without(q, i)[j] = IF j < i THEN q[j] ELSE q[j + 1]
    BY ONLY <2>1, WithoutIs, SMTT(60)
  <2>. QED BY <2>2
<1>4. ASSUME NEW t \in Positions PROVE PositionOK(t)'
  <2>1. PositionOK(t)
    BY DEF PositionsInv
  <2>2. /\ Len(posAnswers') = n - 1
        /\ \A j \in 1..(n - 1) : InAnswer(t, j)' <=> IF j < i THEN InAnswer(t, j) ELSE InAnswer(t, j + 1)
    BY <1>1, <1>3 DEF InAnswer
  <2>3. Unseen(t)'
    <3>1. ASSUME pos[t] = "none", NEW j \in 1..(n - 1) PROVE ~InAnswer(t, j)'
      <4>1. j \in 1..n /\ j + 1 \in 1..n
        OBVIOUS
      <4>. QED BY <2>1, <2>2, <3>1, <4>1 DEF PositionOK, Unseen
    <3>2. pos[t] = "none" => t \notin rows' /\ t \notin tombs'
      BY <1>1, <2>1 DEF PositionOK, Unseen, InAnswer
    <3>. QED BY <1>1, <1>2, <2>1, <2>2, <3>1, <3>2 DEF PositionOK, Unseen
  <2>4. Buried(t) => Buried(t)'
    BY <1>1 DEF Buried, Going
  <2>5. ASSUME "reordered" \notin odd', Seen(t), pos[t] = "open" PROVE Seen(t)'
    <3>1. i = 1 /\ \A j \in 1..(n - 1) : j + 1 \in 1..n /\ (InAnswer(t, j)' <=> InAnswer(t, j + 1))
      BY <1>1, <2>2, <2>5
    <3>2. ASSUME NEW j \in 1..(n - 1), NEW l \in 1..(n - 1), j < l, InAnswer(t, j)' PROVE InAnswer(t, l)'
      <4>1. j + 1 < l + 1 /\ j + 1 \in 1..n /\ l + 1 \in 1..n
        BY <3>2
      <4>. QED BY <2>5, <3>1, <3>2, <4>1 DEF Seen
    <3>3. ASSUME Opened(t)', t \in rows', NEW j \in 1..(n - 1) PROVE InAnswer(t, j)'
      <4>1. j + 1 \in 1..n /\ 1 \in 1..n /\ 1 < j + 1
        OBVIOUS
      <4>2. t \in rows \/ InAnswer(t, 1)
        BY <1>1, <3>1, <3>3 DEF InAnswer
      <4>. QED BY <1>2, <2>5, <3>1, <3>3, <4>1, <4>2 DEF Seen
    <3>. QED BY <2>2, <3>2, <3>3 DEF Seen
  <2>6. pos[t] # "open" => Seen(t)'
    BY <1>1 DEF Seen
  <2>7. Awaited(t) => Awaited(t)'
    BY <1>1, <1>2 DEF Awaited, Going
  <2>8. ASSUME odd' \cap Missing = {}, pos[t] = "open", Shown(t), ~Awaited(t) PROVE Shown(t)'
    <3>1. i = 1 /\ t \notin tombs
      BY <1>1, <2>1, <2>8 DEF PositionOK, Buried, Awaited, Missing
    <3>2. posAnswers # <<>> /\ InAnswer(t, n)
      BY <1>1, <2>8 DEF Shown
    <3>3. CASE n = 1
      <4>1. t \in rows'
        BY <1>1, <3>1, <3>2, <3>3 DEF InAnswer
      <4>2. posAnswers' = <<>>
        BY <1>1, <1>3, <3>3
      <4>. QED BY <4>1, <4>2 DEF Shown
    <3>4. CASE n # 1
      <4>1. n - 1 \in 1..(n - 1) /\ (n - 1) + 1 = n
        BY <1>1, <3>4
      <4>2. InAnswer(t, n - 1)'
        BY <2>2, <3>1, <3>2, <4>1
      <4>3. posAnswers' # <<>>
        BY <2>2, <4>1
      <4>. QED BY <2>2, <4>2, <4>3 DEF Shown
    <3>. QED BY <3>3, <3>4
  <2>. QED BY <1>1, <2>1, <2>3, <2>4, <2>5, <2>6, <2>7, <2>8 DEF PositionOK, Missing
<1>. QED BY <1>4 DEF PositionsInv

\* A fetch that fails: the answers that are left keep their order.
LEMMA FailPosition == ASSUME TypeOK, PositionsInv, NEW i \in 1..MaxAnswers, PositionsFail(i) PROVE PositionsInv'
<1>. USE DEF server, ordSide, posSide, calls, dock, posFetch, ordFetch, posView, ordView, rest
<1>1. /\ UNCHANGED <<pos, unheard, closing, closeCmd, rows, tombs, batch, posAsked, sock, wire>>
      /\ posAnswers' = Without(posAnswers, i) /\ i \in 1..Len(posAnswers)
      /\ odd \subseteq odd' /\ "failed" \in odd'
  BY DEF PositionsFail
<1>2. \A t : (Opened(t)' <=> Opened(t)) /\ (Closed(t)' <=> Closed(t))
  BY <1>1, HeardSame
<1>. PICK q \in Seq(SUBSET Positions), n \in Nat : q = posAnswers /\ n = Len(posAnswers)
  BY DEF TypeOK
<1>. PICK r : r = Without(q, i)
  OBVIOUS
<1>3. /\ Len(r) = n - 1
      /\ \A j \in 1..(n - 1) : r[j] = IF j < i THEN q[j] ELSE q[j + 1]
  <2>. PICK S : S = SUBSET Positions
    OBVIOUS
  <2>1. q \in Seq(S) /\ i \in 1..Len(q)
    BY <1>1
  <2>2. /\ Without(q, i) \in Seq(S) /\ Len(Without(q, i)) = Len(q) - 1
        /\ \A j \in 1..(Len(q) - 1) : Without(q, i)[j] = IF j < i THEN q[j] ELSE q[j + 1]
    BY ONLY <2>1, WithoutIs, SMTT(60)
  <2>. QED BY <2>2
<1>4. ASSUME NEW t \in Positions PROVE PositionOK(t)'
  <2>1. PositionOK(t)
    BY DEF PositionsInv
  <2>2. /\ Len(posAnswers') = n - 1
        /\ \A j \in 1..(n - 1) : InAnswer(t, j)' <=> IF j < i THEN InAnswer(t, j) ELSE InAnswer(t, j + 1)
    BY <1>1, <1>3 DEF InAnswer
  <2>3. ASSUME pos[t] = "none", NEW j \in 1..(n - 1) PROVE ~InAnswer(t, j)'
    <3>1. j \in 1..n /\ j + 1 \in 1..n
      OBVIOUS
    <3>. QED BY <2>1, <2>2, <2>3, <3>1 DEF PositionOK, Unseen
  <2>4. Unseen(t)'
    BY <1>1, <1>2, <2>1, <2>2, <2>3 DEF PositionOK, Unseen
  <2>5. Buried(t) => Buried(t)'
    BY <1>1 DEF Buried, Going
  <2>. QED BY <1>1, <2>1, <2>4, <2>5 DEF PositionOK, Missing
<1>. QED BY <1>4 DEF PositionsInv

\* A message of position u is handled or lost.
LEMMA HeardTakes ==
  ASSUME NEW u, NEW m, m = OpenedMsg(u) \/ m = ClosedMsg(u), wire' = wire \ {m}
  PROVE  /\ \A t : t # u => (Opened(t)' <=> Opened(t)) /\ (Closed(t)' <=> Closed(t))
         /\ (Opened(u)' => Opened(u)) /\ (Closed(u)' => Closed(u))
         /\ m = ClosedMsg(u) => (Opened(u)' <=> Opened(u))
<1>1. \A t : /\ t # u => OpenedMsg(t) # OpenedMsg(u) /\ ClosedMsg(t) # ClosedMsg(u)
             /\ OpenedMsg(t) # ClosedMsg(u) /\ ClosedMsg(t) # OpenedMsg(u)
  BY PositionMsgIs
<1>. QED BY <1>1 DEF Opened, Closed

\* position_update
LEMMA UpdatePosition == ASSUME TypeOK, PositionsInv, NEW m \in wire, PositionUpdate(m) PROVE PositionsInv'
<1>. USE DEF server, ordSide, posSide, calls, dock, posFetch, ordFetch, posView, ordView, rest
<1>. PICK u \in Positions : m.t = u /\ (m = OpenedMsg(u) \/ m = ClosedMsg(u))
  BY OfMessages DEF PositionUpdate, TypeOK
<1>1. Opening(m)
  BY PositionMsgIs DEF Opening, GatewayStatus
<1>2. /\ UNCHANGED <<pos, unheard, closing, closeCmd, tombs, batch, posAnswers, sock, odd>> /\ wire' = wire \ {m}
      /\ rows' = IF u \notin rows \cup tombs THEN rows \cup {u} ELSE rows
  BY <1>1 DEF PositionUpdate, Appends
<1>3. (posAsked => posAsked') /\ (Appends(m) => posAsked')
  BY Zenon DEF PositionUpdate, Refetches
<1>4. u \notin rows \cup tombs => posAsked'
  BY <1>1, <1>3 DEF Appends
<1>5. /\ \A t : t # u => (Opened(t)' <=> Opened(t)) /\ (Closed(t)' <=> Closed(t))
      /\ (Opened(u)' => Opened(u)) /\ (Closed(u)' => Closed(u))
      /\ m = ClosedMsg(u) => (Opened(u)' <=> Opened(u))
  BY <1>2, HeardTakes
<1>6. \A t \in Positions \ {u} : t \in rows' <=> t \in rows
  BY <1>2
<1>7. OnlyPosition(u)
  BY <1>2, <1>3, <1>5, <1>6 DEF OnlyPosition
<1>8. PositionOK(u) /\ \A i : InAnswer(u, i)' <=> InAnswer(u, i)
  BY <1>2 DEF PositionsInv, InAnswer
<1>9. pos[u] # "none" /\ ("reopened" \notin odd /\ m = ClosedMsg(u) => pos[u] = "closed")
  BY <1>8 DEF PositionOK, Unseen, Opened, Closed
<1>10. Unseen(u)' /\ (Buried(u) => Buried(u)')
  BY <1>2, <1>5, <1>8, <1>9 DEF PositionOK, Unseen, Buried, Going
<1>11. CASE pos[u] # "open"
  <2>1. PositionOK(u)'
    BY <1>2, <1>10, <1>11 DEF PositionOK, Seen, Buried
  <2>. QED BY <1>7, <2>1, OnePosition
<1>12. CASE pos[u] = "open" /\ "reopened" \in odd
  BY <1>2, <1>7, <1>10, <1>12, OnePosition DEF PositionOK, Missing
<1>13. CASE pos[u] = "open" /\ "reopened" \notin odd
  <2>1. m = OpenedMsg(u) /\ ~Opened(u)' /\ Opened(u)
    BY <1>2, <1>9, <1>13 DEF Opened
  <2>2. Seen(u) => Seen(u)'
    BY <1>2, <1>8, <2>1 DEF Seen
  <2>3. ASSUME odd \cap Missing = {} PROVE Awaited(u)' \/ Shown(u)'
    <3>1. CASE u \notin rows \cup tombs
      BY <1>4, <3>1 DEF Awaited
    <3>2. CASE u \in tombs
      BY <1>2, <1>8, <1>13, <2>3, <3>2 DEF PositionOK, Buried, Awaited, Going, Missing
    <3>3. CASE u \in rows
      <4>1. \A i \in 1..Len(posAnswers) : InAnswer(u, i)
        BY <1>8, <1>13, <2>1, <2>3, <3>3 DEF PositionOK, Seen, Missing
      <4>2. posAnswers # <<>> => Len(posAnswers) \in 1..Len(posAnswers)
        BY DEF TypeOK
      <4>. QED BY <1>2, <1>8, <3>3, <4>1, <4>2 DEF Shown
    <3>. QED BY <3>1, <3>2, <3>3
  <2>. QED BY <1>2, <1>7, <1>8, <1>10, <2>2, <2>3, OnePosition DEF PositionOK
<1>. QED BY <1>11, <1>13, <1>12

LEMMA LosePosition == ASSUME TypeOK, PositionsInv, NEW m \in wire, Lose(m), m.of = "position" PROVE PositionsInv'
<1>. USE DEF server, ordSide, posSide, calls, dock, posFetch, ordFetch, posView, ordView, rest
<1>. PICK u \in Positions : m = OpenedMsg(u) \/ m = ClosedMsg(u)
  BY OfMessages DEF TypeOK
<1>1. /\ UNCHANGED <<pos, unheard, closing, closeCmd, rows, tombs, batch, posAnswers, posAsked, sock>>
      /\ wire' = wire \ {m} /\ odd \subseteq odd' /\ (sock # "up" \/ "untold" \in odd')
  BY DEF Lose
<1>2. /\ \A t : t # u => (Opened(t)' <=> Opened(t)) /\ (Closed(t)' <=> Closed(t))
      /\ (Opened(u)' => Opened(u)) /\ (Closed(u)' => Closed(u))
  BY <1>1, HeardTakes
<1>3. OnlyPosition(u)
  BY <1>1, <1>2 DEF OnlyPosition
<1>4. PositionOK(u) /\ (Awaited(u)' \/ "untold" \in odd') /\ \A i : InAnswer(u, i)' <=> InAnswer(u, i)
  BY <1>1 DEF PositionsInv, Awaited, InAnswer
<1>5. /\ Unseen(u) => Unseen(u)'
      /\ Buried(u) => Buried(u)'
      /\ Seen(u) => Seen(u)'
  BY <1>1, <1>2, <1>4 DEF Unseen, Buried, Seen, Going
<1>. QED BY <1>1, <1>3, <1>4, <1>5, OnePosition DEF PositionOK, Missing

LEMMA PositionsStep == ASSUME TypeOK, PositionsInv, [Next]_vars PROVE PositionsInv'
<1>1. ASSUME NEW t \in Positions, Position(t) PROVE PositionsInv'
  BY <1>1, OpensPosition, ReopensPosition, ClosesPosition, RefusesPosition, BuryPosition, CloseServedPosition,
     CloseAnsweredPosition, PositionsElsewhere DEF Position
<1>2. ASSUME NEW m \in wire, Lose(m) PROVE PositionsInv'
  <2>1. m.of \in {"order", "position"}
    BY OfMessages DEF TypeOK
  <2>. QED BY <1>2, <2>1, LosePosition, PositionsElsewhere
<1>. QED BY <1>1, <1>2, PositionsElsewhere, UpdatePosition, AnswerPosition, FailPosition, ServePosition,
         ConnectionPosition DEF Next

LEMMA PositionsInit == Init => PositionsInv
<1>. SUFFICES ASSUME Init, NEW t \in Positions PROVE PositionOK(t)
  BY DEF PositionsInv
<1>1. /\ pos[t] = "none" /\ t \notin rows /\ t \notin tombs /\ t \notin batch /\ ~Opened(t) /\ ~Closed(t)
      /\ Len(posAnswers) = 0
  BY DEF Init, Opened, Closed
<1>. QED BY <1>1 DEF PositionOK, Unseen, Buried, Seen

\* Once nothing is on its way every open position has a row, unless it opened
\* without a message and nothing was fetched since, in whatever order messages,
\* answers, timers, the user's closes and reconnections came: of runs in which
\* no answer overtook another, no fetch failed, no message was lost on an open
\* connection, every close was carried out and no position was reopened.
THEOREM OpenPositionsAreShown == Spec => []OpenIsShown
<1>1. TypeOK /\ PositionsInv /\ [Next]_vars => (TypeOK /\ PositionsInv)'
  BY TypeStep, PositionsStep
<1>2. TypeOK /\ PositionsInv => OpenIsShown
  <2>. SUFFICES ASSUME TypeOK, PositionsInv, Quiet, odd \cap Missing = {},
                       NEW t \in Positions, pos[t] = "open", t \notin unheard
                PROVE  t \in rows
    BY DEF OpenIsShown, Open, Missing
  <2>1. ~Awaited(t)
    BY DEF Quiet, Awaited, Opened, Going
  <2>2. Shown(t)
    BY <2>1 DEF PositionsInv, PositionOK
  <2>. QED BY <2>2 DEF Shown, Quiet
<1>. QED BY <1>1, <1>2, TypeInit, PositionsInit, PTL DEF Spec
===============================================================================
