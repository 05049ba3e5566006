---------------------------- MODULE TradingDock ----------------------------
(***************************************************************************)
(* What the terminal's bottom dock shows of a user's orders and positions  *)
(* (features/terminal/components/BottomDock.tsx): two lists fed by REST    *)
(* answers and by the dock's own WebSocket, and the dialogs that place,    *)
(* cancel and close.                                                       *)
(*                                                                         *)
(* Requests of one kind that nothing served yet are one flag: serving them *)
(* may leave the flag up (another timer or request) or not.  Answers are   *)
(* applied in any order, or fail.  The server's side is what the dock sees *)
(* of it: an order's row in Postgres, changed by the routes (the list      *)
(* route included, which ends rows that Redis says are over) and, after    *)
(* the engine's event, by the listener that then tells the gateway; a      *)
(* position in Redis, about which the engine may tell the gateway itself.  *)
(***************************************************************************)
EXTENDS Naturals, Sequences, FiniteSets

CONSTANTS Orders, Positions,
          MaxAnswers, \* bound: answers of one kind on their way
          MaxDrops,   \* bound: connections lost
          MaxVisits   \* bound: times the user comes back to a tab

ASSUME DockAssumption == MaxAnswers \in Nat \ {0} /\ MaxDrops \in Nat /\ MaxVisits \in Nat

VARIABLES
    \* the server
    order,      \* orders.status
    outcome,    \* what the engine did with the order, "none" before
    report,     \* the listener's work on that: "due", then "told" or "untold"
    pos,        \* the position in Redis
    unheard,    \* opened without a message, and in no answer served since
    cancelCmd, closeCmd,   \* commands on their way to the engine
    wire,       \* messages for the dock's socket, published or about to be
    \* REST calls
    placing, cancelling, closing,
    posAsked, posAnswers,
    ordAsked, ordHalf, ordAnswers,
    \* the dock
    sock,       \* "down", "up": authenticated, "refused": not, "off": given up
    rows,       \* positions: the rows, all OPEN
    grace,      \* wsAppendedAtRef, entries younger than WS_POSITION_GRACE_MS
    tombs,      \* positionCloseTombstonesRef, younger than POSITION_CLOSE_TOMBSTONE_MS
    list,       \* orders: "none" or the status shown
    orderTombs, \* terminalOrderTombstonesRef
    batch,      \* rest of the snapshot that Close All goes through
    drops, visits, \* what is left of the bounds
    odd         \* history: which disturbances occurred

ordSide == <<order, outcome, report, cancelCmd>>
posSide == <<pos, unheard, closeCmd>>
server == <<ordSide, posSide, wire>>
calls == <<placing, cancelling, closing>>
posFetch == <<posAsked, posAnswers>>
ordFetch == <<ordAsked, ordHalf, ordAnswers>>
posView == <<rows, grace, tombs>>
ordView == <<list, orderTombs>>
rest == <<sock, batch, drops, visits, odd>>
dock == <<posFetch, ordFetch, posView, ordView, rest>>
vars == <<server, calls, dock>>

\* reordered: an answer was applied before an older one;  overtaken: a message
\* of an order was handled before an older one;  refused: the engine did not
\* carry out a close the route had accepted;  lost: the answer to a placed
\* order was lost;  failed: a fetch failed or left something out, or the list
\* route could not write;  untold: an event or a message got lost, although
\* the dock was connected;  late: a message that an order works was handled
\* after an end that no message tells;  reopened: a position was reopened.
Disturbances == {"reordered", "overtaken", "refused", "lost", "failed", "untold", "late",
                 "reopened"}

Ended == {"filled", "cancelled", "rejected"}
Working == {"pending", "cancelling"}
NoHalf == [read |-> {}, checked |-> FALSE, rows |-> [s \in Working |-> {}]]

Open == {p \in Positions : pos[p] = "open"}
With(s) == {o \in Orders : order[o] = s}
Listed == {o \in Orders : list[o] # "none"}

\* A message of an order, and one of a position.  The engine's announcement
\* of a close has no status.
OrderMsg(t, s) == [of |-> "order", t |-> t, st |-> s]
OpenedMsg(t) == [of |-> "position", t |-> t, st |-> "OPEN"]
ClosedMsg(t) == [of |-> "position", t |-> t, st |-> "absent"]

\* broadcast_position_update: an absent status is "OPEN".
GatewayStatus(m) == IF m.st = "absent" THEN "OPEN" ELSE m.st

\* The order in which the messages of one order are published.
Rank(m) == CASE m.st = "pending" -> 1 [] m.st = "cancelling" -> 2 [] OTHER -> 3

Init ==
    /\ order = [t \in Orders |-> "none"] /\ outcome = [t \in Orders |-> "none"]
    /\ report = [t \in Orders |-> "none"]
    /\ pos = [t \in Positions |-> "none"] /\ unheard = {}
    /\ cancelCmd = {} /\ closeCmd = {} /\ wire = {}
    /\ placing = [t \in Orders |-> "idle"]
    /\ cancelling = [t \in Orders |-> "idle"]
    /\ closing = [t \in Positions |-> "idle"]
    /\ posAsked = TRUE /\ posAnswers = <<>>
    /\ ordAsked = TRUE /\ ordHalf = NoHalf /\ ordAnswers = <<>>
    /\ sock = "down"
    /\ rows = {} /\ grace = {} /\ tombs = {}
    /\ list = [t \in Orders |-> "none"] /\ orderTombs = {}
    /\ batch = {}
    /\ drops = MaxDrops /\ visits = MaxVisits /\ odd = {}

-----------------------------------------------------------------------------
(* Placing an order: POST /v1/orders *)

\* executePlaceOrderRequest: the request leaves.
Place(t) ==
    /\ placing[t] = "idle"
    /\ placing' = [placing EXCEPT ![t] = "sent"]
    /\ UNCHANGED <<server, cancelling, closing, dock>>

\* place_order commits the row and sends the command to the engine ...
PlaceCommits(t) ==
    /\ placing[t] = "sent"
    /\ order' = [order EXCEPT ![t] = "pending"]
    /\ placing' = [placing EXCEPT ![t] = "committed"]
    /\ UNCHANGED <<outcome, report, cancelCmd, posSide, wire, cancelling, closing, dock>>

\* ... and tells the gateway and the client.
PlacePublishes(t) ==
    /\ placing[t] = "committed"
    /\ wire' = wire \cup {OrderMsg(t, "pending")}
    /\ placing' = [placing EXCEPT ![t] = "answered"]
    /\ UNCHANGED <<ordSide, posSide, cancelling, closing, dock>>

\* The answer: requestOpenPositionsRefresh, whose effect fetches both lists.
PlaceAnswered(t) ==
    /\ placing[t] = "answered"
    /\ placing' = [placing EXCEPT ![t] = "done"]
    /\ posAsked' = TRUE /\ ordAsked' = TRUE
    /\ UNCHANGED <<server, cancelling, closing, posAnswers, ordHalf, ordAnswers, rest,
                   posView, ordView>>

\* The answer is lost: the client reports an error and fetches nothing.
PlaceFails(t) ==
    /\ placing[t] = "answered"
    /\ placing' = [placing EXCEPT ![t] = "done"]
    /\ odd' = odd \cup {"lost"}
    /\ UNCHANGED <<server, cancelling, closing, posFetch, ordFetch, sock, posView,
                   ordView, batch, drops, visits>>

-----------------------------------------------------------------------------
(* The engine, and the listener that brings its events to Postgres *)

AtEngine(t) == order[t] \in Working /\ outcome[t] = "none"

\* A fill; which position it opens or adds to is not followed.
Fills(t) ==
    /\ AtEngine(t)
    /\ outcome' = [outcome EXCEPT ![t] = "filled"]
    /\ report' = [report EXCEPT ![t] = "due"]
    /\ UNCHANGED <<order, cancelCmd, posSide, wire, calls, dock>>

\* A fill opens a position: the hash first, then the message.  The message is
\* missing when the fill is synced after an aborted script, when an event
\* before it could not be published, and when its own PUBLISH fails.
Opens(t) ==
    /\ pos[t] = "none"
    /\ pos' = [pos EXCEPT ![t] = "open"]
    /\ \/ wire' = wire \cup {OpenedMsg(t)} /\ UNCHANGED unheard
       \/ unheard' = unheard \cup {t} /\ UNCHANGED wire
    /\ UNCHANGED <<ordSide, closeCmd, calls, dock>>

\* The back office reopens a closed position: no message.
Reopens(t) ==
    /\ pos[t] = "closed"
    /\ pos' = [pos EXCEPT ![t] = "open"]
    /\ odd' = odd \cup {"reopened"}
    /\ UNCHANGED <<ordSide, unheard, closeCmd, wire, calls, posFetch, ordFetch, sock,
                   posView, ordView, batch, drops, visits>>

Rejects(t) ==
    /\ AtEngine(t)
    /\ outcome' = [outcome EXCEPT ![t] = "rejected"]
    /\ report' = [report EXCEPT ![t] = "due"]
    /\ UNCHANGED <<order, cancelCmd, posSide, wire, calls, dock>>

\* A cancel that comes after the outcome is dropped.
Cancels(t) ==
    /\ t \in cancelCmd
    /\ cancelCmd' = cancelCmd \ {t}
    /\ IF outcome[t] = "none"
       THEN /\ outcome' = [outcome EXCEPT ![t] = "cancelled"]
            /\ report' = [report EXCEPT ![t] = "due"]
       ELSE UNCHANGED <<outcome, report>>
    /\ UNCHANGED <<order, posSide, wire, calls, dock>>

\* OrderEventHandler: the row first, then the message to the gateway.  A row
\* that the list route has ended already brings no message, unless the order
\* is filled.
Settles(t) ==
    /\ report[t] = "due" /\ outcome[t] # "none"
    /\ IF order[t] = outcome[t] /\ outcome[t] # "filled"
       THEN report' = [report EXCEPT ![t] = "untold"] /\ UNCHANGED <<order, wire>>
       ELSE /\ order' = [order EXCEPT ![t] = outcome[t]]
            /\ report' = [report EXCEPT ![t] = "told"]
            /\ wire' = wire \cup {OrderMsg(t, outcome[t])}
    /\ UNCHANGED <<outcome, cancelCmd, posSide, calls, dock>>

\* The engine's event is lost, or the listener's PUBLISH fails.
Untold(t) ==
    /\ report[t] = "due"
    /\ \E st \in {order[t], outcome[t]} : order' = [order EXCEPT ![t] = st]
    /\ report' = [report EXCEPT ![t] = "untold"]
    /\ odd' = odd \cup {"untold"}
    /\ UNCHANGED <<outcome, cancelCmd, posSide, wire, calls, posFetch, ordFetch, sock,
                   posView, ordView, batch, drops, visits>>

\* The message of a close may be missing like that of an opening.
Announces(t) == wire' \in {wire, wire \cup {ClosedMsg(t)}}

\* handle_close_position of a command of this dock.
Closes(t) ==
    /\ t \in closeCmd
    /\ closeCmd' = closeCmd \ {t}
    /\ IF pos[t] = "open"
       THEN pos' = [pos EXCEPT ![t] = "closed"] /\ Announces(t)
       ELSE UNCHANGED <<pos, wire>>
    /\ UNCHANGED <<ordSide, unheard, calls, dock>>

\* The command is lost, or the engine has no price to close at.
Refuses(t) ==
    /\ t \in closeCmd
    /\ closeCmd' = closeCmd \ {t}
    /\ odd' = odd \cup {"refused"}
    /\ UNCHANGED <<ordSide, pos, unheard, wire, calls, posFetch, ordFetch, sock,
                   posView, ordView, batch, drops, visits>>

\* Stop loss, take profit, stop-out, a netting fill, another tab, the back office.
ClosesElsewhere(t) ==
    /\ pos[t] = "open"
    /\ pos' = [pos EXCEPT ![t] = "closed"]
    /\ Announces(t)
    /\ UNCHANGED <<ordSide, unheard, closeCmd, calls, dock>>

-----------------------------------------------------------------------------
(* Fetches *)

Append1(q, x) == IF q # <<>> /\ q[Len(q)] = x THEN q ELSE Append(q, x)
Without(q, i) == SubSeq(q, 1, i - 1) \o SubSeq(q, i + 1, Len(q))
InTurn(i) == IF i > 1 THEN odd \cup {"reordered"} ELSE odd

\* GET positions?status=open, from Redis; each position is read at a moment of
\* its own, here all at one.  One whose HGETALL fails is left out.
ServePositions ==
    /\ posAsked /\ Len(posAnswers) < MaxAnswers
    /\ \E more \in BOOLEAN : posAsked' = more
    /\ \E left \in SUBSET Open :
          /\ posAnswers' = Append1(posAnswers, Open \ left)
          /\ odd' = IF left = {} THEN odd ELSE odd \cup {"failed"}
    /\ unheard' = {}
    /\ UNCHANGED <<ordSide, pos, closeCmd, wire, calls, ordFetch, sock, batch, drops,
                   visits, posView, ordView>>

\* filterRestAfterClientClose: what it keeps, and the tombstones it keeps.
FilterRest(answer) == answer \ tombs
TombsLeft(answer) == tombs \cap answer

\* mergePositions: REST wins, rows that the socket appended survive in their grace.
\* Mutant: the answer replaces the list.
MergeReplaces(kept) == kept
Merge(kept) == kept \cup (rows \cap grace)

\* fetchOpenPositions
PositionsAnswered(i) ==
    /\ i \in 1..Len(posAnswers)
    /\ LET kept == FilterRest(posAnswers[i])
       IN  rows' = Merge(kept) /\ grace' = grace \ kept
    /\ tombs' = TombsLeft(posAnswers[i])
    /\ posAnswers' = Without(posAnswers, i)
    /\ odd' = InTurn(i)
    /\ UNCHANGED <<server, calls, posAsked, ordFetch, sock, ordView, batch, drops,
                   visits>>

\* The request or its answer is lost: fetchOpenPositions leaves the rows, and
\* nothing asks again.
PositionsFail(i) ==
    /\ i \in 1..Len(posAnswers)
    /\ posAnswers' = Without(posAnswers, i)
    /\ odd' = odd \cup {"failed"}
    /\ UNCHANGED <<server, calls, posAsked, ordFetch, sock, posView, ordView, batch,
                   drops, visits>>

\* fetchOrders asks for the two lists in parallel, and list_orders reads each
\* at a moment of its own.  One such pair at a time is being served; the
\* limit of 100 rows is not reached.
Serving(half) ==
    IF half.read = Working /\ half.checked
    THEN ordAnswers' = Append1(ordAnswers, half.rows) /\ ordHalf' = NoHalf
    ELSE ordHalf' = half /\ UNCHANGED ordAnswers

\* The SELECT.
ServeOrders(s) ==
    /\ s \notin ordHalf.read /\ Len(ordAnswers) < MaxAnswers
    /\ IF ordHalf.read = {}
       THEN ordAsked /\ \E more \in BOOLEAN : ordAsked' = more
       ELSE UNCHANGED ordAsked
    /\ Serving([ordHalf EXCEPT !.read = @ \cup {s}, !.rows = [@ EXCEPT ![s] = With(s)]])
    /\ UNCHANGED <<server, calls, posFetch, rest, posView, ordView>>

\* The pending rows that Redis says are over are left out of the answer, and
\* ended in Postgres without a word to anybody.  Redis says so after a fill,
\* and after those rejections that store a record; it writes CANCELED, which
\* this route does not know.
CheckOrders ==
    /\ "pending" \in ordHalf.read /\ ~ordHalf.checked
    /\ \E seen \in SUBSET {t \in ordHalf.rows["pending"] : outcome[t] \in {"filled", "rejected"}} :
       \E unset \in SUBSET seen :
          /\ order' = [t \in Orders |-> IF t \in seen \ unset /\ order[t] = "pending"
                                        THEN outcome[t] ELSE order[t]]
          /\ odd' = IF unset = {} THEN odd ELSE odd \cup {"failed"}
          /\ Serving([read |-> ordHalf.read, checked |-> TRUE,
                      rows |-> [ordHalf.rows EXCEPT !["pending"] = @ \ seen]])
    /\ UNCHANGED <<outcome, report, cancelCmd, posSide, wire, calls, posFetch, ordAsked,
                   sock, batch, drops, visits, posView, ordView>>

\* Mutant: tombstones are not consulted.
ListOfAll(a, buried) == [t \in Orders |-> IF t \in a.cancelling THEN "cancelling"
                                          ELSE IF t \in a.pending THEN "pending" ELSE "none"]
ListOf(a, buried) == [t \in Orders |-> IF t \in buried THEN "none"
                                       ELSE IF t \in a.cancelling THEN "cancelling"
                                       ELSE IF t \in a.pending THEN "pending" ELSE "none"]

\* fetchOrders: tombstones older than ten minutes go first.
OrdersAnswered(i) ==
    /\ i \in 1..Len(ordAnswers)
    /\ \E old \in SUBSET orderTombs : orderTombs' = orderTombs \ old
    /\ list' = ListOf(ordAnswers[i], orderTombs')
    /\ ordAnswers' = Without(ordAnswers, i)
    /\ odd' = InTurn(i)
    /\ UNCHANGED <<server, calls, posFetch, ordAsked, ordHalf, sock, posView, batch,
                   drops, visits>>

\* A request or an answer of the pair is lost: fetchOrders leaves the list, and
\* nothing asks again.
OrdersFail(i) ==
    /\ i \in 1..Len(ordAnswers)
    /\ ordAnswers' = Without(ordAnswers, i)
    /\ odd' = odd \cup {"failed"}
    /\ UNCHANGED <<server, calls, posFetch, ordAsked, ordHalf, sock, posView, ordView,
                   batch, drops, visits>>

\* The user opens the Positions or the Orders tab.
VisitPositions ==
    /\ visits > 0 /\ visits' = visits - 1
    /\ posAsked' = TRUE
    /\ UNCHANGED <<server, calls, posAnswers, ordFetch, sock, posView, ordView, batch,
                   drops, odd>>

VisitOrders ==
    /\ visits > 0 /\ visits' = visits - 1
    /\ ordAsked' = TRUE
    /\ UNCHANGED <<server, calls, posFetch, ordHalf, ordAnswers, sock, posView, ordView,
                   batch, drops, odd>>

-----------------------------------------------------------------------------
(* The socket *)

\* position_update
Opening(m) == GatewayStatus(m) = "OPEN"
Appends(m) == Opening(m) /\ m.t \notin rows \cup tombs

\* Mutant: a row that the socket appends is not fetched.
NeverRefetches(m) == FALSE
Refetches(m) == Appends(m)

PositionUpdate(m) ==
    /\ sock = "up" /\ m \in wire /\ m.of = "position"
    /\ wire' = wire \ {m}
    /\ IF Opening(m)
       THEN /\ rows' = IF Appends(m) THEN rows \cup {m.t} ELSE rows
            /\ grace' = IF Appends(m) THEN grace \cup {m.t} ELSE grace
            /\ UNCHANGED tombs
       ELSE rows' = rows \ {m.t} /\ grace' = grace \ {m.t} /\ tombs' = tombs \cup {m.t}
    /\ posAsked' = (posAsked \/ Refetches(m)) /\ ordAsked' = (ordAsked \/ Refetches(m))
    /\ UNCHANGED <<ordSide, posSide, calls, posAnswers, ordHalf, ordAnswers, ordView, rest>>

\* An older message of the same order is still to come.
Overtakes(m) ==
    /\ m.of = "order"
    /\ \/ \E n \in wire : n.of = "order" /\ n.t = m.t /\ Rank(n) < Rank(m)
       \/ m.st # "pending" /\ placing[m.t] = "committed"

\* The order ended, and no message will say so.
Silent(t) == /\ order[t] \in Ended
             /\ report[t] = "untold" \/ (report[t] = "due" /\ order[t] # "filled")
Late(m) == m.of = "order" /\ m.st \in Working /\ Silent(m.t)

Shows(m) == IF m.st \notin Ended /\ (list[m.t] # "none" \/ m.st = "pending") THEN m.st
            ELSE "none"

\* Mutant: an order's end that the list does not have is ignored.
ReconcilesListed(m) == m.st \in Ended /\ list[m.t] # "none"
Reconciles(m) == m.st \in Ended

\* order_update
OrderUpdate(m) ==
    /\ sock = "up" /\ m \in wire /\ m.of = "order"
    /\ wire' = wire \ {m}
    /\ list' = [list EXCEPT ![m.t] = Shows(m)]
    /\ orderTombs' = IF m.st \in Ended /\ list[m.t] # "none" THEN orderTombs \cup {m.t}
                     ELSE orderTombs
    /\ ordAsked' = (ordAsked \/ Reconciles(m))
    /\ posAsked' = (posAsked \/ (Reconciles(m) /\ m.st = "filled"))
    /\ odd' = odd \cup {d \in {"overtaken"} : Overtakes(m)} \cup {d \in {"late"} : Late(m)}
    /\ UNCHANGED <<ordSide, posSide, calls, posAnswers, ordHalf, ordAnswers, sock,
                   posView, batch, drops, visits>>

\* onclose, after a lost connection or 30 s of silence.  A socket whose token
\* was refused stays open, and the gateway's pongs keep it fresh.
Drop ==
    /\ sock \in {"up", "refused"} /\ drops > 0
    /\ drops' = drops - 1
    /\ sock' = "down"
    /\ UNCHANGED <<server, calls, posFetch, ordFetch, posView, ordView, batch, visits,
                   odd>>

\* A message is published while the gateway has no connection of the user, or
\* has none to Redis, or the PUBLISH fails.
Lose(m) ==
    /\ m \in wire
    /\ wire' = wire \ {m}
    /\ odd' = odd \cup {d \in {"overtaken"} : Overtakes(m)} \cup {d \in {"untold"} : sock = "up"}
    /\ UNCHANGED <<ordSide, posSide, calls, posFetch, ordFetch, sock, posView, ordView,
                   batch, drops, visits>>

\* scheduleReconnect ... auth_success: both lists are fetched again.
\* Mutant: they are not.
AuthSuccessNoFetch ==
    /\ sock = "down" /\ sock' = "up"
    /\ UNCHANGED <<server, calls, posFetch, ordFetch, posView, ordView, batch, drops,
                   visits, odd>>

AuthSuccess ==
    /\ sock = "down" /\ sock' = "up"
    /\ posAsked' = TRUE /\ ordAsked' = TRUE
    /\ UNCHANGED <<server, calls, posAnswers, ordHalf, ordAnswers, posView, ordView,
                   batch, drops, visits, odd>>

\* auth_error shows a toast.
AuthRefused ==
    /\ sock = "down" /\ sock' = "refused"
    /\ UNCHANGED <<server, calls, posFetch, ordFetch, posView, ordView, batch, drops,
                   visits, odd>>

\* connect without a token does not come back, nor does it after 30 attempts.
GivesUp ==
    /\ sock = "down" /\ sock' = "off"
    /\ UNCHANGED <<server, calls, posFetch, ordFetch, posView, ordView, batch, drops,
                   visits, odd>>

-----------------------------------------------------------------------------
(* Cancelling an order *)

CancelClick(t) ==
    /\ list[t] = "pending" /\ cancelling[t] = "idle"
    /\ cancelling' = [cancelling EXCEPT ![t] = "sent"]
    /\ UNCHANGED <<server, placing, closing, dock>>

\* cancel_order: only a pending row; then the command and the message.
CancelServed(t) ==
    /\ cancelling[t] = "sent"
    /\ IF order[t] = "pending"
       THEN /\ order' = [order EXCEPT ![t] = "cancelling"]
            /\ cancelCmd' = cancelCmd \cup {t}
            /\ wire' = wire \cup {OrderMsg(t, "cancelling")}
            /\ cancelling' = [cancelling EXCEPT ![t] = "ok"]
       ELSE /\ cancelling' = [cancelling EXCEPT ![t] = "error"]
            /\ UNCHANGED <<order, cancelCmd, wire>>
    /\ UNCHANGED <<outcome, report, posSide, placing, closing, dock>>

CancelAnswered(t) ==
    /\ cancelling[t] \in {"ok", "error"}
    /\ cancelling' = [cancelling EXCEPT ![t] = "idle"]
    /\ IF cancelling[t] = "ok"
       THEN /\ list' = [list EXCEPT ![t] = IF @ = "none" THEN @ ELSE "cancelling"]
            /\ ordAsked' = TRUE
       ELSE UNCHANGED <<list, ordAsked>>
    /\ UNCHANGED <<server, placing, closing, posFetch, ordHalf, ordAnswers, rest,
                   posView, orderTombs>>

-----------------------------------------------------------------------------
(* Closing positions *)

\* The row goes at once, a tombstone keeps stale answers from bringing it back.
Bury(t) ==
    /\ rows' = rows \ {t}
    /\ tombs' = tombs \cup {t}
    /\ closing' = [closing EXCEPT ![t] = "sent"]

CloseClick(t) ==
    /\ t \in rows /\ closing[t] = "idle" /\ batch = {}
    /\ Bury(t)
    /\ UNCHANGED <<server, placing, cancelling, posFetch, ordFetch, rest, grace,
                   ordView>>

\* Close All: the rows of the moment, one request after another.
CloseAllClick ==
    /\ rows # {} /\ batch = {}
    /\ batch' = rows
    /\ UNCHANGED <<server, calls, posFetch, ordFetch, sock, posView, ordView, drops,
                   visits, odd>>

CloseAllNext(t) ==
    /\ t \in batch /\ \A u \in batch : closing[u] = "idle"
    /\ Bury(t)
    /\ UNCHANGED <<server, placing, cancelling, posFetch, ordFetch, rest, grace,
                   ordView>>

\* close_position: the command is sent when Redis says open.
CloseServed(t) ==
    /\ closing[t] = "sent"
    /\ IF pos[t] = "open"
       THEN closeCmd' = closeCmd \cup {t} /\ closing' = [closing EXCEPT ![t] = "ok"]
       ELSE closing' = [closing EXCEPT ![t] = "error"] /\ UNCHANGED closeCmd
    /\ UNCHANGED <<ordSide, pos, unheard, wire, placing, cancelling, dock>>

\* The answer; one that is lost is an error.  An error takes the tombstone
\* back.  A batch fetches after each error and at its end.
CloseAnswered(t) ==
    /\ closing[t] \in {"ok", "error"}
    /\ closing' = [closing EXCEPT ![t] = "idle"]
    /\ batch' = batch \ {t}
    /\ \E ok \in {closing[t] = "ok", FALSE} :
          /\ tombs' = IF ok THEN tombs ELSE tombs \ {t}
          /\ posAsked' = (posAsked \/ ~ok \/ batch' = {})
    /\ UNCHANGED <<server, placing, cancelling, posAnswers, ordFetch, sock, rows, grace,
                   ordView, drops, visits, odd>>

\* Five seconds, 25 seconds.
GraceEnds(t) ==
    /\ t \in grace /\ grace' = grace \ {t}
    /\ UNCHANGED <<server, calls, posFetch, ordFetch, rest, rows, tombs, ordView>>

TombExpires(t) ==
    /\ t \in tombs /\ tombs' = tombs \ {t}
    /\ UNCHANGED <<server, calls, posFetch, ordFetch, rest, rows, grace, ordView>>

-----------------------------------------------------------------------------
Order(t) ==
    \/ Place(t) \/ PlaceCommits(t) \/ PlacePublishes(t) \/ PlaceAnswered(t) \/ PlaceFails(t)
    \/ Fills(t) \/ Rejects(t) \/ Cancels(t) \/ Settles(t) \/ Untold(t)
    \/ CancelClick(t) \/ CancelServed(t) \/ CancelAnswered(t)

Position(t) ==
    \/ Opens(t) \/ Reopens(t) \/ Closes(t) \/ Refuses(t) \/ ClosesElsewhere(t)
    \/ CloseClick(t) \/ CloseAllNext(t) \/ CloseServed(t) \/ CloseAnswered(t)
    \/ GraceEnds(t) \/ TombExpires(t)

Next ==
    \/ \E t \in Orders : Order(t)
    \/ \E t \in Positions : Position(t)
    \/ CloseAllClick
    \/ ServePositions \/ CheckOrders \/ \E s \in Working : ServeOrders(s)
    \/ \E i \in 1..MaxAnswers : \/ PositionsAnswered(i) \/ PositionsFail(i)
                               \/ OrdersAnswered(i) \/ OrdersFail(i)
    \/ VisitPositions \/ VisitOrders
    \/ \E m \in wire : PositionUpdate(m) \/ OrderUpdate(m) \/ Lose(m)
    \/ Drop \/ AuthSuccess \/ AuthRefused \/ GivesUp

\* The listener gets to the engine's event or it is lost; requests are served;
\* answers and messages arrive or are lost; the socket gets an answer to its
\* authentication or gives up.
Fairness ==
    /\ \A t \in Orders : WF_vars(Settles(t) \/ Untold(t))
    /\ WF_vars(AuthSuccess \/ AuthRefused \/ GivesUp)
    /\ WF_vars(\E m \in wire : m.of = "order" /\ (OrderUpdate(m) \/ Lose(m)))
    /\ WF_vars(OrdersAnswered(1) \/ OrdersFail(1))
    /\ WF_vars(CheckOrders \/ \E s \in Working : ServeOrders(s))

Spec == Init /\ [][Next]_vars /\ Fairness

-----------------------------------------------------------------------------
(* Properties *)

Messages == {OrderMsg(t, s) : t \in Orders, s \in Working \cup Ended}
              \cup {OpenedMsg(t) : t \in Positions} \cup {ClosedMsg(t) : t \in Positions}

\* The state has its types.
TypeOK ==
    /\ order \in [Orders -> {"none"} \cup Working \cup Ended]
    /\ outcome \in [Orders -> {"none"} \cup Ended]
    /\ report \in [Orders -> {"none", "due", "told", "untold"}]
    /\ pos \in [Positions -> {"none", "open", "closed"}] /\ unheard \subseteq Positions
    /\ cancelCmd \subseteq Orders /\ closeCmd \subseteq Positions /\ wire \subseteq Messages
    /\ placing \in [Orders -> {"idle", "sent", "committed", "answered", "done"}]
    /\ cancelling \in [Orders -> {"idle", "sent", "ok", "error"}]
    /\ closing \in [Positions -> {"idle", "sent", "ok", "error"}]
    /\ posAsked \in BOOLEAN /\ posAnswers \in Seq(SUBSET Positions)
    /\ ordAsked \in BOOLEAN
    /\ ordHalf \in [read : SUBSET Working, checked : BOOLEAN, rows : [Working -> SUBSET Orders]]
    /\ ordAnswers \in Seq([Working -> SUBSET Orders])
    /\ sock \in {"down", "up", "refused", "off"}
    /\ rows \subseteq Positions /\ grace \subseteq Positions /\ tombs \subseteq Positions
    /\ list \in [Orders -> {"none"} \cup Working]
    /\ orderTombs \subseteq Orders /\ batch \subseteq Positions
    /\ drops \in 0..MaxDrops /\ visits \in 0..MaxVisits
    /\ odd \subseteq Disturbances

\* Nothing is on its way to the dock and nothing in the dock is waiting.
Quiet ==
    /\ sock = "up" /\ wire = {} /\ cancelCmd = {} /\ closeCmd = {} /\ batch = {}
    /\ \A t \in Orders : /\ placing[t] \in {"idle", "done"} /\ cancelling[t] = "idle"
                         /\ report[t] # "due"
    /\ \A t \in Positions : closing[t] = "idle"
    /\ ~posAsked /\ posAnswers = <<>>
    /\ ~ordAsked /\ ordHalf = NoHalf /\ ordAnswers = <<>>

\* Once nothing is on its way, every open position has a row, unless nothing
\* announced it and nothing was fetched since: whatever order events, answers,
\* timers and reconnections came in (BottomDock.tsx:62: rows the socket
\* appended are kept from an older answer; REST wins otherwise).  Not claimed
\* after answers that overtook each other, a fetch that failed, a message lost
\* on an open connection, a close the engine did not carry out, a reopening.
OpenIsShown ==
    Quiet /\ odd \cap {"reordered", "failed", "untold", "refused", "reopened"} = {} =>
        Open \subseteq rows \cup unheard

\* A row the socket appended is not taken away within its grace by an answer
\* that was served before the position opened, nor by anything but the user's
\* close (docs/positions-tab-realtime-sync-diagnostic.md, hypothesis 1).
AppendedStays ==
    [][\A t \in rows \cap grace : t \in rows' \/ closing'[t] = "sent"]_vars

\* Once nothing is on its way, the order list is the server's: no order that
\* ended is still shown, none that works is missing, also after list_orders
\* ended a row by itself.  Not claimed after a fetch that failed, answers or
\* messages that overtook each other, a lost answer to a placed order, an
\* event or message lost on an open connection, or a message that came later
\* than an end which no message tells.
ListAgrees ==
    Quiet /\ odd \cap {"reordered", "overtaken", "lost", "failed", "untold", "late"} = {} =>
        \A t \in Orders : list[t] = (IF order[t] \in Working THEN order[t] ELSE "none")

\* An order whose end took it off the list does not come back while its
\* tombstone lasts, however old the answer that still lists it
\* (terminalOrderTombstonesRef).
EndedStaysGone == odd \cap {"overtaken"} = {} => orderTombs \cap Listed = {}

\* The types, and a list in which nothing that ended reappears.
ListSound == TypeOK /\ EndedStaysGone

\* An order that ended leaves the list, even when the socket was down when
\* its event was published: unless the dock is without a socket for good, or a
\* fetch, a message or their order went wrong.
OrdersSettle ==
    \A t \in Orders : (order[t] \in Ended /\ list[t] # "none") ~>
        \/ list[t] = "none" \/ sock \in {"refused", "off"}
        \/ odd \cap {"reordered", "overtaken", "failed", "untold", "late"} # {}
=============================================================================
