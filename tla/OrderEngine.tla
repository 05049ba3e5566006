------------------------------ MODULE OrderEngine ------------------------------
(***************************************************************************)
(* The life of an order inside apps/order-engine.                          *)
(*                                                                         *)
(* Three tokio tasks of main.rs work on the same orders: the place task    *)
(* (JetStream consumer, handle_place_order), the tick task (handle_tick)   *)
(* and the cancel task (handle_cancel).  Each is sequential and suspends   *)
(* at every Redis or NATS await, which is where an action ends here.  They *)
(* share Redis (order:{id}, orders:pending:{symbol}, idempotency:{key})    *)
(* and an in-memory OrderCache that a crash wipes.                         *)
(*                                                                         *)
(* All orders belong to one user of a hedging account on one symbol, so a  *)
(* fill always creates a position and that position is named by its order. *)
(* Positions do not close here.                                            *)
(***************************************************************************)
EXTENDS Naturals, FiniteSets

CONSTANTS
  Orders,       \* order ids
  None,         \* no order
  Market,       \* the orders of type MARKET; the others are LIMIT orders
  Guarded,      \* market orders that carry requested_bid/ask and max_slippage_bps
  Bracketed,    \* orders with both a stop loss and a take profit
  MaxDeliver,   \* deliveries of one command (max_deliver: 5)
  MaxCrashes,   \* bound of the model on engine crashes
  Faults,       \* whether a Redis call may return an error
  LongOutage    \* whether the engine may stay down longer than the Redis keys live

ASSUME OrderKinds == /\ Guarded \subseteq Market
                     /\ Market \subseteq Orders
                     /\ Bracketed \subseteq Orders
                     /\ None \notin Orders
ASSUME Bounds == MaxDeliver \in Nat \ {0} /\ MaxCrashes \in Nat
ASSUME Switches == Faults \in BOOLEAN /\ LongOutage \in BOOLEAN

VARIABLES
  order,        \* Redis order:{id}: the status field, "NONE" when the key is absent
  pending,      \* Redis orders:pending:{symbol}
  idem,         \* orders whose idempotency:{key} exists
  fills,        \* positions opened for each order
  newest,       \* the positions with the greatest opened_at (ms)
  queue,        \* JetStream: state of each order's place command
  deliveries,   \* JetStream: how often the command was delivered
  inbox,        \* copies waiting in the deliver subscription
  cancels,      \* the order's cancel command (core NATS, at most once)
  up,           \* the engine process runs
  cache,        \* OrderCache: orders held as Pending
  pc, cur,      \* per task: next step, and the order it works on
  snap,         \* ids the tick task has still to visit
  reported,     \* statuses published on evt.order.updated, per order
  synced,       \* positions published on evt.position.updated
  crashes

redis   == <<order, pending, idem, fills, newest>>
stream  == <<queue, deliveries>>
events  == <<reported, synced>>
control == <<up, crashes>>
vars == <<redis, stream, inbox, cancels, control, cache, pc, cur, snap, events>>

Fillers  == {"place", "tick"}          \* the tasks that execute fills
Tasks    == Fillers \cup {"cancel"}
Status   == {"NONE", "PENDING", "FILLED", "CANCELED", "REJECTED"}
Outcomes == {"FILLED", "CANCELED", "REJECTED"}

PlaceSteps  == {"validate", "refuse", "claim", "store", "index", "remember", "price", "ack"}
FillSteps   == {"fill", "report", "sync", "dup", "dupSync",
                "exceeded", "rejStore", "rejIndex"}
CancelSteps == {"cancel", "cancelReport"}

Init == /\ order = [o \in Orders |-> "NONE"]
        /\ pending = {} /\ idem = {} /\ newest = {}
        /\ fills = [o \in Orders |-> 0]
        /\ queue = [o \in Orders |-> "none"]
        /\ deliveries = [o \in Orders |-> 0]
        /\ inbox = [o \in Orders |-> 0]
        /\ cancels = [o \in Orders |-> "none"]
        /\ up = TRUE /\ crashes = 0
        /\ cache = {} /\ snap = {}
        /\ pc = [t \in Tasks |-> "idle"]
        /\ cur = [t \in Tasks |-> None]
        /\ reported = [o \in Orders |-> {}]
        /\ synced = {}

-------------------------------------------------------------------------------
(* Control of a task.                                                      *)

Goto(t, step) == pc' = [pc EXCEPT ![t] = step] /\ UNCHANGED cur
Rest(t)       == pc' = [pc EXCEPT ![t] = "idle"] /\ cur' = [cur EXCEPT ![t] = None]

\* A fill attempt is over: the place task acknowledges its command, the tick
\* task goes on with the next order of the snapshot.
EndFill(t) == IF t = "place" THEN Goto(t, "ack")
              ELSE pc' = [pc EXCEPT ![t] = "scan"] /\ cur' = [cur EXCEPT ![t] = None]

-------------------------------------------------------------------------------
(* The ORDERS stream: a work queue whose consumer redelivers a command     *)
(* after ack_wait as long as it is not acknowledged, at most MaxDeliver    *)
(* times.                                                                  *)

\* auth-service publishes the command of a new order.
Submit(o) == /\ queue[o] = "none"
             /\ queue' = [queue EXCEPT ![o] = "stored"]
             /\ UNCHANGED <<redis, deliveries, inbox, cancels, control, cache, pc, cur, snap, events>>

Deliver(o) == /\ up
              /\ queue[o] = "stored"
              /\ deliveries[o] < MaxDeliver
              /\ deliveries' = [deliveries EXCEPT ![o] = @ + 1]
              /\ inbox' = [inbox EXCEPT ![o] = @ + 1]
              /\ UNCHANGED <<redis, queue, cancels, control, cache, pc, cur, snap, events>>

-------------------------------------------------------------------------------
(* The place task: handle_place_order.                                     *)

TakeCommand(o) ==
  /\ up
  /\ pc["place"] = "idle"
  /\ inbox[o] > 0
  /\ inbox' = [inbox EXCEPT ![o] = @ - 1]
  /\ cur' = [cur EXCEPT !["place"] = o]
  /\ pc' = [pc EXCEPT !["place"] = IF o \in idem THEN "ack" ELSE "validate"]
  /\ UNCHANGED <<redis, stream, cancels, control, cache, snap, events>>

\* Symbol status, sizes, prices and the balance of the moment decide.
Validate == /\ pc["place"] = "validate"
            /\ \E step \in {"claim", "refuse"} : Goto("place", step)
            /\ UNCHANGED <<redis, stream, inbox, cancels, control, cache, snap, events>>

\* Mutant: a refused order is not published.
RefuseSilently == /\ pc["place"] = "refuse"
                  /\ Goto("place", "ack")
                  /\ UNCHANGED <<redis, stream, inbox, cancels, control, cache, snap, events>>

\* A refused order is published as REJECTED; nothing is stored.
Refuse == /\ pc["place"] = "refuse"
          /\ reported' = [reported EXCEPT ![cur["place"]] = @ \cup {"REJECTED"}]
          /\ Goto("place", "ack")
          /\ UNCHANGED <<redis, stream, inbox, cancels, control, cache, snap, synced>>

Claim == /\ pc["place"] = "claim"
         /\ idem' = idem \cup {cur["place"]}
         /\ Goto("place", "store")
         /\ UNCHANGED <<order, pending, fills, newest, stream, inbox, cancels, control,
                        cache, snap, events>>

\* An unconditional SET of the whole order.
Store == /\ pc["place"] = "store"
         /\ order' = [order EXCEPT ![cur["place"]] = "PENDING"]
         /\ Goto("place", "index")
         /\ UNCHANGED <<pending, idem, fills, newest, stream, inbox, cancels, control,
                        cache, snap, events>>

Index == /\ pc["place"] = "index"
         /\ pending' = pending \cup {cur["place"]}
         /\ Goto("place", "remember")
         /\ UNCHANGED <<order, idem, fills, newest, stream, inbox, cancels, control,
                        cache, snap, events>>

\* add_pending_order, then event.order.accepted; a limit order is done.
Remember == /\ pc["place"] = "remember"
            /\ cache' = cache \cup {cur["place"]}
            /\ Goto("place", IF cur["place"] \in Market THEN "price" ELSE "ack")
            /\ UNCHANGED <<redis, stream, inbox, cancels, control, snap, events>>

\* What a price that fits the order leads to: the fill script, or, for a
\* market order with a slippage limit, possibly the slippage rejection.
AtPrice(o) == {"fill"} \cup {s \in {"exceeded"} : o \in Guarded}

\* Immediate execution of a market order, if a price and a leverage are known;
\* otherwise the order waits for a tick.
Price == /\ pc["place"] = "price"
         /\ \E step \in AtPrice(cur["place"]) \cup {"ack"} : Goto("place", step)
         /\ UNCHANGED <<redis, stream, inbox, cancels, control, cache, snap, events>>

\* main.rs acknowledges after the handler, whatever it returned.
Ack == /\ pc["place"] = "ack"
       /\ queue' = [queue EXCEPT ![cur["place"]] = "acked"]
       /\ Rest("place")
       /\ UNCHANGED <<redis, deliveries, inbox, cancels, control, cache, snap, events>>

\* A Redis call of the handler fails (at "validate": the GET of the key) and the
\* handler returns Err; the caller acknowledges all the same.
PlaceFails == /\ Faults
              /\ pc["place"] \in {"validate", "claim", "store", "index"}
              /\ Goto("place", "ack")
              /\ UNCHANGED <<redis, stream, inbox, cancels, control, cache, snap, events>>

-------------------------------------------------------------------------------
(* Executing a fill, by the place task or the tick task.                   *)

\* Mutant: the script does not check the status.
ScriptFillsAnything(o) ==
  /\ order' = [order EXCEPT ![o] = "FILLED"]
  /\ pending' = pending \ {o}
  /\ fills' = [fills EXCEPT ![o] = @ + 1]
  /\ newest' \in {{o}, newest \cup {o}}
  /\ UNCHANGED idem

\* What atomic_fill_order.lua writes for a PENDING order.  The new position's
\* opened_at is the current millisecond, which an earlier fill may share.
ScriptFills(o) ==
  /\ order[o] = "PENDING"
  /\ order' = [order EXCEPT ![o] = "FILLED"]
  /\ pending' = pending \ {o}
  /\ fills' = [fills EXCEPT ![o] = @ + 1]
  /\ newest' \in {{o}, newest \cup {o}}
  /\ UNCHANGED idem

FillSucceeds(t) == /\ pc[t] = "fill"
                   /\ cur[t] \in Bracketed
                   /\ ScriptFills(cur[t])
                   /\ Goto(t, "report")
                   /\ UNCHANGED <<stream, inbox, cancels, control, cache, snap, events>>

\* An absent stop loss or take profit reaches the script as cjson.null, which is
\* true: the last ZADDs raise an error when every other write has been made, and
\* the caller sees a failed script.  A lost reply has the same effect.
FillAborts(t) == /\ pc[t] = "fill"
                 /\ cur[t] \notin Bracketed \/ Faults
                 /\ ScriptFills(cur[t])
                 /\ EndFill(t)
                 /\ UNCHANGED <<stream, inbox, cancels, control, cache, snap, events>>

\* Mutant: order_not_pending is an error like any other.
FillRefusedAlways(t) ==
  /\ pc[t] = "fill"
  /\ order[cur[t]] # "PENDING"
  /\ EndFill(t)
  /\ UNCHANGED <<redis, stream, inbox, cancels, control, cache, snap, events>>

\* Mutant: the error field of the script's answer is not looked at.
FillRefusedUnseen(t) ==
  /\ pc[t] = "fill"
  /\ order[cur[t]] # "PENDING"
  /\ Goto(t, "report")
  /\ UNCHANGED <<redis, stream, inbox, cancels, control, cache, snap, events>>

\* order_not_pending: a FILLED order is synchronised again, any other is left.
FillRefused(t) == /\ pc[t] = "fill"
                  /\ order[cur[t]] # "PENDING"
                  /\ IF order[cur[t]] = "FILLED" THEN Goto(t, "dup") ELSE EndFill(t)
                  /\ UNCHANGED <<redis, stream, inbox, cancels, control, cache, snap, events>>

FillFails(t) == /\ Faults
                /\ pc[t] = "fill"
                /\ EndFill(t)
                /\ UNCHANGED <<redis, stream, inbox, cancels, control, cache, snap, events>>

\* event.order.filled and evt.order.updated(FILLED).
ReportFill(t) == /\ pc[t] = "report"
                 /\ reported' = [reported EXCEPT ![cur[t]] = @ \cup {"FILLED"}]
                 /\ Goto(t, "sync")
                 /\ UNCHANGED <<redis, stream, inbox, cancels, control, cache, snap, synced>>

\* The position events, for which the hash is read back (a failed read is
\* ignored), then update_order and remove_pending_order.
SyncPosition(t) == /\ pc[t] = "sync"
                   /\ \/ synced' = synced \cup {cur[t]}
                      \/ Faults /\ UNCHANGED synced
                   /\ cache' = cache \ {cur[t]}
                   /\ EndFill(t)
                   /\ UNCHANGED <<redis, stream, inbox, cancels, control, snap, reported>>

\* Mutant: the duplicate's order is not published.
DupReportNothing(t) == /\ pc[t] = "dup"
                       /\ order[cur[t]] = "FILLED"
                       /\ Goto(t, "dupSync")
                       /\ UNCHANGED <<redis, stream, inbox, cancels, control, cache, snap, events>>

\* sync_duplicate_fill_to_db reads the order back and reports it if it is FILLED;
\* otherwise, or when the read fails, the order is just forgotten.
DupReport(t) == /\ pc[t] = "dup"
                /\ order[cur[t]] = "FILLED"
                /\ reported' = [reported EXCEPT ![cur[t]] = @ \cup {"FILLED"}]
                /\ Goto(t, "dupSync")
                /\ UNCHANGED <<redis, stream, inbox, cancels, control, cache, snap, synced>>

DupForget(t) == /\ pc[t] = "dup"
                /\ order[cur[t]] # "FILLED" \/ Faults
                /\ cache' = cache \ {cur[t]}
                /\ EndFill(t)
                /\ UNCHANGED <<redis, stream, inbox, cancels, control, snap, events>>

\* The position published is the newest open one of the user and symbol.
DupSync(t) == /\ pc[t] = "dupSync"
              /\ \/ \E p \in newest : synced' = synced \cup {p}
                 \/ Faults /\ UNCHANGED synced
              /\ cache' = cache \ {cur[t]}
              /\ EndFill(t)
              /\ UNCHANGED <<redis, stream, inbox, cancels, control, snap, reported>>

\* reject_market_order_slippage_exceeded: publish, SET, forget, ZREM.
SlipReport(t) == /\ pc[t] = "exceeded"
                 /\ reported' = [reported EXCEPT ![cur[t]] = @ \cup {"REJECTED"}]
                 /\ Goto(t, "rejStore")
                 /\ UNCHANGED <<redis, stream, inbox, cancels, control, cache, snap, synced>>

SlipStore(t) == /\ pc[t] = "rejStore"
                /\ order' = [order EXCEPT ![cur[t]] = "REJECTED"]
                /\ cache' = cache \ {cur[t]}
                /\ Goto(t, "rejIndex")
                /\ UNCHANGED <<pending, idem, fills, newest, stream, inbox, cancels, control,
                               snap, events>>

SlipIndex(t) == /\ pc[t] = "rejIndex"
                /\ pending' = pending \ {cur[t]}
                /\ EndFill(t)
                /\ UNCHANGED <<order, idem, fills, newest, stream, inbox, cancels, control,
                               cache, snap, events>>

\* The SET or the ZREM fails, after the rejection was published.
SlipFails(t) == /\ Faults
                /\ pc[t] \in {"rejStore", "rejIndex"}
                /\ EndFill(t)
                /\ UNCHANGED <<redis, stream, inbox, cancels, control, cache, snap, events>>

FillStep(t) == \/ FillSucceeds(t) \/ FillAborts(t) \/ FillRefused(t) \/ FillFails(t)
               \/ ReportFill(t) \/ SyncPosition(t) \/ DupReport(t) \/ DupForget(t) \/ DupSync(t)
               \/ SlipReport(t) \/ SlipStore(t) \/ SlipIndex(t) \/ SlipFails(t)

-------------------------------------------------------------------------------
(* The tick task: process_tick.                                            *)

\* A tick of the symbol; the ids are copied once, the orders looked up later.
\* (A tick that finds no id has no effect on orders.)
TickArrives == /\ up
               /\ pc["tick"] = "idle"
               /\ cache # {}
               /\ snap' = cache
               /\ Goto("tick", "scan")
               /\ UNCHANGED <<redis, stream, inbox, cancels, control, cache, events>>

\* The order is still cached as Pending, and group, price and leverage fit.
TickTakes(o) == /\ pc["tick"] = "scan"
                /\ o \in snap \cap cache
                /\ snap' = snap \ {o}
                /\ cur' = [cur EXCEPT !["tick"] = o]
                /\ \E step \in AtPrice(o) : pc' = [pc EXCEPT !["tick"] = step]
                /\ UNCHANGED <<redis, stream, inbox, cancels, control, cache, events>>

\* The order is gone from the cache, or the tick does not fit it.
TickSkips(o) == /\ pc["tick"] = "scan"
                /\ o \in snap
                /\ snap' = snap \ {o}
                /\ UNCHANGED <<redis, stream, inbox, cancels, control, cache, pc, cur, events>>

TickEnds == /\ pc["tick"] = "scan"
            /\ snap = {}
            /\ Rest("tick")
            /\ UNCHANGED <<redis, stream, inbox, cancels, control, cache, snap, events>>

-------------------------------------------------------------------------------
(* The cancel task: handle_cancel.                                         *)

\* auth-service publishes one cancel command; nobody keeps it for an engine
\* that is down.
SendCancel(o) == /\ queue[o] # "none"
                 /\ cancels[o] = "none"
                 /\ cancels' = [cancels EXCEPT ![o] = IF up THEN "queued" ELSE "gone"]
                 /\ UNCHANGED <<redis, stream, inbox, control, cache, pc, cur, snap, events>>

\* The cached copy is believed; without one, Redis must show a PENDING order.
TakeCancel(o) ==
  /\ up
  /\ pc["cancel"] = "idle"
  /\ cancels[o] = "queued"
  /\ cancels' = [cancels EXCEPT ![o] = "gone"]
  /\ IF o \in cache \/ order[o] = "PENDING"
     THEN pc' = [pc EXCEPT !["cancel"] = "cancel"] /\ cur' = [cur EXCEPT !["cancel"] = o]
     ELSE UNCHANGED <<pc, cur>>
  /\ UNCHANGED <<redis, stream, inbox, control, cache, snap, events>>

\* Mutant: the script does not check the status.
ScriptCancelsAnything(o) == /\ order' = [order EXCEPT ![o] = "CANCELED"]
                            /\ pending' = pending \ {o}
                            /\ UNCHANGED <<idem, fills, newest>>

\* What atomic_cancel_order.lua writes for a PENDING order.
ScriptCancels(o) == /\ order[o] = "PENDING"
                    /\ order' = [order EXCEPT ![o] = "CANCELED"]
                    /\ pending' = pending \ {o}
                    /\ UNCHANGED <<idem, fills, newest>>

Cancel == /\ pc["cancel"] = "cancel"
          /\ ScriptCancels(cur["cancel"])
          /\ Goto("cancel", "cancelReport")
          /\ UNCHANGED <<stream, inbox, cancels, control, cache, snap, events>>

CancelRefused == /\ pc["cancel"] = "cancel"
                 /\ order[cur["cancel"]] # "PENDING" \/ Faults
                 /\ Rest("cancel")
                 /\ UNCHANGED <<redis, stream, inbox, cancels, control, cache, snap, events>>

\* The script ran but its reply is lost: nothing is published.
CancelAborts == /\ Faults
                /\ pc["cancel"] = "cancel"
                /\ ScriptCancels(cur["cancel"])
                /\ Rest("cancel")
                /\ UNCHANGED <<stream, inbox, cancels, control, cache, snap, events>>

\* event.order.canceled, evt.order.updated(CANCELLED), remove_pending_order.
CancelReport == /\ pc["cancel"] = "cancelReport"
                /\ reported' = [reported EXCEPT ![cur["cancel"]] = @ \cup {"CANCELED"}]
                /\ cache' = cache \ {cur["cancel"]}
                /\ Rest("cancel")
                /\ UNCHANGED <<redis, stream, inbox, cancels, control, snap, synced>>

-------------------------------------------------------------------------------
(* Crashes, restarts and long outages.                                     *)

Crash == /\ up
         /\ crashes < MaxCrashes
         /\ up' = FALSE
         /\ crashes' = crashes + 1
         /\ cache' = {} /\ snap' = {}
         /\ pc' = [t \in Tasks |-> "idle"]
         /\ cur' = [t \in Tasks |-> None]
         /\ inbox' = [o \in Orders |-> 0]
         /\ cancels' = [o \in Orders |-> IF cancels[o] = "queued" THEN "gone" ELSE cancels[o]]
         /\ UNCHANGED <<redis, stream, events>>

\* Mutant: the cache starts empty.
ColdRestart == /\ ~up
               /\ up' = TRUE
               /\ cache' = {}
               /\ UNCHANGED <<redis, stream, inbox, cancels, crashes, pc, cur, snap, events>>

\* warm_order_cache runs before the subscriptions: indexed orders that are
\* PENDING.  An order whose GET fails is left out.
Restart == /\ ~up
           /\ up' = TRUE
           /\ LET warm == {o \in pending : order[o] = "PENDING"}
              IN  cache' \in (IF Faults THEN SUBSET warm ELSE {warm})
           /\ UNCHANGED <<redis, stream, inbox, cancels, crashes, pc, cur, snap, events>>

\* Idempotency keys live 1800 s.
KeyExpires(o) == /\ LongOutage
                 /\ ~up
                 /\ o \in idem
                 /\ idem' = idem \ {o}
                 /\ UNCHANGED <<order, pending, fills, newest, stream, inbox, cancels, control,
                                cache, pc, cur, snap, events>>

\* The stream drops messages after 3600 s.
CommandExpires(o) == /\ LongOutage
                     /\ ~up
                     /\ queue[o] = "stored"
                     /\ queue' = [queue EXCEPT ![o] = "expired"]
                     /\ UNCHANGED <<redis, deliveries, inbox, cancels, control, cache, pc, cur,
                                    snap, events>>

-------------------------------------------------------------------------------
PlaceStep  == \/ Validate \/ Refuse \/ Claim \/ Store \/ Index \/ Remember \/ Price \/ Ack
              \/ PlaceFails
TickStep   == TickArrives \/ TickEnds \/ (\E o \in Orders : TickTakes(o) \/ TickSkips(o))
CancelStep == Cancel \/ CancelRefused \/ CancelAborts \/ CancelReport
Commands(o) == \/ Submit(o) \/ Deliver(o) \/ TakeCommand(o) \/ SendCancel(o) \/ TakeCancel(o)
               \/ KeyExpires(o) \/ CommandExpires(o)

Next == \/ PlaceStep \/ TickStep \/ CancelStep
        \/ \E t \in Fillers : FillStep(t)
        \/ \E o \in Orders : Commands(o)
        \/ Crash \/ Restart

Spec == Init /\ [][Next]_vars

\* The tasks keep running, the stream keeps delivering, and an engine that went
\* down is started again.  A tick that fits a market order comes again and again.
Fairness == /\ WF_vars(PlaceStep) /\ WF_vars(CancelStep) /\ WF_vars(Restart)
            /\ WF_vars(TickArrives \/ TickEnds)
            /\ \A t \in Fillers : WF_vars(FillStep(t))
            /\ \A o \in Orders : /\ WF_vars(Deliver(o)) /\ WF_vars(TakeCommand(o))
                                  /\ WF_vars(TickTakes(o) \/ TickSkips(o))
            /\ \A o \in Market : SF_vars(TickTakes(o))

FairSpec == Spec /\ Fairness

-------------------------------------------------------------------------------
TypeOK == /\ order \in [Orders -> Status]
          /\ pending \subseteq Orders /\ idem \subseteq Orders /\ newest \subseteq Orders
          /\ fills \in [Orders -> Nat]
          /\ queue \in [Orders -> {"none", "stored", "acked", "expired"}]
          /\ deliveries \in [Orders -> 0..MaxDeliver]
          /\ inbox \in [Orders -> Nat]
          /\ cancels \in [Orders -> {"none", "queued", "gone"}]
          /\ up \in BOOLEAN /\ crashes \in Nat
          /\ cache \subseteq Orders /\ snap \subseteq Orders
          /\ pc \in [Tasks -> {"idle", "scan"} \cup PlaceSteps \cup FillSteps \cup CancelSteps]
          /\ pc["place"] \in {"idle"} \cup PlaceSteps \cup FillSteps
          /\ pc["tick"] \in {"idle", "scan"} \cup FillSteps
          /\ pc["cancel"] \in {"idle"} \cup CancelSteps
          /\ cur \in [Tasks -> Orders \cup {None}]
          /\ \A t \in Tasks : cur[t] = None <=> pc[t] \in {"idle", "scan"}
          /\ reported \in [Orders -> SUBSET Outcomes]
          /\ synced \subseteq Orders

Busy(o) == \E t \in Tasks : cur[t] = o

\* An order opens at most one position, whatever is redelivered, retried by the
\* next tick, or executed by both tasks at once (the status check of
\* atomic_fill_order.lua and the idempotency key together).
AtMostOneFill == \A o \in Orders : fills[o] <= 1

\* A cancellation that was published never stands beside an execution: the two
\* scripts decide between them, however late their callers publish.
CancelExcludesFill ==
  \A o \in Orders : "CANCELED" \in reported[o] => fills[o] = 0 /\ "FILLED" \notin reported[o]

\* Nothing is reported as filled that did not open a position, not even when the
\* idempotency keys are gone and an old command is executed again.
FillReportsAreTrue == \A o \in Orders : "FILLED" \in reported[o] => fills[o] > 0

\* The cache never misses an order the Redis index offers to ticks, except
\* while the place task is about to add it: a restart warms it from the index.
IndexedIsCached ==
  \A o \in pending : /\ up
                      /\ order[o] = "PENDING"
                      /\ ~ (pc["place"] \in {"index", "remember"} /\ cur["place"] = o)
                      => o \in cache

\* A position whose fill no task works on any more was published, so that it is in
\* the database as well (sync_duplicate_fill_to_db: "prevents Redis-only positions").
Published(o) == fills[o] > 0 => o \in synced

\* Once no task works on an order and the cache has let go of it, the status Redis
\* holds has been published: the database can learn of every outcome.  So has the
\* position of an order with both a stop loss and a take profit, although the
\* duplicate sync of another task may publish a different one; without both, two
\* fills in a row whose scripts abort publish the newest position twice.  It holds
\* of an engine that has not crashed; nothing publishes what a crash cut off.
OutcomeReported ==
  crashes = 0 =>
    \A o \in Orders : ~Busy(o) /\ o \notin cache =>
                       /\ order[o] \in Outcomes => order[o] \in reported[o]
                       /\ o \in Bracketed => Published(o)

\* Without crashes an acknowledged command left a trace: the order record, or a
\* rejection.
AckMeansSettled ==
  crashes = 0 => \A o \in Orders : queue[o] = "acked" => order[o] # "NONE" \/ "REJECTED" \in reported[o]

\* The engine implements the life cycle of OrderLifecycle.
Lifecycle == INSTANCE OrderLifecycle WITH status <- order
LifecycleSpec == Lifecycle!Spec

\* An indexed market order leaves PENDING, also across crashes.
IndexedMarketOrderEnds ==
  \A o \in Market : (o \in pending /\ order[o] = "PENDING") ~> (order[o] # "PENDING")

\* The execution of a market order is reported in the end, also when the script
\* aborted and its caller took the fill for failed, unless the engine crashes.
FillIsReported ==
  \A o \in Market : (order[o] = "FILLED") ~> ("FILLED" \in reported[o] \/ crashes > 0)

================================================================================
