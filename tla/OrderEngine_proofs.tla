-------------------------- MODULE OrderEngine_proofs --------------------------
(***************************************************************************)
(* Proofs about OrderEngine, for every set of orders, every number of      *)
(* crashes and of deliveries.                                              *)
(***************************************************************************)
EXTENDS OrderEngine, TLAPS

USE DEF redis, stream, events, control, Fillers, Tasks, Status, Outcomes,
        PlaceSteps, FillSteps, CancelSteps, Goto, Rest, EndFill

-------------------------------------------------------------------------------
(* Type correctness, task by task.                                         *)

LEMMA PlaceType == ASSUME TypeOK, PlaceStep PROVE TypeOK'
<1>1. CASE Validate
  BY <1>1, OrderKinds, Bounds DEF Validate, TypeOK
<1>2. CASE Refuse
  BY <1>2, OrderKinds, Bounds DEF Refuse, TypeOK
<1>3. CASE Claim
  BY <1>3, OrderKinds, Bounds DEF Claim, TypeOK
<1>4. CASE Store
  BY <1>4, OrderKinds, Bounds DEF Store, TypeOK
<1>5. CASE Index
  BY <1>5, OrderKinds, Bounds DEF Index, TypeOK
<1>6. CASE Remember
  BY <1>6, OrderKinds, Bounds DEF Remember, TypeOK
<1>7. CASE Price
  BY <1>7, OrderKinds, Bounds DEF Price, AtPrice, TypeOK
<1>8. CASE Ack
  BY <1>8, OrderKinds, Bounds DEF Ack, TypeOK
<1>9. CASE PlaceFails
  BY <1>9, OrderKinds, Bounds DEF PlaceFails, TypeOK
<1>. QED
  BY <1>1, <1>2, <1>3, <1>4, <1>5, <1>6, <1>7, <1>8, <1>9 DEF PlaceStep

LEMMA FillType == ASSUME TypeOK, NEW t \in Fillers, FillStep(t) PROVE TypeOK'
<1>1. CASE FillSucceeds(t)
  BY <1>1, OrderKinds, Bounds DEF FillSucceeds, ScriptFills, TypeOK
<1>2. CASE FillAborts(t)
  BY <1>2, OrderKinds, Bounds DEF FillAborts, ScriptFills, TypeOK
<1>3. CASE FillRefused(t)
  BY <1>3, OrderKinds, Bounds DEF FillRefused, TypeOK
<1>4. CASE FillFails(t)
  BY <1>4, OrderKinds, Bounds DEF FillFails, TypeOK
<1>5. CASE ReportFill(t)
  BY <1>5, OrderKinds, Bounds DEF ReportFill, TypeOK
<1>6. CASE SyncPosition(t)
  BY <1>6, OrderKinds, Bounds DEF SyncPosition, TypeOK
<1>7. CASE DupReport(t)
  BY <1>7, OrderKinds, Bounds DEF DupReport, TypeOK
<1>8. CASE DupForget(t)
  BY <1>8, OrderKinds, Bounds DEF DupForget, TypeOK
<1>9. CASE DupSync(t)
  BY <1>9, OrderKinds, Bounds DEF DupSync, TypeOK
<1>10. CASE SlipReport(t)
  BY <1>10, OrderKinds, Bounds DEF SlipReport, TypeOK
<1>11. CASE SlipStore(t)
  BY <1>11, OrderKinds, Bounds DEF SlipStore, TypeOK
<1>12. CASE SlipIndex(t)
  BY <1>12, OrderKinds, Bounds DEF SlipIndex, TypeOK
<1>13. CASE SlipFails(t)
  BY <1>13, OrderKinds, Bounds DEF SlipFails, TypeOK
<1>. QED
  BY <1>1, <1>2, <1>3, <1>4, <1>5, <1>6, <1>7, <1>8, <1>9, <1>10, <1>11, <1>12, <1>13 DEF FillStep

LEMMA TickType == ASSUME TypeOK, TickStep PROVE TypeOK'
<1>1. CASE TickArrives
  BY <1>1, OrderKinds, Bounds DEF TickArrives, TypeOK
<1>2. CASE TickEnds
  BY <1>2, OrderKinds, Bounds DEF TickEnds, TypeOK
<1>3. ASSUME NEW o \in Orders, TickTakes(o) PROVE TypeOK'
  BY <1>3, OrderKinds, Bounds DEF TickTakes, AtPrice, TypeOK
<1>4. ASSUME NEW o \in Orders, TickSkips(o) PROVE TypeOK'
  BY <1>4, OrderKinds, Bounds DEF TickSkips, TypeOK
<1>. QED
  BY <1>1, <1>2, <1>3, <1>4 DEF TickStep

LEMMA CancelType == ASSUME TypeOK, CancelStep PROVE TypeOK'
<1>1. CASE Cancel
  BY <1>1, OrderKinds, Bounds DEF Cancel, ScriptCancels, TypeOK
<1>2. CASE CancelRefused
  BY <1>2, OrderKinds, Bounds DEF CancelRefused, TypeOK
<1>3. CASE CancelAborts
  BY <1>3, OrderKinds, Bounds DEF CancelAborts, ScriptCancels, TypeOK
<1>4. CASE CancelReport
  BY <1>4, OrderKinds, Bounds DEF CancelReport, TypeOK
<1>. QED
  BY <1>1, <1>2, <1>3, <1>4 DEF CancelStep

LEMMA CommandType == ASSUME TypeOK, NEW o \in Orders, Commands(o) PROVE TypeOK'
<1>1. CASE Submit(o)
  BY <1>1, OrderKinds, Bounds DEF Submit, TypeOK
<1>2. CASE Deliver(o)
  BY <1>2, OrderKinds, Bounds DEF Deliver, TypeOK
<1>3. CASE TakeCommand(o)
  BY <1>3, OrderKinds, Bounds DEF TakeCommand, TypeOK
<1>4. CASE SendCancel(o)
  BY <1>4, OrderKinds, Bounds DEF SendCancel, TypeOK
<1>5. CASE TakeCancel(o)
  BY <1>5, OrderKinds, Bounds DEF TakeCancel, TypeOK
<1>6. CASE KeyExpires(o)
  BY <1>6, OrderKinds, Bounds DEF KeyExpires, TypeOK
<1>7. CASE CommandExpires(o)
  BY <1>7, OrderKinds, Bounds DEF CommandExpires, TypeOK
<1>. QED
  BY <1>1, <1>2, <1>3, <1>4, <1>5, <1>6, <1>7 DEF Commands

LEMMA OutageType == ASSUME TypeOK, Crash \/ Restart PROVE TypeOK'
<1>1. CASE Crash
  <2>1. up' \in BOOLEAN
    BY <1>1 DEF Crash
  <2>2. crashes' \in Nat
    BY <1>1 DEF Crash, TypeOK
  <2>. QED
    BY <1>1, <2>1, <2>2, OrderKinds DEF Crash, TypeOK
<1>2. CASE Restart
  BY <1>2, OrderKinds, Bounds DEF Restart, TypeOK
<1>. QED
  BY <1>1, <1>2

LEMMA TypeStep == TypeOK /\ [Next]_vars => TypeOK'
<1>. SUFFICES ASSUME TypeOK, [Next]_vars PROVE TypeOK'
  OBVIOUS
<1>1. CASE Next
  BY <1>1, PlaceType, FillType, TickType, CancelType, CommandType, OutageType DEF Next
<1>2. CASE UNCHANGED vars
  BY <1>2 DEF vars, TypeOK
<1>. QED
  BY <1>1, <1>2

\* Every variable keeps its type: in particular a task holds an order exactly
\* while it has a step to make for it (the local variables of the handlers).
THEOREM TypeCorrect == Spec => []TypeOK
<1>1. Init => TypeOK
  BY Bounds DEF Init, TypeOK
<1>2. TypeOK /\ [Next]_vars => TypeOK'
  BY TypeStep
<1>. QED
  BY <1>1, <1>2, PTL DEF Spec

-------------------------------------------------------------------------------
(* The inductive invariant of the two safety theorems.                     *)

\* A record implies its idempotency key, its status bounds the positions opened
\* and the outcomes published, and only stored orders are cached or indexed.
RecordInv == \A o \in Orders :
  /\ order[o] # "NONE" => o \in idem
  /\ order[o] \in {"NONE", "PENDING", "CANCELED"} => fills[o] = 0
  /\ order[o] = "FILLED" => fills[o] = 1
  /\ fills[o] <= 1
  /\ "CANCELED" \in reported[o] => fills[o] = 0 /\ order[o] \in {"CANCELED", "REJECTED"}
  /\ "FILLED" \in reported[o] => fills[o] = 1
  /\ o \in cache \cup pending => order[o] # "NONE"

\* The place task has the key to itself from the lookup to the SET of the order.
PlaceInv ==
  /\ pc["place"] \in {"validate", "claim"} => cur["place"] \notin idem
  /\ pc["place"] = "store" => cur["place"] \in idem /\ order[cur["place"]] = "NONE"

\* What a task is about to publish is true, and stays true until it does.
TaskInv ==
  /\ pc["place"] \in {"index", "remember", "price"} => order[cur["place"]] # "NONE"
  /\ \A t \in Fillers : /\ pc[t] \in FillSteps => order[cur[t]] # "NONE"
                        /\ pc[t] \in {"report", "sync", "dup", "dupSync"} => fills[cur[t]] = 1
  /\ pc["cancel"] = "cancelReport" =>
       fills[cur["cancel"]] = 0 /\ order[cur["cancel"]] \in {"CANCELED", "REJECTED"}

Safe == RecordInv /\ PlaceInv /\ TaskInv

IInv == TypeOK /\ Safe

LEMMA PlaceSafe == ASSUME IInv, LongOutage = FALSE, PlaceStep PROVE Safe'
<1>1. CASE Validate
  BY <1>1, OrderKinds DEF Validate, IInv, TypeOK, Safe, RecordInv, PlaceInv, TaskInv
<1>2. CASE Refuse
  BY <1>2, OrderKinds DEF Refuse, IInv, TypeOK, Safe, RecordInv, PlaceInv, TaskInv
<1>3. CASE Claim
  BY <1>3, OrderKinds DEF Claim, IInv, TypeOK, Safe, RecordInv, PlaceInv, TaskInv
<1>4. CASE Store
  BY <1>4, OrderKinds DEF Store, IInv, TypeOK, Safe, RecordInv, PlaceInv, TaskInv
<1>5. CASE Index
  BY <1>5, OrderKinds DEF Index, IInv, TypeOK, Safe, RecordInv, PlaceInv, TaskInv
<1>6. CASE Remember
  BY <1>6, OrderKinds DEF Remember, IInv, TypeOK, Safe, RecordInv, PlaceInv, TaskInv
<1>7. CASE Price
  BY <1>7, OrderKinds DEF Price, AtPrice, IInv, TypeOK, Safe, RecordInv, PlaceInv, TaskInv
<1>8. CASE Ack
  BY <1>8, OrderKinds DEF Ack, IInv, TypeOK, Safe, RecordInv, PlaceInv, TaskInv
<1>9. CASE PlaceFails
  BY <1>9, OrderKinds DEF PlaceFails, IInv, TypeOK, Safe, RecordInv, PlaceInv, TaskInv
<1>. QED
  BY <1>1, <1>2, <1>3, <1>4, <1>5, <1>6, <1>7, <1>8, <1>9 DEF PlaceStep

LEMMA FillSafe == ASSUME IInv, LongOutage = FALSE, NEW t \in Fillers, FillStep(t) PROVE Safe'
<1>1. CASE FillSucceeds(t)
  BY <1>1, OrderKinds DEF FillSucceeds, ScriptFills, IInv, TypeOK, Safe, RecordInv, PlaceInv,
    TaskInv
<1>2. CASE FillAborts(t)
  BY <1>2, OrderKinds DEF FillAborts, ScriptFills, IInv, TypeOK, Safe, RecordInv, PlaceInv, TaskInv
<1>3. CASE FillRefused(t)
  BY <1>3, OrderKinds DEF FillRefused, IInv, TypeOK, Safe, RecordInv, PlaceInv, TaskInv
<1>4. CASE FillFails(t)
  BY <1>4, OrderKinds DEF FillFails, IInv, TypeOK, Safe, RecordInv, PlaceInv, TaskInv
<1>5. CASE ReportFill(t)
  BY <1>5, OrderKinds DEF ReportFill, IInv, TypeOK, Safe, RecordInv, PlaceInv, TaskInv
<1>6. CASE SyncPosition(t)
  BY <1>6, OrderKinds DEF SyncPosition, IInv, TypeOK, Safe, RecordInv, PlaceInv, TaskInv
<1>7. CASE DupReport(t)
  BY <1>7, OrderKinds DEF DupReport, IInv, TypeOK, Safe, RecordInv, PlaceInv, TaskInv
<1>8. CASE DupForget(t)
  BY <1>8, OrderKinds DEF DupForget, IInv, TypeOK, Safe, RecordInv, PlaceInv, TaskInv
<1>9. CASE DupSync(t)
  BY <1>9, OrderKinds DEF DupSync, IInv, TypeOK, Safe, RecordInv, PlaceInv, TaskInv
<1>10. CASE SlipReport(t)
  BY <1>10, OrderKinds DEF SlipReport, IInv, TypeOK, Safe, RecordInv, PlaceInv, TaskInv
<1>11. CASE SlipStore(t)
  BY <1>11, OrderKinds DEF SlipStore, IInv, TypeOK, Safe, RecordInv, PlaceInv, TaskInv
<1>12. CASE SlipIndex(t)
  BY <1>12, OrderKinds DEF SlipIndex, IInv, TypeOK, Safe, RecordInv, PlaceInv, TaskInv
<1>13. CASE SlipFails(t)
  BY <1>13, OrderKinds DEF SlipFails, IInv, TypeOK, Safe, RecordInv, PlaceInv, TaskInv
<1>. QED
  BY <1>1, <1>2, <1>3, <1>4, <1>5, <1>6, <1>7, <1>8, <1>9, <1>10, <1>11, <1>12, <1>13 DEF FillStep

LEMMA TickSafe == ASSUME IInv, LongOutage = FALSE, TickStep PROVE Safe'
<1>1. CASE TickArrives
  BY <1>1, OrderKinds DEF TickArrives, IInv, TypeOK, Safe, RecordInv, PlaceInv, TaskInv
<1>2. CASE TickEnds
  BY <1>2, OrderKinds DEF TickEnds, IInv, TypeOK, Safe, RecordInv, PlaceInv, TaskInv
<1>3. ASSUME NEW o \in Orders, TickTakes(o) PROVE Safe'
  BY <1>3, OrderKinds DEF TickTakes, AtPrice, IInv, TypeOK, Safe, RecordInv, PlaceInv, TaskInv
<1>4. ASSUME NEW o \in Orders, TickSkips(o) PROVE Safe'
  BY <1>4, OrderKinds DEF TickSkips, IInv, TypeOK, Safe, RecordInv, PlaceInv, TaskInv
<1>. QED
  BY <1>1, <1>2, <1>3, <1>4 DEF TickStep

LEMMA CancelSafe == ASSUME IInv, LongOutage = FALSE, CancelStep PROVE Safe'
<1>1. CASE Cancel
  BY <1>1, OrderKinds DEF Cancel, ScriptCancels, IInv, TypeOK, Safe, RecordInv, PlaceInv, TaskInv
<1>2. CASE CancelRefused
  BY <1>2, OrderKinds DEF CancelRefused, IInv, TypeOK, Safe, RecordInv, PlaceInv, TaskInv
<1>3. CASE CancelAborts
  BY <1>3, OrderKinds DEF CancelAborts, ScriptCancels, IInv, TypeOK, Safe, RecordInv, PlaceInv,
    TaskInv
<1>4. CASE CancelReport
  BY <1>4, OrderKinds DEF CancelReport, IInv, TypeOK, Safe, RecordInv, PlaceInv, TaskInv
<1>. QED
  BY <1>1, <1>2, <1>3, <1>4 DEF CancelStep

LEMMA CommandSafe == ASSUME IInv, LongOutage = FALSE, NEW o \in Orders, Commands(o) PROVE Safe'
<1>1. CASE Submit(o)
  BY <1>1, OrderKinds DEF Submit, IInv, TypeOK, Safe, RecordInv, PlaceInv, TaskInv
<1>2. CASE Deliver(o)
  BY <1>2, OrderKinds DEF Deliver, IInv, TypeOK, Safe, RecordInv, PlaceInv, TaskInv
<1>3. CASE TakeCommand(o)
  BY <1>3, OrderKinds DEF TakeCommand, IInv, TypeOK, Safe, RecordInv, PlaceInv, TaskInv
<1>4. CASE SendCancel(o)
  BY <1>4, OrderKinds DEF SendCancel, IInv, TypeOK, Safe, RecordInv, PlaceInv, TaskInv
<1>5. CASE TakeCancel(o)
  BY <1>5, OrderKinds DEF TakeCancel, IInv, TypeOK, Safe, RecordInv, PlaceInv, TaskInv
<1>6. CASE KeyExpires(o)
  BY <1>6, OrderKinds DEF KeyExpires, IInv, TypeOK, Safe, RecordInv, PlaceInv, TaskInv
<1>7. CASE CommandExpires(o)
  BY <1>7, OrderKinds DEF CommandExpires, IInv, TypeOK, Safe, RecordInv, PlaceInv, TaskInv
<1>. QED
  BY <1>1, <1>2, <1>3, <1>4, <1>5, <1>6, <1>7 DEF Commands

LEMMA OutageSafe == ASSUME IInv, LongOutage = FALSE, Crash \/ Restart PROVE Safe'
<1>1. CASE Crash
  BY <1>1, OrderKinds DEF Crash, IInv, TypeOK, Safe, RecordInv, PlaceInv, TaskInv
<1>2. CASE Restart
  BY <1>2, OrderKinds DEF Restart, IInv, TypeOK, Safe, RecordInv, PlaceInv, TaskInv
<1>. QED
  BY <1>1, <1>2

LEMMA SafeStep == ASSUME LongOutage = FALSE PROVE IInv /\ [Next]_vars => IInv'
<1>. SUFFICES ASSUME IInv, [Next]_vars PROVE IInv'
  OBVIOUS
<1>1. TypeOK'
  BY TypeStep DEF IInv
<1>2. Safe'
  <2>1. CASE Next
    BY <2>1, PlaceSafe, FillSafe, TickSafe, CancelSafe, CommandSafe, OutageSafe DEF Next
  <2>2. CASE UNCHANGED vars
    BY <2>2 DEF vars, IInv, Safe, RecordInv, PlaceInv, TaskInv
  <2>. QED
    BY <2>1, <2>2
<1>. QED
  BY <1>1, <1>2 DEF IInv

LEMMA Invariance == ASSUME LongOutage = FALSE PROVE Spec => []IInv
<1>1. Init => IInv
  BY Bounds DEF Init, IInv, TypeOK, Safe, RecordInv, PlaceInv, TaskInv
<1>2. IInv /\ [Next]_vars => IInv'
  BY SafeStep
<1>. QED
  BY <1>1, <1>2, PTL DEF Spec

\* No order opens two positions, with any number of redeliveries, crashes, failing
\* Redis calls and aborted scripts, as long as the idempotency key outlives the
\* command (atomic_fill_order.lua and the key of handle_place_order together).
THEOREM FillsOnce == ASSUME LongOutage = FALSE PROVE Spec => []AtMostOneFill
<1>1. IInv => AtMostOneFill
  BY DEF IInv, Safe, RecordInv, AtMostOneFill
<1>. QED
  BY <1>1, Invariance, PTL

\* A published cancellation and an execution exclude each other, under the same
\* assumption (the status checks of the cancel and the fill script).
THEOREM CancelOrFill == ASSUME LongOutage = FALSE PROVE Spec => []CancelExcludesFill
<1>1. IInv => CancelExcludesFill
  BY DEF IInv, Safe, RecordInv, CancelExcludesFill
<1>. QED
  BY <1>1, Invariance, PTL

-------------------------------------------------------------------------------
(* What is reported, acknowledged and cached.                              *)

\* A position was opened wherever one is reported or about to be.
FilledInv ==
  /\ \A o \in Orders : order[o] = "FILLED" \/ "FILLED" \in reported[o] => fills[o] > 0
  /\ \A t \in Fillers : pc[t] \in {"report", "sync", "dup", "dupSync"} => fills[cur[t]] > 0

LEMMA FilledStep ==
  ASSUME TypeOK, FilledInv, [Next]_vars
  PROVE  FilledInv'
<1>1. CASE PlaceStep
  <2>1. CASE Validate
    BY <2>1, OrderKinds DEF Validate, TypeOK, FilledInv
  <2>2. CASE Refuse
    BY <2>2, OrderKinds DEF Refuse, TypeOK, FilledInv
  <2>3. CASE Claim
    BY <2>3, OrderKinds DEF Claim, TypeOK, FilledInv
  <2>4. CASE Store
    BY <2>4, OrderKinds DEF Store, TypeOK, FilledInv
  <2>5. CASE Index
    BY <2>5, OrderKinds DEF Index, TypeOK, FilledInv
  <2>6. CASE Remember
    BY <2>6, OrderKinds DEF Remember, TypeOK, FilledInv
  <2>7. CASE Price
    BY <2>7, OrderKinds DEF Price, AtPrice, TypeOK, FilledInv
  <2>8. CASE Ack
    BY <2>8, OrderKinds DEF Ack, TypeOK, FilledInv
  <2>9. CASE PlaceFails
    BY <2>9, OrderKinds DEF PlaceFails, TypeOK, FilledInv
  <2>. QED
    BY <1>1, <2>1, <2>2, <2>3, <2>4, <2>5, <2>6, <2>7, <2>8, <2>9 DEF PlaceStep
<1>2. ASSUME NEW t \in Fillers, FillStep(t) PROVE FilledInv'
  <2>1. CASE FillSucceeds(t)
    BY <2>1, OrderKinds DEF FillSucceeds, ScriptFills, TypeOK, FilledInv
  <2>2. CASE FillAborts(t)
    BY <2>2, OrderKinds DEF FillAborts, ScriptFills, TypeOK, FilledInv
  <2>3. CASE FillRefused(t)
    BY <2>3, OrderKinds DEF FillRefused, TypeOK, FilledInv
  <2>4. CASE FillFails(t)
    BY <2>4, OrderKinds DEF FillFails, TypeOK, FilledInv
  <2>5. CASE ReportFill(t)
    BY <2>5, OrderKinds DEF ReportFill, TypeOK, FilledInv
  <2>6. CASE SyncPosition(t)
    BY <2>6, OrderKinds DEF SyncPosition, TypeOK, FilledInv
  <2>7. CASE DupReport(t)
    BY <2>7, OrderKinds DEF DupReport, TypeOK, FilledInv
  <2>8. CASE DupForget(t)
    BY <2>8, OrderKinds DEF DupForget, TypeOK, FilledInv
  <2>9. CASE DupSync(t)
    BY <2>9, OrderKinds DEF DupSync, TypeOK, FilledInv
  <2>10. CASE SlipReport(t)
    BY <2>10, OrderKinds DEF SlipReport, TypeOK, FilledInv
  <2>11. CASE SlipStore(t)
    BY <2>11, OrderKinds DEF SlipStore, TypeOK, FilledInv
  <2>12. CASE SlipIndex(t)
    BY <2>12, OrderKinds DEF SlipIndex, TypeOK, FilledInv
  <2>13. CASE SlipFails(t)
    BY <2>13, OrderKinds DEF SlipFails, TypeOK, FilledInv
  <2>. QED
    BY <1>2, <2>1, <2>2, <2>3, <2>4, <2>5, <2>6, <2>7, <2>8, <2>9, <2>10, <2>11, <2>12,
      <2>13 DEF FillStep
<1>3. CASE TickStep
  <2>1. CASE TickArrives
    BY <2>1, OrderKinds DEF TickArrives, TypeOK, FilledInv
  <2>2. CASE TickEnds
    BY <2>2, OrderKinds DEF TickEnds, TypeOK, FilledInv
  <2>3. ASSUME NEW o \in Orders, TickTakes(o) PROVE FilledInv'
    BY <2>3, OrderKinds DEF TickTakes, AtPrice, TypeOK, FilledInv
  <2>4. ASSUME NEW o \in Orders, TickSkips(o) PROVE FilledInv'
    BY <2>4, OrderKinds DEF TickSkips, TypeOK, FilledInv
  <2>. QED
    BY <1>3, <2>1, <2>2, <2>3, <2>4 DEF TickStep
<1>4. CASE CancelStep
  <2>1. CASE Cancel
    BY <2>1, OrderKinds DEF Cancel, ScriptCancels, TypeOK, FilledInv
  <2>2. CASE CancelRefused
    BY <2>2, OrderKinds DEF CancelRefused, TypeOK, FilledInv
  <2>3. CASE CancelAborts
    BY <2>3, OrderKinds DEF CancelAborts, ScriptCancels, TypeOK, FilledInv
  <2>4. CASE CancelReport
    BY <2>4, OrderKinds DEF CancelReport, TypeOK, FilledInv
  <2>. QED
    BY <1>4, <2>1, <2>2, <2>3, <2>4 DEF CancelStep
<1>5. ASSUME NEW o \in Orders, Commands(o) PROVE FilledInv'
  <2>1. CASE Submit(o)
    BY <2>1, OrderKinds DEF Submit, TypeOK, FilledInv
  <2>2. CASE Deliver(o)
    BY <2>2, OrderKinds DEF Deliver, TypeOK, FilledInv
  <2>3. CASE TakeCommand(o)
    BY <2>3, OrderKinds DEF TakeCommand, TypeOK, FilledInv
  <2>4. CASE SendCancel(o)
    BY <2>4, OrderKinds DEF SendCancel, TypeOK, FilledInv
  <2>5. CASE TakeCancel(o)
    BY <2>5, OrderKinds DEF TakeCancel, TypeOK, FilledInv
  <2>6. CASE KeyExpires(o)
    BY <2>6, OrderKinds DEF KeyExpires, TypeOK, FilledInv
  <2>7. CASE CommandExpires(o)
    BY <2>7, OrderKinds DEF CommandExpires, TypeOK, FilledInv
  <2>. QED
    BY <1>5, <2>1, <2>2, <2>3, <2>4, <2>5, <2>6, <2>7 DEF Commands
<1>6. CASE Crash
  BY <1>6, OrderKinds DEF Crash, TypeOK, FilledInv
<1>7. CASE Restart
  BY <1>7, OrderKinds DEF Restart, TypeOK, FilledInv
<1>8. CASE UNCHANGED vars
  BY <1>8, OrderKinds DEF vars, TypeOK, FilledInv
<1>. QED
  BY <1>1, <1>2, <1>3, <1>4, <1>5, <1>6, <1>7, <1>8 DEF Next

\* Nothing is reported as filled that did not open a position, also when keys expire
\* and the place task stores an order a second time (the duplicate sync reads the
\* record back before it reports).
THEOREM FillReportsHold == Spec => []FillReportsAreTrue
<1>1. Init => TypeOK /\ FilledInv
  BY Bounds DEF Init, TypeOK, FilledInv
<1>2. TypeOK /\ FilledInv /\ [Next]_vars => TypeOK' /\ FilledInv'
  BY TypeStep, FilledStep
<1>3. FilledInv => FillReportsAreTrue
  BY DEF FilledInv, FillReportsAreTrue
<1>. QED
  BY <1>1, <1>2, <1>3, PTL DEF Spec

\* Before the first crash a key without a record belongs to the command at work,
\* and a command about to be acknowledged left its trace.
Settled(o) == order[o] # "NONE" \/ "REJECTED" \in reported[o]

AckInv == crashes = 0 =>
  /\ up
  /\ \A o \in idem : order[o] # "NONE" \/ (pc["place"] = "store" /\ cur["place"] = o)
  /\ pc["place"] = "ack" => Settled(cur["place"])
  /\ pc["place"] \in {"index", "remember", "price"} \cup FillSteps => order[cur["place"]] # "NONE"
  /\ \A o \in Orders : queue[o] = "acked" => Settled(o)

LEMMA AckStep ==
  ASSUME Faults = FALSE, TypeOK, AckInv, [Next]_vars
  PROVE  AckInv'
<1>1. CASE PlaceStep
  <2>1. CASE Validate
    BY <2>1, OrderKinds DEF Validate, TypeOK, AckInv, Settled
  <2>2. CASE Refuse
    BY <2>2, OrderKinds DEF Refuse, TypeOK, AckInv, Settled
  <2>3. CASE Claim
    BY <2>3, OrderKinds DEF Claim, TypeOK, AckInv, Settled
  <2>4. CASE Store
    BY <2>4, OrderKinds DEF Store, TypeOK, AckInv, Settled
  <2>5. CASE Index
    BY <2>5, OrderKinds DEF Index, TypeOK, AckInv, Settled
  <2>6. CASE Remember
    BY <2>6, OrderKinds DEF Remember, TypeOK, AckInv, Settled
  <2>7. CASE Price
    BY <2>7, OrderKinds DEF Price, AtPrice, TypeOK, AckInv, Settled
  <2>8. CASE Ack
    BY <2>8, OrderKinds DEF Ack, TypeOK, AckInv, Settled
  <2>9. CASE PlaceFails
    BY <2>9, OrderKinds DEF PlaceFails, TypeOK, AckInv, Settled
  <2>. QED
    BY <1>1, <2>1, <2>2, <2>3, <2>4, <2>5, <2>6, <2>7, <2>8, <2>9 DEF PlaceStep
<1>2. ASSUME NEW t \in Fillers, FillStep(t) PROVE AckInv'
  <2>1. CASE FillSucceeds(t)
    BY <2>1, OrderKinds DEF FillSucceeds, ScriptFills, TypeOK, AckInv, Settled
  <2>2. CASE FillAborts(t)
    BY <2>2, OrderKinds DEF FillAborts, ScriptFills, TypeOK, AckInv, Settled
  <2>3. CASE FillRefused(t)
    BY <2>3, OrderKinds DEF FillRefused, TypeOK, AckInv, Settled
  <2>4. CASE FillFails(t)
    BY <2>4, OrderKinds DEF FillFails, TypeOK, AckInv, Settled
  <2>5. CASE ReportFill(t)
    BY <2>5, OrderKinds DEF ReportFill, TypeOK, AckInv, Settled
  <2>6. CASE SyncPosition(t)
    BY <2>6, OrderKinds DEF SyncPosition, TypeOK, AckInv, Settled
  <2>7. CASE DupReport(t)
    BY <2>7, OrderKinds DEF DupReport, TypeOK, AckInv, Settled
  <2>8. CASE DupForget(t)
    BY <2>8, OrderKinds DEF DupForget, TypeOK, AckInv, Settled
  <2>9. CASE DupSync(t)
    BY <2>9, OrderKinds DEF DupSync, TypeOK, AckInv, Settled
  <2>10. CASE SlipReport(t)
    BY <2>10, OrderKinds DEF SlipReport, TypeOK, AckInv, Settled
  <2>11. CASE SlipStore(t)
    BY <2>11, OrderKinds DEF SlipStore, TypeOK, AckInv, Settled
  <2>12. CASE SlipIndex(t)
    BY <2>12, OrderKinds DEF SlipIndex, TypeOK, AckInv, Settled
  <2>13. CASE SlipFails(t)
    BY <2>13, OrderKinds DEF SlipFails, TypeOK, AckInv, Settled
  <2>. QED
    BY <1>2, <2>1, <2>2, <2>3, <2>4, <2>5, <2>6, <2>7, <2>8, <2>9, <2>10, <2>11, <2>12,
      <2>13 DEF FillStep
<1>3. CASE TickStep
  <2>1. CASE TickArrives
    BY <2>1, OrderKinds DEF TickArrives, TypeOK, AckInv, Settled
  <2>2. CASE TickEnds
    BY <2>2, OrderKinds DEF TickEnds, TypeOK, AckInv, Settled
  <2>3. ASSUME NEW o \in Orders, TickTakes(o) PROVE AckInv'
    BY <2>3, OrderKinds DEF TickTakes, AtPrice, TypeOK, AckInv, Settled
  <2>4. ASSUME NEW o \in Orders, TickSkips(o) PROVE AckInv'
    BY <2>4, OrderKinds DEF TickSkips, TypeOK, AckInv, Settled
  <2>. QED
    BY <1>3, <2>1, <2>2, <2>3, <2>4 DEF TickStep
<1>4. CASE CancelStep
  <2>1. CASE Cancel
    BY <2>1, OrderKinds DEF Cancel, ScriptCancels, TypeOK, AckInv, Settled
  <2>2. CASE CancelRefused
    BY <2>2, OrderKinds DEF CancelRefused, TypeOK, AckInv, Settled
  <2>3. CASE CancelAborts
    BY <2>3, OrderKinds DEF CancelAborts, ScriptCancels, TypeOK, AckInv, Settled
  <2>4. CASE CancelReport
    BY <2>4, OrderKinds DEF CancelReport, TypeOK, AckInv, Settled
  <2>. QED
    BY <1>4, <2>1, <2>2, <2>3, <2>4 DEF CancelStep
<1>5. ASSUME NEW o \in Orders, Commands(o) PROVE AckInv'
  <2>1. CASE Submit(o)
    BY <2>1, OrderKinds DEF Submit, TypeOK, AckInv, Settled
  <2>2. CASE Deliver(o)
    BY <2>2, OrderKinds DEF Deliver, TypeOK, AckInv, Settled
  <2>3. CASE TakeCommand(o)
    BY <2>3, OrderKinds DEF TakeCommand, TypeOK, AckInv, Settled
  <2>4. CASE SendCancel(o)
    BY <2>4, OrderKinds DEF SendCancel, TypeOK, AckInv, Settled
  <2>5. CASE TakeCancel(o)
    BY <2>5, OrderKinds DEF TakeCancel, TypeOK, AckInv, Settled
  <2>6. CASE KeyExpires(o)
    BY <2>6, OrderKinds DEF KeyExpires, TypeOK, AckInv, Settled
  <2>7. CASE CommandExpires(o)
    BY <2>7, OrderKinds DEF CommandExpires, TypeOK, AckInv, Settled
  <2>. QED
    BY <1>5, <2>1, <2>2, <2>3, <2>4, <2>5, <2>6, <2>7 DEF Commands
<1>6. CASE Crash
  BY <1>6, OrderKinds DEF Crash, TypeOK, AckInv, Settled
<1>7. CASE Restart
  BY <1>7, OrderKinds DEF Restart, TypeOK, AckInv, Settled
<1>8. CASE UNCHANGED vars
  BY <1>8, OrderKinds DEF vars, TypeOK, AckInv, Settled
<1>. QED
  BY <1>1, <1>2, <1>3, <1>4, <1>5, <1>6, <1>7, <1>8 DEF Next

\* As long as no Redis call fails and the engine has not crashed, an acknowledged
\* command has a record or was reported as rejected, however often it was delivered.
THEOREM AckedIsSettled == ASSUME Faults = FALSE PROVE Spec => []AckMeansSettled
<1>1. Init => TypeOK /\ AckInv
  BY Bounds DEF Init, TypeOK, AckInv
<1>2. TypeOK /\ AckInv /\ [Next]_vars => TypeOK' /\ AckInv'
  BY TypeStep, AckStep
<1>3. AckInv => AckMeansSettled
  BY DEF AckInv, AckMeansSettled, Settled
<1>. QED
  BY <1>1, <1>2, <1>3, PTL DEF Spec

LEMMA CachedStep ==
  ASSUME Faults = FALSE, LongOutage = FALSE, IInv, IndexedIsCached, [Next]_vars
  PROVE  IndexedIsCached'
<1>1. CASE PlaceStep
  <2>1. CASE Validate
    BY <2>1, OrderKinds DEF Validate, IInv, TypeOK, Safe, RecordInv, PlaceInv, TaskInv,
      IndexedIsCached
  <2>2. CASE Refuse
    BY <2>2, OrderKinds DEF Refuse, IInv, TypeOK, Safe, RecordInv, PlaceInv, TaskInv,
      IndexedIsCached
  <2>3. CASE Claim
    BY <2>3, OrderKinds DEF Claim, IInv, TypeOK, Safe, RecordInv, PlaceInv, TaskInv, IndexedIsCached
  <2>4. CASE Store
    BY <2>4, OrderKinds DEF Store, IInv, TypeOK, Safe, RecordInv, PlaceInv, TaskInv, IndexedIsCached
  <2>5. CASE Index
    BY <2>5, OrderKinds DEF Index, IInv, TypeOK, Safe, RecordInv, PlaceInv, TaskInv, IndexedIsCached
  <2>6. CASE Remember
    BY <2>6, OrderKinds DEF Remember, IInv, TypeOK, Safe, RecordInv, PlaceInv, TaskInv,
      IndexedIsCached
  <2>7. CASE Price
    BY <2>7, OrderKinds DEF Price, AtPrice, IInv, TypeOK, Safe, RecordInv, PlaceInv, TaskInv,
      IndexedIsCached
  <2>8. CASE Ack
    BY <2>8, OrderKinds DEF Ack, IInv, TypeOK, Safe, RecordInv, PlaceInv, TaskInv, IndexedIsCached
  <2>9. CASE PlaceFails
    BY <2>9, OrderKinds DEF PlaceFails, IInv, TypeOK, Safe, RecordInv, PlaceInv, TaskInv,
      IndexedIsCached
  <2>. QED
    BY <1>1, <2>1, <2>2, <2>3, <2>4, <2>5, <2>6, <2>7, <2>8, <2>9 DEF PlaceStep
<1>2. ASSUME NEW t \in Fillers, FillStep(t) PROVE IndexedIsCached'
  <2>1. CASE FillSucceeds(t)
    BY <2>1, OrderKinds DEF FillSucceeds, ScriptFills, IInv, TypeOK, Safe, RecordInv, PlaceInv,
      TaskInv, IndexedIsCached
  <2>2. CASE FillAborts(t)
    BY <2>2, OrderKinds DEF FillAborts, ScriptFills, IInv, TypeOK, Safe, RecordInv, PlaceInv,
      TaskInv, IndexedIsCached
  <2>3. CASE FillRefused(t)
    BY <2>3, OrderKinds DEF FillRefused, IInv, TypeOK, Safe, RecordInv, PlaceInv, TaskInv,
      IndexedIsCached
  <2>4. CASE FillFails(t)
    BY <2>4, OrderKinds DEF FillFails, IInv, TypeOK, Safe, RecordInv, PlaceInv, TaskInv,
      IndexedIsCached
  <2>5. CASE ReportFill(t)
    BY <2>5, OrderKinds DEF ReportFill, IInv, TypeOK, Safe, RecordInv, PlaceInv, TaskInv,
      IndexedIsCached
  <2>6. CASE SyncPosition(t)
    BY <2>6, OrderKinds DEF SyncPosition, IInv, TypeOK, Safe, RecordInv, PlaceInv, TaskInv,
      IndexedIsCached
  <2>7. CASE DupReport(t)
    BY <2>7, OrderKinds DEF DupReport, IInv, TypeOK, Safe, RecordInv, PlaceInv, TaskInv,
      IndexedIsCached
  <2>8. CASE DupForget(t)
    BY <2>8, OrderKinds DEF DupForget, IInv, TypeOK, Safe, RecordInv, PlaceInv, TaskInv,
      IndexedIsCached
  <2>9. CASE DupSync(t)
    BY <2>9, OrderKinds DEF DupSync, IInv, TypeOK, Safe, RecordInv, PlaceInv, TaskInv,
      IndexedIsCached
  <2>10. CASE SlipReport(t)
    BY <2>10, OrderKinds DEF SlipReport, IInv, TypeOK, Safe, RecordInv, PlaceInv, TaskInv,
      IndexedIsCached
  <2>11. CASE SlipStore(t)
    BY <2>11, OrderKinds DEF SlipStore, IInv, TypeOK, Safe, RecordInv, PlaceInv, TaskInv,
      IndexedIsCached
  <2>12. CASE SlipIndex(t)
    BY <2>12, OrderKinds DEF SlipIndex, IInv, TypeOK, Safe, RecordInv, PlaceInv, TaskInv,
      IndexedIsCached
  <2>13. CASE SlipFails(t)
    BY <2>13, OrderKinds DEF SlipFails, IInv, TypeOK, Safe, RecordInv, PlaceInv, TaskInv,
      IndexedIsCached
  <2>. QED
    BY <1>2, <2>1, <2>2, <2>3, <2>4, <2>5, <2>6, <2>7, <2>8, <2>9, <2>10, <2>11, <2>12,
      <2>13 DEF FillStep
<1>3. CASE TickStep
  <2>1. CASE TickArrives
    BY <2>1, OrderKinds DEF TickArrives, IInv, TypeOK, Safe, RecordInv, PlaceInv, TaskInv,
      IndexedIsCached
  <2>2. CASE TickEnds
    BY <2>2, OrderKinds DEF TickEnds, IInv, TypeOK, Safe, RecordInv, PlaceInv, TaskInv,
      IndexedIsCached
  <2>3. ASSUME NEW o \in Orders, TickTakes(o) PROVE IndexedIsCached'
    BY <2>3, OrderKinds DEF TickTakes, AtPrice, IInv, TypeOK, Safe, RecordInv, PlaceInv,
      TaskInv, IndexedIsCached
  <2>4. ASSUME NEW o \in Orders, TickSkips(o) PROVE IndexedIsCached'
    BY <2>4, OrderKinds DEF TickSkips, IInv, TypeOK, Safe, RecordInv, PlaceInv, TaskInv,
      IndexedIsCached
  <2>. QED
    BY <1>3, <2>1, <2>2, <2>3, <2>4 DEF TickStep
<1>4. CASE CancelStep
  <2>1. CASE Cancel
    BY <2>1, OrderKinds DEF Cancel, ScriptCancels, IInv, TypeOK, Safe, RecordInv, PlaceInv,
      TaskInv, IndexedIsCached
  <2>2. CASE CancelRefused
    BY <2>2, OrderKinds DEF CancelRefused, IInv, TypeOK, Safe, RecordInv, PlaceInv, TaskInv,
      IndexedIsCached
  <2>3. CASE CancelAborts
    BY <2>3, OrderKinds DEF CancelAborts, ScriptCancels, IInv, TypeOK, Safe, RecordInv,
      PlaceInv, TaskInv, IndexedIsCached
  <2>4. CASE CancelReport
    BY <2>4, OrderKinds DEF CancelReport, IInv, TypeOK, Safe, RecordInv, PlaceInv, TaskInv,
      IndexedIsCached
  <2>. QED
    BY <1>4, <2>1, <2>2, <2>3, <2>4 DEF CancelStep
<1>5. ASSUME NEW o \in Orders, Commands(o) PROVE IndexedIsCached'
  <2>1. CASE Submit(o)
    BY <2>1, OrderKinds DEF Submit, IInv, TypeOK, Safe, RecordInv, PlaceInv, TaskInv,
      IndexedIsCached
  <2>2. CASE Deliver(o)
    BY <2>2, OrderKinds DEF Deliver, IInv, TypeOK, Safe, RecordInv, PlaceInv, TaskInv,
      IndexedIsCached
  <2>3. CASE TakeCommand(o)
    BY <2>3, OrderKinds DEF TakeCommand, IInv, TypeOK, Safe, RecordInv, PlaceInv, TaskInv,
      IndexedIsCached
  <2>4. CASE SendCancel(o)
    BY <2>4, OrderKinds DEF SendCancel, IInv, TypeOK, Safe, RecordInv, PlaceInv, TaskInv,
      IndexedIsCached
  <2>5. CASE TakeCancel(o)
    BY <2>5, OrderKinds DEF TakeCancel, IInv, TypeOK, Safe, RecordInv, PlaceInv, TaskInv,
      IndexedIsCached
  <2>6. CASE KeyExpires(o)
    BY <2>6, OrderKinds DEF KeyExpires, IInv, TypeOK, Safe, RecordInv, PlaceInv, TaskInv,
      IndexedIsCached
  <2>7. CASE CommandExpires(o)
    BY <2>7, OrderKinds DEF CommandExpires, IInv, TypeOK, Safe, RecordInv, PlaceInv, TaskInv,
      IndexedIsCached
  <2>. QED
    BY <1>5, <2>1, <2>2, <2>3, <2>4, <2>5, <2>6, <2>7 DEF Commands
<1>6. CASE Crash
  BY <1>6, OrderKinds DEF Crash, IInv, TypeOK, Safe, RecordInv, PlaceInv, TaskInv, IndexedIsCached
<1>7. CASE Restart
  BY <1>7, OrderKinds DEF Restart, IInv, TypeOK, Safe, RecordInv, PlaceInv, TaskInv, IndexedIsCached
<1>8. CASE UNCHANGED vars
  BY <1>8, OrderKinds DEF vars, IInv, TypeOK, Safe, RecordInv, PlaceInv, TaskInv, IndexedIsCached
<1>. QED
  BY <1>1, <1>2, <1>3, <1>4, <1>5, <1>6, <1>7, <1>8 DEF Next

\* The cache holds every indexed order that waits for a tick, through crashes and
\* restarts, as long as no Redis call fails and keys outlive commands.
THEOREM IndexedStaysCached ==
  ASSUME Faults = FALSE, LongOutage = FALSE PROVE Spec => []IndexedIsCached
<1>1. Init => IndexedIsCached
  BY DEF Init, IndexedIsCached
<1>2. IInv /\ IndexedIsCached /\ [Next]_vars => IndexedIsCached'
  BY CachedStep
<1>. QED
  BY <1>1, <1>2, Invariance, PTL DEF Spec

\* Before the first crash a task about to fill a PENDING order finds it cached, an
\* outcome was published, or is held by the cache or the cancel task until it is,
\* and the task that opened a bracketed position publishes it.
InFlight(t, o) == cur[t] = o /\ pc[t] \in {"report", "sync"}

OutcomeInv == crashes = 0 =>
  /\ up
  /\ \A t \in Fillers :
       /\ pc[t] \in {"price", "fill", "exceeded"} /\ order[cur[t]] = "PENDING" => cur[t] \in cache
       /\ pc[t] \in {"rejStore", "rejIndex"} => "REJECTED" \in reported[cur[t]]
       /\ pc[t] \in {"sync", "dupSync"} => "FILLED" \in reported[cur[t]]
  /\ \A o \in Orders :
       /\ order[o] = "REJECTED" => "REJECTED" \in reported[o]
       /\ order[o] = "CANCELED" =>
            "CANCELED" \in reported[o] \/ (pc["cancel"] = "cancelReport" /\ cur["cancel"] = o)
       /\ order[o] = "FILLED" => "FILLED" \in reported[o] \/ o \in cache
       /\ o \in Bracketed /\ fills[o] > 0 =>
            o \in synced \/ InFlight("place", o) \/ InFlight("tick", o)

LEMMA OutcomeStep ==
  ASSUME Faults = FALSE, LongOutage = FALSE, IInv, OutcomeInv, [Next]_vars
  PROVE  OutcomeInv'
<1>1. CASE PlaceStep
  <2>1. CASE Validate
    BY <2>1, OrderKinds DEF Validate, IInv, TypeOK, Safe, RecordInv, PlaceInv, TaskInv,
      OutcomeInv, InFlight
  <2>2. CASE Refuse
    BY <2>2, OrderKinds DEF Refuse, IInv, TypeOK, Safe, RecordInv, PlaceInv, TaskInv,
      OutcomeInv, InFlight
  <2>3. CASE Claim
    BY <2>3, OrderKinds DEF Claim, IInv, TypeOK, Safe, RecordInv, PlaceInv, TaskInv,
      OutcomeInv, InFlight
  <2>4. CASE Store
    BY <2>4, OrderKinds DEF Store, IInv, TypeOK, Safe, RecordInv, PlaceInv, TaskInv,
      OutcomeInv, InFlight
  <2>5. CASE Index
    BY <2>5, OrderKinds DEF Index, IInv, TypeOK, Safe, RecordInv, PlaceInv, TaskInv,
      OutcomeInv, InFlight
  <2>6. CASE Remember
    BY <2>6, OrderKinds DEF Remember, IInv, TypeOK, Safe, RecordInv, PlaceInv, TaskInv,
      OutcomeInv, InFlight
  <2>7. CASE Price
    BY <2>7, OrderKinds DEF Price, AtPrice, IInv, TypeOK, Safe, RecordInv, PlaceInv, TaskInv,
      OutcomeInv, InFlight
  <2>8. CASE Ack
    BY <2>8, OrderKinds DEF Ack, IInv, TypeOK, Safe, RecordInv, PlaceInv, TaskInv, OutcomeInv,
      InFlight
  <2>9. CASE PlaceFails
    BY <2>9, OrderKinds DEF PlaceFails, IInv, TypeOK, Safe, RecordInv, PlaceInv, TaskInv,
      OutcomeInv, InFlight
  <2>. QED
    BY <1>1, <2>1, <2>2, <2>3, <2>4, <2>5, <2>6, <2>7, <2>8, <2>9 DEF PlaceStep
<1>2. ASSUME NEW t \in Fillers, FillStep(t) PROVE OutcomeInv'
  <2>1. CASE FillSucceeds(t)
    BY <2>1, OrderKinds DEF FillSucceeds, ScriptFills, IInv, TypeOK, Safe, RecordInv, PlaceInv,
      TaskInv, OutcomeInv, InFlight
  <2>2. CASE FillAborts(t)
    BY <2>2, OrderKinds DEF FillAborts, ScriptFills, IInv, TypeOK, Safe, RecordInv, PlaceInv,
      TaskInv, OutcomeInv, InFlight
  <2>3. CASE FillRefused(t)
    BY <2>3, OrderKinds DEF FillRefused, IInv, TypeOK, Safe, RecordInv, PlaceInv, TaskInv,
      OutcomeInv, InFlight
  <2>4. CASE FillFails(t)
    BY <2>4, OrderKinds DEF FillFails, IInv, TypeOK, Safe, RecordInv, PlaceInv, TaskInv,
      OutcomeInv, InFlight
  <2>5. CASE ReportFill(t)
    BY <2>5, OrderKinds DEF ReportFill, IInv, TypeOK, Safe, RecordInv, PlaceInv, TaskInv,
      OutcomeInv, InFlight
  <2>6. CASE SyncPosition(t)
    BY <2>6, OrderKinds DEF SyncPosition, IInv, TypeOK, Safe, RecordInv, PlaceInv, TaskInv,
      OutcomeInv, InFlight
  <2>7. CASE DupReport(t)
    BY <2>7, OrderKinds DEF DupReport, IInv, TypeOK, Safe, RecordInv, PlaceInv, TaskInv,
      OutcomeInv, InFlight
  <2>8. CASE DupForget(t)
    BY <2>8, OrderKinds DEF DupForget, IInv, TypeOK, Safe, RecordInv, PlaceInv, TaskInv,
      OutcomeInv, InFlight
  <2>9. CASE DupSync(t)
    BY <2>9, OrderKinds DEF DupSync, IInv, TypeOK, Safe, RecordInv, PlaceInv, TaskInv,
      OutcomeInv, InFlight
  <2>10. CASE SlipReport(t)
    BY <2>10, OrderKinds DEF SlipReport, IInv, TypeOK, Safe, RecordInv, PlaceInv, TaskInv,
      OutcomeInv, InFlight
  <2>11. CASE SlipStore(t)
    BY <2>11, OrderKinds DEF SlipStore, IInv, TypeOK, Safe, RecordInv, PlaceInv, TaskInv,
      OutcomeInv, InFlight
  <2>12. CASE SlipIndex(t)
    BY <2>12, OrderKinds DEF SlipIndex, IInv, TypeOK, Safe, RecordInv, PlaceInv, TaskInv,
      OutcomeInv, InFlight
  <2>13. CASE SlipFails(t)
    BY <2>13, OrderKinds DEF SlipFails, IInv, TypeOK, Safe, RecordInv, PlaceInv, TaskInv,
      OutcomeInv, InFlight
  <2>. QED
    BY <1>2, <2>1, <2>2, <2>3, <2>4, <2>5, <2>6, <2>7, <2>8, <2>9, <2>10, <2>11, <2>12,
      <2>13 DEF FillStep
<1>3. CASE TickStep
  <2>1. CASE TickArrives
    BY <2>1, OrderKinds DEF TickArrives, IInv, TypeOK, Safe, RecordInv, PlaceInv, TaskInv,
      OutcomeInv, InFlight
  <2>2. CASE TickEnds
    BY <2>2, OrderKinds DEF TickEnds, IInv, TypeOK, Safe, RecordInv, PlaceInv, TaskInv,
      OutcomeInv, InFlight
  <2>3. ASSUME NEW o \in Orders, TickTakes(o) PROVE OutcomeInv'
    BY <2>3, OrderKinds DEF TickTakes, AtPrice, IInv, TypeOK, Safe, RecordInv, PlaceInv,
      TaskInv, OutcomeInv, InFlight
  <2>4. ASSUME NEW o \in Orders, TickSkips(o) PROVE OutcomeInv'
    BY <2>4, OrderKinds DEF TickSkips, IInv, TypeOK, Safe, RecordInv, PlaceInv, TaskInv,
      OutcomeInv, InFlight
  <2>. QED
    BY <1>3, <2>1, <2>2, <2>3, <2>4 DEF TickStep
<1>4. CASE CancelStep
  <2>1. CASE Cancel
    BY <2>1, OrderKinds DEF Cancel, ScriptCancels, IInv, TypeOK, Safe, RecordInv, PlaceInv,
      TaskInv, OutcomeInv, InFlight
  <2>2. CASE CancelRefused
    BY <2>2, OrderKinds DEF CancelRefused, IInv, TypeOK, Safe, RecordInv, PlaceInv, TaskInv,
      OutcomeInv, InFlight
  <2>3. CASE CancelAborts
    BY <2>3, OrderKinds DEF CancelAborts, ScriptCancels, IInv, TypeOK, Safe, RecordInv,
      PlaceInv, TaskInv, OutcomeInv, InFlight
  <2>4. CASE CancelReport
    BY <2>4, OrderKinds DEF CancelReport, IInv, TypeOK, Safe, RecordInv, PlaceInv, TaskInv,
      OutcomeInv, InFlight
  <2>. QED
    BY <1>4, <2>1, <2>2, <2>3, <2>4 DEF CancelStep
<1>5. ASSUME NEW o \in Orders, Commands(o) PROVE OutcomeInv'
  <2>1. CASE Submit(o)
    BY <2>1, OrderKinds DEF Submit, IInv, TypeOK, Safe, RecordInv, PlaceInv, TaskInv,
      OutcomeInv, InFlight
  <2>2. CASE Deliver(o)
    BY <2>2, OrderKinds DEF Deliver, IInv, TypeOK, Safe, RecordInv, PlaceInv, TaskInv,
      OutcomeInv, InFlight
  <2>3. CASE TakeCommand(o)
    BY <2>3, OrderKinds DEF TakeCommand, IInv, TypeOK, Safe, RecordInv, PlaceInv, TaskInv,
      OutcomeInv, InFlight
  <2>4. CASE SendCancel(o)
    BY <2>4, OrderKinds DEF SendCancel, IInv, TypeOK, Safe, RecordInv, PlaceInv, TaskInv,
      OutcomeInv, InFlight
  <2>5. CASE TakeCancel(o)
    BY <2>5, OrderKinds DEF TakeCancel, IInv, TypeOK, Safe, RecordInv, PlaceInv, TaskInv,
      OutcomeInv, InFlight
  <2>6. CASE KeyExpires(o)
    BY <2>6, OrderKinds DEF KeyExpires, IInv, TypeOK, Safe, RecordInv, PlaceInv, TaskInv,
      OutcomeInv, InFlight
  <2>7. CASE CommandExpires(o)
    BY <2>7, OrderKinds DEF CommandExpires, IInv, TypeOK, Safe, RecordInv, PlaceInv, TaskInv,
      OutcomeInv, InFlight
  <2>. QED
    BY <1>5, <2>1, <2>2, <2>3, <2>4, <2>5, <2>6, <2>7 DEF Commands
<1>6. CASE Crash
  BY <1>6, OrderKinds DEF Crash, IInv, TypeOK, Safe, RecordInv, PlaceInv, TaskInv, OutcomeInv,
    InFlight
<1>7. CASE Restart
  BY <1>7, OrderKinds DEF Restart, IInv, TypeOK, Safe, RecordInv, PlaceInv, TaskInv,
    OutcomeInv, InFlight
<1>8. CASE UNCHANGED vars
  BY <1>8, OrderKinds DEF vars, IInv, TypeOK, Safe, RecordInv, PlaceInv, TaskInv, OutcomeInv,
    InFlight
<1>. QED
  BY <1>1, <1>2, <1>3, <1>4, <1>5, <1>6, <1>7, <1>8 DEF Next

\* As long as no Redis call fails and the engine has not crashed, an order nobody
\* works on and nobody caches had its status published, and its position too if it
\* has both a stop loss and a take profit.
THEOREM OutcomesReported ==
  ASSUME Faults = FALSE, LongOutage = FALSE PROVE Spec => []OutcomeReported
<1>1. Init => OutcomeInv
  BY Bounds DEF Init, OutcomeInv, InFlight
<1>2. IInv /\ OutcomeInv /\ [Next]_vars => OutcomeInv'
  BY OutcomeStep
<1>3. OutcomeInv => OutcomeReported
  BY OrderKinds DEF OutcomeInv, InFlight, OutcomeReported, Published, Busy, Outcomes, Tasks, Fillers
<1>. QED
  BY <1>1, <1>2, <1>3, Invariance, PTL DEF Spec

-------------------------------------------------------------------------------
(* Refinement of OrderLifecycle by orders without a slippage limit.        *)

\* Without a slippage limit no task enters the slippage rejection.
NoSlip == \A t \in Fillers : pc[t] \notin {"exceeded", "rejStore", "rejIndex"}

LEMMA NoSlipStep == ASSUME Guarded = {}, TypeOK, NoSlip, [Next]_vars PROVE NoSlip'
<1>1. CASE PlaceStep
  BY <1>1 DEF NoSlip, TypeOK, PlaceStep, Validate, Refuse, Claim, Store, Index, Remember,
              Price, AtPrice, Ack, PlaceFails
<1>2. ASSUME NEW t \in Fillers, FillStep(t) PROVE NoSlip'
  BY <1>2 DEF NoSlip, TypeOK, FillStep, FillSucceeds, FillAborts, FillRefused, FillFails,
              ReportFill, SyncPosition, DupReport, DupForget, DupSync, SlipReport,
              SlipStore, SlipIndex, SlipFails
<1>3. CASE TickStep
  BY <1>3 DEF NoSlip, TypeOK, TickStep, TickArrives, TickTakes, AtPrice, TickSkips, TickEnds
<1>4. CASE CancelStep
  BY <1>4 DEF NoSlip, TypeOK, CancelStep, Cancel, CancelRefused, CancelAborts, CancelReport
<1>5. ASSUME NEW o \in Orders, Commands(o) PROVE NoSlip'
  BY <1>5 DEF NoSlip, TypeOK, Commands, Submit, Deliver, TakeCommand, SendCancel, TakeCancel,
              KeyExpires, CommandExpires
<1>6. CASE Crash \/ Restart
  BY <1>6 DEF NoSlip, TypeOK, Crash, Restart
<1>7. CASE UNCHANGED vars
  BY <1>7 DEF NoSlip, vars
<1>. QED
  BY <1>1, <1>2, <1>3, <1>4, <1>5, <1>6, <1>7 DEF Next

\* Each step is a step of the abstract order or leaves it alone.
LEMMA Simulation ==
  ASSUME LongOutage = FALSE, IInv, NoSlip, [Next]_vars
  PROVE  [Lifecycle!Next]_(Lifecycle!vars)
<1>. USE DEF IInv, TypeOK, Lifecycle!vars
<1>1. CASE PlaceStep
  <2>1. CASE Store
    <3>1. Lifecycle!Accept(cur["place"])
      BY <2>1 DEF Store, Safe, PlaceInv, Lifecycle!Accept
    <3>2. cur["place"] \in Orders
      BY <2>1 DEF Store
    <3>. QED
      BY <3>1, <3>2 DEF Lifecycle!Next
  <2>2. CASE ~Store
    BY <1>1, <2>2 DEF PlaceStep, Validate, Refuse, Claim, Index, Remember, Price, Ack, PlaceFails
  <2>. QED
    BY <2>1, <2>2
<1>2. ASSUME NEW t \in Fillers, FillStep(t) PROVE [Lifecycle!Next]_(Lifecycle!vars)
  <2>1. CASE FillSucceeds(t) \/ FillAborts(t)
    <3>1. cur[t] \in Orders
      BY <2>1 DEF FillSucceeds, FillAborts
    <3>2. Lifecycle!Fill(cur[t])
      BY <2>1 DEF FillSucceeds, FillAborts, ScriptFills, Lifecycle!Fill
    <3>. QED
      BY <3>1, <3>2 DEF Lifecycle!Next
  <2>2. CASE ~(FillSucceeds(t) \/ FillAborts(t))
    BY <1>2, <2>2 DEF FillStep, FillRefused, FillFails, ReportFill, SyncPosition, DupReport,
                      DupForget, DupSync, SlipReport, SlipStore, SlipIndex, SlipFails, NoSlip
  <2>. QED
    BY <2>1, <2>2
<1>3. CASE TickStep
  BY <1>3 DEF TickStep, TickArrives, TickTakes, TickSkips, TickEnds
<1>4. CASE CancelStep
  <2>1. CASE Cancel \/ CancelAborts
    <3>1. cur["cancel"] \in Orders
      BY <2>1 DEF Cancel, CancelAborts
    <3>2. Lifecycle!Drop(cur["cancel"])
      BY <2>1 DEF Cancel, CancelAborts, ScriptCancels, Lifecycle!Drop
    <3>. QED
      BY <3>1, <3>2 DEF Lifecycle!Next
  <2>2. CASE CancelRefused \/ CancelReport
    BY <2>2 DEF CancelRefused, CancelReport
  <2>. QED
    BY <1>4, <2>1, <2>2 DEF CancelStep
<1>5. ASSUME NEW o \in Orders, Commands(o) PROVE [Lifecycle!Next]_(Lifecycle!vars)
  BY <1>5 DEF Commands, Submit, Deliver, TakeCommand, SendCancel, TakeCancel,
              KeyExpires, CommandExpires
<1>6. CASE Crash \/ Restart
  BY <1>6 DEF Crash, Restart
<1>7. CASE UNCHANGED vars
  BY <1>7 DEF vars
<1>. QED
  BY <1>1, <1>2, <1>3, <1>4, <1>5, <1>6, <1>7 DEF Next

\* Without slippage limits and without an outage that outlives the keys, the engine
\* implements OrderLifecycle: an order is accepted once, ends once, and opens a
\* position exactly when it becomes FILLED, however the three tasks interleave.
THEOREM Refinement ==
  ASSUME LongOutage = FALSE, Guarded = {} PROVE Spec => LifecycleSpec
<1>1. Init => Lifecycle!Init /\ NoSlip
  BY DEF Init, Lifecycle!Init, NoSlip
<1>2. IInv /\ NoSlip /\ [Next]_vars => NoSlip' /\ [Lifecycle!Next]_(Lifecycle!vars)
  BY NoSlipStep, Simulation DEF IInv
<1>. QED
  BY <1>1, <1>2, Invariance, PTL DEF Spec, LifecycleSpec, Lifecycle!Spec
===============================================================================
