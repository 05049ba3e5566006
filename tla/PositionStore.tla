----------------------------- MODULE PositionStore -----------------------------
(***************************************************************************)
(* The positions of one user on one symbol, in the Redis database that     *)
(* apps/order-engine and backend/auth-service share: the hash              *)
(* pos:by_id:{id}, the set pos:{user} and the sorted sets pos:open, pos:sl *)
(* and pos:tp of the symbol.  Six Lua scripts write them, each atomically; *)
(* the auth-service edits stop loss and take profit without a script, with *)
(* two Redis commands per leg, and changes the account type in Postgres.   *)
(*                                                                         *)
(* Prices are left out, so a trigger of a stop loss or take profit is a    *)
(* Close.  A script that returns an error object has written nothing, so   *)
(* it is not an action; a script that raises an error keeps its earlier    *)
(* writes, so it is.                                                       *)
(***************************************************************************)
EXTENDS Integers, FiniteSets

CONSTANTS
  Ids,       \* orders; the position an order creates carries its id
  Editors,   \* concurrent HTTP requests that edit stop loss or take profit
  Levels,    \* prices a stop loss or take profit is set to
  None,      \* no level: an absent field, "" or "null"
  Junk,      \* "userdata: 0x0", which tostring leaves of a JSON null
  MaxSize,   \* bound of the model on the size of a position
  StopOuts,  \* statuses of close_all: CLOSED in a stop-out, LIQUIDATED below it
  Switching  \* whether an administrator changes the account type

ASSUME LevelKinds == None \notin Levels /\ Junk \notin Levels /\ None # Junk
ASSUME SizeBound == MaxSize \in Nat \ {0}
ASSUME Switches == StopOuts \subseteq {"CLOSED", "LIQUIDATED"} /\ Switching \in BOOLEAN

VARIABLES
  pos,          \* pos:by_id:{id}: status, side, size, original_size (0 if absent), sl and tp
  index,        \* pos:sl and pos:tp: the level each position is filed under
  open,         \* pos:open
  members,      \* pos:{user}
  account,      \* users.account_type
  switching,    \* the account type a checked request is about to write
  sent,         \* the account type each order carries
  filled,       \* orders filled (at most once: OrderEngine!FillsOnce)
  edit,         \* per editor: the request between its two writes
  batch,        \* the close_all command in progress
  reopened,     \* history: positions ever reopened
  unsure,       \* history: legs whose index is not known to agree with the hash
  lastSize      \* history: size of each position before its last full close

orderState == <<account, switching, sent, filled>>
history    == <<reopened, unsure, lastSize>>
vars == <<pos, index, open, members, orderState, edit, batch, history>>

Legs     == {"sl", "tp"}
Sides    == {"LONG", "SHORT"}
Accounts == {"hedging", "netting"}
Request  == [Legs -> Levels \cup {None}]
Position == [status   : {"NONE", "OPEN", "CLOSED", "LIQUIDATED"},
             side     : Sides,
             size     : 0..MaxSize,
             original : 0..MaxSize,
             level    : [Legs -> Levels \cup {None, Junk}]]
Edit     == [id : Ids, leg : Legs, level : Levels \cup {None}, raced : BOOLEAN]
Batch    == [on : BOOLEAN, status : {"CLOSED", "LIQUIDATED"},
             todo : SUBSET Ids, exempt : SUBSET Ids]

NoRequest == [l \in Legs |-> None]
NoBatch   == [on |-> FALSE, status |-> "CLOSED", todo |-> {}, exempt |-> {}]
NoEdit    == None

ASSUME EditKinds == NoEdit \notin Edit

IsOpen(p)   == pos[p].status = "OPEN"
IsClosed(p) == pos[p].status \in {"CLOSED", "LIQUIDATED"}
OpenIds     == {p \in Ids : IsOpen(p)}

Init == /\ pos = [p \in Ids |-> [status |-> "NONE", side |-> "LONG", size |-> 0,
                                 original |-> 0, level |-> NoRequest]]
        /\ index = [l \in Legs |-> [p \in Ids |-> None]]
        /\ open = {} /\ members = {}
        /\ account \in Accounts /\ switching = "none"
        /\ sent = [p \in Ids |-> "none"] /\ filled = {}
        /\ edit = [e \in Editors |-> NoEdit]
        /\ batch = NoBatch
        /\ reopened = {} /\ unsure = {}
        /\ lastSize = [p \in Ids |-> 0]

-------------------------------------------------------------------------------
(* What the scripts share.                                                 *)

\* tostring(order.stop_loss): the JSON null of an order without a level is truthy.
Shown(req) == [l \in Legs |-> IF req[l] = None THEN Junk ELSE req[l]]

\* The legs a script files: pos:sl first, where a level that is no number
\* raises an error, so pos:tp is not reached.
Armed(level) == {l \in Legs : level[l] \in Levels /\ (l = "tp" => level["sl"] # Junk)}

\* The legs with a level that such an error leaves out.
Lost(level) == {l \in Legs : level[l] \in Levels} \ Armed(level)

\* Take the positions of gone out of pos:sl and pos:tp, then file p by level.
Reindex(gone, p, level) ==
  index' = [l \in Legs |-> [x \in Ids |->
              IF x = p /\ l \in Armed(level) THEN level[l]
              ELSE IF x \in gone THEN None ELSE index[l][x]]]

\* The script rewrites the legs of p: a request caught between its two writes
\* to p may now write the index of a level that is no longer in the hash.
Races(p) == edit' = [e \in Editors |->
                       IF edit[e] # NoEdit /\ edit[e].id = p
                       THEN [edit[e] EXCEPT !.raced = TRUE] ELSE edit[e]]

\* A position opened while close_all runs is not in its snapshot.
Opens(p) == batch' = IF batch.on THEN [batch EXCEPT !.exempt = @ \cup {p}] ELSE batch

-------------------------------------------------------------------------------
(* atomic_fill_order.lua.                                                  *)

\* auth-service reads users.account_type and publishes the order with it.
Place(q) == /\ sent[q] = "none"
            /\ sent' = [sent EXCEPT ![q] = account]
            /\ UNCHANGED <<pos, index, open, members, account, switching, filled, edit, batch, history>>

Fills(q) == /\ sent[q] # "none" /\ q \notin filled
            /\ filled' = filled \cup {q}
            /\ UNCHANGED <<account, switching, sent>>

\* The open positions of the symbol a netting fill finds in pos:{user}.
Same(s)     == {p \in members : IsOpen(p) /\ pos[p].side = s}
Opposite(s) == {p \in members : IsOpen(p) /\ pos[p].side # s}

NewPosition(q, s, n, req) ==
  [pos[q] EXCEPT !.status = "OPEN", !.side = s, !.size = n, !.level = Shown(req)]

\* Mutant: a netting fill looks for a position of its own side only.
FillCreatesBeside(q, s, n, req) ==
  /\ Fills(q)
  /\ sent[q] = "netting" => Same(s) = {}
  /\ pos' = [pos EXCEPT ![q] = NewPosition(q, s, n, req)]
  /\ members' = members \cup {q}
  /\ open' = open \cup {q}
  /\ Reindex({}, q, Shown(req))
  /\ unsure' = unsure \cup (Lost(Shown(req)) \X {q})
  /\ Opens(q)
  /\ UNCHANGED <<edit, reopened, lastSize>>

FillCreates(q, s, n, req) ==
  /\ Fills(q)
  /\ sent[q] = "netting" => Same(s) \cup Opposite(s) = {}
  /\ pos' = [pos EXCEPT ![q] = NewPosition(q, s, n, req)]
  /\ members' = members \cup {q}
  /\ open' = open \cup {q}
  /\ Reindex({}, q, Shown(req))
  /\ unsure' = unsure \cup (Lost(Shown(req)) \X {q})
  /\ Opens(q)
  /\ UNCHANGED <<edit, reopened, lastSize>>

\* A same-side position grows; the levels of the order go to the indexes only.
FillAdds(q, p, s, n, req) ==
  /\ Fills(q)
  /\ sent[q] = "netting" /\ p \in Same(s)
  /\ pos[p].size + n <= MaxSize
  /\ pos' = [pos EXCEPT ![p].size = @ + n]
  /\ open' = open \cup {p}
  /\ Reindex({}, p, Shown(req))
  /\ unsure' = unsure \cup (Armed(Shown(req)) \X {p})
  /\ Races(p)
  /\ UNCHANGED <<members, batch, reopened, lastSize>>

FillReduces(q, p, s, n) ==
  /\ Fills(q)
  /\ sent[q] = "netting" /\ Same(s) = {} /\ p \in Opposite(s)
  /\ pos[p].size > n
  /\ pos' = [pos EXCEPT ![p].size = @ - n]
  /\ open' = open \cup {p}
  /\ UNCHANGED <<index, members, edit, batch, history>>

\* The old position as a netting fill leaves it: original_size is not written.
NettedOut(p) == [pos[p] EXCEPT !.status = "CLOSED", !.size = 0]

FillCloses(q, p, s, n) ==
  /\ Fills(q)
  /\ sent[q] = "netting" /\ Same(s) = {} /\ p \in Opposite(s)
  /\ pos[p].size = n
  /\ pos' = [pos EXCEPT ![p] = NettedOut(p)]
  /\ members' = members \ {p}
  /\ open' = open \ {p}
  /\ Reindex({p}, p, NoRequest)
  /\ unsure' = unsure \ (Legs \X {p})
  /\ lastSize' = [lastSize EXCEPT ![p] = pos[p].size]
  /\ Races(p)
  /\ UNCHANGED <<batch, reopened>>

\* Mutant: the new position of a flip is not added to pos:{user}.
FillFlipsUnlisted(q, p, s, n, req) ==
  /\ Fills(q)
  /\ sent[q] = "netting" /\ Same(s) = {} /\ p \in Opposite(s)
  /\ pos[p].size < n
  /\ pos' = [pos EXCEPT ![p] = NettedOut(p),
                        ![q] = NewPosition(q, s, n - pos[p].size, req)]
  /\ members' = members \ {p}
  /\ open' = (open \ {p}) \cup {q}
  /\ Reindex({p}, q, Shown(req))
  /\ unsure' = (unsure \ (Legs \X {p})) \cup (Lost(Shown(req)) \X {q})
  /\ lastSize' = [lastSize EXCEPT ![p] = pos[p].size]
  /\ Races(p) /\ Opens(q)
  /\ UNCHANGED reopened

FillFlips(q, p, s, n, req) ==
  /\ Fills(q)
  /\ sent[q] = "netting" /\ Same(s) = {} /\ p \in Opposite(s)
  /\ pos[p].size < n
  /\ pos' = [pos EXCEPT ![p] = NettedOut(p),
                        ![q] = NewPosition(q, s, n - pos[p].size, req)]
  /\ members' = (members \ {p}) \cup {q}
  /\ open' = (open \ {p}) \cup {q}
  /\ Reindex({p}, q, Shown(req))
  /\ unsure' = (unsure \ (Legs \X {p})) \cup (Lost(Shown(req)) \X {q})
  /\ lastSize' = [lastSize EXCEPT ![p] = pos[p].size]
  /\ Races(p) /\ Opens(q)
  /\ UNCHANGED reopened

-------------------------------------------------------------------------------
(* atomic_close_position.lua: called by the close command, by a triggered  *)
(* stop loss or take profit and by close_all.                              *)

\* Mutant: a full close leaves the position in pos:open.
CloseKeepsOpen(p, status) ==
  /\ IsOpen(p)
  /\ pos' = [pos EXCEPT ![p].status = status, ![p].size = 0, ![p].original = pos[p].size]
  /\ Reindex({p}, p, NoRequest)
  /\ unsure' = unsure \ (Legs \X {p})
  /\ lastSize' = [lastSize EXCEPT ![p] = pos[p].size]
  /\ Races(p)
  /\ UNCHANGED <<open, members, orderState, reopened>>

\* Mutant: a full close does not keep the size for a later reopen.
CloseForgets(p, status) ==
  /\ IsOpen(p)
  /\ pos' = [pos EXCEPT ![p].status = status, ![p].size = 0,
                        ![p].original = IF @ = 0 THEN pos[p].size ELSE @]
  /\ open' = open \ {p}
  /\ Reindex({p}, p, NoRequest)
  /\ unsure' = unsure \ (Legs \X {p})
  /\ lastSize' = [lastSize EXCEPT ![p] = pos[p].size]
  /\ Races(p)
  /\ UNCHANGED <<members, orderState, reopened>>

CloseFull(p, status) ==
  /\ IsOpen(p)
  /\ pos' = [pos EXCEPT ![p].status = status, ![p].size = 0, ![p].original = pos[p].size]
  /\ open' = open \ {p}
  /\ Reindex({p}, p, NoRequest)
  /\ unsure' = unsure \ (Legs \X {p})
  /\ lastSize' = [lastSize EXCEPT ![p] = pos[p].size]
  /\ Races(p)
  /\ UNCHANGED <<members, orderState, reopened>>

ClosePartly(p, n) == /\ IsOpen(p)
                     /\ n < pos[p].size
                     /\ pos' = [pos EXCEPT ![p].size = @ - n]
                     /\ UNCHANGED <<index, open, members, orderState, edit, batch, history>>

Close(p) == CloseFull(p, "CLOSED") /\ UNCHANGED batch

\* handle_close_all_positions: the members of pos:{user}, one after the other.
CloseAllBegins(status) ==
  /\ ~batch.on
  /\ batch' = [on |-> TRUE, status |-> status, todo |-> members,
               exempt |-> OpenIds \ members]
  /\ UNCHANGED <<pos, index, open, members, orderState, edit, history>>

CloseAllCloses(p) == /\ p \in batch.todo
                     /\ CloseFull(p, batch.status)
                     /\ batch' = [batch EXCEPT !.todo = @ \ {p}]

\* Mutant: close_all closes part of its snapshot only.
CloseAllSkipsOpen(p) ==
  /\ p \in batch.todo
  /\ batch' = [batch EXCEPT !.todo = @ \ {p}]
  /\ UNCHANGED <<pos, index, open, members, orderState, edit, history>>

CloseAllSkips(p) == /\ p \in batch.todo /\ ~IsOpen(p)
                    /\ batch' = [batch EXCEPT !.todo = @ \ {p}]
                    /\ UNCHANGED <<pos, index, open, members, orderState, edit, history>>

\* No tick of the symbol is cached: the position stays open.
CloseAllNoTick(p) == /\ p \in batch.todo /\ IsOpen(p)
                     /\ batch' = [batch EXCEPT !.todo = @ \ {p}, !.exempt = @ \cup {p}]
                     /\ UNCHANGED <<pos, index, open, members, orderState, edit, history>>

CloseAllEnds == /\ batch.on /\ batch.todo = {}
                /\ batch' = NoBatch
                /\ UNCHANGED <<pos, index, open, members, orderState, edit, history>>

-------------------------------------------------------------------------------
(* atomic_reopen_position.lua, atomic_reopen_position_with_params.lua and  *)
(* atomic_update_position_params.lua: the commands of an administrator.    *)

\* original_size or, failing that, size.
Restored(p) == IF pos[p].original # 0 THEN pos[p].original ELSE pos[p].size

\* pos:{user} is not written, and original_size stays set.
Reopen(p) ==
  /\ IsClosed(p)
  /\ Restored(p) > 0
  /\ pos' = [pos EXCEPT ![p].status = "OPEN", ![p].size = Restored(p)]
  /\ open' = open \cup {p}
  /\ Reindex({}, p, pos[p].level)
  /\ unsure' = unsure \cup (Lost(pos[p].level) \X {p})
  /\ reopened' = reopened \cup {p}
  /\ Races(p) /\ Opens(p)
  /\ UNCHANGED <<members, orderState, lastSize>>

\* A size n of 0 is one not given; legs not given are cleared.
ReopenWith(p, s, n, req) ==
  LET size == IF n > 0 THEN n ELSE Restored(p) IN
  /\ IsClosed(p)
  /\ size > 0
  /\ pos' = [pos EXCEPT ![p].status = "OPEN", ![p].size = size,
                        ![p].side = s, ![p].level = req]
  /\ open' = open \cup {p}
  /\ Reindex({p}, p, req)
  /\ unsure' = unsure \ (Legs \X {p})
  /\ reopened' = reopened \cup {p}
  /\ Races(p) /\ Opens(p)
  /\ UNCHANGED <<members, orderState, lastSize>>

\* Mutant: a leg not given is cleared in the hash, not in its index.
UpdateKeepsIndex(p, n, req) ==
  /\ IsOpen(p)
  /\ pos' = [pos EXCEPT ![p].size = IF n > 0 THEN n ELSE @, ![p].level = req]
  /\ open' = open \cup {p}
  /\ Reindex({}, p, req)
  /\ unsure' = unsure \ (Legs \X {p})
  /\ Races(p)
  /\ UNCHANGED <<members, orderState, batch, reopened, lastSize>>

UpdateParams(p, n, req) ==
  /\ IsOpen(p)
  /\ pos' = [pos EXCEPT ![p].size = IF n > 0 THEN n ELSE @, ![p].level = req]
  /\ open' = open \cup {p}
  /\ Reindex({p}, p, req)
  /\ unsure' = unsure \ (Legs \X {p})
  /\ Races(p)
  /\ UNCHANGED <<members, orderState, batch, reopened, lastSize>>

-------------------------------------------------------------------------------
(* update_position_sltp of auth-service: HSET of the level, then ZADD or   *)
(* ZREM, without looking at the status.  A request with both legs is two   *)
(* of these in a row.                                                      *)

\* Another request that edits the same leg is raced by this write.
Collides(e, p, l, next) ==
  edit' = [f \in Editors |->
             IF f = e THEN next
             ELSE IF edit[f] # NoEdit /\ edit[f].id = p /\ edit[f].leg = l
                  THEN [edit[f] EXCEPT !.raced = TRUE] ELSE edit[f]]

EditShows(e, p, l, v) ==
  /\ edit[e] = NoEdit
  /\ pos[p].status # "NONE"
  /\ pos' = [pos EXCEPT ![p].level[l] = v]
  /\ Collides(e, p, l, [id |-> p, leg |-> l, level |-> v, raced |-> FALSE])
  /\ UNCHANGED <<index, open, members, orderState, batch, history>>

EditArms(e) ==
  LET r == edit[e] IN
  /\ r # NoEdit
  /\ index' = [index EXCEPT ![r.leg][r.id] = r.level]
  /\ Collides(e, r.id, r.leg, NoEdit)
  /\ unsure' = IF IsOpen(r.id) /\ ~r.raced
               THEN unsure \ {<<r.leg, r.id>>} ELSE unsure \cup {<<r.leg, r.id>>}
  /\ UNCHANGED <<pos, open, members, orderState, batch, reopened, lastSize>>

\* The second Redis call fails: the handler answers 500 and leaves the first.
EditFails(e) == /\ edit[e] # NoEdit
                /\ edit' = [edit EXCEPT ![e] = NoEdit]
                /\ unsure' = unsure \cup {<<edit[e].leg, edit[e].id>>}
                /\ UNCHANGED <<pos, index, open, members, orderState, batch, reopened, lastSize>>

-------------------------------------------------------------------------------
(* update_user_account_type of auth-service: count the open positions in   *)
(* Redis, then update the row in Postgres.                                 *)

SwitchChecks(t) == /\ Switching /\ switching = "none" /\ t # account
                   /\ OpenIds \cap members = {}
                   /\ switching' = t
                   /\ UNCHANGED <<pos, index, open, members, account, sent, filled, edit, batch, history>>

SwitchWrites == /\ switching # "none"
                /\ account' = switching /\ switching' = "none"
                /\ UNCHANGED <<pos, index, open, members, sent, filled, edit, batch, history>>

-------------------------------------------------------------------------------

FillStep(q) == \E s \in Sides, n \in 1..MaxSize :
                 \/ \E req \in Request : FillCreates(q, s, n, req)
                 \/ \E p \in Ids : \/ \E req \in Request : FillAdds(q, p, s, n, req)
                                   \/ FillReduces(q, p, s, n)
                                   \/ FillCloses(q, p, s, n)
                                   \/ \E req \in Request : FillFlips(q, p, s, n, req)

CloseStep(p) == \/ Close(p)
                \/ \E n \in 1..MaxSize : ClosePartly(p, n)
                \/ CloseAllCloses(p) \/ CloseAllSkips(p) \/ CloseAllNoTick(p)

AdminStep(p) == \/ Reopen(p)
                \/ \E n \in 0..MaxSize, req \in Request :
                     UpdateParams(p, n, req) \/ \E s \in Sides : ReopenWith(p, s, n, req)

EditStep(e) == \/ \E p \in Ids, l \in Legs, v \in Levels \cup {None} : EditShows(e, p, l, v)
               \/ EditArms(e) \/ EditFails(e)

Next == \/ \E q \in Ids : Place(q) \/ FillStep(q) \/ CloseStep(q) \/ AdminStep(q)
        \/ \E status \in StopOuts : CloseAllBegins(status)
        \/ CloseAllEnds
        \/ \E e \in Editors : EditStep(e)
        \/ \E t \in Accounts : SwitchChecks(t)
        \/ SwitchWrites

Spec == Init /\ [][Next]_vars

-------------------------------------------------------------------------------
(* Properties.                                                             *)

\* Type correctness: in particular no sequence of partial closes, netting
\* fills and reopens leaves a negative size in the hash.
TypeOK == /\ pos \in [Ids -> Position]
          /\ index \in [Legs -> [Ids -> Levels \cup {None}]]
          /\ open \subseteq Ids /\ members \subseteq Ids
          /\ account \in Accounts /\ switching \in Accounts \cup {"none"}
          /\ sent \in [Ids -> Accounts \cup {"none"}] /\ filled \subseteq Ids
          /\ edit \in [Editors -> Edit \cup {NoEdit}]
          /\ batch \in Batch
          /\ reopened \subseteq Ids /\ unsure \subseteq Legs \X Ids
          /\ lastSize \in [Ids -> 0..MaxSize]

\* pos:open, from which the engine decides whether to look at the triggers of a
\* symbol, holds exactly the OPEN positions, also after scripts that raised an
\* error half-way and after netting fills that close one and open another.
OpenIndexed == open = OpenIds

\* A position is OPEN exactly as long as it has a size: however it is closed,
\* a record that still has size can be closed again, and one without cannot.
SizedIffOpen == \A p \in Ids : IsOpen(p) <=> pos[p].size > 0

\* The triggers agree with the levels the user sees: the indexes file a leg
\* under the level in the hash of an OPEN position and no other, for every leg
\* that no script error, netting merge or raced or failed edit has left in doubt.
ArmedIsShown ==
  \A p \in Ids, l \in Legs :
    \/ <<l, p>> \in unsure
    \/ \E e \in Editors : edit[e] # NoEdit /\ edit[e].id = p /\ edit[e].leg = l
    \/ index[l][p] = IF IsOpen(p) /\ pos[p].level[l] \in Levels
                     THEN pos[p].level[l] ELSE None

\* Netting: fills of netting orders keep one net position per symbol, whatever
\* closes come between, unless an administrator reopens a closed one or orders
\* of a former hedging account are filled.
OneNetPosition ==
  reopened = {} /\ (\A q \in filled : sent[q] = "netting") => Cardinality(OpenIds) <= 1

\* close_all, the stop-out check and the account-type check find positions
\* through pos:{user}: every OPEN one is there, except one a netting fill took
\* out of the set and an administrator reopened.
OpenIsListed ==
  \A p \in OpenIds : p \in members \/ (p \in reopened /\ \E q \in filled : sent[q] = "netting")

\* Stop-out and liquidation: what close_all has passed is closed, except
\* positions opened after its snapshot, not in pos:{user}, or without a tick,
\* whatever fills, closes and reopens run between its steps.
StopOutCloses == batch.on => OpenIds \subseteq batch.todo \cup batch.exempt

\* Reopening "restores the same position record": without netting fills a
\* reopened position gets the size it had before its last full close, whatever
\* partial closes, updates and reopens came before.
RestoresSize ==
  [][ (\A q \in filled : sent[q] = "hedging")
      => \A p \in Ids : Reopen(p) => pos'[p].size = lastSize[p] ]_vars
===============================================================================
