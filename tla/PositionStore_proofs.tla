------------------------- MODULE PositionStore_proofs --------------------------
(***************************************************************************)
(* Proofs about PositionStore, for every set of orders, editors and        *)
(* levels, and every maximal size.                                         *)
(***************************************************************************)
EXTENDS PositionStore, FiniteSetTheorems, TLAPS

USE DEF orderState, history, Legs, Sides, Accounts, NoEdit, IsOpen, IsClosed, OpenIds

\* The inductive invariant: pos:open can only be told from the statuses if the
\* sizes tell which of them a script may change.
StoreInv == TypeOK /\ OpenIndexed /\ SizedIffOpen

-------------------------------------------------------------------------------
(* What the scripts share.                                                 *)

\* What a new position shows for the levels of its order.
LEMMA ShownType ==
  ASSUME NEW req \in Request
  PROVE  Shown(req) \in [Legs -> Levels \cup {None, Junk}]
BY LevelKinds DEF Shown, Request

\* A request is also a record of levels.
LEMMA RequestType ==
  ASSUME NEW req \in Request
  PROVE  req \in [Legs -> Levels \cup {None, Junk}]
BY DEF Request

\* A cleared position has no level.
LEMMA NoRequestType == NoRequest \in Request
BY DEF NoRequest, Request

\* Reindex files levels only, never None's look-alike in the hash.
LEMMA ReindexType ==
  ASSUME TypeOK, NEW gone, NEW p \in Ids, NEW level, Reindex(gone, p, level)
  PROVE  index' \in [Legs -> [Ids -> Levels \cup {None}]]
<1>1. \A l \in Legs, x \in Ids : index[l][x] \in Levels \cup {None}
  BY DEF TypeOK
<1>2. \A l \in Armed(level) : level[l] \in Levels
  BY DEF Armed
<1>. QED BY <1>1, <1>2, Zenon DEF Reindex

\* Marking the requests on a position as raced keeps them requests.
LEMMA RacesType ==
  ASSUME TypeOK, NEW p \in Ids, Races(p)
  PROVE  edit' \in [Editors -> Edit \cup {NoEdit}]
<1>1. SUFFICES ASSUME NEW e \in Editors PROVE edit'[e] \in Edit \cup {NoEdit}
  BY DEF Races
<1>2. edit[e] \in Edit \cup {NoEdit}
  BY DEF TypeOK
<1>3. edit'[e] = IF edit[e] # NoEdit /\ edit[e].id = p
                 THEN [edit[e] EXCEPT !.raced = TRUE] ELSE edit[e]
  BY DEF Races
<1>. QED BY <1>2, <1>3 DEF Edit

\* So does marking those on the same leg, and ending or starting one.
LEMMA CollidesType ==
  ASSUME TypeOK, NEW e \in Editors, NEW p, NEW l, NEW next \in Edit \cup {NoEdit},
         Collides(e, p, l, next)
  PROVE  edit' \in [Editors -> Edit \cup {NoEdit}]
<1>1. SUFFICES ASSUME NEW f \in Editors PROVE edit'[f] \in Edit \cup {NoEdit}
  BY DEF Collides
<1>2. edit[f] \in Edit \cup {NoEdit}
  BY DEF TypeOK
<1>3. edit'[f] = IF f = e THEN next
                 ELSE IF edit[f] # NoEdit /\ edit[f].id = p /\ edit[f].leg = l
                      THEN [edit[f] EXCEPT !.raced = TRUE] ELSE edit[f]
  BY DEF Collides
<1>. QED BY <1>2, <1>3 DEF Edit

\* Recording an opened position in the running close_all keeps it a batch.
LEMMA OpensType ==
  ASSUME TypeOK, NEW p \in Ids, Opens(p)
  PROVE  batch' \in Batch
BY DEF TypeOK, Opens, Batch

\* A position opened by a fill is a position, open and with a size.
LEMMA NewPositionType ==
  ASSUME TypeOK, NEW q \in Ids, NEW s \in Sides, NEW n \in 1..MaxSize, NEW req \in Request
  PROVE  /\ NewPosition(q, s, n, req) \in Position
         /\ NewPosition(q, s, n, req).status = "OPEN"
         /\ NewPosition(q, s, n, req).size = n
<1>1. pos[q] \in Position /\ Shown(req) \in [Legs -> Levels \cup {None, Junk}] /\ n \in 0..MaxSize
  BY ShownType, SizeBound DEF TypeOK
<1>. QED BY <1>1 DEF NewPosition, Position

\* A position netted out by a fill is a position, closed and without size.
LEMMA NettedOutType ==
  ASSUME TypeOK, NEW p \in Ids
  PROVE  /\ NettedOut(p) \in Position
         /\ NettedOut(p).status = "CLOSED"
         /\ NettedOut(p).size = 0
<1>1. pos[p] \in Position /\ 0 \in 0..MaxSize
  BY SizeBound DEF TypeOK
<1>. QED BY <1>1 DEF NettedOut, Position

\* The three parts of the invariant follow, for a script that writes the hash
\* of one position, from what it makes of that position and of pos:open.
LEMMA OneWritten ==
  ASSUME StoreInv, NEW p \in Ids, NEW new \in Position,
         pos' = [pos EXCEPT ![p] = new],
         (new.status = "OPEN") <=> (new.size > 0),
         open' = IF new.status = "OPEN" THEN open \cup {p} ELSE open \ {p}
  PROVE  pos' \in [Ids -> Position] /\ open' \subseteq Ids /\ OpenIndexed' /\ SizedIffOpen'
BY DEF StoreInv, TypeOK, OpenIndexed, SizedIffOpen

-------------------------------------------------------------------------------
(* The fill script.                                                        *)

LEMMA CreatesInv ==
  ASSUME StoreInv, NEW q \in Ids, NEW s \in Sides, NEW n \in 1..MaxSize, NEW req \in Request,
         FillCreates(q, s, n, req)
  PROVE  StoreInv'
<1>1. TypeOK /\ index' \in [Legs -> [Ids -> Levels \cup {None}]]
  BY ReindexType DEF StoreInv, FillCreates
<1>2. batch' \in Batch
  BY OpensType DEF StoreInv, FillCreates
<1>3. /\ pos' \in [Ids -> Position] /\ open' \subseteq Ids
      /\ OpenIndexed' /\ SizedIffOpen'
  <2>. DEFINE new == NewPosition(q, s, n, req)
  <2>1. new \in Position /\ new.status = "OPEN" /\ new.size = n
    BY NewPositionType DEF StoreInv
  <2>2. pos' = [pos EXCEPT ![q] = new] /\ open' = open \cup {q} /\ n > 0
    BY SizeBound DEF FillCreates
  <2>. HIDE DEF new
  <2>. QED BY <2>1, <2>2, OneWritten
<1>4. unsure' \subseteq Legs \X Ids
  BY <1>1 DEF TypeOK, FillCreates, Lost
<1>. QED BY <1>1, <1>2, <1>3, <1>4 DEF StoreInv, TypeOK, FillCreates, Fills

LEMMA AddsInv ==
  ASSUME StoreInv, NEW q \in Ids, NEW p \in Ids, NEW s \in Sides, NEW n \in 1..MaxSize,
         NEW req \in Request, FillAdds(q, p, s, n, req)
  PROVE  StoreInv'
<1>1. TypeOK /\ index' \in [Legs -> [Ids -> Levels \cup {None}]]
  BY ReindexType DEF StoreInv, FillAdds
<1>2. edit' \in [Editors -> Edit \cup {NoEdit}]
  BY <1>1, RacesType DEF FillAdds
<1>3. /\ pos' \in [Ids -> Position] /\ open' \subseteq Ids
      /\ OpenIndexed' /\ SizedIffOpen'
  <2>. DEFINE new == [pos[p] EXCEPT !.size = @ + n]
  <2>1. pos[p] \in Position /\ pos[p].status = "OPEN" /\ pos[p].size + n \in 1..MaxSize
    BY <1>1, SizeBound DEF TypeOK, FillAdds, Same, Position
  <2>2. new \in Position /\ new.status = "OPEN" /\ new.size > 0
    BY <2>1, SizeBound DEF Position
  <2>3. pos' = [pos EXCEPT ![p] = new] /\ open' = open \cup {p}
    BY <1>1 DEF FillAdds, TypeOK
  <2>. HIDE DEF new
  <2>. QED BY <2>2, <2>3, OneWritten
<1>4. unsure' \subseteq Legs \X Ids
  BY <1>1 DEF TypeOK, FillAdds, Armed
<1>. QED BY <1>1, <1>2, <1>3, <1>4 DEF StoreInv, TypeOK, FillAdds, Fills

LEMMA ReducesInv ==
  ASSUME StoreInv, NEW q \in Ids, NEW p \in Ids, NEW s \in Sides, NEW n \in 1..MaxSize,
         FillReduces(q, p, s, n)
  PROVE  StoreInv'
<1>1. /\ pos' \in [Ids -> Position] /\ open' \subseteq Ids
      /\ OpenIndexed' /\ SizedIffOpen'
  <2>. DEFINE new == [pos[p] EXCEPT !.size = @ - n]
  <2>1. pos[p] \in Position /\ pos[p].status = "OPEN" /\ pos[p].size - n \in 1..MaxSize
    BY SizeBound DEF StoreInv, TypeOK, FillReduces, Opposite, Position
  <2>2. new \in Position /\ new.status = "OPEN" /\ new.size > 0
    BY <2>1, SizeBound DEF Position
  <2>3. pos' = [pos EXCEPT ![p] = new] /\ open' = open \cup {p}
    BY DEF StoreInv, FillReduces, TypeOK
  <2>. HIDE DEF new
  <2>. QED BY <2>2, <2>3, OneWritten
<1>. QED BY <1>1 DEF StoreInv, TypeOK, FillReduces, Fills

LEMMA ClosesInv ==
  ASSUME StoreInv, NEW q \in Ids, NEW p \in Ids, NEW s \in Sides, NEW n \in 1..MaxSize,
         FillCloses(q, p, s, n)
  PROVE  StoreInv'
<1>1. TypeOK /\ index' \in [Legs -> [Ids -> Levels \cup {None}]]
  BY ReindexType DEF StoreInv, FillCloses
<1>2. edit' \in [Editors -> Edit \cup {NoEdit}]
  BY <1>1, RacesType DEF FillCloses
<1>3. /\ pos' \in [Ids -> Position] /\ open' \subseteq Ids
      /\ OpenIndexed' /\ SizedIffOpen'
  <2>. DEFINE new == NettedOut(p)
  <2>1. new \in Position /\ new.status = "CLOSED" /\ new.size = 0
    BY <1>1, NettedOutType
  <2>2. pos' = [pos EXCEPT ![p] = new] /\ open' = open \ {p}
    BY DEF FillCloses
  <2>. HIDE DEF new
  <2>3. new.status # "OPEN" /\ ~(new.size > 0)
    BY <2>1
  <2>. QED BY <2>1, <2>2, <2>3, OneWritten
<1>4. lastSize' \in [Ids -> 0..MaxSize] /\ unsure' \subseteq Legs \X Ids
  BY <1>1 DEF TypeOK, FillCloses, Position
<1>. QED BY <1>1, <1>2, <1>3, <1>4 DEF StoreInv, TypeOK, FillCloses, Fills

LEMMA FlipsInv ==
  ASSUME StoreInv, NEW q \in Ids, NEW p \in Ids, NEW s \in Sides, NEW n \in 1..MaxSize,
         NEW req \in Request, FillFlips(q, p, s, n, req)
  PROVE  StoreInv'
<1>1. TypeOK /\ index' \in [Legs -> [Ids -> Levels \cup {None}]]
  BY ReindexType DEF StoreInv, FillFlips
<1>2. edit' \in [Editors -> Edit \cup {NoEdit}] /\ batch' \in Batch
  BY <1>1, RacesType, OpensType DEF FillFlips
<1>3. /\ pos' \in [Ids -> Position] /\ open' \subseteq Ids
      /\ OpenIndexed' /\ SizedIffOpen'
  <2>. DEFINE rest == n - pos[p].size
              old  == NettedOut(p)
              new  == NewPosition(q, s, rest, req)
  <2>1. rest \in 1..MaxSize
    BY <1>1, SizeBound DEF FillFlips, TypeOK, Position
  <2>2. old \in Position /\ old.status = "CLOSED" /\ old.size = 0
    BY <1>1, NettedOutType
  <2>. HIDE DEF rest
  <2>3. new \in Position /\ new.status = "OPEN" /\ new.size = rest /\ rest > 0
    BY <1>1, <2>1, NewPositionType, SizeBound
  <2>4. pos' = [pos EXCEPT ![p] = old, ![q] = new]
    BY DEF FillFlips, rest
  <2>5. open' = (open \ {p}) \cup {q}
    BY DEF FillFlips
  <2>. HIDE DEF old, new
  <2>. QED BY <2>2, <2>3, <2>4, <2>5 DEF StoreInv, TypeOK, OpenIndexed, SizedIffOpen
<1>4. lastSize' \in [Ids -> 0..MaxSize] /\ unsure' \subseteq Legs \X Ids
  BY <1>1 DEF TypeOK, FillFlips, Position, Lost
<1>. QED BY <1>1, <1>2, <1>3, <1>4 DEF StoreInv, TypeOK, FillFlips, Fills

LEMMA FillInv == ASSUME StoreInv, NEW q \in Ids, FillStep(q) PROVE StoreInv'
<1>1. PICK s \in Sides, n \in 1..MaxSize :
        \/ \E req \in Request : FillCreates(q, s, n, req)
        \/ \E p \in Ids : \/ \E req \in Request : FillAdds(q, p, s, n, req)
                          \/ FillReduces(q, p, s, n)
                          \/ FillCloses(q, p, s, n)
                          \/ \E req \in Request : FillFlips(q, p, s, n, req)
  BY DEF FillStep
<1>. QED BY <1>1, CreatesInv, AddsInv, ReducesInv, ClosesInv, FlipsInv
-------------------------------------------------------------------------------
(* The close, reopen and update scripts.                                   *)

LEMMA CloseFullInv ==
  ASSUME StoreInv, NEW p \in Ids, NEW status \in {"CLOSED", "LIQUIDATED"},
         CloseFull(p, status), batch' \in Batch
  PROVE  StoreInv'
<1>1. TypeOK /\ index' \in [Legs -> [Ids -> Levels \cup {None}]]
  BY ReindexType DEF StoreInv, CloseFull
<1>2. edit' \in [Editors -> Edit \cup {NoEdit}]
  BY <1>1, RacesType DEF CloseFull
<1>3. /\ pos' \in [Ids -> Position] /\ open' \subseteq Ids
      /\ OpenIndexed' /\ SizedIffOpen'
  <2>. DEFINE new == [pos[p] EXCEPT !.status = status, !.size = 0, !.original = pos[p].size]
  <2>1. pos[p] \in Position /\ pos[p].size \in 0..MaxSize /\ 0 \in 0..MaxSize
    BY <1>1, SizeBound DEF TypeOK, Position
  <2>2. new \in Position
    BY <2>1 DEF Position
  <2>3. new.status = status /\ new.size = 0
    BY <2>1 DEF Position
  <2>4. pos' = [pos EXCEPT ![p] = new] /\ open' = open \ {p}
    BY <1>1 DEF CloseFull, TypeOK
  <2>. HIDE DEF new
  <2>5. new.status # "OPEN" /\ ~(new.size > 0)
    BY <2>3
  <2>. QED BY <2>2, <2>4, <2>5, OneWritten
<1>4. lastSize' \in [Ids -> 0..MaxSize] /\ unsure' \subseteq Legs \X Ids
  BY <1>1 DEF TypeOK, CloseFull, Position
<1>. QED BY <1>1, <1>2, <1>3, <1>4 DEF StoreInv, TypeOK, CloseFull

LEMMA ClosePartlyInv ==
  ASSUME StoreInv, NEW p \in Ids, NEW n \in 1..MaxSize, ClosePartly(p, n)
  PROVE  StoreInv'
<1>1. /\ pos' \in [Ids -> Position] /\ open' \subseteq Ids
      /\ OpenIndexed' /\ SizedIffOpen'
  <2>. DEFINE new == [pos[p] EXCEPT !.size = @ - n]
  <2>1. pos[p] \in Position /\ pos[p].status = "OPEN" /\ pos[p].size - n \in 1..MaxSize
    BY SizeBound DEF StoreInv, TypeOK, ClosePartly, Position
  <2>2. new \in Position /\ new.status = "OPEN" /\ new.size > 0
    BY <2>1, SizeBound DEF Position
  <2>3. pos' = [pos EXCEPT ![p] = new] /\ open' = open \cup {p}
    BY <2>1 DEF StoreInv, ClosePartly, TypeOK, OpenIndexed
  <2>. HIDE DEF new
  <2>. QED BY <2>2, <2>3, OneWritten
<1>. QED BY <1>1 DEF StoreInv, TypeOK, ClosePartly

LEMMA CloseInv == ASSUME StoreInv, NEW p \in Ids, CloseStep(p) PROVE StoreInv'
<1>1. CASE Close(p)
  <2>1. batch' \in Batch
    BY <1>1 DEF Close, StoreInv, TypeOK
  <2>. QED BY <1>1, <2>1, CloseFullInv DEF Close
<1>2. CASE \E n \in 1..MaxSize : ClosePartly(p, n)
  BY <1>2, ClosePartlyInv
<1>3. CASE CloseAllCloses(p)
  <2>1. batch' \in Batch /\ batch.status \in {"CLOSED", "LIQUIDATED"}
    BY <1>3 DEF CloseAllCloses, StoreInv, TypeOK, Batch
  <2>. QED BY <1>3, <2>1, CloseFullInv DEF CloseAllCloses
<1>4. CASE CloseAllSkips(p)
  BY <1>4 DEF CloseAllSkips, StoreInv, TypeOK, OpenIndexed, SizedIffOpen, Batch
<1>5. CASE CloseAllNoTick(p)
  BY <1>5 DEF CloseAllNoTick, StoreInv, TypeOK, OpenIndexed, SizedIffOpen, Batch
<1>. QED BY <1>1, <1>2, <1>3, <1>4, <1>5 DEF CloseStep

LEMMA ReopenInv == ASSUME StoreInv, NEW p \in Ids, Reopen(p) PROVE StoreInv'
<1>1. TypeOK /\ index' \in [Legs -> [Ids -> Levels \cup {None}]]
  BY ReindexType DEF StoreInv, Reopen
<1>2. edit' \in [Editors -> Edit \cup {NoEdit}] /\ batch' \in Batch
  BY <1>1, RacesType, OpensType DEF Reopen
<1>3. /\ pos' \in [Ids -> Position] /\ open' \subseteq Ids
      /\ OpenIndexed' /\ SizedIffOpen'
  <2>. DEFINE new == [pos[p] EXCEPT !.status = "OPEN", !.size = Restored(p)]
  <2>1. pos[p] \in Position /\ Restored(p) \in 0..MaxSize /\ Restored(p) > 0
    BY <1>1 DEF TypeOK, Reopen, Restored, Position
  <2>2. new \in Position /\ new.status = "OPEN" /\ new.size > 0
    BY <2>1 DEF Position
  <2>3. pos' = [pos EXCEPT ![p] = new] /\ open' = open \cup {p}
    BY <1>1 DEF Reopen, TypeOK
  <2>. HIDE DEF new
  <2>. QED BY <2>2, <2>3, OneWritten
<1>4. unsure' \subseteq Legs \X Ids
  BY <1>1 DEF TypeOK, Reopen, Lost
<1>. QED BY <1>1, <1>2, <1>3, <1>4 DEF StoreInv, TypeOK, Reopen

LEMMA ReopenWithInv ==
  ASSUME StoreInv, NEW p \in Ids, NEW s \in Sides, NEW n \in 0..MaxSize, NEW req \in Request,
         ReopenWith(p, s, n, req)
  PROVE  StoreInv'
<1>1. TypeOK /\ index' \in [Legs -> [Ids -> Levels \cup {None}]]
  BY ReindexType DEF StoreInv, ReopenWith
<1>2. edit' \in [Editors -> Edit \cup {NoEdit}] /\ batch' \in Batch
  BY <1>1, RacesType, OpensType DEF ReopenWith
<1>3. /\ pos' \in [Ids -> Position] /\ open' \subseteq Ids
      /\ OpenIndexed' /\ SizedIffOpen'
  <2>. DEFINE size == IF n > 0 THEN n ELSE Restored(p)
              new  == [pos[p] EXCEPT !.status = "OPEN", !.size = size, !.side = s, !.level = req]
  <2>1. pos[p] \in Position /\ size \in 0..MaxSize /\ size > 0
    BY <1>1 DEF TypeOK, ReopenWith, Restored, Position
  <2>2. pos' = [pos EXCEPT ![p] = new] /\ open' = open \cup {p}
    BY <1>1 DEF ReopenWith, TypeOK
  <2>. HIDE DEF size
  <2>3. new \in Position /\ new.status = "OPEN" /\ new.size > 0
    BY <2>1, RequestType DEF Position
  <2>. HIDE DEF new
  <2>. QED BY <2>2, <2>3, OneWritten
<1>4. unsure' \subseteq Legs \X Ids
  BY <1>1 DEF TypeOK, ReopenWith
<1>. QED BY <1>1, <1>2, <1>3, <1>4 DEF StoreInv, TypeOK, ReopenWith

LEMMA UpdateInv ==
  ASSUME StoreInv, NEW p \in Ids, NEW n \in 0..MaxSize, NEW req \in Request,
         UpdateParams(p, n, req)
  PROVE  StoreInv'
<1>1. TypeOK /\ index' \in [Legs -> [Ids -> Levels \cup {None}]]
  BY ReindexType DEF StoreInv, UpdateParams
<1>2. edit' \in [Editors -> Edit \cup {NoEdit}]
  BY <1>1, RacesType DEF UpdateParams
<1>3. /\ pos' \in [Ids -> Position] /\ open' \subseteq Ids
      /\ OpenIndexed' /\ SizedIffOpen'
  <2>. DEFINE size == IF n > 0 THEN n ELSE pos[p].size
              new  == [pos[p] EXCEPT !.size = size, !.level = req]
  <2>1. pos[p] \in Position /\ pos[p].status = "OPEN" /\ size \in 0..MaxSize /\ size > 0
    BY DEF StoreInv, TypeOK, SizedIffOpen, UpdateParams, Position
  <2>2. pos' = [pos EXCEPT ![p] = new] /\ open' = open \cup {p}
    BY <1>1 DEF UpdateParams, TypeOK
  <2>. HIDE DEF size
  <2>3. new \in Position /\ new.status = "OPEN" /\ new.size > 0
    BY <2>1, RequestType DEF Position
  <2>. HIDE DEF new
  <2>. QED BY <2>2, <2>3, OneWritten
<1>4. unsure' \subseteq Legs \X Ids
  BY <1>1 DEF TypeOK, UpdateParams
<1>. QED BY <1>1, <1>2, <1>3, <1>4 DEF StoreInv, TypeOK, UpdateParams

LEMMA AdminInv == ASSUME StoreInv, NEW p \in Ids, AdminStep(p) PROVE StoreInv'
BY ReopenInv, ReopenWithInv, UpdateInv DEF AdminStep

-------------------------------------------------------------------------------
(* The edits, the close_all command, orders and the account type.          *)

LEMMA EditShowsInv ==
  ASSUME StoreInv, NEW e \in Editors, NEW p \in Ids, NEW l \in Legs,
         NEW v \in Levels \cup {None}, EditShows(e, p, l, v)
  PROVE  StoreInv'
<1>. DEFINE r   == [id |-> p, leg |-> l, level |-> v, raced |-> FALSE]
            new == [pos[p] EXCEPT !.level[l] = v]
<1>1. edit' \in [Editors -> Edit \cup {NoEdit}]
  <2>1. r \in Edit /\ Collides(e, p, l, r)
    BY DEF Edit, EditShows
  <2>. HIDE DEF r
  <2>. QED BY <2>1, CollidesType DEF StoreInv
<1>2. new \in Position /\ new.status = pos[p].status /\ new.size = pos[p].size
  BY ZenonT(60) DEF StoreInv, TypeOK, Position
<1>3. pos' = [pos EXCEPT ![p] = new] /\ open' = open
  BY DEF EditShows, StoreInv, TypeOK
<1>. HIDE DEF new
<1>4. /\ pos' \in [Ids -> Position] /\ open' \subseteq Ids
      /\ OpenIndexed' /\ SizedIffOpen'
  BY <1>2, <1>3 DEF StoreInv, TypeOK, OpenIndexed, SizedIffOpen
<1>. QED BY <1>1, <1>4 DEF StoreInv, TypeOK, EditShows

LEMMA EditArmsInv == ASSUME StoreInv, NEW e \in Editors, EditArms(e) PROVE StoreInv'
<1>. DEFINE r == edit[e]
<1>1. r \in Edit
  BY DEF EditArms, StoreInv, TypeOK
<1>2. edit' \in [Editors -> Edit \cup {NoEdit}]
  BY CollidesType DEF EditArms, StoreInv
<1>3. r.id \in Ids /\ r.leg \in Legs /\ r.level \in Levels \cup {None}
  BY <1>1 DEF Edit
<1>4. index' = [index EXCEPT ![r.leg][r.id] = r.level]
  BY DEF EditArms
<1>5. unsure' = unsure \ {<<r.leg, r.id>>} \/ unsure' = unsure \cup {<<r.leg, r.id>>}
  BY DEF EditArms
<1>. HIDE DEF r
<1>6. index' \in [Legs -> [Ids -> Levels \cup {None}]] /\ unsure' \subseteq Legs \X Ids
  BY <1>3, <1>4, <1>5 DEF StoreInv, TypeOK
<1>. QED BY <1>2, <1>6 DEF StoreInv, TypeOK, OpenIndexed, SizedIffOpen, EditArms

LEMMA EditFailsInv == ASSUME StoreInv, NEW e \in Editors, EditFails(e) PROVE StoreInv'
<1>1. edit[e] \in Edit
  BY DEF EditFails, StoreInv, TypeOK
<1>2. <<edit[e].leg, edit[e].id>> \in Legs \X Ids
  BY <1>1 DEF Edit
<1>. QED BY <1>2 DEF StoreInv, TypeOK, OpenIndexed, SizedIffOpen, EditFails

LEMMA EditInv == ASSUME StoreInv, NEW e \in Editors, EditStep(e) PROVE StoreInv'
BY EditShowsInv, EditArmsInv, EditFailsInv DEF EditStep

LEMMA StepInv == ASSUME StoreInv, [Next]_vars PROVE StoreInv'
<1>1. CASE \E q \in Ids : Place(q)
  BY <1>1 DEF Place, StoreInv, TypeOK, OpenIndexed, SizedIffOpen
<1>2. CASE \E q \in Ids : FillStep(q) \/ CloseStep(q) \/ AdminStep(q)
  BY <1>2, FillInv, CloseInv, AdminInv
<1>3. CASE \E status \in StopOuts : CloseAllBegins(status)
  BY <1>3, Switches DEF CloseAllBegins, StoreInv, TypeOK, OpenIndexed, SizedIffOpen, Batch
<1>4. CASE CloseAllEnds
  BY <1>4 DEF CloseAllEnds, NoBatch, StoreInv, TypeOK, OpenIndexed, SizedIffOpen, Batch
<1>5. CASE \E e \in Editors : EditStep(e)
  BY <1>5, EditInv
<1>6. CASE (\E t \in Accounts : SwitchChecks(t)) \/ SwitchWrites
  BY <1>6 DEF SwitchChecks, SwitchWrites, StoreInv, TypeOK, OpenIndexed, SizedIffOpen
<1>7. CASE UNCHANGED vars
  BY <1>7 DEF vars, StoreInv, TypeOK, OpenIndexed, SizedIffOpen
<1>. QED BY <1>1, <1>2, <1>3, <1>4, <1>5, <1>6, <1>7 DEF Next

-------------------------------------------------------------------------------
(* The theorems.                                                           *)

\* Every reachable store satisfies the inductive invariant.
THEOREM StoreInvariant == Spec => []StoreInv
<1>1. Init => StoreInv
  <2>. SUFFICES ASSUME Init PROVE StoreInv
    OBVIOUS
  <2>1. pos \in [Ids -> Position]
    BY NoRequestType, RequestType, SizeBound DEF Init, Position
  <2>. QED BY <2>1, SizeBound DEF Init, StoreInv, TypeOK, OpenIndexed, SizedIffOpen,
                                  NoBatch, Batch
<1>2. StoreInv /\ [Next]_vars => StoreInv'
  BY StepInv
<1>. QED BY <1>1, <1>2, PTL DEF Spec

\* The hash, the indexes and the commands in progress keep their types; no
\* sequence of closes and netting fills makes a size negative.
THEOREM StoreTypeCorrect == Spec => []TypeOK
BY StoreInvariant, PTL DEF StoreInv

\* pos:open lists the OPEN positions: the engine skips the triggers of a symbol
\* only when the user has nothing open there.
THEOREM OpenIsIndexed == Spec => []OpenIndexed
BY StoreInvariant, PTL DEF StoreInv

\* A position is OPEN as long as it has a size, however it was closed, netted,
\* updated or reopened.
THEOREM OpenHasSize == Spec => []SizedIffOpen
BY StoreInvariant, PTL DEF StoreInv

-------------------------------------------------------------------------------
(* Where open positions are found.  pos:open stands for the OPEN positions *)
(* from here on (StoreInv), and every action writes it explicitly.         *)

NettingOnly == \A q \in filled : sent[q] = "netting"
SomeNetting == \E q \in filled : sent[q] = "netting"

\* An order is filled after it was sent, so Place does not change its type.
SentInv == \A q \in filled : sent[q] # "none"

\* A netting fill sees every open position and there is one at most, so it
\* opens another only where it closes that one or there is none.
NetInv == reopened = {} /\ NettingOnly
          => open \subseteq members /\ \A p, r \in open : p = r

\* Only a netting fill takes a position out of pos:{user}, and closes it; only
\* a reopen makes such a position OPEN again.
ListInv == /\ \A p \in Ids : pos[p].status # "NONE" => p \in members \/ SomeNetting
           /\ \A p \in open : p \in members \/ p \in reopened

\* What the running close_all has passed is not open, unless exempt.
StopInv == batch.on => open \subseteq batch.todo \cup batch.exempt

\* Every branch of the fill script fills the order.
LEMMA EachFills == ASSUME NEW q, FillStep(q) PROVE Fills(q)
<1>1. PICK s \in Sides, n \in 1..MaxSize :
        \/ \E req \in Request : FillCreates(q, s, n, req)
        \/ \E p \in Ids : \/ \E req \in Request : FillAdds(q, p, s, n, req)
                          \/ FillReduces(q, p, s, n)
                          \/ FillCloses(q, p, s, n)
                          \/ \E req \in Request : FillFlips(q, p, s, n, req)
  BY DEF FillStep
<1>. QED BY <1>1 DEF FillCreates, FillAdds, FillReduces, FillCloses, FillFlips

\* No close and no command of an administrator touches the orders.
LEMMA CommandsKeepOrders ==
  ASSUME NEW p, CloseStep(p) \/ AdminStep(p) PROVE UNCHANGED <<account, switching, sent, filled>>
<1>1. CASE CloseStep(p)
  BY <1>1 DEF CloseStep, Close, CloseFull, ClosePartly, CloseAllCloses, CloseAllSkips,
              CloseAllNoTick
<1>2. CASE AdminStep(p)
  <2>1. CASE Reopen(p)
    BY <2>1 DEF Reopen
  <2>2. CASE \E n \in 0..MaxSize, req \in Request : UpdateParams(p, n, req)
    BY <2>2 DEF UpdateParams
  <2>3. CASE \E n \in 0..MaxSize, req \in Request, s \in Sides : ReopenWith(p, s, n, req)
    BY <2>3 DEF ReopenWith
  <2>. QED BY <1>2, <2>1, <2>2, <2>3 DEF AdminStep
<1>. QED BY <1>1, <1>2

LEMMA SentStep == ASSUME StoreInv, SentInv, [Next]_vars PROVE SentInv'
<1>1. CASE \E q \in Ids : Place(q)
  BY <1>1 DEF Place, SentInv, StoreInv, TypeOK
<1>2. CASE \E q \in Ids : FillStep(q)
  BY <1>2, EachFills DEF Fills, SentInv
<1>3. CASE \E q \in Ids : CloseStep(q) \/ AdminStep(q)
  BY <1>3, CommandsKeepOrders DEF SentInv
<1>4. CASE \E e \in Editors : EditStep(e)
  BY ZenonT(60), <1>4 DEF EditStep, EditShows, EditArms, EditFails, SentInv
<1>5. CASE \/ \E status \in StopOuts : CloseAllBegins(status)
           \/ CloseAllEnds
           \/ \E t \in Accounts : SwitchChecks(t)
           \/ SwitchWrites
           \/ UNCHANGED vars
  BY <1>5 DEF CloseAllBegins, CloseAllEnds, SwitchChecks, SwitchWrites, vars, SentInv
<1>. QED BY <1>1, <1>2, <1>3, <1>4, <1>5 DEF Next

\* A fill leaves the account types of the filled orders, so what holds of all
\* of them afterwards held before, and of the order itself.
LEMMA FillsNetting ==
  ASSUME NEW q \in Ids, Fills(q)
  PROVE  /\ NettingOnly' => NettingOnly /\ sent[q] = "netting"
         /\ SomeNetting \/ sent[q] = "netting" => SomeNetting'
BY DEF Fills, NettingOnly, SomeNetting

LEMMA NetFill == ASSUME StoreInv, NetInv, NEW q \in Ids, FillStep(q) PROVE NetInv'
<1>. SUFFICES ASSUME reopened' = {}, NettingOnly'
              PROVE  open' \subseteq members' /\ \A p, r \in open' : p = r
  BY DEF NetInv
<1>1. PICK s \in Sides, n \in 1..MaxSize :
        \/ \E req \in Request : FillCreates(q, s, n, req)
        \/ \E p \in Ids : \/ \E req \in Request : FillAdds(q, p, s, n, req)
                          \/ FillReduces(q, p, s, n)
                          \/ FillCloses(q, p, s, n)
                          \/ \E req \in Request : FillFlips(q, p, s, n, req)
  BY DEF FillStep
<1>2. Fills(q) /\ reopened = {}
  BY ZenonT(60), <1>1 DEF FillCreates, FillAdds, FillReduces, FillCloses, FillFlips
<1>3. sent[q] = "netting" /\ open \subseteq members /\ \A p, r \in open : p = r
  BY <1>2, FillsNetting DEF NetInv
<1>4. \A p \in Ids : p \in open <=> IsOpen(p)
  BY DEF StoreInv, TypeOK, OpenIndexed
<1>5. CASE \E req \in Request : FillCreates(q, s, n, req)
  <2>1. Same(s) \cup Opposite(s) = {} /\ open' = open \cup {q} /\ members' = members \cup {q}
    BY <1>5, <1>3 DEF FillCreates
  <2>2. open = {}
    BY <2>1, <1>3, <1>4 DEF Same, Opposite, StoreInv, TypeOK
  <2>. QED BY <2>1, <2>2
<1>6. CASE \E p \in Ids : \/ \E req \in Request : FillAdds(q, p, s, n, req)
                         \/ FillReduces(q, p, s, n)
  <2>1. PICK p \in Ids : open' = open \cup {p} /\ IsOpen(p) /\ members' = members
    BY <1>6 DEF FillAdds, FillReduces, Same, Opposite
  <2>. QED BY <2>1, <1>3, <1>4
<1>7. CASE \E p \in Ids : FillCloses(q, p, s, n)
  BY <1>7, <1>3 DEF FillCloses
<1>8. CASE \E p \in Ids, req \in Request : FillFlips(q, p, s, n, req)
  <2>1. PICK p \in Ids : /\ open' = (open \ {p}) \cup {q} /\ IsOpen(p)
                         /\ members' = (members \ {p}) \cup {q}
    BY <1>8 DEF FillFlips, Opposite
  <2>2. open \ {p} = {}
    BY <2>1, <1>3, <1>4
  <2>. QED BY <2>1, <2>2
<1>. QED BY <1>1, <1>5, <1>6, <1>7, <1>8

LEMMA NetStep == ASSUME StoreInv, SentInv, NetInv, [Next]_vars PROVE NetInv'
<1>1. CASE \E q \in Ids : Place(q)
  BY <1>1 DEF Place, SentInv, NetInv, NettingOnly, StoreInv, TypeOK, history
<1>2. CASE \E q \in Ids : FillStep(q)
  BY <1>2, NetFill
<1>3. CASE \E p \in Ids : CloseStep(p)
  BY <1>3 DEF CloseStep, Close, CloseFull, ClosePartly, CloseAllCloses, CloseAllSkips,
              CloseAllNoTick, NetInv, NettingOnly
<1>4. CASE \E p \in Ids : Reopen(p) \/ \E s \in Sides, n \in 0..MaxSize, req \in Request :
                                           ReopenWith(p, s, n, req)
  BY ZenonT(60), <1>4 DEF Reopen, ReopenWith, NetInv
<1>5. CASE \E p \in Ids, n \in 0..MaxSize, req \in Request : UpdateParams(p, n, req)
  BY <1>5 DEF UpdateParams, NetInv, NettingOnly, StoreInv, TypeOK, OpenIndexed
<1>6. CASE \E e \in Editors : EditStep(e)
  BY ZenonT(60), <1>6 DEF EditStep, EditShows, EditArms, EditFails, NetInv, NettingOnly
<1>7. CASE \/ \E status \in StopOuts : CloseAllBegins(status)
           \/ CloseAllEnds
           \/ \E t \in Accounts : SwitchChecks(t)
           \/ SwitchWrites
           \/ UNCHANGED vars
  BY <1>7 DEF CloseAllBegins, CloseAllEnds, SwitchChecks, SwitchWrites, vars, NetInv, NettingOnly
<1>. QED BY <1>1, <1>2, <1>3, <1>4, <1>5, <1>6, <1>7 DEF Next, AdminStep

\* What a fill does to pos:{user} and pos:open, whichever branch it takes.
LEMMA FillLists ==
  ASSUME StoreInv, ListInv, NEW q \in Ids, FillStep(q)
  PROVE  ListInv'
<1>1. PICK s \in Sides, n \in 1..MaxSize :
        \/ \E req \in Request : FillCreates(q, s, n, req)
        \/ \E p \in Ids : \/ \E req \in Request : FillAdds(q, p, s, n, req)
                          \/ FillReduces(q, p, s, n)
                          \/ FillCloses(q, p, s, n)
                          \/ \E req \in Request : FillFlips(q, p, s, n, req)
  BY DEF FillStep
<1>2. SomeNetting \/ sent[q] = "netting" => SomeNetting'
  BY EachFills, FillsNetting
<1>3. pos \in [Ids -> Position] /\ (\A p \in Ids : p \in open <=> IsOpen(p)) /\ open \subseteq Ids
  BY DEF StoreInv, TypeOK, OpenIndexed
<1>4. CASE \E req \in Request : FillCreates(q, s, n, req)
  <2>1. PICK req \in Request : FillCreates(q, s, n, req)
    BY <1>4
  <2>2. /\ \A p \in Ids \ {q} : pos'[p] = pos[p]
        /\ members' = members \cup {q} /\ open' = open \cup {q} /\ reopened' = reopened
    BY <1>3, <2>1 DEF FillCreates
  <2>. QED BY <1>2, <1>3, <2>2 DEF ListInv
<1>5. CASE \E p \in Ids : \/ \E req \in Request : FillAdds(q, p, s, n, req)
                         \/ FillReduces(q, p, s, n)
  <2>1. PICK p \in Ids : /\ IsOpen(p)
                         /\ \A r \in Ids : pos'[r].status = pos[r].status
                         /\ members' = members /\ open' = open \cup {p} /\ reopened' = reopened
    BY SMTT(60), <1>3, <1>5 DEF FillAdds, FillReduces, Same, Opposite, Position
  <2>. QED BY <1>2, <1>3, <2>1 DEF ListInv
<1>6. CASE \E p \in Ids : FillCloses(q, p, s, n)
  <2>1. PICK p \in Ids : FillCloses(q, p, s, n)
    BY <1>6
  <2>2. SomeNetting'
    BY <2>1, <1>2 DEF FillCloses
  <2>3. open' = open \ {p} /\ members' = members \ {p} /\ reopened' = reopened
    BY <2>1 DEF FillCloses
  <2>. QED BY <2>2, <2>3 DEF ListInv
<1>7. CASE \E p \in Ids, req \in Request : FillFlips(q, p, s, n, req)
  <2>1. PICK p \in Ids, req \in Request : FillFlips(q, p, s, n, req)
    BY <1>7
  <2>2. SomeNetting'
    BY <2>1, <1>2 DEF FillFlips
  <2>3. /\ open' = (open \ {p}) \cup {q} /\ members' = (members \ {p}) \cup {q}
        /\ reopened' = reopened
    BY <2>1 DEF FillFlips
  <2>. QED BY <2>2, <2>3 DEF ListInv
<1>. QED BY <1>1, <1>4, <1>5, <1>6, <1>7

\* No close and no command of an administrator takes a position out of
\* pos:{user}, and only a reopen adds one to pos:open.
LEMMA CommandLists ==
  ASSUME StoreInv, ListInv, NEW p \in Ids, CloseStep(p) \/ AdminStep(p)
  PROVE  ListInv'
<1>1. SomeNetting' <=> SomeNetting
  BY CommandsKeepOrders DEF SomeNetting
<1>2. pos \in [Ids -> Position] /\ (\A r \in Ids : r \in open <=> IsOpen(r)) /\ open \subseteq Ids
  BY DEF StoreInv, TypeOK, OpenIndexed
<1>3. CASE CloseStep(p)
  <2>1. /\ members' = members /\ open' \subseteq open /\ reopened' = reopened
        /\ \A r \in Ids : pos'[r].status # "NONE" => pos[r].status # "NONE"
    <3>1. CASE \E status : CloseFull(p, status)
      BY <1>2, <3>1 DEF CloseFull
    <3>2. CASE \E n \in 1..MaxSize : ClosePartly(p, n)
      BY <1>2, <3>2 DEF ClosePartly
    <3>3. CASE CloseAllSkips(p) \/ CloseAllNoTick(p)
      BY <3>3 DEF CloseAllSkips, CloseAllNoTick
    <3>. QED BY <1>3, <3>1, <3>2, <3>3 DEF CloseStep, Close, CloseAllCloses
  <2>. QED BY <1>1, <2>1 DEF ListInv
<1>4. CASE AdminStep(p)
  <2>1. /\ members' = members
        /\ \A r \in Ids : pos'[r].status # "NONE" => pos[r].status # "NONE"
        /\ reopened \subseteq reopened'
        /\ open' = open \/ (open' = open \cup {p} /\ p \in reopened')
    <3>1. CASE Reopen(p)
      BY <1>2, <3>1 DEF Reopen
    <3>2. CASE \E n \in 0..MaxSize, req \in Request : UpdateParams(p, n, req)
      BY <1>2, <3>2 DEF UpdateParams
    <3>3. CASE \E n \in 0..MaxSize, req \in Request, s \in Sides : ReopenWith(p, s, n, req)
      BY <1>2, <3>3 DEF ReopenWith
    <3>. QED BY <1>4, <3>1, <3>2, <3>3 DEF AdminStep
  <2>. QED BY <1>1, <2>1 DEF ListInv
<1>. QED BY <1>3, <1>4

LEMMA ListStep == ASSUME StoreInv, SentInv, ListInv, [Next]_vars PROVE ListInv'
<1>1. CASE \E q \in Ids : Place(q)
  BY <1>1 DEF Place, SentInv, ListInv, SomeNetting, StoreInv, TypeOK
<1>2. CASE \E q \in Ids : FillStep(q)
  BY <1>2, FillLists
<1>3. CASE \E q \in Ids : CloseStep(q) \/ AdminStep(q)
  BY <1>3, CommandLists
<1>4. CASE \E e \in Editors : EditStep(e)
  <2>1. /\ members' = members /\ open' = open /\ UNCHANGED <<reopened, sent, filled>>
        /\ \A r \in Ids : pos'[r].status = pos[r].status
    <3>1. PICK e \in Editors : EditStep(e)
      BY <1>4
    <3>2. CASE \E p \in Ids, l \in Legs, v \in Levels \cup {None} : EditShows(e, p, l, v)
      <4>1. PICK p \in Ids, l \in Legs, v \in Levels \cup {None} : EditShows(e, p, l, v)
        BY <3>2
      <4>2. pos \in [Ids -> Position] /\ pos' = [pos EXCEPT ![p] = [@ EXCEPT !.level[l] = v]]
        BY <4>1 DEF EditShows, StoreInv, TypeOK
      <4>3. \A r \in Ids : pos'[r].status = pos[r].status
        BY <4>2 DEF Position
      <4>. QED BY <4>1, <4>3 DEF EditShows
    <3>3. CASE EditArms(e) \/ EditFails(e)
      BY <3>3 DEF EditArms, EditFails
    <3>. QED BY <3>1, <3>2, <3>3 DEF EditStep
  <2>. QED BY <2>1 DEF ListInv, SomeNetting
<1>5. CASE \/ \E status \in StopOuts : CloseAllBegins(status)
           \/ CloseAllEnds
           \/ \E t \in Accounts : SwitchChecks(t)
           \/ SwitchWrites
           \/ UNCHANGED vars
  BY <1>5 DEF CloseAllBegins, CloseAllEnds, SwitchChecks, SwitchWrites, vars, ListInv, SomeNetting
<1>. QED BY <1>1, <1>2, <1>3, <1>4, <1>5 DEF Next

LEMMA StopStep == ASSUME StoreInv, StopInv, [Next]_vars PROVE StopInv'
<1>. USE DEF StopInv, Opens
<1>1. CASE \E q \in Ids : Place(q)
  BY <1>1 DEF Place
<1>2. ASSUME NEW q \in Ids, FillStep(q) PROVE StopInv'
  <2>1. PICK s \in Sides, n \in 1..MaxSize :
          \/ \E req \in Request : FillCreates(q, s, n, req)
          \/ \E p \in Ids : \/ \E req \in Request : FillAdds(q, p, s, n, req)
                            \/ FillReduces(q, p, s, n)
                            \/ FillCloses(q, p, s, n)
                            \/ \E req \in Request : FillFlips(q, p, s, n, req)
    BY <1>2 DEF FillStep
  <2>2. \A p \in Ids : IsOpen(p) => p \in open
    BY DEF StoreInv, TypeOK, OpenIndexed
  <2>3. \/ open' \subseteq open /\ batch' = batch
        \/ open' \subseteq open \cup {q} /\ Opens(q)
    <3>1. CASE \E req \in Request : FillCreates(q, s, n, req)
      BY <3>1 DEF FillCreates
    <3>2. CASE \E p \in Ids, req \in Request : FillAdds(q, p, s, n, req)
      BY <2>2, <3>2 DEF FillAdds, Same
    <3>3. CASE \E p \in Ids : FillReduces(q, p, s, n)
      BY <2>2, <3>3 DEF FillReduces, Opposite
    <3>4. CASE \E p \in Ids : FillCloses(q, p, s, n)
      BY <3>4 DEF FillCloses
    <3>5. CASE \E p \in Ids, req \in Request : FillFlips(q, p, s, n, req)
      BY <3>5 DEF FillFlips
    <3>. QED BY <2>1, <3>1, <3>2, <3>3, <3>4, <3>5
  <2>. QED BY <2>3 DEF StoreInv, TypeOK, Batch
<1>3. ASSUME NEW p \in Ids, CloseStep(p) PROVE StopInv'
  <2>1. p \in open <=> IsOpen(p)
    BY DEF StoreInv, TypeOK, OpenIndexed
  <2>2. batch \in Batch
    BY DEF StoreInv, TypeOK
  <2>3. CASE Close(p)
    BY <2>3 DEF Close, CloseFull
  <2>4. CASE \E n \in 1..MaxSize : ClosePartly(p, n)
    BY <2>4 DEF ClosePartly
  <2>5. CASE CloseAllCloses(p)
    BY <2>2, <2>5 DEF CloseAllCloses, CloseFull, Batch
  <2>6. CASE CloseAllSkips(p)
    BY <2>1, <2>2, <2>6 DEF CloseAllSkips, Batch
  <2>7. CASE CloseAllNoTick(p)
    BY <2>2, <2>7 DEF CloseAllNoTick, Batch
  <2>. QED BY <1>3, <2>3, <2>4, <2>5, <2>6, <2>7 DEF CloseStep
<1>4. ASSUME NEW p \in Ids, AdminStep(p) PROVE StopInv'
  <2>1. \/ open' = open \cup {p} /\ Opens(p)
        \/ open' = open /\ batch' = batch
    <3>1. CASE Reopen(p)
      BY <3>1 DEF Reopen
    <3>2. CASE \E n \in 0..MaxSize, req \in Request : UpdateParams(p, n, req)
      BY <3>2 DEF UpdateParams, StoreInv, TypeOK, OpenIndexed
    <3>3. CASE \E n \in 0..MaxSize, req \in Request, s \in Sides : ReopenWith(p, s, n, req)
      BY <3>3 DEF ReopenWith
    <3>. QED BY <1>4, <3>1, <3>2, <3>3 DEF AdminStep
  <2>. QED BY <2>1 DEF StoreInv, TypeOK, Batch
<1>5. CASE \E e \in Editors : EditStep(e)
  BY ZenonT(60), <1>5 DEF EditStep, EditShows, EditArms, EditFails
<1>6. CASE \E status \in StopOuts : CloseAllBegins(status)
  BY <1>6 DEF CloseAllBegins, StoreInv, OpenIndexed
<1>7. CASE CloseAllEnds
  BY <1>7 DEF CloseAllEnds, NoBatch
<1>8. CASE (\E t \in Accounts : SwitchChecks(t)) \/ SwitchWrites \/ UNCHANGED vars
  BY <1>8 DEF SwitchChecks, SwitchWrites, vars
<1>. QED BY <1>1, <1>2, <1>3, <1>4, <1>5, <1>6, <1>7, <1>8 DEF Next

ListsInv == SentInv /\ NetInv /\ ListInv /\ StopInv

\* The four hold in every reachable store.
THEOREM ListsInvariant == Spec => []ListsInv
<1>1. Init => ListsInv
  BY DEF Init, ListsInv, SentInv, NetInv, ListInv, StopInv, NoBatch
<1>2. StoreInv /\ ListsInv /\ [Next]_vars => ListsInv'
  BY SentStep, NetStep, ListStep, StopStep DEF ListsInv
<1>. QED BY <1>1, <1>2, StoreInvariant, PTL DEF Spec

\* A netting account has one net position per symbol as long as its orders were
\* sent as netting orders and no closed position was reopened.
THEOREM NettingIsNet == Spec => []OneNetPosition
<1>1. ASSUME StoreInv, ListsInv PROVE OneNetPosition
  <2>. SUFFICES ASSUME reopened = {}, NettingOnly PROVE Cardinality(OpenIds) <= 1
    BY DEF OneNetPosition, NettingOnly
  <2>1. \A p, r \in OpenIds : p = r
    BY <1>1 DEF ListsInv, NetInv, StoreInv, OpenIndexed
  <2>2. CASE OpenIds = {}
    <3>1. Cardinality(OpenIds) = 0
      BY <2>2, FS_EmptySet, Zenon
    <3>. QED BY <3>1
  <2>3. CASE \E p : p \in OpenIds
    <3>1. PICK p : OpenIds = {p}
      BY <2>1, <2>3
    <3>2. Cardinality(OpenIds) = 1
      BY <3>1, FS_Singleton, Zenon
    <3>. QED BY <3>2
  <2>. QED BY <2>2, <2>3
<1>. QED BY <1>1, StoreInvariant, ListsInvariant, PTL

\* close_all and the account-type check, which read pos:{user}, miss an open
\* position only if a netting fill removed it and an administrator reopened it.
THEOREM OpenIsFound == Spec => []OpenIsListed
<1>1. ASSUME StoreInv, ListsInv PROVE OpenIsListed
  BY <1>1 DEF OpenIsListed, ListsInv, ListInv, SomeNetting, StoreInv, TypeOK, OpenIndexed, Position
<1>. QED BY <1>1, StoreInvariant, ListsInvariant, PTL

\* A stop-out leaves nothing open that it has passed, but what it never saw or
\* could not price.
THEOREM StopOutIsThorough == Spec => []StopOutCloses
<1>1. ASSUME StoreInv, ListsInv PROVE StopOutCloses
  BY <1>1 DEF StopOutCloses, ListsInv, StopInv, StoreInv, OpenIndexed
<1>. QED BY <1>1, StoreInvariant, ListsInvariant, PTL

-------------------------------------------------------------------------------
(* What the triggers are filed under.                                      *)

Edited(p, l) == \E e \in Editors : edit[e] # NoEdit /\ edit[e].id = p /\ edit[e].leg = l
Filed(p, l)  == index[l][p] = IF IsOpen(p) /\ pos[p].level[l] \in Levels
                              THEN pos[p].level[l] ELSE None

\* A request that nothing has raced is about to file the level the hash shows.
EditedInv == \A e \in Editors : edit[e] # NoEdit =>
  /\ pos[edit[e].id].status # "NONE"
  /\ ~edit[e].raced => pos[edit[e].id].level[edit[e].leg] = edit[e].level

\* The position of an order comes with its fill.
NewInv == \A q \in Ids \ filled : pos[q].status = "NONE"

ArmedInv == ArmedIsShown /\ EditedInv /\ NewInv

\* The requests go on, and one on a written position is raced.
Marked(W) == \A e \in Editors :
  /\ edit'[e] # NoEdit <=> edit[e] # NoEdit
  /\ edit[e] # NoEdit =>
       /\ edit'[e].id = edit[e].id /\ edit'[e].leg = edit[e].leg
       /\ edit'[e].level = edit[e].level
       /\ ~edit'[e].raced => ~edit[e].raced /\ edit[e].id \notin W

LEMMA RacesMarks == ASSUME StoreInv, NEW p \in Ids, Races(p) PROVE Marked({p})
<1>. SUFFICES ASSUME NEW e \in Editors
              PROVE  /\ edit'[e] # NoEdit <=> edit[e] # NoEdit
                     /\ edit[e] # NoEdit =>
                          /\ edit'[e].id = edit[e].id /\ edit'[e].leg = edit[e].leg
                          /\ edit'[e].level = edit[e].level
                          /\ ~edit'[e].raced => ~edit[e].raced /\ edit[e].id \notin {p}
  BY DEF Marked
<1>1. edit[e] \in Edit \cup {NoEdit} /\ edit'[e] \in Edit \cup {NoEdit}
  BY RacesType DEF StoreInv, TypeOK
<1>2. edit'[e] = IF edit[e] # NoEdit /\ edit[e].id = p
                 THEN [edit[e] EXCEPT !.raced = TRUE] ELSE edit[e]
  BY DEF Races
<1>3. CASE edit[e] # NoEdit /\ edit[e].id = p
  <2>1. edit[e] \in Edit /\ edit'[e] = [edit[e] EXCEPT !.raced = TRUE]
    BY <1>1, <1>2, <1>3
  <2>2. edit'[e] \in Edit /\ edit'[e].raced
    BY <2>1 DEF Edit
  <2>. QED BY <1>3, <2>1, <2>2, EditKinds DEF Edit
<1>. QED BY <1>2, <1>3

\* No request is about a position that does not exist yet.
LEMMA FreshMarks ==
  ASSUME StoreInv, ArmedInv, NEW q \in Ids, q \notin filled, edit' = edit
  PROVE  Marked({q})
BY DEF ArmedInv, EditedInv, NewInv, Marked

\* What a script has to do to the positions W that it writes.
LEMMA ScriptArms ==
  ASSUME StoreInv, ArmedInv, NEW W \in SUBSET Ids, Marked(W), NewInv',
         \A x \in Ids : pos[x].status # "NONE" => pos'[x].status # "NONE",
         \A x \in Ids \ W : pos'[x].status = pos[x].status /\ pos'[x].level = pos[x].level,
         \A x \in Ids \ W, l \in Legs :
           index'[l][x] = index[l][x] /\ (<<l, x>> \in unsure => <<l, x>> \in unsure'),
         \A x \in W, l \in Legs : <<l, x>> \in unsure' \/ Edited(x, l) \/ Filed(x, l)'
  PROVE  ArmedInv'
<1>1. \A x \in Ids, l \in Legs : Edited(x, l) => Edited(x, l)'
  BY DEF Marked, Edited
<1>2. ASSUME NEW x \in Ids, NEW l \in Legs
      PROVE  <<l, x>> \in unsure' \/ Edited(x, l)' \/ Filed(x, l)'
  <2>1. CASE x \in W
    BY <1>1, <2>1
  <2>2. CASE x \notin W
    <3>1. <<l, x>> \in unsure \/ Edited(x, l) \/ Filed(x, l)
      BY DEF ArmedInv, ArmedIsShown, Edited, Filed
    <3>2. Filed(x, l) => Filed(x, l)'
      BY <2>2 DEF Filed
    <3>. QED BY <1>1, <2>2, <3>1, <3>2
  <2>. QED BY <2>1, <2>2
<1>3. ArmedIsShown'
  BY <1>2 DEF ArmedIsShown, Edited, Filed
<1>4. EditedInv'
  <2>. SUFFICES ASSUME NEW e \in Editors, edit'[e] # NoEdit
                PROVE  /\ pos'[edit'[e].id].status # "NONE"
                       /\ ~edit'[e].raced => pos'[edit'[e].id].level[edit'[e].leg] = edit'[e].level
    BY DEF EditedInv
  <2>1. edit[e] # NoEdit /\ edit[e].id \in Ids
    BY DEF Marked, StoreInv, TypeOK, Edit
  <2>. QED BY <2>1 DEF Marked, ArmedInv, EditedInv
<1>. QED BY <1>3, <1>4 DEF ArmedInv

\* A leg of a position that was not open: filed, lost, or as before.
LEMMA Refiled ==
  ASSUME ArmedInv, NEW p \in Ids, NEW level, Reindex({}, p, level), ~IsOpen(p),
         pos'[p].level = level, pos'[p].status = "OPEN",
         unsure' = unsure \cup (Lost(level) \X {p})
  PROVE  \A l \in Legs : <<l, p>> \in unsure' \/ Edited(p, l) \/ Filed(p, l)'
<1>. SUFFICES ASSUME NEW l \in Legs
              PROVE  <<l, p>> \in unsure' \/ Edited(p, l) \/ Filed(p, l)'
  OBVIOUS
<1>1. index'[l][p] = IF l \in Armed(level) THEN level[l] ELSE index[l][p]
  BY DEF Reindex
<1>2. <<l, p>> \in unsure \/ Edited(p, l) \/ index[l][p] = None
  BY DEF ArmedInv, ArmedIsShown, Edited
<1>. QED BY <1>1, <1>2 DEF Filed, Armed, Lost

\* A position whose legs a script replaces is filed by them.
LEMMA Replaced ==
  ASSUME NEW p \in Ids, NEW req \in Request, Reindex({p}, p, req),
         pos'[p].level = req, pos'[p].status = "OPEN"
  PROVE  \A l \in Legs : Filed(p, l)'
<1>1. \A l \in Legs : index'[l][p] = IF l \in Armed(req) THEN req[l] ELSE None
  BY DEF Reindex
<1>2. \A l \in Legs : l \in Armed(req) <=> req[l] \in Levels
  BY LevelKinds DEF Armed, Request
<1>. QED BY <1>1, <1>2 DEF Filed

\* A position that a script closes is filed no more.
LEMMA Cleared ==
  ASSUME NEW p \in Ids, NEW q \in Ids, NEW level, Reindex({p}, q, level),
         p # q \/ level = NoRequest, pos'[p].status # "OPEN"
  PROVE  \A l \in Legs : Filed(p, l)'
<1>1. Armed(NoRequest) = {}
  BY LevelKinds DEF Armed, NoRequest
<1>2. \A l \in Legs : index'[l][p] = None
  BY <1>1 DEF Reindex
<1>. QED BY <1>2 DEF Filed

\* Filing legs of p leaves those of the others.
LEMMA OthersFiled ==
  ASSUME NEW p \in Ids, NEW gone, NEW level, Reindex(gone, p, level)
  PROVE  \A x \in Ids \ (gone \cup {p}), l \in Legs : index'[l][x] = index[l][x]
BY DEF Reindex

LEMMA CreatesArms ==
  ASSUME StoreInv, ArmedInv, NEW q \in Ids, NEW s \in Sides, NEW n \in 1..MaxSize,
         NEW req \in Request, FillCreates(q, s, n, req)
  PROVE  ArmedInv'
<1>. DEFINE new == NewPosition(q, s, n, req)
<1>1. /\ Reindex({}, q, Shown(req)) /\ unsure' = unsure \cup (Lost(Shown(req)) \X {q})
      /\ edit' = edit /\ q \notin filled /\ filled' = filled \cup {q}
      /\ pos' = [pos EXCEPT ![q] = new]
  BY DEF FillCreates, Fills
<1>2. new.status = "OPEN" /\ new.level = Shown(req) /\ pos \in [Ids -> Position]
  BY DEF NewPosition, Position, StoreInv, TypeOK
<1>. HIDE DEF new
<1>3. pos'[q] = new /\ \A x \in Ids \ {q} : pos'[x] = pos[x]
  BY <1>1, <1>2
<1>4. Marked({q}) /\ ~IsOpen(q)
  BY <1>1, FreshMarks DEF ArmedInv, NewInv
<1>5. \A l \in Legs : <<l, q>> \in unsure' \/ Edited(q, l) \/ Filed(q, l)'
  BY <1>1, <1>2, <1>3, <1>4, Refiled
<1>6. NewInv'
  BY <1>1, <1>3 DEF ArmedInv, NewInv
<1>7. \A x \in Ids \ {q}, l \in Legs : index'[l][x] = index[l][x]
  BY <1>1, OthersFiled
<1>8. unsure \subseteq unsure'
  BY <1>1
<1>. QED BY <1>2, <1>3, <1>4, <1>5, <1>6, <1>7, <1>8, ScriptArms

LEMMA AddsArms ==
  ASSUME StoreInv, ArmedInv, NEW q \in Ids, NEW p \in Ids, NEW s \in Sides, NEW n \in 1..MaxSize,
         NEW req \in Request, FillAdds(q, p, s, n, req)
  PROVE  ArmedInv'
<1>1. /\ Reindex({}, p, Shown(req)) /\ unsure' = unsure \cup (Armed(Shown(req)) \X {p})
      /\ Races(p) /\ filled' = filled \cup {q}
      /\ pos' = [pos EXCEPT ![p].size = @ + n]
  BY DEF FillAdds, Fills
<1>2. \A x \in Ids : pos'[x].status = pos[x].status /\ pos'[x].level = pos[x].level
  BY <1>1 DEF StoreInv, TypeOK, Position
<1>3. Marked({p})
  BY <1>1, RacesMarks
<1>4. NewInv'
  BY <1>1, <1>2 DEF ArmedInv, NewInv
<1>5. ASSUME NEW l \in Legs PROVE <<l, p>> \in unsure' \/ Edited(p, l) \/ Filed(p, l)'
  <2>1. CASE l \in Armed(Shown(req))
    BY <1>1, <2>1
  <2>2. CASE l \notin Armed(Shown(req))
    <3>1. index'[l][p] = index[l][p]
      BY <1>1, <2>2 DEF Reindex
    <3>. QED BY ZenonT(60), <1>1, <1>2, <3>1 DEF ArmedInv, ArmedIsShown, Edited, Filed
  <2>. QED BY <2>1, <2>2
<1>6. \A x \in Ids \ {p}, l \in Legs : index'[l][x] = index[l][x]
  BY <1>1, OthersFiled
<1>7. unsure \subseteq unsure'
  BY <1>1
<1>. QED BY <1>2, <1>3, <1>4, <1>5, <1>6, <1>7, ScriptArms

\* Steps that write sizes only.
LEMMA SizesArm ==
  ASSUME StoreInv, ArmedInv, UNCHANGED <<index, edit, unsure>>, filled \subseteq filled',
         \A x \in Ids : pos'[x].status = pos[x].status /\ pos'[x].level = pos[x].level
  PROVE  ArmedInv'
<1>1. Marked({}) /\ NewInv'
  BY DEF Marked, ArmedInv, NewInv
<1>. QED BY <1>1, ScriptArms

\* Scripts that close p without opening another position.
LEMMA ClosesArm ==
  ASSUME StoreInv, ArmedInv, NEW p \in Ids, NEW new, new.status \notin {"OPEN", "NONE"},
         pos' = [pos EXCEPT ![p] = new], Reindex({p}, p, NoRequest), Races(p),
         unsure' = unsure \ (Legs \X {p}), filled \subseteq filled', IsOpen(p)
  PROVE  ArmedInv'
<1>1. pos'[p] = new /\ \A x \in Ids \ {p} : pos'[x] = pos[x]
  BY DEF StoreInv, TypeOK
<1>2. Marked({p}) /\ \A l \in Legs : Filed(p, l)'
  BY <1>1, RacesMarks, Cleared
<1>3. NewInv'
  BY <1>1 DEF ArmedInv, NewInv
<1>4. \A x \in Ids \ {p}, l \in Legs : index'[l][x] = index[l][x]
  BY OthersFiled
<1>5. \A x \in Ids \ {p}, l \in Legs : <<l, x>> \in unsure => <<l, x>> \in unsure'
  OBVIOUS
<1>. QED BY <1>1, <1>2, <1>3, <1>4, <1>5, ScriptArms

LEMMA FlipsArms ==
  ASSUME StoreInv, ArmedInv, NEW q \in Ids, NEW p \in Ids, NEW s \in Sides, NEW n \in 1..MaxSize,
         NEW req \in Request, FillFlips(q, p, s, n, req)
  PROVE  ArmedInv'
<1>. DEFINE old == NettedOut(p)
            new == NewPosition(q, s, n - pos[p].size, req)
<1>1. /\ Reindex({p}, q, Shown(req))
      /\ unsure' = (unsure \ (Legs \X {p})) \cup (Lost(Shown(req)) \X {q})
      /\ Races(p) /\ q \notin filled /\ filled' = filled \cup {q}
      /\ pos' = [pos EXCEPT ![p] = old, ![q] = new] /\ IsOpen(p)
  BY DEF FillFlips, Fills, Opposite
<1>2. /\ old.status = "CLOSED" /\ new.status = "OPEN" /\ new.level = Shown(req)
      /\ pos \in [Ids -> Position]
  BY DEF NettedOut, NewPosition, Position, StoreInv, TypeOK
<1>3. p # q /\ pos[q].status = "NONE"
  BY <1>1 DEF ArmedInv, NewInv
<1>. HIDE DEF old, new
<1>4. pos'[p] = old /\ pos'[q] = new /\ \A x \in Ids \ {p, q} : pos'[x] = pos[x]
  BY <1>1, <1>2, <1>3
<1>5. Marked({p, q})
  <2>1. Marked({p})
    BY <1>1, RacesMarks
  <2>2. \A e \in Editors : edit[e] # NoEdit => edit[e].id # q
    BY <1>3 DEF ArmedInv, EditedInv
  <2>. QED BY <2>1, <2>2 DEF Marked
<1>6. NewInv'
  BY <1>1, <1>4 DEF ArmedInv, NewInv
<1>7. \A l \in Legs : Filed(p, l)'
  BY <1>1, <1>2, <1>3, <1>4, Cleared
<1>8. ASSUME NEW l \in Legs PROVE <<l, q>> \in unsure' \/ Edited(q, l) \/ Filed(q, l)'
  <2>1. index'[l][q] = IF l \in Armed(Shown(req)) THEN Shown(req)[l] ELSE index[l][q]
    BY <1>1, <1>3 DEF Reindex
  <2>2. <<l, q>> \in unsure \/ Edited(q, l) \/ index[l][q] = None
    BY <1>3 DEF ArmedInv, ArmedIsShown, Edited
  <2>3. (<<l, q>> \in unsure \/ l \in Lost(Shown(req))) => <<l, q>> \in unsure'
    BY <1>1, <1>3
  <2>. QED BY <1>2, <1>4, <2>1, <2>2, <2>3 DEF Filed, Armed, Lost
<1>9. \A x \in Ids \ {p, q}, l \in Legs : index'[l][x] = index[l][x]
  BY <1>1, OthersFiled
<1>10. \A x \in Ids \ {p, q}, l \in Legs : <<l, x>> \in unsure => <<l, x>> \in unsure'
  BY <1>1
<1>. QED BY <1>2, <1>4, <1>5, <1>6, <1>7, <1>8, <1>9, <1>10, ScriptArms

LEMMA ReopenArms == ASSUME StoreInv, ArmedInv, NEW p \in Ids, Reopen(p) PROVE ArmedInv'
<1>. DEFINE level == pos[p].level
<1>1. /\ Reindex({}, p, level) /\ unsure' = unsure \cup (Lost(level) \X {p})
      /\ Races(p) /\ filled' = filled /\ ~IsOpen(p)
      /\ pos' = [pos EXCEPT ![p].status = "OPEN", ![p].size = Restored(p)]
  BY DEF Reopen
<1>2. /\ pos'[p].status = "OPEN" /\ pos'[p].level = level
      /\ \A x \in Ids \ {p} : pos'[x] = pos[x]
  BY <1>1 DEF StoreInv, TypeOK, Position
<1>3. NewInv'
  BY ZenonT(60), <1>1, <1>2 DEF Reopen, ArmedInv, NewInv
<1>. HIDE DEF level
<1>4. Marked({p}) /\ \A l \in Legs : <<l, p>> \in unsure' \/ Edited(p, l) \/ Filed(p, l)'
  BY <1>1, <1>2, RacesMarks, Refiled
<1>5. unsure \subseteq unsure' /\ \A x \in Ids \ {p}, l \in Legs : index'[l][x] = index[l][x]
  BY <1>1, OthersFiled
<1>. QED BY <1>2, <1>3, <1>4, <1>5, ScriptArms

\* Scripts that replace the legs of p and leave it open.
LEMMA ReplacesArm ==
  ASSUME StoreInv, ArmedInv, NEW p \in Ids, NEW req \in Request, Reindex({p}, p, req), Races(p),
         pos[p].status # "NONE", pos'[p].status = "OPEN", pos'[p].level = req,
         \A x \in Ids \ {p} : pos'[x] = pos[x],
         unsure' = unsure \ (Legs \X {p}), filled' = filled
  PROVE  ArmedInv'
<1>1. Marked({p}) /\ (\A l \in Legs : Filed(p, l)') /\ NewInv'
  BY RacesMarks, Replaced DEF ArmedInv, NewInv
<1>2. \A x \in Ids \ {p}, l \in Legs : index'[l][x] = index[l][x]
  BY OthersFiled
<1>3. \A x \in Ids \ {p}, l \in Legs : <<l, x>> \in unsure => <<l, x>> \in unsure'
  OBVIOUS
<1>. QED BY <1>1, <1>2, <1>3, ScriptArms

\* A write of a request leaves the others, and races those on the same leg.
LEMMA CollidesKeeps ==
  ASSUME StoreInv, NEW e \in Editors, NEW p, NEW l, NEW next \in Edit \cup {NoEdit},
         Collides(e, p, l, next), NEW f \in Editors, f # e
  PROVE  /\ edit'[f] # NoEdit <=> edit[f] # NoEdit
         /\ edit[f] # NoEdit =>
              /\ edit'[f].id = edit[f].id /\ edit'[f].leg = edit[f].leg
              /\ edit'[f].level = edit[f].level
              /\ ~edit'[f].raced => ~edit[f].raced /\ (edit[f].id # p \/ edit[f].leg # l)
<1>1. edit[f] \in Edit \cup {NoEdit}
  BY DEF StoreInv, TypeOK
<1>2. edit'[f] = IF edit[f] # NoEdit /\ edit[f].id = p /\ edit[f].leg = l
                 THEN [edit[f] EXCEPT !.raced = TRUE] ELSE edit[f]
  BY DEF Collides
<1>3. CASE edit[f] # NoEdit /\ edit[f].id = p /\ edit[f].leg = l
  <2>1. edit[f] \in Edit /\ edit'[f] = [edit[f] EXCEPT !.raced = TRUE]
    BY <1>1, <1>2, <1>3
  <2>2. edit'[f] \in Edit /\ edit'[f].raced
    BY <2>1 DEF Edit
  <2>. QED BY <1>3, <2>1, <2>2, EditKinds DEF Edit
<1>. QED BY <1>2, <1>3

LEMMA EditShowsArms ==
  ASSUME StoreInv, ArmedInv, NEW e \in Editors, NEW p \in Ids, NEW l \in Legs,
         NEW v \in Levels \cup {None}, EditShows(e, p, l, v)
  PROVE  ArmedInv'
<1>. DEFINE r == [id |-> p, leg |-> l, level |-> v, raced |-> FALSE]
<1>1. /\ \A x \in Ids : pos'[x].status = pos[x].status
      /\ \A x \in Ids, m \in Legs : x # p \/ m # l => pos'[x].level[m] = pos[x].level[m]
      /\ pos'[p].level[l] = v /\ pos[p].status # "NONE"
  BY DEF EditShows, StoreInv, TypeOK, Position
<1>2. edit[e] = NoEdit /\ Collides(e, p, l, r) /\ UNCHANGED <<index, unsure, filled>>
  BY DEF EditShows
<1>3. r \in Edit /\ r # NoEdit
  <2>1. r \in Edit
    BY DEF Edit
  <2>. HIDE DEF r
  <2>. QED BY <2>1, EditKinds
<1>4. edit'[e] = r
  BY <1>2 DEF Collides
<1>5. ASSUME NEW f \in Editors, f # e
      PROVE  /\ edit'[f] # NoEdit <=> edit[f] # NoEdit
             /\ edit[f] # NoEdit =>
                  /\ edit'[f].id = edit[f].id /\ edit'[f].leg = edit[f].leg
                  /\ edit'[f].level = edit[f].level
                  /\ ~edit'[f].raced => /\ ~edit[f].raced
                                        /\ edit[f].id # p \/ edit[f].leg # l
  <2>. HIDE DEF r
  <2>. QED BY <1>2, <1>3, <1>5, CollidesKeeps
<1>6. ArmedIsShown'
  <2>. SUFFICES ASSUME NEW x \in Ids, NEW m \in Legs
                PROVE  <<m, x>> \in unsure' \/ Edited(x, m)' \/ Filed(x, m)'
    BY DEF ArmedIsShown, Edited, Filed
  <2>1. CASE x = p /\ m = l
    BY <1>3, <1>4, <2>1 DEF Edited
  <2>2. CASE x # p \/ m # l
    <3>1. <<m, x>> \in unsure \/ Edited(x, m) \/ Filed(x, m)
      BY DEF ArmedInv, ArmedIsShown, Edited, Filed
    <3>2. Edited(x, m) => Edited(x, m)'
      BY <1>2, <1>5 DEF Edited
    <3>3. Filed(x, m) => Filed(x, m)'
      BY <1>1, <1>2, <2>2 DEF Filed
    <3>. QED BY <1>2, <3>1, <3>2, <3>3
  <2>. QED BY <2>1, <2>2
<1>7. EditedInv'
  <2>1. /\ pos'[edit'[e].id].status # "NONE"
        /\ ~edit'[e].raced => pos'[edit'[e].id].level[edit'[e].leg] = edit'[e].level
    BY <1>1, <1>4
  <2>2. ASSUME NEW f \in Editors, f # e, edit'[f] # NoEdit
        PROVE  /\ pos'[edit'[f].id].status # "NONE"
               /\ ~edit'[f].raced => pos'[edit'[f].id].level[edit'[f].leg] = edit'[f].level
    <3>1. edit[f] # NoEdit /\ edit[f].id \in Ids /\ edit[f].leg \in Legs
      BY <1>5, <2>2 DEF StoreInv, TypeOK, Edit
    <3>. QED BY SMTT(60), <1>1, <1>5, <2>2, <3>1 DEF ArmedInv, EditedInv
  <2>. QED BY <2>1, <2>2 DEF EditedInv
<1>8. NewInv'
  BY <1>1, <1>2 DEF ArmedInv, NewInv
<1>. QED BY <1>6, <1>7, <1>8 DEF ArmedInv

\* The request of e ends and the others go on.
Ended(e) == /\ edit'[e] = NoEdit
            /\ \A f \in Editors \ {e} :
                 /\ edit'[f] # NoEdit <=> edit[f] # NoEdit
                 /\ edit[f] # NoEdit =>
                      /\ edit'[f].id = edit[f].id /\ edit'[f].leg = edit[f].leg
                      /\ edit'[f].level = edit[f].level
                      /\ ~edit'[f].raced => ~edit[f].raced

\* The other legs are filed, and known to be, as before.
OnlyLeg(p, l) == \A x \in Ids, m \in Legs : x # p \/ m # l =>
                   index'[m][x] = index[m][x] /\ (<<m, x>> \in unsure => <<m, x>> \in unsure')

\* A request ends: the leg it was for is filed by the hash, or left in doubt.
LEMMA EditEndsArms ==
  ASSUME StoreInv, ArmedInv, NEW e \in Editors, NEW p \in Ids, NEW l \in Legs,
         edit[e] # NoEdit, edit[e].id = p, edit[e].leg = l, Ended(e),
         UNCHANGED <<pos, filled>>, OnlyLeg(p, l), <<l, p>> \in unsure' \/ Filed(p, l)'
  PROVE  ArmedInv'
<1>1. ArmedIsShown'
  <2>. SUFFICES ASSUME NEW x \in Ids, NEW m \in Legs
                PROVE  <<m, x>> \in unsure' \/ Edited(x, m)' \/ Filed(x, m)'
    BY DEF ArmedIsShown, Edited, Filed
  <2>1. CASE x = p /\ m = l
    BY <2>1
  <2>2. CASE x # p \/ m # l
    <3>1. <<m, x>> \in unsure \/ Edited(x, m) \/ Filed(x, m)
      BY DEF ArmedInv, ArmedIsShown, Edited, Filed
    <3>2. Edited(x, m) => Edited(x, m)'
      BY <2>2 DEF Edited, Ended
    <3>3. Filed(x, m) => Filed(x, m)'
      BY <2>2 DEF Filed, OnlyLeg
    <3>. QED BY <2>2, <3>1, <3>2, <3>3 DEF OnlyLeg
  <2>. QED BY <2>1, <2>2
<1>2. EditedInv' /\ NewInv'
  BY DEF ArmedInv, EditedInv, NewInv, Ended
<1>. QED BY <1>1, <1>2 DEF ArmedInv

LEMMA EditArmsArms == ASSUME StoreInv, ArmedInv, NEW e \in Editors, EditArms(e) PROVE ArmedInv'
<1>1. edit[e] \in Edit /\ edit[e] # NoEdit
  BY DEF EditArms, StoreInv, TypeOK
<1>2. PICK p \in Ids, l \in Legs, v \in Levels \cup {None} :
        edit[e].id = p /\ edit[e].leg = l /\ edit[e].level = v
  BY <1>1 DEF Edit
<1>3. /\ Collides(e, p, l, NoEdit)
      /\ index' = [index EXCEPT ![l][p] = v] /\ UNCHANGED <<pos, filled>>
      /\ unsure' = IF IsOpen(p) /\ ~edit[e].raced
                   THEN unsure \ {<<l, p>>} ELSE unsure \cup {<<l, p>>}
  BY <1>2 DEF EditArms
<1>4. ~edit[e].raced => pos[p].level[l] = v
  BY <1>1, <1>2 DEF ArmedInv, EditedInv
<1>5. edit'[e] = NoEdit
  BY <1>3 DEF Collides
<1>6. Ended(e)
  BY <1>3, <1>5, CollidesKeeps DEF Ended
<1>7. OnlyLeg(p, l)
  BY <1>3 DEF StoreInv, TypeOK, OnlyLeg
<1>8. <<l, p>> \in unsure' \/ Filed(p, l)'
  <2>1. index'[l][p] = v
    BY <1>3 DEF StoreInv, TypeOK
  <2>2. CASE IsOpen(p) /\ ~edit[e].raced
    BY <1>3, <1>4, <2>1, <2>2 DEF Filed
  <2>3. CASE ~(IsOpen(p) /\ ~edit[e].raced)
    BY <1>3, <2>3
  <2>. QED BY <2>2, <2>3
<1>9. UNCHANGED <<pos, filled>> /\ edit[e] # NoEdit /\ edit[e].id = p /\ edit[e].leg = l
  BY <1>1, <1>2, <1>3
<1>. QED BY <1>6, <1>7, <1>8, <1>9, EditEndsArms

LEMMA EditFailsArms == ASSUME StoreInv, ArmedInv, NEW e \in Editors, EditFails(e) PROVE ArmedInv'
<1>1. edit[e] # NoEdit /\ edit[e].id \in Ids /\ edit[e].leg \in Legs
  BY DEF EditFails, StoreInv, TypeOK, Edit
<1>2. /\ edit'[e] = NoEdit /\ \A f \in Editors \ {e} : edit'[f] = edit[f]
      /\ unsure' = unsure \cup {<<edit[e].leg, edit[e].id>>} /\ UNCHANGED <<pos, index, filled>>
  BY DEF EditFails, StoreInv, TypeOK
<1>. QED BY <1>1, <1>2, EditEndsArms DEF Ended, OnlyLeg

-------------------------------------------------------------------------------

LEMMA FillArms == ASSUME StoreInv, ArmedInv, NEW q \in Ids, FillStep(q) PROVE ArmedInv'
<1>1. PICK s \in Sides, n \in 1..MaxSize :
        \/ \E req \in Request : FillCreates(q, s, n, req)
        \/ \E p \in Ids : \/ \E req \in Request : FillAdds(q, p, s, n, req)
                          \/ FillReduces(q, p, s, n)
                          \/ FillCloses(q, p, s, n)
                          \/ \E req \in Request : FillFlips(q, p, s, n, req)
  BY DEF FillStep
<1>2. ASSUME NEW p \in Ids, FillReduces(q, p, s, n) PROVE ArmedInv'
  <2>1. \A x \in Ids : pos'[x].status = pos[x].status /\ pos'[x].level = pos[x].level
    BY <1>2 DEF FillReduces, StoreInv, TypeOK, Position
  <2>. QED BY <1>2, <2>1, SizesArm DEF FillReduces, Fills
<1>3. ASSUME NEW p \in Ids, FillCloses(q, p, s, n) PROVE ArmedInv'
  <2>1. NettedOut(p).status = "CLOSED" /\ IsOpen(p)
    BY <1>3, NettedOutType DEF StoreInv, FillCloses, Opposite
  <2>2. /\ pos' = [pos EXCEPT ![p] = NettedOut(p)] /\ Reindex({p}, p, NoRequest) /\ Races(p)
        /\ unsure' = unsure \ (Legs \X {p}) /\ filled \subseteq filled'
    BY <1>3 DEF FillCloses, Fills
  <2>. QED BY <2>1, <2>2, ClosesArm
<1>. QED BY <1>1, <1>2, <1>3, CreatesArms, AddsArms, FlipsArms

LEMMA CloseArms == ASSUME StoreInv, ArmedInv, NEW p \in Ids, CloseStep(p) PROVE ArmedInv'
<1>1. ASSUME NEW status \in {"CLOSED", "LIQUIDATED"}, CloseFull(p, status) PROVE ArmedInv'
  <2>. DEFINE new == [pos[p] EXCEPT !.status = status, !.size = 0, !.original = pos[p].size]
  <2>1. new.status \notin {"OPEN", "NONE"} /\ pos' = [pos EXCEPT ![p] = new]
    BY ZenonT(60), <1>1 DEF CloseFull, StoreInv, TypeOK, Position
  <2>2. /\ Reindex({p}, p, NoRequest) /\ Races(p) /\ IsOpen(p)
        /\ unsure' = unsure \ (Legs \X {p}) /\ filled \subseteq filled'
    BY <1>1 DEF CloseFull
  <2>. HIDE DEF new
  <2>. QED BY <2>1, <2>2, ClosesArm
<1>2. ASSUME NEW n \in 1..MaxSize, ClosePartly(p, n) PROVE ArmedInv'
  <2>1. \A x \in Ids : pos'[x].status = pos[x].status /\ pos'[x].level = pos[x].level
    BY <1>2 DEF ClosePartly, StoreInv, TypeOK, Position
  <2>. QED BY <1>2, <2>1, SizesArm DEF ClosePartly
<1>3. batch.status \in {"CLOSED", "LIQUIDATED"}
  BY DEF StoreInv, TypeOK, Batch
<1>4. CASE CloseAllSkips(p) \/ CloseAllNoTick(p)
  BY <1>4, SizesArm DEF CloseAllSkips, CloseAllNoTick
<1>. QED BY <1>1, <1>2, <1>3, <1>4 DEF CloseStep, Close, CloseAllCloses

LEMMA AdminArms == ASSUME StoreInv, ArmedInv, NEW p \in Ids, AdminStep(p) PROVE ArmedInv'
<1>1. ASSUME NEW n \in 0..MaxSize, NEW req \in Request, UpdateParams(p, n, req) PROVE ArmedInv'
  <2>1. /\ pos'[p].status = "OPEN" /\ pos'[p].level = req /\ pos[p].status # "NONE"
        /\ \A x \in Ids \ {p} : pos'[x] = pos[x]
    BY <1>1 DEF UpdateParams, StoreInv, TypeOK, Position
  <2>2. /\ Reindex({p}, p, req) /\ Races(p) /\ unsure' = unsure \ (Legs \X {p})
        /\ filled' = filled
    BY <1>1 DEF UpdateParams
  <2>. QED BY <2>1, <2>2, ReplacesArm
<1>2. ASSUME NEW s \in Sides, NEW n \in 0..MaxSize, NEW req \in Request, ReopenWith(p, s, n, req)
      PROVE  ArmedInv'
  <2>1. /\ pos'[p].status = "OPEN" /\ pos'[p].level = req /\ pos[p].status # "NONE"
        /\ \A x \in Ids \ {p} : pos'[x] = pos[x]
    BY <1>2 DEF ReopenWith, StoreInv, TypeOK, Position
  <2>2. /\ Reindex({p}, p, req) /\ Races(p) /\ unsure' = unsure \ (Legs \X {p})
        /\ filled' = filled
    BY <1>2 DEF ReopenWith
  <2>. QED BY <2>1, <2>2, ReplacesArm
<1>. QED BY <1>1, <1>2, ReopenArms DEF AdminStep

LEMMA ArmedStep == ASSUME StoreInv, ArmedInv, [Next]_vars PROVE ArmedInv'
<1>1. CASE \E q \in Ids : FillStep(q) \/ CloseStep(q) \/ AdminStep(q)
  BY <1>1, FillArms, CloseArms, AdminArms
<1>2. CASE \E e \in Editors : EditStep(e)
  BY <1>2, EditShowsArms, EditArmsArms, EditFailsArms DEF EditStep
<1>3. CASE \/ \E q \in Ids : Place(q)
           \/ \E status \in StopOuts : CloseAllBegins(status)
           \/ CloseAllEnds
           \/ \E t \in Accounts : SwitchChecks(t)
           \/ SwitchWrites
           \/ UNCHANGED vars
  <2>1. UNCHANGED <<pos, index, edit, unsure, filled>>
    BY <1>3 DEF Place, CloseAllBegins, CloseAllEnds, SwitchChecks, SwitchWrites, vars
  <2>. QED BY <2>1, SizesArm
<1>. QED BY <1>1, <1>2, <1>3 DEF Next

\* A stop loss or take profit triggers at the level the user sees, for every leg
\* no script error, netting merge, or raced or failed edit has left in doubt.
THEOREM TriggersMatchHash == Spec => []ArmedIsShown
<1>1. Init => ArmedInv
  BY DEF Init, ArmedInv, ArmedIsShown, EditedInv, NewInv
<1>2. StoreInv /\ ArmedInv /\ [Next]_vars => ArmedInv'
  BY ArmedStep
<1>3. ArmedInv => ArmedIsShown
  BY DEF ArmedInv
<1>. QED BY <1>1, <1>2, <1>3, StoreInvariant, PTL DEF Spec

-------------------------------------------------------------------------------
(* What a reopen restores.                                                 *)

HedgingOnly == \A q \in filled : sent[q] = "hedging"

\* A closed record that no netting fill closed keeps the size of its last close.
KeptInv == HedgingOnly => \A p \in Ids : IsClosed(p) => /\ pos[p].original = lastSize[p]
                                                        /\ lastSize[p] # 0

\* Steps that write other fields, or only of positions that are open afterwards.
LEMMA KeptBy ==
  ASSUME KeptInv, lastSize' = lastSize, HedgingOnly' => HedgingOnly,
         \A p \in Ids : IsClosed(p)' => IsClosed(p) /\ pos'[p].original = pos[p].original
  PROVE  KeptInv'
BY DEF KeptInv

LEMMA FillKeeps == ASSUME StoreInv, KeptInv, NEW q \in Ids, FillStep(q) PROVE KeptInv'
<1>. SUFFICES ASSUME HedgingOnly' PROVE KeptInv'
  BY DEF KeptInv
<1>1. Fills(q)
  BY EachFills
<1>2. sent[q] # "netting" /\ HedgingOnly
  BY <1>1 DEF Fills, HedgingOnly
<1>3. PICK s \in Sides, n \in 1..MaxSize, req \in Request : FillCreates(q, s, n, req)
  <2>1. ASSUME NEW s \in Sides, NEW n \in 1..MaxSize, NEW p \in Ids, NEW req \in Request
        PROVE  ~FillAdds(q, p, s, n, req) /\ ~FillFlips(q, p, s, n, req)
    BY <1>2 DEF FillAdds, FillFlips
  <2>2. ASSUME NEW s \in Sides, NEW n \in 1..MaxSize, NEW p \in Ids
        PROVE  ~FillReduces(q, p, s, n) /\ ~FillCloses(q, p, s, n)
    BY <1>2 DEF FillReduces, FillCloses
  <2>. QED BY <2>1, <2>2 DEF FillStep
<1>4. NewPosition(q, s, n, req).status = "OPEN"
  BY NewPositionType DEF StoreInv
<1>5. pos' = [pos EXCEPT ![q] = NewPosition(q, s, n, req)] /\ lastSize' = lastSize
  BY <1>3 DEF FillCreates
<1>. QED BY <1>2, <1>4, <1>5, KeptBy DEF StoreInv, TypeOK

LEMMA CloseKeeps == ASSUME StoreInv, KeptInv, NEW p \in Ids, CloseStep(p) PROVE KeptInv'
<1>1. HedgingOnly' <=> HedgingOnly
  BY CommandsKeepOrders DEF HedgingOnly
<1>2. ASSUME NEW status, CloseFull(p, status) PROVE KeptInv'
  <2>1. pos[p].size > 0 /\ pos[p].size \in 0..MaxSize
    BY <1>2 DEF CloseFull, StoreInv, SizedIffOpen, TypeOK, Position
  <2>2. /\ pos'[p].original = pos[p].size /\ lastSize'[p] = pos[p].size
        /\ \A x \in Ids \ {p} : pos'[x] = pos[x] /\ lastSize'[x] = lastSize[x]
    BY <1>2 DEF CloseFull, StoreInv, TypeOK, Position
  <2>. QED BY <1>1, <2>1, <2>2 DEF KeptInv
<1>3. ASSUME NEW n \in 1..MaxSize, ClosePartly(p, n) PROVE KeptInv'
  <2>1. \A x \in Ids : pos'[x].status = pos[x].status /\ pos'[x].original = pos[x].original
    BY <1>3 DEF ClosePartly, StoreInv, TypeOK, Position
  <2>. QED BY <1>1, <1>3, <2>1, KeptBy DEF ClosePartly
<1>4. CASE CloseAllSkips(p) \/ CloseAllNoTick(p)
  BY <1>1, <1>4, KeptBy DEF CloseAllSkips, CloseAllNoTick
<1>. QED BY <1>2, <1>3, <1>4 DEF CloseStep, Close, CloseAllCloses

LEMMA AdminKeeps == ASSUME StoreInv, KeptInv, NEW p \in Ids, AdminStep(p) PROVE KeptInv'
<1>1. HedgingOnly' <=> HedgingOnly
  BY CommandsKeepOrders DEF HedgingOnly
<1>2. /\ pos'[p].status = "OPEN" /\ lastSize' = lastSize
      /\ \A x \in Ids \ {p} : pos'[x] = pos[x]
  <2>1. CASE Reopen(p)
    BY <2>1 DEF Reopen, StoreInv, TypeOK, Position
  <2>2. CASE \E n \in 0..MaxSize, req \in Request : UpdateParams(p, n, req)
    BY <2>2 DEF UpdateParams, StoreInv, TypeOK, Position
  <2>3. CASE \E n \in 0..MaxSize, req \in Request, s \in Sides : ReopenWith(p, s, n, req)
    BY <2>3 DEF ReopenWith, StoreInv, TypeOK, Position
  <2>. QED BY <2>1, <2>2, <2>3 DEF AdminStep
<1>. QED BY <1>1, <1>2, KeptBy

LEMMA KeptStep == ASSUME StoreInv, SentInv, KeptInv, [Next]_vars PROVE KeptInv'
<1>1. CASE \E q \in Ids : Place(q)
  <2>1. HedgingOnly' => HedgingOnly
    BY <1>1 DEF Place, SentInv, HedgingOnly, StoreInv, TypeOK
  <2>. QED BY <1>1, <2>1, KeptBy DEF Place
<1>2. CASE \E q \in Ids : FillStep(q) \/ CloseStep(q) \/ AdminStep(q)
  BY <1>2, FillKeeps, CloseKeeps, AdminKeeps
<1>3. ASSUME NEW e \in Editors, EditStep(e) PROVE KeptInv'
  <2>1. UNCHANGED <<lastSize, sent, filled>>
    BY <1>3 DEF EditStep, EditShows, EditArms, EditFails
  <2>2. \A x \in Ids : pos'[x].status = pos[x].status /\ pos'[x].original = pos[x].original
    <3>1. CASE \E p \in Ids, l \in Legs, v \in Levels \cup {None} : EditShows(e, p, l, v)
      BY <3>1 DEF EditShows, StoreInv, TypeOK, Position
    <3>2. CASE EditArms(e) \/ EditFails(e)
      BY <3>2 DEF EditArms, EditFails
    <3>. QED BY <1>3, <3>1, <3>2 DEF EditStep
  <2>. QED BY <2>1, <2>2, KeptBy DEF HedgingOnly
<1>4. CASE \/ \E status \in StopOuts : CloseAllBegins(status)
           \/ CloseAllEnds
           \/ \E t \in Accounts : SwitchChecks(t)
           \/ SwitchWrites
           \/ UNCHANGED vars
  <2>1. UNCHANGED <<pos, lastSize, sent, filled>>
    BY <1>4 DEF CloseAllBegins, CloseAllEnds, SwitchChecks, SwitchWrites, vars
  <2>. QED BY <2>1, KeptBy DEF HedgingOnly
<1>. QED BY <1>1, <1>2, <1>3, <1>4 DEF Next

\* Without netting fills a reopened position gets the size it had before its last
\* full close, whatever partial closes, updates and reopens came before.
THEOREM ReopenRestores == Spec => RestoresSize
<1>1. Init => KeptInv
  BY DEF Init, KeptInv
<1>2. StoreInv /\ SentInv /\ KeptInv /\ [Next]_vars => KeptInv'
  BY KeptStep
<1>3. StoreInv /\ KeptInv
      => [HedgingOnly => \A p \in Ids : Reopen(p) => pos'[p].size = lastSize[p]]_vars
  <2>. SUFFICES ASSUME StoreInv, KeptInv, HedgingOnly, NEW p \in Ids, Reopen(p)
                PROVE  pos'[p].size = lastSize[p]
    OBVIOUS
  <2>1. pos'[p].size = Restored(p) /\ IsClosed(p)
    BY DEF Reopen, StoreInv, TypeOK, Position
  <2>. QED BY <2>1 DEF Restored, KeptInv
<1>4. ListsInv => SentInv
  BY DEF ListsInv
<1>. QED BY <1>1, <1>2, <1>3, <1>4, StoreInvariant, ListsInvariant, PTL
         DEF Spec, RestoresSize, HedgingOnly
===============================================================================
