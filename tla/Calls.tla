------------------------------- MODULE Calls -------------------------------
(***************************************************************************)
(* Voice calls from an administrator to a user: the admin's call page      *)
(* (AdminCallUserPage.tsx), the user's tabs (UserCallProvider.tsx and the   *)
(* call store, modal and bar), the ws-gateway between them (call registry  *)
(* and session handlers) and the call records of the auth service.         *)
(*                                                                         *)
(* The gateway runs one task for each connection and one for each ring     *)
(* timeout; a handler is split where another task may run between two of   *)
(* its accesses to the shared registry.  Every connection has two outbound *)
(* queues, one for answers to its own messages (resp) and one for what     *)
(* other tasks send to it (bcast), and nothing orders one by the other.    *)
(***************************************************************************)
EXTENDS Naturals, Sequences, FiniteSets, Functions

CONSTANTS Admins,   \* call pages, one for each administrator
          Tabs,     \* open tabs of the user who is called
          MaxCalls, \* bound: calls ever initiated
          MaxDrops  \* bound: connections lost

ASSUME CallsAssumption ==
    /\ IsFiniteSet(Admins) /\ Admins \cap Tabs = {}
    /\ MaxCalls \in Nat /\ MaxDrops \in Nat

Conns == Admins \cup Tabs
Calls == 1..MaxCalls

VARIABLES
    caller,   \* the admin of every call initiated so far
    registry, \* CallRegistry: status of each call, "none" when not in it
    timer,    \* the ring timeout of each call
    record,   \* admin_call_records.status
    hand,     \* what each connection's task has in hand
    toGw, resp, bcast, \* the queues of each connection
    up,       \* the connection is open and authenticated
    admin,    \* state of the admin pages
    tab,      \* state of the user's tabs
    drops,    \* what is left of MaxDrops
    odd       \* history: which of the disturbances named below occurred

gateway == <<caller, registry, timer, record, hand>>
queues == <<toGw, resp, bcast>>
clients == <<admin, tab>>
vars == <<gateway, queues, up, clients, drops, odd>>

\* overlap: two gateway tasks worked on one call at the same time;
\* cross:   a page applied an event of another call than the one it shows;
\* late:    the microphone was granted, or refused, after its call was left;
\* drop:    a connection was lost;  rival: a tab acted on
\* a call that does not ring in another;
\* switch:  a tab in a call accepted another one, and the first was not ended;
\* stale:   a page hung up before it had its call's id, and ended an earlier one.
Disturbances == {"overlap", "cross", "late", "drop", "rival", "switch", "stale"}

Ongoing == {"Ringing", "Accepted"}
Over == {"rejected", "ended", "timeout"}
Idle == [op |-> "idle", c |-> 0]
Blank == [incoming |-> 0, active |-> 0, asks |-> {}, local |-> 0, live |-> {},
          pc |-> 0, offer |-> 0]
Msg(t, c) == [t |-> t, c |-> c]

Init ==
    /\ caller = <<>>
    /\ registry = [c \in Calls |-> "none"]
    /\ timer = [c \in Calls |-> "off"]
    /\ record = [c \in Calls |-> "none"]
    /\ hand = [k \in Conns |-> Idle]
    /\ toGw = [k \in Conns |-> <<>>]
    /\ resp = [k \in Conns |-> <<>>]
    /\ bcast = [k \in Conns |-> <<>>]
    /\ up = [k \in Conns |-> TRUE]
    /\ admin = [a \in Admins |-> [status |-> "idle", current |-> 0, ask |-> 0,
                                  mic |-> 0, audio |-> FALSE]]
    /\ tab = [u \in Tabs |-> Blank]
    /\ drops = MaxDrops
    /\ odd = {}

Send(k, m) == toGw' = [toGw EXCEPT ![k] = Append(@, m)]
\* send_to_connections reaches the connections registered at that moment.
Broadcast(ks, m) ==
    bcast' = [k \in Conns |-> IF k \in ks /\ up[k] THEN Append(bcast[k], m) ELSE bcast[k]]
Mark(what, cond) == odd' = IF cond THEN odd \cup {what} ELSE odd

-----------------------------------------------------------------------------
(* The admin's page *)

\* The WebRTC effect: leaving (status, current) or cleaning up cancels the
\* pending getUserMedia and stops the tracks; entering a connected call asks.
\* Mutant: cleaning up does not cancel the pending getUserMedia.
ForgetCancel(a, st, cur, clean) ==
    LET moved == st # admin[a].status \/ cur # admin[a].current
    IN  admin' = [admin EXCEPT
            ![a].status = st, ![a].current = cur,
            ![a].ask = IF moved /\ st = "connected" /\ cur # 0 THEN cur ELSE @,
            ![a].mic = IF moved \/ clean THEN 0 ELSE @,
            ![a].audio = @ /\ ~(moved \/ clean)]

Show(a, st, cur, clean) ==
    LET moved == st # admin[a].status \/ cur # admin[a].current
    IN  admin' = [admin EXCEPT
            ![a].status = st, ![a].current = cur,
            ![a].ask = IF moved /\ st = "connected" /\ cur # 0 THEN cur
                       ELSE IF moved \/ clean THEN 0 ELSE @,
            ![a].mic = IF moved \/ clean THEN 0 ELSE @,
            ![a].audio = @ /\ ~(moved \/ clean)]

\* The calls that a page asked for and the gateway has not entered yet.
Asked(q) == Cardinality({i \in 1..Len(q) : q[i].t = "initiate"})
Waiting == SumFunction([a \in Admins |-> Asked(toGw[a])])

\* handleCall and handleCallAgain, offered while idle.  The page keeps the
\* id of a call that was declined.
Call(a) ==
    /\ admin[a].status = "idle"
    /\ Len(caller) + Waiting < MaxCalls
    /\ Show(a, "ringing", admin[a].current, FALSE)
    /\ Send(a, Msg("initiate", 0))
    /\ UNCHANGED <<gateway, resp, bcast, up, tab, drops, odd>>

\* The page shows an older call than the last it asked for.
Behind(a) == Asked(toGw[a]) # 0 \/ \E c \in 1..Len(caller) : caller[c] = a /\ c > admin[a].current

\* handleEndCall and handleCancelRinging: without an id the button does nothing.
HangUp(a) ==
    /\ admin[a].status \in {"ringing", "connected"} /\ admin[a].current # 0
    /\ Show(a, "idle", 0, TRUE)
    /\ Send(a, Msg("end", admin[a].current))
    /\ Mark("stale", Behind(a))
    /\ UNCHANGED <<gateway, resp, bcast, up, tab, drops>>

\* OK under "User declined" or under an error.
Acknowledge(a) ==
    /\ admin[a].status \in {"declined", "error"}
    /\ Show(a, "idle", admin[a].current, FALSE)
    /\ UNCHANGED <<gateway, queues, up, tab, drops, odd>>

\* handleWsEvent: no event is compared with the call the page shows.
AdminEvent(a, m) ==
    /\ \/ m.t = "ringing" /\ Show(a, "ringing", m.c, FALSE)
       \/ m.t = "accepted" /\ Show(a, "connected", admin[a].current, FALSE)
       \/ m.t = "rejected" /\ Show(a, "declined", admin[a].current, FALSE)
       \/ m.t = "ended" /\ Show(a, "idle", 0, TRUE)
       \/ m.t = "error" /\ Show(a, "error", 0, TRUE)
       \/ m.t = "answerSdp" /\ admin' = [admin EXCEPT ![a].audio = admin[a].mic # 0]
    /\ Mark("cross", /\ m.t # "ringing" /\ m.c # admin[a].current
                     /\ admin[a].status \in {"ringing", "connected"})
    /\ UNCHANGED tab

\* getUserMedia resolves: the tracks are added and the offer is sent.
AdminMicGranted(a) ==
    /\ admin[a].ask # 0
    /\ admin' = [admin EXCEPT ![a].mic = admin[a].ask, ![a].ask = 0]
    /\ Send(a, Msg("offer", admin[a].ask))
    /\ UNCHANGED <<gateway, resp, bcast, up, tab, drops, odd>>

AdminMicFails(a) ==
    /\ admin[a].ask # 0
    /\ admin' = [admin EXCEPT ![a].ask = 0, ![a].mic = 0, ![a].audio = FALSE]
    /\ UNCHANGED <<gateway, queues, up, tab, drops, odd>>

-----------------------------------------------------------------------------
(* The user's tabs *)

\* cleanupWebRTC: stop the tracks of the current stream, close the connection.
\* Nothing cancels a pending getUserMedia.
Clean(s) == [s EXCEPT !.live = @ \ {s.local}, !.local = 0, !.pc = 0]

\* A change of activeCallId re-runs the effect: clean up, then start anew.
Activate(s, c) ==
    LET left == IF s.active # 0 THEN Clean(s) ELSE s
    IN  IF c = s.active THEN s
        ELSE IF c = 0 THEN [left EXCEPT !.active = 0]
        ELSE [left EXCEPT !.active = c, !.pc = c, !.asks = @ \cup {c}]
ClearCall(s) == [Activate(Clean(s), 0) EXCEPT !.incoming = 0]

Rivals(u, c) == \E v \in Tabs \ {u} : tab[v].incoming # c

Accept(u) ==
    LET c == tab[u].incoming IN
    /\ c # 0
    /\ tab' = [tab EXCEPT ![u] = [Activate(@, c) EXCEPT !.incoming = 0]]
    /\ Send(u, Msg("answer", c))
    /\ odd' = odd \cup (IF Rivals(u, c) THEN {"rival"} ELSE {})
                 \cup (IF tab[u].active # 0 THEN {"switch"} ELSE {})
    /\ UNCHANGED <<gateway, resp, bcast, up, admin, drops>>

Reject(u) ==
    LET c == tab[u].incoming IN
    /\ c # 0
    /\ tab' = [tab EXCEPT ![u].incoming = 0]
    /\ Send(u, Msg("reject", c))
    /\ Mark("rival", Rivals(u, c))
    /\ UNCHANGED <<gateway, resp, bcast, up, admin, drops>>

\* End in the call bar.
Leave(u) ==
    /\ tab[u].active # 0
    /\ tab' = [tab EXCEPT ![u] = Activate(@, 0)]
    /\ Send(u, Msg("end", tab[u].active))
    /\ UNCHANGED <<gateway, resp, bcast, up, admin, drops, odd>>

\* An offer for another call is ignored; one that arrives before the
\* microphone is kept until the tracks are added.
\* Mutant: an offer that arrives before the microphone is dropped.
TabOfferDropped(u, c) ==
    /\ IF c = tab[u].active /\ tab[u].pc = c /\ tab[u].local = c
       THEN Send(u, Msg("answerSdp", c))
       ELSE UNCHANGED toGw
    /\ UNCHANGED tab

TabOffer(u, c) ==
    IF c # tab[u].active THEN UNCHANGED <<tab, toGw>>
    ELSE IF tab[u].pc # 0 /\ tab[u].local # 0
    THEN Send(u, Msg("answerSdp", c)) /\ UNCHANGED tab
    ELSE tab' = [tab EXCEPT ![u].offer = c] /\ UNCHANGED toGw

TabEvent(u, m) ==
    /\ \/ m.t = "incoming" /\ tab' = [tab EXCEPT ![u].incoming = m.c] /\ UNCHANGED toGw
       \/ m.t \in {"ended", "error"} /\ tab' = [tab EXCEPT ![u] = ClearCall(@)] /\ UNCHANGED toGw
       \/ m.t = "offer" /\ TabOffer(u, m.c)
    /\ Mark("cross", /\ m.t # "offer"
                     /\ \/ m.t # "incoming" /\ tab[u].active \notin {0, m.c}
                        \/ tab[u].incoming \notin {0, m.c})
    /\ UNCHANGED admin

\* getUserMedia resolves.  When the connection it was asked for is closed,
\* addTrack throws and the handler cleans up what is current by then.
TabMicGranted(u, c) ==
    LET got == [tab[u] EXCEPT !.asks = @ \ {c}, !.local = c, !.live = @ \cup {c}]
        answers == tab[u].pc = c /\ tab[u].offer = c
    IN  /\ c \in tab[u].asks
        /\ tab' = [tab EXCEPT ![u] =
               IF tab[u].pc # c THEN Clean(got)
               ELSE IF answers THEN [got EXCEPT !.offer = 0] ELSE got]
        /\ IF answers THEN Send(u, Msg("answerSdp", c)) ELSE UNCHANGED toGw
        /\ Mark("late", tab[u].pc # c)
        /\ UNCHANGED <<gateway, resp, bcast, up, admin, drops>>

TabMicFails(u, c) ==
    /\ c \in tab[u].asks
    /\ tab' = [tab EXCEPT ![u] = [Clean(tab[u]) EXCEPT !.asks = @ \ {c}]]
    /\ Mark("late", tab[u].pc # c)
    /\ UNCHANGED <<gateway, queues, up, admin, drops>>

\* A client takes the next message of either queue.
Receive(k) ==
    \/ /\ resp[k] # <<>> /\ resp' = [resp EXCEPT ![k] = Tail(@)]
       /\ IF k \in Admins THEN AdminEvent(k, Head(resp[k])) /\ UNCHANGED toGw
                          ELSE TabEvent(k, Head(resp[k]))
       /\ UNCHANGED <<gateway, bcast, up, drops>>
    \/ /\ bcast[k] # <<>> /\ bcast' = [bcast EXCEPT ![k] = Tail(@)]
       /\ IF k \in Admins THEN AdminEvent(k, Head(bcast[k])) /\ UNCHANGED toGw
                          ELSE TabEvent(k, Head(bcast[k]))
       /\ UNCHANGED <<gateway, resp, up, drops>>

-----------------------------------------------------------------------------
(* The gateway *)

\* Tasks that are between two steps on call c.
InHand(c) == \/ \E k \in Conns : hand[k].op # "idle" /\ hand[k].c = c
             \/ timer[c] \in {"checked", "removed"}
Overlap(c) == Mark("overlap", InHand(c))
Refusal(k, c) ==
    /\ resp' = [resp EXCEPT ![k] = Append(@, Msg("error", c))]
    /\ UNCHANGED <<caller, registry, timer, record, hand, bcast, odd>>
Take(k) ==
    /\ up[k] /\ hand[k] = Idle /\ toGw[k] # <<>>
    /\ toGw' = [toGw EXCEPT ![k] = Tail(@)]
Next1(k) == Head(toGw[k])
Hand(k, op, c) == hand' = [hand EXCEPT ![k] = [op |-> op, c |-> c]]

\* CallInitiate: enter the call, ring the user's connections, or refuse when
\* there is none.
Initiate(a) ==
    LET c == Len(caller) + 1 IN
    /\ Take(a) /\ Next1(a).t = "initiate"
    /\ caller' = Append(caller, a)
    /\ IF \E u \in Tabs : up[u]
       THEN /\ registry' = [registry EXCEPT ![c] = "Ringing"]
            /\ Broadcast(Tabs, Msg("incoming", c))
            /\ resp' = [resp EXCEPT ![a] = Append(@, Msg("ringing", c))]
            /\ Hand(a, "initiated", c)
       ELSE /\ resp' = [resp EXCEPT ![a] = Append(@, Msg("error", c))]
            /\ UNCHANGED <<registry, bcast, hand>>
    /\ UNCHANGED <<timer, record, up, clients, drops, odd>>

\* CallAnswer reads a copy of the call and checks it ...
Answer(u) ==
    LET c == Next1(u).c IN
    /\ Take(u) /\ Next1(u).t = "answer"
    /\ IF registry[c] = "Ringing"
       THEN /\ Hand(u, "answer", c) /\ Overlap(c)
            /\ UNCHANGED <<caller, registry, timer, record, resp, bcast>>
       ELSE Refusal(u, c)
    /\ UNCHANGED <<up, clients, drops>>

\* ... then marks it, if it is still there, and tells the admin either way.
\* Mutant: the admin is not told.
AnswerQuietly(u) ==
    LET c == hand[u].c IN
    /\ hand[u].op = "answer"
    /\ registry' = [registry EXCEPT ![c] = IF @ = "none" THEN @ ELSE "Accepted"]
    /\ Hand(u, "answered", c)
    /\ UNCHANGED <<caller, timer, record, queues, up, clients, drops, odd>>

AnswerMarks(u) ==
    LET c == hand[u].c IN
    /\ hand[u].op = "answer"
    /\ registry' = [registry EXCEPT ![c] = IF @ = "none" THEN @ ELSE "Accepted"]
    /\ Broadcast({caller[c]}, Msg("accepted", c))
    /\ Hand(u, "answered", c)
    /\ UNCHANGED <<caller, timer, record, toGw, resp, up, clients, drops, odd>>

\* CallReject and CallEnd remove the call whatever its status is.
Leaves(k, t, outcome, ks) ==
    LET c == Next1(k).c IN
    /\ Take(k) /\ Next1(k).t = t
    /\ IF registry[c] \in Ongoing
       THEN /\ registry' = [registry EXCEPT ![c] = "none"]
            /\ Broadcast({caller[c]} \cup ks, Msg(outcome, c))
            /\ Hand(k, outcome, c) /\ Overlap(c)
            /\ UNCHANGED <<caller, timer, record, resp>>
       ELSE Refusal(k, c)
    /\ UNCHANGED <<up, clients, drops>>

RejectCall(u) == Leaves(u, "reject", "rejected", {})
EndCall(k) == Leaves(k, "end", "ended", Tabs)

\* The WebRTC messages go to the other party of a call in the registry.
Relay(k) ==
    /\ Take(k) /\ Next1(k).t \in {"offer", "answerSdp"}
    /\ IF registry[Next1(k).c] \in Ongoing
       THEN Broadcast(IF k \in Admins THEN Tabs ELSE {caller[Next1(k).c]}, Next1(k))
       ELSE UNCHANGED bcast
    /\ UNCHANGED <<gateway, resp, up, clients, drops, odd>>

\* The record handler of the auth service.
\* Mutant: the first event of a call is not inserted.
RecordsNoRinging(c, ev) ==
    record' = [record EXCEPT ![c] = IF @ = "none" THEN @ ELSE ev]

Records(c, ev) ==
    record' = [record EXCEPT ![c] =
        IF ev = "initiated" THEN IF @ = "none" THEN "ringing" ELSE @
        ELSE IF @ = "none" THEN @ ELSE ev]

\* The handler's last step publishes the event; CallInitiate then starts
\* the ring timeout.
\* Mutant: no ring timeout is started.
PublishNoTimer(k) ==
    LET h == hand[k] IN
    /\ h.op \in {"initiated", "answered"} \cup Over
    /\ Records(h.c, h.op) /\ hand' = [hand EXCEPT ![k] = Idle]
    /\ UNCHANGED <<caller, registry, timer, queues, up, clients, drops, odd>>

Publish(k) ==
    LET h == hand[k] IN
    /\ h.op \in {"initiated", "answered"} \cup Over
    /\ Records(h.c, h.op)
    /\ timer' = IF h.op = "initiated" THEN [timer EXCEPT ![h.c] = "armed"] ELSE timer
    /\ hand' = [hand EXCEPT ![k] = Idle]
    /\ UNCHANGED <<caller, registry, queues, up, clients, drops, odd>>

\* After 60 s remove_if_ringing reads the status under the entry's lock ...
TimerChecks(c) ==
    /\ timer[c] = "armed"
    /\ IF registry[c] = "Ringing"
       THEN timer' = [timer EXCEPT ![c] = "checked"] /\ Overlap(c)
       ELSE timer' = [timer EXCEPT ![c] = "off"] /\ UNCHANGED odd
    /\ UNCHANGED <<caller, registry, record, hand, queues, up, clients, drops>>

\* ... and removes the entry after dropping the lock.
TimerRemoves(c) ==
    /\ timer[c] = "checked"
    /\ registry' = [registry EXCEPT ![c] = "none"]
    /\ timer' = [timer EXCEPT ![c] = "removed"]
    /\ Broadcast({caller[c]} \cup Tabs, Msg("ended", c))
    /\ UNCHANGED <<caller, record, hand, toGw, resp, up, clients, drops, odd>>

TimerPublishes(c) ==
    /\ timer[c] = "removed"
    /\ Records(c, "timeout") /\ timer' = [timer EXCEPT ![c] = "off"]
    /\ UNCHANGED <<caller, registry, hand, queues, up, clients, drops, odd>>

\* A connection is lost: its queues go, its task is aborted where it stands
\* and the registry of calls is left alone.
Drop(k) ==
    /\ drops > 0 /\ up[k]
    /\ drops' = drops - 1
    /\ up' = [up EXCEPT ![k] = FALSE]
    /\ toGw' = [toGw EXCEPT ![k] = <<>>]
    /\ resp' = [resp EXCEPT ![k] = <<>>]
    /\ bcast' = [bcast EXCEPT ![k] = <<>>]
    /\ hand' = [hand EXCEPT ![k] = Idle]
    /\ odd' = odd \cup {"drop"}
    /\ UNCHANGED <<caller, registry, timer, record, clients>>

\* scheduleReconnect; the pages keep their state, what they sent meanwhile
\* waits in the client's queue.
Reconnect(k) ==
    /\ ~up[k]
    /\ up' = [up EXCEPT ![k] = TRUE]
    /\ UNCHANGED <<gateway, queues, clients, drops, odd>>

-----------------------------------------------------------------------------
GatewayStep ==
    \/ \E a \in Admins : Initiate(a)
    \/ \E u \in Tabs : Answer(u) \/ AnswerMarks(u) \/ RejectCall(u)
    \/ \E k \in Conns : EndCall(k) \/ Relay(k) \/ Publish(k)
    \/ \E c \in Calls : TimerChecks(c) \/ TimerRemoves(c) \/ TimerPublishes(c)

Next ==
    \/ GatewayStep
    \/ \E a \in Admins : \/ Call(a) \/ HangUp(a) \/ Acknowledge(a)
                         \/ AdminMicGranted(a) \/ AdminMicFails(a)
    \/ \E u \in Tabs : \/ Accept(u) \/ Reject(u) \/ Leave(u)
                       \/ \E c \in Calls : TabMicGranted(u, c) \/ TabMicFails(u, c)
    \/ \E k \in Conns : Receive(k) \/ Drop(k) \/ Reconnect(k)

Spec == Init /\ [][Next]_vars

-----------------------------------------------------------------------------
(* Properties *)

\* The type invariant.
TypeOK ==
    /\ caller \in Seq(Admins) /\ Len(caller) <= MaxCalls
    /\ registry \in [Calls -> {"none"} \cup Ongoing]
    /\ timer \in [Calls -> {"off", "armed", "checked", "removed"}]
    /\ record \in [Calls -> {"none", "ringing", "answered"} \cup Over]
    /\ \A k \in Conns : /\ hand[k].c \in 0..Len(caller)
                        /\ \A i \in 1..Len(toGw[k]) : toGw[k][i].c \in 0..Len(caller)
    /\ up \in [Conns -> BOOLEAN] /\ drops \in 0..MaxDrops
    /\ \A a \in Admins : admin[a].status \in {"idle", "ringing", "connected", "declined", "error"}
    /\ \A u \in Tabs : tab[u].active \in 0..Len(caller) /\ tab[u].incoming \in 0..Len(caller)
    /\ odd \subseteq Disturbances

\* A ringing call stops ringing: its timeout is coming, as long as no
\* connection is lost (an aborted CallInitiate never starts it).
RingingHasTimeout ==
    "drop" \notin odd => \A c \in Calls :
        registry[c] = "Ringing" =>
            \/ timer[c] \in {"armed", "checked"}
            \/ \E a \in Admins : hand[a] = [op |-> "initiated", c |-> c]

\* The types, and a registry in which nothing rings for ever.
RegistrySound == TypeOK /\ RingingHasTimeout

\* The admin's microphone is on only in the call the page shows as connected:
\* whatever cancels the call while getUserMedia is pending also cancels that.
AdminMicOnlyInCall ==
    \A a \in Admins : admin[a].mic # 0 =>
        admin[a].status = "connected" /\ admin[a].current = admin[a].mic

\* The user's microphone is on only in the active call, unless it was granted
\* after the call had been left.
UserMicOnlyInCall ==
    "late" \notin odd => \A u \in Tabs : tab[u].live \subseteq {tab[u].active}

\* No microphone is on outside a call, on either side.
MicOnlyInCall == AdminMicOnlyInCall /\ UserMicOnlyInCall

\* Nothing is on its way and no task is at work.
Quiet ==
    /\ \A k \in Conns : /\ up[k] /\ hand[k] = Idle
                        /\ toGw[k] = <<>> /\ resp[k] = <<>> /\ bcast[k] = <<>>
    /\ \A c \in Calls : timer[c] \in {"off", "armed"}

\* Once everything sent has arrived, the three parties agree: a call in the
\* registry is on the admin's page and in a tab in its status, and a page
\* shows no other call.
PartiesAgree ==
    Quiet /\ odd = {} =>
        /\ \A c \in Calls :
             /\ registry[c] = "Accepted" =>
                  /\ admin[caller[c]].status = "connected" /\ admin[caller[c]].current = c
                  /\ \E u \in Tabs : tab[u].active = c
             /\ registry[c] = "Ringing" =>
                  /\ admin[caller[c]].status = "ringing" /\ admin[caller[c]].current = c
                  /\ \E u \in Tabs : tab[u].incoming = c
        /\ \A a \in Admins :
             admin[a].status \in {"ringing", "connected"} => registry[admin[a].current] \in Ongoing
        /\ \A u \in Tabs : tab[u].active # 0 => registry[tab[u].active] = "Accepted"

\* ... and the call record says what the registry says, however the calls
\* of other pages were mixed up.
RecordAgrees ==
    Quiet /\ odd \cap {"overlap", "drop"} = {} =>
        \A c \in 1..Len(caller) :
            /\ registry[c] = "Ringing" <=> record[c] = "ringing"
            /\ registry[c] = "Accepted" <=> record[c] = "answered"

\* Both sides of an accepted call with their microphones on hear each other:
\* the offer is answered whether it comes before or after the user's
\* microphone.
AudioComesUp ==
    Quiet /\ odd = {} => \A a \in Admins, u \in Tabs :
        admin[a].mic # 0 /\ tab[u].local = admin[a].mic => admin[a].audio
=============================================================================
