----------------------------- MODULE Calls_proofs -----------------------------
(***************************************************************************)
(* Proofs about Calls, for any number of call pages, tabs, calls and lost  *)
(* connections: a microphone is on only in the call that is shown, a call  *)
(* that rings has its timeout, the call record says what the registry      *)
(* says, pages and tabs come to agree with the registry, and the two sides *)
(* of a call come to hear each other.                                      *)
(***************************************************************************)
EXTENDS Calls, SumTheorems, TLAPS

USE DEF clients, gateway, queues

-------------------------------------------------------------------------------
(* The admin's page.                                                       *)

\* The fields of a page.
Page(r) == [status |-> r.status, current |-> r.current, ask |-> r.ask,
            mic |-> r.mic, audio |-> r.audio]

\* The microphone that is on, and the one asked for, belong to the call shown.
InCall(r) == /\ r.mic # 0 => r.status = "connected" /\ r.current = r.mic
             /\ r.ask # 0 => r.status = "connected" /\ r.current = r.ask

PageInv == /\ admin = [a \in Admins |-> Page(admin[a])]
           /\ \A a \in Admins : InCall(admin[a])

LEMMA PageWritten ==
  ASSUME PageInv, NEW a \in Admins, admin' = [b \in Admins |-> admin'[b]],
         \A b \in Admins \ {a} : admin'[b] = admin[b],
         admin'[a] = Page(admin'[a]), InCall(admin'[a])
  PROVE  PageInv'
<1>1. \A b \in Admins : admin[b] = Page(admin[b]) /\ InCall(admin[b])
  BY DEF PageInv
<1>2. ASSUME NEW b \in Admins PROVE admin'[b] = Page(admin'[b]) /\ InCall(admin'[b])
  BY <1>1
<1>. QED BY <1>2 DEF PageInv, Page, InCall

\* The WebRTC effect cancels what the page asked for when it leaves the call.
LEMMA ShowKeeps ==
  ASSUME PageInv, NEW a \in Admins, NEW st, NEW cur, NEW clean, Show(a, st, cur, clean)
  PROVE  PageInv'
<1>. DEFINE r     == admin[a]
            moved == st # r.status \/ cur # r.current
            ask   == IF moved /\ st = "connected" /\ cur # 0 THEN cur
                     ELSE IF moved \/ clean THEN 0 ELSE r.ask
            mic   == IF moved \/ clean THEN 0 ELSE r.mic
<1>1. r = Page(r) /\ InCall(r)
  BY SMTT(60) DEF PageInv
<1>2. /\ admin' = [b \in Admins |-> admin'[b]]
      /\ \A b \in Admins \ {a} : admin'[b] = admin[b]
  BY ZenonT(60) DEF Show, PageInv
<1>3. admin'[a] = [status |-> st, current |-> cur, ask |-> ask, mic |-> mic,
                   audio |-> r.audio /\ ~(moved \/ clean)]
  BY ZenonT(60), <1>1 DEF Show, PageInv, Page
<1>4. admin'[a] = Page(admin'[a]) /\ InCall(admin'[a])
  BY <1>1, <1>3 DEF Page, InCall
<1>. QED BY <1>2, <1>4, PageWritten

LEMMA EventKeeps ==
  ASSUME PageInv, NEW a \in Admins, NEW m, AdminEvent(a, m)
  PROVE  PageInv'
<1>1. CASE admin' = [admin EXCEPT ![a].audio = admin[a].mic # 0]
  <2>1. admin[a] = Page(admin[a]) /\ InCall(admin[a])
    BY DEF PageInv
  <2>2. /\ admin' = [b \in Admins |-> admin'[b]]
        /\ \A b \in Admins \ {a} : admin'[b] = admin[b]
    BY <1>1 DEF PageInv
  <2>3. admin'[a] = [admin[a] EXCEPT !.audio = admin[a].mic # 0]
    BY <1>1 DEF PageInv
  <2>4. admin'[a] = Page(admin'[a]) /\ InCall(admin'[a])
    BY <2>1, <2>3 DEF Page, InCall
  <2>. QED BY <2>2, <2>4, PageWritten
<1>. QED BY <1>1, ShowKeeps DEF AdminEvent

LEMMA AdminMicKeeps ==
  ASSUME PageInv, NEW a \in Admins, AdminMicGranted(a) \/ AdminMicFails(a)
  PROVE  PageInv'
<1>. DEFINE r == admin[a]
<1>1. r = Page(r) /\ InCall(r)
  BY DEF PageInv
<1>2. /\ admin' = [b \in Admins |-> admin'[b]]
      /\ \A b \in Admins \ {a} : admin'[b] = admin[b]
  BY DEF AdminMicGranted, AdminMicFails, PageInv
<1>3. \/ admin'[a] = [r EXCEPT !.mic = r.ask, !.ask = 0] /\ r.ask # 0
      \/ admin'[a] = [r EXCEPT !.ask = 0, !.mic = 0, !.audio = FALSE]
  BY <1>1 DEF AdminMicGranted, AdminMicFails, PageInv, Page
<1>4. admin'[a] = Page(admin'[a]) /\ InCall(admin'[a])
  BY <1>1, <1>3 DEF Page, InCall
<1>. QED BY <1>2, <1>4, PageWritten

-------------------------------------------------------------------------------
(* The user's tabs.                                                        *)

\* The fields of a tab.
Tab(s) == [incoming |-> s.incoming, active |-> s.active, asks |-> s.asks, local |-> s.local,
           live |-> s.live, pc |-> s.pc, offer |-> s.offer]

\* The connection is the active call's, the stream is the connection's, and no
\* other track is on.
Sound(s) == /\ s.pc # 0 => s.pc = s.active
            /\ s.local # 0 => s.local = s.pc
            /\ s.live \subseteq {s.local} \ {0}

TabInv == /\ tab = [u \in Tabs |-> Tab(tab[u])]
          /\ "late" \notin odd => \A u \in Tabs : Sound(tab[u])

\* cleanupWebRTC leaves nothing on.
LEMMA CleanTab ==
  ASSUME NEW s, s = Tab(s)
  PROVE  /\ Clean(s) = Tab(Clean(s))
         /\ Clean(s).active = s.active /\ Clean(s).pc = 0 /\ Clean(s).local = 0
         /\ Sound(s) => Clean(s).live = {} /\ Sound(Clean(s))
<1>. DEFINE rest == s.live \ {s.local}
            t    == Clean(s)
<1>1. t = [s EXCEPT !.live = rest, !.local = 0, !.pc = 0]
  BY DEF Clean
<1>. HIDE DEF rest, t
<1>2. t = Tab(t) /\ t.active = s.active /\ t.pc = 0 /\ t.local = 0 /\ t.live = rest
  BY <1>1 DEF Tab
<1>3. Sound(s) => t.live = {} /\ Sound(t)
  BY <1>2 DEF Sound, rest
<1>. QED BY <1>2, <1>3 DEF t

\* Entering or leaving a call starts from nothing.
LEMMA ActivateTab ==
  ASSUME NEW s, s = Tab(s), NEW c
  PROVE  /\ Activate(s, c) = Tab(Activate(s, c))
         /\ Sound(s) => Sound(Activate(s, c))
<1>. DEFINE left == IF s.active # 0 THEN Clean(s) ELSE s
<1>1. left = Tab(left) /\ (Sound(s) => left.live = {} /\ left.pc = 0 /\ left.local = 0)
  <2>1. CASE s.active # 0
    BY <2>1, CleanTab
  <2>2. CASE s.active = 0
    BY <2>2 DEF Sound
  <2>. QED BY <2>1, <2>2
<1>2. Activate(s, c) = IF c = s.active THEN s
                       ELSE IF c = 0 THEN [left EXCEPT !.active = 0]
                       ELSE [left EXCEPT !.active = c, !.pc = c, !.asks = @ \cup {c}]
  BY DEF Activate
<1>. HIDE DEF left
<1>. QED BY ZenonT(60), <1>1, <1>2 DEF Tab, Sound

LEMMA TabWritten ==
  ASSUME TabInv, NEW u \in Tabs, NEW new, tab' = [tab EXCEPT ![u] = new], new = Tab(new),
         odd \subseteq odd', "late" \notin odd' /\ Sound(tab[u]) => Sound(new)
  PROVE  TabInv'
<1>1. tab'[u] = new /\ (\A v \in Tabs \ {u} : tab'[v] = tab[v]) /\ tab' = [v \in Tabs |-> tab'[v]]
  BY DEF TabInv
<1>2. ASSUME NEW v \in Tabs PROVE tab'[v] = Tab(tab'[v])
  BY <1>1 DEF TabInv
<1>3. ASSUME NEW v \in Tabs, "late" \notin odd' PROVE Sound(tab'[v])
  BY <1>1, <1>3 DEF TabInv
<1>. QED BY ZenonT(60), <1>1, <1>2, <1>3 DEF TabInv, Tab, Sound

\* What an event of the gateway does to a tab.
LEMMA TabEventKeeps ==
  ASSUME TabInv, NEW u \in Tabs, NEW m, TabEvent(u, m)
  PROVE  TabInv'
<1>1. odd \subseteq odd' /\ tab[u] = Tab(tab[u]) /\ ("late" \notin odd => Sound(tab[u]))
  BY DEF TabInv, TabEvent, Mark
<1>2. CASE tab' = [tab EXCEPT ![u].incoming = m.c]
  <2>1. [tab[u] EXCEPT !.incoming = m.c] = Tab([tab[u] EXCEPT !.incoming = m.c])
    BY <1>1 DEF Tab
  <2>2. Sound(tab[u]) => Sound([tab[u] EXCEPT !.incoming = m.c])
    BY <1>1 DEF Tab, Sound
  <2>. QED BY <1>1, <1>2, <2>1, <2>2, TabWritten
<1>3. CASE tab' = [tab EXCEPT ![u] = ClearCall(@)]
  <2>. DEFINE done == Activate(Clean(tab[u]), 0)
              new  == [done EXCEPT !.incoming = 0]
  <2>1. done = Tab(done) /\ (Sound(tab[u]) => Sound(done))
    BY <1>1, CleanTab, ActivateTab
  <2>. HIDE DEF done
  <2>2. new = Tab(new) /\ (Sound(tab[u]) => Sound(new))
    BY <2>1 DEF Tab, Sound
  <2>3. tab' = [tab EXCEPT ![u] = new]
    BY <1>3 DEF ClearCall, done
  <2>. HIDE DEF new
  <2>. QED BY <1>1, <2>2, <2>3, TabWritten
<1>4. CASE tab' = [tab EXCEPT ![u].offer = m.c]
  <2>1. [tab[u] EXCEPT !.offer = m.c] = Tab([tab[u] EXCEPT !.offer = m.c])
    BY <1>1 DEF Tab
  <2>2. Sound(tab[u]) => Sound([tab[u] EXCEPT !.offer = m.c])
    BY <1>1 DEF Tab, Sound
  <2>. QED BY <1>1, <1>4, <2>1, <2>2, TabWritten
<1>5. CASE tab' = tab
  BY <1>1, <1>5 DEF TabInv
<1>. QED BY <1>2, <1>3, <1>4, <1>5 DEF TabEvent, TabOffer

\* Accept, Reject and the call bar.
LEMMA TabClickKeeps ==
  ASSUME TabInv, NEW u \in Tabs, Accept(u) \/ Reject(u) \/ Leave(u)
  PROVE  TabInv'
<1>1. odd \subseteq odd' /\ tab[u] = Tab(tab[u]) /\ ("late" \notin odd => Sound(tab[u]))
  BY DEF TabInv, Accept, Reject, Leave, Mark
<1>2. CASE Accept(u)
  <2>. DEFINE done == Activate(tab[u], tab[u].incoming)
              new  == [done EXCEPT !.incoming = 0]
  <2>1. done = Tab(done) /\ (Sound(tab[u]) => Sound(done))
    BY <1>1, ActivateTab
  <2>. HIDE DEF done
  <2>2. new = Tab(new) /\ (Sound(tab[u]) => Sound(new))
    BY <2>1 DEF Tab, Sound
  <2>3. tab' = [tab EXCEPT ![u] = new]
    BY <1>2 DEF Accept, done
  <2>. HIDE DEF new
  <2>. QED BY <1>1, <2>2, <2>3, TabWritten
<1>3. CASE Reject(u)
  <2>. DEFINE new == [tab[u] EXCEPT !.incoming = 0]
  <2>1. new = Tab(new) /\ (Sound(tab[u]) => Sound(new))
    BY <1>1 DEF Tab, Sound
  <2>2. tab' = [tab EXCEPT ![u] = new]
    BY <1>3 DEF Reject
  <2>. HIDE DEF new
  <2>. QED BY <1>1, <2>1, <2>2, TabWritten
<1>4. CASE Leave(u)
  <2>1. Activate(tab[u], 0) = Tab(Activate(tab[u], 0))
    BY <1>1, ActivateTab
  <2>2. Sound(tab[u]) => Sound(Activate(tab[u], 0))
    BY <1>1, ActivateTab
  <2>3. tab' = [tab EXCEPT ![u] = Activate(tab[u], 0)]
    BY <1>4 DEF Leave
  <2>. QED BY <1>1, <2>1, <2>2, <2>3, TabWritten
<1>. QED BY <1>2, <1>3, <1>4

\* A microphone granted for the connection that is current is the active
\* call's; one that is refused leaves nothing on.
LEMMA TabMicKeeps ==
  ASSUME TabInv, NEW u \in Tabs, NEW c \in Calls, TabMicGranted(u, c) \/ TabMicFails(u, c)
  PROVE  TabInv'
<1>1. odd \subseteq odd' /\ tab[u] = Tab(tab[u]) /\ ("late" \notin odd => Sound(tab[u]))
  BY DEF TabInv, TabMicGranted, TabMicFails, Mark
<1>2. "late" \notin odd' => tab[u].pc = c
  BY DEF TabMicGranted, TabMicFails, Mark
<1>3. c # 0
  BY CallsAssumption DEF Calls
<1>4. CASE TabMicGranted(u, c)
  <2>. DEFINE asks == tab[u].asks \ {c}
              live == tab[u].live \cup {c}
              got == [tab[u] EXCEPT !.asks = asks, !.local = c, !.live = live]
              new == IF tab[u].pc # c THEN Clean(got)
                     ELSE IF tab[u].offer = c THEN [got EXCEPT !.offer = 0] ELSE got
  <2>1. tab' = [tab EXCEPT ![u] = new]
    BY <1>4 DEF TabMicGranted
  <2>2. got = [tab[u] EXCEPT !.asks = asks, !.local = c, !.live = live]
    OBVIOUS
  <2>. HIDE DEF asks, live, got
  <2>3. got = Tab(got) /\ (Sound(tab[u]) /\ tab[u].pc = c => Sound(got))
    BY <1>1, <1>3, <2>2 DEF Tab, Sound, live
  <2>4. new = Tab(new)
    BY <2>3, CleanTab DEF Tab
  <2>5. Sound(tab[u]) /\ tab[u].pc = c => Sound(new)
    BY <2>3 DEF Tab, Sound
  <2>. HIDE DEF new
  <2>. QED BY <1>1, <1>2, <2>1, <2>4, <2>5, TabWritten
<1>5. CASE TabMicFails(u, c)
  <2>. DEFINE rest == Clean(tab[u])
              new  == [rest EXCEPT !.asks = @ \ {c}]
  <2>1. tab' = [tab EXCEPT ![u] = new]
    BY <1>5 DEF TabMicFails
  <2>2. rest = Tab(rest) /\ (Sound(tab[u]) => Sound(rest))
    BY <1>1, CleanTab
  <2>. HIDE DEF rest
  <2>3. new = Tab(new) /\ (Sound(tab[u]) => Sound(new))
    BY <2>2 DEF Tab, Sound
  <2>. HIDE DEF new
  <2>. QED BY <1>1, <2>1, <2>3, TabWritten
<1>. QED BY <1>4, <1>5

-------------------------------------------------------------------------------
(* Both sides together.                                                    *)

\* Nothing at the gateway reaches into the clients.
LEMMA GatewayApart ==
  ASSUME GatewayStep
  PROVE  UNCHANGED clients /\ odd \subseteq odd'
<1>1. ASSUME NEW a \in Admins, Initiate(a) PROVE UNCHANGED clients /\ odd' = odd
  BY <1>1 DEF Initiate
<1>2. ASSUME NEW u \in Tabs, Answer(u) \/ AnswerMarks(u) \/ RejectCall(u)
      PROVE  UNCHANGED clients /\ odd \subseteq odd'
  BY <1>2 DEF Answer, AnswerMarks, RejectCall, Leaves, Refusal, Overlap, Mark
<1>3. ASSUME NEW k \in Conns, EndCall(k) \/ Relay(k) \/ Publish(k)
      PROVE  UNCHANGED clients /\ odd \subseteq odd'
  BY <1>3 DEF EndCall, Relay, Publish, Leaves, Refusal, Overlap, Mark
<1>4. ASSUME NEW c \in Calls, TimerChecks(c) \/ TimerRemoves(c) \/ TimerPublishes(c)
      PROVE  UNCHANGED clients /\ odd \subseteq odd'
  BY <1>4 DEF TimerChecks, TimerRemoves, TimerPublishes, Overlap, Mark
<1>. QED BY <1>1, <1>2, <1>3, <1>4 DEF GatewayStep

\* A step that leaves a side's state leaves what is known of it.
LEMMA Untouched ==
  /\ PageInv /\ UNCHANGED admin => PageInv'
  /\ TabInv /\ UNCHANGED tab /\ odd \subseteq odd' => TabInv'
BY DEF PageInv, TabInv, Page, InCall, Tab, Sound

LEMMA MicStep == ASSUME PageInv, TabInv, [Next]_vars PROVE PageInv' /\ TabInv'
<1>1. CASE GatewayStep
  BY <1>1, GatewayApart, Untouched
<1>2. ASSUME NEW a \in Admins, Call(a) \/ HangUp(a) \/ Acknowledge(a)
      PROVE  PageInv' /\ TabInv'
  <2>1. UNCHANGED tab /\ odd \subseteq odd'
    BY <1>2 DEF Call, HangUp, Acknowledge, Mark
  <2>. QED BY <1>2, <2>1, ShowKeeps, Untouched DEF Call, HangUp, Acknowledge
<1>3. ASSUME NEW a \in Admins, AdminMicGranted(a) \/ AdminMicFails(a)
      PROVE  PageInv' /\ TabInv'
  <2>1. UNCHANGED <<tab, odd>>
    BY <1>3 DEF AdminMicGranted, AdminMicFails
  <2>. QED BY <1>3, <2>1, AdminMicKeeps, Untouched
<1>4. ASSUME NEW u \in Tabs, Accept(u) \/ Reject(u) \/ Leave(u)
      PROVE  PageInv' /\ TabInv'
  <2>1. UNCHANGED admin
    BY <1>4 DEF Accept, Reject, Leave
  <2>. QED BY <1>4, <2>1, TabClickKeeps, Untouched
<1>5. ASSUME NEW u \in Tabs, NEW c \in Calls, TabMicGranted(u, c) \/ TabMicFails(u, c)
      PROVE  PageInv' /\ TabInv'
  <2>1. UNCHANGED admin
    BY <1>5 DEF TabMicGranted, TabMicFails
  <2>. QED BY <1>5, <2>1, TabMicKeeps, Untouched
<1>6. ASSUME NEW k \in Conns, Receive(k) PROVE PageInv' /\ TabInv'
  <2>1. PICK m : IF k \in Admins THEN AdminEvent(k, m) ELSE TabEvent(k, m)
    BY <1>6 DEF Receive
  <2>2. CASE k \in Admins
    <3>1. AdminEvent(k, m) /\ UNCHANGED tab /\ odd \subseteq odd'
      BY <2>1, <2>2 DEF AdminEvent, Mark
    <3>. QED BY <2>2, <3>1, EventKeeps, Untouched
  <2>3. CASE k \notin Admins
    <3>1. k \in Tabs /\ TabEvent(k, m) /\ UNCHANGED admin
      BY <2>1, <2>3 DEF TabEvent, Conns
    <3>. QED BY <3>1, TabEventKeeps, Untouched
  <2>. QED BY <2>2, <2>3
<1>7. ASSUME NEW k \in Conns, Drop(k) \/ Reconnect(k) PROVE PageInv' /\ TabInv'
  BY <1>7, Untouched DEF Drop, Reconnect
<1>8. CASE UNCHANGED vars
  BY <1>8, Untouched DEF vars
<1>. QED BY <1>1, <1>2, <1>3, <1>4, <1>5, <1>6, <1>7, <1>8 DEF Next

\* No microphone is on outside the call that is shown: not on the admin's page,
\* whatever events and clicks come while getUserMedia is pending, nor in the
\* user's tabs unless it was granted after its call had been left.
THEOREM MicrophonesOnlyInCalls == Spec => []MicOnlyInCall
<1>1. Init => PageInv /\ TabInv
  BY DEF Init, PageInv, TabInv, Page, InCall, Tab, Sound, Blank
<1>2. PageInv /\ TabInv /\ [Next]_vars => PageInv' /\ TabInv'
  BY MicStep
<1>3. PageInv /\ TabInv => MicOnlyInCall
  BY DEF PageInv, InCall, TabInv, Sound, MicOnlyInCall, AdminMicOnlyInCall, UserMicOnlyInCall
<1>. QED BY <1>1, <1>2, <1>3, PTL DEF Spec

-------------------------------------------------------------------------------
(* Types.  The calls that exist are 1..Len(caller).                        *)

Ids      == 0..Len(caller)
Ops      == {"idle", "initiated", "answer", "answered"} \cup Over
Statuses == {"idle", "ringing", "connected", "declined", "error"}
Words    == {"initiate", "answer", "reject", "end", "offer", "answerSdp", "incoming", "ringing",
             "accepted", "error"} \cup Over
Letter   == [t : Words, c : Ids]

GatewayOK == /\ caller \in Seq(Admins)
             /\ registry \in [Calls -> {"none"} \cup Ongoing]
             /\ timer \in [Calls -> {"off", "armed", "checked", "removed"}]
             /\ record \in [Calls -> {"none", "ringing", "answered"} \cup Over]
             /\ hand \in [Conns -> [op : Ops, c : Ids]]

QueuesOK == /\ toGw \in [Conns -> Seq(Letter)]
            /\ resp \in [Conns -> Seq(Letter)]
            /\ bcast \in [Conns -> Seq(Letter)]

LinksOK == up \in [Conns -> BOOLEAN] /\ drops \in 0..MaxDrops /\ odd \subseteq Disturbances

PageIds(r) == r.status \in Statuses /\ r.current \in Ids /\ r.ask \in Ids
TabIds(s)  == s.active \in Ids /\ s.incoming \in Ids /\ s.asks \subseteq Ids

ClientsOK == /\ \A a \in Admins : PageIds(admin[a])
             /\ \A u \in Tabs : TabIds(tab[u])

\* Every page is held to the bound on calls, together with what is on its way.
Room == Len(caller) + Waiting <= MaxCalls

\* Nothing is known of a call that has not been entered.
Fresh == \A c \in Calls : c > Len(caller) =>
           registry[c] = "none" /\ timer[c] = "off" /\ record[c] = "none"

Shape == PageInv /\ TabInv /\ GatewayOK /\ QueuesOK /\ LinksOK /\ ClientsOK /\ Room

-------------------------------------------------------------------------------
(* How many calls are asked for in a queue.                                *)

LEMMA AskedType ==
  ASSUME NEW S, NEW q \in Seq(S)
  PROVE  /\ IsFiniteSet({i \in 1..Len(q) : q[i].t = "initiate"})
         /\ Asked(q) \in Nat
<1>1. Len(q) \in Nat
  OBVIOUS
<1>2. IsFiniteSet(1..Len(q))
  BY <1>1, FS_Interval
<1>3. IsFiniteSet({i \in 1..Len(q) : q[i].t = "initiate"})
  BY <1>2, FS_Subset
<1>. QED BY <1>3, FS_CardinalityType DEF Asked

LEMMA AskedEmpty == Asked(<<>>) = 0
<1>1. {i \in 1..Len(<<>>) : (<<>>)[i].t = "initiate"} = {}
  OBVIOUS
<1>. QED BY <1>1, FS_EmptySet DEF Asked

LEMMA AskedAppend ==
  ASSUME NEW S, NEW q \in Seq(S), NEW m \in S
  PROVE  /\ m.t = "initiate" => Asked(Append(q, m)) = Asked(q) + 1
         /\ m.t # "initiate" => Asked(Append(q, m)) = Asked(q)
<1>. DEFINE n == Len(q) + 1
            old == {i \in 1..Len(q) : q[i].t = "initiate"}
            new == {i \in 1..Len(Append(q, m)) : Append(q, m)[i].t = "initiate"}
<1>1. /\ Len(q) \in Nat /\ Len(Append(q, m)) = n /\ Append(q, m)[n] = m
      /\ \A i \in 1..Len(q) : Append(q, m)[i] = q[i]
  OBVIOUS
<1>2. IsFiniteSet(old) /\ n \notin old /\ Asked(q) = Cardinality(old)
      /\ Asked(Append(q, m)) = Cardinality(new)
  BY <1>1, AskedType DEF Asked
<1>3. CASE m.t = "initiate"
  <2>1. new = old \cup {n}
    BY <1>1, <1>3
  <2>. HIDE DEF new, old, n
  <2>. QED BY <1>2, <1>3, <2>1, FS_AddElement
<1>4. CASE m.t # "initiate"
  <2>1. new = old
    BY <1>1, <1>4
  <2>. QED BY <1>2, <1>4, <2>1
<1>. QED BY <1>3, <1>4

LEMMA AskedTail ==
  ASSUME NEW S, NEW q \in Seq(S), q # <<>>
  PROVE  /\ Head(q).t = "initiate" => Asked(Tail(q)) = Asked(q) - 1
         /\ Head(q).t # "initiate" => Asked(Tail(q)) = Asked(q)
<1>. DEFINE old == {i \in 1..Len(q) : q[i].t = "initiate"}
            new == {i \in 1..Len(Tail(q)) : Tail(q)[i].t = "initiate"}
            f == [i \in new |-> i + 1]
<1>1. /\ Len(q) \in Nat /\ Len(q) # 0 /\ Head(q) = q[1] /\ Len(Tail(q)) = Len(q) - 1
      /\ \A i \in 1..Len(Tail(q)) : Tail(q)[i] = q[i + 1]
  OBVIOUS
<1>2. /\ IsFiniteSet(old) /\ IsFiniteSet(new)
      /\ Asked(q) = Cardinality(old) /\ Asked(Tail(q)) = Cardinality(new)
  <2>1. Tail(q) \in Seq(S)
    OBVIOUS
  <2>. QED BY <2>1, AskedType DEF Asked
<1>3. f \in Bijection(new, old \ {1})
  <2>1. f \in [new -> old \ {1}]
    BY <1>1
  <2>2. \A i, j \in new : f[i] = f[j] => i = j
    OBVIOUS
  <2>3. ASSUME NEW j \in old \ {1} PROVE \E i \in new : f[i] = j
    <3>1. j - 1 \in 1..Len(Tail(q)) /\ (j - 1) + 1 = j
      BY <1>1
    <3>2. j - 1 \in new /\ f[j - 1] = j
      BY <1>1, <3>1
    <3>. QED BY <3>2
  <2>. HIDE DEF f, new, old
  <2>. QED BY <2>1, <2>2, <2>3 DEF Bijection, Injection, Surjection, IsInjective
<1>4. Cardinality(new) = Cardinality(old \ {1})
  <2>. HIDE DEF f, new, old
  <2>. QED BY <1>2, <1>3, FS_Bijection DEF ExistsBijection
<1>5. 1 \in old <=> Head(q).t = "initiate"
  BY <1>1
<1>6. 1 \notin old => old \ {1} = old
  OBVIOUS
<1>. HIDE DEF new, old
<1>7. 1 \in old => Cardinality(old \ {1}) = Cardinality(old) - 1
  BY <1>2, FS_RemoveElement
<1>. QED BY <1>2, <1>4, <1>5, <1>6, <1>7

\* One queue changes, and the calls that are waiting with it.
LEMMA WaitingMoves ==
  ASSUME NEW k \in Admins, \A a \in Admins : Asked(toGw[a]) \in Nat /\ Asked(toGw'[a]) \in Nat,
         \A a \in Admins \ {k} : toGw'[a] = toGw[a]
  PROVE  Waiting \in Int /\ Waiting' = Waiting + (Asked(toGw'[k]) - Asked(toGw[k]))
<1>. DEFINE f == [a \in Admins |-> Asked(toGw[a])]  h == [a \in Admins |-> Asked(toGw'[a])]
<1>1. f \in [Admins -> Int] /\ h \in [Admins -> Int] /\ \A a \in Admins \ {k} : h[a] = f[a]
  OBVIOUS
<1>2. f[k] = Asked(toGw[k]) /\ h[k] = Asked(toGw'[k])
  OBVIOUS
<1>3. Waiting = SumFunction(f) /\ Waiting' = SumFunction(h)
  BY Zenon DEF Waiting
<1>. HIDE DEF f, h
<1>4. SumFunction(f) \in Int
  BY <1>1, CallsAssumption, SumType
<1>5. SumFunction(h) = SumFunction(f) + (h[k] - f[k])
  BY <1>1, CallsAssumption, SumChange
<1>. QED BY <1>2, <1>3, <1>4, <1>5

LEMMA WaitingStays ==
  ASSUME \A a \in Admins : toGw'[a] = toGw[a]
  PROVE  Waiting' = Waiting
<1>1. [a \in Admins |-> Asked(toGw'[a])] = [a \in Admins |-> Asked(toGw[a])]
  OBVIOUS
<1>. QED BY <1>1, Zenon DEF Waiting

\* A step on connection k leaves room, if what it takes from the queue is at least
\* what it enters.
LEMMA RoomKept ==
  ASSUME Shape, caller' \in Seq(Admins), NEW k \in Conns, Asked(toGw'[k]) \in Nat,
         \A j \in Conns \ {k} : toGw'[j] = toGw[j],
         Len(caller') + Asked(toGw'[k]) <= Len(caller) + Asked(toGw[k]),
         Len(caller') # Len(caller) => k \in Admins
  PROVE  Room'
<1>1. \A j \in Conns : Asked(toGw[j]) \in Nat /\ Asked(toGw'[j]) \in Nat
  BY AskedType DEF Shape, QueuesOK
<1>2. Admins \subseteq Conns /\ Len(caller) \in Nat /\ Len(caller') \in Nat
  BY DEF Conns, Shape, GatewayOK
<1>3. CASE k \in Admins
  <2>1. Waiting \in Int /\ Waiting' = Waiting + (Asked(toGw'[k]) - Asked(toGw[k]))
    BY <1>1, <1>2, <1>3, WaitingMoves
  <2>. QED BY SMTT(60), <1>1, <1>2, <2>1, CallsAssumption DEF Shape, Room
<1>4. CASE k \notin Admins
  <2>1. Waiting' = Waiting
    BY <1>2, <1>4, WaitingStays
  <2>2. Len(caller') = Len(caller)
    BY <1>4
  <2>. QED BY <2>1, <2>2 DEF Shape, Room
<1>. QED BY <1>3, <1>4

\* What is asked for and entered stays within the bound, and there is no negative
\* number of calls waiting.
LEMMA WaitingNat == ASSUME Shape PROVE Waiting \in Nat
<1>. DEFINE f == [a \in Admins |-> Asked(toGw[a])]
<1>1. f \in [Admins -> Nat]
  BY AskedType DEF Shape, QueuesOK, Conns
<1>2. Waiting = SumFunction(f)
  BY Zenon DEF Waiting
<1>. HIDE DEF f
<1>. QED BY <1>1, <1>2, CallsAssumption, SumNat

-------------------------------------------------------------------------------
(* Queues.                                                                 *)

LEMMA IdsKept == ASSUME caller' = caller PROVE Ids' = Ids /\ Letter' = Letter
BY DEF Ids, Letter

LEMMA SendKeeps ==
  ASSUME Shape, caller' = caller, NEW k \in Conns, NEW m \in Letter, m.t # "initiate", Send(k, m)
  PROVE  toGw' \in [Conns -> Seq(Letter)] /\ Room'
<1>1. toGw' = [toGw EXCEPT ![k] = Append(toGw[k], m)] /\ toGw \in [Conns -> Seq(Letter)]
  BY DEF Send, Shape, QueuesOK
<1>2. toGw' \in [Conns -> Seq(Letter)]
  BY <1>1
<1>3. toGw'[k] = Append(toGw[k], m) /\ \A j \in Conns \ {k} : toGw'[j] = toGw[j]
  BY <1>1
<1>4. Asked(toGw[k]) \in Nat /\ Asked(toGw'[k]) = Asked(toGw[k])
  <2>. PICK q \in Seq(Letter) : q = toGw[k]
    BY <1>1
  <2>1. Asked(q) \in Nat
    BY AskedType
  <2>2. Asked(Append(q, m)) = Asked(q)
    BY AskedAppend
  <2>. QED BY <1>3, <2>1, <2>2
<1>5. caller' \in Seq(Admins) /\ Len(caller') = Len(caller) /\ Len(caller) \in Nat
  BY DEF Shape, GatewayOK
<1>6. Len(caller') + Asked(toGw'[k]) <= Len(caller) + Asked(toGw[k])
  BY <1>4, <1>5
<1>. QED BY <1>2, <1>3, <1>4, <1>5, <1>6, RoomKept

LEMMA RoomQuiet == ASSUME Room, UNCHANGED <<caller, toGw>> PROVE Room'
BY WaitingStays DEF Room

LEMMA CastKeeps ==
  ASSUME Shape, NEW ks, NEW m \in Letter, Broadcast(ks, m)
  PROVE  bcast' \in [Conns -> Seq(Letter)]
BY DEF Broadcast, Shape, QueuesOK

LEMMA RespKeeps ==
  ASSUME Shape, NEW k \in Conns, NEW m \in Letter, resp' = [resp EXCEPT ![k] = Append(@, m)]
  PROVE  resp' \in [Conns -> Seq(Letter)]
BY DEF Shape, QueuesOK

LEMMA HeadOf ==
  ASSUME NEW S, NEW q \in Seq(S), q # <<>>
  PROVE  Head(q) \in S /\ Tail(q) \in Seq(S)
OBVIOUS

\* The gateway takes a message that enters no call.
LEMMA TakeKeeps ==
  ASSUME Shape, NEW k \in Conns, Take(k)
  PROVE  /\ Next1(k) \in Letter /\ toGw' \in [Conns -> Seq(Letter)]
         /\ caller' = caller => Room'
<1>1. /\ toGw \in [Conns -> Seq(Letter)] /\ toGw[k] # <<>> /\ toGw[k] \in Seq(Letter)
      /\ toGw' = [toGw EXCEPT ![k] = Tail(toGw[k])]
  BY DEF Take, Shape, QueuesOK
<1>2. Next1(k) \in Letter /\ Tail(toGw[k]) \in Seq(Letter)
  BY <1>1, HeadOf DEF Next1
<1>3. toGw' \in [Conns -> Seq(Letter)] /\ toGw'[k] = Tail(toGw[k])
      /\ \A j \in Conns \ {k} : toGw'[j] = toGw[j]
  BY <1>1, <1>2
<1>4. ASSUME caller' = caller PROVE Room'
  <2>1. Asked(toGw[k]) \in Nat /\ Asked(toGw'[k]) <= Asked(toGw[k]) /\ Asked(toGw'[k]) \in Nat
    <3>. PICK q \in Seq(Letter) : q = toGw[k]
      BY <1>1
    <3>1. Asked(q) \in Nat /\ Asked(Tail(q)) \in Nat
      BY <1>2, AskedType
    <3>2. Asked(Tail(q)) = Asked(q) \/ Asked(Tail(q)) = Asked(q) - 1
      BY <1>1, AskedTail
    <3>. QED BY <1>3, <3>1, <3>2
  <2>2. caller' \in Seq(Admins) /\ Len(caller') = Len(caller) /\ Len(caller) \in Nat
    BY <1>4 DEF Shape, GatewayOK
  <2>3. Len(caller') + Asked(toGw'[k]) <= Len(caller) + Asked(toGw[k])
    BY <2>1, <2>2
  <2>. QED BY <1>3, <2>1, <2>2, <2>3, RoomKept
<1>. QED BY <1>2, <1>3, <1>4

LEMMA MarkKeeps ==
  ASSUME LinksOK, NEW what \in Disturbances, NEW cond, Mark(what, cond)
  PROVE  odd' \subseteq Disturbances
BY DEF LinksOK, Mark

-------------------------------------------------------------------------------
(* The pages refer to calls that exist.                                    *)

LEMMA ZeroId == ASSUME Shape PROVE 0 \in Ids
BY DEF Shape, GatewayOK, Ids

LEMMA ShowIds ==
  ASSUME Shape, NEW a \in Admins, NEW st \in Statuses, NEW cur \in Ids, NEW clean,
         Show(a, st, cur, clean)
  PROVE  \A b \in Admins : PageIds(admin'[b])
<1>. DEFINE r     == admin[a]
            moved == st # r.status \/ cur # r.current
            ask   == IF moved /\ st = "connected" /\ cur # 0 THEN cur
                     ELSE IF moved \/ clean THEN 0 ELSE r.ask
            mic   == IF moved \/ clean THEN 0 ELSE r.mic
<1>1. r = Page(r) /\ PageIds(r)
  BY SMTT(30) DEF Shape, PageInv, ClientsOK
<1>2. \A b \in Admins \ {a} : admin'[b] = admin[b]
  BY SMTT(60) DEF Show, Shape, PageInv
<1>3. admin'[a] = [status |-> st, current |-> cur, ask |-> ask, mic |-> mic,
                   audio |-> r.audio /\ ~(moved \/ clean)]
  BY <1>1 DEF Show, Shape, PageInv, Page
<1>4. ask \in Ids
  BY <1>1, ZeroId DEF PageIds
<1>. HIDE DEF ask, mic, moved
<1>5. PageIds(admin'[a])
  BY <1>3, <1>4 DEF PageIds
<1>6. ASSUME NEW b \in Admins, b # a PROVE PageIds(admin'[b])
  BY <1>2, <1>6 DEF Shape, ClientsOK
<1>. QED BY <1>5, <1>6

\* One field of one page.
LEMMA PageFieldIds ==
  ASSUME Shape, NEW a \in Admins, NEW r, admin' = [admin EXCEPT ![a] = r], PageIds(r)
  PROVE  \A b \in Admins : PageIds(admin'[b])
<1>1. admin'[a] = r /\ \A b \in Admins \ {a} : admin'[b] = admin[b]
  BY DEF Shape, PageInv
<1>. QED BY <1>1 DEF Shape, ClientsOK

LEMMA EventIds ==
  ASSUME Shape, NEW a \in Admins, NEW m \in Letter, AdminEvent(a, m)
  PROVE  \A b \in Admins : PageIds(admin'[b])
<1>1. admin[a] = Page(admin[a]) /\ PageIds(admin[a]) /\ m.c \in Ids /\ 0 \in Ids
  BY ZeroId DEF Shape, PageInv, ClientsOK, Letter
<1>2. CASE admin' = [admin EXCEPT ![a].audio = admin[a].mic # 0]
  <2>. DEFINE r == [admin[a] EXCEPT !.audio = admin[a].mic # 0]
  <2>1. PageIds(r)
    BY <1>1 DEF Page, PageIds
  <2>2. admin' = [admin EXCEPT ![a] = r]
    BY <1>2
  <2>. HIDE DEF r
  <2>. QED BY <2>1, <2>2, PageFieldIds
<1>3. CASE \E st \in Statuses, cur \in Ids, clean \in BOOLEAN : Show(a, st, cur, clean)
  BY <1>3, ShowIds
<1>4. CASE Show(a, "ringing", m.c, FALSE)
  BY <1>1, <1>3, <1>4 DEF Statuses
<1>5. CASE Show(a, "connected", admin[a].current, FALSE) \/ Show(a, "declined", admin[a].current, FALSE)
  BY <1>1, <1>3, <1>5 DEF Statuses, PageIds
<1>6. CASE Show(a, "idle", 0, TRUE) \/ Show(a, "error", 0, TRUE)
  BY <1>1, <1>3, <1>6 DEF Statuses
<1>. QED BY <1>2, <1>4, <1>5, <1>6 DEF AdminEvent

LEMMA AdminMicIds ==
  ASSUME Shape, NEW a \in Admins, AdminMicGranted(a) \/ AdminMicFails(a)
  PROVE  \A b \in Admins : PageIds(admin'[b])
<1>1. admin[a] = Page(admin[a]) /\ PageIds(admin[a]) /\ 0 \in Ids
  BY ZeroId DEF Shape, PageInv, ClientsOK
<1>. PICK r : admin' = [admin EXCEPT ![a] = r]
               /\ \/ r = [admin[a] EXCEPT !.mic = admin[a].ask, !.ask = 0]
                  \/ r = [admin[a] EXCEPT !.ask = 0, !.mic = 0, !.audio = FALSE]
  <2>1. \/ admin' = [admin EXCEPT ![a] = [admin[a] EXCEPT !.mic = admin[a].ask, !.ask = 0]]
        \/ admin' = [admin EXCEPT ![a] = [admin[a] EXCEPT !.ask = 0, !.mic = 0, !.audio = FALSE]]
    BY <1>1 DEF AdminMicGranted, AdminMicFails, Shape, PageInv, Page
  <2>. QED BY <2>1
<1>2. PageIds(r)
  BY <1>1 DEF Page, PageIds
<1>. QED BY <1>2, PageFieldIds

\* The tabs.
LEMMA CleanIds ==
  ASSUME NEW s, s = Tab(s), TabIds(s)
  PROVE  TabIds(Clean(s))
<1>. DEFINE rest == s.live \ {s.local}
<1>. PICK t : t = Clean(s)
  OBVIOUS
<1>1. t = [s EXCEPT !.live = rest, !.local = 0, !.pc = 0]
  BY DEF Clean
<1>. HIDE DEF rest
<1>2. TabIds(t)
  BY <1>1 DEF Tab, TabIds
<1>. QED BY <1>2

LEMMA ActivateIds ==
  ASSUME NEW s, s = Tab(s), TabIds(s), NEW c \in Ids, 0 \in Ids
  PROVE  TabIds(Activate(s, c))
<1>. DEFINE left == IF s.active # 0 THEN Clean(s) ELSE s
<1>1. left = Tab(left) /\ TabIds(left)
  BY CleanTab, CleanIds
<1>2. Activate(s, c) = IF c = s.active THEN s
                       ELSE IF c = 0 THEN [left EXCEPT !.active = 0]
                       ELSE [left EXCEPT !.active = c, !.pc = c, !.asks = @ \cup {c}]
  BY DEF Activate
<1>. HIDE DEF left
<1>. QED BY <1>1, <1>2 DEF Tab, TabIds

LEMMA TabFieldIds ==
  ASSUME Shape, NEW u \in Tabs, NEW s, tab' = [tab EXCEPT ![u] = s], TabIds(s)
  PROVE  \A v \in Tabs : TabIds(tab'[v])
<1>1. tab'[u] = s /\ \A v \in Tabs \ {u} : tab'[v] = tab[v]
  BY DEF Shape, TabInv
<1>. QED BY <1>1 DEF Shape, ClientsOK

LEMMA TabEventIds ==
  ASSUME Shape, NEW u \in Tabs, NEW m \in Letter, TabEvent(u, m)
  PROVE  \A v \in Tabs : TabIds(tab'[v])
<1>1. tab[u] = Tab(tab[u]) /\ TabIds(tab[u]) /\ m.c \in Ids /\ 0 \in Ids
  BY ZeroId DEF Shape, TabInv, ClientsOK, Letter
<1>2. CASE tab' = [tab EXCEPT ![u].incoming = m.c]
  <2>1. TabIds([tab[u] EXCEPT !.incoming = m.c])
    BY <1>1 DEF Tab, TabIds
  <2>. QED BY <1>2, <2>1, TabFieldIds
<1>3. CASE tab' = [tab EXCEPT ![u] = ClearCall(@)]
  <2>. DEFINE done == Activate(Clean(tab[u]), 0)
              new  == [done EXCEPT !.incoming = 0]
  <2>1. done = Tab(done) /\ TabIds(done)
    BY <1>1, CleanTab, CleanIds, ActivateTab, ActivateIds
  <2>. HIDE DEF done
  <2>2. TabIds(new)
    BY <1>1, <2>1 DEF Tab, TabIds
  <2>3. tab' = [tab EXCEPT ![u] = new]
    BY <1>3 DEF ClearCall, done
  <2>. HIDE DEF new
  <2>. QED BY <2>2, <2>3, TabFieldIds
<1>4. CASE tab' = [tab EXCEPT ![u].offer = m.c]
  <2>1. TabIds([tab[u] EXCEPT !.offer = m.c])
    BY <1>1 DEF Tab, TabIds
  <2>. QED BY <1>4, <2>1, TabFieldIds
<1>5. CASE tab' = tab
  BY <1>5 DEF Shape, ClientsOK
<1>. QED BY <1>2, <1>3, <1>4, <1>5 DEF TabEvent, TabOffer

LEMMA TabClickIds ==
  ASSUME Shape, NEW u \in Tabs, Accept(u) \/ Reject(u) \/ Leave(u)
  PROVE  \A v \in Tabs : TabIds(tab'[v])
<1>1. tab[u] = Tab(tab[u]) /\ TabIds(tab[u]) /\ tab[u].incoming \in Ids /\ 0 \in Ids
  BY ZeroId DEF Shape, TabInv, ClientsOK, TabIds
<1>2. CASE Accept(u)
  <2>. DEFINE done == Activate(tab[u], tab[u].incoming)
              new  == [done EXCEPT !.incoming = 0]
  <2>1. done = Tab(done) /\ TabIds(done)
    BY <1>1, ActivateTab, ActivateIds
  <2>. HIDE DEF done
  <2>2. TabIds(new)
    BY <1>1, <2>1 DEF Tab, TabIds
  <2>3. tab' = [tab EXCEPT ![u] = new]
    BY <1>2 DEF Accept, done
  <2>. HIDE DEF new
  <2>. QED BY <2>2, <2>3, TabFieldIds
<1>3. CASE Reject(u)
  <2>1. TabIds([tab[u] EXCEPT !.incoming = 0])
    BY <1>1 DEF Tab, TabIds
  <2>2. tab' = [tab EXCEPT ![u] = [tab[u] EXCEPT !.incoming = 0]]
    BY <1>3 DEF Reject
  <2>. QED BY <2>1, <2>2, TabFieldIds
<1>4. CASE Leave(u)
  <2>1. TabIds(Activate(tab[u], 0))
    BY <1>1, ActivateIds
  <2>2. tab' = [tab EXCEPT ![u] = Activate(tab[u], 0)]
    BY <1>4 DEF Leave
  <2>. QED BY <2>1, <2>2, TabFieldIds
<1>. QED BY <1>2, <1>3, <1>4

LEMMA TabMicIds ==
  ASSUME Shape, NEW u \in Tabs, NEW c \in Calls, TabMicGranted(u, c) \/ TabMicFails(u, c)
  PROVE  \A v \in Tabs : TabIds(tab'[v])
<1>1. tab[u] = Tab(tab[u]) /\ TabIds(tab[u])
  BY DEF Shape, TabInv, ClientsOK
<1>2. CASE TabMicGranted(u, c)
  <2>. DEFINE asks == tab[u].asks \ {c}
              live == tab[u].live \cup {c}
              got == [tab[u] EXCEPT !.asks = asks, !.local = c, !.live = live]
              new == IF tab[u].pc # c THEN Clean(got)
                     ELSE IF tab[u].offer = c THEN [got EXCEPT !.offer = 0] ELSE got
  <2>1. tab' = [tab EXCEPT ![u] = new]
    BY <1>2 DEF TabMicGranted
  <2>2. got = [tab[u] EXCEPT !.asks = asks, !.local = c, !.live = live]
        /\ (TabIds(tab[u]) => asks \subseteq Ids)
    BY DEF TabIds
  <2>. HIDE DEF asks, live, got
  <2>3. got = Tab(got) /\ TabIds(got)
    BY <1>1, <2>2 DEF Tab, TabIds
  <2>4. TabIds(new)
    BY <2>3, CleanIds DEF Tab, TabIds
  <2>. HIDE DEF new
  <2>. QED BY <2>1, <2>4, TabFieldIds
<1>3. CASE TabMicFails(u, c)
  <2>. DEFINE rest == Clean(tab[u])
              new  == [rest EXCEPT !.asks = @ \ {c}]
  <2>1. tab' = [tab EXCEPT ![u] = new]
    BY <1>3 DEF TabMicFails
  <2>2. rest = Tab(rest) /\ TabIds(rest)
    BY <1>1, CleanTab, CleanIds
  <2>. HIDE DEF rest
  <2>3. TabIds(new)
    BY <2>2 DEF Tab, TabIds
  <2>. HIDE DEF new
  <2>. QED BY <2>1, <2>3, TabFieldIds
<1>. QED BY <1>2, <1>3

-------------------------------------------------------------------------------
(* Every step keeps the types.                                             *)

LEMMA LetterIs == ASSUME NEW t \in Words, NEW c \in Ids PROVE Msg(t, c) \in Letter /\ Msg(t, c).t = t
BY DEF Msg, Letter

\* A step that enters no call.
LEMMA ShapeNext ==
  ASSUME Shape, [Next]_vars, caller' = caller,
         registry' \in [Calls -> {"none"} \cup Ongoing],
         timer' \in [Calls -> {"off", "armed", "checked", "removed"}],
         record' \in [Calls -> {"none", "ringing", "answered"} \cup Over],
         hand' \in [Conns -> [op : Ops, c : Ids]],
         toGw' \in [Conns -> Seq(Letter)], resp' \in [Conns -> Seq(Letter)],
         bcast' \in [Conns -> Seq(Letter)], LinksOK', Room',
         \A a \in Admins : PageIds(admin'[a]), \A u \in Tabs : TabIds(tab'[u])
  PROVE  Shape'
<1>1. PageInv' /\ TabInv'
  BY MicStep DEF Shape
<1>2. Ids' = Ids /\ Letter' = Letter
  BY IdsKept
<1>3. GatewayOK'
  BY <1>2 DEF Shape, GatewayOK
<1>4. QueuesOK'
  BY <1>2 DEF QueuesOK
<1>5. ClientsOK'
  BY <1>2 DEF ClientsOK, PageIds, TabIds
<1>. QED BY <1>1, <1>3, <1>4, <1>5 DEF Shape

\* What the hypotheses of ShapeNext say of what a step leaves alone.
LEMMA Kept ==
  ASSUME Shape
  PROVE  /\ UNCHANGED registry => registry' \in [Calls -> {"none"} \cup Ongoing]
         /\ UNCHANGED timer => timer' \in [Calls -> {"off", "armed", "checked", "removed"}]
         /\ UNCHANGED record => record' \in [Calls -> {"none", "ringing", "answered"} \cup Over]
         /\ UNCHANGED hand => hand' \in [Conns -> [op : Ops, c : Ids]]
         /\ UNCHANGED toGw => toGw' \in [Conns -> Seq(Letter)]
         /\ UNCHANGED resp => resp' \in [Conns -> Seq(Letter)]
         /\ UNCHANGED bcast => bcast' \in [Conns -> Seq(Letter)]
         /\ UNCHANGED admin => \A a \in Admins : PageIds(admin'[a])
         /\ UNCHANGED tab => \A u \in Tabs : TabIds(tab'[u])
         /\ UNCHANGED <<up, drops, odd>> => LinksOK'
         /\ UNCHANGED <<caller, toGw>> => Room'
<1>1. UNCHANGED <<caller, toGw>> => Room'
  BY RoomQuiet DEF Shape
<1>. QED BY <1>1 DEF Shape, GatewayOK, QueuesOK, ClientsOK, LinksOK

\* A client's step: the gateway is left alone.
LEMMA ShapeClient ==
  ASSUME Shape, [Next]_vars, UNCHANGED <<gateway, up, drops>>,
         toGw' \in [Conns -> Seq(Letter)], resp' \in [Conns -> Seq(Letter)],
         bcast' \in [Conns -> Seq(Letter)], odd' \subseteq Disturbances, Room',
         \A a \in Admins : PageIds(admin'[a]), \A u \in Tabs : TabIds(tab'[u])
  PROVE  Shape'
<1>1. LinksOK'
  BY DEF Shape, LinksOK
<1>. QED BY <1>1, Kept, ShapeNext

LEMMA CallShape == ASSUME Shape, [Next]_vars, NEW a \in Admins, Call(a) PROVE Shape'
<1>1. a \in Conns /\ admin[a].current \in Ids /\ 0 \in Ids /\ "ringing" \in Statuses
  BY ZeroId DEF Conns, Shape, ClientsOK, PageIds, Statuses
<1>2. \A b \in Admins : PageIds(admin'[b])
  BY <1>1, ShowIds DEF Call
<1>3. UNCHANGED <<gateway, resp, bcast, up, tab, drops, odd>>
  BY DEF Call
<1>. PICK m \in Letter : m.t = "initiate" /\ Send(a, m)
  BY <1>1, LetterIs DEF Call, Words
<1>4. toGw' = [toGw EXCEPT ![a] = Append(toGw[a], m)] /\ toGw \in [Conns -> Seq(Letter)]
  BY DEF Send, Shape, QueuesOK
<1>5. toGw' \in [Conns -> Seq(Letter)] /\ toGw'[a] = Append(toGw[a], m)
      /\ \A j \in Conns \ {a} : toGw'[j] = toGw[j]
  BY <1>1, <1>4
<1>6. \A j \in Conns : Asked(toGw[j]) \in Nat /\ Asked(toGw'[j]) \in Nat
  BY <1>4, <1>5, AskedType
<1>7. Asked(toGw'[a]) = Asked(toGw[a]) + 1
  <2>. PICK q \in Seq(Letter) : q = toGw[a]
    BY <1>1, <1>4
  <2>1. Asked(Append(q, m)) = Asked(q) + 1
    BY AskedAppend
  <2>. QED BY <1>5, <2>1
<1>8. Waiting \in Int /\ Waiting' = Waiting + (Asked(toGw'[a]) - Asked(toGw[a]))
  BY <1>5, <1>6, WaitingMoves DEF Conns
<1>9. Room'
  <2>1. Len(caller) \in Nat /\ Len(caller) + Waiting < MaxCalls /\ caller' = caller
    BY <1>3 DEF Shape, GatewayOK, Call
  <2>2. Waiting' = Waiting + 1
    BY <1>1, <1>6, <1>7, <1>8
  <2>. QED BY <1>8, <2>1, <2>2, CallsAssumption DEF Room
<1>. QED BY <1>2, <1>3, <1>5, <1>9, Kept, ShapeClient DEF Shape, LinksOK

LEMMA AdminShape ==
  ASSUME Shape, [Next]_vars, NEW a \in Admins,
         HangUp(a) \/ Acknowledge(a) \/ AdminMicGranted(a) \/ AdminMicFails(a)
  PROVE  Shape'
<1>1. /\ a \in Conns /\ admin[a].current \in Ids /\ admin[a].ask \in Ids /\ 0 \in Ids
      /\ "idle" \in Statuses /\ odd \subseteq Disturbances
  BY ZeroId DEF Conns, Shape, ClientsOK, PageIds, Statuses, LinksOK
<1>2. UNCHANGED <<gateway, resp, bcast, up, tab, drops>> /\ odd' \subseteq Disturbances
  <2>1. odd' \subseteq odd \cup {"stale"}
    BY DEF HangUp, Acknowledge, AdminMicGranted, AdminMicFails, Mark
  <2>. QED BY <1>1, <2>1 DEF HangUp, Acknowledge, AdminMicGranted, AdminMicFails, Disturbances
<1>3. \A b \in Admins : PageIds(admin'[b])
  BY <1>1, ShowIds, AdminMicIds DEF HangUp, Acknowledge
<1>4. CASE \E m \in Letter : m.t # "initiate" /\ Send(a, m)
  BY <1>1, <1>2, <1>3, <1>4, SendKeeps, Kept, ShapeClient
<1>5. CASE HangUp(a)
  BY <1>1, <1>4, <1>5, LetterIs DEF HangUp, Words
<1>6. CASE AdminMicGranted(a)
  BY <1>1, <1>4, <1>6, LetterIs DEF AdminMicGranted, Words
<1>7. CASE UNCHANGED toGw
  BY <1>1, <1>2, <1>3, <1>7, Kept, ShapeClient
<1>. QED BY <1>5, <1>6, <1>7 DEF Acknowledge, AdminMicFails

LEMMA TabShape ==
  ASSUME Shape, [Next]_vars, NEW u \in Tabs,
         \/ Accept(u) \/ Reject(u) \/ Leave(u)
         \/ \E c \in Calls : TabMicGranted(u, c) \/ TabMicFails(u, c)
  PROVE  Shape'
<1>1. u \in Conns /\ TabIds(tab[u])
  BY SMTT(30) DEF Conns, Shape, ClientsOK
<1>2. UNCHANGED <<gateway, resp, bcast, up, admin, drops>>
  BY ZenonT(60) DEF Accept, Reject, Leave, TabMicGranted, TabMicFails
<1>3. \A v \in Tabs : TabIds(tab'[v])
  BY SMTT(60), TabClickIds, TabMicIds
<1>4. odd' \subseteq Disturbances
  BY ZenonT(60) DEF Shape, LinksOK, Accept, Reject, Leave, TabMicGranted, TabMicFails, Mark, Disturbances
<1>5. \/ UNCHANGED toGw
      \/ \E m \in Letter : m.t # "initiate" /\ Send(u, m)
  <2>1. ASSUME NEW t \in Words, t # "initiate", NEW c \in Ids, Send(u, Msg(t, c))
        PROVE  \E m \in Letter : m.t # "initiate" /\ Send(u, m)
    BY <2>1, LetterIs
  <2>2. ASSUME NEW c \in Calls, TabMicGranted(u, c) \/ TabMicFails(u, c) PROVE <1>5!1 \/ <1>5!2
    BY ZenonT(60), <1>1, <2>1, <2>2 DEF TabMicGranted, TabMicFails, TabIds, Words
  <2>. QED BY SMTT(60), <1>1, <2>1, <2>2 DEF Accept, Reject, Leave, TabIds, Words
<1>6. CASE UNCHANGED toGw
  BY <1>2, <1>3, <1>4, <1>6, Kept, ShapeClient
<1>7. CASE \E m \in Letter : m.t # "initiate" /\ Send(u, m)
  BY <1>1, <1>2, <1>3, <1>4, <1>7, SendKeeps, Kept, ShapeClient
<1>. QED BY <1>5, <1>6, <1>7

LEMMA ReceiveShape == ASSUME Shape, [Next]_vars, NEW k \in Conns, Receive(k) PROVE Shape'
<1>. PICK m \in Letter : IF k \in Admins THEN AdminEvent(k, m) /\ UNCHANGED toGw ELSE TabEvent(k, m)
  <2>1. CASE resp[k] # <<>> /\ (IF k \in Admins THEN AdminEvent(k, Head(resp[k])) /\ UNCHANGED toGw
                                                ELSE TabEvent(k, Head(resp[k])))
    BY <2>1, HeadOf DEF Shape, QueuesOK
  <2>2. CASE bcast[k] # <<>> /\ (IF k \in Admins THEN AdminEvent(k, Head(bcast[k])) /\ UNCHANGED toGw
                                                 ELSE TabEvent(k, Head(bcast[k])))
    BY <2>2, HeadOf DEF Shape, QueuesOK
  <2>. QED BY <2>1, <2>2 DEF Receive
<1>1. UNCHANGED <<gateway, up, drops>>
  BY DEF Receive
<1>2. resp' \in [Conns -> Seq(Letter)] /\ bcast' \in [Conns -> Seq(Letter)]
  <2>1. \/ UNCHANGED resp
        \/ resp[k] # <<>> /\ resp' = [resp EXCEPT ![k] = Tail(resp[k])]
    BY DEF Receive
  <2>2. \/ UNCHANGED bcast
        \/ bcast[k] # <<>> /\ bcast' = [bcast EXCEPT ![k] = Tail(bcast[k])]
    BY DEF Receive
  <2>3. /\ resp \in [Conns -> Seq(Letter)] /\ bcast \in [Conns -> Seq(Letter)]
        /\ resp[k] # <<>> => Tail(resp[k]) \in Seq(Letter)
        /\ bcast[k] # <<>> => Tail(bcast[k]) \in Seq(Letter)
    BY HeadOf DEF Shape, QueuesOK
  <2>. QED BY <2>1, <2>2, <2>3
<1>3. CASE k \in Admins
  <2>1. AdminEvent(k, m) /\ UNCHANGED <<toGw, tab>>
    BY <1>3 DEF AdminEvent
  <2>2. \A b \in Admins : PageIds(admin'[b])
    BY <1>3, <2>1, EventIds
  <2>3. odd' \subseteq Disturbances
    BY <2>1 DEF AdminEvent, Mark, Shape, LinksOK, Disturbances
  <2>. QED BY <1>1, <1>2, <2>1, <2>2, <2>3, Kept, ShapeClient
<1>4. CASE k \notin Admins
  <2>1. k \in Tabs /\ TabEvent(k, m) /\ UNCHANGED admin
    BY <1>4 DEF Conns, TabEvent
  <2>2. \A v \in Tabs : TabIds(tab'[v])
    BY <2>1, TabEventIds
  <2>3. odd' \subseteq Disturbances
    BY <2>1 DEF TabEvent, Mark, Shape, LinksOK, Disturbances
  <2>4. m.c \in Ids
    BY DEF Letter
  <2>5. UNCHANGED toGw \/ Send(k, Msg("answerSdp", m.c))
    BY <2>1 DEF TabEvent, TabOffer
  <2>6. CASE UNCHANGED toGw
    BY <1>1, <1>2, <2>1, <2>2, <2>3, <2>6, Kept, ShapeClient
  <2>7. CASE Send(k, Msg("answerSdp", m.c))
    <3>1. Msg("answerSdp", m.c) \in Letter /\ Msg("answerSdp", m.c).t # "initiate"
      BY <2>4, LetterIs DEF Words
    <3>2. toGw' \in [Conns -> Seq(Letter)] /\ Room'
      BY <1>1, <2>7, <3>1, SendKeeps
    <3>. QED BY <1>1, <1>2, <2>1, <2>2, <2>3, <3>2, Kept, ShapeClient
  <2>. QED BY <2>5, <2>6, <2>7
<1>. QED BY <1>3, <1>4

LEMMA DropShape ==
  ASSUME Shape, [Next]_vars, NEW k \in Conns, Drop(k) \/ Reconnect(k)
  PROVE  Shape'
<1>1. CASE Drop(k)
  <2>1. /\ toGw' = [toGw EXCEPT ![k] = <<>>] /\ toGw' \in [Conns -> Seq(Letter)]
        /\ resp' \in [Conns -> Seq(Letter)] /\ bcast' \in [Conns -> Seq(Letter)]
    BY <1>1 DEF Drop, Shape, QueuesOK
  <2>2. toGw'[k] = <<>> /\ \A j \in Conns \ {k} : toGw'[j] = toGw[j]
    BY <2>1 DEF Shape, QueuesOK
  <2>3. Asked(toGw'[k]) = 0 /\ Asked(toGw[k]) \in Nat /\ Len(caller) \in Nat
        /\ caller \in Seq(Admins)
    <3>. PICK q \in Seq(Letter) : q = toGw[k]
      BY DEF Shape, QueuesOK
    <3>1. Asked(q) \in Nat
      BY AskedType
    <3>. QED BY <2>2, <3>1, AskedEmpty DEF Shape, GatewayOK
  <2>4. caller' = caller
    BY <1>1 DEF Drop
  <2>5. Room'
    BY <2>2, <2>3, <2>4, RoomKept
  <2>6. LinksOK'
    <3>1. drops - 1 \in 0..MaxDrops
      BY <1>1, CallsAssumption DEF Drop, Shape, LinksOK
    <3>. QED BY <1>1, <3>1 DEF Drop, Shape, LinksOK, Disturbances
  <2>7. hand' \in [Conns -> [op : Ops, c : Ids]]
    BY <1>1, ZeroId DEF Drop, Shape, GatewayOK, Idle, Ops
  <2>. QED BY <1>1, <2>1, <2>4, <2>5, <2>6, <2>7, Kept, ShapeNext DEF Drop
<1>2. CASE Reconnect(k)
  <2>1. LinksOK'
    BY <1>2 DEF Reconnect, Shape, LinksOK
  <2>. QED BY <1>2, <2>1, Kept, ShapeNext DEF Reconnect
<1>. QED BY <1>1, <1>2

\* The gateway enters a call: its id is new, and within the bound.
LEMMA Entered ==
  ASSUME Shape, NEW a \in Admins, Initiate(a)
  PROVE  /\ Len(caller) + 1 \in Calls /\ Len(caller') = Len(caller) + 1 /\ caller' \in Seq(Admins)
         /\ Ids \subseteq Ids' /\ Len(caller) + 1 \in Ids' /\ Letter \subseteq Letter'
         /\ toGw' \in [Conns -> Seq(Letter)] /\ Room'
<1>1. a \in Conns /\ Take(a) /\ Next1(a).t = "initiate" /\ caller' = Append(caller, a)
  BY DEF Initiate, Conns
<1>2. caller \in Seq(Admins) /\ Len(caller) \in Nat
  BY DEF Shape, GatewayOK
<1>3. caller' \in Seq(Admins) /\ Len(caller') = Len(caller) + 1
  BY <1>1, <1>2
<1>4. Ids \subseteq Ids' /\ Len(caller) + 1 \in Ids'
  BY <1>2, <1>3 DEF Ids
<1>5. toGw' \in [Conns -> Seq(Letter)]
  BY <1>1, TakeKeeps
<1>6. /\ toGw \in [Conns -> Seq(Letter)] /\ toGw[a] # <<>>
      /\ toGw' = [toGw EXCEPT ![a] = Tail(toGw[a])]
  BY <1>1 DEF Take, Shape, QueuesOK
<1>7. toGw'[a] = Tail(toGw[a]) /\ \A j \in Conns \ {a} : toGw'[j] = toGw[j]
  BY <1>1, <1>6
<1>8. Asked(toGw[a]) \in Nat /\ Asked(toGw'[a]) \in Nat /\ Asked(toGw'[a]) = Asked(toGw[a]) - 1
  <2>. PICK q \in Seq(Letter) : q = toGw[a]
    BY <1>1, <1>6
  <2>1. Asked(q) \in Nat /\ Asked(Tail(q)) \in Nat
    BY <1>6, HeadOf, AskedType
  <2>2. Asked(Tail(q)) = Asked(q) - 1
    BY <1>1, <1>6, AskedTail DEF Next1
  <2>. QED BY <1>7, <2>1, <2>2
<1>9. Len(caller') + Asked(toGw'[a]) <= Len(caller) + Asked(toGw[a])
  BY <1>2, <1>3, <1>8
<1>10. Room'
  BY <1>1, <1>3, <1>7, <1>8, <1>9, RoomKept
<1>11. Len(caller) + 1 <= MaxCalls
  <2>1. \A j \in Admins : Asked(toGw[j]) \in Nat
    BY AskedType DEF Shape, QueuesOK, Conns
  <2>. DEFINE f == [j \in Admins |-> Asked(toGw[j])]
  <2>2. f \in [Admins -> Nat] /\ f[a] = Asked(toGw[a]) /\ f[a] >= 1
    BY <1>8, <2>1
  <2>3. Waiting = SumFunction(f)
    BY Zenon DEF Waiting
  <2>. HIDE DEF f
  <2>4. SumFunction(f) \in Nat /\ f[a] <= SumFunction(f)
    BY <2>2, CallsAssumption, SumBound
  <2>. QED BY <1>2, <2>2, <2>3, <2>4, CallsAssumption DEF Shape, Room
<1>12. Len(caller) + 1 \in Calls
  BY <1>2, <1>11, CallsAssumption DEF Calls
<1>13. Letter \subseteq Letter'
  BY <1>4 DEF Letter, Words
<1>. QED BY <1>3, <1>4, <1>5, <1>10, <1>12, <1>13

LEMMA InitiateShape == ASSUME Shape, [Next]_vars, NEW a \in Admins, Initiate(a) PROVE Shape'
<1>. PICK c, ids, letters : c = Len(caller) + 1 /\ ids = Ids' /\ letters = Letter'
  OBVIOUS
<1>1. /\ c \in Calls /\ caller' \in Seq(Admins) /\ Ids \subseteq ids /\ c \in ids
      /\ Letter \subseteq letters /\ toGw' \in [Conns -> Seq(Letter)] /\ Room' /\ a \in Conns
  BY Entered DEF Conns
<1>2. Seq(Letter) \subseteq Seq(letters)
  BY <1>1
<1>3. /\ toGw' \in [Conns -> Seq(letters)] /\ resp \in [Conns -> Seq(letters)]
      /\ bcast \in [Conns -> Seq(letters)]
  BY <1>1, <1>2 DEF Shape, QueuesOK
<1>4. {Msg("incoming", c), Msg("ringing", c), Msg("error", c)} \subseteq letters
  BY <1>1 DEF Msg, Letter, Words
<1>5. QueuesOK'
  <2>1. resp' \in [Conns -> Seq(letters)]
    <3>1. \E m \in letters : resp' = [resp EXCEPT ![a] = Append(resp[a], m)]
      BY <1>4 DEF Initiate
    <3>. QED BY <1>1, <1>3, <3>1
  <2>2. bcast' \in [Conns -> Seq(letters)]
    <3>1. UNCHANGED bcast \/ \E m \in letters : Broadcast(Tabs, m)
      BY <1>4 DEF Initiate
    <3>2. ASSUME NEW m \in letters, Broadcast(Tabs, m) PROVE bcast' \in [Conns -> Seq(letters)]
      <4>1. ASSUME NEW k \in Conns PROVE bcast[k] \in Seq(letters) /\ Append(bcast[k], m) \in Seq(letters)
        BY <1>3
      <4>. QED BY <3>2, <4>1 DEF Broadcast
    <3>. QED BY <1>3, <3>1, <3>2
  <2>. QED BY <1>3, <2>1, <2>2 DEF QueuesOK
<1>6. hand' \in [Conns -> [op : Ops, c : ids]]
  <2>1. hand \in [Conns -> [op : Ops, c : ids]]
    BY <1>1 DEF Shape, GatewayOK
  <2>2. [op |-> "initiated", c |-> c] \in [op : Ops, c : ids]
    BY <1>1 DEF Ops
  <2>3. UNCHANGED hand \/ hand' = [hand EXCEPT ![a] = [op |-> "initiated", c |-> c]]
    BY DEF Initiate, Hand
  <2>. QED BY <2>1, <2>2, <2>3
<1>7. registry' \in [Calls -> {"none"} \cup Ongoing]
  BY <1>1 DEF Initiate, Shape, GatewayOK, Ongoing
<1>8. GatewayOK'
  BY <1>1, <1>6, <1>7 DEF Initiate, Shape, GatewayOK
<1>9. ClientsOK'
  BY <1>1 DEF Initiate, Shape, ClientsOK, PageIds, TabIds
<1>10. LinksOK'
  BY DEF Initiate, Shape, LinksOK
<1>11. PageInv' /\ TabInv'
  BY MicStep DEF Shape
<1>. QED BY <1>1, <1>5, <1>8, <1>9, <1>10, <1>11 DEF Shape

\* The other handlers take a message, answer it or send it on.
LEMMA TakenShape ==
  ASSUME Shape, [Next]_vars, NEW k \in Conns, Take(k), UNCHANGED <<caller, timer, record, clients, up, drops>>,
         registry' \in [Calls -> {"none"} \cup Ongoing],
         hand' \in [Conns -> [op : Ops, c : Ids]],
         \/ UNCHANGED resp
         \/ \E m \in Letter : resp' = [resp EXCEPT ![k] = Append(@, m)],
         \/ UNCHANGED bcast
         \/ \E m \in Letter, ks \in SUBSET Conns : Broadcast(ks, m),
         odd' \subseteq Disturbances
  PROVE  Shape'
<1>1. toGw' \in [Conns -> Seq(Letter)] /\ Room'
  BY TakeKeeps
<1>2. resp' \in [Conns -> Seq(Letter)] /\ bcast' \in [Conns -> Seq(Letter)]
  BY RespKeeps, CastKeeps, Kept
<1>3. LinksOK'
  BY DEF Shape, LinksOK
<1>. QED BY <1>1, <1>2, <1>3, Kept, ShapeNext

\* The caller of a call that exists is one of the pages; of another, nobody who matters.
LEMMA RefusalShape ==
  ASSUME Shape, [Next]_vars, NEW k \in Conns, Take(k), Refusal(k, Next1(k).c), UNCHANGED <<up, clients, drops>>
  PROVE  Shape'
<1>1. Next1(k) \in Letter /\ Next1(k).c \in Ids
  BY TakeKeeps DEF Letter
<1>2. Msg("error", Next1(k).c) \in Letter
  BY <1>1 DEF Msg, Letter, Words
<1>3. odd' \subseteq Disturbances
  BY DEF Refusal, Shape, LinksOK
<1>4. /\ UNCHANGED <<caller, registry, timer, record, hand, bcast>>
      /\ resp' = [resp EXCEPT ![k] = Append(@, Msg("error", Next1(k).c))]
  BY DEF Refusal
<1>. QED BY <1>2, <1>3, <1>4, Kept, TakenShape

LEMMA AnswerShape == ASSUME Shape, [Next]_vars, NEW u \in Tabs, Answer(u) PROVE Shape'
<1>1. u \in Conns /\ Take(u) /\ UNCHANGED <<up, clients, drops>>
  BY DEF Answer, Conns
<1>2. Next1(u) \in Letter /\ Next1(u).c \in Ids
  BY <1>1, TakeKeeps DEF Letter
<1>3. CASE Refusal(u, Next1(u).c)
  BY <1>1, <1>3, RefusalShape
<1>4. CASE /\ Hand(u, "answer", Next1(u).c) /\ Overlap(Next1(u).c)
           /\ UNCHANGED <<caller, registry, timer, record, resp, bcast>>
  <2>1. hand' \in [Conns -> [op : Ops, c : Ids]]
    BY <1>1, <1>2, <1>4 DEF Hand, Ops, Shape, GatewayOK
  <2>2. odd' \subseteq Disturbances
    BY <1>4 DEF Overlap, Mark, Shape, LinksOK, Disturbances
  <2>. QED BY <1>1, <1>4, <2>1, <2>2, Kept, TakenShape
<1>. QED BY <1>3, <1>4 DEF Answer

LEMMA LeavesShape ==
  ASSUME Shape, [Next]_vars, NEW k \in Conns, NEW t, NEW outcome \in Over, NEW ks \in SUBSET Conns,
         Leaves(k, t, outcome, ks)
  PROVE  Shape'
<1>. PICK c : c = Next1(k).c
  OBVIOUS
<1>1. Take(k) /\ UNCHANGED <<up, clients, drops>>
  BY DEF Leaves
<1>2. c \in Ids
  BY <1>1, TakeKeeps DEF Letter
<1>3. CASE Refusal(k, Next1(k).c)
  BY <1>1, <1>3, RefusalShape
<1>4. CASE /\ registry' = [registry EXCEPT ![c] = "none"]
           /\ Broadcast({caller[c]} \cup ks, Msg(outcome, c))
           /\ Hand(k, outcome, c) /\ Overlap(c)
           /\ UNCHANGED <<caller, timer, record, resp>>
  <2>1. hand' \in [Conns -> [op : Ops, c : Ids]]
    BY <1>1, <1>2, <1>4 DEF Hand, Ops, Shape, GatewayOK
  <2>2. odd' \subseteq Disturbances
    BY <1>4 DEF Overlap, Mark, Shape, LinksOK, Disturbances
  <2>3. registry' \in [Calls -> {"none"} \cup Ongoing]
    BY <1>4 DEF Shape, GatewayOK
  <2>4. Msg(outcome, c) \in Letter
    BY <1>2 DEF Msg, Letter, Words
  <2>5. Broadcast(({caller[c]} \cup ks) \cap Conns, Msg(outcome, c))
    BY <1>4 DEF Broadcast
  <2>. QED BY <1>1, <1>4, <2>1, <2>2, <2>3, <2>4, <2>5, Kept, TakenShape
<1>. QED BY <1>3, <1>4 DEF Leaves

LEMMA RelayShape == ASSUME Shape, [Next]_vars, NEW k \in Conns, Relay(k) PROVE Shape'
<1>1. Take(k) /\ UNCHANGED <<gateway, resp, up, clients, drops, odd>>
  BY DEF Relay
<1>2. Next1(k) \in Letter
  BY <1>1, TakeKeeps
<1>3. UNCHANGED bcast \/ \E ks : Broadcast(ks, Next1(k))
  BY DEF Relay
<1>4. ASSUME NEW ks, Broadcast(ks, Next1(k)) PROVE Broadcast(ks \cap Conns, Next1(k))
  BY <1>4 DEF Broadcast
<1>5. odd' \subseteq Disturbances
  BY <1>1 DEF Shape, LinksOK
<1>6. UNCHANGED bcast \/ \E m \in Letter, ks \in SUBSET Conns : Broadcast(ks, m)
  BY <1>2, <1>3, <1>4
<1>. QED BY <1>1, <1>5, <1>6, Kept, TakenShape

\* The steps that finish a handler, and the timer's.
LEMMA RecordsType ==
  ASSUME Shape, NEW c, NEW ev \in {"initiated", "answered"} \cup Over, Records(c, ev)
  PROVE  record' \in [Calls -> {"none", "ringing", "answered"} \cup Over]
BY DEF Records, Shape, GatewayOK, Over

LEMMA FinishShape ==
  ASSUME Shape, Fresh, [Next]_vars,
         \/ \E u \in Tabs : AnswerMarks(u)
         \/ \E k \in Conns : Publish(k)
         \/ \E c \in Calls : TimerChecks(c) \/ TimerRemoves(c) \/ TimerPublishes(c)
  PROVE  Shape'
<1>1. ASSUME NEW u \in Tabs, AnswerMarks(u) PROVE Shape'
  <2>1. u \in Conns /\ hand[u].c \in Ids
    BY DEF Conns, Shape, GatewayOK
  <2>2. hand' \in [Conns -> [op : Ops, c : Ids]]
    BY <1>1, <2>1 DEF AnswerMarks, Hand, Ops, Shape, GatewayOK
  <2>3. registry' \in [Calls -> {"none"} \cup Ongoing]
    BY <1>1 DEF AnswerMarks, Shape, GatewayOK, Ongoing
  <2>4. Msg("accepted", hand[u].c) \in Letter
    BY <2>1 DEF Msg, Letter, Words
  <2>5. bcast' \in [Conns -> Seq(Letter)]
    BY <1>1, <2>4, CastKeeps DEF AnswerMarks
  <2>. QED BY <1>1, <2>2, <2>3, <2>5, Kept, ShapeNext DEF AnswerMarks
<1>2. ASSUME NEW k \in Conns, Publish(k) PROVE Shape'
  <2>1. hand' \in [Conns -> [op : Ops, c : Ids]]
    BY <1>2, ZeroId DEF Publish, Idle, Ops, Shape, GatewayOK
  <2>2. timer' \in [Calls -> {"off", "armed", "checked", "removed"}]
    BY <1>2 DEF Publish, Shape, GatewayOK
  <2>3. record' \in [Calls -> {"none", "ringing", "answered"} \cup Over]
    BY <1>2, RecordsType DEF Publish
  <2>. QED BY <1>2, <2>1, <2>2, <2>3, Kept, ShapeNext DEF Publish
<1>3. ASSUME NEW c \in Calls, TimerChecks(c) PROVE Shape'
  <2>1. timer' \in [Calls -> {"off", "armed", "checked", "removed"}]
    BY <1>3 DEF TimerChecks, Shape, GatewayOK
  <2>2. LinksOK'
    BY <1>3 DEF TimerChecks, Overlap, Mark, Shape, LinksOK, Disturbances
  <2>. QED BY <1>3, <2>1, <2>2, Kept, ShapeNext DEF TimerChecks
<1>4. ASSUME NEW c \in Calls, TimerRemoves(c) PROVE Shape'
  <2>0. c \in Ids
    BY <1>4 DEF TimerRemoves, Fresh, Ids, Calls, Shape, GatewayOK
  <2>1. /\ timer' \in [Calls -> {"off", "armed", "checked", "removed"}]
        /\ registry' \in [Calls -> {"none"} \cup Ongoing]
    BY <1>4 DEF TimerRemoves, Shape, GatewayOK
  <2>2. Msg("ended", c) \in Letter
    BY <1>4, <2>0 DEF Msg, Letter, Words, Over
  <2>3. bcast' \in [Conns -> Seq(Letter)]
    BY <1>4, <2>2, CastKeeps DEF TimerRemoves
  <2>. QED BY <1>4, <2>1, <2>3, Kept, ShapeNext DEF TimerRemoves
<1>5. ASSUME NEW c \in Calls, TimerPublishes(c) PROVE Shape'
  <2>1. timer' \in [Calls -> {"off", "armed", "checked", "removed"}]
    BY <1>5 DEF TimerPublishes, Shape, GatewayOK
  <2>2. record' \in [Calls -> {"none", "ringing", "answered"} \cup Over]
    BY <1>5, RecordsType DEF TimerPublishes, Over
  <2>. QED BY <1>5, <2>1, <2>2, Kept, ShapeNext DEF TimerPublishes
<1>. QED BY <1>1, <1>2, <1>3, <1>4, <1>5

LEMMA ShapeStep == ASSUME Shape, Fresh, [Next]_vars PROVE Shape'
<1>1. CASE UNCHANGED vars
  BY <1>1, Kept, ShapeNext DEF vars
<1>2. ASSUME NEW k \in Conns, EndCall(k) PROVE Shape'
  <2>1. "ended" \in Over /\ Tabs \in SUBSET Conns
    BY DEF Over, Conns
  <2>. QED BY <1>2, <2>1, LeavesShape DEF EndCall
<1>3. ASSUME NEW u \in Tabs, RejectCall(u) PROVE Shape'
  <2>1. "rejected" \in Over /\ {} \in SUBSET Conns /\ u \in Conns
    BY DEF Over, Conns
  <2>. QED BY <1>3, <2>1, LeavesShape DEF RejectCall
<1>4. CASE GatewayStep
  BY <1>2, <1>3, <1>4, InitiateShape, AnswerShape, RelayShape, FinishShape DEF GatewayStep
<1>. QED BY <1>1, <1>4, CallShape, AdminShape, TabShape, ReceiveShape, DropShape DEF Next

-------------------------------------------------------------------------------
(* A call, its record and its timer.                                       *)

At(k, c) == hand[k].op # "idle" /\ hand[k].c = c

\* What the registry, the record and the timer say while a handler is at work.
Phase(op, reg, rec, tm) ==
  /\ op = "initiated" => reg = "Ringing" /\ rec = "none" /\ tm = "off"
  /\ op = "answer" => reg = "Ringing" /\ rec = "ringing"
  /\ op = "answered" => reg = "Accepted" /\ rec = "ringing"
  /\ op \in Over => reg = "none" /\ rec # "none"

Agree(reg, rec) == (reg = "Ringing" <=> rec = "ringing") /\ (reg = "Accepted" <=> rec = "answered")

CallOK(c) ==
  /\ \A k, l \in Conns : At(k, c) /\ At(l, c) => k = l
  /\ timer[c] \in {"checked", "removed"} => \A k \in Conns : ~At(k, c)
  /\ \A k \in Conns : At(k, c) => Phase(hand[k].op, registry[c], record[c], timer[c])
  /\ timer[c] = "checked" => registry[c] = "Ringing" /\ record[c] = "ringing"
  /\ timer[c] = "removed" => record[c] = "ringing"
  /\ ~InHand(c) => Agree(registry[c], record[c])

\* No two tasks met at a call, and none was cut off.
Clear   == odd \cap {"overlap", "drop"} = {}
TimerOK == \A c \in Calls : timer[c] = "removed" => registry[c] = "none"

CallInv == /\ Fresh /\ TimerOK /\ RingingHasTimeout
           /\ Clear => \A c \in Calls : CallOK(c)

\* A step away from the gateway.
LEMMA Away ==
  ASSUME CallInv, UNCHANGED gateway, odd \subseteq odd'
  PROVE  CallInv'
BY DEF CallInv, Fresh, TimerOK, RingingHasTimeout, Clear, CallOK, At, InHand, Phase, Agree

LEMMA AwayStep ==
  ASSUME CallInv, Next, ~GatewayStep, \A k \in Conns : ~Drop(k)
  PROVE  CallInv'
<1>1. UNCHANGED gateway /\ odd \subseteq odd'
  BY ZenonT(60) DEF Next, Call, HangUp, Acknowledge, AdminMicGranted, AdminMicFails, Accept, Reject, Leave,
         TabMicGranted, TabMicFails, Receive, AdminEvent, TabEvent, Mark, Reconnect
<1>. QED BY ZenonT(60), <1>1, Away

LEMMA DropCall == ASSUME Shape, CallInv, NEW k \in Conns, Drop(k) PROVE CallInv'
<1>1. "drop" \in odd' /\ UNCHANGED <<caller, registry, timer, record>>
  BY DEF Drop
<1>. QED BY <1>1 DEF CallInv, Fresh, TimerOK, RingingHasTimeout, Clear

\* Handlers that answer or send on what they took.
LEMMA RelayCall ==
  ASSUME CallInv, NEW k \in Conns, Relay(k) \/ Refusal(k, Next1(k).c)
  PROVE  CallInv'
<1>1. UNCHANGED gateway /\ odd \subseteq odd'
  BY DEF Relay, Refusal
<1>. QED BY <1>1, Away

\* The gateway enters call Len(caller) + 1.
LEMMA InitiateCall == ASSUME Shape, CallInv, NEW a \in Admins, Initiate(a) PROVE CallInv'
<1>. PICK c : c = Len(caller) + 1
  OBVIOUS
<1>1. c \in Calls /\ Len(caller') = Len(caller) + 1 /\ Len(caller) \in Nat /\ a \in Conns
  BY Entered DEF Shape, GatewayOK, Conns
<1>2. registry[c] = "none" /\ timer[c] = "off" /\ record[c] = "none"
  BY <1>1 DEF CallInv, Fresh, Calls
<1>3. UNCHANGED <<timer, record, odd>> /\ hand[a] = Idle
  BY DEF Initiate, Take
<1>4. \A k \in Conns : hand[k].c # c /\ hand[k] \in [op : Ops, c : Ids]
  BY <1>1 DEF Shape, GatewayOK, Ids
<1>5. CASE UNCHANGED <<registry, hand>>
  <2>1. Fresh'
    BY <1>1, <1>3, <1>5 DEF CallInv, Fresh, Calls
  <2>. QED BY <1>3, <1>5, <2>1 DEF CallInv, TimerOK, RingingHasTimeout, Clear, CallOK, At, InHand, Phase,
                                   Agree
<1>6. CASE registry' = [registry EXCEPT ![c] = "Ringing"] /\ Hand(a, "initiated", c)
  <2>1. registry'[c] = "Ringing" /\ \A d \in Calls \ {c} : registry'[d] = registry[d]
    BY <1>1, <1>6 DEF Shape, GatewayOK
  <2>2. /\ hand'[a] = [op |-> "initiated", c |-> c]
        /\ \A k \in Conns \ {a} : hand'[k] = hand[k]
    BY <1>1, <1>6 DEF Hand, Shape, GatewayOK
  <2>3. Fresh'
    BY <1>1, <1>3, <2>1 DEF CallInv, Fresh, Calls
  <2>4. TimerOK'
    BY <1>2, <1>3, <2>1 DEF CallInv, TimerOK
  <2>5. RingingHasTimeout'
    <3>1. ASSUME NEW b \in Admins, NEW d \in Calls, hand[b] = [op |-> "initiated", c |-> d]
          PROVE  hand'[b] = hand[b]
      BY <1>3, <2>2, <3>1 DEF Idle, Conns
    <3>. QED BY ZenonT(60), <1>3, <2>1, <2>2, <3>1 DEF CallInv, RingingHasTimeout
  <2>6. ASSUME Clear', NEW d \in Calls PROVE CallOK(d)'
    <3>1. CallOK(d)
      BY <1>3, <2>6 DEF CallInv, Clear
    <3>2. CASE d = c
      <4>1. \A k \in Conns : At(k, c)' <=> k = a
        BY <1>4, <2>2 DEF At
      <4>2. InHand(c)'
        BY <1>1, <2>2 DEF InHand
      <4>3. Phase(hand'[a].op, registry'[c], record'[c], timer'[c])
        BY <1>2, <1>3, <2>1, <2>2 DEF Phase, Over
      <4>. QED BY <1>2, <1>3, <3>2, <4>1, <4>2, <4>3 DEF CallOK
    <3>3. CASE d # c
      <4>1. \A k \in Conns : (At(k, d)' <=> At(k, d)) /\ (At(k, d) => hand'[k] = hand[k])
        BY <1>3, <2>2, <3>3 DEF At, Idle
      <4>2. InHand(d)' <=> InHand(d)
        BY <1>3, <4>1 DEF InHand, At
      <4>. QED BY <1>3, <2>1, <3>1, <3>3, <4>1, <4>2 DEF CallOK
    <3>. QED BY <3>2, <3>3
  <2>. QED BY <2>3, <2>4, <2>5, <2>6 DEF CallInv
<1>. QED BY <1>5, <1>6 DEF Initiate

\* A call that a step does not touch.
LEMMA OtherCall ==
  ASSUME NEW d \in Calls, CallOK(d), registry'[d] = registry[d], timer'[d] = timer[d],
         record'[d] = record[d],
         \A k \in Conns : (At(k, d)' <=> At(k, d)) /\ (At(k, d) => hand'[k] = hand[k])
  PROVE  CallOK(d)'
<1>1. InHand(d)' <=> InHand(d)
  BY DEF InHand, At
<1>. QED BY <1>1 DEF CallOK

\* One connection's task goes on to another call or to nothing.
LEMMA HandElsewhere ==
  ASSUME Shape, NEW k \in Conns, NEW h, hand' = [hand EXCEPT ![k] = h], NEW d, ~At(k, d),
         h.op = "idle" \/ h.c # d
  PROVE  \A l \in Conns : (At(l, d)' <=> At(l, d)) /\ (At(l, d) => hand'[l] = hand[l])
<1>1. hand'[k] = h /\ \A l \in Conns \ {k} : hand'[l] = hand[l]
  BY DEF Shape, GatewayOK
<1>. QED BY <1>1 DEF At

\* A connection's task takes up call c.
LEMMA HandTakes ==
  ASSUME Shape, NEW k \in Conns, hand[k] = Idle, NEW op, op # "idle", NEW c, Hand(k, op, c)
  PROVE  /\ hand'[k].op = op /\ hand'[k].c = c /\ At(k, c)'
         /\ \A l \in Conns \ {k} : hand'[l] = hand[l]
         /\ \A d : d # c =>
              \A l \in Conns : (At(l, d)' <=> At(l, d)) /\ (At(l, d) => hand'[l] = hand[l])
<1>1. hand' = [hand EXCEPT ![k] = [op |-> op, c |-> c]]
  BY DEF Hand
<1>2. hand'[k] = [op |-> op, c |-> c] /\ \A l \in Conns \ {k} : hand'[l] = hand[l]
  BY <1>1 DEF Shape, GatewayOK
<1>3. \A d : ~At(k, d)
  BY DEF At, Idle
<1>. QED BY <1>2, <1>3 DEF At

\* What holds of the timeouts when no timer and no initiating handler is touched.
LEMMA TimeoutStays ==
  ASSUME CallInv, odd \subseteq odd', timer' = timer,
         \A c \in Calls : registry'[c] = "Ringing" => registry[c] = "Ringing",
         \A a \in Admins : hand[a].op = "initiated" => hand'[a] = hand[a]
  PROVE  RingingHasTimeout'
<1>1. ASSUME NEW a \in Admins, NEW c, hand[a] = [op |-> "initiated", c |-> c] PROVE hand'[a] = hand[a]
  BY <1>1
<1>. QED BY ZenonT(60), <1>1 DEF CallInv, RingingHasTimeout

\* An answer is checked against a copy of the call.
LEMMA AnswerCall == ASSUME Shape, CallInv, NEW u \in Tabs, Answer(u) PROVE CallInv'
<1>. PICK c : c = Next1(u).c
  OBVIOUS
<1>1. u \in Conns /\ Take(u) /\ hand[u] = Idle
  BY DEF Answer, Take, Conns
<1>2. CASE Refusal(u, Next1(u).c)
  BY <1>1, <1>2, RelayCall
<1>3. CASE /\ registry[c] = "Ringing" /\ Hand(u, "answer", c) /\ Overlap(c)
           /\ UNCHANGED <<caller, registry, timer, record>>
  <2>1. /\ hand'[u].op = "answer" /\ hand'[u].c = c /\ At(u, c)'
        /\ \A l \in Conns \ {u} : hand'[l] = hand[l]
        /\ \A d : d # c =>
             \A l \in Conns : (At(l, d)' <=> At(l, d)) /\ (At(l, d) => hand'[l] = hand[l])
    BY <1>1, <1>3, HandTakes
  <2>2. odd \subseteq odd' /\ (Clear' => ~InHand(c) /\ Clear)
    BY <1>3 DEF Overlap, Mark, Clear
  <2>3. Fresh' /\ TimerOK'
    BY <1>3 DEF CallInv, Fresh, TimerOK
  <2>4. \A a \in Admins : hand[a].op = "initiated" => hand'[a] = hand[a]
    BY <1>1, <2>1 DEF Idle, Conns
  <2>5. RingingHasTimeout'
    BY <1>3, <2>2, <2>4, TimeoutStays
  <2>6. ASSUME Clear', NEW d \in Calls PROVE CallOK(d)'
    <3>1. CallOK(d) /\ ~InHand(c)
      BY <2>2, <2>6 DEF CallInv
    <3>2. CASE d # c
      BY <1>3, <2>1, <3>1, <3>2, OtherCall
    <3>3. CASE d = c
      <4>1. Agree(registry[c], record[c]) /\ timer[c] \notin {"checked", "removed"}
        BY <3>1, <3>3 DEF CallOK, InHand
      <4>2. \A k \in Conns : At(k, c)' <=> k = u
        BY <2>1, <3>1 DEF At, InHand
      <4>3. Phase(hand'[u].op, registry'[c], record'[c], timer'[c])
        BY <1>3, <2>1, <4>1 DEF Phase, Agree, Over
      <4>4. InHand(c)'
        BY <1>1, <2>1 DEF InHand
      <4>. QED BY <1>3, <3>3, <4>1, <4>2, <4>3, <4>4 DEF CallOK
    <3>. QED BY <3>2, <3>3
  <2>. QED BY <2>3, <2>5, <2>6 DEF CallInv
<1>. QED BY <1>2, <1>3 DEF Answer

\* Rejecting and ending remove the call.
LEMMA LeavesCall ==
  ASSUME Shape, CallInv, NEW k \in Conns, NEW t, NEW outcome \in Over, NEW ks,
         Leaves(k, t, outcome, ks)
  PROVE  CallInv'
<1>. PICK c : c = Next1(k).c
  OBVIOUS
<1>1. Take(k) /\ hand[k] = Idle
  BY DEF Leaves, Take
<1>2. CASE Refusal(k, Next1(k).c)
  BY <1>1, <1>2, RelayCall
<1>3. CASE /\ registry[c] \in Ongoing /\ registry' = [registry EXCEPT ![c] = "none"]
           /\ Hand(k, outcome, c) /\ Overlap(c)
           /\ UNCHANGED <<caller, timer, record>>
  <2>0. outcome # "idle" /\ outcome \notin {"initiated", "answer", "answered"}
    BY DEF Over
  <2>1. /\ hand'[k].op = outcome /\ hand'[k].c = c /\ At(k, c)'
        /\ \A l \in Conns \ {k} : hand'[l] = hand[l]
        /\ \A d : d # c =>
             \A l \in Conns : (At(l, d)' <=> At(l, d)) /\ (At(l, d) => hand'[l] = hand[l])
    BY <1>1, <1>3, <2>0, HandTakes
  <2>2. odd \subseteq odd' /\ (Clear' => ~InHand(c) /\ Clear)
    BY <1>3 DEF Overlap, Mark, Clear
  <2>3. \A d \in Calls : registry'[d] = IF d = c THEN "none" ELSE registry[d]
    BY <1>3 DEF Shape, GatewayOK
  <2>4. Fresh' /\ TimerOK'
    BY <1>3, <2>3 DEF CallInv, Fresh, TimerOK
  <2>5. \A a \in Admins : hand[a].op = "initiated" => hand'[a] = hand[a]
    BY <1>1, <2>1 DEF Idle, Conns
  <2>6. RingingHasTimeout'
    BY <1>3, <2>2, <2>3, <2>5, TimeoutStays
  <2>7. ASSUME Clear', NEW d \in Calls PROVE CallOK(d)'
    <3>1. CallOK(d) /\ ~InHand(c)
      BY <2>2, <2>7 DEF CallInv
    <3>2. CASE d # c
      BY <1>3, <2>1, <2>3, <3>1, <3>2, OtherCall
    <3>3. CASE d = c
      <4>1. Agree(registry[c], record[c]) /\ timer[c] \notin {"checked", "removed"}
        BY <3>1, <3>3 DEF CallOK, InHand
      <4>2. \A l \in Conns : At(l, c)' <=> l = k
        BY <2>1, <3>1 DEF At, InHand
      <4>3. Phase(hand'[k].op, registry'[c], record'[c], timer'[c])
        BY <1>3, <2>0, <2>1, <2>3, <3>3, <4>1 DEF Phase, Agree, Ongoing
      <4>4. InHand(c)'
        BY <2>0, <2>1 DEF InHand
      <4>. QED BY <1>3, <3>3, <4>1, <4>2, <4>3, <4>4 DEF CallOK
    <3>. QED BY <3>2, <3>3
  <2>. QED BY <2>4, <2>6, <2>7 DEF CallInv
<1>. QED BY <1>2, <1>3 DEF Leaves

\* The answer is marked, whatever became of the call.
LEMMA MarksCall == ASSUME Shape, CallInv, NEW u \in Tabs, AnswerMarks(u) PROVE CallInv'
<1>. PICK c : c = hand[u].c
  OBVIOUS
<1>1. u \in Conns /\ u \notin Admins
  BY CallsAssumption DEF Conns
<1>2. /\ hand[u].op = "answer" /\ Hand(u, "answered", c)
      /\ registry' = [registry EXCEPT ![c] = IF @ = "none" THEN @ ELSE "Accepted"]
      /\ UNCHANGED <<caller, timer, record, odd>>
  BY DEF AnswerMarks
<1>3. hand'[u] = [op |-> "answered", c |-> c] /\ \A l \in Conns \ {u} : hand'[l] = hand[l]
  BY <1>1, <1>2 DEF Hand, Shape, GatewayOK
<1>4. \A d \in Calls : registry'[d] = IF d = c /\ registry[c] # "none" THEN "Accepted" ELSE registry[d]
  BY <1>2 DEF Shape, GatewayOK
<1>5. c <= Len(caller) /\ c \in Nat /\ Len(caller) \in Nat
  BY <1>1 DEF Shape, GatewayOK, Ids
<1>6. Fresh' /\ TimerOK'
  BY <1>2, <1>4, <1>5 DEF CallInv, Fresh, TimerOK
<1>7. RingingHasTimeout'
  <2>1. \A a \in Admins : hand[a].op = "initiated" => hand'[a] = hand[a]
    BY <1>1, <1>3 DEF Conns
  <2>2. \A d \in Calls : registry'[d] = "Ringing" => registry[d] = "Ringing"
    BY <1>4
  <2>. QED BY <1>2, <2>1, <2>2, TimeoutStays
<1>8. ASSUME Clear', NEW d \in Calls PROVE CallOK(d)'
  <2>1. CallOK(d)
    BY <1>2, <1>8 DEF CallInv, Clear
  <2>2. CASE d # c
    <3>1. \A l \in Conns : (At(l, d)' <=> At(l, d)) /\ (At(l, d) => hand'[l] = hand[l])
      BY <1>3, <2>2 DEF At
    <3>. QED BY <1>2, <1>4, <2>1, <2>2, <3>1, OtherCall
  <2>3. CASE d = c
    <3>1. At(u, c) /\ Phase("answer", registry[c], record[c], timer[c])
      BY <1>1, <1>2, <2>1, <2>3 DEF CallOK, At
    <3>2. \A l \in Conns : At(l, c)' <=> l = u
      BY <1>1, <1>3, <2>1, <2>3, <3>1 DEF CallOK, At
    <3>3. Phase(hand'[u].op, registry'[c], record'[c], timer'[c])
      BY <1>2, <1>3, <1>4, <2>3, <3>1 DEF Phase, Over
    <3>4. timer[c] \notin {"checked", "removed"}
      BY <1>1, <2>1, <2>3, <3>1 DEF CallOK
    <3>5. InHand(c)'
      BY <1>1, <1>3 DEF InHand
    <3>. QED BY <1>2, <2>3, <3>2, <3>3, <3>4, <3>5 DEF CallOK
  <2>. QED BY <2>2, <2>3
<1>. QED BY <1>6, <1>7, <1>8 DEF CallInv

\* The record handler changes one record.
LEMMA RecordsIs ==
  ASSUME Shape, NEW c, NEW ev, Records(c, ev)
  PROVE  /\ \A d \in Calls : d # c => record'[d] = record[d]
         /\ c \in Calls => record'[c] = IF ev = "initiated" THEN IF record[c] = "none" THEN "ringing"
                                                                 ELSE record[c]
                                        ELSE IF record[c] = "none" THEN "none" ELSE ev
BY DEF Records, Shape, GatewayOK

\* A handler's last step.
LEMMA PublishCall == ASSUME Shape, CallInv, NEW k \in Conns, Publish(k) PROVE CallInv'
<1>. PICK c, op : c = hand[k].c /\ op = hand[k].op
  OBVIOUS
<1>1. /\ op \in {"initiated", "answered"} \cup Over
      /\ Records(c, op) /\ hand' = [hand EXCEPT ![k] = Idle]
      /\ timer' = IF op = "initiated" THEN [timer EXCEPT ![c] = "armed"] ELSE timer
      /\ UNCHANGED <<caller, registry, odd>>
  BY DEF Publish
<1>2. op # "idle" /\ At(k, c)
  BY <1>1 DEF At, Over
<1>3. hand'[k] = Idle /\ \A l \in Conns \ {k} : hand'[l] = hand[l]
  BY <1>1 DEF Shape, GatewayOK
<1>4. \A d \in Calls : timer'[d] = IF d = c /\ op = "initiated" THEN "armed" ELSE timer[d]
  BY <1>1 DEF Shape, GatewayOK
<1>5. c <= Len(caller) /\ c \in Nat /\ Len(caller) \in Nat
  BY DEF Shape, GatewayOK, Ids
<1>6. Fresh' /\ TimerOK'
  <2>1. \A d \in Calls : d # c => record'[d] = record[d]
    BY <1>1, RecordsIs
  <2>. QED BY <1>1, <1>4, <1>5, <2>1 DEF CallInv, Fresh, TimerOK, Calls
<1>7. RingingHasTimeout'
  <2>1. ASSUME "drop" \notin odd', NEW d \in Calls, registry'[d] = "Ringing"
        PROVE  \/ timer'[d] \in {"armed", "checked"}
               \/ \E a \in Admins : hand'[a] = [op |-> "initiated", c |-> d]
    <3>1. CASE timer[d] \in {"armed", "checked"}
      BY <1>4, <3>1
    <3>2. ASSUME NEW a \in Admins, hand[a] = [op |-> "initiated", c |-> d]
          PROVE  timer'[d] = "armed" \/ hand'[a] = hand[a]
      BY <1>3, <1>4, <3>2 DEF Conns
    <3>. QED BY <1>1, <2>1, <3>1, <3>2 DEF CallInv, RingingHasTimeout
  <2>. QED BY <2>1 DEF RingingHasTimeout
<1>8. ASSUME Clear', NEW d \in Calls PROVE CallOK(d)'
  <2>1. CallOK(d)
    BY <1>1, <1>8 DEF CallInv, Clear
  <2>2. CASE d # c
    <3>1. ~At(k, d) /\ record'[d] = record[d] /\ timer'[d] = timer[d] /\ registry'[d] = registry[d]
      BY <1>1, <1>4, <2>2, RecordsIs DEF At
    <3>2. Idle.op = "idle"
      BY DEF Idle
    <3>3. \A l \in Conns : (At(l, d)' <=> At(l, d)) /\ (At(l, d) => hand'[l] = hand[l])
      BY <1>1, <3>1, <3>2, HandElsewhere
    <3>. QED BY <2>1, <3>1, <3>3, OtherCall
  <2>3. CASE d = c
    <3>1. /\ Phase(op, registry[c], record[c], timer[c])
          /\ timer[c] \notin {"checked", "removed"}
      BY <1>2, <2>1, <2>3 DEF CallOK
    <3>2. \A l \in Conns : ~At(l, c)'
      BY <1>2, <1>3, <2>1, <2>3 DEF CallOK, At, Idle
    <3>3. timer'[c] \notin {"checked", "removed"}
      BY <1>4, <2>3, <3>1
    <3>4. record'[c] = IF op = "initiated" THEN IF record[c] = "none" THEN "ringing" ELSE record[c]
                       ELSE IF record[c] = "none" THEN "none" ELSE op
      BY <1>1, <2>3, RecordsIs
    <3>5. Agree(registry'[c], record'[c])
      BY <1>1, <3>1, <3>4 DEF Phase, Agree, Over
    <3>. QED BY <2>3, <3>2, <3>3, <3>5 DEF CallOK
  <2>. QED BY <2>2, <2>3
<1>. QED BY <1>6, <1>7, <1>8 DEF CallInv

\* The ring timeout moves on and no connection's task does.
LEMMA HandsStay ==
  ASSUME UNCHANGED hand
  PROVE  \A d, k : (At(k, d)' <=> At(k, d)) /\ hand'[k] = hand[k]
BY DEF At

\* The ring timeout finds the call ringing, or has nothing to do.
LEMMA TimerChecksCall == ASSUME Shape, CallInv, NEW c \in Calls, TimerChecks(c) PROVE CallInv'
<1>1. /\ timer[c] = "armed" /\ UNCHANGED <<caller, registry, record, hand>>
      /\ odd \subseteq odd' /\ (Clear' => Clear)
  BY DEF TimerChecks, Overlap, Mark, Clear
<1>2. PICK t : /\ timer' = [timer EXCEPT ![c] = t]
               /\ \/ registry[c] = "Ringing" /\ t = "checked" /\ Overlap(c)
                  \/ registry[c] # "Ringing" /\ t = "off"
  BY DEF TimerChecks
<1>3. \A d \in Calls : timer'[d] = IF d = c THEN t ELSE timer[d]
  BY <1>2 DEF Shape, GatewayOK
<1>4. Fresh' /\ TimerOK'
  BY <1>1, <1>2, <1>3 DEF CallInv, Fresh, TimerOK
<1>5. RingingHasTimeout'
  BY <1>1, <1>2, <1>3 DEF CallInv, RingingHasTimeout
<1>6. ASSUME Clear', NEW d \in Calls PROVE CallOK(d)'
  <2>1. CallOK(d)
    BY <1>1, <1>6 DEF CallInv
  <2>2. CASE d # c
    BY <1>1, <1>3, <2>1, <2>2, OtherCall, HandsStay
  <2>3. CASE d = c /\ t = "checked"
    <3>1. ~InHand(c)
      BY <1>2, <1>6, <2>3 DEF Overlap, Mark, Clear
    <3>2. registry[c] = "Ringing" /\ record[c] = "ringing"
      BY <1>2, <2>1, <2>3, <3>1 DEF CallOK, Agree
    <3>3. \A k \in Conns : ~At(k, c)'
      BY <1>1, <3>1 DEF InHand, At
    <3>4. timer'[c] = "checked" /\ InHand(c)'
      BY <1>3, <2>3 DEF InHand
    <3>. QED BY <1>1, <2>3, <3>2, <3>3, <3>4 DEF CallOK
  <2>4. CASE d = c /\ t = "off"
    <3>1. timer'[c] = "off" /\ (InHand(c)' <=> InHand(c))
      BY <1>1, <1>3, <2>4 DEF InHand
    <3>2. \A k \in Conns : At(k, c) => Phase(hand[k].op, registry[c], record[c], "off")
      BY <1>1, <2>1, <2>4 DEF CallOK, Phase
    <3>. QED BY <1>1, <2>1, <2>4, <3>1, <3>2, HandsStay DEF CallOK
  <2>. QED BY <1>2, <2>2, <2>3, <2>4
<1>. QED BY <1>4, <1>5, <1>6 DEF CallInv

\* The ring timeout removes the call it found ringing.
LEMMA TimerRemovesCall == ASSUME Shape, CallInv, NEW c \in Calls, TimerRemoves(c) PROVE CallInv'
<1>1. /\ timer[c] = "checked" /\ UNCHANGED <<caller, record, hand, odd>>
      /\ registry' = [registry EXCEPT ![c] = "none"] /\ timer' = [timer EXCEPT ![c] = "removed"]
  BY DEF TimerRemoves
<1>2. \A d \in Calls : /\ registry'[d] = IF d = c THEN "none" ELSE registry[d]
                       /\ timer'[d] = IF d = c THEN "removed" ELSE timer[d]
  BY <1>1 DEF Shape, GatewayOK
<1>3. Fresh' /\ TimerOK'
  BY <1>1, <1>2 DEF CallInv, Fresh, TimerOK
<1>4. RingingHasTimeout'
  <2>1. ASSUME NEW d \in Calls, registry'[d] = "Ringing"
        PROVE  registry[d] = "Ringing" /\ timer'[d] = timer[d]
    BY <1>2, <2>1
  <2>. QED BY <1>1, <2>1 DEF CallInv, RingingHasTimeout
<1>5. ASSUME Clear', NEW d \in Calls PROVE CallOK(d)'
  <2>1. CallOK(d)
    BY <1>1, <1>5 DEF CallInv, Clear
  <2>2. CASE d # c
    BY <1>1, <1>2, <2>1, <2>2, OtherCall, HandsStay
  <2>3. CASE d = c
    <3>1. record[c] = "ringing" /\ \A k \in Conns : ~At(k, c)
      BY <1>1, <2>1, <2>3 DEF CallOK
    <3>2. timer'[c] = "removed" /\ InHand(c)'
      BY <1>2 DEF InHand
    <3>. QED BY <1>1, <2>3, <3>1, <3>2, HandsStay DEF CallOK
  <2>. QED BY <2>2, <2>3
<1>. QED BY <1>3, <1>4, <1>5 DEF CallInv

\* The ring timeout's last step.
LEMMA TimerPublishesCall == ASSUME Shape, CallInv, NEW c \in Calls, TimerPublishes(c) PROVE CallInv'
<1>1. /\ timer[c] = "removed" /\ UNCHANGED <<caller, registry, hand, odd>>
      /\ Records(c, "timeout") /\ timer' = [timer EXCEPT ![c] = "off"]
  BY DEF TimerPublishes
<1>2. \A d \in Calls : /\ timer'[d] = IF d = c THEN "off" ELSE timer[d]
                       /\ d # c => record'[d] = record[d]
  BY <1>1, RecordsIs DEF Shape, GatewayOK
<1>3. registry[c] = "none" /\ record'[c] = IF record[c] = "none" THEN "none" ELSE "timeout"
  BY <1>1, RecordsIs DEF CallInv, TimerOK
<1>4. Fresh' /\ TimerOK'
  <2>2. ASSUME NEW d \in Calls, d > Len(caller')
        PROVE  registry'[d] = "none" /\ timer'[d] = "off" /\ record'[d] = "none"
    <3>1. d > Len(caller) /\ timer[d] = "off" /\ d # c
      BY <1>1, <2>2 DEF CallInv, Fresh
    <3>. QED BY <1>1, <1>2, <2>2, <3>1 DEF CallInv, Fresh
  <2>3. TimerOK'
    BY <1>1, <1>2 DEF CallInv, TimerOK
  <2>. QED BY <2>2, <2>3 DEF Fresh
<1>5. RingingHasTimeout'
  BY <1>1, <1>2, <1>3 DEF CallInv, RingingHasTimeout
<1>6. ASSUME Clear', NEW d \in Calls PROVE CallOK(d)'
  <2>1. CallOK(d)
    BY <1>1, <1>6 DEF CallInv, Clear
  <2>2. CASE d # c
    BY <1>1, <1>2, <2>1, <2>2, OtherCall, HandsStay
  <2>3. CASE d = c
    <3>1. \A k \in Conns : ~At(k, c)
      BY <1>1, <2>1, <2>3 DEF CallOK
    <3>2. timer'[c] = "off" /\ Agree(registry'[c], record'[c])
      BY <1>1, <1>2, <1>3 DEF Agree
    <3>. QED BY <1>1, <2>3, <3>1, <3>2, HandsStay DEF CallOK
  <2>. QED BY <2>2, <2>3
<1>. QED BY <1>4, <1>5, <1>6 DEF CallInv

LEMMA CallStep == ASSUME Shape, CallInv, [Next]_vars PROVE CallInv'
<1>1. CASE UNCHANGED vars
  <2>1. UNCHANGED gateway /\ odd \subseteq odd'
    BY <1>1 DEF vars
  <2>. QED BY <2>1, Away
<1>2. ASSUME NEW k \in Conns, EndCall(k) PROVE CallInv'
  BY <1>2, LeavesCall DEF EndCall, Over
<1>3. ASSUME NEW u \in Tabs, RejectCall(u) PROVE CallInv'
  BY <1>3, LeavesCall DEF RejectCall, Over, Conns
<1>4. CASE GatewayStep
  BY <1>2, <1>3, <1>4, InitiateCall, AnswerCall, MarksCall, RelayCall, PublishCall, TimerChecksCall,
     TimerRemovesCall, TimerPublishesCall DEF GatewayStep
<1>5. CASE Next /\ ~GatewayStep
  BY <1>5, DropCall, AwayStep
<1>. QED BY <1>1, <1>4, <1>5

LEMMA ShapeInit == Init => Shape /\ CallInv
<1>. SUFFICES ASSUME Init PROVE Shape /\ CallInv
  OBVIOUS
<1>0. /\ caller = <<>> /\ Len(caller) = 0 /\ 0 \in Ids /\ Ids = {0}
      /\ \A k \in Conns : hand[k] = Idle /\ toGw[k] = <<>>
      /\ \A c \in Calls : registry[c] = "none" /\ timer[c] = "off" /\ record[c] = "none"
  BY DEF Init, Ids
<1>1. PageInv /\ TabInv
  BY DEF Init, PageInv, TabInv, Page, InCall, Tab, Sound, Blank
<1>2. GatewayOK
  <2>1. hand \in [Conns -> [op : Ops, c : Ids]]
    BY <1>0 DEF Init, Idle, Ops
  <2>2. caller \in Seq(Admins)
    BY DEF Init
  <2>. QED BY <2>1, <2>2 DEF Init, GatewayOK
<1>3. QueuesOK
  <2>1. <<>> \in Seq(Letter)
    OBVIOUS
  <2>. QED BY <2>1 DEF Init, QueuesOK
<1>4. LinksOK
  BY CallsAssumption DEF Init, LinksOK
<1>5. ClientsOK
  BY <1>0 DEF Init, ClientsOK, PageIds, TabIds, Statuses, Blank
<1>6. Room
  <2>1. [a \in Admins |-> Asked(toGw[a])] = [a \in Admins |-> 0]
    BY <1>0, AskedEmpty DEF Conns
  <2>2. Waiting = 0
    BY <2>1, CallsAssumption, SumZero DEF Waiting
  <2>. QED BY <1>0, <2>2, CallsAssumption DEF Room
<1>7. CallInv
  <2>1. \A k, c : k \in Conns => ~At(k, c)
    BY <1>0 DEF At, Idle
  <2>2. \A c \in Calls : CallOK(c)
    BY <1>0, <2>1 DEF CallOK, Agree
  <2>. QED BY <1>0, <2>2 DEF CallInv, Fresh, TimerOK, RingingHasTimeout
<1>. QED BY <1>1, <1>2, <1>3, <1>4, <1>5, <1>6, <1>7 DEF Shape

LEMMA ShapeAlways == Spec => [](Shape /\ CallInv)
<1>1. Shape /\ CallInv /\ [Next]_vars => (Shape /\ CallInv)'
  BY ShapeStep, CallStep DEF CallInv
<1>. QED BY <1>1, ShapeInit, PTL DEF Spec

\* Every message, handler and page names a call that was entered, with any
\* number of pages, tabs and calls, and a call that rings stops ringing: its
\* timeout is coming, as long as no connection is lost.
THEOREM RegistryStaysSound == Spec => []RegistrySound
<1>1. Shape => TypeOK
  <2>. SUFFICES ASSUME Shape PROVE TypeOK
    OBVIOUS
  <2>1. caller \in Seq(Admins) /\ Len(caller) <= MaxCalls
    BY WaitingNat, CallsAssumption DEF Shape, Room, GatewayOK
  <2>2. \A k \in Conns : hand[k].c \in 0..Len(caller)
    BY DEF Shape, GatewayOK, Ids
  <2>3. ASSUME NEW k \in Conns, NEW i \in 1..Len(toGw[k]) PROVE toGw[k][i].c \in 0..Len(caller)
    <3>1. PICK q \in Seq(Letter) : q = toGw[k]
      BY DEF Shape, QueuesOK
    <3>2. q[i] \in Letter
      BY <2>3, <3>1
    <3>. QED BY <3>1, <3>2 DEF Letter, Ids
  <2>. QED BY <2>1, <2>2, <2>3 DEF Shape, GatewayOK, LinksOK, ClientsOK, PageIds, TabIds, Statuses, Ids,
                                    TypeOK
<1>2. CallInv => RingingHasTimeout
  BY DEF CallInv
<1>3. Shape /\ CallInv => RegistrySound
  BY <1>1, <1>2 DEF RegistrySound
<1>. QED BY <1>3, ShapeAlways, PTL

\* A call rings once and ends once: whichever of answer, rejection, end, timeout and
\* lost connection meet on a call, one that left the registry never comes back, one
\* that was accepted never rings again, and no call changes its caller.
NeverBack ==
  \A c \in 1..Len(caller) :
    /\ c \in 1..Len(caller') /\ caller'[c] = caller[c]
    /\ registry[c] = "none" => registry'[c] = "none"
    /\ registry[c] = "Accepted" => registry'[c] # "Ringing"

THEOREM CallsNeverComeBack == Spec => [][NeverBack]_vars
<1>1. ASSUME Shape, [Next]_vars PROVE [NeverBack]_vars
  <2>0. /\ caller \in Seq(Admins) /\ 1..Len(caller) \subseteq Calls
        /\ registry \in [Calls -> {"none"} \cup Ongoing]
    <3>1. Len(caller) <= MaxCalls
      BY <1>1, WaitingNat, CallsAssumption DEF Shape, Room, GatewayOK
    <3>. QED BY <1>1, <3>1, CallsAssumption DEF Shape, GatewayOK, Calls
  <2>1. ASSUME UNCHANGED <<caller, registry>> PROVE NeverBack
    BY <2>1 DEF NeverBack
  <2>2. ASSUME NEW c, UNCHANGED caller,
               \/ registry' = [registry EXCEPT ![c] = "none"]
               \/ registry' = [registry EXCEPT ![c] = IF @ = "none" THEN @ ELSE "Accepted"]
        PROVE  NeverBack
    BY <2>0, <2>2 DEF NeverBack
  <2>3. ASSUME NEW a \in Admins, Initiate(a) PROVE NeverBack
    <3>1. /\ caller' = Append(caller, a)
          /\ \/ UNCHANGED registry
             \/ registry' = [registry EXCEPT ![Len(caller) + 1] = "Ringing"]
      BY <2>3 DEF Initiate
    <3>2. \A c \in 1..Len(caller) : /\ c # Len(caller) + 1 /\ c \in 1..Len(Append(caller, a))
                                    /\ Append(caller, a)[c] = caller[c]
      BY <2>0
    <3>. QED BY <2>0, <3>1, <3>2 DEF NeverBack
  <2>4. ASSUME NEW u \in Tabs, AnswerMarks(u) PROVE NeverBack
    BY <2>2, <2>4 DEF AnswerMarks
  <2>5. ASSUME NEW k, NEW t, NEW outcome, NEW ks, Leaves(k, t, outcome, ks) PROVE NeverBack
    <3>1. CASE UNCHANGED <<caller, registry>>
      BY <2>1, <3>1
    <3>2. CASE registry' = [registry EXCEPT ![Next1(k).c] = "none"] /\ UNCHANGED caller
      BY <2>2, <3>2
    <3>. QED BY <2>5, <3>1, <3>2 DEF Leaves, Refusal
  <2>6. ASSUME NEW c \in Calls, TimerRemoves(c) PROVE NeverBack
    BY <2>2, <2>6 DEF TimerRemoves
  <2>7. ASSUME NEW u \in Tabs, Answer(u) PROVE UNCHANGED <<caller, registry>>
    BY <2>7 DEF Answer, Refusal
  <2>8. ASSUME NEW k \in Conns, Relay(k) \/ Publish(k) \/ Receive(k) \/ Drop(k) \/ Reconnect(k)
        PROVE  UNCHANGED <<caller, registry>>
    BY <2>8 DEF Relay, Publish, Receive, Drop, Reconnect
  <2>9. ASSUME NEW c \in Calls, TimerChecks(c) \/ TimerPublishes(c)
        PROVE  UNCHANGED <<caller, registry>>
    BY <2>9 DEF TimerChecks, TimerPublishes
  <2>10. ASSUME NEW a \in Admins, \/ Call(a) \/ HangUp(a) \/ Acknowledge(a)
                                  \/ AdminMicGranted(a) \/ AdminMicFails(a)
         PROVE  UNCHANGED <<caller, registry>>
    BY <2>10 DEF Call, HangUp, Acknowledge, AdminMicGranted, AdminMicFails
  <2>11. ASSUME NEW u \in Tabs, \/ Accept(u) \/ Reject(u) \/ Leave(u)
                                \/ \E c \in Calls : TabMicGranted(u, c) \/ TabMicFails(u, c)
         PROVE  UNCHANGED <<caller, registry>>
    BY <2>11 DEF Accept, Reject, Leave, TabMicGranted, TabMicFails
  <2>. QED BY <1>1, <2>1, <2>3, <2>4, <2>5, <2>6, <2>7, <2>8, <2>9, <2>10, <2>11
           DEF Next, GatewayStep, RejectCall, EndCall, vars
<1>2. Shape /\ [Next]_vars => [NeverBack]_vars
  BY <1>1
<1>. QED BY <1>2, ShapeAlways, PTL DEF Spec

\* Once every message has arrived, the record of a call says what the registry
\* says, unless two tasks of the gateway met at a call or one was cut off.
THEOREM RecordFollowsRegistry == Spec => []RecordAgrees
<1>1. Shape /\ CallInv => RecordAgrees
  <2>. SUFFICES ASSUME Shape, CallInv, Quiet, odd \cap {"overlap", "drop"} = {}, NEW c \in 1..Len(caller)
                PROVE  Agree(registry[c], record[c])
    BY DEF RecordAgrees, Agree
  <2>1. c \in Calls
    BY WaitingNat, CallsAssumption DEF Shape, Room, GatewayOK, Calls
  <2>2. CallOK(c)
    BY <2>1 DEF CallInv, Clear
  <2>3. ~InHand(c)
    BY <2>1 DEF Quiet, InHand, Idle
  <2>. QED BY <2>2, <2>3 DEF CallOK
<1>. QED BY <1>1, ShapeAlways, PTL

-------------------------------------------------------------------------------
(* What is in a queue, and in which order.                                 *)

\* Messages, of calls that the gateway knows or is about to enter.
Letters == [t : Words, c : Nat]

LEMMA LettersAre == ASSUME Shape PROVE Letter \subseteq Letters
BY DEF Shape, GatewayOK, Letter, Letters, Ids

\* The calls that a queue names with a word.
Named(q, t) == {q[i].c : i \in {j \in 1..Len(q) : q[j].t = t}}

Says(q, W) == \A i \in 1..Len(q) : q[i].t \in W

\* After one word a queue has none of the others.
Silent(q, t, W) == \A i, j \in 1..Len(q) : i < j /\ q[i].t = t => q[j].t \notin W

\* No call is named twice with a word.
Once(q, t) == \A i, j \in 1..Len(q) : i < j /\ q[i].t = t /\ q[j].t = t => q[i].c # q[j].c

\* A page is told of its calls one after another, and of the end of a call last.
Tells == {"accepted", "rejected", "ended"}
InTurn(q) == \A i, j \in 1..Len(q) : i < j /\ q[i].t \in Tells /\ q[j].t \in Tells =>
                q[i].c <= q[j].c /\ (q[i].t # "accepted" => q[i].c # q[j].c)

LEMMA InAppend ==
  ASSUME NEW q \in Seq(Letter), NEW m
  PROVE  /\ Len(q) \in Nat
         /\ \A i \in 1..Len(q) : Append(q, m)[i] = q[i] /\ i < Len(q) + 1
         /\ Append(q, m)[Len(q) + 1] = m
         /\ \A i \in 1..Len(Append(q, m)) : i \in 1..Len(q) \/ i = Len(q) + 1
         /\ 1..Len(q) \subseteq 1..Len(Append(q, m)) /\ Len(q) + 1 \in 1..Len(Append(q, m))
         /\ \A i, j \in 1..Len(Append(q, m)) : i < j => i \in 1..Len(q)
OBVIOUS

LEMMA InTail ==
  ASSUME NEW q \in Seq(Letter), q # <<>>
  PROVE  /\ Tail(q) \in Seq(Letter)
         /\ 1 \in 1..Len(q) /\ q[1] = Head(q) /\ Head(q) \in Letter
         /\ \A i \in 1..Len(Tail(q)) : i + 1 \in 1..Len(q) /\ Tail(q)[i] = q[i + 1] /\ 1 < i + 1
         /\ \A i \in 1..Len(q) : i = 1 \/ (i - 1 \in 1..Len(Tail(q)) /\ q[i] = Tail(q)[i - 1])
         /\ \A i, j \in 1..Len(Tail(q)) : i < j => i + 1 < j + 1
<1>1. /\ Tail(q) \in Seq(Letter) /\ Len(q) \in Nat /\ Len(Tail(q)) = Len(q) - 1 /\ Len(q) > 0
      /\ q[1] = Head(q) /\ \A i \in 1..Len(Tail(q)) : Tail(q)[i] = q[i + 1]
  OBVIOUS
<1>2. \A i \in 1..Len(q) : i = 1 \/ (i - 1 \in 1..Len(Tail(q)) /\ q[i] = Tail(q)[i - 1])
  <2>. TAKE i \in 1..Len(q)
  <2>1. i # 1 => i - 1 \in 1..Len(Tail(q)) /\ (i - 1) + 1 = i
    BY <1>1
  <2>. QED BY <1>1, <2>1
<1>. QED BY <1>1, <1>2

LEMMA NamedIs ==
  ASSUME NEW q, NEW t, NEW c
  PROVE  c \in Named(q, t) <=> \E i \in 1..Len(q) : q[i].t = t /\ q[i].c = c
BY DEF Named

LEMMA NamedType == ASSUME NEW q \in Seq(Letter), NEW t PROVE Named(q, t) \subseteq Ids
<1>1. \A i \in 1..Len(q) : q[i] \in Letter
  OBVIOUS
<1>. QED BY <1>1, NamedIs DEF Letter

\* A message more.
LEMMA AppendNames ==
  ASSUME NEW q \in Seq(Letter), NEW m, NEW t
  PROVE  Named(Append(q, m), t) = Named(q, t) \cup (IF m.t = t THEN {m.c} ELSE {})
<1>. DEFINE r == Append(q, m)
<1>1. /\ \A i \in 1..Len(q) : r[i] = q[i]
      /\ r[Len(q) + 1] = m
      /\ \A i \in 1..Len(r) : i \in 1..Len(q) \/ i = Len(q) + 1
      /\ 1..Len(q) \subseteq 1..Len(r) /\ Len(q) + 1 \in 1..Len(r)
  BY InAppend
<1>. HIDE DEF r
<1>2. \A c : c \in Named(r, t) <=> c \in Named(q, t) \/ (m.t = t /\ c = m.c)
  BY <1>1, NamedIs
<1>. QED BY <1>2 DEF r

\* A message less.
LEMMA TailNames ==
  ASSUME NEW q \in Seq(Letter), q # <<>>, NEW t
  PROVE  Named(q, t) = Named(Tail(q), t) \cup (IF Head(q).t = t THEN {Head(q).c} ELSE {})
<1>. DEFINE r == Tail(q)
            h == Head(q)
<1>1. /\ 1 \in 1..Len(q) /\ q[1] = h
      /\ \A i \in 1..Len(r) : i + 1 \in 1..Len(q) /\ r[i] = q[i + 1]
      /\ \A i \in 1..Len(q) : i = 1 \/ (i - 1 \in 1..Len(r) /\ q[i] = r[i - 1])
  BY InTail
<1>. HIDE DEF r, h
<1>2. \A c : c \in Named(q, t) => c \in Named(r, t) \/ (h.t = t /\ c = h.c)
  BY <1>1, NamedIs
<1>3. \A c : c \in Named(r, t) \/ (h.t = t /\ c = h.c) => c \in Named(q, t)
  BY <1>1, NamedIs
<1>. QED BY <1>2, <1>3 DEF r, h

LEMMA EmptyNames ==
  ASSUME NEW t PROVE Named(<<>>, t) = {}
BY DEF Named

LEMMA AppendOrder ==
  ASSUME NEW q \in Seq(Letter), NEW m \in Letters
  PROVE  /\ \A W : Says(q, W) /\ m.t \in W => Says(Append(q, m), W)
         /\ \A t, W : Silent(q, t, W) /\ (m.t \in W => Named(q, t) = {}) => Silent(Append(q, m), t, W)
         /\ \A t : Once(q, t) /\ (m.t = t => m.c \notin Named(q, t)) => Once(Append(q, m), t)
         /\ InTurn(q) /\ (m.t \in Tells => /\ \A c \in Named(q, "accepted") : c <= m.c
                                          /\ \A c \in Named(q, "rejected") \cup Named(q, "ended") : c < m.c)
              => InTurn(Append(q, m))
<1>. DEFINE r == Append(q, m)
<1>1. /\ \A i \in 1..Len(q) : r[i] = q[i] /\ q[i].c \in Nat
      /\ r[Len(q) + 1] = m /\ m.c \in Nat
      /\ \A i \in 1..Len(r) : i \in 1..Len(q) \/ i = Len(q) + 1
      /\ \A i, j \in 1..Len(r) : i < j => i \in 1..Len(q)
  <2>1. \A i \in 1..Len(q) : q[i] \in Letter
    OBVIOUS
  <2>. QED BY <2>1, InAppend DEF Letter, Letters, Ids
<1>. HIDE DEF r
<1>2. \A W : Says(q, W) /\ m.t \in W => Says(r, W)
  BY <1>1 DEF Says
<1>3. ASSUME NEW t, NEW W, Silent(q, t, W), m.t \in W => Named(q, t) = {} PROVE Silent(r, t, W)
  <2>1. m.t \in W => \A i \in 1..Len(q) : q[i].t # t
    BY ZenonT(60), <1>3, NamedIs
  <2>. QED BY <1>1, <1>3, <2>1 DEF Silent
<1>4. ASSUME NEW t, Once(q, t), m.t = t => m.c \notin Named(q, t) PROVE Once(r, t)
  <2>1. m.t = t => \A i \in 1..Len(q) : q[i].t = t => q[i].c # m.c
    BY <1>4, NamedIs
  <2>. QED BY SMTT(60), <1>1, <1>4, <2>1 DEF Once
<1>5. ASSUME InTurn(q), m.t \in Tells => /\ \A c \in Named(q, "accepted") : c <= m.c
                                        /\ \A c \in Named(q, "rejected") \cup Named(q, "ended") : c < m.c
      PROVE  InTurn(r)
  <2>1. ASSUME m.t \in Tells, NEW i \in 1..Len(q), q[i].t \in Tells
        PROVE  q[i].c <= m.c /\ (q[i].t # "accepted" => q[i].c # m.c)
    <3>1. q[i].c \in Named(q, q[i].t)
      BY NamedIs
    <3>. QED BY <1>1, <1>5, <2>1, <3>1 DEF Tells
  <2>. QED BY ZenonT(60), <1>1, <1>5, <2>1 DEF InTurn
<1>. QED BY <1>2, <1>3, <1>4, <1>5 DEF r

LEMMA TailOrder ==
  ASSUME NEW q \in Seq(Letter), q # <<>>
  PROVE  /\ \A W : Says(q, W) => Says(Tail(q), W) /\ Head(q).t \in W
         /\ \A t, W : Silent(q, t, W) => Silent(Tail(q), t, W)
              /\ (Head(q).t = t => \A w \in W : Named(Tail(q), w) = {})
         /\ \A t : Once(q, t) => Once(Tail(q), t) /\ (Head(q).t = t => Head(q).c \notin Named(Tail(q), t))
         /\ InTurn(q) => InTurn(Tail(q)) /\ (Head(q).t \in Tells => \A w \in Tells : \A c \in Named(Tail(q), w) :
                            Head(q).c <= c /\ (Head(q).t # "accepted" => Head(q).c # c))
<1>. DEFINE r == Tail(q)
            h == Head(q)
<1>1. /\ 1 \in 1..Len(q) /\ q[1] = h
      /\ \A i \in 1..Len(r) : i + 1 \in 1..Len(q) /\ r[i] = q[i + 1] /\ 1 < i + 1
      /\ \A i, j \in 1..Len(r) : i < j => i + 1 < j + 1
  BY InTail
<1>. HIDE DEF r, h
<1>2. \A W : Says(q, W) => Says(r, W) /\ h.t \in W
  BY <1>1 DEF Says
<1>3. ASSUME NEW t, NEW W, Silent(q, t, W)
      PROVE  Silent(r, t, W) /\ (h.t = t => \A w \in W : Named(r, w) = {})
  <2>1. Silent(r, t, W)
    BY <1>1, <1>3 DEF Silent
  <2>2. h.t = t => \A i \in 1..Len(r) : r[i].t \notin W
    BY <1>1, <1>3 DEF Silent
  <2>. QED BY <2>1, <2>2 DEF Named
<1>4. ASSUME NEW t, Once(q, t) PROVE Once(r, t) /\ (h.t = t => h.c \notin Named(r, t))
  <2>1. Once(r, t)
    BY SMTT(60), <1>1, <1>4 DEF Once
  <2>2. h.t = t => \A i \in 1..Len(r) : r[i].t = t => r[i].c # h.c
    BY <1>1, <1>4 DEF Once
  <2>. QED BY <2>1, <2>2, NamedIs
<1>5. ASSUME InTurn(q)
      PROVE  InTurn(r) /\ (h.t \in Tells => \A w \in Tells : \A c \in Named(r, w) :
                              h.c <= c /\ (h.t # "accepted" => h.c # c))
  <2>1. InTurn(r)
    BY <1>1, <1>5 DEF InTurn
  <2>2. h.t \in Tells => \A i \in 1..Len(r) : r[i].t \in Tells =>
          h.c <= r[i].c /\ (h.t # "accepted" => h.c # r[i].c)
    BY <1>1, <1>5 DEF InTurn
  <2>. QED BY <2>1, <2>2, NamedIs
<1>. QED BY <1>2, <1>3, <1>4, <1>5 DEF r, h

LEMMA EmptyOrder ==
  ASSUME NEW t, NEW W
  PROVE  Says(<<>>, W) /\ Silent(<<>>, t, W) /\ Once(<<>>, t) /\ InTurn(<<>>)
BY DEF Says, Silent, Once, InTurn

-------------------------------------------------------------------------------
(* A page and its calls.                                                   *)

St(a)  == admin[a].status
Cur(a) == admin[a].current

\* What the page has sent, what it is to be answered and what it is to be told.
Asks(a) == Named(toGw[a], "initiate") # {}
Ends(a) == Named(toGw[a], "end")
Ring(a) == Named(resp[a], "ringing")
Errs(a) == Named(resp[a], "error")
Accs(a) == Named(bcast[a], "accepted")
Fins(a) == Named(bcast[a], "rejected") \cup Named(bcast[a], "ended")

\* Its calls: all of them, those in the registry, those that were answered.
Mine(a)  == {c \in 1..Len(caller) : caller[c] = a}
Live(a)  == {c \in Mine(a) : registry[c] \in Ongoing}
Taken(a) == {c \in Mine(a) : registry[c] = "Accepted"}

Busy(a) == St(a) \in {"ringing", "connected"}

PageTypes(a) ==
  /\ Mine(a) \subseteq Nat /\ Taken(a) \subseteq Live(a) /\ Live(a) \subseteq Mine(a) /\ 0 \notin Mine(a)
  /\ Cur(a) \in {0} \cup Mine(a)
  /\ Ring(a) \cup Errs(a) \cup Ends(a) \cup Fins(a) \subseteq Mine(a)
  /\ St(a) \in {"idle", "ringing", "connected", "declined", "error"}

\* It waits for one call at a time, and rings meanwhile.
PageWaits(a) ==
  /\ Asks(a) => Ring(a) = {}
  /\ Asks(a) \/ Ring(a) # {} => St(a) = "ringing"
  /\ \A c \in Ring(a), d \in Mine(a) : d <= c
  /\ \A c \in Ring(a) : c > Cur(a) /\ c \in Live(a) \cup Fins(a)

\* It has taken leave of nothing newer than what it shows or waits for.
PageShows(a) ==
  /\ Cur(a) # 0 => Ends(a) = {} /\ Errs(a) = {} /\ \A c \in Mine(a) : c <= Cur(a) \/ c \in Ring(a)
  /\ Ring(a) # {} => Ends(a) = {} /\ Ring(a) \cap Errs(a) = {}
  /\ Cur(a) # 0 \/ Ring(a) # {} => Tabs # {}
  /\ Cur(a) # 0 /\ (~Busy(a) \/ Asks(a) \/ Ring(a) # {}) => Accs(a) \cup Fins(a) \cup Live(a) \subseteq Ring(a)
  /\ St(a) = "error" => Cur(a) = 0

\* It learns of what happens to its calls; only the newest is in the registry.
PageLearns(a) ==
  /\ \A c \in Live(a), d \in Mine(a) : d <= c
  /\ Accs(a) \subseteq Taken(a) \cup Fins(a) /\ Fins(a) \cap Live(a) = {}
  /\ \A c \in Live(a) : (Busy(a) /\ Cur(a) = c) \/ c \in Ring(a) \cup Ends(a)
  /\ \A c \in Taken(a) : (St(a) = "connected" /\ Cur(a) = c) \/ c \in Accs(a) \cup Ends(a)
  /\ St(a) = "connected" /\ Cur(a) \in Live(a) => Cur(a) \in Taken(a)

\* What it shows is waited for or in the registry, or will be closed.
PageEnds(a) ==
  Busy(a) => \/ Asks(a) \/ Ring(a) # {} \/ Cur(a) \in Live(a) \cup Fins(a)
             \/ \E c \in Mine(a) : c # Cur(a) /\ c \in Errs(a) \cup Fins(a) \cup (Live(a) \cap Ends(a))

PageRule(a) == PageTypes(a) /\ PageWaits(a) /\ PageShows(a) /\ PageLearns(a) /\ PageEnds(a)

Face(a) == <<St(a), Cur(a)>>
Sent(a) == <<Asks(a), Ends(a)>>
Due(a)  == <<Ring(a), Errs(a)>>
News(a) == <<Accs(a), Fins(a)>>
Own(a)  == <<Mine(a), Live(a), Taken(a)>>

LEMMA PageStays ==
  ASSUME NEW a, PageRule(a), UNCHANGED <<Face(a), Sent(a), Due(a), News(a), Own(a)>>
  PROVE  PageRule(a)'
<1>1. /\ St(a)' = St(a) /\ Cur(a)' = Cur(a) /\ Asks(a)' = Asks(a) /\ Ends(a)' = Ends(a)
      /\ Ring(a)' = Ring(a) /\ Errs(a)' = Errs(a) /\ Accs(a)' = Accs(a) /\ Fins(a)' = Fins(a)
      /\ Mine(a)' = Mine(a) /\ Live(a)' = Live(a) /\ Taken(a)' = Taken(a)
  BY DEF Face, Sent, Due, News, Own
<1>. QED BY <1>1 DEF PageRule, PageTypes, PageWaits, PageShows, PageLearns, PageEnds, Busy

\* A call is asked for.
LEMMA PageCalls ==
  ASSUME NEW a, PageRule(a), St(a) = "idle", UNCHANGED <<Due(a), News(a), Own(a)>>,
         St(a)' = "ringing", Cur(a)' = Cur(a), Asks(a)', Ends(a)' = Ends(a)
  PROVE  PageRule(a)'
BY DEF PageRule, PageTypes, PageWaits, PageShows, PageLearns, PageEnds, Busy, Face, Sent, Due, News, Own

\* The page ends the newest call, which it shows.
LEMMA PageHangsUp ==
  ASSUME NEW a, PageRule(a), Busy(a), Cur(a) # 0, ~Asks(a), \A c \in Mine(a) : c <= Cur(a),
         UNCHANGED <<Due(a), News(a), Own(a)>>,
         St(a)' = "idle", Cur(a)' = 0, Asks(a)' = Asks(a), Ends(a)' = Ends(a) \cup {Cur(a)}
  PROVE  PageRule(a)'
BY DEF PageRule, PageTypes, PageWaits, PageShows, PageLearns, PageEnds, Busy, Face, Sent, Due, News, Own

\* The page goes back to idle.
LEMMA PageAcknowledges ==
  ASSUME NEW a, PageRule(a), St(a) \in {"declined", "error"}, UNCHANGED <<Sent(a), Due(a), News(a), Own(a)>>,
         St(a)' = "idle", Cur(a)' = Cur(a)
  PROVE  PageRule(a)'
BY DEF PageRule, PageTypes, PageWaits, PageShows, PageLearns, PageEnds, Busy, Face, Sent, Due, News, Own

\* The page learns the number of its call.
LEMMA PageRings ==
  ASSUME NEW a, PageRule(a), NEW c, UNCHANGED <<Sent(a), News(a), Own(a)>>, Ring(a) = {c}, Ring(a)' = {}, Errs(a)' = {},
         St(a)' = "ringing", Cur(a)' = c
  PROVE  PageRule(a)'
BY DEF PageRule, PageTypes, PageWaits, PageShows, PageLearns, PageEnds, Busy, Face, Sent, Due, News, Own

\* An error closes what the page shows.
LEMMA PageFails ==
  ASSUME NEW a, PageRule(a), NEW c \in Errs(a), Busy(a) => c = Cur(a), UNCHANGED <<Sent(a), News(a), Own(a)>>,
         Ring(a)' = Ring(a), Errs(a)' \subseteq Errs(a), St(a)' = "error", Cur(a)' = 0
  PROVE  PageRule(a)'
BY DEF PageRule, PageTypes, PageWaits, PageShows, PageLearns, PageEnds, Busy, Face, Sent, Due, News, Own

\* The page learns that its call was answered.
LEMMA PageConnects ==
  ASSUME NEW a, PageRule(a), NEW c \in Accs(a), Busy(a) => c = Cur(a), UNCHANGED <<Sent(a), Due(a), Own(a)>>,
         Accs(a)' \cup {c} = Accs(a), Fins(a)' = Fins(a), St(a)' = "connected", Cur(a)' = Cur(a)
  PROVE  PageRule(a)'
BY DEF PageRule, PageTypes, PageWaits, PageShows, PageLearns, PageEnds, Busy, Face, Sent, Due, News, Own

\* The page learns that its call was declined.
LEMMA PageDeclined ==
  ASSUME NEW a, PageRule(a), NEW c \in Fins(a), Busy(a) => c = Cur(a), UNCHANGED <<Sent(a), Due(a), Own(a)>>,
         Accs(a)' = Accs(a), Fins(a)' \cup {c} = Fins(a), \A d \in Accs(a)' \cup Fins(a)' : c <= d /\ c # d,
         St(a)' = "declined", Cur(a)' = Cur(a)
  PROVE  PageRule(a)'
BY DEF PageRule, PageTypes, PageWaits, PageShows, PageLearns, PageEnds, Busy, Face, Sent, Due, News, Own

\* The page learns that its call has ended.
LEMMA PageEnded ==
  ASSUME NEW a, PageRule(a), NEW c \in Fins(a), Busy(a) => c = Cur(a), UNCHANGED <<Sent(a), Due(a), Own(a)>>,
         Accs(a)' = Accs(a), Fins(a)' \cup {c} = Fins(a), \A d \in Accs(a)' \cup Fins(a)' : c <= d /\ c # d,
         St(a)' = "idle", Cur(a)' = 0
  PROVE  PageRule(a)'
BY DEF PageRule, PageTypes, PageWaits, PageShows, PageLearns, PageEnds, Busy, Face, Sent, Due, News, Own

\* The gateway enters the call that was asked for.
LEMMA PageEnters ==
  ASSUME NEW a, PageRule(a), NEW c \in Nat \ {0}, \A d \in Mine(a) : d < c, Asks(a), Ends(a) = {}, Tabs # {},
         UNCHANGED <<Face(a), News(a), Taken(a)>>, ~Asks(a)', Ends(a)' = {},
         Ring(a)' = Ring(a) \cup {c}, Errs(a)' = Errs(a),
         Mine(a)' = Mine(a) \cup {c}, Live(a)' = Live(a) \cup {c}
  PROVE  PageRule(a)'
BY DEF PageRule, PageTypes, PageWaits, PageShows, PageLearns, PageEnds, Busy, Face, Sent, Due, News, Own

\* ... or has nobody to ring.
LEMMA PageRefused ==
  ASSUME NEW a, PageRule(a), NEW c \in Nat \ {0}, \A d \in Mine(a) : d < c, Asks(a), Ends(a) = {}, Tabs = {},
         UNCHANGED <<Face(a), News(a), Taken(a), Live(a)>>, ~Asks(a)', Ends(a)' = {},
         Ring(a)' = Ring(a), Errs(a)' = Errs(a) \cup {c}, Mine(a)' = Mine(a) \cup {c}
  PROVE  PageRule(a)'
BY DEF PageRule, PageTypes, PageWaits, PageShows, PageLearns, PageEnds, Busy, Face, Sent, Due, News, Own

\* The gateway ends a call for the page ...
LEMMA PageEndsCall ==
  ASSUME NEW a, PageRule(a), NEW c \in Live(a), UNCHANGED <<Face(a), Due(a), Mine(a)>>, Asks(a)' = Asks(a),
         Ends(a) = Ends(a)' \cup {c}, Live(a)' = Live(a) \ {c}, Taken(a)' = Taken(a) \ {c},
         Accs(a)' = Accs(a), Fins(a)' = Fins(a) \cup {c}
  PROVE  PageRule(a)'
BY DEF PageRule, PageTypes, PageWaits, PageShows, PageLearns, PageEnds, Busy, Face, Sent, Due, News, Own

\* ... or finds it gone.
LEMMA PageEndRefused ==
  ASSUME NEW a, PageRule(a), NEW c \in Mine(a) \ Live(a), UNCHANGED <<Face(a), News(a), Own(a)>>, Asks(a)' = Asks(a),
         Ends(a) = Ends(a)' \cup {c}, Ring(a)' = Ring(a), Errs(a)' = Errs(a) \cup {c}
  PROVE  PageRule(a)'
BY DEF PageRule, PageTypes, PageWaits, PageShows, PageLearns, PageEnds, Busy, Face, Sent, Due, News, Own

\* Somebody else closes a call.
LEMMA PageLoses ==
  ASSUME NEW a, PageRule(a), NEW c \in Live(a), UNCHANGED <<Face(a), Sent(a), Due(a), Mine(a)>>,
         Live(a)' = Live(a) \ {c}, Taken(a)' = Taken(a) \ {c},
         Accs(a)' = Accs(a), Fins(a)' = Fins(a) \cup {c}
  PROVE  PageRule(a)'
BY DEF PageRule, PageTypes, PageWaits, PageShows, PageLearns, PageEnds, Busy, Face, Sent, Due, News, Own

\* A tab answers.
LEMMA PageAnswered ==
  ASSUME NEW a, PageRule(a), NEW c \in Live(a), UNCHANGED <<Face(a), Sent(a), Due(a), Mine(a), Live(a)>>,
         Taken(a)' = Taken(a) \cup {c}, Accs(a)' = Accs(a) \cup {c}, Fins(a)' = Fins(a)
  PROVE  PageRule(a)'
BY DEF PageRule, PageTypes, PageWaits, PageShows, PageLearns, PageEnds, Busy, Face, Sent, Due, News, Own

-------------------------------------------------------------------------------
(* A call and the tabs.                                                    *)

Reg(c) == registry[c]

\* Where the call rings or will ring, where it is active, where it was answered
\* or declined, which tabs have left it and which are to learn that it is over.
Pend(c)  == {u \in Tabs : c \in Named(bcast[u], "incoming")}
Shown(c) == {u \in Tabs : tab[u].incoming = c}
Act(c)   == {u \in Tabs : tab[u].active = c}
AnsQ(c)  == {u \in Tabs : c \in Named(toGw[u], "answer")}
AnsH(c)  == {u \in Tabs : hand[u].op = "answer" /\ hand[u].c = c}
Rejs(c)  == {u \in Tabs : c \in Named(toGw[u], "reject")}
Left(c)  == {u \in Tabs : c \in Named(toGw[u], "end")}
Errd(c)  == {u \in Tabs : c \in Named(resp[u], "error")}
Done(c)  == {u \in Tabs : c \in Named(bcast[u], "ended")}
Told(c)  == Errd(c) \cup Done(c)

Free(c)   == Pend(c) \cup Shown(c)
Ans(c)    == AnsQ(c) \cup AnsH(c)
Claims(c) == Act(c) \cup Ans(c) \cup Rejs(c)

\* At most one tab takes the call, and no longer offers it.
TabsClaim(c) ==
  /\ Free(c) \cup Claims(c) \cup Left(c) \cup Told(c) \subseteq Tabs
  /\ Reg(c) \in {"none"} \cup Ongoing
  /\ Pend(c) \cap Shown(c) = {} /\ Claims(c) \cap Free(c) = {}
  /\ \A u, v \in Claims(c) : u = v
  /\ Rejs(c) \cap (Act(c) \cup Ans(c)) = {} /\ AnsQ(c) \cap AnsH(c) = {}

\* A call is with the tab that answered it; what tells that it is over is true.
TabsAgree(c) ==
  /\ Reg(c) = "Accepted" => Free(c) # Tabs /\ AnsQ(c) \cup Rejs(c) = {} /\ Act(c) \cup Left(c) # {}
  /\ Reg(c) # "none" => Ans(c) \subseteq Act(c) \cup Left(c) /\ Told(c) = {}
  /\ Reg(c) = "Ringing" => Free(c) \cup Ans(c) \cup Rejs(c) # {}
  /\ Reg(c) # "Accepted" => Act(c) \subseteq Ans(c) \cup Told(c)

TabsRule(c) == TabsClaim(c) /\ TabsAgree(c)

Faces(c)   == <<Shown(c), Act(c)>>
Actions(c) == <<AnsQ(c), Rejs(c), Left(c)>>
Taking(c)  == <<AnsH(c), Reg(c)>>
Notices(c) == <<Pend(c), Told(c)>>

\* Nothing that concerns the call.
LEMMA TabsStay ==
  ASSUME NEW c, TabsRule(c), UNCHANGED <<Faces(c), Actions(c), Taking(c), Notices(c)>>
  PROVE  TabsRule(c)'
BY DEF TabsRule, TabsClaim, TabsAgree, Free, Ans, Claims, Faces, Actions, Taking, Notices, Ongoing

\* A tab accepts the call, which rings in all.
LEMMA TabAccepts ==
  ASSUME NEW c, TabsRule(c), NEW u \in Tabs, Shown(c) = Tabs, UNCHANGED <<Taking(c), Notices(c), Rejs(c), Left(c)>>,
         Shown(c)' = Shown(c) \ {u}, Act(c)' = Act(c) \cup {u}, AnsQ(c)' = AnsQ(c) \cup {u}
  PROVE  TabsRule(c)'
BY DEF TabsRule, TabsClaim, TabsAgree, Free, Ans, Claims, Faces, Actions, Taking, Notices, Ongoing

\* A tab declines the call, which rings in all.
LEMMA TabRejects ==
  ASSUME NEW c, TabsRule(c), NEW u \in Tabs, Shown(c) = Tabs, UNCHANGED <<Taking(c), Notices(c), Act(c), AnsQ(c), Left(c)>>,
         Shown(c)' = Shown(c) \ {u}, Rejs(c)' = Rejs(c) \cup {u}
  PROVE  TabsRule(c)'
BY DEF TabsRule, TabsClaim, TabsAgree, Free, Ans, Claims, Faces, Actions, Taking, Notices, Ongoing

\* A tab leaves the call.
LEMMA TabLeaves ==
  ASSUME NEW c, TabsRule(c), NEW u \in Tabs, UNCHANGED <<Taking(c), Notices(c), Shown(c), AnsQ(c), Rejs(c)>>,
         Act(c)' = Act(c) \ {u}, Left(c)' = Left(c) \cup {u}
  PROVE  TabsRule(c)'
BY DEF TabsRule, TabsClaim, TabsAgree, Free, Ans, Claims, Faces, Actions, Taking, Notices, Ongoing

\* The call rings in a tab.
LEMMA TabRings ==
  ASSUME NEW c, TabsRule(c), NEW u \in Pend(c), UNCHANGED <<Taking(c), Actions(c), Act(c), Told(c)>>,
         Pend(c)' = Pend(c) \ {u}, Shown(c)' = Shown(c) \cup {u}
  PROVE  TabsRule(c)'
BY DEF TabsRule, TabsClaim, TabsAgree, Free, Ans, Claims, Faces, Actions, Taking, Notices, Ongoing

\* A tab learns that the call is over.
LEMMA TabCloses ==
  ASSUME NEW c, TabsRule(c), NEW u \in Told(c), UNCHANGED <<Taking(c), Actions(c), Pend(c)>>,
         Shown(c)' = Shown(c) \ {u}, Act(c)' = Act(c) \ {u},
         Told(c)' \subseteq Told(c), Told(c) \subseteq Told(c)' \cup {u}
  PROVE  TabsRule(c)'
BY DEF TabsRule, TabsClaim, TabsAgree, Free, Ans, Claims, Faces, Actions, Taking, Notices, Ongoing

\* The gateway enters the call and rings every tab.
LEMMA CallEnters ==
  ASSUME NEW c, Reg(c)' \in {"none", "Ringing"}, Reg(c)' = "Ringing" => Tabs # {} /\ Pend(c)' = Tabs, Pend(c)' \subseteq Tabs,
         Shown(c)' = {}, Claims(c)' = {}, Left(c)' = {}, Told(c)' = {}
  PROVE  TabsRule(c)'
BY DEF TabsRule, TabsClaim, TabsAgree, Free, Ans, Claims, Faces, Actions, Taking, Notices, Ongoing

\* The gateway takes the answer of a tab ...
LEMMA CallIsTaken ==
  ASSUME NEW c, TabsRule(c), Reg(c) = "Ringing", NEW u \in AnsQ(c), UNCHANGED <<Faces(c), Notices(c), Rejs(c), Left(c), Reg(c)>>,
         AnsQ(c)' = AnsQ(c) \ {u}, AnsH(c)' = AnsH(c) \cup {u}
  PROVE  TabsRule(c)'
BY DEF TabsRule, TabsClaim, TabsAgree, Free, Ans, Claims, Faces, Actions, Taking, Notices, Ongoing

\* ... or refuses it.
LEMMA AnswerIsLate ==
  ASSUME NEW c, TabsRule(c), Reg(c) # "Ringing", NEW u \in AnsQ(c), UNCHANGED <<Faces(c), Taking(c), Rejs(c), Left(c), Pend(c)>>,
         AnsQ(c)' = AnsQ(c) \ {u}, Told(c)' = Told(c) \cup {u}
  PROVE  TabsRule(c)'
BY DEF TabsRule, TabsClaim, TabsAgree, Free, Ans, Claims, Faces, Actions, Taking, Notices, Ongoing

\* The gateway marks the call as answered.
LEMMA CallIsAnswered ==
  ASSUME NEW c, TabsRule(c), Reg(c) = "Ringing", NEW u \in AnsH(c), UNCHANGED <<Faces(c), Actions(c), Notices(c)>>,
         AnsH(c)' = AnsH(c) \ {u}, Reg(c)' = "Accepted"
  PROVE  TabsRule(c)'
BY DEF TabsRule, TabsClaim, TabsAgree, Free, Ans, Claims, Faces, Actions, Taking, Notices, Ongoing

\* A tab's rejection is taken ...
LEMMA CallIsRejected ==
  ASSUME NEW c, TabsRule(c), Reg(c) # "none", NEW u \in Rejs(c), UNCHANGED <<Faces(c), Notices(c), AnsQ(c), AnsH(c), Left(c)>>,
         Rejs(c) = Rejs(c)' \cup {u}, Reg(c)' = "none"
  PROVE  TabsRule(c)'
BY DEF TabsRule, TabsClaim, TabsAgree, Free, Ans, Claims, Faces, Actions, Taking, Notices, Ongoing

\* ... or refused.
LEMMA RejectIsLate ==
  ASSUME NEW c, TabsRule(c), Reg(c) = "none", NEW u \in Rejs(c), UNCHANGED <<Faces(c), Taking(c), Pend(c), AnsQ(c), Left(c)>>,
         Rejs(c) = Rejs(c)' \cup {u}, Told(c)' = Told(c) \cup {u}
  PROVE  TabsRule(c)'
BY DEF TabsRule, TabsClaim, TabsAgree, Free, Ans, Claims, Faces, Actions, Taking, Notices, Ongoing

\* The call is removed, for a page, for a tab or by its timeout.
LEMMA CallIsOver ==
  ASSUME NEW c, TabsRule(c), UNCHANGED <<Faces(c), AnsQ(c), AnsH(c), Rejs(c), Pend(c)>>,
         Left(c)' \subseteq Left(c), Told(c)' = Tabs, Reg(c)' = "none"
  PROVE  TabsRule(c)'
BY DEF TabsRule, TabsClaim, TabsAgree, Free, Ans, Claims, Faces, Actions, Taking, Notices, Ongoing

\* The end that a tab asks for is refused.
LEMMA EndIsLate ==
  ASSUME NEW c, TabsRule(c), Reg(c) = "none", NEW u \in Left(c), UNCHANGED <<Faces(c), Taking(c), Pend(c), AnsQ(c), Rejs(c)>>,
         Left(c)' \subseteq Left(c), Told(c)' = Told(c) \cup {u}
  PROVE  TabsRule(c)'
BY DEF TabsRule, TabsClaim, TabsAgree, Free, Ans, Claims, Faces, Actions, Taking, Notices, Ongoing

-------------------------------------------------------------------------------
(* The order in the queues, and what a message more or less changes.       *)

\* After a request a page asks for nothing and ends nothing until it is
\* answered; a tab answers a call once, and names one in all it says.
PageWords == {"initiate", "end", "offer"}
TabWords  == {"answer", "reject", "end", "answerSdp"}
OutOK(k) ==
  /\ k \in Admins => Says(toGw[k], PageWords) /\ Silent(toGw[k], "initiate", {"initiate", "end"})
  /\ k \in Tabs => Says(toGw[k], TabWords) /\ Once(toGw[k], "answer")
  /\ \A t \in TabWords : 0 \notin Named(toGw[k], t)

RespOK(k) ==
  /\ k \in Admins => Says(resp[k], {"ringing", "error"}) /\ Silent(resp[k], "ringing", {"ringing", "error"})
  /\ k \in Tabs => Says(resp[k], {"error"})

CastOK(k) ==
  /\ k \in Admins => Says(bcast[k], {"accepted", "rejected", "ended", "answerSdp"}) /\ InTurn(bcast[k])
  /\ k \in Tabs => Says(bcast[k], {"incoming", "ended", "offer"}) /\ Once(bcast[k], "incoming")

\* The letter, if it has that word.
With(m, t) == IF m.t = t THEN {m.c} ELSE {}
\* The tab, if the letter says that of the call.
By(k, m, t, c) == IF k \in Tabs /\ m.t = t /\ m.c = c THEN {k} ELSE {}

\* A queue gets a letter, or loses its first.
LEMMA Appended ==
  ASSUME NEW q \in Seq(Letter), NEW m
  PROVE  \A t : Named(Append(q, m), t) = Named(q, t) \cup With(m, t)
BY AppendNames DEF With

LEMMA Removed ==
  ASSUME NEW q \in Seq(Letter), q # <<>>
  PROVE  Head(q) \in Letter /\ \A t : Named(q, t) = Named(Tail(q), t) \cup With(Head(q), t)
BY TailNames, HeadOf DEF With

\* A client sends.
LEMMA Sends ==
  ASSUME Shape, NEW k \in Conns, NEW m \in Letter, Send(k, m)
  PROVE  /\ \A a \in Admins : /\ Asks(a)' <=> Asks(a) \/ (a = k /\ m.t = "initiate")
                              /\ Ends(a)' = Ends(a) \cup (IF a = k THEN With(m, "end") ELSE {})
         /\ \A c : /\ AnsQ(c)' = AnsQ(c) \cup By(k, m, "answer", c)
                   /\ Rejs(c)' = Rejs(c) \cup By(k, m, "reject", c)
                   /\ Left(c)' = Left(c) \cup By(k, m, "end", c)
<1>0. toGw \in [Conns -> Seq(Letter)] /\ toGw' = [toGw EXCEPT ![k] = Append(toGw[k], m)]
  BY DEF Shape, QueuesOK, Send
<1>1. /\ toGw[k] \in Seq(Letter)
      /\ toGw'[k] = Append(toGw[k], m) /\ \A j \in Conns \ {k} : toGw'[j] = toGw[j]
      /\ \A t : Named(toGw'[k], t) = Named(toGw[k], t) \cup With(m, t)
  <2>1. /\ toGw[k] \in Seq(Letter) /\ toGw'[k] = Append(toGw[k], m)
        /\ \A j \in Conns \ {k} : toGw'[j] = toGw[j]
    BY <1>0
  <2>. QED BY <2>1, Appended
<1>2. \A j \in Conns : \A t : Named(toGw'[j], t) = Named(toGw[j], t) \cup (IF j = k THEN With(m, t) ELSE {})
  BY <1>1
<1>3. Admins \subseteq Conns /\ Tabs \subseteq Conns
  BY DEF Conns
<1>4. ASSUME NEW a \in Admins
      PROVE  /\ Asks(a)' <=> Asks(a) \/ (a = k /\ m.t = "initiate")
             /\ Ends(a)' = Ends(a) \cup (IF a = k THEN With(m, "end") ELSE {})
  <2>1. \A t : Named(toGw'[a], t) = Named(toGw[a], t) \cup (IF a = k THEN With(m, t) ELSE {})
    BY <1>2, <1>3
  <2>. QED BY <2>1 DEF Asks, Ends, With
<1>5. ASSUME NEW c
      PROVE  /\ AnsQ(c)' = AnsQ(c) \cup By(k, m, "answer", c)
             /\ Rejs(c)' = Rejs(c) \cup By(k, m, "reject", c)
             /\ Left(c)' = Left(c) \cup By(k, m, "end", c)
  <2>1. \A u \in Tabs : \A t : c \in Named(toGw'[u], t) <=> c \in Named(toGw[u], t) \/ (u = k /\ m.t = t /\ m.c = c)
    BY <1>2, <1>3 DEF With
  <2>. QED BY <2>1 DEF AnsQ, Rejs, Left, By
<1>. QED BY <1>4, <1>5

LEMMA SendsInOrder ==
  ASSUME Shape, NEW k \in Conns, NEW m \in Letter, Send(k, m), \A j \in Conns : OutOK(j),
         k \in Admins /\ m.t \in {"initiate", "end"} => ~Asks(k),
         k \in Tabs /\ m.t = "answer" => k \notin AnsQ(m.c),
         k \in Admins => m.t \in PageWords, k \in Tabs => m.t \in TabWords,
         m.t \in TabWords => m.c # 0
  PROVE  \A j \in Conns : OutOK(j)'
<1>0. toGw \in [Conns -> Seq(Letter)] /\ toGw' = [toGw EXCEPT ![k] = Append(toGw[k], m)]
  BY DEF Shape, QueuesOK, Send
<1>1. /\ toGw[k] \in Seq(Letter)
      /\ toGw'[k] = Append(toGw[k], m) /\ \A j \in Conns \ {k} : toGw'[j] = toGw[j]
      /\ \A t : Named(toGw'[k], t) = Named(toGw[k], t) \cup With(m, t)
  <2>1. /\ toGw[k] \in Seq(Letter) /\ toGw'[k] = Append(toGw[k], m)
        /\ \A j \in Conns \ {k} : toGw'[j] = toGw[j]
    BY <1>0
  <2>. QED BY <2>1, Appended
<1>2. OutOK(k)'
  <2>1. k \in Admins => Silent(toGw'[k], "initiate", {"initiate", "end"})
    BY <1>1, LettersAre, AppendOrder DEF OutOK, Asks
  <2>2. k \in Tabs => Once(toGw'[k], "answer")
    BY <1>1, LettersAre, AppendOrder DEF OutOK, AnsQ
  <2>3. \A t \in TabWords : 0 \notin Named(toGw'[k], t)
    BY <1>1 DEF OutOK, With
  <2>4. /\ k \in Admins => Says(toGw'[k], PageWords)
        /\ k \in Tabs => Says(toGw'[k], TabWords)
    BY <1>1, LettersAre, AppendOrder DEF OutOK
  <2>. QED BY <2>1, <2>2, <2>3, <2>4 DEF OutOK
<1>3. ASSUME NEW j \in Conns, j # k PROVE OutOK(j)'
  BY <1>1, <1>3 DEF OutOK
<1>. QED BY <1>2, <1>3

\* The gateway takes a letter.
LEMMA Takes ==
  ASSUME Shape, NEW k \in Conns, Take(k), \A j \in Conns : OutOK(j), NEW h, h = Next1(k)
  PROVE  /\ h \in Letter
         /\ \A a \in Admins : /\ Asks(a) <=> Asks(a)' \/ (a = k /\ h.t = "initiate")
                              /\ Ends(a) = Ends(a)' \cup (IF a = k THEN With(h, "end") ELSE {})
         /\ \A c : /\ AnsQ(c) = AnsQ(c)' \cup By(k, h, "answer", c)
                   /\ Rejs(c) = Rejs(c)' \cup By(k, h, "reject", c)
                   /\ Left(c) = Left(c)' \cup By(k, h, "end", c)
         /\ \A j \in Conns : OutOK(j)'
         /\ k \in Admins /\ h.t = "initiate" => ~Asks(k)' /\ Ends(k)' = {}
         /\ k \in Tabs /\ h.t = "answer" => k \notin AnsQ(h.c)'
         /\ h.t \in TabWords => h.c # 0
         /\ k \in Admins => h.t \in PageWords
         /\ k \in Tabs => h.t \in TabWords
<1>0. toGw \in [Conns -> Seq(Letter)] /\ toGw' = [toGw EXCEPT ![k] = Tail(toGw[k])] /\ toGw[k] # <<>> /\ h = Head(toGw[k])
  BY DEF Shape, QueuesOK, Take, Next1
<1>1. /\ toGw[k] \in Seq(Letter) /\ toGw[k] # <<>> /\ h \in Letter /\ h = Head(toGw[k])
      /\ toGw'[k] = Tail(toGw[k]) /\ \A j \in Conns \ {k} : toGw'[j] = toGw[j]
      /\ \A t : Named(toGw[k], t) = Named(toGw'[k], t) \cup With(h, t)
  <2>1. /\ toGw[k] \in Seq(Letter) /\ toGw'[k] = Tail(toGw[k])
        /\ \A j \in Conns \ {k} : toGw'[j] = toGw[j]
    BY <1>0
  <2>2. Head(toGw[k]) \in Letter /\ \A t : Named(toGw[k], t) = Named(Tail(toGw[k]), t) \cup With(Head(toGw[k]), t)
    BY <1>0, <2>1, Removed
  <2>. QED BY <1>0, <2>1, <2>2
<1>2. \A j \in Conns : \A t : Named(toGw[j], t) = Named(toGw'[j], t) \cup (IF j = k THEN With(h, t) ELSE {})
  BY <1>1
<1>3. Admins \subseteq Conns /\ Tabs \subseteq Conns
  BY DEF Conns
<1>4. ASSUME NEW a \in Admins
      PROVE  /\ Asks(a) <=> Asks(a)' \/ (a = k /\ h.t = "initiate")
             /\ Ends(a) = Ends(a)' \cup (IF a = k THEN With(h, "end") ELSE {})
  <2>1. \A t : Named(toGw[a], t) = Named(toGw'[a], t) \cup (IF a = k THEN With(h, t) ELSE {})
    BY <1>2, <1>3
  <2>. QED BY <2>1 DEF Asks, Ends, With
<1>5. ASSUME NEW c
      PROVE  /\ AnsQ(c) = AnsQ(c)' \cup By(k, h, "answer", c)
             /\ Rejs(c) = Rejs(c)' \cup By(k, h, "reject", c)
             /\ Left(c) = Left(c)' \cup By(k, h, "end", c)
  <2>1. \A u \in Tabs : \A t : c \in Named(toGw[u], t) <=> c \in Named(toGw'[u], t) \/ (u = k /\ h.t = t /\ h.c = c)
    BY <1>2, <1>3 DEF With
  <2>. QED BY <2>1 DEF AnsQ, Rejs, Left, By
<1>6. /\ \A W : Says(toGw[k], W) => Says(toGw'[k], W) /\ h.t \in W
      /\ \A t, W : Silent(toGw[k], t, W) => Silent(toGw'[k], t, W) /\ (h.t = t => \A w \in W : Named(toGw'[k], w) = {})
      /\ \A t : Once(toGw[k], t) => Once(toGw'[k], t) /\ (h.t = t => h.c \notin Named(toGw'[k], t))
  BY <1>1, TailOrder
<1>7. OutOK(k)'
  BY <1>1, <1>6 DEF OutOK
<1>8. ASSUME NEW j \in Conns, j # k PROVE OutOK(j)'
  BY <1>1, <1>8 DEF OutOK
<1>9. k \in Admins /\ h.t = "initiate" => ~Asks(k)' /\ Ends(k)' = {}
  BY <1>6 DEF OutOK, Asks, Ends
<1>10. k \in Tabs /\ h.t = "answer" => k \notin AnsQ(h.c)'
  BY <1>6 DEF OutOK, AnsQ
<1>11. h.t \in TabWords => h.c # 0
  BY <1>1 DEF OutOK, With
<1>12. (k \in Admins => h.t \in PageWords) /\ (k \in Tabs => h.t \in TabWords)
  BY <1>6 DEF OutOK
<1>. QED BY <1>1, <1>4, <1>5, <1>7, <1>8, <1>9, <1>10, <1>11, <1>12

\* The gateway answers.
LEMMA Replies ==
  ASSUME Shape, NEW k \in Conns, NEW m \in Letters, resp' = [resp EXCEPT ![k] = Append(@, m)],
         \A j \in Conns : RespOK(j),
         k \in Admins => m.t \in {"ringing", "error"} /\ Ring(k) = {},
         k \in Tabs => m.t = "error"
  PROVE  /\ \A a \in Admins : /\ Ring(a)' = Ring(a) \cup (IF a = k THEN With(m, "ringing") ELSE {})
                              /\ Errs(a)' = Errs(a) \cup (IF a = k THEN With(m, "error") ELSE {})
         /\ \A c : Errd(c)' = Errd(c) \cup By(k, m, "error", c)
         /\ \A j \in Conns : RespOK(j)'
<1>0. resp \in [Conns -> Seq(Letter)] /\ resp' = [resp EXCEPT ![k] = Append(resp[k], m)]
  BY DEF Shape, QueuesOK
<1>1. /\ resp[k] \in Seq(Letter)
      /\ resp'[k] = Append(resp[k], m) /\ \A j \in Conns \ {k} : resp'[j] = resp[j]
      /\ \A t : Named(resp'[k], t) = Named(resp[k], t) \cup With(m, t)
  <2>1. /\ resp[k] \in Seq(Letter) /\ resp'[k] = Append(resp[k], m)
        /\ \A j \in Conns \ {k} : resp'[j] = resp[j]
    BY <1>0
  <2>. QED BY <2>1, Appended
<1>2. \A j \in Conns : \A t : Named(resp'[j], t) = Named(resp[j], t) \cup (IF j = k THEN With(m, t) ELSE {})
  BY <1>1
<1>3. Admins \subseteq Conns /\ Tabs \subseteq Conns
  BY DEF Conns
<1>4. ASSUME NEW a \in Admins
      PROVE  /\ Ring(a)' = Ring(a) \cup (IF a = k THEN With(m, "ringing") ELSE {})
             /\ Errs(a)' = Errs(a) \cup (IF a = k THEN With(m, "error") ELSE {})
  BY <1>2, <1>3 DEF Ring, Errs
<1>5. ASSUME NEW c PROVE Errd(c)' = Errd(c) \cup By(k, m, "error", c)
  <2>1. \A u \in Tabs : c \in Named(resp'[u], "error")
          <=> c \in Named(resp[u], "error") \/ (u = k /\ m.t = "error" /\ m.c = c)
    BY <1>2, <1>3 DEF With
  <2>. QED BY <2>1 DEF Errd, By
<1>6. RespOK(k)'
  <2>1. \A W : Says(resp[k], W) /\ m.t \in W => Says(resp'[k], W)
    BY <1>1, AppendOrder
  <2>2. k \in Admins => Silent(resp'[k], "ringing", {"ringing", "error"})
    BY <1>1, AppendOrder DEF RespOK, Ring
  <2>. QED BY <2>1, <2>2 DEF RespOK
<1>7. ASSUME NEW j \in Conns, j # k PROVE RespOK(j)'
  BY <1>1, <1>7 DEF RespOK
<1>. QED BY <1>4, <1>5, <1>6, <1>7

\* A client takes what it is answered.
LEMMA ReadsReply ==
  ASSUME Shape, NEW k \in Conns, resp[k] # <<>>, resp' = [resp EXCEPT ![k] = Tail(@)],
         \A j \in Conns : RespOK(j), NEW h, h = Head(resp[k])
  PROVE  /\ h \in Letter
         /\ \A a \in Admins : /\ Ring(a) = Ring(a)' \cup (IF a = k THEN With(h, "ringing") ELSE {})
                              /\ Errs(a) = Errs(a)' \cup (IF a = k THEN With(h, "error") ELSE {})
         /\ \A c : Errd(c) = Errd(c)' \cup By(k, h, "error", c)
         /\ \A j \in Conns : RespOK(j)'
         /\ k \in Admins => /\ h.t \in {"ringing", "error"}
                            /\ h.t = "ringing" => Ring(k)' = {} /\ Errs(k)' = {}
         /\ k \in Tabs => h.t = "error"
<1>0. resp \in [Conns -> Seq(Letter)] /\ resp' = [resp EXCEPT ![k] = Tail(resp[k])]
  BY DEF Shape, QueuesOK
<1>1. /\ resp[k] \in Seq(Letter) /\ resp[k] # <<>> /\ h \in Letter /\ h = Head(resp[k])
      /\ resp'[k] = Tail(resp[k]) /\ \A j \in Conns \ {k} : resp'[j] = resp[j]
      /\ \A t : Named(resp[k], t) = Named(resp'[k], t) \cup With(h, t)
  <2>1. /\ resp[k] \in Seq(Letter) /\ resp'[k] = Tail(resp[k])
        /\ \A j \in Conns \ {k} : resp'[j] = resp[j]
    BY <1>0
  <2>2. Head(resp[k]) \in Letter /\ \A t : Named(resp[k], t) = Named(Tail(resp[k]), t) \cup With(Head(resp[k]), t)
    BY <1>0, <2>1, Removed
  <2>. QED BY <1>0, <2>1, <2>2
<1>2. \A j \in Conns : \A t : Named(resp[j], t) = Named(resp'[j], t) \cup (IF j = k THEN With(h, t) ELSE {})
  BY <1>1
<1>3. Admins \subseteq Conns /\ Tabs \subseteq Conns
  BY DEF Conns
<1>4. ASSUME NEW a \in Admins
      PROVE  /\ Ring(a) = Ring(a)' \cup (IF a = k THEN With(h, "ringing") ELSE {})
             /\ Errs(a) = Errs(a)' \cup (IF a = k THEN With(h, "error") ELSE {})
  BY <1>2, <1>3 DEF Ring, Errs
<1>5. ASSUME NEW c PROVE Errd(c) = Errd(c)' \cup By(k, h, "error", c)
  <2>1. \A u \in Tabs : c \in Named(resp[u], "error")
          <=> c \in Named(resp'[u], "error") \/ (u = k /\ h.t = "error" /\ h.c = c)
    BY SMTT(60), <1>2, <1>3 DEF With
  <2>. QED BY <2>1 DEF Errd, By
<1>6. /\ \A W : Says(resp[k], W) => Says(resp'[k], W) /\ h.t \in W
      /\ \A t, W : Silent(resp[k], t, W) => Silent(resp'[k], t, W) /\ (h.t = t => \A w \in W : Named(resp'[k], w) = {})
  BY <1>1, TailOrder
<1>7. RespOK(k)'
  BY <1>1, <1>6 DEF RespOK
<1>8. ASSUME NEW j \in Conns, j # k PROVE RespOK(j)'
  BY <1>1, <1>8 DEF RespOK
<1>9. /\ k \in Admins => h.t \in {"ringing", "error"} /\ (h.t = "ringing" => Ring(k)' = {} /\ Errs(k)' = {})
      /\ k \in Tabs => h.t = "error"
  BY <1>6 DEF RespOK, Ring, Errs
<1>. QED BY <1>1, <1>4, <1>5, <1>7, <1>8, <1>9

\* The gateway tells connections of a call.
LEMMA Tellings ==
  ASSUME Shape, NEW ks, NEW m \in Letters, Broadcast(ks, m), \A j \in Conns : up[j] /\ CastOK(j),
         \A a \in Admins : a \in ks => /\ m.t \in {"accepted", "rejected", "ended", "answerSdp"}
                                       /\ m.t \in Tells => /\ \A c \in Accs(a) : c <= m.c
                                                           /\ \A c \in Fins(a) : c < m.c,
         \A u \in Tabs : u \in ks => m.t \in {"incoming", "ended", "offer"} /\ (m.t = "incoming" => u \notin Pend(m.c))
  PROVE  /\ \A a \in Admins : /\ Accs(a)' = Accs(a) \cup (IF a \in ks THEN With(m, "accepted") ELSE {})
                              /\ Fins(a)' = Fins(a) \cup (IF a \in ks THEN With(m, "rejected") \cup With(m, "ended") ELSE {})
         /\ \A c : /\ Pend(c)' = Pend(c) \cup {u \in Tabs : u \in ks /\ m = Msg("incoming", c)}
                   /\ Done(c)' = Done(c) \cup {u \in Tabs : u \in ks /\ m = Msg("ended", c)}
         /\ \A j \in Conns : CastOK(j)'
<1>1. \A j \in Conns : bcast[j] \in Seq(Letter) /\ bcast'[j] = IF j \in ks THEN Append(bcast[j], m) ELSE bcast[j]
  BY DEF Shape, QueuesOK, Broadcast
<1>2. \A j \in Conns : \A t : Named(bcast'[j], t) = Named(bcast[j], t) \cup (IF j \in ks THEN With(m, t) ELSE {})
  <2>. TAKE j \in Conns
  <2>. TAKE t
  <2>1. Named(Append(bcast[j], m), t) = Named(bcast[j], t) \cup With(m, t)
    BY <1>1, Appended
  <2>. QED BY <1>1, <2>1
<1>3. Admins \subseteq Conns /\ Tabs \subseteq Conns
  BY DEF Conns
<1>4. ASSUME NEW a \in Admins
      PROVE  /\ Accs(a)' = Accs(a) \cup (IF a \in ks THEN With(m, "accepted") ELSE {})
             /\ Fins(a)' = Fins(a) \cup (IF a \in ks THEN With(m, "rejected") \cup With(m, "ended") ELSE {})
  BY <1>2, <1>3 DEF Accs, Fins
<1>5. ASSUME NEW c
      PROVE  /\ Pend(c)' = Pend(c) \cup {u \in Tabs : u \in ks /\ m = Msg("incoming", c)}
             /\ Done(c)' = Done(c) \cup {u \in Tabs : u \in ks /\ m = Msg("ended", c)}
  <2>1. \A t : m = Msg(t, c) <=> m.t = t /\ m.c = c
    BY DEF Letters, Msg
  <2>2. \A u \in Tabs : \A t : c \in Named(bcast'[u], t) <=> c \in Named(bcast[u], t) \/ (u \in ks /\ m.t = t /\ m.c = c)
    BY <1>2, <1>3 DEF With
  <2>. QED BY <2>1, <2>2 DEF Pend, Done
<1>6. ASSUME NEW j \in Conns PROVE CastOK(j)'
  <2>1. CASE j \notin ks
    BY <1>1, <2>1 DEF CastOK
  <2>2. CASE j \in ks
    <3>1. bcast[j] \in Seq(Letter) /\ bcast'[j] = Append(bcast[j], m)
      BY <1>1, <2>2
    <3>2. \A W : Says(bcast[j], W) /\ m.t \in W => Says(bcast'[j], W)
      BY <3>1, AppendOrder
    <3>3. j \in Admins => InTurn(bcast'[j])
      BY <2>2, <3>1, AppendOrder DEF CastOK, Accs, Fins
    <3>4. j \in Tabs => Once(bcast'[j], "incoming")
      BY <2>2, <3>1, AppendOrder DEF CastOK, Pend
    <3>. QED BY <2>2, <3>2, <3>3, <3>4 DEF CastOK
  <2>. QED BY <2>1, <2>2
<1>. QED BY <1>4, <1>5, <1>6

\* A client takes what it is told.
LEMMA ReadsNews ==
  ASSUME Shape, NEW k \in Conns, bcast[k] # <<>>, bcast' = [bcast EXCEPT ![k] = Tail(@)],
         \A j \in Conns : CastOK(j), NEW h, h = Head(bcast[k])
  PROVE  /\ h \in Letter
         /\ \A a \in Admins : /\ Accs(a) = Accs(a)' \cup (IF a = k THEN With(h, "accepted") ELSE {})
                              /\ Fins(a) = Fins(a)' \cup (IF a = k THEN With(h, "rejected") \cup With(h, "ended") ELSE {})
         /\ \A c : /\ Pend(c) = Pend(c)' \cup By(k, h, "incoming", c)
                   /\ Done(c) = Done(c)' \cup By(k, h, "ended", c)
         /\ \A j \in Conns : CastOK(j)'
         /\ k \in Admins => /\ h.t \in {"accepted", "rejected", "ended", "answerSdp"}
                            /\ h.t \in {"rejected", "ended"} => \A c \in Accs(k)' \cup Fins(k)' : h.c <= c /\ h.c # c
         /\ k \in Tabs => /\ h.t \in {"incoming", "ended", "offer"}
                          /\ h.t = "incoming" => k \notin Pend(h.c)'
<1>0. bcast \in [Conns -> Seq(Letter)] /\ bcast' = [bcast EXCEPT ![k] = Tail(bcast[k])]
  BY DEF Shape, QueuesOK
<1>1. /\ bcast[k] \in Seq(Letter) /\ bcast[k] # <<>> /\ h \in Letter /\ h = Head(bcast[k])
      /\ bcast'[k] = Tail(bcast[k]) /\ \A j \in Conns \ {k} : bcast'[j] = bcast[j]
      /\ \A t : Named(bcast[k], t) = Named(bcast'[k], t) \cup With(h, t)
  <2>1. /\ bcast[k] \in Seq(Letter) /\ bcast'[k] = Tail(bcast[k])
        /\ \A j \in Conns \ {k} : bcast'[j] = bcast[j]
    BY <1>0
  <2>2. Head(bcast[k]) \in Letter /\ \A t : Named(bcast[k], t) = Named(Tail(bcast[k]), t) \cup With(Head(bcast[k]), t)
    BY <1>0, <2>1, Removed
  <2>. QED BY <1>0, <2>1, <2>2
<1>2. \A j \in Conns : \A t : Named(bcast[j], t) = Named(bcast'[j], t) \cup (IF j = k THEN With(h, t) ELSE {})
  BY <1>1
<1>3. Admins \subseteq Conns /\ Tabs \subseteq Conns
  BY DEF Conns
<1>4. ASSUME NEW a \in Admins
      PROVE  /\ Accs(a) = Accs(a)' \cup (IF a = k THEN With(h, "accepted") ELSE {})
             /\ Fins(a) = Fins(a)' \cup (IF a = k THEN With(h, "rejected") \cup With(h, "ended") ELSE {})
  BY <1>2, <1>3 DEF Accs, Fins
<1>5. ASSUME NEW c
      PROVE  /\ Pend(c) = Pend(c)' \cup By(k, h, "incoming", c)
             /\ Done(c) = Done(c)' \cup By(k, h, "ended", c)
  <2>1. \A u \in Tabs : \A t : c \in Named(bcast[u], t) <=> c \in Named(bcast'[u], t) \/ (u = k /\ h.t = t /\ h.c = c)
    BY SMTT(60), <1>2, <1>3 DEF With
  <2>. QED BY <2>1 DEF Pend, Done, By
<1>6. /\ \A W : Says(bcast[k], W) => Says(bcast'[k], W) /\ h.t \in W
      /\ \A t : Once(bcast[k], t) => Once(bcast'[k], t) /\ (h.t = t => h.c \notin Named(bcast'[k], t))
      /\ InTurn(bcast[k]) => InTurn(bcast'[k]) /\ (h.t \in Tells => \A w \in Tells : \A c \in Named(bcast'[k], w) :
                            h.c <= c /\ (h.t # "accepted" => h.c # c))
  BY <1>1, TailOrder
<1>7. CastOK(k)'
  BY <1>1, <1>6 DEF CastOK
<1>8. ASSUME NEW j \in Conns, j # k PROVE CastOK(j)'
  BY <1>1, <1>8 DEF CastOK
<1>9. k \in Admins => /\ h.t \in {"accepted", "rejected", "ended", "answerSdp"}
                      /\ h.t \in {"rejected", "ended"} => \A c \in Accs(k)' \cup Fins(k)' : h.c <= c /\ h.c # c
  BY <1>6 DEF CastOK, Accs, Fins, Tells
<1>10. k \in Tabs => h.t \in {"incoming", "ended", "offer"} /\ (h.t = "incoming" => k \notin Pend(h.c)')
  BY <1>6 DEF CastOK, Pend
<1>. QED BY <1>1, <1>4, <1>5, <1>7, <1>8, <1>9, <1>10

-------------------------------------------------------------------------------
(* The rules, as long as nothing disturbs the calls.                       *)

QueueRules == \A k \in Conns : /\ up[k] /\ OutOK(k) /\ RespOK(k) /\ CastOK(k)
                               /\ hand[k].op = "answer" => hand[k].c # 0
Entries == 1..Len(caller)
Rules   == QueueRules /\ (\A a \in Admins : PageRule(a)) /\ (\A c \in Entries : TabsRule(c))

\* What a step that leaves a variable alone does not change.
LEMMA Frames ==
  /\ UNCHANGED toGw => /\ \A k : OutOK(k) => OutOK(k)'
                       /\ \A a : UNCHANGED Sent(a)
                       /\ \A c : UNCHANGED Actions(c)
  /\ UNCHANGED resp => /\ \A k : RespOK(k) => RespOK(k)'
                       /\ \A a : UNCHANGED Due(a)
                       /\ \A c : UNCHANGED Errd(c)
  /\ UNCHANGED bcast => /\ \A k : CastOK(k) => CastOK(k)'
                        /\ \A a : UNCHANGED News(a)
                        /\ \A c : UNCHANGED <<Pend(c), Done(c)>>
  /\ UNCHANGED admin => \A a : UNCHANGED Face(a)
  /\ UNCHANGED tab => \A c : UNCHANGED Faces(c)
  /\ UNCHANGED <<hand, registry>> => \A c : UNCHANGED Taking(c)
  /\ UNCHANGED <<caller, registry>> => (\A a : UNCHANGED Own(a)) /\ UNCHANGED Entries
<1>1. UNCHANGED toGw => /\ \A k : OutOK(k) => OutOK(k)'
                        /\ \A a : UNCHANGED Sent(a)
                        /\ \A c : UNCHANGED Actions(c)
  BY DEF OutOK, Sent, Asks, Ends, Actions, AnsQ, Rejs, Left
<1>2. UNCHANGED resp => /\ \A k : RespOK(k) => RespOK(k)'
                        /\ \A a : UNCHANGED Due(a)
                        /\ \A c : UNCHANGED Errd(c)
  BY DEF RespOK, Due, Ring, Errs, Errd
<1>3. UNCHANGED bcast => /\ \A k : CastOK(k) => CastOK(k)'
                         /\ \A a : UNCHANGED News(a)
                         /\ \A c : UNCHANGED <<Pend(c), Done(c)>>
  BY DEF CastOK, News, Accs, Fins, Pend, Done
<1>4. UNCHANGED admin => \A a : UNCHANGED Face(a)
  BY DEF Face, St, Cur
<1>5. UNCHANGED tab => \A c : UNCHANGED Faces(c)
  BY DEF Faces, Shown, Act
<1>6. UNCHANGED <<hand, registry>> => \A c : UNCHANGED Taking(c)
  BY DEF Taking, AnsH, Reg
<1>7. UNCHANGED <<caller, registry>> => (\A a : UNCHANGED Own(a)) /\ UNCHANGED Entries
  BY DEF Own, Mine, Live, Taken, Entries
<1>. QED BY <1>1, <1>2, <1>3, <1>4, <1>5, <1>6, <1>7

LEMMA ToldStays == ASSUME NEW c, UNCHANGED <<Errd(c), Done(c)>> PROVE UNCHANGED Told(c)
BY DEF Told

LEMMA Sides == /\ \A a \in Admins : a \in Conns /\ a \notin Tabs
               /\ \A u \in Tabs : u \in Conns /\ u \notin Admins
BY CallsAssumption DEF Conns

LEMMA ShowIs ==
  ASSUME Shape, NEW a \in Admins, NEW st, NEW cur, NEW clean, Show(a, st, cur, clean)
  PROVE  St(a)' = st /\ Cur(a)' = cur /\ \A b \in Admins \ {a} : UNCHANGED Face(b)
<1>. DEFINE r     == admin[a]
            moved == st # r.status \/ cur # r.current
            ask   == IF moved /\ st = "connected" /\ cur # 0 THEN cur
                     ELSE IF moved \/ clean THEN 0 ELSE r.ask
            mic   == IF moved \/ clean THEN 0 ELSE r.mic
<1>1. r = Page(r) /\ admin = [b \in Admins |-> Page(admin[b])]
  BY DEF Shape, PageInv, Page
<1>2. \A b \in Admins \ {a} : admin'[b] = admin[b]
  BY SMTT(60), <1>1 DEF Show
<1>3. admin'[a] = [status |-> st, current |-> cur, ask |-> ask, mic |-> mic,
                   audio |-> r.audio /\ ~(moved \/ clean)]
  BY <1>1 DEF Show, Page
<1>. QED BY <1>2, <1>3 DEF St, Cur, Face

\* A step of a page that sends a word or nothing.
LEMMA PageActs ==
  ASSUME Shape, Rules, NEW a \in Admins, UNCHANGED <<caller, registry, hand, resp, bcast, up, tab>>,
         \A b \in Admins \ {a} : UNCHANGED Face(b), \A k \in Conns : OutOK(k)',
         \A c : UNCHANGED Actions(c), \A b \in Admins \ {a} : UNCHANGED Sent(b), PageRule(a)'
  PROVE  Rules'
<1>1. QueueRules'
  BY Frames DEF Rules, QueueRules
<1>2. ASSUME NEW b \in Admins PROVE PageRule(b)'
  <2>1. b # a => UNCHANGED <<Face(b), Sent(b), Due(b), News(b), Own(b)>>
    BY Frames
  <2>. QED BY <2>1, PageStays DEF Rules
<1>3. ASSUME NEW c \in Entries PROVE TabsRule(c)'
  <2>1. UNCHANGED <<Faces(c), Actions(c), Taking(c), Notices(c)>>
    BY Frames, ToldStays DEF Notices
  <2>. QED BY <2>1, TabsStay DEF Rules
<1>4. Entries' = Entries
  BY Frames
<1>. QED BY <1>1, <1>2, <1>3, <1>4 DEF Rules

\* A page sends.
LEMMA PageSends ==
  ASSUME Shape, Rules, NEW a \in Admins, NEW m \in Letter, Send(a, m)
  PROVE  /\ \A c : UNCHANGED Actions(c)
         /\ \A b \in Admins \ {a} : UNCHANGED Sent(b)
         /\ Asks(a)' <=> Asks(a) \/ m.t = "initiate"
         /\ Ends(a)' = Ends(a) \cup With(m, "end")
<1>1. a \in Conns /\ a \notin Tabs
  BY Sides
<1>2. /\ \A b \in Admins : /\ Asks(b)' <=> Asks(b) \/ (b = a /\ m.t = "initiate")
                           /\ Ends(b)' = Ends(b) \cup (IF b = a THEN With(m, "end") ELSE {})
      /\ \A c : /\ AnsQ(c)' = AnsQ(c) \cup By(a, m, "answer", c)
                /\ Rejs(c)' = Rejs(c) \cup By(a, m, "reject", c)
                /\ Left(c)' = Left(c) \cup By(a, m, "end", c)
  BY <1>1, Sends
<1>3. ASSUME NEW c PROVE UNCHANGED Actions(c)
  BY <1>1, <1>2 DEF Actions, By
<1>4. ASSUME NEW b \in Admins \ {a} PROVE UNCHANGED Sent(b)
  <2>1. (Asks(b)' <=> Asks(b)) /\ Ends(b)' = Ends(b)
    BY <1>2
  <2>. QED BY <2>1, Zenon DEF Sent, Asks
<1>. QED BY <1>2, <1>3, <1>4

LEMMA CallRules == ASSUME Shape, Rules, NEW a \in Admins, Call(a) PROVE Rules'
<1>. DEFINE m == Msg("initiate", 0)
<1>1. m \in Letter /\ m.t = "initiate"
  BY ZeroId, LetterIs DEF Words
<1>2. /\ Show(a, "ringing", Cur(a), FALSE) /\ Send(a, m) /\ St(a) = "idle"
      /\ UNCHANGED <<caller, registry, hand, resp, bcast, up, tab>>
  BY DEF Call, St, Cur
<1>. HIDE DEF m
<1>3. /\ St(a)' = "ringing" /\ Cur(a)' = Cur(a) /\ \A b \in Admins \ {a} : UNCHANGED Face(b)
  BY <1>2, ShowIs
<1>4. /\ \A c : UNCHANGED Actions(c)
      /\ \A b \in Admins \ {a} : UNCHANGED Sent(b)
      /\ Asks(a)'
      /\ Ends(a)' = Ends(a)
  BY <1>1, <1>2, PageSends DEF With
<1>5. \A k \in Conns : OutOK(k)'
  <2>1. ~Asks(a)
    BY <1>2 DEF Rules, PageRule, PageWaits
  <2>. QED BY <1>1, <1>2, <2>1, Sides, SendsInOrder DEF Rules, QueueRules, PageWords, TabWords
<1>6. PageRule(a)'
  <2>1. UNCHANGED <<Due(a), News(a), Own(a)>>
    BY <1>2, Frames
  <2>. QED BY <1>2, <1>3, <1>4, <2>1, PageCalls DEF Rules
<1>. QED BY <1>2, <1>3, <1>4, <1>5, <1>6, PageActs

LEMMA AskedIs == ASSUME NEW q \in Seq(Letter), Asked(q) = 0 PROVE Named(q, "initiate") = {}
<1>. DEFINE S == {i \in 1..Len(q) : q[i].t = "initiate"}
<1>1. IsFiniteSet(S) /\ Cardinality(S) = 0
  BY AskedType DEF Asked
<1>2. S = {}
  BY <1>1, FS_EmptySet
<1>. QED BY <1>2 DEF Named

LEMMA HangUpRules == ASSUME Shape, Rules, NEW a \in Admins, HangUp(a), odd' = {} PROVE Rules'
<1>. DEFINE m == Msg("end", Cur(a))
<1>0. Cur(a) \in Ids /\ Cur(a) # 0
  BY DEF Shape, ClientsOK, PageIds, Cur, HangUp
<1>1. m \in Letter /\ m.t = "end" /\ m.c = Cur(a)
  BY <1>0, LetterIs DEF Words, Msg
<1>2. /\ Show(a, "idle", 0, TRUE) /\ Send(a, m) /\ Busy(a)
      /\ UNCHANGED <<caller, registry, hand, resp, bcast, up, tab>>
  BY DEF HangUp, St, Cur, Busy
<1>3. ~Behind(a)
  BY DEF HangUp, Mark
<1>4. ~Asks(a) /\ \A c \in Mine(a) : c <= Cur(a)
  <2>1. Asked(toGw[a]) = 0 /\ \A c \in Entries : caller[c] = a => ~(c > Cur(a))
    BY <1>3 DEF Behind, Entries, Cur
  <2>2. toGw[a] \in Seq(Letter)
    BY Sides DEF Shape, QueuesOK
  <2>3. ~Asks(a)
    BY <2>1, <2>2, AskedIs DEF Asks
  <2>4. Len(caller) \in Nat /\ Cur(a) \in Nat
    BY <1>0 DEF Shape, GatewayOK, Ids
  <2>. QED BY <2>1, <2>3, <2>4 DEF Mine, Entries
<1>. HIDE DEF m
<1>5. /\ St(a)' = "idle" /\ Cur(a)' = 0 /\ \A b \in Admins \ {a} : UNCHANGED Face(b)
  BY <1>2, ShowIs
<1>6. /\ \A c : UNCHANGED Actions(c)
      /\ \A b \in Admins \ {a} : UNCHANGED Sent(b)
      /\ Asks(a)' <=> Asks(a)
      /\ Ends(a)' = Ends(a) \cup {Cur(a)}
  BY <1>1, <1>2, PageSends DEF With
<1>7. \A k \in Conns : OutOK(k)'
  BY <1>0, <1>1, <1>2, <1>4, Sides, SendsInOrder DEF Rules, QueueRules, PageWords, TabWords
<1>8. PageRule(a)'
  <2>1. UNCHANGED <<Due(a), News(a), Own(a)>>
    BY <1>2, Frames
  <2>2. Asks(a)' = Asks(a)
    BY <1>6, Zenon DEF Asks
  <2>. QED BY <1>0, <1>2, <1>4, <1>5, <1>6, <2>1, <2>2, PageHangsUp DEF Rules
<1>. QED BY <1>2, <1>5, <1>6, <1>7, <1>8, PageActs

LEMMA AcknowledgeRules == ASSUME Shape, Rules, NEW a \in Admins, Acknowledge(a) PROVE Rules'
<1>1. /\ Show(a, "idle", Cur(a), FALSE) /\ St(a) \in {"declined", "error"}
      /\ UNCHANGED <<caller, registry, hand, toGw, resp, bcast, up, tab>>
  BY DEF Acknowledge, St, Cur
<1>2. /\ St(a)' = "idle" /\ Cur(a)' = Cur(a) /\ \A b \in Admins \ {a} : UNCHANGED Face(b)
  BY <1>1, ShowIs
<1>3. PageRule(a)'
  <2>1. UNCHANGED <<Sent(a), Due(a), News(a), Own(a)>>
    BY <1>1, Frames
  <2>. QED BY <1>1, <1>2, <2>1, PageAcknowledges DEF Rules
<1>4. /\ \A k \in Conns : OutOK(k)'
      /\ \A c : UNCHANGED Actions(c)
      /\ \A b \in Admins \ {a} : UNCHANGED Sent(b)
  BY <1>1, Frames DEF Rules, QueueRules
<1>. QED BY <1>1, <1>2, <1>3, <1>4, PageActs

LEMMA AdminMicRules ==
  ASSUME Shape, Rules, NEW a \in Admins, AdminMicGranted(a) \/ AdminMicFails(a)
  PROVE  Rules'
<1>1. UNCHANGED <<caller, registry, hand, resp, bcast, up, tab>>
  BY DEF AdminMicGranted, AdminMicFails
<1>2. \A b \in Admins : UNCHANGED Face(b)
  <2>1. \A b \in Admins : admin[b] = Page(admin[b])
    BY DEF Shape, PageInv
  <2>2. admin = [b \in Admins |-> Page(admin[b])]
    BY DEF Shape, PageInv
  <2>3. /\ \A b \in Admins \ {a} : admin'[b] = admin[b]
        /\ admin'[a].status = admin[a].status /\ admin'[a].current = admin[a].current
    BY <2>1, <2>2 DEF AdminMicGranted, AdminMicFails, Page
  <2>. QED BY <2>3 DEF Face, St, Cur
<1>3. /\ \A k \in Conns : OutOK(k)'
      /\ \A c : UNCHANGED Actions(c)
      /\ \A b \in Admins : UNCHANGED Sent(b)
  <2>1. CASE AdminMicFails(a)
    <3>1. UNCHANGED toGw
      BY <2>1 DEF AdminMicFails
    <3>. QED BY <3>1, Frames DEF Rules, QueueRules
  <2>2. CASE AdminMicGranted(a)
    <3>. DEFINE m == Msg("offer", admin[a].ask)
    <3>1. m \in Letter /\ m.t = "offer"
      BY LetterIs DEF Words, Shape, ClientsOK, PageIds
    <3>2. Send(a, m)
      BY <2>2 DEF AdminMicGranted
    <3>. HIDE DEF m
    <3>3. \A k \in Conns : OutOK(k)'
      BY <3>1, <3>2, Sides, SendsInOrder DEF Rules, QueueRules, PageWords, TabWords
    <3>4. /\ \A c : UNCHANGED Actions(c)
          /\ \A b \in Admins \ {a} : UNCHANGED Sent(b)
          /\ Asks(a)' <=> Asks(a)
          /\ Ends(a)' = Ends(a)
      BY <3>1, <3>2, PageSends DEF With
    <3>5. UNCHANGED Sent(a)
      BY <3>4, Zenon DEF Sent, Asks
    <3>. QED BY <3>3, <3>4, <3>5
  <2>. QED BY <2>1, <2>2
<1>4. PageRule(a)'
  <2>1. UNCHANGED <<Face(a), Sent(a), Due(a), News(a), Own(a)>>
    BY <1>1, <1>2, <1>3, Frames
  <2>. QED BY <2>1, PageStays DEF Rules
<1>. QED BY <1>1, <1>2, <1>3, <1>4, PageActs

\* What a tab shows after a step of its own.
LEMMA TabFaces ==
  ASSUME NEW u \in Tabs, \A v \in Tabs \ {u} : tab'[v] = tab[v], NEW d
  PROVE  /\ Shown(d)' = (Shown(d) \ {u}) \cup (IF tab'[u].incoming = d THEN {u} ELSE {})
         /\ Act(d)' = (Act(d) \ {u}) \cup (IF tab'[u].active = d THEN {u} ELSE {})
         /\ u \in Shown(d) <=> tab[u].incoming = d
         /\ u \in Act(d) <=> tab[u].active = d
BY DEF Shown, Act

LEMMA EntriesAre ==
  ASSUME Shape
  PROVE  0 \notin Entries /\ Ids = {0} \cup Entries /\ Entries \subseteq Nat /\ Entries \subseteq Calls
         /\ Len(caller) \in Nat /\ Len(caller) + 1 \notin Ids
<1>1. Len(caller) \in Nat /\ Len(caller) <= MaxCalls
  BY WaitingNat, CallsAssumption DEF Shape, Room, GatewayOK
<1>. QED BY <1>1, CallsAssumption DEF Entries, Ids, Calls

\* A step of a tab that sends a word or nothing.
LEMMA TabActs ==
  ASSUME Shape, Rules, UNCHANGED <<caller, registry, hand, resp, bcast, up, admin>>,
         \A k \in Conns : OutOK(k)', \A b \in Admins : UNCHANGED Sent(b), \A c \in Entries : TabsRule(c)'
  PROVE  Rules'
<1>1. QueueRules'
  BY Frames DEF Rules, QueueRules
<1>2. ASSUME NEW b \in Admins PROVE PageRule(b)'
  <2>1. UNCHANGED <<Face(b), Sent(b), Due(b), News(b), Own(b)>>
    BY Frames
  <2>. QED BY <2>1, PageStays DEF Rules
<1>3. Entries' = Entries
  BY Frames
<1>. QED BY <1>1, <1>2, <1>3 DEF Rules

LEMMA TabSends ==
  ASSUME Shape, Rules, NEW u \in Tabs, NEW m \in Letter, Send(u, m)
  PROVE  /\ \A b \in Admins : UNCHANGED Sent(b)
         /\ \A c : /\ AnsQ(c)' = AnsQ(c) \cup (IF m.t = "answer" /\ m.c = c THEN {u} ELSE {})
                   /\ Rejs(c)' = Rejs(c) \cup (IF m.t = "reject" /\ m.c = c THEN {u} ELSE {})
                   /\ Left(c)' = Left(c) \cup (IF m.t = "end" /\ m.c = c THEN {u} ELSE {})
<1>1. u \in Conns /\ u \notin Admins
  BY Sides
<1>2. /\ \A b \in Admins : /\ Asks(b)' <=> Asks(b) \/ (b = u /\ m.t = "initiate")
                           /\ Ends(b)' = Ends(b) \cup (IF b = u THEN With(m, "end") ELSE {})
      /\ \A c : /\ AnsQ(c)' = AnsQ(c) \cup By(u, m, "answer", c)
                /\ Rejs(c)' = Rejs(c) \cup By(u, m, "reject", c)
                /\ Left(c)' = Left(c) \cup By(u, m, "end", c)
  BY <1>1, Sends
<1>3. ASSUME NEW b \in Admins PROVE UNCHANGED Sent(b)
  <2>1. (Asks(b)' <=> Asks(b)) /\ Ends(b)' = Ends(b)
    BY <1>1, <1>2
  <2>. QED BY <2>1, Zenon DEF Sent, Asks
<1>. QED BY <1>2, <1>3 DEF By

\* A message that is about no call's status.
LEMMA TabSignals ==
  ASSUME Shape, Rules, NEW u \in Tabs, NEW c \in Ids \ {0}, Send(u, Msg("answerSdp", c))
  PROVE  /\ \A b \in Admins : UNCHANGED Sent(b)
         /\ \A d : UNCHANGED Actions(d)
         /\ \A k \in Conns : OutOK(k)'
<1>. DEFINE m == Msg("answerSdp", c)
<1>1. m \in Letter /\ m.t = "answerSdp" /\ m.c # 0
  BY LetterIs DEF Words, Msg
<1>2. Send(u, m)
  OBVIOUS
<1>. HIDE DEF m
<1>3. \A k \in Conns : OutOK(k)'
  BY <1>1, <1>2, Sides, SendsInOrder DEF Rules, QueueRules, PageWords, TabWords
<1>4. \A b \in Admins : UNCHANGED Sent(b)
  BY <1>1, <1>2, TabSends
<1>5. ASSUME NEW d PROVE UNCHANGED Actions(d)
  <2>1. AnsQ(d)' = AnsQ(d) /\ Rejs(d)' = Rejs(d) /\ Left(d)' = Left(d)
    <3>1. /\ AnsQ(d)' = AnsQ(d) \cup (IF m.t = "answer" /\ m.c = d THEN {u} ELSE {})
          /\ Rejs(d)' = Rejs(d) \cup (IF m.t = "reject" /\ m.c = d THEN {u} ELSE {})
          /\ Left(d)' = Left(d) \cup (IF m.t = "end" /\ m.c = d THEN {u} ELSE {})
      BY <1>1, <1>2, TabSends
    <3>. QED BY <1>1, <3>1
  <2>. QED BY <2>1 DEF Actions
<1>. QED BY <1>3, <1>4, <1>5

\* The fields of a tab that the rules are about.
LEMMA CleanFields ==
  ASSUME NEW s, s = Tab(s)
  PROVE  /\ Clean(s).active = s.active /\ Clean(s).incoming = s.incoming /\ Clean(s) = Tab(Clean(s))
         /\ \A c : LET t == Activate(s, c) IN t.active = c /\ t.incoming = s.incoming /\ t = Tab(t)
<1>1. ASSUME NEW r, r = Tab(r)
      PROVE  Clean(r).active = r.active /\ Clean(r).incoming = r.incoming /\ Clean(r) = Tab(Clean(r))
  <2>. DEFINE rest == r.live \ {r.local}
  <2>1. Clean(r) = [r EXCEPT !.live = rest, !.local = 0, !.pc = 0]
    BY DEF Clean
  <2>. HIDE DEF rest
  <2>2. Clean(r) = [incoming |-> r.incoming, active |-> r.active, asks |-> r.asks, local |-> 0,
                    live |-> rest, pc |-> 0, offer |-> r.offer]
    BY <1>1, <2>1 DEF Tab
  <2>. QED BY <2>2 DEF Tab
<1>2. ASSUME NEW c PROVE LET t == Activate(s, c) IN t.active = c /\ t.incoming = s.incoming /\ t = Tab(t)
  <2>. DEFINE left == IF s.active # 0 THEN Clean(s) ELSE s
  <2>1. left.incoming = s.incoming /\ left = Tab(left)
    BY <1>1
  <2>2. Activate(s, c) = IF c = s.active THEN s
                         ELSE IF c = 0 THEN [left EXCEPT !.active = 0]
                         ELSE [left EXCEPT !.active = c, !.pc = c, !.asks = @ \cup {c}]
    BY DEF Activate
  <2>. HIDE DEF left
  <2>3. CASE c = s.active
    BY <2>2, <2>3
  <2>4. CASE c # s.active /\ c = 0
    <3>1. Activate(s, c) = [incoming |-> left.incoming, active |-> 0, asks |-> left.asks, local |-> left.local,
                            live |-> left.live, pc |-> left.pc, offer |-> left.offer]
      BY <2>1, <2>2, <2>4 DEF Tab
    <3>. QED BY <2>1, <2>4, <3>1 DEF Tab
  <2>5. CASE c # s.active /\ c # 0
    <3>1. Activate(s, c) = [incoming |-> left.incoming, active |-> c, asks |-> left.asks \cup {c}, local |-> left.local,
                            live |-> left.live, pc |-> c, offer |-> left.offer]
      BY <2>1, <2>2, <2>5 DEF Tab
    <3>. QED BY <2>1, <3>1 DEF Tab
  <2>. QED BY <2>3, <2>4, <2>5
<1>. QED BY <1>1, <1>2

LEMMA TabIs ==
  ASSUME Shape, NEW u \in Tabs
  PROVE  tab[u] = Tab(tab[u]) /\ \A new : tab' = [tab EXCEPT ![u] = new] =>
                                      tab'[u] = new /\ \A v \in Tabs \ {u} : tab'[v] = tab[v]
BY DEF Shape, TabInv

LEMMA AcceptRules == ASSUME Shape, Rules, NEW u \in Tabs, Accept(u), odd' = {} PROVE Rules'
<1>. DEFINE c == tab[u].incoming
            m == Msg("answer", c)
            new == [Activate(tab[u], c) EXCEPT !.incoming = 0]
<1>1. c # 0 /\ tab' = [tab EXCEPT ![u] = new] /\ Send(u, m)
      /\ UNCHANGED <<caller, registry, hand, resp, bcast, up, admin>>
  BY DEF Accept
<1>2. tab[u].active = 0 /\ \A v \in Tabs \ {u} : tab[v].incoming = c
  BY DEF Accept, Rivals
<1>3. c \in Ids
  BY DEF Shape, ClientsOK, TabIds
<1>4. c \in Entries
  BY <1>1, <1>3, EntriesAre
<1>5. m \in Letter /\ m.t = "answer" /\ m.c = c
  BY <1>3, LetterIs DEF Words, Msg
<1>6. tab'[u].incoming = 0 /\ tab'[u].active = c /\ \A v \in Tabs \ {u} : tab'[v] = tab[v]
  <2>1. /\ Activate(tab[u], c).active = c /\ Activate(tab[u], c) = Tab(Activate(tab[u], c))
    BY TabIs, CleanFields
  <2>2. new.incoming = 0 /\ new.active = c
    BY <2>1 DEF Tab
  <2>. HIDE DEF new
  <2>. QED BY <1>1, <2>2, TabIs
<1>. HIDE DEF c, m, new
<1>7. Shown(c) = Tabs
  BY <1>2 DEF Shown, c
<1>8. \A k \in Conns : OutOK(k)'
  <2>1. u \notin AnsQ(c)
    BY <1>4, <1>7 DEF Rules, TabsRule, TabsClaim, Claims, Free, Ans
  <2>. QED BY <1>1, <1>5, <2>1, Sides, SendsInOrder DEF Rules, QueueRules, PageWords, TabWords
<1>9. /\ \A b \in Admins : UNCHANGED Sent(b)
      /\ \A d : /\ AnsQ(d)' = AnsQ(d) \cup (IF c = d THEN {u} ELSE {})
                /\ Rejs(d)' = Rejs(d) /\ Left(d)' = Left(d)
  <2>1. \A b \in Admins : UNCHANGED Sent(b)
    BY <1>1, <1>5, TabSends
  <2>2. ASSUME NEW d
        PROVE  /\ AnsQ(d)' = AnsQ(d) \cup (IF c = d THEN {u} ELSE {})
               /\ Rejs(d)' = Rejs(d) /\ Left(d)' = Left(d)
    <3>1. /\ AnsQ(d)' = AnsQ(d) \cup (IF m.t = "answer" /\ m.c = d THEN {u} ELSE {})
          /\ Rejs(d)' = Rejs(d) \cup (IF m.t = "reject" /\ m.c = d THEN {u} ELSE {})
          /\ Left(d)' = Left(d) \cup (IF m.t = "end" /\ m.c = d THEN {u} ELSE {})
      BY <1>1, <1>5, TabSends
    <3>. QED BY <1>5, <3>1
  <2>. QED BY <2>1, <2>2
<1>10. ASSUME NEW d \in Entries PROVE TabsRule(d)'
  <2>1. d # 0 /\ UNCHANGED <<Taking(d), Notices(d)>>
    BY <1>1, Frames, ToldStays, EntriesAre DEF Notices
  <2>2. /\ Shown(d)' = Shown(d) \ {u}
        /\ Act(d)' = (Act(d) \ {u}) \cup (IF c = d THEN {u} ELSE {})
        /\ u \in Shown(d) <=> c = d
        /\ u \notin Act(d)
    BY <1>2, <1>6, <2>1, TabFaces DEF c
  <2>3. CASE d = c
    BY <1>7, <1>9, <2>1, <2>2, <2>3, TabAccepts DEF Rules
  <2>4. CASE d # c
    <3>1. UNCHANGED <<Faces(d), Actions(d)>>
      BY <1>9, <2>2, <2>4 DEF Faces, Actions
    <3>. QED BY <2>1, <3>1, TabsStay DEF Rules
  <2>. QED BY <2>3, <2>4
<1>. QED BY <1>1, <1>8, <1>9, <1>10, TabActs

LEMMA RejectRules == ASSUME Shape, Rules, NEW u \in Tabs, Reject(u), odd' = {} PROVE Rules'
<1>. DEFINE c == tab[u].incoming
            m == Msg("reject", c)
<1>1. c # 0 /\ tab' = [tab EXCEPT ![u].incoming = 0] /\ Send(u, m)
      /\ UNCHANGED <<caller, registry, hand, resp, bcast, up, admin>>
  BY DEF Reject
<1>2. \A v \in Tabs \ {u} : tab[v].incoming = c
  BY DEF Reject, Rivals, Mark
<1>3. c \in Ids
  BY DEF Shape, ClientsOK, TabIds
<1>4. c \in Entries
  BY <1>1, <1>3, EntriesAre
<1>5. m \in Letter /\ m.t = "reject" /\ m.c = c
  BY <1>3, LetterIs DEF Words, Msg
<1>6. tab'[u].incoming = 0 /\ tab'[u].active = tab[u].active /\ \A v \in Tabs \ {u} : tab'[v] = tab[v]
  <2>. DEFINE new == [tab[u] EXCEPT !.incoming = 0]
  <2>1. new.incoming = 0 /\ new.active = tab[u].active
    BY TabIs DEF Tab
  <2>2. tab' = [tab EXCEPT ![u] = new]
    BY <1>1
  <2>. HIDE DEF new
  <2>. QED BY <2>1, <2>2, TabIs
<1>. HIDE DEF c, m
<1>7. Shown(c) = Tabs
  BY <1>2 DEF Shown, c
<1>8. \A k \in Conns : OutOK(k)'
  BY <1>1, <1>5, Sides, SendsInOrder DEF Rules, QueueRules, PageWords, TabWords
<1>9. /\ \A b \in Admins : UNCHANGED Sent(b)
      /\ \A d : /\ Rejs(d)' = Rejs(d) \cup (IF c = d THEN {u} ELSE {})
                /\ AnsQ(d)' = AnsQ(d) /\ Left(d)' = Left(d)
  <2>1. \A b \in Admins : UNCHANGED Sent(b)
    BY <1>1, <1>5, TabSends
  <2>2. ASSUME NEW d
        PROVE  /\ Rejs(d)' = Rejs(d) \cup (IF c = d THEN {u} ELSE {})
               /\ AnsQ(d)' = AnsQ(d) /\ Left(d)' = Left(d)
    <3>1. /\ AnsQ(d)' = AnsQ(d) \cup (IF m.t = "answer" /\ m.c = d THEN {u} ELSE {})
          /\ Rejs(d)' = Rejs(d) \cup (IF m.t = "reject" /\ m.c = d THEN {u} ELSE {})
          /\ Left(d)' = Left(d) \cup (IF m.t = "end" /\ m.c = d THEN {u} ELSE {})
      BY <1>1, <1>5, TabSends
    <3>. QED BY <1>5, <3>1
  <2>. QED BY <2>1, <2>2
<1>10. ASSUME NEW d \in Entries PROVE TabsRule(d)'
  <2>1. d # 0 /\ UNCHANGED <<Taking(d), Notices(d)>>
    BY <1>1, Frames, ToldStays, EntriesAre DEF Notices
  <2>2. Shown(d)' = Shown(d) \ {u} /\ Act(d)' = Act(d) /\ (u \in Shown(d) <=> c = d)
    <3>1. /\ Shown(d)' = (Shown(d) \ {u}) \cup (IF tab'[u].incoming = d THEN {u} ELSE {})
          /\ Act(d)' = (Act(d) \ {u}) \cup (IF tab'[u].active = d THEN {u} ELSE {})
          /\ u \in Shown(d) <=> tab[u].incoming = d
          /\ u \in Act(d) <=> tab[u].active = d
      BY <1>6, TabFaces
    <3>. QED BY <1>6, <2>1, <3>1 DEF c
  <2>3. CASE d = c
    BY <1>7, <1>9, <2>1, <2>2, <2>3, TabRejects DEF Rules
  <2>4. CASE d # c
    <3>1. UNCHANGED <<Faces(d), Actions(d)>>
      BY <1>9, <2>2, <2>4 DEF Faces, Actions
    <3>. QED BY <2>1, <3>1, TabsStay DEF Rules
  <2>. QED BY <2>3, <2>4
<1>. QED BY <1>1, <1>8, <1>9, <1>10, TabActs

LEMMA LeaveRules == ASSUME Shape, Rules, NEW u \in Tabs, Leave(u) PROVE Rules'
<1>. DEFINE c == tab[u].active
            m == Msg("end", c)
            new == Activate(tab[u], 0)
<1>1. c # 0 /\ tab' = [tab EXCEPT ![u] = new] /\ Send(u, m)
      /\ UNCHANGED <<caller, registry, hand, resp, bcast, up, admin>>
  BY DEF Leave
<1>3. c \in Ids
  BY DEF Shape, ClientsOK, TabIds
<1>4. c \in Entries
  BY <1>1, <1>3, EntriesAre
<1>5. m \in Letter /\ m.t = "end" /\ m.c = c
  BY <1>3, LetterIs DEF Words, Msg
<1>6. tab'[u].incoming = tab[u].incoming /\ tab'[u].active = 0 /\ \A v \in Tabs \ {u} : tab'[v] = tab[v]
  <2>1. new.incoming = tab[u].incoming /\ new.active = 0
    BY TabIs, CleanFields
  <2>. HIDE DEF new
  <2>. QED BY <1>1, <2>1, TabIs
<1>. HIDE DEF c, m, new
<1>8. \A k \in Conns : OutOK(k)'
  BY <1>1, <1>5, Sides, SendsInOrder DEF Rules, QueueRules, PageWords, TabWords
<1>9. /\ \A b \in Admins : UNCHANGED Sent(b)
      /\ \A d : /\ Left(d)' = Left(d) \cup (IF c = d THEN {u} ELSE {})
                /\ AnsQ(d)' = AnsQ(d) /\ Rejs(d)' = Rejs(d)
  <2>1. \A b \in Admins : UNCHANGED Sent(b)
    BY <1>1, <1>5, TabSends
  <2>2. ASSUME NEW d
        PROVE  /\ Left(d)' = Left(d) \cup (IF c = d THEN {u} ELSE {})
               /\ AnsQ(d)' = AnsQ(d) /\ Rejs(d)' = Rejs(d)
    <3>1. /\ AnsQ(d)' = AnsQ(d) \cup (IF m.t = "answer" /\ m.c = d THEN {u} ELSE {})
          /\ Rejs(d)' = Rejs(d) \cup (IF m.t = "reject" /\ m.c = d THEN {u} ELSE {})
          /\ Left(d)' = Left(d) \cup (IF m.t = "end" /\ m.c = d THEN {u} ELSE {})
      BY ZenonT(60), <1>1, <1>5, TabSends
    <3>. QED BY <1>5, <3>1
  <2>. QED BY <2>1, <2>2
<1>10. ASSUME NEW d \in Entries PROVE TabsRule(d)'
  <2>1. d # 0 /\ UNCHANGED <<Taking(d), Notices(d)>>
    BY <1>1, Frames, ToldStays, EntriesAre DEF Notices
  <2>2. Act(d)' = Act(d) \ {u} /\ Shown(d)' = Shown(d) /\ (u \in Act(d) <=> c = d)
    <3>1. /\ Shown(d)' = (Shown(d) \ {u}) \cup (IF tab'[u].incoming = d THEN {u} ELSE {})
          /\ Act(d)' = (Act(d) \ {u}) \cup (IF tab'[u].active = d THEN {u} ELSE {})
          /\ u \in Shown(d) <=> tab[u].incoming = d
          /\ u \in Act(d) <=> tab[u].active = d
      BY <1>6, TabFaces
    <3>. QED BY <1>6, <2>1, <3>1 DEF c
  <2>3. CASE d = c
    BY <1>9, <2>1, <2>2, <2>3, TabLeaves DEF Rules
  <2>4. CASE d # c
    <3>1. UNCHANGED <<Faces(d), Actions(d)>>
      BY <1>9, <2>2, <2>4 DEF Faces, Actions
    <3>. QED BY <2>1, <3>1, TabsStay DEF Rules
  <2>. QED BY <2>3, <2>4
<1>. QED BY <1>1, <1>8, <1>9, <1>10, TabActs

\* A tab that shows the same calls.
LEMMA FacesStay ==
  ASSUME NEW u \in Tabs, \A v \in Tabs \ {u} : tab'[v] = tab[v],
         tab'[u].active = tab[u].active, tab'[u].incoming = tab[u].incoming
  PROVE  \A d : UNCHANGED Faces(d)
BY DEF Faces, Shown, Act

LEMMA MicFaces ==
  ASSUME Shape, NEW u \in Tabs, NEW c \in Calls, TabMicGranted(u, c) \/ TabMicFails(u, c)
  PROVE  \A d : UNCHANGED Faces(d)
<1>1. tab[u] = Tab(tab[u])
  BY TabIs
<1>2. CASE TabMicGranted(u, c)
  <2>. DEFINE asks == tab[u].asks \ {c}
              live == tab[u].live \cup {c}
              got == [tab[u] EXCEPT !.asks = asks, !.local = c, !.live = live]
              new == IF tab[u].pc # c THEN Clean(got)
                     ELSE IF tab[u].offer = c THEN [got EXCEPT !.offer = 0] ELSE got
  <2>1. tab' = [tab EXCEPT ![u] = new]
    BY <1>2 DEF TabMicGranted
  <2>2. got = [tab[u] EXCEPT !.asks = asks, !.local = c, !.live = live]
    OBVIOUS
  <2>. HIDE DEF asks, live, got
  <2>3. got = Tab(got) /\ got.active = tab[u].active /\ got.incoming = tab[u].incoming
    BY <1>1, <2>2 DEF Tab
  <2>4. /\ Clean(got).active = got.active /\ Clean(got).incoming = got.incoming
        /\ [got EXCEPT !.offer = 0].active = got.active /\ [got EXCEPT !.offer = 0].incoming = got.incoming
    BY <2>3, CleanFields DEF Tab
  <2>5. new.active = tab[u].active /\ new.incoming = tab[u].incoming
    BY <2>3, <2>4
  <2>. HIDE DEF new
  <2>6. tab'[u] = new /\ \A v \in Tabs \ {u} : tab'[v] = tab[v]
    BY <2>1, TabIs
  <2>. QED BY <2>5, <2>6, FacesStay
<1>3. CASE TabMicFails(u, c)
  <2>. DEFINE rest == Clean(tab[u])
              new  == [rest EXCEPT !.asks = @ \ {c}]
  <2>1. tab' = [tab EXCEPT ![u] = new]
    BY <1>3 DEF TabMicFails
  <2>2. rest = Tab(rest) /\ rest.active = tab[u].active /\ rest.incoming = tab[u].incoming
    BY <1>1, CleanFields
  <2>. HIDE DEF rest
  <2>3. new.active = tab[u].active /\ new.incoming = tab[u].incoming
    BY <2>2 DEF Tab
  <2>. HIDE DEF new
  <2>4. tab'[u] = new /\ \A v \in Tabs \ {u} : tab'[v] = tab[v]
    BY <2>1, TabIs
  <2>. QED BY <2>3, <2>4, FacesStay
<1>. QED BY <1>2, <1>3

\* A tab that sends nothing, or an answer to an offer.
LEMMA TabQuiet ==
  ASSUME Shape, Rules, NEW u \in Tabs, UNCHANGED toGw \/ \E c \in Ids \ {0} : Send(u, Msg("answerSdp", c))
  PROVE  /\ \A b \in Admins : UNCHANGED Sent(b)
         /\ \A d : UNCHANGED Actions(d)
         /\ \A k \in Conns : OutOK(k)'
<1>1. CASE UNCHANGED toGw
  BY <1>1, Frames DEF Rules, QueueRules
<1>. QED BY <1>1, TabSignals

LEMMA TabMicRules ==
  ASSUME Shape, Rules, NEW u \in Tabs, NEW c \in Calls, TabMicGranted(u, c) \/ TabMicFails(u, c)
  PROVE  Rules'
<1>1. UNCHANGED <<caller, registry, hand, resp, bcast, up, admin>>
  BY DEF TabMicGranted, TabMicFails
<1>2. UNCHANGED toGw \/ \E d \in Ids \ {0} : Send(u, Msg("answerSdp", d))
  <2>1. TabMicGranted(u, c) => c \in Ids \ {0}
    BY DEF TabMicGranted, Shape, ClientsOK, TabIds, Calls
  <2>. QED BY <2>1 DEF TabMicGranted, TabMicFails
<1>3. /\ \A b \in Admins : UNCHANGED Sent(b)
      /\ \A d : UNCHANGED Actions(d)
      /\ \A k \in Conns : OutOK(k)'
  BY <1>2, TabQuiet
<1>4. ASSUME NEW d \in Entries PROVE TabsRule(d)'
  <2>1. UNCHANGED <<Faces(d), Actions(d), Taking(d), Notices(d)>>
    BY <1>1, <1>3, Frames, MicFaces, ToldStays DEF Notices
  <2>. QED BY <2>1, TabsStay DEF Rules
<1>. QED BY <1>1, <1>3, <1>4, TabActs

-------------------------------------------------------------------------------
(* What the clients receive.                                               *)

\* What an event of the gateway does to a page.
LEMMA EventFaces ==
  ASSUME Shape, NEW a \in Admins, NEW h, AdminEvent(a, h), odd' = {}
  PROVE  /\ \A b \in Admins \ {a} : UNCHANGED Face(b)
         /\ h.t = "ringing" => St(a)' = "ringing" /\ Cur(a)' = h.c
         /\ h.t = "accepted" => St(a)' = "connected" /\ Cur(a)' = Cur(a)
         /\ h.t = "rejected" => St(a)' = "declined" /\ Cur(a)' = Cur(a)
         /\ h.t = "ended" => St(a)' = "idle" /\ Cur(a)' = 0
         /\ h.t = "error" => St(a)' = "error" /\ Cur(a)' = 0
         /\ h.t = "answerSdp" => UNCHANGED Face(a)
         /\ h.t # "ringing" /\ Busy(a) => h.c = Cur(a)
<1>1. h.t # "ringing" /\ Busy(a) => h.c = Cur(a)
  BY DEF AdminEvent, Mark, Busy, St, Cur
<1>2. CASE h.t = "answerSdp"
  <2>1. admin' = [admin EXCEPT ![a].audio = admin[a].mic # 0]
    BY <1>2 DEF AdminEvent
  <2>2. admin = [b \in Admins |-> Page(admin[b])] /\ admin[a] = Page(admin[a])
    BY DEF Shape, PageInv
  <2>3. /\ \A b \in Admins \ {a} : admin'[b] = admin[b]
        /\ admin'[a] = [admin[a] EXCEPT !.audio = admin[a].mic # 0]
    BY <2>1, <2>2
  <2>4. \A b \in Admins : UNCHANGED Face(b)
    BY <2>2, <2>3 DEF Face, St, Cur, Page
  <2>. QED BY <1>1, <1>2, <2>4
<1>3. CASE h.t # "answerSdp"
  <2>1. \/ h.t = "ringing" /\ Show(a, "ringing", h.c, FALSE)
        \/ h.t = "accepted" /\ Show(a, "connected", Cur(a), FALSE)
        \/ h.t = "rejected" /\ Show(a, "declined", Cur(a), FALSE)
        \/ h.t = "ended" /\ Show(a, "idle", 0, TRUE)
        \/ h.t = "error" /\ Show(a, "error", 0, TRUE)
    BY <1>3 DEF AdminEvent, Cur
  <2>. QED BY <1>1, <1>3, <2>1, ShowIs
<1>. QED BY <1>2, <1>3

\* A page receives: the tabs, the gateway and the other pages stay.
LEMMA PageReceives ==
  ASSUME Shape, Rules, NEW a \in Admins, UNCHANGED <<caller, registry, hand, toGw, up, tab>>,
         \A b \in Admins \ {a} : UNCHANGED <<Face(b), Due(b), News(b)>>, PageRule(a)',
         \A c : UNCHANGED Notices(c), \A k \in Conns : RespOK(k)' /\ CastOK(k)'
  PROVE  Rules'
<1>1. QueueRules'
  BY Frames DEF Rules, QueueRules
<1>2. ASSUME NEW b \in Admins PROVE PageRule(b)'
  <2>1. b # a => UNCHANGED <<Face(b), Sent(b), Due(b), News(b), Own(b)>>
    BY Frames
  <2>. QED BY <2>1, PageStays DEF Rules
<1>3. ASSUME NEW c \in Entries PROVE TabsRule(c)'
  <2>1. UNCHANGED <<Faces(c), Actions(c), Taking(c), Notices(c)>>
    BY Frames
  <2>. QED BY <2>1, TabsStay DEF Rules
<1>4. Entries' = Entries
  BY Frames
<1>. QED BY <1>1, <1>2, <1>3, <1>4 DEF Rules

LEMMA PageReplyRules ==
  ASSUME Shape, Rules, NEW a \in Admins, odd' = {}, resp[a] # <<>>, resp' = [resp EXCEPT ![a] = Tail(@)],
         AdminEvent(a, Head(resp[a])), UNCHANGED <<caller, registry, hand, toGw, bcast, up, tab>>
  PROVE  Rules'
<1>. DEFINE h == Head(resp[a])
<1>1. /\ h \in Letter
      /\ \A b \in Admins : /\ Ring(b) = Ring(b)' \cup (IF b = a THEN With(h, "ringing") ELSE {})
                           /\ Errs(b) = Errs(b)' \cup (IF b = a THEN With(h, "error") ELSE {})
      /\ \A c : Errd(c) = Errd(c)' \cup By(a, h, "error", c)
      /\ \A j \in Conns : RespOK(j)'
      /\ h.t \in {"ringing", "error"}
      /\ h.t = "ringing" => Ring(a)' = {} /\ Errs(a)' = {}
  BY ZenonT(60), Sides, ReadsReply DEF Rules, QueueRules
<1>2. AdminEvent(a, h)
  OBVIOUS
<1>. HIDE DEF h
<1>3. /\ \A b \in Admins \ {a} : UNCHANGED Face(b)
      /\ h.t = "ringing" => St(a)' = "ringing" /\ Cur(a)' = h.c
      /\ h.t = "error" => St(a)' = "error" /\ Cur(a)' = 0 /\ (Busy(a) => h.c = Cur(a))
  BY <1>2, EventFaces
<1>4. PageRule(a)'
  <2>1. UNCHANGED <<Sent(a), News(a), Own(a)>>
    BY Frames
  <2>2. /\ Ring(a) = Ring(a)' \cup With(h, "ringing")
        /\ Errs(a) = Errs(a)' \cup With(h, "error")
    BY <1>1
  <2>3. CASE h.t = "ringing"
    <3>1. Ring(a) = {h.c}
      BY <1>1, <2>2, <2>3 DEF With
    <3>. QED BY <1>1, <1>3, <2>1, <2>3, <3>1, PageRings DEF Rules
  <2>4. CASE h.t = "error"
    <3>1. h.c \in Errs(a) /\ Errs(a)' \subseteq Errs(a) /\ Ring(a)' = Ring(a)
      BY <2>2, <2>4 DEF With
    <3>. QED BY <1>3, <2>1, <2>4, <3>1, PageFails DEF Rules
  <2>. QED BY <1>1, <2>3, <2>4
<1>5. ASSUME NEW b \in Admins \ {a} PROVE UNCHANGED <<Face(b), Due(b), News(b)>>
  <2>1. Ring(b)' = Ring(b) /\ Errs(b)' = Errs(b)
    BY <1>1
  <2>. QED BY <1>3, <2>1, Frames DEF Due
<1>6. ASSUME NEW c PROVE UNCHANGED Notices(c)
  <2>1. Errd(c)' = Errd(c)
    BY <1>1, Sides DEF By
  <2>. QED BY <2>1, Frames, ToldStays DEF Notices
<1>7. \A k \in Conns : CastOK(k)'
  BY Frames DEF Rules, QueueRules
<1>. QED BY <1>1, <1>4, <1>5, <1>6, <1>7, PageReceives

LEMMA PageNewsRules ==
  ASSUME Shape, Rules, NEW a \in Admins, odd' = {}, bcast[a] # <<>>, bcast' = [bcast EXCEPT ![a] = Tail(@)],
         AdminEvent(a, Head(bcast[a])), UNCHANGED <<caller, registry, hand, toGw, resp, up, tab>>
  PROVE  Rules'
<1>. DEFINE h == Head(bcast[a])
<1>1. /\ h \in Letter
      /\ \A b \in Admins : /\ Accs(b) = Accs(b)' \cup (IF b = a THEN With(h, "accepted") ELSE {})
                           /\ Fins(b) = Fins(b)' \cup (IF b = a THEN With(h, "rejected") \cup With(h, "ended") ELSE {})
      /\ \A c : /\ Pend(c) = Pend(c)' \cup By(a, h, "incoming", c)
                /\ Done(c) = Done(c)' \cup By(a, h, "ended", c)
      /\ \A j \in Conns : CastOK(j)'
      /\ h.t \in {"accepted", "rejected", "ended", "answerSdp"}
      /\ h.t \in {"rejected", "ended"} => \A c \in Accs(a)' \cup Fins(a)' : h.c <= c /\ h.c # c
  BY Sides, ReadsNews DEF Rules, QueueRules
<1>2. AdminEvent(a, h)
  OBVIOUS
<1>. HIDE DEF h
<1>3. /\ \A b \in Admins \ {a} : UNCHANGED Face(b)
      /\ h.t = "accepted" => St(a)' = "connected" /\ Cur(a)' = Cur(a)
      /\ h.t = "rejected" => St(a)' = "declined" /\ Cur(a)' = Cur(a)
      /\ h.t = "ended" => St(a)' = "idle" /\ Cur(a)' = 0
      /\ h.t = "answerSdp" => UNCHANGED Face(a)
      /\ h.t # "ringing" /\ Busy(a) => h.c = Cur(a)
  BY <1>2, EventFaces
<1>4. PageRule(a)'
  <2>1. UNCHANGED <<Sent(a), Due(a), Own(a)>>
    BY Frames
  <2>2. /\ Accs(a) = Accs(a)' \cup With(h, "accepted")
        /\ Fins(a) = Fins(a)' \cup With(h, "rejected") \cup With(h, "ended")
    BY <1>1
  <2>3. CASE h.t = "accepted"
    <3>1. h.c \in Accs(a) /\ Accs(a)' \cup {h.c} = Accs(a) /\ Fins(a)' = Fins(a)
      BY <2>2, <2>3 DEF With
    <3>. QED BY <1>3, <2>1, <2>3, <3>1, PageConnects DEF Rules
  <2>4. CASE h.t \in {"rejected", "ended"}
    <3>1. h.c \in Fins(a) /\ Fins(a)' \cup {h.c} = Fins(a) /\ Accs(a)' = Accs(a)
      BY <2>2, <2>4 DEF With
    <3>2. CASE h.t = "rejected"
      BY <1>1, <1>3, <2>1, <3>1, <3>2, PageDeclined DEF Rules
    <3>3. CASE h.t = "ended"
      BY <1>1, <1>3, <2>1, <3>1, <3>3, PageEnded DEF Rules
    <3>. QED BY <2>4, <3>2, <3>3
  <2>5. CASE h.t = "answerSdp"
    <3>1. Accs(a)' = Accs(a) /\ Fins(a)' = Fins(a)
      BY <2>2, <2>5 DEF With
    <3>. QED BY <1>3, <2>1, <2>5, <3>1, PageStays DEF Rules, News
  <2>. QED BY <1>1, <2>3, <2>4, <2>5
<1>5. ASSUME NEW b \in Admins \ {a} PROVE UNCHANGED <<Face(b), Due(b), News(b)>>
  <2>1. Accs(b)' = Accs(b) /\ Fins(b)' = Fins(b)
    BY ZenonT(60), <1>1
  <2>. QED BY <1>3, <2>1, Frames DEF News
<1>6. ASSUME NEW c PROVE UNCHANGED Notices(c)
  <2>1. Pend(c)' = Pend(c) /\ Done(c)' = Done(c)
    BY <1>1, Sides DEF By
  <2>. QED BY <2>1, Frames, ToldStays DEF Notices
<1>7. \A k \in Conns : RespOK(k)'
  BY Frames DEF Rules, QueueRules
<1>. QED BY <1>1, <1>4, <1>5, <1>6, <1>7, PageReceives

\* What an event does to a tab.
LEMMA TabEventFaces ==
  ASSUME Shape, NEW u \in Tabs, NEW h \in Letter, TabEvent(u, h), odd' = {}
  PROVE  /\ \A v \in Tabs \ {u} : tab'[v] = tab[v]
         /\ UNCHANGED toGw \/ \E c \in Ids \ {0} : Send(u, Msg("answerSdp", c))
         /\ h.t = "incoming" => /\ tab[u].incoming \in {0, h.c}
                                /\ tab'[u].incoming = h.c /\ tab'[u].active = tab[u].active
         /\ h.t \in {"ended", "error"} => /\ tab[u].incoming \in {0, h.c} /\ tab[u].active \in {0, h.c}
                                          /\ tab'[u].incoming = 0 /\ tab'[u].active = 0
         /\ h.t = "offer" => tab'[u].incoming = tab[u].incoming /\ tab'[u].active = tab[u].active
<1>0. h.c \in Ids
  BY DEF Letter
<1>1. tab[u] = Tab(tab[u])
  BY TabIs
<1>2. CASE h.t = "incoming"
  <2>. DEFINE new == [tab[u] EXCEPT !.incoming = h.c]
  <2>1. tab' = [tab EXCEPT ![u] = new] /\ UNCHANGED toGw /\ tab[u].incoming \in {0, h.c}
    BY <1>2 DEF TabEvent, Mark
  <2>2. new.incoming = h.c /\ new.active = tab[u].active
    BY <1>1 DEF Tab
  <2>. HIDE DEF new
  <2>. QED BY <1>2, <2>1, <2>2, TabIs
<1>3. CASE h.t \in {"ended", "error"}
  <2>. DEFINE rest == Activate(Clean(tab[u]), 0)
              new  == [rest EXCEPT !.incoming = 0]
  <2>1. /\ tab' = [tab EXCEPT ![u] = new] /\ UNCHANGED toGw
        /\ tab[u].incoming \in {0, h.c} /\ tab[u].active \in {0, h.c}
    BY <1>3 DEF TabEvent, Mark, ClearCall
  <2>2. rest.active = 0 /\ rest = Tab(rest)
    BY <1>1, CleanFields
  <2>. HIDE DEF rest
  <2>3. new.incoming = 0 /\ new.active = 0
    BY <2>2 DEF Tab
  <2>. HIDE DEF new
  <2>. QED BY <1>3, <2>1, <2>3, TabIs
<1>4. CASE h.t = "offer"
  <2>1. TabOffer(u, h.c)
    BY <1>4 DEF TabEvent
  <2>2. CASE UNCHANGED tab
    <3>1. odd = {} /\ Sound(tab[u])
      BY DEF TabEvent, Mark, Shape, TabInv
    <3>2. UNCHANGED toGw \/ (Send(u, Msg("answerSdp", h.c)) /\ h.c # 0)
      BY <2>1, <3>1 DEF TabOffer, Sound
    <3>. QED BY <1>0, <1>4, <2>2, <3>2
  <2>3. CASE tab' = [tab EXCEPT ![u].offer = h.c] /\ UNCHANGED toGw
    <3>. DEFINE new == [tab[u] EXCEPT !.offer = h.c]
    <3>1. new.incoming = tab[u].incoming /\ new.active = tab[u].active
      BY <1>1 DEF Tab
    <3>2. tab' = [tab EXCEPT ![u] = new]
      BY <2>3
    <3>. HIDE DEF new
    <3>. QED BY <1>4, <2>3, <3>1, <3>2, TabIs
  <2>. QED BY <2>1, <2>2, <2>3 DEF TabOffer
<1>5. h.t \in {"incoming", "ended", "error", "offer"}
  BY DEF TabEvent
<1>. QED BY <1>2, <1>3, <1>4, <1>5

\* A tab receives: the gateway and the pages stay.
LEMMA TabReceives ==
  ASSUME Shape, Rules, UNCHANGED <<caller, registry, hand, up, admin>>,
         \A k \in Conns : OutOK(k)' /\ RespOK(k)' /\ CastOK(k)',
         \A b \in Admins : UNCHANGED <<Sent(b), Due(b), News(b)>>, \A c \in Entries : TabsRule(c)'
  PROVE  Rules'
<1>1. QueueRules'
  BY DEF Rules, QueueRules
<1>2. ASSUME NEW b \in Admins PROVE PageRule(b)'
  <2>1. UNCHANGED <<Face(b), Sent(b), Due(b), News(b), Own(b)>>
    BY Frames
  <2>. QED BY <2>1, PageStays DEF Rules
<1>3. Entries' = Entries
  BY Frames
<1>. QED BY <1>1, <1>2, <1>3 DEF Rules

LEMMA TabReplyRules ==
  ASSUME Shape, Rules, NEW u \in Tabs, odd' = {}, resp[u] # <<>>, resp' = [resp EXCEPT ![u] = Tail(@)],
         TabEvent(u, Head(resp[u])), UNCHANGED <<caller, registry, hand, bcast, up, admin>>
  PROVE  Rules'
<1>. DEFINE h == Head(resp[u])
<1>1. /\ h \in Letter
      /\ \A b \in Admins : /\ Ring(b) = Ring(b)' \cup (IF b = u THEN With(h, "ringing") ELSE {})
                           /\ Errs(b) = Errs(b)' \cup (IF b = u THEN With(h, "error") ELSE {})
      /\ \A c : Errd(c) = Errd(c)' \cup By(u, h, "error", c)
      /\ \A j \in Conns : RespOK(j)'
      /\ h.t = "error"
  BY Sides, ReadsReply DEF Rules, QueueRules
<1>2. TabEvent(u, h)
  OBVIOUS
<1>. HIDE DEF h
<1>3. /\ \A v \in Tabs \ {u} : tab'[v] = tab[v]
      /\ UNCHANGED toGw \/ \E c \in Ids \ {0} : Send(u, Msg("answerSdp", c))
      /\ tab[u].incoming \in {0, h.c} /\ tab[u].active \in {0, h.c}
      /\ tab'[u].incoming = 0 /\ tab'[u].active = 0
  BY <1>1, <1>2, TabEventFaces
<1>4. /\ \A b \in Admins : UNCHANGED Sent(b)
      /\ \A d : UNCHANGED Actions(d)
      /\ \A k \in Conns : OutOK(k)'
  BY <1>3, TabQuiet
<1>5. ASSUME NEW b \in Admins PROVE UNCHANGED <<Sent(b), Due(b), News(b)>>
  <2>1. Ring(b)' = Ring(b) /\ Errs(b)' = Errs(b)
    BY <1>1, Sides
  <2>. QED BY <1>4, <2>1, Frames DEF Due
<1>6. ASSUME NEW d \in Entries PROVE TabsRule(d)'
  <2>1. d # 0 /\ UNCHANGED <<Taking(d), Pend(d), Done(d)>>
    BY Frames, EntriesAre
  <2>2. Errd(d) = Errd(d)' \cup (IF h.c = d THEN {u} ELSE {})
    BY <1>1 DEF By
  <2>3. /\ Shown(d)' = (Shown(d) \ {u}) \cup (IF tab'[u].incoming = d THEN {u} ELSE {})
        /\ Act(d)' = (Act(d) \ {u}) \cup (IF tab'[u].active = d THEN {u} ELSE {})
        /\ u \in Shown(d) <=> tab[u].incoming = d
        /\ u \in Act(d) <=> tab[u].active = d
    BY <1>3, TabFaces
  <2>4. Shown(d)' = Shown(d) \ {u} /\ Act(d)' = Act(d) \ {u}
    BY <1>3, <2>1, <2>3
  <2>5. CASE d = h.c
    <3>1. u \in Told(d) /\ Told(d)' \subseteq Told(d) /\ Told(d) \subseteq Told(d)' \cup {u}
      BY <2>1, <2>2, <2>5 DEF Told
    <3>. QED BY <1>4, <2>1, <2>4, <3>1, TabCloses DEF Rules
  <2>6. CASE d # h.c
    <3>1. Shown(d)' = Shown(d) /\ Act(d)' = Act(d)
      BY <1>3, <2>1, <2>3, <2>4, <2>6
    <3>2. UNCHANGED Notices(d)
      BY <2>1, <2>2, <2>6, ToldStays DEF Notices
    <3>. QED BY <1>4, <2>1, <3>1, <3>2, TabsStay DEF Rules, Faces
  <2>. QED BY <2>5, <2>6
<1>7. \A k \in Conns : CastOK(k)'
  BY Frames DEF Rules, QueueRules
<1>. QED BY <1>1, <1>4, <1>5, <1>6, <1>7, TabReceives

LEMMA TabNewsRules ==
  ASSUME Shape, Rules, NEW u \in Tabs, odd' = {}, bcast[u] # <<>>, bcast' = [bcast EXCEPT ![u] = Tail(@)],
         TabEvent(u, Head(bcast[u])), UNCHANGED <<caller, registry, hand, resp, up, admin>>
  PROVE  Rules'
<1>. PICK h : h = Head(bcast[u])
  OBVIOUS
<1>1. /\ h \in Letter
      /\ \A b \in Admins : /\ Accs(b) = Accs(b)' \cup (IF b = u THEN With(h, "accepted") ELSE {})
                           /\ Fins(b) = Fins(b)' \cup (IF b = u THEN With(h, "rejected") \cup With(h, "ended") ELSE {})
      /\ \A c : /\ Pend(c) = Pend(c)' \cup By(u, h, "incoming", c)
                /\ Done(c) = Done(c)' \cup By(u, h, "ended", c)
      /\ \A j \in Conns : CastOK(j)'
      /\ h.t \in {"incoming", "ended", "offer"}
      /\ h.t = "incoming" => u \notin Pend(h.c)'
  BY ZenonT(60), Sides, ReadsNews DEF Rules, QueueRules
<1>2. TabEvent(u, h)
  OBVIOUS
<1>3. /\ \A v \in Tabs \ {u} : tab'[v] = tab[v]
      /\ UNCHANGED toGw \/ \E c \in Ids \ {0} : Send(u, Msg("answerSdp", c))
      /\ h.t = "incoming" => /\ tab[u].incoming \in {0, h.c}
                             /\ tab'[u].incoming = h.c /\ tab'[u].active = tab[u].active
      /\ h.t = "ended" => /\ tab[u].incoming \in {0, h.c} /\ tab[u].active \in {0, h.c}
                          /\ tab'[u].incoming = 0 /\ tab'[u].active = 0
      /\ h.t = "offer" => tab'[u].incoming = tab[u].incoming /\ tab'[u].active = tab[u].active
  BY <1>1, <1>2, TabEventFaces
<1>4. /\ \A b \in Admins : UNCHANGED Sent(b)
      /\ \A d : UNCHANGED Actions(d)
      /\ \A k \in Conns : OutOK(k)'
  BY <1>3, TabQuiet
<1>5. ASSUME NEW b \in Admins PROVE UNCHANGED <<Sent(b), Due(b), News(b)>>
  <2>1. Accs(b)' = Accs(b) /\ Fins(b)' = Fins(b)
    BY ZenonT(60), <1>1, Sides
  <2>. QED BY <1>4, <2>1, Frames DEF News
<1>6. ASSUME NEW d \in Entries PROVE TabsRule(d)'
  <2>1. d # 0 /\ UNCHANGED <<Taking(d), Errd(d)>>
    BY Frames, EntriesAre
  <2>2. /\ Pend(d) = Pend(d)' \cup (IF h.t = "incoming" /\ h.c = d THEN {u} ELSE {})
        /\ Done(d) = Done(d)' \cup (IF h.t = "ended" /\ h.c = d THEN {u} ELSE {})
    BY <1>1 DEF By
  <2>3. /\ Shown(d)' = (Shown(d) \ {u}) \cup (IF tab'[u].incoming = d THEN {u} ELSE {})
        /\ Act(d)' = (Act(d) \ {u}) \cup (IF tab'[u].active = d THEN {u} ELSE {})
        /\ u \in Shown(d) <=> tab[u].incoming = d
        /\ u \in Act(d) <=> tab[u].active = d
    BY <1>3, TabFaces
  <2>4. CASE h.t = "incoming" /\ d = h.c
    <3>1. u \in Pend(d) /\ Pend(d)' = Pend(d) \ {u} /\ Done(d)' = Done(d)
      BY <1>1, <2>2, <2>4
    <3>2. Act(d)' = Act(d) /\ Shown(d)' = Shown(d) \cup {u}
      BY <1>3, <2>3, <2>4
    <3>3. Told(d)' = Told(d)
      BY <2>1, <3>1, ToldStays
    <3>. QED BY <1>4, <2>1, <3>1, <3>2, <3>3, TabRings DEF Rules
  <2>5. CASE h.t = "ended" /\ d = h.c
    <3>1. u \in Told(d) /\ Told(d)' \subseteq Told(d) /\ Told(d) \subseteq Told(d)' \cup {u} /\ Pend(d)' = Pend(d)
      BY <2>1, <2>2, <2>5 DEF Told
    <3>2. Shown(d)' = Shown(d) \ {u} /\ Act(d)' = Act(d) \ {u}
      BY <1>3, <2>1, <2>3, <2>5
    <3>. QED BY <1>4, <2>1, <3>1, <3>2, TabCloses DEF Rules
  <2>6. CASE h.t = "offer" \/ d # h.c
    <3>1. Shown(d)' = Shown(d) /\ Act(d)' = Act(d)
      BY <1>1, <1>3, <2>1, <2>3, <2>6
    <3>2. Pend(d)' = Pend(d) /\ Done(d)' = Done(d)
      BY <2>2, <2>6
    <3>3. UNCHANGED Notices(d)
      BY <2>1, <3>2, ToldStays DEF Notices
    <3>. QED BY <1>4, <2>1, <3>1, <3>3, TabsStay DEF Rules, Faces
  <2>. QED BY <1>1, <2>4, <2>5, <2>6
<1>7. \A k \in Conns : RespOK(k)'
  BY Frames DEF Rules, QueueRules
<1>. QED BY <1>1, <1>4, <1>5, <1>6, <1>7, TabReceives

\* A client receives.
LEMMA ReceiveRules == ASSUME Shape, Rules, NEW k \in Conns, Receive(k), odd' = {} PROVE Rules'
<1>1. UNCHANGED <<caller, registry, hand, up>>
  BY DEF Receive
<1>2. CASE k \in Admins
  <2>1. /\ UNCHANGED <<toGw, tab>>
        /\ \/ /\ resp[k] # <<>> /\ resp' = [resp EXCEPT ![k] = Tail(@)] /\ AdminEvent(k, Head(resp[k])) /\ UNCHANGED bcast
           \/ /\ bcast[k] # <<>> /\ bcast' = [bcast EXCEPT ![k] = Tail(@)] /\ AdminEvent(k, Head(bcast[k])) /\ UNCHANGED resp
    BY <1>2 DEF Receive, AdminEvent
  <2>. QED BY <1>1, <1>2, <2>1, PageReplyRules, PageNewsRules
<1>3. CASE k \in Tabs
  <2>1. k \notin Admins
    BY <1>3, Sides
  <2>2. /\ UNCHANGED admin
        /\ \/ /\ resp[k] # <<>> /\ resp' = [resp EXCEPT ![k] = Tail(@)] /\ TabEvent(k, Head(resp[k])) /\ UNCHANGED bcast
           \/ /\ bcast[k] # <<>> /\ bcast' = [bcast EXCEPT ![k] = Tail(@)] /\ TabEvent(k, Head(bcast[k])) /\ UNCHANGED resp
    BY <2>1 DEF Receive, TabEvent
  <2>. QED BY <1>1, <1>3, <2>2, TabReplyRules, TabNewsRules
<1>. QED BY <1>2, <1>3 DEF Conns

-------------------------------------------------------------------------------
(* What the gateway does.                                                  *)

HandOK(k) == hand[k].op = "answer" => hand[k].c # 0

\* A step of the gateway.
LEMMA GatewayActs ==
  ASSUME Shape, Rules, UNCHANGED up, \A k \in Conns : OutOK(k)' /\ RespOK(k)' /\ CastOK(k)' /\ HandOK(k)',
         \A b \in Admins : PageRule(b)', \A c \in Entries' : TabsRule(c)'
  PROVE  Rules'
BY DEF Rules, QueueRules, HandOK

\* A connection's task goes on.
LEMMA HandGoesOn ==
  ASSUME Shape, Rules, NEW k \in Conns, NEW n, hand' = [hand EXCEPT ![k] = n], n.op = "answer" => n.c # 0
  PROVE  /\ \A j \in Conns : HandOK(j)'
         /\ \A c : AnsH(c)' = (AnsH(c) \ {k}) \cup (IF k \in Tabs /\ n.op = "answer" /\ n.c = c THEN {k} ELSE {})
         /\ \A c : k \in AnsH(c) <=> k \in Tabs /\ hand[k].op = "answer" /\ hand[k].c = c
<1>1. hand'[k] = n /\ \A j \in Conns \ {k} : hand'[j] = hand[j]
  BY DEF Shape, GatewayOK
<1>2. \A j \in Conns : HandOK(j)'
  BY <1>1 DEF Rules, QueueRules, HandOK
<1>3. \A j \in Tabs : j \in Conns
  BY Sides
<1>. QED BY <1>1, <1>2, <1>3 DEF AnsH

LEMMA HandsRest ==
  ASSUME Rules, UNCHANGED hand
  PROVE  (\A k \in Conns : HandOK(k)') /\ \A c : AnsH(c)' = AnsH(c)
BY DEF Rules, QueueRules, HandOK, AnsH

\* A step of the gateway after which the calls stand as they stood.
LEMMA Bookkeeping ==
  ASSUME Shape, Rules, UNCHANGED <<caller, registry, queues, up, clients>>,
         \A k \in Conns : HandOK(k)', \A c : AnsH(c)' = AnsH(c)
  PROVE  Rules'
<1>1. ASSUME NEW k \in Conns PROVE OutOK(k)' /\ RespOK(k)' /\ CastOK(k)'
  BY Frames DEF Rules, QueueRules
<1>2. ASSUME NEW b \in Admins PROVE PageRule(b)'
  <2>1. UNCHANGED <<Face(b), Sent(b), Due(b), News(b), Own(b)>>
    BY Frames
  <2>. QED BY <2>1, PageStays DEF Rules
<1>3. ASSUME NEW c \in Entries' PROVE TabsRule(c)'
  <2>1. UNCHANGED <<Faces(c), Actions(c), Notices(c)>> /\ c \in Entries
    BY Frames, ToldStays DEF Notices
  <2>2. UNCHANGED Taking(c)
    BY DEF Taking, Reg
  <2>. QED BY <2>1, <2>2, TabsStay DEF Rules
<1>. QED BY <1>1, <1>2, <1>3, GatewayActs

LEMMA PublishRules == ASSUME Shape, Rules, NEW k \in Conns, Publish(k) PROVE Rules'
<1>1. hand[k].op # "answer" /\ hand' = [hand EXCEPT ![k] = Idle] /\ UNCHANGED <<caller, registry, queues, up, clients>>
  BY DEF Publish, Over
<1>2. Idle.op # "answer"
  BY DEF Idle
<1>3. /\ \A j \in Conns : HandOK(j)'
      /\ \A c : AnsH(c)' = (AnsH(c) \ {k}) \cup (IF k \in Tabs /\ Idle.op = "answer" /\ Idle.c = c THEN {k} ELSE {})
      /\ \A c : k \in AnsH(c) <=> k \in Tabs /\ hand[k].op = "answer" /\ hand[k].c = c
  BY <1>1, <1>2, HandGoesOn
<1>4. \A c : AnsH(c)' = AnsH(c)
  BY <1>1, <1>2, <1>3
<1>. QED BY <1>1, <1>3, <1>4, Bookkeeping

LEMMA TimerRules ==
  ASSUME Shape, Rules, NEW c \in Calls, TimerChecks(c) \/ TimerPublishes(c)
  PROVE  Rules'
<1>1. UNCHANGED <<caller, registry, hand, queues, up, clients>>
  BY DEF TimerChecks, TimerPublishes
<1>. QED BY <1>1, HandsRest, Bookkeeping

\* A call that the gateway knows has a page.
LEMMA CallerIs == ASSUME Shape, NEW c \in Entries PROVE caller[c] \in Admins /\ c \in Mine(caller[c])
BY DEF Shape, GatewayOK, Entries, Mine

\* The WebRTC messages are about no call's status.
LEMMA RelayRules == ASSUME Shape, Rules, NEW k \in Conns, Relay(k) PROVE Rules'
<1>. PICK h : h = Next1(k)
  OBVIOUS
<1>0. /\ Take(k) /\ h.t \in {"offer", "answerSdp"} /\ UNCHANGED <<caller, registry, hand, resp, up, clients>>
      /\ \/ UNCHANGED bcast
         \/ k \in Admins /\ Broadcast(Tabs, h)
         \/ k \notin Admins /\ Broadcast({caller[h.c]}, h)
  BY DEF Relay
<1>1. /\ h \in Letter
      /\ \A a \in Admins : /\ Asks(a) <=> Asks(a)' \/ (a = k /\ h.t = "initiate")
                           /\ Ends(a) = Ends(a)' \cup (IF a = k THEN With(h, "end") ELSE {})
      /\ \A c : /\ AnsQ(c) = AnsQ(c)' \cup By(k, h, "answer", c)
                /\ Rejs(c) = Rejs(c)' \cup By(k, h, "reject", c)
                /\ Left(c) = Left(c)' \cup By(k, h, "end", c)
      /\ \A j \in Conns : OutOK(j)'
      /\ h.t \in TabWords => h.c # 0
      /\ k \in Admins => h.t \in PageWords
      /\ k \in Tabs => h.t \in TabWords
  BY <1>0, Takes DEF Rules, QueueRules
<1>2. h.t = IF k \in Admins THEN "offer" ELSE "answerSdp"
  BY <1>0, <1>1, Sides DEF PageWords, TabWords, Conns
<1>3. ASSUME NEW b \in Admins PROVE UNCHANGED Sent(b)
  <2>1. (Asks(b)' <=> Asks(b)) /\ Ends(b)' = Ends(b)
    BY <1>1, <1>2 DEF With
  <2>. QED BY <2>1, Zenon DEF Sent, Asks
<1>4. ASSUME NEW c PROVE UNCHANGED Actions(c)
  BY <1>1, <1>2 DEF By, Actions
<1>5. /\ \A j \in Conns : CastOK(j)'
      /\ \A a \in Admins : UNCHANGED News(a)
      /\ \A c : UNCHANGED <<Pend(c), Done(c)>>
  <2>1. CASE UNCHANGED bcast
    BY <2>1, Frames DEF Rules, QueueRules
  <2>2. CASE \E ks : Broadcast(ks, h) /\ ks = IF k \in Admins THEN Tabs ELSE {caller[h.c]}
    <3>. PICK ks : Broadcast(ks, h) /\ ks = IF k \in Admins THEN Tabs ELSE {caller[h.c]}
      BY <2>2
    <3>1. k \notin Admins => caller[h.c] \in Admins
      <4>1. k \notin Admins => h.c \in Entries
        BY <1>1, <1>2, EntriesAre DEF Letter, TabWords
      <4>. QED BY <4>1, CallerIs
    <3>2. /\ \A a \in Admins : a \in ks => h.t = "answerSdp"
          /\ \A u \in Tabs : u \in ks => h.t = "offer"
      BY <1>2, <3>1, Sides
    <3>3. /\ \A a \in Admins : /\ Accs(a)' = Accs(a) \cup (IF a \in ks THEN With(h, "accepted") ELSE {})
                               /\ Fins(a)' = Fins(a) \cup (IF a \in ks THEN With(h, "rejected") \cup With(h, "ended") ELSE {})
          /\ \A c : /\ Pend(c)' = Pend(c) \cup {u \in Tabs : u \in ks /\ h = Msg("incoming", c)}
                    /\ Done(c)' = Done(c) \cup {u \in Tabs : u \in ks /\ h = Msg("ended", c)}
          /\ \A j \in Conns : CastOK(j)'
      BY <1>1, <3>2, LettersAre, Tellings DEF Rules, QueueRules, Tells
    <3>4. With(h, "accepted") = {} /\ With(h, "rejected") = {} /\ With(h, "ended") = {}
      BY <1>2 DEF With
    <3>5. \A c : h # Msg("incoming", c) /\ h # Msg("ended", c)
      BY <1>2 DEF Msg
    <3>. QED BY ZenonT(60), <3>3, <3>4, <3>5 DEF News
  <2>. QED BY <1>0, <2>1, <2>2
<1>6. ASSUME NEW b \in Admins PROVE PageRule(b)'
  <2>1. UNCHANGED <<Face(b), Sent(b), Due(b), News(b), Own(b)>>
    BY <1>0, <1>3, <1>5, Frames
  <2>. QED BY <2>1, PageStays DEF Rules
<1>7. ASSUME NEW c \in Entries' PROVE TabsRule(c)'
  <2>1. UNCHANGED <<Faces(c), Actions(c), Taking(c), Notices(c)>> /\ c \in Entries
    BY <1>0, <1>4, <1>5, Frames, ToldStays DEF Notices
  <2>. QED BY <2>1, TabsStay DEF Rules
<1>8. \A j \in Conns : RespOK(j)' /\ HandOK(j)'
  BY <1>0, Frames, HandsRest DEF Rules, QueueRules
<1>. QED BY <1>0, <1>1, <1>5, <1>6, <1>7, <1>8, GatewayActs

\* A call whose status changes.
LEMMA RegistryIs ==
  ASSUME Shape, NEW c \in Entries, NEW v, registry' = [registry EXCEPT ![c] = v], UNCHANGED caller
  PROVE  /\ Reg(c)' = v /\ \A d : d # c => Reg(d)' = Reg(d)
         /\ \A b : Mine(b)' = Mine(b)
         /\ \A b : b # caller[c] => UNCHANGED Own(b)
         /\ Live(caller[c])' = IF v \in Ongoing THEN Live(caller[c]) \cup {c} ELSE Live(caller[c]) \ {c}
         /\ Taken(caller[c])' = IF v = "Accepted" THEN Taken(caller[c]) \cup {c} ELSE Taken(caller[c]) \ {c}
         /\ Entries' = Entries
<1>1. registry'[c] = v /\ \A d : d # c => registry'[d] = registry[d]
  BY EntriesAre DEF Shape, GatewayOK
<1>2. \A b : Mine(b)' = Mine(b)
  BY DEF Mine
<1>3. ASSUME NEW b, b # caller[c] PROVE UNCHANGED Own(b)
  <2>1. \A d \in Mine(b) : registry'[d] = registry[d]
    BY <1>1, <1>3 DEF Mine
  <2>. QED BY <1>2, <2>1 DEF Own, Live, Taken
<1>4. c \in Mine(caller[c])
  BY DEF Mine, Entries
<1>5. /\ Live(caller[c])' = IF v \in Ongoing THEN Live(caller[c]) \cup {c} ELSE Live(caller[c]) \ {c}
      /\ Taken(caller[c])' = IF v = "Accepted" THEN Taken(caller[c]) \cup {c} ELSE Taken(caller[c]) \ {c}
  <2>. PICK a : a = caller[c]
    OBVIOUS
  <2>1. Live(a)' = {d \in Mine(a) : registry'[d] \in Ongoing} /\ Taken(a)' = {d \in Mine(a) : registry'[d] = "Accepted"}
    BY <1>2 DEF Live, Taken
  <2>2. /\ Live(a)' = IF v \in Ongoing THEN Live(a) \cup {c} ELSE Live(a) \ {c}
        /\ Taken(a)' = IF v = "Accepted" THEN Taken(a) \cup {c} ELSE Taken(a) \ {c}
    BY <1>1, <1>4, <2>1 DEF Live, Taken
  <2>. QED BY <2>2
<1>. QED BY <1>1, <1>2, <1>3, <1>5 DEF Reg, Entries

\* A call in the registry is the newest of its page, which has heard of no later one.
LEMMA NewestCall ==
  ASSUME Shape, Rules, NEW c \in Entries, registry[c] \in Ongoing
  PROVE  /\ caller[c] \in Admins /\ c \in Live(caller[c])
         /\ \A d \in Accs(caller[c]) : d <= c
         /\ \A d \in Fins(caller[c]) : d < c
<1>1. caller[c] \in Admins /\ c \in Mine(caller[c])
  BY CallerIs
<1>2. c \in Live(caller[c])
  BY <1>1 DEF Live
<1>3. PageRule(caller[c])
  BY <1>1 DEF Rules
<1>. PICK a : a = caller[c]
  OBVIOUS
<1>4. \A d \in Accs(a) \cup Fins(a) : d \in Mine(a) /\ d <= c
  BY <1>2, <1>3 DEF PageRule, PageTypes, PageLearns
<1>5. \A d \in Fins(a) : d # c
  BY <1>2, <1>3 DEF PageRule, PageLearns
<1>6. \A d \in Mine(a) : d \in Nat
  BY <1>3 DEF PageRule, PageTypes
<1>7. c \in Nat
  BY EntriesAre
<1>. QED BY <1>1, <1>2, <1>4, <1>5, <1>6, <1>7

\* What is told when a call is removed.
LEMMA ClosingTold ==
  ASSUME Shape, Rules, NEW c \in Entries, registry[c] \in Ongoing, registry' = [registry EXCEPT ![c] = "none"],
         UNCHANGED caller, NEW t, NEW ks, (t = "rejected" /\ ks = {}) \/ (t = "ended" /\ ks = Tabs),
         Broadcast({caller[c]} \cup ks, Msg(t, c)), NEW a, a = caller[c]
  PROVE  /\ a \in Admins /\ c \in Live(a) /\ Reg(c) \in Ongoing
         /\ Mine(a)' = Mine(a) /\ Live(a)' = Live(a) \ {c} /\ Taken(a)' = Taken(a) \ {c}
         /\ Accs(a)' = Accs(a) /\ Fins(a)' = Fins(a) \cup {c}
         /\ \A b \in Admins \ {a} : UNCHANGED <<Own(b), News(b)>>
         /\ Reg(c)' = "none" /\ \A d : d # c => UNCHANGED <<Reg(d), Pend(d), Done(d)>>
         /\ Pend(c)' = Pend(c) /\ Done(c)' = Done(c) \cup ks
         /\ \A j \in Conns : CastOK(j)'
         /\ Entries' = Entries
<1>. DEFINE m == Msg(t, c)
<1>1. m \in Letter /\ m.t = t /\ m.c = c
  BY LetterIs, EntriesAre DEF Words, Over, Msg
<1>2. \A d, w : m = Msg(w, d) <=> w = t /\ d = c
  BY DEF Msg
<1>3. Broadcast({a} \cup ks, m)
  OBVIOUS
<1>. HIDE DEF m
<1>4. /\ a \in Admins /\ c \in Live(a)
      /\ \A d \in Accs(a) : d <= c
      /\ \A d \in Fins(a) : d < c
  BY NewestCall
<1>5. /\ \A b \in Admins : b \in {a} \cup ks => b = a
      /\ \A u \in Tabs : u \in {a} \cup ks => t = "ended"
  BY <1>4, Sides
<1>6. /\ \A b \in Admins : /\ Accs(b)' = Accs(b) \cup (IF b \in {a} \cup ks THEN With(m, "accepted") ELSE {})
                           /\ Fins(b)' = Fins(b) \cup (IF b \in {a} \cup ks THEN With(m, "rejected") \cup With(m, "ended") ELSE {})
      /\ \A d : /\ Pend(d)' = Pend(d) \cup {u \in Tabs : u \in {a} \cup ks /\ m = Msg("incoming", d)}
                /\ Done(d)' = Done(d) \cup {u \in Tabs : u \in {a} \cup ks /\ m = Msg("ended", d)}
      /\ \A j \in Conns : CastOK(j)'
  <2>1. \A b \in Admins : b \in {a} \cup ks =>
          /\ m.t \in {"accepted", "rejected", "ended", "answerSdp"}
          /\ m.t \in Tells => /\ \A d \in Accs(b) : d <= m.c
                              /\ \A d \in Fins(b) : d < m.c
    BY <1>1, <1>4, <1>5
  <2>2. \A u \in Tabs : u \in {a} \cup ks => m.t \in {"incoming", "ended", "offer"} /\ (m.t = "incoming" => u \notin Pend(m.c))
    BY <1>1, <1>5
  <2>3. \A j \in Conns : up[j] /\ CastOK(j)
    BY DEF Rules, QueueRules
  <2>. QED BY <1>1, <1>3, <2>1, <2>2, <2>3, LettersAre, Tellings
<1>7. /\ Reg(c)' = "none" /\ \A d : d # c => Reg(d)' = Reg(d)
      /\ \A b : Mine(b)' = Mine(b)
      /\ \A b : b # a => UNCHANGED Own(b)
      /\ Live(a)' = Live(a) \ {c} /\ Taken(a)' = Taken(a) \ {c}
      /\ Entries' = Entries
  <2>1. "none" \notin Ongoing
    BY DEF Ongoing
  <2>. QED BY ZenonT(60), <2>1, RegistryIs
<1>8. Accs(a)' = Accs(a) /\ Fins(a)' = Fins(a) \cup {c}
  BY ZenonT(60), <1>1, <1>4, <1>6 DEF With
<1>9. ASSUME NEW b \in Admins \ {a} PROVE UNCHANGED News(b)
  BY ZenonT(60), <1>5, <1>6 DEF News
<1>10. ASSUME NEW d, d # c PROVE Pend(d)' = Pend(d) /\ Done(d)' = Done(d)
  <2>1. m # Msg("incoming", d) /\ m # Msg("ended", d)
    BY <1>2, <1>10
  <2>. QED BY <1>6, <2>1
<1>11. Pend(c)' = Pend(c) /\ Done(c)' = Done(c) \cup ks
  <2>1. a \notin Tabs
    BY <1>4, Sides
  <2>2. {u \in Tabs : u \in {a} \cup ks /\ m = Msg("incoming", c)} = {}
    BY <1>2
  <2>3. \A u \in Tabs : u \in {a} \cup ks /\ m = Msg("ended", c) <=> u \in ks
    BY <1>2, <2>1
  <2>4. ks \subseteq Tabs
    OBVIOUS
  <2>5. {u \in Tabs : u \in {a} \cup ks /\ m = Msg("ended", c)} = ks
    BY <2>3, <2>4
  <2>. QED BY <1>6, <2>2, <2>5
<1>12. Reg(c) \in Ongoing
  BY DEF Reg
<1>. QED BY <1>4, <1>6, <1>7, <1>8, <1>9, <1>10, <1>11, <1>12

\* The ring timeout removes a call.
LEMMA TimerRemovesRules ==
  ASSUME Shape, CallInv, Rules, odd' = {}, NEW c \in Calls, TimerRemoves(c)
  PROVE  Rules'
<1>1. /\ timer[c] = "checked" /\ registry' = [registry EXCEPT ![c] = "none"]
      /\ Broadcast({caller[c]} \cup Tabs, Msg("ended", c))
      /\ UNCHANGED <<caller, hand, toGw, resp, up, clients, odd>>
  BY DEF TimerRemoves
<1>2. registry[c] = "Ringing" /\ c \in Entries
  <2>1. Clear
    BY <1>1 DEF Clear
  <2>2. registry[c] = "Ringing"
    BY <1>1, <2>1 DEF CallInv, CallOK
  <2>3. ~(c > Len(caller)) /\ c \in Nat \ {0} /\ Len(caller) \in Nat
    BY <2>2, EntriesAre DEF CallInv, Fresh, Calls
  <2>. QED BY <2>2, <2>3 DEF Entries
<1>. PICK a : a = caller[c]
  OBVIOUS
<1>3. /\ a \in Admins /\ c \in Live(a) /\ Reg(c) \in Ongoing
      /\ Mine(a)' = Mine(a) /\ Live(a)' = Live(a) \ {c} /\ Taken(a)' = Taken(a) \ {c}
      /\ Accs(a)' = Accs(a) /\ Fins(a)' = Fins(a) \cup {c}
      /\ \A b \in Admins \ {a} : UNCHANGED <<Own(b), News(b)>>
      /\ Reg(c)' = "none" /\ \A d : d # c => UNCHANGED <<Reg(d), Pend(d), Done(d)>>
      /\ Pend(c)' = Pend(c) /\ Done(c)' = Done(c) \cup Tabs
      /\ \A j \in Conns : CastOK(j)'
      /\ Entries' = Entries
  <2>1. registry[c] \in Ongoing
    BY <1>2 DEF Ongoing
  <2>. QED BY <1>1, <1>2, <2>1, ClosingTold
<1>4. ASSUME NEW b \in Admins PROVE PageRule(b)'
  <2>1. UNCHANGED <<Face(b), Sent(b), Due(b)>>
    BY <1>1, Frames
  <2>2. b # a => UNCHANGED <<Own(b), News(b)>>
    BY <1>3
  <2>3. CASE b # a
    BY <2>1, <2>2, <2>3, PageStays DEF Rules
  <2>4. CASE b = a
    BY <1>3, <2>1, <2>4, PageLoses DEF Rules
  <2>. QED BY <2>3, <2>4
<1>5. (\A k \in Conns : HandOK(k)') /\ \A d : AnsH(d)' = AnsH(d)
  BY <1>1, HandsRest
<1>6. ASSUME NEW d \in Entries' PROVE TabsRule(d)'
  <2>1. UNCHANGED <<Faces(d), Actions(d), Errd(d)>> /\ AnsH(d)' = AnsH(d) /\ d \in Entries
    BY <1>1, <1>3, <1>5, Frames
  <2>2. CASE d # c
    <3>1. UNCHANGED <<Reg(d), Pend(d), Done(d)>>
      BY <1>3, <2>2
    <3>2. UNCHANGED <<Taking(d), Notices(d)>>
      BY <2>1, <3>1, ToldStays DEF Taking, Notices
    <3>. QED BY <2>1, <3>2, TabsStay DEF Rules
  <2>3. CASE d = c
    <3>1. Told(d)' = Tabs
      BY <1>3, <2>3 DEF Told, Errd, Done
    <3>2. UNCHANGED <<AnsQ(d), Rejs(d), Left(d)>>
      BY <2>1 DEF Actions
    <3>. QED BY <1>3, <2>1, <2>3, <3>1, <3>2, CallIsOver DEF Rules
  <2>. QED BY <2>2, <2>3
<1>7. \A k \in Conns : OutOK(k)' /\ RespOK(k)'
  BY <1>1, Frames DEF Rules, QueueRules
<1>. QED BY <1>1, <1>3, <1>4, <1>5, <1>6, <1>7, GatewayActs

\* What the gateway takes from a client that leaves, or answers, a call.
LEMMA TakesCall ==
  ASSUME Shape, Rules, NEW k \in Conns, Take(k), NEW h, h = Next1(k), h.t \in {"answer", "reject", "end"}
  PROVE  /\ h \in Letter /\ h.c \in Entries
         /\ \A j \in Conns : OutOK(j)'
         /\ \A b \in Admins : (Asks(b)' = Asks(b)) /\ (b # k => UNCHANGED Sent(b))
         /\ k \in Admins => h.t = "end" /\ Ends(k) = Ends(k)' \cup {h.c} /\ h.c \in Mine(k) /\ Ring(k) = {}
         /\ \A d : d # h.c \/ k \in Admins => UNCHANGED Actions(d)
         /\ k \in Tabs => LET S(t) == IF h.t = t THEN {k} ELSE {}
                          IN  /\ AnsQ(h.c) = AnsQ(h.c)' \cup S("answer")
                              /\ Rejs(h.c) = Rejs(h.c)' \cup S("reject")
                              /\ Left(h.c) = Left(h.c)' \cup S("end")
         /\ k \in Tabs /\ h.t = "answer" => k \notin AnsQ(h.c)'
<1>1. /\ h \in Letter
      /\ \A a \in Admins : /\ Asks(a) <=> Asks(a)' \/ (a = k /\ h.t = "initiate")
                           /\ Ends(a) = Ends(a)' \cup (IF a = k THEN With(h, "end") ELSE {})
      /\ \A c : /\ AnsQ(c) = AnsQ(c)' \cup By(k, h, "answer", c)
                /\ Rejs(c) = Rejs(c)' \cup By(k, h, "reject", c)
                /\ Left(c) = Left(c)' \cup By(k, h, "end", c)
      /\ \A j \in Conns : OutOK(j)'
      /\ k \in Tabs /\ h.t = "answer" => k \notin AnsQ(h.c)'
      /\ h.t \in TabWords => h.c # 0
      /\ k \in Admins => h.t \in PageWords
  BY Takes DEF Rules, QueueRules
<1>2. h.c \in Entries
  BY <1>1, EntriesAre DEF Letter, TabWords
<1>3. ASSUME NEW b \in Admins PROVE (Asks(b)' = Asks(b)) /\ (b # k => UNCHANGED Sent(b))
  <2>1. Asks(b)' <=> Asks(b)
    BY <1>1
  <2>2. Asks(b)' = Asks(b)
    BY <2>1, Zenon DEF Asks
  <2>3. b # k => Ends(b)' = Ends(b)
    BY <1>1
  <2>. QED BY <2>2, <2>3 DEF Sent
<1>4. ASSUME k \in Admins PROVE h.t = "end" /\ Ends(k) = Ends(k)' \cup {h.c} /\ h.c \in Mine(k) /\ Ring(k) = {}
  <2>1. h.t = "end" /\ Ends(k) = Ends(k)' \cup {h.c}
    BY <1>1, <1>4 DEF PageWords, With
  <2>2. PageRule(k) /\ h.c \in Ends(k)
    BY <1>4, <2>1 DEF Rules
  <2>. QED BY <2>1, <2>2 DEF PageRule, PageTypes, PageShows
<1>5. ASSUME NEW d, d # h.c \/ k \in Admins PROVE UNCHANGED Actions(d)
  <2>1. \A t : By(k, h, t, d) = {}
    BY <1>5, Sides DEF By
  <2>. QED BY <1>1, <2>1 DEF Actions
<1>6. ASSUME k \in Tabs
      PROVE  LET S(t) == IF h.t = t THEN {k} ELSE {}
             IN  /\ AnsQ(h.c) = AnsQ(h.c)' \cup S("answer")
                 /\ Rejs(h.c) = Rejs(h.c)' \cup S("reject")
                 /\ Left(h.c) = Left(h.c)' \cup S("end")
  BY <1>1, <1>6 DEF By
<1>. QED BY <1>1, <1>2, <1>3, <1>4, <1>5, <1>6

\* What is asked of a call comes too late.
LEMMA RefusalRules ==
  ASSUME Shape, Rules, NEW k \in Conns, Take(k), NEW h, h = Next1(k), h.t \in {"answer", "reject", "end"},
         Refusal(k, h.c), UNCHANGED <<up, clients>>, registry[h.c] # "Ringing", h.t = "answer" \/ registry[h.c] \notin Ongoing
  PROVE  Rules'
<1>. DEFINE m == Msg("error", h.c)
<1>1. /\ resp' = [resp EXCEPT ![k] = Append(@, m)]
      /\ UNCHANGED <<caller, registry, timer, record, hand, bcast, odd>>
  BY DEF Refusal
<1>2. /\ h \in Letter /\ h.c \in Entries
      /\ \A j \in Conns : OutOK(j)'
      /\ \A b \in Admins : (Asks(b)' = Asks(b)) /\ (b # k => UNCHANGED Sent(b))
      /\ k \in Admins => h.t = "end" /\ Ends(k) = Ends(k)' \cup {h.c} /\ h.c \in Mine(k) /\ Ring(k) = {}
      /\ \A d : d # h.c \/ k \in Admins => UNCHANGED Actions(d)
      /\ k \in Tabs => LET S(t) == IF h.t = t THEN {k} ELSE {}
                       IN  /\ AnsQ(h.c) = AnsQ(h.c)' \cup S("answer")
                           /\ Rejs(h.c) = Rejs(h.c)' \cup S("reject")
                           /\ Left(h.c) = Left(h.c)' \cup S("end")
      /\ k \in Tabs /\ h.t = "answer" => k \notin AnsQ(h.c)'
  BY TakesCall
<1>3. m \in Letter /\ m.t = "error" /\ m.c = h.c
  BY <1>2, LetterIs DEF Words, Msg, Letter
<1>. HIDE DEF m
<1>4. /\ \A a \in Admins : /\ Ring(a)' = Ring(a) \cup (IF a = k THEN With(m, "ringing") ELSE {})
                           /\ Errs(a)' = Errs(a) \cup (IF a = k THEN With(m, "error") ELSE {})
      /\ \A d : Errd(d)' = Errd(d) \cup By(k, m, "error", d)
      /\ \A j \in Conns : RespOK(j)'
  BY <1>1, <1>2, <1>3, LettersAre, Replies DEF Rules, QueueRules
<1>5. ASSUME NEW b \in Admins PROVE PageRule(b)'
  <2>1. UNCHANGED <<Face(b), News(b), Own(b)>>
    BY <1>1, Frames
  <2>2. CASE b # k
    <3>1. Ring(b)' = Ring(b) /\ Errs(b)' = Errs(b)
      BY <1>4, <2>2
    <3>2. UNCHANGED <<Sent(b), Due(b)>>
      BY <1>2, <2>2, <3>1 DEF Due
    <3>. QED BY <2>1, <3>2, PageStays DEF Rules
  <2>3. CASE b = k
    <3>1. Ring(b)' = Ring(b) /\ Errs(b)' = Errs(b) \cup {h.c}
      BY <1>3, <1>4, <2>3 DEF With
    <3>2. h.c \in Mine(b) \ Live(b)
      BY <1>2, <2>3 DEF Live
    <3>. QED BY <1>2, <2>1, <2>3, <3>1, <3>2, PageEndRefused DEF Rules
  <2>. QED BY <2>2, <2>3
<1>6. ASSUME NEW d \in Entries' PROVE TabsRule(d)'
  <2>1. UNCHANGED <<Faces(d), Pend(d), Done(d), Taking(d)>> /\ d \in Entries
    BY <1>1, Frames
  <2>2. Errd(d)' = Errd(d) \cup (IF k \in Tabs /\ h.c = d THEN {k} ELSE {})
    BY <1>3, <1>4 DEF By
  <2>3. CASE d # h.c \/ k \in Admins
    <3>1. Errd(d)' = Errd(d)
      BY <2>2, <2>3, Sides
    <3>2. UNCHANGED Notices(d)
      BY <2>1, <3>1, ToldStays DEF Notices
    <3>. QED BY <1>2, <2>1, <2>3, <3>2, TabsStay DEF Rules
  <2>4. CASE d = h.c /\ k \in Tabs
    <3>1. Told(d)' = Told(d) \cup {k}
      BY <2>1, <2>2, <2>4 DEF Told
    <3>2. TabsRule(d)
      BY <2>1 DEF Rules
    <3>3. Reg(d) = registry[h.c]
      BY <2>4 DEF Reg
    <3>4. registry[h.c] \in {"none"} \cup Ongoing
      BY <3>2, <3>3 DEF TabsRule, TabsClaim
    <3>5. CASE h.t = "answer"
      <4>1. k \in AnsQ(d) /\ AnsQ(d)' = AnsQ(d) \ {k} /\ Rejs(d)' = Rejs(d) /\ Left(d)' = Left(d)
        BY <1>2, <2>4, <3>5
      <4>. QED BY <2>1, <3>1, <3>2, <3>3, <4>1, AnswerIsLate
    <3>6. CASE h.t = "reject"
      <4>1. k \in Rejs(d) /\ Rejs(d) = Rejs(d)' \cup {k} /\ AnsQ(d)' = AnsQ(d) /\ Left(d)' = Left(d)
        BY <1>2, <2>4, <3>6
      <4>. QED BY <2>1, <3>1, <3>2, <3>3, <3>4, <3>6, <4>1, RejectIsLate
    <3>7. CASE h.t = "end"
      <4>1. k \in Left(d) /\ Left(d)' \subseteq Left(d) /\ AnsQ(d)' = AnsQ(d) /\ Rejs(d)' = Rejs(d)
        BY <1>2, <2>4, <3>7
      <4>. QED BY <2>1, <3>1, <3>2, <3>3, <3>4, <3>7, <4>1, EndIsLate
    <3>. QED BY <3>5, <3>6, <3>7
  <2>. QED BY <2>3, <2>4 DEF Conns
<1>7. \A j \in Conns : CastOK(j)' /\ HandOK(j)'
  BY <1>1, Frames, HandsRest DEF Rules, QueueRules
<1>. QED BY <1>2, <1>4, <1>5, <1>6, <1>7, GatewayActs

LEMMA AnswerRules == ASSUME Shape, Rules, NEW u \in Tabs, Answer(u) PROVE Rules'
<1>. PICK h : h = Next1(u)
  OBVIOUS
<1>1. /\ u \in Conns /\ Take(u) /\ h.t = "answer" /\ UNCHANGED <<up, clients>>
      /\ \/ /\ registry[h.c] = "Ringing" /\ Hand(u, "answer", h.c)
            /\ UNCHANGED <<caller, registry, timer, record, resp, bcast>>
         \/ registry[h.c] # "Ringing" /\ Refusal(u, h.c)
  BY Sides DEF Answer
<1>2. CASE registry[h.c] # "Ringing" /\ Refusal(u, h.c)
  BY <1>1, <1>2, RefusalRules
<1>3. CASE /\ registry[h.c] = "Ringing" /\ Hand(u, "answer", h.c)
           /\ UNCHANGED <<caller, registry, timer, record, resp, bcast>>
  <2>1. /\ h \in Letter /\ h.c \in Entries
        /\ \A j \in Conns : OutOK(j)'
        /\ \A b \in Admins : b # u => UNCHANGED Sent(b)
        /\ \A d : d # h.c => UNCHANGED Actions(d)
        /\ AnsQ(h.c) = AnsQ(h.c)' \cup {u} /\ Rejs(h.c) = Rejs(h.c)' /\ Left(h.c) = Left(h.c)'
        /\ u \notin AnsQ(h.c)'
    <3>1. /\ h \in Letter /\ h.c \in Entries
          /\ \A j \in Conns : OutOK(j)'
          /\ \A b \in Admins : (Asks(b)' = Asks(b)) /\ (b # u => UNCHANGED Sent(b))
          /\ \A d : d # h.c \/ u \in Admins => UNCHANGED Actions(d)
          /\ u \in Tabs => LET S(t) == IF h.t = t THEN {u} ELSE {}
                           IN  /\ AnsQ(h.c) = AnsQ(h.c)' \cup S("answer")
                               /\ Rejs(h.c) = Rejs(h.c)' \cup S("reject")
                               /\ Left(h.c) = Left(h.c)' \cup S("end")
          /\ u \in Tabs /\ h.t = "answer" => u \notin AnsQ(h.c)'
      BY <1>1, TakesCall
    <3>. QED BY <1>1, <3>1
  <2>2. /\ \A j \in Conns : HandOK(j)'
        /\ \A c : AnsH(c)' = AnsH(c) \cup (IF h.c = c THEN {u} ELSE {})
    <3>. DEFINE n == [op |-> "answer", c |-> h.c]
    <3>1. hand' = [hand EXCEPT ![u] = n] /\ n.op = "answer" /\ n.c = h.c /\ hand[u].op # "answer"
      BY <1>1, <1>3 DEF Hand, Take, Idle
    <3>. HIDE DEF n
    <3>2. h.c # 0
      BY <2>1, EntriesAre
    <3>3. /\ \A j \in Conns : HandOK(j)'
          /\ \A c : AnsH(c)' = (AnsH(c) \ {u}) \cup (IF u \in Tabs /\ n.op = "answer" /\ n.c = c THEN {u} ELSE {})
          /\ \A c : u \in AnsH(c) <=> u \in Tabs /\ hand[u].op = "answer" /\ hand[u].c = c
      BY <1>1, <3>1, <3>2, HandGoesOn
    <3>. QED BY <3>1, <3>3
  <2>3. ASSUME NEW b \in Admins PROVE PageRule(b)'
    <3>1. UNCHANGED <<Face(b), Sent(b), Due(b), News(b), Own(b)>>
      BY <1>1, <1>3, <2>1, Sides, Frames
    <3>. QED BY <3>1, PageStays DEF Rules
  <2>4. ASSUME NEW d \in Entries' PROVE TabsRule(d)'
    <3>1. UNCHANGED <<Faces(d), Notices(d), Reg(d)>> /\ d \in Entries
      BY <1>1, <1>3, Frames, ToldStays DEF Notices, Reg
    <3>2. CASE d # h.c
      <4>1. UNCHANGED <<Actions(d), Taking(d)>>
        BY <2>1, <2>2, <3>1, <3>2 DEF Taking
      <4>. QED BY <3>1, <4>1, TabsStay DEF Rules
    <3>3. CASE d = h.c
      <4>1. Reg(d) = "Ringing"
        BY <1>3, <3>3 DEF Reg
      <4>2. u \in AnsQ(d) /\ AnsQ(d)' = AnsQ(d) \ {u} /\ AnsH(d)' = AnsH(d) \cup {u}
            /\ UNCHANGED <<Rejs(d), Left(d)>>
        BY <2>1, <2>2, <3>3
      <4>. QED BY <3>1, <4>1, <4>2, CallIsTaken DEF Rules
    <3>. QED BY <3>2, <3>3
  <2>5. \A k \in Conns : RespOK(k)' /\ CastOK(k)'
    BY <1>3, Frames DEF Rules, QueueRules
  <2>. QED BY <1>1, <2>1, <2>2, <2>3, <2>4, <2>5, GatewayActs
<1>. QED BY <1>1, <1>2, <1>3

\* A call whose answer is in hand still rings.
LEMMA AnswerMarksRules ==
  ASSUME Shape, CallInv, Rules, odd' = {}, NEW u \in Tabs, AnswerMarks(u)
  PROVE  Rules'
<1>. PICK c : c = hand[u].c
  OBVIOUS
<1>1. /\ u \in Conns /\ hand[u].op = "answer" /\ hand[u].c = c /\ c # 0
      /\ registry' = [registry EXCEPT ![c] = IF @ = "none" THEN @ ELSE "Accepted"]
      /\ Broadcast({caller[c]}, Msg("accepted", c)) /\ Hand(u, "answered", c)
      /\ UNCHANGED <<caller, toGw, resp, up, clients, odd>>
  BY Sides DEF AnswerMarks, Rules, QueueRules
<1>2. c \in Entries
  <2>1. c \in Ids
    BY <1>1 DEF Shape, GatewayOK
  <2>. QED BY <1>1, <2>1, EntriesAre
<1>3. registry[c] = "Ringing" /\ registry' = [registry EXCEPT ![c] = "Accepted"]
  <2>1. Clear /\ c \in Calls
    BY <1>1, <1>2, EntriesAre DEF Clear
  <2>2. registry[c] = "Ringing"
    BY <1>1, <2>1 DEF CallInv, CallOK, At, Phase
  <2>. QED BY <1>1, <2>2
<1>. PICK a : a = caller[c]
  OBVIOUS
<1>4. /\ a \in Admins /\ c \in Live(a)
      /\ \A d \in Accs(a) : d <= c
      /\ \A d \in Fins(a) : d < c
  BY <1>2, <1>3, NewestCall DEF Ongoing
<1>5. /\ Reg(c)' = "Accepted" /\ \A d : d # c => Reg(d)' = Reg(d)
      /\ \A b : Mine(b)' = Mine(b)
      /\ \A b : b # a => UNCHANGED Own(b)
      /\ Live(a)' = Live(a) /\ Taken(a)' = Taken(a) \cup {c}
      /\ Entries' = Entries
  <2>1. "Accepted" \in Ongoing
    BY DEF Ongoing
  <2>2. /\ Reg(c)' = "Accepted" /\ \A d : d # c => Reg(d)' = Reg(d)
        /\ \A b : Mine(b)' = Mine(b)
        /\ \A b : b # a => UNCHANGED Own(b)
        /\ Live(a)' = Live(a) \cup {c} /\ Taken(a)' = Taken(a) \cup {c}
        /\ Entries' = Entries
    BY <1>1, <1>2, <1>3, <2>1, RegistryIs
  <2>. QED BY <1>4, <2>2
<1>6. /\ Accs(a)' = Accs(a) \cup {c} /\ Fins(a)' = Fins(a)
      /\ \A b \in Admins \ {a} : UNCHANGED News(b)
      /\ \A d : Pend(d)' = Pend(d) /\ Done(d)' = Done(d)
      /\ \A j \in Conns : CastOK(j)'
  <2>. DEFINE m == Msg("accepted", c)
  <2>1. m \in Letter /\ m.t = "accepted" /\ m.c = c
    BY <1>2, LetterIs, EntriesAre DEF Words, Msg
  <2>2. \A d : m # Msg("incoming", d) /\ m # Msg("ended", d)
    BY DEF Msg
  <2>3. Broadcast({a}, m)
    BY <1>1
  <2>. HIDE DEF m
  <2>4. /\ \A b \in Admins : b \in {a} => /\ m.t \in {"accepted", "rejected", "ended", "answerSdp"}
                                          /\ m.t \in Tells => /\ \A d \in Accs(b) : d <= m.c
                                                              /\ \A d \in Fins(b) : d < m.c
        /\ \A v \in Tabs : v \notin {a}
    BY <1>4, <2>1, Sides
  <2>5. /\ \A b \in Admins : /\ Accs(b)' = Accs(b) \cup (IF b \in {a} THEN With(m, "accepted") ELSE {})
                             /\ Fins(b)' = Fins(b) \cup (IF b \in {a} THEN With(m, "rejected") \cup With(m, "ended") ELSE {})
        /\ \A d : /\ Pend(d)' = Pend(d) \cup {v \in Tabs : v \in {a} /\ m = Msg("incoming", d)}
                  /\ Done(d)' = Done(d) \cup {v \in Tabs : v \in {a} /\ m = Msg("ended", d)}
        /\ \A j \in Conns : CastOK(j)'
    <3>1. \A j \in Conns : up[j] /\ CastOK(j)
      BY DEF Rules, QueueRules
    <3>. QED BY <2>1, <2>3, <2>4, <3>1, LettersAre, Tellings
  <2>6. \A d : Pend(d)' = Pend(d) /\ Done(d)' = Done(d)
    BY <2>2, <2>5
  <2>7. Accs(a)' = Accs(a) \cup {c} /\ Fins(a)' = Fins(a)
    BY <1>4, <2>1, <2>5 DEF With
  <2>8. ASSUME NEW b \in Admins \ {a} PROVE UNCHANGED News(b)
    BY ZenonT(60), <2>5 DEF News
  <2>. QED BY <2>5, <2>6, <2>7, <2>8
<1>7. /\ \A j \in Conns : HandOK(j)'
      /\ \A d : AnsH(d)' = AnsH(d) \ {u}
      /\ \A d : u \in AnsH(d) <=> c = d
  <2>. DEFINE n == [op |-> "answered", c |-> c]
  <2>1. hand' = [hand EXCEPT ![u] = n] /\ n.op # "answer"
    BY <1>1 DEF Hand
  <2>. HIDE DEF n
  <2>2. /\ \A j \in Conns : HandOK(j)'
        /\ \A d : AnsH(d)' = (AnsH(d) \ {u}) \cup (IF u \in Tabs /\ n.op = "answer" /\ n.c = d THEN {u} ELSE {})
        /\ \A d : u \in AnsH(d) <=> u \in Tabs /\ hand[u].op = "answer" /\ hand[u].c = d
    BY <1>1, <2>1, HandGoesOn
  <2>. QED BY <1>1, <2>1, <2>2
<1>8. ASSUME NEW b \in Admins PROVE PageRule(b)'
  <2>1. UNCHANGED <<Face(b), Sent(b), Due(b)>>
    BY <1>1, Frames
  <2>2. CASE b # a
    BY <1>5, <1>6, <2>1, <2>2, PageStays DEF Rules
  <2>3. CASE b = a
    BY <1>4, <1>5, <1>6, <2>1, <2>3, PageAnswered DEF Rules
  <2>. QED BY <2>2, <2>3
<1>9. ASSUME NEW d \in Entries' PROVE TabsRule(d)'
  <2>1. UNCHANGED <<Faces(d), Actions(d), Notices(d)>> /\ d \in Entries
    BY <1>1, <1>5, <1>6, Frames, ToldStays DEF Notices
  <2>2. CASE d # c
    <3>1. UNCHANGED Taking(d)
      BY <1>5, <1>7, <2>2 DEF Taking
    <3>. QED BY <2>1, <3>1, TabsStay DEF Rules
  <2>3. CASE d = c
    <3>1. u \in AnsH(d) /\ AnsH(d)' = AnsH(d) \ {u} /\ Reg(d)' = "Accepted"
      BY <1>5, <1>7, <2>3
    <3>2. Reg(d) = "Ringing"
      BY <1>3, <2>3 DEF Reg
    <3>. QED BY <2>1, <3>1, <3>2, CallIsAnswered DEF Rules
  <2>. QED BY <2>2, <2>3
<1>10. \A k \in Conns : OutOK(k)' /\ RespOK(k)'
  BY <1>1, Frames DEF Rules, QueueRules
<1>. QED BY <1>1, <1>6, <1>7, <1>8, <1>9, <1>10, GatewayActs

\* A call is rejected by a tab, or ended by a tab or its page.
LEMMA LeavesRules ==
  ASSUME Shape, Rules, NEW k \in Conns, NEW t, NEW outcome, NEW ks, Leaves(k, t, outcome, ks),
         \/ t = "reject" /\ outcome = "rejected" /\ ks = {} /\ k \in Tabs
         \/ t = "end" /\ outcome = "ended" /\ ks = Tabs
  PROVE  Rules'
<1>. PICK h : h = Next1(k)
  OBVIOUS
<1>1. /\ Take(k) /\ h.t = t /\ UNCHANGED <<up, clients>>
      /\ \/ /\ registry[h.c] \in Ongoing /\ registry' = [registry EXCEPT ![h.c] = "none"]
            /\ Broadcast({caller[h.c]} \cup ks, Msg(outcome, h.c))
            /\ Hand(k, outcome, h.c)
            /\ UNCHANGED <<caller, timer, record, resp>>
         \/ registry[h.c] \notin Ongoing /\ Refusal(k, h.c)
  BY DEF Leaves
<1>2. CASE registry[h.c] \notin Ongoing /\ Refusal(k, h.c)
  BY <1>1, <1>2, RefusalRules DEF Ongoing
<1>3. CASE /\ registry[h.c] \in Ongoing /\ registry' = [registry EXCEPT ![h.c] = "none"]
           /\ Broadcast({caller[h.c]} \cup ks, Msg(outcome, h.c))
           /\ Hand(k, outcome, h.c)
           /\ UNCHANGED <<caller, timer, record, resp>>
  <2>. PICK c, a : c = h.c /\ a = caller[c]
    OBVIOUS
  <2>1. /\ c \in Entries
        /\ \A j \in Conns : OutOK(j)'
        /\ \A b \in Admins : (Asks(b)' = Asks(b)) /\ (b # k => UNCHANGED Sent(b))
        /\ k \in Admins => t = "end" /\ Ends(k) = Ends(k)' \cup {c} /\ c \in Mine(k)
        /\ \A d : d # c \/ k \in Admins => UNCHANGED Actions(d)
        /\ k \in Tabs => AnsQ(c)' = AnsQ(c)
        /\ k \in Tabs /\ t = "reject" => k \in Rejs(c) /\ Rejs(c) = Rejs(c)' \cup {k} /\ Left(c)' = Left(c)
        /\ k \in Tabs /\ t = "end" => Rejs(c)' = Rejs(c) /\ Left(c)' \subseteq Left(c)
    <3>1. /\ h \in Letter /\ h.c \in Entries
          /\ \A j \in Conns : OutOK(j)'
          /\ \A b \in Admins : (Asks(b)' = Asks(b)) /\ (b # k => UNCHANGED Sent(b))
          /\ k \in Admins => h.t = "end" /\ Ends(k) = Ends(k)' \cup {h.c} /\ h.c \in Mine(k) /\ Ring(k) = {}
          /\ \A d : d # h.c \/ k \in Admins => UNCHANGED Actions(d)
          /\ k \in Tabs => LET S(w) == IF h.t = w THEN {k} ELSE {}
                           IN  /\ AnsQ(h.c) = AnsQ(h.c)' \cup S("answer")
                               /\ Rejs(h.c) = Rejs(h.c)' \cup S("reject")
                               /\ Left(h.c) = Left(h.c)' \cup S("end")
      BY <1>1, TakesCall
    <3>. QED BY <1>1, <3>1
  <2>2. /\ a \in Admins /\ c \in Live(a) /\ Reg(c) \in Ongoing
        /\ Mine(a)' = Mine(a) /\ Live(a)' = Live(a) \ {c} /\ Taken(a)' = Taken(a) \ {c}
        /\ Accs(a)' = Accs(a) /\ Fins(a)' = Fins(a) \cup {c}
        /\ \A b \in Admins \ {a} : UNCHANGED <<Own(b), News(b)>>
        /\ Reg(c)' = "none" /\ \A d : d # c => UNCHANGED <<Reg(d), Pend(d), Done(d)>>
        /\ Pend(c)' = Pend(c) /\ Done(c)' = Done(c) \cup ks
        /\ \A j \in Conns : CastOK(j)'
        /\ Entries' = Entries
    <3>1. /\ registry[c] \in Ongoing /\ registry' = [registry EXCEPT ![c] = "none"] /\ UNCHANGED caller
          /\ Broadcast({caller[c]} \cup ks, Msg(outcome, c))
          /\ (outcome = "rejected" /\ ks = {}) \/ (outcome = "ended" /\ ks = Tabs)
      BY <1>3
    <3>. QED BY ZenonT(60), <2>1, <3>1, ClosingTold
  <2>3. (\A j \in Conns : HandOK(j)') /\ \A d : AnsH(d)' = AnsH(d)
    <3>. DEFINE n == [op |-> outcome, c |-> c]
    <3>1. hand' = [hand EXCEPT ![k] = n] /\ n.op # "answer" /\ hand[k].op # "answer"
      BY <1>1, <1>3 DEF Hand, Take, Idle
    <3>. HIDE DEF n
    <3>2. /\ \A j \in Conns : HandOK(j)'
          /\ \A d : AnsH(d)' = (AnsH(d) \ {k}) \cup (IF k \in Tabs /\ n.op = "answer" /\ n.c = d THEN {k} ELSE {})
          /\ \A d : k \in AnsH(d) <=> k \in Tabs /\ hand[k].op = "answer" /\ hand[k].c = d
      BY <3>1, HandGoesOn
    <3>. QED BY <3>1, <3>2
  <2>4. k \in Admins => a = k
    BY <2>1 DEF Mine
  <2>5. ASSUME NEW b \in Admins PROVE PageRule(b)'
    <3>1. UNCHANGED <<Face(b), Due(b)>>
      BY <1>1, <1>3, Frames
    <3>2. CASE b # a
      <4>1. UNCHANGED <<Sent(b), News(b), Own(b)>>
        BY <2>1, <2>2, <2>4, <3>2
      <4>. QED BY <3>1, <4>1, PageStays DEF Rules
    <3>3. CASE b = a /\ b = k
      BY <2>1, <2>2, <3>1, <3>3, PageEndsCall DEF Rules
    <3>4. CASE b = a /\ b # k
      BY <2>1, <2>2, <3>1, <3>4, PageLoses DEF Rules
    <3>. QED BY <3>2, <3>3, <3>4
  <2>6. ASSUME NEW d \in Entries' PROVE TabsRule(d)'
    <3>1. UNCHANGED <<Faces(d), Errd(d)>> /\ AnsH(d)' = AnsH(d) /\ d \in Entries
      BY <1>1, <1>3, <2>2, <2>3, Frames
    <3>2. CASE d # c
      <4>1. UNCHANGED <<Reg(d), Pend(d), Done(d), Actions(d)>>
        BY <2>1, <2>2, <3>2
      <4>2. UNCHANGED <<Taking(d), Notices(d)>>
        BY <3>1, <4>1, ToldStays DEF Taking, Notices
      <4>. QED BY <3>1, <4>1, <4>2, TabsStay DEF Rules
    <3>3. CASE d = c /\ t = "end"
      <4>1. Told(d)' = Tabs
        BY <2>2, <3>3 DEF Told, Errd, Done
      <4>2. AnsQ(d)' = AnsQ(d) /\ Rejs(d)' = Rejs(d) /\ Left(d)' \subseteq Left(d)
        BY <2>1, <3>3 DEF Conns, Actions
      <4>. QED BY <2>2, <3>1, <3>3, <4>1, <4>2, CallIsOver DEF Rules
    <3>4. CASE d = c /\ t = "reject"
      <4>1. k \in Rejs(d) /\ Rejs(d) = Rejs(d)' \cup {k} /\ Left(d)' = Left(d) /\ AnsQ(d)' = AnsQ(d)
        BY <2>1, <3>4
      <4>2. Done(d)' = Done(d) /\ Pend(d)' = Pend(d)
        BY ZenonT(60), <2>2, <3>4
      <4>3. UNCHANGED Notices(d)
        BY <3>1, <4>2, ToldStays DEF Notices
      <4>4. Reg(d) # "none" /\ Reg(d)' = "none"
        BY <2>2, <3>4 DEF Ongoing
      <4>. QED BY <3>1, <4>1, <4>3, <4>4, CallIsRejected DEF Rules
    <3>. QED BY <3>2, <3>3, <3>4
  <2>7. \A j \in Conns : RespOK(j)'
    BY <1>3, Frames DEF Rules, QueueRules
  <2>. QED BY <1>1, <2>1, <2>2, <2>3, <2>5, <2>6, <2>7, GatewayActs
<1>. QED BY <1>1, <1>2, <1>3

\* Nobody has heard of a call that has not been entered.
LEMMA Unheard ==
  ASSUME Shape, NEW c, c \notin Ids
  PROVE  /\ Pend(c) = {} /\ Done(c) = {} /\ Errd(c) = {} /\ Shown(c) = {} /\ Act(c) = {}
         /\ AnsQ(c) = {} /\ AnsH(c) = {} /\ Rejs(c) = {} /\ Left(c) = {}
<1>1. ASSUME NEW u \in Tabs PROVE u \in Conns /\ toGw[u] \in Seq(Letter) /\ resp[u] \in Seq(Letter) /\ bcast[u] \in Seq(Letter)
  BY Sides DEF Shape, QueuesOK
<1>2. ASSUME NEW u \in Tabs, NEW t
      PROVE  c \notin Named(toGw[u], t) /\ c \notin Named(resp[u], t) /\ c \notin Named(bcast[u], t)
  BY <1>1, NamedType
<1>3. \A u \in Tabs : hand[u].c # c
  BY <1>1 DEF Shape, GatewayOK
<1>4. \A u \in Tabs : tab[u].incoming # c /\ tab[u].active # c
  BY DEF Shape, ClientsOK, TabIds
<1>. QED BY <1>2, <1>3, <1>4 DEF Pend, Done, Errd, Shown, Act, AnsQ, AnsH, Rejs, Left

\* A page has a call more.
LEMMA OwnEnters ==
  ASSUME Shape, NEW a \in Admins, caller' = Append(caller, a), NEW c, c = Len(caller) + 1,
         \A d \in Entries : registry'[d] = registry[d], registry'[c] # "Accepted"
  PROVE  /\ Entries' = Entries \cup {c} /\ c \notin Entries
         /\ Mine(a)' = Mine(a) \cup {c} /\ \A d \in Mine(a) : d < c
         /\ Live(a)' = Live(a) \cup (IF registry'[c] \in Ongoing THEN {c} ELSE {})
         /\ Taken(a)' = Taken(a)
         /\ \A b \in Admins \ {a} : UNCHANGED Own(b)
<1>1. Len(caller) \in Nat /\ caller \in Seq(Admins)
  BY DEF Shape, GatewayOK
<1>2. Len(caller') = c /\ caller'[c] = a /\ \A d \in Entries : caller'[d] = caller[d]
  BY <1>1 DEF Entries
<1>3. Entries' = Entries \cup {c} /\ c \notin Entries /\ \A d \in Entries : d < c
  BY <1>1, <1>2 DEF Entries
<1>4. \A b : Mine(b) = {d \in Entries : caller[d] = b} /\ Mine(b)' = {d \in Entries' : caller'[d] = b}
  BY DEF Mine, Entries
<1>5. ASSUME NEW b \in Admins PROVE Mine(b)' = Mine(b) \cup (IF b = a THEN {c} ELSE {})
  BY <1>2, <1>3, <1>4
<1>6. \A b : /\ Live(b)' = {d \in Mine(b)' : registry'[d] \in Ongoing}
             /\ Taken(b)' = {d \in Mine(b)' : registry'[d] = "Accepted"}
  BY DEF Live, Taken
<1>7. \A b : \A d \in Mine(b) : d \in Entries
  BY <1>4
<1>8. ASSUME NEW b \in Admins
      PROVE  /\ Live(b)' = Live(b) \cup (IF b = a /\ registry'[c] \in Ongoing THEN {c} ELSE {})
             /\ Taken(b)' = Taken(b)
  BY <1>5, <1>6, <1>7 DEF Live, Taken
<1>. QED BY ZenonT(60), <1>3, <1>5, <1>7, <1>8 DEF Own

LEMMA InitiateRules == ASSUME Shape, CallInv, Rules, NEW a \in Admins, Initiate(a) PROVE Rules'
<1>. PICK h, c : h = Next1(a) /\ c = Len(caller) + 1
  OBVIOUS
<1>1. /\ a \in Conns /\ a \notin Tabs /\ Take(a) /\ h.t = "initiate" /\ caller' = Append(caller, a)
      /\ UNCHANGED <<up, clients>>
      /\ IF \E u \in Tabs : up[u]
         THEN /\ registry' = [registry EXCEPT ![c] = "Ringing"]
              /\ Broadcast(Tabs, Msg("incoming", c))
              /\ resp' = [resp EXCEPT ![a] = Append(@, Msg("ringing", c))]
              /\ Hand(a, "initiated", c)
         ELSE /\ resp' = [resp EXCEPT ![a] = Append(@, Msg("error", c))]
              /\ UNCHANGED <<registry, bcast, hand>>
  BY Sides DEF Initiate
<1>2. /\ c \in Calls /\ c \notin Ids /\ c # 0 /\ c \in Nat /\ registry[c] = "none"
  <2>1. c \in Calls /\ c \notin Ids /\ Len(caller) \in Nat
    BY Entered, EntriesAre
  <2>. QED BY <2>1 DEF CallInv, Fresh, Calls
<1>3. /\ \A b \in Admins : /\ Asks(b) <=> Asks(b)' \/ (b = a /\ h.t = "initiate")
                           /\ Ends(b) = Ends(b)' \cup (IF b = a THEN With(h, "end") ELSE {})
      /\ \A d : /\ AnsQ(d) = AnsQ(d)' \cup By(a, h, "answer", d)
                /\ Rejs(d) = Rejs(d)' \cup By(a, h, "reject", d)
                /\ Left(d) = Left(d)' \cup By(a, h, "end", d)
      /\ \A j \in Conns : OutOK(j)'
      /\ ~Asks(a)' /\ Ends(a)' = {}
  BY <1>1, Takes DEF Rules, QueueRules
<1>4. Asks(a) /\ Ends(a) = {} /\ Ring(a) = {}
  <2>1. Asks(a) /\ Ends(a) = {}
    BY <1>1, <1>3 DEF With
  <2>. QED BY <2>1 DEF Rules, PageRule, PageWaits
<1>5. ASSUME NEW b \in Admins, b # a PROVE UNCHANGED Sent(b)
  <2>1. (Asks(b)' <=> Asks(b)) /\ Ends(b)' = Ends(b)
    BY <1>3, <1>5
  <2>. QED BY <2>1, Zenon DEF Sent, Asks
<1>6. ASSUME NEW d PROVE AnsQ(d)' = AnsQ(d) /\ Rejs(d)' = Rejs(d) /\ Left(d)' = Left(d)
  BY <1>1, <1>3 DEF By
<1>7. \A u \in Tabs : up[u]
  BY Sides DEF Rules, QueueRules
<1>. DEFINE rings == Tabs # {}
            word  == IF rings THEN "ringing" ELSE "error"
            m     == Msg(word, c)
            n     == Msg("incoming", c)
<1>8. /\ resp' = [resp EXCEPT ![a] = Append(@, m)]
      /\ rings => /\ registry' = [registry EXCEPT ![c] = "Ringing"]
                  /\ Broadcast(Tabs, n)
                  /\ Hand(a, "initiated", c)
      /\ ~rings => UNCHANGED <<registry, bcast, hand>>
  <2>1. CASE rings
    <3>1. \E u \in Tabs : up[u]
      BY <1>7, <2>1
    <3>. QED BY <1>1, <2>1, <3>1
  <2>2. CASE ~rings
    <3>1. ~\E u \in Tabs : up[u]
      BY <2>2
    <3>. QED BY <1>1, <2>2, <3>1
  <2>. QED BY <2>1, <2>2
<1>9. /\ m \in Letters /\ m.t = word /\ m.c = c
      /\ n \in Letters /\ n.t = "incoming" /\ n.c = c
      /\ \A d : n = Msg("incoming", d) <=> d = c
      /\ \A d : n # Msg("ended", d)
  BY <1>2 DEF Letters, Words, Msg
<1>. HIDE DEF m, n
<1>10. /\ \A b \in Admins : /\ Ring(b)' = Ring(b) \cup (IF b = a THEN With(m, "ringing") ELSE {})
                            /\ Errs(b)' = Errs(b) \cup (IF b = a THEN With(m, "error") ELSE {})
       /\ \A d : Errd(d)' = Errd(d) \cup By(a, m, "error", d)
       /\ \A j \in Conns : RespOK(j)'
  BY <1>1, <1>4, <1>8, <1>9, Replies DEF Rules, QueueRules
<1>11. \A d : Errd(d)' = Errd(d)
  BY <1>1, <1>10 DEF By
<1>12. /\ \A b \in Admins : UNCHANGED News(b)
       /\ \A d : Pend(d)' = Pend(d) \cup (IF rings /\ d = c THEN Tabs ELSE {}) /\ Done(d)' = Done(d)
       /\ \A j \in Conns : CastOK(j)'
  <2>1. CASE ~rings
    BY <1>8, <2>1, Frames DEF Rules, QueueRules
  <2>2. CASE rings
    <3>1. /\ \A b \in Admins : b \notin Tabs
          /\ \A u \in Tabs : u \notin Pend(n.c)
      BY <1>2, <1>9, Sides, Unheard
    <3>2. /\ \A b \in Admins : /\ Accs(b)' = Accs(b) \cup (IF b \in Tabs THEN With(n, "accepted") ELSE {})
                               /\ Fins(b)' = Fins(b) \cup (IF b \in Tabs THEN With(n, "rejected") \cup With(n, "ended") ELSE {})
          /\ \A d : /\ Pend(d)' = Pend(d) \cup {u \in Tabs : u \in Tabs /\ n = Msg("incoming", d)}
                    /\ Done(d)' = Done(d) \cup {u \in Tabs : u \in Tabs /\ n = Msg("ended", d)}
          /\ \A j \in Conns : CastOK(j)'
      <4>1. \A j \in Conns : up[j] /\ CastOK(j)
        BY DEF Rules, QueueRules
      <4>. QED BY <1>8, <1>9, <2>2, <3>1, <4>1, Tellings
    <3>3. ASSUME NEW b \in Admins PROVE UNCHANGED News(b)
      BY <3>1, <3>2 DEF News
    <3>4. ASSUME NEW d PROVE Pend(d)' = Pend(d) \cup (IF d = c THEN Tabs ELSE {}) /\ Done(d)' = Done(d)
      <4>1. {u \in Tabs : u \in Tabs /\ n = Msg("ended", d)} = {}
        BY <1>9
      <4>2. {u \in Tabs : u \in Tabs /\ n = Msg("incoming", d)} = IF d = c THEN Tabs ELSE {}
        BY <1>9
      <4>. QED BY <3>2, <4>1, <4>2
    <3>. QED BY <2>2, <3>2, <3>3, <3>4
  <2>. QED BY <2>1, <2>2
<1>13. registry'[c] = (IF rings THEN "Ringing" ELSE "none") /\ \A d \in Entries : registry'[d] = registry[d]
  BY <1>2, <1>8, EntriesAre DEF Shape, GatewayOK
<1>14. /\ Entries' = Entries \cup {c} /\ c \notin Entries
       /\ Mine(a)' = Mine(a) \cup {c} /\ \A d \in Mine(a) : d < c
       /\ Live(a)' = Live(a) \cup (IF rings THEN {c} ELSE {})
       /\ Taken(a)' = Taken(a)
       /\ \A b \in Admins \ {a} : UNCHANGED Own(b)
  <2>1. registry'[c] # "Accepted" /\ (registry'[c] \in Ongoing <=> rings)
    BY <1>13 DEF Ongoing
  <2>2. /\ Entries' = Entries \cup {c} /\ c \notin Entries
        /\ Mine(a)' = Mine(a) \cup {c} /\ \A d \in Mine(a) : d < c
        /\ Live(a)' = Live(a) \cup (IF registry'[c] \in Ongoing THEN {c} ELSE {})
        /\ Taken(a)' = Taken(a)
        /\ \A b \in Admins \ {a} : UNCHANGED Own(b)
    BY <1>1, <1>13, <2>1, OwnEnters
  <2>. QED BY <2>1, <2>2
<1>15. (\A j \in Conns : HandOK(j)') /\ \A d : AnsH(d)' = AnsH(d)
  <2>1. CASE ~rings
    BY <1>8, <2>1, HandsRest
  <2>2. CASE rings
    <3>. DEFINE i == [op |-> "initiated", c |-> c]
    <3>1. hand' = [hand EXCEPT ![a] = i] /\ i.op # "answer"
      BY <1>8, <2>2 DEF Hand
    <3>. HIDE DEF i
    <3>2. /\ \A j \in Conns : HandOK(j)'
          /\ \A d : AnsH(d)' = (AnsH(d) \ {a}) \cup (IF a \in Tabs /\ i.op = "answer" /\ i.c = d THEN {a} ELSE {})
          /\ \A d : a \in AnsH(d) <=> a \in Tabs /\ hand[a].op = "answer" /\ hand[a].c = d
      BY <1>1, <3>1, HandGoesOn
    <3>. QED BY <1>1, <3>2
  <2>. QED BY <2>1, <2>2
<1>16. ASSUME NEW b \in Admins PROVE PageRule(b)'
  <2>1. UNCHANGED Face(b)
    BY <1>1, Frames
  <2>2. CASE b # a
    <3>1. UNCHANGED <<News(b), Own(b), Sent(b)>> /\ Ring(b)' = Ring(b) /\ Errs(b)' = Errs(b)
      BY ZenonT(60), <1>5, <1>10, <1>12, <1>14, <2>2
    <3>. QED BY <2>1, <3>1, PageStays DEF Rules, Due
  <2>3. CASE b = a
    <3>1. Ring(a)' = Ring(a) \cup (IF rings THEN {c} ELSE {}) /\ Errs(a)' = Errs(a) \cup (IF rings THEN {} ELSE {c})
      BY <1>9, <1>10 DEF With
    <3>2. PageRule(a) /\ UNCHANGED <<Face(a), News(a), Taken(a)>> /\ c \in Nat \ {0}
      BY <1>2, <1>12, <1>14, <2>1, <2>3 DEF Rules
    <3>3. CASE rings
      <4>1. /\ Ring(a)' = Ring(a) \cup {c} /\ Errs(a)' = Errs(a)
            /\ Mine(a)' = Mine(a) \cup {c} /\ Live(a)' = Live(a) \cup {c}
        BY <1>14, <3>1, <3>3
      <4>. QED BY <1>3, <1>4, <1>14, <2>3, <3>2, <3>3, <4>1, PageEnters
    <3>4. CASE ~rings
      <4>1. /\ Ring(a)' = Ring(a) /\ Errs(a)' = Errs(a) \cup {c}
            /\ Mine(a)' = Mine(a) \cup {c} /\ Live(a)' = Live(a)
        BY <1>14, <3>1, <3>4
      <4>. QED BY <1>3, <1>4, <1>14, <2>3, <3>2, <3>4, <4>1, PageRefused
    <3>. QED BY <3>3, <3>4
  <2>. QED BY <2>2, <2>3
<1>17. ASSUME NEW d \in Entries' PROVE TabsRule(d)'
  <2>1. UNCHANGED <<Faces(d), Actions(d)>> /\ AnsH(d)' = AnsH(d) /\ Told(d)' = Told(d)
    BY <1>1, <1>6, <1>11, <1>12, <1>15, Frames, ToldStays DEF Actions
  <2>2. CASE d # c
    <3>1. d \in Entries /\ Pend(d)' = Pend(d) /\ Reg(d)' = Reg(d)
      BY <1>12, <1>13, <1>14, <2>2 DEF Reg
    <3>. QED BY <2>1, <3>1, TabsStay DEF Rules, Taking, Notices
  <2>3. CASE d = c
    <3>1. /\ Pend(c) = {} /\ Done(c) = {} /\ Errd(c) = {} /\ Shown(c) = {} /\ Act(c) = {}
          /\ AnsQ(c) = {} /\ AnsH(c) = {} /\ Rejs(c) = {} /\ Left(c) = {}
      BY <1>2, Unheard
    <3>2. Shown(c)' = {} /\ Act(c)' = {}
      BY <2>1, <2>3, <3>1 DEF Faces
    <3>3. Claims(c)' = {}
      BY <1>6, <1>15, <3>1, <3>2 DEF Claims, Ans
    <3>4. Left(c)' = {} /\ Told(c)' = {}
      BY <1>6, <2>1, <2>3, <3>1 DEF Told
    <3>5. Reg(c)' = IF rings THEN "Ringing" ELSE "none"
      BY <1>13 DEF Reg
    <3>6. rings => Pend(c)' = Tabs
      BY <1>12, <3>1
    <3>7. Pend(c)' \subseteq Tabs
      BY DEF Pend
    <3>. QED BY <2>3, <3>2, <3>3, <3>4, <3>5, <3>6, <3>7, CallEnters
  <2>. QED BY <2>2, <2>3
<1>. QED BY <1>1, <1>3, <1>10, <1>12, <1>15, <1>16, <1>17, GatewayActs

-------------------------------------------------------------------------------
(* The three parties agree.                                                *)

Parties == odd = {} => Rules

LEMMA OddStays == ASSUME [Next]_vars PROVE odd \subseteq odd'
<1>1. CASE UNCHANGED vars
  BY SMTT(60), <1>1 DEF vars
<1>2. CASE GatewayStep
  BY <1>2 DEF GatewayStep, Initiate, Answer, AnswerMarks, RejectCall, EndCall, Leaves, Relay, Publish,
     TimerChecks, TimerRemoves, TimerPublishes, Refusal, Overlap, Mark
<1>3. CASE Next /\ ~GatewayStep
  BY ZenonT(60), <1>3 DEF Next, Call, HangUp, Acknowledge, AdminMicGranted, AdminMicFails, Accept, Reject, Leave,
     TabMicGranted, TabMicFails, Receive, AdminEvent, TabEvent, Mark, Drop, Reconnect
<1>. QED BY <1>1, <1>2, <1>3

LEMMA PartiesStep == ASSUME Shape, CallInv, Parties, [Next]_vars PROVE Parties'
<1>. SUFFICES ASSUME odd' = {} PROVE Rules'
  BY DEF Parties
<1>1. Rules
  BY OddStays DEF Parties
<1>2. CASE UNCHANGED vars
  <2>1. UNCHANGED <<caller, registry, hand, queues, up, clients>>
    BY <1>2 DEF vars
  <2>. QED BY <1>1, <2>1, HandsRest, Bookkeeping
<1>3. CASE GatewayStep
  <2>1. ASSUME NEW k \in Conns, EndCall(k) PROVE Rules'
    BY <1>1, <2>1, LeavesRules DEF EndCall
  <2>2. ASSUME NEW u \in Tabs, RejectCall(u) PROVE Rules'
    BY <1>1, <2>2, Sides, LeavesRules DEF RejectCall
  <2>. QED BY <1>1, <1>3, <2>1, <2>2, InitiateRules, AnswerRules, AnswerMarksRules, RelayRules, PublishRules,
              TimerRules, TimerRemovesRules DEF GatewayStep
<1>4. CASE \E k \in Conns : Drop(k)
  BY <1>4 DEF Drop
<1>5. CASE \E k \in Conns : Reconnect(k)
  BY <1>1, <1>5 DEF Reconnect, Rules, QueueRules
<1>6. CASE \E a \in Admins : \/ Call(a) \/ HangUp(a) \/ Acknowledge(a) \/ AdminMicGranted(a) \/ AdminMicFails(a)
  BY <1>1, <1>6, CallRules, HangUpRules, AcknowledgeRules, AdminMicRules
<1>7. CASE \E u \in Tabs : \/ Accept(u) \/ Reject(u) \/ Leave(u)
                           \/ \E c \in Calls : TabMicGranted(u, c) \/ TabMicFails(u, c)
  BY <1>1, <1>7, AcceptRules, RejectRules, LeaveRules, TabMicRules
<1>8. CASE \E k \in Conns : Receive(k)
  BY <1>1, <1>8, ReceiveRules
<1>. QED BY <1>2, <1>3, <1>4, <1>5, <1>6, <1>7, <1>8, Zenon DEF Next

LEMMA PartiesInit == Init => Parties
<1>. SUFFICES ASSUME Init PROVE Rules
  BY DEF Parties
<1>1. caller = <<>> /\ Len(caller) = 0 /\ Entries = {}
  BY DEF Init, Entries
<1>2. ASSUME NEW k \in Conns
      PROVE  toGw[k] = <<>> /\ resp[k] = <<>> /\ bcast[k] = <<>> /\ up[k] /\ hand[k].op = "idle"
  BY DEF Init, Idle
<1>3. QueueRules
  <2>. SUFFICES ASSUME NEW k \in Conns PROVE up[k] /\ OutOK(k) /\ RespOK(k) /\ CastOK(k) /\ hand[k].op # "answer"
    BY DEF QueueRules
  <2>. QED BY <1>2, EmptyOrder, EmptyNames DEF OutOK, RespOK, CastOK
<1>4. ASSUME NEW a \in Admins PROVE PageRule(a)
  <2>1. ~Asks(a) /\ Ends(a) = {} /\ Ring(a) = {} /\ Errs(a) = {} /\ Accs(a) = {} /\ Fins(a) = {}
    BY <1>2, EmptyNames, Sides DEF Asks, Ends, Ring, Errs, Accs, Fins
  <2>2. Mine(a) = {} /\ Live(a) = {} /\ Taken(a) = {}
    BY <1>1 DEF Mine, Live, Taken
  <2>3. St(a) = "idle" /\ Cur(a) = 0
    BY DEF Init, St, Cur
  <2>. QED BY <2>1, <2>2, <2>3 DEF PageRule, PageTypes, PageWaits, PageShows, PageLearns, PageEnds, Busy
<1>. QED BY <1>1, <1>3, <1>4 DEF Rules

\* When nothing is on its way, the rules say what the parties show.
LEMMA QuietAgrees == ASSUME Shape, CallInv, Rules, Quiet, odd = {} PROVE PartiesAgree
<1>1. ASSUME NEW a \in Admins
      PROVE  ~Asks(a) /\ Ends(a) = {} /\ Ring(a) = {} /\ Errs(a) = {} /\ Accs(a) = {} /\ Fins(a) = {}
  <2>1. toGw[a] = <<>> /\ resp[a] = <<>> /\ bcast[a] = <<>>
    BY Sides DEF Quiet
  <2>. QED BY <2>1, EmptyNames DEF Asks, Ends, Ring, Errs, Accs, Fins
<1>2. ASSUME NEW c
      PROVE  Pend(c) = {} /\ Told(c) = {} /\ AnsQ(c) = {} /\ AnsH(c) = {} /\ Rejs(c) = {} /\ Left(c) = {}
  <2>1. \A u \in Tabs : toGw[u] = <<>> /\ resp[u] = <<>> /\ bcast[u] = <<>> /\ hand[u].op # "answer"
    BY Sides DEF Quiet, Idle
  <2>. QED BY <2>1, EmptyNames DEF Pend, Told, Errd, Done, AnsQ, AnsH, Rejs, Left
<1>3. ASSUME NEW a \in Admins
      PROVE  /\ \A c \in Live(a) : Busy(a) /\ Cur(a) = c
             /\ \A c \in Taken(a) : St(a) = "connected" /\ Cur(a) = c
             /\ St(a) = "connected" /\ Cur(a) \in Live(a) => Cur(a) \in Taken(a)
             /\ Busy(a) => Cur(a) \in Live(a)
  BY <1>1 DEF Rules, PageRule, PageLearns, PageEnds
<1>4. ASSUME NEW c \in Calls, registry[c] \in Ongoing
      PROVE  c \in Entries /\ caller[c] \in Admins /\ c \in Live(caller[c])
  <2>1. c \in Entries
    BY <1>4, EntriesAre DEF CallInv, Fresh, Ongoing, Entries, Calls
  <2>. QED BY <1>4, <2>1, NewestCall
<1>5. ASSUME NEW c \in Calls, registry[c] = "Accepted"
      PROVE  /\ admin[caller[c]].status = "connected" /\ admin[caller[c]].current = c
             /\ \E u \in Tabs : tab[u].active = c
  <2>1. c \in Entries /\ caller[c] \in Admins /\ c \in Live(caller[c])
    BY <1>4, <1>5 DEF Ongoing
  <2>2. c \in Taken(caller[c])
    BY <1>5, <2>1 DEF Live, Taken
  <2>3. St(caller[c]) = "connected" /\ Cur(caller[c]) = c
    BY <1>3, <2>1, <2>2
  <2>4. Act(c) # {}
    BY <1>2, <1>5, <2>1 DEF Rules, TabsRule, TabsAgree, Reg
  <2>. QED BY <2>3, <2>4 DEF St, Cur, Act
<1>6. ASSUME NEW c \in Calls, registry[c] = "Ringing"
      PROVE  /\ admin[caller[c]].status = "ringing" /\ admin[caller[c]].current = c
             /\ \E u \in Tabs : tab[u].incoming = c
  <2>1. c \in Entries /\ caller[c] \in Admins /\ c \in Live(caller[c])
    BY <1>4, <1>6 DEF Ongoing
  <2>2. c \notin Taken(caller[c])
    BY <1>6 DEF Taken
  <2>3. Busy(caller[c]) /\ Cur(caller[c]) = c /\ St(caller[c]) # "connected"
    BY <1>3, <2>1, <2>2
  <2>4. Shown(c) # {}
    BY <1>2, <1>6, <2>1 DEF Rules, TabsRule, TabsAgree, Reg, Free, Ans
  <2>. QED BY <2>3, <2>4 DEF Busy, St, Cur, Shown
<1>7. ASSUME NEW a \in Admins, admin[a].status \in {"ringing", "connected"}
      PROVE  registry[admin[a].current] \in Ongoing
  <2>1. Cur(a) \in Live(a)
    BY <1>3, <1>7 DEF Busy, St
  <2>. QED BY <2>1 DEF Live, Cur
<1>8. ASSUME NEW u \in Tabs, tab[u].active # 0 PROVE registry[tab[u].active] = "Accepted"
  <2>. PICK c : c = tab[u].active
    OBVIOUS
  <2>1. c \in Entries
    BY <1>8, EntriesAre DEF Shape, ClientsOK, TabIds
  <2>2. u \in Act(c)
    BY DEF Act
  <2>3. Reg(c) = "Accepted"
    BY <1>2, <2>1, <2>2 DEF Rules, TabsRule, TabsAgree, Ans
  <2>. QED BY <2>3 DEF Reg
<1>. QED BY <1>5, <1>6, <1>7, <1>8 DEF PartiesAgree

\* Whatever the calls, the tabs and the pages, once everything has arrived and
\* nothing disturbed the calls, pages, tabs and registry show the same calls.
THEOREM PartiesStayInAgreement == Spec => []PartiesAgree
<1>1. Init => Parties
  BY PartiesInit
<1>2. Shape /\ CallInv /\ Parties /\ [Next]_vars => Parties'
  BY PartiesStep
<1>3. Shape /\ CallInv /\ Parties => PartiesAgree
  <2>1. ~(Quiet /\ odd = {}) => PartiesAgree
    BY DEF PartiesAgree
  <2>. QED BY <2>1, QuietAgrees DEF Parties
<1>4. Spec => [](Shape /\ CallInv)
  BY ShapeAlways
<1>. QED BY <1>1, <1>2, <1>3, <1>4, PTL DEF Spec
-------------------------------------------------------------------------------
(* Offer and answer.                                                       *)

\* A page has its microphone on in an accepted call that is active in a tab,
\* and does not hear it yet.
Hears(a, u, c) == /\ admin[a].mic = c /\ ~admin[a].audio
                  /\ tab[u].active = c /\ tab[u].pc = c /\ registry[c] = "Accepted"

\* Its offer is on the way to the tab, or the answer on the way back, ...
Sped(a, u, c) == \/ c \in Named(toGw[a], "offer") \cup Named(bcast[u], "offer")
                 \/ c \in Named(toGw[u], "answerSdp") \cup Named(bcast[a], "answerSdp")
\* ... or the tab keeps the offer until it has its microphone.
Stored(u, c) == tab[u].offer = c /\ tab[u].local # c

AudioRule(a, u, c) == Hears(a, u, c) => Sped(a, u, c) \/ Stored(u, c)
AudioRules == \A a \in Admins, u \in Tabs, c \in Calls : AudioRule(a, u, c)

\* A message more, in a queue to the gateway or in some of those from it.
LEMMA SentIsThere ==
  ASSUME Shape, NEW k \in Conns, NEW m, Send(k, m)
  PROVE  /\ \A j \in Conns : \A t : Named(toGw[j], t) \subseteq Named(toGw'[j], t)
         /\ m.c \in Named(toGw'[k], m.t)
<1>1. /\ toGw'[k] = Append(toGw[k], m) /\ toGw[k] \in Seq(Letter)
      /\ \A j \in Conns \ {k} : toGw'[j] = toGw[j]
  BY DEF Shape, QueuesOK, Send
<1>2. \A t : Named(toGw'[k], t) = Named(toGw[k], t) \cup With(m, t)
  BY <1>1, Appended
<1>. QED BY <1>1, <1>2 DEF With

LEMMA CastIsThere ==
  ASSUME Shape, NEW ks, NEW m, Broadcast(ks, m)
  PROVE  /\ \A j \in Conns : \A t : Named(bcast[j], t) \subseteq Named(bcast'[j], t)
         /\ \A j \in Conns : j \in ks /\ up[j] => m.c \in Named(bcast'[j], m.t)
<1>. SUFFICES ASSUME NEW j \in Conns
              PROVE  /\ \A t : Named(bcast[j], t) \subseteq Named(bcast'[j], t)
                     /\ j \in ks /\ up[j] => m.c \in Named(bcast'[j], m.t)
  OBVIOUS
<1>1. /\ bcast[j] \in Seq(Letter)
      /\ bcast'[j] = IF j \in ks /\ up[j] THEN Append(bcast[j], m) ELSE bcast[j]
  BY DEF Shape, QueuesOK, Broadcast
<1>2. CASE j \in ks /\ up[j]
  <2>1. \A t : Named(bcast'[j], t) = Named(bcast[j], t) \cup With(m, t)
    BY <1>1, <1>2, Appended
  <2>. QED BY <2>1 DEF With
<1>3. CASE ~(j \in ks /\ up[j])
  BY <1>1, <1>3
<1>. QED BY <1>2, <1>3

\* A message less: only the head is gone.
LEMMA TakenIsGone ==
  ASSUME Shape, NEW k \in Conns, Take(k)
  PROVE  \A j \in Conns : \A t : \A c \in Named(toGw[j], t) :
           c \in Named(toGw'[j], t) \/ (j = k /\ t = Next1(k).t /\ c = Next1(k).c)
<1>1. /\ toGw[k] \in Seq(Letter) /\ toGw[k] # <<>> /\ toGw'[k] = Tail(toGw[k])
      /\ \A j \in Conns \ {k} : toGw'[j] = toGw[j]
  BY DEF Shape, QueuesOK, Take
<1>2. \A t : Named(toGw[k], t) = Named(toGw'[k], t) \cup With(Next1(k), t)
  BY <1>1, Removed DEF Next1
<1>. QED BY <1>1, <1>2 DEF With

LEMMA HeardIsGone ==
  ASSUME Shape, NEW k \in Conns, bcast[k] # <<>>, bcast' = [bcast EXCEPT ![k] = Tail(@)]
  PROVE  \A j \in Conns : \A t : \A c \in Named(bcast[j], t) :
           c \in Named(bcast'[j], t) \/ (j = k /\ t = Head(bcast[k]).t /\ c = Head(bcast[k]).c)
<1>1. /\ bcast[k] \in Seq(Letter) /\ bcast'[k] = Tail(bcast[k])
      /\ \A j \in Conns \ {k} : bcast'[j] = bcast[j]
  BY DEF Shape, QueuesOK
<1>2. \A t : Named(bcast[k], t) = Named(bcast'[k], t) \cup With(Head(bcast[k]), t)
  BY <1>1, Removed
<1>. QED BY <1>1, <1>2 DEF With

\* A microphone is on only in a call that is not ringing any more.
LEMMA MicInAccepted ==
  ASSUME Shape, Rules, NEW a \in Admins, NEW c \in Calls, admin[a].mic = c
  PROVE  registry[c] # "Ringing"
<1>1. c # 0 /\ PageRule(a)
  BY CallsAssumption DEF Calls, Rules
<1>2. St(a) = "connected" /\ Cur(a) = c
  BY <1>1 DEF Shape, PageInv, InCall, St, Cur
<1>3. SUFFICES ASSUME registry[c] = "Ringing" PROVE FALSE
  OBVIOUS
<1>4. c \in Mine(a) /\ (c \in Live(a) => c \in Taken(a))
  BY <1>1, <1>2 DEF PageRule, PageTypes, PageLearns
<1>. QED BY <1>3, <1>4 DEF Live, Taken, Ongoing

\* What a queue may not lose.
Media == {"offer", "answerSdp"}
Holds == /\ \A j \in Conns : \A t \in Media : Named(toGw[j], t) \subseteq Named(toGw'[j], t)
         /\ \A j \in Conns : \A t \in Media : Named(bcast[j], t) \subseteq Named(bcast'[j], t)

LEMMA SpedOn ==
  ASSUME Holds, NEW a \in Admins, NEW u \in Tabs, NEW c
  PROVE  Sped(a, u, c) => Sped(a, u, c)'
BY Sides DEF Holds, Media, Sped

\* The gateway marks, removes, refuses and publishes.
LEMMA GatewayHears ==
  ASSUME Shape, Rules, AudioRules, UNCHANGED clients, Holds,
         \A c \in Calls : registry'[c] = "Accepted" => registry[c] \in Ongoing
  PROVE  AudioRules'
<1>. SUFFICES ASSUME NEW a \in Admins, NEW u \in Tabs, NEW c \in Calls, Hears(a, u, c)'
              PROVE  Sped(a, u, c)' \/ Stored(u, c)'
  BY DEF AudioRules, AudioRule
<1>1. UNCHANGED <<admin, tab>> /\ admin[a].mic = c /\ registry[c] \in Ongoing
  BY DEF Hears
<1>2. Hears(a, u, c)
  BY <1>1, MicInAccepted DEF Hears, Ongoing
<1>3. Sped(a, u, c) \/ Stored(u, c)
  BY <1>2 DEF AudioRules, AudioRule
<1>. QED BY <1>1, <1>3, SpedOn DEF Stored

\* ... whereby only offers and answers are not taken from a queue for good.
LEMMA TakenHolds ==
  ASSUME Shape, NEW k \in Conns, Take(k), Next1(k).t \notin Media,
         \/ UNCHANGED bcast
         \/ \E ks, m : Broadcast(ks, m)
  PROVE  Holds
<1>1. \A j \in Conns : \A t \in Media : Named(toGw[j], t) \subseteq Named(toGw'[j], t)
  BY TakenIsGone
<1>2. \A j \in Conns : \A t \in Media : Named(bcast[j], t) \subseteq Named(bcast'[j], t)
  BY CastIsThere
<1>. QED BY <1>1, <1>2 DEF Holds

LEMMA CastHolds ==
  ASSUME Shape, UNCHANGED toGw, UNCHANGED bcast \/ \E ks, m : Broadcast(ks, m)
  PROVE  Holds
<1>1. \A j \in Conns : \A t \in Media : Named(bcast[j], t) \subseteq Named(bcast'[j], t)
  BY CastIsThere
<1>. QED BY <1>1 DEF Holds

LEMMA InitiateHears == ASSUME Shape, Rules, AudioRules, NEW a \in Admins, Initiate(a) PROVE AudioRules'
<1>. PICK c : c = Len(caller) + 1
  OBVIOUS
<1>1. /\ Take(a) /\ Next1(a).t = "initiate" /\ UNCHANGED clients
      /\ registry' = [registry EXCEPT ![c] = "Ringing"] \/ UNCHANGED registry
      /\ UNCHANGED bcast \/ Broadcast(Tabs, Msg("incoming", c))
  BY DEF Initiate
<1>2. Holds
  BY <1>1, Sides, TakenHolds DEF Media
<1>3. \A d \in Calls : registry'[d] = "Accepted" => registry[d] \in Ongoing
  BY <1>1 DEF Shape, GatewayOK, Ongoing
<1>. QED BY <1>1, <1>2, <1>3, GatewayHears

LEMMA AnswerHears ==
  ASSUME Shape, Rules, AudioRules, NEW u \in Tabs, Answer(u) \/ AnswerMarks(u)
  PROVE  AudioRules'
<1>1. CASE Answer(u)
  <2>1. Take(u) /\ Next1(u).t = "answer" /\ UNCHANGED <<clients, registry, bcast>>
    BY <1>1 DEF Answer, Refusal
  <2>2. Holds
    BY <2>1, Sides, TakenHolds DEF Media
  <2>. QED BY <2>1, <2>2, GatewayHears DEF Ongoing
<1>2. CASE AnswerMarks(u)
  <2>. PICK c : c = hand[u].c
    OBVIOUS
  <2>1. /\ UNCHANGED <<toGw, clients>> /\ Broadcast({caller[c]}, Msg("accepted", c))
        /\ registry' = [registry EXCEPT ![c] = IF @ = "none" THEN @ ELSE "Accepted"]
    BY <1>2 DEF AnswerMarks
  <2>2. Holds
    BY <2>1, CastHolds
  <2>3. \A d \in Calls : registry'[d] = "Accepted" => registry[d] \in Ongoing
    BY <2>1 DEF Shape, GatewayOK, Ongoing
  <2>. QED BY <2>1, <2>2, <2>3, GatewayHears
<1>. QED BY <1>1, <1>2

LEMMA LeavesHears ==
  ASSUME Shape, Rules, AudioRules, NEW k \in Conns, NEW t, t \notin Media, NEW outcome, NEW ks,
         Leaves(k, t, outcome, ks)
  PROVE  AudioRules'
<1>. PICK c : c = Next1(k).c
  OBVIOUS
<1>1. /\ Take(k) /\ Next1(k).t \notin Media /\ UNCHANGED clients
      /\ \/ registry' = [registry EXCEPT ![c] = "none"] /\ Broadcast({caller[c]} \cup ks, Msg(outcome, c))
         \/ UNCHANGED <<registry, bcast>>
  BY DEF Leaves, Refusal
<1>2. Holds
  BY <1>1, TakenHolds
<1>3. \A d \in Calls : registry'[d] = "Accepted" => registry[d] \in Ongoing
  BY <1>1 DEF Shape, GatewayOK, Ongoing
<1>. QED BY <1>1, <1>2, <1>3, GatewayHears

LEMMA BookHears ==
  ASSUME Shape, Rules, AudioRules,
         \/ \E k \in Conns : Publish(k)
         \/ \E c \in Calls : TimerChecks(c) \/ TimerRemoves(c) \/ TimerPublishes(c)
  PROVE  AudioRules'
<1>1. CASE \E c \in Calls : TimerRemoves(c)
  <2>. PICK c \in Calls : TimerRemoves(c)
    BY <1>1
  <2>1. /\ UNCHANGED <<toGw, clients>> /\ Broadcast({caller[c]} \cup Tabs, Msg("ended", c))
        /\ registry' = [registry EXCEPT ![c] = "none"]
    BY DEF TimerRemoves
  <2>2. Holds
    BY <2>1, CastHolds
  <2>3. \A d \in Calls : registry'[d] = "Accepted" => registry[d] \in Ongoing
    BY <2>1 DEF Shape, GatewayOK, Ongoing
  <2>. QED BY <2>1, <2>2, <2>3, GatewayHears
<1>2. CASE ~\E c \in Calls : TimerRemoves(c)
  <2>1. UNCHANGED <<toGw, bcast, registry, clients>>
    BY <1>2 DEF Publish, TimerChecks, TimerPublishes
  <2>2. Holds
    BY <2>1, CastHolds
  <2>. QED BY <2>1, <2>2, GatewayHears DEF Ongoing
<1>. QED BY <1>1, <1>2

\* An offer goes from the page's queue to the tabs', an answer from a tab's to
\* the page's.
LEMMA RelayHears == ASSUME Shape, Rules, AudioRules, NEW k \in Conns, Relay(k) PROVE AudioRules'
<1>. PICK h : h = Next1(k)
  OBVIOUS
<1>. SUFFICES ASSUME NEW a \in Admins, NEW u \in Tabs, NEW c \in Calls, Hears(a, u, c)'
              PROVE  Sped(a, u, c)' \/ Stored(u, c)'
  BY DEF AudioRules, AudioRule
<1>1. /\ Take(k) /\ UNCHANGED <<registry, admin, tab, caller>>
      /\ IF registry[h.c] \in Ongoing
         THEN Broadcast(IF k \in Admins THEN Tabs ELSE {caller[h.c]}, h) ELSE UNCHANGED bcast
  BY DEF Relay
<1>2. \A j \in Conns : \A t : \A d \in Named(toGw[j], t) :
        d \in Named(toGw'[j], t) \/ (j = k /\ t = h.t /\ d = h.c)
  BY <1>1, TakenIsGone
<1>3. \A j \in Conns : \A t : Named(bcast[j], t) \subseteq Named(bcast'[j], t)
  BY <1>1, CastIsThere
<1>4. a \in Conns /\ u \in Conns /\ a \notin Tabs /\ u \notin Admins /\ up[a] /\ up[u]
  BY Sides DEF Rules, QueueRules
<1>5. Hears(a, u, c) /\ registry[c] \in Ongoing
  BY <1>1 DEF Hears, Ongoing
<1>6. Sped(a, u, c) \/ Stored(u, c)
  BY <1>5 DEF AudioRules, AudioRule
<1>7. ASSUME c \in Named(toGw[a], "offer") PROVE Sped(a, u, c)'
  <2>1. CASE c \in Named(toGw'[a], "offer")
    BY <2>1 DEF Sped
  <2>2. CASE a = k /\ h.t = "offer" /\ c = h.c
    <3>1. Broadcast(Tabs, h)
      BY <1>1, <1>5, <2>2
    <3>2. h.c \in Named(bcast'[u], h.t)
      BY <1>4, <3>1, CastIsThere
    <3>. QED BY <2>2, <3>2 DEF Sped
  <2>. QED BY <1>2, <1>4, <1>7, <2>1, <2>2
<1>8. ASSUME c \in Named(toGw[u], "answerSdp") PROVE Sped(a, u, c)'
  <2>1. CASE c \in Named(toGw'[u], "answerSdp")
    BY <2>1 DEF Sped
  <2>2. CASE u = k /\ h.t = "answerSdp" /\ c = h.c
    <3>1. Broadcast({caller[c]}, h)
      BY <1>1, <1>4, <1>5, <2>2
    <3>2. c \in Mine(a)
      <4>1. c # 0 /\ St(a) = "connected" /\ Cur(a) = c /\ PageRule(a)
        BY <1>5 DEF Hears, Shape, PageInv, InCall, St, Cur, Calls, Rules
      <4>. QED BY <4>1 DEF PageRule, PageTypes
    <3>3. caller[c] = a
      BY <3>2 DEF Mine
    <3>4. h.c \in Named(bcast'[a], h.t)
      BY <1>4, <3>1, <3>3, CastIsThere
    <3>. QED BY <2>2, <3>4 DEF Sped
  <2>. QED BY <1>2, <1>4, <1>8, <2>1, <2>2
<1>9. c \in Named(bcast[u], "offer") \cup Named(bcast[a], "answerSdp") => Sped(a, u, c)'
  BY <1>3, <1>4 DEF Sped
<1>10. Stored(u, c) => Stored(u, c)'
  BY <1>1 DEF Stored
<1>. QED BY <1>6, <1>7, <1>8, <1>9, <1>10 DEF Sped

\* No microphone of a page comes on, and what was heard is heard.
PagesQuiet == \A a \in Admins : admin'[a].mic # 0 =>
                admin'[a].mic = admin[a].mic /\ (admin[a].audio => admin'[a].audio)
\* No tab enters an accepted call, and what it keeps it keeps.
TabsQuiet == \A u \in Tabs : \A c \in Calls :
               registry[c] = "Accepted" /\ tab'[u].active = c /\ tab'[u].pc = c =>
                 tab[u].active = c /\ tab[u].pc = c /\ (Stored(u, c) => Stored(u, c)')

LEMMA ClientHears ==
  ASSUME Shape, Rules, AudioRules, UNCHANGED registry, Holds, PagesQuiet, TabsQuiet
  PROVE  AudioRules'
<1>. SUFFICES ASSUME NEW a \in Admins, NEW u \in Tabs, NEW c \in Calls, Hears(a, u, c)'
              PROVE  Sped(a, u, c)' \/ Stored(u, c)'
  BY DEF AudioRules, AudioRule
<1>1. c # 0
  BY DEF Calls
<1>2. Hears(a, u, c) /\ (Stored(u, c) => Stored(u, c)')
  BY <1>1 DEF Hears, PagesQuiet, TabsQuiet
<1>3. Sped(a, u, c) \/ Stored(u, c)
  BY <1>2 DEF AudioRules, AudioRule
<1>. QED BY <1>2, <1>3, SpedOn

LEMMA Unmoved ==
  /\ UNCHANGED admin => PagesQuiet
  /\ UNCHANGED tab => TabsQuiet
BY DEF PagesQuiet, TabsQuiet, Stored

\* A page that shows something else turns its microphone off.
LEMMA ShowMic ==
  ASSUME Shape, NEW a \in Admins, NEW st, NEW cur, NEW clean, Show(a, st, cur, clean)
  PROVE  PagesQuiet
<1>. DEFINE r     == admin[a]
            moved == st # r.status \/ cur # r.current
            ask   == IF moved /\ st = "connected" /\ cur # 0 THEN cur
                     ELSE IF moved \/ clean THEN 0 ELSE r.ask
            mic   == IF moved \/ clean THEN 0 ELSE r.mic
<1>1. r = Page(r) /\ InCall(r)
  BY SMTT(30) DEF Shape, PageInv
<1>2. \A b \in Admins \ {a} : admin'[b] = admin[b]
  BY SMTT(60) DEF Show, Shape, PageInv
<1>3. admin'[a] = [status |-> st, current |-> cur, ask |-> ask, mic |-> mic,
                   audio |-> r.audio /\ ~(moved \/ clean)]
  BY ZenonT(60), <1>1 DEF Show, Shape, PageInv, Page
<1>4. admin'[a].mic = mic /\ admin'[a].audio = (r.audio /\ ~(moved \/ clean))
  BY <1>3
<1>5. moved \/ clean => admin'[a].mic = 0
  BY <1>4
<1>6. ~(moved \/ clean) => admin'[a].mic = r.mic
  BY <1>4
<1>. HIDE DEF r, moved
<1>7. ~(moved \/ clean) => (r.audio => admin'[a].audio)
  BY <1>4, Zenon
<1>8. admin'[a].mic # 0 => admin'[a].mic = r.mic /\ (r.audio => admin'[a].audio)
  BY <1>5, <1>6, <1>7, Zenon
<1>. QED BY <1>2, <1>8, Zenon DEF PagesQuiet, r

LEMMA SentHolds == ASSUME Shape, NEW k \in Conns, NEW m, Send(k, m), UNCHANGED bcast PROVE Holds
BY SentIsThere DEF Holds

LEMMA RestHolds == ASSUME UNCHANGED <<toGw, bcast>> PROVE Holds
BY DEF Holds

LEMMA PageHears ==
  ASSUME Shape, Rules, AudioRules, NEW a \in Admins, Call(a) \/ HangUp(a) \/ Acknowledge(a) \/ AdminMicFails(a)
  PROVE  AudioRules'
<1>1. UNCHANGED <<registry, bcast, tab>>
  BY DEF Call, HangUp, Acknowledge, AdminMicFails
<1>2. UNCHANGED toGw \/ \E m : Send(a, m)
  BY DEF Call, HangUp, Acknowledge, AdminMicFails
<1>3. Holds
  BY <1>1, <1>2, Sides, SentHolds, RestHolds
<1>4. CASE AdminMicFails(a)
  <2>1. admin'[a].mic = 0 /\ \A b \in Admins \ {a} : admin'[b] = admin[b]
    BY <1>4 DEF AdminMicFails, Shape, PageInv, Page
  <2>2. PagesQuiet
    BY <2>1 DEF PagesQuiet
  <2>. QED BY <1>1, <1>3, <2>2, Unmoved, ClientHears
<1>5. CASE Call(a) \/ HangUp(a) \/ Acknowledge(a)
  <2>1. \E st, cur, clean : Show(a, st, cur, clean)
    BY <1>5 DEF Call, HangUp, Acknowledge
  <2>. QED BY <1>1, <1>3, <2>1, ShowMic, Unmoved, ClientHears
<1>. QED BY <1>4, <1>5

\* With the microphone comes the offer.
LEMMA OfferSent == ASSUME Shape, Rules, AudioRules, NEW a \in Admins, AdminMicGranted(a) PROVE AudioRules'
<1>1. /\ admin' = [admin EXCEPT ![a].mic = admin[a].ask, ![a].ask = 0]
      /\ Send(a, Msg("offer", admin[a].ask)) /\ UNCHANGED <<registry, bcast, tab>>
  BY DEF AdminMicGranted
<1>2. /\ Holds /\ a \in Conns
      /\ admin[a].ask \in Named(toGw'[a], "offer")
  BY <1>1, Sides, SentHolds, SentIsThere DEF Msg
<1>3. admin'[a].mic = admin[a].ask /\ \A b \in Admins \ {a} : admin'[b] = admin[b]
  BY <1>1 DEF Shape, PageInv, Page
<1>. SUFFICES ASSUME NEW b \in Admins, NEW u \in Tabs, NEW c \in Calls, Hears(b, u, c)'
              PROVE  Sped(b, u, c)' \/ Stored(u, c)'
  BY DEF AudioRules, AudioRule
<1>4. CASE b = a
  BY <1>2, <1>3, <1>4 DEF Hears, Sped
<1>5. CASE b # a
  <2>1. Hears(b, u, c)
    BY <1>1, <1>3, <1>5 DEF Hears
  <2>2. Sped(b, u, c) \/ Stored(u, c)
    BY <2>1 DEF AudioRules, AudioRule
  <2>. QED BY <1>1, <1>2, <2>2, SpedOn DEF Stored
<1>. QED BY <1>4, <1>5

\* One tab is written.
LEMMA TabKeepsStill ==
  ASSUME Shape, NEW u \in Tabs, NEW s, tab' = [tab EXCEPT ![u] = s],
         \/ s.active \notin Calls \/ s.pc \notin Calls
         \/ s.active = tab[u].active /\ s.pc = tab[u].pc /\ s.offer = tab[u].offer /\ s.local = tab[u].local
  PROVE  TabsQuiet
<1>1. tab'[u] = s /\ \A v \in Tabs \ {u} : tab'[v] = tab[v]
  BY DEF Shape, TabInv
<1>. QED BY <1>1 DEF TabsQuiet, Stored

LEMMA ZeroIsNoCall == 0 \notin Calls
BY DEF Calls

LEMMA TabHears ==
  ASSUME Shape, Rules, AudioRules, odd' = {}, NEW u \in Tabs, Accept(u) \/ Reject(u) \/ Leave(u)
  PROVE  AudioRules'
<1>. PICK s : s = tab[u]
  OBVIOUS
<1>1. s = Tab(s) /\ UNCHANGED <<registry, bcast, admin>> /\ \E m : Send(u, m)
  BY DEF Shape, TabInv, Accept, Reject, Leave
<1>2. Holds
  BY <1>1, Sides, SentHolds
<1>3. SUFFICES TabsQuiet
  BY <1>1, <1>2, Unmoved, ClientHears
<1>4. CASE Reject(u)
  <2>1. tab' = [tab EXCEPT ![u] = [s EXCEPT !.incoming = 0]]
    BY <1>4 DEF Reject, Shape, TabInv
  <2>2. /\ [s EXCEPT !.incoming = 0].active = s.active /\ [s EXCEPT !.incoming = 0].pc = s.pc
        /\ [s EXCEPT !.incoming = 0].offer = s.offer /\ [s EXCEPT !.incoming = 0].local = s.local
    BY <1>1 DEF Tab
  <2>. QED BY <2>1, <2>2, TabKeepsStill
<1>5. CASE Leave(u)
  <2>1. s.active # 0 /\ tab' = [tab EXCEPT ![u] = Activate(s, 0)]
    BY <1>5 DEF Leave
  <2>2. Activate(s, 0).active = 0
    BY <1>1, <2>1 DEF Activate, Clean, Tab
  <2>. QED BY <2>1, <2>2, ZeroIsNoCall, TabKeepsStill
<1>6. CASE Accept(u)
  <2>. PICK c : c = s.incoming
    OBVIOUS
  <2>1. /\ c # 0 /\ tab' = [tab EXCEPT ![u] = [Activate(s, c) EXCEPT !.incoming = 0]]
        /\ ~Rivals(u, c)
    BY <1>6 DEF Accept
  <2>2. [Activate(s, c) EXCEPT !.incoming = 0].active = c
    BY <1>1, <2>1, CleanTab DEF Activate, Tab
  <2>3. tab'[u].active = c /\ \A v \in Tabs \ {u} : tab'[v] = tab[v]
    BY <2>1, <2>2 DEF Shape, TabInv
  <2>4. Shown(c) = Tabs
    BY <2>1 DEF Rivals, Shown
  <2>5. c \in Entries
    BY <2>1 DEF Shape, ClientsOK, TabIds, Ids, GatewayOK, Entries
  <2>6. registry[c] # "Accepted"
    BY <2>4, <2>5 DEF Rules, TabsRule, TabsClaim, TabsAgree, Free, Reg
  <2>. QED BY <2>3, <2>6 DEF TabsQuiet, Stored
<1>. QED BY <1>4, <1>5, <1>6

\* A microphone answers the offer that waited for it.
LEMMA TabMicHears ==
  ASSUME Shape, Rules, AudioRules, odd' = {}, NEW u \in Tabs, NEW d \in Calls,
         TabMicGranted(u, d) \/ TabMicFails(u, d)
  PROVE  AudioRules'
<1>. PICK s : s = tab[u]
  OBVIOUS
<1>1. s = Tab(s) /\ u \in Conns /\ UNCHANGED <<registry, bcast, admin>>
  BY Sides DEF Shape, TabInv, TabMicGranted, TabMicFails
<1>2. CASE TabMicFails(u, d)
  <2>. PICK n : n = [Clean(s) EXCEPT !.asks = @ \ {d}]
    OBVIOUS
  <2>1. tab' = [tab EXCEPT ![u] = n] /\ UNCHANGED toGw
    BY <1>2 DEF TabMicFails
  <2>2. n.pc = 0
    BY <1>1 DEF Clean, Tab
  <2>. QED BY <1>1, <2>1, <2>2, ZeroIsNoCall, TabKeepsStill, RestHolds, Unmoved, ClientHears
<1>3. CASE TabMicGranted(u, d)
  <2>1. s.pc = d
    BY <1>3 DEF TabMicGranted, Mark
  <2>. PICK got : got = [s EXCEPT !.asks = @ \ {d}, !.local = d, !.live = @ \cup {d}]
    OBVIOUS
  <2>2. got.active = s.active /\ got.pc = d /\ got.offer = s.offer /\ got.local = d
    BY <1>1, <2>1 DEF Tab
  <2>3. /\ tab' = [tab EXCEPT ![u] = IF s.offer = d THEN [got EXCEPT !.offer = 0] ELSE got]
        /\ IF s.offer = d THEN Send(u, Msg("answerSdp", d)) ELSE UNCHANGED toGw
    BY <1>3, <2>1 DEF TabMicGranted
  <2>4. Holds
    BY <1>1, <2>3, SentHolds, RestHolds
  <2>5. [got EXCEPT !.offer = 0].active = s.active /\ [got EXCEPT !.offer = 0].pc = d
    BY <1>1, <2>1 DEF Tab
  <2>6. /\ tab'[u].active = s.active /\ tab'[u].pc = s.pc
        /\ \A v \in Tabs \ {u} : tab'[v] = tab[v]
    BY <2>1, <2>2, <2>3, <2>5 DEF Shape, TabInv
  <2>. SUFFICES ASSUME NEW a \in Admins, NEW v \in Tabs, NEW c \in Calls, Hears(a, v, c)'
                PROVE  Sped(a, v, c)' \/ Stored(v, c)'
    BY DEF AudioRules, AudioRule
  <2>7. Hears(a, v, c)
    BY <1>1, <2>6 DEF Hears
  <2>8. Sped(a, v, c) \/ Stored(v, c)
    BY <2>7 DEF AudioRules, AudioRule
  <2>9. CASE v = u /\ Stored(v, c)
    <3>1. c = d /\ s.offer = d
      BY <2>1, <2>7, <2>9 DEF Hears, Stored
    <3>2. d \in Named(toGw'[u], "answerSdp")
      BY <1>1, <2>3, <3>1, SentIsThere DEF Msg
    <3>. QED BY <2>9, <3>1, <3>2 DEF Sped
  <2>. QED BY <2>4, <2>6, <2>8, <2>9, SpedOn DEF Stored
<1>. QED BY <1>2, <1>3

\* A message less that is neither an offer nor an answer.
LEMMA HeardHolds ==
  ASSUME Shape, NEW k \in Conns, UNCHANGED toGw,
         \/ UNCHANGED bcast
         \/ bcast[k] # <<>> /\ bcast' = [bcast EXCEPT ![k] = Tail(@)] /\ Head(bcast[k]).t \notin Media
  PROVE  Holds
<1>1. \A j \in Conns : \A t \in Media : Named(bcast[j], t) \subseteq Named(bcast'[j], t)
  BY HeardIsGone
<1>. QED BY <1>1 DEF Holds

\* With the answer the page hears the tab; without it, it only turns off.
LEMMA PageHearsEvent ==
  ASSUME Shape, Rules, AudioRules, NEW k \in Admins, NEW h, AdminEvent(k, h), UNCHANGED <<registry, toGw>>,
         \/ UNCHANGED bcast
         \/ bcast[k] # <<>> /\ bcast' = [bcast EXCEPT ![k] = Tail(@)] /\ Head(bcast[k]) = h
  PROVE  AudioRules'
<1>1. k \in Conns /\ UNCHANGED tab
  BY Sides DEF AdminEvent
<1>2. CASE h.t = "answerSdp"
  <2>1. admin' = [admin EXCEPT ![k].audio = admin[k].mic # 0]
    BY <1>2 DEF AdminEvent
  <2>2. /\ \A b \in Admins \ {k} : admin'[b] = admin[b]
        /\ admin'[k].mic = admin[k].mic /\ (admin[k].mic # 0 => admin'[k].audio)
    <3>1. /\ \A b \in Admins \ {k} : admin'[b] = admin[b]
          /\ admin'[k] = [admin[k] EXCEPT !.audio = admin[k].mic # 0]
      BY <2>1 DEF Shape, PageInv
    <3>2. admin[k] = Page(admin[k])
      BY DEF Shape, PageInv
    <3>3. admin'[k].mic = admin[k].mic /\ admin'[k].audio = (admin[k].mic # 0)
      BY <3>1, <3>2 DEF Page
    <3>4. admin[k].mic # 0 => admin'[k].audio
      BY <3>3, Zenon
    <3>. QED BY <3>1, <3>3, <3>4
  <2>. SUFFICES ASSUME NEW a \in Admins, NEW u \in Tabs, NEW c \in Calls, Hears(a, u, c)'
                PROVE  Sped(a, u, c)' \/ Stored(u, c)'
    BY DEF AudioRules, AudioRule
  <2>3. a # k
    BY <2>2, ZeroIsNoCall DEF Hears
  <2>4. Hears(a, u, c)
    BY <1>1, <2>2, <2>3 DEF Hears
  <2>5. Sped(a, u, c) \/ Stored(u, c)
    BY <2>4 DEF AudioRules, AudioRule
  <2>6. a \in Conns /\ u \in Conns /\ u # k
    BY Sides
  <2>7. \A t : Named(bcast[a], t) \subseteq Named(bcast'[a], t) /\ Named(bcast[u], t) \subseteq Named(bcast'[u], t)
    BY <1>1, <2>3, <2>6, HeardIsGone
  <2>. QED BY <1>1, <2>5, <2>7 DEF Sped, Stored
<1>3. CASE h.t # "answerSdp"
  <2>1. (\E st, cur, clean : Show(k, st, cur, clean)) /\ h.t \notin Media
    BY <1>3 DEF AdminEvent, Media
  <2>2. Holds
    BY <1>1, <2>1, HeardHolds
  <2>. QED BY <1>1, <2>1, <2>2, ShowMic, Unmoved, ClientHears
<1>. QED BY <1>2, <1>3

\* A tab answers the offer for its call, or keeps it.
LEMMA TabHearsEvent ==
  ASSUME Shape, Rules, AudioRules, NEW k \in Tabs, NEW h, TabEvent(k, h), UNCHANGED registry,
         \/ UNCHANGED bcast
         \/ bcast[k] # <<>> /\ bcast' = [bcast EXCEPT ![k] = Tail(@)] /\ Head(bcast[k]) = h
  PROVE  AudioRules'
<1>. PICK s : s = tab[k]
  OBVIOUS
<1>1. s = Tab(s) /\ k \in Conns /\ UNCHANGED admin
  BY Sides DEF Shape, TabInv, TabEvent
<1>2. CASE h.t # "offer"
  <2>1. UNCHANGED toGw /\ h.t \notin Media
    BY <1>2 DEF TabEvent, Media
  <2>2. Holds
    BY <1>1, <2>1, HeardHolds
  <2>3. CASE h.t = "incoming"
    <3>1. tab' = [tab EXCEPT ![k] = [s EXCEPT !.incoming = h.c]]
      BY <2>3 DEF TabEvent, Shape, TabInv
    <3>2. /\ [s EXCEPT !.incoming = h.c].active = s.active /\ [s EXCEPT !.incoming = h.c].pc = s.pc
          /\ [s EXCEPT !.incoming = h.c].offer = s.offer /\ [s EXCEPT !.incoming = h.c].local = s.local
      BY <1>1 DEF Tab
    <3>. QED BY <1>1, <2>2, <3>1, <3>2, TabKeepsStill, Unmoved, ClientHears
  <2>4. CASE h.t \in {"ended", "error"}
    <3>1. tab' = [tab EXCEPT ![k] = ClearCall(s)]
      BY <2>4 DEF TabEvent
    <3>2. ClearCall(s).active = 0
      <4>. PICK r : r = Clean(s)
        OBVIOUS
      <4>1. r = Tab(r) /\ Clean(r) = Tab(Clean(r))
        BY <1>1, CleanTab
      <4>2. Activate(r, 0).active = 0 /\ Activate(r, 0) = Tab(Activate(r, 0))
        BY <4>1, ActivateTab DEF Activate, Tab
      <4>. QED BY <4>2 DEF ClearCall, Tab
    <3>. QED BY <1>1, <2>2, <3>1, <3>2, ZeroIsNoCall, TabKeepsStill, Unmoved, ClientHears
  <2>. QED BY <1>2, <2>3, <2>4 DEF TabEvent
<1>3. CASE h.t = "offer"
  <2>1. TabOffer(k, h.c)
    BY <1>3 DEF TabEvent
  <2>2. /\ UNCHANGED toGw \/ Send(k, Msg("answerSdp", h.c))
        /\ \A v \in Tabs \ {k} : tab'[v] = tab[v]
        /\ tab'[k].active = s.active /\ tab'[k].pc = s.pc /\ tab'[k].local = s.local
        /\ tab'[k].offer = s.offer \/ (h.c = s.active /\ tab'[k].offer = h.c)
        /\ h.c = s.active => \/ Send(k, Msg("answerSdp", h.c))
                             \/ tab'[k].offer = h.c /\ (s.pc = 0 \/ s.local = 0)
    BY <1>1, <2>1 DEF TabOffer, Shape, TabInv, Tab
  <2>3. \A j \in Conns : \A t : Named(toGw[j], t) \subseteq Named(toGw'[j], t)
    BY <1>1, <2>2, SentIsThere
  <2>. SUFFICES ASSUME NEW a \in Admins, NEW u \in Tabs, NEW c \in Calls, Hears(a, u, c)'
                PROVE  Sped(a, u, c)' \/ Stored(u, c)'
    BY DEF AudioRules, AudioRule
  <2>4. Hears(a, u, c) /\ c # 0
    BY <1>1, <2>2, ZeroIsNoCall DEF Hears
  <2>5. Sped(a, u, c) \/ Stored(u, c)
    BY <2>4 DEF AudioRules, AudioRule
  <2>6. a \in Conns /\ a # k /\ u \in Conns
    BY Sides
  <2>7. /\ \A t : Named(bcast[a], t) \subseteq Named(bcast'[a], t)
        /\ c \in Named(bcast[u], "offer") => c \in Named(bcast'[u], "offer") \/ (u = k /\ c = h.c)
    BY ZenonT(60), <1>1, <2>6, HeardIsGone
  <2>8. CASE u = k /\ c = h.c
    <3>1. CASE Send(k, Msg("answerSdp", h.c))
      <4>1. c \in Named(toGw'[u], "answerSdp")
        BY <1>1, <2>8, <3>1, SentIsThere DEF Msg
      <4>. QED BY <4>1 DEF Sped
    <3>2. CASE tab'[k].offer = h.c /\ (s.pc = 0 \/ s.local = 0)
      BY <2>2, <2>4, <2>8, <3>2 DEF Hears, Stored
    <3>. QED BY <2>2, <2>4, <2>8, <3>1, <3>2 DEF Hears
  <2>9. CASE ~(u = k /\ c = h.c)
    <3>1. Sped(a, u, c) => Sped(a, u, c)'
      BY <2>3, <2>6, <2>7, <2>9 DEF Sped
    <3>2. Stored(u, c) => Stored(u, c)'
      BY <2>2, <2>4, <2>9 DEF Hears, Stored
    <3>. QED BY <2>5, <3>1, <3>2
  <2>. QED BY <2>8, <2>9
<1>. QED BY <1>2, <1>3

LEMMA ReceiveHears == ASSUME Shape, Rules, AudioRules, NEW k \in Conns, Receive(k) PROVE AudioRules'
<1>1. UNCHANGED registry
  BY DEF Receive
<1>. PICK h : /\ IF k \in Admins THEN AdminEvent(k, h) /\ UNCHANGED toGw ELSE TabEvent(k, h)
              /\ \/ UNCHANGED bcast
                 \/ bcast[k] # <<>> /\ bcast' = [bcast EXCEPT ![k] = Tail(@)] /\ Head(bcast[k]) = h
  BY DEF Receive
<1>2. CASE k \in Admins
  BY <1>1, <1>2, PageHearsEvent
<1>3. CASE k \notin Admins
  <2>1. k \in Tabs
    BY <1>3 DEF Conns
  <2>. QED BY <1>1, <1>3, <2>1, TabHearsEvent
<1>. QED BY <1>2, <1>3

LEMMA AudioInit == Init => AudioRules
BY DEF Init, AudioRules, AudioRule, Hears

LEMMA AudioStep ==
  ASSUME Shape, CallInv, Parties, odd = {} => AudioRules, [Next]_vars
  PROVE  odd' = {} => AudioRules'
<1>. SUFFICES ASSUME odd' = {} PROVE AudioRules'
  OBVIOUS
<1>1. Rules /\ AudioRules
  BY OddStays DEF Parties
<1>2. CASE UNCHANGED vars
  <2>1. UNCHANGED <<registry, toGw, bcast, admin, tab>>
    BY <1>2 DEF vars
  <2>. QED BY <1>1, <2>1, RestHolds, Unmoved, ClientHears
<1>3. CASE GatewayStep
  <2>1. ASSUME NEW k \in Conns, EndCall(k) PROVE AudioRules'
    BY <1>1, <2>1, LeavesHears DEF EndCall, Media
  <2>2. ASSUME NEW u \in Tabs, RejectCall(u) PROVE AudioRules'
    BY <1>1, <2>2, Sides, LeavesHears DEF RejectCall, Media
  <2>. QED BY <1>1, <1>3, <2>1, <2>2, InitiateHears, AnswerHears, RelayHears, BookHears DEF GatewayStep
<1>4. CASE \E k \in Conns : Drop(k)
  BY <1>4 DEF Drop
<1>5. CASE \E k \in Conns : Reconnect(k)
  <2>1. UNCHANGED <<registry, toGw, bcast, admin, tab>>
    BY <1>5 DEF Reconnect
  <2>. QED BY <1>1, <2>1, RestHolds, Unmoved, ClientHears
<1>6. CASE \E a \in Admins : \/ Call(a) \/ HangUp(a) \/ Acknowledge(a) \/ AdminMicGranted(a) \/ AdminMicFails(a)
  BY <1>1, <1>6, PageHears, OfferSent
<1>7. CASE \E u \in Tabs : \/ Accept(u) \/ Reject(u) \/ Leave(u)
                           \/ \E c \in Calls : TabMicGranted(u, c) \/ TabMicFails(u, c)
  BY <1>1, <1>7, TabHears, TabMicHears
<1>8. CASE \E k \in Conns : Receive(k)
  BY <1>1, <1>8, ReceiveHears
<1>. QED BY <1>2, <1>3, <1>4, <1>5, <1>6, <1>7, <1>8, Zenon DEF Next

LEMMA QuietHears ==
  ASSUME Shape, Rules, AudioRules, PartiesAgree, Quiet, odd = {}
  PROVE  AudioComesUp
<1>. SUFFICES ASSUME NEW a \in Admins, NEW u \in Tabs, admin[a].mic # 0, tab[u].local = admin[a].mic,
                     ~admin[a].audio
              PROVE  FALSE
  BY DEF AudioComesUp
<1>. PICK c : c = admin[a].mic
  OBVIOUS
<1>1. a \in Conns /\ u \in Conns
  BY Sides
<1>2. tab[u].local = c /\ tab[u].pc = c /\ tab[u].active = c /\ c # 0
  BY DEF Shape, TabInv, Sound
<1>3. registry[c] = "Accepted"
  BY <1>2 DEF PartiesAgree
<1>4. c \in Calls
  <2>1. c \in 0..Len(caller) /\ Len(caller) \in Nat /\ Len(caller) <= MaxCalls
    BY <1>2, WaitingNat, CallsAssumption DEF Shape, ClientsOK, TabIds, Ids, GatewayOK, Room
  <2>. QED BY <1>2, <2>1, CallsAssumption DEF Calls
<1>5. Sped(a, u, c)
  BY <1>2, <1>3, <1>4 DEF AudioRules, AudioRule, Hears, Stored
<1>6. toGw[a] = <<>> /\ toGw[u] = <<>> /\ bcast[a] = <<>> /\ bcast[u] = <<>>
  BY <1>1 DEF Quiet
<1>. QED BY <1>5, <1>6, EmptyNames DEF Sped

\* Whatever the calls, the tabs and the pages, once everything has arrived and
\* nothing disturbed the calls, two microphones in one call are connected.
THEOREM AudioAlwaysComesUp == Spec => []AudioComesUp
<1>. DEFINE Audible == odd = {} => AudioRules
<1>1. Init => Parties /\ Audible
  BY PartiesInit, AudioInit
<1>2. Shape /\ CallInv /\ Parties /\ Audible /\ [Next]_vars => Parties' /\ Audible'
  BY PartiesStep, AudioStep
<1>3. Shape /\ CallInv /\ Parties /\ Audible => AudioComesUp
  <2>1. ~(Quiet /\ odd = {}) => AudioComesUp
    BY DEF AudioComesUp
  <2>. QED BY <2>1, QuietAgrees, QuietHears DEF Parties
<1>4. Spec => [](Shape /\ CallInv)
  BY ShapeAlways
<1>. QED BY <1>1, <1>2, <1>3, <1>4, PTL DEF Spec
===============================================================================
