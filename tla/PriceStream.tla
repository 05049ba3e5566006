---------------------------- MODULE PriceStream ----------------------------
(***************************************************************************)
(* Price subscriptions of one page: the shared client                      *)
(* (shared/ws/priceStreamClient.ts), the components that use it through     *)
(* usePriceStreamConnection, and the ws-gateway's side of a connection.     *)
(* The deployment without VITE_DATA_PROVIDER_WS_URL: every socket goes to   *)
(* the gateway, logged in or not.                                          *)
(*                                                                         *)
(* An action is one JavaScript task; the methods of the client, which may   *)
(* call each other within a task, are functions from its state to its      *)
(* state.  Access tokens are numbered in the order they are issued.  What  *)
(* they act on, and what should hold of it, is in PriceState.              *)
(***************************************************************************)
EXTENDS PriceState, Sequences, FiniteSets

CONSTANTS Owner,      \* Owner[t]: the user token t was issued to
          MaxDrops,   \* bound: sockets lost
          MaxFaults,  \* bound: token refreshes that fail
          MaxMoves    \* bound: components mounted, unmounted or given other symbols

Tokens == 1..MaxTokens

ASSUME PriceAssumption ==
    /\ MaxTokens \in Nat /\ MaxSockets \in Nat /\ MaxDrops \in Nat /\ MaxFaults \in Nat
    /\ MaxMoves \in Nat
    /\ DOMAIN Owner = Tokens

VARIABLES drops, faults, moves \* what is left of the bounds

session == <<token, issued, expired>>
vars == <<session, client, sock, comp, drops, faults, moves, odd>>

NewSocket == [st |-> "none", out |-> <<>>, inn |-> <<>>, authed |-> 0, subs |-> {}]

Init ==
    /\ token = 0 /\ issued = 0 /\ expired = {}
    /\ client = [ws |-> 0, made |-> 0, authenticated |-> FALSE, paused |-> FALSE,
                 pending |-> {}, subscribed |-> {}, timer |-> FALSE,
                 fresh |-> 0, retry |-> 0]
    /\ sock = [i \in Sockets |-> NewSocket]
    /\ comp = [k \in Components |-> [mounted |-> FALSE, want |-> {}, subbed |-> {},
                                     tok |-> 0, prev |-> 0]]
    /\ drops = MaxDrops /\ faults = MaxFaults /\ moves = MaxMoves
    /\ odd = {}

-----------------------------------------------------------------------------
(* PriceStreamClient, as functions on [c |-> client, s |-> sock, odd |-> odd] *)

Now == [c |-> client, s |-> sock, odd |-> odd]
Becomes(x) == client' = x.c /\ sock' = x.s /\ odd' = x.odd
State(x) == IF x.c.ws = 0 THEN "none" ELSE x.s[x.c.ws].st

\* Mutant: a socket that is connecting is replaced too.
ConnectAnyway(x) ==
    IF x.c.paused \/ State(x) = "open" \/ x.c.made = MaxSockets THEN x
    ELSE LET i == x.c.made + 1
         IN  [c |-> [x.c EXCEPT !.ws = i, !.made = i],
              s |-> [x.s EXCEPT ![i].st = "connecting"],
              odd |-> IF State(x) = "closing" THEN x.odd \cup {"orphan"} ELSE x.odd]

\* connect(): a socket that is closing counts as absent, and is replaced.
Connect(x) ==
    IF x.c.paused \/ State(x) \in {"connecting", "open"} \/ x.c.made = MaxSockets THEN x
    ELSE LET i == x.c.made + 1
         IN  [c |-> [x.c EXCEPT !.ws = i, !.made = i],
              s |-> [x.s EXCEPT ![i].st = "connecting"],
              odd |-> IF State(x) = "closing" THEN x.odd \cup {"orphan"} ELSE x.odd]

Post(x, m) == [x EXCEPT !.s[x.c.ws].out = Append(@, m)]

\* sendSubscribe(): what cannot be sent now waits for auth_success.
\* Mutant: a symbol that cannot be sent is dropped.
SendSubscribeOrDrop(x, syms) ==
    IF State(x) = "open" /\ x.c.authenticated
    THEN [Post(x, [t |-> "subscribe", syms |-> syms, tok |-> 0])
            EXCEPT !.c.subscribed = @ \cup syms]
    ELSE [x EXCEPT !.c.subscribed = @ \cup syms]

SendSubscribe(x, syms) ==
    IF State(x) = "open" /\ x.c.authenticated
    THEN [Post(x, [t |-> "subscribe", syms |-> syms, tok |-> 0])
            EXCEPT !.c.subscribed = @ \cup syms]
    ELSE [x EXCEPT !.c.pending = @ \cup syms]

\* subscribe() and resyncSymbolSubscriptions().
Subscribe(x, syms) == IF syms = {} THEN x ELSE SendSubscribe(Connect(x), syms)

\* unsubscribe() only forgets: nothing is sent, what is pending stays pending.
Unsubscribe(x, syms) == [x EXCEPT !.c.subscribed = @ \ syms]

\* setAuthToken(): null leaves the socket open; a token is sent to an open
\* socket, and opens one when there is none (but not while one is closing).
SetAuthToken(x, t) ==
    IF t = 0
    THEN [x EXCEPT !.c.authenticated = FALSE, !.c.paused = FALSE,
                   !.odd = IF x.c.ws # 0 THEN @ \cup {"relogin"} ELSE @]
    ELSE LET y == [x EXCEPT !.c.paused = FALSE]
         IN  CASE State(y) = "open" -> [y EXCEPT !.c.fresh = @ + 1]
               [] State(y) \in {"none", "closed"} -> Connect(y)
               [] OTHER -> y

SendAuth(x, t) == Post(x, [t |-> "auth", syms |-> {}, tok |-> t])

-----------------------------------------------------------------------------
(* The session, external to this module: the auth store. *)

Login ==
    /\ token = 0 /\ issued < MaxTokens
    /\ issued' = issued + 1 /\ token' = issued + 1
    /\ UNCHANGED <<expired, client, sock, comp, drops, faults, moves, odd>>

Logout ==
    /\ token # 0 /\ token' = 0
    /\ UNCHANGED <<issued, expired, client, sock, comp, drops, faults, moves, odd>>

\* The last token of a user does not expire, which bounds the model.
Renewable == token # 0 /\ issued < MaxTokens /\ Owner[issued + 1] = Owner[token]
Expire ==
    /\ Renewable /\ expired' = expired \cup {token}
    /\ expired' # expired
    /\ UNCHANGED <<token, issued, client, sock, comp, drops, faults, moves, odd>>

\* The store's refresh, proactive or on demand.
Refresh ==
    /\ Renewable
    /\ issued' = issued + 1 /\ token' = issued + 1
    /\ UNCHANGED <<expired, client, sock, comp, drops, faults, moves, odd>>

\* It stores the token, which the components see, and then fails: its /me did.
RefreshHalfway ==
    /\ Renewable /\ token \in expired /\ faults > 0
    /\ issued' = issued + 1 /\ token' = issued + 1 /\ faults' = faults - 1
    /\ odd' = odd \cup {"halfway"}
    /\ UNCHANGED <<expired, client, sock, comp, drops, moves>>

\* ensureValidAccessToken() has answered: a token that is valid, or null when
\* nobody is logged in, the refresh failed, or it went halfway; which of the
\* calls asked for that one is not followed.
Ensured(t) ==
    \/ t = token /\ token \notin expired /\ UNCHANGED faults
    \/ t = 0 /\ token \in expired /\ faults > 0 /\ faults' = faults - 1
    \/ t = 0 /\ token # 0 /\ "halfway" \in odd /\ UNCHANGED faults

-----------------------------------------------------------------------------
(* The hook *)

\* One commit of a component that shows the symbols W: the effects that its
\* change of token or of symbols triggers, in the order they are declared.
Render(k, W) ==
    LET p == comp[k]
        newTok == ~p.mounted \/ p.tok # token
        diff == W # {} /\ (~p.mounted \/ W # p.want)
        gone == p.subbed \ W
        x1 == IF newTok THEN SetAuthToken(Now, token) ELSE Now
        x2 == IF diff THEN Subscribe(Unsubscribe(x1, gone), W \ p.subbed) ELSE x1
        resync == token # 0 /\ W # {} /\ p.prev # token
        x3 == IF resync THEN Subscribe(x2, W) ELSE x2
        robbed == diff /\ \E j \in Components \ {k} : comp[j].mounted /\ comp[j].subbed \cap gone # {}
    IN  /\ newTok \/ W # p.want
        /\ moves' = IF p.mounted /\ W = p.want THEN moves ELSE moves - 1
        /\ moves' \in Nat
        /\ Becomes([x3 EXCEPT !.odd = IF robbed THEN @ \cup {"stolen"} ELSE @])
        /\ comp' = [comp EXCEPT ![k] = [mounted |-> TRUE, want |-> W, tok |-> token,
                                        prev |-> IF resync THEN token ELSE p.prev,
                                        subbed |-> IF diff THEN W ELSE p.subbed]]
        /\ UNCHANGED <<session, drops, faults>>

\* A component leaves the page; the hook has no clean-up for its symbols.
Unmount(k) ==
    /\ comp[k].mounted /\ moves > 0
    /\ moves' = moves - 1
    /\ comp' = [comp EXCEPT ![k] = [mounted |-> FALSE, want |-> {}, subbed |-> {},
                                    tok |-> 0, prev |-> 0]]
    /\ UNCHANGED <<session, client, sock, drops, faults, odd>>

-----------------------------------------------------------------------------
(* The socket's events *)

\* onopen: in gateway mode, authenticate with a fresh token.
Opens(i) ==
    /\ sock[i].st = "connecting"
    /\ sock' = [sock EXCEPT ![i].st = "open"]
    /\ client' = [client EXCEPT !.authenticated = FALSE, !.fresh = @ + 1]
    /\ UNCHANGED <<session, comp, drops, faults, moves, odd>>

\* sendGatewayAuthWithFreshToken() after its await: this.ws is read now.
FreshToken ==
    /\ client.fresh > 0
    /\ \E t \in {0, token} :
         /\ Ensured(t)
         /\ LET x == [Now EXCEPT !.c.fresh = @ - 1]
            IN  Becomes(IF t # 0 /\ State(x) = "open" THEN SendAuth(x, t) ELSE x)
    /\ UNCHANGED <<session, comp, drops, moves>>

\* auth_success: mark and flush what waits, by whichever socket it came.
\* Mutant: what waits is not flushed.
AuthSuccessNoFlush(i) == Becomes([Now EXCEPT !.c.authenticated = TRUE,
                                             !.s[i].inn = Tail(@)])

AuthSuccess(i) ==
    LET x == [Now EXCEPT !.c.authenticated = TRUE, !.s[i].inn = Tail(@)]
    IN  Becomes(IF x.c.pending = {} THEN x
                ELSE SendSubscribe([x EXCEPT !.c.pending = {}], x.c.pending))

\* auth_error: ask the store for a token again ...
AuthError(i) == Becomes([Now EXCEPT !.c.authenticated = FALSE, !.c.retry = @ + 1,
                                    !.s[i].inn = Tail(@)])

Message(i) ==
    /\ sock[i].st = "open" /\ sock[i].inn # <<>>
    /\ IF Head(sock[i].inn) = "auth_success" THEN AuthSuccess(i) ELSE AuthError(i)
    /\ UNCHANGED <<session, comp, drops, faults, moves>>

\* ... and send it, or without one stop reconnecting until setAuthToken.
RetryToken ==
    /\ client.retry > 0
    /\ \E t \in {0, token} :
         /\ Ensured(t)
         /\ LET x == [Now EXCEPT !.c.retry = @ - 1]
            IN  Becomes(CASE t # 0 /\ State(x) = "open" -> SendAuth(x, t)
                          [] t = 0 -> [x EXCEPT !.c.paused = TRUE, !.c.timer = FALSE,
                                 !.s = IF State(x) \in {"connecting", "open"}
                                       THEN [@ EXCEPT ![x.c.ws].st = "closing"] ELSE @]
                          [] OTHER -> x)
    /\ UNCHANGED <<session, comp, drops, moves>>

\* onclose, of whichever socket it is.
Closes(i) ==
    /\ sock' = [sock EXCEPT ![i] = [NewSocket EXCEPT !.st = "closed"]]
    /\ client' = [client EXCEPT !.ws = 0, !.authenticated = FALSE,
                                !.pending = @ \cup client.subscribed,
                                !.timer = @ \/ ~client.paused]
    /\ UNCHANGED <<session, comp, faults, moves, odd>>

Closed(i) == sock[i].st = "closing" /\ Closes(i) /\ UNCHANGED drops

Drop(i) ==
    /\ sock[i].st \in {"connecting", "open"} /\ drops > 0
    /\ drops' = drops - 1
    /\ Closes(i)

\* The back-off timer.
Reconnect ==
    /\ client.timer
    /\ Becomes([Connect(Now) EXCEPT !.c.timer = FALSE])
    /\ UNCHANGED <<session, comp, drops, faults, moves>>

-----------------------------------------------------------------------------
(* The gateway's side of connection i: a second auth on an authenticated     *)
(* connection is ignored without an answer.                                 *)
Gateway(i) ==
    LET m == Head(sock[i].out)
        done == [sock[i] EXCEPT !.out = Tail(@)]
    IN  /\ sock[i].st = "open" /\ sock[i].out # <<>>
        /\ sock' = [sock EXCEPT ![i] =
             CASE m.t = "auth" /\ done.authed = 0 /\ m.tok \in expired ->
                    [done EXCEPT !.inn = Append(@, "auth_error")]
               [] m.t = "auth" /\ done.authed = 0 /\ m.tok \notin expired ->
                    [done EXCEPT !.authed = m.tok, !.inn = Append(@, "auth_success")]
               [] m.t = "subscribe" /\ done.authed # 0 -> [done EXCEPT !.subs = @ \cup m.syms]
               [] OTHER -> done]
        /\ UNCHANGED <<session, client, comp, drops, faults, moves, odd>>

Next ==
    \/ Login \/ Logout \/ Expire \/ Refresh \/ RefreshHalfway
    \/ \E k \in Components : Unmount(k) \/ \E W \in SUBSET Symbols : Render(k, W)
    \/ FreshToken \/ RetryToken \/ Reconnect
    \/ \E i \in Sockets : Opens(i) \/ Message(i) \/ Closed(i) \/ Drop(i) \/ Gateway(i)

\* What happens without the user: components re-render when the token
\* changes, sockets and timers go on, the store's proactive refresh replaces
\* a token that has expired.
Progress ==
    \/ \E i \in Sockets : Opens(i) \/ Message(i) \/ Closed(i) \/ Gateway(i)
    \/ FreshToken \/ RetryToken \/ Reconnect
    \/ token \in expired /\ Refresh
    \/ \E k \in Components : comp[k].mounted /\ comp[k].tok # token /\ Render(k, comp[k].want)

Spec == Init /\ [][Next]_vars /\ WF_vars(Progress)

-----------------------------------------------------------------------------
(* A property of behaviours; those of states are in PriceState. *)

Live(s) == client.ws # 0 /\ s \in sock[client.ws].subs

\* The symbols that the components of a logged-in user show are all
\* subscribed in the end, through lost connections, expired tokens and failed
\* refreshes: one may starve for a while, never for good.  After a refresh that
\* went halfway it may: the retry that is told null pauses the stream after the
\* new token has come (priceStreamClient.ts:271), and only another token ends it.
Starving == /\ token # 0 /\ odd = {}
            /\ \E k \in Components : \E s \in comp[k].want : ~Live(s)
SymbolsArrive == []<>~Starving
=============================================================================
