--------------------------- MODULE ClientSession ---------------------------
(***************************************************************************)
(* The session of one browser tab: the HTTP client with its single-flight  *)
(* token refresh (src/src/shared/api/http.ts), the auth store with its     *)
(* proactive refresh (src/src/shared/store/auth.store.ts), the guards and  *)
(* the impersonation page that drive them, and the answers of the auth     *)
(* service (external to src/src/, modelled from its routes).               *)
(*                                                                         *)
(* JavaScript runs one macrotask at a time, so an action is one macrotask: *)
(* a click, a timer, or the arrival of one HTTP answer together with every *)
(* promise continuation that answer releases.  Between two actions any     *)
(* other task may run; that is where the store is read stale.              *)
(*                                                                         *)
(* A refresh token is the number of its server session.  An access token   *)
(* is a session and the epoch it was minted in; when an epoch ends every    *)
(* token minted in it is past its expiry.                                  *)
(***************************************************************************)
EXTENDS Integers

CONSTANTS Users,        \* the accounts
          Account,      \* Account[s]: who logs in to the s-th server session
          NoUser,       \* the store's user is null
          Tasks,        \* asynchronous calls the tab may have in flight
          MaxSessions,  \* bound: server sessions ever created
          MaxExpiries,  \* bound: expirations of access tokens, for each session
          MaxFaults,    \* bound: requests lost or failed in transit
          MaxReloads    \* bound: reloads of the page

Sessions == 1..MaxSessions

ASSUME SessionAssumption ==
    /\ NoUser \notin Users
    /\ Account \in [Sessions -> Users]
    /\ Tasks # {}
    /\ MaxSessions \in Nat /\ MaxExpiries \in Nat
    /\ MaxFaults \in Nat /\ MaxReloads \in Nat

VARIABLES
    created,    \* server sessions created so far
    refused,    \* sessions the server no longer refreshes
    epoch,      \* epoch[s]: the access tokens minted before it have expired
    access,     \* store: accessToken
    refresh,    \* store: refreshToken, 0 for null
    user,       \* store: user
    isAuthenticated,
    isHydrated, \* the guards may render
    refreshPromise,  \* http.ts: the session being refreshed, 0 for null
    task,       \* the calls in flight
    timer,      \* proactiveAccessTokenTimer is set
    retryTimer, \* a 120 s re-scheduling timer is pending
    faults, reloads, \* what is left of the bounds
    overtaken   \* history: the identity changed under a call in flight

server == <<created, refused, epoch>>
tokens == <<access, refresh>>
identity == <<access, refresh, user, isAuthenticated>>
timers == <<timer, retryTimer>>
budget == <<faults, reloads>>
vars == <<server, identity, isHydrated, refreshPromise, task, timers, budget, overtaken>>

NoToken == [s |-> 0, v |-> 0]
Token == [s: Sessions, v: Nat] \cup {NoToken}

\* login and logout are never refreshed or retried; "refresh" is the store's
\* own refreshAccessToken and "refreshMe" its second half, which reads /me.
Kinds == {"none", "call", "me", "hydrate", "refresh", "refreshMe", "login", "logout"}
Stages == {"idle", "sent", "waiting", "retried"}
TaskType == [kind: Kinds, st: Stages, tok: Token, sess: 0..MaxSessions,
             from: 0..MaxSessions,
             by: {"user", "timer", "code"}]

Free == [kind |-> "none", st |-> "idle", tok |-> NoToken, sess |-> 0,
         from |-> 0, by |-> "code"]

Busy(t) == task[t].st # "idle"
Waiting(t) == task[t].st = "waiting"

Valid(tok) == tok # NoToken /\ tok.v = epoch[tok.s]

\* http(): SKIP_REFRESH_ON_401 decides both whether the token is sent and
\* whether a 401 is refreshed.
IsAuthEndpoint(kind) == kind \in {"login", "logout"}
SentToken(kind) == IF IsAuthEndpoint(kind) THEN NoToken ELSE access

Http(kind, tok, sess, by) ==
    [kind |-> kind, st |-> "sent", tok |-> tok, sess |-> sess,
     from |-> tok.s, by |-> by]

Init ==
    /\ created = 0 /\ refused = {} /\ epoch = [s \in Sessions |-> 0]
    /\ access = NoToken /\ refresh = 0 /\ user = NoUser /\ isAuthenticated = FALSE
    /\ isHydrated = FALSE
    /\ refreshPromise = 0
    /\ task = [t \in Tasks |-> Free]
    /\ timer = FALSE /\ retryTimer = FALSE
    /\ faults = MaxFaults /\ reloads = MaxReloads
    /\ overtaken = FALSE

-----------------------------------------------------------------------------
(* The server *)

\* The account is deactivated or deleted, or the 30-day session runs out.
Refuse(s) ==
    /\ s \in 1..created /\ s \notin refused
    /\ refused' = refused \cup {s}
    /\ UNCHANGED <<created, epoch, identity, isHydrated, refreshPromise, task,
                   timers, budget, overtaken>>

\* The access tokens of s minted so far pass their expiry (15 minutes).
Expire(s) ==
    /\ s \in 1..created /\ epoch[s] < MaxExpiries
    /\ epoch' = [epoch EXCEPT ![s] = @ + 1]
    /\ UNCHANGED <<created, refused, identity, isHydrated, refreshPromise, task,
                   timers, budget, overtaken>>

\* A login, a registration or an impersonation creates a session.
CreateSession ==
    /\ created < MaxSessions
    /\ created' = created + 1
    /\ UNCHANGED <<refused, epoch>>

NewSession == created + 1

NewToken(s) == [s |-> s, v |-> epoch[s]]

\* A call is lost, times out after REQUEST_TIMEOUT_MS, or meets a 5xx.
Fault ==
    /\ faults > 0
    /\ faults' = faults - 1
    /\ UNCHANGED reloads

-----------------------------------------------------------------------------
(* The store *)

\* What may still write an answer of an earlier identity into the store.
Writers == {t \in Tasks : task[t].kind \in {"me", "hydrate", "refresh", "refreshMe"}}
InFlight == {t \in Tasks : Busy(t) /\ task[t].kind # "login"}

OvertakeBy(others) == overtaken' = (overtaken \/ others # {} \/ refreshPromise # 0)

\* Mutant: the profile stays in the store.
ClearTokensOnly ==
    access' = NoToken /\ refresh' = 0 /\ isAuthenticated' = FALSE /\ UNCHANGED user

ClearSession ==
    /\ access' = NoToken /\ refresh' = 0
    /\ user' = NoUser /\ isAuthenticated' = FALSE

\* scheduleProactiveAccessTokenRefresh: replaces the timer; without both
\* tokens there is nothing to schedule.
Schedule(a, r) == timer' = (a # NoToken /\ r # 0)

\* logout(): the timer is cleared at once; the store only when the POST has
\* been answered, and at once when there is no refresh token to revoke.
LogoutTask(by) == Http("logout", SentToken("logout"), refresh, by)

LogoutBy(ts, by) ==
    /\ timer' = FALSE
    /\ IF refresh # 0
         THEN /\ task' = [t \in Tasks |-> IF t \in ts THEN LogoutTask(by) ELSE task[t]]
              /\ UNCHANGED <<identity, overtaken>>
         ELSE /\ task' = [t \in Tasks |-> IF t \in ts THEN Free ELSE task[t]]
              /\ ClearSession
              /\ OvertakeBy(Writers \ ts)

Login(t) ==
    /\ ~Busy(t)
    /\ task' = [task EXCEPT ![t] = Http("login", SentToken("login"), 0, "user")]
    /\ UNCHANGED <<server, identity, isHydrated, refreshPromise, timers, budget, overtaken>>

\* Any request of a page behind the guards.
Call(t) ==
    /\ ~Busy(t) /\ isAuthenticated /\ isHydrated
    /\ task' = [task EXCEPT ![t] = Http("call", SentToken("call"), 0, "code")]
    /\ UNCHANGED <<server, identity, isHydrated, refreshPromise, timers, budget, overtaken>>

Logout(t) ==
    /\ ~Busy(t) /\ isAuthenticated /\ isHydrated
    /\ LogoutBy({t}, "user")
    /\ UNCHANGED <<server, isHydrated, refreshPromise, retryTimer, budget>>

\* AuthGuard's effect; with no tokens there is nothing to ask the server.
Hydrate(t) ==
    /\ ~Busy(t) /\ ~isHydrated
    /\ \A o \in Tasks : task[o].kind # "hydrate"
    /\ IF access # NoToken /\ refresh # 0
         THEN /\ task' = [task EXCEPT ![t] = Http("hydrate", access, 0, "code")]
              /\ UNCHANGED isHydrated
         ELSE isHydrated' = TRUE /\ UNCHANGED task
    /\ UNCHANGED <<server, identity, refreshPromise, timers, budget, overtaken>>

\* ImpersonatePage: tokens of another account, then hydrateFromStorage.
Impersonate(t) ==
    /\ ~Busy(t) /\ isHydrated
    /\ \A o \in Tasks : task[o].kind # "hydrate"
    /\ CreateSession
    /\ access' = [s |-> NewSession, v |-> 0] /\ refresh' = NewSession /\ user' = NoUser
    /\ UNCHANGED isAuthenticated
    /\ Schedule(access', refresh')
    /\ task' = [task EXCEPT ![t] = Http("hydrate", access', 0, "code")]
    /\ OvertakeBy(InFlight)
    /\ UNCHANGED <<isHydrated, refreshPromise, retryTimer, budget>>

\* The store's refreshAccessToken, which is not single-flight: started by the
\* proactive timer, or by ensureValidAccessToken for a socket (by "code").
RefreshTask(by) == Http("refresh", SentToken("refresh"), refresh, by)

\* Both act in the last minute (EXPIRY_BUFFER_SEC) of the token, or later.
Expiring == access # NoToken => access.v < MaxExpiries

TimerFires(t) ==
    /\ ~Busy(t) /\ timer /\ Expiring
    /\ timer' = FALSE
    /\ IF refresh # 0
         THEN task' = [task EXCEPT ![t] = RefreshTask("timer")] /\ UNCHANGED retryTimer
         ELSE retryTimer' = TRUE /\ UNCHANGED task
    /\ UNCHANGED <<server, identity, isHydrated, refreshPromise, budget, overtaken>>

EnsureValid(t) ==
    /\ ~Busy(t) /\ access # NoToken /\ refresh # 0 /\ Expiring
    /\ task' = [task EXCEPT ![t] = RefreshTask("code")]
    /\ UNCHANGED <<server, identity, isHydrated, refreshPromise, timers, budget, overtaken>>

RetryTimerFires ==
    /\ retryTimer
    /\ retryTimer' = FALSE
    /\ Schedule(access, refresh)
    /\ UNCHANGED <<server, identity, isHydrated, refreshPromise, task, budget, overtaken>>

\* The tab reloads: only the persisted part of the store survives, and
\* onRehydrateStorage schedules the timer before any event can follow.
Reload ==
    /\ reloads > 0 /\ reloads' = reloads - 1
    /\ isHydrated' = FALSE
    /\ refreshPromise' = 0
    /\ task' = [t \in Tasks |-> Free]
    /\ Schedule(access, refresh) /\ retryTimer' = FALSE
    /\ UNCHANGED <<server, identity, faults, overtaken>>

-----------------------------------------------------------------------------
(* Answers *)

\* What the server may answer to the request t has sent.
Answers(t) ==
    CASE task[t].kind \in {"call", "logout"} ->
            IF Valid(task[t].tok) THEN {"ok"} ELSE {"401"}
      [] task[t].kind \in {"me", "hydrate", "refreshMe"} ->
            IF ~Valid(task[t].tok) THEN {"401"}
            ELSE IF task[t].tok.s \in refused THEN {"ok", "404"} ELSE {"ok"}
      [] task[t].kind = "refresh" ->
            IF task[t].sess \in refused THEN {"401"} ELSE {"ok"}
      [] OTHER -> {"ok", "401"}

\* The 401 that http() answers with a refresh instead of an error.
IsRefreshable(t) ==
    task[t].st = "sent" /\ task[t].tok # NoToken /\ ~IsAuthEndpoint(task[t].kind)

Answered(t, r) ==
    /\ task[t].st \in {"sent", "retried"}
    /\ r \in Answers(t)
    /\ ~(r = "401" /\ IsRefreshable(t))

Finish(t) == task' = [task EXCEPT ![t] = Free]

\* Mutant: a failed refresh is not tried again.
CallersFailQuietly(ts) ==
    /\ isHydrated' = (isHydrated \/ \E t \in ts : task[t].kind = "hydrate")
    /\ UNCHANGED retryTimer

\* Error paths of the callers of http(): hydrateFromStorage lets the page
\* render, a refresh started by the timer re-schedules in 120 s.
CallersFail(ts) ==
    /\ isHydrated' = (isHydrated \/ \E t \in ts : task[t].kind = "hydrate")
    /\ retryTimer' = (retryTimer \/ \E t \in ts :
                        task[t].kind \in {"refresh", "refreshMe"} /\ task[t].by = "timer")

CallAnswered(t) ==
    /\ task[t].kind = "call" /\ \E r \in {"ok", "401"} : Answered(t, r)
    /\ Finish(t)
    /\ UNCHANGED <<server, identity, isHydrated, refreshPromise, timers, budget, overtaken>>

\* refreshUser: the profile of whoever the token belongs to.
MeAnswered(t) ==
    /\ task[t].kind = "me"
    /\ \/ Answered(t, "ok") /\ user' = Account[task[t].tok.s]
       \/ (Answered(t, "404") \/ Answered(t, "401")) /\ UNCHANGED user
    /\ Finish(t)
    /\ UNCHANGED <<server, tokens, isAuthenticated, isHydrated, refreshPromise, timers,
                   budget, overtaken>>

HydrateAnswered(t) ==
    /\ task[t].kind = "hydrate"
    /\ \/ /\ Answered(t, "ok")
          /\ user' = Account[task[t].tok.s] /\ isAuthenticated' = TRUE
          /\ Schedule(access, refresh)
          /\ UNCHANGED <<tokens, overtaken>>
       \/ /\ Answered(t, "404") \/ Answered(t, "401")
          /\ ClearSession
          /\ OvertakeBy(Writers \ {t})
          /\ UNCHANGED timer
    /\ isHydrated' = TRUE
    /\ Finish(t)
    /\ UNCHANGED <<server, refreshPromise, retryTimer, budget>>

\* The store's refresh sets the access token alone and then reads /me with it.
RefreshAnswered(t) ==
    /\ task[t].kind = "refresh"
    /\ \/ /\ Answered(t, "ok")
          /\ access' = NewToken(task[t].sess)
          /\ task' = [task EXCEPT ![t] = Http("refreshMe", access', 0, task[t].by)]
          /\ UNCHANGED <<isHydrated, retryTimer>>
       \/ /\ Answered(t, "401")
          /\ Finish(t)
          /\ CallersFail({t})
          /\ UNCHANGED access
    /\ UNCHANGED <<server, refresh, user, isAuthenticated, refreshPromise, timer, budget, overtaken>>

RefreshMeAnswered(t) ==
    /\ task[t].kind = "refreshMe"
    /\ \/ /\ Answered(t, "ok")
          /\ user' = Account[task[t].tok.s]
          /\ Schedule(access, refresh)
          /\ UNCHANGED <<isHydrated, retryTimer>>
       \/ /\ Answered(t, "404") \/ Answered(t, "401")
          /\ CallersFail({t})
          /\ UNCHANGED <<user, timer>>
    /\ Finish(t)
    /\ UNCHANGED <<server, tokens, isAuthenticated, refreshPromise, budget, overtaken>>

\* Mutant: login() stores the access token and forgets the refresh token.
LoginKeepsRefreshToken(t) ==
    /\ task[t].kind = "login" /\ Answered(t, "ok")
    /\ CreateSession
    /\ access' = [s |-> NewSession, v |-> 0]
    /\ user' = Account[NewSession] /\ isAuthenticated' = TRUE /\ isHydrated' = TRUE
    /\ Schedule(access', refresh)
    /\ OvertakeBy(InFlight)
    /\ Finish(t)
    /\ UNCHANGED <<refresh, refreshPromise, retryTimer, budget>>

LoginAnswered(t) ==
    /\ task[t].kind = "login"
    /\ \/ /\ Answered(t, "ok")
          /\ CreateSession
          /\ access' = [s |-> NewSession, v |-> 0] /\ refresh' = NewSession
          /\ user' = Account[NewSession] /\ isAuthenticated' = TRUE /\ isHydrated' = TRUE
          /\ Schedule(access', refresh')
          /\ OvertakeBy(InFlight)
       \/ /\ Answered(t, "401")
          /\ UNCHANGED <<server, identity, isHydrated, timer, overtaken>>
    /\ Finish(t)
    /\ UNCHANGED <<refreshPromise, retryTimer, budget>>

\* The logout route is behind auth_middleware: it revokes the session of the
\* bearer of a valid access token and answers 401 to anybody else.
LogoutAnswered(t) ==
    /\ task[t].kind = "logout"
    /\ \E r \in {"ok", "401"} :
          /\ Answered(t, r)
          /\ refused' = refused \cup (IF r = "ok" THEN {task[t].sess} ELSE {})
    /\ ClearSession
    /\ OvertakeBy(Writers)
    /\ Finish(t)
    /\ UNCHANGED <<created, epoch, isHydrated, refreshPromise, timers, budget>>

\* A first 401: join the refresh in flight or start it; with no refresh token
\* left refreshAccessToken throws and http() logs out.
Unauthorized(t) ==
    /\ IsRefreshable(t) /\ "401" \in Answers(t)
    /\ IF refreshPromise # 0 \/ refresh # 0
         THEN /\ refreshPromise' = IF refreshPromise # 0 THEN refreshPromise ELSE refresh
              /\ task' = [task EXCEPT ![t].st = "waiting"]
              /\ UNCHANGED <<identity, isHydrated, timers, overtaken>>
         ELSE /\ LogoutBy({t}, "code")
              /\ CallersFail({t})
              /\ UNCHANGED refreshPromise
    /\ UNCHANGED <<server, budget>>

\* The refresh succeeded: setTokens with the refresh token it was started
\* with, every waiter is retried with the new token, and refreshUser runs in
\* the background (it fails at once when no slot of Tasks is free).
WaitersRetry(new) ==
    [t \in Tasks |-> IF Waiting(t) THEN [task[t] EXCEPT !.st = "retried", !.tok = new]
                     ELSE task[t]]

RefreshSucceeds ==
    /\ refreshPromise # 0 /\ refreshPromise \notin refused
    /\ access' = NewToken(refreshPromise) /\ refresh' = refreshPromise
    /\ Schedule(access', refresh')
    /\ refreshPromise' = 0
    /\ IF \E t \in Tasks : ~Busy(t)
         THEN \E t \in Tasks :
                /\ ~Busy(t)
                /\ task' = [WaitersRetry(access') EXCEPT
                              ![t] = Http("me", access', 0, "code")]
         ELSE task' = WaitersRetry(access')
    /\ UNCHANGED <<server, user, isAuthenticated, isHydrated, retryTimer, budget, overtaken>>

\* Mutant: the finally block that resets refreshPromise is missing.
RefreshFailsForever ==
    /\ refreshPromise # 0 /\ refreshPromise \in refused
    /\ LogoutBy({t \in Tasks : Waiting(t)}, "code")
    /\ CallersFail({t \in Tasks : Waiting(t)})
    /\ UNCHANGED <<server, refreshPromise, budget>>

\* Whatever the reason it failed for, every waiter logs out.
RefreshFails ==
    /\ refreshPromise # 0
    /\ \/ refreshPromise \in refused /\ UNCHANGED budget
       \/ Fault
    /\ refreshPromise' = 0
    /\ LogoutBy({t \in Tasks : Waiting(t)}, "code")
    /\ CallersFail({t \in Tasks : Waiting(t)})
    /\ UNCHANGED server

\* The request, or the retry of it, dies on the network.  The retry is inside
\* the try block whose catch logs out.
Lost(t) ==
    /\ task[t].st \in {"sent", "retried"}
    /\ Fault
    /\ IF task[t].st = "retried"
         THEN LogoutBy({t}, "code")
         ELSE /\ Finish(t)
              /\ UNCHANGED timer
              /\ IF task[t].kind = "logout" THEN ClearSession /\ OvertakeBy(Writers)
                                            ELSE UNCHANGED <<identity, overtaken>>
    /\ CallersFail({t})
    /\ UNCHANGED <<server, refreshPromise>>

Answer(t) ==
    \/ CallAnswered(t) \/ MeAnswered(t) \/ HydrateAnswered(t) \/ RefreshAnswered(t)
    \/ RefreshMeAnswered(t) \/ LoginAnswered(t) \/ LogoutAnswered(t) \/ Unauthorized(t)

Next ==
    \/ \E t \in Tasks : \/ Login(t) \/ Impersonate(t)
                        \/ Call(t) \/ Logout(t) \/ Hydrate(t)
                        \/ TimerFires(t) \/ EnsureValid(t)
                        \/ Answer(t) \/ Lost(t)
    \/ RetryTimerFires \/ Reload
    \/ RefreshSucceeds \/ RefreshFails
    \/ \E s \in Sessions : Refuse(s) \/ Expire(s)

Spec == Init /\ [][Next]_vars

-----------------------------------------------------------------------------
(* Properties *)

\* The type invariant.
TypeOK ==
    /\ created \in 0..MaxSessions /\ refused \subseteq 1..created
    /\ epoch \in [Sessions -> Nat]
    /\ access \in Token /\ access.s <= created
    /\ refresh \in 0..created /\ refreshPromise \in 0..created
    /\ user \in Users \cup {NoUser} /\ isAuthenticated \in BOOLEAN
    /\ isHydrated \in BOOLEAN
    /\ task \in [Tasks -> TaskType]
    /\ timer \in BOOLEAN /\ retryTimer \in BOOLEAN /\ overtaken \in BOOLEAN
    /\ faults \in Nat /\ reloads \in Nat

\* Nobody waits for a refresh that does not run, and no refresh runs that
\* nobody waits for: http.ts sets and resets refreshPromise in step with the
\* calls that await it, so a 401 never hangs a page.
WaitersHaveRefresh == (refreshPromise # 0) <=> \E t \in Tasks : Waiting(t)

\* The tokens, the profile and the authenticated flag of the store belong to
\* one session, as long as no login, impersonation or end of session took
\* place while a call of the identity before it was in flight.
SessionCoherent ==
    ~overtaken =>
        /\ access.s = refresh
        /\ user # NoUser => refresh # 0 /\ user = Account[refresh]
        /\ isAuthenticated => refresh # 0

\* Under the same condition a request that met a 401 is retried as the account
\* that sent it: http.ts reads the refresh token when the 401 arrives, not
\* when the request left.
RetryKeepsIdentity ==
    ~overtaken => \A t \in Tasks :
        /\ task[t].st = "retried" => task[t].tok.s = task[t].from
        /\ task[t].st = "waiting" => refreshPromise = task[t].from

\* A tab that holds a session always has its next refresh coming: a timer, or
\* a call in flight that will schedule or end it.
RefreshScheduled ==
    (access # NoToken /\ refresh # 0)
        => \/ timer \/ retryTimer
           \/ \E t \in Tasks : task[t].kind \in {"logout", "refresh", "refreshMe"}
=============================================================================
