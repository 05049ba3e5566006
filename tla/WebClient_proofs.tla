--------------------------- MODULE WebClient_proofs ---------------------------
(***************************************************************************)
(* What holds of a browser tab's session for any accounts, number of       *)
(* sessions, calls in flight, expirations, faults and reloads, and of the  *)
(* price stream of the page it shows.                                      *)
(*                                                                         *)
(* Two invariants carry the theorems about the session. CallInv is about   *)
(* the calls in flight: who waits, which session a refresh or a logout     *)
(* names, and what will schedule the next refresh. IdentityInv says,       *)
(* until a call of one identity is overtaken by another, that everything   *)
(* in flight belongs to the session in the store. One carries those about  *)
(* prices, in the last part: StreamInv says that the price client asks     *)
(* its socket for everything the components show, now or when the gateway  *)
(* accepts a token.                                                        *)
(***************************************************************************)
EXTENDS ClientSession, PriceState, Sequences, TLAPS

-------------------------------------------------------------------------------
(* The invariants.                                                         *)

\* The call h, when n sessions were created: a refresh or a logout names one of
\* them; only requests other than login and logout wait or are retried.
Good(h, n) ==
  /\ h \in TaskType
  /\ h.kind \in {"refresh", "logout"} => h.sess \in 1..n
  /\ h.st \in {"waiting", "retried"} => ~IsAuthEndpoint(h.kind)
  /\ h.st # "idle" <=> h.kind # "none"

TaskInv == \A t \in Tasks : Good(task[t], created)

\* A refresh that the timer started schedules the next one whatever its outcome.
Scheduling(t) == \/ task[t].kind = "logout"
                 \/ task[t].kind \in {"refresh", "refreshMe"} /\ task[t].by = "timer"
Scheduled == refresh # 0 =>
  /\ access # NoToken
  /\ timer \/ retryTimer \/ \E t \in Tasks : Scheduling(t)

CallInv == TypeOK /\ TaskInv /\ WaitersHaveRefresh /\ Scheduled

\* The call h belongs to session r: what it will write is that session's, and
\* what it carried when it left was that session's.
Belongs(h, r) ==
  /\ h.kind \in {"me", "hydrate", "refreshMe"} => r # 0 /\ (h.st # "waiting" => h.tok.s = r)
  /\ h.kind = "refresh" => r # 0 /\ h.sess = r
  /\ h.st # "idle" /\ ~IsAuthEndpoint(h.kind) /\ r # 0 => h.from = r

\* RetryKeepsIdentity for one call, when session p is being refreshed.
Keeps(h, p) == /\ h.st = "retried" => h.tok.s = h.from
               /\ h.st = "waiting" => p = h.from

Coherent == /\ access.s = refresh
            /\ user # NoUser => refresh # 0 /\ user = Account[refresh]
            /\ isAuthenticated => refresh # 0

IdentityInv == ~overtaken =>
  /\ Coherent
  /\ refreshPromise # 0 => refreshPromise = refresh
  /\ \A t \in Tasks : Belongs(task[t], refresh) /\ Keeps(task[t], refreshPromise)

-------------------------------------------------------------------------------
(* The records of the calls.                                               *)

USE SessionAssumption
USE DEF server, tokens, identity, timers, budget, Sessions, Busy, Waiting

LEMMA NoTokenType == NoToken \in Token /\ NoToken.s = 0
BY DEF Token, NoToken

LEMMA TokenFields == \A k \in Token : k.s \in 0..MaxSessions /\ (k # NoToken => k.s \in Sessions)
BY DEF Token, NoToken

LEMMA NewTokenType ==
  ASSUME TypeOK, NEW s \in 1..created
  PROVE  NewToken(s) \in Token /\ NewToken(s).s = s /\ NewToken(s) # NoToken
BY DEF TypeOK, NewToken, Token, NoToken

LEMMA FirstTokenType ==
  ASSUME NEW s \in Sessions
  PROVE  LET k == [s |-> s, v |-> 0] IN k \in Token /\ k.s = s /\ k # NoToken
BY DEF Token, NoToken

LEMMA Cleared ==
  ASSUME CallInv, ClearSession
  PROVE  /\ access' \in Token /\ access'.s <= created /\ refresh' = 0
         /\ user' \in Users \cup {NoUser} /\ isAuthenticated' \in BOOLEAN
<1>1. access' = NoToken /\ refresh' = 0 /\ user' = NoUser /\ isAuthenticated' = FALSE
  BY DEF ClearSession
<1>2. access' \in Token /\ access'.s = 0
  BY <1>1, NoTokenType
<1>3. created \in Nat
  BY DEF CallInv, TypeOK
<1>4. access'.s <= created
  BY <1>2, <1>3
<1>. QED
  BY <1>1, <1>2, <1>4

LEMMA FreeGood == /\ \A n \in 0..MaxSessions : Good(Free, n)
                  /\ Free.kind = "none" /\ Free.st = "idle"
BY NoTokenType DEF Good, Free, TaskType, Kinds, Stages

LEMMA HttpGood ==
  ASSUME NEW kind \in Kinds \ {"none"}, NEW tok \in Token, NEW sess \in 0..MaxSessions,
         NEW by \in {"user", "timer", "code"}, NEW n \in 0..MaxSessions,
         kind \in {"refresh", "logout"} => sess \in 1..n
  PROVE  LET h == Http(kind, tok, sess, by) IN
           /\ Good(h, n) /\ h.st = "sent" /\ h.kind = kind /\ h.tok = tok
           /\ h.sess = sess /\ h.from = tok.s /\ h.by = by
BY TokenFields DEF Good, Http, TaskType, Kinds, Stages

\* A call is sent, or ends: nobody starts or stops waiting.
LEMMA Replaced ==
  ASSUME CallInv, NEW t \in Tasks, NEW h, created' \in created..MaxSessions, Good(h, created'),
         task' = [task EXCEPT ![t] = h], task[t].st # "waiting", h.st # "waiting",
         refreshPromise' = refreshPromise
  PROVE  /\ task' \in [Tasks -> TaskType]
         /\ task'[t] = h /\ \A o \in Tasks \ {t} : task'[o] = task[o]
         /\ TaskInv' /\ WaitersHaveRefresh'
<1>1. task \in [Tasks -> TaskType] /\ h \in TaskType
  BY DEF CallInv, TypeOK, Good
<1>2. /\ task' \in [Tasks -> TaskType]
      /\ task'[t] = h /\ \A o \in Tasks \ {t} : task'[o] = task[o]
  BY <1>1
<1>3. TaskInv'
  <2>1. ASSUME NEW o \in Tasks \ {t} PROVE Good(task[o], created')
    BY <2>1 DEF CallInv, TypeOK, TaskInv, Good
  <2>. QED
    BY <1>2, <2>1 DEF TaskInv
<1>4. WaitersHaveRefresh'
  BY <1>2 DEF CallInv, WaitersHaveRefresh
<1>. QED
  BY <1>2, <1>3, <1>4


LEMMA Finished ==
  ASSUME CallInv, NEW t \in Tasks, Finish(t), task[t].st # "waiting",
         created' \in created..MaxSessions, refreshPromise' = refreshPromise
  PROVE  /\ task' \in [Tasks -> TaskType] /\ TaskInv' /\ WaitersHaveRefresh'
         /\ task'[t] = Free /\ \A o \in Tasks \ {t} : task'[o] = task[o]
<1>1. Good(Free, created') /\ Free.st # "waiting" /\ task' = [task EXCEPT ![t] = Free]
  BY FreeGood DEF Finish, CallInv, TypeOK
<1>. QED
  BY <1>1, Replaced

\* The call t has sent a request, and the other calls are as they were.
IsSent(t, kind, tok, sess, by) ==
  /\ task' \in [Tasks -> TaskType] /\ TaskInv' /\ WaitersHaveRefresh'
  /\ task'[t].kind = kind /\ task'[t].st = "sent" /\ task'[t].tok = tok
  /\ task'[t].sess = sess /\ task'[t].from = tok.s /\ task'[t].by = by
  /\ \A o \in Tasks \ {t} : task'[o] = task[o]

LEMMA Sent ==
  ASSUME CallInv, NEW t \in Tasks, task[t].st # "waiting",
         NEW kind \in Kinds \ {"none"}, NEW tok \in Token, NEW sess \in 0..MaxSessions,
         NEW by \in {"user", "timer", "code"},
         created' \in created..MaxSessions, refreshPromise' = refreshPromise,
         kind \in {"refresh", "logout"} => sess \in 1..created',
         task' = [task EXCEPT ![t] = Http(kind, tok, sess, by)]
  PROVE  IsSent(t, kind, tok, sess, by)
<1>. DEFINE h == Http(kind, tok, sess, by)
<1>1. created' \in 0..MaxSessions
  BY DEF CallInv, TypeOK
<1>2. /\ Good(h, created') /\ h.st = "sent" /\ h.kind = kind /\ h.tok = tok
      /\ h.sess = sess /\ h.from = tok.s /\ h.by = by
  BY <1>1, HttpGood
<1>3. task' = [task EXCEPT ![t] = h] /\ h.st # "waiting"
  BY <1>2
<1>. HIDE DEF h
<1>. QED
  BY <1>2, <1>3, Replaced DEF IsSent

\* A profile comes with a valid token, so it is that of an account.
LEMMA AnswerUser ==
  ASSUME TypeOK, NEW t \in Tasks, task[t].kind \in {"me", "hydrate", "refreshMe"},
         Answered(t, "ok")
  PROVE  task[t].tok.s \in Sessions /\ Account[task[t].tok.s] \in Users
<1>1. task[t] \in TaskType
  BY DEF TypeOK
<1>2. task[t].tok \in Token
  BY <1>1 DEF TaskType
<1>3. Valid(task[t].tok)
  BY DEF Answered, Answers
<1>. QED
  BY <1>2, <1>3, TokenFields DEF Valid

-------------------------------------------------------------------------------
(* CallInv is inductive.                                                   *)

LEMMA LoginCall == ASSUME CallInv, NEW t \in Tasks, Login(t) PROVE CallInv'
<1>0. /\ task' = [task EXCEPT ![t] = Http("login", NoToken, 0, "user")]
      /\ task[t].st # "waiting" /\ UNCHANGED <<created, refreshPromise>>
  BY DEF Login, SentToken, IsAuthEndpoint
<1>1. /\ task' \in [Tasks -> TaskType] /\ TaskInv' /\ WaitersHaveRefresh'
      /\ \A o \in Tasks \ {t} : task'[o] = task[o]
  <2>1. "login" \in Kinds \ {"none"} /\ created' \in created..MaxSessions /\ 0 \in 0..MaxSessions
    BY <1>0 DEF CallInv, TypeOK, Kinds
  <2>. QED
    BY ZenonT(60), <1>0, <2>1, Sent, NoTokenType DEF IsSent
<1>2. TypeOK'
  BY <1>1 DEF Login, CallInv, TypeOK
<1>3. Scheduled'
  BY <1>1 DEF Login, CallInv, Scheduled, Scheduling, TaskInv, Good, TypeOK
<1>. QED
  BY <1>1, <1>2, <1>3 DEF CallInv

LEMMA CallCall == ASSUME CallInv, NEW t \in Tasks, Call(t) PROVE CallInv'
<1>0. /\ task' = [task EXCEPT ![t] = Http("call", access, 0, "code")]
      /\ task[t].st # "waiting" /\ UNCHANGED <<created, refreshPromise>>
  BY DEF Call, SentToken, IsAuthEndpoint
<1>1. /\ task' \in [Tasks -> TaskType] /\ TaskInv' /\ WaitersHaveRefresh'
      /\ \A o \in Tasks \ {t} : task'[o] = task[o]
  <2>1. /\ "call" \in Kinds \ {"none"} /\ created' \in created..MaxSessions
        /\ 0 \in 0..MaxSessions /\ access \in Token
    BY <1>0 DEF CallInv, TypeOK, Kinds
  <2>. QED
    BY <1>0, <2>1, Sent DEF IsSent
<1>2. TypeOK'
  BY <1>1 DEF Call, CallInv, TypeOK
<1>3. Scheduled'
  BY <1>1 DEF Call, CallInv, Scheduled, Scheduling, TaskInv, Good, TypeOK
<1>. QED
  BY <1>1, <1>2, <1>3 DEF CallInv

LEMMA EnsureValidCall == ASSUME CallInv, NEW t \in Tasks, EnsureValid(t) PROVE CallInv'
<1>0. /\ task' = [task EXCEPT ![t] = Http("refresh", access, refresh, "code")]
      /\ task[t].st # "waiting" /\ UNCHANGED <<created, refreshPromise>>
  BY DEF EnsureValid, RefreshTask, SentToken, IsAuthEndpoint
<1>1. /\ task' \in [Tasks -> TaskType] /\ TaskInv' /\ WaitersHaveRefresh'
      /\ \A o \in Tasks \ {t} : task'[o] = task[o]
  <2>1. /\ "refresh" \in Kinds \ {"none"} /\ created' \in created..MaxSessions
        /\ refresh \in 0..MaxSessions /\ refresh \in 1..created' /\ access \in Token
    BY <1>0 DEF EnsureValid, CallInv, TypeOK, Kinds
  <2>. QED
    BY ZenonT(60), <1>0, <2>1, Sent DEF IsSent
<1>2. TypeOK'
  BY <1>1 DEF EnsureValid, CallInv, TypeOK
<1>3. Scheduled'
  BY <1>1 DEF EnsureValid, CallInv, Scheduled, Scheduling, TaskInv, Good, TypeOK
<1>. QED
  BY <1>1, <1>2, <1>3 DEF CallInv

LEMMA CallAnsweredCall == ASSUME CallInv, NEW t \in Tasks, CallAnswered(t) PROVE CallInv'
<1>1. /\ task' \in [Tasks -> TaskType] /\ TaskInv' /\ WaitersHaveRefresh'
      /\ task'[t] = Free /\ \A o \in Tasks \ {t} : task'[o] = task[o]
  BY Finished DEF CallAnswered, Answered, CallInv, TypeOK
<1>2. TypeOK'
  BY <1>1 DEF CallAnswered, CallInv, TypeOK
<1>3. Scheduled'
  BY <1>1, FreeGood, NoTokenType DEF CallAnswered, CallInv, Scheduled, Scheduling, TypeOK
<1>. QED
  BY <1>1, <1>2, <1>3 DEF CallInv

LEMMA MeAnsweredCall == ASSUME CallInv, NEW t \in Tasks, MeAnswered(t) PROVE CallInv'
<1>1. /\ task' \in [Tasks -> TaskType] /\ TaskInv' /\ WaitersHaveRefresh'
      /\ task'[t] = Free /\ \A o \in Tasks \ {t} : task'[o] = task[o]
  BY SMTT(60), Finished DEF MeAnswered, Answered, CallInv, TypeOK
<1>2. TypeOK'
  BY <1>1, AnswerUser DEF MeAnswered, CallInv, TypeOK
<1>3. Scheduled'
  BY <1>1, FreeGood, NoTokenType DEF MeAnswered, CallInv, Scheduled, Scheduling, TypeOK
<1>. QED
  BY <1>1, <1>2, <1>3 DEF CallInv

LEMMA HydrateAnsweredCall == ASSUME CallInv, NEW t \in Tasks, HydrateAnswered(t) PROVE CallInv'
<1>1. /\ task' \in [Tasks -> TaskType] /\ TaskInv' /\ WaitersHaveRefresh'
      /\ task'[t] = Free /\ \A o \in Tasks \ {t} : task'[o] = task[o]
  BY SMTT(60), Finished DEF HydrateAnswered, Answered, CallInv, TypeOK
<1>2. TypeOK'
  <2>1. /\ access' \in Token /\ access'.s <= created /\ refresh' \in 0..created
        /\ user' \in Users \cup {NoUser} /\ isAuthenticated' \in BOOLEAN
    <3>1. CASE ClearSession
      BY <3>1, Cleared DEF CallInv, TypeOK
    <3>2. CASE /\ Answered(t, "ok") /\ user' = Account[task[t].tok.s]
               /\ isAuthenticated' = TRUE /\ UNCHANGED tokens
      BY <3>2, AnswerUser DEF HydrateAnswered, CallInv, TypeOK
    <3>. QED
      BY <3>1, <3>2 DEF HydrateAnswered
  <2>3. timer' \in BOOLEAN
    BY DEF HydrateAnswered, CallInv, TypeOK, Schedule
  <2>4. overtaken' \in BOOLEAN
    BY DEF HydrateAnswered, CallInv, TypeOK, OvertakeBy
  <2>. QED
    BY <1>1, <2>1, <2>3, <2>4 DEF HydrateAnswered, CallInv, TypeOK
<1>3. Scheduled'
  BY <1>1, FreeGood, NoTokenType DEF HydrateAnswered, CallInv, Scheduled, Scheduling, TypeOK,
         ClearSession, OvertakeBy, Schedule
<1>. QED
  BY <1>1, <1>2, <1>3 DEF CallInv

LEMMA RefreshMeAnsweredCall == ASSUME CallInv, NEW t \in Tasks, RefreshMeAnswered(t) PROVE CallInv'
<1>1. /\ task' \in [Tasks -> TaskType] /\ TaskInv' /\ WaitersHaveRefresh'
      /\ task'[t] = Free /\ \A o \in Tasks \ {t} : task'[o] = task[o]
  BY Finished DEF RefreshMeAnswered, Answered, CallInv, TypeOK
<1>2. TypeOK'
  BY <1>1, AnswerUser DEF RefreshMeAnswered, CallInv, TypeOK, Schedule, CallersFail
<1>3. Scheduled'
  <2>1. CASE timer' = (access # NoToken /\ refresh # 0)
    BY <2>1 DEF RefreshMeAnswered, CallInv, Scheduled
  <2>2. CASE UNCHANGED timer /\ CallersFail({t})
    BY <1>1, <2>2 DEF RefreshMeAnswered, CallInv, Scheduled, Scheduling, CallersFail
  <2>. QED
    BY <2>1, <2>2 DEF RefreshMeAnswered, Schedule
<1>. QED
  BY <1>1, <1>2, <1>3 DEF CallInv

LEMMA LogoutAnsweredCall == ASSUME CallInv, NEW t \in Tasks, LogoutAnswered(t) PROVE CallInv'
<1>1. /\ task' \in [Tasks -> TaskType] /\ TaskInv' /\ WaitersHaveRefresh'
      /\ task'[t] = Free /\ \A o \in Tasks \ {t} : task'[o] = task[o]
  BY Finished DEF LogoutAnswered, Answered, CallInv, TypeOK
<1>2. TypeOK'
  <2>1. overtaken' \in BOOLEAN
    BY DEF LogoutAnswered, CallInv, TypeOK, OvertakeBy
  <2>2. refused' \subseteq 1..created
    BY DEF LogoutAnswered, CallInv, TypeOK, TaskInv, Good
  <2>. QED
    BY <1>1, <2>1, <2>2, Cleared DEF LogoutAnswered, CallInv, TypeOK
<1>3. Scheduled'
  BY <1>1, FreeGood, NoTokenType DEF LogoutAnswered, CallInv, Scheduled, Scheduling, TypeOK,
         ClearSession, OvertakeBy
<1>. QED
  BY <1>1, <1>2, <1>3 DEF CallInv

LEMMA HydrateCall == ASSUME CallInv, NEW t \in Tasks, Hydrate(t) PROVE CallInv'
<1>1. CASE task' = task
  <2>1. TypeOK'
    BY <1>1 DEF Hydrate, CallInv, TypeOK
  <2>2. TaskInv' /\ WaitersHaveRefresh' /\ Scheduled'
    BY <1>1 DEF Hydrate, CallInv, TaskInv, WaitersHaveRefresh, Scheduled, Scheduling
  <2>. QED
    BY <2>1, <2>2 DEF CallInv
<1>2. CASE /\ task' = [task EXCEPT ![t] = Http("hydrate", access, 0, "code")]
           /\ UNCHANGED isHydrated
  <2>0. /\ "hydrate" \in Kinds \ {"none"} /\ created' \in created..MaxSessions
        /\ 0 \in 0..MaxSessions /\ access \in Token
        /\ task[t].st # "waiting" /\ refreshPromise' = refreshPromise
    BY DEF Hydrate, CallInv, TypeOK, Kinds
  <2>1. /\ task' \in [Tasks -> TaskType] /\ TaskInv' /\ WaitersHaveRefresh'
        /\ \A o \in Tasks \ {t} : task'[o] = task[o]
    BY <1>2, <2>0, Sent DEF IsSent
  <2>2. TypeOK'
    BY <1>2, <2>1 DEF Hydrate, CallInv, TypeOK
  <2>3. Scheduled'
    BY <2>1 DEF Hydrate, CallInv, Scheduled, Scheduling, TaskInv, Good
  <2>. QED
    BY <2>1, <2>2, <2>3 DEF CallInv
<1>. QED
  BY <1>1, <1>2 DEF Hydrate

LEMMA ImpersonateCall == ASSUME CallInv, NEW t \in Tasks, Impersonate(t) PROVE CallInv'
<1>. DEFINE k == [s |-> created + 1, v |-> 0]
<1>0. created + 1 \in Sessions /\ created' = created + 1
  BY DEF Impersonate, CreateSession, CallInv, TypeOK
<1>1. k \in Token /\ k.s = created + 1 /\ k # NoToken
  BY <1>0, FirstTokenType
<1>2. /\ access' = k /\ refresh' = created + 1 /\ task[t].st # "waiting"
      /\ task' = [task EXCEPT ![t] = Http("hydrate", k, 0, "code")]
      /\ refreshPromise' = refreshPromise
  BY DEF Impersonate, NewSession
<1>. HIDE DEF k
<1>3. timer' = TRUE
  <2>1. refresh' # 0
    BY <1>0, <1>2
  <2>. QED
    BY <1>1, <1>2, <2>1 DEF Impersonate, Schedule
<1>4. /\ task' \in [Tasks -> TaskType] /\ TaskInv' /\ WaitersHaveRefresh'
  <2>1. /\ "hydrate" \in Kinds \ {"none"} /\ created' \in created..MaxSessions
        /\ 0 \in 0..MaxSessions
    BY <1>0 DEF CallInv, TypeOK, Kinds
  <2>. QED
    BY <1>1, <1>2, <2>1, Sent DEF IsSent
<1>5. TypeOK'
  <2>1. overtaken' \in BOOLEAN
    BY DEF Impersonate, OvertakeBy, CallInv, TypeOK
  <2>2. refused' \subseteq 1..created' /\ refreshPromise' \in 0..created' /\ refresh' \in 0..created'
    BY <1>0, <1>2 DEF Impersonate, CreateSession, CallInv, TypeOK
  <2>. QED
    BY <1>0, <1>1, <1>2, <1>3, <1>4, <2>1, <2>2
    DEF Impersonate, CreateSession, CallInv, TypeOK
<1>6. Scheduled'
  BY <1>1, <1>2, <1>3 DEF Scheduled
<1>. QED
  BY <1>4, <1>5, <1>6 DEF CallInv

LEMMA TimerFiresCall == ASSUME CallInv, NEW t \in Tasks, TimerFires(t) PROVE CallInv'
<1>1. CASE refresh = 0
  <2>1. task' = task /\ retryTimer' = TRUE
    BY <1>1 DEF TimerFires
  <2>2. TypeOK'
    BY <2>1 DEF TimerFires, CallInv, TypeOK
  <2>3. TaskInv' /\ WaitersHaveRefresh' /\ Scheduled'
    BY <2>1 DEF TimerFires, CallInv, TaskInv, WaitersHaveRefresh, Scheduled
  <2>. QED
    BY <2>2, <2>3 DEF CallInv
<1>2. CASE refresh # 0
  <2>0. /\ task' = [task EXCEPT ![t] = Http("refresh", access, refresh, "timer")]
        /\ task[t].st # "waiting" /\ UNCHANGED <<created, refreshPromise>>
    BY <1>2 DEF TimerFires, RefreshTask, SentToken, IsAuthEndpoint
  <2>1. /\ "refresh" \in Kinds \ {"none"} /\ created' \in created..MaxSessions
        /\ refresh \in 0..MaxSessions /\ refresh \in 1..created' /\ access \in Token
    BY <1>2, <2>0 DEF CallInv, TypeOK, Kinds
  <2>2. /\ task' \in [Tasks -> TaskType] /\ TaskInv' /\ WaitersHaveRefresh'
        /\ task'[t].kind = "refresh" /\ task'[t].by = "timer"
    BY ZenonT(60), <2>0, <2>1, Sent DEF IsSent
  <2>3. TypeOK'
    BY <1>2, <2>2 DEF TimerFires, CallInv, TypeOK
  <2>4. Scheduled'
    BY <2>2 DEF TimerFires, CallInv, Scheduled, Scheduling
  <2>. QED
    BY <2>2, <2>3, <2>4 DEF CallInv
<1>. QED
  BY <1>1, <1>2

LEMMA RefreshAnsweredCall == ASSUME CallInv, NEW t \in Tasks, RefreshAnswered(t) PROVE CallInv'
<1>0. /\ task[t] \in TaskType /\ task[t].kind = "refresh" /\ task[t].sess \in 1..created
      /\ task[t].by \in {"user", "timer", "code"}
      /\ task[t].st # "waiting" /\ UNCHANGED <<created, refreshPromise>>
  BY DEF RefreshAnswered, Answered, CallInv, TypeOK, TaskInv, Good, TaskType
<1>1. CASE /\ access' = NewToken(task[t].sess)
           /\ task' = [task EXCEPT ![t] = Http("refreshMe", access', 0, task[t].by)]
           /\ UNCHANGED <<isHydrated, retryTimer>>
  <2>1. access' \in Token /\ access'.s = task[t].sess /\ access' # NoToken
    BY <1>0, <1>1, NewTokenType DEF CallInv
  <2>2. /\ "refreshMe" \in Kinds \ {"none"} /\ created' \in created..MaxSessions
        /\ 0 \in 0..MaxSessions
    BY <1>0 DEF CallInv, TypeOK, Kinds
  <2>3. /\ task' \in [Tasks -> TaskType] /\ TaskInv' /\ WaitersHaveRefresh'
        /\ task'[t].kind = "refreshMe" /\ task'[t].by = task[t].by
        /\ \A o \in Tasks \ {t} : task'[o] = task[o]
    <3>1. PICK by \in {"user", "timer", "code"}, k \in Token : by = task[t].by /\ k = access'
      BY <1>0, <2>1
    <3>2. task' = [task EXCEPT ![t] = Http("refreshMe", k, 0, by)]
      BY <1>1, <3>1
    <3>3. task[t].st # "waiting" /\ refreshPromise' = refreshPromise
      BY <1>0
    <3>4. /\ task' \in [Tasks -> TaskType] /\ TaskInv' /\ WaitersHaveRefresh'
          /\ task'[t].kind = "refreshMe" /\ task'[t].by = by
          /\ \A o \in Tasks \ {t} : task'[o] = task[o]
      <4>1. "refreshMe" \in {"refresh", "logout"} => 0 \in 1..created'
        OBVIOUS
      <4>2. IsSent(t, "refreshMe", k, 0, by)
        BY ZenonT(60), <2>2, <3>2, <3>3, <4>1, Sent
      <4>. QED BY ONLY <4>2 DEF IsSent
    <3>. QED
      BY <3>1, <3>4
  <2>4. TypeOK'
    BY <1>0, <1>1, <2>1, <2>3 DEF RefreshAnswered, CallInv, TypeOK
  <2>5. Scheduled'
    BY <1>0, <1>1, <2>1, <2>3 DEF RefreshAnswered, CallInv, Scheduled, Scheduling
  <2>. QED
    BY <2>3, <2>4, <2>5 DEF CallInv
<1>2. CASE Finish(t) /\ CallersFail({t}) /\ UNCHANGED access
  <2>1. created' \in created..MaxSessions
    BY <1>0 DEF CallInv, TypeOK
  <2>2. /\ task' \in [Tasks -> TaskType] /\ TaskInv' /\ WaitersHaveRefresh'
        /\ \A o \in Tasks \ {t} : task'[o] = task[o]
    BY <1>0, <1>2, <2>1, Finished
  <2>3. TypeOK'
    BY <1>2, <2>2 DEF RefreshAnswered, CallInv, TypeOK, CallersFail
  <2>4. Scheduled'
    BY <1>0, <1>2, <2>2 DEF RefreshAnswered, CallInv, Scheduled, Scheduling, CallersFail
  <2>. QED
    BY <2>2, <2>3, <2>4 DEF CallInv
<1>. QED
  BY <1>1, <1>2 DEF RefreshAnswered

LEMMA LoginAnsweredCall == ASSUME CallInv, NEW t \in Tasks, LoginAnswered(t) PROVE CallInv'
<1>0. created' \in created..MaxSessions /\ task[t].st # "waiting"
  BY DEF LoginAnswered, Answered, CreateSession, CallInv, TypeOK
<1>1. /\ task' \in [Tasks -> TaskType] /\ TaskInv' /\ WaitersHaveRefresh'
      /\ \A o \in Tasks \ {t} : task'[o] = task[o]
  BY <1>0, Finished DEF LoginAnswered
<1>2. CASE Answered(t, "ok") /\ created' = created + 1
  <2>. DEFINE k == [s |-> created + 1, v |-> 0]
  <2>0. created + 1 \in Sessions
    BY <1>0, <1>2 DEF CallInv, TypeOK
  <2>1. k \in Token /\ k.s = created + 1 /\ k # NoToken
    BY <2>0, FirstTokenType
  <2>2. /\ access' = k /\ refresh' = created + 1 /\ user' = Account[created + 1]
        /\ isAuthenticated' = TRUE /\ isHydrated' = TRUE
        /\ Schedule(access', refresh') /\ OvertakeBy(InFlight)
        /\ refused' = refused /\ epoch' = epoch
    BY <1>2 DEF LoginAnswered, CreateSession, NewSession, CallInv, TypeOK
  <2>. HIDE DEF k
  <2>3. timer' = TRUE
    <3>1. refresh' # 0
      BY <2>0, <2>2
    <3>. QED
      BY <2>1, <2>2, <3>1 DEF Schedule
  <2>4. overtaken' \in BOOLEAN
    BY <2>2 DEF OvertakeBy, CallInv, TypeOK
  <2>5. /\ refused' \subseteq 1..created' /\ refreshPromise' \in 0..created'
        /\ refresh' \in 0..created' /\ user' \in Users
    BY <1>2, <2>0, <2>2 DEF LoginAnswered, CallInv, TypeOK
  <2>6. TypeOK'
    BY <1>1, <1>2, <2>0, <2>1, <2>2, <2>3, <2>4, <2>5 DEF LoginAnswered, CallInv, TypeOK
  <2>7. Scheduled'
    BY <2>1, <2>2, <2>3 DEF Scheduled
  <2>. QED
    BY <1>1, <2>6, <2>7 DEF CallInv
<1>3. CASE UNCHANGED <<server, identity, isHydrated, timer, overtaken>>
  <2>1. TypeOK'
    BY <1>1, <1>3 DEF LoginAnswered, CallInv, TypeOK
  <2>2. Scheduled'
    BY <1>1, <1>3 DEF LoginAnswered, CallInv, Scheduled, Scheduling
  <2>. QED
    BY <1>1, <2>1, <2>2 DEF CallInv
<1>. QED
  BY <1>2, <1>3 DEF LoginAnswered, CreateSession

\* What logout() leaves: its own POST when there is a session, an empty store
\* when there is none.
LEMMA LoggedOut ==
  ASSUME CallInv, NEW ts \in SUBSET Tasks, NEW by \in {"user", "timer", "code"},
         LogoutBy(ts, by), created' = created
  PROVE  /\ task' \in [Tasks -> TaskType] /\ TaskInv'
         /\ \A t \in ts : task'[t].st # "waiting"
         /\ \A t \in Tasks \ ts : task'[t] = task[t]
         /\ access' \in Token /\ access'.s <= created /\ refresh' \in 0..created
         /\ user' \in Users \cup {NoUser} /\ isAuthenticated' \in BOOLEAN
         /\ timer' = FALSE /\ overtaken' \in BOOLEAN
         /\ refresh' # 0 => /\ refresh # 0 /\ access' # NoToken
                            /\ \A t \in ts : task'[t].kind = "logout"
<1>. DEFINE h == IF refresh # 0 THEN Http("logout", NoToken, refresh, by) ELSE Free
<1>1. /\ Good(h, created) /\ h.st # "waiting"
      /\ refresh # 0 => h.kind = "logout"
  <2>1. CASE refresh # 0
    <3>1. /\ "logout" \in Kinds \ {"none"} /\ refresh \in 0..MaxSessions
          /\ refresh \in 1..created /\ created \in 0..MaxSessions
      BY <2>1 DEF CallInv, TypeOK, Kinds
    <3>. QED
      BY <2>1, <3>1, HttpGood, NoTokenType
  <2>2. CASE refresh = 0
    BY <2>2, FreeGood DEF CallInv, TypeOK
  <2>. QED
    BY <2>1, <2>2
<1>2. task' = [t \in Tasks |-> IF t \in ts THEN h ELSE task[t]]
  BY DEF LogoutBy, LogoutTask, SentToken, IsAuthEndpoint
<1>. HIDE DEF h
<1>3. /\ \A t \in ts : task'[t] = h
      /\ \A t \in Tasks \ ts : task'[t] = task[t]
  BY <1>2
<1>4. task' \in [Tasks -> TaskType] /\ TaskInv'
  <2>1. \A t \in Tasks : Good(IF t \in ts THEN h ELSE task[t], created)
    BY <1>1 DEF CallInv, TaskInv
  <2>2. \A t \in Tasks : Good(task'[t], created)
    BY <1>2, <2>1
  <2>3. \A t \in Tasks : task'[t] \in TaskType
    BY <2>2 DEF Good
  <2>. QED
    BY <1>2, <2>2, <2>3 DEF TaskInv
<1>5. CASE refresh # 0
  BY <1>1, <1>3, <1>4, <1>5 DEF LogoutBy, CallInv, TypeOK, Scheduled
<1>6. CASE refresh = 0
  <2>1. /\ access' \in Token /\ access'.s <= created /\ refresh' = 0
        /\ user' \in Users \cup {NoUser} /\ isAuthenticated' \in BOOLEAN
    BY <1>6, Cleared DEF LogoutBy
  <2>2. timer' = FALSE /\ overtaken' \in BOOLEAN
    BY <1>6 DEF LogoutBy, OvertakeBy, CallInv, TypeOK
  <2>3. refresh' \in 0..created
    BY <2>1 DEF CallInv, TypeOK
  <2>. QED
    BY <1>1, <1>3, <1>4, <2>1, <2>2, <2>3
<1>. QED
  BY <1>5, <1>6

LEMMA LogoutCall == ASSUME CallInv, NEW t \in Tasks, Logout(t) PROVE CallInv'
<1>1. /\ task' \in [Tasks -> TaskType] /\ TaskInv'
      /\ task'[t].st # "waiting" /\ \A o \in Tasks \ {t} : task'[o] = task[o]
      /\ access' \in Token /\ access'.s <= created /\ refresh' \in 0..created
      /\ user' \in Users \cup {NoUser} /\ isAuthenticated' \in BOOLEAN
      /\ timer' = FALSE /\ overtaken' \in BOOLEAN
      /\ refresh' # 0 => access' # NoToken /\ task'[t].kind = "logout"
  <2>1. {t} \in SUBSET Tasks /\ "user" \in {"user", "timer", "code"} /\ created' = created
    BY DEF Logout
  <2>. QED
    BY <2>1, LoggedOut DEF Logout
<1>2. WaitersHaveRefresh'
  BY <1>1 DEF Logout, CallInv, WaitersHaveRefresh
<1>3. TypeOK'
  BY <1>1 DEF Logout, CallInv, TypeOK
<1>4. Scheduled'
  BY <1>1 DEF Scheduled, Scheduling
<1>. QED
  BY <1>1, <1>2, <1>3, <1>4 DEF CallInv

LEMMA UnauthorizedCall == ASSUME CallInv, NEW t \in Tasks, Unauthorized(t) PROVE CallInv'
<1>1. CASE refreshPromise # 0 \/ refresh # 0
  <2>0. /\ refreshPromise' = IF refreshPromise # 0 THEN refreshPromise ELSE refresh
        /\ task' = [task EXCEPT ![t].st = "waiting"]
        /\ UNCHANGED <<server, budget, identity, isHydrated, timers, overtaken>>
    BY <1>1 DEF Unauthorized
  <2>1. /\ task' \in [Tasks -> TaskType] /\ task'[t].st = "waiting"
        /\ task'[t].kind = task[t].kind /\ task'[t].by = task[t].by
        /\ task'[t].sess = task[t].sess
        /\ \A o \in Tasks \ {t} : task'[o] = task[o]
    <3>1. task \in [Tasks -> TaskType] /\ task[t] \in TaskType
      BY DEF CallInv, TypeOK
    <3>2. [task[t] EXCEPT !.st = "waiting"] \in TaskType
      BY <3>1 DEF TaskType, Stages
    <3>. QED
      BY <2>0, <3>1, <3>2 DEF TaskType
  <2>2. TaskInv'
    <3>1. task[t].st = "sent" /\ ~IsAuthEndpoint(task[t].kind)
      BY DEF Unauthorized, IsRefreshable
    <3>2. Good(task[t], created)
      BY DEF CallInv, TaskInv
    <3>3. Good(task'[t], created)
      BY <2>1, <3>1, <3>2 DEF Good, IsAuthEndpoint
    <3>. QED
      BY <2>0, <2>1, <3>3 DEF CallInv, TaskInv
  <2>3. refreshPromise' \in 1..created
    BY <1>1, <2>0 DEF CallInv, TypeOK
  <2>4. TypeOK'
    BY <2>0, <2>1, <2>3 DEF CallInv, TypeOK
  <2>5. WaitersHaveRefresh'
    BY <2>1, <2>3 DEF WaitersHaveRefresh
  <2>6. Scheduled'
    BY <2>0, <2>1 DEF CallInv, Scheduled, Scheduling
  <2>. QED
    BY <2>2, <2>4, <2>5, <2>6 DEF CallInv
<1>2. CASE refreshPromise = 0 /\ refresh = 0
  <2>0. /\ LogoutBy({t}, "code") /\ CallersFail({t}) /\ UNCHANGED <<server, budget, refreshPromise>>
    BY <1>2 DEF Unauthorized
  <2>1. /\ task' \in [Tasks -> TaskType] /\ TaskInv'
        /\ task'[t].st # "waiting" /\ \A o \in Tasks \ {t} : task'[o] = task[o]
        /\ access' \in Token /\ access'.s <= created /\ refresh' \in 0..created
        /\ user' \in Users \cup {NoUser} /\ isAuthenticated' \in BOOLEAN
        /\ timer' = FALSE /\ overtaken' \in BOOLEAN /\ refresh' = 0
    <3>1. {t} \in SUBSET Tasks /\ "code" \in {"user", "timer", "code"} /\ created' = created
      BY <2>0
    <3>. QED
      BY <1>2, <2>0, <3>1, LoggedOut
  <2>2. WaitersHaveRefresh'
    BY <1>2, <2>0, <2>1 DEF CallInv, WaitersHaveRefresh
  <2>3. isHydrated' \in BOOLEAN /\ retryTimer' \in BOOLEAN
    BY <2>0 DEF CallersFail, CallInv, TypeOK
  <2>4. TypeOK'
    BY <2>0, <2>1, <2>3 DEF CallInv, TypeOK
  <2>5. Scheduled'
    BY <2>1 DEF Scheduled
  <2>. QED
    BY <2>1, <2>2, <2>4, <2>5 DEF CallInv
<1>. QED
  BY <1>1, <1>2

LEMMA RefreshSucceedsCall == ASSUME CallInv, RefreshSucceeds PROVE CallInv'
<1>0. refreshPromise \in 1..created /\ created' = created /\ created \in 0..MaxSessions
  BY DEF RefreshSucceeds, CallInv, TypeOK
<1>1. PICK k \in Token : k = access' /\ k.s = refreshPromise /\ k # NoToken
  BY <1>0, NewTokenType DEF RefreshSucceeds, CallInv
<1>2. \A t \in Tasks : /\ Good(WaitersRetry(k)[t], created)
                       /\ WaitersRetry(k)[t].st # "waiting"
  <2>. SUFFICES ASSUME NEW t \in Tasks
                PROVE  /\ Good(WaitersRetry(k)[t], created)
                       /\ WaitersRetry(k)[t].st # "waiting"
    OBVIOUS
  <2>0. Good(task[t], created) /\ task[t] \in TaskType
    BY DEF CallInv, TypeOK, TaskInv
  <2>1. CASE task[t].st = "waiting"
    <3>. DEFINE g == [task[t] EXCEPT !.st = "retried", !.tok = k]
    <3>1. /\ g \in TaskType /\ g.st = "retried" /\ g.kind = task[t].kind /\ g.sess = task[t].sess
      BY <2>0 DEF TaskType, Stages
    <3>2. WaitersRetry(k)[t] = g
      BY <2>1 DEF WaitersRetry
    <3>. HIDE DEF g
    <3>3. Good(g, created)
      BY <2>0, <2>1, <3>1 DEF Good
    <3>. QED
      BY <3>1, <3>2, <3>3
  <2>2. CASE task[t].st # "waiting"
    BY <2>0, <2>2 DEF WaitersRetry
  <2>. QED
    BY <2>1, <2>2
<1>3. \A t \in Tasks : Good(task'[t], created) /\ task'[t].st # "waiting"
  <2>1. CASE task' = WaitersRetry(k)
    BY <1>2, <2>1
  <2>2. ASSUME NEW t \in Tasks,
               task' = [WaitersRetry(k) EXCEPT ![t] = Http("me", k, 0, "code")]
        PROVE  \A o \in Tasks : Good(task'[o], created) /\ task'[o].st # "waiting"
    <3>. DEFINE h == Http("me", k, 0, "code")
    <3>1. "me" \in Kinds \ {"none"} /\ 0 \in 0..MaxSessions
      BY DEF Kinds
    <3>2. Good(h, created) /\ h.st # "waiting"
      BY <1>0, <3>1, HttpGood
    <3>. HIDE DEF h
    <3>3. \A o \in Tasks : task'[o] = IF o = t THEN h ELSE WaitersRetry(k)[o]
      BY <2>2 DEF WaitersRetry, h
    <3>. QED
      BY <1>2, <3>2, <3>3
  <2>. QED
    BY <1>1, <2>1, <2>2 DEF RefreshSucceeds
<1>4. task' \in [Tasks -> TaskType]
  <2>1. \A t \in Tasks : task'[t] \in TaskType
    BY <1>3 DEF Good
  <2>2. task' = [t \in Tasks |-> task'[t]]
    BY DEF RefreshSucceeds, WaitersRetry
  <2>. QED
    BY <2>1, <2>2
<1>5. TaskInv' /\ WaitersHaveRefresh'
  BY <1>0, <1>3 DEF RefreshSucceeds, TaskInv, WaitersHaveRefresh
<1>6. timer' = TRUE
  <2>1. refreshPromise # 0
    BY <1>0
  <2>. QED
    BY <1>1, <2>1 DEF RefreshSucceeds, Schedule
<1>7. TypeOK'
  BY <1>0, <1>1, <1>4, <1>6 DEF RefreshSucceeds, CallInv, TypeOK
<1>8. Scheduled'
  BY <1>1, <1>6 DEF Scheduled
<1>. QED
  BY <1>5, <1>7, <1>8 DEF CallInv

LEMMA RefreshFailsCall == ASSUME CallInv, RefreshFails PROVE CallInv'
<1>. DEFINE ts == {t \in Tasks : task[t].st = "waiting"}
<1>0. /\ LogoutBy(ts, "code") /\ CallersFail(ts) /\ refreshPromise' = 0 /\ UNCHANGED server
      /\ ts \in SUBSET Tasks /\ ts # {} /\ "code" \in {"user", "timer", "code"}
  BY DEF RefreshFails, CallInv, WaitersHaveRefresh
<1>1. \A t \in Tasks \ ts : task[t].st # "waiting"
  OBVIOUS
<1>. HIDE DEF ts
<1>2. /\ task' \in [Tasks -> TaskType] /\ TaskInv'
      /\ \A t \in ts : task'[t].st # "waiting"
      /\ \A t \in Tasks \ ts : task'[t] = task[t]
      /\ access' \in Token /\ access'.s <= created /\ refresh' \in 0..created
      /\ user' \in Users \cup {NoUser} /\ isAuthenticated' \in BOOLEAN
      /\ timer' = FALSE /\ overtaken' \in BOOLEAN
      /\ refresh' # 0 => access' # NoToken /\ \A t \in ts : task'[t].kind = "logout"
  BY <1>0, LoggedOut
<1>3. WaitersHaveRefresh'
  BY <1>0, <1>1, <1>2 DEF WaitersHaveRefresh
<1>4. TypeOK'
  <2>1. isHydrated' \in BOOLEAN /\ retryTimer' \in BOOLEAN
    BY <1>0 DEF CallersFail, CallInv, TypeOK
  <2>2. faults' \in Nat /\ reloads' \in Nat
    BY DEF RefreshFails, Fault, CallInv, TypeOK
  <2>3. refreshPromise' \in 0..created /\ created' = created
    BY <1>0 DEF CallInv, TypeOK
  <2>. QED
    BY <1>0, <1>2, <2>1, <2>2, <2>3 DEF CallInv, TypeOK
<1>5. Scheduled'
  BY <1>0, <1>2 DEF Scheduled, Scheduling
<1>. QED
  BY <1>2, <1>3, <1>4, <1>5 DEF CallInv

LEMMA LostCall == ASSUME CallInv, NEW t \in Tasks, Lost(t) PROVE CallInv'
<1>0. /\ task[t].st # "waiting" /\ CallersFail({t}) /\ UNCHANGED <<server, refreshPromise>>
  BY DEF Lost
<1>1. isHydrated' \in BOOLEAN /\ retryTimer' \in BOOLEAN
  BY <1>0 DEF CallersFail, CallInv, TypeOK
<1>2. faults' \in Nat /\ reloads' \in Nat
  BY DEF Lost, Fault, CallInv, TypeOK
<1>3. CASE task[t].st = "retried"
  <2>1. /\ task' \in [Tasks -> TaskType] /\ TaskInv'
        /\ task'[t].st # "waiting" /\ \A o \in Tasks \ {t} : task'[o] = task[o]
        /\ access' \in Token /\ access'.s <= created /\ refresh' \in 0..created
        /\ user' \in Users \cup {NoUser} /\ isAuthenticated' \in BOOLEAN
        /\ timer' = FALSE /\ overtaken' \in BOOLEAN
        /\ refresh' # 0 => access' # NoToken /\ task'[t].kind = "logout"
    <3>1. /\ {t} \in SUBSET Tasks /\ "code" \in {"user", "timer", "code"}
          /\ created' = created /\ LogoutBy({t}, "code")
      BY <1>0, <1>3 DEF Lost
    <3>. QED
      BY <3>1, LoggedOut
  <2>2. WaitersHaveRefresh'
    BY <1>0, <2>1 DEF CallInv, WaitersHaveRefresh
  <2>3. TypeOK'
    BY <1>0, <1>1, <1>2, <2>1 DEF CallInv, TypeOK
  <2>4. Scheduled'
    BY <2>1 DEF Scheduled, Scheduling
  <2>. QED
    BY <2>1, <2>2, <2>3, <2>4 DEF CallInv
<1>4. CASE task[t].st # "retried"
  <2>0. /\ Finish(t) /\ UNCHANGED timer
        /\ IF task[t].kind = "logout" THEN ClearSession /\ OvertakeBy(Writers)
                                      ELSE UNCHANGED <<identity, overtaken>>
    BY <1>4 DEF Lost
  <2>1. /\ task' \in [Tasks -> TaskType] /\ TaskInv' /\ WaitersHaveRefresh'
        /\ \A o \in Tasks \ {t} : task'[o] = task[o]
    <3>1. created' \in created..MaxSessions /\ refreshPromise' = refreshPromise
      BY <1>0 DEF CallInv, TypeOK
    <3>. QED
      BY <1>0, <2>0, <3>1, Finished
  <2>2. CASE task[t].kind = "logout"
    <3>1. /\ access' \in Token /\ access'.s <= created /\ refresh' = 0
          /\ user' \in Users \cup {NoUser} /\ isAuthenticated' \in BOOLEAN
      BY <2>0, <2>2, Cleared
    <3>2. overtaken' \in BOOLEAN
      BY <2>0, <2>2 DEF OvertakeBy, CallInv, TypeOK
    <3>3. TypeOK'
      BY <1>0, <1>1, <1>2, <2>0, <2>1, <3>1, <3>2 DEF CallInv, TypeOK
    <3>4. Scheduled'
      BY <3>1 DEF Scheduled
    <3>. QED
      BY <2>1, <3>3, <3>4 DEF CallInv
  <2>3. CASE task[t].kind # "logout"
    <3>1. TypeOK'
      BY <1>0, <1>1, <1>2, <2>0, <2>1, <2>3 DEF CallInv, TypeOK
    <3>2. Scheduled'
      BY <1>0, <2>0, <2>1, <2>3 DEF CallInv, Scheduled, Scheduling, CallersFail
    <3>. QED
      BY <2>1, <3>1, <3>2 DEF CallInv
  <2>. QED
    BY <2>2, <2>3
<1>. QED
  BY <1>3, <1>4

\* The timer, the reload and the server.
LEMMA RestCall ==
  ASSUME CallInv, \/ RetryTimerFires \/ Reload \/ UNCHANGED vars
                  \/ \E s \in Sessions : Refuse(s) \/ Expire(s)
  PROVE  CallInv'
<1>1. CASE RetryTimerFires
  <2>1. TypeOK'
    BY <1>1 DEF RetryTimerFires, Schedule, CallInv, TypeOK
  <2>2. TaskInv' /\ WaitersHaveRefresh' /\ Scheduled'
    BY <1>1 DEF RetryTimerFires, Schedule, CallInv, TaskInv, WaitersHaveRefresh, Scheduled
  <2>. QED
    BY <2>1, <2>2 DEF CallInv
<1>2. CASE Reload
  <2>0. Good(Free, created) /\ Free.st = "idle" /\ created' = created
    BY <1>2, FreeGood DEF Reload, CallInv, TypeOK
  <2>1. \A t \in Tasks : task'[t] = Free
    BY <1>2 DEF Reload
  <2>2. task' \in [Tasks -> TaskType]
    BY <1>2, <2>0 DEF Reload, Good
  <2>3. TypeOK'
    <3>1. timer' \in BOOLEAN /\ retryTimer' \in BOOLEAN /\ isHydrated' \in BOOLEAN
      BY <1>2 DEF Reload, Schedule
    <3>2. refreshPromise' \in 0..created' /\ reloads' \in Nat
      BY <1>2 DEF Reload, CallInv, TypeOK
    <3>. QED
      BY <1>2, <2>2, <3>1, <3>2 DEF Reload, CallInv, TypeOK
  <2>4. TaskInv' /\ WaitersHaveRefresh'
    BY <1>2, <2>0, <2>1 DEF Reload, TaskInv, WaitersHaveRefresh
  <2>5. Scheduled'
    BY <1>2 DEF Reload, Schedule, CallInv, Scheduled
  <2>. QED
    BY <2>3, <2>4, <2>5 DEF CallInv
<1>3. ASSUME NEW s \in Sessions, Refuse(s) \/ Expire(s) PROVE CallInv'
  <2>1. TypeOK'
    <3>1. CASE Refuse(s)
      BY <3>1 DEF Refuse, CallInv, TypeOK
    <3>2. CASE Expire(s)
      <4>1. epoch' \in [Sessions -> Nat]
        BY <3>2 DEF Expire, CallInv, TypeOK
      <4>. QED
        BY <3>2, <4>1 DEF Expire, CallInv, TypeOK
    <3>. QED
      BY <1>3, <3>1, <3>2
  <2>2. TaskInv' /\ WaitersHaveRefresh' /\ Scheduled'
    BY <1>3 DEF Refuse, Expire, CallInv, TaskInv, WaitersHaveRefresh, Scheduled, Scheduling
  <2>. QED
    BY <2>1, <2>2 DEF CallInv
<1>4. CASE UNCHANGED vars
  BY <1>4 DEF vars, CallInv, TypeOK, TaskInv, WaitersHaveRefresh, Scheduled, Scheduling
<1>. QED
  BY <1>1, <1>2, <1>3, <1>4

LEMMA CallInvInit == Init => CallInv
<1>. SUFFICES ASSUME Init PROVE CallInv
  OBVIOUS
<1>1. Good(Free, created) /\ Free.st = "idle" /\ \A t \in Tasks : task[t] = Free
  BY FreeGood DEF Init
<1>2. task \in [Tasks -> TaskType]
  BY <1>1 DEF Init, Good
<1>3. access \in Token /\ access.s = 0
  BY NoTokenType DEF Init
<1>4. TypeOK
  <2>1. /\ isAuthenticated \in BOOLEAN /\ isHydrated \in BOOLEAN /\ timer \in BOOLEAN
        /\ retryTimer \in BOOLEAN /\ overtaken \in BOOLEAN /\ user \in Users \cup {NoUser}
    BY DEF Init
  <2>2. /\ created \in 0..MaxSessions /\ refused \subseteq 1..created /\ access.s <= created
        /\ epoch \in [Sessions -> Nat]
        /\ refresh \in 0..created /\ refreshPromise \in 0..created
        /\ faults \in Nat /\ reloads \in Nat
    BY <1>3 DEF Init
  <2>. QED
    BY <1>2, <1>3, <2>1, <2>2 DEF TypeOK
<1>5. TaskInv /\ WaitersHaveRefresh
  BY <1>1 DEF Init, TaskInv, WaitersHaveRefresh
<1>. QED
  BY <1>4, <1>5 DEF Init, CallInv, Scheduled

LEMMA CallInvStep == CallInv /\ [Next]_vars => CallInv'
<1>. SUFFICES ASSUME CallInv, [Next]_vars PROVE CallInv'
  OBVIOUS
<1>1. ASSUME NEW t \in Tasks, Answer(t) PROVE CallInv'
  BY <1>1, CallAnsweredCall, MeAnsweredCall, HydrateAnsweredCall, RefreshAnsweredCall,
     RefreshMeAnsweredCall, LoginAnsweredCall, LogoutAnsweredCall, UnauthorizedCall DEF Answer
<1>2. ASSUME NEW t \in Tasks,
             \/ Login(t) \/ Impersonate(t) \/ Call(t) \/ Logout(t) \/ Hydrate(t)
             \/ TimerFires(t) \/ EnsureValid(t) \/ Lost(t)
      PROVE  CallInv'
  BY <1>2, LoginCall, ImpersonateCall, CallCall, LogoutCall, HydrateCall, TimerFiresCall,
     EnsureValidCall, LostCall
<1>3. CASE RefreshSucceeds \/ RefreshFails
  BY <1>3, RefreshSucceedsCall, RefreshFailsCall
<1>. QED
  BY <1>1, <1>2, <1>3, RestCall DEF Next

-------------------------------------------------------------------------------
(* IdentityInv is inductive, given CallInv.                                *)

LEMMA FreeFits == \A r, p : Belongs(Free, r) /\ Keeps(Free, p)
BY DEF Belongs, Keeps, Free, IsAuthEndpoint

\* The store and its sessions stay; one call takes its next step.
LEMMA IdStays ==
  ASSUME IdentityInv, ~overtaken, NEW t \in Tasks, Coherent',
         refresh' = refresh, refreshPromise' = refreshPromise,
         Belongs(task'[t], refresh), Keeps(task'[t], refreshPromise),
         \A o \in Tasks \ {t} : task'[o] = task[o]
  PROVE  IdentityInv'
<1>1. refreshPromise' # 0 => refreshPromise' = refresh'
  BY DEF IdentityInv
<1>2. \A o \in Tasks : Belongs(task'[o], refresh') /\ Keeps(task'[o], refreshPromise')
  BY DEF IdentityInv
<1>. QED
  BY <1>1, <1>2 DEF IdentityInv

\* The session ends with no answer of it outstanding.
LEMMA IdEnds ==
  ASSUME CallInv, IdentityInv, NEW ts \in SUBSET Tasks, ~overtaken', ClearSession,
         OvertakeBy(Writers \ ts), refreshPromise' \in {refreshPromise, 0},
         \A t \in ts : task'[t] = Free,
         \A t \in Tasks \ ts : task'[t] = task[t]
  PROVE  IdentityInv'
<1>1. ~overtaken /\ Writers \ ts = {} /\ refreshPromise = 0 /\ refreshPromise' = 0
  BY DEF OvertakeBy
<1>2. Coherent'
  <2>1. access' = NoToken /\ refresh' = 0 /\ user' = NoUser /\ ~isAuthenticated'
    BY DEF ClearSession
  <2>2. access'.s = 0
    BY <2>1, NoTokenType
  <2>. QED
    BY <2>1, <2>2 DEF Coherent
<1>3. ASSUME NEW o \in Tasks PROVE Belongs(task'[o], refresh') /\ Keeps(task'[o], refreshPromise')
  <2>1. CASE o \in ts
    BY <2>1, FreeFits
  <2>2. CASE o \notin ts
    <3>1. task'[o] = task[o] /\ task[o].kind \notin {"me", "hydrate", "refresh", "refreshMe"}
      BY <1>1, <2>2 DEF Writers
    <3>2. Keeps(task[o], refreshPromise)
      BY <1>1 DEF IdentityInv
    <3>. QED
      BY <1>1, <3>1, <3>2 DEF Belongs, ClearSession
  <2>. QED
    BY <2>1, <2>2
<1>. QED
  BY <1>1, <1>2, <1>3 DEF IdentityInv

\* A session begins with no call of another one outstanding.
LEMMA IdBegins ==
  ASSUME CallInv, IdentityInv, NEW t \in Tasks, ~overtaken', OvertakeBy(InFlight),
         NEW s \in Sessions, access'.s = s, refresh' = s, user' \in {NoUser, Account[s]},
         refreshPromise' = refreshPromise,
         Belongs(task'[t], s), Keeps(task'[t], 0),
         \A o \in Tasks \ {t} : task'[o] = task[o]
  PROVE  IdentityInv'
<1>0. s # 0
  OBVIOUS
<1>1. InFlight = {} /\ refreshPromise' = 0 /\ s # 0
  BY <1>0 DEF OvertakeBy
<1>2. Coherent'
  BY <1>1 DEF Coherent
<1>3. ASSUME NEW o \in Tasks \ {t} PROVE Belongs(task'[o], refresh') /\ Keeps(task'[o], refreshPromise')
  <2>1. /\ task'[o] = task[o] /\ Good(task[o], created)
        /\ task[o].st = "idle" \/ task[o].kind = "login"
    BY <1>1 DEF InFlight, CallInv, TaskInv
  <2>2. task[o].st \notin {"waiting", "retried"}
    BY <2>1 DEF Good, IsAuthEndpoint
  <2>3. task[o].kind \in {"none", "login"}
    BY <2>1 DEF Good
  <2>. QED
    BY <2>1, <2>2, <2>3 DEF Belongs, Keeps, IsAuthEndpoint
<1>. QED
  BY <1>1, <1>2, <1>3 DEF IdentityInv

LEMMA IdLogout ==
  ASSUME CallInv, IdentityInv, NEW ts \in SUBSET Tasks,
         NEW by \in {"user", "timer", "code"}, LogoutBy(ts, by),
         refreshPromise' \in {refreshPromise, 0},
         refreshPromise' # refreshPromise => \A t \in Tasks : task[t].st = "waiting" => t \in ts
  PROVE  IdentityInv'
<1>. SUFFICES ASSUME ~overtaken' PROVE IdentityInv'
  BY DEF IdentityInv
<1>1. CASE refresh # 0
  <2>1. /\ UNCHANGED <<identity, overtaken>>
        /\ \A t \in ts : task'[t] = LogoutTask(by)
        /\ \A t \in Tasks \ ts : task'[t] = task[t]
    BY <1>1 DEF LogoutBy
  <2>2. \A r, p : Belongs(LogoutTask(by), r) /\ Keeps(LogoutTask(by), p)
    BY DEF LogoutTask, Http, Belongs, Keeps, IsAuthEndpoint
  <2>3. ASSUME NEW o \in Tasks PROVE Belongs(task'[o], refresh') /\ Keeps(task'[o], refreshPromise')
    <3>1. CASE o \in ts
      BY <2>1, <2>2, <3>1
    <3>2. CASE o \notin ts
      <4>1. Belongs(task[o], refresh) /\ Keeps(task[o], refreshPromise)
        BY <2>1 DEF IdentityInv
      <4>2. Keeps(task[o], refreshPromise')
        BY <3>2, <4>1 DEF Keeps
      <4>. QED
        BY <2>1, <3>2, <4>1, <4>2
    <3>. QED
      BY <3>1, <3>2
  <2>. QED
    BY <2>1, <2>3 DEF IdentityInv, Coherent
<1>2. CASE refresh = 0
  <2>1. /\ ClearSession /\ OvertakeBy(Writers \ ts)
        /\ \A t \in ts : task'[t] = Free
        /\ \A t \in Tasks \ ts : task'[t] = task[t]
    BY <1>2 DEF LogoutBy
  <2>. QED
    BY <2>1, IdEnds
<1>. QED
  BY <1>1, <1>2

LEMMA LoginId == ASSUME CallInv, IdentityInv, NEW t \in Tasks, Login(t) PROVE IdentityInv'
<1>. SUFFICES ASSUME ~overtaken' PROVE IdentityInv'
  BY DEF IdentityInv
<1>1. /\ task'[t] = Http("login", NoToken, 0, "user") /\ \A o \in Tasks \ {t} : task'[o] = task[o]
      /\ UNCHANGED <<identity, refreshPromise, overtaken>>
  BY DEF Login, SentToken, IsAuthEndpoint, CallInv, TypeOK
<1>2. Coherent /\ Coherent'
  BY <1>1 DEF IdentityInv, Coherent
<1>3. Belongs(task'[t], refresh) /\ Keeps(task'[t], refreshPromise)
  BY <1>1, <1>2 DEF Login, Belongs, Keeps, Http, IsAuthEndpoint, Coherent
<1>. QED
  BY <1>1, <1>2, <1>3, IdStays

LEMMA CallId == ASSUME CallInv, IdentityInv, NEW t \in Tasks, Call(t) PROVE IdentityInv'
<1>. SUFFICES ASSUME ~overtaken' PROVE IdentityInv'
  BY DEF IdentityInv
<1>1. /\ task'[t] = Http("call", access, 0, "code") /\ \A o \in Tasks \ {t} : task'[o] = task[o]
      /\ UNCHANGED <<identity, refreshPromise, overtaken>>
  BY DEF Call, SentToken, IsAuthEndpoint, CallInv, TypeOK
<1>2. Coherent /\ Coherent'
  BY <1>1 DEF IdentityInv, Coherent
<1>3. Belongs(task'[t], refresh) /\ Keeps(task'[t], refreshPromise)
  BY <1>1, <1>2 DEF Call, Belongs, Keeps, Http, IsAuthEndpoint, Coherent
<1>. QED
  BY <1>1, <1>2, <1>3, IdStays

LEMMA EnsureValidId == ASSUME CallInv, IdentityInv, NEW t \in Tasks, EnsureValid(t)
  PROVE IdentityInv'
<1>. SUFFICES ASSUME ~overtaken' PROVE IdentityInv'
  BY DEF IdentityInv
<1>1. /\ task'[t] = Http("refresh", access, refresh, "code") /\ \A o \in Tasks \ {t} : task'[o] = task[o]
      /\ UNCHANGED <<identity, refreshPromise, overtaken>>
  BY DEF EnsureValid, RefreshTask, SentToken, IsAuthEndpoint, CallInv, TypeOK
<1>2. Coherent /\ Coherent'
  BY <1>1 DEF IdentityInv, Coherent
<1>3. Belongs(task'[t], refresh) /\ Keeps(task'[t], refreshPromise)
  BY <1>1, <1>2 DEF EnsureValid, Belongs, Keeps, Http, IsAuthEndpoint, Coherent
<1>. QED
  BY <1>1, <1>2, <1>3, IdStays

LEMMA HydrateId == ASSUME CallInv, IdentityInv, NEW t \in Tasks, Hydrate(t) PROVE IdentityInv'
<1>. SUFFICES ASSUME ~overtaken' PROVE IdentityInv'
  BY DEF IdentityInv
<1>1. UNCHANGED <<identity, refreshPromise, overtaken>>
  BY DEF Hydrate
<1>2. Coherent /\ Coherent'
  BY <1>1 DEF IdentityInv, Coherent
<1>3. CASE task' = task
  BY <1>1, <1>2, <1>3 DEF IdentityInv
<1>4. CASE access # NoToken /\ refresh # 0
  <2>1. /\ task'[t] = Http("hydrate", access, 0, "code")
        /\ \A o \in Tasks \ {t} : task'[o] = task[o]
    BY <1>4 DEF Hydrate, CallInv, TypeOK
  <2>2. Belongs(task'[t], refresh) /\ Keeps(task'[t], refreshPromise)
    BY <1>2, <1>4, <2>1 DEF Belongs, Keeps, Http, IsAuthEndpoint, Coherent
  <2>. QED
    BY <1>1, <1>2, <2>1, <2>2, IdStays
<1>. QED
  BY <1>3, <1>4 DEF Hydrate

LEMMA TimerFiresId == ASSUME CallInv, IdentityInv, NEW t \in Tasks, TimerFires(t)
  PROVE IdentityInv'
<1>. SUFFICES ASSUME ~overtaken' PROVE IdentityInv'
  BY DEF IdentityInv
<1>1. UNCHANGED <<identity, refreshPromise, overtaken>>
  BY DEF TimerFires
<1>2. Coherent /\ Coherent'
  BY <1>1 DEF IdentityInv, Coherent
<1>3. CASE refresh = 0
  BY <1>1, <1>2, <1>3 DEF TimerFires, IdentityInv
<1>4. CASE refresh # 0
  <2>1. /\ task'[t] = Http("refresh", access, refresh, "timer")
        /\ \A o \in Tasks \ {t} : task'[o] = task[o]
    BY <1>4 DEF TimerFires, RefreshTask, SentToken, IsAuthEndpoint, CallInv, TypeOK
  <2>2. Belongs(task'[t], refresh) /\ Keeps(task'[t], refreshPromise)
    BY <1>2, <1>4, <2>1 DEF Belongs, Keeps, Http, IsAuthEndpoint, Coherent
  <2>. QED
    BY <1>1, <1>2, <2>1, <2>2, IdStays
<1>. QED
  BY <1>3, <1>4

LEMMA LogoutId == ASSUME CallInv, IdentityInv, NEW t \in Tasks, Logout(t) PROVE IdentityInv'
<1>. SUFFICES ASSUME ~overtaken' PROVE IdentityInv'
  BY DEF IdentityInv
<1>1. LogoutBy({t}, "user") /\ refreshPromise' = refreshPromise
  BY DEF Logout
<1>2. {t} \in SUBSET Tasks /\ "user" \in {"user", "timer", "code"}
  OBVIOUS
<1>. QED
  BY <1>1, <1>2, IdLogout

LEMMA ImpersonateId == ASSUME CallInv, IdentityInv, NEW t \in Tasks, Impersonate(t)
  PROVE IdentityInv'
<1>. SUFFICES ASSUME ~overtaken' PROVE IdentityInv'
  BY DEF IdentityInv
<1>. DEFINE k == [s |-> created + 1, v |-> 0]
<1>1. /\ created + 1 \in Sessions /\ OvertakeBy(InFlight) /\ access' = k
      /\ refresh' = created + 1 /\ user' = NoUser /\ refreshPromise' = refreshPromise
  BY DEF Impersonate, CreateSession, NewSession, CallInv, TypeOK
<1>2. /\ task'[t] = Http("hydrate", k, 0, "code") /\ \A o \in Tasks \ {t} : task'[o] = task[o]
  BY <1>1 DEF Impersonate, CallInv, TypeOK
<1>3. Belongs(task'[t], created + 1) /\ Keeps(task'[t], 0) /\ k.s = created + 1
  BY <1>1, <1>2 DEF Belongs, Keeps, Http, IsAuthEndpoint
<1>. HIDE DEF k
<1>. QED
  BY <1>1, <1>2, <1>3, IdBegins

LEMMA CallAnsweredId == ASSUME CallInv, IdentityInv, NEW t \in Tasks, CallAnswered(t)
  PROVE IdentityInv'
<1>. SUFFICES ASSUME ~overtaken' PROVE IdentityInv'
  BY DEF IdentityInv
<1>1. /\ task'[t] = Free /\ \A o \in Tasks \ {t} : task'[o] = task[o]
      /\ UNCHANGED <<identity, refreshPromise, overtaken>>
  BY DEF CallAnswered, Finish, CallInv, TypeOK
<1>. QED
  BY <1>1, FreeFits, IdStays DEF IdentityInv, Coherent

\* A profile that is answered is that of the session in the store.
LEMMA ProfileIsOwn ==
  ASSUME IdentityInv, ~overtaken, NEW t \in Tasks,
         task[t].kind \in {"me", "hydrate", "refreshMe"}, task[t].st \in {"sent", "retried"}
  PROVE  refresh # 0 /\ task[t].tok.s = refresh
BY DEF IdentityInv, Belongs

LEMMA MeAnsweredId == ASSUME CallInv, IdentityInv, NEW t \in Tasks, MeAnswered(t)
  PROVE IdentityInv'
<1>. SUFFICES ASSUME ~overtaken' PROVE IdentityInv'
  BY DEF IdentityInv
<1>1. /\ task'[t] = Free /\ \A o \in Tasks \ {t} : task'[o] = task[o]
      /\ UNCHANGED <<tokens, isAuthenticated, refreshPromise, overtaken>>
      /\ user' = user \/ user' = Account[task[t].tok.s]
  BY DEF MeAnswered, Finish, CallInv, TypeOK
<1>2. refresh # 0 /\ task[t].tok.s = refresh
  BY <1>1, ProfileIsOwn DEF MeAnswered, Answered
<1>3. Coherent'
  BY <1>1, <1>2 DEF IdentityInv, Coherent
<1>. QED
  BY <1>1, <1>3, FreeFits, IdStays

LEMMA RefreshMeAnsweredId == ASSUME CallInv, IdentityInv, NEW t \in Tasks, RefreshMeAnswered(t)
  PROVE IdentityInv'
<1>. SUFFICES ASSUME ~overtaken' PROVE IdentityInv'
  BY DEF IdentityInv
<1>1. /\ task'[t] = Free /\ \A o \in Tasks \ {t} : task'[o] = task[o]
      /\ UNCHANGED <<tokens, isAuthenticated, refreshPromise, overtaken>>
      /\ user' = user \/ user' = Account[task[t].tok.s]
  BY DEF RefreshMeAnswered, Finish, CallInv, TypeOK
<1>2. refresh # 0 /\ task[t].tok.s = refresh
  BY <1>1, ProfileIsOwn DEF RefreshMeAnswered, Answered
<1>3. Coherent'
  BY <1>1, <1>2 DEF IdentityInv, Coherent
<1>. QED
  BY <1>1, <1>3, FreeFits, IdStays

LEMMA HydrateAnsweredId == ASSUME CallInv, IdentityInv, NEW t \in Tasks, HydrateAnswered(t)
  PROVE IdentityInv'
<1>. SUFFICES ASSUME ~overtaken' PROVE IdentityInv'
  BY DEF IdentityInv
<1>1. /\ task'[t] = Free /\ \A o \in Tasks \ {t} : task'[o] = task[o]
      /\ refreshPromise' = refreshPromise
  BY DEF HydrateAnswered, Finish, CallInv, TypeOK
<1>2. CASE ClearSession /\ OvertakeBy(Writers \ {t})
  <2>1. /\ {t} \in SUBSET Tasks /\ \A o \in {t} : task'[o] = Free
        /\ refreshPromise' \in {refreshPromise, 0}
    BY <1>1
  <2>. QED
    BY <1>1, <1>2, <2>1, IdEnds
<1>3. CASE /\ user' = Account[task[t].tok.s] /\ isAuthenticated' = TRUE
           /\ UNCHANGED <<tokens, overtaken>>
  <2>1. refresh # 0 /\ task[t].tok.s = refresh
    BY <1>3, ProfileIsOwn DEF HydrateAnswered, Answered
  <2>2. Coherent'
    BY <1>3, <2>1 DEF IdentityInv, Coherent
  <2>. QED
    BY <1>1, <1>3, <2>2, FreeFits, IdStays
<1>. QED
  BY <1>2, <1>3 DEF HydrateAnswered

LEMMA RefreshAnsweredId == ASSUME CallInv, IdentityInv, NEW t \in Tasks, RefreshAnswered(t)
  PROVE IdentityInv'
<1>. SUFFICES ASSUME ~overtaken' PROVE IdentityInv'
  BY DEF IdentityInv
<1>0. /\ \A o \in Tasks \ {t} : task'[o] = task[o]
      /\ UNCHANGED <<refresh, user, isAuthenticated, refreshPromise, overtaken>>
  BY DEF RefreshAnswered, Finish, CallInv, TypeOK
<1>1. refresh # 0 /\ task[t].sess = refresh /\ Coherent
  BY <1>0 DEF RefreshAnswered, IdentityInv, Belongs
<1>2. CASE /\ access' = NewToken(task[t].sess)
           /\ task' = [task EXCEPT ![t] = Http("refreshMe", access', 0, task[t].by)]
  <2>1. access'.s = refresh
    BY <1>1, <1>2 DEF NewToken
  <2>2. task'[t] = Http("refreshMe", access', 0, task[t].by)
    BY <1>2 DEF CallInv, TypeOK
  <2>3. Belongs(task'[t], refresh) /\ Keeps(task'[t], refreshPromise)
    BY <1>1, <2>1, <2>2 DEF Belongs, Keeps, Http
  <2>4. Coherent'
    BY <1>0, <1>1, <2>1 DEF Coherent
  <2>. QED
    BY <1>0, <2>3, <2>4, IdStays
<1>3. CASE Finish(t) /\ UNCHANGED access
  <2>1. task'[t] = Free /\ Coherent'
    BY <1>0, <1>1, <1>3 DEF Finish, CallInv, TypeOK, Coherent
  <2>. QED
    BY <1>0, <2>1, FreeFits, IdStays
<1>. QED
  BY <1>2, <1>3 DEF RefreshAnswered

LEMMA LoginAnsweredId == ASSUME CallInv, IdentityInv, NEW t \in Tasks, LoginAnswered(t)
  PROVE IdentityInv'
<1>. SUFFICES ASSUME ~overtaken' PROVE IdentityInv'
  BY DEF IdentityInv
<1>1. /\ task'[t] = Free /\ \A o \in Tasks \ {t} : task'[o] = task[o]
      /\ refreshPromise' = refreshPromise
  BY DEF LoginAnswered, Finish, CallInv, TypeOK
<1>2. CASE UNCHANGED <<server, identity, isHydrated, timer, overtaken>>
  BY <1>1, <1>2, FreeFits, IdStays DEF IdentityInv, Coherent
<1>3. CASE CreateSession /\ OvertakeBy(InFlight)
  <2>1. /\ created + 1 \in Sessions /\ access'.s = created + 1 /\ refresh' = created + 1
        /\ user' = Account[created + 1]
    BY <1>3 DEF LoginAnswered, CreateSession, NewSession, CallInv, TypeOK
  <2>. QED
    BY <1>1, <1>3, <2>1, FreeFits, IdBegins
<1>. QED
  BY <1>2, <1>3 DEF LoginAnswered

LEMMA LogoutAnsweredId == ASSUME CallInv, IdentityInv, NEW t \in Tasks, LogoutAnswered(t)
  PROVE IdentityInv'
<1>. SUFFICES ASSUME ~overtaken' PROVE IdentityInv'
  BY DEF IdentityInv
<1>1. /\ task'[t] = Free /\ \A o \in Tasks \ {t} : task'[o] = task[o]
      /\ refreshPromise' = refreshPromise /\ ClearSession /\ OvertakeBy(Writers)
      /\ task[t].kind = "logout"
  BY DEF LogoutAnswered, Finish, CallInv, TypeOK
<1>2. Writers \ {t} = Writers
  BY <1>1 DEF Writers
<1>. QED
  BY <1>1, <1>2, IdEnds

LEMMA UnauthorizedId == ASSUME CallInv, IdentityInv, NEW t \in Tasks, Unauthorized(t)
  PROVE IdentityInv'
<1>. SUFFICES ASSUME ~overtaken' PROVE IdentityInv'
  BY DEF IdentityInv
<1>1. CASE refreshPromise # 0 \/ refresh # 0
  <2>0. /\ refreshPromise' = IF refreshPromise # 0 THEN refreshPromise ELSE refresh
        /\ task' = [task EXCEPT ![t].st = "waiting"]
        /\ UNCHANGED <<identity, overtaken>>
        /\ task[t].st = "sent" /\ ~IsAuthEndpoint(task[t].kind)
    BY <1>1 DEF Unauthorized, IsRefreshable
  <2>1. /\ Coherent /\ Coherent' /\ (refreshPromise # 0 => refreshPromise = refresh)
        /\ \A o \in Tasks : Belongs(task[o], refresh) /\ Keeps(task[o], refreshPromise)
    BY <2>0 DEF IdentityInv, Coherent
  <2>2. refresh # 0 /\ refreshPromise' = refresh
    BY <1>1, <2>0, <2>1
  <2>3. /\ task'[t].st = "waiting" /\ task'[t].kind = task[t].kind /\ task'[t].sess = task[t].sess
        /\ task'[t].from = task[t].from
        /\ \A o \in Tasks \ {t} : task'[o] = task[o]
    <3>1. task \in [Tasks -> TaskType] /\ task[t] \in TaskType
      BY DEF CallInv, TypeOK
    <3>. QED
      BY <2>0, <3>1 DEF TaskType
  <2>4. Belongs(task'[t], refresh) /\ Keeps(task'[t], refresh)
    BY <2>0, <2>1, <2>2, <2>3 DEF Belongs, Keeps
  <2>5. ASSUME NEW o \in Tasks \ {t} PROVE Belongs(task'[o], refresh) /\ Keeps(task'[o], refresh)
    <3>1. task[o].st = "waiting" => refreshPromise # 0
      BY DEF CallInv, WaitersHaveRefresh
    <3>. QED
      BY <2>1, <2>3, <3>1 DEF Keeps
  <2>. QED
    BY <2>0, <2>1, <2>2, <2>4, <2>5 DEF IdentityInv
<1>2. CASE refreshPromise = 0 /\ refresh = 0
  <2>1. LogoutBy({t}, "code") /\ refreshPromise' \in {refreshPromise, 0} /\ refreshPromise' = refreshPromise
    BY <1>2 DEF Unauthorized
  <2>2. {t} \in SUBSET Tasks /\ "code" \in {"user", "timer", "code"}
    OBVIOUS
  <2>. QED
    BY <2>1, <2>2, IdLogout
<1>. QED
  BY <1>1, <1>2

LEMMA RefreshSucceedsId == ASSUME CallInv, IdentityInv, RefreshSucceeds PROVE IdentityInv'
<1>. SUFFICES ASSUME ~overtaken' PROVE IdentityInv'
  BY DEF IdentityInv
<1>0. /\ refreshPromise # 0 /\ refreshPromise' = 0 /\ refresh' = refreshPromise
      /\ UNCHANGED <<user, isAuthenticated, overtaken>>
  BY DEF RefreshSucceeds
<1>1. /\ Coherent /\ refreshPromise = refresh
      /\ \A o \in Tasks : Belongs(task[o], refresh) /\ Keeps(task[o], refreshPromise)
  BY <1>0 DEF IdentityInv
<1>2. PICK k \in Token : k = access' /\ k.s = refreshPromise
  <2>1. refreshPromise \in 1..created
    BY <1>0 DEF CallInv, TypeOK
  <2>. QED
    BY <2>1, NewTokenType DEF RefreshSucceeds, CallInv
<1>3. Coherent'
  BY <1>0, <1>1, <1>2 DEF Coherent
<1>4. ASSUME NEW o \in Tasks
      PROVE  Belongs(WaitersRetry(k)[o], refresh) /\ Keeps(WaitersRetry(k)[o], 0)
  <2>0. task[o] \in TaskType
    BY DEF CallInv, TypeOK
  <2>1. CASE task[o].st = "waiting"
    <3>. DEFINE g == [task[o] EXCEPT !.st = "retried", !.tok = k]
    <3>1. /\ g.st = "retried" /\ g.kind = task[o].kind /\ g.sess = task[o].sess
          /\ g.from = task[o].from /\ g.tok = k
      BY <2>0 DEF TaskType
    <3>2. WaitersRetry(k)[o] = g
      BY <2>1 DEF WaitersRetry
    <3>. HIDE DEF g
    <3>. QED
      BY <1>1, <1>2, <2>1, <3>1, <3>2 DEF Belongs, Keeps
  <2>2. CASE task[o].st # "waiting"
    BY <1>1, <2>2 DEF WaitersRetry, Keeps
  <2>. QED
    BY <2>1, <2>2
<1>5. \A o \in Tasks : Belongs(task'[o], refresh) /\ Keeps(task'[o], 0)
  <2>1. CASE task' = WaitersRetry(k)
    BY <1>4, <2>1
  <2>2. ASSUME NEW t \in Tasks,
               task' = [WaitersRetry(k) EXCEPT ![t] = Http("me", k, 0, "code")]
        PROVE  \A o \in Tasks : Belongs(task'[o], refresh) /\ Keeps(task'[o], 0)
    <3>. DEFINE h == Http("me", k, 0, "code")
    <3>1. Belongs(h, refresh) /\ Keeps(h, 0)
      BY <1>0, <1>1, <1>2 DEF Belongs, Keeps, Http
    <3>. HIDE DEF h
    <3>2. \A o \in Tasks : task'[o] = IF o = t THEN h ELSE WaitersRetry(k)[o]
      BY <2>2 DEF WaitersRetry, h
    <3>. QED
      BY <1>4, <3>1, <3>2
  <2>. QED
    BY <1>2, <2>1, <2>2 DEF RefreshSucceeds
<1>. QED
  BY <1>0, <1>1, <1>3, <1>5 DEF IdentityInv

LEMMA RefreshFailsId == ASSUME CallInv, IdentityInv, RefreshFails PROVE IdentityInv'
<1>. DEFINE ts == {t \in Tasks : task[t].st = "waiting"}
<1>1. /\ LogoutBy(ts, "code") /\ refreshPromise' \in {refreshPromise, 0} /\ ts \in SUBSET Tasks
      /\ "code" \in {"user", "timer", "code"} /\ \A t \in Tasks : task[t].st = "waiting" => t \in ts
  BY DEF RefreshFails
<1>. HIDE DEF ts
<1>. QED
  BY <1>1, IdLogout

LEMMA LostId == ASSUME CallInv, IdentityInv, NEW t \in Tasks, Lost(t) PROVE IdentityInv'
<1>. SUFFICES ASSUME ~overtaken' PROVE IdentityInv'
  BY DEF IdentityInv
<1>0. /\ refreshPromise' \in {refreshPromise, 0} /\ refreshPromise' = refreshPromise
      /\ {t} \in SUBSET Tasks /\ "code" \in {"user", "timer", "code"}
  BY DEF Lost
<1>1. CASE LogoutBy({t}, "code")
  BY <1>0, <1>1, IdLogout
<1>2. CASE /\ Finish(t)
           /\ IF task[t].kind = "logout" THEN ClearSession /\ OvertakeBy(Writers)
                                         ELSE UNCHANGED <<identity, overtaken>>
  <2>1. task'[t] = Free /\ \A o \in Tasks \ {t} : task'[o] = task[o]
    BY <1>2 DEF Finish, CallInv, TypeOK
  <2>2. CASE task[t].kind = "logout"
    <3>1. Writers \ {t} = Writers /\ \A o \in {t} : task'[o] = Free
      BY <2>1, <2>2 DEF Writers
    <3>. QED
      BY <1>0, <1>2, <2>1, <2>2, <3>1, IdEnds
  <2>3. CASE UNCHANGED <<identity, overtaken>>
    <3>1. ~overtaken /\ Coherent' /\ refresh' = refresh
      BY <2>3 DEF IdentityInv, Coherent
    <3>. QED
      BY <1>0, <2>1, <3>1, FreeFits, IdStays
  <2>. QED
    BY <1>2, <2>2, <2>3
<1>. QED
  BY <1>1, <1>2 DEF Lost

LEMMA RestId ==
  ASSUME CallInv, IdentityInv,
         \/ RetryTimerFires \/ Reload \/ UNCHANGED vars
         \/ \E s \in Sessions : Refuse(s) \/ Expire(s)
  PROVE  IdentityInv'
<1>1. UNCHANGED <<identity, overtaken>>
  BY DEF RetryTimerFires, Reload, Refuse, Expire, vars
<1>2. CASE UNCHANGED <<task, refreshPromise>>
  BY <1>1, <1>2 DEF IdentityInv, Coherent
<1>3. CASE Reload
  <2>1. (\A o \in Tasks : task'[o] = Free) /\ refreshPromise' = 0
    BY <1>3 DEF Reload
  <2>. QED
    BY <1>1, <2>1, FreeFits DEF IdentityInv, Coherent
<1>. QED
  BY <1>2, <1>3 DEF RetryTimerFires, Refuse, Expire, vars

LEMMA IdentityInvInit == Init => IdentityInv
<1>. SUFFICES ASSUME Init PROVE IdentityInv
  OBVIOUS
<1>1. refreshPromise = 0 /\ \A t \in Tasks : task[t] = Free
  BY DEF Init
<1>2. access.s = refresh
  BY NoTokenType DEF Init
<1>3. Coherent
  BY <1>2 DEF Init, Coherent
<1>. QED
  BY <1>1, <1>3, FreeFits DEF IdentityInv

LEMMA IdentityInvStep == CallInv /\ IdentityInv /\ [Next]_vars => IdentityInv'
<1>. SUFFICES ASSUME CallInv, IdentityInv, [Next]_vars PROVE IdentityInv'
  OBVIOUS
<1>1. ASSUME NEW t \in Tasks, Answer(t) PROVE IdentityInv'
  BY <1>1, CallAnsweredId, MeAnsweredId, HydrateAnsweredId, RefreshAnsweredId,
     RefreshMeAnsweredId, LoginAnsweredId, LogoutAnsweredId, UnauthorizedId DEF Answer
<1>2. ASSUME NEW t \in Tasks,
             \/ Login(t) \/ Impersonate(t) \/ Call(t) \/ Logout(t) \/ Hydrate(t)
             \/ TimerFires(t) \/ EnsureValid(t) \/ Lost(t)
      PROVE  IdentityInv'
  BY <1>2, LoginId, ImpersonateId, CallId, LogoutId, HydrateId, TimerFiresId, EnsureValidId, LostId
<1>3. CASE RefreshSucceeds \/ RefreshFails
  BY <1>3, RefreshSucceedsId, RefreshFailsId
<1>. QED
  BY <1>1, <1>2, <1>3, RestId DEF Next

-------------------------------------------------------------------------------
(* The theorems.                                                           *)

LEMMA CallInvAlways == Spec => []CallInv
  BY CallInvInit, CallInvStep, PTL DEF Spec

LEMMA IdentityInvAlways == Spec => []IdentityInv
  BY IdentityInvInit, IdentityInvStep, CallInvAlways, PTL DEF Spec

\* The store, the calls and the timers keep their types, and no token names a
\* session that was never created, whatever the answers and their order.
THEOREM SessionTypeCorrect == Spec => []TypeOK
<1>1. CallInv => TypeOK
  BY DEF CallInv
<1>. QED
  BY <1>1, CallInvAlways, PTL

\* http.ts: however many calls meet a 401, and however the refresh they share
\* ends, nobody is left waiting for a refresh that does not run.
THEOREM NobodyWaitsForever == Spec => []WaitersHaveRefresh
<1>1. CallInv => WaitersHaveRefresh
  BY DEF CallInv
<1>. QED
  BY <1>1, CallInvAlways, PTL

\* auth.store.ts: a tab that holds both tokens has a timer or a call that will
\* set one, whatever fails.
THEOREM RefreshAlwaysScheduled == Spec => []RefreshScheduled
<1>1. CallInv => RefreshScheduled
  BY DEF CallInv, Scheduled, Scheduling, RefreshScheduled
<1>. QED
  BY <1>1, CallInvAlways, PTL

\* Tokens, profile and flag of the store belong to one account until a call is
\* overtaken by a change of identity.
THEOREM StoreStaysCoherent == Spec => []SessionCoherent
<1>1. IdentityInv => SessionCoherent
  BY DEF IdentityInv, Coherent, SessionCoherent
<1>. QED
  BY <1>1, IdentityInvAlways, PTL

\* Until then, a request is retried with a token of the account that sent it.
THEOREM RetriesKeepIdentity == Spec => []RetryKeepsIdentity
<1>1. IdentityInv => RetryKeepsIdentity
  BY DEF IdentityInv, Keeps, RetryKeepsIdentity
<1>. QED
  BY <1>1, IdentityInvAlways, PTL

-------------------------------------------------------------------------------
(***************************************************************************)
(* The price stream of a page in the tab, for any components, symbols and  *)
(* users, and any number of tokens, sockets and faults.  PriceState is     *)
(* shared with PriceStream; the faults of the session are not those of the *)
(* stream, which are pfaults.                                              *)
(***************************************************************************)
CONSTANTS Owner, MaxDrops, MaxMoves
VARIABLES drops, pfaults, moves

Prices == INSTANCE PriceStream WITH faults <- pfaults

(* What the client's methods keep.                                          *)

Alive == {"connecting", "open", "closing"}
Mail(n) == [t : {"auth"}, syms : SUBSET Symbols, tok : 1..n]
           \cup [t : {"subscribe"}, syms : SUBSET Symbols, tok : {0}]
Replies == {"auth_success", "auth_error"}
Socket(n) == [st : {"none", "closed"} \cup Alive, out : Seq(Mail(n)), inn : Seq(Replies),
              authed : 0..n, subs : SUBSET Symbols]
Client == [ws : Nat, made : 0..MaxSockets, authenticated : BOOLEAN, paused : BOOLEAN,
           pending : SUBSET Symbols, subscribed : SUBSET Symbols, timer : BOOLEAN,
           fresh : Nat, retry : Nat]

\* Sockets not opened yet are blank.
Typed(x, n) == /\ MaxSockets \in Nat
               /\ x \in [c : Client, s : [Prices!Sockets -> Socket(n)], odd : SUBSET Prices!Disturbances]
               /\ x.c.ws <= x.c.made
               /\ \A i \in Prices!Sockets : i > x.c.made => x.s[i] = Prices!NewSocket

Single(x) == "orphan" \notin x.odd => \A i \in Prices!Sockets : x.s[i].st \in Alive => i = x.c.ws

\* What is asked for in a queue.
Coming(q) == UNION {q[j].syms : j \in {l \in 1..Len(q) : q[l].t = "subscribe"}}

\* The gateway answers no more once it has accepted a token.
Quiet(k) == \A j \in 1..Len(k.inn) : k.inn[j] = "auth_success" => j = Len(k.inn) /\ k.authed # 0

Ready(x) == Prices!State(x) = "open" /\ x.c.authenticated

\* The client asks for every symbol it takes for subscribed, now or when the
\* gateway accepts its token.
Flowing(x) ==
  /\ x.c.ws # 0 => Prices!State(x) \in Alive
  /\ Prices!State(x) # "closing" /\ ~Ready(x) => x.c.subscribed \subseteq x.c.pending
  /\ Ready(x) => LET k == x.s[x.c.ws] IN
       /\ x.c.pending = {} /\ x.c.subscribed \subseteq k.subs \cup Coming(k.out)
       /\ k.authed # 0 /\ k.inn = <<>>
  /\ \A i \in Prices!Sockets : Quiet(x.s[i])

Sound(x, n) == Typed(x, n) /\ Single(x) /\ (x.odd = {} => Flowing(x))

\* The symbols are subscribed or will be.
Covers(x, S) == S \subseteq x.c.pending \cup x.c.subscribed

\* A record of a client, its sockets and the history with one field written.
LEMMA RecordWritten ==
  ASSUME NEW a, a = [c |-> a.c, s |-> a.s, odd |-> a.odd], NEW d
  PROVE  /\ [a EXCEPT !.c = d] = [c |-> d, s |-> a.s, odd |-> a.odd]
         /\ [a EXCEPT !.s = d] = [c |-> a.c, s |-> d, odd |-> a.odd]
         /\ [a EXCEPT !.odd = d] = [c |-> a.c, s |-> a.s, odd |-> d]
<1>. DEFINE b == [c |-> a.c, s |-> a.s, odd |-> a.odd]
<1>1. a = b
  OBVIOUS
<1>2. /\ [b EXCEPT !.c = d] = [c |-> d, s |-> a.s, odd |-> a.odd]
      /\ [b EXCEPT !.s = d] = [c |-> a.c, s |-> d, odd |-> a.odd]
      /\ [b EXCEPT !.odd = d] = [c |-> a.c, s |-> a.s, odd |-> d]
  BY ONLY TRUE
<1>. HIDE DEF b
<1>3. /\ [a EXCEPT !.c = d] = [b EXCEPT !.c = d]
      /\ [a EXCEPT !.s = d] = [b EXCEPT !.s = d]
      /\ [a EXCEPT !.odd = d] = [b EXCEPT !.odd = d]
  BY ONLY <1>1
<1>. QED BY ONLY <1>2, <1>3

\* What connect() does: nothing, or a new socket for the client.
LEMMA ConnectIs ==
  ASSUME NEW x, NEW n \in Nat, Typed(x, n), NEW y, y = Prices!Connect(x)
  PROVE  \/ y = x
         \/ /\ Prices!State(x) \in {"none", "closing", "closed"} /\ x.c.made < MaxSockets
            /\ y = [c |-> [x.c EXCEPT !.ws = x.c.made + 1, !.made = x.c.made + 1],
                    s |-> [x.s EXCEPT ![x.c.made + 1].st = "connecting"],
                    odd |-> IF Prices!State(x) = "closing" THEN x.odd \cup {"orphan"} ELSE x.odd]
<1>1. x.c.made \in 0..MaxSockets /\ MaxSockets \in Nat
  BY DEF Typed, Client
<1>2. Prices!State(x) \in {"none", "closed"} \cup Alive
  <2>1. x.s \in [Prices!Sockets -> Socket(n)] /\ x.c.ws \in 0..x.c.made
    BY DEF Typed, Client
  <2>2. x.c.ws # 0 => x.c.ws \in Prices!Sockets
    BY ONLY <1>1, <2>1 DEF Prices!Sockets
  <2>3. x.c.ws # 0 => x.s[x.c.ws].st \in {"none", "closed"} \cup Alive
    BY ONLY <2>1, <2>2 DEF Socket
  <2>. QED BY ONLY <2>3 DEF Prices!State
<1>. QED BY <1>1, <1>2 DEF Prices!Connect, Alive

\* connect() is sound: the socket it opens is the only live one unless a closing
\* one was replaced, and everything the client wants still waits.
LEMMA ConnectSound ==
  ASSUME NEW x, NEW n \in Nat, Sound(x, n), NEW y, y = Prices!Connect(x)
  PROVE  /\ Sound(y, n) /\ x.odd \subseteq y.odd
         /\ y.c.pending = x.c.pending /\ y.c.subscribed = x.c.subscribed
         /\ y.odd = {} /\ Prices!State(x) \in {"connecting", "open"} => y = x
<1>0. Typed(x, n) /\ Single(x) /\ (x.odd = {} => Flowing(x))
  BY Zenon DEF Sound
<1>1. CASE y = x
  BY <1>1
<1>2. CASE /\ Prices!State(x) \in {"none", "closing", "closed"} /\ x.c.made < MaxSockets
           /\ y = [c |-> [x.c EXCEPT !.ws = x.c.made + 1, !.made = x.c.made + 1],
                   s |-> [x.s EXCEPT ![x.c.made + 1].st = "connecting"],
                   odd |-> IF Prices!State(x) = "closing" THEN x.odd \cup {"orphan"} ELSE x.odd]
  <2>0. PICK i, v, k : i = x.c.made + 1 /\ v = x.c /\ k = [x.s[i] EXCEPT !.st = "connecting"]
    OBVIOUS
  <2>1. /\ MaxSockets \in Nat /\ v \in Client /\ x.s \in [Prices!Sockets -> Socket(n)]
        /\ x.odd \in SUBSET Prices!Disturbances /\ v.ws <= v.made /\ v = x.c
        /\ \A j \in Prices!Sockets : j > v.made => x.s[j] = Prices!NewSocket
    BY ONLY <1>0, <2>0 DEF Typed
  <2>2. /\ v.made \in Nat /\ v.ws \in Nat /\ i \in Nat /\ i \in Prices!Sockets
        /\ i \in 0..MaxSockets /\ i = v.made + 1 /\ v.ws < i
    BY ONLY <1>2, <2>0, <2>1 DEF Client, Prices!Sockets
  <2>3. x.s[i] = Prices!NewSocket /\ x.s[i] \in Socket(n) /\ x.s[i].inn = <<>>
    <3>1. x.s[i] = Prices!NewSocket /\ x.s[i] \in Socket(n)
      BY ONLY <2>1, <2>2
    <3>. QED BY ONLY <3>1 DEF Prices!NewSocket
  <2>4. y = [c |-> [v EXCEPT !.ws = i, !.made = i], s |-> [x.s EXCEPT ![i] = k],
             odd |-> IF Prices!State(x) = "closing" THEN x.odd \cup {"orphan"} ELSE x.odd]
    BY ONLY <1>2, <2>0
  <2>5. /\ y.c = [v EXCEPT !.ws = i, !.made = i] /\ y.s = [x.s EXCEPT ![i] = k]
        /\ y.odd = IF Prices!State(x) = "closing" THEN x.odd \cup {"orphan"} ELSE x.odd
        /\ y = [c |-> y.c, s |-> y.s, odd |-> y.odd]
    BY ONLY <2>4
  <2>6. /\ y.c \in Client /\ y.c.ws = i /\ y.c.made = i /\ y.c.authenticated = v.authenticated
        /\ y.c.pending = v.pending /\ y.c.subscribed = v.subscribed
    <3>. PICK d : d = y.c
      OBVIOUS
    <3>1. d = [v EXCEPT !.ws = i, !.made = i] /\ d = y.c
      BY <2>5
    <3>2. /\ d \in Client /\ d.ws = i /\ d.made = i /\ d.authenticated = v.authenticated
          /\ d.pending = v.pending /\ d.subscribed = v.subscribed
      BY ONLY ZenonT(60), <2>1, <2>2, <3>1 DEF Client
    <3>. QED BY ONLY <3>1, <3>2
  <2>7. k \in Socket(n) /\ k.st = "connecting" /\ k.inn = <<>>
    <3>. PICK m : m = x.s[i]
      OBVIOUS
    <3>1. m \in Socket(n) /\ m.inn = <<>> /\ k = [m EXCEPT !.st = "connecting"]
      BY <2>0, <2>3
    <3>. QED BY ONLY <3>1 DEF Socket, Alive
  <2>8. y.s[i] = k /\ \A j \in Prices!Sockets \ {i} : y.s[j] = x.s[j]
    BY ONLY <2>1, <2>2, <2>5
  <2>9. Typed(y, n)
    <3>1. y.odd \in SUBSET Prices!Disturbances
      BY ONLY <2>1, <2>5 DEF Prices!Disturbances
    <3>2. y.c.ws <= y.c.made
      BY ONLY <2>2, <2>6
    <3>3. y.s \in [Prices!Sockets -> Socket(n)]
      BY ONLY <2>1, <2>5, <2>7
    <3>4. y \in [c : Client, s : [Prices!Sockets -> Socket(n)], odd : SUBSET Prices!Disturbances]
      BY ONLY <2>5, <2>6, <3>1, <3>3
    <3>5. \A j \in Prices!Sockets : j > y.c.made => y.s[j] = Prices!NewSocket
      <4>1. \A j \in Prices!Sockets : j > i => j \in Prices!Sockets \ {i} /\ j > v.made
        BY ONLY <2>2 DEF Prices!Sockets
      <4>. QED BY ONLY <2>1, <2>6, <2>8, <4>1
    <3>. QED BY ONLY <2>1, <3>2, <3>4, <3>5 DEF Typed
  <2>10. Prices!State(y) = "connecting"
    <3>1. y.c.ws = i /\ i # 0 /\ y.s[i].st = "connecting"
      BY ONLY <2>2, <2>6, <2>7, <2>8
    <3>. QED BY ONLY <3>1 DEF Prices!State
  <2>11. Single(y)
    <3>. SUFFICES ASSUME "orphan" \notin y.odd, NEW j \in Prices!Sockets, y.s[j].st \in Alive PROVE j = i
      BY <2>6 DEF Single
    <3>1. "orphan" \notin x.odd /\ Prices!State(x) # "closing"
      BY ONLY <2>5, "orphan" \notin y.odd
    <3>2. v.ws = 0 \/ x.s[v.ws].st \notin Alive
      BY ONLY <1>2, <2>1, <3>1 DEF Prices!State, Alive
    <3>3. ASSUME j # i PROVE FALSE
      <4>1. x.s[j].st \in Alive
        BY ONLY <2>8, <3>3, j \in Prices!Sockets, y.s[j].st \in Alive
      <4>2. j = v.ws
        BY ONLY <1>0, <2>1, <3>1, <4>1, j \in Prices!Sockets DEF Single
      <4>3. j # 0
        BY ONLY j \in Prices!Sockets, <2>1 DEF Prices!Sockets
      <4>. QED BY ONLY <3>2, <4>1, <4>2, <4>3
    <3>. QED BY <3>3
  <2>12. ASSUME y.odd = {} PROVE Flowing(y)
    <3>1. Prices!State(x) \in {"none", "closed"} /\ x.odd = {}
      BY ONLY <1>2, <2>5, <2>12
    <3>2. Flowing(x)
      BY ONLY <1>0, <3>1
    <3>3. Prices!State(x) # "closing" /\ ~Ready(x)
      BY ONLY <3>1 DEF Ready
    <3>4. x.c.subscribed \subseteq x.c.pending /\ \A j \in Prices!Sockets : Quiet(x.s[j])
      BY ONLY <3>2, <3>3 DEF Flowing
    <3>5. y.c.subscribed \subseteq y.c.pending
      BY ONLY <2>1, <2>6, <3>4
    <3>6. Quiet(k)
      BY ONLY <2>7 DEF Quiet
    <3>7. \A j \in Prices!Sockets : Quiet(y.s[j])
      BY ONLY <2>8, <3>4, <3>6
    <3>8. Prices!State(y) \in Alive /\ ~Ready(y)
      BY ONLY <2>10 DEF Ready, Alive
    <3>. QED BY ONLY <3>5, <3>7, <3>8 DEF Flowing
  <2>13. Sound(y, n)
    BY ONLY <2>9, <2>11, <2>12 DEF Sound
  <2>14. /\ x.odd \subseteq y.odd /\ y.c.pending = x.c.pending /\ y.c.subscribed = x.c.subscribed
         /\ ~(Prices!State(x) \in {"connecting", "open"})
    BY ONLY <1>2, <2>1, <2>5, <2>6
  <2>. QED BY ONLY <2>13, <2>14
<1>3. y = Prices!Connect(x) /\ n \in Nat
  OBVIOUS
<1>. QED BY <1>0, <1>1, <1>2, <1>3, ConnectIs

\* What is asked for when a message is added to a queue.
LEMMA ComingAppend ==
  ASSUME NEW n, NEW q \in Seq(Mail(n)), NEW m \in Mail(n)
  PROVE  /\ Coming(q) \subseteq Coming(Append(q, m))
         /\ m.t = "subscribe" => m.syms \subseteq Coming(Append(q, m))
<1>1. /\ Len(q) \in Nat /\ Len(Append(q, m)) = Len(q) + 1
      /\ \A j \in 1..Len(q) : j \in 1..(Len(q) + 1) /\ Append(q, m)[j] = q[j]
      /\ Append(q, m)[Len(q) + 1] = m /\ Len(q) + 1 \in 1..(Len(q) + 1)
  OBVIOUS
<1>. QED BY <1>1 DEF Coming

\* What is asked for when a message leaves a queue.
LEMMA ComingTail ==
  ASSUME NEW n, NEW q \in Seq(Mail(n)), q # <<>>
  PROVE  Coming(q) \subseteq Coming(Tail(q)) \cup (IF Head(q).t = "subscribe" THEN Head(q).syms ELSE {})
<1>1. /\ Head(q) = q[1]
      /\ \A j \in 1..Len(q) : j = 1 \/ (j - 1 \in 1..Len(Tail(q)) /\ q[j] = Tail(q)[j - 1])
  OBVIOUS
<1>. SUFFICES ASSUME NEW j \in 1..Len(q), q[j].t = "subscribe", NEW v \in q[j].syms
              PROVE  v \in Coming(Tail(q)) \cup (IF Head(q).t = "subscribe" THEN Head(q).syms ELSE {})
  BY DEF Coming
<1>2. CASE j = 1
  BY <1>1, <1>2
<1>3. CASE j - 1 \in 1..Len(Tail(q)) /\ q[j] = Tail(q)[j - 1]
  BY <1>3 DEF Coming
<1>. QED BY <1>1, <1>2, <1>3

\* y is x after its socket w was asked to send m.
Posted(y, x, n, w, m) ==
  /\ Typed(y, n) /\ y.c = x.c /\ y.odd = x.odd /\ w \in Prices!Sockets
  /\ \A i \in Prices!Sockets : /\ y.s[i].st = x.s[i].st /\ y.s[i].inn = x.s[i].inn
                               /\ y.s[i].authed = x.s[i].authed /\ y.s[i].subs = x.s[i].subs
  /\ y.s[w].out = Append(x.s[w].out, m)

\* What is sent to the socket.
LEMMA PostIs ==
  ASSUME NEW x, NEW n \in Nat, Typed(x, n), NEW w, w = x.c.ws, w # 0, NEW m, m \in Mail(n),
         NEW y, y = Prices!Post(x, m)
  PROVE  Posted(y, x, n, w, m)
<1>0. w = x.c.ws /\ w # 0
  OBVIOUS
<1>a. Typed(x, n) /\ n \in Nat /\ m \in Mail(n) /\ y = Prices!Post(x, m)
  OBVIOUS
<1>b. /\ x \in [c : Client, s : [Prices!Sockets -> Socket(n)], odd : SUBSET Prices!Disturbances]
      /\ MaxSockets \in Nat /\ x.c.ws <= x.c.made
      /\ \A i \in Prices!Sockets : i > x.c.made => x.s[i] = Prices!NewSocket
  BY ONLY <1>a DEF Typed
<1>c. x.c \in Client /\ x.s \in [Prices!Sockets -> Socket(n)] /\ x.odd \in SUBSET Prices!Disturbances
      /\ x = [c |-> x.c, s |-> x.s, odd |-> x.odd]
  BY ONLY <1>b
<1>1. w \in Prices!Sockets /\ w <= x.c.made /\ x.c.made \in Nat
  BY ONLY <1>0, <1>a, <1>b, <1>c DEF Client, Prices!Sockets
<1>. PICK k, q : k = x.s[w] /\ q = Append(x.s[w].out, m)
  OBVIOUS
<1>d. k = x.s[w] /\ q = Append(x.s[w].out, m)
  OBVIOUS
<1>2. /\ y.c = x.c /\ y.odd = x.odd /\ y.s = [x.s EXCEPT ![w] = [k EXCEPT !.out = q]]
      /\ y = [c |-> y.c, s |-> y.s, odd |-> y.odd]
  <2>. PICK d : d = [x.s EXCEPT ![w] = [k EXCEPT !.out = q]]
    OBVIOUS
  <2>1. y = [x EXCEPT !.s[w].out = q]
    BY ONLY <1>0, <1>a, <1>d DEF Prices!Post
  <2>2. y = [x EXCEPT !.s = d]
    BY ONLY <2>1, <1>d, d = [x.s EXCEPT ![w] = [k EXCEPT !.out = q]]
  <2>3. [x EXCEPT !.s = d] = [c |-> x.c, s |-> d, odd |-> x.odd]
    BY ONLY <1>c, RecordWritten
  <2>. QED BY ONLY SMTT(60), <2>2, <2>3, d = [x.s EXCEPT ![w] = [k EXCEPT !.out = q]]
<1>3. /\ y.s[w] = [k EXCEPT !.out = q]
      /\ \A i \in Prices!Sockets \ {w} : y.s[i] = x.s[i]
  BY ONLY <1>1, <1>2, <1>c
<1>4. /\ y.s[w] \in Socket(n) /\ y.s[w].out = q /\ y.s[w].st = k.st /\ y.s[w].inn = k.inn
      /\ y.s[w].authed = k.authed /\ y.s[w].subs = k.subs
  <2>1. k \in Socket(n)
    BY ONLY <1>1, <1>c, <1>d
  <2>2. k.out \in Seq(Mail(n))
    BY ONLY <2>1 DEF Socket
  <2>3. q \in Seq(Mail(n))
    BY ONLY <1>a, <1>d, <2>2
  <2>4. /\ [k EXCEPT !.out = q] \in Socket(n) /\ [k EXCEPT !.out = q].out = q
        /\ [k EXCEPT !.out = q].st = k.st /\ [k EXCEPT !.out = q].inn = k.inn
        /\ [k EXCEPT !.out = q].authed = k.authed /\ [k EXCEPT !.out = q].subs = k.subs
    BY ONLY <2>1, <2>3 DEF Socket
  <2>. QED BY ONLY <1>3, <2>4
<1>5. /\ y.s \in [Prices!Sockets -> Socket(n)]
      /\ \A i \in Prices!Sockets : /\ y.s[i].st = x.s[i].st /\ y.s[i].inn = x.s[i].inn
                                   /\ y.s[i].authed = x.s[i].authed /\ y.s[i].subs = x.s[i].subs
  <2>1. \A i \in Prices!Sockets : y.s[i] \in Socket(n)
    BY ONLY <1>3, <1>4, <1>c
  <2>2. y.s \in [Prices!Sockets -> Socket(n)]
    BY ONLY <1>2, <1>c, <1>3, <2>1
  <2>3. \A i \in Prices!Sockets : /\ y.s[i].st = x.s[i].st /\ y.s[i].inn = x.s[i].inn
                                  /\ y.s[i].authed = x.s[i].authed /\ y.s[i].subs = x.s[i].subs
    BY ONLY <1>3, <1>4, <1>d
  <2>. QED BY ONLY <2>2, <2>3
<1>6. Typed(y, n)
  <2>1. y \in [c : Client, s : [Prices!Sockets -> Socket(n)], odd : SUBSET Prices!Disturbances]
    BY ONLY <1>2, <1>5, <1>c
  <2>2. y.c.ws <= y.c.made
    BY ONLY <1>2, <1>b
  <2>3. \A i \in Prices!Sockets : i > y.c.made => y.s[i] = Prices!NewSocket
    <3>1. \A i \in Prices!Sockets : i > x.c.made => i # w
      BY ONLY <1>1 DEF Prices!Sockets
    <3>. QED BY ONLY <1>2, <1>3, <1>b, <3>1
  <2>. QED BY ONLY <1>b, <2>1, <2>2, <2>3 DEF Typed
<1>7. y.s[w].out = Append(x.s[w].out, m)
  BY ONLY <1>4, <1>d
<1>. QED BY ONLY <1>1, <1>2, <1>5, <1>6, <1>7 DEF Posted

\* sendSubscribe() asks for the symbols or keeps them for auth_success.
LEMMA SendSubscribeSound ==
  ASSUME NEW x, NEW n \in Nat, Sound(x, n), NEW syms \in SUBSET Symbols,
         NEW y, y = Prices!SendSubscribe(x, syms)
  PROVE  /\ Sound(y, n) /\ y.odd = x.odd
         /\ \A S : S \subseteq x.c.pending \cup x.c.subscribed \cup syms => Covers(y, S)
<1>1. CASE ~Ready(x)
  <2>1. y = [x EXCEPT !.c.pending = @ \cup syms]
    BY <1>1 DEF Prices!SendSubscribe, Ready
  <2>2. /\ y.s = x.s /\ y.odd = x.odd /\ y.c = [x.c EXCEPT !.pending = @ \cup syms]
        /\ y = [c |-> y.c, s |-> y.s, odd |-> y.odd]
    BY <2>1 DEF Sound, Typed
  <2>3. /\ y.c \in Client /\ y.c.pending = x.c.pending \cup syms /\ y.c.subscribed = x.c.subscribed
        /\ y.c.ws = x.c.ws /\ y.c.made = x.c.made /\ y.c.authenticated = x.c.authenticated
    BY <2>2 DEF Sound, Typed, Client
  <2>4. Prices!State(y) = Prices!State(x) /\ (Ready(y) <=> Ready(x))
    BY <2>2, <2>3 DEF Prices!State, Ready
  <2>5. Typed(y, n) /\ Single(y)
    BY <2>2, <2>3 DEF Sound, Typed, Single
  <2>6. y.odd = {} => Flowing(y)
    BY <1>1, <2>2, <2>3, <2>4 DEF Sound, Flowing
  <2>. QED BY <2>2, <2>3, <2>5, <2>6 DEF Sound, Covers
<1>2. CASE Ready(x)
  <2>. DEFINE msg == [t |-> "subscribe", syms |-> syms, tok |-> 0]
  <2>0. PICK w, m, z : w = x.c.ws /\ m = msg /\ z = Prices!Post(x, m)
    OBVIOUS
  <2>a. y = Prices!SendSubscribe(x, syms) /\ n \in Nat /\ syms \in SUBSET Symbols
    OBVIOUS
  <2>1. y = [z EXCEPT !.c.subscribed = @ \cup syms]
    BY ONLY <1>2, <2>0, <2>a DEF Prices!SendSubscribe, Ready
  <2>2. m \in Mail(n) /\ m.t = "subscribe" /\ m.syms = syms
    BY ONLY <2>0, <2>a DEF Mail
  <2>. HIDE DEF msg
  <2>3. w = x.c.ws /\ w # 0 /\ x.s[w].st = "open" /\ Prices!State(x) = "open" /\ x.c.authenticated
    BY ONLY <1>2, <2>0 DEF Ready, Prices!State
  <2>b. Typed(x, n) /\ Single(x) /\ (x.odd = {} => Flowing(x))
    BY DEF Sound
  <2>4. /\ Typed(z, n) /\ z.c = x.c /\ z.odd = x.odd /\ w \in Prices!Sockets
        /\ \A i \in Prices!Sockets : /\ z.s[i].st = x.s[i].st /\ z.s[i].inn = x.s[i].inn
                              /\ z.s[i].authed = x.s[i].authed /\ z.s[i].subs = x.s[i].subs
        /\ z.s[w].out = Append(x.s[w].out, m)
    <3>1. Typed(x, n) /\ w = x.c.ws /\ w # 0 /\ z = Prices!Post(x, m) /\ m \in Mail(n)
      BY ONLY <2>0, <2>2, <2>3, <2>b
    <3>2. Posted(z, x, n, w, m)
      BY ONLY <3>1, n \in Nat, PostIs
    <3>. QED BY ONLY <3>2 DEF Posted
  <2>c. /\ z \in [c : Client, s : [Prices!Sockets -> Socket(n)], odd : SUBSET Prices!Disturbances]
        /\ MaxSockets \in Nat /\ x.c.ws <= x.c.made
        /\ \A i \in Prices!Sockets : i > x.c.made => z.s[i] = Prices!NewSocket
    BY ONLY <2>4, <2>b DEF Typed
  <2>d. z = [c |-> z.c, s |-> z.s, odd |-> z.odd] /\ x.c \in Client
    BY ONLY <2>4, <2>c
  <2>5. /\ y.s = z.s /\ y.odd = x.odd /\ y.c = [x.c EXCEPT !.subscribed = @ \cup syms]
        /\ y = [c |-> y.c, s |-> y.s, odd |-> y.odd]
    <3>. PICK d : d = [z.c EXCEPT !.subscribed = z.c.subscribed \cup syms]
      OBVIOUS
    <3>1. y = [z EXCEPT !.c = d]
      BY ONLY <2>1, d = [z.c EXCEPT !.subscribed = z.c.subscribed \cup syms]
    <3>3. d = [x.c EXCEPT !.subscribed = @ \cup syms]
      BY ONLY <2>4, d = [z.c EXCEPT !.subscribed = z.c.subscribed \cup syms]
    <3>2. [z EXCEPT !.c = d] = [c |-> d, s |-> z.s, odd |-> z.odd]
      BY ONLY <2>d, RecordWritten
    <3>. QED BY ONLY <2>4, <3>1, <3>2, <3>3
  <2>6. /\ y.c \in Client /\ y.c.subscribed = x.c.subscribed \cup syms /\ y.c.pending = x.c.pending
        /\ y.c.ws = w /\ y.c.made = x.c.made /\ y.c.authenticated = x.c.authenticated
    <3>. PICK v, d : v = x.c /\ d = [v EXCEPT !.subscribed = v.subscribed \cup syms]
      OBVIOUS
    <3>1. v = x.c /\ d = [v EXCEPT !.subscribed = v.subscribed \cup syms] /\ y.c = d
      BY <2>5
    <3>2. v \in Client
      BY ONLY <3>1, <2>d
    <3>3. /\ d \in Client /\ d.subscribed = v.subscribed \cup syms /\ d.pending = v.pending
          /\ d.ws = v.ws /\ d.made = v.made /\ d.authenticated = v.authenticated
      BY ONLY <3>1, <3>2, <2>a DEF Client
    <3>. QED BY ONLY <3>1, <3>3, <2>3
  <2>7. Prices!State(y) = "open" /\ Ready(y)
    <3>1. Prices!State(y) = y.s[w].st
      BY ONLY <2>3, <2>6 DEF Prices!State
    <3>2. y.s[w].st = "open"
      <4>1. z.s[w].st = x.s[w].st
        BY ONLY <2>4
      <4>. QED BY ONLY <2>3, <2>5, <4>1
    <3>3. y.c.authenticated
      BY ONLY <2>3, <2>6
    <3>. QED BY ONLY <3>1, <3>2, <3>3, Zenon DEF Ready
  <2>8. Typed(y, n) /\ Single(y)
    <3>1. y \in [c : Client, s : [Prices!Sockets -> Socket(n)], odd : SUBSET Prices!Disturbances]
      BY ONLY <2>4, <2>5, <2>6, <2>c
    <3>2. \A i \in Prices!Sockets : i > y.c.made => y.s[i] = Prices!NewSocket
      BY ONLY <2>5, <2>6, <2>c
    <3>3. y.c.ws <= y.c.made
      BY ONLY <2>3, <2>6, <2>c
    <3>4. Typed(y, n)
      BY ONLY <2>c, <3>1, <3>2, <3>3 DEF Typed
    <3>5. \A i \in Prices!Sockets : y.s[i].st = x.s[i].st
      BY ONLY <2>4, <2>5
    <3>6. Single(y)
      BY ONLY <2>3, <2>5, <2>6, <2>b, <3>5 DEF Single
    <3>. QED BY ONLY <3>4, <3>6
  <2>9. ASSUME y.odd = {} PROVE Flowing(y)
    <3>0. Flowing(x)
      BY ONLY <2>5, <2>9, <2>b
    <3>1. /\ x.c.pending = {} /\ x.c.subscribed \subseteq x.s[w].subs \cup Coming(x.s[w].out)
          /\ x.s[w].authed # 0 /\ x.s[w].inn = <<>> /\ \A i \in Prices!Sockets : Quiet(x.s[i])
      BY ONLY <1>2, <2>3, <3>0 DEF Flowing
    <3>2. \A i \in Prices!Sockets : /\ y.s[i].inn = x.s[i].inn /\ y.s[i].authed = x.s[i].authed
                             /\ y.s[i].subs = x.s[i].subs
      BY ONLY <2>4, <2>5
    <3>3. /\ Coming(x.s[w].out) \subseteq Coming(y.s[w].out) /\ syms \subseteq Coming(y.s[w].out)
      <4>. PICK q : q = x.s[w].out
        OBVIOUS
      <4>1. x.s \in [Prices!Sockets -> Socket(n)]
        BY ONLY <2>b DEF Typed
      <4>2. x.s[w].out \in Seq(Mail(n))
        BY ONLY <2>4, <4>1 DEF Socket
      <4>3. y.s[w].out = Append(q, m)
        BY ONLY <2>4, <2>5, q = x.s[w].out
      <4>4. Coming(q) \subseteq Coming(Append(q, m)) /\ m.syms \subseteq Coming(Append(q, m))
        BY ONLY <2>2, <2>a, <4>2, q = x.s[w].out, ComingAppend
      <4>. QED BY ONLY <2>2, <4>3, <4>4, q = x.s[w].out
    <3>4. \A i \in Prices!Sockets : Quiet(y.s[i])
      BY ONLY <3>1, <3>2 DEF Quiet
    <3>5. Prices!State(y) \in Alive /\ y.c.pending = {} /\ y.c.ws = w
      BY ONLY <2>6, <2>7, <3>1 DEF Alive
    <3>6. /\ y.c.subscribed \subseteq y.s[w].subs \cup Coming(y.s[w].out)
          /\ y.s[w].authed # 0 /\ y.s[w].inn = <<>>
      BY ONLY <2>4, <2>6, <3>1, <3>2, <3>3
    <3>. QED BY ONLY <2>7, <3>4, <3>5, <3>6 DEF Flowing
  <2>10. Sound(y, n)
    BY ONLY <2>8, <2>9 DEF Sound
  <2>11. \A S : S \subseteq x.c.pending \cup x.c.subscribed \cup syms => Covers(y, S)
    BY ONLY <2>6 DEF Covers
  <2>. QED BY ONLY <2>5, <2>10, <2>11
<1>. QED BY <1>1, <1>2

\* A change of the client's own fields.
LEMMA ClientWritten ==
  ASSUME NEW x, NEW n \in Nat, Sound(x, n), NEW y, y = [c |-> y.c, s |-> y.s, odd |-> y.odd],
         y.s = x.s, y.odd \subseteq Prices!Disturbances, x.odd \subseteq y.odd, y.c \in Client,
         y.c.ws = x.c.ws, y.c.made = x.c.made, y.c.pending = x.c.pending,
         y.c.subscribed \subseteq x.c.subscribed,
         \/ y.c.authenticated = x.c.authenticated
         \/ ~y.c.authenticated /\ (x.c.ws = 0 \/ y.odd # {})
  PROVE  Sound(y, n)
<1>1. Typed(y, n) /\ Single(y) /\ Prices!State(y) = Prices!State(x)
  BY DEF Sound, Typed, Single, Prices!State
<1>2. ASSUME y.odd = {} PROVE Flowing(y)
  <2>1. x.odd = {} /\ Flowing(x)
    BY <1>2 DEF Sound
  <2>2. Ready(y) => Ready(x)
    BY <1>1, <1>2 DEF Ready
  <2>3. Prices!State(y) # "closing" /\ ~Ready(y) => Prices!State(x) # "closing" /\ ~Ready(x)
    BY <1>1, <1>2 DEF Ready, Prices!State
  <2>. QED BY <1>1, <2>1, <2>2, <2>3 DEF Flowing
<1>. QED BY <1>1, <1>2 DEF Sound

\* unsubscribe() only forgets.
LEMMA UnsubscribeSound ==
  ASSUME NEW x, NEW n \in Nat, Sound(x, n), NEW syms, NEW y, y = Prices!Unsubscribe(x, syms)
  PROVE  /\ Sound(y, n) /\ y.odd = x.odd /\ y.c.pending = x.c.pending
         /\ y.c.subscribed = x.c.subscribed \ syms
<1>1. /\ y.s = x.s /\ y.odd = x.odd /\ y.c = [x.c EXCEPT !.subscribed = @ \ syms]
      /\ y = [c |-> y.c, s |-> y.s, odd |-> y.odd]
  BY DEF Prices!Unsubscribe, Sound, Typed
<1>2. /\ y.c \in Client /\ y.c.pending = x.c.pending /\ y.c.subscribed = x.c.subscribed \ syms
      /\ y.c.ws = x.c.ws /\ y.c.made = x.c.made /\ y.c.authenticated = x.c.authenticated
  BY ZenonT(60), <1>1 DEF Sound, Typed, Client
<1>. QED BY ZenonT(60), <1>1, <1>2, ClientWritten DEF Sound, Typed

\* subscribe() and resyncSymbolSubscriptions() lose no symbol.
LEMMA SubscribeSound ==
  ASSUME NEW x, NEW n \in Nat, Sound(x, n), NEW syms \in SUBSET Symbols, NEW y, y = Prices!Subscribe(x, syms)
  PROVE  /\ Sound(y, n) /\ x.odd \subseteq y.odd
         /\ \A S : S \subseteq x.c.pending \cup x.c.subscribed \cup syms => Covers(y, S)
<1>1. CASE syms = {}
  BY <1>1 DEF Prices!Subscribe, Covers
<1>2. CASE syms # {}
  <2>. PICK z : z = Prices!Connect(x)
    OBVIOUS
  <2>1. /\ Sound(z, n) /\ x.odd \subseteq z.odd
        /\ z.c.pending = x.c.pending /\ z.c.subscribed = x.c.subscribed
    BY ConnectSound
  <2>2. y = Prices!SendSubscribe(z, syms)
    BY <1>2 DEF Prices!Subscribe
  <2>. QED BY <2>1, <2>2, SendSubscribeSound
<1>. QED BY <1>1, <1>2

\* What a change of one of the client's counters and flags leaves as it was.
Same(y, x) == /\ y.c \in Client /\ y.s = x.s /\ y.odd = x.odd
              /\ y = [c |-> y.c, s |-> y.s, odd |-> y.odd]
              /\ y.c.pending = x.c.pending /\ y.c.subscribed = x.c.subscribed
              /\ y.c.ws = x.c.ws /\ y.c.made = x.c.made
              /\ y.c.authenticated = x.c.authenticated

\* Such a change is sound.
LEMMA SameSound ==
  ASSUME NEW x, NEW n \in Nat, Sound(x, n), NEW y, Same(y, x)
  PROVE  Sound(y, n) /\ Prices!State(y) = Prices!State(x)
<1>1. Sound(y, n)
  BY ClientWritten DEF Same, Sound, Typed
<1>. QED BY <1>1 DEF Same, Prices!State

\* The changes that are such.
LEMMA FieldsSame ==
  ASSUME NEW x, NEW n \in Nat, Typed(x, n)
  PROVE  /\ \A f \in Nat : Same([x EXCEPT !.c.fresh = f], x) /\ Same([x EXCEPT !.c.retry = f], x)
         /\ \A b \in BOOLEAN : Same([x EXCEPT !.c.paused = b], x) /\ Same([x EXCEPT !.c.timer = b], x)
         /\ x.c.fresh \in Nat /\ x.c.retry \in Nat
<1>1. /\ x.c \in Client /\ x = [c |-> x.c, s |-> x.s, odd |-> x.odd]
      /\ x.c.fresh \in Nat /\ x.c.retry \in Nat
  BY DEF Typed, Client
<1>2. ASSUME NEW f \in Nat PROVE Same([x EXCEPT !.c.fresh = f], x)
  <2>. DEFINE d == [x.c EXCEPT !.fresh = f]
  <2>1. /\ d \in Client /\ d.pending = x.c.pending /\ d.subscribed = x.c.subscribed
        /\ d.ws = x.c.ws /\ d.made = x.c.made /\ d.authenticated = x.c.authenticated
    BY <1>1 DEF Client
  <2>2. [x EXCEPT !.c.fresh = f] = [x EXCEPT !.c = d]
    OBVIOUS
  <2>. HIDE DEF d
  <2>3. [x EXCEPT !.c = d] = [c |-> d, s |-> x.s, odd |-> x.odd]
    BY ONLY <1>1, RecordWritten
  <2>. QED BY <2>1, <2>2, <2>3 DEF Same
<1>3. ASSUME NEW f \in Nat PROVE Same([x EXCEPT !.c.retry = f], x)
  <2>. DEFINE d == [x.c EXCEPT !.retry = f]
  <2>1. /\ d \in Client /\ d.pending = x.c.pending /\ d.subscribed = x.c.subscribed
        /\ d.ws = x.c.ws /\ d.made = x.c.made /\ d.authenticated = x.c.authenticated
    BY <1>1 DEF Client
  <2>2. [x EXCEPT !.c.retry = f] = [x EXCEPT !.c = d]
    OBVIOUS
  <2>. HIDE DEF d
  <2>3. [x EXCEPT !.c = d] = [c |-> d, s |-> x.s, odd |-> x.odd]
    BY ONLY <1>1, RecordWritten
  <2>. QED BY <2>1, <2>2, <2>3 DEF Same
<1>4. ASSUME NEW b \in BOOLEAN PROVE Same([x EXCEPT !.c.paused = b], x)
  <2>. DEFINE d == [x.c EXCEPT !.paused = b]
  <2>1. /\ d \in Client /\ d.pending = x.c.pending /\ d.subscribed = x.c.subscribed
        /\ d.ws = x.c.ws /\ d.made = x.c.made /\ d.authenticated = x.c.authenticated
    BY <1>1 DEF Client
  <2>2. [x EXCEPT !.c.paused = b] = [x EXCEPT !.c = d]
    OBVIOUS
  <2>. HIDE DEF d
  <2>3. [x EXCEPT !.c = d] = [c |-> d, s |-> x.s, odd |-> x.odd]
    BY ONLY <1>1, RecordWritten
  <2>. QED BY <2>1, <2>2, <2>3 DEF Same
<1>5. ASSUME NEW b \in BOOLEAN PROVE Same([x EXCEPT !.c.timer = b], x)
  <2>. DEFINE d == [x.c EXCEPT !.timer = b]
  <2>1. /\ d \in Client /\ d.pending = x.c.pending /\ d.subscribed = x.c.subscribed
        /\ d.ws = x.c.ws /\ d.made = x.c.made /\ d.authenticated = x.c.authenticated
    BY <1>1 DEF Client
  <2>2. [x EXCEPT !.c.timer = b] = [x EXCEPT !.c = d]
    OBVIOUS
  <2>. HIDE DEF d
  <2>3. [x EXCEPT !.c = d] = [c |-> d, s |-> x.s, odd |-> x.odd]
    BY ONLY <1>1, RecordWritten
  <2>. QED BY <2>1, <2>2, <2>3 DEF Same
<1>. QED BY <1>1, <1>2, <1>3, <1>4, <1>5

\* setAuthToken() keeps what the client wants; null, on a live socket, is the
\* disturbance relogin.
LEMMA SetAuthTokenSound ==
  ASSUME NEW x, NEW n \in Nat, Sound(x, n), NEW t, NEW y, y = Prices!SetAuthToken(x, t)
  PROVE  /\ Sound(y, n) /\ x.odd \subseteq y.odd
         /\ y.c.pending = x.c.pending /\ y.c.subscribed = x.c.subscribed
<1>1. CASE t = 0
  <2>1. /\ y.s = x.s /\ y.odd = (IF x.c.ws # 0 THEN x.odd \cup {"relogin"} ELSE x.odd)
        /\ y.c = [x.c EXCEPT !.authenticated = FALSE, !.paused = FALSE]
        /\ y = [c |-> y.c, s |-> y.s, odd |-> y.odd]
    BY <1>1 DEF Prices!SetAuthToken, Sound, Typed
  <2>2. /\ y.c \in Client /\ y.c.pending = x.c.pending /\ y.c.subscribed = x.c.subscribed
        /\ y.c.ws = x.c.ws /\ y.c.made = x.c.made /\ ~y.c.authenticated
    BY ZenonT(60), <2>1 DEF Sound, Typed, Client
  <2>3. /\ y.odd \subseteq Prices!Disturbances /\ x.odd \subseteq y.odd
        /\ x.c.ws = 0 \/ y.odd # {}
    BY <2>1 DEF Sound, Typed, Prices!Disturbances
  <2>. QED BY <2>1, <2>2, <2>3, ClientWritten
<1>2. CASE t # 0
  <2>. DEFINE z == [x EXCEPT !.c.paused = FALSE]
  <2>1. Same(z, x)
    BY FieldsSame DEF Sound
  <2>2. y = [z EXCEPT !.c.fresh = z.c.fresh + 1] \/ y = Prices!Connect(z) \/ y = z
    BY <1>2 DEF Prices!SetAuthToken
  <2>. HIDE DEF z
  <2>3. Sound(z, n)
    BY <2>1, SameSound
  <2>4. CASE y = z
    BY <2>1, <2>3, <2>4 DEF Same
  <2>5. CASE y = Prices!Connect(z)
    <3>1. /\ Sound(y, n) /\ z.odd \subseteq y.odd
          /\ y.c.pending = z.c.pending /\ y.c.subscribed = z.c.subscribed
      BY ONLY <2>3, <2>5, n \in Nat, ConnectSound
    <3>. QED BY <2>1, <3>1 DEF Same
  <2>6. CASE y = [z EXCEPT !.c.fresh = z.c.fresh + 1]
    <3>1. z.c.fresh \in Nat /\ \A f \in Nat : Same([z EXCEPT !.c.fresh = f], z)
      <4>1. Typed(z, n)
        BY <2>3 DEF Sound
      <4>. QED BY ONLY <4>1, n \in Nat, FieldsSame
    <3>2. Same(y, z)
      <4>1. z.c.fresh + 1 \in Nat
        BY <3>1
      <4>. QED BY <2>6, <3>1, <4>1
    <3>. QED BY <2>1, <2>3, <3>2, SameSound DEF Same
  <2>. QED BY <2>2, <2>4, <2>5, <2>6
<1>. QED BY <1>1, <1>2

-------------------------------------------------------------------------------
(* The invariant of the page.                                              *)

Hook(n) == [mounted : BOOLEAN, want : SUBSET Symbols, subbed : SUBSET Symbols,
            tok : 0..n, prev : 0..n]

StreamInv ==
  /\ issued \in 0..MaxTokens /\ token \in 0..issued /\ expired \subseteq 1..issued
  /\ Sound(Prices!Now, issued)
  /\ comp \in [Components -> Hook(issued)]
  /\ \A k \in Components : ~comp[k].mounted => comp[k].subbed = {}
  /\ odd = {} => \A k \in Components : Covers(Prices!Now, comp[k].subbed)

\* A step of the client, its socket or the gateway leaves the components alone.
LEMMA StreamKept ==
  ASSUME StreamInv, UNCHANGED <<token, issued, expired, comp>>, NEW y, Prices!Becomes(y),
         Sound(y, issued), odd \subseteq y.odd,
         y.odd = {} => \A S : Covers(Prices!Now, S) => Covers(y, S)
  PROVE  StreamInv'
<1>1. Prices!Now' = y /\ odd' = y.odd
  BY DEF Prices!Becomes, Prices!Now, Sound, Typed
<1>. QED BY <1>1 DEF StreamInv

\* Types only grow as tokens are issued.
LEMMA SoundGrows ==
  ASSUME NEW x, NEW n \in Nat, Sound(x, n) PROVE Sound(x, n + 1)
<1>1. Mail(n) \subseteq Mail(n + 1) /\ 0..n \subseteq 0..(n + 1)
  BY DEF Mail
<1>2. ASSUME NEW q \in Seq(Mail(n)) PROVE q \in Seq(Mail(n + 1))
  BY <1>1
<1>3. Socket(n) \subseteq Socket(n + 1)
  BY <1>1, <1>2 DEF Socket
<1>. QED BY <1>3 DEF Sound, Typed

\* A refresh whose /me fails: the token changes, and the history says so.
LEMMA HalfwayStream ==
  ASSUME Prices!PriceAssumption, StreamInv, Prices!RefreshHalfway
  PROVE  StreamInv'
<1>. DEFINE x == Prices!Now
            y == [c |-> x.c, s |-> x.s, odd |-> x.odd \cup {"halfway"}]
<1>1. /\ issued' = issued + 1 /\ issued < MaxTokens /\ token' = issued + 1
      /\ expired' = expired /\ comp' = comp /\ issued \in Nat /\ MaxTokens \in Nat
  BY DEF Prices!RefreshHalfway, Prices!Renewable, StreamInv, Prices!PriceAssumption
<1>2. Prices!Now' = y /\ odd' # {}
  BY DEF Prices!RefreshHalfway, Prices!Now
<1>3. Sound(x, issued) /\ x.c \in Client
  BY DEF StreamInv, Sound, Typed
<1>4. y.odd \subseteq Prices!Disturbances /\ y = [c |-> y.c, s |-> y.s, odd |-> y.odd]
  BY <1>3 DEF Sound, Typed, Prices!Disturbances
<1>5. Sound(y, issued)
  <2>. HIDE DEF x
  <2>1. /\ y.s = x.s /\ y.c = x.c /\ x.odd \subseteq y.odd
    OBVIOUS
  <2>. HIDE DEF y
  <2>. QED BY <1>1, <1>3, <1>4, <2>1, ClientWritten
<1>6. Sound(Prices!Now', issued')
  BY <1>1, <1>2, <1>5, SoundGrows
<1>7. Hook(issued) \subseteq Hook(issued')
  BY <1>1 DEF Hook
<1>8. /\ issued' \in 0..MaxTokens /\ token' \in 0..issued' /\ expired' \subseteq 1..issued'
  BY <1>1 DEF StreamInv
<1>. QED BY <1>1, <1>2, <1>6, <1>7, <1>8 DEF StreamInv

\* The auth store: a token issued, dropped or expired.
LEMMA SessionStream ==
  ASSUME Prices!PriceAssumption, StreamInv,
         Prices!Login \/ Prices!Logout \/ Prices!Expire \/ Prices!Refresh
  PROVE  StreamInv'
<1>1. Prices!Now' = Prices!Now /\ UNCHANGED <<comp, odd>>
  BY DEF Prices!Now, Prices!Login, Prices!Logout, Prices!Expire, Prices!Refresh
<1>2. issued \in Nat /\ MaxTokens \in Nat
  BY DEF StreamInv, Prices!PriceAssumption
<1>3. CASE Prices!Login \/ Prices!Refresh
  <2>1. issued' = issued + 1 /\ issued < MaxTokens /\ token' = issued + 1 /\ expired' = expired
    BY <1>3 DEF Prices!Login, Prices!Refresh, Prices!Renewable
  <2>2. Sound(Prices!Now, issued')
    BY <1>2, <2>1, SoundGrows DEF StreamInv
  <2>3. Hook(issued) \subseteq Hook(issued')
    BY <1>2, <2>1 DEF Hook
  <2>4. /\ issued' \in 0..MaxTokens /\ token' \in 0..issued' /\ expired' \subseteq 1..issued'
    BY <1>2, <2>1 DEF StreamInv
  <2>5. comp \in [Components -> Hook(issued')]
    BY <2>3 DEF StreamInv
  <2>. QED BY <1>1, <2>2, <2>4, <2>5 DEF StreamInv
<1>4. CASE Prices!Logout
  <2>1. issued' = issued /\ token' \in 0..issued /\ expired' = expired
    BY <1>2, <1>4 DEF Prices!Logout
  <2>. QED BY <1>1, <2>1 DEF StreamInv
<1>5. CASE Prices!Expire
  <2>1. /\ issued' = issued /\ token' = token /\ expired' = expired \cup {token}
        /\ token # 0
    BY <1>5 DEF Prices!Expire, Prices!Renewable
  <2>2. token \in 1..issued
    BY <1>2, <2>1 DEF StreamInv
  <2>3. expired' \subseteq 1..issued
    BY <2>1, <2>2 DEF StreamInv
  <2>. QED BY <1>1, <2>1, <2>3 DEF StreamInv
<1>. QED BY <1>3, <1>4, <1>5

\* A component leaves.
LEMMA UnmountStream ==
  ASSUME StreamInv, NEW k \in Components, Prices!Unmount(k) PROVE StreamInv'
<1>. DEFINE blank == [mounted |-> FALSE, want |-> {}, subbed |-> {}, tok |-> 0, prev |-> 0]
<1>1. /\ UNCHANGED <<token, issued, expired, client, sock, odd>>
      /\ comp' = [comp EXCEPT ![k] = blank]
  BY DEF Prices!Unmount, Prices!session
<1>2. issued \in Nat /\ blank \in Hook(issued) /\ blank.subbed = {}
  BY DEF StreamInv, Hook
<1>. HIDE DEF blank
<1>3. comp' \in [Components -> Hook(issued)]
      /\ \A j \in Components : \/ comp'[j].subbed = comp[j].subbed /\ comp'[j].mounted = comp[j].mounted
                               \/ comp'[j].subbed = {}
  BY <1>1, <1>2 DEF StreamInv
<1>4. Prices!Now' = Prices!Now
  BY <1>1 DEF Prices!Now
<1>5. ASSUME odd' = {}, NEW j \in Components PROVE Covers(Prices!Now, comp'[j].subbed)
  BY <1>1, <1>3, <1>5 DEF StreamInv, Covers
<1>6. \A j \in Components : ~comp'[j].mounted => comp'[j].subbed = {}
  BY <1>3 DEF StreamInv
<1>. QED BY <1>1, <1>3, <1>4, <1>5, <1>6 DEF StreamInv

\* One commit of a component: what it unsubscribes no other component shows, or
\* odd records it; what it shows is subscribed or waits.
LEMMA RenderStream ==
  ASSUME StreamInv, NEW k \in Components, NEW W \in SUBSET Symbols, Prices!Render(k, W)
  PROVE  StreamInv'
<1>. DEFINE p == comp[k]
            newTok == ~p.mounted \/ p.tok # token
            diff == W # {} /\ (~p.mounted \/ W # p.want)
            gone == p.subbed \ W
            x1 == IF newTok THEN Prices!SetAuthToken(Prices!Now, token) ELSE Prices!Now
            u == Prices!Unsubscribe(x1, gone)
            x2 == IF diff THEN Prices!Subscribe(u, W \ p.subbed) ELSE x1
            resync == token # 0 /\ W # {} /\ p.prev # token
            x3 == IF resync THEN Prices!Subscribe(x2, W) ELSE x2
            robbed == diff /\ \E j \in Components \ {k} : comp[j].mounted /\ comp[j].subbed \cap gone # {}
            x4 == [x3 EXCEPT !.odd = IF robbed THEN @ \cup {"stolen"} ELSE @]
            h == [mounted |-> TRUE, want |-> W, tok |-> token,
                  prev |-> IF resync THEN token ELSE p.prev,
                  subbed |-> IF diff THEN W ELSE p.subbed]
<1>1. /\ Prices!Becomes(x4) /\ comp' = [comp EXCEPT ![k] = h]
      /\ UNCHANGED <<token, issued, expired>>
  BY DEF Prices!Render, Prices!session
<1>2. issued \in Nat /\ p \in Hook(issued) /\ p.subbed \subseteq Symbols
  BY DEF StreamInv, Hook
<1>3. /\ h \in Hook(issued) /\ h.mounted
      /\ h.subbed = IF diff THEN W ELSE p.subbed
  BY <1>2 DEF StreamInv, Hook
<1>4. /\ Sound(x1, issued) /\ odd \subseteq x1.odd
      /\ x1.c.pending = client.pending /\ x1.c.subscribed = client.subscribed
  <2>1. /\ Sound(Prices!Now, issued) /\ Prices!Now.odd = odd
        /\ Prices!Now.c = client
    BY DEF StreamInv, Prices!Now
  <2>. HIDE DEF newTok
  <2>2. CASE newTok
    <3>1. x1 = Prices!SetAuthToken(Prices!Now, token)
      BY <2>2
    <3>. HIDE DEF x1
    <3>. QED BY <1>2, <2>1, <3>1, SetAuthTokenSound
  <2>3. CASE ~newTok
    BY <2>1, <2>3
  <2>. QED BY <2>2, <2>3
<1>. HIDE DEF x1
<1>5. /\ Sound(u, issued) /\ u.odd = x1.odd /\ u.c.pending = x1.c.pending
      /\ u.c.subscribed = x1.c.subscribed \ gone
  BY <1>2, <1>4, UnsubscribeSound
<1>. HIDE DEF u
<1>6. /\ Sound(x2, issued) /\ odd \subseteq x2.odd
      /\ diff => \A S : S \subseteq client.pending \cup (client.subscribed \ gone) \cup (W \ p.subbed)
                          => Covers(x2, S)
      /\ ~diff => \A S : S \subseteq client.pending \cup client.subscribed => Covers(x2, S)
  <2>. HIDE DEF diff
  <2>1. CASE diff
    <3>1. x2 = Prices!Subscribe(u, W \ p.subbed) /\ W \ p.subbed \in SUBSET Symbols
      BY <2>1
    <3>. HIDE DEF x2, gone, p
    <3>2. /\ Sound(x2, issued) /\ u.odd \subseteq x2.odd
          /\ \A S : S \subseteq u.c.pending \cup u.c.subscribed \cup (W \ p.subbed) => Covers(x2, S)
      BY <1>2, <1>5, <3>1, SubscribeSound
    <3>. QED BY <1>4, <1>5, <2>1, <3>2
  <2>2. CASE ~diff
    BY <1>4, <2>2 DEF Covers
  <2>. QED BY <2>1, <2>2
<1>. HIDE DEF x2
<1>7. /\ Sound(x3, issued) /\ odd \subseteq x3.odd
      /\ \A S : Covers(x2, S) => Covers(x3, S)
  <2>. HIDE DEF resync
  <2>1. CASE resync
    <3>1. x3 = Prices!Subscribe(x2, W)
      BY <2>1
    <3>. HIDE DEF x3
    <3>2. /\ Sound(x3, issued) /\ x2.odd \subseteq x3.odd
          /\ \A S : S \subseteq x2.c.pending \cup x2.c.subscribed \cup W => Covers(x3, S)
      BY <1>2, <1>6, <3>1, SubscribeSound
    <3>. QED BY <1>6, <3>2 DEF Covers
  <2>2. CASE ~resync
    BY <1>6, <2>2
  <2>. QED BY <2>1, <2>2
<1>. HIDE DEF x3
<1>8. /\ x4.c = x3.c /\ x4.s = x3.s /\ x4.odd = (IF robbed THEN x3.odd \cup {"stolen"} ELSE x3.odd)
      /\ x4 = [c |-> x4.c, s |-> x4.s, odd |-> x4.odd]
  <2>1. x3 = [c |-> x3.c, s |-> x3.s, odd |-> x3.odd]
    BY <1>7 DEF Sound, Typed
  <2>. PICK o : o = IF robbed THEN x3.odd \cup {"stolen"} ELSE x3.odd
    OBVIOUS
  <2>2. x4 = [x3 EXCEPT !.odd = o]
    OBVIOUS
  <2>3. [x3 EXCEPT !.odd = o] = [c |-> x3.c, s |-> x3.s, odd |-> o]
    BY ONLY <2>1, RecordWritten
  <2>. HIDE DEF robbed, x4
  <2>. QED BY <2>2, <2>3
<1>. HIDE DEF robbed, x4
<1>9. Sound(x4, issued)
  <2>1. /\ x4.odd \subseteq Prices!Disturbances /\ x3.odd \subseteq x4.odd
        /\ x4.c \in Client
    BY <1>7, <1>8 DEF Sound, Typed, Prices!Disturbances
  <2>. QED BY <1>2, <1>7, <1>8, <2>1, ClientWritten
<1>10. Prices!Now' = x4 /\ odd' = x4.odd
  BY <1>1, <1>8 DEF Prices!Becomes, Prices!Now
<1>11. /\ comp' \in [Components -> Hook(issued)] /\ comp'[k] = h
       /\ \A j \in Components \ {k} : comp'[j] = comp[j]
  BY <1>1, <1>3 DEF StreamInv
<1>12. ASSUME odd' = {}, NEW j \in Components PROVE Covers(x4, comp'[j].subbed)
  <2>1. ~robbed /\ odd = {} /\ x4.c = x3.c
    BY <1>7, <1>8, <1>10, <1>12
  <2>2. \A S : Covers(x3, S) => Covers(x4, S)
    BY <2>1 DEF Covers
  <2>3. \A i \in Components : comp[i].subbed \subseteq client.pending \cup client.subscribed
    BY <2>1 DEF StreamInv, Covers, Prices!Now
  <2>. SUFFICES Covers(x2, comp'[j].subbed)
    BY <1>7, <2>2
  <2>4. CASE j = k
    BY <1>3, <1>6, <1>11, <2>3, <2>4
  <2>5. CASE j # k
    <3>1. comp'[j] = comp[j]
      BY <1>11, <2>5
    <3>2. diff => comp[j].subbed \cap gone = {}
      BY <2>1, <2>5 DEF StreamInv, robbed
    <3>. QED BY <1>6, <2>3, <3>1, <3>2
  <2>. QED BY <2>4, <2>5
<1>13. \A j \in Components : ~comp'[j].mounted => comp'[j].subbed = {}
  BY <1>3, <1>11 DEF StreamInv
<1>. HIDE DEF p, h, gone
<1>14. /\ issued' \in 0..MaxTokens /\ token' \in 0..issued' /\ expired' \subseteq 1..issued'
       /\ comp' \in [Components -> Hook(issued')] /\ issued' = issued
  <2>1. UNCHANGED <<token, issued, expired>>
    BY ONLY <1>1
  <2>2. issued \in 0..MaxTokens /\ token \in 0..issued /\ expired \subseteq 1..issued
    BY ONLY StreamInv, Zenon DEF StreamInv
  <2>3. comp' \in [Components -> Hook(issued)]
    BY ONLY <1>11
  <2>. QED BY ONLY <2>1, <2>2, <2>3
<1>15. Sound(Prices!Now', issued')
  BY ONLY <1>9, <1>10, <1>14
<1>16. odd' = {} => \A j \in Components : Covers(Prices!Now', comp'[j].subbed)
  BY ONLY <1>10, <1>12
<1>. QED BY ONLY ZenonT(60), <1>13, <1>14, <1>15, <1>16 DEF StreamInv

-------------------------------------------------------------------------------
(* The socket's events.                                                    *)

\* Sending something is sound, and forgets nothing.
LEMMA PostSound ==
  ASSUME NEW x, NEW n \in Nat, Sound(x, n), x.c.ws # 0, NEW m \in Mail(n), NEW y, y = Prices!Post(x, m)
  PROVE  Sound(y, n) /\ y.c = x.c /\ y.odd = x.odd
<1>0. PICK w : w = x.c.ws
  OBVIOUS
<1>a. /\ Typed(x, n) /\ Single(x) /\ (x.odd = {} => Flowing(x))
      /\ x.c.ws # 0 /\ y = Prices!Post(x, m)
  BY Zenon DEF Sound
<1>1. /\ Typed(y, n) /\ y.c = x.c /\ y.odd = x.odd /\ w \in Prices!Sockets
      /\ \A i \in Prices!Sockets : /\ y.s[i].st = x.s[i].st /\ y.s[i].inn = x.s[i].inn
                                   /\ y.s[i].authed = x.s[i].authed /\ y.s[i].subs = x.s[i].subs
      /\ y.s[w].out = Append(x.s[w].out, m)
  <2>1. Posted(y, x, n, w, m)
    BY ONLY <1>0, <1>a, n \in Nat, m \in Mail(n), PostIs
  <2>. QED BY ONLY <2>1 DEF Posted
<1>b. /\ y.c = x.c /\ y.odd = x.odd /\ w \in Prices!Sockets
  BY ONLY <1>1
<1>c. \A i \in Prices!Sockets : y.s[i].st = x.s[i].st
  BY ONLY <1>1
<1>d. \A i \in Prices!Sockets : y.s[i].inn = x.s[i].inn /\ y.s[i].authed = x.s[i].authed
  BY ONLY <1>1
<1>e. Single(x) /\ (x.odd = {} => Flowing(x))
  BY ONLY <1>a
<1>2. Prices!State(y) = Prices!State(x) /\ Single(y)
  <2>1. Prices!State(y) = Prices!State(x)
    BY ONLY <1>0, <1>b, <1>c DEF Prices!State
  <2>2. Single(y)
    BY ONLY ZenonT(60), <1>b, <1>c, <1>e DEF Single
  <2>. QED BY ONLY <2>1, <2>2
<1>3. ASSUME y.odd = {} PROVE Flowing(y)
  <2>1. Flowing(x)
    BY ONLY <1>b, <1>e, <1>3
  <2>2. \A i \in Prices!Sockets : Quiet(y.s[i])
    <3>1. \A i \in Prices!Sockets : Quiet(x.s[i])
      BY ONLY ZenonT(60), <2>1 DEF Flowing
    <3>. QED BY ONLY SMTT(60), <1>d, <3>1 DEF Quiet
  <2>3. Coming(x.s[w].out) \subseteq Coming(y.s[w].out)
    <3>1. x.s \in [Prices!Sockets -> Socket(n)]
      BY ONLY <1>a DEF Typed
    <3>2. x.s[w].out \in Seq(Mail(n))
      BY ONLY <1>b, <3>1 DEF Socket
    <3>. PICK q : q = x.s[w].out
      OBVIOUS
    <3>3. Coming(q) \subseteq Coming(Append(q, m))
      BY ONLY <3>2, q = x.s[w].out, n \in Nat, m \in Mail(n), ComingAppend
    <3>. QED BY ONLY <1>0, <1>1, <3>3, q = x.s[w].out
  <2>4. Ready(y) <=> Ready(x)
    BY ONLY <1>b, <1>2, Zenon DEF Ready
  <2>. QED BY ONLY SMTT(60), <1>0, <1>1, <1>2, <2>1, <2>2, <2>3, <2>4 DEF Flowing
<1>. QED BY ONLY <1>1, <1>2, <1>3 DEF Sound

\* A token sent to the open socket.
LEMMA SendAuthSound ==
  ASSUME NEW x, NEW n \in Nat, Sound(x, n), Prices!State(x) = "open", NEW t \in 1..n,
         NEW y, y = Prices!SendAuth(x, t)
  PROVE  Sound(y, n) /\ y.c = x.c /\ y.odd = x.odd
<1>. PICK m : m = [t |-> "auth", syms |-> {}, tok |-> t]
  OBVIOUS
<1>1. m \in Mail(n)
  BY DEF Mail
<1>2. y = Prices!Post(x, m) /\ x.c.ws # 0
  BY DEF Prices!SendAuth, Prices!State
<1>. QED BY <1>1, <1>2, PostSound

\* A token that was awaited is sent to the socket there is now.
LEMMA FreshTokenStream ==
  ASSUME StreamInv, Prices!FreshToken PROVE StreamInv'
<1>. PICK t \in {0, token} :
       LET x == [Prices!Now EXCEPT !.c.fresh = Prices!Now.c.fresh - 1]
       IN  Prices!Becomes(IF t # 0 /\ Prices!State(x) = "open" THEN Prices!SendAuth(x, t) ELSE x)
  BY DEF Prices!FreshToken
<1>. DEFINE x == [Prices!Now EXCEPT !.c.fresh = Prices!Now.c.fresh - 1]
            y == IF t # 0 /\ Prices!State(x) = "open" THEN Prices!SendAuth(x, t) ELSE x
<1>1. /\ issued \in Nat /\ t \in 0..issued /\ Sound(Prices!Now, issued)
      /\ Prices!Becomes(y) /\ UNCHANGED <<token, issued, expired, comp>>
  BY DEF StreamInv, Prices!FreshToken, Prices!session
<1>2. Same(x, Prices!Now)
  <2>1. /\ Prices!Now.c.fresh \in Nat /\ Prices!Now.c.fresh # 0
        /\ \A f \in Nat : Same([Prices!Now EXCEPT !.c.fresh = f], Prices!Now)
    <3>1. Prices!Now.c.fresh > 0
      BY DEF Prices!FreshToken, Prices!Now
    <3>2. /\ Prices!Now.c.fresh \in Nat
          /\ \A f \in Nat : Same([Prices!Now EXCEPT !.c.fresh = f], Prices!Now)
      BY <1>1, FieldsSame DEF Sound
    <3>. QED BY <3>1, <3>2
  <2>2. Prices!Now.c.fresh - 1 \in Nat
    BY SMTT(60), <2>1
  <2>. QED BY <2>1, <2>2
<1>. HIDE DEF x
<1>3. Sound(x, issued)
  BY <1>1, <1>2, SameSound
<1>4. Sound(y, issued) /\ y.c.pending = client.pending /\ y.c.subscribed = client.subscribed /\ y.odd = odd
  <2>1. x.c.pending = client.pending /\ x.c.subscribed = client.subscribed /\ x.odd = odd
    BY <1>2 DEF Same, Prices!Now
  <2>2. CASE t # 0 /\ Prices!State(x) = "open"
    <3>1. y = Prices!SendAuth(x, t) /\ t \in 1..issued
      BY <1>1, <2>2
    <3>. HIDE DEF y
    <3>. QED BY <1>1, <1>3, <2>1, <2>2, <3>1, SendAuthSound
  <2>3. CASE ~(t # 0 /\ Prices!State(x) = "open")
    BY <1>3, <2>1, <2>3
  <2>. QED BY <2>2, <2>3
<1>. HIDE DEF y
<1>. QED BY <1>1, <1>4, StreamKept DEF Covers, Prices!Now

\* The back-off timer.
LEMMA ReconnectStream ==
  ASSUME StreamInv, Prices!Reconnect PROVE StreamInv'
<1>. DEFINE x == Prices!Connect(Prices!Now)
            y == [x EXCEPT !.c.timer = FALSE]
<1>1. /\ issued \in Nat /\ Sound(Prices!Now, issued)
      /\ Prices!Becomes(y) /\ UNCHANGED <<token, issued, expired, comp>>
      /\ Prices!Now.c = client /\ Prices!Now.odd = odd
  BY DEF StreamInv, Prices!Reconnect, Prices!session, Prices!Now
<1>. HIDE DEF x
<1>2. /\ Sound(x, issued) /\ odd \subseteq x.odd
      /\ x.c.pending = client.pending /\ x.c.subscribed = client.subscribed
  BY <1>1, ConnectSound DEF x
<1>3. Same(y, x)
  BY <1>1, <1>2, FieldsSame DEF Sound
<1>. HIDE DEF y
<1>4. Sound(y, issued) /\ odd \subseteq y.odd /\ y.c.pending = client.pending
      /\ y.c.subscribed = client.subscribed
  BY <1>1, <1>2, <1>3, SameSound DEF Same
<1>. QED BY <1>1, <1>4, StreamKept DEF Covers

\* One socket is written, by an event of it or by the gateway.  The client keeps
\* referring to the socket it referred to, or refers to none once that is gone.
Writes(y, x, i) ==
  /\ y = [c |-> y.c, s |-> y.s, odd |-> y.odd] /\ y.odd = x.odd
  /\ y.s = [x.s EXCEPT ![i] = y.s[i]]
  /\ y.c \in Client /\ y.c.made = x.c.made
  /\ \/ y.c.ws = x.c.ws
     \/ y.c.ws = 0 /\ y.s[i].st \notin Alive

\* What writing one socket keeps; a live socket is the client's, undisturbed.
LEMMA SocketWritten ==
  ASSUME NEW x, NEW n \in Nat, Sound(x, n), NEW i \in Prices!Sockets, x.s[i].st \in Alive,
         NEW y, Writes(y, x, i), y.s[i] \in Socket(n)
  PROVE  /\ Typed(y, n) /\ Single(y)
         /\ \A j \in Prices!Sockets \ {i} : y.s[j] = x.s[j]
         /\ x.odd = {} => x.c.ws = i /\ Prices!State(x) = x.s[i].st
<1>. PICK c, k : c = y.c /\ k = y.s[i]
  OBVIOUS
<1>0. Typed(x, n) /\ Single(x) /\ x.s[i].st \in Alive
  BY Zenon DEF Sound
<1>1. /\ x.s \in [Prices!Sockets -> Socket(n)] /\ x.odd \subseteq Prices!Disturbances
      /\ x.c.ws <= x.c.made /\ MaxSockets \in Nat /\ x.c \in Client
      /\ \A j \in Prices!Sockets : j > x.c.made => x.s[j] = Prices!NewSocket
  BY ONLY <1>0 DEF Typed
<1>2. x.c.made \in Nat /\ x.c.ws \in Nat /\ i \in Nat /\ i # 0 /\ ~(i > x.c.made)
  <2>1. x.c.made \in Nat /\ x.c.ws \in Nat
    BY ONLY <1>1 DEF Client
  <2>2. i \in Nat /\ i # 0
    BY ONLY i \in Prices!Sockets DEF Prices!Sockets
  <2>3. x.s[i].st # "none"
    BY ONLY <1>0 DEF Alive
  <2>4. ~(i > x.c.made)
    BY ONLY <1>1, <2>3, i \in Prices!Sockets DEF Prices!NewSocket
  <2>. QED BY ONLY <2>1, <2>2, <2>4
<1>3. /\ y.c = c /\ c \in Client /\ c.made = x.c.made /\ y.odd = x.odd
      /\ y.s = [x.s EXCEPT ![i] = k] /\ k \in Socket(n)
      /\ y = [c |-> y.c, s |-> y.s, odd |-> y.odd]
      /\ c.ws = x.c.ws \/ (c.ws = 0 /\ k.st \notin Alive)
  BY DEF Writes
<1>4. /\ y.s \in [Prices!Sockets -> Socket(n)] /\ y.s[i] = k
      /\ \A j \in Prices!Sockets \ {i} : y.s[j] = x.s[j]
  BY <1>1, <1>3
<1>5. Typed(y, n)
  <2>1. c.ws <= c.made
    BY <1>1, <1>2, <1>3
  <2>2. \A j \in Prices!Sockets : j > c.made => j \in Prices!Sockets \ {i}
    BY <1>2, <1>3
  <2>. QED BY <1>1, <1>3, <1>4, <2>1, <2>2 DEF Typed
<1>6. Single(y)
  <2>. SUFFICES ASSUME "orphan" \notin y.odd, NEW j \in Prices!Sockets, y.s[j].st \in Alive PROVE j = c.ws
    BY <1>3 DEF Single
  <2>1. i = x.c.ws
    BY ONLY <1>0, <1>3, "orphan" \notin y.odd, i \in Prices!Sockets DEF Single
  <2>2. j # i => j = x.c.ws
    BY ONLY <1>0, <1>3, <1>4, "orphan" \notin y.odd, j \in Prices!Sockets, y.s[j].st \in Alive DEF Single
  <2>3. c.ws = x.c.ws \/ k.st \notin Alive
    BY ONLY <1>3
  <2>4. j = i => y.s[j] = k
    BY ONLY <1>4
  <2>. QED BY <2>1, <2>2, <2>3, <2>4
<1>7. x.odd = {} => x.c.ws = i /\ Prices!State(x) = x.s[i].st
  <2>1. x.odd = {} => x.c.ws = i
    BY ONLY <1>0, i \in Prices!Sockets DEF Single
  <2>2. x.c.ws = i => Prices!State(x) = x.s[i].st
    BY ONLY <1>2 DEF Prices!State
  <2>. QED BY ONLY <2>1, <2>2
<1>. QED BY <1>4, <1>5, <1>6, <1>7

\* onopen: the client is not authenticated, and everything it wants waits.
LEMMA OpensStream ==
  ASSUME StreamInv, NEW i \in Prices!Sockets, Prices!Opens(i) PROVE StreamInv'
<1>. DEFINE x == Prices!Now
            c == [client EXCEPT !.authenticated = FALSE, !.fresh = client.fresh + 1]
            k == [sock[i] EXCEPT !.st = "open"]
            y == [c |-> c, s |-> [sock EXCEPT ![i] = k], odd |-> odd]
<1>1. /\ issued \in Nat /\ Sound(x, issued)
      /\ UNCHANGED <<token, issued, expired, comp>>
      /\ x.c = client /\ x.s = sock /\ x.odd = odd /\ sock[i].st = "connecting"
  BY DEF StreamInv, Prices!Opens, Prices!session, Prices!Now
<1>2. sock \in [Prices!Sockets -> Socket(issued)] /\ client \in Client
  BY <1>1 DEF Sound, Typed
<1>3. /\ c \in Client /\ c.made = client.made /\ c.ws = client.ws /\ ~c.authenticated
      /\ c.pending = client.pending /\ c.subscribed = client.subscribed
  <2>. PICK f : f = client.fresh + 1
    OBVIOUS
  <2>1. f \in Nat
    BY <1>2 DEF Client
  <2>2. c = [client EXCEPT !.authenticated = FALSE, !.fresh = f]
    OBVIOUS
  <2>. HIDE DEF c
  <2>. QED BY <1>2, <2>1, <2>2 DEF Client
<1>4. k \in Socket(issued) /\ k.st = "open" /\ k.inn = sock[i].inn /\ k.authed = sock[i].authed
  <2>1. sock[i] \in Socket(issued)
    BY <1>2
  <2>. QED BY <2>1 DEF Socket, Alive
<1>5. Prices!Becomes(y)
  <2>1. client' = c /\ odd' = odd /\ sock' = [sock EXCEPT ![i] = k]
    BY DEF Prices!Opens
  <2>. QED BY <2>1 DEF Prices!Becomes
<1>. HIDE DEF x, c, k, y
<1>6. /\ Typed(y, issued) /\ Single(y) /\ y.c = c /\ y.odd = odd
      /\ y.s[i] = k /\ \A j \in Prices!Sockets \ {i} : y.s[j] = sock[j]
      /\ odd = {} => client.ws = i /\ Prices!State(x) = "connecting"
  <2>1. y.c = c /\ y.s = [sock EXCEPT ![i] = k] /\ y.odd = odd /\ y = [c |-> y.c, s |-> y.s, odd |-> y.odd]
    BY DEF y
  <2>2. y.s[i] = k
    BY <1>2, <2>1
  <2>3. Writes(y, x, i)
    BY <1>1, <1>3, <1>4, <2>1, <2>2 DEF Writes, Alive
  <2>4. /\ Typed(y, issued) /\ Single(y)
        /\ \A j \in Prices!Sockets \ {i} : y.s[j] = x.s[j]
        /\ x.odd = {} => x.c.ws = i /\ Prices!State(x) = x.s[i].st
    <3>1. y.s[i] \in Socket(issued) /\ x.s[i].st \in Alive
      BY <1>1, <1>4, <2>2 DEF Alive
    <3>. QED BY <1>1, <2>3, <3>1, SocketWritten
  <2>. QED BY <1>1, <2>1, <2>2, <2>4
<1>7. ASSUME odd = {} PROVE Flowing(y)
  <2>1. /\ client.ws = i /\ ~Ready(x) /\ Prices!State(x) # "closing" /\ Flowing(x)
    BY <1>1, <1>6, <1>7 DEF Ready, Sound
  <2>2. Prices!State(y) = "open" /\ ~Ready(y)
    BY <1>3, <1>4, <1>6, <2>1 DEF Prices!State, Prices!Sockets, Ready
  <2>3. \A j \in Prices!Sockets : Quiet(y.s[j])
    BY <1>1, <1>4, <1>6, <2>1 DEF Flowing, Quiet
  <2>. QED BY <1>1, <1>3, <1>6, <2>1, <2>2, <2>3 DEF Flowing, Alive
<1>8. Sound(y, issued) /\ odd \subseteq y.odd /\ \A S : Covers(Prices!Now, S) => Covers(y, S)
  BY <1>1, <1>3, <1>6, <1>7 DEF Sound, Covers, x
<1>. QED BY <1>1, <1>5, <1>8, StreamKept

\* onclose: what was subscribed waits for the next socket.
LEMMA ClosesStream ==
  ASSUME StreamInv, NEW i \in Prices!Sockets, sock[i].st \in Alive, Prices!Closes(i) PROVE StreamInv'
<1>. DEFINE x == Prices!Now
            c == [client EXCEPT !.ws = 0, !.authenticated = FALSE,
                                !.pending = client.pending \cup client.subscribed,
                                !.timer = client.timer \/ ~client.paused]
            k == [Prices!NewSocket EXCEPT !.st = "closed"]
            y == [c |-> c, s |-> [sock EXCEPT ![i] = k], odd |-> odd]
<1>1. /\ issued \in Nat /\ Sound(x, issued)
      /\ UNCHANGED <<token, issued, expired, comp>>
      /\ x.c = client /\ x.s = sock /\ x.odd = odd
  BY DEF StreamInv, Prices!Closes, Prices!session, Prices!Now
<1>2. sock \in [Prices!Sockets -> Socket(issued)] /\ client \in Client
  BY <1>1 DEF Sound, Typed
<1>3. /\ c \in Client /\ c.made = client.made /\ c.ws = 0 /\ ~c.authenticated
      /\ c.pending = client.pending \cup client.subscribed /\ c.subscribed = client.subscribed
  <2>. PICK b, P : b = (client.timer \/ ~client.paused) /\ P = client.pending \cup client.subscribed
    OBVIOUS
  <2>1. b \in BOOLEAN /\ P \in SUBSET Symbols
    BY <1>2 DEF Client
  <2>2. c = [client EXCEPT !.ws = 0, !.authenticated = FALSE, !.pending = P, !.timer = b]
    OBVIOUS
  <2>. HIDE DEF c
  <2>. QED BY <1>2, <2>1, <2>2 DEF Client
<1>4. k \in Socket(issued) /\ k.st = "closed" /\ k.inn = <<>>
  <2>. PICK b : b = Prices!NewSocket
    OBVIOUS
  <2>0. b = [st |-> "none", out |-> <<>>, inn |-> <<>>, authed |-> 0, subs |-> {}]
    BY DEF Prices!NewSocket
  <2>1. k = [b EXCEPT !.st = "closed"]
    OBVIOUS
  <2>2. <<>> \in Seq(Mail(issued)) /\ <<>> \in Seq(Replies) /\ 0 \in 0..issued
    BY <1>1
  <2>. HIDE DEF k, Mail, Replies
  <2>3. b \in Socket(issued) /\ b.inn = <<>>
    BY <2>0, <2>2 DEF Socket
  <2>. QED BY <2>1, <2>3 DEF Socket
<1>5. Prices!Becomes(y)
  <2>1. client' = c /\ odd' = odd /\ sock' = [sock EXCEPT ![i] = k]
    BY DEF Prices!Closes
  <2>. QED BY <2>1 DEF Prices!Becomes
<1>. HIDE DEF x, c, k, y
<1>6. /\ Typed(y, issued) /\ Single(y) /\ y.c = c /\ y.odd = odd
      /\ y.s[i] = k /\ \A j \in Prices!Sockets \ {i} : y.s[j] = sock[j]
  <2>1. y.c = c /\ y.s = [sock EXCEPT ![i] = k] /\ y.odd = odd /\ y = [c |-> y.c, s |-> y.s, odd |-> y.odd]
    BY DEF y
  <2>2. y.s[i] = k
    BY <1>2, <2>1
  <2>3. Writes(y, x, i)
    BY <1>1, <1>3, <1>4, <2>1, <2>2 DEF Writes, Alive
  <2>4. /\ Typed(y, issued) /\ Single(y)
        /\ \A j \in Prices!Sockets \ {i} : y.s[j] = x.s[j]
        /\ x.odd = {} => x.c.ws = i /\ Prices!State(x) = x.s[i].st
    <3>1. y.s[i] \in Socket(issued) /\ x.s[i].st \in Alive
      BY <1>1, <1>4, <2>2 DEF Alive
    <3>. QED BY <1>1, <2>3, <3>1, SocketWritten
  <2>. QED BY <1>1, <2>1, <2>2, <2>4
<1>7. ASSUME odd = {} PROVE Flowing(y)
  <2>1. Flowing(x)
    BY <1>1, <1>7 DEF Sound
  <2>2. Prices!State(y) = "none" /\ ~Ready(y)
    BY <1>3, <1>6 DEF Prices!State, Ready
  <2>3. Quiet(k)
    BY <1>4 DEF Quiet
  <2>4. \A j \in Prices!Sockets : Quiet(y.s[j])
    BY <1>1, <1>6, <2>1, <2>3 DEF Flowing
  <2>. QED BY <1>3, <1>6, <2>2, <2>4 DEF Flowing
<1>8. Sound(y, issued) /\ odd \subseteq y.odd /\ \A S : Covers(Prices!Now, S) => Covers(y, S)
  BY <1>1, <1>3, <1>6, <1>7 DEF Sound, Covers, x
<1>. QED BY <1>1, <1>5, <1>8, StreamKept

\* A reply at the end of a queue.
LEMMA ReplyAppended ==
  ASSUME NEW r \in Seq(Replies), NEW v \in Replies, NEW e, e = Append(r, v)
  PROVE  /\ e \in Seq(Replies) /\ Len(e) = Len(r) + 1 /\ Len(e) \in Nat /\ e[Len(e)] = v
         /\ \A j \in 1..Len(e) : j = Len(e) \/ (j \in 1..Len(r) /\ e[j] = r[j])
<1>. HIDE DEF Replies
<1>1. e \in Seq(Replies) /\ Len(e) = Len(r) + 1 /\ Len(r) \in Nat
  OBVIOUS
<1>2. e[Len(r) + 1] = v /\ \A j \in 1..Len(r) : e[j] = r[j]
  OBVIOUS
<1>3. \A j \in 1..Len(e) : j = Len(e) \/ j \in 1..Len(r)
  BY <1>1
<1>. QED BY <1>1, <1>2, <1>3

\* The gateway handles one message.  It answers with auth_success once, as the
\* last thing it says; a subscription that leaves the queue it has recorded.
LEMMA GatewayStream ==
  ASSUME StreamInv, NEW i \in Prices!Sockets, Prices!Gateway(i) PROVE StreamInv'
<1>. PICK m, q : m = Head(sock[i].out) /\ q = Tail(sock[i].out)
  OBVIOUS
<1>. DEFINE x == Prices!Now
            done == [sock[i] EXCEPT !.out = q]
            k == sock'[i]
            y == [c |-> client, s |-> [sock EXCEPT ![i] = k], odd |-> odd]
<1>1. /\ issued \in Nat /\ Sound(x, issued)
      /\ UNCHANGED <<token, issued, expired, comp>>
      /\ x.c = client /\ x.s = sock /\ x.odd = odd /\ sock[i].st = "open"
  BY DEF StreamInv, Prices!Gateway, Prices!session, Prices!Now
<1>2. sock \in [Prices!Sockets -> Socket(issued)] /\ client \in Client /\ sock[i] \in Socket(issued)
  BY <1>1 DEF Sound, Typed
<1>3. /\ m \in Mail(issued) /\ q \in Seq(Mail(issued)) /\ sock[i].out # <<>>
      /\ Coming(sock[i].out) \subseteq Coming(q) \cup (IF m.t = "subscribe" THEN m.syms ELSE {})
  <2>. PICK r : r = sock[i].out
    OBVIOUS
  <2>1. r \in Seq(Mail(issued)) /\ r # <<>> /\ m = Head(r) /\ q = Tail(r)
    BY <1>2 DEF Socket, Prices!Gateway
  <2>2. Coming(r) \subseteq Coming(q) \cup (IF m.t = "subscribe" THEN m.syms ELSE {})
    BY <2>1, ComingTail
  <2>3. m \in Mail(issued) /\ q \in Seq(Mail(issued))
    BY <2>1
  <2>. QED BY <2>1, <2>2, <2>3
<1>4. /\ done \in Socket(issued) /\ done.st = "open" /\ done.out = q /\ done.inn = sock[i].inn
      /\ done.authed = sock[i].authed /\ done.subs = sock[i].subs
  <2>. HIDE DEF done
  <2>1. done = [sock[i] EXCEPT !.out = q]
    BY DEF done
  <2>. HIDE DEF Mail
  <2>. QED BY <1>1, <1>2, <1>3, <2>1 DEF Socket
<1>5. /\ sock' = [sock EXCEPT ![i] = k]
      /\ \/ m.t = "auth" /\ done.authed # 0 /\ k = done
         \/ m.t = "auth" /\ done.authed = 0 /\ k = [done EXCEPT !.inn = Append(done.inn, "auth_error")]
         \/ m.t = "auth" /\ done.authed = 0
            /\ k = [done EXCEPT !.authed = m.tok, !.inn = Append(done.inn, "auth_success")]
         \/ m.t = "subscribe" /\ done.authed # 0 /\ k = [done EXCEPT !.subs = done.subs \cup m.syms]
         \/ m.t = "subscribe" /\ done.authed = 0 /\ k = done
  <2>. DEFINE e == CASE m.t = "auth" /\ done.authed = 0 /\ m.tok \in expired ->
                          [done EXCEPT !.inn = Append(done.inn, "auth_error")]
                     [] m.t = "auth" /\ done.authed = 0 /\ m.tok \notin expired ->
                          [done EXCEPT !.authed = m.tok, !.inn = Append(done.inn, "auth_success")]
                     [] m.t = "subscribe" /\ done.authed # 0 ->
                          [done EXCEPT !.subs = done.subs \cup m.syms]
                     [] OTHER -> done
  <2>0. sock' = [sock EXCEPT ![i] = e]
    BY DEF Prices!Gateway
  <2>1. k = e
    BY <1>2, <2>0
  <2>2. m.t \in {"auth", "subscribe"}
    BY <1>3 DEF Mail
  <2>. HIDE DEF done
  <2>3. m.t = "auth" /\ done.authed = 0 /\ m.tok \in expired
          => e = [done EXCEPT !.inn = Append(done.inn, "auth_error")]
    OBVIOUS
  <2>4. m.t = "auth" /\ done.authed = 0 /\ m.tok \notin expired
          => e = [done EXCEPT !.authed = m.tok, !.inn = Append(done.inn, "auth_success")]
    OBVIOUS
  <2>5. m.t = "auth" /\ done.authed # 0 => e = done
    OBVIOUS
  <2>6. m.t = "subscribe" =>
          e = IF done.authed # 0 THEN [done EXCEPT !.subs = done.subs \cup m.syms] ELSE done
    OBVIOUS
  <2>. HIDE DEF e, k
  <2>. QED BY <2>0, <2>1, <2>2, <2>3, <2>4, <2>5, <2>6
<1>. HIDE DEF done, k
<1>6. /\ k \in Socket(issued) /\ k.st = "open" /\ k.out = q
      /\ done.authed # 0 => k.authed # 0 /\ k.inn = done.inn
            /\ k.subs = IF m.t = "subscribe" THEN done.subs \cup m.syms ELSE done.subs
      /\ Quiet(done) => Quiet(k)
  <2>1. /\ m.t = "auth" => m.tok \in 1..issued
        /\ m.t = "subscribe" => m.syms \in SUBSET Symbols
    BY <1>3 DEF Mail
  <2>2. done.inn \in Seq(Replies)
    BY <1>4 DEF Socket
  <2>. HIDE DEF Mail
  <2>3. CASE m.t = "auth" /\ done.authed # 0 /\ k = done
    BY <1>4, <2>3
  <2>4. CASE m.t = "auth" /\ done.authed = 0 /\ k = [done EXCEPT !.inn = Append(done.inn, "auth_error")]
    <3>. PICK e : e = Append(done.inn, "auth_error")
      OBVIOUS
    <3>1. /\ e \in Seq(Replies) /\ Len(e) = Len(done.inn) + 1 /\ e[Len(e)] = "auth_error"
          /\ \A j \in 1..Len(e) : j = Len(e) \/ (j \in 1..Len(done.inn) /\ e[j] = done.inn[j])
      BY <2>2, ReplyAppended DEF Replies
    <3>2. k = [done EXCEPT !.inn = e]
      BY <2>4
    <3>3. k \in Socket(issued) /\ k.st = done.st /\ k.out = done.out /\ k.inn = e /\ k.authed = done.authed
      BY <1>4, <3>1, <3>2 DEF Socket
    <3>4. Quiet(done) => Quiet(k)
      BY <2>4, <3>1, <3>3 DEF Quiet
    <3>. QED BY <1>4, <2>4, <3>3, <3>4
  <2>5. CASE m.t = "auth" /\ done.authed = 0
             /\ k = [done EXCEPT !.authed = m.tok, !.inn = Append(done.inn, "auth_success")]
    <3>. PICK e : e = Append(done.inn, "auth_success")
      OBVIOUS
    <3>1. /\ e \in Seq(Replies) /\ Len(e) = Len(done.inn) + 1 /\ e[Len(e)] = "auth_success"
          /\ \A j \in 1..Len(e) : j = Len(e) \/ (j \in 1..Len(done.inn) /\ e[j] = done.inn[j])
      BY <2>2, ReplyAppended DEF Replies
    <3>2. k = [done EXCEPT !.authed = m.tok, !.inn = e]
      BY <2>5
    <3>3. k \in Socket(issued) /\ k.st = done.st /\ k.out = done.out /\ k.inn = e /\ k.authed = m.tok
      <4>. PICK t : t = m.tok
        OBVIOUS
      <4>1. t \in 0..issued /\ k = [done EXCEPT !.authed = t, !.inn = e]
        BY SMTT(60), <1>1, <2>1, <2>5, <3>2
      <4>. QED BY ONLY <1>4, <3>1, <4>1, t = m.tok DEF Socket
    <3>4. Quiet(done) => Quiet(k)
      BY <1>1, <2>1, <2>5, <3>1, <3>3 DEF Quiet
    <3>. QED BY <1>4, <2>5, <3>3, <3>4
  <2>6. CASE m.t = "subscribe" /\ done.authed # 0 /\ k = [done EXCEPT !.subs = done.subs \cup m.syms]
    <3>1. /\ k \in Socket(issued) /\ k.st = done.st /\ k.out = done.out /\ k.inn = done.inn
          /\ k.authed = done.authed /\ k.subs = done.subs \cup m.syms
      BY <1>4, <2>1, <2>6 DEF Socket
    <3>2. Quiet(done) => Quiet(k)
      BY <3>1 DEF Quiet
    <3>. QED BY <1>4, <2>6, <3>1, <3>2
  <2>7. CASE m.t = "subscribe" /\ done.authed = 0 /\ k = done
    BY <1>4, <2>7
  <2>. QED BY <1>5, <2>3, <2>4, <2>5, <2>6, <2>7
<1>7. Prices!Becomes(y)
  <2>1. UNCHANGED <<client, odd>>
    BY DEF Prices!Gateway
  <2>. QED BY <1>5, <2>1 DEF Prices!Becomes
<1>. HIDE DEF x, y
<1>8. /\ Typed(y, issued) /\ Single(y) /\ y.c = client /\ y.odd = odd
      /\ y.s[i] = k /\ \A j \in Prices!Sockets \ {i} : y.s[j] = sock[j]
      /\ odd = {} => client.ws = i /\ Prices!State(x) = "open"
  <2>1. /\ y.c = client /\ y.s = [sock EXCEPT ![i] = k] /\ y.odd = odd
        /\ y = [c |-> y.c, s |-> y.s, odd |-> y.odd]
    BY DEF y
  <2>2. y.s[i] = k
    BY <1>2, <2>1
  <2>3. Writes(y, x, i)
    BY <1>1, <1>2, <1>6, <2>1, <2>2 DEF Writes, Alive
  <2>4. /\ Typed(y, issued) /\ Single(y)
        /\ \A j \in Prices!Sockets \ {i} : y.s[j] = x.s[j]
        /\ x.odd = {} => x.c.ws = i /\ Prices!State(x) = x.s[i].st
    <3>1. y.s[i] \in Socket(issued) /\ x.s[i].st \in Alive
      BY <1>1, <1>6, <2>2 DEF Alive
    <3>. QED BY <1>1, <2>3, <3>1, SocketWritten
  <2>. QED BY <1>1, <2>1, <2>2, <2>4
<1>9. ASSUME odd = {} PROVE Flowing(y)
  <2>1. client.ws = i /\ Prices!State(x) = "open" /\ Flowing(x)
    BY <1>1, <1>8, <1>9 DEF Sound
  <2>2. Prices!State(y) = "open" /\ (Ready(y) <=> Ready(x))
    BY <1>1, <1>6, <1>8, <2>1 DEF Prices!State, Prices!Sockets, Ready
  <2>3. \A j \in Prices!Sockets : Quiet(y.s[j])
    <3>1. Quiet(done)
      BY <1>1, <1>4, <2>1 DEF Flowing, Quiet
    <3>. QED BY <1>1, <1>6, <1>8, <2>1, <3>1 DEF Flowing
  <2>4. ASSUME Ready(x)
        PROVE  /\ client.pending = {} /\ client.subscribed \subseteq k.subs \cup Coming(k.out)
               /\ k.authed # 0 /\ k.inn = <<>>
    <3>1. /\ client.pending = {} /\ client.subscribed \subseteq sock[i].subs \cup Coming(sock[i].out)
          /\ sock[i].authed # 0 /\ sock[i].inn = <<>>
      BY <1>1, <2>1, <2>4 DEF Flowing
    <3>. QED BY <1>3, <1>4, <1>6, <3>1
  <2>. QED BY <1>1, <1>8, <2>1, <2>2, <2>3, <2>4 DEF Flowing, Alive
<1>10. Sound(y, issued) /\ odd \subseteq y.odd /\ \A S : Covers(Prices!Now, S) => Covers(y, S)
  BY <1>1, <1>8, <1>9 DEF Sound, Covers, x
<1>. QED BY <1>1, <1>7, <1>10, StreamKept

\* The socket i has received a message: what is left is the same socket but for
\* the message.
LEMMA Received ==
  ASSUME StreamInv, NEW i \in Prices!Sockets, Prices!Message(i),
         NEW k, k = [sock[i] EXCEPT !.inn = Tail(sock[i].inn)]
  PROVE  /\ k \in Socket(issued) /\ k.st = "open" /\ k.out = sock[i].out /\ k.authed = sock[i].authed
         /\ k.subs = sock[i].subs /\ k.inn = Tail(sock[i].inn)
         /\ Quiet(sock[i]) => Quiet(k)
         /\ Quiet(sock[i]) /\ Head(sock[i].inn) = "auth_success" => k.inn = <<>> /\ k.authed # 0
<1>. PICK q, r : q = sock[i].inn /\ r = Tail(q)
  OBVIOUS
<1>1. sock[i] \in Socket(issued) /\ sock[i].st = "open" /\ q # <<>> /\ q \in Seq(Replies)
  <2>1. Typed(Prices!Now, issued)
    BY DEF StreamInv, Sound
  <2>2. sock[i] \in Socket(issued)
    BY <2>1 DEF Typed, Prices!Now
  <2>. QED BY <2>2 DEF Prices!Message, Socket
<1>2. /\ r \in Seq(Replies) /\ Len(r) \in Nat /\ Len(q) = Len(r) + 1 /\ q[1] = Head(q)
      /\ \A j \in 1..Len(r) : r[j] = q[j + 1]
  <2>. HIDE DEF Replies
  <2>. QED BY <1>1
<1>3. /\ k \in Socket(issued) /\ k.st = "open" /\ k.out = sock[i].out /\ k.authed = sock[i].authed
      /\ k.subs = sock[i].subs /\ k.inn = r
  <2>1. k = [sock[i] EXCEPT !.inn = r]
    OBVIOUS
  <2>. HIDE DEF Replies
  <2>. QED BY <1>1, <1>2, <2>1 DEF Socket
<1>4. ASSUME Quiet(sock[i]) PROVE Quiet(k)
  <2>. SUFFICES ASSUME NEW j \in 1..Len(r), r[j] = "auth_success" PROVE j = Len(r) /\ k.authed # 0
    BY <1>3 DEF Quiet
  <2>1. j + 1 \in 1..Len(q) /\ q[j + 1] = "auth_success"
    BY SMTT(60), <1>2
  <2>. QED BY <1>2, <1>3, <1>4, <2>1 DEF Quiet
<1>5. ASSUME Quiet(sock[i]), Head(sock[i].inn) = "auth_success" PROVE r = <<>> /\ k.authed # 0
  <2>1. 1 \in 1..Len(q) /\ q[1] = "auth_success"
    BY <1>2, <1>5
  <2>2. 1 = Len(q) /\ sock[i].authed # 0
    BY <1>5, <2>1 DEF Quiet
  <2>3. r \in Seq(Replies) /\ Len(r) \in Nat /\ Len(q) = Len(r) + 1
    BY ONLY <1>2
  <2>4. Len(r) = 0
    BY ONLY <2>2, <2>3
  <2>5. r = <<>>
    BY ONLY <2>3, <2>4
  <2>6. k.authed # 0
    BY ONLY <1>3, <2>2
  <2>. QED BY ONLY <2>5, <2>6
<1>. QED BY <1>3, <1>4, <1>5

\* auth_error: the client was not authenticated, so everything it wants waits.
LEMMA AuthErrorStream ==
  ASSUME StreamInv, NEW i \in Prices!Sockets, Prices!Message(i), Prices!AuthError(i) PROVE StreamInv'
<1>. DEFINE x == Prices!Now
            c == [client EXCEPT !.authenticated = FALSE, !.retry = client.retry + 1]
            k == [sock[i] EXCEPT !.inn = Tail(sock[i].inn)]
            y == [c |-> c, s |-> [sock EXCEPT ![i] = k], odd |-> odd]
<1>1. /\ issued \in Nat /\ Sound(x, issued)
      /\ UNCHANGED <<token, issued, expired, comp>>
      /\ x.c = client /\ x.s = sock /\ x.odd = odd /\ sock[i].st = "open"
      /\ sock[i].inn # <<>>
  BY DEF StreamInv, Prices!Message, Prices!session, Prices!Now
<1>2. sock \in [Prices!Sockets -> Socket(issued)] /\ client \in Client
  BY <1>1 DEF Sound, Typed
<1>3. /\ c \in Client /\ c.made = client.made /\ c.ws = client.ws /\ ~c.authenticated
      /\ c.pending = client.pending /\ c.subscribed = client.subscribed
  <2>. PICK f : f = client.retry + 1
    OBVIOUS
  <2>1. f \in Nat
    BY <1>2 DEF Client
  <2>2. c = [client EXCEPT !.authenticated = FALSE, !.retry = f]
    OBVIOUS
  <2>. HIDE DEF c
  <2>. QED BY <1>2, <2>1, <2>2 DEF Client
<1>4. Prices!Becomes(y)
  BY DEF Prices!AuthError, Prices!Now, Prices!Becomes
<1>5. k \in Socket(issued) /\ k.st = "open" /\ (Quiet(sock[i]) => Quiet(k))
  <2>. HIDE DEF k
  <2>. QED BY Received DEF k
<1>. HIDE DEF x, c, k, y
<1>6. /\ Typed(y, issued) /\ Single(y) /\ y.c = c /\ y.odd = odd
      /\ y.s[i] = k /\ \A j \in Prices!Sockets \ {i} : y.s[j] = sock[j]
      /\ odd = {} => client.ws = i /\ Prices!State(x) = "open"
  <2>1. y.c = c /\ y.s = [sock EXCEPT ![i] = k] /\ y.odd = odd /\ y = [c |-> y.c, s |-> y.s, odd |-> y.odd]
    BY DEF y
  <2>2. y.s[i] = k
    BY <1>2, <2>1
  <2>3. Writes(y, x, i)
    BY <1>1, <1>3, <2>1, <2>2 DEF Writes, Alive
  <2>4. /\ Typed(y, issued) /\ Single(y)
        /\ \A j \in Prices!Sockets \ {i} : y.s[j] = x.s[j]
        /\ x.odd = {} => x.c.ws = i /\ Prices!State(x) = x.s[i].st
    <3>1. y.s[i] \in Socket(issued) /\ x.s[i].st \in Alive
      BY <1>1, <1>5, <2>2 DEF Alive
    <3>. QED BY <1>1, <2>3, <3>1, SocketWritten
  <2>. QED BY <1>1, <2>1, <2>2, <2>4
<1>7. ASSUME odd = {} PROVE Flowing(y)
  <2>1. client.ws = i /\ Prices!State(x) = "open" /\ Flowing(x)
    BY <1>1, <1>6, <1>7 DEF Sound
  <2>2. client.subscribed \subseteq client.pending
    BY <1>1, <2>1 DEF Flowing
  <2>3. Prices!State(y) = "open" /\ ~Ready(y)
    BY <1>3, <1>5, <1>6, <2>1 DEF Prices!State, Prices!Sockets, Ready
  <2>4. \A j \in Prices!Sockets : Quiet(y.s[j])
    BY <1>1, <1>5, <1>6, <2>1 DEF Flowing
  <2>. QED BY <1>3, <1>6, <2>2, <2>3, <2>4 DEF Flowing, Alive
<1>8. Sound(y, issued) /\ odd \subseteq y.odd /\ \A S : Covers(Prices!Now, S) => Covers(y, S)
  BY <1>1, <1>3, <1>6, <1>7 DEF Sound, Covers, x
<1>. QED BY <1>1, <1>4, <1>8, StreamKept

\* ... and with the subscribed symbols of the client written.
LEMMA SubscribedWritten ==
  ASSUME NEW c, NEW s, NEW o, NEW a, a = [c |-> c, s |-> s, odd |-> o], NEW Q,
         NEW d, d = [c EXCEPT !.subscribed = Q]
  PROVE  [a EXCEPT !.c.subscribed = Q] = [c |-> d, s |-> s, odd |-> o]
<1>1. a = [c |-> a.c, s |-> a.s, odd |-> a.odd] /\ a.c = c /\ a.s = s /\ a.odd = o
  OBVIOUS
<1>2. [a EXCEPT !.c.subscribed = Q] = [a EXCEPT !.c = [a.c EXCEPT !.subscribed = Q]]
  OBVIOUS
<1>3. [a.c EXCEPT !.subscribed = Q] = d
  BY <1>1
<1>4. [a EXCEPT !.c = d] = [c |-> d, s |-> a.s, odd |-> a.odd]
  BY ONLY <1>1, RecordWritten
<1>. QED BY ONLY <1>1, <1>2, <1>3, <1>4

\* What waits is flushed: the client is authenticated, asks for what was pending
\* and takes it for subscribed.
LEMMA AuthSuccessStream ==
  ASSUME StreamInv, NEW i \in Prices!Sockets, Prices!Message(i), Prices!AuthSuccess(i),
         Head(sock[i].inn) = "auth_success"
  PROVE  StreamInv'
<1>. DEFINE x == Prices!Now
            c == [client EXCEPT !.authenticated = TRUE]
            k == [sock[i] EXCEPT !.inn = Tail(sock[i].inn)]
            z == [Prices!Now EXCEPT !.c.authenticated = TRUE, !.s[i].inn = Tail(Prices!Now.s[i].inn)]
            d == [c EXCEPT !.pending = {}]
            u == [z EXCEPT !.c.pending = {}]
            y == Prices!SendSubscribe(u, client.pending)
<1>1. /\ issued \in Nat /\ Sound(x, issued)
      /\ UNCHANGED <<token, issued, expired, comp>>
      /\ x.c = client /\ x.s = sock /\ x.odd = odd /\ sock[i].st = "open"
      /\ sock[i].inn # <<>>
  BY DEF StreamInv, Prices!Message, Prices!session, Prices!Now
<1>2. sock \in [Prices!Sockets -> Socket(issued)] /\ client \in Client
  BY <1>1 DEF Sound, Typed
<1>3. /\ c \in Client /\ c.made = client.made /\ c.ws = client.ws /\ c.authenticated
      /\ c.pending = client.pending /\ c.subscribed = client.subscribed
  BY <1>2 DEF Client
<1>4. /\ d \in Client /\ d.made = client.made /\ d.ws = client.ws /\ d.authenticated
      /\ d.pending = {} /\ d.subscribed = client.subscribed
  <2>. HIDE DEF c
  <2>. QED BY <1>3 DEF Client
<1>5. Prices!Becomes(IF client.pending = {} THEN z ELSE y)
  <2>1. z.c.pending = client.pending
    BY <1>3 DEF Prices!Now
  <2>. HIDE DEF z, u
  <2>. QED BY <2>1 DEF Prices!AuthSuccess, z, u
<1>6. /\ k \in Socket(issued) /\ k.st = "open" /\ (Quiet(sock[i]) => Quiet(k))
      /\ Quiet(sock[i]) => k.inn = <<>> /\ k.authed # 0
  <2>. HIDE DEF k
  <2>. QED BY Received DEF k
<1>. HIDE DEF y
<1>7. /\ z.c = c /\ z.s = [sock EXCEPT ![i] = k] /\ z.odd = odd /\ z = [c |-> z.c, s |-> z.s, odd |-> z.odd]
      /\ u.c = d /\ u.s = [sock EXCEPT ![i] = k] /\ u.odd = odd /\ u = [c |-> u.c, s |-> u.s, odd |-> u.odd]
      /\ z.s[i] = k /\ u.s[i] = k
  <2>1. z.c = c /\ z.s = [sock EXCEPT ![i] = k] /\ z.odd = odd /\ z = [c |-> z.c, s |-> z.s, odd |-> z.odd]
    <3>. PICK e, q : e = [Prices!Now EXCEPT !.c.authenticated = TRUE] /\ q = Tail(Prices!Now.s[i].inn)
      OBVIOUS
    <3>1. e.c = c /\ e.s = sock /\ e.odd = odd /\ e = [c |-> e.c, s |-> e.s, odd |-> e.odd]
      BY DEF Prices!Now
    <3>2. z = [e EXCEPT !.s[i].inn = q] /\ q = Tail(sock[i].inn)
      BY <1>1
    <3>3. k = [sock[i] EXCEPT !.inn = q]
      BY <3>2
    <3>. HIDE DEF z, c, k, x
    <3>4. z = [e EXCEPT !.s = [e.s EXCEPT ![i] = [e.s[i] EXCEPT !.inn = q]]]
      BY <3>2
    <3>5. [e.s EXCEPT ![i] = [e.s[i] EXCEPT !.inn = q]] = [sock EXCEPT ![i] = k]
      BY <3>1, <3>3
    <3>. PICK t : t = [sock EXCEPT ![i] = k]
      OBVIOUS
    <3>6. [e EXCEPT !.s = t] = [c |-> e.c, s |-> t, odd |-> e.odd]
      BY ONLY <3>1, RecordWritten
    <3>7. z = [c |-> e.c, s |-> t, odd |-> e.odd] /\ t = [sock EXCEPT ![i] = k]
      BY <3>4, <3>5, <3>6
    <3>. QED BY ONLY <3>1, <3>7
  <2>. HIDE DEF z, c, k
  <2>2. u.c = d /\ u.s = z.s /\ u.odd = odd /\ u = [c |-> u.c, s |-> u.s, odd |-> u.odd]
    <3>. PICK e : e = [z.c EXCEPT !.pending = {}]
      OBVIOUS
    <3>1. u = [z EXCEPT !.c = e] /\ e = d
      BY <2>1
    <3>2. [z EXCEPT !.c = e] = [c |-> e, s |-> z.s, odd |-> z.odd]
      BY ONLY <2>1, RecordWritten
    <3>. QED BY ONLY <2>1, <3>1, <3>2
  <2>. HIDE DEF x, d, u
  <2>3. sock \in [Prices!Sockets -> Socket(issued)] /\ i \in Prices!Sockets
    BY <1>2
  <2>4. [sock EXCEPT ![i] = k][i] = k
    BY ONLY <2>3
  <2>. QED BY ONLY <2>1, <2>2, <2>4
<1>. HIDE DEF x, c, d, k, z, u
<1>8. /\ Typed(z, issued) /\ Single(z) /\ Typed(u, issued) /\ Single(u)
      /\ \A j \in Prices!Sockets \ {i} : z.s[j] = sock[j] /\ u.s[j] = sock[j]
      /\ odd = {} => client.ws = i /\ Prices!State(x) = "open"
  <2>1. Writes(z, x, i) /\ Writes(u, x, i)
    BY <1>1, <1>3, <1>4, <1>7 DEF Writes
  <2>2. z.s[i] \in Socket(issued) /\ u.s[i] \in Socket(issued) /\ x.s[i].st \in Alive
    BY <1>1, <1>6, <1>7 DEF Alive
  <2>3. /\ Typed(z, issued) /\ Single(z) /\ \A j \in Prices!Sockets \ {i} : z.s[j] = x.s[j]
        /\ x.odd = {} => x.c.ws = i /\ Prices!State(x) = x.s[i].st
    BY <1>1, <2>1, <2>2, SocketWritten
  <2>4. Typed(u, issued) /\ Single(u) /\ \A j \in Prices!Sockets \ {i} : u.s[j] = x.s[j]
    BY <1>1, <2>1, <2>2, SocketWritten
  <2>. QED BY <1>1, <2>3, <2>4
<1>9. CASE odd # {}
  <2>1. Sound(z, issued) /\ Sound(u, issued)
    BY <1>7, <1>8, <1>9 DEF Sound
  <2>2. client.pending \in SUBSET Symbols
    BY <1>2 DEF Client
  <2>3. Sound(y, issued) /\ y.odd = odd
    <3>1. y = Prices!SendSubscribe(u, client.pending)
      BY DEF y
    <3>. QED BY <1>1, <1>7, <2>1, <2>2, <3>1, SendSubscribeSound
  <2>. DEFINE r == IF client.pending = {} THEN z ELSE y
  <2>4. Sound(r, issued) /\ r.odd = odd
    BY <1>7, <2>1, <2>3
  <2>. HIDE DEF r
  <2>5. Prices!Becomes(r)
    BY <1>5 DEF r
  <2>. QED BY <1>1, <1>9, <2>4, <2>5, StreamKept
<1>10. CASE odd = {}
  <2>1. /\ client.ws = i /\ Prices!State(x) = "open" /\ Flowing(x)
        /\ \A j \in Prices!Sockets : Quiet(sock[j])
    BY <1>1, <1>8, <1>10 DEF Sound, Flowing
  <2>2. client.subscribed \subseteq client.pending
    BY <1>1, <2>1 DEF Flowing, Ready
  <2>3. i # 0 /\ k.inn = <<>> /\ k.authed # 0 /\ Quiet(k)
    BY <1>6, <2>1 DEF Prices!Sockets
  <2>. DEFINE e == [d EXCEPT !.subscribed = {}]
              v == [c |-> e, s |-> [sock EXCEPT ![i] = k], odd |-> odd]
  <2>4. /\ e \in Client /\ e.made = client.made /\ e.ws = client.ws /\ e.authenticated
        /\ e.pending = {} /\ e.subscribed = {}
    BY <1>4 DEF Client
  <2>. HIDE DEF e, v
  <2>5. /\ v.c = e /\ v.s = u.s /\ v.odd = odd /\ v = [c |-> v.c, s |-> v.s, odd |-> v.odd]
    BY <1>7 DEF v
  \* A client that is authenticated and takes nothing for subscribed.
  <2>6. ASSUME NEW w, w.s = u.s, w.odd = odd, w = [c |-> w.c, s |-> w.s, odd |-> w.odd], w.c \in Client,
               w.c.made = client.made, w.c.ws = client.ws, w.c.authenticated,
               w.c.pending = {}, w.c.subscribed = {}
        PROVE  Sound(w, issued) /\ Ready(w)
    <3>1. Typed(w, issued) /\ Single(w)
      BY <1>4, <1>7, <1>8, <2>6 DEF Typed, Single
    <3>2. Prices!State(w) = "open" /\ Ready(w)
      BY <1>6, <1>7, <2>1, <2>3, <2>6 DEF Prices!State, Ready
    <3>3. \A j \in Prices!Sockets : Quiet(w.s[j])
      BY <1>7, <1>8, <2>1, <2>3, <2>6
    <3>4. Flowing(w)
      BY <1>7, <2>1, <2>3, <2>6, <3>2, <3>3 DEF Flowing, Alive
    <3>. QED BY <3>1, <3>2, <3>4 DEF Sound
  <2>7. CASE client.pending = {}
    <3>1. Sound(z, issued)
      BY <1>3, <1>7, <2>2, <2>6, <2>7
    <3>2. Prices!Becomes(z)
      BY <1>5, <2>7
    <3>3. \A S : Covers(Prices!Now, S) => Covers(z, S)
      BY <1>1, <1>3, <1>7 DEF Covers, x
    <3>. QED BY <1>1, <1>7, <3>1, <3>2, <3>3, StreamKept
  <2>8. CASE client.pending # {}
    <3>. PICK P, m : P = client.pending /\ m = [t |-> "subscribe", syms |-> P, tok |-> 0]
      OBVIOUS
    <3>1. P \in SUBSET Symbols /\ client.subscribed \subseteq P
      BY <1>2, <2>2 DEF Client
    <3>2. Sound(v, issued) /\ Ready(v)
      BY <2>4, <2>5, <2>6
    <3>3. Ready(u)
      BY <1>4, <1>7, <2>4, <2>5, <3>2 DEF Ready, Prices!State
    <3>. PICK t : t = [u.s EXCEPT ![i].out = Append(u.s[i].out, m)]
      OBVIOUS
    <3>4. y = [c |-> [d EXCEPT !.subscribed = d.subscribed \cup P], s |-> t, odd |-> odd]
      <4>1. Prices!Post(u, m) = [c |-> d, s |-> t, odd |-> odd]
        <5>1. Prices!Post(u, m) = [u EXCEPT !.s = t]
          BY <1>4, <1>7, <2>1 DEF Prices!Post
        <5>2. [u EXCEPT !.s = t] = [c |-> u.c, s |-> t, odd |-> u.odd]
          BY ONLY <1>7, RecordWritten
        <5>. QED BY <1>7, <5>1, <5>2
      <4>. PICK a : a = Prices!Post(u, m)
        OBVIOUS
      <4>2. y = [a EXCEPT !.c.subscribed = a.c.subscribed \cup P]
        BY <3>3 DEF Prices!SendSubscribe, Ready, y
      <4>. PICK Q, f : Q = a.c.subscribed \cup P /\ f = [d EXCEPT !.subscribed = Q]
        OBVIOUS
      <4>3. /\ a = [c |-> d, s |-> t, odd |-> odd] /\ Q = d.subscribed \cup P
            /\ f = [d EXCEPT !.subscribed = Q]
        BY <4>1
      <4>4. [a EXCEPT !.c.subscribed = Q] = [c |-> f, s |-> t, odd |-> odd]
        BY ONLY <4>3, SubscribedWritten
      <4>. QED BY <4>2, <4>3, <4>4
    <3>5. Prices!SendSubscribe(v, P) =
            [c |-> [e EXCEPT !.subscribed = e.subscribed \cup P], s |-> t, odd |-> odd]
      <4>1. Prices!Post(v, m) = [c |-> e, s |-> t, odd |-> odd]
        <5>1. Prices!Post(v, m) = [v EXCEPT !.s = t]
          BY <1>7, <2>1, <2>4, <2>5 DEF Prices!Post
        <5>2. [v EXCEPT !.s = t] = [c |-> v.c, s |-> t, odd |-> v.odd]
          BY ONLY <2>5, RecordWritten
        <5>. QED BY <2>5, <5>1, <5>2
      <4>. PICK a : a = Prices!Post(v, m)
        OBVIOUS
      <4>2. Prices!SendSubscribe(v, P) = [a EXCEPT !.c.subscribed = a.c.subscribed \cup P]
        BY <3>2 DEF Prices!SendSubscribe, Ready
      <4>. PICK Q, f : Q = a.c.subscribed \cup P /\ f = [e EXCEPT !.subscribed = Q]
        OBVIOUS
      <4>3. /\ a = [c |-> e, s |-> t, odd |-> odd] /\ Q = e.subscribed \cup P
            /\ f = [e EXCEPT !.subscribed = Q]
        BY <4>1
      <4>4. [a EXCEPT !.c.subscribed = Q] = [c |-> f, s |-> t, odd |-> odd]
        BY ONLY <4>3, SubscribedWritten
      <4>. QED BY <4>2, <4>3, <4>4
    <3>6. [e EXCEPT !.subscribed = e.subscribed \cup P] = [d EXCEPT !.subscribed = d.subscribed \cup P]
      <4>1. d.subscribed \cup P = P /\ e.subscribed \cup P = P
        BY <1>4, <2>4, <3>1
      <4>2. [[d EXCEPT !.subscribed = {}] EXCEPT !.subscribed = P] = [d EXCEPT !.subscribed = P]
        BY <1>4 DEF Client
      <4>. QED BY <4>1, <4>2 DEF e
    <3>7. y = Prices!SendSubscribe(v, P)
      BY <3>4, <3>5, <3>6
    <3>8. Prices!Becomes(y)
      BY <1>5, <2>8
    <3>9. /\ Sound(y, issued) /\ y.odd = odd
          /\ \A S : S \subseteq v.c.pending \cup v.c.subscribed \cup P => Covers(y, S)
      BY <1>1, <2>5, <3>1, <3>2, <3>7, SendSubscribeSound
    <3>10. \A S : Covers(Prices!Now, S) => Covers(y, S)
      BY <1>1, <3>1, <3>9 DEF Covers, x
    <3>. QED BY <1>1, <3>8, <3>9, <3>10, StreamKept
  <2>. QED BY <2>7, <2>8
<1>. QED BY <1>9, <1>10


\* Without a token the client stops and closes its socket, if it has one.
Stopped(x) == [x EXCEPT !.c.paused = TRUE, !.c.timer = FALSE,
                        !.s = IF Prices!State(x) \in {"connecting", "open"}
                              THEN [x.s EXCEPT ![x.c.ws].st = "closing"] ELSE x.s]

\* A closing socket owes nothing: its onclose puts what was subscribed back.
LEMMA StopSound ==
  ASSUME NEW x, NEW n \in Nat, Sound(x, n), NEW p, p = Stopped(x)
  PROVE  /\ Sound(p, n) /\ p.odd = x.odd
         /\ p.c.pending = x.c.pending /\ p.c.subscribed = x.c.subscribed
<1>. PICK c : c = [x.c EXCEPT !.paused = TRUE, !.timer = FALSE]
  OBVIOUS
<1>. PICK t : t = IF Prices!State(x) \in {"connecting", "open"}
                  THEN [x.s EXCEPT ![x.c.ws].st = "closing"] ELSE x.s
  OBVIOUS
<1>0. n \in Nat /\ Sound(x, n)
  OBVIOUS
<1>1. x \in [c : Client, s : [Prices!Sockets -> Socket(n)], odd : SUBSET Prices!Disturbances]
  BY DEF Sound, Typed
<1>2. p.c = c /\ p.s = t /\ p.odd = x.odd /\ p = [c |-> p.c, s |-> p.s, odd |-> p.odd]
  BY <1>1 DEF Stopped
<1>3. /\ c \in Client /\ c.pending = x.c.pending /\ c.subscribed = x.c.subscribed
      /\ c.ws = x.c.ws /\ c.made = x.c.made /\ c.authenticated = x.c.authenticated
  BY <1>1 DEF Client
<1>4. CASE Prices!State(x) \in {"connecting", "open"}
  <2>. PICK w, k : w = x.c.ws /\ k = [x.s[w] EXCEPT !.st = "closing"]
    OBVIOUS
  <2>1. w # 0 /\ w \in Prices!Sockets /\ x.s[w].st \in Alive /\ Prices!State(x) = x.s[w].st
    <3>1. w # 0 /\ Prices!State(x) = x.s[w].st
      BY <1>4 DEF Prices!State
    <3>2. w \in Prices!Sockets
      BY <3>1 DEF Sound, Typed, Client, Prices!Sockets
    <3>. QED BY <1>4, <3>1, <3>2 DEF Alive
  <2>2. t = [x.s EXCEPT ![w] = k] /\ t[w] = k /\ x.s[w] \in Socket(n)
    BY <1>1, <1>4, <2>1
  <2>3. /\ k \in Socket(n) /\ k.st = "closing" /\ k.inn = x.s[w].inn /\ k.authed = x.s[w].authed
    BY <2>2 DEF Socket, Alive
  <2>4. Writes(p, x, w) /\ p.s[w] \in Socket(n)
    BY <1>2, <1>3, <2>2, <2>3 DEF Writes
  <2>5. Typed(p, n) /\ Single(p) /\ \A j \in Prices!Sockets \ {w} : p.s[j] = x.s[j]
    BY ONLY <1>0, <2>1, <2>4, SocketWritten
  <2>6. ASSUME p.odd = {} PROVE Flowing(p)
    <3>0. Flowing(x)
      BY ONLY <1>0, <1>2, <2>6, Zenon DEF Sound
    <3>1. \A j \in Prices!Sockets : Quiet(x.s[j])
      BY ONLY <3>0, Zenon DEF Flowing
    <3>2. \A j \in Prices!Sockets : Quiet(p.s[j])
      <4>1. Quiet(x.s[w]) /\ p.s[w] = k
        BY ONLY <1>2, <2>1, <2>2, <3>1
      <4>2. Quiet(k)
        BY ONLY <2>3, <4>1 DEF Quiet
      <4>. QED BY ONLY <2>5, <3>1, <4>1, <4>2
    <3>3. Prices!State(p) = "closing" /\ ~Ready(p)
      <4>1. p.c.ws = w /\ p.s[w].st = "closing"
        BY <1>2, <1>3, <2>2, <2>3
      <4>. QED BY ONLY <2>1, <4>1 DEF Prices!State, Ready
    <3>. QED BY <3>2, <3>3 DEF Flowing, Alive
  <2>. QED BY <1>2, <1>3, <2>5, <2>6 DEF Sound
<1>5. CASE Prices!State(x) \notin {"connecting", "open"}
  <2>1. p.s = x.s
    BY <1>2, <1>5
  <2>2. Same(p, x)
    BY <1>2, <1>3, <2>1 DEF Same
  <2>. QED BY <1>2, <1>3, <2>2, SameSound
<1>. QED BY <1>4, <1>5

\* The answer to the token that auth_error asked for.
LEMMA RetryTokenStream ==
  ASSUME StreamInv, Prices!RetryToken PROVE StreamInv'
<1>. DEFINE x == [Prices!Now EXCEPT !.c.retry = Prices!Now.c.retry - 1]
            p == Stopped(x)
<1>. PICK t \in {0, token} :
       Prices!Becomes(CASE t # 0 /\ Prices!State(x) = "open" -> Prices!SendAuth(x, t)
                        [] t = 0 -> p
                        [] OTHER -> x)
  BY DEF Prices!RetryToken, Stopped
<1>. DEFINE y == CASE t # 0 /\ Prices!State(x) = "open" -> Prices!SendAuth(x, t)
                   [] t = 0 -> p
                   [] OTHER -> x
<1>1. /\ issued \in Nat /\ t \in 0..issued /\ Sound(Prices!Now, issued)
      /\ Prices!Becomes(y) /\ UNCHANGED <<token, issued, expired, comp>>
  BY DEF StreamInv, Prices!RetryToken, Prices!session
<1>2. Same(x, Prices!Now)
  <2>1. /\ Prices!Now.c.retry \in Nat /\ Prices!Now.c.retry # 0
        /\ \A f \in Nat : Same([Prices!Now EXCEPT !.c.retry = f], Prices!Now)
    <3>1. Prices!Now.c.retry > 0
      BY DEF Prices!RetryToken, Prices!Now
    <3>2. /\ Prices!Now.c.retry \in Nat
          /\ \A f \in Nat : Same([Prices!Now EXCEPT !.c.retry = f], Prices!Now)
      BY <1>1, FieldsSame DEF Sound
    <3>. QED BY <3>1, <3>2
  <2>2. Prices!Now.c.retry - 1 \in Nat
    BY SMTT(60), <2>1
  <2>. QED BY <2>1, <2>2
<1>. HIDE DEF x
<1>3. Sound(x, issued)
  BY <1>1, <1>2, SameSound
<1>4. Sound(y, issued) /\ y.c.pending = client.pending /\ y.c.subscribed = client.subscribed /\ y.odd = odd
  <2>1. x.c.pending = client.pending /\ x.c.subscribed = client.subscribed /\ x.odd = odd
    BY <1>2 DEF Same, Prices!Now
  <2>2. CASE t # 0 /\ Prices!State(x) = "open"
    <3>1. y = Prices!SendAuth(x, t) /\ t \in 1..issued
      BY <1>1, <2>2
    <3>. HIDE DEF y
    <3>. QED BY <1>1, <1>3, <2>1, <2>2, <3>1, SendAuthSound
  <2>3. CASE t = 0
    <3>1. y = p
      BY <2>3
    <3>2. Sound(p, issued) /\ p.odd = x.odd /\ p.c.pending = x.c.pending /\ p.c.subscribed = x.c.subscribed
      <4>1. p = Stopped(x)
        OBVIOUS
      <4>. HIDE DEF p
      <4>. QED BY <1>1, <1>3, <4>1, StopSound
    <3>. HIDE DEF p, y
    <3>. QED BY <2>1, <3>1, <3>2
  <2>4. CASE t # 0 /\ Prices!State(x) # "open"
    <3>1. y = x
      BY <2>4
    <3>. QED BY <1>3, <2>1, <3>1
  <2>. QED BY <2>2, <2>3, <2>4
<1>. HIDE DEF y
<1>. QED BY <1>1, <1>4, StreamKept DEF Covers, Prices!Now

-------------------------------------------------------------------------------
(* The invariant of the stream, and what follows from it.                  *)

\* The invariant holds of a page just loaded ...
LEMMA StreamInvInit ==
  ASSUME Prices!PriceAssumption, Prices!Init PROVE StreamInv
<1>1. /\ token = 0 /\ issued = 0 /\ expired = {} /\ odd = {}
      /\ MaxTokens \in Nat /\ MaxSockets \in Nat
      /\ sock = [i \in Prices!Sockets |-> Prices!NewSocket]
      /\ client.pending = {} /\ client.subscribed = {} /\ client.ws = 0 /\ client.made = 0
      /\ ~client.authenticated
  BY DEF Prices!Init, Prices!PriceAssumption
<1>2. client \in Client
  BY <1>1 DEF Prices!Init, Client
<1>3. /\ comp \in [Components -> Hook(0)]
      /\ \A k \in Components : comp[k].subbed = {}
  BY DEF Prices!Init, Hook
<1>4. Prices!NewSocket \in Socket(0) /\ Quiet(Prices!NewSocket) /\ Prices!NewSocket.st \notin Alive
  <2>1. <<>> \in Seq(Mail(0)) /\ <<>> \in Seq(Replies) /\ 0 \in 0..0
    OBVIOUS
  <2>2. Quiet(Prices!NewSocket) /\ Prices!NewSocket.st \notin Alive
    BY DEF Prices!NewSocket, Quiet, Alive
  <2>. HIDE DEF Mail, Replies
  <2>. QED BY <2>1, <2>2 DEF Prices!NewSocket, Socket
<1>5. /\ Prices!Now.c = client /\ Prices!Now.s = sock /\ Prices!Now.odd = {}
      /\ Prices!Now = [c |-> Prices!Now.c, s |-> Prices!Now.s, odd |-> Prices!Now.odd]
  BY <1>1 DEF Prices!Now
<1>6. Typed(Prices!Now, 0)
  BY <1>1, <1>2, <1>4, <1>5 DEF Typed
<1>7. Single(Prices!Now) /\ Flowing(Prices!Now)
  <2>1. Prices!State(Prices!Now) = "none" /\ ~Ready(Prices!Now)
    BY <1>1, <1>5 DEF Prices!State, Ready
  <2>. QED BY <1>1, <1>4, <1>5, <2>1 DEF Single, Flowing
<1>. QED BY <1>1, <1>3, <1>5, <1>6, <1>7 DEF StreamInv, Sound, Covers

\* ... every step keeps it ...
LEMMA StreamInvStep ==
  ASSUME Prices!PriceAssumption, StreamInv, [Prices!Next]_(Prices!vars) PROVE StreamInv'
<1>1. CASE Prices!Login \/ Prices!Logout \/ Prices!Expire \/ Prices!Refresh
  BY <1>1, SessionStream
<1>2. ASSUME NEW k \in Components, Prices!Unmount(k) PROVE StreamInv'
  BY <1>2, UnmountStream
<1>3. ASSUME NEW k \in Components, NEW W \in SUBSET Symbols, Prices!Render(k, W) PROVE StreamInv'
  BY <1>3, RenderStream
<1>4. CASE Prices!FreshToken
  BY <1>4, FreshTokenStream
<1>5. CASE Prices!RetryToken
  BY <1>5, RetryTokenStream
<1>6. CASE Prices!Reconnect
  BY <1>6, ReconnectStream
<1>7. ASSUME NEW i \in Prices!Sockets, Prices!Opens(i) PROVE StreamInv'
  BY <1>7, OpensStream
<1>8. ASSUME NEW i \in Prices!Sockets, Prices!Message(i) PROVE StreamInv'
  <2>1. \/ Head(sock[i].inn) = "auth_success" /\ Prices!AuthSuccess(i)
        \/ Prices!AuthError(i)
    BY <1>8 DEF Prices!Message
  <2>. QED BY <1>8, <2>1, AuthSuccessStream, AuthErrorStream
<1>9. ASSUME NEW i \in Prices!Sockets, Prices!Closed(i) PROVE StreamInv'
  BY <1>9, ClosesStream DEF Prices!Closed, Alive
<1>10. ASSUME NEW i \in Prices!Sockets, Prices!Drop(i) PROVE StreamInv'
  BY <1>10, ClosesStream DEF Prices!Drop, Alive
<1>11. ASSUME NEW i \in Prices!Sockets, Prices!Gateway(i) PROVE StreamInv'
  BY <1>11, GatewayStream
<1>12. CASE Prices!RefreshHalfway
  BY <1>12, HalfwayStream
<1>13. CASE UNCHANGED Prices!vars
  <2>1. UNCHANGED <<token, issued, expired, client, sock, comp, odd>>
    BY <1>13 DEF Prices!vars, Prices!session
  <2>2. Prices!Now' = Prices!Now
    BY <2>1 DEF Prices!Now
  <2>. QED BY <2>1, <2>2 DEF StreamInv
<1>. QED BY <1>1, <1>2, <1>3, <1>4, <1>5, <1>6, <1>7, <1>8, <1>9, <1>10, <1>11, <1>12,
           <1>13 DEF Prices!Next

\* ... and so it holds always.
LEMMA StreamInvAlways ==
  ASSUME Prices!PriceAssumption PROVE Prices!Spec => []StreamInv
<1>1. Prices!Init => StreamInv
  BY StreamInvInit
<1>2. StreamInv /\ [Prices!Next]_(Prices!vars) => StreamInv'
  BY StreamInvStep
<1>. QED BY <1>1, <1>2, PTL DEF Prices!Spec

\* What the client and the components refer to exists, through drops, refused
\* tokens and reconnections; until a socket is replaced before its onclose has
\* run, the page holds one connection.
THEOREM OneConnection ==
  ASSUME Prices!PriceAssumption PROVE Prices!Spec => []SocketsSound
<1>1. StreamInv => SocketsSound
  <2>. SUFFICES ASSUME StreamInv PROVE SocketsSound
    OBVIOUS
  <2>0. Prices!Sockets = Sockets /\ Prices!Disturbances = Disturbances
    BY DEF Prices!Sockets, Prices!Disturbances, Sockets, Disturbances
  <2>1. /\ issued \in Nat /\ Prices!Now.c = client /\ Prices!Now.s = sock /\ Prices!Now.odd = odd
        /\ Typed(Prices!Now, issued) /\ Single(Prices!Now)
    BY DEF StreamInv, Prices!Now, Sound
  <2>2. /\ client \in Client /\ sock \in [Sockets -> Socket(issued)]
        /\ client.ws <= client.made /\ odd \subseteq Disturbances
    BY <2>0, <2>1 DEF Typed
  <2>3. /\ client.ws \in 0..client.made /\ client.made \in 0..MaxSockets
        /\ client.pending \subseteq Symbols /\ client.subscribed \subseteq Symbols
        /\ client.fresh \in Nat /\ client.retry \in Nat
    BY <2>2 DEF Client
  <2>4. \A i \in Sockets :
           /\ sock[i].st \in {"none", "connecting", "open", "closing", "closed"}
           /\ sock[i].authed \in 0..issued /\ sock[i].subs \subseteq Symbols
    BY <2>2 DEF Socket, Alive
  <2>5. \A k \in Components : comp[k].subbed \subseteq Symbols /\ comp[k].tok \in 0..issued
    BY DEF StreamInv, Hook
  <2>6. OneSocket
    BY <2>0, <2>1 DEF OneSocket, Single, Alive
  <2>7. StreamTypes
    BY <2>2, <2>3, <2>4, <2>5 DEF StreamTypes, StreamInv
  <2>. QED BY <2>6, <2>7 DEF SocketsSound
<1>. QED BY <1>1, StreamInvAlways, PTL

\* On an authenticated connection with nothing on its way the gateway sends
\* every symbol the components show, until one of the disturbances occurs.
THEOREM TicksAlwaysFlow ==
  ASSUME Prices!PriceAssumption PROVE Prices!Spec => []TicksFlow
<1>1. StreamInv => TicksFlow
  <2>. SUFFICES ASSUME StreamInv, odd = {}, client.ws # 0, client.authenticated,
                       sock[client.ws].st = "open", sock[client.ws].out = <<>>,
                       NEW k \in Components
                PROVE  comp[k].subbed \subseteq sock[client.ws].subs
    BY DEF TicksFlow
  <2>1. Prices!Now.c = client /\ Prices!Now.s = sock /\ Prices!Now.odd = odd
    BY DEF Prices!Now
  <2>2. Ready(Prices!Now)
    BY <2>1 DEF Ready, Prices!State
  <2>3. /\ client.pending = {}
        /\ client.subscribed \subseteq sock[client.ws].subs \cup Coming(sock[client.ws].out)
    BY <2>1, <2>2 DEF StreamInv, Sound, Flowing
  <2>4. Coming(sock[client.ws].out) = {}
    BY DEF Coming
  <2>5. comp[k].subbed \subseteq client.pending \cup client.subscribed
    BY <2>1 DEF StreamInv, Covers
  <2>. QED BY <2>3, <2>4, <2>5
<1>. QED BY <1>1, StreamInvAlways, PTL
===============================================================================
