---------------------------- MODULE AuthSessions ----------------------------
(***************************************************************************)
(* Login sessions and rotating refresh tokens: the transactions of         *)
(* services/auth_session_service.py and services/auth_service.py over the  *)
(* tables users, auth_sessions and auth_refresh_tokens, as the handlers of *)
(* api/auth.py call them.  A handler reads the clock before it waits for   *)
(* the write lock, so its transaction may run any time later, after those  *)
(* of handlers that read the clock after it.  A transaction may fail, a    *)
(* handler may die, and its answer, with the new token in it, may be lost. *)
(*                                                                         *)
(* A row that is deleted keeps its place, marked, so that properties may   *)
(* speak of it; no query sees it.                                          *)
(***************************************************************************)
EXTENDS Integers, FiniteSets

CONSTANTS
  Handlers,      \* request handlers, in any number of threads and processes
  Users,         \* normalised e-mail addresses
  SessionIds,    \* uuids of sessions, in the order they are drawn
  TokenIds,      \* uuids of refresh tokens, in the order they are drawn
  Requests,      \* what the clients may ask for
  Lifetime,      \* refresh_token_days
  Grace,         \* refresh_reuse_grace_seconds
  Retention,     \* auth_session_retention_days
  CleanupLimit,  \* MAX_CLEANUP_ROWS
  Horizon,       \* bound on the clock
  NoRow,         \* an id that has not been drawn
  NoToken,       \* no refresh token in the request, or in the answer
  NoSession,     \* no valid access token in the request
  NoRequest,     \* a handler that serves nothing
  Never,         \* NULL in used_at and revoked_at
  Closed         \* how AuthLogins shows a session that is over

Instant == Nat \cup {Never}

Session == [user: Users, expires: Nat, revoked: Instant, kept: BOOLEAN]
Token == [session: SessionIds, expires: Nat, used: Instant, revoked: Instant,
          kept: BOOLEAN]

SignUpRequest == [op: {"register", "login"}, user: Users]
RefreshRequest == [op: {"refresh"}, token: TokenIds]
LogoutRequest == [op: {"logout"}, session: SessionIds \cup {NoSession},
                  token: TokenIds \cup {NoToken}, bearer: BOOLEAN]
AccessRequest == [op: {"access"}, session: SessionIds]
Request == SignUpRequest \cup RefreshRequest \cup LogoutRequest \cup AccessRequest

Statuses == {"success", "rejected", "invalid", "concurrent", "replay", "error"}

ASSUME AuthAssumption ==
  /\ SessionIds \subseteq Nat
  /\ TokenIds \subseteq Nat
  /\ Requests \subseteq Request
  /\ Lifetime \in Nat \ {0}
  /\ Grace \in Nat
  /\ Retention \in Nat
  /\ CleanupLimit \in Nat \ {0}
  /\ Horizon \in Nat
  /\ NoRow \notin Session \cup Token
  /\ {NoToken, NoRow, Closed} \cap TokenIds = {}
  /\ NoRow # Closed
  /\ NoSession \notin SessionIds
  /\ NoRequest \notin Request
  /\ Never \notin Nat

VARIABLES
  users,      \* the accounts: unregistered, active or disabled
  sessions,   \* the rows of auth_sessions
  tokens,     \* the rows of auth_refresh_tokens
  pc,         \* where each handler stands
  req,        \* the request it serves
  checkedAt,  \* the clock as the handler read it
  reply,      \* what it answers
  minted,     \* the refresh token in its answer
  known,      \* the refresh tokens that have reached a client
  now         \* the wall clock

handlerVars == <<pc, req, checkedAt, reply, minted>>
vars == <<users, sessions, tokens, handlerVars, known, now>>

-----------------------------------------------------------------------------
(* Queries *)

KeptSessions(S) == {s \in SessionIds : S[s] # NoRow /\ S[s].kept}
KeptTokens(T) == {k \in TokenIds : T[k] # NoRow /\ T[k].kept}

TokensOf(T, s) == {k \in KeptTokens(T) : T[k].session = s}

(* _session_is_active, of a row that is there. *)
SessionIsActive(s, t) ==
  /\ s \in KeptSessions(sessions)
  /\ sessions[s].revoked = Never
  /\ sessions[s].expires > t

UserOf(s) == users[sessions[s].user]

NextId(rows, id) ==
  /\ rows[id] = NoRow
  /\ \A other \in DOMAIN rows : other < id => rows[other] # NoRow

(* Faulty: a repeated refresh gets a token of its own. *)
KindVerdict(used, t) == IF t - used <= Grace THEN "success" ELSE "replay"

SpentVerdict(used, t) == IF t - used <= Grace THEN "concurrent" ELSE "replay"

(* The checks of a rotation, in the code's order. *)
RefreshVerdict(k, t) ==
  IF k \notin KeptTokens(tokens) THEN "invalid" ELSE
  IF ~SessionIsActive(tokens[k].session, t) THEN "invalid" ELSE
  IF UserOf(tokens[k].session) # "active" THEN "invalid" ELSE
  IF tokens[k].revoked # Never \/ tokens[k].expires <= t THEN "invalid" ELSE
  IF tokens[k].used = Never THEN "success" ELSE
  SpentVerdict(tokens[k].used, t)

-----------------------------------------------------------------------------
(* Writes *)

NewSession(user, t) ==
  [user |-> user, expires |-> t + Lifetime, revoked |-> Never, kept |-> TRUE]

NewToken(s, expires) ==
  [session |-> s, expires |-> expires, used |-> Never, revoked |-> Never,
   kept |-> TRUE]

Earlier(t, u) == IF t < u THEN t ELSE u

(* Faulty: the presented token stays as it was. *)
UnspentToken(row, t) == row

SpentToken(row, t) == [row EXCEPT !.used = t]

(* Faulty: backdated, so that the next clean-up takes it. *)
BackdatedSession(row, t) == [row EXCEPT !.revoked = t - Retention]

RevokedSession(row, t) ==
  IF row.revoked = Never THEN [row EXCEPT !.revoked = t] ELSE row

(* Faulty: only the tokens that were spent are revoked. *)
SpentTokensRevoked(T, s, t) ==
  [k \in TokenIds |->
     IF k \in TokensOf(T, s) /\ T[k].revoked = Never /\ T[k].used # Never
     THEN [T[k] EXCEPT !.revoked = t] ELSE T[k]]

TokensRevoked(T, s, t) ==
  [k \in TokenIds |->
     IF k \in TokensOf(T, s) /\ T[k].revoked = Never
     THEN [T[k] EXCEPT !.revoked = t] ELSE T[k]]

RevokeSession(s, t) ==
  /\ sessions' = [sessions EXCEPT ![s] = RevokedSession(@, t)]
  /\ tokens' = TokensRevoked(tokens, s, t)

(* Faulty: a spent token is history at once. *)
TokenIsSpentOrOld(row, t) ==
  \/ row.expires < t /\ row.used = Never /\ row.revoked = Never
  \/ row.used # Never
  \/ row.revoked # Never /\ row.revoked < t - Retention

(* Faulty: tokens go by their age, whether they were spent or not. *)
TokenWasIssuedLongAgo(row, t) == row.expires - Lifetime < t - Retention

TokenIsOld(row, t) ==
  \/ row.expires < t /\ row.used = Never /\ row.revoked = Never
  \/ row.used # Never /\ row.used < t - Retention
  \/ row.revoked # Never /\ row.revoked < t - Retention

(* Faulty: the cut-off lies ahead of the clock. *)
SessionEndsSoon(row, t) ==
  \/ row.expires < t + Retention
  \/ row.revoked # Never /\ row.revoked < t - Retention

SessionIsOld(row, t) ==
  \/ row.expires < t - Retention
  \/ row.revoked # Never /\ row.revoked < t - Retention

(* ORDER BY expires_at, id LIMIT: ids are uuids, so ties are broken anyhow. *)
FirstToExpire(rows, eligible) ==
  {batch \in SUBSET eligible :
     /\ Cardinality(batch) <= CleanupLimit
     /\ batch = eligible \/ Cardinality(batch) = CleanupLimit
     /\ \A b \in batch, o \in eligible \ batch : rows[b].expires <= rows[o].expires}

Deleted(rows, ids) ==
  [id \in DOMAIN rows |->
     IF id \in ids THEN [rows[id] EXCEPT !.kept = FALSE] ELSE rows[id]]

(* cleanup_history: S and T with their oldest history deleted; a session's *)
(* tokens go with it (ON DELETE CASCADE).                                  *)
StoreCleaned(S, T, t) ==
  \E oldTokens \in FirstToExpire(T, {k \in KeptTokens(T) : TokenIsOld(T[k], t)}),
     oldSessions \in FirstToExpire(S, {s \in KeptSessions(S) : SessionIsOld(S[s], t)}) :
    /\ sessions' = Deleted(S, oldSessions)
    /\ tokens' = Deleted(T, oldTokens \cup UNION {TokensOf(T, s) : s \in oldSessions})

-----------------------------------------------------------------------------
(* Steps of a handler *)

AnswerWith(h, status, k) ==
  /\ pc' = [pc EXCEPT ![h] = "answering"]
  /\ reply' = [reply EXCEPT ![h] = status]
  /\ minted' = [minted EXCEPT ![h] = k]
  /\ UNCHANGED <<req, checkedAt, known, now>>

Answer(h, status) == AnswerWith(h, status, NoToken)

NothingStored == UNCHANGED <<users, sessions, tokens>>

Forget(h) ==
  /\ pc' = [pc EXCEPT ![h] = "idle"]
  /\ req' = [req EXCEPT ![h] = NoRequest]
  /\ reply' = [reply EXCEPT ![h] = "none"]
  /\ minted' = [minted EXCEPT ![h] = NoToken]
  /\ checkedAt' = [checkedAt EXCEPT ![h] = 0]

KnownSessions == {tokens[k].session : k \in known}

(* Clients send tokens they were given, and access tokens are good for no  *)
(* longer than their session.                                              *)
CanSend(r) ==
  CASE r.op \in {"register", "login"} -> TRUE
    [] r.op = "refresh" -> r.token \in known
    [] r.op = "access" -> r.session \in KnownSessions /\ now < sessions[r.session].expires
    [] r.op = "logout" ->
         /\ r.session \in KnownSessions \cup {NoSession}
         /\ r.session # NoSession => now < sessions[r.session].expires
         /\ r.token \in known \cup {NoToken}
         /\ r.session # NoSession /\ r.token # NoToken =>
              tokens[r.token].session = r.session

(* What a handler does before its first transaction: a login verifies the  *)
(* password of an account it finds active; a logout without a valid access *)
(* token turns to the refresh cookie, or has nothing to do.                *)
FirstStop(r) ==
  IF r.op = "login" /\ users[r.user] # "active" THEN "answering" ELSE
  IF r.op = "logout" /\ r.session = NoSession
  THEN IF r.token # NoToken /\ ~r.bearer THEN "by_cookie" ELSE "answering"
  ELSE "pending"

FirstReply(r) ==
  IF FirstStop(r) # "answering" THEN "none" ELSE
  IF r.op = "login" THEN "rejected" ELSE "success"

Arrive(h, r) ==
  /\ pc[h] = "idle"
  /\ CanSend(r)
  /\ pc' = [pc EXCEPT ![h] = FirstStop(r)]
  /\ req' = [req EXCEPT ![h] = r]
  /\ checkedAt' = [checkedAt EXCEPT ![h] = now]
  /\ reply' = [reply EXCEPT ![h] = FirstReply(r)]
  /\ UNCHANGED <<users, sessions, tokens, minted, known, now>>

Serves(h, op) == pc[h] = "pending" /\ req[h].op = op

(* The session, its first token and the clean-up, in one transaction. *)
OpenSession(h, user) ==
  \E s \in SessionIds, k \in TokenIds :
    /\ NextId(sessions, s)
    /\ NextId(tokens, k)
    /\ LET row == NewSession(user, checkedAt[h]) IN
         StoreCleaned([sessions EXCEPT ![s] = row],
                      [tokens EXCEPT ![k] = NewToken(s, row.expires)],
                      checkedAt[h])
    /\ AnswerWith(h, "success", k)

Register(h) ==
  /\ Serves(h, "register")
  /\ \/ /\ users[req[h].user] = "unregistered"
        /\ users' = [users EXCEPT ![req[h].user] = "active"]
        /\ OpenSession(h, req[h].user)
     \/ /\ users[req[h].user] # "unregistered"
        /\ Answer(h, "rejected")
        /\ NothingStored

Login(h) ==
  /\ Serves(h, "login")
  /\ \/ /\ users[req[h].user] = "active"
        /\ OpenSession(h, req[h].user)
        /\ UNCHANGED users
     \/ /\ users[req[h].user] # "active"
        /\ Answer(h, "rejected")
        /\ NothingStored

RefreshVerdictOf(h) == RefreshVerdict(req[h].token, checkedAt[h])

(* The presented token is spent and a new one takes its place. *)
Rotate(h) ==
  /\ Serves(h, "refresh")
  /\ RefreshVerdictOf(h) = "success"
  /\ \E k \in TokenIds :
       LET spent == req[h].token
           s == tokens[spent].session
           t == checkedAt[h]
           new == NewToken(s, Earlier(sessions[s].expires, t + Lifetime))
       IN  /\ NextId(tokens, k)
           /\ StoreCleaned(sessions,
                           [tokens EXCEPT ![spent] = SpentToken(@, t), ![k] = new], t)
           /\ AnswerWith(h, "success", k)
  /\ UNCHANGED users

(* A token spent more than Grace ago takes its whole session with it. *)
Replay(h) ==
  /\ Serves(h, "refresh")
  /\ RefreshVerdictOf(h) = "replay"
  /\ LET s == tokens[req[h].token].session
         t == checkedAt[h]
     IN  StoreCleaned([sessions EXCEPT ![s] = RevokedSession(@, t)],
                      TokensRevoked(tokens, s, t), t)
  /\ Answer(h, "replay")
  /\ UNCHANGED users

DenyRefresh(h) ==
  /\ Serves(h, "refresh")
  /\ RefreshVerdictOf(h) \in {"invalid", "concurrent"}
  /\ Answer(h, RefreshVerdictOf(h))
  /\ NothingStored

(* Every request of a signed-in client is checked against its session. *)
Access(h) ==
  /\ Serves(h, "access")
  /\ Answer(h, IF /\ SessionIsActive(req[h].session, checkedAt[h])
                  /\ UserOf(req[h].session) = "active"
               THEN "success" ELSE "rejected")
  /\ NothingStored

LogoutBySession(h) ==
  /\ Serves(h, "logout")
  /\ \/ /\ req[h].session \in KeptSessions(sessions)
        /\ RevokeSession(req[h].session, checkedAt[h])
        /\ Answer(h, "success")
        /\ UNCHANGED users
     \/ /\ req[h].session \notin KeptSessions(sessions)
        /\ req[h].bearer \/ req[h].token = NoToken
        /\ Answer(h, "success")
        /\ NothingStored
     \/ /\ req[h].session \notin KeptSessions(sessions)
        /\ ~req[h].bearer /\ req[h].token # NoToken
        /\ pc' = [pc EXCEPT ![h] = "by_cookie"]
        /\ checkedAt' = [checkedAt EXCEPT ![h] = now]
        /\ NothingStored
        /\ UNCHANGED <<req, reply, minted, known, now>>

(* Faulty: only a token that still works may log out. *)
NamesLiveToken(h) ==
  req[h].token \in KeptTokens(tokens) /\ tokens[req[h].token].used = Never

NamesStoredToken(h) == req[h].token \in KeptTokens(tokens)

LogoutByCookie(h) ==
  /\ pc[h] = "by_cookie"
  /\ IF NamesStoredToken(h)
     THEN RevokeSession(tokens[req[h].token].session, checkedAt[h]) /\ UNCHANGED users
     ELSE NothingStored
  /\ Answer(h, "success")

(* A statement fails or the lock is not had in time: ROLLBACK. *)
Fail(h) ==
  /\ pc[h] \in {"pending", "by_cookie"}
  /\ Answer(h, "error")
  /\ NothingStored

Deliver(h) ==
  /\ pc[h] = "answering"
  /\ known' = known \cup ({minted[h]} \cap TokenIds)
  /\ Forget(h)
  /\ UNCHANGED <<users, sessions, tokens, now>>

(* The process dies, or the answer gets lost. *)
CutOff(h) ==
  /\ pc[h] # "idle"
  /\ Forget(h)
  /\ UNCHANGED <<users, sessions, tokens, known, now>>

(* Somebody disables an account in the database. *)
Disable(user) ==
  /\ users[user] = "active"
  /\ users' = [users EXCEPT ![user] = "disabled"]
  /\ UNCHANGED <<sessions, tokens, handlerVars, known, now>>

Tick ==
  /\ now < Horizon
  /\ now' = now + 1
  /\ UNCHANGED <<users, sessions, tokens, handlerVars, known>>

Init ==
  /\ users = [u \in Users |-> "unregistered"]
  /\ sessions = [s \in SessionIds |-> NoRow]
  /\ tokens = [k \in TokenIds |-> NoRow]
  /\ pc = [h \in Handlers |-> "idle"]
  /\ req = [h \in Handlers |-> NoRequest]
  /\ checkedAt = [h \in Handlers |-> 0]
  /\ reply = [h \in Handlers |-> "none"]
  /\ minted = [h \in Handlers |-> NoToken]
  /\ known = {}
  /\ now = 0

HandlerStep(h) ==
  \/ Register(h) \/ Login(h)
  \/ Rotate(h) \/ Replay(h) \/ DenyRefresh(h)
  \/ Access(h)
  \/ LogoutBySession(h) \/ LogoutByCookie(h)
  \/ Fail(h) \/ Deliver(h) \/ CutOff(h)

Next ==
  \/ \E h \in Handlers, r \in Requests : Arrive(h, r)
  \/ \E h \in Handlers : HandlerStep(h)
  \/ \E u \in Users : Disable(u)
  \/ Tick

Spec == Init /\ [][Next]_vars

-----------------------------------------------------------------------------
(* Properties *)

(* Every row that a transaction commits is a well-formed row of its table. *)
TypeOK ==
  /\ users \in [Users -> {"unregistered", "active", "disabled"}]
  /\ sessions \in [SessionIds -> Session \cup {NoRow}]
  /\ tokens \in [TokenIds -> Token \cup {NoRow}]
  /\ pc \in [Handlers -> {"idle", "pending", "by_cookie", "answering"}]
  /\ req \in [Handlers -> Request \cup {NoRequest}]
  /\ checkedAt \in [Handlers -> Nat]
  /\ reply \in [Handlers -> Statuses \cup {"none"}]
  /\ minted \in [Handlers -> TokenIds \cup {NoToken}]
  /\ known \in SUBSET TokenIds
  /\ now \in Nat

LiveTokens(s) ==
  {k \in TokensOf(tokens, s) : tokens[k].used = Never /\ tokens[k].revoked = Never}

(* However refreshes of the same token race, fail and are repeated, a      *)
(* session that is open has exactly one refresh token that still works:    *)
(* its owner can go on, and nobody else can at the same time.              *)
OneLiveToken ==
  \A s \in SessionIds :
    SessionIsActive(s, now) => \E k \in TokenIds : LiveTokens(s) = {k}

(* Once a session is revoked, by a logout or a replay, none of its tokens  *)
(* works, not even one that a racing refresh has just minted.              *)
RevocationIsComplete ==
  \A s \in KeptSessions(sessions) :
    sessions[s].revoked # Never =>
      \A k \in TokensOf(tokens, s) : tokens[k].revoked # Never

LoggedOutSession(r) ==
  IF r.session # NoSession THEN r.session ELSE tokens[r.token].session

(* A client that is told it has logged out has: whichever credential named *)
(* the session, it is over for good, whatever was in flight.               *)
LogoutTakesEffect ==
  \A h \in Handlers :
    /\ pc[h] = "answering" /\ reply[h] = "success" /\ req[h].op = "logout"
    /\ req[h].session # NoSession \/ (req[h].token # NoToken /\ ~req[h].bearer)
    => ~SessionIsActive(LoggedOutSession(req[h]), now)

(* A refresh that presents, after the grace period, a token that was spent *)
(* before leaves its session revoked or over, whatever the clean-ups have  *)
(* deleted meanwhile.                                                      *)
ReplayEndsSession ==
  [][\A h \in Handlers :
       /\ pc[h] = "pending" /\ req[h].op = "refresh"
       /\ reply'[h] \in Statuses \ {"error"}
       /\ tokens[req[h].token].used # Never
       /\ checkedAt[h] - tokens[req[h].token].used > Grace
       /\ UserOf(tokens[req[h].token].session) = "active"
       => ~SessionIsActive(tokens[req[h].token].session, now)']_vars

(* The sessions table and its tokens, read as abstract logins. *)
CarrierOf(s) ==
  IF sessions[s] = NoRow THEN NoRow ELSE
  IF sessions[s].kept /\ sessions[s].revoked = Never /\ LiveTokens(s) # {}
  THEN CHOOSE k \in TokenIds : k \in LiveTokens(s)
  ELSE Closed

Carriers == [s \in SessionIds |-> CarrierOf(s)]

Deadlines == [s \in SessionIds |-> IF sessions[s] = NoRow THEN 0 ELSE sessions[s].expires]

Minted == {k \in TokenIds : tokens[k] # NoRow}

Logins == INSTANCE AuthLogins WITH
  Logins <- SessionIds, Tokens <- TokenIds, Unborn <- NoRow,
  carrier <- Carriers, deadline <- Deadlines, minted <- Minted, clock <- now

(* Sessions are logins: each is carried by one token at a time, exchanged  *)
(* only for a fresh one; its deadline never moves; once over it stays so;  *)
(* and no clean-up ends a login of anybody else before its deadline.       *)
ImplementsLogins == Logins!Spec

=============================================================================
