------------------------- MODULE AuthSessionsProofs -------------------------
(***************************************************************************)
(* Theorems about login sessions and their refresh tokens, for any number  *)
(* of handlers, accounts, sessions, tokens and requests, any lifetimes,    *)
(* and an unbounded clock.                                                 *)
(*                                                                         *)
(* What the two tables owe to each other is stated of any pair of tables S *)
(* and T, so that a transaction can be followed through its two halves,    *)
(* the write and the clean-up.                                             *)
(***************************************************************************)
EXTENDS AuthSessions, TLAPS

-----------------------------------------------------------------------------
(* The inductive invariant *)

SessionRows(S) == {s \in SessionIds : S[s] # NoRow}
TokenRows(T) == {k \in TokenIds : T[k] # NoRow}

Open(S, s, t) ==
  S[s] # NoRow /\ S[s].kept /\ S[s].revoked = Never /\ S[s].expires > t

Live(T, k) ==
  T[k] # NoRow /\ T[k].kept /\ T[k].used = Never /\ T[k].revoked = Never

TablesType(S, T) ==
  /\ S \in [SessionIds -> Session \cup {NoRow}]
  /\ T \in [TokenIds -> Token \cup {NoRow}]

(* A token ends with its session, is revoked with it, goes with it, and    *)
(* was spent while the session had no more than a lifetime to go.          *)
Belongs(row, session) ==
  /\ session # NoRow
  /\ row.kept => session.kept
  /\ row.expires = session.expires
  /\ row.revoked # Never => session.revoked # Never
  /\ session.revoked # Never /\ row.kept => row.revoked # Never
  /\ row.used # Never => session.expires <= row.used + Lifetime

TokensBelong(S, T) == \A k \in TokenRows(T) : Belongs(T[k], S[T[k].session])

AtMostOneLive(T) ==
  \A k, l \in TokenIds :
    Live(T, k) /\ Live(T, l) /\ T[k].session = T[l].session => k = l

OpenIsCarried(S, T, t) ==
  \A s \in SessionIds : Open(S, s, t) => \E k \in TokenIds : Live(T, k) /\ T[k].session = s

EndInTime(S, t) == \A s \in SessionRows(S) : S[s].expires <= t + Lifetime

(* Provided that history is kept as long as a session may last. *)
DeletedAreOver(S, T, t) ==
  Lifetime <= Retention =>
    \A k \in TokenRows(T) : ~T[k].kept => ~Open(S, T[k].session, t)

StoreOK(S, T, t) ==
  /\ TablesType(S, T)
  /\ TokensBelong(S, T)
  /\ AtMostOneLive(T)
  /\ OpenIsCarried(S, T, t)
  /\ EndInTime(S, t)
  /\ DeletedAreOver(S, T, t)

(* A refresh under way names a token whose session, when the handler read  *)
(* the clock, had no more than a lifetime to go.                           *)
RefreshOK(h) ==
  /\ tokens[req[h].token] # NoRow
  /\ sessions[tokens[req[h].token].session].expires <= checkedAt[h] + Lifetime

NamesSession(r) == r.session # NoSession \/ (r.token # NoToken /\ ~r.bearer)

LogoutOK(h) ==
  /\ req[h].session # NoSession => sessions[req[h].session] # NoRow
  /\ req[h].token # NoToken => tokens[req[h].token] # NoRow
  /\ pc[h] = "by_cookie" =>
       /\ req[h].token # NoToken
       /\ req[h].session # NoSession => ~sessions[req[h].session].kept

(* The session that a finished logout named is over, provided that history *)
(* is kept as long as a session may last or that the session was named by  *)
(* an access token.                                                        *)
LogoutDone(h) ==
  /\ pc[h] = "answering" /\ reply[h] = "success" /\ NamesSession(req[h])
  /\ req[h].session # NoSession \/ Lifetime <= Retention
  => ~Open(sessions, LoggedOutSession(req[h]), now)

HandlerOK(h) ==
  /\ checkedAt[h] <= now
  /\ minted[h] # NoToken => tokens[minted[h]] # NoRow
  /\ pc[h] # "idle" => req[h] \in Requests
  /\ pc[h] # "answering" => reply[h] = "none" /\ minted[h] = NoToken
  /\ pc[h] = "by_cookie" => req[h].op = "logout"
  /\ pc[h] # "idle" /\ req[h].op = "refresh" => RefreshOK(h)
  /\ pc[h] # "idle" /\ req[h].op = "logout" => LogoutOK(h) /\ LogoutDone(h)

IInv ==
  /\ TypeOK
  /\ StoreOK(sessions, tokens, now)
  /\ \A k \in known : tokens[k] # NoRow
  /\ \A h \in Handlers : HandlerOK(h)

-----------------------------------------------------------------------------
(* Rows *)

LEMMA StoredRows ==
  ASSUME NEW S, NEW T, TablesType(S, T)
  PROVE  /\ \A s \in SessionRows(S) : S[s] \in Session
         /\ \A k \in TokenRows(T) : T[k] \in Token /\ T[k].session \in SessionIds
         /\ \A k \in TokenIds : Live(T, k) => k \in TokenRows(T)
         /\ \A s \in SessionIds, t \in Nat : Open(S, s, t) => s \in SessionRows(S)
BY DEF TablesType, SessionRows, TokenRows, Token, Live, Open

LEMMA NewSessionRow ==
  ASSUME NEW user \in Users, NEW t \in Nat
  PROVE  NewSession(user, t) \in Session /\ NewSession(user, t) # NoRow
<1>1. NewSession(user, t) \in Session
  BY AuthAssumption DEF NewSession, Session, Instant
<1>2. QED
  BY <1>1, AuthAssumption

LEMMA NewTokenRow ==
  ASSUME NEW s \in SessionIds, NEW t \in Nat
  PROVE  NewToken(s, t) \in Token /\ NewToken(s, t) # NoRow
<1>1. NewToken(s, t) \in Token
  BY DEF NewToken, Token, Instant
<1>2. QED
  BY <1>1, AuthAssumption

(* A row that is marked deleted, spent or revoked is the row it was in all *)
(* other columns.                                                          *)
LEMMA DeletedRow ==
  /\ \A row \in Session : [row EXCEPT !.kept = FALSE] \in Session
  /\ \A row \in Token : [row EXCEPT !.kept = FALSE] \in Token
BY DEF Session, Token

LEMMA RevokedRows ==
  ASSUME NEW t \in Nat
  PROVE  /\ \A row \in Session :
              /\ RevokedSession(row, t) \in Session
              /\ RevokedSession(row, t).user = row.user
              /\ RevokedSession(row, t).expires = row.expires
              /\ RevokedSession(row, t).kept = row.kept
              /\ RevokedSession(row, t).revoked # Never
              /\ row.revoked # Never => RevokedSession(row, t) = row
         /\ \A row \in Token : [row EXCEPT !.revoked = t] \in Token
<1>1. t \in Instant /\ t # Never
  BY AuthAssumption DEF Instant
<1>2. \A row \in Token : [row EXCEPT !.revoked = t] \in Token
  BY <1>1 DEF Token
<1>3. \A row \in Session : [row EXCEPT !.revoked = t] \in Session
  BY <1>1 DEF Session
<1>4. QED
  BY <1>1, <1>2, <1>3 DEF RevokedSession, Session

LEMMA SpentRow ==
  ASSUME NEW t \in Nat, NEW row \in Token
  PROVE  /\ SpentToken(row, t) \in Token
         /\ SpentToken(row, t).session = row.session
         /\ SpentToken(row, t).expires = row.expires
         /\ SpentToken(row, t).kept = row.kept
         /\ SpentToken(row, t).revoked = row.revoked
         /\ SpentToken(row, t).used = t
         /\ t # Never
BY AuthAssumption DEF SpentToken, Token, Instant

-----------------------------------------------------------------------------
(* The clean-up *)

(* What a clean-up deletes: sessions that are over, and tokens that are    *)
(* history or whose sessions go.                                           *)
MayDelete(S, T, oldSessions, oldTokens, t) ==
  /\ oldSessions \subseteq SessionRows(S)
  /\ oldTokens \subseteq TokenRows(T)
  /\ \A s \in oldSessions : SessionIsOld(S[s], t)
  /\ \A k \in oldTokens : TokenIsOld(T[k], t) \/ T[k].session \in oldSessions
  /\ \A k \in TokenRows(T) : T[k].kept /\ T[k].session \in oldSessions => k \in oldTokens

LEMMA CleanedTables ==
  ASSUME NEW S, NEW T, NEW t, TablesType(S, T), StoreCleaned(S, T, t)
  PROVE  \E oldSessions, oldTokens :
           /\ MayDelete(S, T, oldSessions, oldTokens, t)
           /\ sessions' = Deleted(S, oldSessions)
           /\ tokens' = Deleted(T, oldTokens)
<1>1. PICK first \in FirstToExpire(T, {k \in KeptTokens(T) : TokenIsOld(T[k], t)}),
           oldSessions \in FirstToExpire(S, {s \in KeptSessions(S) : SessionIsOld(S[s], t)}) :
             /\ sessions' = Deleted(S, oldSessions)
             /\ tokens' = Deleted(T, first \cup UNION {TokensOf(T, s) : s \in oldSessions})
  BY DEF StoreCleaned
<1> DEFINE oldTokens == first \cup UNION {TokensOf(T, s) : s \in oldSessions}
<1>2. /\ \A s \in oldSessions : s \in KeptSessions(S) /\ SessionIsOld(S[s], t)
      /\ \A k \in first : k \in KeptTokens(T) /\ TokenIsOld(T[k], t)
  BY DEF FirstToExpire
<1>3. \A k : k \in oldTokens <=>
        k \in first \/ (k \in KeptTokens(T) /\ T[k].session \in oldSessions)
  BY DEF TokensOf
<1>4. MayDelete(S, T, oldSessions, oldTokens, t)
  BY <1>2, <1>3 DEF MayDelete, KeptSessions, KeptTokens, SessionRows, TokenRows
<1>5. QED
  BY <1>1, <1>4

LEMMA DeletedTables ==
  ASSUME NEW S, NEW T, TablesType(S, T), NEW t,
         NEW oldSessions, NEW oldTokens, MayDelete(S, T, oldSessions, oldTokens, t)
  PROVE  LET S2 == Deleted(S, oldSessions)
             T2 == Deleted(T, oldTokens)
         IN  /\ TablesType(S2, T2)
             /\ \A s \in SessionIds :
                  /\ S2[s] = NoRow <=> S[s] = NoRow
                  /\ S2[s] # NoRow =>
                       /\ S2[s].user = S[s].user
                       /\ S2[s].expires = S[s].expires
                       /\ S2[s].revoked = S[s].revoked
                       /\ S2[s].kept <=> S[s].kept /\ s \notin oldSessions
             /\ \A k \in TokenIds :
                  /\ T2[k] = NoRow <=> T[k] = NoRow
                  /\ T2[k] # NoRow =>
                       /\ T2[k].session = T[k].session
                       /\ T2[k].expires = T[k].expires
                       /\ T2[k].used = T[k].used
                       /\ T2[k].revoked = T[k].revoked
                       /\ T2[k].kept <=> T[k].kept /\ k \notin oldTokens
<1> DEFINE S2 == Deleted(S, oldSessions)
           T2 == Deleted(T, oldTokens)
<1>1. /\ \A s \in oldSessions : s \in SessionIds /\ S[s] \in Session
      /\ \A k \in oldTokens : k \in TokenIds /\ T[k] \in Token
  BY StoredRows DEF MayDelete, SessionRows, TokenRows
<1>2. /\ S2 = [s \in SessionIds |->
                 IF s \in oldSessions THEN [S[s] EXCEPT !.kept = FALSE] ELSE S[s]]
      /\ T2 = [k \in TokenIds |->
                 IF k \in oldTokens THEN [T[k] EXCEPT !.kept = FALSE] ELSE T[k]]
  BY DEF Deleted, TablesType
<1>3. TablesType(S2, T2)
  BY <1>1, <1>2, DeletedRow DEF TablesType
<1> HIDE DEF S2, T2
<1>4. \A s \in SessionIds :
        /\ S2[s] = NoRow <=> S[s] = NoRow
        /\ S2[s] # NoRow =>
             /\ S2[s].user = S[s].user
             /\ S2[s].expires = S[s].expires
             /\ S2[s].revoked = S[s].revoked
             /\ S2[s].kept <=> S[s].kept /\ s \notin oldSessions
  <2> TAKE s \in SessionIds
  <2>1. CASE s \in oldSessions
    <3>1. S[s] \in Session /\ S2[s] = [S[s] EXCEPT !.kept = FALSE]
      BY <1>1, <1>2, <2>1
    <3>2. S2[s] \in Session
      BY <3>1, DeletedRow
    <3>3. S[s] # NoRow /\ S2[s] # NoRow
      BY <3>1, <3>2, AuthAssumption
    <3>4. QED
      BY <2>1, <3>1, <3>3 DEF Session
  <2>2. CASE s \notin oldSessions
    <3>1. S2[s] = S[s]
      BY <1>2, <2>2
    <3>2. S[s] # NoRow => S[s].kept \in BOOLEAN
      BY DEF TablesType, Session
    <3>3. QED
      BY <2>2, <3>1, <3>2
  <2>3. QED
    BY <2>1, <2>2
<1>5. \A k \in TokenIds :
        /\ T2[k] = NoRow <=> T[k] = NoRow
        /\ T2[k] # NoRow =>
             /\ T2[k].session = T[k].session
             /\ T2[k].expires = T[k].expires
             /\ T2[k].used = T[k].used
             /\ T2[k].revoked = T[k].revoked
             /\ T2[k].kept <=> T[k].kept /\ k \notin oldTokens
  <2> TAKE k \in TokenIds
  <2>1. CASE k \in oldTokens
    <3>1. T[k] \in Token /\ T2[k] = [T[k] EXCEPT !.kept = FALSE]
      BY <1>1, <1>2, <2>1
    <3>2. T2[k] \in Token
      BY <3>1, DeletedRow
    <3>3. T[k] # NoRow /\ T2[k] # NoRow
      BY <3>1, <3>2, AuthAssumption
    <3>4. QED
      BY <2>1, <3>1, <3>3 DEF Token
  <2>2. CASE k \notin oldTokens
    <3>1. T2[k] = T[k]
      BY <1>2, <2>2
    <3>2. T[k] # NoRow => T[k].kept \in BOOLEAN
      BY DEF TablesType, Token
    <3>3. QED
      BY <2>2, <3>1, <3>2
  <2>3. QED
    BY <2>1, <2>2
<1>6. QED
  BY <1>3, <1>4, <1>5 DEF S2, T2

(* A clean-up that goes by a clock that was read before now keeps the      *)
(* tables in order.                                                        *)
LEMMA CleaningKeeps ==
  ASSUME NEW S, NEW T, NEW u \in Nat, StoreOK(S, T, u),
         NEW t \in Nat, t <= u,
         NEW oldSessions, NEW oldTokens, MayDelete(S, T, oldSessions, oldTokens, t)
  PROVE  StoreOK(Deleted(S, oldSessions), Deleted(T, oldTokens), u)
<1> DEFINE S2 == Deleted(S, oldSessions)
           T2 == Deleted(T, oldTokens)
<1>1. TablesType(S, T)
  BY DEF StoreOK
<1>2. /\ TablesType(S2, T2)
      /\ \A s \in SessionIds :
           /\ S2[s] = NoRow <=> S[s] = NoRow
           /\ S2[s] # NoRow =>
                /\ S2[s].user = S[s].user
                /\ S2[s].expires = S[s].expires
                /\ S2[s].revoked = S[s].revoked
                /\ S2[s].kept <=> S[s].kept /\ s \notin oldSessions
      /\ \A k \in TokenIds :
           /\ T2[k] = NoRow <=> T[k] = NoRow
           /\ T2[k] # NoRow =>
                /\ T2[k].session = T[k].session
                /\ T2[k].expires = T[k].expires
                /\ T2[k].used = T[k].used
                /\ T2[k].revoked = T[k].revoked
                /\ T2[k].kept <=> T[k].kept /\ k \notin oldTokens
  BY <1>1, DeletedTables
<1> HIDE DEF S2, T2
<1>3. /\ \A s \in SessionRows(S) : S[s].expires \in Nat /\ S[s].revoked \in Instant
      /\ \A k \in TokenRows(T) :
           /\ T[k].session \in SessionIds
           /\ T[k].expires \in Nat
           /\ T[k].used \in Instant
           /\ T[k].revoked \in Instant
           /\ T[k].kept \in BOOLEAN
  BY <1>1, StoredRows DEF Session, Token
<1>4. /\ \A k \in TokenRows(T) : Belongs(T[k], S[T[k].session])
      /\ \A k \in TokenRows(T) : T[k].session \in SessionRows(S)
  BY <1>3 DEF StoreOK, TokensBelong, Belongs, SessionRows
<1>5. Retention \in Nat /\ Lifetime \in Nat /\ Never \notin Nat
  BY AuthAssumption
<1>6. \A s \in oldSessions : s \in SessionIds /\ ~Open(S, s, u)
  <2> TAKE s \in oldSessions
  <2>1. s \in SessionRows(S) /\ SessionIsOld(S[s], t)
    BY DEF MayDelete
  <2>2. QED
    BY <1>3, <1>5, <2>1 DEF SessionIsOld, Open, Instant, SessionRows
<1>7. \A k \in TokenIds : Live(T2, k) => Live(T, k) /\ T2[k].session = T[k].session
  BY <1>2 DEF Live
<1>8. \A s \in SessionIds : Open(S2, s, u) => Open(S, s, u)
  BY <1>2 DEF Open
<1>9. TokenRows(T2) = TokenRows(T) /\ SessionRows(S2) = SessionRows(S)
  BY <1>2 DEF TokenRows, SessionRows
<1>10. TokensBelong(S2, T2)
  <2> SUFFICES ASSUME NEW k \in TokenRows(T) PROVE Belongs(T2[k], S2[T2[k].session])
    BY <1>9 DEF TokensBelong
  <2>1. T2[k].session = T[k].session /\ T[k].session \in SessionRows(S)
    BY <1>2, <1>4 DEF TokenRows
  <2>2. T2[k].kept => S2[T[k].session].kept
    BY <1>2, <1>4, <2>1 DEF MayDelete, Belongs, TokenRows, SessionRows
  <2>3. QED
    BY <1>2, <1>4, <2>1, <2>2 DEF Belongs, TokenRows, SessionRows
<1>11. AtMostOneLive(T2)
  BY <1>7 DEF StoreOK, AtMostOneLive
<1>12. OpenIsCarried(S2, T2, u)
  <2> SUFFICES ASSUME NEW s \in SessionIds, Open(S2, s, u)
               PROVE  \E k \in TokenIds : Live(T2, k) /\ T2[k].session = s
    BY DEF OpenIsCarried
  <2>1. PICK k \in TokenIds : Live(T, k) /\ T[k].session = s
    BY <1>8 DEF StoreOK, OpenIsCarried
  <2>2. k \in TokenRows(T) /\ T[k].expires = S[s].expires /\ S[s].expires > u
    BY <1>4, <1>8, <2>1 DEF Live, TokenRows, Belongs, Open
  <2>3. ~TokenIsOld(T[k], t)
    BY <1>3, <1>5, <2>1, <2>2 DEF TokenIsOld, Live
  <2>4. k \notin oldTokens
    BY <1>6, <1>8, <2>1, <2>3 DEF MayDelete
  <2>5. Live(T2, k) /\ T2[k].session = s
    BY <1>2, <2>1, <2>4 DEF Live
  <2>6. QED
    BY <2>5
<1>13. EndInTime(S2, u)
  BY <1>2, <1>9 DEF StoreOK, EndInTime, SessionRows
<1>14. DeletedAreOver(S2, T2, u)
  <2> SUFFICES ASSUME Lifetime <= Retention, NEW k \in TokenRows(T), ~T2[k].kept,
                      Open(S2, T[k].session, u)
               PROVE  FALSE
    BY <1>2, <1>9 DEF DeletedAreOver, TokenRows
  <2> DEFINE s == T[k].session
  <2>1. s \in SessionRows(S) /\ Open(S, s, u) /\ Belongs(T[k], S[s])
    BY <1>4, <1>8 DEF SessionRows
  <2>2. T[k].kept /\ k \in oldTokens
    BY <1>2, <2>1 DEF StoreOK, DeletedAreOver, TokenRows
  <2>3. s \notin oldSessions
    BY <1>6, <2>1
  <2>4. TokenIsOld(T[k], t)
    BY <2>2, <2>3 DEF MayDelete
  <2> HIDE DEF s
  <2>5. S[s].expires \in Nat /\ S[s].expires > u /\ S[s].revoked = Never
    BY <1>3, <2>1 DEF Open
  <2>6. T[k].revoked = Never /\ T[k].expires = S[s].expires
    BY <2>1, <2>5 DEF Belongs
  <2>7. T[k].used # Never => T[k].used \in Nat /\ S[s].expires <= T[k].used + Lifetime
    BY <1>3, <2>1 DEF Belongs, Instant
  <2>8. QED
    BY <1>5, <2>4, <2>5, <2>6, <2>7 DEF TokenIsOld
<1>15. QED
  BY <1>2, <1>10, <1>11, <1>12, <1>13, <1>14 DEF StoreOK, S2, T2

-----------------------------------------------------------------------------
(* The writes *)

LEMMA OpeningKeeps ==
  ASSUME NEW S, NEW T, NEW u \in Nat, StoreOK(S, T, u),
         NEW t \in Nat, t <= u, NEW user \in Users,
         NEW s \in SessionIds, S[s] = NoRow,
         NEW k \in TokenIds, T[k] = NoRow
  PROVE  StoreOK([S EXCEPT ![s] = NewSession(user, t)],
                 [T EXCEPT ![k] = NewToken(s, t + Lifetime)], u)
<1> DEFINE row == NewSession(user, t)
           token == NewToken(s, t + Lifetime)
           S2 == [S EXCEPT ![s] = row]
           T2 == [T EXCEPT ![k] = token]
<1>1. TablesType(S, T) /\ Lifetime \in Nat /\ t + Lifetime \in Nat
  BY AuthAssumption DEF StoreOK
<1>2. /\ row \in Session /\ row # NoRow
      /\ row.expires = t + Lifetime /\ row.revoked = Never /\ row.kept
      /\ token \in Token /\ token # NoRow
      /\ token.session = s /\ token.expires = t + Lifetime
      /\ token.used = Never /\ token.revoked = Never /\ token.kept
  BY <1>1, NewSessionRow, NewTokenRow DEF NewSession, NewToken
<1> HIDE DEF row, token
<1>3. /\ S2 \in [SessionIds -> Session \cup {NoRow}]
      /\ T2 \in [TokenIds -> Token \cup {NoRow}]
      /\ S2[s] = row
      /\ T2[k] = token
      /\ \A x \in SessionIds \ {s} : S2[x] = S[x]
      /\ \A x \in TokenIds \ {k} : T2[x] = T[x]
  BY <1>1, <1>2 DEF TablesType
<1> HIDE DEF S2, T2
<1>4. \A x \in TokenRows(T) :
        /\ x # k /\ T[x].session \in SessionIds \ {s}
        /\ Belongs(T[x], S[T[x].session])
  BY <1>1, StoredRows DEF StoreOK, TokensBelong, Belongs, TokenRows
<1>5. \A x \in TokenRows(T2) \ {k} :
        /\ x \in TokenRows(T) /\ T2[x] = T[x] /\ S2[T2[x].session] = S[T[x].session]
  BY <1>3, <1>4 DEF TokenRows
<1>6. TokensBelong(S2, T2)
  <2>1. Belongs(T2[k], S2[T2[k].session])
    BY <1>2, <1>3 DEF Belongs
  <2>2. QED
    BY <1>4, <1>5, <2>1 DEF TokensBelong
<1>7. AtMostOneLive(T2)
  <2>1. \A x \in TokenIds \ {k} : Live(T2, x) => Live(T, x) /\ T2[x].session # s
    BY <1>3, <1>4 DEF Live, TokenRows
  <2>2. QED
    BY <1>2, <1>3, <2>1 DEF StoreOK, AtMostOneLive
<1>8. OpenIsCarried(S2, T2, u)
  <2> SUFFICES ASSUME NEW x \in SessionIds, Open(S2, x, u)
               PROVE  \E y \in TokenIds : Live(T2, y) /\ T2[y].session = x
    BY DEF OpenIsCarried
  <2>1. CASE x = s
    BY <1>2, <1>3, <2>1 DEF Live
  <2>2. CASE x # s
    <3>1. PICK y \in TokenIds : Live(T, y) /\ T[y].session = x
      BY <1>3, <2>2 DEF StoreOK, OpenIsCarried, Open
    <3>2. T2[y] = T[y]
      BY <1>3, <1>4, <3>1 DEF Live, TokenRows
    <3>3. QED
      BY <3>1, <3>2 DEF Live
  <2>3. QED
    BY <2>1, <2>2
<1>9. EndInTime(S2, u)
  BY <1>1, <1>2, <1>3 DEF StoreOK, EndInTime, SessionRows
<1>10. DeletedAreOver(S2, T2, u)
  BY <1>2, <1>3, <1>4, <1>5 DEF StoreOK, DeletedAreOver, Open, TokenRows
<1>11. QED
  BY <1>3, <1>6, <1>7, <1>8, <1>9, <1>10 DEF StoreOK, TablesType, S2, T2, row, token

LEMMA RotationKeeps ==
  ASSUME NEW S, NEW T, NEW u \in Nat, StoreOK(S, T, u),
         NEW t \in Nat, t <= u,
         NEW spent \in TokenIds, Live(T, spent),
         S[T[spent].session].kept, S[T[spent].session].revoked = Never,
         S[T[spent].session].expires <= t + Lifetime,
         NEW k \in TokenIds, T[k] = NoRow
  PROVE  LET s == T[spent].session IN
         StoreOK(S, [T EXCEPT ![spent] = SpentToken(@, t),
                              ![k] = NewToken(s, Earlier(S[s].expires, t + Lifetime))], u)
<1> DEFINE s == T[spent].session
           old == SpentToken(T[spent], t)
           new == NewToken(s, Earlier(S[s].expires, t + Lifetime))
           T2 == [T EXCEPT ![spent] = old, ![k] = new]
<1>1. /\ TablesType(S, T) /\ Lifetime \in Nat
      /\ spent \in TokenRows(T) /\ spent # k
      /\ T[spent] \in Token /\ s \in SessionRows(S) /\ S[s] \in Session
      /\ Belongs(T[spent], S[s])
  BY StoredRows, AuthAssumption
     DEF StoreOK, TokensBelong, Belongs, Live, TokenRows, SessionRows
<1>2. Earlier(S[s].expires, t + Lifetime) = S[s].expires /\ S[s].expires \in Nat
  BY <1>1 DEF Earlier, Session
<1>3. /\ old \in Token /\ old # NoRow
      /\ old.session = s /\ old.expires = S[s].expires
      /\ old.used = t /\ old.used # Never /\ old.revoked = Never /\ old.kept
  BY <1>1, SpentRow, AuthAssumption DEF Belongs, Live
<1>4. /\ new \in Token /\ new # NoRow
      /\ new.session = s /\ new.expires = S[s].expires
      /\ new.used = Never /\ new.revoked = Never /\ new.kept
  BY <1>1, <1>2, NewTokenRow DEF NewToken, Token, SessionRows
<1>5. T2 \in [TokenIds -> Token \cup {NoRow}]
  BY <1>1, <1>3, <1>4 DEF TablesType
<1>6. /\ T2[spent] = old /\ T2[k] = new
      /\ \A x \in TokenIds \ {spent, k} : T2[x] = T[x]
  BY <1>1 DEF TablesType
<1> HIDE DEF old, new, T2
<1>7. TokensBelong(S, T2)
  <2>1. Belongs(old, S[s]) /\ Belongs(new, S[s])
    BY <1>1, <1>3, <1>4 DEF Belongs, SessionRows
  <2>2. QED
    BY <1>3, <1>4, <1>6, <2>1 DEF StoreOK, TokensBelong, TokenRows
<1>8. \A x \in TokenIds \ {k} : Live(T2, x) => x # spent /\ Live(T, x) /\ T2[x].session = T[x].session
  BY <1>3, <1>6 DEF Live
<1>9. AtMostOneLive(T2)
  <2>1. \A x \in TokenIds \ {k} : Live(T2, x) => T2[x].session # s
    BY <1>8 DEF StoreOK, AtMostOneLive
  <2>2. QED
    BY <1>4, <1>6, <1>8, <2>1 DEF StoreOK, AtMostOneLive
<1>10. OpenIsCarried(S, T2, u)
  <2> SUFFICES ASSUME NEW x \in SessionIds, Open(S, x, u)
               PROVE  \E y \in TokenIds : Live(T2, y) /\ T2[y].session = x
    BY DEF OpenIsCarried
  <2>1. CASE x = s
    BY <1>4, <1>6, <2>1 DEF Live
  <2>2. CASE x # s
    <3>1. PICK y \in TokenIds : Live(T, y) /\ T[y].session = x
      BY DEF StoreOK, OpenIsCarried
    <3>2. y \notin {spent, k}
      BY <2>2, <3>1 DEF Live
    <3>3. QED
      BY <1>6, <3>1, <3>2 DEF Live
  <2>3. QED
    BY <2>1, <2>2
<1>11. DeletedAreOver(S, T2, u)
  BY <1>3, <1>4, <1>6 DEF StoreOK, DeletedAreOver, TokenRows
<1>12. StoreOK(S, T2, u)
  BY <1>1, <1>5, <1>7, <1>9, <1>10, <1>11 DEF StoreOK, TablesType
<1>13. QED
  BY <1>12 DEF T2, old, new

LEMMA RevocationKeeps ==
  ASSUME NEW S, NEW T, NEW u \in Nat, StoreOK(S, T, u),
         NEW t \in Nat, NEW s \in SessionRows(S)
  PROVE  LET S2 == [S EXCEPT ![s] = RevokedSession(@, t)]
         IN  StoreOK(S2, TokensRevoked(T, s, t), u) /\ S2[s].revoked # Never
<1> DEFINE S2 == [S EXCEPT ![s] = RevokedSession(@, t)]
           T2 == TokensRevoked(T, s, t)
           hit(k) == T[k] # NoRow /\ T[k].kept /\ T[k].session = s /\ T[k].revoked = Never
<1>1. /\ TablesType(S, T) /\ s \in SessionIds /\ S[s] \in Session
      /\ t \in Instant /\ t # Never
  BY StoredRows, AuthAssumption DEF StoreOK, SessionRows, Instant
<1>2. /\ S2 \in [SessionIds -> Session \cup {NoRow}]
      /\ S2[s] \in Session /\ S2[s] # NoRow
      /\ S2[s].expires = S[s].expires /\ S2[s].kept = S[s].kept
      /\ S2[s].revoked # Never
      /\ \A x \in SessionIds \ {s} : S2[x] = S[x]
  BY <1>1, RevokedRows, AuthAssumption DEF TablesType
<1>3. \A k \in TokenIds :
        T2[k] = IF hit(k) THEN [T[k] EXCEPT !.revoked = t] ELSE T[k]
  BY DEF TokensRevoked, TokensOf, KeptTokens
<1>4. \A k \in TokenIds : hit(k) =>
        /\ T2[k] \in Token /\ T2[k] # NoRow
        /\ T2[k].session = T[k].session /\ T2[k].expires = T[k].expires
        /\ T2[k].used = T[k].used /\ T2[k].kept
        /\ T2[k].revoked = t
  <2> SUFFICES ASSUME NEW k \in TokenIds, hit(k)
               PROVE  /\ T2[k] \in Token /\ T2[k] # NoRow
                      /\ T2[k].session = T[k].session /\ T2[k].expires = T[k].expires
                      /\ T2[k].used = T[k].used /\ T2[k].kept
                      /\ T2[k].revoked = t
    OBVIOUS
  <2>1. T[k] \in Token /\ T2[k] = [T[k] EXCEPT !.revoked = t]
    BY <1>1, <1>3 DEF TablesType
  <2>2. T2[k] \in Token
    BY <2>1, RevokedRows
  <2>3. QED
    BY <2>1, <2>2, AuthAssumption DEF Token
<1>5. \A k \in TokenIds : ~hit(k) => T2[k] = T[k]
  BY <1>3
<1>6. T2 \in [TokenIds -> Token \cup {NoRow}]
  BY <1>1, <1>4, <1>5 DEF TablesType, TokensRevoked
<1> HIDE DEF S2, T2
<1>7. /\ TokenRows(T2) = TokenRows(T)
      /\ \A k \in TokenRows(T) :
           /\ T2[k].session = T[k].session /\ T2[k].expires = T[k].expires
           /\ T2[k].used = T[k].used /\ T2[k].kept = T[k].kept
           /\ T2[k].revoked # Never <=> T[k].revoked # Never \/ hit(k)
  <2>1. \A k \in TokenIds : hit(k) => T[k] # NoRow /\ T[k].kept \in BOOLEAN
    BY <1>1 DEF TablesType, Token
  <2>2. QED
    BY <1>1, <1>4, <1>5, <2>1 DEF TokenRows
<1>8. \A k \in TokenIds :
        Live(T2, k) => Live(T, k) /\ T2[k].session = T[k].session /\ T[k].session # s
  BY <1>1, <1>4, <1>5 DEF Live
<1>9. TokensBelong(S2, T2)
  <2> SUFFICES ASSUME NEW k \in TokenRows(T) PROVE Belongs(T2[k], S2[T[k].session])
    BY <1>7 DEF TokensBelong
  <2>1. Belongs(T[k], S[T[k].session]) /\ T[k].session \in SessionIds
    BY <1>1, StoredRows DEF StoreOK, TokensBelong
  <2>2. CASE T[k].session = s
    BY <1>2, <1>7, <2>1, <2>2 DEF Belongs, TokenRows
  <2>3. CASE T[k].session # s
    BY <1>2, <1>5, <2>1, <2>3 DEF TokenRows
  <2>4. QED
    BY <2>2, <2>3
<1>10. AtMostOneLive(T2)
  BY <1>8 DEF StoreOK, AtMostOneLive
<1>11. OpenIsCarried(S2, T2, u)
  <2> SUFFICES ASSUME NEW x \in SessionIds, Open(S2, x, u)
               PROVE  \E y \in TokenIds : Live(T2, y) /\ T2[y].session = x
    BY DEF OpenIsCarried
  <2>1. x # s /\ Open(S, x, u)
    BY <1>2 DEF Open
  <2>2. PICK y \in TokenIds : Live(T, y) /\ T[y].session = x
    BY <2>1 DEF StoreOK, OpenIsCarried
  <2>3. T2[y] = T[y]
    BY <1>5, <2>1, <2>2
  <2>4. QED
    BY <2>2, <2>3 DEF Live
<1>12. EndInTime(S2, u)
  BY <1>2 DEF StoreOK, EndInTime, SessionRows
<1>13. \A x \in SessionIds : Open(S2, x, u) => Open(S, x, u)
  BY <1>2 DEF Open
<1>14. DeletedAreOver(S2, T2, u)
  <2>1. \A k \in TokenRows(T) : T[k].session \in SessionIds
    BY <1>1, StoredRows
  <2>2. QED
    BY <1>7, <1>13, <2>1 DEF StoreOK, DeletedAreOver
<1>15. StoreOK(S2, T2, u)
  BY <1>2, <1>6, <1>9, <1>10, <1>11, <1>12, <1>14 DEF StoreOK, TablesType
<1>16. QED
  BY <1>2, <1>15 DEF S2, T2

-----------------------------------------------------------------------------
(* How the tables may change: rows stay, with their owners and deadlines;  *)
(* what is deleted is not brought back, and what is revoked stays revoked. *)

Advances(S, T, S2, T2) ==
  /\ \A s \in SessionRows(S) :
       /\ S2[s] # NoRow
       /\ S2[s].user = S[s].user
       /\ S2[s].expires = S[s].expires
       /\ S2[s].kept => S[s].kept
       /\ S[s].revoked # Never => S2[s].revoked = S[s].revoked
  /\ \A k \in TokenRows(T) :
       /\ T2[k] # NoRow
       /\ T2[k].session = T[k].session
       /\ T2[k].expires = T[k].expires

LEMMA AdvancesThrough ==
  ASSUME NEW S, NEW T, NEW S1, NEW T1, NEW S2, NEW T2,
         Advances(S, T, S1, T1), Advances(S1, T1, S2, T2)
  PROVE  Advances(S, T, S2, T2)
<1>1. /\ \A s \in SessionRows(S) : s \in SessionRows(S1)
      /\ \A k \in TokenRows(T) : k \in TokenRows(T1)
  BY DEF Advances, SessionRows, TokenRows
<1>2. QED
  BY <1>1 DEF Advances

LEMMA OpenedBefore ==
  ASSUME NEW S, NEW T, NEW S2, NEW T2, Advances(S, T, S2, T2), TablesType(S, T),
         NEW s \in SessionRows(S), NEW t \in Nat, NEW u \in Nat, t <= u,
         Open(S2, s, u)
  PROVE  Open(S, s, t)
<1>1. S[s].expires \in Nat
  BY StoredRows DEF Session
<1>2. QED
  BY <1>1 DEF Advances, Open, SessionRows

(* A write, then the clean-up that goes with it. *)
LEMMA CleanedStore ==
  ASSUME NEW S, NEW T, Advances(sessions, tokens, S, T), now \in Nat,
         StoreOK(S, T, now), NEW t \in Nat, t <= now, StoreCleaned(S, T, t)
  PROVE  /\ StoreOK(sessions', tokens', now)
         /\ Advances(sessions, tokens, sessions', tokens')
         /\ Advances(S, T, sessions', tokens')
<1>1. TablesType(S, T)
  BY DEF StoreOK
<1>2. PICK oldSessions, oldTokens :
        /\ MayDelete(S, T, oldSessions, oldTokens, t)
        /\ sessions' = Deleted(S, oldSessions)
        /\ tokens' = Deleted(T, oldTokens)
  BY <1>1, CleanedTables
<1>3. StoreOK(sessions', tokens', now)
  BY <1>2, CleaningKeeps
<1>4. Advances(S, T, sessions', tokens')
  BY <1>1, <1>2, DeletedTables DEF Advances, SessionRows, TokenRows
<1>5. QED
  BY <1>3, <1>4, AdvancesThrough

LEMMA OpeningAdvances ==
  ASSUME NEW S, NEW T, TablesType(S, T),
         NEW s, NEW row, S[s] = NoRow, NEW k, NEW token, T[k] = NoRow
  PROVE  Advances(S, T, [S EXCEPT ![s] = row], [T EXCEPT ![k] = token])
BY DEF Advances, TablesType, SessionRows, TokenRows

LEMMA RotationAdvances ==
  ASSUME NEW S, NEW T, TablesType(S, T), NEW spent \in TokenRows(T), NEW t \in Nat,
         NEW k, NEW token, T[k] = NoRow
  PROVE  Advances(S, T, S, [T EXCEPT ![spent] = SpentToken(@, t), ![k] = token])
<1> DEFINE old == SpentToken(T[spent], t)
           T2 == [T EXCEPT ![spent] = old, ![k] = token]
<1>1. /\ T[spent] \in Token /\ spent # k
      /\ old \in Token /\ old # NoRow
      /\ old.session = T[spent].session /\ old.expires = T[spent].expires
  BY StoredRows, SpentRow, AuthAssumption DEF TokenRows
<1> HIDE DEF old
<1>2. \A x \in TokenRows(T) : x # k /\ (x # spent => T2[x] = T[x])
  BY DEF TablesType, TokenRows
<1>3. T2[spent] = old
  BY <1>1 DEF TablesType, TokenRows
<1> HIDE DEF T2
<1>4. Advances(S, T, S, T2)
  BY <1>1, <1>2, <1>3 DEF Advances, SessionRows, TokenRows
<1>5. QED
  BY <1>4 DEF T2, old

LEMMA RevocationAdvances ==
  ASSUME NEW S, NEW T, TablesType(S, T), NEW s \in SessionRows(S), NEW t \in Nat
  PROVE  Advances(S, T, [S EXCEPT ![s] = RevokedSession(@, t)], TokensRevoked(T, s, t))
<1> DEFINE S2 == [S EXCEPT ![s] = RevokedSession(@, t)]
           T2 == TokensRevoked(T, s, t)
<1>1. S[s] \in Session /\ S2[s] = RevokedSession(S[s], t)
  BY StoredRows DEF TablesType, SessionRows
<1>2. \A x \in SessionRows(S) : x # s => S2[x] = S[x]
  BY DEF TablesType, SessionRows
<1>3. /\ S2[s] # NoRow
      /\ S2[s].user = S[s].user /\ S2[s].expires = S[s].expires
      /\ S2[s].kept => S[s].kept
      /\ S[s].revoked # Never => S2[s].revoked = S[s].revoked
  BY <1>1, RevokedRows, AuthAssumption
<1> HIDE DEF S2
<1>4. \A k \in TokenRows(T) :
        /\ T2[k] # NoRow
        /\ T2[k].session = T[k].session
        /\ T2[k].expires = T[k].expires
  <2> TAKE k \in TokenRows(T)
  <2>1. k \in TokenIds /\ T[k] \in Token /\ T[k] # NoRow
    BY StoredRows DEF TokenRows
  <2>2. T2[k] = T[k] \/ T2[k] = [T[k] EXCEPT !.revoked = t]
    BY <2>1 DEF TokensRevoked
  <2>3. [T[k] EXCEPT !.revoked = t] \in Token
    BY <2>1, RevokedRows
  <2>4. QED
    BY <2>1, <2>2, <2>3, AuthAssumption DEF Token
<1>5. Advances(S, T, S2, T2)
  BY <1>2, <1>3, <1>4 DEF Advances, SessionRows
<1>6. QED
  BY <1>5 DEF S2

-----------------------------------------------------------------------------
(* The transactions *)

(* The tables after a step, as the invariant wants them. *)
StoreGoesOn ==
  /\ StoreOK(sessions', tokens', now')
  /\ Advances(sessions, tokens, sessions', tokens')

LEMMA HandlerFacts ==
  ASSUME IInv, NEW h \in Handlers, pc[h] # "idle"
  PROVE  /\ StoreOK(sessions, tokens, now) /\ TablesType(sessions, tokens)
         /\ now \in Nat /\ checkedAt[h] \in Nat /\ checkedAt[h] <= now
         /\ HandlerOK(h) /\ req[h] \in Requests
BY DEF IInv, TypeOK, HandlerOK, StoreOK

LEMMA RequestsOfKind ==
  ASSUME NEW r \in Requests
  PROVE  /\ r.op \in {"register", "login", "refresh", "logout", "access"}
         /\ r.op \in {"register", "login"} => r \in SignUpRequest
         /\ r.op = "refresh" => r \in RefreshRequest
         /\ r.op = "logout" => r \in LogoutRequest
         /\ r.op = "access" => r \in AccessRequest
BY AuthAssumption DEF Request, SignUpRequest, RefreshRequest, LogoutRequest, AccessRequest

LEMMA AdvancesReflexively ==
  ASSUME NEW S, NEW T PROVE Advances(S, T, S, T)
BY DEF Advances, SessionRows, TokenRows

LEMMA NothingStoredGoesOn ==
  ASSUME IInv, NothingStored, now' = now
  PROVE  StoreGoesOn
BY AdvancesReflexively DEF IInv, NothingStored, StoreGoesOn

LEMMA OpenSessionStores ==
  ASSUME IInv, NEW h \in Handlers, pc[h] # "idle", NEW user \in Users,
         OpenSession(h, user)
  PROVE  /\ StoreGoesOn
         /\ \E k \in TokenIds : AnswerWith(h, "success", k) /\ tokens'[k] # NoRow
<1>1. PICK s \in SessionIds, k \in TokenIds :
        /\ NextId(sessions, s)
        /\ NextId(tokens, k)
        /\ LET row == NewSession(user, checkedAt[h]) IN
             StoreCleaned([sessions EXCEPT ![s] = row],
                          [tokens EXCEPT ![k] = NewToken(s, row.expires)],
                          checkedAt[h])
        /\ AnswerWith(h, "success", k)
  BY DEF OpenSession
<1> DEFINE t == checkedAt[h]
           S == [sessions EXCEPT ![s] = NewSession(user, t)]
           T == [tokens EXCEPT ![k] = NewToken(s, t + Lifetime)]
<1>2. /\ StoreOK(sessions, tokens, now) /\ TablesType(sessions, tokens)
      /\ now \in Nat /\ t \in Nat /\ t <= now
      /\ sessions[s] = NoRow /\ tokens[k] = NoRow
  BY <1>1, HandlerFacts DEF NextId
<1>3. StoreCleaned(S, T, t)
  BY <1>1 DEF NewSession
<1>4. StoreOK(S, T, now)
  BY <1>2, OpeningKeeps
<1>5. Advances(sessions, tokens, S, T)
  BY <1>2, OpeningAdvances
<1>6. k \in TokenRows(T)
  BY <1>2, NewTokenRow, AuthAssumption DEF TokenRows, TablesType
<1> HIDE DEF S, T, t
<1>7. /\ StoreOK(sessions', tokens', now)
      /\ Advances(sessions, tokens, sessions', tokens')
      /\ Advances(S, T, sessions', tokens')
  BY <1>2, <1>3, <1>4, <1>5, CleanedStore
<1>8. tokens'[k] # NoRow
  BY <1>6, <1>7 DEF Advances
<1>9. now' = now
  BY <1>1 DEF AnswerWith
<1>10. QED
  BY <1>1, <1>7, <1>8, <1>9 DEF StoreGoesOn

(* A refresh that is not turned away for good presents a token that is     *)
(* stored, of a session that is open.                                      *)
LEMMA VerdictFacts ==
  ASSUME NEW k, NEW t, RefreshVerdict(k, t) \in {"success", "concurrent", "replay"}
  PROVE  /\ k \in KeptTokens(tokens)
         /\ SessionIsActive(tokens[k].session, t)
         /\ tokens[k].revoked = Never
         /\ RefreshVerdict(k, t) = "success" => tokens[k].used = Never
BY DEF RefreshVerdict, SpentVerdict

LEMMA RotateStores ==
  ASSUME IInv, NEW h \in Handlers, Rotate(h)
  PROVE  /\ StoreGoesOn
         /\ \E k \in TokenIds : AnswerWith(h, "success", k) /\ tokens'[k] # NoRow
<1> DEFINE t == checkedAt[h]
           spent == req[h].token
           s == tokens[spent].session
           end == Earlier(sessions[s].expires, t + Lifetime)
<1>1. PICK k \in TokenIds :
        /\ NextId(tokens, k)
        /\ StoreCleaned(sessions, [tokens EXCEPT ![spent] = SpentToken(@, t),
                                                 ![k] = NewToken(s, end)], t)
        /\ AnswerWith(h, "success", k)
  BY DEF Rotate
<1> DEFINE T == [tokens EXCEPT ![spent] = SpentToken(@, t), ![k] = NewToken(s, end)]
<1>2. /\ StoreOK(sessions, tokens, now) /\ TablesType(sessions, tokens)
      /\ now \in Nat /\ t \in Nat /\ t <= now
      /\ RefreshOK(h)
      /\ tokens[k] = NoRow
  BY <1>1, HandlerFacts DEF Rotate, Serves, HandlerOK, NextId
<1>3. /\ spent \in TokenIds /\ Live(tokens, spent)
      /\ sessions[s].kept /\ sessions[s].revoked = Never
      /\ sessions[s].expires <= t + Lifetime
  BY <1>2, VerdictFacts
     DEF Rotate, RefreshVerdictOf, RefreshOK, KeptTokens, KeptSessions, SessionIsActive, Live
<1>4. StoreOK(sessions, T, now)
  BY <1>1, <1>2, <1>3, RotationKeeps
<1>5. spent \in TokenRows(tokens) /\ s \in SessionIds /\ sessions[s] \in Session
  BY <1>2, <1>3, StoredRows DEF Live, TokenRows, StoreOK, TokensBelong, Belongs, SessionRows
<1>6. Advances(sessions, tokens, sessions, T)
  BY <1>2, <1>5, RotationAdvances
<1>7. k \in TokenRows(T)
  <2>1. end \in Nat
    BY <1>2, <1>5, AuthAssumption DEF Earlier, Session
  <2>2. QED
    BY <1>2, <1>5, <2>1, NewTokenRow DEF TokenRows, TablesType
<1> HIDE DEF T
<1>8. /\ StoreOK(sessions', tokens', now)
      /\ Advances(sessions, tokens, sessions', tokens')
      /\ Advances(sessions, T, sessions', tokens')
  BY <1>1, <1>2, <1>4, <1>6, CleanedStore DEF T
<1>9. tokens'[k] # NoRow
  BY <1>7, <1>8 DEF Advances
<1>10. now' = now
  BY <1>1 DEF AnswerWith
<1>11. QED
  BY <1>1, <1>8, <1>9, <1>10 DEF StoreGoesOn

LEMMA ReplayStores ==
  ASSUME IInv, NEW h \in Handlers, Replay(h)
  PROVE  /\ StoreGoesOn
         /\ sessions'[tokens[req[h].token].session].revoked # Never
<1> DEFINE t == checkedAt[h]
           s == tokens[req[h].token].session
           S == [sessions EXCEPT ![s] = RevokedSession(@, t)]
           T == TokensRevoked(tokens, s, t)
<1>1. /\ StoreOK(sessions, tokens, now) /\ TablesType(sessions, tokens)
      /\ now \in Nat /\ t \in Nat /\ t <= now /\ now' = now
      /\ StoreCleaned(S, T, t)
  BY HandlerFacts DEF Replay, Serves, Answer, AnswerWith
<1>2. s \in SessionRows(sessions)
  BY VerdictFacts DEF Replay, RefreshVerdictOf, SessionIsActive, KeptSessions, SessionRows
<1>3. StoreOK(S, T, now) /\ S[s].revoked # Never
  BY <1>1, <1>2, RevocationKeeps
<1>4. Advances(sessions, tokens, S, T)
  BY <1>1, <1>2, RevocationAdvances
<1>5. s \in SessionRows(S)
  BY <1>2, <1>4 DEF Advances, SessionRows
<1> HIDE DEF S, T
<1>6. /\ StoreOK(sessions', tokens', now)
      /\ Advances(sessions, tokens, sessions', tokens')
      /\ Advances(S, T, sessions', tokens')
  BY <1>1, <1>3, <1>4, CleanedStore
<1>7. sessions'[s].revoked # Never
  BY <1>3, <1>5, <1>6 DEF Advances
<1>8. QED
  BY <1>1, <1>6, <1>7 DEF StoreGoesOn

LEMMA RevokeSessionStores ==
  ASSUME IInv, NEW s \in SessionRows(sessions), NEW t \in Nat, RevokeSession(s, t),
         now' = now
  PROVE  StoreGoesOn /\ sessions'[s].revoked # Never
<1>1. StoreOK(sessions, tokens, now) /\ TablesType(sessions, tokens) /\ now \in Nat
  BY DEF IInv, TypeOK, StoreOK
<1>2. QED
  BY <1>1, RevocationKeeps, RevocationAdvances DEF RevokeSession, StoreGoesOn

-----------------------------------------------------------------------------
(* The handlers *)

(* What is known of a handler stays true while others work. *)
LEMMA OthersKeep ==
  ASSUME IInv, TypeOK', StoreGoesOn, now' >= now, NEW b \in Handlers,
         pc'[b] = pc[b], req'[b] = req[b], checkedAt'[b] = checkedAt[b],
         reply'[b] = reply[b], minted'[b] = minted[b]
  PROVE  HandlerOK(b)'
<1>1. /\ TablesType(sessions, tokens) /\ HandlerOK(b)
      /\ now \in Nat /\ now' \in Nat /\ checkedAt[b] \in Nat /\ Lifetime \in Nat
      /\ Advances(sessions, tokens, sessions', tokens')
      /\ TokensBelong(sessions, tokens)
  BY AuthAssumption DEF IInv, TypeOK, StoreOK, StoreGoesOn
<1>2. minted[b] # NoToken => minted[b] \in TokenRows(tokens)
  BY <1>1 DEF IInv, TypeOK, HandlerOK, TokenRows
<1>3. pc[b] # "idle" /\ req[b].op = "refresh" => RefreshOK(b)'
  <2> SUFFICES ASSUME pc[b] # "idle", req[b].op = "refresh" PROVE RefreshOK(b)'
    OBVIOUS
  <2>1. req[b].token \in TokenRows(tokens) /\ RefreshOK(b)
    BY <1>1, RequestsOfKind DEF HandlerOK, RefreshRequest, RefreshOK, TokenRows
  <2>2. tokens[req[b].token].session \in SessionRows(sessions)
    BY <1>1, <2>1, StoredRows DEF TokensBelong, Belongs, SessionRows
  <2>3. QED
    BY <1>1, <2>1, <2>2 DEF RefreshOK, Advances
<1>4. pc[b] # "idle" /\ req[b].op = "logout" => LogoutOK(b)' /\ LogoutDone(b)'
  <2> SUFFICES ASSUME pc[b] # "idle", req[b].op = "logout"
               PROVE  LogoutOK(b)' /\ LogoutDone(b)'
    OBVIOUS
  <2>1. req[b] \in LogoutRequest /\ LogoutOK(b) /\ LogoutDone(b)
    BY <1>1, RequestsOfKind DEF HandlerOK
  <2>2. /\ req[b].session # NoSession => req[b].session \in SessionRows(sessions)
        /\ req[b].token # NoToken => req[b].token \in TokenRows(tokens)
    BY <2>1 DEF LogoutOK, LogoutRequest, SessionRows, TokenRows
  <2>3. LogoutOK(b)'
    BY <1>1, <2>1, <2>2 DEF LogoutOK, Advances
  <2>4. LogoutDone(b)'
    <3> SUFFICES ASSUME pc[b] = "answering", reply[b] = "success", NamesSession(req[b]),
                        req[b].session # NoSession \/ Lifetime <= Retention,
                        Open(sessions', LoggedOutSession(req[b])', now')
                 PROVE  FALSE
      BY DEF LogoutDone, NamesSession
    <3>1. /\ LoggedOutSession(req[b]) \in SessionRows(sessions)
          /\ LoggedOutSession(req[b])' = LoggedOutSession(req[b])
      BY <1>1, <2>2, StoredRows
         DEF NamesSession, LoggedOutSession, Advances, TokensBelong, Belongs, SessionRows
    <3>2. Open(sessions, LoggedOutSession(req[b]), now)
      BY <1>1, <3>1, OpenedBefore
    <3>3. QED
      BY <2>1, <3>2 DEF LogoutDone
  <2>5. QED
    BY <2>3, <2>4
<1>5. minted[b] # NoToken => tokens'[minted[b]] # NoRow
  BY <1>1, <1>2 DEF Advances
<1>6. QED
  BY <1>1, <1>3, <1>4, <1>5 DEF HandlerOK

LEMMA KnownKept ==
  ASSUME IInv, StoreGoesOn
  PROVE  \A k \in known : tokens'[k] # NoRow
BY DEF IInv, TypeOK, StoreGoesOn, Advances, TokenRows

(* A handler at work has its answer. *)
LEMMA AnswerKeeps ==
  ASSUME IInv, NEW h \in Handlers, pc[h] \in {"pending", "by_cookie"}, StoreGoesOn,
         users' \in [Users -> {"unregistered", "active", "disabled"}],
         NEW status \in Statuses, NEW k \in TokenIds \cup {NoToken},
         k # NoToken => tokens'[k] # NoRow,
         AnswerWith(h, status, k),
         req[h].op = "logout" => LogoutDone(h)'
  PROVE  IInv'
<1>1. TypeOK'
  BY DEF IInv, TypeOK, AnswerWith, StoreGoesOn, StoreOK, TablesType
<1>2. /\ pc'[h] = "answering" /\ reply'[h] = status /\ minted'[h] = k
      /\ req' = req /\ checkedAt' = checkedAt /\ known' = known /\ now' = now
      /\ \A b \in Handlers \ {h} :
           pc'[b] = pc[b] /\ reply'[b] = reply[b] /\ minted'[b] = minted[b]
  BY DEF IInv, TypeOK, AnswerWith
<1>3. \A b \in Handlers \ {h} : HandlerOK(b)'
  BY <1>1, <1>2, OthersKeep DEF IInv, TypeOK
<1>4. /\ pc[h] # "idle" /\ HandlerOK(h) /\ req[h] \in Requests
      /\ TablesType(sessions, tokens) /\ TokensBelong(sessions, tokens)
      /\ Advances(sessions, tokens, sessions', tokens')
  BY HandlerFacts DEF StoreGoesOn, StoreOK
<1>5. req[h].op = "refresh" => RefreshOK(h)'
  <2> SUFFICES ASSUME req[h].op = "refresh" PROVE RefreshOK(h)'
    OBVIOUS
  <2>1. req[h].token \in TokenRows(tokens) /\ RefreshOK(h)
    BY <1>4, RequestsOfKind DEF HandlerOK, RefreshRequest, RefreshOK, TokenRows
  <2>2. tokens[req[h].token].session \in SessionRows(sessions)
    BY <1>4, <2>1, StoredRows DEF TokensBelong, Belongs, SessionRows
  <2>3. QED
    BY <1>2, <1>4, <2>1, <2>2 DEF RefreshOK, Advances
<1>6. req[h].op = "logout" => LogoutOK(h)'
  <2> SUFFICES ASSUME req[h].op = "logout" PROVE LogoutOK(h)'
    OBVIOUS
  <2>1. req[h] \in LogoutRequest /\ LogoutOK(h)
    BY <1>4, RequestsOfKind DEF HandlerOK
  <2>2. /\ req[h].session # NoSession => req[h].session \in SessionRows(sessions)
        /\ req[h].token # NoToken => req[h].token \in TokenRows(tokens)
    BY <2>1 DEF LogoutOK, LogoutRequest, SessionRows, TokenRows
  <2>3. QED
    BY <1>2, <1>4, <2>1, <2>2 DEF LogoutOK, Advances
<1>7. HandlerOK(h)'
  BY <1>2, <1>4, <1>5, <1>6 DEF HandlerOK
<1>8. \A b \in Handlers : HandlerOK(b)'
  BY <1>3, <1>7
<1>9. \A j \in known' : tokens'[j] # NoRow
  BY <1>2, KnownKept
<1>10. QED
  BY <1>1, <1>8, <1>9 DEF IInv, StoreGoesOn

(* A handler that has ended, or never begun, knows nothing. *)
LEMMA ForgetKeeps ==
  ASSUME IInv, NEW h \in Handlers, Forget(h), NothingStored, now' = now,
         known' \in SUBSET TokenIds, \A k \in known' : tokens[k] # NoRow
  PROVE  IInv'
<1>1. TypeOK'
  BY DEF IInv, TypeOK, Forget, NothingStored
<1>2. /\ pc'[h] = "idle" /\ checkedAt'[h] = 0
      /\ reply'[h] = "none" /\ minted'[h] = NoToken
      /\ \A b \in Handlers \ {h} :
           /\ pc'[b] = pc[b] /\ req'[b] = req[b] /\ checkedAt'[b] = checkedAt[b]
           /\ reply'[b] = reply[b] /\ minted'[b] = minted[b]
  BY DEF IInv, TypeOK, Forget
<1>3. StoreGoesOn
  BY NothingStoredGoesOn
<1>4. \A b \in Handlers \ {h} : HandlerOK(b)'
  BY <1>1, <1>2, <1>3, OthersKeep DEF IInv, TypeOK
<1>5. HandlerOK(h)'
  BY <1>1, <1>2 DEF HandlerOK, TypeOK
<1>6. QED
  BY <1>1, <1>3, <1>4, <1>5 DEF IInv, StoreGoesOn, NothingStored

(* Nothing of the handlers changes. *)
LEMMA EnvironmentKeeps ==
  ASSUME IInv, TypeOK', StoreGoesOn, now' >= now, UNCHANGED <<handlerVars, known>>
  PROVE  IInv'
<1>1. \A b \in Handlers : HandlerOK(b)'
  BY OthersKeep DEF handlerVars
<1>2. QED
  BY <1>1, KnownKept DEF IInv, StoreGoesOn

LEMMA InitOK == Init => IInv
<1> SUFFICES ASSUME Init PROVE IInv
  OBVIOUS
<1>1. TypeOK
  BY DEF Init, TypeOK
<1>2. StoreOK(sessions, tokens, now)
  BY DEF Init, StoreOK, TablesType, TokensBelong, AtMostOneLive, OpenIsCarried,
         EndInTime, DeletedAreOver, TokenRows, SessionRows, Live, Open
<1>3. \A h \in Handlers : HandlerOK(h)
  BY DEF Init, HandlerOK
<1>4. QED
  BY <1>1, <1>2, <1>3 DEF IInv, Init

LEMMA ArriveKeeps ==
  ASSUME IInv, NEW h \in Handlers, NEW r \in Requests, Arrive(h, r)
  PROVE  IInv'
<1>1. FirstStop(r) \in {"pending", "by_cookie", "answering"}
  BY DEF FirstStop
<1>2. FirstReply(r) \in {"none", "rejected", "success"}
  BY DEF FirstReply
<1>3. r \in Request
  BY AuthAssumption
<1>4. TypeOK'
  BY <1>1, <1>2, <1>3 DEF IInv, TypeOK, Arrive, Statuses
<1>5. StoreGoesOn
  BY NothingStoredGoesOn DEF Arrive, NothingStored
<1>6. /\ pc'[h] = FirstStop(r) /\ req'[h] = r /\ checkedAt'[h] = now
      /\ reply'[h] = FirstReply(r) /\ minted'[h] = NoToken
      /\ \A b \in Handlers \ {h} :
           /\ pc'[b] = pc[b] /\ req'[b] = req[b] /\ checkedAt'[b] = checkedAt[b]
           /\ reply'[b] = reply[b] /\ minted'[b] = minted[b]
      /\ UNCHANGED <<sessions, tokens, known, now>>
  BY DEF IInv, TypeOK, HandlerOK, Arrive
<1>7. \A b \in Handlers \ {h} : HandlerOK(b)'
  BY <1>4, <1>5, <1>6, OthersKeep DEF IInv, TypeOK
<1>8. /\ now \in Nat /\ TokensBelong(sessions, tokens) /\ EndInTime(sessions, now)
      /\ TablesType(sessions, tokens) /\ \A k \in known : k \in TokenRows(tokens)
  BY DEF IInv, TypeOK, StoreOK, TokenRows
<1>9. \A k \in TokenRows(tokens) : tokens[k].session \in SessionRows(sessions)
  BY <1>8, StoredRows DEF TokensBelong, Belongs, SessionRows
<1>10. r.op = "refresh" => RefreshOK(h)'
  BY <1>6, <1>8, <1>9 DEF Arrive, CanSend, RefreshOK, EndInTime, TokenRows
<1>11. r.op = "logout" => LogoutOK(h)' /\ LogoutDone(h)'
  <2> SUFFICES ASSUME r.op = "logout" PROVE LogoutOK(h)' /\ LogoutDone(h)'
    OBVIOUS
  <2>1. /\ r.session # NoSession => sessions[r.session] # NoRow
        /\ r.token # NoToken => tokens[r.token] # NoRow
    BY <1>8, <1>9 DEF Arrive, CanSend, KnownSessions, SessionRows, TokenRows
  <2>2. FirstStop(r) = "by_cookie" => r.token # NoToken /\ r.session = NoSession
    BY DEF FirstStop
  <2>3. LogoutOK(h)'
    BY <1>6, <2>1, <2>2 DEF LogoutOK
  <2>4. FirstStop(r) = "answering" => ~NamesSession(r)
    BY DEF FirstStop, NamesSession
  <2>5. LogoutDone(h)'
    BY <1>6, <2>4 DEF LogoutDone, NamesSession
  <2>6. QED
    BY <2>3, <2>5
<1>12. FirstStop(r) = "by_cookie" => r.op = "logout"
  BY DEF FirstStop
<1>13. FirstStop(r) # "answering" => FirstReply(r) = "none"
  BY DEF FirstReply
<1>14. HandlerOK(h)'
  BY <1>6, <1>8, <1>10, <1>11, <1>12, <1>13 DEF HandlerOK
<1>15. QED
  BY <1>4, <1>5, <1>6, <1>7, <1>14, KnownKept DEF IInv, StoreGoesOn

LEMMA UserKept ==
  ASSUME IInv
  PROVE  /\ users \in [Users -> {"unregistered", "active", "disabled"}]
         /\ \A u \in Users : \A status \in {"unregistered", "active", "disabled"} :
              [users EXCEPT ![u] = status] \in [Users -> {"unregistered", "active", "disabled"}]
BY DEF IInv, TypeOK

LEMMA SignUpKeeps ==
  ASSUME IInv, NEW h \in Handlers, Register(h) \/ Login(h)
  PROVE  IInv'
<1>1. /\ pc[h] = "pending" /\ req[h].op \in {"register", "login"}
  BY DEF Register, Login, Serves
<1>2. req[h].user \in Users
  BY <1>1, HandlerFacts, RequestsOfKind DEF SignUpRequest
<1>3. users' \in [Users -> {"unregistered", "active", "disabled"}]
  BY <1>2, UserKept DEF Register, Login, NothingStored
<1>4. CASE OpenSession(h, req[h].user)
  BY <1>1, <1>2, <1>3, <1>4, OpenSessionStores, AnswerKeeps DEF Statuses
<1>5. CASE Answer(h, "rejected") /\ NothingStored
  <2>1. now' = now
    BY <1>5 DEF Answer, AnswerWith
  <2>2. QED
    BY <1>1, <1>3, <1>5, <2>1, NothingStoredGoesOn, AnswerKeeps DEF Answer, Statuses
<1>6. QED
  BY <1>4, <1>5 DEF Register, Login

LEMMA RefreshKeeps ==
  ASSUME IInv, NEW h \in Handlers, Rotate(h) \/ Replay(h) \/ DenyRefresh(h)
  PROVE  IInv'
<1>1. pc[h] = "pending" /\ req[h].op = "refresh"
  BY DEF Rotate, Replay, DenyRefresh, Serves
<1>2. users' \in [Users -> {"unregistered", "active", "disabled"}]
  BY UserKept DEF Rotate, Replay, DenyRefresh, NothingStored
<1>3. CASE Rotate(h)
  BY <1>1, <1>2, <1>3, RotateStores, AnswerKeeps DEF Statuses
<1>4. CASE Replay(h)
  BY <1>1, <1>2, <1>4, ReplayStores, AnswerKeeps DEF Replay, Answer, Statuses
<1>5. CASE DenyRefresh(h)
  <2>1. now' = now
    BY <1>5 DEF DenyRefresh, Answer, AnswerWith
  <2>2. QED
    BY <1>1, <1>2, <1>5, <2>1, NothingStoredGoesOn, AnswerKeeps
       DEF DenyRefresh, Answer, Statuses
<1>6. QED
  BY <1>3, <1>4, <1>5

LEMMA QuietKeeps ==
  ASSUME IInv, NEW h \in Handlers, Access(h) \/ Fail(h)
  PROVE  IInv'
<1>1. PICK status \in {"success", "rejected", "error"} :
        /\ pc[h] \in {"pending", "by_cookie"} /\ Answer(h, status) /\ NothingStored
        /\ req[h].op = "logout" => status = "error"
  BY DEF Access, Fail, Serves
<1>2. /\ now' = now /\ reply'[h] = status
      /\ users' \in [Users -> {"unregistered", "active", "disabled"}]
  BY <1>1, UserKept DEF Answer, AnswerWith, NothingStored, IInv, TypeOK
<1>3. req[h].op = "logout" => LogoutDone(h)'
  BY <1>1, <1>2 DEF LogoutDone
<1>4. QED
  BY <1>1, <1>2, <1>3, NothingStoredGoesOn, AnswerKeeps DEF Answer, Statuses

LEMMA EndKeeps ==
  ASSUME IInv, NEW h \in Handlers, Deliver(h) \/ CutOff(h)
  PROVE  IInv'
<1>1. Forget(h) /\ NothingStored /\ now' = now
  BY DEF Deliver, CutOff, NothingStored
<1>2. known' \in SUBSET TokenIds /\ \A k \in known' : tokens[k] # NoRow
  BY AuthAssumption DEF IInv, TypeOK, HandlerOK, Deliver, CutOff
<1>3. QED
  BY <1>1, <1>2, ForgetKeeps

LEMMA LogoutFacts ==
  ASSUME IInv, NEW h \in Handlers, pc[h] # "idle", req[h].op = "logout"
  PROVE  /\ req[h] \in LogoutRequest
         /\ LogoutOK(h)
         /\ req[h].session # NoSession =>
              req[h].session \in SessionRows(sessions) /\ NoSession \notin SessionIds
         /\ req[h].token # NoToken =>
              /\ req[h].token \in TokenRows(tokens)
              /\ tokens[req[h].token].session \in SessionRows(sessions)
              /\ Belongs(tokens[req[h].token], sessions[tokens[req[h].token].session])
<1>1. /\ TablesType(sessions, tokens) /\ TokensBelong(sessions, tokens)
      /\ HandlerOK(h) /\ req[h] \in LogoutRequest
  BY HandlerFacts, RequestsOfKind DEF StoreOK
<1>2. LogoutOK(h)
  BY <1>1 DEF HandlerOK
<1>3. req[h].token # NoToken => req[h].token \in TokenRows(tokens)
  BY <1>1, <1>2 DEF LogoutOK, LogoutRequest, TokenRows
<1>4. QED
  BY <1>1, <1>2, <1>3, StoredRows, AuthAssumption
     DEF LogoutOK, LogoutRequest, SessionRows, TokensBelong, Belongs

LEMMA LogoutBySessionKeeps ==
  ASSUME IInv, NEW h \in Handlers, LogoutBySession(h)
  PROVE  IInv'
<1> DEFINE s == req[h].session
<1>1. pc[h] = "pending" /\ req[h].op = "logout"
  BY DEF LogoutBySession, Serves
<1>2. /\ req[h] \in LogoutRequest /\ LogoutOK(h)
      /\ s # NoSession => s \in SessionRows(sessions)
  BY <1>1, LogoutFacts
<1>3. /\ checkedAt[h] \in Nat /\ now \in Nat /\ TablesType(sessions, tokens)
      /\ req[h] \in Requests
  BY <1>1, HandlerFacts
<1>4. users' \in [Users -> {"unregistered", "active", "disabled"}]
  BY UserKept DEF LogoutBySession, NothingStored
<1>5. CASE s \in KeptSessions(sessions)
  <2>1. /\ RevokeSession(s, checkedAt[h]) /\ Answer(h, "success") /\ now' = now
        /\ s \in SessionRows(sessions) /\ s # NoSession
    BY <1>5, AuthAssumption
       DEF LogoutBySession, KeptSessions, SessionRows, Answer, AnswerWith
  <2>2. StoreGoesOn /\ sessions'[s].revoked # Never
    BY <1>3, <2>1, RevokeSessionStores
  <2>3. LogoutDone(h)'
    BY <2>1, <2>2 DEF LogoutDone, LoggedOutSession, Open, Answer, AnswerWith
  <2>4. QED
    BY <1>1, <1>4, <2>1, <2>2, <2>3, AnswerKeeps DEF Answer, Statuses
<1>6. CASE /\ s \notin KeptSessions(sessions)
           /\ req[h].bearer \/ req[h].token = NoToken
           /\ Answer(h, "success") /\ NothingStored
  <2>1. now' = now /\ req' = req /\ sessions' = sessions /\ tokens' = tokens
    BY <1>6 DEF Answer, AnswerWith, NothingStored
  <2>2. NamesSession(req[h]) => s # NoSession
    BY <1>6 DEF NamesSession
  <2>3. s # NoSession => ~Open(sessions, s, now)
    BY <1>2, <1>6 DEF KeptSessions, SessionRows, Open
  <2>4. LogoutDone(h)'
    BY <2>1, <2>2, <2>3 DEF LogoutDone, LoggedOutSession, NamesSession
  <2>5. QED
    BY <1>1, <1>4, <1>6, <2>1, <2>4, NothingStoredGoesOn, AnswerKeeps DEF Answer, Statuses
<1>7. CASE /\ s \notin KeptSessions(sessions)
           /\ ~req[h].bearer /\ req[h].token # NoToken
           /\ pc' = [pc EXCEPT ![h] = "by_cookie"]
           /\ checkedAt' = [checkedAt EXCEPT ![h] = now]
           /\ NothingStored
           /\ UNCHANGED <<req, reply, minted, known, now>>
  <2>1. TypeOK'
    BY <1>7 DEF IInv, TypeOK, NothingStored
  <2>2. StoreGoesOn
    BY <1>7, NothingStoredGoesOn
  <2>3. /\ pc'[h] = "by_cookie" /\ checkedAt'[h] = now
        /\ \A b \in Handlers \ {h} : pc'[b] = pc[b] /\ checkedAt'[b] = checkedAt[b]
    BY <1>7 DEF IInv, TypeOK
  <2>4. \A b \in Handlers \ {h} : HandlerOK(b)'
    BY <1>7, <2>1, <2>2, <2>3, OthersKeep DEF IInv, TypeOK
  <2>5. LogoutOK(h)'
    BY <1>2, <1>7 DEF LogoutOK, KeptSessions, SessionRows, NothingStored
  <2>6. HandlerOK(h)'
    BY <1>1, <1>3, <1>7, <2>3, <2>5 DEF IInv, HandlerOK, LogoutDone, NothingStored
  <2>7. QED
    BY <1>7, <2>1, <2>2, <2>4, <2>6, KnownKept DEF IInv, StoreGoesOn
<1>8. QED
  BY <1>5, <1>6, <1>7 DEF LogoutBySession

LEMMA LogoutByCookieKeeps ==
  ASSUME IInv, NEW h \in Handlers, LogoutByCookie(h)
  PROVE  IInv'
<1> DEFINE k == req[h].token
           s == tokens[k].session
<1>1. pc[h] = "by_cookie" /\ req[h].op = "logout" /\ Answer(h, "success")
  BY DEF LogoutByCookie, IInv, HandlerOK
<1>2. /\ req[h] \in LogoutRequest /\ LogoutOK(h) /\ k # NoToken
      /\ req[h].session # NoSession => req[h].session \in SessionRows(sessions)
      /\ k \in TokenRows(tokens) /\ s \in SessionRows(sessions)
  BY <1>1, LogoutFacts DEF LogoutOK
<1>3. /\ checkedAt[h] \in Nat /\ now \in Nat /\ TablesType(sessions, tokens)
      /\ StoreOK(sessions, tokens, now)
      /\ now' = now /\ req' = req
  BY <1>1, HandlerFacts DEF Answer, AnswerWith
<1>4. users' \in [Users -> {"unregistered", "active", "disabled"}]
  BY UserKept DEF LogoutByCookie, NothingStored
<1>5. /\ StoreGoesOn
      /\ sessions'[s].revoked # Never \/ (NothingStored /\ ~tokens[k].kept)
  <2>1. CASE NamesStoredToken(h)
    BY <1>2, <1>3, <2>1, RevokeSessionStores DEF LogoutByCookie
  <2>2. CASE ~NamesStoredToken(h)
    BY <1>2, <1>3, <2>2, NothingStoredGoesOn
       DEF LogoutByCookie, NamesStoredToken, KeptTokens, TokenRows
  <2>3. QED
    BY <2>1, <2>2
<1>6. LogoutDone(h)'
  <2>1. ASSUME req[h].session # NoSession
        PROVE  ~Open(sessions', req[h].session, now)
    <3>1. ~Open(sessions, req[h].session, now)
      BY <1>1, <1>2, <2>1 DEF LogoutOK, Open
    <3>2. QED
      BY <1>2, <1>3, <1>5, <2>1, <3>1, OpenedBefore DEF StoreGoesOn
  <2>2. ASSUME Lifetime <= Retention PROVE ~Open(sessions', s, now)
    <3>1. CASE sessions'[s].revoked # Never
      BY <3>1 DEF Open
    <3>2. CASE NothingStored /\ ~tokens[k].kept
      BY <1>2, <1>3, <2>2, <3>2 DEF StoreOK, DeletedAreOver, NothingStored
    <3>3. QED
      BY <1>5, <3>1, <3>2
  <2>3. tokens'[k].session = s
    BY <1>2, <1>5 DEF StoreGoesOn, Advances
  <2>4. QED
    BY <1>3, <2>1, <2>2, <2>3 DEF LogoutDone, LoggedOutSession
<1>7. QED
  BY <1>1, <1>4, <1>5, <1>6, AnswerKeeps DEF Answer, Statuses

LEMMA HandlerStepKeeps ==
  ASSUME IInv, NEW h \in Handlers, HandlerStep(h)
  PROVE  IInv'
BY SignUpKeeps, RefreshKeeps, QuietKeeps, LogoutBySessionKeeps, LogoutByCookieKeeps,
   EndKeeps
   DEF HandlerStep

LEMMA DisableKeeps ==
  ASSUME IInv, NEW u \in Users, Disable(u)
  PROVE  IInv'
<1>1. TypeOK'
  BY DEF IInv, TypeOK, Disable, handlerVars
<1>2. StoreGoesOn
  BY AdvancesReflexively DEF IInv, Disable, StoreGoesOn
<1>3. QED
  BY <1>1, <1>2, EnvironmentKeeps DEF Disable, IInv, TypeOK

LEMMA TickKeeps == IInv /\ Tick => IInv'
<1> SUFFICES ASSUME IInv, Tick PROVE IInv'
  OBVIOUS
<1>1. TypeOK' /\ now \in Nat /\ now' = now + 1
  BY DEF IInv, TypeOK, Tick, handlerVars
<1>2. \A s \in SessionIds : Open(sessions, s, now') => Open(sessions, s, now)
  BY <1>1, OpenedBefore, AdvancesReflexively DEF IInv, StoreOK, Open, SessionRows
<1>3. \A k \in TokenRows(tokens) : tokens[k].session \in SessionIds
  BY StoredRows DEF IInv, StoreOK
<1>4. EndInTime(sessions, now')
  <2>1. Lifetime \in Nat /\ \A s \in SessionRows(sessions) : sessions[s].expires \in Nat
    BY StoredRows, AuthAssumption DEF IInv, StoreOK, Session
  <2>2. QED
    BY <1>1, <2>1 DEF IInv, StoreOK, EndInTime
<1>5. StoreOK(sessions, tokens, now')
  BY <1>2, <1>3, <1>4 DEF IInv, StoreOK, OpenIsCarried, DeletedAreOver
<1>6. StoreGoesOn
  BY <1>5, AdvancesReflexively DEF Tick, StoreGoesOn
<1>7. QED
  BY <1>1, <1>6, EnvironmentKeeps DEF Tick

LEMMA StutterKeeps == IInv /\ UNCHANGED vars => IInv'
<1> SUFFICES ASSUME IInv, UNCHANGED vars PROVE IInv'
  OBVIOUS
<1>1. TypeOK' /\ StoreGoesOn /\ now' >= now
  BY AdvancesReflexively DEF IInv, TypeOK, vars, handlerVars, StoreGoesOn
<1>2. QED
  BY <1>1, EnvironmentKeeps DEF vars

LEMMA NextKeeps == IInv /\ [Next]_vars => IInv'
<1> SUFFICES ASSUME IInv, [Next]_vars PROVE IInv'
  OBVIOUS
<1>1. ASSUME NEW h \in Handlers, NEW r \in Requests, Arrive(h, r) PROVE IInv'
  BY <1>1, ArriveKeeps
<1>2. ASSUME NEW h \in Handlers, HandlerStep(h) PROVE IInv'
  BY <1>2, HandlerStepKeeps
<1>3. ASSUME NEW u \in Users, Disable(u) PROVE IInv'
  BY <1>3, DisableKeeps
<1>4. QED
  BY <1>1, <1>2, <1>3, TickKeeps, StutterKeeps DEF Next

-----------------------------------------------------------------------------
(* Safety *)

(* Every reachable state satisfies the inductive invariant. *)
THEOREM AuthInvariantHolds == Spec => []IInv
BY InitOK, NextKeeps, PTL DEF Spec

(* However the transactions interleave, fail and clean up, every row they  *)
(* commit is a well-formed row of its table.                               *)
THEOREM AuthTypeCorrect == Spec => []TypeOK
<1>1. IInv => TypeOK
  BY DEF IInv
<1>2. QED
  BY <1>1, AuthInvariantHolds, PTL

LEMMA ActiveIsOpen ==
  ASSUME IInv
  PROVE  /\ \A s \in SessionIds : SessionIsActive(s, now) <=> Open(sessions, s, now)
         /\ \A s \in SessionIds, k \in TokenIds :
              k \in LiveTokens(s) <=> Live(tokens, k) /\ tokens[k].session = s
BY DEF SessionIsActive, Open, KeptSessions, LiveTokens, TokensOf, KeptTokens, Live

(* A session that is open has exactly one refresh token that works, for    *)
(* whatever lifetimes, grace, retention and clean-up size.                 *)
THEOREM OneTokenAtATime == Spec => []OneLiveToken
<1>1. IInv => OneLiveToken
  <2> SUFFICES ASSUME IInv, NEW s \in SessionIds, SessionIsActive(s, now)
               PROVE  \E k \in TokenIds : LiveTokens(s) = {k}
    BY DEF OneLiveToken
  <2>1. PICK k \in TokenIds : Live(tokens, k) /\ tokens[k].session = s
    BY ActiveIsOpen DEF IInv, StoreOK, OpenIsCarried
  <2>2. \A l \in LiveTokens(s) : l \in TokenIds
    BY DEF LiveTokens, TokensOf, KeptTokens
  <2>3. \A l \in LiveTokens(s) : l = k
    BY <2>1, <2>2, ActiveIsOpen DEF IInv, StoreOK, AtMostOneLive
  <2>4. k \in LiveTokens(s)
    BY <2>1, ActiveIsOpen
  <2>5. QED
    BY <2>3, <2>4
<1>2. QED
  BY <1>1, AuthInvariantHolds, PTL

(* Once a session is revoked none of its tokens works, whatever refreshes  *)
(* were in flight.                                                         *)
THEOREM RevokedForGood == Spec => []RevocationIsComplete
<1>1. IInv => RevocationIsComplete
  <2> SUFFICES ASSUME IInv, NEW s \in KeptSessions(sessions),
                      sessions[s].revoked # Never, NEW k \in TokensOf(tokens, s)
               PROVE  tokens[k].revoked # Never
    BY DEF RevocationIsComplete
  <2>1. k \in TokenRows(tokens) /\ tokens[k].session = s /\ tokens[k].kept
    BY DEF TokensOf, KeptTokens, TokenRows
  <2>2. QED
    BY <2>1 DEF IInv, StoreOK, TokensBelong, Belongs
<1>2. QED
  BY <1>1, AuthInvariantHolds, PTL

(* A client that is told it has logged out has, if history is kept as long *)
(* as a session may last.  (A deployment may be configured otherwise, and  *)
(* then a refresh token that is no longer on record names no session.)     *)
THEOREM LogoutIsEffective ==
  ASSUME Lifetime <= Retention
  PROVE  Spec => []LogoutTakesEffect
<1>1. IInv => LogoutTakesEffect
  <2> SUFFICES ASSUME IInv, NEW h \in Handlers,
                      pc[h] = "answering", reply[h] = "success", req[h].op = "logout",
                      NamesSession(req[h])
               PROVE  ~SessionIsActive(LoggedOutSession(req[h]), now)
    BY DEF LogoutTakesEffect, NamesSession
  <2>1. LoggedOutSession(req[h]) \in SessionIds
    BY LogoutFacts DEF NamesSession, LoggedOutSession, SessionRows
  <2>2. ~Open(sessions, LoggedOutSession(req[h]), now)
    BY DEF IInv, HandlerOK, LogoutDone
  <2>3. QED
    BY <2>1, <2>2, ActiveIsOpen
<1>2. QED
  BY <1>1, AuthInvariantHolds, PTL

(* Another handler's step leaves the answer of h alone. *)
LEMMA OthersReply ==
  ASSUME IInv, NEW h \in Handlers, NEW b \in Handlers \ {h},
         HandlerStep(b) \/ \E r \in Requests : Arrive(b, r)
  PROVE  reply'[h] = reply[h]
<1>1. ASSUME NEW status, NEW k, AnswerWith(b, status, k) PROVE reply'[h] = reply[h]
  BY <1>1 DEF IInv, TypeOK, AnswerWith
<1>2. CASE \E r \in Requests : Arrive(b, r)
  BY <1>2 DEF IInv, TypeOK, Arrive
<1>3. CASE Deliver(b) \/ CutOff(b)
  BY <1>3 DEF IInv, TypeOK, Deliver, CutOff, Forget
<1>4. CASE Register(b) \/ Login(b)
  BY <1>1, <1>4 DEF Register, Login, OpenSession, Answer
<1>5. CASE Rotate(b) \/ Replay(b) \/ DenyRefresh(b)
  BY <1>1, <1>5 DEF Rotate, Replay, DenyRefresh, Answer
<1>6. CASE Access(b) \/ LogoutByCookie(b) \/ Fail(b)
  BY <1>1, <1>6 DEF Access, LogoutByCookie, Fail, Answer
<1>7. CASE LogoutBySession(b)
  BY <1>1, <1>7 DEF LogoutBySession, Answer
<1>8. QED
  BY <1>2, <1>3, <1>4, <1>5, <1>6, <1>7 DEF HandlerStep

(* A refresh is answered by its own handler, in one of three ways. *)
LEMMA RefreshAnswers ==
  ASSUME IInv, [Next]_vars, NEW h \in Handlers,
         pc[h] = "pending", req[h].op = "refresh", reply'[h] \in Statuses \ {"error"}
  PROVE  Rotate(h) \/ Replay(h) \/ DenyRefresh(h)
<1>1. reply'[h] # reply[h]
  BY DEF IInv, HandlerOK, Statuses
<1>2. ASSUME NEW b \in Handlers, NEW r \in Requests, Arrive(b, r) PROVE FALSE
  BY <1>1, <1>2, OthersReply DEF Arrive
<1>3. ~(\E u \in Users : Disable(u)) /\ ~Tick /\ ~UNCHANGED vars
  BY <1>1 DEF Disable, Tick, vars, handlerVars
<1>4. PICK b \in Handlers : HandlerStep(b)
  BY <1>2, <1>3 DEF Next
<1>5. b = h
  BY <1>1, <1>4, OthersReply
<1>6. ~Register(h) /\ ~Login(h) /\ ~Access(h) /\ ~LogoutBySession(h)
  BY DEF Register, Login, Access, LogoutBySession, Serves
<1>7. ~LogoutByCookie(h) /\ ~Deliver(h)
  BY DEF LogoutByCookie, Deliver
<1>8. ~Fail(h) /\ ~CutOff(h)
  BY DEF IInv, TypeOK, Fail, CutOff, Answer, AnswerWith, Forget, Statuses
<1>9. QED
  BY <1>4, <1>5, <1>6, <1>7, <1>8 DEF HandlerStep

(* A replay that is turned away for another reason is of a session that is *)
(* over.                                                                   *)
LEMMA DeniedReplay ==
  ASSUME IInv, Lifetime <= Retention, NEW h \in Handlers, DenyRefresh(h),
         tokens[req[h].token].used # Never,
         checkedAt[h] - tokens[req[h].token].used > Grace,
         UserOf(tokens[req[h].token].session) = "active"
  PROVE  ~Open(sessions, tokens[req[h].token].session, now)
<1> DEFINE k == req[h].token
           s == tokens[k].session
           t == checkedAt[h]
<1>1. /\ StoreOK(sessions, tokens, now) /\ TablesType(sessions, tokens)
      /\ now \in Nat /\ t \in Nat /\ t <= now
      /\ RefreshOK(h) /\ k \in TokenIds
  BY HandlerFacts, RequestsOfKind DEF DenyRefresh, Serves, HandlerOK, RefreshRequest
<1>2. k \in TokenRows(tokens) /\ Belongs(tokens[k], sessions[s]) /\ tokens[k] \in Token
  BY <1>1, StoredRows DEF RefreshOK, TokenRows, StoreOK, TokensBelong
<1>3. s \in SessionRows(sessions) /\ sessions[s].expires \in Nat
  BY <1>1, <1>2, StoredRows DEF Belongs, SessionRows, Session
<1>4. CASE k \notin KeptTokens(tokens)
  BY <1>1, <1>2, <1>4 DEF KeptTokens, TokenRows, StoreOK, DeletedAreOver
<1>5. CASE ~SessionIsActive(s, t)
  BY <1>1, <1>3, <1>5 DEF SessionIsActive, KeptSessions, SessionRows, Open
<1>6. CASE tokens[k].revoked # Never \/ tokens[k].expires <= t
  BY <1>1, <1>2, <1>3, <1>6 DEF Belongs, Open
<1>7. SpentVerdict(tokens[k].used, t) = "replay"
  BY <1>1, <1>2, AuthAssumption DEF SpentVerdict, Token, Instant
<1>8. RefreshVerdict(k, t) \in {"invalid", "concurrent"}
  BY DEF DenyRefresh, RefreshVerdictOf
<1>9. QED
  BY <1>4, <1>5, <1>6, <1>7, <1>8 DEF RefreshVerdict

(* A spent token that turns up after the grace period ends its session, if *)
(* history is kept as long as a session may last.                          *)
THEOREM ReplayIsCaught ==
  ASSUME Lifetime <= Retention
  PROVE  Spec => ReplayEndsSession
<1> DEFINE Caught(h) ==
      /\ pc[h] = "pending" /\ req[h].op = "refresh"
      /\ reply'[h] \in Statuses \ {"error"}
      /\ tokens[req[h].token].used # Never
      /\ checkedAt[h] - tokens[req[h].token].used > Grace
      /\ UserOf(tokens[req[h].token].session) = "active"
      => ~SessionIsActive(tokens[req[h].token].session, now)'
<1>1. IInv /\ [Next]_vars => \A h \in Handlers : Caught(h)
  <2> SUFFICES ASSUME IInv, [Next]_vars, NEW h \in Handlers,
                      pc[h] = "pending", req[h].op = "refresh",
                      reply'[h] \in Statuses \ {"error"},
                      tokens[req[h].token].used # Never,
                      checkedAt[h] - tokens[req[h].token].used > Grace,
                      UserOf(tokens[req[h].token].session) = "active"
               PROVE  ~SessionIsActive(tokens[req[h].token].session, now)'
    OBVIOUS
  <2> DEFINE s == tokens[req[h].token].session
  <2>1. /\ Rotate(h) \/ Replay(h) \/ DenyRefresh(h)
        /\ IInv'
    BY RefreshAnswers, NextKeeps
  <2>2. ~Rotate(h)
    BY VerdictFacts DEF Rotate, RefreshVerdictOf
  <2>3. CASE Replay(h)
    <3>1. StoreGoesOn /\ sessions'[s].revoked # Never /\ req' = req
      BY <2>3, ReplayStores DEF Replay, Answer, AnswerWith
    <3>2. req[h].token \in TokenRows(tokens)
      BY <2>3, VerdictFacts DEF Replay, RefreshVerdictOf, KeptTokens, TokenRows
    <3>3. tokens'[req'[h].token].session = s
      BY <3>1, <3>2 DEF StoreGoesOn, Advances
    <3>4. QED
      BY <3>1, <3>3 DEF SessionIsActive
  <2>4. CASE DenyRefresh(h)
    <3>1. UNCHANGED <<req, sessions, tokens, now>>
      BY <2>4 DEF DenyRefresh, Answer, AnswerWith, NothingStored
    <3>2. ~Open(sessions, s, now)
      BY <2>4, DeniedReplay
    <3>3. QED
      BY <3>1, <3>2 DEF SessionIsActive, Open, KeptSessions
  <2>5. QED
    BY <2>1, <2>2, <2>3, <2>4
<1>2. QED
  BY <1>1, AuthInvariantHolds, PTL DEF Spec, ReplayEndsSession

-----------------------------------------------------------------------------
(* The abstract logins.  Which token carries a session, in any pair of     *)
(* tables.                                                                 *)

Carries(S, T, s, k) ==
  /\ S[s] # NoRow /\ S[s].kept /\ S[s].revoked = Never
  /\ k \in TokenIds /\ Live(T, k) /\ T[k].session = s

CarrierIn(S, T, s) ==
  IF S[s] = NoRow THEN NoRow ELSE
  IF \E k \in TokenIds : Carries(S, T, s, k)
  THEN CHOOSE k \in TokenIds : Carries(S, T, s, k)
  ELSE Closed

LEMMA CarrierIsUnique ==
  ASSUME NEW S, NEW T, AtMostOneLive(T), NEW s
  PROVE  /\ CarrierIn(S, T, s) = NoRow <=> S[s] = NoRow
         /\ \A k \in TokenIds : CarrierIn(S, T, s) = k <=> Carries(S, T, s, k)
         /\ CarrierIn(S, T, s) = Closed <=>
              S[s] # NoRow /\ \A k \in TokenIds : ~Carries(S, T, s, k)
         /\ CarrierIn(S, T, s) \in TokenIds \cup {NoRow, Closed}
<1>1. \A k, l \in TokenIds : Carries(S, T, s, k) /\ Carries(S, T, s, l) => k = l
  BY DEF Carries, AtMostOneLive
<1>2. /\ NoRow \notin TokenIds /\ Closed \notin TokenIds /\ NoRow # Closed
      /\ S[s] = NoRow => \A k \in TokenIds : ~Carries(S, T, s, k)
  BY AuthAssumption DEF Carries
<1>3. CASE S[s] = NoRow
  BY <1>2, <1>3 DEF CarrierIn
<1>4. CASE S[s] # NoRow /\ \A k \in TokenIds : ~Carries(S, T, s, k)
  BY <1>2, <1>4 DEF CarrierIn
<1>5. CASE S[s] # NoRow /\ \E k \in TokenIds : Carries(S, T, s, k)
  <2>1. /\ CarrierIn(S, T, s) \in TokenIds
        /\ Carries(S, T, s, CarrierIn(S, T, s))
    BY <1>5 DEF CarrierIn
  <2>2. QED
    BY <1>1, <1>2, <1>5, <2>1
<1>6. QED
  BY <1>3, <1>4, <1>5

LEMMA CarriersMeaning ==
  ASSUME NEW s \in SessionIds
  PROVE  CarrierOf(s) = CarrierIn(sessions, tokens, s)
<1>1. \A k : k \in TokenIds /\ k \in LiveTokens(s) <=>
        k \in TokenIds /\ Live(tokens, k) /\ tokens[k].session = s
  BY DEF LiveTokens, TokensOf, KeptTokens, Live
<1>2. \A k \in LiveTokens(s) : k \in TokenIds
  BY DEF LiveTokens, TokensOf, KeptTokens
<1>3. CASE /\ sessions[s] # NoRow /\ sessions[s].kept /\ sessions[s].revoked = Never
  <2>1. \A k \in TokenIds : k \in LiveTokens(s) <=> Carries(sessions, tokens, s, k)
    BY <1>1, <1>3 DEF Carries
  <2>2. (LiveTokens(s) # {}) <=> \E k \in TokenIds : Carries(sessions, tokens, s, k)
    BY <1>2, <2>1
  <2>3. (CHOOSE k \in TokenIds : k \in LiveTokens(s))
          = CHOOSE k \in TokenIds : Carries(sessions, tokens, s, k)
    BY <2>1
  <2>4. QED
    BY <1>3, <2>2, <2>3 DEF CarrierOf, CarrierIn
<1>4. CASE sessions[s] = NoRow
  BY <1>4 DEF CarrierOf, CarrierIn
<1>5. CASE /\ sessions[s] # NoRow
           /\ ~sessions[s].kept \/ sessions[s].revoked # Never
  BY <1>5 DEF CarrierOf, CarrierIn, Carries
<1>6. QED
  BY <1>3, <1>4, <1>5

LEMMA SameCarrier ==
  ASSUME NEW S, NEW T, NEW S2, NEW T2, AtMostOneLive(T), AtMostOneLive(T2), NEW s,
         S2[s] = NoRow <=> S[s] = NoRow,
         \A k \in TokenIds : Carries(S2, T2, s, k) <=> Carries(S, T, s, k)
  PROVE  CarrierIn(S2, T2, s) = CarrierIn(S, T, s)
<1>1. /\ CarrierIn(S2, T2, s) = NoRow <=> S2[s] = NoRow
      /\ \A k \in TokenIds : CarrierIn(S2, T2, s) = k <=> Carries(S2, T2, s, k)
      /\ CarrierIn(S2, T2, s) \in TokenIds \cup {NoRow, Closed}
  BY CarrierIsUnique
<1>2. /\ CarrierIn(S, T, s) = NoRow <=> S[s] = NoRow
      /\ \A k \in TokenIds : CarrierIn(S, T, s) = k <=> Carries(S, T, s, k)
      /\ CarrierIn(S, T, s) \in TokenIds \cup {NoRow, Closed}
  BY CarrierIsUnique
<1>3. QED
  BY <1>1, <1>2

(* A clean-up ends no login before its deadline. *)
LEMMA CleanedCarriers ==
  ASSUME NEW S, NEW T, NEW u \in Nat, StoreOK(S, T, u), NEW t \in Nat, t <= u,
         StoreCleaned(S, T, t)
  PROVE  /\ SessionRows(sessions') = SessionRows(S)
         /\ TokenRows(tokens') = TokenRows(T)
         /\ \A s \in SessionRows(S) : sessions'[s].expires = S[s].expires
         /\ \A s \in SessionIds :
              \/ CarrierIn(sessions', tokens', s) = CarrierIn(S, T, s)
              \/ /\ CarrierIn(S, T, s) \in TokenIds /\ s \in SessionRows(S)
                 /\ S[s].expires < t
                 /\ CarrierIn(sessions', tokens', s) = Closed
<1>1. TablesType(S, T) /\ AtMostOneLive(T) /\ TokensBelong(S, T)
  BY DEF StoreOK
<1>2. PICK oldSessions, oldTokens :
        /\ MayDelete(S, T, oldSessions, oldTokens, t)
        /\ sessions' = Deleted(S, oldSessions)
        /\ tokens' = Deleted(T, oldTokens)
  BY <1>1, CleanedTables
<1> DEFINE S2 == Deleted(S, oldSessions)
           T2 == Deleted(T, oldTokens)
<1>3. AtMostOneLive(T2)
  BY <1>2, CleaningKeeps DEF StoreOK
<1>4. /\ \A s \in SessionIds :
           /\ S2[s] = NoRow <=> S[s] = NoRow
           /\ S2[s] # NoRow =>
                /\ S2[s].user = S[s].user
                /\ S2[s].expires = S[s].expires
                /\ S2[s].revoked = S[s].revoked
                /\ S2[s].kept <=> S[s].kept /\ s \notin oldSessions
      /\ \A k \in TokenIds :
           /\ T2[k] = NoRow <=> T[k] = NoRow
           /\ T2[k] # NoRow =>
                /\ T2[k].session = T[k].session
                /\ T2[k].expires = T[k].expires
                /\ T2[k].used = T[k].used
                /\ T2[k].revoked = T[k].revoked
                /\ T2[k].kept <=> T[k].kept /\ k \notin oldTokens
  BY <1>1, <1>2, DeletedTables
<1> HIDE DEF S2, T2
<1>5. /\ SessionRows(S2) = SessionRows(S) /\ TokenRows(T2) = TokenRows(T)
      /\ \A s \in SessionRows(S) : S2[s].expires = S[s].expires
  BY <1>4 DEF SessionRows, TokenRows
<1>6. \A s \in SessionIds, k \in TokenIds : Carries(S2, T2, s, k) => Carries(S, T, s, k)
  BY <1>4 DEF Carries, Live
<1>7. \A s \in SessionIds, k \in TokenIds :
        Carries(S, T, s, k) /\ ~(S[s].expires < t) => Carries(S2, T2, s, k)
  <2> SUFFICES ASSUME NEW s \in SessionIds, NEW k \in TokenIds,
                      Carries(S, T, s, k), ~(S[s].expires < t)
               PROVE  Carries(S2, T2, s, k)
    OBVIOUS
  <2>1. /\ s \in SessionRows(S) /\ S[s] \in Session /\ S[s].expires \in Nat
        /\ k \in TokenRows(T) /\ T[k].expires = S[s].expires
    BY <1>1, StoredRows DEF Carries, Live, TokenRows, SessionRows, TokensBelong, Belongs, Session
  <2>2. ~SessionIsOld(S[s], t)
    BY <2>1, AuthAssumption DEF SessionIsOld, Carries
  <2>3. ~TokenIsOld(T[k], t)
    BY <2>1 DEF TokenIsOld, Carries, Live
  <2>4. s \notin oldSessions /\ k \notin oldTokens
    BY <1>2, <2>2, <2>3 DEF MayDelete, Carries
  <2>5. QED
    BY <1>4, <2>4 DEF Carries, Live
<1>8. ASSUME NEW s \in SessionIds
      PROVE  \/ CarrierIn(S2, T2, s) = CarrierIn(S, T, s)
             \/ /\ CarrierIn(S, T, s) \in TokenIds /\ s \in SessionRows(S)
                /\ S[s].expires < t
                /\ CarrierIn(S2, T2, s) = Closed
  <2>1. CASE \A k \in TokenIds : Carries(S2, T2, s, k) <=> Carries(S, T, s, k)
    BY <1>1, <1>3, <1>4, <2>1, SameCarrier
  <2>2. ASSUME NEW k \in TokenIds, Carries(S, T, s, k), ~Carries(S2, T2, s, k)
        PROVE  /\ CarrierIn(S, T, s) \in TokenIds /\ s \in SessionRows(S)
               /\ S[s].expires < t
               /\ CarrierIn(S2, T2, s) = Closed
    <3>1. CarrierIn(S, T, s) = k
      BY <1>1, <2>2, CarrierIsUnique
    <3>2. S2[s] # NoRow /\ s \in SessionRows(S)
      BY <1>4, <2>2 DEF Carries, SessionRows
    <3>3. \A l \in TokenIds : ~Carries(S2, T2, s, l)
      BY <1>1, <1>6, <2>2 DEF AtMostOneLive, Carries
    <3>4. CarrierIn(S2, T2, s) = Closed
      BY <1>3, <3>2, <3>3, CarrierIsUnique
    <3>5. QED
      BY <1>7, <2>2, <3>1, <3>2, <3>4
  <2>3. QED
    BY <1>6, <2>1, <2>2
<1>9. QED
  BY <1>2, <1>5, <1>8 DEF S2, T2

LEMMA CarriersAre ==
  \A s \in SessionIds : CarrierOf(s) = CarrierIn(sessions, tokens, s)
BY CarriersMeaning

(* What a step does to the abstract logins. *)
LEMMA LoginsMeaning ==
  /\ \A s \in SessionIds :
       /\ Carriers[s] = CarrierIn(sessions, tokens, s)
       /\ Carriers'[s] = CarrierIn(sessions', tokens', s)
       /\ Deadlines[s] = IF sessions[s] = NoRow THEN 0 ELSE sessions[s].expires
       /\ Deadlines'[s] = IF sessions'[s] = NoRow THEN 0 ELSE sessions'[s].expires
  /\ Minted = TokenRows(tokens) /\ Minted' = TokenRows(tokens')
<1>1. (\A s \in SessionIds : CarrierOf(s) = CarrierIn(sessions, tokens, s))'
  BY CarriersAre, PTL
<1>2. \A s \in SessionIds : Carriers'[s] = CarrierIn(sessions', tokens', s)
  BY <1>1 DEF Carriers
<1>3. \A s \in SessionIds : Carriers[s] = CarrierIn(sessions, tokens, s)
  BY CarriersAre DEF Carriers
<1>4. QED
  BY <1>2, <1>3 DEF Deadlines, Minted, TokenRows

(* All logins but one are as they were in the tables before the clean-up. *)
SameLogins(S, T, login) ==
  \A x \in SessionIds \ {login} :
    /\ CarrierIn(S, T, x) = CarrierIn(sessions, tokens, x)
    /\ S[x] = NoRow <=> sessions[x] = NoRow
    /\ S[x] # NoRow => S[x].expires = sessions[x].expires

LEMMA OthersGoOnByCleaning ==
  ASSUME NEW S, NEW T, StoreOK(S, T, now), now \in Nat, NEW t \in Nat, t <= now,
         StoreCleaned(S, T, t), NEW login, SameLogins(S, T, login)
  PROVE  Logins!OthersGoOn(login)
<1> SUFFICES ASSUME NEW x \in SessionIds \ {login}
             PROVE  /\ Deadlines'[x] = Deadlines[x]
                    /\ \/ Carriers'[x] = Carriers[x]
                       \/ /\ Carriers[x] \in TokenIds /\ Deadlines[x] < now
                          /\ Carriers'[x] = Closed
  BY DEF Logins!OthersGoOn, Logins!IsOpen
<1>1. /\ SessionRows(sessions') = SessionRows(S)
      /\ \A s \in SessionRows(S) : sessions'[s].expires = S[s].expires
      /\ \/ CarrierIn(sessions', tokens', x) = CarrierIn(S, T, x)
         \/ /\ CarrierIn(S, T, x) \in TokenIds /\ x \in SessionRows(S)
            /\ S[x].expires < t
            /\ CarrierIn(sessions', tokens', x) = Closed
  BY CleanedCarriers
<1>2. Deadlines'[x] = Deadlines[x]
  BY <1>1, LoginsMeaning DEF SameLogins, SessionRows
<1>3. x \in SessionRows(S) => Deadlines[x] = S[x].expires /\ S[x].expires \in Nat
  BY LoginsMeaning, StoredRows DEF SameLogins, SessionRows, StoreOK, Session
<1>4. QED
  BY <1>1, <1>2, <1>3, LoginsMeaning DEF SameLogins

LEMMA OpeningRefines ==
  ASSUME IInv, NEW h \in Handlers, pc[h] # "idle", NEW user \in Users,
         OpenSession(h, user)
  PROVE  Logins!Next
<1>1. PICK s \in SessionIds, k \in TokenIds :
        /\ NextId(sessions, s)
        /\ NextId(tokens, k)
        /\ LET row == NewSession(user, checkedAt[h]) IN
             StoreCleaned([sessions EXCEPT ![s] = row],
                          [tokens EXCEPT ![k] = NewToken(s, row.expires)],
                          checkedAt[h])
        /\ AnswerWith(h, "success", k)
  BY DEF OpenSession
<1> DEFINE t == checkedAt[h]
           row == NewSession(user, t)
           token == NewToken(s, t + Lifetime)
           S == [sessions EXCEPT ![s] = row]
           T == [tokens EXCEPT ![k] = token]
<1>2. /\ StoreOK(sessions, tokens, now) /\ TablesType(sessions, tokens)
      /\ now \in Nat /\ t \in Nat /\ t <= now /\ Lifetime \in Nat
      /\ sessions[s] = NoRow /\ tokens[k] = NoRow
      /\ AtMostOneLive(tokens) /\ TokensBelong(sessions, tokens)
  BY <1>1, HandlerFacts, AuthAssumption DEF NextId, StoreOK
<1>3. StoreCleaned(S, T, t)
  BY <1>1 DEF NewSession
<1>4. StoreOK(S, T, now)
  BY <1>2, OpeningKeeps
<1>5. /\ row # NoRow /\ row.expires = t + Lifetime /\ row.revoked = Never /\ row.kept
      /\ token # NoRow /\ token.session = s
      /\ token.used = Never /\ token.revoked = Never /\ token.kept
  BY <1>2, NewSessionRow, NewTokenRow, AuthAssumption DEF NewSession, NewToken
<1> HIDE DEF row, token
<1>6. /\ S[s] = row /\ \A x \in SessionIds \ {s} : S[x] = sessions[x]
      /\ T[k] = token /\ \A x \in TokenIds \ {k} : T[x] = tokens[x]
  BY <1>2 DEF TablesType
<1> HIDE DEF S, T, t
<1>7. AtMostOneLive(T)
  BY <1>4 DEF StoreOK
<1>8. CarrierIn(S, T, s) = k
  <2>1. Carries(S, T, s, k)
    BY <1>5, <1>6 DEF Carries, Live
  <2>2. QED
    BY <1>7, <2>1, CarrierIsUnique
<1>9. SameLogins(S, T, s)
  <2> SUFFICES ASSUME NEW x \in SessionIds \ {s}
               PROVE  CarrierIn(S, T, x) = CarrierIn(sessions, tokens, x)
    BY <1>6 DEF SameLogins
  <2>1. \A l \in TokenIds : Carries(S, T, x, l) <=> Carries(sessions, tokens, x, l)
    BY <1>2, <1>5, <1>6 DEF Carries, Live
  <2>2. QED
    BY <1>2, <1>6, <1>7, <2>1, SameCarrier
<1>10. Logins!OthersGoOn(s)
  BY <1>2, <1>3, <1>4, <1>9, OthersGoOnByCleaning
<1>11. /\ TokenRows(tokens') = TokenRows(T)
       /\ CarrierIn(sessions', tokens', s) = k
  <2>1. S[s].expires \in Nat /\ ~(S[s].expires < t)
    BY <1>2, <1>5, <1>6 DEF t
  <2>2. QED
    BY <1>2, <1>3, <1>4, <1>8, <2>1, CleanedCarriers
<1>12. TokenRows(T) = TokenRows(tokens) \cup {k} /\ k \notin TokenRows(tokens)
  BY <1>2, <1>5, <1>6 DEF TokenRows
<1>13. Carriers[s] = NoRow
  BY <1>2, LoginsMeaning, CarrierIsUnique
<1>14. now' = now
  BY <1>1 DEF AnswerWith
<1>15. Logins!Open(s)
  BY <1>10, <1>11, <1>12, <1>13, <1>14, LoginsMeaning
     DEF Logins!Open, Logins!CarriedByNewToken
<1>16. QED
  BY <1>15 DEF Logins!Next

LEMMA RotationRefines ==
  ASSUME IInv, NEW h \in Handlers, Rotate(h)
  PROVE  Logins!Next
<1> DEFINE t == checkedAt[h]
           spent == req[h].token
           s == tokens[spent].session
           end == Earlier(sessions[s].expires, t + Lifetime)
           old == SpentToken(tokens[spent], t)
           new == NewToken(s, end)
<1>1. PICK k \in TokenIds :
        /\ NextId(tokens, k)
        /\ StoreCleaned(sessions, [tokens EXCEPT ![spent] = SpentToken(@, t),
                                                 ![k] = NewToken(s, end)], t)
        /\ AnswerWith(h, "success", k)
  BY DEF Rotate
<1> DEFINE T == [tokens EXCEPT ![spent] = old, ![k] = new]
<1>2. /\ StoreOK(sessions, tokens, now) /\ TablesType(sessions, tokens)
      /\ now \in Nat /\ t \in Nat /\ t <= now /\ Lifetime \in Nat
      /\ RefreshOK(h)
      /\ tokens[k] = NoRow
      /\ AtMostOneLive(tokens) /\ TokensBelong(sessions, tokens)
  BY <1>1, HandlerFacts, AuthAssumption DEF Rotate, Serves, HandlerOK, NextId, StoreOK
<1>3. /\ spent \in TokenIds /\ Live(tokens, spent)
      /\ s \in SessionIds /\ sessions[s] # NoRow
      /\ sessions[s].kept /\ sessions[s].revoked = Never
      /\ sessions[s].expires > t
      /\ sessions[s].expires <= t + Lifetime
  BY <1>2, VerdictFacts
     DEF Rotate, RefreshVerdictOf, RefreshOK, KeptTokens, KeptSessions, SessionIsActive, Live
<1>4. /\ StoreOK(sessions, T, now)
      /\ StoreCleaned(sessions, T, t)
  BY <1>1, <1>2, <1>3, RotationKeeps
<1>5. /\ spent \in TokenRows(tokens) /\ tokens[spent] \in Token /\ spent # k
      /\ s \in SessionRows(sessions) /\ sessions[s].expires \in Nat
  BY <1>2, <1>3, StoredRows DEF Live, TokenRows, SessionRows, Session
<1>6. /\ old # NoRow /\ old.session = s /\ old.used # Never
      /\ new # NoRow /\ new.session = s
      /\ new.used = Never /\ new.revoked = Never /\ new.kept
  <2>1. end \in Nat
    BY <1>2, <1>5 DEF Earlier
  <2>2. old # NoRow /\ old.session = s /\ old.used # Never
    BY <1>2, <1>5, SpentRow, AuthAssumption
  <2>3. new # NoRow
    BY <1>3, <2>1, NewTokenRow
  <2>4. QED
    BY <2>2, <2>3 DEF NewToken
<1>7. /\ T[spent] = old /\ T[k] = new
      /\ \A x \in TokenIds \ {spent, k} : T[x] = tokens[x]
  BY <1>2, <1>3, <1>5 DEF TablesType
<1> HIDE DEF old, new, T, end, s, spent, t
<1>8. AtMostOneLive(T)
  BY <1>4 DEF StoreOK
<1>9. CarrierIn(sessions, T, s) = k /\ CarrierIn(sessions, tokens, s) = spent
  <2>1. Carries(sessions, T, s, k) /\ Carries(sessions, tokens, s, spent)
    BY <1>3, <1>6, <1>7 DEF Carries, Live, s
  <2>2. QED
    BY <1>2, <1>3, <1>8, <2>1, CarrierIsUnique
<1>10. SameLogins(sessions, T, s)
  <2> SUFFICES ASSUME NEW x \in SessionIds \ {s}
               PROVE  CarrierIn(sessions, T, x) = CarrierIn(sessions, tokens, x)
    BY DEF SameLogins
  <2>1. \A l \in TokenIds : Carries(sessions, T, x, l) <=> Carries(sessions, tokens, x, l)
    BY <1>2, <1>6, <1>7 DEF Carries, Live, s
  <2>2. QED
    BY <1>2, <1>8, <2>1, SameCarrier
<1>11. Logins!OthersGoOn(s)
  BY <1>2, <1>4, <1>10, OthersGoOnByCleaning
<1>12. /\ TokenRows(tokens') = TokenRows(T)
       /\ SessionRows(sessions') = SessionRows(sessions)
       /\ sessions'[s].expires = sessions[s].expires
       /\ CarrierIn(sessions', tokens', s) = k
  BY <1>2, <1>3, <1>4, <1>5, <1>9, CleanedCarriers
<1>13. TokenRows(T) = TokenRows(tokens) \cup {k} /\ k \notin TokenRows(tokens)
  BY <1>2, <1>3, <1>5, <1>6, <1>7 DEF TokenRows
<1>14. now' = now
  BY <1>1 DEF AnswerWith
<1>15. Deadlines'[s] = Deadlines[s]
  BY <1>3, <1>5, <1>12, LoginsMeaning DEF SessionRows
<1>16. Logins!Exchange(s)
  BY <1>3, <1>9, <1>11, <1>12, <1>13, <1>14, <1>15, LoginsMeaning
     DEF Logins!Exchange, Logins!CarriedByNewToken, Logins!IsOpen
<1>17. QED
  BY <1>3, <1>16 DEF Logins!Next

(* A revocation closes the login, and nothing else. *)
LEMMA RevocationCloses ==
  ASSUME StoreOK(sessions, tokens, now), now \in Nat,
         NEW s \in SessionRows(sessions), NEW t \in Nat,
         NEW S, S = [sessions EXCEPT ![s] = RevokedSession(@, t)],
         NEW T, T = TokensRevoked(tokens, s, t)
  PROVE  /\ StoreOK(S, T, now)
         /\ SameLogins(S, T, s)
         /\ TokenRows(T) = TokenRows(tokens)
         /\ s \in SessionRows(S)
         /\ S[s].expires = sessions[s].expires
         /\ CarrierIn(S, T, s) = Closed
<1>1. /\ TablesType(sessions, tokens) /\ AtMostOneLive(tokens)
      /\ s \in SessionIds /\ sessions[s] \in Session
  BY StoredRows DEF StoreOK, SessionRows
<1>2. StoreOK(S, T, now) /\ S[s].revoked # Never /\ AtMostOneLive(T)
  BY RevocationKeeps DEF StoreOK
<1>3. Advances(sessions, tokens, S, T)
  BY <1>1, RevocationAdvances
<1>4. \A x \in SessionIds \ {s} : S[x] = sessions[x]
  BY <1>1 DEF TablesType
<1>5. \A k \in TokenIds : T[k] = tokens[k] \/ (tokens[k] # NoRow /\ tokens[k].session = s)
  BY DEF TokensRevoked, TokensOf, KeptTokens
<1>6. \A k \in TokenIds : tokens[k] # NoRow => T[k] # NoRow /\ T[k].session = tokens[k].session
  BY <1>3 DEF Advances, TokenRows
<1>7. TokenRows(T) = TokenRows(tokens)
  BY <1>5, <1>6 DEF TokenRows
<1>8. S[s] # NoRow /\ S[s].expires = sessions[s].expires
  BY <1>3 DEF Advances
<1>9. CarrierIn(S, T, s) = Closed
  <2>1. \A k \in TokenIds : ~Carries(S, T, s, k)
    BY <1>2 DEF Carries
  <2>2. QED
    BY <1>2, <1>8, <2>1, CarrierIsUnique
<1>10. SameLogins(S, T, s)
  <2> SUFFICES ASSUME NEW x \in SessionIds \ {s}
               PROVE  CarrierIn(S, T, x) = CarrierIn(sessions, tokens, x)
    BY <1>4 DEF SameLogins
  <2>1. \A l \in TokenIds : Carries(S, T, x, l) <=> Carries(sessions, tokens, x, l)
    BY <1>4, <1>5, <1>6 DEF Carries, Live
  <2>2. S[x] = NoRow <=> sessions[x] = NoRow
    BY <1>4
  <2>3. AtMostOneLive(tokens) /\ AtMostOneLive(T)
    BY <1>1, <1>2
  <2>4. QED
    BY ONLY <2>1, <2>2, <2>3, SameCarrier
<1>11. QED
  BY <1>1, <1>2, <1>7, <1>8, <1>9, <1>10 DEF SessionRows

(* If the login was over anyhow, then either nothing is to be seen of the  *)
(* step, or the clean-up closes some other login.                          *)
LEMMA ClosingRefines ==
  ASSUME NEW s \in SessionIds, Logins!OthersGoOn(s), Carriers'[s] = Closed,
         Carriers[s] # NoRow, Deadlines'[s] = Deadlines[s],
         IInv, Minted' = Minted, now' = now
  PROVE  [Logins!Next]_(Logins!loginVars)
<1>1. CASE Carriers[s] \in TokenIds
  BY <1>1 DEF Logins!Next, Logins!Close, Logins!IsOpen
<1>2. CASE Carriers[s] \notin TokenIds
  <2>1. Carriers[s] = Closed
    BY <1>2, LoginsMeaning, CarrierIsUnique DEF IInv, StoreOK
  <2>2. \A x \in SessionIds :
          /\ Deadlines'[x] = Deadlines[x]
          /\ \/ Carriers'[x] = Carriers[x]
             \/ /\ Carriers[x] \in TokenIds /\ Deadlines[x] < now
                /\ Carriers'[x] = Closed
    BY <2>1 DEF Logins!OthersGoOn, Logins!IsOpen
  <2>3. CASE \A x \in SessionIds : Carriers'[x] = Carriers[x]
    <3>1. Carriers' = Carriers /\ Deadlines' = Deadlines
      BY <2>2, <2>3 DEF Carriers, Deadlines
    <3>2. QED
      BY <3>1 DEF Logins!loginVars
  <2>4. ASSUME NEW x \in SessionIds, Carriers'[x] # Carriers[x]
        PROVE  Logins!Close(x)
    BY <2>2, <2>4 DEF Logins!Close, Logins!IsOpen, Logins!OthersGoOn
  <2>5. QED
    BY <2>3, <2>4 DEF Logins!Next
<1>3. QED
  BY <1>1, <1>2

LEMMA ReplayRefines ==
  ASSUME IInv, NEW h \in Handlers, Replay(h)
  PROVE  [Logins!Next]_(Logins!loginVars)
<1> DEFINE t == checkedAt[h]
           s == tokens[req[h].token].session
           S == [sessions EXCEPT ![s] = RevokedSession(@, t)]
           T == TokensRevoked(tokens, s, t)
<1>1. /\ StoreOK(sessions, tokens, now)
      /\ now \in Nat /\ t \in Nat /\ t <= now /\ now' = now
      /\ StoreCleaned(S, T, t)
  BY HandlerFacts DEF Replay, Serves, Answer, AnswerWith
<1>2. s \in SessionRows(sessions) /\ s \in SessionIds /\ sessions[s] # NoRow
  BY VerdictFacts DEF Replay, RefreshVerdictOf, SessionIsActive, KeptSessions, SessionRows
<1>3. /\ StoreOK(S, T, now)
      /\ SameLogins(S, T, s)
      /\ TokenRows(T) = TokenRows(tokens)
      /\ s \in SessionRows(S)
      /\ S[s].expires = sessions[s].expires
      /\ CarrierIn(S, T, s) = Closed
  BY <1>1, <1>2, RevocationCloses
<1> HIDE DEF S, T, s, t
<1>4. Logins!OthersGoOn(s)
  BY <1>1, <1>3, OthersGoOnByCleaning
<1>5. /\ TokenRows(tokens') = TokenRows(T)
      /\ SessionRows(sessions') = SessionRows(S)
      /\ sessions'[s].expires = S[s].expires
      /\ CarrierIn(sessions', tokens', s) = Closed
  BY <1>1, <1>2, <1>3, AuthAssumption, CleanedCarriers
<1>6. /\ Carriers'[s] = Closed /\ Carriers[s] # NoRow
      /\ Deadlines'[s] = Deadlines[s] /\ Minted' = Minted
  BY <1>1, <1>2, <1>3, <1>5, LoginsMeaning, CarrierIsUnique DEF SessionRows, StoreOK
<1>7. QED
  BY <1>1, <1>2, <1>4, <1>6, ClosingRefines

LEMMA RevocationRefines ==
  ASSUME IInv, NEW s \in SessionRows(sessions), NEW t \in Nat, RevokeSession(s, t),
         now' = now
  PROVE  [Logins!Next]_(Logins!loginVars)
<1>1. StoreOK(sessions, tokens, now) /\ now \in Nat /\ s \in SessionIds /\ sessions[s] # NoRow
  BY DEF IInv, TypeOK, SessionRows
<1>2. /\ SameLogins(sessions', tokens', s)
      /\ TokenRows(tokens') = TokenRows(tokens)
      /\ s \in SessionRows(sessions')
      /\ sessions'[s].expires = sessions[s].expires
      /\ CarrierIn(sessions', tokens', s) = Closed
  BY <1>1, RevocationCloses DEF RevokeSession
<1>3. Logins!OthersGoOn(s)
  BY <1>2, LoginsMeaning DEF Logins!OthersGoOn, SameLogins
<1>4. /\ Carriers'[s] = Closed /\ Carriers[s] # NoRow
      /\ Deadlines'[s] = Deadlines[s] /\ Minted' = Minted
  BY <1>1, <1>2, LoginsMeaning, CarrierIsUnique DEF SessionRows, StoreOK
<1>5. QED
  BY <1>1, <1>3, <1>4, ClosingRefines

LEMMA NothingRefines ==
  ASSUME UNCHANGED <<sessions, tokens, now>>
  PROVE  UNCHANGED Logins!loginVars
<1>1. UNCHANGED <<Carriers, Deadlines, Minted>>
  BY DEF Carriers, CarrierOf, LiveTokens, TokensOf, KeptTokens, Deadlines, Minted
<1>2. QED
  BY <1>1 DEF Logins!loginVars

LEMMA HandlerStepRefines ==
  ASSUME IInv, NEW h \in Handlers, HandlerStep(h)
  PROVE  [Logins!Next]_(Logins!loginVars)
<1>1. CASE Register(h) \/ Login(h)
  <2>1. pc[h] # "idle" /\ req[h].op \in {"register", "login"}
    BY <1>1 DEF Register, Login, Serves
  <2>2. req[h].user \in Users
    BY <2>1, HandlerFacts, RequestsOfKind DEF SignUpRequest
  <2>3. OpenSession(h, req[h].user) \/ (NothingStored /\ now' = now)
    BY <1>1 DEF Register, Login, Answer, AnswerWith
  <2>4. QED
    BY <2>1, <2>2, <2>3, OpeningRefines, NothingRefines DEF NothingStored
<1>2. CASE Rotate(h) \/ Replay(h)
  BY <1>2, RotationRefines, ReplayRefines
<1>3. CASE DenyRefresh(h) \/ Access(h) \/ Fail(h) \/ Deliver(h) \/ CutOff(h)
  BY <1>3, NothingRefines
     DEF DenyRefresh, Access, Fail, Deliver, CutOff, Answer, AnswerWith, NothingStored
<1>4. CASE LogoutBySession(h)
  <2>1. pc[h] # "idle" /\ now' = now
    BY <1>4 DEF LogoutBySession, Serves, Answer, AnswerWith
  <2>2. CASE NothingStored
    BY <2>1, <2>2, NothingRefines DEF NothingStored
  <2>3. CASE req[h].session \in KeptSessions(sessions)
             /\ RevokeSession(req[h].session, checkedAt[h])
    BY <2>1, <2>3, HandlerFacts, RevocationRefines DEF KeptSessions, SessionRows
  <2>4. QED
    BY <1>4, <2>2, <2>3 DEF LogoutBySession
<1>5. CASE LogoutByCookie(h)
  <2>1. /\ pc[h] # "idle" /\ now' = now
        /\ checkedAt[h] \in Nat /\ TablesType(sessions, tokens)
        /\ TokensBelong(sessions, tokens)
    BY <1>5, HandlerFacts DEF LogoutByCookie, Answer, AnswerWith, StoreOK
  <2>2. CASE NamesStoredToken(h)
    <3>1. req[h].token \in TokenRows(tokens)
      BY <2>2 DEF NamesStoredToken, KeptTokens, TokenRows
    <3>2. tokens[req[h].token].session \in SessionRows(sessions)
      BY <2>1, <3>1, StoredRows DEF TokensBelong, Belongs, SessionRows
    <3>3. QED
      BY <1>5, <2>1, <2>2, <3>2, RevocationRefines DEF LogoutByCookie
  <2>3. CASE ~NamesStoredToken(h)
    BY <1>5, <2>1, <2>3, NothingRefines DEF LogoutByCookie, NothingStored
  <2>4. QED
    BY <2>2, <2>3
<1>6. QED
  BY <1>1, <1>2, <1>3, <1>4, <1>5 DEF HandlerStep

LEMMA TickRefines == IInv /\ Tick => Logins!Next
<1> SUFFICES ASSUME IInv, Tick PROVE Logins!Next
  OBVIOUS
<1>1. UNCHANGED <<Carriers, Deadlines, Minted>>
  BY DEF Tick, Carriers, CarrierOf, LiveTokens, TokensOf, KeptTokens, Deadlines, Minted
<1>2. now' > now
  BY DEF IInv, TypeOK, Tick
<1>3. QED
  BY <1>1, <1>2 DEF Logins!Next, Logins!Tick

LEMMA InitRefines == Init => Logins!Init
BY DEF Init, Logins!Init, Carriers, CarrierOf, Deadlines, Minted

LEMMA StepRefines == IInv /\ [Next]_vars => [Logins!Next]_(Logins!loginVars)
<1> SUFFICES ASSUME IInv, [Next]_vars PROVE [Logins!Next]_(Logins!loginVars)
  OBVIOUS
<1>1. ASSUME NEW h \in Handlers, HandlerStep(h) PROVE [Logins!Next]_(Logins!loginVars)
  BY <1>1, HandlerStepRefines
<1>2. CASE UNCHANGED <<sessions, tokens, now>>
  BY <1>2, NothingRefines
<1>3. ASSUME NEW h \in Handlers, NEW r \in Requests, Arrive(h, r)
      PROVE  UNCHANGED <<sessions, tokens, now>>
  BY <1>3 DEF Arrive
<1>4. ASSUME NEW u \in Users, Disable(u) PROVE UNCHANGED <<sessions, tokens, now>>
  BY <1>4 DEF Disable
<1>5. UNCHANGED vars => UNCHANGED <<sessions, tokens, now>>
  BY DEF vars
<1>6. QED
  BY <1>1, <1>2, <1>3, <1>4, <1>5, TickRefines DEF Next

(* Seen from outside, the tables, racing handlers and clean-ups are        *)
(* abstract logins: each is carried by one token at a time, exchanged only *)
(* for a fresh one, ends at a deadline that never moves, and is ended      *)
(* before that only by its own logout or replay.                           *)
THEOREM SessionsAreLogins == Spec => ImplementsLogins
BY AuthInvariantHolds, InitRefines, StepRefines, PTL
   DEF Spec, ImplementsLogins, Logins!Spec

(* What a step of the abstract logins leaves alone, and where it finds the *)
(* only token that is new.                                                 *)
LEMMA LoginStep ==
  ASSUME Logins!Next
  PROVE  \/ /\ Carriers' = Carriers /\ Deadlines' = Deadlines
            /\ Minted' = Minted
         \/ \E l \in SessionIds :
              /\ \/ /\ Carriers[l] = NoRow \/ Carriers[l] \in TokenIds
                    /\ Carriers'[l] \in TokenIds \ Minted
                    /\ Minted' = Minted \cup {Carriers'[l]}
                 \/ /\ Carriers[l] \in TokenIds /\ Carriers'[l] = Closed
                    /\ Minted' = Minted
              /\ Carriers[l] # NoRow => Deadlines'[l] = Deadlines[l]
              /\ \A m \in SessionIds \ {l} :
                   /\ Deadlines'[m] = Deadlines[m]
                   /\ \/ Carriers'[m] = Carriers[m]
                      \/ Carriers[m] \in TokenIds /\ Carriers'[m] = Closed
<1>1. CASE Logins!Tick
  BY <1>1 DEF Logins!Tick
<1>2. ASSUME NEW l \in SessionIds, Logins!Open(l) \/ Logins!Exchange(l) \/ Logins!Close(l)
      PROVE  /\ \/ /\ Carriers[l] = NoRow \/ Carriers[l] \in TokenIds
                   /\ Carriers'[l] \in TokenIds \ Minted
                   /\ Minted' = Minted \cup {Carriers'[l]}
                \/ /\ Carriers[l] \in TokenIds /\ Carriers'[l] = Closed
                   /\ Minted' = Minted
             /\ Carriers[l] # NoRow => Deadlines'[l] = Deadlines[l]
             /\ Logins!OthersGoOn(l)
  BY <1>2 DEF Logins!Open, Logins!Exchange, Logins!Close, Logins!CarriedByNewToken, Logins!IsOpen
<1>3. QED
  BY <1>1, <1>2 DEF Logins!Next, Logins!OthersGoOn, Logins!IsOpen

LEMMA CarriersStayApart ==
  ASSUME Logins!OneLoginPerToken, Logins!CarriersAreMinted, [Logins!Next]_(Logins!loginVars)
  PROVE  Logins!OneLoginPerToken' /\ Logins!CarriersAreMinted'
<1>1. Closed \notin TokenIds /\ NoRow \notin TokenIds
  BY AuthAssumption
<1>2. CASE Logins!Next
  BY <1>1, <1>2, LoginStep
  DEF Logins!OneLoginPerToken, Logins!CarriersAreMinted, Logins!IsOpen
<1>3. CASE UNCHANGED Logins!loginVars
  BY <1>3 DEF Logins!loginVars, Logins!OneLoginPerToken, Logins!CarriersAreMinted, Logins!IsOpen
<1>4. QED
  BY <1>2, <1>3

(* What the abstract logins come to, and so do the tables: a token carries *)
(* one login at most, and none once it has been exchanged or its login has *)
(* ended; a login that is over stays over, and its deadline never moves.   *)
THEOREM LoginsAreOneTimeAndFinal ==
  /\ Logins!Spec => /\ []Logins!OneLoginPerToken
                    /\ Logins!SpentForGood /\ Logins!ClosedForGood /\ Logins!DeadlineStands
  /\ Spec => /\ []Logins!OneLoginPerToken
             /\ Logins!SpentForGood /\ Logins!ClosedForGood /\ Logins!DeadlineStands
<1>1. Logins!Init => Logins!OneLoginPerToken /\ Logins!CarriersAreMinted
  BY AuthAssumption
  DEF Logins!Init, Logins!OneLoginPerToken, Logins!CarriersAreMinted, Logins!IsOpen
<1>2. Logins!OneLoginPerToken /\ Logins!CarriersAreMinted /\ [Logins!Next]_(Logins!loginVars)
        => Logins!OneLoginPerToken' /\ Logins!CarriersAreMinted'
  BY CarriersStayApart
<1>3. Logins!Next => \A k \in Minted : Logins!CarriesNothing(k) => Logins!CarriesNothing(k)'
  <2> SUFFICES ASSUME Logins!Next, NEW k \in Minted, \A l \in SessionIds : Carriers[l] # k
               PROVE  \A l \in SessionIds : Carriers'[l] # k
    BY DEF Logins!CarriesNothing
  <2>1. k # Closed
    BY AuthAssumption DEF Minted
  <2>2. QED
    BY <2>1, LoginStep
<1>4. Logins!Next => \A l \in SessionIds : Carriers[l] = Closed => Carriers'[l] = Closed
  BY LoginStep, AuthAssumption
<1>5. Logins!Next => \A l \in SessionIds : Carriers[l] # NoRow => Deadlines'[l] = Deadlines[l]
  BY LoginStep
<1>6. Logins!Spec => /\ []Logins!OneLoginPerToken
                     /\ Logins!SpentForGood /\ Logins!ClosedForGood /\ Logins!DeadlineStands
  BY <1>1, <1>2, <1>3, <1>4, <1>5, PTL
  DEF Logins!Spec, Logins!SpentForGood, Logins!ClosedForGood, Logins!DeadlineStands
<1>7. QED
  BY <1>6, SessionsAreLogins, PTL DEF ImplementsLogins
=============================================================================
