----------------------------- MODULE BrowserAuth -----------------------------
(***************************************************************************)
(* The pages of one browser and the login they share:                      *)
(* web/static/auth_refresh.js and web/templates/index.html, with the       *)
(* handlers they talk to (api/auth.py, api/auth_dependencies.py,           *)
(* web/routes.py).  The three cookies of a login are set and cleared       *)
(* together and belong to the browser; what a page shows, and the refresh  *)
(* that its requests wait for, belong to the page.                         *)
(*                                                                         *)
(* What the handlers do is one transaction each (AuthSessions looks into   *)
(* them); here it is the answers that take time, and get lost.  The access *)
(* token and the CSRF token that are issued with a refresh token go by its *)
(* number.                                                                 *)
(***************************************************************************)
EXTENDS Naturals, FiniteSets

CONSTANTS
  Tabs,         \* open pages
  Fetches,      \* requests of the pages that may be under way
  TabOf,        \* the page of each
  Loads,        \* those with which a page asks who is logged in
  FormTabs,     \* the pages on which somebody logs in or out
  Users,        \* accounts
  SessionIds,   \* login sessions, in the order they are opened
  TokenIds,     \* refresh tokens, in the order they are issued
  AccessLife,   \* access_token_minutes
  Lifetime,     \* refresh_token_days
  Grace,        \* refresh_reuse_grace_seconds
  Delay,        \* what counts as a prompt message
  Horizon,      \* bound on the clock
  None,         \* no token, no row
  Guest,        \* a page, or a request, without an account
  Refused,      \* a request with a credential that does not hold
  Never         \* NULL in used_at

Session == [user : Users, expires : Nat, revoked : BOOLEAN]
Token == [session : SessionIds, issued : Nat, used : Nat \cup {Never}]

ASSUME BrowserAssumption ==
  /\ TabOf \in [Fetches -> Tabs]
  /\ Loads \subseteq Fetches
  /\ FormTabs \subseteq Tabs
  /\ SessionIds = 1 .. Cardinality(SessionIds)
  /\ TokenIds = 1 .. Cardinality(TokenIds)
  /\ AccessLife \in Nat \ {0} /\ Lifetime \in Nat \ {0}
  /\ {Grace, Delay, Horizon} \subseteq Nat
  /\ {Guest, Refused} \cap Users = {} /\ Guest # Refused
  /\ None \notin {0} \cup SessionIds \cup TokenIds \cup Session \cup Token
  /\ Never \notin Nat

VARIABLES
  sessions,  \* auth_sessions
  tokens,    \* auth_refresh_tokens
  clock,
  jar,       \* the cookies
  shown,     \* the account that each page shows
  form,      \* the answer to a page's login or logout, while it is under way
  refresh,   \* performRefresh of each page
  fetch,     \* fetchWithAuthRefresh, for each request
  hampered   \* history: a refresh or its answer took longer than Delay, or got lost

vars == <<sessions, tokens, clock, jar, shown, form, refresh, fetch, hampered>>
server == <<sessions, tokens>>
pages == <<shown, form, refresh, fetch>>

-----------------------------------------------------------------------------
(* The handlers *)

Opened == {s \in SessionIds : sessions[s] # None}
Issued == {k \in TokenIds : tokens[k] # None}

SessionOf(k) == sessions[tokens[k].session]
IsOpen(k) == ~SessionOf(k).revoked /\ clock < SessionOf(k).expires

Earlier(m, n) == IF m <= n THEN m ELSE n

AccessExpires(k) == Earlier(tokens[k].issued + AccessLife, SessionOf(k).expires)

(* verify_access_token *)
Verified(k) == clock < AccessExpires(k) /\ IsOpen(k)

NextToken == Cardinality(Issued) + 1
NextSession == Cardinality(Opened) + 1

NewToken(s) == [session |-> s, issued |-> clock, used |-> Never]

(* Faulty: a token is in its grace period for a little less. *)
SpentVerdictEarly(k) ==
  IF clock - tokens[k].used < Grace THEN "concurrent" ELSE "replay"

SpentVerdict(k) ==
  IF clock - tokens[k].used <= Grace THEN "concurrent" ELSE "replay"

(* Faulty: a token is good for nothing once it has been used. *)
VerdictWithoutGrace(k) ==
  CASE ~IsOpen(k) -> "invalid"
    [] IsOpen(k) /\ tokens[k].used # Never -> "invalid"
    [] IsOpen(k) /\ tokens[k].used = Never -> "success"

RefreshVerdict(k) ==
  CASE ~IsOpen(k) -> "invalid"
    [] IsOpen(k) /\ tokens[k].used # Never -> SpentVerdict(k)
    [] IsOpen(k) /\ tokens[k].used = Never -> "success"

(* The credentials are made before the transaction that saves them.        *)
NewSession(user) == [user |-> user, expires |-> clock + Lifetime, revoked |-> FALSE]

Open(user) ==
  /\ NextSession \in SessionIds
  /\ NextToken \in TokenIds
  /\ sessions' = [sessions EXCEPT ![NextSession] = NewSession(user)]
  /\ tokens' = [tokens EXCEPT ![NextToken] = NewToken(NextSession)]

Revoke(k) == sessions' = [sessions EXCEPT ![tokens[k].session].revoked = TRUE]

(* Faulty: the token that is exchanged can be used again. *)
RotateKeeping(k) ==
  /\ NextToken \in TokenIds
  /\ tokens' = [tokens EXCEPT ![NextToken] = NewToken(tokens[k].session)]
  /\ UNCHANGED sessions

Rotate(k) ==
  /\ NextToken \in TokenIds
  /\ tokens' = [tokens EXCEPT ![k].used = clock,
                              ![NextToken] = NewToken(tokens[k].session)]
  /\ UNCHANGED sessions

-----------------------------------------------------------------------------
(* The cookies *)

(* _seconds_until, for what is issued together with k *)
SecondsUntil(k, expires) ==
  IF expires > tokens[k].issued THEN expires - tokens[k].issued ELSE 1

(* A cookie lives for as long as its credential has left when it is sent,  *)
(* counted from when it is received.                                       *)
Cookies(k) ==
  [token |-> k,
   accessUntil |-> clock + SecondsUntil(k, AccessExpires(k)),
   until |-> clock + SecondsUntil(k, SessionOf(k).expires)]

AccessCookie == IF jar # None /\ clock < jar.accessUntil THEN jar.token ELSE None
RefreshCookie == IF jar # None /\ clock < jar.until THEN jar.token ELSE None

-----------------------------------------------------------------------------
(* Login and logout *)

ShowAccount(t, who) == shown' = [shown EXCEPT ![t] = who]

NoForm == [op |-> "none", token |-> None]
NoRefresh == [step |-> "none", attempt |-> 0, token |-> None, since |-> 0]

(* The form is there when no account is shown; it is sent once at a time.  *)
Login(t, user) ==
  /\ shown[t] = Guest
  /\ form[t] = NoForm
  /\ Open(user)
  /\ form' = [form EXCEPT ![t] = [op |-> "login", token |-> NextToken]]
  /\ UNCHANGED <<clock, jar, shown, refresh, fetch, hampered>>

(* The session is found by the access cookie or, when that has expired, by *)
(* the refresh cookie, of whoever is logged in by now.                     *)
Logout(t) ==
  /\ shown[t] \in Users
  /\ form[t] = NoForm
  /\ IF RefreshCookie = None THEN UNCHANGED sessions ELSE Revoke(RefreshCookie)
  /\ form' = [form EXCEPT ![t] = [op |-> "logout", token |-> None]]
  /\ UNCHANGED <<tokens, clock, jar, shown, refresh, fetch, hampered>>

FormAnswered(t) ==
  /\ \/ /\ form[t].op = "login"
        /\ jar' = Cookies(form[t].token)
        /\ ShowAccount(t, SessionOf(form[t].token).user)
     \/ /\ form[t].op = "logout"
        /\ jar' = None
        /\ ShowAccount(t, Guest)
  /\ form' = [form EXCEPT ![t] = NoForm]
  /\ UNCHANGED <<server, clock, refresh, fetch, hampered>>

FormLost(t) ==
  /\ form[t] # NoForm
  /\ form' = [form EXCEPT ![t] = NoForm]
  /\ UNCHANGED <<server, clock, jar, shown, refresh, fetch, hampered>>

-----------------------------------------------------------------------------
(* Requests *)

(* Whose credential a request carries, if it carries any.                  *)
Principal(cookie) ==
  CASE cookie = None -> None
    [] cookie # None /\ Verified(cookie) -> SessionOf(cookie).user
    [] cookie # None /\ ~Verified(cookie) -> Refused

(* Whom the handlers take a request for: without a credential, a guest.    *)
Identity(cookie) == IF Principal(cookie) = None THEN Guest ELSE Principal(cookie)

(* 401; a page that asks who is logged in does not want to hear of guests. *)
IsRefused(f, cookie) ==
  Principal(cookie) \in IF f \in Loads THEN {Refused, None} ELSE {Refused}

Park(f) == fetch' = [fetch EXCEPT ![f] = "refused"]

(* A page is loaded, and asks who is logged in before anything else.  It   *)
(* shows a guest until it knows.                                           *)
Load(f) ==
  LET t == TabOf[f] IN
  /\ f \in Loads
  /\ \A g \in Fetches : TabOf[g] = t => fetch[g] = "none"
  /\ refresh[t] = NoRefresh
  /\ form[t] = NoForm
  /\ \/ /\ ~IsRefused(f, AccessCookie)
        /\ ShowAccount(t, Identity(AccessCookie))
        /\ UNCHANGED fetch
     \/ /\ IsRefused(f, AccessCookie)
        /\ Park(f)
        /\ ShowAccount(t, Guest)
  /\ UNCHANGED <<server, clock, jar, form, refresh, hampered>>

(* Any other request, when it is refused: else there is nothing to see.    *)
Ask(f) ==
  /\ f \notin Loads
  /\ fetch[f] = "none"
  /\ IsRefused(f, AccessCookie)
  /\ Park(f)
  /\ UNCHANGED <<server, clock, jar, shown, form, refresh, hampered>>

-----------------------------------------------------------------------------
(* performRefresh *)

Waiting(t) == {f \in Fetches : TabOf[f] = t /\ fetch[f] = "waiting"}

(* The requests that wait are over; when one was to tell who is logged in, *)
(* the page shows what it has got for an answer.                           *)
Release(t, cookie) ==
  /\ fetch' = [f \in Fetches |-> IF f \in Waiting(t) THEN "none" ELSE fetch[f]]
  /\ shown' = IF Waiting(t) \cap Loads # {}
              THEN [shown EXCEPT ![t] =
                      IF Identity(cookie) = Refused THEN Guest ELSE Identity(cookie)]
              ELSE shown

Step(t, name, attempt, k, since) ==
  refresh' = [refresh EXCEPT ![t] = [step |-> name, attempt |-> attempt, token |-> k,
                                     since |-> IF hampered THEN 0 ELSE since]]

(* The refresh token travels with the request.                             *)
SendRefresh(t, attempt) == Step(t, "sent", attempt, RefreshCookie, clock)

(* The refresh that is under way is joined, or one is begun.  Without a    *)
(* CSRF cookie there is nothing to be had.                                 *)
Join(f) ==
  LET t == TabOf[f] IN
  /\ fetch[f] = "refused"
  /\ \/ /\ refresh[t] = NoRefresh /\ RefreshCookie = None
        /\ fetch' = [fetch EXCEPT ![f] = "none"]
        /\ shown' = IF f \in Loads THEN [shown EXCEPT ![t] = Guest] ELSE shown
        /\ UNCHANGED refresh
     \/ /\ fetch' = [fetch EXCEPT ![f] = "waiting"]
        /\ \/ refresh[t] = NoRefresh /\ RefreshCookie # None /\ SendRefresh(t, 1)
           \/ refresh[t] # NoRefresh /\ UNCHANGED refresh
        /\ UNCHANGED shown
  /\ UNCHANGED <<server, clock, jar, form, hampered>>

(* Faulty: there is always another attempt. *)
PauseAlways(t) == Step(t, "pause", 0, None, 0)

(* Faulty: instead of a conflict the answer is the newest token. *)
Reissue(t) == Step(t, "renewed", 0, Cardinality(Issued), clock)

(* 409: once, the refresh is tried again.  The answer's way to the page    *)
(* counts as part of the pause.                                            *)
AfterConflict(t) ==
  Step(t, IF refresh[t].attempt = 1 THEN "pause" ELSE "conflict", 0, None, 0)

(* POST /api/auth/refresh *)
ServeRefresh(t) ==
  LET k == refresh[t].token  verdict == RefreshVerdict(k) IN
  /\ refresh[t].step = "sent"
  /\ \/ verdict = "success" /\ Rotate(k) /\ Step(t, "renewed", 0, NextToken, clock)
     \/ verdict = "concurrent" /\ AfterConflict(t) /\ UNCHANGED server
     \/ verdict = "replay" /\ Revoke(k) /\ Step(t, "expired", 0, None, 0) /\ UNCHANGED tokens
     \/ verdict = "invalid" /\ Step(t, "expired", 0, None, 0) /\ UNCHANGED server
  /\ UNCHANGED <<clock, jar, shown, form, fetch, hampered>>

EndRefresh(t) == refresh' = [refresh EXCEPT ![t] = NoRefresh]

(* The requests that wait are sent once more, with the new cookies.        *)
Renewed(t) ==
  /\ refresh[t].step = "renewed"
  /\ jar' = Cookies(refresh[t].token)
  /\ Release(t, refresh[t].token)
  /\ EndRefresh(t)
  /\ UNCHANGED <<server, clock, form, hampered>>

(* 401 clears the cookies that are there, and the page says so.            *)
Expired(t) ==
  /\ refresh[t].step = "expired"
  /\ jar' = None
  /\ fetch' = [f \in Fetches |-> IF f \in Waiting(t) THEN "none" ELSE fetch[f]]
  /\ ShowAccount(t, Guest)
  /\ EndRefresh(t)
  /\ UNCHANGED <<server, clock, form, hampered>>

GiveUp(t) == Release(t, None) /\ EndRefresh(t)

Conflict(t) ==
  /\ refresh[t].step = "conflict"
  /\ GiveUp(t)
  /\ UNCHANGED <<server, clock, jar, form, hampered>>

(* After the pause the cookies are looked at again.                        *)
Resume(t) ==
  /\ refresh[t].step = "pause"
  /\ \/ RefreshCookie = None /\ GiveUp(t)
     \/ RefreshCookie # None /\ SendRefresh(t, 2) /\ UNCHANGED <<shown, fetch>>
  /\ UNCHANGED <<server, clock, jar, form, hampered>>

(* The request or its answer is lost, or it is refused for another reason. *)
RefreshFails(t) ==
  /\ refresh[t] # NoRefresh
  /\ GiveUp(t)
  /\ hampered' = TRUE
  /\ UNCHANGED <<server, clock, jar, form>>

-----------------------------------------------------------------------------

(* The clock is bounded: it stops when all the logins there may be are     *)
(* over, and all that is left is for the pages to find out.                *)
Tick ==
  /\ clock < Horizon
  /\ {s \in Opened : sessions[s].revoked} # SessionIds
  /\ clock' = clock + 1
  /\ hampered' = (hampered \/ \E t \in Tabs :
                    refresh[t].step \in {"sent", "renewed"} /\ clock' - refresh[t].since > Delay)
  /\ UNCHANGED <<server, jar, pages>>

Init ==
  /\ sessions = [s \in SessionIds |-> None]
  /\ tokens = [k \in TokenIds |-> None]
  /\ clock = 0
  /\ jar = None
  /\ shown = [t \in Tabs |-> Guest]
  /\ form = [t \in Tabs |-> NoForm]
  /\ refresh = [t \in Tabs |-> NoRefresh]
  /\ fetch = [f \in Fetches |-> "none"]
  /\ hampered = FALSE

Refreshing(t) ==
  ServeRefresh(t) \/ Renewed(t) \/ Expired(t) \/ Conflict(t) \/ Resume(t) \/ RefreshFails(t)

Next ==
  \/ Tick
  \/ \E t \in FormTabs :
       \/ \E user \in Users : Login(t, user)
       \/ Logout(t) \/ FormAnswered(t) \/ FormLost(t)
  \/ \E t \in Tabs : Refreshing(t)
  \/ \E f \in Fetches : Load(f) \/ Ask(f) \/ Join(f)

Spec == Init /\ [][Next]_vars

(* Messages arrive or fail, and the event loop of a page runs.             *)
FairSpec == Spec /\ \A t \in Tabs : WF_vars(Refreshing(t))

-----------------------------------------------------------------------------
(* Properties *)

(* Whatever a page asks comes to an end, with an answer, a refusal or an   *)
(* error, though requests wait for a refresh that another one has begun,   *)
(* and the refresh for another page.                                       *)
EveryFetchEnds == \A t \in Tabs : Waiting(t) # {} ~> Waiting(t) = {}

(* Pages that refresh at the same time with the same token are not taken   *)
(* for a thief: as long as every refresh and every answer takes no more    *)
(* than half of the grace period, no session is revoked as replayed.       *)
PromptPagesAreNoReplay ==
  ~hampered =>
    \A t \in Tabs : refresh[t].step = "sent" => RefreshVerdict(refresh[t].token) # "replay"

(* The cookies a browser takes up have not been spent yet: the answers to  *)
(* refreshes do not overtake each other, for only one of several pages     *)
(* gets new cookies, and nobody spends these before they arrive.           *)
CookiesArriveUnspent ==
  \A t \in Tabs : refresh[t].step = "renewed" => tokens[refresh[t].token].used = Never

(* A refresh that is refused takes from the browser no login that is still *)
(* open, be the refusal as late as it may and whoever refreshed meanwhile, *)
(* except one that was opened after another had been.                      *)
NoLoginIsThrownAway ==
  \A t \in Tabs :
    refresh[t].step = "expired" /\ RefreshCookie # None /\ Cardinality(Opened) = 1 =>
      ~IsOpen(RefreshCookie)

(* The coarse tables, read as abstract logins.  0 is no token. *)
CarrierOf(s) ==
  IF sessions[s] = None THEN None ELSE
  IF sessions[s].revoked THEN 0 ELSE
  CHOOSE k \in Issued : tokens[k].session = s /\ tokens[k].used = Never

Carriers == [s \in SessionIds |-> CarrierOf(s)]
Deadlines == [s \in SessionIds |-> IF sessions[s] = None THEN 0 ELSE sessions[s].expires]

Logins == INSTANCE AuthLogins WITH
  Logins <- SessionIds, Tokens <- TokenIds, Unborn <- None, Closed <- 0,
  carrier <- Carriers, deadline <- Deadlines, minted <- Issued

(* What the pages of a browser do to the logins, with requests that wait,  *)
(* cross and get lost, is what AuthSessions, too, is shown to allow: each  *)
(* login is carried by one token at a time, exchanged only for a fresh one *)
(* and never after it is over.                                             *)
ImplementsLogins == Logins!Spec

(* A request of a page that shows an account is not taken for a guest's    *)
(* while the browser has the cookies of a login that is open: an access    *)
(* token that has expired is refused, and so refreshed.                    *)
ExpiredIsNotGuest ==
  \A t \in Tabs :
    shown[t] \in Users /\ RefreshCookie # None /\ IsOpen(RefreshCookie) =>
      Identity(AccessCookie) # Guest

=============================================================================
