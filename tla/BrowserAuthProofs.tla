------------------------- MODULE BrowserAuthProofs --------------------------
(***************************************************************************)
(* Theorems about the pages of one browser and the login they share, for   *)
(* any number of pages, requests, sessions and tokens, any lifetimes and   *)
(* grace period, and any bound on the clock.                               *)
(***************************************************************************)
EXTENDS BrowserAuth, FiniteSetTheorems, TLAPS

-----------------------------------------------------------------------------
(* The inductive invariant *)

Over(s) == sessions[s].revoked \/ sessions[s].expires <= clock

(* Rows are issued in order.  A session has one token that has not been    *)
(* spent, its newest.                                                      *)
Tables ==
  /\ clock \in Nat
  /\ sessions \in [SessionIds -> Session \cup {None}]
  /\ tokens \in [TokenIds -> Token \cup {None}]
  /\ \E n \in Nat : Issued = 1 .. n
  /\ \E n \in Nat : Opened = 1 .. n
  /\ \A k \in Issued :
       /\ tokens[k].session \in Opened
       /\ tokens[k].used # Never => tokens[k].used <= clock

Carries(k, s) == tokens[k].session = s /\ tokens[k].used = Never

OneCarrier ==
  \A s \in Opened :
    /\ \E k \in Issued : Carries(k, s)
    /\ \A k, l \in Issued : Carries(k, s) /\ Carries(l, s) => k = l

Steps == {"none", "sent", "renewed", "expired", "pause", "conflict"}

(* Where a token can be: in the cookies, in a refresh that is under way,   *)
(* in the answer to it, in the answer to a login.                          *)
InJar(k) == jar # None /\ jar.token = k
Sent(t, k) == refresh[t].step = "sent" /\ refresh[t].token = k
InAnswer(t, k) == refresh[t].step = "renewed" /\ refresh[t].token = k
InForm(t, k) == form[t].op = "login" /\ form[t].token = k

Places ==
  /\ jar # None => jar.token \in Issued
  /\ form \in [Tabs -> [op : {"none", "login", "logout"}, token : Issued \cup {None}]]
  /\ refresh \in [Tabs -> [step : Steps, attempt : Nat, token : Issued \cup {None},
                           since : Nat]]
  /\ \A t \in Tabs :
       /\ form[t].op = "login" => form[t].token \in Issued
       /\ refresh[t].step \in {"sent", "renewed"} =>
            refresh[t].token \in Issued /\ refresh[t].since <= clock

(* A token on its way to the browser is in one place, and so unspent.      *)
OnItsWay ==
  \A t \in Tabs, k \in Issued :
    /\ InAnswer(t, k) =>
         /\ tokens[k].used = Never
         /\ ~InJar(k)
         /\ \A u \in Tabs : ~Sent(u, k) /\ ~InForm(u, k) /\ (InAnswer(u, k) => u = t)
    /\ InForm(t, k) =>
         /\ tokens[k].used = Never
         /\ ~InJar(k)
         /\ \A u \in Tabs : ~Sent(u, k) /\ ~InAnswer(u, k) /\ (InForm(u, k) => u = t)

(* As long as messages are prompt, a refresh with a token that is spent    *)
(* began no later than Delay after that; for while the cookies hold a      *)
(* spent token, the answer that replaces them is under way.                *)
Prompt ==
  ~hampered =>
    /\ \A t \in Tabs :
         refresh[t].step \in {"sent", "renewed"} => clock - refresh[t].since <= Delay
    /\ \A t \in Tabs, k \in Issued :
         Sent(t, k) /\ tokens[k].used # Never => refresh[t].since - tokens[k].used <= Delay
    /\ \A k \in Issued :
         InJar(k) /\ tokens[k].used # Never =>
           \E t \in Tabs :
             refresh[t].step = "renewed" /\ refresh[t].since = tokens[k].used

(* A page is told that its login has expired only when some login has.     *)
Refusals ==
  \A t \in Tabs : refresh[t].step = "expired" => \E s \in Opened : Over(s)

BrowserInv == Tables /\ OneCarrier /\ Places /\ OnItsWay /\ Prompt /\ Refusals

-----------------------------------------------------------------------------
(* Rows *)

LEMMA Numbers ==
  ASSUME Tables, NEW k \in Issued
  PROVE  k \in TokenIds /\ k \in Nat /\ k # None
BY BrowserAssumption DEF Tables, Issued

LEMMA TokenRow ==
  ASSUME Tables, NEW k \in Issued
  PROVE  /\ tokens[k] \in Token
         /\ tokens[k].session \in Opened
         /\ tokens[k].used # Never => tokens[k].used \in Nat /\ tokens[k].used <= clock
<1>1. k \in TokenIds /\ tokens[k] # None
  BY DEF Issued
<1>2. tokens[k] \in Token
  BY <1>1 DEF Tables
<1>3. QED
  BY <1>2 DEF Tables, Token

LEMMA SessionRow ==
  ASSUME Tables, NEW s \in Opened
  PROVE  s \in SessionIds /\ s \in Nat /\ sessions[s] \in Session
BY BrowserAssumption DEF Tables, Opened

LEMMA NextIsNew ==
  ASSUME Tables
  PROVE  /\ NextToken \in Nat /\ NextToken \notin Issued
         /\ Issued \cup {NextToken} = 1 .. NextToken
         /\ NextSession \in Nat /\ NextSession \notin Opened
         /\ Opened \cup {NextSession} = 1 .. NextSession
<1>1. PICK n \in Nat : Issued = 1 .. n
  BY DEF Tables
<1>2. PICK m \in Nat : Opened = 1 .. m
  BY DEF Tables
<1>3. Cardinality(1 .. n) = n /\ Cardinality(1 .. m) = m
  BY <1>1, <1>2, FS_Interval
<1>4. NextToken = n + 1 /\ NextSession = m + 1
  BY <1>1, <1>2, <1>3 DEF NextToken, NextSession
<1>5. QED
  BY <1>1, <1>2, <1>4

LEMMA SameRows ==
  ASSUME UNCHANGED server
  PROVE  Issued' = Issued /\ Opened' = Opened
BY DEF server, Issued, Opened

(* While the tables stay as they are, so does what is said of them. *)
LEMMA SameTables ==
  ASSUME Tables, OneCarrier, UNCHANGED <<server, clock>>
  PROVE  /\ Issued' = Issued /\ Opened' = Opened
         /\ Tables' /\ OneCarrier'
         /\ \A s \in Opened : Over(s) => Over(s)'
<1>1. Issued' = Issued /\ Opened' = Opened
  BY SameRows
<1>2. sessions' = sessions /\ tokens' = tokens /\ clock' = clock
  BY DEF server
<1>3. Tables'
  BY <1>1, <1>2 DEF Tables
<1>4. OneCarrier'
  BY <1>1, <1>2 DEF OneCarrier, Carries
<1>5. QED
  BY <1>1, <1>2, <1>3, <1>4 DEF Over

LEMMA RevocationKeepsRows ==
  ASSUME Tables, OneCarrier, NEW k \in Issued, Revoke(k), UNCHANGED <<tokens, clock>>
  PROVE  /\ Issued' = Issued /\ Opened' = Opened
         /\ Tables' /\ OneCarrier'
         /\ Over(tokens[k].session)'
         /\ \A s \in Opened : Over(s) => Over(s)'
<1>0. tokens[k].session \in Opened
  BY TokenRow
<1> DEFINE r == tokens[k].session
<1>1. r \in Opened /\ r \in SessionIds /\ sessions[r] \in Session
  BY <1>0, SessionRow
<1>2. sessions' = [sessions EXCEPT ![r].revoked = TRUE]
  BY DEF Revoke
<1> HIDE DEF r
<1>3. sessions'[r] \in Session /\ sessions'[r].revoked
  BY <1>1, <1>2 DEF Tables, Session
<1>4. sessions' \in [SessionIds -> Session \cup {None}]
  BY <1>1, <1>2, <1>3 DEF Tables
<1>5. \A s \in SessionIds : s # r => sessions'[s] = sessions[s]
  BY <1>1, <1>2 DEF Tables
<1>6. Opened' = Opened /\ Issued' = Issued
  <2>1. sessions'[r] # None /\ sessions[r] # None
    BY <1>1, <1>3, BrowserAssumption
  <2>2. QED
    BY <1>1, <1>5, <2>1 DEF Opened, Issued
<1>7. Tables'
  BY <1>4, <1>6 DEF Tables
<1>8. OneCarrier'
  BY <1>6 DEF OneCarrier, Carries
<1>9. \A s \in Opened : Over(s) => Over(s)'
  <2>1. \A s \in Opened : s \in SessionIds
    BY SessionRow
  <2>2. QED
    BY <1>3, <1>5, <2>1 DEF Over
<1>10. QED
  BY <1>3, <1>6, <1>7, <1>8, <1>9 DEF r, Over

-----------------------------------------------------------------------------
(* A step that concerns neither the tables nor the messages, nor the clock. *)
LEMMA QuietStep ==
  ASSUME BrowserInv, UNCHANGED <<server, clock, jar, form, refresh, hampered>>
  PROVE  BrowserInv'
<1>1. Issued' = Issued /\ Opened' = Opened
  BY SameRows
<1>2. /\ sessions' = sessions /\ tokens' = tokens /\ clock' = clock /\ jar' = jar
      /\ form' = form /\ refresh' = refresh /\ hampered' = hampered
  BY DEF server
<1>3. Tables' /\ OneCarrier'
  BY SameTables DEF BrowserInv, server
<1>4. Places'
  BY <1>1, <1>2 DEF BrowserInv, Places
<1>5. OnItsWay' /\ Prompt'
  BY <1>1, <1>2 DEF BrowserInv, OnItsWay, Prompt, InJar, Sent, InAnswer, InForm
<1>6. Refusals'
  BY <1>1, <1>2 DEF BrowserInv, Refusals, Over
<1>7. QED
  BY <1>3, <1>4, <1>5, <1>6 DEF BrowserInv

(* A refresh that ends, or pauses, or is refused; the cookies may go.      *)
LEMMA RefreshLetsGo ==
  ASSUME BrowserInv, NEW t \in Tabs,
         NEW r \in [step : Steps \ {"sent", "renewed"}, attempt : Nat, token : {None},
                    since : Nat],
         refresh' = [refresh EXCEPT ![t] = r],
         r.step = "expired" => \E s \in Opened : Over(s)',
         UNCHANGED sessions \/ \E k \in Issued : Revoke(k),
         UNCHANGED <<tokens, clock, form>>,
         jar' \in {jar, None},
         hampered => hampered',
         refresh[t].step = "renewed" => hampered' \/ jar' = None
  PROVE  BrowserInv'
<1>1. /\ Issued' = Issued /\ Opened' = Opened
      /\ Tables' /\ OneCarrier'
      /\ \A s \in Opened : Over(s) => Over(s)'
  <2>1. CASE UNCHANGED sessions
    BY <2>1, SameTables DEF BrowserInv, server
  <2>2. CASE \E k \in Issued : Revoke(k)
    BY <2>2, RevocationKeepsRows DEF BrowserInv
  <2>3. QED
    BY <2>1, <2>2
<1>2. /\ refresh'[t] = r /\ r.step \notin {"sent", "renewed"} /\ r.step \in Steps
      /\ \A u \in Tabs : u # t => refresh'[u] = refresh[u]
  BY DEF BrowserInv, Places
<1>3. Places'
  <2>1. jar' # None => jar'.token \in Issued'
    BY <1>1 DEF BrowserInv, Places
  <2>2. refresh' \in [Tabs -> [step : Steps, attempt : Nat, token : Issued \cup {None},
                              since : Nat]]
    BY DEF BrowserInv, Places
  <2>3. QED
    BY <1>1, <1>2, <2>1, <2>2 DEF BrowserInv, Places
<1>4. /\ \A u \in Tabs, k \in Issued :
           /\ Sent(u, k)' => Sent(u, k) /\ u # t
           /\ InAnswer(u, k)' => InAnswer(u, k) /\ u # t
           /\ InForm(u, k)' = InForm(u, k)
      /\ \A k \in Issued : InJar(k)' => InJar(k) /\ jar' # None
  BY <1>2 DEF Sent, InAnswer, InForm, InJar
<1>5. OnItsWay'
  BY <1>1, <1>4 DEF BrowserInv, OnItsWay
<1>6. Prompt'
  <2> SUFFICES ASSUME ~hampered' PROVE Prompt'
    BY DEF Prompt
  <2>1. Prompt /\ ~hampered
    BY DEF BrowserInv
  <2>2. \A u \in Tabs :
          refresh'[u].step \in {"sent", "renewed"} => clock' - refresh'[u].since <= Delay
    BY <1>2, <2>1 DEF Prompt
  <2>3. \A u \in Tabs, k \in Issued :
          Sent(u, k)' /\ tokens'[k].used # Never => refresh'[u].since - tokens'[k].used <= Delay
    BY <1>2, <1>4, <2>1 DEF Prompt
  <2>4. ASSUME NEW k \in Issued, InJar(k)', tokens'[k].used # Never
        PROVE  \E u \in Tabs :
                 refresh'[u].step = "renewed" /\ refresh'[u].since = tokens'[k].used
    <3>1. PICK u \in Tabs :
            refresh[u].step = "renewed" /\ refresh[u].since = tokens[k].used
      BY <1>4, <2>1, <2>4 DEF Prompt
    <3>2. u # t
      BY <1>4, <2>4, <3>1
    <3>3. QED
      BY <1>2, <3>1, <3>2
  <2>5. QED
    BY <1>1, <2>2, <2>3, <2>4 DEF Prompt
<1>7. Refusals'
  <2> SUFFICES ASSUME NEW u \in Tabs, refresh'[u].step = "expired"
               PROVE  \E s \in Opened' : Over(s)'
    BY DEF Refusals
  <2>1. CASE u = t
    BY <1>1, <1>2, <2>1
  <2>2. CASE u # t
    BY <1>1, <1>2, <2>2 DEF BrowserInv, Refusals
  <2>3. QED
    BY <2>1, <2>2
<1>8. QED
  BY <1>1, <1>3, <1>5, <1>6, <1>7 DEF BrowserInv

(* The cookies go out with a refresh: when its token is spent already, then *)
(* not for long.                                                           *)
LEMMA RefreshGoesOut ==
  ASSUME BrowserInv, NEW t \in Tabs, NEW n \in Nat,
         refresh[t].step \notin {"sent", "renewed"},
         RefreshCookie # None,
         SendRefresh(t, n),
         UNCHANGED <<server, clock, jar, form, hampered>>
  PROVE  BrowserInv'
<1> DEFINE k == jar.token
           r == [step |-> "sent", attempt |-> n, token |-> k,
                 since |-> IF hampered THEN 0 ELSE clock]
<1>1. InJar(k) /\ k \in Issued /\ RefreshCookie = k
  BY DEF RefreshCookie, BrowserInv, Places, InJar
<1>2. refresh' = [refresh EXCEPT ![t] = r]
  BY <1>1 DEF SendRefresh, Step
<1>3. clock \in Nat /\ Delay \in Nat
  BY BrowserAssumption DEF BrowserInv, Tables
<1>4. r \in [step : Steps, attempt : Nat, token : Issued \cup {None}, since : Nat]
  BY <1>1, <1>3 DEF Steps
<1>5. /\ r.step = "sent" /\ r.token = k /\ r.since <= clock
      /\ ~hampered => r.since = clock
  BY <1>3
<1> HIDE DEF r
<1>6. /\ refresh'[t] = r
      /\ \A u \in Tabs : u # t => refresh'[u] = refresh[u]
      /\ refresh' \in [Tabs -> [step : Steps, attempt : Nat, token : Issued \cup {None},
                                since : Nat]]
  BY <1>2, <1>4 DEF BrowserInv, Places
<1>7. /\ sessions' = sessions /\ tokens' = tokens /\ clock' = clock /\ jar' = jar
      /\ form' = form /\ hampered' = hampered
  BY DEF server
<1>8. /\ Issued' = Issued /\ Opened' = Opened
      /\ Tables' /\ OneCarrier'
  BY SameTables DEF BrowserInv
<1>9. Places'
  BY <1>1, <1>5, <1>6, <1>7, <1>8 DEF BrowserInv, Places
<1>10. /\ \A u \in Tabs, l \in Issued :
            /\ Sent(u, l)' => (Sent(u, l) /\ u # t) \/ (u = t /\ l = k)
            /\ InAnswer(u, l)' => InAnswer(u, l)
            /\ InForm(u, l)' => InForm(u, l)
       /\ \A l \in Issued : InJar(l)' => InJar(l)
  BY <1>5, <1>6, <1>7 DEF Sent, InAnswer, InForm, InJar
<1>11. OnItsWay'
  BY <1>1, <1>7, <1>8, <1>10 DEF BrowserInv, OnItsWay
<1>12. Prompt'
  <2> SUFFICES ASSUME ~hampered' PROVE Prompt'
    BY DEF Prompt
  <2>1. Prompt /\ ~hampered
    BY <1>7 DEF BrowserInv
  <2>2. \A u \in Tabs :
          refresh'[u].step \in {"sent", "renewed"} => clock' - refresh'[u].since <= Delay
    <3>1. clock' - refresh'[t].since <= Delay
      BY <1>3, <1>5, <1>6, <1>7, <2>1
    <3>2. QED
      BY <1>6, <1>7, <2>1, <3>1 DEF Prompt
  <2>3. ASSUME NEW u \in Tabs, refresh[u].step = "renewed"
        PROVE  refresh'[u] = refresh[u] /\ clock - refresh[u].since <= Delay
    BY <1>6, <2>1, <2>3 DEF Prompt
  <2>4. ASSUME NEW u \in Tabs, NEW l \in Issued, Sent(u, l)', tokens'[l].used # Never
        PROVE  refresh'[u].since - tokens'[l].used <= Delay
    <3>1. CASE Sent(u, l) /\ u # t
      BY <1>6, <1>7, <2>1, <2>4, <3>1 DEF Prompt
    <3>2. CASE u = t /\ l = k
      <4>1. PICK v \in Tabs : refresh[v].step = "renewed" /\ refresh[v].since = tokens[l].used
        BY <1>1, <1>7, <2>1, <2>4, <3>2 DEF Prompt
      <4>2. QED
        BY <1>5, <1>6, <1>7, <2>1, <2>3, <3>2, <4>1
    <3>3. QED
      BY <1>10, <2>4, <3>1, <3>2
  <2>5. ASSUME NEW l \in Issued, InJar(l)', tokens'[l].used # Never
        PROVE  \E u \in Tabs :
                 refresh'[u].step = "renewed" /\ refresh'[u].since = tokens'[l].used
    BY <1>7, <1>10, <2>1, <2>3, <2>5 DEF Prompt
  <2>6. QED
    BY <1>8, <2>2, <2>4, <2>5 DEF Prompt
<1>13. Refusals'
  BY <1>5, <1>6, <1>7, <1>8 DEF BrowserInv, Refusals, Over
<1>14. QED
  BY <1>8, <1>9, <1>11, <1>12, <1>13 DEF BrowserInv

-----------------------------------------------------------------------------
(* A token is exchanged *)

LEMMA RotationRows ==
  ASSUME Tables, OneCarrier, NEW k \in Issued, tokens[k].used = Never,
         Rotate(k), UNCHANGED clock
  PROVE  /\ NextToken \in TokenIds \ Issued
         /\ Issued' = Issued \cup {NextToken} /\ Opened' = Opened
         /\ sessions' = sessions
         /\ tokens'[NextToken] = NewToken(tokens[k].session)
         /\ tokens'[k].session = tokens[k].session /\ tokens'[k].used = clock
         /\ \A l \in Issued : l # k => tokens'[l] = tokens[l]
         /\ Tables' /\ OneCarrier'
<1> DEFINE m == NextToken
           r == tokens[k].session
<1>1. m \in TokenIds /\ m \notin Issued /\ m \in Nat /\ Issued \cup {m} = 1 .. m
  BY NextIsNew DEF Rotate
<1>2. k \in TokenIds /\ tokens[k] \in Token /\ r \in Opened /\ r \in SessionIds
  BY Numbers, TokenRow, SessionRow
<1>3. clock \in Nat
  BY DEF Tables
<1>4. /\ sessions' = sessions /\ clock' = clock
      /\ tokens' = [tokens EXCEPT ![k].used = clock, ![m] = NewToken(r)]
  BY DEF Rotate
<1>5. NewToken(r) \in Token /\ NewToken(r).session = r /\ NewToken(r).used = Never
  BY <1>2, <1>3 DEF NewToken, Token
<1>6. k # m
  BY <1>1
<1> HIDE DEF m, r
<1>7. /\ tokens'[m] = NewToken(r)
      /\ tokens'[k] \in Token /\ tokens'[k].session = r /\ tokens'[k].used = clock
      /\ \A l \in TokenIds : l # k /\ l # m => tokens'[l] = tokens[l]
  <2>1. tokens'[k] = [tokens[k] EXCEPT !.used = clock]
    BY <1>1, <1>2, <1>4, <1>6 DEF Tables
  <2>2. [tokens[k] EXCEPT !.used = clock] \in Token
    BY <1>2, <1>3 DEF Token
  <2>3. [tokens[k] EXCEPT !.used = clock].session = r
    BY <1>2 DEF Token, r
  <2>4. [tokens[k] EXCEPT !.used = clock].used = clock
    BY <1>2 DEF Token
  <2>5. QED
    BY <1>1, <1>2, <1>4, <1>6, <2>1, <2>2, <2>3, <2>4 DEF Tables
<1>8. tokens' \in [TokenIds -> Token \cup {None}]
  <2> DEFINE spent == [tokens EXCEPT ![k].used = clock]
  <2>1. [tokens[k] EXCEPT !.used = clock] \in Token
    BY <1>2, <1>3 DEF Token
  <2>2. spent \in [TokenIds -> Token \cup {None}]
    BY <1>2, <2>1 DEF Tables
  <2>3. tokens' = [spent EXCEPT ![m] = NewToken(r)]
    BY <1>4
  <2> HIDE DEF spent
  <2>4. QED
    BY <1>5, <2>2, <2>3
<1>9. Issued' = Issued \cup {m} /\ Opened' = Opened
  <2>1. tokens'[m] # None /\ tokens'[k] # None
    BY <1>5, <1>7, BrowserAssumption
  <2>2. QED
    BY <1>1, <1>2, <1>4, <1>7, <2>1 DEF Issued, Opened
<1>10. \A l \in Issued : l # k => tokens'[l] = tokens[l]
  BY <1>1, <1>7 DEF Issued
<1>11. Tables'
  <2>1. \E n \in Nat : Issued' = 1 .. n
    BY <1>1, <1>9
  <2>2. \E n \in Nat : Opened' = 1 .. n
    BY <1>9 DEF Tables
  <2>3. ASSUME NEW l \in Issued'
        PROVE  /\ tokens'[l].session \in Opened'
               /\ tokens'[l].used # Never => tokens'[l].used <= clock'
    <3>1. CASE l = m
      BY <1>2, <1>5, <1>7, <1>9, <3>1
    <3>2. CASE l = k
      BY <1>2, <1>3, <1>4, <1>7, <1>9, <3>2
    <3>3. CASE l \in Issued /\ l # k
      <4>1. /\ tokens[l].session \in Opened
            /\ tokens[l].used # Never => tokens[l].used <= clock
        BY <3>3, TokenRow
      <4>2. tokens'[l] = tokens[l] /\ clock' = clock /\ Opened' = Opened
        BY <1>4, <1>9, <1>10, <3>3
      <4>3. QED
        BY <4>1, <4>2
    <3>4. QED
      BY <1>9, <2>3, <3>1, <3>2, <3>3
  <2>4. sessions' \in [SessionIds -> Session \cup {None}] /\ clock' \in Nat
    BY <1>3, <1>4 DEF Tables
  <2>5. QED
    BY <1>8, <2>1, <2>2, <2>3, <2>4 DEF Tables
<1>12. OneCarrier'
  <2>1. clock # Never
    BY <1>3, BrowserAssumption
  <2>2. \A l \in Issued', s \in Opened :
          Carries(l, s)' <=> (l = m /\ s = r) \/ (l \in Issued /\ s # r /\ Carries(l, s))
    <3>1. \A l \in Issued : Carries(l, r) => l = k
      BY <1>2 DEF OneCarrier, Carries, r
    <3>2. QED
      BY <1>1, <1>5, <1>7, <1>9, <1>10, <2>1, <3>1 DEF Carries, r
  <2>3. QED
    BY <1>2, <1>9, <2>2 DEF OneCarrier
<1>13. QED
  BY <1>1, <1>4, <1>7, <1>9, <1>10, <1>11, <1>12 DEF m, r

LEMMA RotationAnswers ==
  ASSUME BrowserInv, NEW t \in Tabs, NEW k \in Issued, Sent(t, k),
         tokens[k].used = Never, Rotate(k),
         Step(t, "renewed", 0, NextToken, clock),
         UNCHANGED <<clock, jar, form, hampered>>
  PROVE  BrowserInv'
<1> DEFINE m == NextToken
           r == [step |-> "renewed", attempt |-> 0, token |-> m,
                 since |-> IF hampered THEN 0 ELSE clock]
<1>1. /\ m \in TokenIds /\ m \notin Issued
      /\ Issued' = Issued \cup {m} /\ Opened' = Opened
      /\ sessions' = sessions
      /\ tokens'[m].used = Never
      /\ tokens'[k].used = clock
      /\ \A l \in Issued : l # k => tokens'[l] = tokens[l]
      /\ Tables' /\ OneCarrier'
  <2>1. Tables /\ OneCarrier
    BY DEF BrowserInv
  <2>2. NewToken(tokens[k].session).used = Never
    BY DEF NewToken
  <2>3. QED
    BY <2>1, <2>2, RotationRows
<1> HIDE DEF m
<1>2. refresh' = [refresh EXCEPT ![t] = r]
  BY DEF Step, m
<1>3. clock \in Nat /\ Delay \in Nat
  BY BrowserAssumption DEF BrowserInv, Tables
<1>4. r \in [step : Steps, attempt : Nat, token : Issued \cup {m}, since : Nat]
  BY <1>3 DEF Steps
<1>5. /\ r.step = "renewed" /\ r.token = m /\ r.since <= clock
      /\ ~hampered => r.since = clock
  BY <1>3
<1> HIDE DEF r
<1>6. /\ refresh'[t] = r
      /\ \A u \in Tabs : u # t => refresh'[u] = refresh[u]
      /\ refresh' \in [Tabs -> [step : Steps, attempt : Nat, token : Issued' \cup {None},
                                since : Nat]]
  <2>1. refresh \in [Tabs -> [step : Steps, attempt : Nat, token : Issued' \cup {None},
                              since : Nat]]
    BY <1>1 DEF BrowserInv, Places
  <2>2. QED
    BY <1>1, <1>2, <1>4, <2>1
<1>7. clock' = clock /\ jar' = jar /\ form' = form /\ hampered' = hampered
  OBVIOUS
<1>8. Places'
  <2>1. form' \in [Tabs -> [op : {"none", "login", "logout"}, token : Issued' \cup {None}]]
    BY <1>1, <1>7 DEF BrowserInv, Places
  <2>2. QED
    BY <1>1, <1>5, <1>6, <1>7, <2>1 DEF BrowserInv, Places
<1>9. /\ \A u \in Tabs, l \in Issued' :
           /\ Sent(u, l)' => Sent(u, l) /\ u # t /\ l \in Issued
           /\ InAnswer(u, l)' =>
                (u = t /\ l = m) \/ (u # t /\ InAnswer(u, l) /\ l \in Issued)
           /\ InForm(u, l)' => InForm(u, l) /\ l \in Issued
      /\ \A l \in Issued' : InJar(l)' => InJar(l) /\ l \in Issued
  BY <1>1, <1>5, <1>6, <1>7 DEF Sent, InAnswer, InForm, InJar, BrowserInv, Places
<1>10. \A u \in Tabs, l \in Issued : InAnswer(u, l) \/ InForm(u, l) => l # k
  BY DEF BrowserInv, OnItsWay
<1>11. OnItsWay'
  <2> SUFFICES ASSUME NEW u \in Tabs, NEW l \in Issued'
               PROVE  /\ InAnswer(u, l)' =>
                           /\ tokens'[l].used = Never
                           /\ ~InJar(l)'
                           /\ \A v \in Tabs : ~Sent(v, l)' /\ ~InForm(v, l)'
                                              /\ (InAnswer(v, l)' => v = u)
                      /\ InForm(u, l)' =>
                           /\ tokens'[l].used = Never
                           /\ ~InJar(l)'
                           /\ \A v \in Tabs : ~Sent(v, l)' /\ ~InAnswer(v, l)'
                                              /\ (InForm(v, l)' => v = u)
    BY DEF OnItsWay
  <2>1. CASE l = m
    BY <1>1, <1>9, <2>1
  <2>2. CASE l \in Issued /\ l # m
    <3>1. (InAnswer(u, l)' => InAnswer(u, l)) /\ (InForm(u, l)' => InForm(u, l))
      BY <1>9, <2>2
    <3>2. \A v \in Tabs : /\ Sent(v, l)' => Sent(v, l)
                          /\ InAnswer(v, l)' => InAnswer(v, l)
                          /\ InForm(v, l)' => InForm(v, l)
      BY <1>9, <2>2
    <3>3. InJar(l)' => InJar(l)
      BY <1>9
    <3>4. InAnswer(u, l) \/ InForm(u, l) => tokens'[l] = tokens[l]
      BY <1>1, <1>10, <2>2
    <3>5. OnItsWay
      BY DEF BrowserInv
    <3>6. QED
      BY <2>2, <3>1, <3>2, <3>3, <3>4, <3>5 DEF OnItsWay
  <2>3. QED
    BY <1>1, <2>1, <2>2
<1>12. Prompt'
  <2> SUFFICES ASSUME ~hampered' PROVE Prompt'
    BY DEF Prompt
  <2>1. Prompt /\ ~hampered
    BY <1>7 DEF BrowserInv
  <2>2. \A u \in Tabs :
          refresh'[u].step \in {"sent", "renewed"} => clock' - refresh'[u].since <= Delay
    <3>1. clock' - refresh'[t].since <= Delay
      BY <1>3, <1>5, <1>6, <1>7, <2>1
    <3>2. QED
      BY <1>6, <1>7, <2>1, <3>1 DEF Prompt
  <2>3. ASSUME NEW u \in Tabs, NEW l \in Issued', Sent(u, l)', tokens'[l].used # Never
        PROVE  refresh'[u].since - tokens'[l].used <= Delay
    <3>1. Sent(u, l) /\ u # t /\ l \in Issued
      BY <1>9, <2>3
    <3>2. refresh'[u].since \in Nat /\ refresh'[u].since <= clock
      BY <1>6, <3>1 DEF BrowserInv, Places, Sent
    <3>3. CASE l = k
      BY <1>1, <1>3, <3>2, <3>3
    <3>4. CASE l # k
      BY <1>1, <1>6, <2>1, <2>3, <3>1, <3>4 DEF Prompt
    <3>5. QED
      BY <3>3, <3>4
  <2>4. ASSUME NEW l \in Issued', InJar(l)', tokens'[l].used # Never
        PROVE  \E u \in Tabs :
                 refresh'[u].step = "renewed" /\ refresh'[u].since = tokens'[l].used
    <3>1. InJar(l) /\ l \in Issued
      BY <1>9, <2>4
    <3>2. CASE l = k
      BY <1>1, <1>5, <1>6, <2>1, <3>2
    <3>3. CASE l # k
      <4>1. PICK u \in Tabs :
              refresh[u].step = "renewed" /\ refresh[u].since = tokens[l].used
        BY <1>1, <2>1, <2>4, <3>1, <3>3 DEF Prompt
      <4>2. QED
        BY <1>1, <1>6, <3>1, <3>3, <4>1 DEF Sent
    <3>4. QED
      BY <3>2, <3>3
  <2>5. QED
    BY <2>2, <2>3, <2>4 DEF Prompt
<1>13. Refusals'
  BY <1>1, <1>5, <1>6, <1>7 DEF BrowserInv, Refusals, Over
<1>14. QED
  BY <1>1, <1>8, <1>11, <1>12, <1>13 DEF BrowserInv

-----------------------------------------------------------------------------
(* What arrives at the browser, or does not *)

(* A message that is under way leaves its place; the cookies become those  *)
(* of a token that nobody else holds, or stay, or go.                      *)
LEMMA MessageEnds ==
  ASSUME BrowserInv, NEW t \in Tabs,
         \/ refresh' = [refresh EXCEPT ![t] = NoRefresh] /\ form' = form
         \/ form' = [form EXCEPT ![t] = NoForm] /\ refresh' = refresh,
         \/ /\ jar' \in {jar, None}
            /\ refresh' = refresh
         \/ \E k \in Issued : /\ jar' = Cookies(k)
                              /\ InAnswer(t, k) \/ InForm(t, k)
                              /\ ~InAnswer(t, k)' /\ ~InForm(t, k)',
         UNCHANGED <<server, clock, hampered>>
  PROVE  BrowserInv'
<1>1. /\ Issued' = Issued /\ Opened' = Opened
      /\ Tables' /\ OneCarrier'
  BY SameTables DEF BrowserInv
<1>2. sessions' = sessions /\ tokens' = tokens /\ clock' = clock /\ hampered' = hampered
  BY DEF server
<1>3. /\ NoRefresh \in [step : Steps, attempt : Nat, token : Issued \cup {None}, since : Nat]
      /\ NoRefresh.step = "none"
      /\ NoForm \in [op : {"none", "login", "logout"}, token : Issued \cup {None}]
      /\ NoForm.op = "none"
  BY DEF NoRefresh, NoForm, Steps
<1>4. /\ refresh' \in [Tabs -> [step : Steps, attempt : Nat, token : Issued \cup {None},
                                since : Nat]]
      /\ form' \in [Tabs -> [op : {"none", "login", "logout"}, token : Issued \cup {None}]]
      /\ \A u \in Tabs : refresh'[u] = refresh[u] \/ refresh'[u].step = "none"
      /\ \A u \in Tabs : form'[u] = form[u] \/ form'[u].op = "none"
  BY <1>3 DEF BrowserInv, Places
<1>5. jar' \in {jar, None} \/ \E k \in Issued : jar'.token = k /\ jar' = Cookies(k)
  BY DEF Cookies
<1>6. Places'
  BY <1>1, <1>2, <1>4, <1>5 DEF BrowserInv, Places
<1>7. \A u \in Tabs, l \in Issued :
        /\ Sent(u, l)' => Sent(u, l)
        /\ InAnswer(u, l)' => InAnswer(u, l)
        /\ InForm(u, l)' => InForm(u, l)
  BY <1>4 DEF Sent, InAnswer, InForm
<1>8. CASE jar' \in {jar, None} /\ refresh' = refresh
  <2>1. \A l \in Issued : InJar(l)' => InJar(l)
    BY <1>8 DEF InJar
  <2>2. OnItsWay'
    BY <1>1, <1>2, <1>7, <2>1 DEF BrowserInv, OnItsWay
  <2>3. Prompt'
    BY <1>1, <1>2, <1>7, <1>8, <2>1 DEF BrowserInv, Prompt
  <2>4. Refusals'
    BY <1>1, <1>2, <1>8 DEF BrowserInv, Refusals, Over
  <2>5. QED
    BY <1>1, <1>6, <2>2, <2>3, <2>4 DEF BrowserInv
<1>9. ASSUME NEW k \in Issued, jar' = Cookies(k),
             InAnswer(t, k) \/ InForm(t, k),
             ~InAnswer(t, k)' /\ ~InForm(t, k)'
      PROVE  BrowserInv'
  <2>1. /\ tokens[k].used = Never
        /\ \A u \in Tabs : u # t => ~InAnswer(u, k) /\ ~InForm(u, k)
    BY <1>9 DEF BrowserInv, OnItsWay
  <2>2. \A u \in Tabs : ~InAnswer(u, k)' /\ ~InForm(u, k)'
    BY <1>7, <1>9, <2>1
  <2>3. \A l \in Issued : InJar(l)' => l = k
    BY <1>9 DEF InJar, Cookies
  <2>4. OnItsWay'
    BY <1>1, <1>2, <1>7, <2>2, <2>3 DEF BrowserInv, OnItsWay
  <2>5. Prompt'
    <3> SUFFICES ASSUME ~hampered' PROVE Prompt'
      BY DEF Prompt
    <3>1. Prompt /\ ~hampered
      BY <1>2 DEF BrowserInv
    <3>2. \A u \in Tabs :
            refresh'[u].step \in {"sent", "renewed"} => clock' - refresh'[u].since <= Delay
      BY <1>2, <1>4, <3>1 DEF Prompt
    <3>3. \A u \in Tabs, l \in Issued :
            Sent(u, l)' /\ tokens'[l].used # Never => refresh'[u].since - tokens'[l].used <= Delay
      BY <1>2, <1>4, <1>7, <3>1 DEF Prompt, Sent
    <3>4. QED
      BY <1>1, <1>2, <2>1, <2>3, <3>2, <3>3 DEF Prompt
  <2>6. Refusals'
    BY <1>1, <1>2, <1>4 DEF BrowserInv, Refusals, Over
  <2>7. QED
    BY <1>1, <1>6, <2>4, <2>5, <2>6 DEF BrowserInv
<1>10. QED
  BY <1>8, <1>9

-----------------------------------------------------------------------------
(* Login and logout *)

LEMMA OpeningRows ==
  ASSUME Tables, OneCarrier, NEW user \in Users, Open(user), UNCHANGED clock
  PROVE  /\ NextToken \in TokenIds \ Issued /\ NextSession \in SessionIds \ Opened
         /\ Issued' = Issued \cup {NextToken} /\ Opened' = Opened \cup {NextSession}
         /\ tokens'[NextToken] = NewToken(NextSession)
         /\ sessions'[NextSession] = NewSession(user)
         /\ \A l \in TokenIds : l # NextToken => tokens'[l] = tokens[l]
         /\ \A s \in SessionIds : s # NextSession => sessions'[s] = sessions[s]
         /\ Tables' /\ OneCarrier'
<1> DEFINE m == NextToken
           r == NextSession
<1>1. /\ m \in TokenIds /\ m \notin Issued /\ m \in Nat /\ Issued \cup {m} = 1 .. m
      /\ r \in SessionIds /\ r \notin Opened /\ r \in Nat /\ Opened \cup {r} = 1 .. r
  BY NextIsNew DEF Open
<1>2. /\ tokens' = [tokens EXCEPT ![m] = NewToken(r)]
      /\ sessions' = [sessions EXCEPT ![r] = NewSession(user)]
      /\ clock' = clock
  BY DEF Open
<1> HIDE DEF m, r
<1>3. clock \in Nat
  BY DEF Tables
<1>4. NewToken(r) \in Token /\ NewToken(r).session = r /\ NewToken(r).used = Never
  BY <1>1, <1>3 DEF NewToken, Token
<1>5. NewSession(user) \in Session
  BY <1>3, BrowserAssumption DEF NewSession, Session
<1>6. /\ tokens'[m] = NewToken(r) /\ sessions'[r] = NewSession(user)
      /\ \A l \in TokenIds : l # m => tokens'[l] = tokens[l]
      /\ \A s \in SessionIds : s # r => sessions'[s] = sessions[s]
  BY <1>1, <1>2 DEF Tables
<1>7. /\ tokens' \in [TokenIds -> Token \cup {None}]
      /\ sessions' \in [SessionIds -> Session \cup {None}]
  BY <1>1, <1>2, <1>4, <1>5 DEF Tables
<1>8. Issued' = Issued \cup {m} /\ Opened' = Opened \cup {r}
  <2>1. tokens'[m] # None /\ sessions'[r] # None
    BY <1>4, <1>5, <1>6, BrowserAssumption
  <2>2. QED
    BY <1>1, <1>6, <2>1 DEF Issued, Opened
<1>9. \A l \in Issued : tokens'[l] = tokens[l] /\ l # m
  BY <1>1, <1>6 DEF Issued
<1>10. Tables'
  <2>1. (\E n \in Nat : Issued' = 1 .. n) /\ (\E n \in Nat : Opened' = 1 .. n)
    BY <1>1, <1>8
  <2>2. ASSUME NEW l \in Issued'
        PROVE  /\ tokens'[l].session \in Opened'
               /\ tokens'[l].used # Never => tokens'[l].used <= clock'
    <3>1. CASE l = m
      BY <1>4, <1>6, <1>8, <3>1
    <3>2. CASE l \in Issued
      <4>1. /\ tokens[l].session \in Opened
            /\ tokens[l].used # Never => tokens[l].used <= clock
        BY <3>2, TokenRow
      <4>2. tokens'[l] = tokens[l] /\ clock' = clock
        BY <1>2, <1>9, <3>2
      <4>3. QED
        BY <1>8, <4>1, <4>2
    <3>3. QED
      BY <1>8, <2>2, <3>1, <3>2
  <2>3. QED
    BY <1>2, <1>3, <1>7, <2>1, <2>2 DEF Tables
<1>11. OneCarrier'
  <2>1. \A l \in Issued : tokens[l].session \in Opened
    BY TokenRow
  <2>2. \A l \in Issued', s \in Opened' :
          Carries(l, s)' <=> (l = m /\ s = r) \/ (l \in Issued /\ s \in Opened /\ Carries(l, s))
    BY <1>1, <1>4, <1>6, <1>8, <1>9, <2>1 DEF Carries
  <2>3. QED
    BY <1>1, <1>8, <2>2 DEF OneCarrier
<1>12. QED
  BY <1>1, <1>6, <1>8, <1>10, <1>11 DEF m, r

LEMMA LoginKeeps ==
  ASSUME BrowserInv, NEW t \in FormTabs, NEW user \in Users, Login(t, user)
  PROVE  BrowserInv'
<1> DEFINE m == NextToken
           r == NextSession
           answer == [op |-> "login", token |-> m]
<1>1. /\ m \in TokenIds /\ m \notin Issued
      /\ r \in SessionIds /\ r \notin Opened
      /\ Issued' = Issued \cup {m} /\ Opened' = Opened \cup {r}
      /\ tokens'[m].used = Never
      /\ \A l \in TokenIds : l # m => tokens'[l] = tokens[l]
      /\ \A s \in SessionIds : s # r => sessions'[s] = sessions[s]
      /\ Tables' /\ OneCarrier'
  <2>1. Tables /\ OneCarrier /\ Open(user) /\ UNCHANGED clock
    BY DEF BrowserInv, Login
  <2>2. NewToken(NextSession).used = Never
    BY DEF NewToken
  <2>3. QED
    BY <2>1, <2>2, OpeningRows
<1>2. /\ t \in Tabs /\ form[t] = NoForm /\ form' = [form EXCEPT ![t] = answer]
      /\ clock' = clock /\ jar' = jar /\ refresh' = refresh /\ hampered' = hampered
  BY BrowserAssumption DEF Login
<1> HIDE DEF m, r
<1>3. answer.op = "login" /\ answer.token = m
  OBVIOUS
<1>4. \A l \in Issued : tokens'[l] = tokens[l]
  BY <1>1 DEF Issued
<1>5. \A s \in Opened : Over(s)' <=> Over(s)
  BY <1>1, <1>2 DEF Opened, Over
<1>6. /\ form'[t] = answer
      /\ \A u \in Tabs : u # t => form'[u] = form[u]
      /\ form' \in [Tabs -> [op : {"none", "login", "logout"}, token : Issued' \cup {None}]]
  <2>1. form \in [Tabs -> [op : {"none", "login", "logout"}, token : Issued' \cup {None}]]
    BY <1>1 DEF BrowserInv, Places
  <2>2. answer \in [op : {"none", "login", "logout"}, token : Issued' \cup {None}]
    BY <1>1
  <2>3. QED
    BY <1>2, <2>1, <2>2
<1> HIDE DEF answer
<1>7. Places'
  <2>1. refresh' \in [Tabs -> [step : Steps, attempt : Nat, token : Issued' \cup {None},
                              since : Nat]]
    BY <1>1, <1>2 DEF BrowserInv, Places
  <2>2. QED
    BY <1>1, <1>2, <1>3, <1>6, <2>1 DEF BrowserInv, Places
<1>8. /\ \A u \in Tabs, l \in Issued' :
           /\ Sent(u, l)' => Sent(u, l) /\ l \in Issued
           /\ InAnswer(u, l)' => InAnswer(u, l) /\ l \in Issued
           /\ InForm(u, l)' => (u = t /\ l = m) \/ (u # t /\ InForm(u, l) /\ l \in Issued)
      /\ \A l \in Issued' : InJar(l)' => InJar(l) /\ l \in Issued
  BY <1>1, <1>2, <1>3, <1>6 DEF Sent, InAnswer, InForm, InJar, BrowserInv, Places
<1>9. OnItsWay'
  <2> SUFFICES ASSUME NEW u \in Tabs, NEW l \in Issued'
               PROVE  /\ InAnswer(u, l)' =>
                           /\ tokens'[l].used = Never
                           /\ ~InJar(l)'
                           /\ \A v \in Tabs : ~Sent(v, l)' /\ ~InForm(v, l)'
                                              /\ (InAnswer(v, l)' => v = u)
                      /\ InForm(u, l)' =>
                           /\ tokens'[l].used = Never
                           /\ ~InJar(l)'
                           /\ \A v \in Tabs : ~Sent(v, l)' /\ ~InAnswer(v, l)'
                                              /\ (InForm(v, l)' => v = u)
    BY DEF OnItsWay
  <2>1. CASE l = m
    BY <1>1, <1>8, <2>1
  <2>2. CASE l \in Issued /\ l # m
    <3>1. \A v \in Tabs : /\ Sent(v, l)' => Sent(v, l)
                          /\ InAnswer(v, l)' => InAnswer(v, l)
                          /\ InForm(v, l)' => InForm(v, l)
      BY <1>8, <2>2
    <3>2. InJar(l)' => InJar(l)
      BY <1>8
    <3>3. OnItsWay /\ tokens'[l] = tokens[l]
      BY <1>4, <2>2 DEF BrowserInv
    <3>4. QED
      BY <2>2, <3>1, <3>2, <3>3 DEF OnItsWay
  <2>3. QED
    BY <1>1, <2>1, <2>2
<1>10. Prompt'
  <2> SUFFICES ASSUME ~hampered' PROVE Prompt'
    BY DEF Prompt
  <2>1. Prompt
    BY DEF BrowserInv
  <2>2. QED
    BY <1>2, <1>4, <1>8, <2>1 DEF Prompt
<1>11. Refusals'
  BY <1>1, <1>2, <1>5 DEF BrowserInv, Refusals
<1>12. QED
  BY <1>1, <1>7, <1>9, <1>10, <1>11 DEF BrowserInv

LEMMA LogoutKeeps ==
  ASSUME BrowserInv, NEW t \in FormTabs, Logout(t)
  PROVE  BrowserInv'
<1>1. /\ t \in Tabs
      /\ form' = [form EXCEPT ![t] = [op |-> "logout", token |-> None]]
      /\ tokens' = tokens /\ clock' = clock /\ jar' = jar /\ refresh' = refresh
      /\ hampered' = hampered
  BY BrowserAssumption DEF Logout
<1>2. /\ Issued' = Issued /\ Opened' = Opened
      /\ Tables' /\ OneCarrier'
      /\ \A s \in Opened : Over(s) => Over(s)'
  <2>1. CASE UNCHANGED sessions
    BY <1>1, <2>1, SameTables DEF BrowserInv, server
  <2>2. CASE RefreshCookie # None /\ Revoke(RefreshCookie)
    <3>1. RefreshCookie \in Issued
      BY <2>2 DEF RefreshCookie, BrowserInv, Places
    <3>2. QED
      BY <1>1, <2>2, <3>1, RevocationKeepsRows DEF BrowserInv
  <2>3. QED
    BY <2>1, <2>2 DEF Logout
<1>3. /\ form' \in [Tabs -> [op : {"none", "login", "logout"}, token : Issued \cup {None}]]
      /\ \A u \in Tabs : form'[u] = form[u] \/ form'[u].op = "logout"
  BY <1>1 DEF BrowserInv, Places
<1>4. Places'
  BY <1>1, <1>2, <1>3 DEF BrowserInv, Places
<1>5. /\ \A u \in Tabs, l \in Issued :
           /\ Sent(u, l)' <=> Sent(u, l)
           /\ InAnswer(u, l)' <=> InAnswer(u, l)
           /\ InForm(u, l)' => InForm(u, l)
      /\ \A l \in Issued : InJar(l)' <=> InJar(l)
  BY <1>1, <1>3 DEF Sent, InAnswer, InForm, InJar
<1>6. OnItsWay'
  BY <1>1, <1>2, <1>5 DEF BrowserInv, OnItsWay
<1>7. Prompt'
  BY <1>1, <1>2, <1>5 DEF BrowserInv, Prompt
<1>8. Refusals'
  BY <1>1, <1>2 DEF BrowserInv, Refusals
<1>9. QED
  BY <1>2, <1>4, <1>6, <1>7, <1>8 DEF BrowserInv

-----------------------------------------------------------------------------
LEMMA TickKeeps ==
  ASSUME BrowserInv, Tick
  PROVE  BrowserInv'
<1>1. /\ sessions' = sessions /\ tokens' = tokens /\ clock' = clock + 1 /\ jar' = jar
      /\ form' = form /\ refresh' = refresh
      /\ hampered' = (hampered \/ \E t \in Tabs :
           refresh[t].step \in {"sent", "renewed"} /\ clock' - refresh[t].since > Delay)
  BY DEF Tick, server, pages
<1>2. Issued' = Issued /\ Opened' = Opened
  BY <1>1 DEF Issued, Opened
<1>3. clock \in Nat /\ Delay \in Nat
  BY BrowserAssumption DEF BrowserInv, Tables
<1>4. Tables'
  <2>1. ASSUME NEW k \in Issued
        PROVE  tokens[k].used # Never => tokens[k].used <= clock'
    <3>1. tokens[k].used # Never => tokens[k].used \in Nat /\ tokens[k].used <= clock
      BY TokenRow DEF BrowserInv
    <3>2. QED
      BY <1>1, <1>3, <3>1
  <2>2. QED
    BY <1>1, <1>2, <1>3, <2>1 DEF BrowserInv, Tables
<1>5. OneCarrier'
  BY <1>1, <1>2 DEF BrowserInv, OneCarrier, Carries
<1>6. Places'
  <2>1. ASSUME NEW t \in Tabs, refresh[t].step \in {"sent", "renewed"}
        PROVE  refresh[t].since <= clock'
    BY <1>1, <1>3, <2>1 DEF BrowserInv, Places
  <2>2. QED
    BY <1>1, <1>2, <2>1 DEF BrowserInv, Places
<1>7. OnItsWay'
  BY <1>1, <1>2 DEF BrowserInv, OnItsWay, InJar, Sent, InAnswer, InForm
<1>8. Prompt'
  <2> SUFFICES ASSUME ~hampered' PROVE Prompt'
    BY DEF Prompt
  <2>1. Prompt /\ ~hampered
    BY <1>1 DEF BrowserInv
  <2>2. ASSUME NEW t \in Tabs, refresh[t].step \in {"sent", "renewed"}
        PROVE  clock' - refresh[t].since <= Delay
    <3>1. ~(clock' - refresh[t].since > Delay)
      BY <1>1, <2>2
    <3>2. refresh[t].since \in Nat
      BY DEF BrowserInv, Places
    <3>3. QED
      BY <1>1, <1>3, <3>1, <3>2
  <2>3. QED
    BY <1>1, <1>2, <2>1, <2>2 DEF Prompt, Sent, InJar
<1>9. Refusals'
  <2>1. ASSUME NEW s \in Opened, Over(s) PROVE Over(s)'
    <3>1. s \in SessionIds /\ sessions[s] \in Session
      BY SessionRow DEF BrowserInv
    <3>2. sessions[s].expires \in Nat
      BY <3>1 DEF Session
    <3>3. QED
      BY <1>1, <1>3, <2>1, <3>2 DEF Over
  <2>2. QED
    BY <1>1, <1>2, <2>1 DEF BrowserInv, Refusals
<1>10. QED
  BY <1>4, <1>5, <1>6, <1>7, <1>8, <1>9 DEF BrowserInv

-----------------------------------------------------------------------------
(* The steps of a refresh *)

LEMMA ClosedIsOver ==
  ASSUME BrowserInv, NEW k \in Issued, ~IsOpen(k)
  PROVE  tokens[k].session \in Opened /\ Over(tokens[k].session)
<1>1. tokens[k].session \in Opened
  BY TokenRow DEF BrowserInv
<1>2. sessions[tokens[k].session] \in Session
  BY <1>1, SessionRow DEF BrowserInv
<1>3. sessions[tokens[k].session].expires \in Nat /\ clock \in Nat
  BY <1>2 DEF Session, BrowserInv, Tables
<1>4. QED
  BY <1>1, <1>3 DEF IsOpen, SessionOf, Over

LEMMA ServeRefreshKeeps ==
  ASSUME BrowserInv, NEW t \in Tabs, ServeRefresh(t)
  PROVE  BrowserInv'
<1> DEFINE k == refresh[t].token
           Answer(name) == [step |-> name, attempt |-> 0, token |-> None,
                            since |-> IF hampered THEN 0 ELSE 0]
<1>1. refresh[t].step = "sent" /\ k \in Issued /\ Sent(t, k)
  BY DEF ServeRefresh, BrowserInv, Places, Sent
<1>2. /\ tokens[k].session \in Opened
      /\ UNCHANGED <<clock, jar, form, hampered>>
  BY <1>1, TokenRow DEF ServeRefresh, BrowserInv
<1> HIDE DEF k
<1>3. ASSUME NEW name \in {"expired", "pause", "conflict"},
             refresh' = [refresh EXCEPT ![t] = Answer(name)],
             name = "expired" => \E s \in Opened : Over(s)',
             UNCHANGED sessions \/ Revoke(k),
             UNCHANGED tokens
      PROVE  BrowserInv'
  <2>1. /\ Answer(name) \in [step : Steps \ {"sent", "renewed"}, attempt : Nat,
                             token : {None}, since : Nat]
        /\ Answer(name).step = name
    BY DEF Steps
  <2> HIDE DEF Answer
  <2>2. UNCHANGED sessions \/ \E l \in Issued : Revoke(l)
    BY <1>1, <1>3
  <2>3. QED
    BY <1>1, <1>2, <1>3, <2>1, <2>2, RefreshLetsGo
<1>4. CASE RefreshVerdict(k) = "success" /\ Rotate(k) /\ Step(t, "renewed", 0, NextToken, clock)
  <2>1. tokens[k].used = Never
    BY <1>4 DEF RefreshVerdict, SpentVerdict
  <2>2. QED
    BY <1>1, <1>2, <1>4, <2>1, RotationAnswers
<1>5. CASE AfterConflict(t) /\ UNCHANGED server
  <2>1. PICK name \in {"pause", "conflict"} : refresh' = [refresh EXCEPT ![t] = Answer(name)]
    BY <1>5 DEF AfterConflict, Step
  <2>2. sessions' = sessions /\ tokens' = tokens
    BY <1>5 DEF server
  <2> HIDE DEF Answer
  <2>3. QED
    BY <1>3, <2>1, <2>2
<1>6. CASE Revoke(k) /\ Step(t, "expired", 0, None, 0) /\ UNCHANGED tokens
  <2>1. refresh' = [refresh EXCEPT ![t] = Answer("expired")]
    BY <1>6 DEF Step
  <2>2. PICK l \in Issued : l = k
    BY <1>1
  <2>3. \E s \in Opened : Over(s)'
    <3>1. Over(tokens[l].session)' /\ tokens'[l] = tokens[l]
      BY <1>2, <1>6, <2>2, RevocationKeepsRows DEF BrowserInv
    <3>2. tokens[l].session \in Opened
      BY <1>2, <2>2
    <3>3. QED
      BY <3>1, <3>2
  <2> HIDE DEF Answer
  <2>4. QED
    BY <1>3, <1>6, <2>1, <2>3
<1>7. CASE RefreshVerdict(k) = "invalid" /\ Step(t, "expired", 0, None, 0) /\ UNCHANGED server
  <2>1. refresh' = [refresh EXCEPT ![t] = Answer("expired")]
    BY <1>7 DEF Step
  <2>2. sessions' = sessions /\ tokens' = tokens
    BY <1>7 DEF server
  <2>3. ~IsOpen(k)
    BY <1>7 DEF RefreshVerdict, SpentVerdict
  <2>4. \E s \in Opened : Over(s)'
    BY <1>1, <1>2, <2>2, <2>3, ClosedIsOver DEF Over
  <2> HIDE DEF Answer
  <2>5. QED
    BY <1>3, <2>1, <2>2, <2>4
<1>8. QED
  BY <1>4, <1>5, <1>6, <1>7 DEF ServeRefresh, k

LEMMA RefreshingKeeps ==
  ASSUME BrowserInv, NEW t \in Tabs, Refreshing(t)
  PROVE  BrowserInv'
<1>1. /\ NoRefresh \in [step : Steps \ {"sent", "renewed"}, attempt : Nat,
                        token : {None}, since : Nat]
      /\ NoRefresh.step = "none"
  BY DEF NoRefresh, Steps
<1>2. refresh[t].step = "renewed" => refresh[t].token \in Issued
  BY DEF BrowserInv, Places
<1>3. ASSUME EndRefresh(t), UNCHANGED <<server, clock, form>>,
             jar' \in {jar, None}, hampered => hampered',
             refresh[t].step = "renewed" => hampered' \/ jar' = None
      PROVE  BrowserInv'
  <2>1. refresh' = [refresh EXCEPT ![t] = NoRefresh] /\ sessions' = sessions
        /\ tokens' = tokens /\ clock' = clock /\ form' = form
    BY <1>3 DEF EndRefresh, server
  <2>2. QED
    BY <1>1, <1>3, <2>1, RefreshLetsGo
<1>4. CASE ServeRefresh(t)
  BY <1>4, ServeRefreshKeeps
<1>5. CASE Renewed(t)
  <2>1. refresh' = [refresh EXCEPT ![t] = NoRefresh]
    BY <1>5 DEF Renewed, EndRefresh
  <2>2. refresh'[t].step = "none" /\ form' = form
    BY <1>1, <1>5, <2>1 DEF Renewed, BrowserInv, Places
  <2>3. PICK k \in Issued : k = refresh[t].token /\ InAnswer(t, k)
    BY <1>2, <1>5 DEF Renewed, InAnswer
  <2>4. ~InAnswer(t, k)' /\ ~InForm(t, k)'
    BY <2>2, <2>3 DEF InAnswer, InForm, BrowserInv, OnItsWay
  <2>5. UNCHANGED <<server, clock, hampered>> /\ jar' = Cookies(k)
    BY <1>5, <2>3 DEF Renewed
  <2>6. QED
    BY <2>1, <2>2, <2>3, <2>4, <2>5, MessageEnds
<1>6. CASE Expired(t)
  BY <1>3, <1>6 DEF Expired
<1>7. CASE Conflict(t)
  BY <1>3, <1>7 DEF Conflict, GiveUp
<1>8. CASE Resume(t)
  <2>1. CASE RefreshCookie = None /\ GiveUp(t)
    BY <1>3, <1>8, <2>1 DEF Resume, GiveUp
  <2>2. CASE RefreshCookie # None /\ SendRefresh(t, 2)
    <3>1. refresh[t].step = "pause" /\ UNCHANGED <<server, clock, jar, form, hampered>>
      BY <1>8 DEF Resume
    <3>2. QED
      BY <2>2, <3>1, RefreshGoesOut
  <2>3. QED
    BY <1>8, <2>1, <2>2 DEF Resume
<1>9. CASE RefreshFails(t)
  BY <1>3, <1>9 DEF RefreshFails, GiveUp
<1>10. QED
  BY <1>4, <1>5, <1>6, <1>7, <1>8, <1>9 DEF Refreshing

-----------------------------------------------------------------------------
LEMMA InitEstablishesBrowserInv ==
  ASSUME Init PROVE BrowserInv
<1>1. Issued = {} /\ Opened = {}
  BY DEF Init, Issued, Opened
<1>2. {} = 1 .. 0 /\ 0 \in Nat
  OBVIOUS
<1>3. Tables
  BY <1>1, <1>2 DEF Init, Tables
<1>4. OneCarrier
  BY <1>1 DEF OneCarrier
<1>5. Places
  BY <1>1 DEF Init, Places, NoForm, NoRefresh, Steps
<1>6. OnItsWay /\ Prompt /\ Refusals
  BY <1>1 DEF Init, OnItsWay, Prompt, Refusals, NoRefresh
<1>7. QED
  BY <1>3, <1>4, <1>5, <1>6 DEF BrowserInv

LEMMA StepKeepsBrowserInv ==
  ASSUME BrowserInv, [Next]_vars PROVE BrowserInv'
<1>1. CASE Tick
  BY <1>1, TickKeeps
<1>2. ASSUME NEW t \in FormTabs, NEW user \in Users, Login(t, user) PROVE BrowserInv'
  BY <1>2, LoginKeeps
<1>3. ASSUME NEW t \in FormTabs, Logout(t) PROVE BrowserInv'
  BY <1>3, LogoutKeeps
<1>4. ASSUME NEW t \in FormTabs, FormAnswered(t) PROVE BrowserInv'
  <2>1. /\ t \in Tabs /\ form' = [form EXCEPT ![t] = NoForm] /\ refresh' = refresh
        /\ UNCHANGED <<server, clock, hampered>>
    BY <1>4, BrowserAssumption DEF FormAnswered
  <2>2. CASE jar' = None
    BY <2>1, <2>2, MessageEnds
  <2>3. CASE form[t].op = "login" /\ jar' = Cookies(form[t].token)
    <3>1. PICK k \in Issued : k = form[t].token /\ InForm(t, k)
      BY <2>1, <2>3 DEF BrowserInv, Places, InForm
    <3>2. form'[t].op = "none"
      BY <2>1 DEF BrowserInv, Places, NoForm
    <3>3. ~InForm(t, k)' /\ ~InAnswer(t, k)'
      BY <2>1, <3>1, <3>2 DEF InForm, InAnswer, BrowserInv, OnItsWay
    <3>4. QED
      BY <2>1, <2>3, <3>1, <3>3, MessageEnds
  <2>4. QED
    BY <1>4, <2>2, <2>3 DEF FormAnswered
<1>5. ASSUME NEW t \in FormTabs, FormLost(t) PROVE BrowserInv'
  <2>1. /\ t \in Tabs /\ form' = [form EXCEPT ![t] = NoForm] /\ refresh' = refresh
        /\ jar' = jar /\ UNCHANGED <<server, clock, hampered>>
    BY <1>5, BrowserAssumption DEF FormLost
  <2>2. QED
    BY <2>1, MessageEnds
<1>6. ASSUME NEW t \in Tabs, Refreshing(t) PROVE BrowserInv'
  BY <1>6, RefreshingKeeps
<1>7. ASSUME NEW f \in Fetches, Load(f) \/ Ask(f) PROVE BrowserInv'
  BY <1>7, QuietStep DEF Load, Ask
<1>8. ASSUME NEW f \in Fetches, Join(f) PROVE BrowserInv'
  <2>1. UNCHANGED <<server, clock, jar, form, hampered>> /\ TabOf[f] \in Tabs
    BY <1>8, BrowserAssumption DEF Join
  <2>2. CASE UNCHANGED refresh
    BY <2>1, <2>2, QuietStep
  <2>3. CASE refresh[TabOf[f]] = NoRefresh /\ RefreshCookie # None /\ SendRefresh(TabOf[f], 1)
    <3>1. refresh[TabOf[f]].step \notin {"sent", "renewed"}
      BY <2>3 DEF NoRefresh
    <3>2. QED
      BY <2>1, <2>3, <3>1, RefreshGoesOut
  <2>4. QED
    BY <1>8, <2>2, <2>3 DEF Join
<1>9. CASE UNCHANGED vars
  BY <1>9, QuietStep DEF vars, server
<1>10. QED
  BY <1>1, <1>2, <1>3, <1>4, <1>5, <1>6, <1>7, <1>8, <1>9 DEF Next

(* The tables are sound, each login has one unspent token, a token that is *)
(* on its way is nowhere else, and prompt refreshes begin soon after the   *)
(* token that they carry was spent: in every state, whatever the pages,    *)
(* the handlers and the network do.                                        *)
THEOREM BrowserInvariantHolds == Spec => []BrowserInv
<1>1. Init => BrowserInv
  BY InitEstablishesBrowserInv
<1>2. BrowserInv /\ [Next]_vars => BrowserInv'
  BY StepKeepsBrowserInv
<1>3. QED
  BY <1>1, <1>2, PTL DEF Spec

-----------------------------------------------------------------------------
(* What the runs check *)

(* The cookies a browser takes up, with the answer to a refresh of any     *)
(* page, have not been spent: no answer overtakes another.                 *)
THEOREM CookiesAlwaysArriveUnspent == Spec => []CookiesArriveUnspent
<1>1. BrowserInv => CookiesArriveUnspent
  BY DEF BrowserInv, Places, OnItsWay, InAnswer, CookiesArriveUnspent
<1>2. QED
  BY <1>1, BrowserInvariantHolds, PTL

(* When a message is prompt for half of the grace period, pages that share *)
(* a token and refresh at once are never taken for a thief.                *)
THEOREM PromptPagesAreNeverReplay ==
  ASSUME 2 * Delay <= Grace
  PROVE  Spec => []PromptPagesAreNoReplay
<1>1. ASSUME BrowserInv, ~hampered, NEW t \in Tabs, refresh[t].step = "sent"
      PROVE  RefreshVerdict(refresh[t].token) # "replay"
  <2> DEFINE k == refresh[t].token
  <2>1. k \in Issued /\ Sent(t, k)
    BY <1>1 DEF BrowserInv, Places, Sent
  <2>2. Grace \in Nat /\ Delay \in Nat /\ clock \in Nat /\ refresh[t].since \in Nat
    BY <1>1, BrowserAssumption DEF BrowserInv, Tables, Places
  <2>3. CASE tokens[k].used = Never
    BY <2>3 DEF RefreshVerdict
  <2>4. CASE tokens[k].used # Never
    <3>1. tokens[k].used \in Nat
      BY <1>1, <2>1, <2>4, TokenRow DEF BrowserInv
    <3>2. clock - refresh[t].since <= Delay /\ refresh[t].since - tokens[k].used <= Delay
      BY <1>1, <2>1, <2>4 DEF BrowserInv, Prompt
    <3>3. clock - tokens[k].used <= Grace
      BY <2>2, <3>1, <3>2
    <3>4. QED
      BY <2>4, <3>3 DEF RefreshVerdict, SpentVerdict
  <2>5. QED
    BY <2>3, <2>4
<1>2. BrowserInv => PromptPagesAreNoReplay
  BY <1>1 DEF PromptPagesAreNoReplay
<1>3. QED
  BY <1>2, BrowserInvariantHolds, PTL

(* A browser that has had one login is told to forget it only when it is   *)
(* over: no refusal, however late, clears the cookies of an open login.    *)
THEOREM OpenLoginsAreNeverThrownAway == Spec => []NoLoginIsThrownAway
<1>1. ASSUME BrowserInv, NEW t \in Tabs, refresh[t].step = "expired",
             RefreshCookie # None, Cardinality(Opened) = 1
      PROVE  ~IsOpen(RefreshCookie)
  <2>1. PICK s \in Opened : Over(s)
    BY <1>1 DEF BrowserInv, Refusals
  <2>2. RefreshCookie \in Issued
    BY <1>1 DEF RefreshCookie, BrowserInv, Places
  <2>3. tokens[RefreshCookie].session \in Opened
    BY <1>1, <2>2, TokenRow DEF BrowserInv
  <2>4. PICK n \in Nat : Opened = 1 .. n
    BY <1>1 DEF BrowserInv, Tables
  <2>5. Cardinality(1 .. n) = n
    BY <2>4, FS_Interval
  <2>6. tokens[RefreshCookie].session = s
    BY <1>1, <2>3, <2>4, <2>5
  <2>7. sessions[s].expires \in Nat /\ clock \in Nat
    BY <1>1, SessionRow DEF BrowserInv, Tables, Session
  <2>8. QED
    BY <2>1, <2>6, <2>7 DEF Over, IsOpen, SessionOf
<1>2. BrowserInv => NoLoginIsThrownAway
  BY <1>1 DEF NoLoginIsThrownAway
<1>3. QED
  BY <1>2, BrowserInvariantHolds, PTL

-----------------------------------------------------------------------------
(* The refinement *)

(* What the abstract logins are in a state of the tables.                  *)
LoginsRead ==
  /\ \A s \in SessionIds \ Opened : Carriers[s] = None /\ Deadlines[s] = 0
  /\ \A s \in Opened :
       /\ Deadlines[s] = sessions[s].expires
       /\ sessions[s].revoked => Carriers[s] = 0
  /\ \A k \in Issued, s \in Opened :
       Carries(k, s) /\ ~sessions[s].revoked => Carriers[s] = k

LEMMA LoginsMeaning == BrowserInv => LoginsRead
<1> SUFFICES ASSUME BrowserInv PROVE LoginsRead
  OBVIOUS
<1>1. \A s \in SessionIds \ Opened : Carriers[s] = None /\ Deadlines[s] = 0
  BY DEF Carriers, Deadlines, CarrierOf, Opened
<1>2. ASSUME NEW s \in Opened
      PROVE  /\ s \in SessionIds /\ Deadlines[s] = sessions[s].expires
             /\ sessions[s].revoked => Carriers[s] = 0
  BY DEF Carriers, Deadlines, CarrierOf, Opened
<1>3. ASSUME NEW k \in Issued, NEW s \in Opened, Carries(k, s), ~sessions[s].revoked
      PROVE  Carriers[s] = k
  <2>1. Carriers[s] = CHOOSE l \in Issued : tokens[l].session = s /\ tokens[l].used = Never
    BY <1>3 DEF Carriers, CarrierOf, Opened
  <2>2. \A l \in Issued : tokens[l].session = s /\ tokens[l].used = Never => l = k
    BY <1>3 DEF BrowserInv, OneCarrier, Carries
  <2>3. tokens[k].session = s /\ tokens[k].used = Never
    BY <1>3 DEF Carries
  <2>4. QED
    BY <2>1, <2>2, <2>3
<1>4. QED
  BY <1>1, <1>2, <1>3 DEF LoginsRead

LEMMA SameLogin ==
  ASSUME BrowserInv, LoginsRead, LoginsRead', NEW s \in SessionIds,
         sessions'[s] = sessions[s], s \in Opened <=> s \in Opened',
         \A k \in Issued : tokens[k].session = s => k \in Issued' /\ tokens'[k] = tokens[k]
  PROVE  Carriers'[s] = Carriers[s] /\ Deadlines'[s] = Deadlines[s]
<1>1. CASE s \notin Opened
  BY <1>1 DEF LoginsRead
<1>2. CASE s \in Opened /\ sessions[s].revoked
  BY <1>2 DEF LoginsRead
<1>3. CASE s \in Opened /\ ~sessions[s].revoked
  <2>1. PICK k \in Issued : Carries(k, s)
    BY <1>3 DEF BrowserInv, OneCarrier
  <2>2. k \in Issued' /\ tokens'[k].session = s /\ tokens'[k].used = Never
    BY <2>1 DEF Carries
  <2>3. Carriers[s] = k /\ Carriers'[s] = k
    BY <1>3, <2>1, <2>2 DEF LoginsRead, Carries
  <2>4. QED
    BY <1>3, <2>3 DEF LoginsRead
<1>4. QED
  BY <1>1, <1>2, <1>3

LEMMA SameTablesAreSameLogins ==
  ASSUME UNCHANGED <<sessions, tokens>>
  PROVE  Carriers' = Carriers /\ Deadlines' = Deadlines /\ Issued' = Issued
BY DEF Carriers, Deadlines, CarrierOf, Issued

LEMMA LoginOpens ==
  ASSUME BrowserInv, LoginsRead, LoginsRead', NEW user \in Users, Open(user), UNCHANGED clock
  PROVE  Logins!Next
<1> DEFINE m == NextToken
           r == NextSession
<1>1. /\ m \in TokenIds /\ m \notin Issued
      /\ r \in SessionIds /\ r \notin Opened
      /\ Issued' = Issued \cup {m} /\ Opened' = Opened \cup {r}
      /\ tokens'[m].session = r /\ tokens'[m].used = Never
      /\ ~sessions'[r].revoked
      /\ \A l \in TokenIds : l # m => tokens'[l] = tokens[l]
      /\ \A s \in SessionIds : s # r => sessions'[s] = sessions[s]
  <2>1. Tables /\ OneCarrier
    BY DEF BrowserInv
  <2>2. /\ NewToken(NextSession).session = NextSession /\ NewToken(NextSession).used = Never
        /\ ~NewSession(user).revoked
    BY DEF NewToken, NewSession
  <2>3. QED
    BY <2>1, <2>2, OpeningRows
<1> HIDE DEF m, r
<1>2. Carriers[r] = None /\ Carriers'[r] = m
  BY <1>1 DEF LoginsRead, Carries
<1>3. \A s \in SessionIds \ {r} : Carriers'[s] = Carriers[s] /\ Deadlines'[s] = Deadlines[s]
  <2>1. \A l \in Issued : l \in Issued' /\ tokens'[l] = tokens[l]
    BY <1>1 DEF Issued
  <2>2. QED
    BY <1>1, <2>1, SameLogin
<1>4. Logins!OthersGoOn(r)
  BY <1>3 DEF Logins!OthersGoOn
<1>5. Logins!Open(r)
  BY <1>1, <1>2, <1>4 DEF Logins!Open, Logins!CarriedByNewToken
<1>6. QED
  BY <1>1, <1>5 DEF Logins!Next

LEMMA LoginIsExchanged ==
  ASSUME BrowserInv, LoginsRead, LoginsRead', NEW k \in Issued, IsOpen(k),
         tokens[k].used = Never, Rotate(k), UNCHANGED clock
  PROVE  Logins!Next
<1> DEFINE m == NextToken
           r == tokens[k].session
<1>1. /\ m \in TokenIds /\ m \notin Issued
      /\ Issued' = Issued \cup {m} /\ Opened' = Opened
      /\ sessions' = sessions
      /\ tokens'[m].session = r /\ tokens'[m].used = Never
      /\ \A l \in Issued : l # k => tokens'[l] = tokens[l]
  <2>1. Tables /\ OneCarrier
    BY DEF BrowserInv
  <2>2. NewToken(r).session = r /\ NewToken(r).used = Never
    BY DEF NewToken
  <2>3. QED
    BY <2>1, <2>2, RotationRows
<1>2. r \in Opened /\ ~sessions[r].revoked /\ k \in TokenIds /\ Carries(k, r)
  BY TokenRow, Numbers DEF BrowserInv, IsOpen, SessionOf, Carries
<1>3. r \in SessionIds
  BY <1>2, SessionRow DEF BrowserInv
<1> HIDE DEF m, r
<1>4. Carriers[r] = k /\ Carriers'[r] = m /\ Deadlines'[r] = Deadlines[r]
  BY <1>1, <1>2 DEF LoginsRead, Carries
<1>5. \A s \in SessionIds \ {r} : Carriers'[s] = Carriers[s] /\ Deadlines'[s] = Deadlines[s]
  <2>1. tokens[k].session = r
    BY DEF r
  <2>2. QED
    BY <1>1, <2>1, SameLogin
<1>6. Logins!OthersGoOn(r)
  BY <1>5 DEF Logins!OthersGoOn
<1>7. Logins!Exchange(r)
  BY <1>1, <1>2, <1>4, <1>6
  DEF Logins!Exchange, Logins!CarriedByNewToken, Logins!IsOpen
<1>8. QED
  BY <1>3, <1>7 DEF Logins!Next

(* To revoke a session once more changes nothing.                          *)
LEMMA LoginIsClosed ==
  ASSUME BrowserInv, LoginsRead, LoginsRead', NEW k \in Issued, Revoke(k),
         UNCHANGED <<tokens, clock>>
  PROVE  [Logins!Next]_(Logins!loginVars)
<1> DEFINE r == tokens[k].session
<1>1. r \in Opened
  BY TokenRow DEF BrowserInv
<1>2. r \in SessionIds /\ sessions[r] \in Session
  BY <1>1, SessionRow DEF BrowserInv
<1>3. sessions' = [sessions EXCEPT ![r].revoked = TRUE]
  BY DEF Revoke
<1>4. Issued' = Issued /\ Opened' = Opened
  BY RevocationKeepsRows DEF BrowserInv
<1> HIDE DEF r
<1>5. CASE sessions[r].revoked
  <2>1. [sessions[r] EXCEPT !.revoked = TRUE] = sessions[r]
    BY <1>2, <1>5 DEF Session
  <2>2. sessions' = sessions
    BY <1>2, <1>3, <2>1 DEF BrowserInv, Tables
  <2>3. Carriers' = Carriers /\ Deadlines' = Deadlines
    BY <2>2, SameTablesAreSameLogins
  <2>4. QED
    BY <1>4, <2>3 DEF Logins!loginVars
<1>6. CASE ~sessions[r].revoked
  <2>1. PICK l \in Issued : Carries(l, r)
    BY <1>1 DEF BrowserInv, OneCarrier
  <2>2. l \in TokenIds
    BY Numbers DEF BrowserInv
  <2>3. sessions'[r].revoked /\ sessions'[r].expires = sessions[r].expires
    BY <1>2, <1>3 DEF BrowserInv, Tables, Session
  <2>4. Carriers[r] = l /\ Carriers'[r] = 0 /\ Deadlines'[r] = Deadlines[r]
    BY <1>1, <1>4, <1>6, <2>1, <2>3 DEF LoginsRead
  <2>5. \A s \in SessionIds \ {r} : sessions'[s] = sessions[s]
    BY <1>2, <1>3 DEF BrowserInv, Tables
  <2>6. \A s \in SessionIds \ {r} : Carriers'[s] = Carriers[s] /\ Deadlines'[s] = Deadlines[s]
    BY <1>4, <2>5, SameLogin
  <2>7. Logins!OthersGoOn(r)
    BY <2>6 DEF Logins!OthersGoOn
  <2>8. Logins!Close(r)
    BY <1>4, <2>2, <2>4, <2>7 DEF Logins!Close, Logins!IsOpen
  <2>9. QED
    BY <1>2, <2>8 DEF Logins!Next
<1>7. QED
  BY <1>5, <1>6

LEMMA LoginsStay ==
  ASSUME UNCHANGED <<server, clock>>
  PROVE  UNCHANGED Logins!loginVars
BY SameTablesAreSameLogins DEF Logins!loginVars, server

LEMMA RefreshingRefines ==
  ASSUME BrowserInv, LoginsRead, LoginsRead', NEW t \in Tabs, Refreshing(t)
  PROVE  [Logins!Next]_(Logins!loginVars)
<1>1. CASE ServeRefresh(t)
  <2>1. PICK k \in Issued : k = refresh[t].token
    BY <1>1 DEF ServeRefresh, BrowserInv, Places
  <2>2. UNCHANGED clock
    BY <1>1 DEF ServeRefresh
  <2>3. CASE RefreshVerdict(k) = "success" /\ Rotate(k)
    <3>1. IsOpen(k) /\ tokens[k].used = Never
      BY <2>3 DEF RefreshVerdict, SpentVerdict
    <3>2. QED
      BY <2>2, <2>3, <3>1, LoginIsExchanged
  <2>4. CASE Revoke(k) /\ UNCHANGED tokens
    BY <2>2, <2>4, LoginIsClosed
  <2>5. CASE UNCHANGED server
    BY <2>2, <2>5, LoginsStay
  <2>6. QED
    BY <1>1, <2>1, <2>3, <2>4, <2>5 DEF ServeRefresh
<1>2. CASE Renewed(t) \/ Expired(t) \/ Conflict(t) \/ Resume(t) \/ RefreshFails(t)
  BY <1>2, LoginsStay DEF Renewed, Expired, Conflict, Resume, RefreshFails
<1>3. QED
  BY <1>1, <1>2 DEF Refreshing

LEMMA StepRefines ==
  ASSUME BrowserInv, LoginsRead, LoginsRead', [Next]_vars
  PROVE  [Logins!Next]_(Logins!loginVars)
<1>1. CASE Tick
  <2>1. clock' > clock /\ UNCHANGED <<sessions, tokens>>
    BY <1>1 DEF Tick, server, BrowserInv, Tables
  <2>2. Logins!Tick
    BY <2>1, SameTablesAreSameLogins DEF Logins!Tick
  <2>3. QED
    BY <2>2 DEF Logins!Next
<1>2. ASSUME NEW t \in FormTabs, NEW user \in Users, Login(t, user)
      PROVE  [Logins!Next]_(Logins!loginVars)
  BY <1>2, LoginOpens DEF Login
<1>3. ASSUME NEW t \in FormTabs, Logout(t) PROVE [Logins!Next]_(Logins!loginVars)
  <2>1. UNCHANGED <<tokens, clock>>
    BY <1>3 DEF Logout
  <2>2. CASE UNCHANGED sessions
    BY <2>1, <2>2, LoginsStay DEF server
  <2>3. CASE RefreshCookie # None /\ Revoke(RefreshCookie)
    <3>1. RefreshCookie \in Issued
      BY <2>3 DEF RefreshCookie, BrowserInv, Places
    <3>2. QED
      BY <2>1, <2>3, <3>1, LoginIsClosed
  <2>4. QED
    BY <1>3, <2>2, <2>3 DEF Logout
<1>4. ASSUME NEW t \in FormTabs, FormAnswered(t) \/ FormLost(t)
      PROVE  [Logins!Next]_(Logins!loginVars)
  BY <1>4, LoginsStay DEF FormAnswered, FormLost
<1>5. ASSUME NEW t \in Tabs, Refreshing(t) PROVE [Logins!Next]_(Logins!loginVars)
  BY <1>5, RefreshingRefines
<1>6. ASSUME NEW f \in Fetches, Load(f) \/ Ask(f) \/ Join(f)
      PROVE  [Logins!Next]_(Logins!loginVars)
  BY <1>6, LoginsStay DEF Load, Ask, Join
<1>7. CASE UNCHANGED vars
  BY <1>7, LoginsStay DEF vars, server
<1>8. QED
  BY <1>1, <1>2, <1>3, <1>4, <1>5, <1>6, <1>7 DEF Next

LEMMA InitRefines ==
  ASSUME Init PROVE Logins!Init
<1>1. Issued = {}
  BY DEF Init, Issued
<1>2. Carriers = [s \in SessionIds |-> None] /\ Deadlines = [s \in SessionIds |-> 0]
  BY DEF Init, Carriers, CarrierOf, Deadlines
<1>3. QED
  BY <1>1, <1>2 DEF Init, Logins!Init

(* Whatever the pages of a browser do, and however their messages fare,    *)
(* the tables are abstract logins: each is carried by one token at a time, *)
(* exchanged only for one that nobody has held, and ended by a logout or a *)
(* replay of its own; the conflicts and the retries do nothing to it.      *)
THEOREM BrowserImplementsLogins == Spec => ImplementsLogins
<1>1. Init => Logins!Init
  BY InitRefines
<1>2. BrowserInv /\ LoginsRead /\ LoginsRead' /\ [Next]_vars
        => [Logins!Next]_(Logins!loginVars)
  BY StepRefines
<1>3. Spec => []LoginsRead
  BY BrowserInvariantHolds, LoginsMeaning, PTL
<1>4. QED
  BY <1>1, <1>2, <1>3, BrowserInvariantHolds, PTL
  DEF Spec, ImplementsLogins, Logins!Spec

=============================================================================
