----------------------------- MODULE AuthLogins -----------------------------
(***************************************************************************)
(* What the authentication sessions promise, with no tables, clocks read   *)
(* too early, clean-ups or lost answers in sight.  A login is opened once, *)
(* with a deadline that never moves.  While it is open it is carried by    *)
(* one token, which is exchanged for a token nobody has held before.  Once *)
(* closed it stays closed.  Nobody else's login is ended along the way,    *)
(* unless its deadline has passed.                                         *)
(***************************************************************************)
EXTENDS Integers

CONSTANTS
  Logins,  \* identifiers of logins
  Tokens,  \* identifiers of tokens
  Unborn,  \* a login that has not been opened
  Closed   \* a login that is over

VARIABLES
  carrier,   \* the token that carries each login, or Unborn, or Closed
  deadline,  \* when each login ends at the latest
  minted,    \* the tokens that have ever been handed out
  clock

loginVars == <<carrier, deadline, minted, clock>>

IsOpen(l) == carrier[l] \in Tokens

Init ==
  /\ carrier = [l \in Logins |-> Unborn]
  /\ deadline = [l \in Logins |-> 0]
  /\ minted = {}
  /\ clock = 0

(* The other logins go on, those excepted that are past their deadline. *)
OthersGoOn(login) ==
  \A other \in Logins \ {login} :
    /\ deadline'[other] = deadline[other]
    /\ \/ carrier'[other] = carrier[other]
       \/ IsOpen(other) /\ deadline[other] < clock /\ carrier'[other] = Closed

CarriedByNewToken(login) ==
  /\ carrier'[login] \in Tokens \ minted
  /\ minted' = minted \cup {carrier'[login]}

Open(login) ==
  /\ carrier[login] = Unborn
  /\ CarriedByNewToken(login)
  /\ OthersGoOn(login)
  /\ UNCHANGED clock

Exchange(login) ==
  /\ IsOpen(login)
  /\ CarriedByNewToken(login)
  /\ deadline'[login] = deadline[login]
  /\ OthersGoOn(login)
  /\ UNCHANGED clock

Close(login) ==
  /\ IsOpen(login)
  /\ carrier'[login] = Closed
  /\ deadline'[login] = deadline[login]
  /\ OthersGoOn(login)
  /\ UNCHANGED <<minted, clock>>

Tick == clock' > clock /\ UNCHANGED <<carrier, deadline, minted>>

Next == Tick \/ \E l \in Logins : Open(l) \/ Exchange(l) \/ Close(l)

Spec == Init /\ [][Next]_loginVars

-----------------------------------------------------------------------------
(* What follows from it *)

(* A token carries one login at most. *)
OneLoginPerToken ==
  \A l, m \in Logins : IsOpen(l) /\ carrier[l] = carrier[m] => l = m

CarriersAreMinted == \A l \in Logins : IsOpen(l) => carrier[l] \in minted

CarriesNothing(k) == \A l \in Logins : carrier[l] # k

(* A token that has been exchanged, or whose login is over, carries no     *)
(* login ever again.                                                       *)
SpentForGood == [][\A k \in minted : CarriesNothing(k) => CarriesNothing(k)']_loginVars

(* A login that is over stays so.                                          *)
ClosedForGood ==
  [][\A l \in Logins : carrier[l] = Closed => carrier'[l] = Closed]_loginVars

(* The deadline of a login never moves, not even once it is over. *)
DeadlineStands ==
  [][\A l \in Logins : carrier[l] # Unborn => deadline'[l] = deadline[l]]_loginVars

=============================================================================
