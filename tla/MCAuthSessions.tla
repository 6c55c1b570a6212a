--------------------------- MODULE MCAuthSessions ---------------------------
(***************************************************************************)
(* Instances of AuthSessions for TLC.                                      *)
(***************************************************************************)
EXTENDS AuthSessions, TLC

CONSTANT ann

ToRegister(user) == [op |-> "register", user |-> user]
ToLogin(user) == [op |-> "login", user |-> user]
ToRefresh(k) == [op |-> "refresh", token |-> k]
ToAccess(s) == [op |-> "access", session |-> s]
ToLogout(s, k, bearer) ==
  [op |-> "logout", session |-> s, token |-> k, bearer |-> bearer]

(* Two handlers race over one session. *)
RaceRequests ==
  {ToRegister(ann), ToLogout(1, NoToken, FALSE)}
    \cup {ToRefresh(k) : k \in TokenIds}
    \cup {ToLogout(NoSession, k, FALSE) : k \in TokenIds}

(* One handler, two sessions of one account, every kind of request. *)
AllRequests ==
  {ToRegister(ann), ToLogin(ann)}
    \cup {ToRefresh(k) : k \in TokenIds}
    \cup {ToAccess(1), ToLogout(1, NoToken, TRUE), ToLogout(1, 1, FALSE),
          ToLogout(NoSession, 2, FALSE), ToLogout(NoSession, 2, TRUE)}

HandlerSymmetry == Permutations(Handlers)
=============================================================================
