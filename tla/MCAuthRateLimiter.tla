------------------------- MODULE MCAuthRateLimiter -------------------------
(***************************************************************************)
(* Instances of AuthRateLimiter for TLC: one client and two of its         *)
(* accounts, and another client that fills the buckets up.                 *)
(***************************************************************************)
EXTENDS AuthRateLimiter, TLC

CONSTANTS client, pair, stranger

MCKeys == {client, pair, stranger}
MCLimit == (client :> 2) @@ (pair :> 1) @@ (stranger :> 1)
MCWindow == (client :> 2) @@ (pair :> 2) @@ (stranger :> 1)

MCRequests ==
  { [keys |-> <<client, pair>>, clears |-> pair],
    [keys |-> <<client>>, clears |-> NoKey],
    [keys |-> <<stranger>>, clears |-> NoKey] }

ThreadSymmetry == Permutations(Threads)
=============================================================================
