---------------------------- MODULE MCBrowserAuth ----------------------------
(***************************************************************************)
(* Instances of BrowserAuth for TLC.                                       *)
(***************************************************************************)
EXTENDS BrowserAuth, TLC

CONSTANTS a, b, fa, ga, fb

MCTabOf == [f \in Fetches |-> IF f = fb THEN b ELSE a]
=============================================================================
