---------------------------- MODULE Subsequences ----------------------------
(***************************************************************************)
(* The members of a sequence that lie in a set, in their order: what a     *)
(* list comprehension, or an OrderedDict or a deque from which some        *)
(* entries are deleted, leaves of it.  Other than SelectSeq, whose         *)
(* definition is recursive, it can be reasoned about.                      *)
(***************************************************************************)
EXTENDS Naturals, Sequences

Members(s) == {s[i] : i \in 1 .. Len(s)}

Keep(s, S) ==
  LET kept[n \in 0 .. Len(s)] ==
        IF n = 0 THEN <<>> ELSE
        IF s[n] \in S THEN Append(kept[n - 1], s[n]) ELSE kept[n - 1]
  IN  kept[Len(s)]

Drop(s, x) == Keep(s, Members(s) \ {x})

=============================================================================
