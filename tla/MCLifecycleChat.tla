-------------------------- MODULE MCLifecycleChat --------------------------
(***************************************************************************)
(* Instances of LifecycleChat for TLC: one chat, and one other device with *)
(* which the same customer, or somebody else, books and changes things.    *)
(***************************************************************************)
EXTENDS LifecycleChat, TLC

CONSTANTS s1, s2, cut, perm, alice, bob

MCDuration == (cut :> 1) @@ (perm :> 2)
MCSupported == (s1 :> {cut, perm}) @@ (s2 :> {cut})

Create(owner, stylist, start) ==
  [op |-> "create", owner |-> owner, stylist |-> stylist, service |-> cut,
   start |-> start, end |-> start + 1]

DeviceRequests == {
  Create(alice, s1, 2),
  Create(alice, s2, 2),
  [op |-> "update", owner |-> alice, id |-> 1, version |-> 1, stylist |-> Keep,
   service |-> Keep, day |-> Keep, time |-> 3],
  [op |-> "cancel", owner |-> alice, id |-> 1, version |-> 1] }

Wish(stylist, service, time) ==
  [stylist |-> stylist, service |-> service, day |-> Keep, time |-> time]

MCWishes == {Wish(s2, Keep, Keep), Wish(Keep, Keep, 3)}
=============================================================================
