---------------------------- MODULE MCBookingChat ----------------------------
(***************************************************************************)
(* Instances of BookingChat for TLC: one chat with one browser, while      *)
(* somebody else may book a slot that the chat is about to offer.          *)
(***************************************************************************)
EXTENDS BookingChat

CONSTANTS s1, s2, cut, perm, alice, bob, room

MCDuration == (cut :> 1) @@ (perm :> 2)
MCSupported == (s1 :> {cut, perm}) @@ (s2 :> {cut})
MCStylistId == (s1 :> 1) @@ (s2 :> 2)
MCSessionId == [p \in Chats |-> room]

Says(intent) ==
  [intent |-> intent, day |-> Unset, time |-> Unset, range |-> Unset,
   service |-> Unset, stylist |-> Unset, specialty |-> FALSE, answer |-> "none",
   number |-> 0]

(* "A cut with s1 at one", "what is free for a cut", and "this afternoon",  *)
(* "the second one", yes, no, "forget it", something about an appointment   *)
(* that is saved, and something about hair.                                *)
MCMessages == {
  [Says("create") EXCEPT !.day = 0, !.time = 1, !.service = cut, !.stylist = s1],
  [Says("search") EXCEPT !.service = cut],
  [Says("search") EXCEPT !.day = 0, !.range = [from |-> 1, to |-> 3], !.service = cut],
  [Says("other") EXCEPT !.number = 2],
  [Says("other") EXCEPT !.answer = "yes"],
  [Says("other") EXCEPT !.answer = "no"],
  Says("abort"),
  Says("manage"),
  Says("consult") }

(* And another time, with the same stylist, "at two instead". *)
MoreMessages == MCMessages \cup {
  [Says("create") EXCEPT !.day = 0, !.time = 2, !.service = cut, !.stylist = s1] }

(* "A cut with s1 at one" read right, and with another stylist; a yes and a *)
(* no that nobody said; a service and a stylist that nobody has; and that  *)
(* it is all beside the point.                                             *)
MCReadings == {
  [NothingRead EXCEPT !.timed = TRUE, !.service = cut, !.stylist = s1],
  [NothingRead EXCEPT !.timed = TRUE, !.service = cut, !.stylist = s2],
  [NothingRead EXCEPT !.answer = "yes"],
  [NothingRead EXCEPT !.answer = "no"],
  [NothingRead EXCEPT !.service = Unknown, !.stylist = Unknown],
  [NothingRead EXCEPT !.unrelated = TRUE] }

OtherRequests == {
  [op |-> "create", owner |-> bob, stylist |-> s1, service |-> cut,
   start |-> 1, end |-> 2] }

(* A chat is followed until it has booked and come back to rest. *)
Booked(p) == {id \in Rows(db.appts) : db.appts[id].owner # bob}
OneBookingPerChat ==
  \A p \in Chats :
    Booked(p) # {} => /\ Cardinality(Booked(p)) = 1
                      /\ history[p] # Empty \/ turn[p] # "quiet"
=============================================================================
