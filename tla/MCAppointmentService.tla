------------------------ MODULE MCAppointmentService ------------------------
(***************************************************************************)
(* Instances of AppointmentService for TLC.  A day has six minutes and the *)
(* salon is open from 1 to 5; a cut takes one minute, a perm two, and only *)
(* s1 does perms.                                                          *)
(***************************************************************************)
EXTENDS AppointmentService, TLC

CONSTANTS s1, s2, cut, perm, alice, bob

MCDuration == (cut :> Minute) @@ (perm :> 2 * Minute)
MCSupported == (s1 :> {cut, perm}) @@ (s2 :> {cut})

Create(owner, stylist, service, start) ==
  [op |-> "create", owner |-> owner, stylist |-> stylist, service |-> service,
   start |-> start,
   end |-> IF service = perm THEN start + 2 * Minute ELSE start + Minute]

Cancel(owner, id, version) ==
  [op |-> "cancel", owner |-> owner, id |-> id, version |-> version]

Update(owner, id, version, stylist, service, day, time) ==
  [op |-> "update", owner |-> owner, id |-> id, version |-> version,
   stylist |-> stylist, service |-> service, day |-> day, time |-> time]

(* Two owners who compete for s1 in the afternoon, move to each other's    *)
(* place, and cancel; the second bob competes with himself.                *)
RaceRequests == {
  Create(alice, s1, cut, 3),
  Create(bob, s1, perm, 2),
  Create(bob, s1, cut, 2),
  Update(alice, 1, 1, Keep, perm, Keep, 2),
  Update(alice, 1, 2, s2, cut, Keep, Keep),
  Update(bob, 1, 1, Keep, Keep, Keep, 3),
  Update(bob, 2, 1, s2, Keep, Keep, 3),
  Cancel(alice, 1, 1),
  Cancel(bob, 2, 1),
  Cancel(bob, 1, 2) }

(* Good and bad requests of two clients: beyond the catalogue, beyond the  *)
(* day, over each other, for the other's booking, and a perm moved to the  *)
(* stylist who does none, or to the end of the day.                        *)
MixedRequests == {
  Create(alice, s1, cut, 4),
  Create(alice, s1, perm, 4),
  Create(alice, s1, cut, 5),
  Create(alice, s1, Unknown, 2),
  Create(bob, s2, perm, 2),
  Create(bob, Unknown, cut, 2),
  [Create(bob, s1, perm, 2) EXCEPT !.end = 3],
  Update(alice, 1, 1, Keep, perm, Keep, Keep),
  Update(alice, 1, 1, Keep, perm, 1, 3),
  Update(alice, 1, 1, s2, Keep, 1, 4),
  Update(alice, 1, 1, Unknown, Keep, Keep, 3),
  Update(alice, 1, 2, Keep, Unknown, Keep, 3),
  Update(alice, 1, 2, Ambiguous, Keep, Keep, 2),
  Update(bob, 1, 2, Keep, perm, Keep, 2),
  Cancel(bob, 1, 1),
  Cancel(alice, 1, 2) }

(* With two instants to the minute: a booking moved to the last minute and *)
(* a half of the day, and then handed over at an unchanged time.           *)
SecondsRequests == {
  Create(alice, s1, cut, 6),
  Update(alice, 1, 1, Keep, Keep, Keep, 9),
  Update(alice, 1, 2, s2, Keep, Keep, Keep) }
=============================================================================
