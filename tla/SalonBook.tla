----------------------------- MODULE SalonBook ------------------------------
(***************************************************************************)
(* What the booking service promises, with no transactions, locks or       *)
(* failures in sight: a book of claims on stylists' time.  A claim is      *)
(* entered once, may be moved by its owner any number of times, and once   *)
(* released stays released.  At every moment each stylist's claims are     *)
(* pairwise disjoint.                                                      *)
(***************************************************************************)
EXTENDS Integers

CONSTANTS
  BookingIds,  \* the identifiers a booking may get
  Claims,      \* records with (at least) owner, stylist, start and end
  Unused,      \* the entry of an identifier never given out
  Released     \* the entry of a cancelled booking

VARIABLE book

Instants(claim) == claim.start .. (claim.end - 1)

Disjoint(a, b) == a.stylist = b.stylist => Instants(a) \cap Instants(b) = {}

(* claim can be entered under id without touching another entry. *)
Fits(id, claim) ==
  \A other \in BookingIds \ {id} :
    book[other] \in Claims => Disjoint(claim, book[other])

OthersKept(id) ==
  /\ book' \in [BookingIds -> Claims \cup {Unused, Released}]
  /\ \A other \in BookingIds \ {id} : book'[other] = book[other]

Init == book = [id \in BookingIds |-> Unused]

Book(id) ==
  /\ book[id] = Unused
  /\ OthersKept(id)
  /\ book'[id] \in Claims
  /\ Fits(id, book'[id])

Move(id) ==
  /\ book[id] \in Claims
  /\ OthersKept(id)
  /\ book'[id] \in Claims
  /\ book'[id].owner = book[id].owner
  /\ Fits(id, book'[id])

Release(id) ==
  /\ book[id] \in Claims
  /\ OthersKept(id)
  /\ book'[id] = Released

Next == \E id \in BookingIds : Book(id) \/ Move(id) \/ Release(id)

Spec == Init /\ [][Next]_book

TypeOK == book \in [BookingIds -> Claims \cup {Unused, Released}]

(* Nobody is booked twice for the same moment. *)
NoDoubleBooking ==
  \A a, b \in BookingIds :
    a # b /\ book[a] \in Claims /\ book[b] \in Claims => Disjoint(book[a], book[b])

=============================================================================
