------------------------- MODULE AvailabilitySearch -------------------------
(***************************************************************************)
(* The search for free slots, services/availability_service.py, and for a  *)
(* stylist to stand in for another, agents/appointment/stylist_finder.py:  *)
(* what they answer, given the tables, the clock and what is asked for.    *)
(*                                                                         *)
(* A search reads the tables once per candidate slot, each time as they    *)
(* are then: here is what it reads, in which order, and what it makes of   *)
(* the answers; the reading itself is a sequence of steps in BookingChat.  *)
(* What it finds may be out of date before it is shown, so a booking       *)
(* checks everything again.                                                *)
(***************************************************************************)
EXTENDS AppointmentService, SequencesExt

CONSTANTS
  SlotInterval,  \* SLOT_INTERVAL_MINUTES
  MaxStylists,   \* MAX_STYLISTS, in one list of offers
  MaxSlots,      \* MAX_SLOTS_PER_STYLIST
  StylistId,     \* the primary key of each stylist
  Tagged,        \* the stylists who have the specialty customers ask for
  Unset          \* a slot of the dialogue that is not filled

Interval == [from: Nat, to: Nat]

(* What is searched for: at an exact time, or else within a range. *)
Search == [day: Nat, time: Nat \cup {Unset}, range: Interval,
           service: Services, specialty: BOOLEAN,
           stylist: Stylists \cup {Unset, Unknown}]

Option == [stylist: Stylists, service: Services, start: Nat]

ASSUME SearchAssumption ==
  /\ IsFiniteSet(Stylists)
  /\ {SlotInterval, MaxStylists, MaxSlots} \subseteq Nat \ {0}
  /\ StylistId \in [Stylists -> Nat]
  /\ \A s, t \in Stylists : StylistId[s] = StylistId[t] => s = t
  /\ Tagged \subseteq Stylists
  /\ Unset \notin Stylists \cup Services \cup Nat \cup Interval \cup Option \cup {Unknown}

-----------------------------------------------------------------------------

(* Every interval from the start of the range, as long as the service ends *)
(* within it.                                                              *)
GridStarts(q) ==
  LET first == At(q.day, q.range.from)
      last == At(q.day, q.range.to)
  IN  {t \in first .. last :
         (t - first) % SlotInterval = 0 /\ EndOf(t, q.service) <= last}

CandidateStarts(q) ==
  IF q.time # Unset THEN {At(q.day, q.time)} ELSE GridStarts(q)

MatchingStylists(q) ==
  {s \in Stylists :
     /\ q.stylist \in {Unset, s}
     /\ q.service \in Supported[s]
     /\ q.specialty => s \in Tagged}

IsStylistAvailable(d, s, start, end) == ~HasScheduleConflict(d, s, start, end, {})

(* The slots a search at time t has to ask about: the profiles that match, *)
(* at the candidate starts that are to come and within business hours.     *)
Slots(q, t) ==
  {o \in [stylist: MatchingStylists(q), service: {q.service}, start: CandidateStarts(q)] :
     o.start > t /\ WithinBusinessHours(o.start, EndOf(o.start, q.service))}

(* One profile after the other, and for each its starts in order.          *)
IsReadBefore(o, other) ==
  \/ StylistId[o.stylist] < StylistId[other.stylist]
  \/ o.stylist = other.stylist /\ o.start < other.start

IsSlotFree(d, o) ==
  IsStylistAvailable(d, o.stylist, o.start, EndOf(o.start, o.service))

(* All of them match the specialty, if there is one: time and key decide. *)
Earlier(o, other) ==
  \/ o.start < other.start
  \/ o.start = other.start /\ StylistId[o.stylist] < StylistId[other.stylist]

Ranked(free) ==
  [i \in 1 .. Cardinality(free) |->
     CHOOSE o \in free : Cardinality({e \in free : Earlier(e, o)}) = i - 1]

SlotsOf(offers, s) == {i \in DOMAIN offers : offers[i].stylist = s}
StylistsIn(offers) == {offers[i].stylist : i \in DOMAIN offers}

(* Faulty: the cap on stylists also drops those already in the list. *)
AddWhileFew(offers, o) ==
  IF \/ Cardinality(StylistsIn(offers)) >= MaxStylists
     \/ Cardinality(SlotsOf(offers, o.stylist)) >= MaxSlots
  THEN offers
  ELSE Append(offers, o)

(* One round of the loop over the ranked slots. *)
AddUnlessCapped(offers, o) ==
  IF \/ /\ o.stylist \notin StylistsIn(offers)
        /\ Cardinality(StylistsIn(offers)) >= MaxStylists
     \/ Cardinality(SlotsOf(offers, o.stylist)) >= MaxSlots
  THEN offers
  ELSE Append(offers, o)

(* What a search makes of the slots it found free.  An option's number is  *)
(* its place in this list.                                                 *)
OffersOf(free) ==
  LET offers[n \in 0 .. Cardinality(free)] ==
        IF n = 0 THEN <<>> ELSE AddUnlessCapped(offers[n - 1], Ranked(free)[n])
  IN  offers[Cardinality(free)]

-----------------------------------------------------------------------------
(* A stylist for a time that is already settled *)

StylistsFree(d, service, start) ==
  {s \in Stylists :
     service \in Supported[s] /\ IsStylistAvailable(d, s, start, EndOf(start, service))}

(* The stylist asked for, if there is one of that name, able and free. *)
FindSpecificStylist(d, name, service, start) ==
  StylistsFree(d, service, start) \cap {name}

(* Those who may come first in the ranking of the others: it goes by       *)
(* profile and preference, so any of them.                                 *)
FindSimilarAvailableStylist(d, name, service, start) ==
  IF name \in Stylists THEN StylistsFree(d, service, start) \ {name} ELSE {}

-----------------------------------------------------------------------------
(* Properties *)

(* What a list of offers ought to be, in a sentence: of each of the        *)
(* stylists who come free first, the first slots, in order.                *)
FirstSlots(free, s) ==
  {o \in free : o.stylist = s
     /\ Cardinality({e \in free : e.stylist = s /\ Earlier(e, o)}) < MaxSlots}

FreeBefore(free, s) ==
  {t \in Stylists \ {s} :
     \E e \in free : e.stylist = t /\ \A o \in free : o.stylist = s => Earlier(e, o)}

FirstStylists(free) ==
  {s \in Stylists : Cardinality(FreeBefore(free, s)) < MaxStylists}

BestOffers(free) == UNION {FirstSlots(free, s) : s \in FirstStylists(free)}

=============================================================================
