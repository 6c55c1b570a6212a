---------------------------- MODULE SalonCatalog ----------------------------
(***************************************************************************)
(* The salon's static data and its arithmetic of time: who the stylists    *)
(* are, which services they perform and how long each one takes, and when  *)
(* the salon is open.  An instant is a natural number of clock ticks; a    *)
(* minute, to which all of the above is rounded, is Minute instants long.  *)
(***************************************************************************)
EXTENDS Integers

CONSTANTS
  Stylists,    \* the rows of the stylists table
  Services,    \* the keys of SERVICE_CATALOG
  Duration,    \* the standard_duration of each service
  Supported,   \* the services in each stylist's profile
  Minute,      \* instants in a minute: times are kept to the second
  DayLength,   \* instants in a day
  OpenAt,      \* opening time, as an offset into the day
  CloseAt      \* closing time, as an offset into the day

ASSUME CatalogAssumption ==
  /\ Duration \in [Services -> Nat \ {0}]
  /\ Supported \in [Stylists -> SUBSET Services]
  /\ Minute \in Nat \ {0}
  /\ DayLength \in Nat \ {0}
  /\ OpenAt \in Nat
  /\ CloseAt \in Nat
  /\ OpenAt < CloseAt
  /\ CloseAt < DayLength

DayOf(t) == t \div DayLength
TimeOf(t) == t % DayLength
At(day, time) == day * DayLength + time
ToTheMinute(t) == (t \div Minute) * Minute

EndOf(start, service) == start + Duration[service]

(* Faulty: the last service may run past closing. *)
StartsWithinBusinessHours(start, end) ==
  OpenAt <= TimeOf(start) /\ ToTheMinute(TimeOf(start)) <= CloseAt

(* An appointment starts at or after opening and ends, on the same day,    *)
(* before or in the minute of closing: the end's seconds are not looked at. *)
WithinBusinessHours(start, end) ==
  /\ DayOf(start) = DayOf(end)
  /\ OpenAt <= TimeOf(start)
  /\ ToTheMinute(TimeOf(end)) <= CloseAt

(* Faulty: a longer booking around a shorter one goes unnoticed. *)
StartsInside(s, e, t, u) == s <= t /\ t < e

(* Half-open intervals [s, e) and [t, u): back-to-back ones do not overlap. *)
Overlap(s, e, t, u) == s < u /\ t < e

=============================================================================
