---------------------- MODULE AppointmentServiceProofs ----------------------
(***************************************************************************)
(* Theorems about the booking transactions, for any number of clients,     *)
(* owners, stylists, services, rows and requests, and an unbounded clock:  *)
(* the tables stay consistent; each commit changes one appointment, at its *)
(* owner's request; seen from the appointments table, the service          *)
(* implements the abstract SalonBook; and what clients are told is so.     *)
(***************************************************************************)
EXTENDS AppointmentService, TLAPS

-----------------------------------------------------------------------------
(* Arithmetic of time *)

LEMMA TimeIsNatural ==
  /\ \A t \in Nat : DayOf(t) \in Nat /\ TimeOf(t) \in Nat /\ ToTheMinute(t) \in Nat
  /\ \A d, t \in Nat : At(d, t) \in Nat
  /\ \A t \in Nat, s \in Services : EndOf(t, s) \in Nat /\ EndOf(t, s) > t
<1>1. \A t \in Nat : DayOf(t) \in Nat /\ TimeOf(t) \in Nat /\ ToTheMinute(t) \in Nat
  <2> TAKE t \in Nat
  <2>1. DayOf(t) \in Nat /\ TimeOf(t) \in Nat
    BY CatalogAssumption DEF DayOf, TimeOf
  <2>2. t \div Minute \in Nat
    BY CatalogAssumption
  <2>3. QED
    BY <2>1, <2>2, CatalogAssumption DEF ToTheMinute
<1>2. \A d, t \in Nat : At(d, t) \in Nat
  BY CatalogAssumption DEF At
<1>3. \A t \in Nat, s \in Services : EndOf(t, s) \in Nat /\ EndOf(t, s) > t
  BY CatalogAssumption DEF EndOf
<1>4. QED
  BY <1>1, <1>2, <1>3

LEMMA NoOverlapIsDisjoint ==
  ASSUME NEW s \in Nat, NEW e \in Nat, NEW t \in Nat, NEW u \in Nat,
         ~Overlap(s, e, t, u)
  PROVE  (s .. (e - 1)) \cap (t .. (u - 1)) = {}
BY DEF Overlap

-----------------------------------------------------------------------------
(* Well-formed rows and tables *)

LEMMA PutAppointmentType ==
  ASSUME NEW d \in Database, NEW id \in RowIds, NEW row \in Appointment
  PROVE  /\ PutAppointment(d, id, row) \in Database
         /\ PutAppointment(d, id, row).appts = [d.appts EXCEPT ![id] = row]
         /\ PutAppointment(d, id, row).scheds = d.scheds
BY DEF Database, PutAppointment

LEMMA PutScheduleType ==
  ASSUME NEW d \in Database, NEW k \in RowIds, NEW row \in Schedule
  PROVE  /\ PutSchedule(d, k, row) \in Database
         /\ PutSchedule(d, k, row).appts = d.appts
         /\ PutSchedule(d, k, row).scheds = [d.scheds EXCEPT ![k] = row]
BY DEF Database, PutSchedule

LEMMA StoredRowType ==
  ASSUME NEW d \in Database, NEW id \in RowIds
  PROVE  /\ d.appts[id] # NoRow => d.appts[id] \in Appointment
         /\ d.scheds[id] # NoRow => d.scheds[id] \in Schedule
BY DEF Database

LEMMA NewAppointmentType ==
  ASSUME NEW r \in CreateRequest, r.stylist \in Stylists, r.service \in Services
  PROVE  NewAppointment(r) \in Appointment
BY DEF CreateRequest, NewAppointment, Appointment

LEMMA NewScheduleType ==
  ASSUME NEW id \in RowIds, NEW row \in Appointment
  PROVE  NewSchedule(id, row) \in Schedule
BY DEF NewSchedule, Appointment, Schedule

LEMMA NextVersionType ==
  ASSUME NEW row \in Appointment
  PROVE  /\ NextVersion(row) \in Appointment
         /\ NextVersion(row).owner = row.owner
         /\ NextVersion(row).stylist = row.stylist
         /\ NextVersion(row).service = row.service
         /\ NextVersion(row).start = row.start
         /\ NextVersion(row).end = row.end
         /\ NextVersion(row).status = row.status
         /\ NextVersion(row).version = row.version + 1
<1>1. row.version + 1 \in Nat \ {0}
  BY DEF Appointment
<1>2. ASSUME NEW n \in Nat \ {0}
      PROVE  [row EXCEPT !.version = n] \in Appointment
  BY DEF Appointment
<1>3. NextVersion(row) \in Appointment
  BY <1>1, <1>2 DEF NextVersion
<1>4. QED
  BY <1>3 DEF NextVersion, Appointment

LEMMA CancelledRows ==
  ASSUME NEW row \in Appointment, NEW sched \in Schedule
  PROVE  /\ CancelledAppointment(row) \in Appointment
         /\ CancelledAppointment(row).owner = row.owner
         /\ CancelledAppointment(row).status = "cancelled"
         /\ CancelledAppointment(row).version = row.version + 1
         /\ CancelledSchedule(sched) \in Schedule
         /\ CancelledSchedule(sched).status = "cancelled"
<1> DEFINE closed == [row EXCEPT !.status = "cancelled"]
<1>1. /\ closed \in Appointment
      /\ closed.owner = row.owner
      /\ closed.status = "cancelled"
      /\ closed.version = row.version
  BY DEF Appointment
<1>2. CancelledSchedule(sched) \in Schedule /\ CancelledSchedule(sched).status = "cancelled"
  BY DEF CancelledSchedule, Schedule
<1>3. CancelledAppointment(row) = NextVersion(closed)
  BY DEF CancelledAppointment
<1> HIDE DEF closed
<1>4. QED
  BY <1>1, <1>2, <1>3, NextVersionType

(* What an update proposes is a well-formed row that differs from the old  *)
(* one only in its stylist, service and times.                             *)
LEMMA ProposalType ==
  ASSUME NEW d \in Database, NEW r \in UpdateRequest, d.appts[r.id] # NoRow,
         Pick(r.service, d.appts[r.id].service) \in Services,
         Pick(r.stylist, d.appts[r.id].stylist) \in Stylists
  PROVE  /\ Proposal(d, r) \in Appointment
         /\ Proposal(d, r).owner = d.appts[r.id].owner
         /\ Proposal(d, r).status = d.appts[r.id].status
         /\ Proposal(d, r).version = d.appts[r.id].version
<1> DEFINE row == d.appts[r.id]
           service == Pick(r.service, row.service)
           day == Pick(r.day, DayOf(row.start))
           time == Pick(r.time, ToTheMinute(TimeOf(row.start)))
<1>1. row \in Appointment
  BY StoredRowType DEF UpdateRequest
<1>2. row.start \in Nat
  BY <1>1 DEF Appointment
<1>3. day \in Nat /\ time \in Nat
  BY <1>2, TimeIsNatural DEF Pick, UpdateRequest
<1>4. At(day, time) \in Nat /\ EndOf(At(day, time), service) \in Nat
  BY <1>3, TimeIsNatural
<1>5. Proposal(d, r) =
        [owner |-> row.owner, stylist |-> Pick(r.stylist, row.stylist),
         service |-> service, start |-> At(day, time),
         end |-> EndOf(At(day, time), service),
         status |-> row.status, version |-> row.version]
  BY DEF Proposal
<1> HIDE DEF row, day, time, service
<1>6. [owner |-> row.owner, stylist |-> Pick(r.stylist, row.stylist),
       service |-> service, start |-> At(day, time),
       end |-> EndOf(At(day, time), service),
       status |-> row.status, version |-> row.version] \in Appointment
  BY <1>1, <1>4 DEF Appointment, row, service
<1>7. QED
  BY <1>5, <1>6 DEF row

LEMMA UpdatedRows ==
  ASSUME NEW d \in Database, NEW r \in UpdateRequest, d.appts[r.id] # NoRow,
         Pick(r.service, d.appts[r.id].service) \in Services,
         Pick(r.stylist, d.appts[r.id].stylist) \in Stylists,
         NEW sched \in Schedule
  PROVE  LET new == UpdatedAppointment(d, r) IN
         /\ new \in Appointment
         /\ new.owner = d.appts[r.id].owner
         /\ new.status = d.appts[r.id].status
         /\ new.version = d.appts[r.id].version + 1
         /\ UpdatedSchedule(sched, new) \in Schedule
         /\ UpdatedSchedule(sched, new).appt = sched.appt
         /\ UpdatedSchedule(sched, new).status = "busy"
         /\ Mirrors(UpdatedSchedule(sched, new), new)
<1> DEFINE new == UpdatedAppointment(d, r)
<1>1. /\ new \in Appointment
      /\ new.owner = d.appts[r.id].owner
      /\ new.status = d.appts[r.id].status
      /\ new.version = d.appts[r.id].version + 1
  BY ProposalType, NextVersionType DEF UpdatedAppointment
<1> HIDE DEF new
<1>2. UpdatedSchedule(sched, new) \in Schedule
  BY <1>1 DEF UpdatedSchedule, Appointment, Schedule
<1>3. /\ UpdatedSchedule(sched, new).appt = sched.appt
      /\ UpdatedSchedule(sched, new).status = "busy"
      /\ Mirrors(UpdatedSchedule(sched, new), new)
  BY DEF UpdatedSchedule, Mirrors
<1>4. QED
  BY <1>1, <1>2, <1>3 DEF new

-----------------------------------------------------------------------------
(* Consistency of the two tables, and what each kind of write does to it *)

Consistent(d) == DisjointSchedules(d) /\ ConfirmedArePaired(d) /\ BusyArePaired(d)

LEMMA EmptyIsConsistent ==
  ASSUME NEW d, d.appts = [id \in RowIds |-> NoRow], d.scheds = [k \in RowIds |-> NoRow]
  PROVE  Consistent(d)
BY DEF Consistent, DisjointSchedules, ConfirmedArePaired, BusyArePaired,
       BusySchedules, Confirmed, Rows

(* The triggers alone keep a stylist's busy rows disjoint. *)
LEMMA TriggerKeepsDisjoint ==
  ASSUME NEW d \in Database, NEW e \in Database, NEW k \in RowIds,
         NEW sched \in Schedule,
         DisjointSchedules(d),
         e.scheds = [d.scheds EXCEPT ![k] = sched],
         sched.status = "busy" => ~TriggerAborts(d, k, sched)
  PROVE  DisjointSchedules(e)
<1> SUFFICES ASSUME NEW i \in BusySchedules(e), NEW j \in BusySchedules(e), i # j,
                    e.scheds[i].stylist = e.scheds[j].stylist
             PROVE  Minutes(e.scheds[i]) \cap Minutes(e.scheds[j]) = {}
  BY DEF DisjointSchedules
<1>1. /\ i \in RowIds /\ e.scheds[i] \in Schedule /\ e.scheds[i].status = "busy"
      /\ j \in RowIds /\ e.scheds[j] \in Schedule /\ e.scheds[j].status = "busy"
  BY StoredRowType DEF BusySchedules, Rows
<1>2. d.scheds \in [RowIds -> Schedule \cup {NoRow}]
  BY DEF Database
<1>3. ASSUME NEW m \in BusySchedules(e), m # k
      PROVE  m \in BusySchedules(d) /\ e.scheds[m] = d.scheds[m]
  BY <1>2, <1>3 DEF BusySchedules, Rows
<1>4. ASSUME NEW m \in BusySchedules(e), m # k, sched.status = "busy",
             e.scheds[m].stylist = sched.stylist
      PROVE  Minutes(e.scheds[m]) \cap Minutes(sched) = {}
  <2>1. m \in BusySchedules(d) \ {k} /\ e.scheds[m] = d.scheds[m]
    BY <1>3, <1>4
  <2>2. ~Overlap(d.scheds[m].start, d.scheds[m].end, sched.start, sched.end)
    BY <1>4, <2>1 DEF TriggerAborts, HasScheduleConflict
  <2>3. d.scheds[m] \in Schedule
    BY <2>1, StoredRowType DEF BusySchedules, Rows
  <2>4. /\ d.scheds[m].start \in Nat /\ d.scheds[m].end \in Nat
        /\ sched.start \in Nat /\ sched.end \in Nat
    BY <2>3 DEF Schedule
  <2>5. QED
    BY <2>1, <2>2, <2>4, NoOverlapIsDisjoint DEF Minutes
<1>5. e.scheds[k] = sched
  BY <1>2
<1>6. CASE i = k
  <2>1. Minutes(e.scheds[j]) \cap Minutes(sched) = {}
    BY <1>1, <1>4, <1>5, <1>6
  <2>2. QED
    BY <1>5, <1>6, <2>1
<1>7. CASE j = k
  BY <1>1, <1>4, <1>5, <1>7
<1>8. CASE i # k /\ j # k
  BY <1>3, <1>8 DEF DisjointSchedules
<1>9. QED
  BY <1>6, <1>7, <1>8

LEMMA CreateKeepsConsistent ==
  ASSUME NEW d \in Database, NEW e \in Database, Consistent(d),
         NEW id \in RowIds, d.appts[id] = NoRow,
         NEW k \in RowIds, d.scheds[k] = NoRow,
         NEW row \in Appointment, row.status = "confirmed",
         e.appts = [d.appts EXCEPT ![id] = row],
         e.scheds = [d.scheds EXCEPT ![k] = NewSchedule(id, row)],
         NewSchedule(id, row) \in Schedule,
         ~TriggerAborts(d, k, NewSchedule(id, row))
  PROVE  Consistent(e)
<1> DEFINE sched == NewSchedule(id, row)
<1>1. /\ d.appts \in [RowIds -> Appointment \cup {NoRow}]
      /\ d.scheds \in [RowIds -> Schedule \cup {NoRow}]
  BY DEF Database
<1>2. /\ sched.appt = id /\ sched.status = "busy" /\ sched \in Schedule
      /\ Mirrors(sched, row) /\ sched # NoRow /\ row # NoRow
  BY ServiceAssumption DEF NewSchedule, Mirrors
<1> HIDE DEF sched
<1>3. DisjointSchedules(e)
  BY <1>2, TriggerKeepsDisjoint DEF Consistent, sched
<1>4. Confirmed(e) = Confirmed(d) \cup {id}
  BY <1>1, <1>2 DEF Confirmed, Rows
<1>5. BusySchedules(e) = BusySchedules(d) \cup {k}
  BY <1>1, <1>2 DEF BusySchedules, Rows, sched
<1>6. id \notin Confirmed(d) /\ k \notin BusySchedules(d)
  BY DEF Confirmed, BusySchedules, Rows
<1>7. \A m \in RowIds : m # k => e.scheds[m] = d.scheds[m]
  BY <1>1
<1>8. e.scheds[k] = sched
  BY <1>1 DEF sched
<1>9. BusyArePaired(e)
  BY <1>2, <1>4, <1>5, <1>7, <1>8 DEF BusyArePaired, Consistent, BusySchedules, Rows
<1>10. ActiveSchedules(e, id) = {k}
  <2>1. \A m \in BusySchedules(d) : d.scheds[m].appt # id
    BY <1>6 DEF Consistent, BusyArePaired
  <2>2. QED
    BY <1>2, <1>5, <1>7, <1>8, <2>1 DEF ActiveSchedules, SchedulesOf, BusySchedules, Rows
<1>11. ASSUME NEW a \in Confirmed(d)
       PROVE  ActiveSchedules(e, a) = ActiveSchedules(d, a)
  <2>1. a # id
    BY <1>6
  <2>2. \A m \in RowIds : m \in ActiveSchedules(e, a) <=> m \in ActiveSchedules(d, a)
    BY <1>2, <1>5, <1>6, <1>7, <1>8, <2>1
    DEF ActiveSchedules, SchedulesOf, BusySchedules, Rows
  <2>3. QED
    BY <2>2 DEF ActiveSchedules, SchedulesOf, Rows
<1>12. ConfirmedArePaired(e)
  <2> SUFFICES ASSUME NEW a \in Confirmed(e)
               PROVE  \E m \in RowIds : /\ ActiveSchedules(e, a) = {m}
                                        /\ Mirrors(e.scheds[m], e.appts[a])
    BY DEF ConfirmedArePaired
  <2>1. CASE a = id
    <3>1. e.appts[id] = row
      BY <1>1
    <3>2. QED
      BY <1>2, <1>8, <1>10, <2>1, <3>1
  <2>2. CASE a \in Confirmed(d)
    <3>1. PICK m \in RowIds : /\ ActiveSchedules(d, a) = {m}
                              /\ Mirrors(d.scheds[m], d.appts[a])
      BY <2>2 DEF Consistent, ConfirmedArePaired
    <3>2. m # k
      BY <1>6, <3>1 DEF ActiveSchedules
    <3>3. a # id /\ a \in RowIds
      BY <1>6, <2>2 DEF Confirmed, Rows
    <3>4. e.appts[a] = d.appts[a] /\ e.scheds[m] = d.scheds[m]
      BY <1>1, <1>7, <3>2, <3>3
    <3>5. QED
      BY <1>11, <2>2, <3>1, <3>4
  <2>3. QED
    BY <1>4, <2>1, <2>2
<1>13. QED
  BY <1>3, <1>9, <1>12 DEF Consistent


(* Cancel and update replace an appointment and its one active schedule    *)
(* together: both closed, or both moved to the same place.                 *)
LEMMA PairReplacedKeepsConsistent ==
  ASSUME NEW d \in Database, NEW e \in Database, Consistent(d),
         NEW id \in RowIds, NEW k \in RowIds, ActiveSchedules(d, id) = {k},
         NEW row \in Appointment, NEW sched \in Schedule,
         e.appts = [d.appts EXCEPT ![id] = row],
         e.scheds = [d.scheds EXCEPT ![k] = sched],
         \/ row.status = "cancelled" /\ sched.status = "cancelled"
         \/ /\ row.status = "confirmed" /\ sched.status = "busy"
            /\ sched.appt = id /\ Mirrors(sched, row)
            /\ ~TriggerAborts(d, k, sched)
  PROVE  Consistent(e)
<1>1. /\ d.appts \in [RowIds -> Appointment \cup {NoRow}]
      /\ d.scheds \in [RowIds -> Schedule \cup {NoRow}]
      /\ row # NoRow /\ sched # NoRow
  BY ServiceAssumption DEF Database
<1>2. /\ \A m \in RowIds : m # k => e.scheds[m] = d.scheds[m]
      /\ e.scheds[k] = sched
      /\ \A a \in RowIds : a # id => e.appts[a] = d.appts[a]
      /\ e.appts[id] = row
  BY <1>1
<1>3. DisjointSchedules(e)
  BY TriggerKeepsDisjoint DEF Consistent
<1>4. k \in BusySchedules(d) /\ d.scheds[k].appt = id
  BY DEF ActiveSchedules, SchedulesOf
<1>5. \A m \in BusySchedules(d) : m # k => d.scheds[m].appt # id
  BY DEF ActiveSchedules, SchedulesOf, BusySchedules
<1>6. ASSUME NEW m \in BusySchedules(e), m # k
      PROVE  m \in BusySchedules(d) /\ e.scheds[m] = d.scheds[m] /\ m \in RowIds
  BY <1>2, <1>6 DEF BusySchedules, Rows
<1>7. ASSUME NEW a \in Confirmed(d), a # id
      PROVE  a \in Confirmed(e) /\ e.appts[a] = d.appts[a]
  BY <1>2, <1>7 DEF Confirmed, Rows
<1>8. BusyArePaired(e)
  <2> SUFFICES ASSUME NEW m \in BusySchedules(e)
               PROVE  e.scheds[m].appt \in Confirmed(e)
    BY DEF BusyArePaired
  <2>1. CASE m = k
    BY <1>1, <1>2, <2>1 DEF BusySchedules, Rows, Confirmed
  <2>2. CASE m # k
    <3>1. m \in BusySchedules(d) /\ e.scheds[m] = d.scheds[m]
      BY <1>6, <2>2
    <3>2. d.scheds[m].appt \in Confirmed(d) /\ d.scheds[m].appt # id
      BY <1>5, <2>2, <3>1 DEF Consistent, BusyArePaired
    <3>3. QED
      BY <1>7, <3>1, <3>2
  <2>3. QED
    BY <2>1, <2>2
<1>9. ASSUME NEW a \in RowIds, a # id
      PROVE  ActiveSchedules(e, a) = ActiveSchedules(d, a)
  <2>1. \A m \in RowIds \ {k} : m \in ActiveSchedules(e, a) <=> m \in ActiveSchedules(d, a)
    BY <1>2 DEF ActiveSchedules, SchedulesOf, BusySchedules, Rows
  <2>2. k \notin ActiveSchedules(d, a)
    BY <1>4, <1>9 DEF ActiveSchedules, SchedulesOf
  <2>3. k \notin ActiveSchedules(e, a)
    BY <1>2, <1>9 DEF ActiveSchedules, SchedulesOf, BusySchedules
  <2>4. QED
    BY <2>1, <2>2, <2>3 DEF ActiveSchedules, SchedulesOf, Rows
<1>10. ConfirmedArePaired(e)
  <2> SUFFICES ASSUME NEW a \in Confirmed(e)
               PROVE  \E m \in RowIds : /\ ActiveSchedules(e, a) = {m}
                                        /\ Mirrors(e.scheds[m], e.appts[a])
    BY DEF ConfirmedArePaired
  <2>1. CASE a = id
    <3>1. row.status = "confirmed"
      BY <1>2, <2>1 DEF Confirmed
    <3>2. sched.status = "busy" /\ sched.appt = id /\ Mirrors(sched, row)
      BY <3>1
    <3>3. \A m \in RowIds : m \in ActiveSchedules(e, id) <=> m = k
      BY <1>1, <1>2, <1>5, <3>2 DEF ActiveSchedules, SchedulesOf, BusySchedules, Rows
    <3>4. ActiveSchedules(e, id) = {k}
      BY <3>3 DEF ActiveSchedules, SchedulesOf, Rows
    <3>5. QED
      BY <1>2, <2>1, <3>2, <3>4
  <2>2. CASE a # id
    <3>1. a \in Confirmed(d) /\ a \in RowIds /\ e.appts[a] = d.appts[a]
      BY <1>2, <2>2 DEF Confirmed, Rows
    <3>2. PICK m \in RowIds : /\ ActiveSchedules(d, a) = {m}
                              /\ Mirrors(d.scheds[m], d.appts[a])
      BY <3>1 DEF Consistent, ConfirmedArePaired
    <3>3. m # k
      BY <1>4, <2>2, <3>2 DEF ActiveSchedules, SchedulesOf
    <3>4. QED
      BY <1>2, <1>9, <2>2, <3>1, <3>2, <3>3
  <2>3. QED
    BY <2>1, <2>2
<1>11. QED
  BY <1>3, <1>8, <1>10 DEF Consistent


-----------------------------------------------------------------------------
(* The inductive invariant *)

InTx == {"checking", "writing", "scheduling", "committing"}

(* What a passed check has established, apart from the clock and from      *)
(* overlaps, which the triggers look at again.                             *)
Accepted(d, r) ==
  IF r.op = "create" THEN r.stylist \in Stylists /\ r.service \in Services ELSE
  /\ OwnedBy(d, r.id, r.owner)
  /\ d.appts[r.id].status = "confirmed"
  /\ d.appts[r.id].version = r.version
  /\ HasOneActiveSchedule(d, r.id)
  /\ r.op = "update" =>
       /\ r.stylist # Ambiguous
       /\ Pick(r.service, d.appts[r.id].service) \in Services
       /\ Pick(r.stylist, d.appts[r.id].stylist) \in Stylists

(* A create that has inserted its appointment and not yet its schedule. *)
HalfCreated(c) ==
  /\ req[c].op = "create"
  /\ rowId[c] \in RowIds
  /\ db.appts[rowId[c]] = NoRow
  /\ NewAppointment(req[c]) \in Appointment
  /\ tx[c] = PutAppointment(db, rowId[c], NewAppointment(req[c]))

Target(c) == IF req[c].op = "create" THEN rowId[c] ELSE req[c].id

(* The row that a request makes of the one it is about. *)
Outcome(d, r) ==
  IF r.op = "create" THEN NewAppointment(r) ELSE
  IF r.op = "cancel" THEN CancelledAppointment(d.appts[r.id])
  ELSE UpdatedAppointment(d, r)

(* What a transaction is about to commit: consistent tables in which the   *)
(* one appointment it was asked about has been entered or replaced.        *)
ReadyToCommit(c) ==
  LET id == Target(c)
      old == db.appts[id]
      new == tx[c].appts[id]
  IN  /\ id \in RowIds
      /\ Consistent(tx[c])
      /\ \A other \in RowIds \ {id} : tx[c].appts[other] = db.appts[other]
      /\ new # NoRow
      /\ new = Outcome(db, req[c])
      /\ new.owner = req[c].owner
      /\ new.status = IF req[c].op = "cancel" THEN "cancelled" ELSE "confirmed"
      /\ IF req[c].op = "create" THEN old = NoRow ELSE
         /\ old # NoRow
         /\ old.owner = req[c].owner
         /\ old.status = "confirmed"
         /\ old.version = req[c].version
         /\ new.version = old.version + 1
         /\ req[c].op = "update" => req[c].stylist # Ambiguous

HandlerOK(c) ==
  /\ tx[c] # NoTx <=> pc[c] \in InTx
  /\ pc[c] # "idle" => req[c] \in Request
  /\ pc[c] \in {"checking", "writing"} => tx[c] = db
  /\ pc[c] = "writing" => Accepted(db, req[c])
  /\ pc[c] = "scheduling" => HalfCreated(c)
  /\ pc[c] = "committing" => ReadyToCommit(c)

OneWriter == \A b, c \in Clients : tx[b] # NoTx /\ tx[c] # NoTx => b = c

IInv ==
  /\ TypeOK
  /\ Consistent(db)
  /\ OneWriter
  /\ \A c \in Clients : HandlerOK(c)

LEMMA OpOfRequest ==
  ASSUME NEW r \in Request
  PROVE  /\ r \in Request
         /\ r.op \in {"create", "cancel", "update"}
         /\ r.op = "create" => r \in CreateRequest
         /\ r.op = "cancel" => r \in CancelRequest
         /\ r.op = "update" => r \in UpdateRequest
         /\ r.op # "create" => r.id \in RowIds
         /\ r.owner \in Owners
BY ServiceAssumption DEF Request, CreateRequest, CancelRequest, UpdateRequest

LEMMA VerdictType ==
  ASSUME NEW d \in Database, NEW r \in Request
  PROVE  Verdict(d, r) \in Statuses \cup {"proceed"}
<1>1. CreateVerdict(d, r) \in Statuses \cup {"proceed"}
  BY DEF CreateVerdict, Statuses
<1>2. CancelVerdict(d, r) \in Statuses \cup {"proceed"}
  BY DEF CancelVerdict, Statuses
<1>3. UpdateVerdict(d, r) \in Statuses \cup {"proceed"}
  BY DEF UpdateVerdict, Statuses
<1>4. QED
  BY <1>1, <1>2, <1>3, OpOfRequest DEF Verdict

LEMMA ProceedMeansAccepted ==
  ASSUME NEW d \in Database, NEW r \in Request, Verdict(d, r) = "proceed"
  PROVE  Accepted(d, r)
<1>1. CASE r.op = "create"
  <2>1. CreateVerdict(d, r) = "proceed"
    BY <1>1 DEF Verdict
  <2>2. QED
    BY <1>1, <2>1 DEF CreateVerdict, Accepted
<1>2. CASE r.op = "cancel"
  <2>1. CancelVerdict(d, r) = "proceed"
    BY <1>2 DEF Verdict
  <2>2. /\ OwnedBy(d, r.id, r.owner)
        /\ d.appts[r.id].status # "cancelled"
        /\ d.appts[r.id].version = r.version
        /\ HasOneActiveSchedule(d, r.id)
    BY <2>1 DEF CancelVerdict
  <2>3. d.appts[r.id] \in Appointment
    BY <1>2, <2>2, OpOfRequest, StoredRowType DEF OwnedBy
  <2>4. QED
    BY <1>2, <2>2, <2>3 DEF Accepted, Appointment
<1>3. CASE r.op = "update"
  <2>1. UpdateVerdict(d, r) = "proceed"
    BY <1>3 DEF Verdict
  <2>2. /\ r.stylist # Ambiguous
        /\ OwnedBy(d, r.id, r.owner)
        /\ d.appts[r.id].status = "confirmed"
        /\ d.appts[r.id].version = r.version
        /\ HasOneActiveSchedule(d, r.id)
        /\ Pick(r.service, d.appts[r.id].service) \in Services
        /\ Pick(r.stylist, d.appts[r.id].stylist) \in Stylists
    BY <2>1 DEF UpdateVerdict
  <2>3. QED
    BY <1>3, <2>2 DEF Accepted
<1>4. QED
  BY <1>1, <1>2, <1>3, OpOfRequest

LEMMA ActiveScheduleIsUnique ==
  ASSUME NEW d \in Database, NEW id \in RowIds, HasOneActiveSchedule(d, id)
  PROVE  LET k == ActiveSchedule(d, id) IN
         /\ k \in RowIds
         /\ ActiveSchedules(d, id) = {k}
         /\ d.scheds[k] \in Schedule
         /\ d.scheds[k].appt = id
<1> DEFINE k == ActiveSchedule(d, id)
<1>1. k \in RowIds /\ ActiveSchedules(d, id) = {k}
  BY DEF ActiveSchedule, HasOneActiveSchedule
<1> HIDE DEF k
<1>2. d.scheds[k] # NoRow /\ d.scheds[k].appt = id
  BY <1>1 DEF ActiveSchedules, SchedulesOf, Rows
<1>3. QED
  BY <1>1, <1>2, StoredRowType DEF k

-----------------------------------------------------------------------------
(* The writes, as transactions make them *)

LEMMA CreateWrites ==
  ASSUME NEW d \in Database, NEW r \in Request, r.op = "create", Accepted(d, r),
         NEW id \in RowIds
  PROVE  /\ NewAppointment(r) \in Appointment
         /\ NewAppointment(r).owner = r.owner
         /\ NewAppointment(r).status = "confirmed"
         /\ PutAppointment(d, id, NewAppointment(r)) \in Database
<1>1. NewAppointment(r) \in Appointment
  BY OpOfRequest, NewAppointmentType DEF Accepted
<1>2. NewAppointment(r).owner = r.owner /\ NewAppointment(r).status = "confirmed"
  BY DEF NewAppointment
<1>3. QED
  BY <1>1, <1>2, PutAppointmentType

CancelImage(d, id) ==
  LET k == ActiveSchedule(d, id) IN
  PutSchedule(PutAppointment(d, id, CancelledAppointment(d.appts[id])),
              k, CancelledSchedule(d.scheds[k]))

LEMMA CancelWrites ==
  ASSUME NEW d \in Database, NEW r \in Request, r.op = "cancel", Accepted(d, r),
         Consistent(d)
  PROVE  LET e == CancelImage(d, r.id)
             new == CancelledAppointment(d.appts[r.id])
         IN  /\ e \in Database
             /\ e.appts = [d.appts EXCEPT ![r.id] = new]
             /\ new \in Appointment
             /\ new.owner = d.appts[r.id].owner
             /\ new.status = "cancelled"
             /\ new.version = d.appts[r.id].version + 1
             /\ Consistent(e)
<1> DEFINE id == r.id
           k == ActiveSchedule(d, id)
           new == CancelledAppointment(d.appts[id])
           closed == CancelledSchedule(d.scheds[k])
           m == PutAppointment(d, id, new)
           e == PutSchedule(m, k, closed)
<1>1. /\ id \in RowIds
      /\ d.appts[id] \in Appointment
      /\ HasOneActiveSchedule(d, id)
  BY OpOfRequest, StoredRowType DEF Accepted, OwnedBy
<1>2. /\ k \in RowIds
      /\ ActiveSchedules(d, id) = {k}
      /\ d.scheds[k] \in Schedule
  BY <1>1, ActiveScheduleIsUnique
<1>3. e = CancelImage(d, r.id)
  BY DEF CancelImage
<1>4. /\ new \in Appointment
      /\ new.owner = d.appts[id].owner
      /\ new.status = "cancelled"
      /\ new.version = d.appts[id].version + 1
      /\ closed \in Schedule
      /\ closed.status = "cancelled"
  BY <1>1, <1>2, CancelledRows
<1> HIDE DEF k, new, closed, id
<1>5. /\ m \in Database
      /\ m.appts = [d.appts EXCEPT ![id] = new]
      /\ m.scheds = d.scheds
  BY <1>1, <1>4, PutAppointmentType
<1> HIDE DEF m
<1>6. /\ e \in Database
      /\ e.appts = [d.appts EXCEPT ![id] = new]
      /\ e.scheds = [d.scheds EXCEPT ![k] = closed]
  BY <1>2, <1>4, <1>5, PutScheduleType
<1> HIDE DEF e
<1>7. Consistent(e)
  BY <1>1, <1>2, <1>4, <1>6, PairReplacedKeepsConsistent
<1>8. QED
  BY <1>3, <1>4, <1>6, <1>7 DEF id, new

UpdateImage(d, r) ==
  LET k == ActiveSchedule(d, r.id)
      appt == UpdatedAppointment(d, r)
  IN  PutSchedule(PutAppointment(d, r.id, appt), k, UpdatedSchedule(d.scheds[k], appt))

UpdateAborts(d, r) ==
  LET k == ActiveSchedule(d, r.id)
  IN  TriggerAborts(d, k, UpdatedSchedule(d.scheds[k], UpdatedAppointment(d, r)))

LEMMA UpdateWrites ==
  ASSUME NEW d \in Database, NEW r \in Request, r.op = "update", Accepted(d, r),
         Consistent(d), ~UpdateAborts(d, r)
  PROVE  LET e == UpdateImage(d, r)
             new == UpdatedAppointment(d, r)
         IN  /\ e \in Database
             /\ e.appts = [d.appts EXCEPT ![r.id] = new]
             /\ new \in Appointment
             /\ new.owner = d.appts[r.id].owner
             /\ new.status = "confirmed"
             /\ new.version = d.appts[r.id].version + 1
             /\ Consistent(e)
<1> DEFINE id == r.id
           k == ActiveSchedule(d, id)
           new == UpdatedAppointment(d, r)
           moved == UpdatedSchedule(d.scheds[k], new)
           m == PutAppointment(d, id, new)
           e == PutSchedule(m, k, moved)
<1>1. /\ id \in RowIds
      /\ d.appts[id] # NoRow
      /\ d.appts[id].status = "confirmed"
      /\ HasOneActiveSchedule(d, id)
      /\ Pick(r.service, d.appts[id].service) \in Services
      /\ Pick(r.stylist, d.appts[id].stylist) \in Stylists
      /\ r \in UpdateRequest
  BY OpOfRequest DEF Accepted, OwnedBy
<1>2. /\ k \in RowIds
      /\ ActiveSchedules(d, id) = {k}
      /\ d.scheds[k] \in Schedule
      /\ d.scheds[k].appt = id
  BY <1>1, ActiveScheduleIsUnique
<1>3. e = UpdateImage(d, r)
  BY DEF UpdateImage
<1>4. ~TriggerAborts(d, k, moved)
  BY DEF UpdateAborts
<1>5. /\ new \in Appointment
      /\ new.owner = d.appts[id].owner
      /\ new.status = "confirmed"
      /\ new.version = d.appts[id].version + 1
      /\ moved \in Schedule
      /\ moved.appt = id
      /\ moved.status = "busy"
      /\ Mirrors(moved, new)
  BY <1>1, <1>2, UpdatedRows
<1> HIDE DEF k, new, moved, id
<1>6. /\ m \in Database
      /\ m.appts = [d.appts EXCEPT ![id] = new]
      /\ m.scheds = d.scheds
  BY <1>1, <1>5, PutAppointmentType
<1> HIDE DEF m
<1>7. /\ e \in Database
      /\ e.appts = [d.appts EXCEPT ![id] = new]
      /\ e.scheds = [d.scheds EXCEPT ![k] = moved]
  BY <1>2, <1>5, <1>6, PutScheduleType
<1> HIDE DEF e
<1>8. Consistent(e)
  BY <1>1, <1>2, <1>4, <1>5, <1>7, PairReplacedKeepsConsistent
<1>9. QED
  BY <1>3, <1>5, <1>7, <1>8 DEF id, new

-----------------------------------------------------------------------------
(* Steps that do not touch the database *)

LEMMA InitOK == Init => IInv
<1> SUFFICES ASSUME Init PROVE IInv
  OBVIOUS
<1>1. db \in Database
  BY DEF Init, Database
<1>2. TypeOK
  BY <1>1 DEF Init, TypeOK, Steps
<1>3. Consistent(db)
  BY EmptyIsConsistent DEF Init
<1>4. OneWriter
  BY DEF Init, OneWriter
<1>5. \A c \in Clients : HandlerOK(c)
  BY DEF Init, HandlerOK, InTx
<1>6. QED
  BY <1>2, <1>3, <1>4, <1>5 DEF IInv

LEMMA OthersUndisturbed ==
  ASSUME IInv, NEW b \in Clients, db' = db, tx'[b] = tx[b], pc'[b] = pc[b],
         req'[b] = req[b], rowId'[b] = rowId[b]
  PROVE  HandlerOK(b)'
BY DEF IInv, HandlerOK, HalfCreated, ReadyToCommit, Target

(* A handler that is not inside a transaction and stays outside. *)
LEMMA OutsideKeeps ==
  ASSUME IInv, NEW c \in Clients, NEW p \in Steps \ InTx, TypeOK',
         db' = db,
         tx' = [tx EXCEPT ![c] = NoTx],
         pc' = [pc EXCEPT ![c] = p],
         \A b \in Clients \ {c} : req'[b] = req[b] /\ rowId'[b] = rowId[b],
         p # "idle" => req'[c] \in Request
  PROVE  IInv'
<1>1. tx'[c] = NoTx /\ pc'[c] = p
  BY DEF IInv, TypeOK
<1>2. HandlerOK(c)'
  BY <1>1 DEF HandlerOK, InTx
<1>3. \A b \in Clients \ {c} : tx'[b] = tx[b] /\ pc'[b] = pc[b]
  BY DEF IInv, TypeOK
<1>4. \A b \in Clients \ {c} : HandlerOK(b)'
  BY <1>3, OthersUndisturbed
<1>5. OneWriter'
  BY <1>1, <1>3 DEF IInv, OneWriter
<1>6. QED
  BY <1>2, <1>4, <1>5 DEF IInv

LEMMA RollbackKeeps ==
  ASSUME IInv, NEW c \in Clients, pc[c] # "idle", NEW status \in Statuses,
         Rollback(c, status)
  PROVE  IInv'
<1>1. TypeOK'
  BY DEF IInv, TypeOK, Rollback, Answer, Steps
<1>2. req[c] \in Request
  BY DEF IInv, HandlerOK
<1>3. QED
  BY <1>1, <1>2, OutsideKeeps DEF Rollback, Answer, Steps, InTx

LEMMA NotInTx ==
  ASSUME IInv, NEW c \in Clients, pc[c] \notin InTx
  PROVE  tx[c] = NoTx /\ tx = [tx EXCEPT ![c] = NoTx]
BY DEF IInv, TypeOK, HandlerOK

LEMMA ClientStepsKeep ==
  ASSUME IInv, NEW c \in Clients,
         \/ \E r \in Request : Submit(c, r)
         \/ Deliver(c) \/ CutOff(c) \/ Retry(c) \/ GiveUp(c)
  PROVE  IInv'
<1>1. CASE \E r \in Request : Submit(c, r)
  <2>1. TypeOK'
    BY <1>1, ServiceAssumption DEF IInv, TypeOK, Submit, Goto, Steps
  <2>2. tx[c] = NoTx /\ tx = [tx EXCEPT ![c] = NoTx]
    BY <1>1, NotInTx DEF Submit, Goto, InTx
  <2>3. req'[c] \in Request /\ \A b \in Clients \ {c} : req'[b] = req[b]
    BY <1>1 DEF IInv, TypeOK, Submit
  <2>4. QED
    BY <1>1, <2>1, <2>2, <2>3, OutsideKeeps DEF Submit, Goto, Steps, InTx
<1>2. CASE Deliver(c) \/ GiveUp(c)
  <2>1. TypeOK'
    BY <1>2 DEF IInv, TypeOK, Deliver, GiveUp, Goto, Forget, Steps
  <2>2. tx[c] = NoTx /\ tx = [tx EXCEPT ![c] = NoTx]
    BY <1>2, NotInTx DEF Deliver, GiveUp, Goto, InTx
  <2>3. \A b \in Clients \ {c} : req'[b] = req[b] /\ rowId'[b] = rowId[b]
    BY <1>2 DEF IInv, TypeOK, Deliver, GiveUp, Forget
  <2>4. QED
    BY <1>2, <2>1, <2>2, <2>3, OutsideKeeps DEF Deliver, GiveUp, Goto, Steps, InTx
<1>3. CASE CutOff(c)
  <2>1. TypeOK'
    BY <1>3 DEF IInv, TypeOK, CutOff, Steps
  <2>2. req[c] \in Request
    BY <1>3 DEF IInv, HandlerOK, CutOff
  <2>3. QED
    BY <1>3, <2>1, <2>2, OutsideKeeps DEF CutOff, Steps, InTx
<1>4. CASE Retry(c)
  <2>1. TypeOK'
    BY <1>4 DEF IInv, TypeOK, Retry, Goto, Steps
  <2>2. tx[c] = NoTx /\ tx = [tx EXCEPT ![c] = NoTx]
    BY <1>4, NotInTx DEF Retry, Goto, InTx
  <2>3. req[c] \in Request
    BY <1>4 DEF IInv, HandlerOK, Retry, Goto
  <2>4. QED
    BY <1>4, <2>1, <2>2, <2>3, OutsideKeeps DEF Retry, Goto, Steps, InTx
<1>5. QED
  BY <1>1, <1>2, <1>3, <1>4

LEMMA TickKeeps == IInv /\ Tick => IInv'
<1> SUFFICES ASSUME IInv, Tick PROVE IInv'
  OBVIOUS
<1>1. TypeOK'
  BY DEF IInv, TypeOK, Tick
<1>2. \A b \in Clients : HandlerOK(b)'
  BY OthersUndisturbed DEF Tick
<1>3. QED
  BY <1>1, <1>2 DEF IInv, OneWriter, Tick

-----------------------------------------------------------------------------
(* Steps of the one handler that holds the write lock *)

LEMMA InTxFacts ==
  ASSUME IInv, NEW c \in Clients, pc[c] \in InTx
  PROVE  /\ tx[c] \in Database
         /\ req[c] \in Request
         /\ \A b \in Clients \ {c} : tx[b] = NoTx /\ pc[b] \notin InTx
<1>1. tx[c] # NoTx /\ req[c] \in Request
  BY DEF IInv, HandlerOK, InTx
<1>2. tx[c] \in Database
  BY <1>1 DEF IInv, TypeOK
<1>3. \A b \in Clients \ {c} : tx[b] = NoTx
  BY <1>1 DEF IInv, OneWriter
<1>4. QED
  BY <1>1, <1>2, <1>3 DEF IInv, HandlerOK

LEMMA InsideKeeps ==
  ASSUME IInv, NEW c \in Clients, NEW p \in InTx, NEW image \in Database,
         \A b \in Clients \ {c} : tx[b] = NoTx,
         TypeOK',
         db' = db,
         tx' = [tx EXCEPT ![c] = image],
         pc' = [pc EXCEPT ![c] = p],
         req' = req,
         \A b \in Clients \ {c} : rowId'[b] = rowId[b],
         HandlerOK(c)'
  PROVE  IInv'
<1>1. tx'[c] = image /\ \A b \in Clients \ {c} : tx'[b] = tx[b] /\ pc'[b] = pc[b]
  BY DEF IInv, TypeOK
<1>2. \A b \in Clients \ {c} : HandlerOK(b)'
  BY <1>1, OthersUndisturbed
<1>3. OneWriter'
  BY <1>1 DEF OneWriter
<1>4. QED
  BY <1>2, <1>3 DEF IInv

LEMMA BeginKeeps ==
  ASSUME IInv, NEW c \in Clients, Begin(c)
  PROVE  IInv'
<1>1. db \in Database /\ db # NoTx
  BY ServiceAssumption DEF IInv, TypeOK
<1>2. TypeOK'
  BY <1>1 DEF IInv, TypeOK, Begin, Goto, Steps
<1>3. /\ tx'[c] = db /\ pc'[c] = "checking"
      /\ req[c] \in Request
  BY DEF IInv, TypeOK, HandlerOK, Begin, Goto
<1>4. HandlerOK(c)'
  BY <1>1, <1>3 DEF HandlerOK, InTx, Begin
<1>5. QED
  BY <1>1, <1>2, <1>4, InsideKeeps DEF Begin, Goto, InTx

LEMMA CheckKeeps ==
  ASSUME IInv, NEW c \in Clients, Check(c)
  PROVE  IInv'
<1>1. /\ pc[c] = "checking"
      /\ tx[c] = db
      /\ tx[c] \in Database
      /\ req[c] \in Request
      /\ \A b \in Clients \ {c} : tx[b] = NoTx
  BY InTxFacts DEF IInv, HandlerOK, Check, InTx
<1>2. CASE Verdict(tx[c], req[c]) # "proceed"
  <2>1. Rollback(c, Verdict(tx[c], req[c]))
    BY <1>2 DEF Check
  <2>2. Verdict(tx[c], req[c]) \in Statuses
    BY <1>1, <1>2, VerdictType
  <2>3. QED
    BY <1>1, <2>1, <2>2, RollbackKeeps
<1>3. CASE Verdict(tx[c], req[c]) = "proceed"
  <2>1. /\ pc' = [pc EXCEPT ![c] = "writing"]
        /\ UNCHANGED <<db, tx, req, rowId, reply, effects, now>>
    BY <1>3 DEF Check
  <2>2. TypeOK'
    BY <2>1 DEF IInv, TypeOK, Steps
  <2>3. pc'[c] = "writing" /\ tx' = [tx EXCEPT ![c] = db]
    BY <1>1, <2>1 DEF IInv, TypeOK
  <2>4. Accepted(db, req[c])
    BY <1>1, <1>3, ProceedMeansAccepted
  <2>5. db \in Database /\ db # NoTx
    BY <1>1, ServiceAssumption
  <2>6. HandlerOK(c)'
    BY <1>1, <2>1, <2>3, <2>4, <2>5 DEF HandlerOK, InTx, Accepted, OwnedBy,
       HasOneActiveSchedule, ActiveSchedules, SchedulesOf, BusySchedules, Rows
  <2>7. QED
    BY <1>1, <2>1, <2>2, <2>3, <2>5, <2>6, InsideKeeps DEF InTx
<1>4. QED
  BY <1>2, <1>3

LEMMA InsertAppointmentKeeps ==
  ASSUME IInv, NEW c \in Clients, InsertAppointment(c)
  PROVE  IInv'
<1>1. /\ pc[c] = "writing"
      /\ req[c].op = "create"
      /\ tx[c] = db
      /\ Accepted(db, req[c])
      /\ db \in Database
      /\ req[c] \in Request
      /\ \A b \in Clients \ {c} : tx[b] = NoTx
  BY InTxFacts DEF IInv, HandlerOK, InsertAppointment, Goto, InTx
<1>2. PICK id \in RowIds :
        /\ NextKey(db.appts, id)
        /\ tx' = [tx EXCEPT ![c] = PutAppointment(@, id, NewAppointment(req[c]))]
        /\ rowId' = [rowId EXCEPT ![c] = id]
  BY <1>1 DEF InsertAppointment
<1> DEFINE image == PutAppointment(db, id, NewAppointment(req[c]))
<1>3. /\ NewAppointment(req[c]) \in Appointment
      /\ image \in Database
  BY <1>1, CreateWrites
<1>4. tx' = [tx EXCEPT ![c] = image] /\ tx'[c] = image
  BY <1>1, <1>2 DEF IInv, TypeOK
<1>5. /\ pc' = [pc EXCEPT ![c] = "scheduling"] /\ pc'[c] = "scheduling"
      /\ rowId'[c] = id
      /\ \A b \in Clients \ {c} : rowId'[b] = rowId[b]
      /\ UNCHANGED <<db, req, reply, effects, now>>
  BY <1>2 DEF IInv, TypeOK, InsertAppointment, Goto
<1>6. db.appts[id] = NoRow
  BY <1>2 DEF NextKey
<1>7. HalfCreated(c)'
  BY <1>1, <1>3, <1>4, <1>5, <1>6 DEF HalfCreated
<1> HIDE DEF image
<1>8. TypeOK'
  BY <1>2, <1>3, <1>4, <1>5 DEF IInv, TypeOK, Steps
<1>9. HandlerOK(c)'
  BY <1>1, <1>3, <1>4, <1>5, <1>7, ServiceAssumption DEF HandlerOK, InTx
<1>10. QED
  BY <1>1, <1>3, <1>4, <1>5, <1>8, <1>9, InsideKeeps DEF InTx

(* The write that completes a transaction. *)
LEMMA CompletionKeeps ==
  ASSUME IInv, NEW c \in Clients, pc[c] \in InTx, NEW image \in Database,
         tx' = [tx EXCEPT ![c] = image],
         pc' = [pc EXCEPT ![c] = "committing"],
         UNCHANGED <<db, req, rowId, reply, effects, now>>,
         ReadyToCommit(c)'
  PROVE  IInv'
<1>1. /\ req[c] \in Request
      /\ \A b \in Clients \ {c} : tx[b] = NoTx
  BY InTxFacts
<1>2. TypeOK'
  BY DEF IInv, TypeOK, Steps
<1>3. tx'[c] = image /\ pc'[c] = "committing"
  BY DEF IInv, TypeOK
<1>4. HandlerOK(c)'
  BY <1>1, <1>3, ServiceAssumption DEF HandlerOK, InTx
<1>5. QED
  BY <1>1, <1>2, <1>4, InsideKeeps DEF InTx

LEMMA InsertScheduleKeeps ==
  ASSUME IInv, NEW c \in Clients, InsertSchedule(c)
  PROVE  IInv'
<1> DEFINE id == rowId[c]
           row == NewAppointment(req[c])
           half == PutAppointment(db, id, row)
<1>1. /\ pc[c] = "scheduling"
      /\ req[c].op = "create"
      /\ id \in RowIds
      /\ db.appts[id] = NoRow
      /\ row \in Appointment
      /\ tx[c] = half
      /\ db \in Database
      /\ Consistent(db)
  BY DEF IInv, TypeOK, HandlerOK, HalfCreated, InsertSchedule
<1>2. row.owner = req[c].owner /\ row.status = "confirmed"
  BY DEF NewAppointment
<1>3. PICK k \in RowIds :
        LET sched == NewSchedule(rowId[c], tx[c].appts[rowId[c]]) IN
        /\ NextKey(tx[c].scheds, k)
        /\ IF TriggerAborts(tx[c], k, sched)
           THEN Rollback(c, "schedule_conflict")
           ELSE /\ tx' = [tx EXCEPT ![c] = PutSchedule(@, k, sched)]
                /\ pc' = [pc EXCEPT ![c] = "committing"]
                /\ UNCHANGED <<db, req, rowId, reply, effects, now>>
  BY DEF InsertSchedule
<1> DEFINE sched == NewSchedule(id, row)
           image == PutSchedule(half, k, sched)
<1> HIDE DEF id, row
<1>4. /\ half \in Database
      /\ half.appts = [db.appts EXCEPT ![id] = row]
      /\ half.scheds = db.scheds
  BY <1>1, PutAppointmentType
<1> HIDE DEF half
<1>5. tx[c].appts[rowId[c]] = row
  BY <1>1, <1>4 DEF id, Database
<1>6. CASE TriggerAborts(half, k, sched)
  <2>1. Rollback(c, "schedule_conflict")
    BY <1>1, <1>3, <1>5, <1>6 DEF id
  <2>2. QED
    BY <1>1, <2>1, RollbackKeeps DEF Statuses
<1>7. CASE ~TriggerAborts(half, k, sched)
  <2>1. /\ tx' = [tx EXCEPT ![c] = PutSchedule(@, k, sched)]
        /\ pc' = [pc EXCEPT ![c] = "committing"]
        /\ UNCHANGED <<db, req, rowId, reply, effects, now>>
    BY <1>1, <1>3, <1>5, <1>7 DEF id
  <2>2. sched \in Schedule
    BY <1>1, NewScheduleType
  <2>3. ~TriggerAborts(db, k, sched)
    BY <1>4, <1>7 DEF TriggerAborts, HasScheduleConflict, BusySchedules, Rows
  <2>4. db.scheds[k] = NoRow
    BY <1>1, <1>3, <1>4 DEF NextKey
  <2> HIDE DEF sched
  <2>5. /\ image \in Database
        /\ image.appts = [db.appts EXCEPT ![id] = row]
        /\ image.scheds = [db.scheds EXCEPT ![k] = sched]
    BY <1>4, <2>2, PutScheduleType
  <2> HIDE DEF image
  <2>6. Consistent(image)
    BY <1>1, <1>2, <2>2, <2>3, <2>4, <2>5, CreateKeepsConsistent DEF sched
  <2>7. tx' = [tx EXCEPT ![c] = image] /\ tx'[c] = image
    BY <1>1, <2>1 DEF IInv, TypeOK, image
  <2>8. /\ image.appts[id] = row /\ row # NoRow
        /\ \A other \in RowIds \ {id} : image.appts[other] = db.appts[other]
    BY <1>1, <2>5, ServiceAssumption DEF Database
  <2>9. ReadyToCommit(c)'
    BY <1>1, <1>2, <2>1, <2>6, <2>7, <2>8 DEF ReadyToCommit, Target, Outcome, id, row
  <2>10. QED
    BY <1>1, <2>1, <2>5, <2>7, <2>9, CompletionKeeps DEF InTx
<1>8. QED
  BY <1>6, <1>7

(* A cancel or an update whose image holds a good new row is ready. *)
LEMMA ReplacementIsReady ==
  ASSUME IInv, NEW c \in Clients, pc[c] = "writing",
         req[c].op \in {"cancel", "update"},
         NEW image \in Database, Consistent(image),
         NEW new \in Appointment,
         image.appts = [db.appts EXCEPT ![req[c].id] = new],
         new.owner = db.appts[req[c].id].owner,
         new.status = IF req[c].op = "cancel" THEN "cancelled" ELSE "confirmed",
         new.version = db.appts[req[c].id].version + 1,
         new = Outcome(db, req[c]),
         tx' = [tx EXCEPT ![c] = image],
         UNCHANGED <<db, req, rowId>>
  PROVE  ReadyToCommit(c)'
<1> DEFINE id == req[c].id
<1>1. /\ id \in RowIds
      /\ Accepted(db, req[c])
      /\ db.appts \in [RowIds -> Appointment \cup {NoRow}]
      /\ tx'[c] = image
  BY OpOfRequest DEF IInv, TypeOK, HandlerOK, Database
<1>2. /\ db.appts[id] # NoRow
      /\ db.appts[id].owner = req[c].owner
      /\ db.appts[id].status = "confirmed"
      /\ db.appts[id].version = req[c].version
      /\ req[c].op = "update" => req[c].stylist # Ambiguous
  BY <1>1 DEF Accepted, OwnedBy
<1>3. /\ image.appts[id] = new /\ new # NoRow
      /\ \A other \in RowIds \ {id} : image.appts[other] = db.appts[other]
  BY <1>1, ServiceAssumption
<1>4. Target(c)' = id
  BY DEF Target
<1> HIDE DEF id
<1>5. QED
  BY <1>1, <1>2, <1>3, <1>4 DEF ReadyToCommit, id

LEMMA ApplyCancelKeeps ==
  ASSUME IInv, NEW c \in Clients, ApplyCancel(c)
  PROVE  IInv'
<1> DEFINE id == req[c].id
           image == CancelImage(db, id)
           new == CancelledAppointment(db.appts[id])
<1>1. /\ pc[c] = "writing"
      /\ req[c].op = "cancel"
      /\ tx[c] = db
      /\ Accepted(db, req[c])
      /\ db \in Database
      /\ Consistent(db)
      /\ req[c] \in Request
  BY InTxFacts DEF IInv, HandlerOK, ApplyCancel, Goto, InTx
<1>2. /\ image \in Database
      /\ image.appts = [db.appts EXCEPT ![id] = new]
      /\ new \in Appointment
      /\ new.owner = db.appts[id].owner
      /\ new.status = "cancelled"
      /\ new.version = db.appts[id].version + 1
      /\ Consistent(image)
  BY <1>1, CancelWrites
<1>3. tx' = [tx EXCEPT ![c] = image]
  BY <1>1 DEF IInv, TypeOK, ApplyCancel, CancelImage
<1>4. /\ pc' = [pc EXCEPT ![c] = "committing"]
      /\ UNCHANGED <<db, req, rowId, reply, effects, now>>
  BY DEF ApplyCancel, Goto
<1> HIDE DEF image
<1>5. new = Outcome(db, req[c])
  BY <1>1 DEF Outcome
<1> HIDE DEF new
<1>6. ReadyToCommit(c)'
  BY <1>1, <1>2, <1>3, <1>4, <1>5, ReplacementIsReady
<1>7. QED
  BY <1>1, <1>2, <1>3, <1>4, <1>6, CompletionKeeps DEF InTx

LEMMA ApplyUpdateKeeps ==
  ASSUME IInv, NEW c \in Clients, ApplyUpdate(c)
  PROVE  IInv'
<1> DEFINE r == req[c]
           image == UpdateImage(db, r)
           new == UpdatedAppointment(db, r)
<1>1. /\ pc[c] = "writing"
      /\ r.op = "update"
      /\ tx[c] = db
      /\ Accepted(db, r)
      /\ db \in Database
      /\ Consistent(db)
      /\ r \in Request
  BY InTxFacts DEF IInv, HandlerOK, ApplyUpdate, InTx
<1>2. CASE UpdateAborts(db, r)
  <2>1. Rollback(c, "conflict")
    BY <1>1, <1>2 DEF ApplyUpdate, UpdateAborts
  <2>2. QED
    BY <1>1, <2>1, RollbackKeeps DEF Statuses
<1>3. CASE ~UpdateAborts(db, r)
  <2>1. /\ tx' = [tx EXCEPT ![c] = image]
        /\ pc' = [pc EXCEPT ![c] = "committing"]
        /\ UNCHANGED <<db, req, rowId, reply, effects, now>>
    BY <1>1, <1>3 DEF IInv, TypeOK, ApplyUpdate, UpdateAborts, UpdateImage
  <2>2. /\ image \in Database
        /\ image.appts = [db.appts EXCEPT ![r.id] = new]
        /\ new \in Appointment
        /\ new.owner = db.appts[r.id].owner
        /\ new.status = "confirmed"
        /\ new.version = db.appts[r.id].version + 1
        /\ Consistent(image)
    BY <1>1, <1>3, UpdateWrites
  <2> HIDE DEF image
  <2>3. new = Outcome(db, req[c])
    BY <1>1 DEF Outcome
  <2> HIDE DEF new
  <2>4. ReadyToCommit(c)'
    BY <1>1, <2>1, <2>2, <2>3, ReplacementIsReady
  <2>5. QED
    BY <1>1, <2>1, <2>2, <2>4, CompletionKeeps DEF InTx
<1>4. QED
  BY <1>2, <1>3

LEMMA CommitKeeps ==
  ASSUME IInv, NEW c \in Clients, Commit(c)
  PROVE  IInv'
<1>1. /\ pc[c] = "committing"
      /\ tx[c] \in Database
      /\ req[c] \in Request
      /\ ReadyToCommit(c)
      /\ \A b \in Clients \ {c} : tx[b] = NoTx /\ pc[b] \notin InTx
  BY InTxFacts DEF IInv, HandlerOK, Commit, InTx
<1>2. TypeOK'
  BY <1>1 DEF IInv, TypeOK, Commit, Answer, Steps, Statuses
<1>3. Consistent(db')
  BY <1>1 DEF ReadyToCommit, Commit
<1>4. /\ tx'[c] = NoTx /\ pc'[c] = "answering"
      /\ \A b \in Clients \ {c} : tx'[b] = tx[b] /\ pc'[b] = pc[b]
  BY DEF IInv, TypeOK, Commit, Answer
<1>5. HandlerOK(c)'
  BY <1>1, <1>4 DEF HandlerOK, InTx, Commit
<1>6. ASSUME NEW b \in Clients \ {c}
      PROVE  HandlerOK(b)'
  <2>1. pc'[b] \notin InTx /\ tx'[b] = NoTx
    BY <1>1, <1>4
  <2>2. pc'[b] # "idle" => req'[b] \in Request
    BY <1>4 DEF IInv, HandlerOK, Commit
  <2>3. QED
    BY <2>1, <2>2 DEF HandlerOK, InTx
<1>7. OneWriter'
  BY <1>1, <1>4 DEF OneWriter
<1>8. QED
  BY <1>2, <1>3, <1>5, <1>6, <1>7 DEF IInv

LEMMA ServeKeeps ==
  ASSUME IInv, NEW c \in Clients, Serve(c)
  PROVE  IInv'
<1>1. CASE Begin(c)
  BY <1>1, BeginKeeps
<1>2. CASE LockTimeout(c)
  BY <1>2, RollbackKeeps DEF LockTimeout, Statuses
<1>3. CASE Check(c)
  BY <1>3, CheckKeeps
<1>4. CASE InsertAppointment(c)
  BY <1>4, InsertAppointmentKeeps
<1>5. CASE InsertSchedule(c)
  BY <1>5, InsertScheduleKeeps
<1>6. CASE ApplyCancel(c)
  BY <1>6, ApplyCancelKeeps
<1>7. CASE ApplyUpdate(c)
  BY <1>7, ApplyUpdateKeeps
<1>8. CASE Commit(c)
  BY <1>8, CommitKeeps
<1>9. CASE Fail(c)
  <2>1. pc[c] # "idle"
    BY <1>9 DEF Fail, IInv, HandlerOK, InTx
  <2>2. QED
    BY <1>9, <2>1, RollbackKeeps DEF Fail, Statuses
<1>10. CASE Deliver(c)
  BY <1>10, ClientStepsKeep
<1>11. QED
  BY <1>1, <1>2, <1>3, <1>4, <1>5, <1>6, <1>7, <1>8, <1>9, <1>10 DEF Serve

LEMMA StutterKeeps == IInv /\ UNCHANGED vars => IInv'
<1> SUFFICES ASSUME IInv, UNCHANGED vars PROVE IInv'
  OBVIOUS
<1>1. TypeOK'
  BY DEF IInv, TypeOK, vars
<1>2. \A b \in Clients : HandlerOK(b)'
  BY OthersUndisturbed DEF vars
<1>3. QED
  BY <1>1, <1>2 DEF IInv, OneWriter, vars

(* What the clients may do whatever they ask for, as the chats do, which   *)
(* make up their requests as they go.                                      *)
AnyStep(c) ==
  \/ Serve(c) \/ CutOff(c) \/ Retry(c) \/ GiveUp(c)
  \/ \E r \in Request : Submit(c, r)

AnyNext == Tick \/ \E c \in Clients : AnyStep(c)

LEMMA StepIsAny ==
  ASSUME NEW c \in Clients, Serve(c) \/ Environment(c)
  PROVE  AnyStep(c)
BY ServiceAssumption DEF Environment, AnyStep

LEMMA NextIsAny == [Next]_vars => [AnyNext]_vars
BY StepIsAny DEF Next, AnyNext

LEMMA AnyKeeps == IInv /\ [AnyNext]_vars => IInv'
<1> SUFFICES ASSUME IInv, [AnyNext]_vars PROVE IInv'
  OBVIOUS
<1>1. CASE Tick
  BY <1>1, TickKeeps
<1>2. ASSUME NEW c \in Clients, AnyStep(c) PROVE IInv'
  BY <1>2, ServeKeeps, ClientStepsKeep DEF AnyStep
<1>3. CASE UNCHANGED vars
  BY <1>3, StutterKeeps
<1>4. QED
  BY <1>1, <1>2, <1>3 DEF AnyNext

LEMMA NextKeeps == IInv /\ [Next]_vars => IInv'
BY NextIsAny, AnyKeeps

-----------------------------------------------------------------------------
(* Only commits write the tables *)

LEMMA OnlyCommitWrites ==
  ASSUME [AnyNext]_vars
  PROVE  db' = db \/ \E c \in Clients : Commit(c)
<1>1. CASE Tick \/ UNCHANGED vars
  BY <1>1 DEF Tick, vars
<1>2. ASSUME NEW c \in Clients, Serve(c)
      PROVE  db' = db \/ Commit(c)
  <2>1. CASE Begin(c) \/ LockTimeout(c) \/ Check(c) \/ Fail(c) \/ Deliver(c)
    BY <2>1 DEF Begin, LockTimeout, Check, Fail, Deliver, Rollback
  <2>2. CASE InsertAppointment(c) \/ ApplyCancel(c)
    BY <2>2 DEF InsertAppointment, ApplyCancel
  <2>3. CASE InsertSchedule(c)
    BY <2>3 DEF InsertSchedule, Rollback
  <2>4. CASE ApplyUpdate(c)
    BY <2>4 DEF ApplyUpdate, Rollback
  <2>5. QED
    BY <1>2, <2>1, <2>2, <2>3, <2>4 DEF Serve
<1>3. ASSUME NEW c \in Clients,
             \/ CutOff(c) \/ Retry(c) \/ GiveUp(c)
             \/ \E r \in Request : Submit(c, r)
      PROVE  db' = db
  BY <1>3 DEF Submit, CutOff, Retry, GiveUp
<1>4. QED
  BY <1>1, <1>2, <1>3 DEF AnyNext, AnyStep

(* A handler's step leaves every other handler where it was. *)
LEMMA OthersWait ==
  ASSUME IInv, NEW c \in Clients, AnyStep(c), NEW b \in Clients \ {c}
  PROVE  /\ tx'[b] = tx[b] /\ pc'[b] = pc[b] /\ req'[b] = req[b]
         /\ rowId'[b] = rowId[b] /\ reply'[b] = reply[b] /\ effects'[b] = effects[b]
<1> USE DEF IInv, TypeOK
<1>1. CASE Begin(c) \/ LockTimeout(c) \/ Check(c) \/ Fail(c)
  BY <1>1 DEF Begin, LockTimeout, Check, Fail, Goto, Rollback, Answer
<1>2. CASE InsertAppointment(c) \/ ApplyCancel(c)
  BY <1>2 DEF InsertAppointment, ApplyCancel, Goto
<1>3. CASE InsertSchedule(c)
  BY <1>3 DEF InsertSchedule, Rollback, Answer
<1>4. CASE ApplyUpdate(c)
  BY <1>4 DEF ApplyUpdate, Rollback, Answer
<1>5. CASE Commit(c)
  BY <1>5 DEF Commit, Answer
<1>6. CASE Deliver(c) \/ GiveUp(c)
  BY <1>6 DEF Deliver, GiveUp, Goto, Forget
<1>7. CASE CutOff(c) \/ Retry(c) \/ \E r \in Request : Submit(c, r)
  BY <1>7 DEF CutOff, Retry, Submit, Goto
<1>8. QED
  BY <1>1, <1>2, <1>3, <1>4, <1>5, <1>6, <1>7 DEF AnyStep, Serve

LEMMA HandlersWait ==
  ASSUME IInv, NEW c \in Clients, [AnyStep(c)]_vars, NEW b \in Clients \ {c}
  PROVE  pc'[b] = pc[b] /\ req'[b] = req[b]
BY OthersWait DEF vars

(* A step of a transaction that does not end it. *)
LEMMA ServeGoesOn ==
  ASSUME IInv, NEW c \in Clients, Serve(c),
         pc[c] \in Steps \ {"idle", "cut_off", "answering"}
  PROVE  pc'[c] \in Steps \ {"idle", "cut_off"} /\ req'[c] = req[c]
<1> USE DEF IInv, TypeOK, Steps
<1>1. CASE Begin(c) \/ LockTimeout(c) \/ Check(c) \/ Fail(c)
  BY <1>1 DEF Begin, LockTimeout, Check, Fail, Goto, Rollback, Answer
<1>2. CASE InsertAppointment(c) \/ ApplyCancel(c)
  BY <1>2 DEF InsertAppointment, ApplyCancel, Goto
<1>3. CASE InsertSchedule(c)
  BY <1>3 DEF InsertSchedule, Rollback, Answer
<1>4. CASE ApplyUpdate(c)
  BY <1>4 DEF ApplyUpdate, Rollback, Answer
<1>5. CASE Commit(c)
  BY <1>5 DEF Commit, Answer
<1>6. CASE Deliver(c)
  BY <1>6 DEF Deliver, Goto
<1>7. QED
  BY <1>1, <1>2, <1>3, <1>4, <1>5, <1>6 DEF Serve

(* What a commit does to the appointments table. *)
LEMMA CommitFacts ==
  ASSUME IInv, NEW c \in Clients, Commit(c)
  PROVE  LET id == Target(c)
             old == db.appts[id]
             new == db'.appts[id]
         IN  /\ id \in RowIds
             /\ db' \in Database
             /\ Consistent(db')
             /\ req[c] \in Request
             /\ \A other \in RowIds \ {id} : db'.appts[other] = db.appts[other]
             /\ new \in Appointment
             /\ new = Outcome(db, req[c])
             /\ new.owner = req[c].owner
             /\ new.status = IF req[c].op = "cancel" THEN "cancelled" ELSE "confirmed"
             /\ IF req[c].op = "create" THEN old = NoRow ELSE
                /\ id = req[c].id
                /\ old \in Appointment
                /\ old.owner = req[c].owner
                /\ old.status = "confirmed"
                /\ old.version = req[c].version
                /\ new.version = old.version + 1
                /\ req[c].op = "update" => req[c].stylist # Ambiguous
<1>1. /\ db \in Database
      /\ tx[c] \in Database
      /\ req[c] \in Request
      /\ ReadyToCommit(c)
      /\ db' = tx[c]
  BY InTxFacts DEF IInv, TypeOK, HandlerOK, Commit, InTx
<1>2. Target(c) \in RowIds
  BY <1>1 DEF ReadyToCommit
<1>3. /\ db.appts[Target(c)] # NoRow => db.appts[Target(c)] \in Appointment
      /\ tx[c].appts[Target(c)] # NoRow => tx[c].appts[Target(c)] \in Appointment
  BY <1>1, <1>2, StoredRowType
<1>4. req[c].op # "create" => Target(c) = req[c].id
  BY DEF Target
<1>5. QED
  BY <1>1, <1>2, <1>3, <1>4 DEF ReadyToCommit

(* A stored row only ever moves to its next version, under its owner. *)
LEMMA RowsOnlyAdvance ==
  ASSUME IInv, [AnyNext]_vars, NEW id \in Rows(db.appts),
         db'.appts[id] # db.appts[id]
  PROVE  ChangedByItsOwner(id)
<1>1. PICK c \in Clients : Commit(c)
  BY OnlyCommitWrites
<1>2. id = Target(c) /\ db.appts[id] # NoRow /\ id \in RowIds
  BY <1>1, CommitFacts DEF Rows
<1>3. /\ req[c] \in Request
      /\ req[c].op # "create"
      /\ id = req[c].id
      /\ db'.appts[id] \in Appointment
      /\ db'.appts[id].owner = req[c].owner
      /\ db.appts[id].owner = req[c].owner
      /\ db.appts[id].status = "confirmed"
      /\ db.appts[id].version = req[c].version
      /\ db'.appts[id].version = db.appts[id].version + 1
  BY <1>1, <1>2, CommitFacts
<1>4. req[c].op \in {"cancel", "update"} /\ req[c] # NoRequest
  BY <1>3, OpOfRequest, ServiceAssumption
<1>5. db'.appts[id] # NoRow
  BY <1>3, ServiceAssumption
<1>6. QED
  BY <1>3, <1>4, <1>5 DEF ChangedByItsOwner

-----------------------------------------------------------------------------
(* Safety *)

(* Every reachable state satisfies the inductive invariant. *)
THEOREM InvariantHolds == Spec => []IInv
BY InitOK, NextKeeps, PTL DEF Spec

(* Whatever the requests, every row a transaction writes is well formed,   *)
(* and the handlers' variables keep to their types.                        *)
THEOREM TypeCorrect == Spec => []TypeOK
<1>1. IInv => TypeOK
  BY DEF IInv
<1>2. QED
  BY <1>1, InvariantHolds, PTL

(* No stylist is ever busy with two appointments at the same moment.       *)
THEOREM NoStylistBookedTwice == Spec => []NoDoubleBooking
<1>1. IInv => NoDoubleBooking
  BY DEF IInv, Consistent, NoDoubleBooking
<1>2. QED
  BY <1>1, InvariantHolds, PTL

(* The appointments and stylist_schedules tables agree at every commit.    *)
THEOREM TablesAgree == Spec => []AppointmentsMirrorSchedules
<1>1. IInv => AppointmentsMirrorSchedules
  BY DEF IInv, Consistent, AppointmentsMirrorSchedules
<1>2. QED
  BY <1>1, InvariantHolds, PTL

-----------------------------------------------------------------------------
(* No update is lost: a stored appointment changes only when its owner's   *)
(* request, naming the version being replaced, commits.                    *)
THEOREM NoUpdateLost == Spec => NoLostUpdate
<1>1. IInv /\ [Next]_vars =>
        [\A id \in Rows(db.appts) :
           db'.appts[id] # db.appts[id] => ChangedByItsOwner(id)]_vars
  BY NextIsAny, RowsOnlyAdvance
<1>2. QED
  BY <1>1, InvariantHolds, PTL DEF Spec, NoLostUpdate

-----------------------------------------------------------------------------
(* The refinement *)

LEMMA EntryOfRow ==
  ASSUME NEW row \in Appointment
  PROVE  /\ row.status = "cancelled" => BookEntry(row) = Released
         /\ row.status = "confirmed" =>
              /\ BookEntry(row) \in Claims
              /\ BookEntry(row).owner = row.owner
              /\ BookEntry(row).stylist = row.stylist
              /\ BookEntry(row).start = row.start
              /\ BookEntry(row).end = row.end
<1>1. row # NoRow
  BY ServiceAssumption
<1>2. ASSUME row.status = "confirmed"
      PROVE  BookEntry(row) = [owner |-> row.owner, stylist |-> row.stylist,
                               start |-> row.start, end |-> row.end]
  BY <1>1, <1>2 DEF BookEntry
<1>3. [owner |-> row.owner, stylist |-> row.stylist,
       start |-> row.start, end |-> row.end] \in Claims
  BY DEF Appointment, Claims
<1>4. row.status = "cancelled" => BookEntry(row) = Released
  BY <1>1 DEF BookEntry
<1>5. QED
  BY <1>2, <1>3, <1>4

LEMMA EntryType ==
  ASSUME NEW row \in Appointment \cup {NoRow}
  PROVE  /\ BookEntry(row) \in Claims \cup {NoRow, Released}
         /\ BookEntry(row) \in Claims => row \in Appointment /\ row.status = "confirmed"
<1>1. CASE row = NoRow
  BY <1>1, ServiceAssumption DEF BookEntry
<1>2. CASE row \in Appointment
  <2>1. row.status \in {"confirmed", "cancelled"}
    BY <1>2 DEF Appointment
  <2>2. QED
    BY <1>2, <2>1, EntryOfRow, ServiceAssumption
<1>3. QED
  BY <1>1, <1>2

(* In consistent tables, confirmed appointments inherit their schedules'   *)
(* disjointness.                                                           *)
LEMMA ConfirmedAreDisjoint ==
  ASSUME NEW d \in Database, Consistent(d),
         NEW a \in Confirmed(d), NEW b \in Confirmed(d), a # b,
         d.appts[a].stylist = d.appts[b].stylist
  PROVE  (d.appts[a].start .. (d.appts[a].end - 1))
            \cap (d.appts[b].start .. (d.appts[b].end - 1)) = {}
<1>1. PICK j \in RowIds : ActiveSchedules(d, a) = {j} /\ Mirrors(d.scheds[j], d.appts[a])
  BY DEF Consistent, ConfirmedArePaired
<1>2. PICK k \in RowIds : ActiveSchedules(d, b) = {k} /\ Mirrors(d.scheds[k], d.appts[b])
  BY DEF Consistent, ConfirmedArePaired
<1>3. /\ j \in BusySchedules(d) /\ d.scheds[j].appt = a
      /\ k \in BusySchedules(d) /\ d.scheds[k].appt = b
  BY <1>1, <1>2 DEF ActiveSchedules, SchedulesOf
<1>4. Minutes(d.scheds[j]) \cap Minutes(d.scheds[k]) = {}
  BY <1>1, <1>2, <1>3 DEF Consistent, DisjointSchedules, Mirrors
<1>5. QED
  BY <1>1, <1>2, <1>4 DEF Mirrors, Minutes

LEMMA InitRefines == Init => Book!Init
BY DEF Init, Book!Init, BookOfClaims, BookEntry

(* One row is written, into tables that are consistent afterwards: its     *)
(* claim fits, and the others are left alone.                              *)
LEMMA WrittenRowFits ==
  ASSUME NEW id \in RowIds, db' \in Database, Consistent(db'),
         \A other \in RowIds \ {id} : db'.appts[other] = db.appts[other],
         db'.appts[id] \in Appointment
  PROVE  /\ Book!OthersKept(id)
         /\ db'.appts[id].status = "confirmed" => Book!Fits(id, BookOfClaims'[id])
<1> DEFINE new == db'.appts[id]
<1>1. \A other \in RowIds : BookOfClaims'[other] = BookEntry(db'.appts[other])
  BY DEF BookOfClaims
<1>2. Book!OthersKept(id)
  <2>1. \A a \in RowIds : BookEntry(db'.appts[a]) \in Claims \cup {NoRow, Released}
    BY EntryType DEF Database
  <2>2. BookOfClaims' \in [RowIds -> Claims \cup {NoRow, Released}]
    BY <2>1 DEF BookOfClaims
  <2>3. \A other \in RowIds \ {id} : BookOfClaims'[other] = BookOfClaims[other]
    BY DEF BookOfClaims
  <2>4. QED
    BY <2>2, <2>3 DEF Book!OthersKept
<1>3. new.status = "confirmed" => Book!Fits(id, BookOfClaims'[id])
  <2> SUFFICES ASSUME new.status = "confirmed", NEW other \in RowIds \ {id},
                      BookOfClaims[other] \in Claims
               PROVE  Book!Disjoint(BookOfClaims'[id], BookOfClaims[other])
    BY DEF Book!Fits
  <2>1. /\ BookOfClaims[other] = BookEntry(db'.appts[other])
        /\ db'.appts[other] \in Appointment \cup {NoRow}
    BY DEF BookOfClaims, Database
  <2>2. db'.appts[other] \in Appointment /\ db'.appts[other].status = "confirmed"
    BY <2>1, EntryType
  <2>3. id \in Confirmed(db') /\ other \in Confirmed(db')
    BY <2>2, ServiceAssumption DEF Confirmed, Rows
  <2>4. new.stylist = db'.appts[other].stylist =>
          (new.start .. (new.end - 1))
            \cap (db'.appts[other].start .. (db'.appts[other].end - 1)) = {}
    BY <2>3, ConfirmedAreDisjoint
  <2>5. QED
    BY <1>1, <2>1, <2>2, <2>4, EntryOfRow DEF Book!Disjoint, Book!Instants
<1>4. QED
  BY <1>2, <1>3

LEMMA CommitRefines ==
  ASSUME IInv, NEW c \in Clients, Commit(c)
  PROVE  Book!Next
<1> DEFINE id == Target(c)
           old == db.appts[id]
           new == db'.appts[id]
<1>1. /\ id \in RowIds
      /\ db' \in Database
      /\ Consistent(db')
      /\ req[c] \in Request
      /\ \A other \in RowIds \ {id} : db'.appts[other] = db.appts[other]
      /\ new \in Appointment
      /\ new.owner = req[c].owner
      /\ new.status = IF req[c].op = "cancel" THEN "cancelled" ELSE "confirmed"
      /\ req[c].op = "create" => old = NoRow
      /\ req[c].op # "create" =>
           old \in Appointment /\ old.owner = req[c].owner /\ old.status = "confirmed"
  BY CommitFacts
<1> HIDE DEF id
<1>2. /\ BookOfClaims[id] = BookEntry(old)
      /\ BookOfClaims'[id] = BookEntry(new)
  BY <1>1 DEF BookOfClaims
<1>3. /\ Book!OthersKept(id)
      /\ new.status = "confirmed" => Book!Fits(id, BookOfClaims'[id])
  BY <1>1, WrittenRowFits
<1>4. CASE req[c].op = "create"
  BY <1>1, <1>2, <1>3, <1>4, EntryOfRow DEF Book!Next, Book!Book, BookEntry
<1>5. CASE req[c].op = "cancel"
  BY <1>1, <1>2, <1>3, <1>5, EntryOfRow DEF Book!Next, Book!Release
<1>6. CASE req[c].op = "update"
  BY <1>1, <1>2, <1>3, <1>6, EntryOfRow DEF Book!Next, Book!Move
<1>7. QED
  BY <1>1, <1>4, <1>5, <1>6, OpOfRequest

LEMMA StepRefines == IInv /\ [AnyNext]_vars => [Book!Next]_BookOfClaims
<1> SUFFICES ASSUME IInv, [AnyNext]_vars PROVE [Book!Next]_BookOfClaims
  OBVIOUS
<1>1. CASE db' = db
  BY <1>1 DEF BookOfClaims
<1>2. ASSUME NEW c \in Clients, Commit(c) PROVE Book!Next
  BY <1>2, CommitRefines
<1>3. QED
  BY <1>1, <1>2, OnlyCommitWrites

(* Seen from the appointments table, every behaviour of the transactional  *)
(* service is a behaviour of the abstract book of claims.                  *)
THEOREM ServiceImplementsBook == Spec => ImplementsSalonBook
BY InvariantHolds, InitRefines, NextIsAny, StepRefines, PTL
   DEF Spec, ImplementsSalonBook, Book!Spec

LEMMA DisjointIsSymmetric ==
  ASSUME NEW a, NEW b, Book!Disjoint(a, b)
  PROVE  Book!Disjoint(b, a)
BY DEF Book!Disjoint

(* Whatever is entered or moved fits, so no two claims of the book clash.  *)
LEMMA BookStaysExclusive ==
  ASSUME Book!NoDoubleBooking, [Book!Next]_BookOfClaims
  PROVE  Book!NoDoubleBooking'
<1> SUFFICES ASSUME NEW a \in RowIds, NEW b \in RowIds, a # b,
                    BookOfClaims'[a] \in Claims, BookOfClaims'[b] \in Claims
             PROVE  Book!Disjoint(BookOfClaims'[a], BookOfClaims'[b])
  BY DEF Book!NoDoubleBooking
<1>1. ASSUME NEW id \in RowIds, Book!OthersKept(id),
             BookOfClaims'[id] \in Claims => Book!Fits(id, BookOfClaims'[id])
      PROVE  Book!Disjoint(BookOfClaims'[a], BookOfClaims'[b])
  <2>1. CASE a = id
    <3>1. BookOfClaims'[b] = BookOfClaims[b]
      BY <1>1, <2>1 DEF Book!OthersKept
    <3>2. QED
      BY <1>1, <2>1, <3>1 DEF Book!Fits
  <2>2. CASE b = id
    <3>1. BookOfClaims'[a] = BookOfClaims[a]
      BY <1>1, <2>2 DEF Book!OthersKept
    <3>2. Book!Disjoint(BookOfClaims'[b], BookOfClaims'[a])
      BY <1>1, <2>2, <3>1 DEF Book!Fits
    <3>3. QED
      BY <3>2, DisjointIsSymmetric
  <2>3. CASE a # id /\ b # id
    <3>1. BookOfClaims'[a] = BookOfClaims[a] /\ BookOfClaims'[b] = BookOfClaims[b]
      BY <1>1, <2>3 DEF Book!OthersKept
    <3>2. QED
      BY <3>1 DEF Book!NoDoubleBooking
  <2>4. QED
    BY <2>1, <2>2, <2>3
<1>2. ASSUME NEW id \in RowIds, Book!Book(id)
      PROVE  Book!Disjoint(BookOfClaims'[a], BookOfClaims'[b])
  BY <1>1, <1>2 DEF Book!Book
<1>3. ASSUME NEW id \in RowIds, Book!Move(id)
      PROVE  Book!Disjoint(BookOfClaims'[a], BookOfClaims'[b])
  BY <1>1, <1>3 DEF Book!Move
<1>4. ASSUME NEW id \in RowIds, Book!Release(id)
      PROVE  Book!Disjoint(BookOfClaims'[a], BookOfClaims'[b])
  BY <1>1, <1>4, ServiceAssumption DEF Book!Release
<1>5. CASE UNCHANGED BookOfClaims
  BY <1>5 DEF Book!NoDoubleBooking
<1>6. QED
  BY <1>2, <1>3, <1>4, <1>5 DEF Book!Next

(* The abstract book keeps every stylist's claims disjoint, and so does    *)
(* the appointments table, which implements it.                            *)
THEOREM ClaimsStayDisjoint ==
  /\ Book!Spec => []Book!NoDoubleBooking
  /\ Spec => []Book!NoDoubleBooking
<1>1. Book!Init => Book!NoDoubleBooking
  BY ServiceAssumption DEF Book!Init, Book!NoDoubleBooking
<1>2. Book!NoDoubleBooking /\ [Book!Next]_BookOfClaims => Book!NoDoubleBooking'
  BY BookStaysExclusive
<1>3. Book!Spec => []Book!NoDoubleBooking
  BY <1>1, <1>2, PTL DEF Book!Spec
<1>4. QED
  BY <1>3, ServiceImplementsBook, PTL DEF ImplementsSalonBook


-----------------------------------------------------------------------------
(* What has been stored stays so *)

LEMMA RecordedStays ==
  ASSUME IInv, [Next]_vars, NEW id \in RowIds, NEW owner, OwnedBy(db, id, owner)
  PROVE  /\ OwnedBy(db', id, owner)
         /\ \A v \in Nat : db.appts[id].version > v => db'.appts[id].version > v
         /\ db.appts[id].status = "cancelled" => db'.appts[id].status = "cancelled"
<1>1. CASE db'.appts[id] = db.appts[id]
  BY <1>1 DEF OwnedBy
<1>2. CASE db'.appts[id] # db.appts[id]
  <2>1. id \in Rows(db.appts) /\ db.appts[id] \in Appointment
    BY StoredRowType DEF IInv, TypeOK, OwnedBy, Rows
  <2>2. ChangedByItsOwner(id)
    BY <1>2, <2>1, NextIsAny, RowsOnlyAdvance
  <2>3. /\ db'.appts[id] # NoRow
        /\ db'.appts[id].owner = db.appts[id].owner
        /\ db'.appts[id].version = db.appts[id].version + 1
        /\ db.appts[id].status = "confirmed"
    BY <2>2 DEF ChangedByItsOwner
  <2>4. db.appts[id].version \in Nat
    BY <2>1 DEF Appointment
  <2>5. QED
    BY <2>3, <2>4 DEF OwnedBy
<1>3. QED
  BY <1>1, <1>2

-----------------------------------------------------------------------------
(* The history invariant *)

(* The request has taken effect. *)
Done(d, r) ==
  /\ OwnedBy(d, r.id, r.owner)
  /\ d.appts[r.id].version > r.version
  /\ r.op = "cancel" => d.appts[r.id].status = "cancelled"
  /\ r.op = "update" => r.stylist # Ambiguous

TruthOfRetry(op) ==
  IF op = "cancel" THEN {"success", "already_cancelled", "persistence_error"}
  ELSE {"success", "stale_state", "not_modifiable", "persistence_error"}

AtMostOnce(c) ==
  /\ pc[c] = "idle" => effects[c] = 0
  /\ pc[c] # "idle" /\ req[c].op \in {"cancel", "update"} =>
       /\ effects[c] \in {0, 1}
       /\ effects[c] = 1 =>
            /\ Done(db, req[c])
            /\ pc[c] \notin {"writing", "committing"}
            /\ pc[c] = "answering" => reply[c] \in TruthOfRetry(req[c].op)

Told(c) ==
  /\ req[c].op = "create" /\ reply[c] = "success" =>
       rowId[c] \in RowIds /\ OwnedBy(db, rowId[c], req[c].owner)
  /\ req[c].op = "cancel" /\ reply[c] \in {"success", "already_cancelled"} =>
       /\ OwnedBy(db, req[c].id, req[c].owner)
       /\ db.appts[req[c].id].status = "cancelled"
  /\ req[c].op = "update" /\ reply[c] = "success" =>
       /\ OwnedBy(db, req[c].id, req[c].owner)
       /\ db.appts[req[c].id].version > req[c].version

HistoryOK(c) == AtMostOnce(c) /\ (pc[c] = "answering" => Told(c))

HInv ==
  /\ IInv
  /\ \A c \in Clients :
       /\ pc[c] = "idle" => req[c] = NoRequest
       /\ HistoryOK(c)

LEMMA HistoryInit == Init => HInv
<1> SUFFICES ASSUME Init PROVE HInv
  OBVIOUS
<1>1. IInv
  BY InitOK
<1>2. \A c \in Clients : HistoryOK(c)
  BY DEF Init, HistoryOK, AtMostOnce
<1>3. QED
  BY <1>1, <1>2 DEF HInv, Init

LEMMA DoneStays ==
  ASSUME IInv, [Next]_vars, NEW r \in Request, r.op \in {"cancel", "update"},
         Done(db, r)
  PROVE  Done(db', r)
<1>1. r.id \in RowIds /\ r.version \in Nat
  BY ServiceAssumption DEF Request, CreateRequest, CancelRequest, UpdateRequest
<1>2. QED
  BY <1>1, RecordedStays DEF Done

(* A handler that stays where it is keeps its history true. *)
LEMMA BystanderKeeps ==
  ASSUME HInv, [Next]_vars, NEW b \in Clients,
         pc'[b] = pc[b], req'[b] = req[b], rowId'[b] = rowId[b],
         reply'[b] = reply[b], effects'[b] = effects[b]
  PROVE  (pc'[b] = "idle" => req'[b] = NoRequest) /\ HistoryOK(b)'
<1>1. IInv /\ HistoryOK(b) /\ (pc[b] = "idle" => req[b] = NoRequest)
  BY DEF HInv
<1>2. pc[b] # "idle" => req[b] \in Request
  BY <1>1 DEF IInv, HandlerOK
<1>3. AtMostOnce(b)'
  BY <1>1, <1>2, DoneStays DEF HistoryOK, AtMostOnce
<1>4. ASSUME pc[b] = "answering" PROVE Told(b)'
  <2>1. Told(b) /\ req[b] \in Request
    BY <1>1, <1>2, <1>4 DEF HistoryOK
  <2>2. CASE req[b].op = "create"
    BY <1>1, <2>1, <2>2, RecordedStays DEF Told
  <2>3. CASE req[b].op \in {"cancel", "update"}
    <3>1. req[b].id \in RowIds /\ req[b].version \in Nat
      BY <2>1, <2>3, ServiceAssumption
      DEF Request, CreateRequest, CancelRequest, UpdateRequest
    <3>2. QED
      BY <1>1, <2>1, <2>3, <3>1, RecordedStays DEF Told
  <2>4. QED
    BY <2>1, <2>2, <2>3, OpOfRequest
<1>5. QED
  BY <1>1, <1>3, <1>4 DEF HistoryOK

-----------------------------------------------------------------------------
(* The acting handler *)

LEMMA ActorFacts ==
  ASSUME HInv, NEW c \in Clients
  PROVE  /\ IInv
         /\ pc \in [Clients -> Steps]
         /\ reply \in [Clients -> Statuses \cup {"none"}]
         /\ effects \in [Clients -> Nat]
         /\ HistoryOK(c)
         /\ pc[c] = "idle" => req[c] = NoRequest
         /\ pc[c] # "idle" => req[c] \in Request
BY DEF HInv, IInv, TypeOK, HandlerOK

(* A rollback is told truthfully, if the status itself is true. *)
LEMMA RollbackHistory ==
  ASSUME HInv, [Next]_vars, NEW c \in Clients, pc[c] # "idle",
         NEW status \in Statuses \ {"success"}, Rollback(c, status),
         req[c].op = "cancel" /\ status = "already_cancelled" =>
           /\ OwnedBy(db, req[c].id, req[c].owner)
           /\ db.appts[req[c].id].status = "cancelled",
         req[c].op \in {"cancel", "update"} /\ effects[c] = 1 =>
           status \in TruthOfRetry(req[c].op)
  PROVE  (pc'[c] = "idle" => req'[c] = NoRequest) /\ HistoryOK(c)'
<1>1. /\ pc'[c] = "answering" /\ reply'[c] = status
      /\ UNCHANGED <<db, req, rowId, effects, now>>
  BY ActorFacts DEF Rollback, Answer
<1>2. AtMostOnce(c) /\ req[c] \in Request
  BY ActorFacts DEF HistoryOK
<1>3. AtMostOnce(c)'
  BY <1>1, <1>2 DEF AtMostOnce, Done, OwnedBy
<1>4. Told(c)'
  BY <1>1 DEF Told, OwnedBy
<1>5. QED
  BY <1>1, <1>3, <1>4 DEF HistoryOK

(* A move that neither answers nor commits. *)
LEMMA QuietHistory ==
  ASSUME HInv, [Next]_vars, NEW c \in Clients, pc[c] # "idle",
         pc'[c] \notin {"idle", "answering"},
         UNCHANGED <<db, req, effects>>,
         req[c].op \in {"cancel", "update"} /\ effects[c] = 1 =>
           pc'[c] \notin {"writing", "committing"}
  PROVE  (pc'[c] = "idle" => req'[c] = NoRequest) /\ HistoryOK(c)'
<1>1. AtMostOnce(c) /\ req[c] \in Request
  BY ActorFacts DEF HistoryOK
<1>2. AtMostOnce(c)'
  BY <1>1 DEF AtMostOnce, Done, OwnedBy
<1>3. QED
  BY <1>2 DEF HistoryOK

LEMMA CheckHistory ==
  ASSUME HInv, [Next]_vars, NEW c \in Clients, Check(c)
  PROVE  (pc'[c] = "idle" => req'[c] = NoRequest) /\ HistoryOK(c)'
<1> DEFINE r == req[c]
           verdict == Verdict(db, r)
<1>1. /\ pc[c] = "checking"
      /\ r \in Request
      /\ db \in Database
      /\ tx[c] = db
      /\ AtMostOnce(c)
  BY ActorFacts DEF IInv, TypeOK, HandlerOK, HistoryOK, Check
<1>2. r.op \in {"cancel", "update"} /\ effects[c] = 1 =>
        /\ Done(db, r)
        /\ r.version \in Nat /\ db.appts[r.id] \in Appointment
  BY <1>1, OpOfRequest, StoredRowType DEF AtMostOnce, Done, OwnedBy,
     CancelRequest, UpdateRequest
<1>3. CASE verdict = "proceed"
  <2>1. Accepted(db, r)
    BY <1>1, <1>3, ProceedMeansAccepted
  <2>2. ~(r.op \in {"cancel", "update"} /\ effects[c] = 1)
    BY <1>2, <2>1 DEF Accepted, Done, Appointment
  <2>3. pc'[c] = "writing" /\ UNCHANGED <<db, req, effects>>
    BY <1>1, <1>3, ActorFacts DEF Check
  <2>4. QED
    BY <1>1, <2>2, <2>3, QuietHistory
<1>4. CASE verdict # "proceed"
  <2>1. Rollback(c, verdict)
    BY <1>1, <1>4 DEF Check
  <2>2. verdict \in Statuses
    BY <1>1, <1>4, VerdictType
  <2>3. verdict # "success"
    BY <1>1, OpOfRequest DEF Verdict, CreateVerdict, CancelVerdict, UpdateVerdict
  <2>4. ASSUME r.op = "cancel", verdict = "already_cancelled"
        PROVE  OwnedBy(db, r.id, r.owner) /\ db.appts[r.id].status = "cancelled"
    BY <2>4 DEF Verdict, CancelVerdict
  <2>5. ASSUME r.op \in {"cancel", "update"}, effects[c] = 1
        PROVE  verdict \in TruthOfRetry(r.op)
    <3>1. /\ OwnedBy(db, r.id, r.owner)
          /\ db.appts[r.id].version # r.version
          /\ r.op = "cancel" => db.appts[r.id].status = "cancelled"
          /\ r.op = "update" => r.stylist # Ambiguous
      BY <1>2, <2>5 DEF Done, Appointment
    <3>2. CASE r.op = "cancel"
      BY <3>1, <3>2 DEF Verdict, CancelVerdict, TruthOfRetry
    <3>3. CASE r.op = "update"
      BY <3>1, <3>3 DEF Verdict, UpdateVerdict, TruthOfRetry
    <3>4. QED
      BY <2>5, <3>2, <3>3
  <2> HIDE DEF verdict
  <2>6. QED
    BY <1>1, <2>1, <2>2, <2>3, <2>4, <2>5, RollbackHistory
<1>5. QED
  BY <1>3, <1>4

LEMMA CommitHistory ==
  ASSUME HInv, [Next]_vars, NEW c \in Clients, Commit(c)
  PROVE  (pc'[c] = "idle" => req'[c] = NoRequest) /\ HistoryOK(c)'
<1>1. /\ pc[c] = "committing"
      /\ pc'[c] = "answering" /\ reply'[c] = "success"
      /\ req' = req /\ rowId' = rowId
      /\ effects'[c] = effects[c] + 1
      /\ req[c] \in Request
      /\ AtMostOnce(c)
  BY ActorFacts DEF HistoryOK, Commit, Answer
<1>2. IInv
  BY DEF HInv
<1>3. CASE req[c].op = "create"
  <2>1. rowId[c] \in RowIds /\ db'.appts[rowId[c]] \in Appointment
        /\ db'.appts[rowId[c]].owner = req[c].owner
    BY <1>2, <1>3, CommitFacts DEF Target
  <2>2. OwnedBy(db', rowId[c], req[c].owner)
    BY <2>1, ServiceAssumption DEF OwnedBy
  <2>3. QED
    BY <1>1, <1>3, <2>1, <2>2 DEF HistoryOK, AtMostOnce, Told
<1>4. CASE req[c].op \in {"cancel", "update"}
  <2>1. effects[c] = 0
    BY <1>1, <1>4 DEF AtMostOnce
  <2>2. /\ db'.appts[req[c].id] \in Appointment
        /\ db'.appts[req[c].id].owner = req[c].owner
        /\ db'.appts[req[c].id].status =
             IF req[c].op = "cancel" THEN "cancelled" ELSE "confirmed"
        /\ db.appts[req[c].id] \in Appointment
        /\ db.appts[req[c].id].version = req[c].version
        /\ db'.appts[req[c].id].version = db.appts[req[c].id].version + 1
        /\ req[c].op = "update" => req[c].stylist # Ambiguous
    BY <1>2, <1>4, CommitFacts
  <2>3. Done(db', req[c])
    BY <1>4, <2>2, ServiceAssumption DEF Done, OwnedBy, Appointment
  <2>4. AtMostOnce(c)'
    BY <1>1, <1>4, <2>1, <2>3 DEF AtMostOnce, TruthOfRetry
  <2>5. Told(c)'
    BY <1>1, <1>4, <2>3 DEF Told, Done
  <2>6. QED
    BY <1>1, <2>4, <2>5 DEF HistoryOK
<1>5. QED
  BY <1>1, <1>3, <1>4, OpOfRequest

LEMMA ServeHistory ==
  ASSUME HInv, [Next]_vars, NEW c \in Clients, Serve(c)
  PROVE  (pc'[c] = "idle" => req'[c] = NoRequest) /\ HistoryOK(c)'
<1>1. AtMostOnce(c) /\ (pc[c] # "idle" => req[c] \in Request)
  BY ActorFacts DEF HistoryOK
<1>2. ASSUME Rollback(c, "persistence_error"), pc[c] # "idle"
      PROVE  (pc'[c] = "idle" => req'[c] = NoRequest) /\ HistoryOK(c)'
  BY <1>2, RollbackHistory DEF Statuses, TruthOfRetry
<1>3. CASE Begin(c)
  <2>1. pc[c] = "waiting" /\ pc'[c] = "checking" /\ UNCHANGED <<db, req, effects>>
    BY <1>3, ActorFacts DEF Begin, Goto
  <2>2. QED
    BY <2>1, QuietHistory
<1>4. CASE LockTimeout(c)
  BY <1>2, <1>4 DEF LockTimeout
<1>5. CASE Check(c)
  BY <1>5, CheckHistory
<1>6. CASE InsertAppointment(c)
  <2>1. /\ pc[c] = "writing" /\ pc'[c] = "scheduling"
        /\ UNCHANGED <<db, req, effects>>
    BY <1>6, ActorFacts DEF InsertAppointment, Goto
  <2>2. QED
    BY <2>1, QuietHistory
<1>7. CASE InsertSchedule(c)
  <2>1. pc[c] = "scheduling" /\ req[c].op = "create"
    BY <1>7, ActorFacts DEF InsertSchedule, IInv, HandlerOK, HalfCreated
  <2>2. CASE Rollback(c, "schedule_conflict")
    BY <2>1, <2>2, RollbackHistory DEF Statuses
  <2>3. CASE pc' = [pc EXCEPT ![c] = "committing"] /\ UNCHANGED <<db, req, effects>>
    <3>1. pc'[c] = "committing"
      BY <2>3, ActorFacts
    <3>2. QED
      BY <2>1, <2>3, <3>1, QuietHistory
  <2>4. QED
    BY <1>7, <2>2, <2>3 DEF InsertSchedule
<1>8. CASE ApplyCancel(c) \/ ApplyUpdate(c)
  <2>1. pc[c] = "writing" /\ req[c].op \in {"cancel", "update"}
    BY <1>8 DEF ApplyCancel, ApplyUpdate, Goto
  <2>2. effects[c] # 1
    BY <1>1, <2>1 DEF AtMostOnce
  <2>3. CASE Rollback(c, "conflict")
    BY <2>1, <2>2, <2>3, RollbackHistory DEF Statuses
  <2>4. CASE pc' = [pc EXCEPT ![c] = "committing"] /\ UNCHANGED <<db, req, effects>>
    <3>1. pc'[c] = "committing"
      BY <2>4, ActorFacts
    <3>2. QED
      BY <2>1, <2>2, <2>4, <3>1, QuietHistory
  <2>5. QED
    BY <1>8, <2>3, <2>4 DEF ApplyCancel, ApplyUpdate, Goto
<1>9. CASE Commit(c)
  BY <1>9, CommitHistory
<1>10. CASE Fail(c)
  <2>1. pc[c] # "idle"
    BY <1>10, ActorFacts DEF Fail, IInv, HandlerOK, InTx
  <2>2. QED
    BY <1>2, <1>10, <2>1 DEF Fail
<1>11. CASE Deliver(c)
  <2>1. pc'[c] = "idle" /\ req'[c] = NoRequest /\ effects'[c] = 0
    BY <1>11 DEF HInv, IInv, TypeOK, Deliver, Goto, Forget
  <2>2. QED
    BY <2>1 DEF HistoryOK, AtMostOnce
<1>12. QED
  BY <1>3, <1>4, <1>5, <1>6, <1>7, <1>8, <1>9, <1>10, <1>11 DEF Serve

LEMMA EnvironmentHistory ==
  ASSUME HInv, [Next]_vars, NEW c \in Clients, Environment(c)
  PROVE  (pc'[c] = "idle" => req'[c] = NoRequest) /\ HistoryOK(c)'
<1>1. AtMostOnce(c)
  BY ActorFacts DEF HistoryOK
<1>2. ASSUME NEW r \in Requests, Submit(c, r)
      PROVE  HistoryOK(c)' /\ pc'[c] # "idle"
  <2>1. pc[c] = "idle" /\ pc'[c] = "waiting" /\ effects'[c] = effects[c]
    BY <1>2, ActorFacts DEF Submit, Goto
  <2>2. effects[c] = 0
    BY <1>1, <2>1 DEF AtMostOnce
  <2>3. QED
    BY <2>1, <2>2 DEF HistoryOK, AtMostOnce
<1>3. CASE CutOff(c)
  <2>1. pc[c] # "idle" /\ pc'[c] = "cut_off" /\ UNCHANGED <<db, req, effects>>
    BY <1>3, ActorFacts DEF CutOff
  <2>2. QED
    BY <2>1, QuietHistory
<1>4. CASE Retry(c)
  <2>1. pc[c] = "cut_off" /\ pc'[c] = "waiting" /\ UNCHANGED <<db, req, effects>>
    BY <1>4, ActorFacts DEF Retry, Goto
  <2>2. QED
    BY <2>1, QuietHistory
<1>5. CASE GiveUp(c)
  <2>1. pc'[c] = "idle" /\ req'[c] = NoRequest /\ effects'[c] = 0
    BY <1>5 DEF HInv, IInv, TypeOK, GiveUp, Goto, Forget
  <2>2. QED
    BY <2>1 DEF HistoryOK, AtMostOnce
<1>6. QED
  BY <1>2, <1>3, <1>4, <1>5 DEF Environment

LEMMA HistoryStep == HInv /\ [Next]_vars => HInv'
<1> SUFFICES ASSUME HInv, [Next]_vars PROVE HInv'
  OBVIOUS
<1>1. IInv'
  BY NextKeeps DEF HInv
<1>2. CASE Tick \/ UNCHANGED vars
  <2>1. UNCHANGED <<pc, req, rowId, reply, effects>>
    BY <1>2 DEF Tick, vars
  <2>2. \A b \in Clients : (pc'[b] = "idle" => req'[b] = NoRequest) /\ HistoryOK(b)'
    BY <2>1, BystanderKeeps
  <2>3. QED
    BY <1>1, <2>2 DEF HInv
<1>3. ASSUME NEW c \in Clients, Serve(c) \/ Environment(c)
      PROVE  HInv'
  <2>1. (pc'[c] = "idle" => req'[c] = NoRequest) /\ HistoryOK(c)'
    BY <1>3, ServeHistory, EnvironmentHistory
  <2>2. \A b \in Clients \ {c} :
          (pc'[b] = "idle" => req'[b] = NoRequest) /\ HistoryOK(b)'
    BY <1>3, StepIsAny, OthersWait, BystanderKeeps DEF HInv
  <2>3. QED
    BY <1>1, <2>1, <2>2 DEF HInv
<1>4. QED
  BY <1>2, <1>3 DEF Next

THEOREM HistoryHolds == Spec => []HInv
BY HistoryInit, HistoryStep, PTL DEF Spec

(* Sending a cancel or an update again after a lost answer never applies   *)
(* it twice, and never earns an answer that contradicts its success.       *)
THEOREM RetriesNeverRepeat == Spec => []RetriesAreSafe
<1>1. HInv => RetriesAreSafe
  BY DEF HInv, HistoryOK, AtMostOnce, TruthOfRetry, RetriesAreSafe
<1>2. QED
  BY <1>1, HistoryHolds, PTL

(* A success that a client is told of is in the database when it is told.  *)
THEOREM AnswersAreTrue == Spec => []AnswersAreDurable
<1>1. HInv => AnswersAreDurable
  BY DEF HInv, HistoryOK, Told, AnswersAreDurable
<1>2. QED
  BY <1>1, HistoryHolds, PTL

-----------------------------------------------------------------------------
(* What the salon has agreed to serve *)

(* A whole number of days between two instants shows in their difference.  *)
LEMMA DaysAreApart ==
  ASSUME NEW n \in Nat, NEW p \in Nat, NEW q \in Nat, p < q
  PROVE  p * n + n <= q * n
<1>1. PICK r \in Nat : q = p + 1 + r
  <2>1. q - p - 1 \in Nat /\ q = p + 1 + (q - p - 1)
    OBVIOUS
  <2>2. QED
    BY <2>1
<1>2. q * n = p * n + n + r * n
  BY <1>1
<1>3. r * n \in Nat
  OBVIOUS
<1>4. p * n \in Nat
  OBVIOUS
<1>5. QED
  BY <1>2, <1>3, <1>4

LEMMA InstantOfDay ==
  ASSUME NEW t \in Nat
  PROVE  /\ DayOf(t) \in Nat /\ TimeOf(t) \in 0 .. (DayLength - 1)
         /\ t = DayOf(t) * DayLength + TimeOf(t)
BY CatalogAssumption DEF DayOf, TimeOf

(* An instant between two instants of one day is between their times.      *)
LEMMA BetweenInADay ==
  ASSUME NEW s \in Nat, NEW m \in Nat, NEW e \in Nat, s <= m, m < e,
         DayOf(s) = DayOf(e)
  PROVE  TimeOf(s) <= TimeOf(m) /\ TimeOf(m) < TimeOf(e)
<1> DEFINE D == DayLength
           p == DayOf(s)
           q == DayOf(m)
           ts == TimeOf(s)
           tm == TimeOf(m)
           te == TimeOf(e)
<1>1. /\ D \in Nat /\ p \in Nat /\ q \in Nat
      /\ ts \in 0 .. (D - 1) /\ tm \in 0 .. (D - 1) /\ te \in 0 .. (D - 1)
      /\ s = p * D + ts /\ m = q * D + tm /\ e = p * D + te
  BY InstantOfDay, CatalogAssumption
<1> HIDE DEF D, p, q, ts, tm, te
<1> DEFINE pD == p * D
           qD == q * D
<1>2. pD \in Nat /\ qD \in Nat /\ s = pD + ts /\ m = qD + tm /\ e = pD + te
  BY <1>1
<1>3. (p < q => pD + D <= qD) /\ (q < p => qD + D <= pD)
  BY <1>1, DaysAreApart
<1>4. p = q => pD = qD
  OBVIOUS
<1> HIDE DEF pD, qD
<1>5. p = q
  BY <1>1, <1>2, <1>3
<1>6. QED
  BY <1>1, <1>2, <1>4, <1>5 DEF ts, tm, te

LEMMA MinuteCloses ==
  ASSUME NEW t \in Nat, ToTheMinute(t) <= CloseAt
  PROVE  t < CloseAt + Minute
<1>1. /\ Minute \in Nat /\ Minute > 0 /\ CloseAt \in Nat
  BY CatalogAssumption
<1>2. t = Minute * (t \div Minute) + (t % Minute) /\ (t % Minute) \in 0 .. (Minute - 1)
  BY <1>1
<1>3. (t \div Minute) * Minute = Minute * (t \div Minute) /\ (t \div Minute) * Minute \in Nat
  BY <1>1
<1>4. QED
  BY <1>1, <1>2, <1>3 DEF ToTheMinute

(* Whole minutes *)

Whole(t) == \E k \in Nat : t = k * Minute

LEMMA WholeSum ==
  ASSUME NEW s \in Nat, NEW t \in Nat, Whole(s), Whole(t)
  PROVE  Whole(s + t)
<1>1. PICK j \in Nat : s = j * Minute
  BY DEF Whole
<1>2. PICK k \in Nat : t = k * Minute
  BY DEF Whole
<1>3. s + t = (j + k) * Minute /\ j + k \in Nat
  BY <1>1, <1>2, CatalogAssumption
<1>4. QED
  BY <1>3 DEF Whole

LEMMA WholeDays ==
  ASSUME Whole(DayLength), NEW day \in Nat
  PROVE  Whole(day * DayLength)
<1>1. PICK k \in Nat : DayLength = k * Minute
  BY DEF Whole
<1>2. day * DayLength = (day * k) * Minute /\ day * k \in Nat
  BY <1>1, CatalogAssumption
<1>3. QED
  BY <1>2 DEF Whole

LEMMA WholeTimeOfDay ==
  ASSUME Whole(DayLength), NEW t \in Nat, Whole(t)
  PROVE  Whole(TimeOf(t))
<1>1. Minute \in Nat /\ Minute > 0
  BY CatalogAssumption
<1>2. DayOf(t) \in Nat /\ TimeOf(t) \in Nat /\ t = DayOf(t) * DayLength + TimeOf(t)
  BY InstantOfDay, CatalogAssumption
<1>3. PICK j \in Nat : t = j * Minute
  BY DEF Whole
<1>4. PICK k \in Nat : DayOf(t) * DayLength = k * Minute
  BY <1>2, WholeDays DEF Whole
<1>5. j * Minute = k * Minute + TimeOf(t)
  BY <1>2, <1>3, <1>4
<1>6. k <= j
  <2>1. SUFFICES ASSUME j < k PROVE FALSE
    OBVIOUS
  <2>2. j * Minute + Minute <= k * Minute
    BY <1>1, <2>1, DaysAreApart
  <2>3. j * Minute \in Nat /\ k * Minute \in Nat
    BY <1>1
  <2>4. QED
    BY <1>1, <1>2, <1>5, <2>2, <2>3
<1>7. j - k \in Nat
  BY <1>6
<1>8. (j - k) * Minute = j * Minute - k * Minute /\ k * Minute \in Nat
  BY <1>1
<1>9. TimeOf(t) = (j - k) * Minute
  BY <1>1, <1>2, <1>5, <1>8
<1>10. QED
  BY <1>7, <1>9 DEF Whole

LEMMA WholeIsRounded ==
  ASSUME NEW t \in Nat, Whole(t)
  PROVE  ToTheMinute(t) = t
<1>1. Minute \in Nat /\ Minute > 0
  BY CatalogAssumption
<1>2. PICK k \in Nat : t = k * Minute
  BY DEF Whole
<1> DEFINE q == t \div Minute
           r == t % Minute
<1>3. q \in Nat /\ r \in 0 .. (Minute - 1) /\ t = Minute * q + r
  BY <1>1
<1>4. q * Minute = Minute * q /\ q * Minute \in Nat /\ k * Minute \in Nat
  BY <1>1, <1>3
<1> HIDE DEF q, r
<1>5. k * Minute = q * Minute + r
  BY <1>2, <1>3, <1>4
<1>6. (k < q => k * Minute + Minute <= q * Minute) /\ (q < k => q * Minute + Minute <= k * Minute)
  BY <1>1, <1>3, DaysAreApart
<1>7. k = q
  BY <1>1, <1>3, <1>4, <1>5, <1>6
<1>8. QED
  BY <1>2, <1>7 DEF ToTheMinute, q

LEMMA RoundedIsWhole ==
  ASSUME NEW t \in Nat
  PROVE  Whole(ToTheMinute(t))
<1>1. t \div Minute \in Nat
  BY CatalogAssumption
<1>2. QED
  BY <1>1 DEF Whole, ToTheMinute

-----------------------------------------------------------------------------
(* A booking as the checks let it pass *)

(* Nobody asks for a time with seconds in it. *)
NoSecondsAsked ==
  /\ Whole(DayLength)
  /\ \A s \in Services : Whole(Duration[s])
  /\ \A r \in Requests :
       /\ r.op = "create" => Whole(r.start)
       /\ r.op = "update" => r.time = Keep \/ Whole(r.time)

Served(row) ==
  /\ row.service \in Supported[row.stylist]
  /\ row.end = EndOf(row.start, row.service)
  /\ WithinBusinessHours(row.start, row.end)
  /\ NoSecondsAsked => Whole(row.start)

AllServed(d) == \A id \in Confirmed(d) : Served(d.appts[id])

(* The salon is open, or closes at this very minute. *)
OpenOrClosing(m) == OpenAt <= TimeOf(m) /\ TimeOf(m) < CloseAt + Minute - 1

LEMMA ServedIsOpen ==
  ASSUME NEW row \in Appointment, Served(row), NEW m \in row.start .. (row.end - 1)
  PROVE  OpenOrClosing(m) /\ (NoSecondsAsked => SalonIsOpen(m))
<1>1. row.start \in Nat /\ row.end \in Nat /\ m \in Nat /\ row.start <= m /\ m < row.end
  BY DEF Appointment
<1>2. /\ DayOf(row.start) = DayOf(row.end)
      /\ OpenAt <= TimeOf(row.start)
      /\ ToTheMinute(TimeOf(row.end)) <= CloseAt
  BY DEF Served, WithinBusinessHours
<1>3. TimeOf(row.start) <= TimeOf(m) /\ TimeOf(m) < TimeOf(row.end)
  BY <1>1, <1>2, BetweenInADay
<1>4. TimeOf(row.start) \in Nat /\ TimeOf(m) \in Nat /\ TimeOf(row.end) \in Nat
  BY <1>1, TimeIsNatural
<1>5. TimeOf(row.end) < CloseAt + Minute
  BY <1>2, <1>4, MinuteCloses
<1>6. OpenAt \in Nat /\ CloseAt \in Nat /\ Minute \in Nat
  BY CatalogAssumption
<1>7. OpenOrClosing(m)
  BY <1>2, <1>3, <1>4, <1>5, <1>6 DEF OpenOrClosing
<1>8. ASSUME NoSecondsAsked PROVE SalonIsOpen(m)
  <2>1. Whole(row.start) /\ Whole(Duration[row.service]) /\ Whole(DayLength)
    BY <1>8 DEF Served, NoSecondsAsked, Appointment
  <2>2. Duration[row.service] \in Nat /\ row.end = row.start + Duration[row.service]
    BY CatalogAssumption DEF Served, EndOf, Appointment
  <2>3. Whole(TimeOf(row.end))
    BY <1>1, <2>1, <2>2, WholeSum, WholeTimeOfDay
  <2>4. TimeOf(row.end) <= CloseAt
    BY <1>2, <1>4, <2>3, WholeIsRounded
  <2>5. QED
    BY <1>2, <1>3, <1>4, <1>6, <2>4 DEF SalonIsOpen
<1>9. QED
  BY <1>7, <1>8

(* What the handler is about to write is a booking that can be served. *)
Planned(d, r) ==
  /\ r.op = "create" => Served(NewAppointment(r))
  /\ r.op = "update" => Served(UpdatedAppointment(d, r))

LEMMA CreateIsPlanned ==
  ASSUME NEW d \in Database, NEW r \in Requests, r.op = "create",
         CreateVerdict(d, r) = "proceed"
  PROVE  Served(NewAppointment(r))
<1> DEFINE row == NewAppointment(r)
<1>1. /\ WithinBusinessHours(r.start, r.end)
      /\ r.end = EndOf(r.start, r.service)
      /\ r.service \in Supported[r.stylist]
  BY DEF CreateVerdict
<1>2. /\ row.stylist = r.stylist /\ row.service = r.service
      /\ row.start = r.start /\ row.end = r.end
  BY DEF NewAppointment
<1> HIDE DEF row
<1>3. NoSecondsAsked => Whole(row.start)
  BY <1>2 DEF NoSecondsAsked
<1>4. QED
  BY <1>1, <1>2, <1>3 DEF Served, row

LEMMA UpdateIsPlanned ==
  ASSUME NEW d \in Database, NEW r \in Requests, r.op = "update",
         UpdateVerdict(d, r) = "proceed"
  PROVE  Served(UpdatedAppointment(d, r))
<1> DEFINE old == d.appts[r.id]
           new == Proposal(d, r)
           row == UpdatedAppointment(d, r)
           day == Pick(r.day, DayOf(old.start))
           time == Pick(r.time, ToTheMinute(TimeOf(old.start)))
<1>1. /\ OwnedBy(d, r.id, r.owner)
      /\ Pick(r.service, old.service) \in Services
      /\ Pick(r.stylist, old.stylist) \in Stylists
      /\ new.service \in Supported[new.stylist]
      /\ WithinBusinessHours(new.start, new.end)
  BY DEF UpdateVerdict
<1>2. r \in UpdateRequest /\ old \in Appointment
  BY <1>1, OpOfRequest, ServiceAssumption, StoredRowType DEF OwnedBy
<1>3. new \in Appointment
  BY <1>1, <1>2, ProposalType DEF OwnedBy
<1>4. new.end = EndOf(new.start, new.service) /\ new.start = At(day, time)
  BY DEF Proposal
<1>5. /\ row.stylist = new.stylist /\ row.service = new.service
      /\ row.start = new.start /\ row.end = new.end
  BY <1>3, NextVersionType DEF UpdatedAppointment
<1>6. old.start \in Nat
  BY <1>2 DEF Appointment
<1>7. DayOf(old.start) \in Nat /\ ToTheMinute(TimeOf(old.start)) \in Nat
  BY <1>6, TimeIsNatural
<1>8. day \in Nat /\ time \in Nat
  BY <1>2, <1>7 DEF Pick, UpdateRequest
<1>9. ASSUME NoSecondsAsked PROVE Whole(new.start)
  <2>1. Whole(time)
    <3>1. Whole(ToTheMinute(TimeOf(old.start)))
      BY <1>6, TimeIsNatural, RoundedIsWhole
    <3>2. r.time = Keep \/ Whole(r.time)
      BY <1>9 DEF NoSecondsAsked
    <3>3. QED
      BY <3>1, <3>2 DEF Pick
  <2> HIDE DEF time, day
  <2>2. Whole(day * DayLength) /\ day * DayLength \in Nat
    BY <1>8, <1>9, WholeDays, CatalogAssumption DEF NoSecondsAsked
  <2>3. QED
    BY <1>4, <1>8, <2>1, <2>2, WholeSum DEF At
<1> HIDE DEF new, row
<1>10. QED
  BY <1>1, <1>4, <1>5, <1>9 DEF Served, row

LEMMA ProceedIsPlanned ==
  ASSUME NEW d \in Database, NEW r \in Requests, Verdict(d, r) = "proceed"
  PROVE  Planned(d, r)
<1>1. r.op = "create" => CreateVerdict(d, r) = "proceed"
  BY DEF Verdict
<1>2. r.op = "update" => UpdateVerdict(d, r) = "proceed"
  BY DEF Verdict
<1>3. QED
  BY <1>1, <1>2, CreateIsPlanned, UpdateIsPlanned DEF Planned

(* One row replaced: what was served is, if the new row is. *)
LEMMA WriteKeepsServed ==
  ASSUME NEW d \in Database, AllServed(d), NEW id \in RowIds, NEW row \in Appointment,
         row.status = "confirmed" => Served(row),
         NEW e, e.appts = [d.appts EXCEPT ![id] = row]
  PROVE  AllServed(e)
<1>1. d.appts \in [RowIds -> Appointment \cup {NoRow}]
  BY DEF Database
<1>2. e.appts[id] = row /\ \A other \in RowIds \ {id} : e.appts[other] = d.appts[other]
  BY <1>1
<1>3. \A other \in RowIds : other # id /\ other \in Confirmed(e) => other \in Confirmed(d)
  BY <1>2 DEF Confirmed, Rows
<1>4. id \in Confirmed(e) => row.status = "confirmed"
  BY <1>2 DEF Confirmed
<1>5. QED
  BY <1>2, <1>3, <1>4 DEF AllServed, Confirmed, Rows

-----------------------------------------------------------------------------
(* The invariant of served bookings: of the tables, and of every image     *)

Asked(c) == pc[c] # "idle" => req[c] \in Requests

ServiceOK(c) ==
  /\ tx[c] # NoTx => AllServed(tx[c])
  /\ pc[c] = "writing" => Planned(tx[c], req[c])

SInv ==
  /\ IInv
  /\ AllServed(db)
  /\ \A c \in Clients : Asked(c) /\ ServiceOK(c)

LEMMA ServedInit == Init => SInv
<1> SUFFICES ASSUME Init PROVE SInv
  OBVIOUS
<1>1. IInv
  BY InitOK
<1>2. Confirmed(db) = {}
  BY DEF Init, Confirmed, Rows
<1>3. QED
  BY <1>1, <1>2 DEF SInv, AllServed, Asked, ServiceOK, Init

LEMMA AskedStep ==
  ASSUME SInv, [Next]_vars, NEW c \in Clients
  PROVE  Asked(c)'
<1>1. IInv /\ Asked(c)
  BY DEF SInv
<1>2. CASE pc'[c] = pc[c] /\ req'[c] = req[c]
  BY <1>1, <1>2 DEF Asked
<1>3. CASE \E r \in Requests : Submit(c, r)
  BY <1>1, <1>3 DEF IInv, TypeOK, Submit, Asked
<1>4. CASE req' = req /\ pc[c] # "idle"
  BY <1>1, <1>4 DEF Asked
<1>5. CASE pc'[c] = "idle"
  BY <1>5 DEF Asked
<1>6. CASE Tick \/ UNCHANGED vars
  BY <1>2, <1>6 DEF Tick, vars
<1>7. CASE Serve(c) \/ Environment(c)
  <2>1. CASE Begin(c) \/ Check(c) \/ LockTimeout(c) \/ Commit(c) \/ Fail(c)
    BY <1>4, <2>1 DEF Begin, Check, LockTimeout, Commit, Fail, Rollback, Goto
  <2>2. CASE \/ InsertAppointment(c) \/ InsertSchedule(c)
             \/ ApplyCancel(c) \/ ApplyUpdate(c)
    BY <1>4, <2>2
    DEF InsertAppointment, InsertSchedule, ApplyCancel, ApplyUpdate, Rollback, Goto
  <2>3. CASE Deliver(c) \/ GiveUp(c)
    BY <1>1, <1>5, <2>3 DEF IInv, TypeOK, Deliver, GiveUp, Goto
  <2>4. CASE CutOff(c) \/ Retry(c)
    BY <1>4, <2>4 DEF CutOff, Retry, Goto
  <2>5. QED
    BY <1>3, <1>7, <2>1, <2>2, <2>3, <2>4 DEF Serve, Environment
<1>8. ASSUME NEW b \in Clients, b # c, Serve(b) \/ Environment(b)
      PROVE  Asked(c)'
  BY <1>1, <1>2, <1>8, StepIsAny, OthersWait
<1>9. QED
  BY <1>6, <1>7, <1>8 DEF Next

(* The handler's own image, step by step. *)
LEMMA RollbackServed ==
  ASSUME SInv, NEW c \in Clients, NEW status, Rollback(c, status)
  PROVE  AllServed(db') /\ ServiceOK(c)'
<1>1. tx'[c] = NoTx /\ pc'[c] = "answering" /\ db' = db
  BY DEF SInv, IInv, TypeOK, Rollback, Answer
<1>2. QED
  BY <1>1 DEF SInv, ServiceOK

LEMMA CheckServed ==
  ASSUME SInv, NEW c \in Clients, Check(c)
  PROVE  AllServed(db') /\ ServiceOK(c)'
<1>1. /\ pc[c] = "checking"
      /\ tx[c] \in Database
      /\ req[c] \in Requests
      /\ AllServed(tx[c])
  <2>1. pc[c] = "checking"
    BY DEF Check
  <2>2. tx[c] \in Database /\ req[c] \in Requests
    BY <2>1, InTxFacts DEF SInv, InTx, Asked
  <2>3. QED
    BY <2>1, <2>2, ServiceAssumption DEF SInv, ServiceOK
<1>2. CASE Verdict(tx[c], req[c]) = "proceed"
  <2>1. tx' = tx /\ db' = db /\ req' = req
    BY <1>2 DEF Check
  <2>2. Planned(tx[c], req[c])
    BY <1>1, <1>2, ProceedIsPlanned
  <2>3. QED
    BY <1>1, <2>1, <2>2 DEF SInv, ServiceOK
<1>3. CASE Verdict(tx[c], req[c]) # "proceed"
  BY <1>3, RollbackServed DEF Check
<1>4. QED
  BY <1>2, <1>3

LEMMA WriterFacts ==
  ASSUME SInv, NEW c \in Clients, pc[c] \in {"writing", "scheduling", "committing"}
  PROVE  /\ tx[c] \in Database
         /\ req[c] \in Request
         /\ AllServed(tx[c])
         /\ pc[c] = "writing" =>
              /\ tx[c] = db
              /\ db \in Database
              /\ Consistent(db)
              /\ Accepted(db, req[c])
              /\ Planned(db, req[c])
<1>1. tx[c] \in Database /\ req[c] \in Request
  BY InTxFacts DEF SInv, InTx
<1>2. AllServed(tx[c]) /\ (pc[c] = "writing" => Planned(tx[c], req[c]))
  BY <1>1, ServiceAssumption DEF SInv, ServiceOK
<1>3. pc[c] = "writing" => tx[c] = db /\ Accepted(db, req[c])
  BY DEF SInv, IInv, HandlerOK
<1>4. QED
  BY <1>1, <1>2, <1>3 DEF SInv, IInv, TypeOK

LEMMA InsertAppointmentServed ==
  ASSUME SInv, NEW c \in Clients, InsertAppointment(c)
  PROVE  AllServed(db') /\ ServiceOK(c)'
<1> DEFINE row == NewAppointment(req[c])
<1>1. /\ pc[c] = "writing" /\ req[c].op = "create"
      /\ pc'[c] = "scheduling" /\ db' = db
  BY DEF InsertAppointment, Goto, SInv, IInv, TypeOK
<1>2. PICK id \in RowIds : tx'[c] = PutAppointment(tx[c], id, row)
  BY DEF InsertAppointment, SInv, IInv, TypeOK
<1>3. /\ row \in Appointment /\ Served(row)
      /\ tx[c] \in Database /\ AllServed(tx[c])
  BY <1>1, WriterFacts, CreateWrites DEF Planned
<1> HIDE DEF row
<1>4. tx'[c].appts = [tx[c].appts EXCEPT ![id] = row]
  BY <1>2, <1>3, PutAppointmentType
<1>5. AllServed(tx'[c])
  BY <1>3, <1>4, WriteKeepsServed
<1>6. QED
  BY <1>1, <1>5 DEF SInv, ServiceOK

LEMMA InsertScheduleServed ==
  ASSUME SInv, NEW c \in Clients, InsertSchedule(c)
  PROVE  AllServed(db') /\ ServiceOK(c)'
<1>1. pc[c] = "scheduling"
  BY DEF InsertSchedule
<1>2. CASE Rollback(c, "schedule_conflict")
  BY <1>2, RollbackServed
<1>3. CASE ~Rollback(c, "schedule_conflict")
  <2>1. PICK k \in RowIds :
          tx'[c] = PutSchedule(tx[c], k, NewSchedule(rowId[c], tx[c].appts[rowId[c]]))
    BY <1>3 DEF InsertSchedule, SInv, IInv, TypeOK
  <2>2. pc'[c] = "committing" /\ db' = db
    BY <1>3 DEF InsertSchedule, SInv, IInv, TypeOK
  <2>3. tx[c] \in Database /\ AllServed(tx[c])
    BY <1>1, WriterFacts
  <2>4. tx'[c].appts = tx[c].appts
    BY <2>1, <2>3 DEF PutSchedule, Database
  <2>5. AllServed(tx'[c])
    BY <2>3, <2>4 DEF AllServed, Confirmed, Rows
  <2>6. QED
    BY <2>2, <2>5 DEF SInv, ServiceOK
<1>4. QED
  BY <1>2, <1>3

LEMMA ApplyCancelServed ==
  ASSUME SInv, NEW c \in Clients, ApplyCancel(c)
  PROVE  AllServed(db') /\ ServiceOK(c)'
<1> DEFINE id == req[c].id
           new == CancelledAppointment(db.appts[id])
<1>1. /\ pc[c] = "writing" /\ req[c].op = "cancel"
      /\ pc'[c] = "committing" /\ db' = db
  BY DEF ApplyCancel, Goto, SInv, IInv, TypeOK
<1>2. tx'[c] = CancelImage(tx[c], id)
  BY DEF ApplyCancel, CancelImage, SInv, IInv, TypeOK
<1>3. /\ db \in Database /\ AllServed(db) /\ id \in RowIds /\ tx[c] = db
      /\ new \in Appointment /\ new.status = "cancelled"
      /\ tx'[c].appts = [db.appts EXCEPT ![id] = new]
  BY <1>1, <1>2, WriterFacts, CancelWrites, OpOfRequest
<1> HIDE DEF id, new
<1>4. AllServed(tx'[c])
  BY <1>3, WriteKeepsServed
<1>5. QED
  BY <1>1, <1>4 DEF SInv, ServiceOK

LEMMA ApplyUpdateServed ==
  ASSUME SInv, NEW c \in Clients, ApplyUpdate(c)
  PROVE  AllServed(db') /\ ServiceOK(c)'
<1> DEFINE r == req[c]
           id == r.id
           new == UpdatedAppointment(db, r)
<1>1. pc[c] = "writing" /\ r.op = "update"
  BY DEF ApplyUpdate
<1>2. tx[c] = db /\ Consistent(db) /\ Accepted(db, r) /\ db \in Database /\ r \in Request
  BY <1>1, WriterFacts
<1>3. CASE Rollback(c, "conflict")
  BY <1>3, RollbackServed
<1>4. CASE ~Rollback(c, "conflict")
  <2>1. /\ ~UpdateAborts(db, r)
        /\ tx'[c] = UpdateImage(db, r)
        /\ pc'[c] = "committing" /\ db' = db
    BY <1>2, <1>4 DEF ApplyUpdate, UpdateAborts, UpdateImage, SInv, IInv, TypeOK
  <2>2. /\ AllServed(db) /\ id \in RowIds
        /\ new \in Appointment /\ Served(new)
        /\ tx'[c].appts = [db.appts EXCEPT ![id] = new]
    BY <1>1, <1>2, <2>1, WriterFacts, UpdateWrites, OpOfRequest DEF Planned
  <2> HIDE DEF id, new
  <2>3. AllServed(tx'[c])
    BY <1>2, <2>2, WriteKeepsServed
  <2>4. QED
    BY <2>1, <2>3 DEF SInv, ServiceOK
<1>5. QED
  BY <1>3, <1>4

LEMMA ServeKeepsServed ==
  ASSUME SInv, NEW c \in Clients, Serve(c)
  PROVE  AllServed(db') /\ ServiceOK(c)'
<1>1. CASE Begin(c)
  <2>1. tx'[c] = db /\ pc'[c] = "checking" /\ db' = db
    BY <1>1 DEF Begin, Goto, SInv, IInv, TypeOK
  <2>2. QED
    BY <2>1 DEF SInv, ServiceOK
<1>2. CASE LockTimeout(c) \/ Fail(c)
  BY <1>2, RollbackServed DEF LockTimeout, Fail
<1>3. CASE Check(c)
  BY <1>3, CheckServed
<1>4. CASE InsertAppointment(c)
  BY <1>4, InsertAppointmentServed
<1>5. CASE InsertSchedule(c)
  BY <1>5, InsertScheduleServed
<1>6. CASE ApplyCancel(c)
  BY <1>6, ApplyCancelServed
<1>7. CASE ApplyUpdate(c)
  BY <1>7, ApplyUpdateServed
<1>8. CASE Commit(c)
  <2>1. pc[c] = "committing" /\ db' = tx[c] /\ tx'[c] = NoTx /\ pc'[c] = "answering"
    BY <1>8 DEF Commit, Answer, SInv, IInv, TypeOK
  <2>2. QED
    BY <2>1, WriterFacts DEF ServiceOK
<1>9. CASE Deliver(c)
  <2>1. tx' = tx /\ db' = db /\ pc'[c] = "idle"
    BY <1>9 DEF Deliver, Goto, SInv, IInv, TypeOK
  <2>2. QED
    BY <2>1 DEF SInv, ServiceOK
<1>10. QED
  BY <1>1, <1>2, <1>3, <1>4, <1>5, <1>6, <1>7, <1>8, <1>9 DEF Serve

LEMMA EnvironmentKeepsServed ==
  ASSUME SInv, NEW c \in Clients, Environment(c)
  PROVE  AllServed(db') /\ ServiceOK(c)'
<1>1. db' = db /\ pc'[c] \in {"waiting", "idle", "cut_off"} /\ tx'[c] \in {tx[c], NoTx}
  BY DEF Environment, Submit, CutOff, Retry, GiveUp, Goto, SInv, IInv, TypeOK
<1>2. QED
  BY <1>1 DEF SInv, ServiceOK

LEMMA ServedStep == SInv /\ [Next]_vars => SInv'
<1> SUFFICES ASSUME SInv, [Next]_vars PROVE SInv'
  OBVIOUS
<1>1. IInv'
  BY NextKeeps DEF SInv
<1>0. \A b \in Clients : Asked(b)'
  BY AskedStep
<1>2. CASE Tick \/ UNCHANGED vars
  <2>1. db' = db /\ tx' = tx /\ pc' = pc /\ req' = req
    BY <1>2 DEF Tick, vars
  <2>2. \A b \in Clients : ServiceOK(b)'
    BY <2>1 DEF SInv, ServiceOK
  <2>3. QED
    BY <1>1, <1>0, <2>1, <2>2 DEF SInv
<1>3. ASSUME NEW c \in Clients, Serve(c) \/ Environment(c)
      PROVE  SInv'
  <2>1. AllServed(db') /\ ServiceOK(c)'
    BY <1>3, ServeKeepsServed, EnvironmentKeepsServed
  <2>2. ASSUME NEW b \in Clients \ {c} PROVE ServiceOK(b)'
    <3>1. tx'[b] = tx[b] /\ pc'[b] = pc[b] /\ req'[b] = req[b]
      BY <1>3, StepIsAny, OthersWait DEF SInv
    <3>2. QED
      BY <3>1 DEF SInv, ServiceOK
  <2>3. QED
    BY <1>1, <1>0, <2>1, <2>2 DEF SInv
<1>4. QED
  BY <1>2, <1>3 DEF Next

THEOREM ServedInvariantHolds == Spec => []SInv
BY ServedInit, ServedStep, PTL DEF Spec

LEMMA ServedMeans ==
  ASSUME SInv, NEW id \in Confirmed(db)
  PROVE  LET row == db.appts[id] IN
         /\ row.service \in Supported[row.stylist]
         /\ row.end - row.start = Duration[row.service]
         /\ \A m \in row.start .. (row.end - 1) :
              OpenOrClosing(m) /\ (NoSecondsAsked => SalonIsOpen(m))
<1> DEFINE row == db.appts[id]
<1>1. row \in Appointment /\ Served(row)
  BY StoredRowType DEF SInv, IInv, TypeOK, AllServed, Confirmed, Rows
<1>2. row.start \in Nat /\ Duration[row.service] \in Nat
  BY <1>1, CatalogAssumption DEF Appointment
<1> HIDE DEF row
<1>3. row.end - row.start = Duration[row.service]
  BY <1>1, <1>2 DEF Served, EndOf
<1>4. QED
  BY <1>1, <1>3, ServedIsOpen DEF Served, row

(* Whatever the clients ask for, seconds included, a stored booking is for *)
(* a service its stylist performs, takes its standard duration, begins at  *)
(* or after opening, and is over, on the same day, before the minute of    *)
(* closing is: the seconds of is_within_business_hours cost no more.       *)
ServableToTheMinute ==
  \A id \in Confirmed(db) :
    LET row == db.appts[id] IN
    /\ row.service \in Supported[row.stylist]
    /\ row.end - row.start = Duration[row.service]
    /\ \A m \in row.start .. (row.end - 1) : OpenOrClosing(m)

THEOREM BookingsEndByTheMinute == Spec => []ServableToTheMinute
<1>1. SInv => ServableToTheMinute
  BY ServedMeans DEF ServableToTheMinute
<1>2. QED
  BY <1>1, ServedInvariantHolds, PTL

(* The seconds are all that is wrong: as long as nobody asks for a time    *)
(* with seconds in it, the salon can serve every booking that is stored.   *)
THEOREM WholeBookingsAreServable ==
  ASSUME NoSecondsAsked
  PROVE  Spec => []BookingsAreServable
<1>1. SInv => BookingsAreServable
  BY ServedMeans DEF BookingsAreServable
<1>2. QED
  BY <1>1, ServedInvariantHolds, PTL
=============================================================================
