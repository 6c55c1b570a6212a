------------------------- MODULE AppointmentService -------------------------
(***************************************************************************)
(* The booking transactions of services/appointment_service.py over the    *)
(* SQLite tables appointments and stylist_schedules.  Any number of        *)
(* clients submit create, cancel and update requests; each request runs in *)
(* a BEGIN IMMEDIATE transaction: it waits for the one write lock, checks  *)
(* its request against a private image of the database, writes the image,  *)
(* and installs it with COMMIT or drops it with ROLLBACK.  A process may   *)
(* die at any step, a statement may fail at any step, waiting for the lock *)
(* may time out, the answer may get lost, and a client that heard nothing  *)
(* may send the same request again.                                        *)
(***************************************************************************)
EXTENDS SalonCatalog

CONSTANTS
  Clients,   \* HTTP or chat handlers, in any number of processes
  Owners,    \* account ids and guest ids that own appointments
  RowIds,    \* primary keys, of either table
  Requests,  \* what the clients may ask for
  Horizon,   \* bound on the clock
  NoRow,     \* a primary key that is not in the table
  NoTx,      \* a client with no open transaction
  NoRequest, \* a client that has asked for nothing yet
  Keep,      \* an update's field that is left as it was
  Ambiguous, \* a stylist given both by id and by name
  Unknown,   \* a stylist or a service that does not exist
  Released   \* how the abstract book shows a cancelled appointment

StylistRefs == Stylists \cup {Keep, Ambiguous, Unknown}
ServiceRefs == Services \cup {Keep, Unknown}

CreateRequest == [op: {"create"}, owner: Owners, stylist: Stylists \cup {Unknown},
                  service: Services \cup {Unknown}, start: Nat, end: Nat]
CancelRequest == [op: {"cancel"}, owner: Owners, id: RowIds, version: Nat]
UpdateRequest == [op: {"update"}, owner: Owners, id: RowIds, version: Nat,
                  stylist: StylistRefs, service: ServiceRefs,
                  day: Nat \cup {Keep}, time: Nat \cup {Keep}]
Request == CreateRequest \cup CancelRequest \cup UpdateRequest

Appointment == [owner: Owners, stylist: Stylists, service: Services,
                start: Nat, end: Nat,
                status: {"confirmed", "cancelled"}, version: Nat \ {0}]
Schedule == [appt: RowIds, stylist: Stylists, start: Nat, end: Nat,
             status: {"busy", "cancelled"}]
Claims == [owner: Owners, stylist: Stylists, start: Nat, end: Nat]
Database == [appts: [RowIds -> Appointment \cup {NoRow}],
             scheds: [RowIds -> Schedule \cup {NoRow}]]

ASSUME ServiceAssumption ==
  /\ RowIds \subseteq Nat
  /\ Requests \subseteq Request
  /\ Horizon \in Nat
  /\ NoRow \notin Appointment \cup Schedule
  /\ {NoRow, Released} \cap Claims = {}
  /\ NoRow # Released
  /\ NoTx \notin Database
  /\ NoRequest \notin Request
  /\ Keep \notin Stylists \cup Services \cup Nat
  /\ {Ambiguous, Unknown} \cap (Stylists \cup Services \cup {Keep}) = {}

VARIABLES
  db,     \* the committed tables
  tx,     \* each client's uncommitted image of the tables, or NoTx
  pc,     \* where each client's handler stands
  req,    \* the request each client sent last
  rowId,  \* the appointment_id local of a create, once flushed
  reply,  \* what each handler answers
  effects, \* history: how often the client's current request was committed
  now     \* the wall clock

vars == <<db, tx, pc, req, rowId, reply, effects, now>>

-----------------------------------------------------------------------------
(* Queries *)

Rows(table) == {id \in RowIds : table[id] # NoRow}

(* The key SQLite hands out next: keys are given out in order. *)
NextKey(table, id) ==
  /\ table[id] = NoRow
  /\ \A other \in RowIds : other < id => table[other] # NoRow

BusySchedules(d) == {k \in Rows(d.scheds) : d.scheds[k].status = "busy"}

SchedulesOf(d, id) == {k \in Rows(d.scheds) : d.scheds[k].appt = id}

ActiveSchedules(d, id) == SchedulesOf(d, id) \cap BusySchedules(d)

(* Faulty: only the very same slot counts as taken. *)
HasSameSlot(d, stylist, start, end, excluded) ==
  \E k \in BusySchedules(d) \ excluded :
    d.scheds[k].stylist = stylist /\ d.scheds[k].start = start

(* A busy row of the stylist, other than the excluded ones, overlaps. *)
HasScheduleConflict(d, stylist, start, end, excluded) ==
  \E k \in BusySchedules(d) \ excluded :
    /\ d.scheds[k].stylist = stylist
    /\ Overlap(d.scheds[k].start, d.scheds[k].end, start, end)

(* The BEFORE INSERT and BEFORE UPDATE triggers on stylist_schedules, as   *)
(* row becomes the one with key k.                                         *)
TriggerAborts(d, k, row) ==
  HasScheduleConflict(d, row.stylist, row.start, row.end, {k})

HasOneActiveSchedule(d, id) == \E k \in RowIds : ActiveSchedules(d, id) = {k}

ActiveSchedule(d, id) == CHOOSE k \in RowIds : ActiveSchedules(d, id) = {k}

OwnedBy(d, id, owner) == d.appts[id] # NoRow /\ d.appts[id].owner = owner

IsFuture(t) == t > now

Pick(new, old) == IF new = Keep THEN old ELSE new

-----------------------------------------------------------------------------
(* The checks of each operation, in the code's order.  Each yields the     *)
(* status the operation ends with, or "proceed".                           *)

CreateVerdict(d, r) ==
  IF ~IsFuture(r.start) THEN "past_appointment" ELSE
  IF ~WithinBusinessHours(r.start, r.end) THEN "outside_business_hours" ELSE
  IF r.service \notin Services THEN "unknown_service" ELSE
  IF r.end # EndOf(r.start, r.service) THEN "invalid_service_duration" ELSE
  IF r.stylist \notin Stylists THEN "stylist_not_found" ELSE
  IF r.service \notin Supported[r.stylist] THEN "stylist_service_unsupported" ELSE
  IF HasScheduleConflict(d, r.stylist, r.start, r.end, {}) THEN "schedule_conflict"
  ELSE "proceed"

CancelVerdict(d, r) ==
  LET row == d.appts[r.id] IN
  IF ~OwnedBy(d, r.id, r.owner) THEN "not_found" ELSE
  IF row.status = "cancelled" THEN "already_cancelled" ELSE
  IF ~IsFuture(row.start) THEN "not_modifiable" ELSE
  IF row.version # r.version THEN "stale_state" ELSE
  IF ~HasOneActiveSchedule(d, r.id) THEN "persistence_error"
  ELSE "proceed"

(* The appointment as an update would leave it, its version aside. *)
Proposal(d, r) ==
  LET row == d.appts[r.id]
      service == Pick(r.service, row.service)
      start == At(Pick(r.day, DayOf(row.start)),
                  Pick(r.time, ToTheMinute(TimeOf(row.start))))
  IN  [owner |-> row.owner, stylist |-> Pick(r.stylist, row.stylist),
       service |-> service, start |-> start, end |-> EndOf(start, service),
       status |-> row.status, version |-> row.version]

UpdateVerdict(d, r) ==
  LET row == d.appts[r.id]
      new == Proposal(d, r)
  IN
  IF r.stylist = Ambiguous THEN "validation_error" ELSE
  IF ~OwnedBy(d, r.id, r.owner) THEN "not_found" ELSE
  IF row.status # "confirmed" \/ ~IsFuture(row.start) THEN "not_modifiable" ELSE
  IF row.version # r.version THEN "stale_state" ELSE
  IF ~HasOneActiveSchedule(d, r.id) THEN "persistence_error" ELSE
  IF Pick(r.service, row.service) \notin Services THEN "validation_error" ELSE
  IF Pick(r.stylist, row.stylist) \notin Stylists THEN "not_found" ELSE
  IF new.service \notin Supported[new.stylist] THEN "service_not_supported" ELSE
  IF new = row THEN "no_change" ELSE
  IF ~IsFuture(new.start) THEN "invalid_time" ELSE
  IF ~WithinBusinessHours(new.start, new.end) THEN "outside_business_hours" ELSE
  IF HasScheduleConflict(d, new.stylist, new.start, new.end, SchedulesOf(d, r.id))
  THEN "conflict"
  ELSE "proceed"

Verdict(d, r) ==
  CASE r.op = "create" -> CreateVerdict(d, r)
    [] r.op = "cancel" -> CancelVerdict(d, r)
    [] r.op = "update" -> UpdateVerdict(d, r)

-----------------------------------------------------------------------------
(* Writes *)

PutAppointment(d, id, row) == [d EXCEPT !.appts = [@ EXCEPT ![id] = row]]
PutSchedule(d, k, row) == [d EXCEPT !.scheds = [@ EXCEPT ![k] = row]]

(* Faulty: the version column is left to count from zero. *)
NewUnversionedAppointment(r) ==
  [owner |-> r.owner, stylist |-> r.stylist, service |-> r.service,
   start |-> r.start, end |-> r.end, status |-> "confirmed", version |-> 0]

NewAppointment(r) ==
  [owner |-> r.owner, stylist |-> r.stylist, service |-> r.service,
   start |-> r.start, end |-> r.end, status |-> "confirmed", version |-> 1]

NewSchedule(id, row) ==
  [appt |-> id, stylist |-> row.stylist, start |-> row.start, end |-> row.end,
   status |-> "busy"]

(* Faulty: a write that does not advance the version. *)
SameVersion(row) == row

NextVersion(row) == [row EXCEPT !.version = @ + 1]

CancelledAppointment(row) == NextVersion([row EXCEPT !.status = "cancelled"])

CancelledSchedule(row) == [row EXCEPT !.status = "cancelled"]

UpdatedAppointment(d, r) == NextVersion(Proposal(d, r))

(* Faulty: the schedule keeps the place that the appointment has left. *)
UnmovedSchedule(sched, row) == sched

(* The schedule row takes over the appointment's stylist and times. *)
UpdatedSchedule(sched, row) ==
  [appt |-> sched.appt, stylist |-> row.stylist, start |-> row.start,
   end |-> row.end, status |-> "busy"]

-----------------------------------------------------------------------------
(* Steps of a handler *)

Goto(c, from, to) == pc[c] = from /\ pc' = [pc EXCEPT ![c] = to]

Answer(c, status) ==
  /\ pc' = [pc EXCEPT ![c] = "answering"]
  /\ reply' = [reply EXCEPT ![c] = status]

Forget(c) ==
  /\ req' = [req EXCEPT ![c] = NoRequest]
  /\ rowId' = [rowId EXCEPT ![c] = NoRow]
  /\ reply' = [reply EXCEPT ![c] = "none"]
  /\ effects' = [effects EXCEPT ![c] = 0]

(* Faulty: the except branch answers and leaves the transaction open. *)
LeakyRollback(c, status) ==
  /\ Answer(c, status)
  /\ UNCHANGED <<db, tx, req, rowId, effects, now>>

(* session_scope's except branch: ROLLBACK, close, report. *)
Rollback(c, status) ==
  /\ tx' = [tx EXCEPT ![c] = NoTx]
  /\ Answer(c, status)
  /\ UNCHANGED <<db, req, rowId, effects, now>>

Submit(c, r) ==
  /\ Goto(c, "idle", "waiting")
  /\ req' = [req EXCEPT ![c] = r]
  /\ UNCHANGED <<db, tx, rowId, reply, effects, now>>

(* Faulty: a plain BEGIN, which takes no lock. *)
DeferredBegin(c) ==
  /\ Goto(c, "waiting", "checking")
  /\ tx' = [tx EXCEPT ![c] = db]
  /\ UNCHANGED <<db, req, rowId, reply, effects, now>>

(* BEGIN IMMEDIATE succeeds when nobody else holds the write lock. *)
Begin(c) ==
  /\ Goto(c, "waiting", "checking")
  /\ \A other \in Clients : tx[other] = NoTx
  /\ tx' = [tx EXCEPT ![c] = db]
  /\ UNCHANGED <<db, req, rowId, reply, effects, now>>

(* Faulty: no busy_timeout. *)
PatientWait(c) == pc[c] = "waiting" /\ FALSE /\ UNCHANGED vars

(* busy_timeout runs out while somebody else holds the lock. *)
LockTimeout(c) ==
  /\ pc[c] = "waiting"
  /\ \E other \in Clients \ {c} : tx[other] # NoTx
  /\ Rollback(c, "persistence_error")

Check(c) ==
  /\ pc[c] = "checking"
  /\ LET verdict == Verdict(tx[c], req[c]) IN
       \/ /\ verdict = "proceed"
          /\ pc' = [pc EXCEPT ![c] = "writing"]
          /\ UNCHANGED <<db, tx, req, rowId, reply, effects, now>>
       \/ /\ verdict # "proceed"
          /\ Rollback(c, verdict)

InsertAppointment(c) ==
  /\ Goto(c, "writing", "scheduling")
  /\ req[c].op = "create"
  /\ \E id \in RowIds :
       /\ NextKey(tx[c].appts, id)
       /\ tx' = [tx EXCEPT ![c] = PutAppointment(@, id, NewAppointment(req[c]))]
       /\ rowId' = [rowId EXCEPT ![c] = id]
  /\ UNCHANGED <<db, req, reply, effects, now>>

InsertSchedule(c) ==
  /\ pc[c] = "scheduling"
  /\ \E k \in RowIds :
       LET row == NewSchedule(rowId[c], tx[c].appts[rowId[c]]) IN
       /\ NextKey(tx[c].scheds, k)
       /\ IF TriggerAborts(tx[c], k, row)
          THEN Rollback(c, "schedule_conflict")
          ELSE /\ tx' = [tx EXCEPT ![c] = PutSchedule(@, k, row)]
               /\ pc' = [pc EXCEPT ![c] = "committing"]
               /\ UNCHANGED <<db, req, rowId, reply, effects, now>>

(* Both rows are written by one flush. *)
ApplyCancel(c) ==
  /\ Goto(c, "writing", "committing")
  /\ req[c].op = "cancel"
  /\ LET id == req[c].id
         k == ActiveSchedule(tx[c], id)
     IN  tx' = [tx EXCEPT ![c] =
                  PutSchedule(PutAppointment(@, id, CancelledAppointment(@.appts[id])),
                              k, CancelledSchedule(@.scheds[k]))]
  /\ UNCHANGED <<db, req, rowId, reply, effects, now>>

ApplyUpdate(c) ==
  /\ pc[c] = "writing"
  /\ req[c].op = "update"
  /\ LET id == req[c].id
         k == ActiveSchedule(tx[c], id)
         appt == UpdatedAppointment(tx[c], req[c])
         sched == UpdatedSchedule(tx[c].scheds[k], appt)
     IN  IF TriggerAborts(tx[c], k, sched)
         THEN Rollback(c, "conflict")
         ELSE /\ tx' = [tx EXCEPT ![c] = PutSchedule(PutAppointment(@, id, appt), k, sched)]
              /\ pc' = [pc EXCEPT ![c] = "committing"]
              /\ UNCHANGED <<db, req, rowId, reply, effects, now>>

Commit(c) ==
  /\ pc[c] = "committing"
  /\ db' = tx[c]
  /\ tx' = [tx EXCEPT ![c] = NoTx]
  /\ Answer(c, "success")
  /\ effects' = [effects EXCEPT ![c] = @ + 1]
  /\ UNCHANGED <<req, rowId, now>>

(* Faulty: a failed statement is swallowed. *)
SwallowedFailure(c) ==
  tx[c] # NoTx /\ pc[c] \notin {"answering", "idle"} /\ Rollback(c, "success")

(* Any statement of the transaction, COMMIT included, may raise. *)
Fail(c) ==
  /\ tx[c] # NoTx /\ pc[c] \notin {"answering", "idle"}
  /\ Rollback(c, "persistence_error")

Deliver(c) ==
  /\ Goto(c, "answering", "idle")
  /\ Forget(c)
  /\ UNCHANGED <<db, tx, now>>

-----------------------------------------------------------------------------
(* The environment *)

(* The handler's process dies, or its answer is lost on the way.  SQLite   *)
(* rolls the transaction back when the file is opened again.               *)
CutOff(c) ==
  /\ pc[c] \notin {"idle", "cut_off"}
  /\ pc' = [pc EXCEPT ![c] = "cut_off"]
  /\ tx' = [tx EXCEPT ![c] = NoTx]
  /\ reply' = [reply EXCEPT ![c] = "none"]
  /\ UNCHANGED <<db, req, rowId, effects, now>>

Retry(c) ==
  /\ Goto(c, "cut_off", "waiting")
  /\ UNCHANGED <<db, tx, req, rowId, reply, effects, now>>

GiveUp(c) ==
  /\ Goto(c, "cut_off", "idle")
  /\ Forget(c)
  /\ UNCHANGED <<db, tx, now>>

Tick ==
  /\ now < Horizon
  /\ now' = now + 1
  /\ UNCHANGED <<db, tx, pc, req, rowId, reply, effects>>

-----------------------------------------------------------------------------

Init ==
  /\ db = [appts |-> [id \in RowIds |-> NoRow], scheds |-> [k \in RowIds |-> NoRow]]
  /\ tx = [c \in Clients |-> NoTx]
  /\ pc = [c \in Clients |-> "idle"]
  /\ req = [c \in Clients |-> NoRequest]
  /\ rowId = [c \in Clients |-> NoRow]
  /\ reply = [c \in Clients |-> "none"]
  /\ effects = [c \in Clients |-> 0]
  /\ now = 0

(* What the server does for a request once it has arrived. *)
Serve(c) ==
  \/ Begin(c)
  \/ LockTimeout(c)
  \/ Check(c)
  \/ InsertAppointment(c)
  \/ InsertSchedule(c)
  \/ ApplyCancel(c)
  \/ ApplyUpdate(c)
  \/ Commit(c)
  \/ Fail(c)
  \/ Deliver(c)

Environment(c) ==
  \/ \E r \in Requests : Submit(c, r)
  \/ CutOff(c)
  \/ Retry(c)
  \/ GiveUp(c)

Next == Tick \/ \E c \in Clients : Serve(c) \/ Environment(c)

Spec == Init /\ [][Next]_vars

(* The server keeps executing, and SQLite's busy handler either gets the   *)
(* lock or gives up after busy_timeout.  Clients and the clock owe nothing. *)
FairSpec == Spec /\ \A c \in Clients : WF_vars(Serve(c))

-----------------------------------------------------------------------------
(* Properties *)

Steps == {"idle", "waiting", "checking", "writing", "scheduling", "committing",
          "answering", "cut_off"}

Statuses ==
  {"success", "past_appointment", "outside_business_hours", "unknown_service",
   "invalid_service_duration", "stylist_not_found", "stylist_service_unsupported",
   "schedule_conflict", "persistence_error", "not_found", "already_cancelled",
   "not_modifiable", "stale_state", "validation_error", "service_not_supported",
   "no_change", "invalid_time", "conflict"}

(* Every variable keeps to its type: in particular every row that a        *)
(* transaction writes or commits is a well-formed row of its table.        *)
TypeOK ==
  /\ db \in Database
  /\ tx \in [Clients -> Database \cup {NoTx}]
  /\ pc \in [Clients -> Steps]
  /\ req \in [Clients -> Request \cup {NoRequest}]
  /\ rowId \in [Clients -> RowIds \cup {NoRow}]
  /\ reply \in [Clients -> Statuses \cup {"none"}]
  /\ effects \in [Clients -> Nat]
  /\ now \in Nat

Minutes(sched) == sched.start .. (sched.end - 1)

DisjointSchedules(d) ==
  \A j, k \in BusySchedules(d) :
    j # k /\ d.scheds[j].stylist = d.scheds[k].stylist
      => Minutes(d.scheds[j]) \cap Minutes(d.scheds[k]) = {}

(* No stylist is ever busy with two appointments at the same moment,       *)
(* however create and update transactions race, fail and are retried.      *)
NoDoubleBooking == DisjointSchedules(db)

Confirmed(d) == {id \in Rows(d.appts) : d.appts[id].status = "confirmed"}

Mirrors(sched, row) ==
  /\ sched.stylist = row.stylist
  /\ sched.start = row.start
  /\ sched.end = row.end

ConfirmedArePaired(d) ==
  \A id \in Confirmed(d) : \E k \in RowIds :
    ActiveSchedules(d, id) = {k} /\ Mirrors(d.scheds[k], d.appts[id])

BusyArePaired(d) ==
  \A k \in BusySchedules(d) : d.scheds[k].appt \in Confirmed(d)

(* The two tables agree at every commit point: a confirmed appointment has *)
(* exactly one busy schedule, with its stylist and times, and no schedule  *)
(* stays busy for an appointment that is cancelled or was never stored.    *)
AppointmentsMirrorSchedules == ConfirmedArePaired(db) /\ BusyArePaired(db)

SalonIsOpen(m) == OpenAt <= TimeOf(m) /\ TimeOf(m) < CloseAt

(* Whatever sequence of creates and updates led to it, a stored booking is *)
(* one the salon can serve: the stylist performs that service, it takes    *)
(* its standard duration, and the salon is open at every minute of it.     *)
BookingsAreServable ==
  \A id \in Confirmed(db) :
    LET row == db.appts[id] IN
    /\ row.service \in Supported[row.stylist]
    /\ row.end - row.start = Duration[row.service]
    /\ \A m \in row.start .. (row.end - 1) : SalonIsOpen(m)

(* A stored appointment changes only by a commit of its own owner's        *)
(* request, and only if that request named the version being replaced: no  *)
(* update is lost, nothing cancelled comes back, and no row disappears.    *)
ChangedByItsOwner(id) ==
  LET old == db.appts[id]
      new == db'.appts[id]
  IN  /\ new # NoRow
      /\ new.owner = old.owner
      /\ new.version = old.version + 1
      /\ old.status = "confirmed"
      /\ \E c \in Clients :
           /\ req[c] # NoRequest
           /\ req[c].op \in {"cancel", "update"}
           /\ req[c].id = id
           /\ req[c].owner = old.owner
           /\ req[c].version = old.version

NoLostUpdate ==
  [][\A id \in Rows(db.appts) :
       db'.appts[id] # db.appts[id] => ChangedByItsOwner(id)]_vars

(* A cancel or an update whose answer was lost may be sent again: it takes *)
(* effect at most once, and once it has, the client is never told that     *)
(* something else is wrong with the request.                               *)
RetriesAreSafe ==
  \A c \in Clients :
    req[c] # NoRequest /\ req[c].op \in {"cancel", "update"} =>
      /\ effects[c] <= 1
      /\ effects[c] = 1 /\ pc[c] = "answering" =>
           reply[c] \in IF req[c].op = "cancel"
                        THEN {"success", "already_cancelled", "persistence_error"}
                        ELSE {"success", "stale_state", "not_modifiable",
                              "persistence_error"}

(* What a client is told is so: a confirmed booking is stored under its    *)
(* owner, a cancelled one is cancelled for good, an updated one has moved  *)
(* past the version that the client knew.                                  *)
AnswersAreDurable ==
  \A c \in Clients :
    pc[c] = "answering" =>
      /\ req[c].op = "create" /\ reply[c] = "success" =>
           rowId[c] \in RowIds /\ OwnedBy(db, rowId[c], req[c].owner)
      /\ req[c].op = "cancel" /\ reply[c] \in {"success", "already_cancelled"} =>
           /\ OwnedBy(db, req[c].id, req[c].owner)
           /\ db.appts[req[c].id].status = "cancelled"
      /\ req[c].op = "update" /\ reply[c] = "success" =>
           /\ OwnedBy(db, req[c].id, req[c].owner)
           /\ db.appts[req[c].id].version > req[c].version

(* A request that has arrived is answered, unless its process dies: nobody *)
(* waits forever for the write lock.                                       *)
EveryRequestAnswered ==
  \A c \in Clients : pc[c] = "waiting" ~> pc[c] \in {"answering", "cut_off"}

(* The write lock is always given back, whichever way a handler ends.      *)
LockIsReleased == \A c \in Clients : tx[c] # NoTx ~> tx[c] = NoTx

(* The appointments table, read as the abstract book of claims. *)
BookEntry(row) ==
  IF row = NoRow THEN NoRow ELSE
  IF row.status = "cancelled" THEN Released ELSE
  [owner |-> row.owner, stylist |-> row.stylist, start |-> row.start, end |-> row.end]

BookOfClaims == [id \in RowIds |-> BookEntry(db.appts[id])]

Book == INSTANCE SalonBook WITH
  BookingIds <- RowIds, Unused <- NoRow, book <- BookOfClaims

(* Seen from the appointments table, every committed step enters, moves or *)
(* releases one claim, and never one that clashes with another.            *)
ImplementsSalonBook == Book!Spec

=============================================================================
