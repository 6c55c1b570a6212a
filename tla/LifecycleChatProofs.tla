------------------------ MODULE LifecycleChatProofs -------------------------
(***************************************************************************)
(* Theorems about the dialogue on saved appointments, for any number of    *)
(* chats and of other clients: a chat never breaks the tables, waits for   *)
(* one thing at a time, and applies exactly what its customer has seen and *)
(* confirmed, or nothing.                                                  *)
(***************************************************************************)
EXTENDS LifecycleChat, AppointmentServiceProofs

-----------------------------------------------------------------------------
(* What a chat holds *)

Snapshot == [id : RowIds, row : Appointment]

History ==
  [action: {"none", "get", "cancel", "update"}, candidates: SUBSET Snapshot,
   selected: RowIds \cup {NoRow}, version: Nat, changes: Changes,
   awaiting: SUBSET {"selection", "changes", "confirmation"}]

Turns == {"quiet", "asked", "done", "previewing", "comparing", "writing", "dead"}

Previews == [old: Appointment \cup {NoRow}, new: Appointment]

ChatTypes ==
  /\ history \in [Chats -> History]
  /\ turn \in [Chats -> Turns]
  /\ actor \in [Chats -> Owners \cup {Nobody}]
  /\ shown \in [Chats -> Previews \cup {Nothing}]

-----------------------------------------------------------------------------
(* What a chat knows of the tables *)

(* The row was stored under id, and is either still there or outdated.     *)
IsTrueOf(d, id, row) ==
  /\ d.appts[id] \in Appointment
  /\ d.appts[id] = row \/ d.appts[id].version > row.version

(* The version was that of id once. *)
HasReached(d, id, v) == d.appts[id] \in Appointment /\ d.appts[id].version >= v

(* How far a chat has come with its operation *)

IsIdle(h) == h.awaiting = {} /\ h.action = "none" /\ h.selected = NoRow

IsChoosing(h) == h.awaiting = {"selection"} /\ h.action # "none"

IsChanging(h) ==
  h.awaiting = {"changes"} /\ h.action = "update" /\ h.selected \in RowIds

IsPreviewing(h) ==
  /\ h.action = "update" /\ h.selected \in RowIds /\ h.changes # NoChanges
  /\ h.awaiting \in {{}, {"changes"}}

(* As long as the version on file is the one that was selected, the update *)
(* comes to what was previewed.                                            *)
WasPreviewed(d, h, s) ==
  /\ s \in Previews
  /\ s.new.version = h.version
  /\ HasReached(d, h.selected, h.version)
  /\ \A owner \in Owners :
       d.appts[h.selected].version = h.version =>
         s.new = Proposal(d, UpdateOf(owner, h))

(* The question to confirm is about what was shown of the selected row. *)
IsConfirming(d, h, s) ==
  /\ h.awaiting = {"confirmation"} /\ h.selected \in RowIds
  /\ s \in Previews
  /\ s.old \in Appointment
  /\ h.version <= s.old.version
  /\ IsTrueOf(d, h.selected, s.old)
  /\ \/ /\ h.action = "cancel"
        /\ h.version = s.old.version
        /\ s.new = [s.old EXCEPT !.status = "cancelled"]
     \/ /\ h.action = "update" /\ h.changes # NoChanges
        /\ WasPreviewed(d, h, s)

AwaitsOneThing(d, h, s) ==
  IsIdle(h) \/ IsChoosing(h) \/ IsChanging(h) \/ IsConfirming(d, h, s)

(* What a dialogue at step t of its turn, on behalf of a, takes for granted *)
(* of the tables d.                                                        *)
InDialogue(d, h, t, a, s) ==
  /\ \A c \in h.candidates : IsTrueOf(d, c.id, c.row)
  /\ t \in {"quiet", "asked", "done"} => AwaitsOneThing(d, h, s)
  /\ t \in {"previewing", "comparing"} => IsPreviewing(h)
  /\ t = "comparing" => WasPreviewed(d, h, s)
  /\ t = "writing" => IsConfirming(d, h, s)
  /\ t \in {"previewing", "comparing", "writing"} => a \in Owners

RequestOf(owner, h) ==
  IF h.action = "cancel" THEN CancelOf(owner, h) ELSE UpdateOf(owner, h)

(* The transaction of a chat runs while its turn is writing, and only then. *)
InTransaction(p) ==
  /\ turn[p] = "writing" =>
       pc[p] \in Steps \ {"idle", "cut_off"} /\ req[p] = RequestOf(actor[p], history[p])
  /\ turn[p] = "dead" => pc[p] \in {"idle", "cut_off"}
  /\ turn[p] \notin {"writing", "dead"} => pc[p] = "idle"

ChatOK(p) ==
  InDialogue(db, history[p], turn[p], actor[p], shown[p]) /\ InTransaction(p)

CInv ==
  /\ IInv
  /\ ChatTypes
  /\ \A p \in Chats : ChatOK(p)

-----------------------------------------------------------------------------
(* What is known of the tables stays known, whoever writes them            *)

LEMMA RowAdvances ==
  ASSUME IInv, [AnyNext]_vars, NEW id \in RowIds, db.appts[id] \in Appointment
  PROVE  /\ db'.appts[id] \in Appointment
         /\ \/ db'.appts[id] = db.appts[id]
            \/ db'.appts[id].version > db.appts[id].version
<1>1. CASE db'.appts[id] = db.appts[id]
  BY <1>1
<1>2. CASE db'.appts[id] # db.appts[id]
  <2>1. id \in Rows(db.appts)
    BY ServiceAssumption DEF Rows
  <2>2. /\ db'.appts[id] # NoRow
        /\ db'.appts[id].version = db.appts[id].version + 1
    BY <1>2, <2>1, RowsOnlyAdvance DEF ChangedByItsOwner
  <2>3. db' \in Database
    BY AnyKeeps DEF IInv, TypeOK
  <2>4. db'.appts[id] \in Appointment
    BY <2>2, <2>3, StoredRowType
  <2>5. db.appts[id].version \in Nat
    BY DEF Appointment
  <2>6. QED
    BY <2>2, <2>4, <2>5
<1>3. QED
  BY <1>1, <1>2

LEMMA SnapshotStays ==
  ASSUME IInv, [AnyNext]_vars, NEW id \in RowIds, NEW row \in Appointment,
         IsTrueOf(db, id, row)
  PROVE  IsTrueOf(db', id, row)
<1>1. /\ db.appts[id] \in Appointment /\ db'.appts[id] \in Appointment
      /\ \/ db'.appts[id] = db.appts[id]
         \/ db'.appts[id].version > db.appts[id].version
  BY RowAdvances DEF IsTrueOf
<1>2. /\ db.appts[id].version \in Nat /\ db'.appts[id].version \in Nat
      /\ row.version \in Nat
  BY <1>1 DEF Appointment
<1>3. QED
  BY <1>1, <1>2 DEF IsTrueOf

LEMMA PreviewStays ==
  ASSUME IInv, [AnyNext]_vars, NEW h \in History, NEW s, h.selected \in RowIds,
         WasPreviewed(db, h, s)
  PROVE  WasPreviewed(db', h, s)
<1> DEFINE id == h.selected
<1>1. /\ db.appts[id] \in Appointment /\ db.appts[id].version >= h.version
      /\ s \in Previews /\ s.new.version = h.version
  BY DEF WasPreviewed, HasReached
<1>2. /\ db'.appts[id] \in Appointment
      /\ \/ db'.appts[id] = db.appts[id]
         \/ db'.appts[id].version > db.appts[id].version
  BY <1>1, RowAdvances
<1>3. /\ db.appts[id].version \in Nat /\ db'.appts[id].version \in Nat
      /\ h.version \in Nat
  BY <1>1, <1>2 DEF Appointment, History
<1>4. HasReached(db', id, h.version)
  BY <1>1, <1>2, <1>3 DEF HasReached
<1>5. ASSUME NEW owner \in Owners, db'.appts[id].version = h.version
      PROVE  s.new = Proposal(db', UpdateOf(owner, h))
  <2>1. db'.appts[id] = db.appts[id]
    BY <1>1, <1>2, <1>3, <1>5
  <2>2. s.new = Proposal(db, UpdateOf(owner, h))
    BY <1>5, <2>1 DEF WasPreviewed
  <2>3. UpdateOf(owner, h).id = id
    BY DEF UpdateOf
  <2>4. Proposal(db', UpdateOf(owner, h)) = Proposal(db, UpdateOf(owner, h))
    BY <2>1, <2>3 DEF Proposal
  <2>5. QED
    BY <2>2, <2>4
<1>6. QED
  BY <1>1, <1>4, <1>5 DEF WasPreviewed

LEMMA ConfirmingStays ==
  ASSUME IInv, [AnyNext]_vars, NEW h \in History, NEW s, IsConfirming(db, h, s)
  PROVE  IsConfirming(db', h, s)
<1>1. h.selected \in RowIds /\ s.old \in Appointment
  BY DEF IsConfirming
<1>2. IsTrueOf(db', h.selected, s.old)
  BY <1>1, SnapshotStays DEF IsConfirming
<1>3. WasPreviewed(db, h, s) => WasPreviewed(db', h, s)
  BY <1>1, PreviewStays
<1>4. QED
  BY <1>2, <1>3 DEF IsConfirming

LEMMA DialogueStays ==
  ASSUME IInv, [AnyNext]_vars, NEW h \in History, NEW t, NEW a, NEW s,
         InDialogue(db, h, t, a, s)
  PROVE  InDialogue(db', h, t, a, s)
<1>1. ASSUME NEW c \in h.candidates PROVE IsTrueOf(db', c.id, c.row)
  <2>1. c.id \in RowIds /\ c.row \in Appointment
    BY DEF History, Snapshot
  <2>2. QED
    BY <2>1, SnapshotStays DEF InDialogue
<1>2. IsConfirming(db, h, s) => IsConfirming(db', h, s)
  BY ConfirmingStays
<1>3. IsPreviewing(h) /\ WasPreviewed(db, h, s) => WasPreviewed(db', h, s)
  BY PreviewStays DEF IsPreviewing
<1>4. AwaitsOneThing(db, h, s) => AwaitsOneThing(db', h, s)
  BY <1>2 DEF AwaitsOneThing
<1>5. QED
  BY <1>1, <1>2, <1>3, <1>4 DEF InDialogue

(* A chat that does nothing itself. *)
LEMMA SilentChat ==
  ASSUME IInv, ChatTypes, [AnyNext]_vars, NEW p \in Chats, ChatOK(p),
         history'[p] = history[p], turn'[p] = turn[p], actor'[p] = actor[p],
         shown'[p] = shown[p], pc'[p] = pc[p], req'[p] = req[p]
  PROVE  ChatOK(p)'
<1>1. history[p] \in History
  BY DEF ChatTypes
<1>2. InDialogue(db', history[p], turn[p], actor[p], shown[p])
  BY <1>1, DialogueStays DEF ChatOK
<1>3. InTransaction(p)'
  BY DEF ChatOK, InTransaction
<1>4. QED
  BY <1>2, <1>3 DEF ChatOK

-----------------------------------------------------------------------------
(* Well-formed histories *)

LEMMA NoChangesType == NoChanges \in Changes
BY DEF NoChanges, Changes

LEMMA InactiveType ==
  /\ Inactive \in History
  /\ IsIdle(Inactive) /\ Inactive.candidates = {}
  /\ Inactive.awaiting = {} /\ Inactive.changes = NoChanges
BY NoChangesType DEF Inactive, History, IsIdle

LEMMA MergedType ==
  ASSUME NEW old \in Changes, NEW new \in Changes
  PROVE  Merged(old, new) \in Changes
<1>1. DOMAIN old = {"stylist", "service", "day", "time"}
  BY DEF Changes
<1>2. Merged(old, new) =
        [stylist |-> IF new.stylist = Keep THEN old.stylist ELSE new.stylist,
         service |-> IF new.service = Keep THEN old.service ELSE new.service,
         day |-> IF new.day = Keep THEN old.day ELSE new.day,
         time |-> IF new.time = Keep THEN old.time ELSE new.time]
  BY <1>1 DEF Merged
<1>3. QED
  BY <1>2 DEF Changes

LEMMA SnapshotsType ==
  ASSUME NEW s \in Snapshot
  PROVE  s.id \in RowIds /\ s.row \in Appointment /\ s.row.version \in Nat \ {0}
BY DEF Snapshot, Appointment

LEMMA SelectedHistory ==
  ASSUME NEW h \in History, NEW s \in Snapshot, NEW action \in {"get", "cancel", "update"}
  PROVE  LET sel == SetSelected(h, action, s) IN
         /\ sel \in History
         /\ sel.action = action /\ sel.candidates = h.candidates
         /\ sel.selected = s.id /\ sel.version = s.row.version
         /\ sel.changes = h.changes /\ sel.awaiting = h.awaiting \ {"selection"}
BY SnapshotsType DEF SetSelected, History

LEMMA AwaitingHistories ==
  ASSUME NEW h \in History
  PROVE  /\ AwaitChanges(h) \in History
         /\ AwaitChanges(h).awaiting = (h.awaiting \ {"confirmation"}) \cup {"changes"}
         /\ AwaitConfirmation(h) \in History
         /\ AwaitConfirmation(h).awaiting =
              (h.awaiting \ {"changes"}) \cup {"confirmation"}
         /\ \A k \in {AwaitChanges(h), AwaitConfirmation(h)} :
              /\ k.action = h.action /\ k.candidates = h.candidates
              /\ k.selected = h.selected /\ k.version = h.version
              /\ k.changes = h.changes
BY DEF AwaitChanges, AwaitConfirmation, History

LEMMA StoredHistory ==
  ASSUME NEW h \in History, NEW found \in SUBSET Snapshot,
         NEW action \in {"get", "cancel", "update"}
  PROVE  LET k == StoreCandidates(h, action, found) IN
         /\ k \in History
         /\ k.action = action /\ k.candidates = found
         /\ k.awaiting = h.awaiting \cup {"selection"}
BY DEF StoreCandidates, History

LEMMA ChangedHistory ==
  ASSUME NEW h \in History, NEW changes \in Changes
  PROVE  LET k == [h EXCEPT !.changes = changes] IN
         /\ k \in History
         /\ k.action = h.action /\ k.candidates = h.candidates
         /\ k.selected = h.selected /\ k.version = h.version
         /\ k.changes = changes /\ k.awaiting = h.awaiting
BY DEF History

(* What a search finds is what is stored. *)
LEMMA FoundRows ==
  ASSUME IInv, NEW owner \in Owners, NEW found \in SearchResults(owner)
  PROVE  /\ found \in SUBSET Snapshot
         /\ \A s \in found : IsTrueOf(db, s.id, s.row) /\ s.row = db.appts[s.id]
<1>1. \A id \in Owned(owner) : id \in RowIds /\ db.appts[id] \in Appointment
  <2> TAKE id \in Owned(owner)
  <2>1. id \in RowIds /\ db.appts[id] # NoRow
    BY DEF Owned, OwnedBy
  <2>2. QED
    BY <2>1, StoredRowType DEF IInv, TypeOK
<1>2. PICK ids \in SUBSET Owned(owner) : found = Snapshots(ids)
  <2>1. CASE found = {}
    <3>1. Snapshots({}) = {}
      BY DEF Snapshots
    <3>2. QED
      BY <2>1, <3>1
  <2>2. ASSUME NEW id \in Owned(owner), found = Snapshots({id})
        PROVE  \E ids \in SUBSET Owned(owner) : found = Snapshots(ids)
    BY <2>2
  <2>3. ASSUME NEW day \in Days, found = Snapshots(Upcoming(owner, day))
        PROVE  \E ids \in SUBSET Owned(owner) : found = Snapshots(ids)
    <3>1. Upcoming(owner, day) \subseteq Owned(owner)
      BY DEF Upcoming, Listed
    <3>2. QED
      BY <2>3, <3>1
  <2>4. QED
    BY <2>1, <2>2, <2>3 DEF SearchResults
<1>3. ASSUME NEW s \in found
      PROVE  s \in Snapshot /\ IsTrueOf(db, s.id, s.row) /\ s.row = db.appts[s.id]
  <2>1. PICK id \in ids : s = [id |-> id, row |-> db.appts[id]]
    BY <1>2, <1>3 DEF Snapshots
  <2>2. id \in RowIds /\ db.appts[id] \in Appointment
    BY <1>1, <1>2, <2>1
  <2>3. s.id = id /\ s.row = db.appts[id]
    BY <2>1
  <2>4. s \in Snapshot
    BY <2>1, <2>2 DEF Snapshot
  <2>5. QED
    BY <2>2, <2>3, <2>4 DEF IsTrueOf
<1>4. QED
  BY <1>3

LEMMA RequestOfType ==
  ASSUME NEW owner \in Owners, NEW h \in History, h.selected \in RowIds
  PROVE  /\ CancelOf(owner, h) \in CancelRequest
         /\ UpdateOf(owner, h) \in UpdateRequest
         /\ RequestOf(owner, h) \in Request
<1>1. h.version \in Nat /\ h.changes \in Changes
  BY DEF History
<1>2. CancelOf(owner, h) \in CancelRequest
  BY <1>1 DEF CancelOf, VersionSeen, CancelRequest
<1>3. UpdateOf(owner, h) \in UpdateRequest
  BY <1>1 DEF UpdateOf, VersionSeen, UpdateRequest, Changes, StylistRefs, ServiceRefs
<1>4. QED
  BY <1>2, <1>3 DEF RequestOf, Request

-----------------------------------------------------------------------------
(* A step of one chat *)

TakesTurn(p, h, t, a, s) ==
  /\ history' = [history EXCEPT ![p] = h]
  /\ turn' = [turn EXCEPT ![p] = t]
  /\ actor' = [actor EXCEPT ![p] = a]
  /\ shown' = [shown EXCEPT ![p] = s]

ConcernsOnly(p) ==
  \A q \in Chats \ {p} :
    /\ history'[q] = history[q] /\ turn'[q] = turn[q]
    /\ actor'[q] = actor[q] /\ shown'[q] = shown[q]

KeepsWord(p) ==
  /\ [AnyStep(p)]_vars
  /\ ConcernsOnly(p)
  /\ ChatTypes'
  /\ ChatOK(p)'

LEMMA TurnFrame ==
  ASSUME ChatTypes, NEW p \in Chats, NEW h \in History, NEW t \in Turns,
         NEW a \in Owners \cup {Nobody}, NEW s \in Previews \cup {Nothing},
         TakesTurn(p, h, t, a, s)
  PROVE  /\ ChatTypes' /\ ConcernsOnly(p)
         /\ history'[p] = h /\ turn'[p] = t /\ actor'[p] = a /\ shown'[p] = s
BY DEF ChatTypes, TakesTurn, ConcernsOnly

LEMMA SameAsItWas ==
  ASSUME ChatTypes, NEW p \in Chats
  PROVE  /\ history = [history EXCEPT ![p] = history[p]]
         /\ turn = [turn EXCEPT ![p] = turn[p]]
         /\ actor = [actor EXCEPT ![p] = actor[p]]
         /\ shown = [shown EXCEPT ![p] = shown[p]]
         /\ history[p] \in History /\ turn[p] \in Turns
         /\ actor[p] \in Owners \cup {Nobody}
         /\ shown[p] \in Previews \cup {Nothing}
BY DEF ChatTypes

(* A step that leaves the tables, and every transaction, alone. *)
LEMMA QuietTurn ==
  ASSUME CInv, NEW p \in Chats, NEW h \in History, NEW t \in Turns \ {"writing"},
         NEW a \in Owners \cup {Nobody}, NEW s \in Previews \cup {Nothing},
         TakesTurn(p, h, t, a, s), UNCHANGED serviceVars, pc[p] = "idle",
         InDialogue(db, h, t, a, s)
  PROVE  KeepsWord(p)
<1>1. /\ ChatTypes' /\ ConcernsOnly(p)
      /\ history'[p] = h /\ turn'[p] = t /\ actor'[p] = a /\ shown'[p] = s
  BY TurnFrame DEF CInv
<1>2. UNCHANGED vars
  BY DEF serviceVars, vars
<1>3. pc'[p] = "idle" /\ db' = db
  BY <1>2 DEF vars
<1>4. ChatOK(p)'
  BY <1>1, <1>3 DEF ChatOK, InTransaction
<1>5. QED
  BY <1>1, <1>2, <1>4 DEF KeepsWord

(* What is known of a chat at the start of a turn. *)
LEMMA ChatHears ==
  ASSUME CInv, NEW p \in Chats, NEW owner \in Owners, Hears(p, owner)
  PROVE  /\ pc[p] = "idle"
         /\ actor' = [actor EXCEPT ![p] = owner]
         /\ AwaitsOneThing(db, history[p], shown[p])
         /\ history[p] \in History /\ shown[p] \in Previews \cup {Nothing}
         /\ history[p].candidates \in SUBSET Snapshot
         /\ \A s \in history[p].candidates : IsTrueOf(db, s.id, s.row)
<1>1. ChatOK(p) /\ turn[p] = "quiet" /\ history[p] \in History
      /\ shown[p] \in Previews \cup {Nothing}
  BY DEF CInv, Hears, ChatTypes
<1>2. QED
  BY <1>1 DEF ChatOK, InDialogue, InTransaction, Hears, History

(* An operation that is over, or only just listed what there is. *)
LEMMA LeaveKeeps ==
  ASSUME CInv, NEW p \in Chats, NEW a \in Owners \cup {Nobody}, Leave(p),
         actor' = [actor EXCEPT ![p] = a], UNCHANGED serviceVars, pc[p] = "idle"
  PROVE  KeepsWord(p)
<1>1. TakesTurn(p, Inactive, "done", a, Nothing)
  BY DEF Leave, Become, TakesTurn
<1>2. InDialogue(db, Inactive, "done", a, Nothing)
  BY InactiveType DEF InDialogue, AwaitsOneThing
<1>3. QED
  BY <1>1, <1>2, InactiveType, QuietTurn DEF Turns

LEMMA ListKeeps ==
  ASSUME CInv, NEW p \in Chats, NEW owner \in Owners, NEW h \in History,
         NEW found \in SearchResults(owner), NEW action \in {"get", "cancel", "update"},
         h.awaiting = {}, Hears(p, owner),
         Become(p, StoreCandidates(h, action, found), "asked"),
         UNCHANGED <<serviceVars, shown>>
  PROVE  KeepsWord(p)
<1> DEFINE k == StoreCandidates(h, action, found)
<1>1. /\ k \in History /\ k.action = action /\ k.candidates = found
      /\ k.awaiting = {"selection"}
  BY FoundRows, StoredHistory DEF CInv
<1>2. InDialogue(db, k, "asked", owner, shown[p])
  BY <1>1, FoundRows DEF InDialogue, AwaitsOneThing, IsChoosing, CInv
<1>3. TakesTurn(p, k, "asked", owner, shown[p])
  BY ChatHears, SameAsItWas DEF Become, TakesTurn, CInv
<1>4. QED
  BY <1>1, <1>2, <1>3, ChatHears, QuietTurn DEF Turns

(* A search that found nothing, or only what it has just shown. *)
LEMMA NothingKeeps ==
  ASSUME CInv, NEW p \in Chats, NEW owner \in Owners, NEW h \in History,
         IsIdle(h), h.candidates = {}, Hears(p, owner), Become(p, h, "done"),
         UNCHANGED <<serviceVars, shown>>
  PROVE  KeepsWord(p)
<1>1. TakesTurn(p, h, "done", owner, shown[p])
  BY ChatHears, SameAsItWas DEF Become, TakesTurn, CInv
<1>2. InDialogue(db, h, "done", owner, shown[p])
  BY DEF InDialogue, AwaitsOneThing
<1>3. QED
  BY <1>1, <1>2, ChatHears, QuietTurn DEF Turns

LEMMA SelectForCancelKeeps ==
  ASSUME CInv, NEW p \in Chats, NEW owner \in Owners, NEW h \in History,
         NEW s \in Snapshot, IsTrueOf(db, s.id, s.row),
         \A c \in h.candidates : IsTrueOf(db, c.id, c.row),
         h.awaiting \ {"selection"} = {}, Hears(p, owner), SelectForCancel(p, h, s),
         UNCHANGED serviceVars
  PROVE  KeepsWord(p)
<1> DEFINE sel == SetSelected(h, "cancel", s)
           k == AwaitConfirmation(sel)
           new == [s.row EXCEPT !.status = "cancelled"]
           look == [old |-> s.row, new |-> new]
<1>1. /\ sel \in History /\ sel.action = "cancel" /\ sel.candidates = h.candidates
      /\ sel.selected = s.id /\ sel.version = s.row.version /\ sel.awaiting = {}
  BY SelectedHistory
<1>2. /\ k \in History /\ k.action = "cancel" /\ k.candidates = h.candidates
      /\ k.selected = s.id /\ k.version = s.row.version
      /\ k.awaiting = {"confirmation"}
  <2> HIDE DEF sel
  <2>1. QED
    BY <1>1, AwaitingHistories
<1>3. s.id \in RowIds /\ s.row \in Appointment /\ s.row.version \in Nat
  BY SnapshotsType
<1>4. new \in Appointment
  BY <1>3 DEF Appointment
<1>5. look \in Previews /\ look.old = s.row /\ look.new = new
  <2> HIDE DEF new
  <2>1. QED
    BY <1>3, <1>4 DEF Previews
<1>6. TakesTurn(p, k, "asked", owner, look)
  BY ChatHears DEF SelectForCancel, Become, Show, TakesTurn
<1> HIDE DEF sel, k, look
<1>7. IsConfirming(db, k, look)
  BY <1>2, <1>3, <1>5 DEF IsConfirming
<1>8. InDialogue(db, k, "asked", owner, look)
  BY <1>2, <1>7 DEF InDialogue, AwaitsOneThing
<1>9. QED
  BY <1>2, <1>5, <1>6, <1>8, ChatHears, QuietTurn DEF Turns

LEMMA SelectForUpdateKeeps ==
  ASSUME CInv, NEW p \in Chats, NEW owner \in Owners, NEW h \in History,
         NEW s \in Snapshot,
         \A c \in h.candidates : IsTrueOf(db, c.id, c.row),
         h.awaiting \ {"selection"} = {}, Hears(p, owner), SelectForUpdate(p, h, s),
         UNCHANGED serviceVars
  PROVE  KeepsWord(p)
<1> DEFINE sel == SetSelected(h, "update", s)
<1>1. /\ sel \in History /\ sel.action = "update" /\ sel.candidates = h.candidates
      /\ sel.selected = s.id /\ sel.changes = h.changes /\ sel.awaiting = {}
  BY SelectedHistory
<1>2. s.id \in RowIds
  BY SnapshotsType
<1>3. /\ shown = [shown EXCEPT ![p] = shown[p]]
      /\ shown[p] \in Previews \cup {Nothing}
      /\ actor' = [actor EXCEPT ![p] = owner] /\ pc[p] = "idle"
  BY ChatHears, SameAsItWas DEF CInv
<1>4. CASE h.changes # NoChanges
  <2>1. TakesTurn(p, sel, "previewing", owner, shown[p])
    BY <1>3, <1>4 DEF SelectForUpdate, Become, TakesTurn
  <2> HIDE DEF sel
  <2>2. InDialogue(db, sel, "previewing", owner, shown[p])
    BY <1>1, <1>2, <1>4 DEF InDialogue, IsPreviewing
  <2>3. QED
    BY <1>1, <1>3, <2>1, <2>2, QuietTurn DEF Turns
<1>5. CASE h.changes = NoChanges
  <2> DEFINE k == AwaitChanges(sel)
  <2>1. TakesTurn(p, k, "asked", owner, shown[p])
    BY <1>3, <1>5 DEF SelectForUpdate, Become, TakesTurn
  <2> HIDE DEF sel
  <2>2. /\ k \in History /\ k.action = "update" /\ k.candidates = h.candidates
        /\ k.selected = s.id /\ k.awaiting = {"changes"}
    BY <1>1, AwaitingHistories
  <2> HIDE DEF k
  <2>3. InDialogue(db, k, "asked", owner, shown[p])
    BY <1>2, <2>2 DEF InDialogue, AwaitsOneThing, IsChanging
  <2>4. QED
    BY <1>3, <2>1, <2>2, <2>3, QuietTurn DEF Turns
<1>6. QED
  BY <1>4, <1>5

-----------------------------------------------------------------------------
(* The messages of a customer *)

LEMMA StartQueryKeeps ==
  ASSUME CInv, NEW p \in Chats, NEW owner \in Owners, StartQuery(p, owner)
  PROVE  KeepsWord(p)
<1>1. Hears(p, owner) /\ UNCHANGED <<serviceVars, shown>>
  BY DEF StartQuery
<1>2. PICK found \in SearchResults(owner) :
        \/ Become(p, StoreCandidates(Inactive, "get", found), "asked")
        \/ Become(p, Inactive, "done")
  BY DEF StartQuery
<1>3. QED
  BY <1>1, <1>2, InactiveType, ListKeeps, NothingKeeps

LEMMA StartCancelKeeps ==
  ASSUME CInv, NEW p \in Chats, NEW owner \in Owners, StartCancel(p, owner)
  PROVE  KeepsWord(p)
<1>1. Hears(p, owner) /\ UNCHANGED serviceVars
  BY DEF StartCancel
<1>2. PICK found \in SearchResults(owner) :
        \/ Become(p, Inactive, "done") /\ UNCHANGED shown
        \/ /\ Become(p, StoreCandidates(Inactive, "cancel", found), "asked")
           /\ UNCHANGED shown
        \/ \E s \in found : SelectForCancel(p, Inactive, s)
  BY DEF StartCancel
<1>3. CASE Become(p, Inactive, "done") /\ UNCHANGED shown
  BY <1>1, <1>3, InactiveType, NothingKeeps
<1>4. CASE /\ Become(p, StoreCandidates(Inactive, "cancel", found), "asked")
           /\ UNCHANGED shown
  BY <1>1, <1>4, InactiveType, ListKeeps
<1>5. ASSUME NEW s \in found, SelectForCancel(p, Inactive, s) PROVE KeepsWord(p)
  <2>1. s \in Snapshot /\ IsTrueOf(db, s.id, s.row)
    BY FoundRows DEF CInv
  <2>2. QED
    BY <1>1, <1>5, <2>1, InactiveType, SelectForCancelKeeps
<1>6. QED
  BY <1>2, <1>3, <1>4, <1>5

LEMMA StartUpdateKeeps ==
  ASSUME CInv, NEW p \in Chats, NEW owner \in Owners, StartUpdate(p, owner)
  PROVE  KeepsWord(p)
<1>1. Hears(p, owner) /\ UNCHANGED serviceVars
  BY DEF StartUpdate
<1>2. PICK wish \in Wishes \cup {NoChanges}, found \in SearchResults(owner) :
        LET h == [Inactive EXCEPT !.changes = wish] IN
        \/ Become(p, h, "done") /\ UNCHANGED shown
        \/ /\ Become(p, StoreCandidates(h, "update", found), "asked")
           /\ UNCHANGED shown
        \/ \E s \in found : SelectForUpdate(p, h, s)
  BY DEF StartUpdate
<1> DEFINE h == [Inactive EXCEPT !.changes = wish]
<1>3. h \in History /\ IsIdle(h) /\ h.candidates = {} /\ h.awaiting = {}
  BY InactiveType, NoChangesType, ChatAssumption, ChangedHistory DEF IsIdle
<1>4. CASE Become(p, h, "done") /\ UNCHANGED shown
  BY <1>1, <1>3, <1>4, NothingKeeps
<1>5. CASE Become(p, StoreCandidates(h, "update", found), "asked") /\ UNCHANGED shown
  BY <1>1, <1>3, <1>5, ListKeeps
<1>6. ASSUME NEW s \in found, SelectForUpdate(p, h, s) PROVE KeepsWord(p)
  <2>1. s \in Snapshot
    BY FoundRows DEF CInv
  <2>2. QED
    BY <1>1, <1>3, <1>6, <2>1, SelectForUpdateKeeps
<1>7. QED
  BY <1>2, <1>4, <1>5, <1>6

LEMMA HandleSelectionKeeps ==
  ASSUME CInv, NEW p \in Chats, NEW owner \in Owners, HandleSelection(p, owner)
  PROVE  KeepsWord(p)
<1>1. Hears(p, owner) /\ UNCHANGED serviceVars /\ "selection" \in history[p].awaiting
  BY DEF HandleSelection
<1>2. /\ pc[p] = "idle" /\ actor' = [actor EXCEPT ![p] = owner]
      /\ AwaitsOneThing(db, history[p], shown[p]) /\ history[p] \in History
      /\ history[p].candidates \in SUBSET Snapshot
      /\ \A s \in history[p].candidates : IsTrueOf(db, s.id, s.row)
  BY <1>1, ChatHears
<1>3. history[p].awaiting \ {"selection"} = {}
  BY <1>1, <1>2 DEF AwaitsOneThing, IsIdle, IsChoosing, IsChanging, IsConfirming
<1>4. PICK s \in history[p].candidates :
        \/ Leave(p)
        \/ SelectForCancel(p, history[p], s)
        \/ SelectForUpdate(p, history[p], s)
  BY DEF HandleSelection
<1>5. s \in Snapshot /\ IsTrueOf(db, s.id, s.row)
  BY <1>2
<1>6. CASE Leave(p)
  BY <1>1, <1>2, <1>6, LeaveKeeps
<1>7. CASE SelectForCancel(p, history[p], s)
  BY <1>1, <1>2, <1>3, <1>5, <1>7, SelectForCancelKeeps
<1>8. CASE SelectForUpdate(p, history[p], s)
  BY <1>1, <1>2, <1>3, <1>5, <1>8, SelectForUpdateKeeps
<1>9. QED
  BY <1>4, <1>6, <1>7, <1>8

LEMMA ChooseAgainKeeps ==
  ASSUME CInv, NEW p \in Chats, NEW owner \in Owners, ChooseAgain(p, owner)
  PROVE  KeepsWord(p)
<1> DEFINE h == history[p]
           k == [h EXCEPT !.awaiting = (@ \ {"confirmation"}) \cup {"selection"}]
<1>1. /\ Hears(p, owner) /\ h.action = "cancel" /\ "confirmation" \in h.awaiting
      /\ Become(p, k, "asked") /\ UNCHANGED <<serviceVars, shown>>
  BY DEF ChooseAgain
<1>2. /\ pc[p] = "idle" /\ actor' = [actor EXCEPT ![p] = owner]
      /\ AwaitsOneThing(db, h, shown[p]) /\ h \in History
      /\ \A s \in h.candidates : IsTrueOf(db, s.id, s.row)
  BY <1>1, ChatHears
<1>3. h.awaiting = {"confirmation"}
  BY <1>1, <1>2 DEF AwaitsOneThing, IsIdle, IsChoosing, IsChanging, IsConfirming
<1>4. /\ k \in History /\ k.action = "cancel" /\ k.candidates = h.candidates
      /\ k.awaiting = {"selection"}
  <2>1. h \in History
    BY <1>2
  <2> HIDE DEF h
  <2>2. QED
    BY <1>1, <1>3, <2>1 DEF History
<1>5. TakesTurn(p, k, "asked", owner, shown[p]) /\ shown[p] \in Previews \cup {Nothing}
  BY <1>1, <1>2, SameAsItWas DEF Become, TakesTurn, CInv
<1> HIDE DEF k
<1>6. InDialogue(db, k, "asked", owner, shown[p])
  BY <1>2, <1>4 DEF InDialogue, AwaitsOneThing, IsChoosing
<1>7. QED
  BY <1>1, <1>2, <1>4, <1>5, <1>6, QuietTurn DEF Turns

LEMMA HandleChangesKeeps ==
  ASSUME CInv, NEW p \in Chats, NEW owner \in Owners, HandleChanges(p, owner)
  PROVE  KeepsWord(p)
<1>1. /\ Hears(p, owner) /\ history[p].action = "update"
      /\ history[p].awaiting \cap {"changes", "confirmation"} # {}
      /\ UNCHANGED <<serviceVars, shown>>
  BY DEF HandleChanges
<1>2. /\ pc[p] = "idle" /\ actor' = [actor EXCEPT ![p] = owner]
      /\ AwaitsOneThing(db, history[p], shown[p]) /\ history[p] \in History
      /\ \A s \in history[p].candidates : IsTrueOf(db, s.id, s.row)
  BY <1>1, ChatHears
<1>3. /\ history[p].awaiting \in {{"changes"}, {"confirmation"}}
      /\ history[p].selected \in RowIds
  BY <1>1, <1>2 DEF AwaitsOneThing, IsIdle, IsChoosing, IsChanging, IsConfirming
<1>4. PICK wish \in Wishes \cup {NoChanges}, vague \in BOOLEAN :
        LET h == AwaitChanges([history[p] EXCEPT !.changes = Merged(@, wish)]) IN
        Become(p, h, IF vague \/ h.changes = NoChanges THEN "asked" ELSE "previewing")
  BY DEF HandleChanges
<1> DEFINE changes == Merged(history[p].changes, wish)
           g == [history[p] EXCEPT !.changes = changes]
           h == AwaitChanges(g)
           t == IF vague \/ h.changes = NoChanges THEN "asked" ELSE "previewing"
<1>5. changes \in Changes
  BY <1>2, NoChangesType, ChatAssumption, MergedType DEF History
<1>6. /\ g \in History /\ g.action = "update" /\ g.candidates = history[p].candidates
      /\ g.selected = history[p].selected /\ g.awaiting = history[p].awaiting
  <2> HIDE DEF changes
  <2>1. QED
    BY <1>1, <1>2, <1>5, ChangedHistory
<1>7. Become(p, h, t)
  <2>1. g = [history[p] EXCEPT !.changes = Merged(@, wish)]
    OBVIOUS
  <2>2. QED
    BY <1>4, <2>1
<1> HIDE DEF g
<1>8. /\ h \in History /\ h.action = "update" /\ h.candidates = history[p].candidates
      /\ h.selected = history[p].selected /\ h.awaiting = {"changes"}
  BY <1>3, <1>6, AwaitingHistories
<1> HIDE DEF h
<1>9. TakesTurn(p, h, t, owner, shown[p]) /\ shown[p] \in Previews \cup {Nothing}
  BY <1>1, <1>2, <1>7, SameAsItWas DEF Become, TakesTurn, CInv
<1>10. InDialogue(db, h, t, owner, shown[p])
  BY <1>2, <1>3, <1>8
     DEF InDialogue, AwaitsOneThing, IsChanging, IsPreviewing
<1>11. t \in Turns \ {"writing"}
  BY DEF Turns
<1>12. QED
  BY <1>1, <1>2, <1>8, <1>9, <1>10, <1>11, QuietTurn

LEMMA ConfirmKeeps ==
  ASSUME CInv, NEW p \in Chats, NEW owner \in Owners, Confirm(p, owner)
  PROVE  KeepsWord(p)
<1> DEFINE h == history[p]
           r == RequestOf(owner, h)
<1>1. /\ Hears(p, owner) /\ "confirmation" \in h.awaiting /\ Submit(p, r)
      /\ Become(p, h, "writing") /\ UNCHANGED shown
  BY DEF Confirm, RequestOf
<1>2. /\ actor' = [actor EXCEPT ![p] = owner]
      /\ AwaitsOneThing(db, h, shown[p]) /\ h \in History
      /\ \A s \in h.candidates : IsTrueOf(db, s.id, s.row)
  BY <1>1, ChatHears
<1>3. IsConfirming(db, h, shown[p])
  BY <1>1, <1>2 DEF AwaitsOneThing, IsIdle, IsChoosing, IsChanging
<1>4. TakesTurn(p, h, "writing", owner, shown[p]) /\ shown[p] \in Previews \cup {Nothing}
  BY <1>1, <1>2, SameAsItWas DEF Become, TakesTurn, CInv
<1>5. r \in Request
  BY <1>2, <1>3, RequestOfType DEF IsConfirming
<1>6. AnyStep(p)
  BY <1>1, <1>5, ChatAssumption DEF AnyStep
<1>7. /\ ChatTypes' /\ ConcernsOnly(p)
      /\ history'[p] = h /\ turn'[p] = "writing" /\ actor'[p] = owner
      /\ shown'[p] = shown[p]
  BY <1>2, <1>4, TurnFrame DEF CInv, Turns
<1>8. db' = db /\ pc'[p] = "waiting" /\ req'[p] = r
  BY <1>1, ChatAssumption DEF Submit, Goto, CInv, IInv, TypeOK
<1>9. InDialogue(db, h, "writing", owner, shown[p])
  BY <1>2, <1>3 DEF InDialogue
<1>10. ChatOK(p)'
  BY <1>7, <1>8, <1>9 DEF ChatOK, InTransaction, Steps
<1>11. QED
  BY <1>6, <1>7, <1>10 DEF KeepsWord

LEMMA QuitKeeps ==
  ASSUME CInv, NEW p \in Chats, NEW owner \in Owners, Quit(p, owner)
  PROVE  KeepsWord(p)
BY ChatHears, LeaveKeeps DEF Quit

-----------------------------------------------------------------------------
(* The rest of a turn *)

(* Who asks makes no difference to what an update comes to. *)
LEMMA AnyonesProposal ==
  ASSUME NEW d, NEW h, NEW a, NEW b
  PROVE  Proposal(d, UpdateOf(a, h)) = Proposal(d, UpdateOf(b, h))
<1> DEFINE r == UpdateOf(a, h)
           q == UpdateOf(b, h)
<1>1. /\ r.id = q.id /\ r.stylist = q.stylist /\ r.service = q.service
      /\ r.day = q.day /\ r.time = q.time
  BY DEF UpdateOf
<1> HIDE DEF r, q
<1>2. Proposal(d, r) = Proposal(d, q)
  BY <1>1 DEF Proposal
<1>3. QED
  BY <1>2 DEF r, q

LEMMA AcceptedIsPreviewed ==
  ASSUME CInv, NEW h \in History, h.selected \in RowIds, NEW a \in Owners,
         UpdateVerdict(db, UpdateOf(a, h)) = "proceed"
  PROVE  LET look == [old |-> NoRow, new |-> Proposal(db, UpdateOf(a, h))] IN
         look \in Previews /\ WasPreviewed(db, h, look)
<1> DEFINE r == UpdateOf(a, h)
           new == Proposal(db, r)
           look == [old |-> NoRow, new |-> new]
<1>1. /\ r \in UpdateRequest /\ r.op = "update" /\ r.id = h.selected
      /\ r.version = h.version
  BY RequestOfType DEF UpdateOf, VersionSeen
<1>2. db \in Database
  BY DEF CInv, IInv, TypeOK
<1>3. UpdateVerdict(db, r) = "proceed"
  OBVIOUS
<1> HIDE DEF r
<1>4. Accepted(db, r)
  BY <1>1, <1>2, <1>3, ProceedMeansAccepted DEF Request, Verdict
<1>5. /\ db.appts[r.id] # NoRow /\ db.appts[r.id].version = r.version
      /\ Pick(r.service, db.appts[r.id].service) \in Services
      /\ Pick(r.stylist, db.appts[r.id].stylist) \in Stylists
  BY <1>1, <1>4 DEF Accepted, OwnedBy
<1>6. new \in Appointment /\ new.version = db.appts[r.id].version
  BY <1>1, <1>2, <1>5, ProposalType
<1>7. db.appts[r.id] \in Appointment
  BY <1>1, <1>2, <1>5, StoredRowType
<1>8. HasReached(db, h.selected, h.version)
  BY <1>1, <1>5, <1>7 DEF HasReached, Appointment
<1>9. \A owner \in Owners : new = Proposal(db, UpdateOf(owner, h))
  BY AnyonesProposal DEF r
<1>10. look \in Previews /\ look.new = new
  <2> HIDE DEF new
  <2>1. QED
    BY <1>6 DEF Previews
<1> HIDE DEF look
<1>11. look \in Previews /\ WasPreviewed(db, h, look)
  BY <1>1, <1>5, <1>6, <1>8, <1>9, <1>10 DEF WasPreviewed
<1>12. QED
  BY <1>11 DEF look, r

LEMMA PreviewKeeps ==
  ASSUME CInv, NEW p \in Chats, Preview(p)
  PROVE  KeepsWord(p)
<1> DEFINE h == history[p]
           a == actor[p]
           r == UpdateOf(a, h)
           reset == [h EXCEPT !.changes = NoChanges]
           k == AwaitChanges(reset)
           look == [old |-> NoRow, new |-> Proposal(db, r)]
<1>1. /\ turn[p] = "previewing" /\ UNCHANGED <<serviceVars, actor>>
      /\ \/ Leave(p)
         \/ Become(p, k, "asked") /\ UNCHANGED shown
         \/ /\ UpdateVerdict(db, r) = "proceed"
            /\ Become(p, h, "comparing")
            /\ shown' = [shown EXCEPT ![p] = look]
  BY DEF Preview, PreviewStatuses, Show
<1>2. /\ IsPreviewing(h) /\ a \in Owners /\ pc[p] = "idle"
      /\ \A c \in h.candidates : IsTrueOf(db, c.id, c.row)
  BY <1>1 DEF CInv, ChatOK, InDialogue, InTransaction
<1>3. /\ h \in History /\ h.selected \in RowIds /\ h.action = "update"
      /\ h.awaiting \in {{}, {"changes"}}
  BY <1>2 DEF IsPreviewing, CInv, ChatTypes
<1>4. /\ actor' = [actor EXCEPT ![p] = a]
      /\ shown = [shown EXCEPT ![p] = shown[p]]
      /\ shown[p] \in Previews \cup {Nothing}
  BY <1>1, SameAsItWas DEF CInv
<1>5. CASE Leave(p)
  BY <1>1, <1>2, <1>4, <1>5, LeaveKeeps
<1>6. CASE Become(p, k, "asked") /\ UNCHANGED shown
  <2>1. TakesTurn(p, k, "asked", a, shown[p])
    BY <1>4, <1>6 DEF Become, TakesTurn
  <2>2. /\ reset \in History /\ reset.action = "update"
        /\ reset.candidates = h.candidates /\ reset.selected = h.selected
        /\ reset.awaiting = h.awaiting
    BY <1>3, ChangedHistory, NoChangesType
  <2> HIDE DEF reset
  <2>3. /\ k \in History /\ k.action = "update" /\ k.candidates = h.candidates
        /\ k.selected = h.selected /\ k.awaiting = {"changes"}
    BY <1>3, <2>2, AwaitingHistories
  <2> HIDE DEF k
  <2>4. InDialogue(db, k, "asked", a, shown[p])
    BY <1>2, <1>3, <2>3 DEF InDialogue, AwaitsOneThing, IsChanging
  <2>5. QED
    BY <1>1, <1>2, <1>4, <2>1, <2>3, <2>4, QuietTurn DEF Turns
<1>7. CASE /\ UpdateVerdict(db, r) = "proceed"
           /\ Become(p, h, "comparing")
           /\ shown' = [shown EXCEPT ![p] = look]
  <2>1. look \in Previews /\ WasPreviewed(db, h, look)
    BY <1>2, <1>3, <1>7, AcceptedIsPreviewed
  <2>2. TakesTurn(p, h, "comparing", a, look)
    BY <1>4, <1>7 DEF Become, TakesTurn
  <2> HIDE DEF look
  <2>3. InDialogue(db, h, "comparing", a, look)
    BY <1>2, <2>1 DEF InDialogue
  <2>4. QED
    BY <1>1, <1>2, <1>3, <2>1, <2>2, <2>3, QuietTurn DEF Turns
<1>8. QED
  BY <1>1, <1>5, <1>6, <1>7

LEMMA CompareKeeps ==
  ASSUME CInv, NEW p \in Chats, Compare(p)
  PROVE  KeepsWord(p)
<1> DEFINE h == history[p]
           a == actor[p]
           k == AwaitConfirmation(h)
           row == db.appts[h.selected]
           look == [old |-> row, new |-> shown[p].new]
<1>1. /\ turn[p] = "comparing" /\ UNCHANGED <<serviceVars, actor>>
      /\ \/ Leave(p)
         \/ /\ OwnedBy(db, h.selected, a)
            /\ Become(p, k, "asked")
            /\ shown' = [shown EXCEPT ![p] = look]
  BY DEF Compare, Show
<1>2. /\ IsPreviewing(h) /\ WasPreviewed(db, h, shown[p]) /\ a \in Owners
      /\ pc[p] = "idle"
      /\ \A c \in h.candidates : IsTrueOf(db, c.id, c.row)
  BY <1>1 DEF CInv, ChatOK, InDialogue, InTransaction
<1>3. /\ h \in History /\ h.selected \in RowIds /\ h.action = "update"
      /\ h.changes # NoChanges /\ h.awaiting \in {{}, {"changes"}}
  BY <1>2 DEF IsPreviewing, CInv, ChatTypes
<1>4. actor' = [actor EXCEPT ![p] = a]
  BY <1>1, SameAsItWas DEF CInv
<1>5. CASE Leave(p)
  BY <1>1, <1>2, <1>4, <1>5, LeaveKeeps
<1>6. CASE Become(p, k, "asked") /\ shown' = [shown EXCEPT ![p] = look]
  <2>1. TakesTurn(p, k, "asked", a, look)
    BY <1>4, <1>6 DEF Become, TakesTurn
  <2>2. /\ k \in History /\ k.action = "update" /\ k.candidates = h.candidates
        /\ k.selected = h.selected /\ k.version = h.version
        /\ k.changes = h.changes /\ k.awaiting = {"confirmation"}
    BY <1>3, AwaitingHistories
  <2>3. \A owner \in Owners : UpdateOf(owner, k) = UpdateOf(owner, h)
    BY <2>2 DEF UpdateOf, VersionSeen
  <2>4. /\ row \in Appointment /\ h.version <= row.version
        /\ shown[p] \in Previews /\ shown[p].new.version = h.version
    BY <1>2, <1>3 DEF WasPreviewed, HasReached, History, Appointment
  <2>5. /\ look \in Previews /\ look.old = row /\ look.new = shown[p].new
    <3>1. shown[p].new \in Appointment
      BY <2>4 DEF Previews
    <3> HIDE DEF row
    <3>2. QED
      BY <2>4, <3>1 DEF Previews
  <2> HIDE DEF k, look
  <2>6. WasPreviewed(db, k, look)
    BY <1>2, <2>2, <2>3, <2>5 DEF WasPreviewed
  <2>7. IsConfirming(db, k, look)
    BY <1>3, <2>2, <2>4, <2>5, <2>6 DEF IsConfirming, IsTrueOf
  <2>8. InDialogue(db, k, "asked", a, look)
    BY <1>2, <2>2, <2>7 DEF InDialogue, AwaitsOneThing
  <2>9. QED
    BY <1>1, <1>2, <1>4, <2>1, <2>2, <2>5, <2>8, QuietTurn DEF Turns
<1>7. QED
  BY <1>1, <1>5, <1>6

LEMMA WriteKeeps ==
  ASSUME CInv, NEW p \in Chats, Write(p)
  PROVE  KeepsWord(p)
<1>1. /\ turn[p] = "writing" /\ Serve(p) /\ pc[p] # "answering"
      /\ UNCHANGED <<history, turn, actor, shown>>
  BY DEF Write, chatVars
<1>2. p \in Clients /\ AnyStep(p) /\ [AnyNext]_vars
  BY <1>1, ChatAssumption DEF AnyStep, AnyNext
<1>3. ChatTypes' /\ ConcernsOnly(p)
  BY <1>1 DEF CInv, ChatTypes, ConcernsOnly
<1>4. InDialogue(db, history[p], turn[p], actor[p], shown[p]) /\ InTransaction(p)
  BY DEF CInv, ChatOK
<1>5. InDialogue(db', history[p], turn[p], actor[p], shown[p])
  BY <1>2, <1>4, DialogueStays, SameAsItWas DEF CInv
<1>6. pc'[p] \in Steps \ {"idle", "cut_off"} /\ req'[p] = req[p]
  BY <1>1, <1>2, <1>4, ServeGoesOn DEF InTransaction, CInv
<1>7. ChatOK(p)'
  BY <1>1, <1>4, <1>5, <1>6 DEF ChatOK, InTransaction
<1>8. QED
  BY <1>2, <1>3, <1>7 DEF KeepsWord

LEMMA ConcludeKeeps ==
  ASSUME CInv, NEW p \in Chats, Conclude(p)
  PROVE  KeepsWord(p)
<1>1. /\ turn[p] = "writing" /\ Deliver(p) /\ UNCHANGED actor
      /\ TakesTurn(p, Inactive, "done", actor[p], Nothing)
  BY SameAsItWas DEF Conclude, Leave, Become, TakesTurn, CInv
<1>2. p \in Clients /\ AnyStep(p)
  BY <1>1, ChatAssumption DEF AnyStep, Serve
<1>3. /\ ChatTypes' /\ ConcernsOnly(p)
      /\ history'[p] = Inactive /\ turn'[p] = "done" /\ actor'[p] = actor[p]
      /\ shown'[p] = Nothing
  BY <1>1, InactiveType, SameAsItWas, TurnFrame DEF CInv, Turns
<1>4. pc'[p] = "idle"
  BY <1>1, <1>2 DEF Deliver, Goto, CInv, IInv, TypeOK
<1>5. InDialogue(db', Inactive, "done", actor[p], Nothing)
  BY InactiveType DEF InDialogue, AwaitsOneThing
<1>6. ChatOK(p)'
  BY <1>3, <1>4, <1>5 DEF ChatOK, InTransaction
<1>7. QED
  BY <1>2, <1>3, <1>6 DEF KeepsWord

(* The end of a turn, heard or not. *)
LEMMA EndOfTurnKeeps ==
  ASSUME CInv, NEW p \in Chats, Reply(p) \/ Disconnect(p)
  PROVE  KeepsWord(p)
<1>1. /\ turn[p] \in {"asked", "done"} /\ UNCHANGED <<serviceVars, shown>>
      /\ \E h \in {Inactive, history[p]} : EndTurn(p, h, "quiet")
  BY DEF Reply, Disconnect
<1>2. PICK h \in {Inactive, history[p]} : EndTurn(p, h, "quiet")
  BY <1>1
<1>3. /\ pc[p] = "idle" /\ AwaitsOneThing(db, history[p], shown[p])
      /\ \A c \in history[p].candidates : IsTrueOf(db, c.id, c.row)
  BY <1>1 DEF CInv, ChatOK, InDialogue, InTransaction
<1>4. h \in History
  BY InactiveType, SameAsItWas DEF CInv
<1>5. TakesTurn(p, h, "quiet", Nobody, shown[p]) /\ shown[p] \in Previews \cup {Nothing}
  BY <1>1, <1>2, SameAsItWas DEF EndTurn, Become, TakesTurn, CInv
<1>6. InDialogue(db, h, "quiet", Nobody, shown[p])
  BY <1>2, <1>3, InactiveType DEF InDialogue, AwaitsOneThing
<1>7. QED
  BY <1>1, <1>3, <1>4, <1>5, <1>6, QuietTurn DEF Turns

LEMMA DieKeeps ==
  ASSUME CInv, NEW p \in Chats, Die(p)
  PROVE  KeepsWord(p)
<1>1. TakesTurn(p, Inactive, "dead", Nobody, Nothing)
  BY DEF Die, EndTurn, Become, TakesTurn
<1>2. InDialogue(db, Inactive, "dead", Nobody, Nothing)
  BY InactiveType DEF InDialogue
<1>3. CASE pc[p] = "idle" /\ UNCHANGED serviceVars
  BY <1>1, <1>2, <1>3, InactiveType, QuietTurn DEF Turns
<1>4. CASE CutOff(p)
  <2>1. p \in Clients /\ AnyStep(p)
    BY <1>4, ChatAssumption DEF AnyStep
  <2>2. /\ ChatTypes' /\ ConcernsOnly(p)
        /\ history'[p] = Inactive /\ turn'[p] = "dead" /\ actor'[p] = Nobody
        /\ shown'[p] = Nothing
    BY <1>1, InactiveType, TurnFrame DEF CInv, Turns
  <2>3. db' = db /\ pc'[p] = "cut_off"
    BY <1>4, <2>1 DEF CutOff, CInv, IInv, TypeOK
  <2>4. ChatOK(p)'
    BY <1>2, <2>2, <2>3 DEF ChatOK, InTransaction
  <2>5. QED
    BY <2>1, <2>2, <2>4 DEF KeepsWord
<1>5. QED
  BY <1>3, <1>4 DEF Die

LEMMA RestartKeeps ==
  ASSUME CInv, NEW p \in Chats, Restart(p)
  PROVE  KeepsWord(p)
<1> DEFINE a == actor[p]
           s == shown[p]
<1>1. /\ TakesTurn(p, Inactive, "quiet", a, s)
      /\ a \in Owners \cup {Nobody} /\ s \in Previews \cup {Nothing}
  BY SameAsItWas DEF Restart, Become, TakesTurn, CInv
<1>2. \A d : InDialogue(d, Inactive, "quiet", a, s)
  BY InactiveType DEF InDialogue, AwaitsOneThing
<1>3. CASE pc[p] = "idle" /\ UNCHANGED serviceVars
  BY <1>1, <1>2, <1>3, InactiveType, QuietTurn DEF Turns
<1>4. CASE GiveUp(p)
  <2>1. p \in Clients /\ AnyStep(p)
    BY <1>4, ChatAssumption DEF AnyStep
  <2>2. /\ ChatTypes' /\ ConcernsOnly(p)
        /\ history'[p] = Inactive /\ turn'[p] = "quiet" /\ actor'[p] = a
        /\ shown'[p] = s
    BY <1>1, InactiveType, TurnFrame DEF CInv, Turns
  <2>3. db' = db /\ pc'[p] = "idle"
    BY <1>4, <2>1 DEF GiveUp, Goto, CInv, IInv, TypeOK
  <2>4. ChatOK(p)'
    BY <1>2, <2>2, <2>3 DEF ChatOK, InTransaction
  <2>5. QED
    BY <2>1, <2>2, <2>4 DEF KeepsWord
<1>5. QED
  BY <1>3, <1>4 DEF Restart

-----------------------------------------------------------------------------
(* The inductive invariant *)

LEMMA ChatInitOK == ChatInit => CInv
<1> SUFFICES ASSUME ChatInit PROVE CInv
  OBVIOUS
<1>1. IInv
  BY InitOK DEF ChatInit
<1>2. ChatTypes
  BY InactiveType DEF ChatInit, ChatTypes, Turns
<1>3. ASSUME NEW p \in Chats PROVE ChatOK(p)
  <2>1. /\ history[p] = Inactive /\ turn[p] = "quiet" /\ pc[p] = "idle"
    BY <1>3, ChatAssumption DEF ChatInit, Init
  <2>2. QED
    BY <2>1, InactiveType DEF ChatOK, InDialogue, InTransaction, AwaitsOneThing
<1>4. QED
  BY <1>1, <1>2, <1>3 DEF CInv

LEMMA ChatStepKeepsWord ==
  ASSUME CInv, NEW p \in Chats, ChatStep(p)
  PROVE  KeepsWord(p)
<1>1. CASE Message(p)
  <2>1. PICK owner \in Owners :
          \/ StartQuery(p, owner) \/ StartCancel(p, owner) \/ StartUpdate(p, owner)
          \/ HandleSelection(p, owner) \/ ChooseAgain(p, owner)
          \/ HandleChanges(p, owner) \/ Confirm(p, owner) \/ Quit(p, owner)
    BY <1>1 DEF Message
  <2>2. QED
    BY <2>1, StartQueryKeeps, StartCancelKeeps, StartUpdateKeeps, HandleSelectionKeeps,
       ChooseAgainKeeps, HandleChangesKeeps, ConfirmKeeps, QuitKeeps
<1>2. CASE Preview(p) \/ Compare(p) \/ Write(p) \/ Conclude(p)
  BY <1>2, PreviewKeeps, CompareKeeps, WriteKeeps, ConcludeKeeps
<1>3. CASE Reply(p) \/ Disconnect(p) \/ Die(p) \/ Restart(p)
  BY <1>3, EndOfTurnKeeps, DieKeeps, RestartKeeps
<1>4. QED
  BY <1>1, <1>2, <1>3 DEF ChatStep

(* To the tables, chats are clients like others. *)
LEMMA ChatNextIsAny ==
  CInv /\ [ChatNext]_allVars => [AnyNext]_vars
<1> SUFFICES ASSUME CInv, [ChatNext]_allVars PROVE [AnyNext]_vars
  OBVIOUS
<1>1. CASE Elsewhere
  <2>1. Next
    BY <1>1 DEF Elsewhere, Next
  <2>2. QED
    BY <2>1, NextIsAny
<1>2. ASSUME NEW p \in Chats, ChatStep(p) PROVE [AnyNext]_vars
  BY <1>2, ChatStepKeepsWord, ChatAssumption DEF KeepsWord, AnyNext
<1>3. CASE UNCHANGED allVars
  BY <1>3 DEF allVars, serviceVars, vars
<1>4. QED
  BY <1>1, <1>2, <1>3 DEF ChatNext

LEMMA ChatNextKeeps == CInv /\ [ChatNext]_allVars => CInv'
<1> SUFFICES ASSUME CInv, [ChatNext]_allVars PROVE CInv'
  OBVIOUS
<1>1. [AnyNext]_vars /\ IInv'
  BY ChatNextIsAny, AnyKeeps DEF CInv
<1>2. CASE UNCHANGED chatVars /\ \A p \in Chats : pc'[p] = pc[p] /\ req'[p] = req[p]
  <2>1. ChatTypes'
    BY <1>2 DEF CInv, ChatTypes, chatVars
  <2>2. ASSUME NEW p \in Chats PROVE ChatOK(p)'
    BY <1>1, <1>2, <2>2, SilentChat DEF CInv, chatVars
  <2>3. QED
    BY <1>1, <2>1, <2>2 DEF CInv
<1>3. CASE Elsewhere
  <2>1. UNCHANGED chatVars
    BY <1>3 DEF Elsewhere
  <2>2. CASE Tick
    BY <1>2, <2>1, <2>2 DEF Tick
  <2>3. ASSUME NEW c \in Clients \ Chats, Serve(c) \/ Environment(c)
        PROVE  CInv'
    <3>1. AnyStep(c)
      BY <2>3, StepIsAny
    <3>2. \A p \in Chats : pc'[p] = pc[p] /\ req'[p] = req[p]
      BY <3>1, OthersWait, ChatAssumption DEF CInv
    <3>3. QED
      BY <1>2, <2>1, <3>2
  <2>4. QED
    BY <1>3, <2>2, <2>3 DEF Elsewhere
<1>4. ASSUME NEW p \in Chats, ChatStep(p) PROVE CInv'
  <2>1. KeepsWord(p)
    BY <1>4, ChatStepKeepsWord
  <2>2. ASSUME NEW q \in Chats \ {p} PROVE ChatOK(q)'
    <3>1. pc'[q] = pc[q] /\ req'[q] = req[q]
      BY <2>1, HandlersWait, ChatAssumption DEF KeepsWord, CInv
    <3>2. /\ history'[q] = history[q] /\ turn'[q] = turn[q]
          /\ actor'[q] = actor[q] /\ shown'[q] = shown[q]
      BY <2>1 DEF KeepsWord, ConcernsOnly
    <3>3. QED
      BY <1>1, <3>1, <3>2, SilentChat DEF CInv
  <2>3. QED
    BY <1>1, <2>1, <2>2 DEF KeepsWord, CInv
<1>5. CASE UNCHANGED allVars
  BY <1>2, <1>5 DEF allVars, serviceVars
<1>6. QED
  BY <1>3, <1>4, <1>5 DEF ChatNext

-----------------------------------------------------------------------------
(* Safety *)

(* In every reachable state of chats and other clients the tables are      *)
(* consistent, the handlers in order, and every dialogue on solid ground.  *)
THEOREM ChatsInvariantHolds == ChatSpec => []CInv
BY ChatInitOK, ChatNextKeeps, PTL DEF ChatSpec

(* What the chats make up as they go cannot bring the tables out of step:  *)
(* no stylist is booked twice, and appointments and schedules agree.       *)
THEOREM ChatsKeepTheTables ==
  ChatSpec => [](NoDoubleBooking /\ AppointmentsMirrorSchedules)
<1>1. CInv => NoDoubleBooking /\ AppointmentsMirrorSchedules
  BY DEF CInv, IInv, Consistent, NoDoubleBooking, AppointmentsMirrorSchedules
<1>2. QED
  BY <1>1, ChatsInvariantHolds, PTL

(* Nor lose an update: a row changes only by a commit of its own owner,    *)
(* who named the version it had.                                           *)
THEOREM ChatsLoseNoUpdate == ChatSpec => NoLostUpdate
<1> DEFINE Advances ==
      \A id \in Rows(db.appts) : db'.appts[id] # db.appts[id] => ChangedByItsOwner(id)
<1>1. CInv /\ [ChatNext]_allVars => [Advances]_vars
  <2> SUFFICES ASSUME CInv, [ChatNext]_allVars PROVE Advances
    OBVIOUS
  <2>1. [AnyNext]_vars /\ IInv
    BY ChatNextIsAny DEF CInv
  <2>2. QED
    BY <2>1, RowsOnlyAdvance
<1>2. QED
  BY <1>1, ChatsInvariantHolds, PTL DEF ChatSpec, NoLostUpdate

(* Seen from the appointments table, chats and other clients together do   *)
(* nothing but enter, move and release claims that fit.                    *)
THEOREM ChatsImplementBook == ChatSpec => ImplementsSalonBook
<1>1. CInv /\ [ChatNext]_allVars => [Book!Next]_BookOfClaims
  BY ChatNextIsAny, StepRefines DEF CInv
<1>2. ChatInit => Book!Init
  BY InitRefines DEF ChatInit
<1>3. QED
  BY <1>1, <1>2, ChatsInvariantHolds, PTL DEF ChatSpec, ImplementsSalonBook, Book!Spec

(* Between messages a chat waits for one thing at a time, and has what it  *)
(* takes to go on with it.                                                 *)
THEOREM FlowStaysCoherent == ChatSpec => []FlowIsCoherent
<1>1. CInv => FlowIsCoherent
  <2> SUFFICES ASSUME CInv, NEW p \in Chats, turn[p] = "quiet"
               PROVE  LET h == history[p] IN
                      \/ h.awaiting = {} /\ h.action = "none" /\ h.selected = NoRow
                      \/ h.awaiting = {"selection"} /\ h.action # "none"
                      \/ /\ h.awaiting = {"changes"}
                         /\ h.action = "update" /\ h.selected \in RowIds
                      \/ /\ h.awaiting = {"confirmation"}
                         /\ h.action = "cancel" \/ h.changes # NoChanges
                         /\ shown[p] # Nothing
                         /\ h.version <= shown[p].old.version
                         /\ h.version = shown[p].new.version
    BY DEF FlowIsCoherent
  <2> DEFINE h == history[p]
             s == shown[p]
  <2>1. AwaitsOneThing(db, h, s)
    BY DEF CInv, ChatOK, InDialogue
  <2>2. CASE IsConfirming(db, h, s)
    <3>1. s \in Previews /\ s # Nothing /\ s.old \in Appointment
      BY <2>2, ChatAssumption DEF IsConfirming, Previews
    <3>2. [s.old EXCEPT !.status = "cancelled"].version = s.old.version
      BY <3>1 DEF Appointment
    <3>3. h.version = s.new.version
      BY <2>2, <3>2 DEF IsConfirming, WasPreviewed
    <3>4. QED
      BY <2>2, <3>1, <3>3 DEF IsConfirming
  <2>3. QED
    BY <2>1, <2>2 DEF AwaitsOneThing, IsIdle, IsChoosing, IsChanging
<1>2. QED
  BY <1>1, ChatsInvariantHolds, PTL

LEMMA VersionsAside ==
  ASSUME NEW row \in Appointment
  PROVE  Unversioned(NextVersion(row)) = Unversioned(row)
BY DEF Unversioned, NextVersion, Appointment

(* The commit of a chat's transaction does what the chat has shown. *)
LEMMA CommitOfAChat ==
  ASSUME CInv, NEW p \in Chats, Commit(p)
  PROVE  LET id == history[p].selected IN
         /\ shown[p] # Nothing
         /\ db.appts[id] = shown[p].old
         /\ Unversioned(db'.appts[id]) = Unversioned(shown[p].new)
<1> DEFINE h == history[p]
           s == shown[p]
           a == actor[p]
           id == h.selected
           old == db.appts[id]
<1>1. pc[p] = "committing" /\ p \in Clients /\ IInv
  BY ChatAssumption DEF Commit, CInv
<1>2. ChatOK(p) /\ turn[p] \in Turns /\ h \in History
  BY SameAsItWas DEF CInv
<1>3. turn[p] = "writing" /\ req[p] = RequestOf(a, h)
  BY <1>1, <1>2 DEF ChatOK, InTransaction
<1>4. IsConfirming(db, h, s) /\ a \in Owners
  BY <1>2, <1>3 DEF ChatOK, InDialogue
<1>5. /\ id \in RowIds /\ s \in Previews /\ s.old \in Appointment
      /\ h.version <= s.old.version /\ IsTrueOf(db, id, s.old)
      /\ h.action \in {"cancel", "update"}
  BY <1>4 DEF IsConfirming
<1>6. /\ req[p].op = h.action /\ req[p].id = id /\ req[p].version = h.version
  BY <1>3, <1>5 DEF RequestOf, CancelOf, UpdateOf, VersionSeen
<1>7. /\ old \in Appointment /\ old.version = h.version
      /\ db'.appts[id] = Outcome(db, req[p])
  BY <1>1, <1>5, <1>6, CommitFacts DEF Target
<1>8. old = s.old
  <2>1. old.version \in Nat /\ s.old.version \in Nat
    BY <1>5, <1>7 DEF Appointment
  <2>2. QED
    BY <1>5, <1>7, <2>1 DEF IsTrueOf
<1>9. s # Nothing
  BY <1>5, ChatAssumption DEF Previews
<1>10. s.new \in Appointment
  BY <1>5 DEF Previews
<1>11. db'.appts[id] = NextVersion(s.new)
  <2>1. CASE h.action = "cancel"
    BY <1>4, <1>6, <1>7, <1>8, <2>1 DEF Outcome, CancelledAppointment, IsConfirming
  <2>2. CASE h.action = "update"
    <3>1. s.new = Proposal(db, UpdateOf(a, h))
      BY <1>4, <1>7, <2>2 DEF IsConfirming, WasPreviewed
    <3>2. req[p] = UpdateOf(a, h)
      BY <1>3, <2>2 DEF RequestOf
    <3>3. QED
      BY <1>6, <1>7, <2>2, <3>1, <3>2 DEF Outcome, UpdatedAppointment
  <2>3. QED
    BY <1>5, <2>1, <2>2
<1>12. QED
  BY <1>8, <1>9, <1>10, <1>11, VersionsAside

(* What a customer was shown and has confirmed is what is done, whoever    *)
(* wrote in between and however often the customer changed their mind.     *)
THEOREM WhatIsConfirmedIsDone == ChatSpec => ConfirmedIsApplied
<1> DEFINE Applied ==
      \A p \in Chats :
        pc[p] = "committing" /\ db' # db /\ pc'[p] = "answering" =>
          LET id == history[p].selected IN
          /\ shown[p] # Nothing
          /\ db.appts[id] = shown[p].old
          /\ Unversioned(db'.appts[id]) = Unversioned(shown[p].new)
<1>1. CInv /\ [ChatNext]_allVars => [Applied]_allVars
  <2> SUFFICES ASSUME CInv, [ChatNext]_allVars, NEW p \in Chats,
                      pc[p] = "committing", db' # db, pc'[p] = "answering"
               PROVE  LET id == history[p].selected IN
                      /\ shown[p] # Nothing
                      /\ db.appts[id] = shown[p].old
                      /\ Unversioned(db'.appts[id]) = Unversioned(shown[p].new)
    OBVIOUS
  <2>1. PICK c \in Clients : Commit(c)
    BY ChatNextIsAny, OnlyCommitWrites
  <2>2. c = p
    <3>1. AnyStep(c) /\ IInv /\ p \in Clients
      BY <2>1, ChatAssumption DEF AnyStep, Serve, CInv
    <3>2. ASSUME c # p PROVE pc'[p] = pc[p]
      BY <3>1, <3>2, OthersWait
    <3>3. QED
      BY <3>2
  <2>3. QED
    BY <2>1, <2>2, CommitOfAChat
<1>2. QED
  BY <1>1, ChatsInvariantHolds, PTL DEF ChatSpec, ConfirmedIsApplied
=============================================================================
