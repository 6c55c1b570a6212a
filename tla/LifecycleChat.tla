--------------------------- MODULE LifecycleChat ---------------------------
(***************************************************************************)
(* The dialogue in which a customer looks up, cancels or changes saved     *)
(* appointments: agents/appointment/lifecycle_processor.py as it is called *)
(* by agents/appointment_agent.py, composed with the booking transactions. *)
(* A chat keeps its half of the dialogue in memory, from message to        *)
(* message: what it listed, what was selected and at which version, the    *)
(* changes asked for, and the question it waits to have answered.  In the  *)
(* meantime other clients change the same appointments.                    *)
(*                                                                         *)
(* What a message says is an input; a message that is not understood, or   *)
(* fits none or several of the candidates, changes nothing.                *)
(***************************************************************************)
EXTENDS AppointmentService, FiniteSets

CONSTANTS
  Chats,     \* the clients that are chats
  Days,      \* the days a customer may ask for, or Keep for any
  Wishes,    \* the changes a message may contain
  Nobody,    \* no turn is under way
  Nothing    \* no appointment is shown

Changes == [stylist: Stylists \cup {Keep}, service: Services \cup {Keep},
            day: Nat \cup {Keep}, time: Nat \cup {Keep}]

ASSUME ChatAssumption ==
  /\ Chats \subseteq Clients
  /\ Days \subseteq Nat \cup {Keep}
  /\ Wishes \subseteq Changes
  /\ Nobody \notin Owners
  /\ Nothing \notin [old: Appointment \cup {NoRow}, new: Appointment]

VARIABLES
  history,  \* the lifecycle keys of appointment_history
  turn,     \* where the turn of each chat stands
  actor,    \* whose turn it is: the browser's account or guest id, or Nobody
  shown     \* the appointment last previewed: as it is, as it would be

chatVars == <<history, turn, actor, shown>>
serviceVars == <<db, tx, pc, req, rowId, reply, effects, now>>
allVars == <<serviceVars, chatVars>>

NoChanges == [stylist |-> Keep, service |-> Keep, day |-> Keep, time |-> Keep]

(* No lifecycle operation is under way: clear_state leaves this. *)
Inactive ==
  [action |-> "none", candidates |-> {}, selected |-> NoRow, version |-> 0,
   changes |-> NoChanges, awaiting |-> {}]

-----------------------------------------------------------------------------
(* Reading the database *)

Snapshots(ids) == {[id |-> id, row |-> db.appts[id]] : id \in ids}

Owned(owner) == {id \in RowIds : OwnedBy(db, id, owner)}

(* The query behind list_user_appointments, here for confirmed ones only.  *)
Listed(owner, after, day) ==
  {id \in Owned(owner) :
     /\ db.appts[id].status = "confirmed"
     /\ db.appts[id].start > after
     /\ day = Keep \/ DayOf(db.appts[id].start) = day}

Upcoming(owner, day) == Listed(owner, now, day)

(* What a search can come to: one appointment named by its number, those   *)
(* of a day or all to come, and nothing if the query fails.                *)
SearchResults(owner) ==
  {Snapshots({id}) : id \in Owned(owner)}
    \cup {Snapshots(Upcoming(owner, day)) : day \in Days}
    \cup {{}}

-----------------------------------------------------------------------------
(* Updates of the history *)

StoreCandidates(h, action, found) ==
  [h EXCEPT !.action = action, !.candidates = found, !.awaiting = @ \cup {"selection"}]

(* Faulty: the selection is still awaited. *)
SetSelectedOnly(h, action, s) ==
  [h EXCEPT !.action = action, !.selected = s.id, !.version = s.row.version]

SetSelected(h, action, s) ==
  [h EXCEPT !.action = action, !.selected = s.id, !.version = s.row.version,
            !.awaiting = @ \ {"selection"}]

AwaitChanges(h) == [h EXCEPT !.awaiting = (@ \ {"confirmation"}) \cup {"changes"}]

AwaitConfirmation(h) == [h EXCEPT !.awaiting = (@ \ {"changes"}) \cup {"confirmation"}]

(* dict.update *)
Merged(old, new) ==
  [f \in DOMAIN old |-> IF new[f] = Keep THEN old[f] ELSE new[f]]

(* Faulty: the version is read when the customer confirms. *)
VersionOnFile(h) == db.appts[h.selected].version

VersionSeen(h) == h.version

CancelOf(owner, h) ==
  [op |-> "cancel", owner |-> owner, id |-> h.selected, version |-> VersionSeen(h)]

UpdateOf(owner, h) ==
  [op |-> "update", owner |-> owner, id |-> h.selected, version |-> VersionSeen(h),
   stylist |-> h.changes.stylist, service |-> h.changes.service,
   day |-> h.changes.day, time |-> h.changes.time]

-----------------------------------------------------------------------------
(* A turn *)

Become(p, h, step) ==
  /\ history' = [history EXCEPT ![p] = h]
  /\ turn' = [turn EXCEPT ![p] = step]

Hears(p, owner) == turn[p] = "quiet" /\ actor' = [actor EXCEPT ![p] = owner]

Show(p, old, new) == shown' = [shown EXCEPT ![p] = [old |-> old, new |-> new]]

Leave(p) ==
  /\ Become(p, Inactive, "done")
  /\ shown' = [shown EXCEPT ![p] = Nothing]

(* The appointment is selected, and the customer asked to confirm. *)
SelectForCancel(p, h, s) ==
  /\ Become(p, AwaitConfirmation(SetSelected(h, "cancel", s)), "asked")
  /\ Show(p, s.row, [s.row EXCEPT !.status = "cancelled"])

SelectForUpdate(p, h, s) ==
  LET selected == SetSelected(h, "update", s) IN
  /\ IF h.changes # NoChanges
     THEN Become(p, selected, "previewing")
     ELSE Become(p, AwaitChanges(selected), "asked")
  /\ UNCHANGED shown

(* A search that found one appointment, or none, answers a query. *)
StartQuery(p, owner) ==
  /\ Hears(p, owner)
  /\ history[p] = Inactive
  /\ \E found \in SearchResults(owner) :
       IF Cardinality(found) > 1
       THEN Become(p, StoreCandidates(Inactive, "get", found), "asked")
       ELSE Become(p, Inactive, "done")
  /\ UNCHANGED <<serviceVars, shown>>

StartCancel(p, owner) ==
  /\ Hears(p, owner)
  /\ history[p] = Inactive
  /\ \E found \in SearchResults(owner) :
       \/ /\ found = {}
          /\ Become(p, Inactive, "done")
          /\ UNCHANGED shown
       \/ /\ Cardinality(found) > 1
          /\ Become(p, StoreCandidates(Inactive, "cancel", found), "asked")
          /\ UNCHANGED shown
       \/ \E s \in found : found = {s} /\ SelectForCancel(p, Inactive, s)
  /\ UNCHANGED serviceVars

(* The changes of the first message are kept before anything is searched. *)
StartUpdate(p, owner) ==
  /\ Hears(p, owner)
  /\ history[p] = Inactive
  /\ \E wish \in Wishes \cup {NoChanges}, found \in SearchResults(owner) :
       LET h == [Inactive EXCEPT !.changes = wish] IN
       \/ /\ found = {}
          /\ Become(p, h, "done")
          /\ UNCHANGED shown
       \/ /\ Cardinality(found) > 1
          /\ Become(p, StoreCandidates(h, "update", found), "asked")
          /\ UNCHANGED shown
       \/ \E s \in found : found = {s} /\ SelectForUpdate(p, h, s)
  /\ UNCHANGED serviceVars

(* The message fits one of the candidates. *)
HandleSelection(p, owner) ==
  /\ Hears(p, owner)
  /\ "selection" \in history[p].awaiting
  /\ \E s \in history[p].candidates :
       \/ history[p].action = "get" /\ Leave(p)
       \/ /\ history[p].action = "cancel"
          /\ SelectForCancel(p, history[p], s)
       \/ /\ history[p].action = "update"
          /\ SelectForUpdate(p, history[p], s)
  /\ UNCHANGED serviceVars

(* "Another one", when asked to confirm a cancellation. *)
ChooseAgain(p, owner) ==
  /\ Hears(p, owner)
  /\ history[p].action = "cancel"
  /\ "selection" \notin history[p].awaiting
  /\ "confirmation" \in history[p].awaiting
  /\ Become(p, [history[p] EXCEPT !.awaiting = (@ \ {"confirmation"}) \cup {"selection"}],
            "asked")
  /\ UNCHANGED <<serviceVars, shown>>

(* What to change, or what else instead of what was previewed.  A part of  *)
(* the day is noted, but asked to be made precise (hence no preview).      *)
HandleChanges(p, owner) ==
  /\ Hears(p, owner)
  /\ history[p].action = "update"
  /\ "selection" \notin history[p].awaiting
  /\ history[p].awaiting \cap {"changes", "confirmation"} # {}
  /\ \E wish \in Wishes \cup {NoChanges}, vague \in BOOLEAN :
       LET h == AwaitChanges([history[p] EXCEPT !.changes = Merged(@, wish)]) IN
       /\ vague => wish.time = Keep
       /\ Become(p, h, IF vague \/ h.changes = NoChanges THEN "asked" ELSE "previewing")
  /\ UNCHANGED <<serviceVars, shown>>

(* The refusals after which the customer may ask for something else. *)
Correctable ==
  {"conflict", "invalid_time", "outside_business_hours", "service_not_supported",
   "validation_error"}

(* preview_appointment_update: what an update would come to just now, by a *)
(* transaction that reads and takes no lock.                               *)
PreviewStatuses(r) == {UpdateVerdict(db, r), "persistence_error"}

Preview(p) ==
  /\ turn[p] = "previewing"
  /\ LET r == UpdateOf(actor[p], history[p])
         h == history[p]
     IN \E verdict \in PreviewStatuses(r) :
          \/ /\ verdict = "proceed"
             /\ Become(p, h, "comparing")
             /\ Show(p, NoRow, Proposal(db, r))
          \/ /\ verdict \in Correctable
             /\ Become(p, AwaitChanges([h EXCEPT !.changes = NoChanges]), "asked")
             /\ UNCHANGED shown
          \/ /\ verdict \notin Correctable \cup {"proceed"}
             /\ Leave(p)
  /\ UNCHANGED <<serviceVars, actor>>

(* get_user_appointment, in another transaction, for what it is changed from. *)
Compare(p) ==
  /\ turn[p] = "comparing"
  /\ \/ /\ OwnedBy(db, history[p].selected, actor[p])
        /\ Become(p, AwaitConfirmation(history[p]), "asked")
        /\ Show(p, db.appts[history[p].selected], shown[p].new)
     \/ Leave(p)
  /\ UNCHANGED <<serviceVars, actor>>

(* The customer confirms, and the transaction that writes begins. *)
Confirm(p, owner) ==
  /\ Hears(p, owner)
  /\ "selection" \notin history[p].awaiting
  /\ "changes" \notin history[p].awaiting
  /\ "confirmation" \in history[p].awaiting
  /\ Submit(p, IF history[p].action = "cancel"
               THEN CancelOf(owner, history[p]) ELSE UpdateOf(owner, history[p]))
  /\ Become(p, history[p], "writing")
  /\ UNCHANGED shown

(* Any of the ways to leave, or to answer no: also what becomes of a       *)
(* history that awaits nothing.                                            *)
Quit(p, owner) ==
  /\ Hears(p, owner)
  /\ history[p] # Inactive
  /\ Leave(p)
  /\ UNCHANGED serviceVars

(* A step of the transaction on behalf of the chat. *)
Write(p) ==
  /\ turn[p] = "writing"
  /\ Serve(p)
  /\ pc[p] # "answering"
  /\ UNCHANGED chatVars

(* The transaction has ended, however it did. *)
Conclude(p) ==
  /\ turn[p] = "writing"
  /\ Deliver(p)
  /\ Leave(p)
  /\ UNCHANGED actor

EndTurn(p, h, step) ==
  /\ Become(p, h, step)
  /\ actor' = [actor EXCEPT ![p] = Nobody]

(* The answer is streamed; the operation, if it is over, is reset. *)
Reply(p) ==
  /\ turn[p] \in {"asked", "done"}
  /\ EndTurn(p, IF turn[p] = "done" THEN Inactive ELSE history[p], "quiet")
  /\ UNCHANGED <<serviceVars, shown>>

(* The client has gone: the stream ends where it yields, before the reset. *)
Disconnect(p) ==
  /\ turn[p] \in {"asked", "done"}
  /\ EndTurn(p, history[p], "quiet")
  /\ UNCHANGED <<serviceVars, shown>>

(* The chat's process dies, and its memory is lost. *)
Die(p) ==
  /\ CutOff(p) \/ (pc[p] = "idle" /\ UNCHANGED serviceVars)
  /\ EndTurn(p, Inactive, "dead")
  /\ shown' = [shown EXCEPT ![p] = Nothing]

Restart(p) ==
  /\ turn[p] = "dead"
  /\ GiveUp(p) \/ (pc[p] = "idle" /\ UNCHANGED serviceVars)
  /\ Become(p, Inactive, "quiet")
  /\ UNCHANGED <<actor, shown>>

-----------------------------------------------------------------------------

ChatInit ==
  /\ Init
  /\ history = [p \in Chats |-> Inactive]
  /\ turn = [p \in Chats |-> "quiet"]
  /\ actor = [p \in Chats |-> Nobody]
  /\ shown = [p \in Chats |-> Nothing]

Message(p) ==
  \E owner \in Owners :
    \/ StartQuery(p, owner) \/ StartCancel(p, owner) \/ StartUpdate(p, owner)
    \/ HandleSelection(p, owner) \/ ChooseAgain(p, owner) \/ HandleChanges(p, owner)
    \/ Confirm(p, owner) \/ Quit(p, owner)

ChatStep(p) ==
  \/ Message(p)
  \/ Preview(p) \/ Compare(p) \/ Write(p) \/ Conclude(p)
  \/ Reply(p) \/ Disconnect(p) \/ Die(p) \/ Restart(p)

Elsewhere ==
  /\ Tick \/ \E c \in Clients \ Chats : Serve(c) \/ Environment(c)
  /\ UNCHANGED chatVars

ChatNext == Elsewhere \/ \E p \in Chats : ChatStep(p)

ChatSpec == ChatInit /\ [][ChatNext]_allVars

-----------------------------------------------------------------------------
(* Properties *)

(* A row as a customer sees it. *)
Unversioned(row) == [row EXCEPT !.version = 1]

(* What a customer was shown and has confirmed is what is done: when a     *)
(* chat's transaction commits, the appointment is still the one that was   *)
(* shown, and becomes what was shown, whoever wrote in between and however *)
(* often the customer changed their mind.                                  *)
ConfirmedIsApplied ==
  [][\A p \in Chats :
       pc[p] = "committing" /\ db' # db /\ pc'[p] = "answering" =>
         LET id == history[p].selected IN
         /\ shown[p] # Nothing
         /\ db.appts[id] = shown[p].old
         /\ Unversioned(db'.appts[id]) = Unversioned(shown[p].new)]_allVars

(* Between messages a chat waits for one thing at a time and has what it   *)
(* takes to go on with it: a question to confirm is about the appointment  *)
(* that is selected, at the version that is, and has been shown.           *)
FlowIsCoherent ==
  \A p \in Chats :
    LET h == history[p] IN
    turn[p] = "quiet" =>
      \/ h.awaiting = {} /\ h.action = "none" /\ h.selected = NoRow
      \/ h.awaiting = {"selection"} /\ h.action # "none"
      \/ h.awaiting = {"changes"} /\ h.action = "update" /\ h.selected \in RowIds
      \/ /\ h.awaiting = {"confirmation"}
         /\ h.action = "cancel" \/ h.changes # NoChanges
         /\ shown[p] # Nothing
         /\ h.version <= shown[p].old.version
         /\ h.version = shown[p].new.version

=============================================================================
