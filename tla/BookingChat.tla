---------------------------- MODULE BookingChat -----------------------------
(***************************************************************************)
(* The dialogue in which a customer books: how a message is routed         *)
(* (api/chat_handler.py, agents/task_classification_agent.py and its       *)
(* parts), and what agents/appointment_agent.py and                        *)
(* agents/appointment/appointment_processor.py make of it, composed with   *)
(* the search for free slots and with the booking transactions.  A chat    *)
(* remembers, from message to message, what the customer has asked for so  *)
(* far, the offers it made, and the question it waits to have answered.    *)
(* In the meantime other clients take the slots.                           *)
(*                                                                         *)
(* What a message says is an input, and so is what a language model makes  *)
(* of it: right, wrong or invented.  The dialogue about saved appointments *)
(* is LifecycleChat's.                                                     *)
(***************************************************************************)
EXTENDS AvailabilitySearch

CONSTANTS
  Chats,      \* the clients that are chats
  SessionId,  \* the session id of each chat, which owns what nobody claims
  Speakers,   \* account and guest ids that browsers send
  Messages,   \* what customers may say
  Readings,   \* what the model may answer when it is to read a message
  NoCall,     \* no message is being handled
  Nothing     \* nothing was proposed

Intents == {"create", "search", "consult", "manage", "abort", "other"}

Message == [intent: Intents, day: Nat \cup {Unset}, time: Nat \cup {Unset},
            range: Interval \cup {Unset}, service: Services \cup {Unset},
            stylist: Stylists \cup {Unset}, specialty: BOOLEAN,
            answer: {"yes", "no", "none"}, number: Nat]

(* The JSON of the model: whether it gives a time, the service and the     *)
(* stylist by names that need not exist, a confirmation, and whether the   *)
(* message is off the subject.                                             *)
Reading == [timed: BOOLEAN, service: Services \cup {Unset, Unknown},
            stylist: Stylists \cup {Unset, Unknown},
            answer: {"yes", "no", "none"}, unrelated: BOOLEAN]

ASSUME ChatAssumption ==
  /\ Chats \subseteq Clients
  /\ SessionId \in [Chats -> Owners]
  /\ Speakers \subseteq Owners
  /\ Messages \subseteq Message
  /\ Readings \subseteq Reading
  /\ Nothing \notin Option

VARIABLES
  history,  \* appointment_history: the slots and flags of the dialogue
  state,    \* the SharedState that all agents of a chat look at
  turn,     \* where the turn of each chat stands
  call,     \* the message in hand, and what was passed on with it
  shown,    \* history: the slot proposed last, in this booking flow
  consent,  \* history: whom messages in it named or said yes to, as read
  seen      \* history: the tables as they were while a search reads them

chatVars == <<history, state, turn, call, shown, consent, seen>>
serviceVars == <<db, tx, pc, req, rowId, reply, effects, now>>
allVars == <<serviceVars, chatVars>>

(* reset: nothing is asked for and nothing is pending. *)
Empty ==
  [day |-> Unset, time |-> Unset, range |-> Unset, service |-> Unset,
   stylist |-> Unset, start |-> Unset,
   searching |-> FALSE, sday |-> Unset, stime |-> Unset, srange |-> Unset,
   specialty |-> FALSE, offers |-> <<>>, choosing |-> FALSE, chosen |-> Unset,
   confirming |-> FALSE, over |-> FALSE,
   recommended |-> Unset, asking |-> FALSE, confirmed |-> Unset, declined |-> FALSE]

-----------------------------------------------------------------------------
(* Updates of the history *)

Filled(slot) == slot # Unset

Said(old, new) == IF Filled(new) THEN new ELSE old

ClearPendingRecommendation(h) ==
  [h EXCEPT !.asking = FALSE, !.recommended = Unset, !.confirmed = Unset,
            !.declined = FALSE]

ClearAvailabilityTime(h) == [h EXCEPT !.stime = Unset, !.srange = Unset]

ClearPendingAvailability(h) ==
  [ClearAvailabilityTime(h) EXCEPT
     !.searching = FALSE, !.choosing = FALSE, !.confirming = FALSE,
     !.offers = <<>>, !.chosen = Unset, !.sday = Unset, !.specialty = FALSE]

ClearRequestedTime(h) == [h EXCEPT !.time = Unset, !.range = Unset, !.start = Unset]

FlowComplete(h) == [ClearPendingAvailability(h) EXCEPT !.over = TRUE]

(* A new message that books or searches drops the offers that are pending. *)
Resumed(h, m) ==
  IF \/ m.intent \in {"create", "search"} /\ (h.confirming \/ h.choosing)
     \/ m.intent = "create" /\ h.searching
  THEN ClearPendingAvailability(h) ELSE h

MergeTemporalSlots(h, m) ==
  LET dated == [h EXCEPT !.day = Said(@, m.day)] IN
  IF m.time # Unset THEN [dated EXCEPT !.time = m.time, !.range = Unset] ELSE
  IF m.range # Unset
  THEN [dated EXCEPT !.range = m.range, !.time = Unset, !.start = Unset]
  ELSE dated

BuildValidatedStartTime(h) ==
  IF h.day # Unset /\ h.time # Unset THEN [h EXCEPT !.start = At(h.day, h.time)] ELSE
  IF h.day # Unset \/ h.range # Unset THEN [h EXCEPT !.start = Unset] ELSE h

HasRequiredFields(h) ==
  /\ h.service # Unset
  /\ IF Filled(h.day) \/ Filled(h.time) \/ Filled(h.range)
     THEN Filled(h.day) /\ (Filled(h.time) \/ Filled(h.range))
     ELSE Filled(h.start)

(* Faulty: an exact time is booked with whoever is free. *)
SearchesRangesOnly(h) ==
  h.service # Unset /\ h.day # Unset /\ h.range # Unset /\ h.time = Unset

ShouldSearchAvailability(h) ==
  /\ h.service # Unset
  /\ h.day # Unset
  /\ \/ h.range # Unset /\ h.time = Unset
     \/ h.time # Unset /\ h.stylist = Unset

NothingRead ==
  [timed |-> FALSE, service |-> Unset, stylist |-> Unset, answer |-> "none",
   unrelated |-> FALSE]

(* The model may answer anything, whatever the message says, also what does *)
(* not parse.  Only a plain yes or no to a recommendation is not left to it. *)
DataOf(h, m) ==
  IF h.asking /\ m.answer # "none" THEN {[NothingRead EXCEPT !.answer = m.answer]}
  ELSE Readings \cup {NothingRead}

IsNewAppointmentRequest(data) == data.timed /\ Filled(data.service)

HandleRecommendationResponse(h, data) ==
  CASE data.answer = "yes" /\ h.recommended # Unset ->
         [h EXCEPT !.confirmed = h.recommended, !.asking = FALSE]
    [] data.answer = "no" -> [h EXCEPT !.declined = TRUE, !.asking = FALSE]
    [] OTHER -> h

(* The service is taken from the text, or else from the reading; a name    *)
(* that no service has does not replace one that is known.                 *)
ServiceFrom(old, m, data) ==
  IF Filled(m.service) THEN m.service ELSE
  IF data.service = Unknown /\ old \in Services THEN old ELSE Said(old, data.service)

(* The times are taken from the text, the stylist from the reading as it is. *)
FillSlots(h, m, data) ==
  BuildValidatedStartTime(
    [MergeTemporalSlots(h, m) EXCEPT !.stylist = Said(@, data.stylist),
                                     !.service = ServiceFrom(@, m, data)])

UpdateHistory(h, m, data) ==
  IF h.asking /\ ~IsNewAppointmentRequest(data) THEN HandleRecommendationResponse(h, data) ELSE
  FillSlots(IF h.asking THEN ClearPendingRecommendation(h) ELSE h, m, data)

(* update_history_from_data returns that the booking can go on. *)
IsFinished(old, data, new) ==
  IF old.asking /\ ~IsNewAppointmentRequest(data) THEN ~new.asking
  ELSE HasRequiredFields(new)

-----------------------------------------------------------------------------
(* Searching *)

At1(t) == IF t = Unset THEN Unset ELSE [from |-> t, to |-> t]

(* The message, and the history, as a request to search: a service that    *)
(* does not exist has no key to search by.                                 *)
ParsedMessage(m) ==
  [day |-> m.day, time |-> m.time, range |-> Said(m.range, At1(m.time)),
   service |-> m.service, specialty |-> m.specialty, stylist |-> m.stylist]

ParsedHistory(h) ==
  [day |-> h.day, time |-> h.time, range |-> Said(At1(h.time), h.range),
   service |-> IF h.service = Unknown THEN Unset ELSE h.service,
   specialty |-> h.specialty, stylist |-> h.stylist]

MergeSearch(h, q) ==
  [h EXCEPT !.searching = TRUE, !.sday = Said(@, q.day), !.stime = Said(@, q.time),
            !.srange = Said(@, q.range), !.service = Said(@, q.service),
            !.specialty = @ \/ q.specialty, !.stylist = Said(@, q.stylist)]

SearchOf(h) ==
  [day |-> h.sday, time |-> h.stime, range |-> h.srange, service |-> h.service,
   specialty |-> h.specialty, stylist |-> h.stylist]

Incomplete(h) == ~(h.service \in Services /\ Filled(h.sday) /\ Filled(h.srange))

(* The exact time is past, or the salon is closed then. *)
ExactTimeImpossible(h) ==
  /\ h.stime # Unset
  /\ LET start == At(h.sday, h.stime) IN
     ~IsFuture(start) \/ ~WithinBusinessHours(start, EndOf(start, h.service))

Elapsed(h) == ~IsFuture(At(h.sday, h.srange.to))

(* The schedules are read only for a search that is complete and to come. *)
IsSearchable(h) ==
  ~Incomplete(h) /\ h.sday >= DayOf(now) /\ ~ExactTimeImpossible(h) /\ ~Elapsed(h)

(* What a search that is not made leaves: an impossible time is dropped.   *)
NotSearched(h) ==
  IF ~Incomplete(h) /\ h.sday >= DayOf(now) /\ ExactTimeImpossible(h)
  THEN ClearRequestedTime(ClearAvailabilityTime(h)) ELSE h

-----------------------------------------------------------------------------
(* Choosing *)

(* By number, or else by name and time as far as they are given. *)
Matches(offers, m) ==
  LET named == {i \in DOMAIN offers : offers[i].stylist = m.stylist}
      timed == {i \in DOMAIN offers : TimeOf(offers[i].start) = m.time}
  IN  IF m.number # 0 THEN {m.number} \cap DOMAIN offers ELSE
      IF m.time = Unset THEN named ELSE
      IF named = {} THEN timed ELSE named \cap timed

(* Faulty: the question about the list stays open. *)
SelectWithListOpen(h, i) == [h EXCEPT !.chosen = h.offers[i], !.confirming = TRUE]

Select(h, i) ==
  [h EXCEPT !.chosen = h.offers[i], !.choosing = FALSE, !.confirming = TRUE]

(* Faulty: the first of the list is booked. *)
AcceptFirst(h) ==
  [h EXCEPT !.start = h.offers[1].start, !.service = h.offers[1].service,
            !.stylist = h.offers[1].stylist, !.confirming = FALSE]

AcceptOffer(h) ==
  [h EXCEPT !.start = h.chosen.start, !.service = h.chosen.service,
            !.stylist = h.chosen.stylist, !.confirming = FALSE]

-----------------------------------------------------------------------------
(* A turn *)

Become(p, h, step) ==
  /\ history' = [history EXCEPT ![p] = h]
  /\ turn' = [turn EXCEPT ![p] = step]

Enter(p, s) == state' = [state EXCEPT ![p] = s]

Pass(p, c) == call' = [call EXCEPT ![p] = c]

ForgetProposals(p) ==
  /\ shown' = [shown EXCEPT ![p] = Nothing]
  /\ consent' = [consent EXCEPT ![p] = {}]

Propose(p, option) == shown' = [shown EXCEPT ![p] = option]

(* route_user_message, for a history without lifecycle operation. *)
Route(p, m) ==
  LET h == history[p] IN
  IF \/ m.intent \in {"manage", "abort"}
     \/ h.choosing \/ h.confirming \/ h.searching
     \/ Filled(h.day) \/ Filled(h.time) \/ Filled(h.range) \/ Filled(h.service)
     \/ h.asking /\ m.answer # "none"
     \/ ~h.asking /\ state[p] = "appointment"
     \/ m.intent \in {"create", "search"}
  THEN "appointment" ELSE
  IF m.intent = "consult" THEN "consultation" ELSE "agent"

(* A call made where an error resets the state: by a transition into the   *)
(* flow, or under the classifier.                                          *)
CallOf(p, owner, m, guarded) ==
  [from |-> owner, owner |-> owner, message |-> m, guarded |-> guarded,
   finished |-> FALSE, via |-> "request", search |-> Unset]

(* History: the stylists a message, or the reading of one, names or says   *)
(* yes to.                                                                 *)
Agreed(p, m) ==
  {s \in Stylists :
     \/ m.stylist = s
     \/ /\ m.answer = "yes"
        /\ \/ history[p].recommended = s
           \/ shown[p] # Nothing /\ shown[p].stylist = s}

RouteToAppointment(p) ==
  /\ Enter(p, "appointment")
  /\ Become(p, history[p], "booking")

RouteToConsultation(p) ==
  /\ Enter(p, "consult")
  /\ Become(p, history[p], "consulting")

HandleUnsupportedTask(p) ==
  /\ Become(p, history[p], "asked")
  /\ UNCHANGED state

(* The agent that has the conversation keeps it. *)
RouteByState(p) ==
  /\ Become(p, history[p], CASE state[p] = "classify" -> "classifying"
                             [] state[p] = "appointment" -> "booking"
                             [] state[p] = "consult" -> "consulting")
  /\ UNCHANGED state

Hear(p, owner, m) ==
  /\ turn[p] = "quiet"
  /\ consent' = [consent EXCEPT ![p] = @ \cup Agreed(p, m)]
  /\ \/ /\ Route(p, m) = "appointment"
        /\ Pass(p, CallOf(p, owner, m, state[p] # "appointment"))
        /\ RouteToAppointment(p)
     \/ /\ Route(p, m) = "consultation"
        /\ Pass(p, CallOf(p, owner, m, TRUE))
        /\ RouteToConsultation(p)
     \/ /\ Route(p, m) = "agent"
        /\ Pass(p, CallOf(p, owner, m, TRUE))
        /\ RouteByState(p)
  /\ UNCHANGED <<serviceVars, shown, seen>>

(* The classifier's model names one of the kinds of task. *)
Classify(p) ==
  /\ turn[p] = "classifying"
  /\ RouteToAppointment(p) \/ RouteToConsultation(p) \/ HandleUnsupportedTask(p)
  /\ UNCHANGED <<serviceVars, call, shown, consent, seen>>

(* The unrelated-callbacks take the text only: whoever speaks is not       *)
(* passed on, and a booking falls back to the session's id.                *)
WithoutOwner(p) == [call[p] EXCEPT !.owner = SessionId[p], !.guarded = TRUE]

HandleUnrelated(p, h) ==
  /\ Enter(p, "classify")
  /\ Pass(p, WithoutOwner(p))
  /\ Become(p, h, "classifying")

(* The consultant's model finds the message off its subject, or answers    *)
(* from the knowledge base.                                                *)
Consult(p) ==
  /\ turn[p] = "consulting"
  /\ \/ HandleUnrelated(p, history[p])
     \/ Become(p, history[p], "consulted") /\ UNCHANGED <<state, call>>
  /\ UNCHANGED <<serviceVars, shown, consent, seen>>

-----------------------------------------------------------------------------
(* The booking agent: run_stream, in the order of its conditions *)

Books(p) == turn[p] = "booking"
Heard(p) == call[p].message

(* An operation on a saved appointment that is over within the turn. *)
Manage(p) ==
  /\ Books(p)
  /\ Heard(p).intent = "manage"
  /\ Become(p, Empty, "over")
  /\ UNCHANGED <<serviceVars, state, call, shown, consent, seen>>

Abort(p) ==
  /\ Books(p)
  /\ Heard(p).intent = "abort"
  /\ Become(p, Empty, "asked")
  /\ Enter(p, "classify")
  /\ ForgetProposals(p)
  /\ UNCHANGED <<serviceVars, call, seen>>

IsBooking(p) == Books(p) /\ Heard(p).intent \notin {"manage", "abort"}

(* The history as run_stream goes on with it. *)
Current(p) == Resumed(history[p], Heard(p))

AwaitsChoice(p) == Current(p).choosing /\ ~Current(p).confirming

(* An interaction with offers that ends, or has ended before, is reset. *)
AfterOffers(h) == IF h.over THEN "over" ELSE "asked"

Confirm(p) ==
  /\ IsBooking(p)
  /\ Current(p).confirming
  /\ Heard(p).answer = "yes"
  /\ LET h == AcceptOffer(history[p]) IN
     /\ Become(p, h, "writing")
     /\ Pass(p, [call[p] EXCEPT !.via = "offer"])
     /\ Submit(p, [op |-> "create", owner |-> call[p].owner, stylist |-> h.stylist,
                   service |-> h.service, start |-> h.start,
                   end |-> EndOf(h.start, h.service)])
  /\ UNCHANGED <<state, shown, consent, seen>>

AskAgain(p) ==
  /\ IsBooking(p)
  /\ Current(p).confirming
  /\ Heard(p).answer # "yes"
  /\ LET h == IF Heard(p).answer = "no" THEN FlowComplete(history[p]) ELSE history[p]
     IN  Become(p, h, AfterOffers(h))
  /\ UNCHANGED <<serviceVars, state, call, shown, consent, seen>>

Choose(p) ==
  /\ IsBooking(p)
  /\ AwaitsChoice(p)
  /\ LET h == history[p]
         found == Matches(h.offers, Heard(p))
     IN \/ /\ Heard(p).answer = "no"
           /\ Become(p, FlowComplete(h), "over")
           /\ UNCHANGED shown
        \/ /\ Heard(p).answer # "no"
           /\ Cardinality(found) # 1
           /\ Become(p, h, AfterOffers(h))
           /\ UNCHANGED shown
        \/ /\ Heard(p).answer # "no"
           /\ \E i \in found :
                /\ found = {i}
                /\ Become(p, Select(h, i), AfterOffers(h))
                /\ Propose(p, h.offers[i])
  /\ UNCHANGED <<serviceVars, state, call, consent, seen>>

(* All it takes is in a message that books and names no stylist. *)
DeterministicReady(m) ==
  /\ m.intent = "create"
  /\ Filled(m.day) /\ Filled(m.service)
  /\ Filled(m.time) \/ Filled(m.range)
  /\ ~Filled(m.stylist)
  /\ Filled(m.time) =>
       LET start == At(m.day, m.time) IN
       WithinBusinessHours(start, EndOf(start, m.service))

SearchesAtOnce(p, m) ==
  DeterministicReady(m) \/ m.intent = "search" \/ Current(p).searching

(* The names by which a text is read, if they can be had. *)
Recognised(p) == {Heard(p), [Heard(p) EXCEPT !.stylist = Unset]}

(* handle_availability_search, up to where it goes on to read schedules.   *)
(* A search in progress is what it has still to read, what it found, and,  *)
(* as a history, what it failed to read.  Without the profiles, there is   *)
(* nothing to read.                                                        *)
BeginSearch(p, h) ==
  /\ \/ /\ ~IsSearchable(h)
        /\ Become(p, NotSearched(h), "asked")
        /\ UNCHANGED <<call, seen>>
     \/ /\ IsSearchable(h)
        /\ Become(p, h, "reading")
        /\ LET slots == Slots(SearchOf(h), now) IN
           \E unread \in {slots, {}} :
             Pass(p, [call[p] EXCEPT !.search =
                        [asOf |-> now, unread |-> unread, free |-> {},
                         failed |-> slots \ unread]])
        /\ seen' = [seen EXCEPT ![p] = {db}]
  /\ UNCHANGED <<serviceVars, state, shown, consent>>

SearchMessage(p) ==
  /\ IsBooking(p)
  /\ ~Current(p).confirming /\ ~Current(p).choosing
  /\ \E m \in Recognised(p) :
       /\ SearchesAtOnce(p, m)
       /\ BeginSearch(p, MergeSearch(Current(p), ParsedMessage(m)))

(* One slot more is looked up in the tables as they are by now.  Where the *)
(* tables cannot be read, the stylist counts as not available.             *)
ReadSlot(p) ==
  /\ turn[p] = "reading"
  /\ LET s == call[p].search IN
     \E o \in s.unread :
       /\ \A other \in s.unread \ {o} : IsReadBefore(o, other)
       /\ \/ Pass(p, [call[p] EXCEPT !.search =
                       [s EXCEPT !.unread = @ \ {o},
                                 !.free = IF IsSlotFree(db, o) THEN @ \cup {o} ELSE @]])
          \/ Pass(p, [call[p] EXCEPT !.search =
                       [s EXCEPT !.unread = @ \ {o}, !.failed = @ \cup {o}]])
  /\ UNCHANGED <<serviceVars, history, state, turn, shown, consent, seen>>

EndSearch(p) ==
  /\ turn[p] = "reading"
  /\ call[p].search.unread = {}
  /\ LET offers == OffersOf(call[p].search.free) IN
     Become(p, IF offers = <<>> THEN history[p]
               ELSE [history[p] EXCEPT !.offers = offers, !.choosing = TRUE], "asked")
  /\ Pass(p, [call[p] EXCEPT !.search = Unset])
  /\ seen' = [seen EXCEPT ![p] = {}]
  /\ UNCHANGED <<serviceVars, state, shown, consent>>

NeedsReading(p) ==
  /\ IsBooking(p)
  /\ ~Current(p).confirming /\ ~Current(p).choosing
  /\ ~SearchesAtOnce(p, Heard(p))

(* What is missing is asked for.  What has been announced is not recorded. *)
HandleIncompleteInfo(p, h) == Become(p, h, "asked")

(* The model reads the message, which is merged into the history. *)
Understand(p) ==
  /\ NeedsReading(p)
  /\ \E data \in DataOf(Current(p), Heard(p)) :
       LET old == Current(p)
           h == UpdateHistory(old, Heard(p), data)
           finished == IsFinished(old, data, h)
       IN /\ consent' = [consent EXCEPT ![p] = @ \cup Agreed(p, data)]
          /\ \/ /\ ShouldSearchAvailability(h)
                /\ Become(p, h, "searching")
                /\ UNCHANGED <<state, call>>
             \/ /\ ~ShouldSearchAvailability(h) /\ data.unrelated /\ ~h.asking
                /\ HandleUnrelated(p, h)
             \/ /\ ~ShouldSearchAvailability(h) /\ ~(data.unrelated /\ ~h.asking)
                /\ Pass(p, [call[p] EXCEPT !.finished = finished])
                /\ IF finished \/ HasRequiredFields(h)
                   THEN Become(p, h, "deciding") ELSE HandleIncompleteInfo(p, h)
                /\ UNCHANGED state
  /\ UNCHANGED <<serviceVars, shown, seen>>

SearchHistory(p) ==
  /\ turn[p] = "searching"
  /\ BeginSearch(p, MergeSearch(history[p], ParsedHistory(history[p])))

-----------------------------------------------------------------------------
(* handle_complete_appointment *)

(* Without a service that exists there is no duration, and so no end.      *)
WindowIsValid(h) ==
  /\ h.start # Unset /\ h.service \in Services
  /\ IsFuture(h.start)
  /\ WithinBusinessHours(h.start, EndOf(h.start, h.service))

BookWith(p, s, via) ==
  LET h == history[p] IN
  /\ Become(p, h, "writing")
  /\ Pass(p, [call[p] EXCEPT !.via = via])
  /\ Submit(p, [op |-> "create", owner |-> call[p].owner, stylist |-> s,
                service |-> h.service, start |-> h.start,
                end |-> EndOf(h.start, h.service)])

Decide(p) ==
  /\ turn[p] = "deciding"
  /\ LET h == history[p] IN
     \/ /\ h.declined
        /\ Become(p, h, "declined")
        /\ UNCHANGED <<serviceVars, call>>
     \/ /\ ~h.declined /\ ~WindowIsValid(h)
        /\ Become(p, ClearRequestedTime(h), "asked")
        /\ UNCHANGED <<serviceVars, call>>
     \/ /\ ~h.declined /\ WindowIsValid(h) /\ h.confirmed # Unset
        /\ BookWith(p, h.confirmed, "recommendation")
     \/ /\ ~h.declined /\ WindowIsValid(h) /\ h.confirmed = Unset
        /\ Become(p, h, IF h.asking THEN "asked" ELSE "finding")
        /\ UNCHANGED <<serviceVars, call>>
  /\ UNCHANGED <<state, shown, consent, seen>>

(* The stylist who was asked for is free; or anyone who is, if nobody was. *)
FindStylist(p) ==
  /\ turn[p] = "finding"
  /\ LET h == history[p]
         found == IF h.stylist = Unset
                  THEN StylistsFree(db, h.service, h.start)
                  ELSE FindSpecificStylist(db, h.stylist, h.service, h.start)
     IN \/ \E s \in found : BookWith(p, s, "request")
        \/ /\ found = {}
           /\ Become(p, h, "suggesting")
           /\ UNCHANGED <<serviceVars, call>>
  /\ UNCHANGED <<state, shown, consent, seen>>

(* Another stylist is recommended, to be confirmed. *)
Recommend(p) ==
  /\ turn[p] = "suggesting"
  /\ LET h == history[p]
         others == FindSimilarAvailableStylist(db, h.stylist, h.service, h.start)
     IN \/ \E s \in others :
             /\ Become(p, h, "recommending")
             /\ Propose(p, [stylist |-> s, service |-> h.service, start |-> h.start])
        \/ /\ others = {}
           /\ Become(p, h, "unavailable")
           /\ UNCHANGED shown
  /\ UNCHANGED <<serviceVars, state, call, consent, seen>>

(* History: a search in progress sees what the tables become. *)
WatchTables ==
  seen' = [p \in Chats |-> IF seen[p] = {} THEN {} ELSE seen[p] \cup {db'}]

(* A step of the transaction on behalf of the chat. *)
Write(p) ==
  /\ turn[p] = "writing"
  /\ Serve(p)
  /\ pc[p] # "answering"
  /\ WatchTables
  /\ UNCHANGED <<history, state, turn, call, shown, consent>>

(* The transaction has ended, however it did. *)
Conclude(p) ==
  /\ turn[p] = "writing"
  /\ Deliver(p)
  /\ \/ reply[p] = "success" /\ Become(p, history[p], "reminding")
     \/ reply[p] # "success" /\ call[p].via = "offer"
        /\ Become(p, FlowComplete(history[p]), "over")
     \/ reply[p] # "success" /\ call[p].via # "offer" /\ Become(p, history[p], "refused")
  /\ UNCHANGED <<state, call, shown, consent, seen>>

(* The weather is looked up, or is not to be had: it is a remark only. *)
Remind(p) ==
  /\ turn[p] = "reminding"
  /\ \/ call[p].via = "offer" /\ Become(p, FlowComplete(history[p]), "over")
     \/ call[p].via # "offer" /\ Become(p, history[p], "booked")
  /\ UNCHANGED <<serviceVars, state, call, shown, consent, seen>>

-----------------------------------------------------------------------------
(* How a turn ends *)

DropRecommendation(h) == [h EXCEPT !.confirmed = Unset, !.recommended = Unset]

(* What remains to be done once the answer has been sent. *)
AfterAnswer(p) ==
  LET h == history[p] IN
  CASE turn[p] = "declined" -> [h EXCEPT !.declined = FALSE, !.recommended = Unset]
    [] turn[p] = "recommending" ->
         [h EXCEPT !.recommended = shown[p].stylist, !.asking = TRUE]
    [] turn[p] = "booked" ->
         IF call[p].via = "recommendation" THEN DropRecommendation(h) ELSE h
    [] turn[p] = "refused" ->
         ClearRequestedTime(IF call[p].via = "recommendation"
                            THEN DropRecommendation(h) ELSE h)
    [] turn[p] = "unavailable" -> ClearRequestedTime(h)
    [] OTHER -> h

(* The flow is over: all is forgotten, and the next message is classified. *)
FlowIsOver(p) ==
  \/ turn[p] = "over"
  \/ turn[p] \in {"declined", "booked"} /\ call[p].finished /\ ~AfterAnswer(p).asking

Answering == {"asked", "consulted", "over", "declined", "recommending", "booked",
              "refused", "unavailable"}

EndTurn(p, h, step) ==
  /\ Become(p, h, step)
  /\ call' = [call EXCEPT ![p] = NoCall]

Reply(p) ==
  /\ turn[p] \in Answering
  /\ EndTurn(p, IF FlowIsOver(p) THEN Empty ELSE AfterAnswer(p), "quiet")
  /\ IF FlowIsOver(p) \/ turn[p] = "consulted" THEN Enter(p, "classify") ELSE UNCHANGED state
  /\ IF FlowIsOver(p) THEN ForgetProposals(p) ELSE UNCHANGED <<shown, consent>>
  /\ UNCHANGED <<serviceVars, seen>>

(* The client has gone: the turn is cancelled where it awaits or yields. *)
Disconnect(p) ==
  /\ \/ turn[p] \in Answering \cup {"classifying", "consulting", "reminding"}
     \/ turn[p] = "booking" /\ call[p].guarded
  /\ EndTurn(p, history[p], "quiet")
  /\ UNCHANGED <<serviceVars, state, shown, consent, seen>>

(* A language model, or the knowledge gateway, fails. *)
ModelError(p) ==
  /\ turn[p] \in {"classifying", "consulting"} \/ NeedsReading(p)
  /\ Become(p, IF NeedsReading(p) THEN Current(p) ELSE history[p], "asked")
  /\ IF call[p].guarded THEN Enter(p, "classify") ELSE UNCHANGED state
  /\ UNCHANGED <<serviceVars, call, shown, consent, seen>>

(* The model's JSON is no object: an apology, and nothing is merged. *)
ParseError(p) ==
  /\ NeedsReading(p)
  /\ Become(p, Current(p), "asked")
  /\ UNCHANGED <<serviceVars, state, call, shown, consent, seen>>

(* Where the tables cannot be read, no stylist is found. *)
ReadError(p) ==
  /\ \/ turn[p] = "finding" /\ Become(p, history[p], "suggesting")
     \/ turn[p] = "suggesting" /\ Become(p, history[p], "unavailable")
  /\ UNCHANGED <<serviceVars, state, call, shown, consent, seen>>

(* The process dies, or the session expires: its memory is lost. *)
Die(p) ==
  /\ CutOff(p) \/ (pc[p] = "idle" /\ UNCHANGED serviceVars)
  /\ EndTurn(p, Empty, "dead")
  /\ Enter(p, "classify")
  /\ ForgetProposals(p)
  /\ seen' = [seen EXCEPT ![p] = {}]

Restart(p) ==
  /\ turn[p] = "dead"
  /\ GiveUp(p) \/ (pc[p] = "idle" /\ UNCHANGED serviceVars)
  /\ Become(p, Empty, "quiet")
  /\ UNCHANGED <<state, call, shown, consent, seen>>

-----------------------------------------------------------------------------

ChatInit ==
  /\ Init
  /\ history = [p \in Chats |-> Empty]
  /\ state = [p \in Chats |-> "classify"]
  /\ turn = [p \in Chats |-> "quiet"]
  /\ call = [p \in Chats |-> NoCall]
  /\ shown = [p \in Chats |-> Nothing]
  /\ consent = [p \in Chats |-> {}]
  /\ seen = [p \in Chats |-> {}]

BookingAgent(p) ==
  \/ Manage(p) \/ Abort(p) \/ Confirm(p) \/ AskAgain(p) \/ Choose(p)
  \/ SearchMessage(p) \/ Understand(p) \/ SearchHistory(p) \/ ReadSlot(p) \/ EndSearch(p)
  \/ Decide(p) \/ FindStylist(p) \/ Recommend(p)
  \/ Write(p) \/ Conclude(p) \/ Remind(p)

ChatStep(p) ==
  \/ \E owner \in Speakers, m \in Messages : Hear(p, owner, m)
  \/ Classify(p) \/ Consult(p) \/ BookingAgent(p)
  \/ ModelError(p) \/ ParseError(p) \/ ReadError(p)
  \/ Reply(p) \/ Disconnect(p) \/ Die(p) \/ Restart(p)

(* Somebody else's booking: a transaction that runs while no chat's does,  *)
(* in one step, as AppointmentService shows it to appear.                  *)
BookElsewhere(r) ==
  /\ r.op = "create"
  /\ \A p \in Chats : tx[p] = NoTx
  /\ CreateVerdict(db, r) = "proceed"
  /\ \E id, k \in RowIds :
       LET row == NewAppointment(r) IN
       /\ NextKey(db.appts, id) /\ NextKey(db.scheds, k)
       /\ db' = PutSchedule(PutAppointment(db, id, row), k, NewSchedule(id, row))
  /\ UNCHANGED <<tx, pc, req, rowId, reply, effects, now>>

Elsewhere ==
  /\ \/ Tick /\ UNCHANGED seen
     \/ \E r \in Requests : BookElsewhere(r) /\ WatchTables
  /\ UNCHANGED <<history, state, turn, call, shown, consent>>

ChatNext == Elsewhere \/ \E p \in Chats : ChatStep(p)

ChatSpec == ChatInit /\ [][ChatNext]_allVars

-----------------------------------------------------------------------------
(* Properties *)

CommitsFor(p) == pc[p] = "committing" /\ effects'[p] > effects[p]

Terms(r) == [stylist |-> r.stylist, service |-> r.service, start |-> r.start]

(* A slot chosen from a list of offers is booked exactly as it was last    *)
(* put to the customer, and after they said yes to it: whatever they asked *)
(* for, were offered or left unanswered before.                            *)
OfferIsBookedAsShown ==
  [][\A p \in Chats :
       CommitsFor(p) /\ call[p].via = "offer" =>
         /\ Terms(req[p]) = shown[p]
         /\ Heard(p).answer = "yes"]_allVars

(* A chat chooses no stylist by itself: whoever it books was named in a     *)
(* message of the flow, or proposed and then said yes to, as the messages  *)
(* were read.  It is no better than the reading: a stylist or a yes that   *)
(* the model makes up is booked like one that the customer wrote.          *)
NoStylistIsAssigned ==
  [][\A p \in Chats : CommitsFor(p) => req[p].stylist \in consent[p]]_allVars

(* What a message asks for and gets at once, it gets with the stylist its   *)
(* text names.  The code does not see to that: the text is searched for a  *)
(* stylist's name only on the way to a search.                             *)
BooksWhomTheTextNames ==
  [][\A p \in Chats :
       CommitsFor(p) /\ call[p].via = "request" /\ Filled(Heard(p).stylist) =>
         req[p].stylist = Heard(p).stylist]_allVars

OfferRequest(p, o) ==
  [op |-> "create", owner |-> SessionId[p], stylist |-> o.stylist,
   service |-> o.service, start |-> o.start, end |-> EndOf(o.start, o.service)]

(* Offers rest on one reading of every slot, each at another moment while   *)
(* others book: a slot counts as free only if it was so at some moment of  *)
(* the search, and is passed over only if it was taken at one, or could    *)
(* not be read.  What is offered is, of those found free, the first slots  *)
(* of the stylists who come free first; and a booking of it, unless its    *)
(* time has come by now, would have been accepted at some moment of the    *)
(* search - no more, since it may be gone by the time it is shown.         *)
OffersAreTheBest ==
  [][\A p \in Chats :
       history'[p].offers \notin {history[p].offers, <<>>} =>
         LET s == call[p].search
             slots == Slots(SearchOf(history[p]), s.asOf)
             offers == history'[p].offers
         IN  /\ \A o \in s.free : o \in slots /\ \E d \in seen[p] : IsSlotFree(d, o)
             /\ \A o \in slots \ s.free :
                  o \in s.failed \/ \E d \in seen[p] : ~IsSlotFree(d, o)
             /\ ToSet(offers) = BestOffers(s.free)
             /\ \A o \in ToSet(offers) :
                  IsFuture(o.start) =>
                    \E d \in seen[p] : CreateVerdict(d, OfferRequest(p, o)) = "proceed"]_allVars

(* Between messages the flags of the dialogue agree with each other and    *)
(* with what they are about: of a search, either the choice or the         *)
(* confirmation is open, and each question, however it was reached and     *)
(* whatever was cut off in between, is about something that was shown.     *)
DialogueIsCoherent ==
  \A p \in Chats :
    LET h == history[p] IN
    turn[p] = "quiet" =>
      /\ ~(h.choosing /\ h.confirming)
      /\ h.choosing => h.offers # <<>> /\ h.searching
      /\ h.confirming => h.chosen \in ToSet(h.offers) /\ h.chosen = shown[p]
      /\ h.asking => h.recommended # Unset

(* Whoever agrees to a recommended stylist gets that stylist for what they *)
(* had asked for; and a new request puts the recommendation aside, so that *)
(* nothing else is ever booked with that stylist on the strength of it.    *)
RecommendationIsBookedAsShown ==
  [][\A p \in Chats :
       CommitsFor(p) /\ call[p].via = "recommendation" => Terms(req[p]) = shown[p]]_allVars


=============================================================================
