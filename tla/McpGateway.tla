----------------------------- MODULE McpGateway -----------------------------
(***************************************************************************)
(* The gateway to the knowledge service, services/                         *)
(* mcp_knowledge_gateway.py: one object per application that starts a      *)
(* server process, keeps the session with it, and lends it to whoever has  *)
(* a question.  The application starts it and stops it at the end          *)
(* (app.py); in between an operator may have it reconnected                *)
(* (api/knowledge.py), while consultations query it (api/consultation.py,  *)
(* agents/consultant/knowledge_retriever.py).                              *)
(*                                                                         *)
(* Queries wait for the gateway's lock, start and stop do not.  Every      *)
(* await is a step: what the handlers of the other requests do then is     *)
(* seen when the handler goes on.                                          *)
(***************************************************************************)
EXTENDS Naturals, Sequences, FiniteSets

CONSTANTS
  App,           \* the application's lifespan
  Reconnectors,  \* requests to reconnect
  Askers,        \* requests that query
  Servers,       \* server processes, numbered as they are started
  None           \* no server, no session, no holder

ASSUME GatewayAssumption ==
  /\ Reconnectors \cap Askers = {}
  /\ App \notin Reconnectors \cup Askers
  /\ IsFiniteSet(Servers)
  /\ Servers = 1 .. Cardinality(Servers)
  /\ None \notin Servers \cup Askers

Managers == {App} \cup Reconnectors
Handlers == Managers \cup Askers

VARIABLES
  launched,  \* how many servers have been started so far
  alive,     \* the server processes that run
  hung,      \* those of them that have stopped answering
  emptied,   \* servers whose exit stack has been, or is being, closed
  broken,    \* servers whose exit stack raised when it was closed
  stack,     \* _exit_stack, by its server
  session,   \* _session, by its server
  lock,      \* who holds _lock
  queue,     \* who waits for it, in order
  pc,        \* where each handler stands
  mine,      \* the server that a handler is dealing with
  overlapped \* history: two reconnects have been under way at once

vars == <<launched, alive, hung, emptied, broken, stack, session, lock, queue, pc,
          mine, overlapped>>
servers == <<launched, alive, hung, emptied, broken>>
gateway == <<stack, session>>
queries == <<lock, queue>>

Goto(p, step) == pc' = [pc EXCEPT ![p] = step]
Take(p, s) == mine' = [mine EXCEPT ![p] = s]

-----------------------------------------------------------------------------
(* start *)

(* A session there is, or the configuration is refused: nothing happens.   *)
StartEndsAtOnce(p) ==
  /\ pc[p] = "starting"
  /\ Goto(p, "idle")
  /\ UNCHANGED <<servers, gateway, queries, mine, overlapped>>

Spawn(p) ==
  /\ pc[p] = "starting"
  /\ session = None
  /\ launched < Cardinality(Servers)
  /\ launched' = launched + 1
  /\ alive' = alive \cup {launched'}
  /\ Take(p, launched')
  /\ Goto(p, "opening")
  /\ UNCHANGED <<hung, emptied, broken, gateway, queries, overlapped>>

(* The server has initialized and offers the tool that is required.        *)
Publish(p) ==
  /\ pc[p] = "opening"
  /\ mine[p] \in alive \ hung
  /\ stack' = mine[p]
  /\ session' = mine[p]
  /\ Take(p, None)
  /\ Goto(p, "idle")
  /\ UNCHANGED <<servers, queries, overlapped>>

(* Faulty: what was opened stays open. *)
FailWithoutClosing(p) ==
  /\ pc[p] = "opening"
  /\ session' = None
  /\ Take(p, None)
  /\ Goto(p, "idle")
  /\ UNCHANGED <<servers, stack, queries, overlapped>>

(* It has not, or does not, or cannot be talked to. *)
OpeningFails(p) ==
  /\ pc[p] = "opening"
  /\ emptied' = emptied \cup {mine[p]}
  /\ Goto(p, "undoing")
  /\ UNCHANGED <<launched, alive, hung, broken, gateway, queries, mine, overlapped>>

Undo(p) ==
  /\ pc[p] = "undoing"
  /\ alive' = alive \ {mine[p]}
  /\ hung' = hung \ {mine[p]}
  /\ session' = None
  /\ Take(p, None)
  /\ Goto(p, "idle")
  /\ UNCHANGED <<launched, emptied, broken, stack, queries, overlapped>>

-----------------------------------------------------------------------------
(* stop, and what follows it in a reconnect *)

AfterStop(p) == IF p = App THEN "stopped" ELSE "starting"

(* Faulty: the session stays published. *)
ForgetStackOnly(p) ==
  /\ stack' = None
  /\ session' = session
  /\ Take(p, None)
  /\ Goto(p, AfterStop(p))

Forget(p) ==
  /\ stack' = None
  /\ session' = None
  /\ Take(p, None)
  /\ Goto(p, AfterStop(p))

(* Closing a stack for the second time returns at once, even while the     *)
(* first closing is under way.                                             *)
StopAtOnce(p) ==
  /\ pc[p] = "stopping"
  /\ stack \in {None} \cup emptied
  /\ Forget(p)
  /\ UNCHANGED <<servers, queries, overlapped>>

CloseStack(p) ==
  /\ pc[p] = "stopping"
  /\ stack \notin {None} \cup emptied
  /\ emptied' = emptied \cup {stack}
  /\ Take(p, stack)
  /\ Goto(p, "closing")
  /\ UNCHANGED <<launched, alive, hung, broken, gateway, queries, overlapped>>

(* The process has been ended.  What is forgotten is what is there now.    *)
Closed(p) ==
  /\ pc[p] = "closing"
  /\ alive' = alive \ {mine[p]}
  /\ hung' = hung \ {mine[p]}
  /\ Forget(p)
  /\ UNCHANGED <<launched, emptied, broken, queries, overlapped>>

(* The process has been ended, but the stack raises (it was entered by     *)
(* another task), and nothing is forgotten.                                *)
ClosingFails(p) ==
  /\ pc[p] = "closing"
  /\ alive' = alive \ {mine[p]}
  /\ hung' = hung \ {mine[p]}
  /\ broken' = broken \cup {mine[p]}
  /\ Take(p, None)
  /\ Goto(p, IF p = App THEN "stopped" ELSE "idle")
  /\ UNCHANGED <<launched, emptied, gateway, queries, overlapped>>

-----------------------------------------------------------------------------
(* Who starts and stops *)

Serving == pc[App] = "idle"

(* POST /api/knowledge/reconnect, from the knowledge page. *)
Reconnect(p) ==
  /\ Serving
  /\ p \in Reconnectors
  /\ pc[p] = "idle"
  /\ Goto(p, "stopping")
  /\ overlapped' = (overlapped \/ \E q \in Reconnectors : pc[q] # "idle")
  /\ UNCHANGED <<servers, gateway, queries, mine>>

(* The server of the web application waits for the requests it has.        *)
Shutdown ==
  /\ \A p \in Handlers : pc[p] = "idle"
  /\ Goto(App, "stopping")
  /\ UNCHANGED <<servers, gateway, queries, mine, overlapped>>

Manage(p) ==
  \/ StartEndsAtOnce(p) \/ Spawn(p) \/ Publish(p) \/ OpeningFails(p) \/ Undo(p)
  \/ StopAtOnce(p) \/ CloseStack(p) \/ Closed(p) \/ ClosingFails(p)

-----------------------------------------------------------------------------
(* query_knowledge *)

(* Without a session the answer is "unavailable" at once. *)
Ask(a) ==
  /\ Serving
  /\ pc[a] = "idle"
  /\ session # None
  /\ queue' = Append(queue, a)
  /\ Goto(a, "queued")
  /\ UNCHANGED <<servers, gateway, lock, mine, overlapped>>

(* Under the lock the session is looked up again: it may have gone.        *)
Acquire(a) ==
  /\ pc[a] = "queued"
  /\ lock = None
  /\ a = Head(queue)
  /\ queue' = Tail(queue)
  /\ IF session = None
     THEN Goto(a, "idle") /\ UNCHANGED <<lock, mine, overlapped>>
     ELSE Goto(a, "calling") /\ lock' = a /\ Take(a, session)
  /\ UNCHANGED <<servers, gateway, overlapped>>

(* Faulty: the lock is kept when the call raises. *)
EndCallHoldingLock(a) ==
  /\ lock' = IF mine[a] \in alive THEN None ELSE lock
  /\ Take(a, None)
  /\ Goto(a, "idle")
  /\ UNCHANGED <<servers, gateway, queue, overlapped>>

EndCall(a) ==
  /\ lock' = None
  /\ Take(a, None)
  /\ Goto(a, "idle")
  /\ UNCHANGED <<servers, gateway, queue, overlapped>>

(* The server answers, be it that its tool failed. *)
Answered(a) ==
  /\ pc[a] = "calling"
  /\ mine[a] \in alive \ (hung \cup emptied)
  /\ EndCall(a)

(* The session is closed, or its server has died: "unavailable". *)
CallFails(a) ==
  /\ pc[a] = "calling"
  /\ mine[a] \notin alive \ emptied
  /\ EndCall(a)

(* The client of a streaming chat has gone, and the query is cancelled.    *)
Cancel(a) ==
  \/ /\ pc[a] = "queued"
     /\ queue' = SelectSeq(queue, LAMBDA b : b # a)
     /\ Goto(a, "idle")
     /\ UNCHANGED <<servers, gateway, lock, mine, overlapped>>
  \/ pc[a] = "calling" /\ EndCall(a)

-----------------------------------------------------------------------------
(* The servers *)

ServerDies(s) ==
  /\ s \in alive
  /\ alive' = alive \ {s}
  /\ hung' = hung \ {s}
  /\ UNCHANGED <<launched, emptied, broken, gateway, queries, pc, mine, overlapped>>

ServerHangs(s) ==
  /\ s \in alive \ hung
  /\ hung' = hung \cup {s}
  /\ UNCHANGED <<launched, alive, emptied, broken, gateway, queries, pc, mine, overlapped>>

-----------------------------------------------------------------------------

Init ==
  /\ launched = 0
  /\ alive = {} /\ hung = {} /\ emptied = {} /\ broken = {}
  /\ stack = None /\ session = None
  /\ lock = None /\ queue = <<>>
  /\ pc = [p \in Handlers |-> IF p = App THEN "starting" ELSE "idle"]
  /\ mine = [p \in Handlers |-> None]
  /\ overlapped = FALSE

Query(a) == Acquire(a) \/ Answered(a) \/ CallFails(a)

Stopped == pc[App] = "stopped" /\ UNCHANGED vars

Next ==
  \/ \E p \in Managers : Manage(p) \/ Reconnect(p)
  \/ Shutdown
  \/ \E a \in Askers : Ask(a) \/ Query(a) \/ Cancel(a)
  \/ \E s \in Servers : ServerDies(s) \/ ServerHangs(s)
  \/ Stopped

Spec == Init /\ [][Next]_vars

(* The event loop gets back to every handler, and an exit stack ends the   *)
(* process that it closes.  That a server answers is not assumed.          *)
FairSpec ==
  /\ Spec
  /\ \A p \in Managers : WF_vars(Manage(p))
  /\ \A a \in Askers : WF_vars(Query(a))

-----------------------------------------------------------------------------
(* Properties *)

Busy(p) == pc[p] \notin {"idle", "stopped"}

InReach(s) == s = stack \/ \E p \in Managers : mine[p] = s

(* A server process that runs is never lost: whoever stops the gateway can *)
(* end it, or it is in the hands of who is opening or closing it, however  *)
(* opening and closing fail.  This holds until two reconnects overlap:     *)
(* nothing serializes them, and each publishes over, or forgets, whatever  *)
(* the other has put there meanwhile.                                      *)
NoServerIsLost == ~overlapped => \A s \in alive : InReach(s)

(* What the gateway, and so GET /health, reports as connected is a session *)
(* that nobody has closed, except while its closing is under way or after  *)
(* its closing has raised.                                                 *)
ConnectedMeansOpen ==
  session \in emptied =>
    session \in broken \/ \E p \in Managers : pc[p] = "closing" /\ mine[p] = session

(* Every query and every reconnect comes to an end, whatever else starts,  *)
(* stops, dies or is cancelled meanwhile, unless a server hangs for good:  *)
(* a call has no timeout, and holds the lock that all others wait for.     *)
EveryRequestEnds ==
  []<>(hung = {}) =>
    \A p \in Reconnectors \cup Askers : Busy(p) ~> ~Busy(p)

=============================================================================
