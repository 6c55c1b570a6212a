-------------------------- MODULE McpGatewayProofs --------------------------
(***************************************************************************)
(* Theorems about the gateway to the knowledge service, for any number of  *)
(* reconnects, queries and servers, however opening and closing fail.      *)
(***************************************************************************)
EXTENDS McpGateway, FiniteSetTheorems, TLAPS

Launched == 1 .. launched

Steps == {"idle", "starting", "opening", "undoing", "stopping", "closing", "stopped",
          "queued", "calling"}

GatewayType ==
  /\ launched \in 0 .. Cardinality(Servers)
  /\ alive \subseteq Launched
  /\ emptied \subseteq Launched
  /\ stack \in Launched \cup {None}
  /\ session \in Launched \cup {None}
  /\ pc \in [Handlers -> Steps]
  /\ mine \in [Handlers -> Launched \cup {None}]
  /\ overlapped \in BOOLEAN

(* A manager deals with a server while it opens or closes it. *)
HoldsAServer(p) == mine[p] # None <=> pc[p] \in {"opening", "undoing", "closing"}

(* A server that is being opened is nobody else's business. *)
OpensItsOwn(p) ==
  pc[p] = "opening" =>
    /\ mine[p] \notin emptied \cup {stack, session}
    /\ \A q \in Managers \ {p} : mine[q] # mine[p]

(* Until two reconnects overlap there is one manager at work at a time: it *)
(* opens a server only when there is none, and what it closes is the one   *)
(* that there is.                                                          *)
OneManager ==
  /\ \A p, q \in Managers : pc[p] # "idle" /\ pc[q] # "idle" => p = q
  /\ stack = session
  /\ \A p \in Managers :
       /\ pc[p] \in {"opening", "undoing"} => stack = None
       /\ pc[p] = "closing" => stack = mine[p]

(* A server whose stack has been closed runs only until the closing ends. *)
EmptiedEnd ==
  \A s \in emptied \cap alive :
    \E p \in Managers : pc[p] \in {"undoing", "closing"} /\ mine[p] = s

GatewayInv ==
  /\ GatewayType
  /\ \A p \in Managers : HoldsAServer(p) /\ OpensItsOwn(p)
  /\ ~overlapped => OneManager /\ EmptiedEnd
  /\ NoServerIsLost
  /\ ConnectedMeansOpen

LEMMA Bounds ==
  /\ Cardinality(Servers) \in Nat
  /\ \A s \in Servers : s \in 1 .. Cardinality(Servers) /\ s # None
  /\ App \in Managers /\ Managers \subseteq Handlers
  /\ \A a \in Askers : a \in Handlers /\ a \notin Managers
BY GatewayAssumption, FS_CardinalityType DEF Managers, Handlers

(* Servers are never mistaken for their absence. *)
LEMMA LaunchedAreServers ==
  ASSUME GatewayType
  PROVE  /\ launched \in Nat /\ launched + 1 \notin Launched
         /\ None \notin Launched /\ None \notin emptied /\ None \notin alive
<1>1. launched \in Nat /\ launched <= Cardinality(Servers)
  BY Bounds DEF GatewayType
<1>2. launched + 1 \notin Launched
  BY <1>1 DEF Launched
<1>3. None \notin Launched
  <2>1. Launched \subseteq Servers
    BY <1>1, Bounds, GatewayAssumption DEF Launched
  <2>2. QED
    BY <2>1, GatewayAssumption
<1>4. QED
  BY <1>1, <1>2, <1>3 DEF GatewayType

(* The actions of a manager: what each changes, and that the invariant is  *)
(* kept, part by part.                                                     *)

LEMMA StartEndsAtOnceKeeps ==
  ASSUME GatewayInv, NEW p \in Managers, StartEndsAtOnce(p)
  PROVE  GatewayInv'
<1>1. /\ pc[p] = "starting" /\ pc'[p] = "idle"
      /\ UNCHANGED <<launched, alive, emptied, broken, stack, session, mine, overlapped>>
      /\ \A q \in Handlers \ {p} : pc'[q] = pc[q] /\ mine'[q] = mine[q]
  BY Bounds DEF GatewayInv, GatewayType, HoldsAServer, Goto, Take, StartEndsAtOnce, servers, gateway
<1>2. GatewayType'
  BY <1>1, LaunchedAreServers, Bounds DEF GatewayInv, GatewayType, Launched, Steps, Goto, Take, StartEndsAtOnce, servers, gateway
<1>3. \A q \in Managers : HoldsAServer(q)' /\ OpensItsOwn(q)'
  BY <1>1, Bounds DEF GatewayInv, GatewayType, HoldsAServer, OpensItsOwn
<1>4. ~overlapped' => OneManager' /\ EmptiedEnd'
  BY <1>1, LaunchedAreServers, Bounds
     DEF GatewayInv, GatewayType, OneManager, EmptiedEnd, HoldsAServer
<1>5. NoServerIsLost'
  BY <1>1, LaunchedAreServers, Bounds
     DEF GatewayInv, NoServerIsLost, InReach, OneManager, EmptiedEnd, HoldsAServer
<1>6. ConnectedMeansOpen'
  BY <1>1, LaunchedAreServers, Bounds DEF GatewayInv, ConnectedMeansOpen, OpensItsOwn
<1>7. QED
  BY <1>2, <1>3, <1>4, <1>5, <1>6 DEF GatewayInv

LEMMA SpawnKeeps ==
  ASSUME GatewayInv, NEW p \in Managers, Spawn(p)
  PROVE  GatewayInv'
<1>1. /\ pc[p] = "starting" /\ pc'[p] = "opening"
      /\ mine'[p] = launched + 1 /\ launched' = launched + 1 /\ launched \in Nat
      /\ session = None /\ alive' = alive \cup {launched + 1}
      /\ UNCHANGED <<emptied, broken, stack, session, overlapped>>
      /\ \A q \in Handlers \ {p} : pc'[q] = pc[q] /\ mine'[q] = mine[q]
  BY Bounds DEF GatewayInv, GatewayType, HoldsAServer, Goto, Take, Spawn, gateway
<1>2. GatewayType'
  BY <1>1, LaunchedAreServers, Bounds DEF GatewayInv, GatewayType, Launched, Steps, Goto, Take, Spawn, gateway
<1>3. \A q \in Managers : HoldsAServer(q)' /\ OpensItsOwn(q)'
  <2>1. launched + 1 \notin Launched \cup {None}
    <3>1. launched + 1 \in Servers
      BY GatewayAssumption, Bounds DEF GatewayInv, GatewayType, Spawn
    <3>2. QED
      BY <3>1, LaunchedAreServers, GatewayAssumption DEF GatewayInv
  <2>2. \A q \in Managers : mine[q] # launched + 1
    BY <2>1, Bounds DEF GatewayInv, GatewayType
  <2>3. launched + 1 \notin emptied \cup {stack, session}
    BY <2>1 DEF GatewayInv, GatewayType
  <2>4. QED
    BY <1>1, <2>1, <2>2, <2>3, Bounds DEF GatewayInv, HoldsAServer, OpensItsOwn
<1>4. ~overlapped' => OneManager' /\ EmptiedEnd'
  BY <1>1, LaunchedAreServers, Bounds
     DEF GatewayInv, GatewayType, OneManager, EmptiedEnd, HoldsAServer
<1>5. NoServerIsLost'
  BY <1>1, LaunchedAreServers, Bounds
     DEF GatewayInv, NoServerIsLost, InReach, OneManager, EmptiedEnd, HoldsAServer
<1>6. ConnectedMeansOpen'
  BY <1>1, LaunchedAreServers, Bounds DEF GatewayInv, ConnectedMeansOpen, OpensItsOwn
<1>7. QED
  BY <1>2, <1>3, <1>4, <1>5, <1>6 DEF GatewayInv

LEMMA PublishKeeps ==
  ASSUME GatewayInv, NEW p \in Managers, Publish(p)
  PROVE  GatewayInv'
<1>1. /\ pc[p] = "opening" /\ pc'[p] = "idle"
      /\ mine'[p] = None /\ stack' = mine[p] /\ session' = mine[p]
      /\ UNCHANGED <<launched, alive, emptied, broken, overlapped>>
      /\ \A q \in Handlers \ {p} : pc'[q] = pc[q] /\ mine'[q] = mine[q]
  BY Bounds DEF GatewayInv, GatewayType, HoldsAServer, Goto, Take, Publish, servers
<1>2. GatewayType'
  BY <1>1, LaunchedAreServers, Bounds DEF GatewayInv, GatewayType, Launched, Steps, Goto, Take, Publish, servers
<1>3. \A q \in Managers : HoldsAServer(q)' /\ OpensItsOwn(q)'
  BY <1>1, Bounds DEF GatewayInv, GatewayType, HoldsAServer, OpensItsOwn
<1>4. ~overlapped' => OneManager' /\ EmptiedEnd'
  BY <1>1, LaunchedAreServers, Bounds
     DEF GatewayInv, GatewayType, OneManager, EmptiedEnd, HoldsAServer
<1>5. NoServerIsLost'
  BY <1>1, LaunchedAreServers, Bounds
     DEF GatewayInv, NoServerIsLost, InReach, OneManager, EmptiedEnd, HoldsAServer
<1>6. ConnectedMeansOpen'
  BY <1>1, LaunchedAreServers, Bounds DEF GatewayInv, ConnectedMeansOpen, OpensItsOwn
<1>7. QED
  BY <1>2, <1>3, <1>4, <1>5, <1>6 DEF GatewayInv

LEMMA OpeningFailsKeeps ==
  ASSUME GatewayInv, NEW p \in Managers, OpeningFails(p)
  PROVE  GatewayInv'
<1>1. /\ pc[p] = "opening" /\ pc'[p] = "undoing"
      /\ mine'[p] = mine[p] /\ mine[p] \in Launched
      /\ emptied' = emptied \cup {mine[p]}
      /\ UNCHANGED <<launched, alive, broken, stack, session, overlapped>>
      /\ \A q \in Handlers \ {p} : pc'[q] = pc[q] /\ mine'[q] = mine[q]
  BY Bounds DEF GatewayInv, GatewayType, HoldsAServer, Goto, Take, OpeningFails, gateway
<1>2. GatewayType'
  BY <1>1, LaunchedAreServers, Bounds DEF GatewayInv, GatewayType, Launched, Steps, Goto, Take, OpeningFails, gateway
<1>3. \A q \in Managers : HoldsAServer(q)' /\ OpensItsOwn(q)'
  BY <1>1, Bounds DEF GatewayInv, GatewayType, HoldsAServer, OpensItsOwn
<1>4. ~overlapped' => OneManager' /\ EmptiedEnd'
  BY <1>1, LaunchedAreServers, Bounds
     DEF GatewayInv, GatewayType, OneManager, EmptiedEnd, HoldsAServer
<1>5. NoServerIsLost'
  BY <1>1, LaunchedAreServers, Bounds
     DEF GatewayInv, NoServerIsLost, InReach, OneManager, EmptiedEnd, HoldsAServer
<1>6. ConnectedMeansOpen'
  BY <1>1, LaunchedAreServers, Bounds DEF GatewayInv, ConnectedMeansOpen, OpensItsOwn
<1>7. QED
  BY <1>2, <1>3, <1>4, <1>5, <1>6 DEF GatewayInv

LEMMA UndoKeeps ==
  ASSUME GatewayInv, NEW p \in Managers, Undo(p)
  PROVE  GatewayInv'
<1>1. /\ pc[p] = "undoing" /\ pc'[p] = "idle"
      /\ mine'[p] = None /\ alive' = alive \ {mine[p]} /\ session' = None
      /\ UNCHANGED <<launched, emptied, broken, stack, overlapped>>
      /\ \A q \in Handlers \ {p} : pc'[q] = pc[q] /\ mine'[q] = mine[q]
  BY Bounds DEF GatewayInv, GatewayType, HoldsAServer, Goto, Take, Undo
<1>2. GatewayType'
  BY <1>1, LaunchedAreServers, Bounds DEF GatewayInv, GatewayType, Launched, Steps, Goto, Take, Undo
<1>3. \A q \in Managers : HoldsAServer(q)' /\ OpensItsOwn(q)'
  BY <1>1, Bounds DEF GatewayInv, GatewayType, HoldsAServer, OpensItsOwn
<1>4. ~overlapped' => OneManager' /\ EmptiedEnd'
  BY <1>1, LaunchedAreServers, Bounds
     DEF GatewayInv, GatewayType, OneManager, EmptiedEnd, HoldsAServer
<1>5. NoServerIsLost'
  BY <1>1, LaunchedAreServers, Bounds
     DEF GatewayInv, NoServerIsLost, InReach, OneManager, EmptiedEnd, HoldsAServer
<1>6. ConnectedMeansOpen'
  BY <1>1, LaunchedAreServers, Bounds DEF GatewayInv, ConnectedMeansOpen, OpensItsOwn
<1>7. QED
  BY <1>2, <1>3, <1>4, <1>5, <1>6 DEF GatewayInv

LEMMA StopAtOnceKeeps ==
  ASSUME GatewayInv, NEW p \in Managers, StopAtOnce(p)
  PROVE  GatewayInv'
<1>1. /\ pc[p] = "stopping" /\ pc'[p] \in {"stopped", "starting"}
      /\ mine[p] = None /\ mine'[p] = None
      /\ stack \in {None} \cup emptied /\ stack' = None /\ session' = None
      /\ UNCHANGED <<launched, alive, emptied, broken, overlapped>>
      /\ \A q \in Handlers \ {p} : pc'[q] = pc[q] /\ mine'[q] = mine[q]
  BY Bounds DEF GatewayInv, GatewayType, HoldsAServer, Goto, Take, StopAtOnce, Forget, AfterStop, servers
<1>2. GatewayType'
  BY <1>1, LaunchedAreServers, Bounds DEF GatewayInv, GatewayType, Launched, Steps, Goto, Take, StopAtOnce, Forget, AfterStop, servers
<1>3. \A q \in Managers : HoldsAServer(q)' /\ OpensItsOwn(q)'
  BY <1>1, Bounds DEF GatewayInv, GatewayType, HoldsAServer, OpensItsOwn
<1>4. ~overlapped' => OneManager' /\ EmptiedEnd'
  BY <1>1, LaunchedAreServers, Bounds
     DEF GatewayInv, GatewayType, OneManager, EmptiedEnd, HoldsAServer
<1>5. NoServerIsLost'
  BY <1>1, LaunchedAreServers, Bounds
     DEF GatewayInv, NoServerIsLost, InReach, OneManager, EmptiedEnd, HoldsAServer
<1>6. ConnectedMeansOpen'
  BY <1>1, LaunchedAreServers, Bounds DEF GatewayInv, ConnectedMeansOpen, OpensItsOwn
<1>7. QED
  BY <1>2, <1>3, <1>4, <1>5, <1>6 DEF GatewayInv

LEMMA CloseStackKeeps ==
  ASSUME GatewayInv, NEW p \in Managers, CloseStack(p)
  PROVE  GatewayInv'
<1>1. /\ pc[p] = "stopping" /\ pc'[p] = "closing"
      /\ mine[p] = None /\ mine'[p] = stack /\ stack \in Launched
      /\ stack # None /\ emptied' = emptied \cup {stack}
      /\ UNCHANGED <<launched, alive, broken, stack, session, overlapped>>
      /\ \A q \in Handlers \ {p} : pc'[q] = pc[q] /\ mine'[q] = mine[q]
  BY Bounds DEF GatewayInv, GatewayType, HoldsAServer, Goto, Take, CloseStack, gateway
<1>2. GatewayType'
  BY <1>1, LaunchedAreServers, Bounds DEF GatewayInv, GatewayType, Launched, Steps, Goto, Take, CloseStack, gateway
<1>3. \A q \in Managers : HoldsAServer(q)' /\ OpensItsOwn(q)'
  BY <1>1, Bounds DEF GatewayInv, GatewayType, HoldsAServer, OpensItsOwn
<1>4. ~overlapped' => OneManager' /\ EmptiedEnd'
  BY <1>1, LaunchedAreServers, Bounds
     DEF GatewayInv, GatewayType, OneManager, EmptiedEnd, HoldsAServer
<1>5. NoServerIsLost'
  BY <1>1, LaunchedAreServers, Bounds
     DEF GatewayInv, NoServerIsLost, InReach, OneManager, EmptiedEnd, HoldsAServer
<1>6. ConnectedMeansOpen'
  BY <1>1, LaunchedAreServers, Bounds DEF GatewayInv, ConnectedMeansOpen, OpensItsOwn
<1>7. QED
  BY <1>2, <1>3, <1>4, <1>5, <1>6 DEF GatewayInv

LEMMA ClosedKeeps ==
  ASSUME GatewayInv, NEW p \in Managers, Closed(p)
  PROVE  GatewayInv'
<1>1. /\ pc[p] = "closing" /\ pc'[p] \in {"stopped", "starting"}
      /\ mine'[p] = None /\ alive' = alive \ {mine[p]}
      /\ stack' = None /\ session' = None
      /\ UNCHANGED <<launched, emptied, broken, overlapped>>
      /\ \A q \in Handlers \ {p} : pc'[q] = pc[q] /\ mine'[q] = mine[q]
  BY Bounds DEF GatewayInv, GatewayType, HoldsAServer, Goto, Take, Closed, Forget, AfterStop
<1>2. GatewayType'
  BY <1>1, LaunchedAreServers, Bounds DEF GatewayInv, GatewayType, Launched, Steps, Goto, Take, Closed, Forget, AfterStop
<1>3. \A q \in Managers : HoldsAServer(q)' /\ OpensItsOwn(q)'
  BY <1>1, Bounds DEF GatewayInv, GatewayType, HoldsAServer, OpensItsOwn
<1>4. ~overlapped' => OneManager' /\ EmptiedEnd'
  BY <1>1, LaunchedAreServers, Bounds
     DEF GatewayInv, GatewayType, OneManager, EmptiedEnd, HoldsAServer
<1>5. NoServerIsLost'
  BY <1>1, LaunchedAreServers, Bounds
     DEF GatewayInv, NoServerIsLost, InReach, OneManager, EmptiedEnd, HoldsAServer
<1>6. ConnectedMeansOpen'
  BY <1>1, LaunchedAreServers, Bounds DEF GatewayInv, ConnectedMeansOpen, OpensItsOwn
<1>7. QED
  BY <1>2, <1>3, <1>4, <1>5, <1>6 DEF GatewayInv

LEMMA ClosingFailsKeeps ==
  ASSUME GatewayInv, NEW p \in Managers, ClosingFails(p)
  PROVE  GatewayInv'
<1>1. /\ pc[p] = "closing" /\ pc'[p] \in {"stopped", "idle"}
      /\ mine'[p] = None /\ alive' = alive \ {mine[p]}
      /\ broken' = broken \cup {mine[p]}
      /\ UNCHANGED <<launched, emptied, stack, session, overlapped>>
      /\ \A q \in Handlers \ {p} : pc'[q] = pc[q] /\ mine'[q] = mine[q]
  BY Bounds DEF GatewayInv, GatewayType, HoldsAServer, Goto, Take, ClosingFails, gateway
<1>2. GatewayType'
  BY <1>1, LaunchedAreServers, Bounds DEF GatewayInv, GatewayType, Launched, Steps, Goto, Take, ClosingFails, gateway
<1>3. \A q \in Managers : HoldsAServer(q)' /\ OpensItsOwn(q)'
  BY <1>1, Bounds DEF GatewayInv, GatewayType, HoldsAServer, OpensItsOwn
<1>4. ~overlapped' => OneManager' /\ EmptiedEnd'
  BY <1>1, LaunchedAreServers, Bounds
     DEF GatewayInv, GatewayType, OneManager, EmptiedEnd, HoldsAServer
<1>5. NoServerIsLost'
  BY <1>1, LaunchedAreServers, Bounds
     DEF GatewayInv, NoServerIsLost, InReach, OneManager, EmptiedEnd, HoldsAServer
<1>6. ConnectedMeansOpen'
  BY <1>1, LaunchedAreServers, Bounds DEF GatewayInv, ConnectedMeansOpen, OpensItsOwn
<1>7. QED
  BY <1>2, <1>3, <1>4, <1>5, <1>6 DEF GatewayInv

LEMMA ManageKeeps ==
  ASSUME GatewayInv, NEW p \in Managers, Manage(p)
  PROVE  GatewayInv'
BY StartEndsAtOnceKeeps, SpawnKeeps, PublishKeeps, OpeningFailsKeeps, UndoKeeps,
   StopAtOnceKeeps, CloseStackKeeps, ClosedKeeps, ClosingFailsKeeps
   DEF Manage

-----------------------------------------------------------------------------
(* The other actions *)

(* A manager sets out, and takes no server in hand yet. *)
LEMMA SettingOutKeeps ==
  ASSUME GatewayInv, NEW p \in Managers, pc[p] = "idle", Goto(p, "stopping"),
         UNCHANGED <<servers, gateway, mine>>, overlapped' \in BOOLEAN,
         overlapped => overlapped',
         ~overlapped' => \A q \in Managers : pc[q] = "idle"
  PROVE  GatewayInv'
<1>1. /\ pc'[p] = "stopping" /\ UNCHANGED <<launched, alive, emptied, broken, stack, session, mine>>
      /\ \A q \in Handlers \ {p} : pc'[q] = pc[q]
  BY Bounds DEF GatewayInv, GatewayType, Goto, servers, gateway
<1>2. GatewayType'
  BY <1>1 DEF GatewayInv, GatewayType, Launched, Steps, Goto
<1>3. \A q \in Managers : HoldsAServer(q)' /\ OpensItsOwn(q)'
  BY <1>1, Bounds DEF GatewayInv, HoldsAServer, OpensItsOwn
<1>4. ~overlapped' => OneManager' /\ EmptiedEnd'
  BY <1>1, Bounds DEF GatewayInv, OneManager, EmptiedEnd
<1>5. NoServerIsLost' /\ ConnectedMeansOpen'
  BY <1>1, Bounds DEF GatewayInv, NoServerIsLost, InReach, ConnectedMeansOpen
<1>6. QED
  BY <1>2, <1>3, <1>4, <1>5 DEF GatewayInv

LEMMA ReconnectKeeps ==
  ASSUME GatewayInv, NEW p \in Managers, Reconnect(p)
  PROVE  GatewayInv'
<1>1. \A q \in Managers : q = App \/ q \in Reconnectors
  BY DEF Managers
<1>2. overlapped \in BOOLEAN
  BY DEF GatewayInv, GatewayType
<1>3. QED
  BY <1>1, <1>2, SettingOutKeeps DEF Reconnect, Serving

LEMMA ShutdownKeeps == GatewayInv /\ Shutdown => GatewayInv'
BY SettingOutKeeps, Bounds DEF Shutdown, GatewayInv, GatewayType

(* What concerns the queries, or a server that hangs. *)
LEMMA QueriesKeep ==
  ASSUME GatewayInv,
         UNCHANGED <<launched, alive, emptied, broken, stack, session, overlapped>>,
         pc' \in [Handlers -> Steps], mine' \in [Handlers -> Launched \cup {None}],
         \A q \in Managers : pc'[q] = pc[q] /\ mine'[q] = mine[q]
  PROVE  GatewayInv'
<1>1. GatewayType'
  BY DEF GatewayInv, GatewayType, Launched
<1>2. \A q \in Managers : HoldsAServer(q)' /\ OpensItsOwn(q)'
  BY DEF GatewayInv, HoldsAServer, OpensItsOwn
<1>3. ~overlapped' => OneManager' /\ EmptiedEnd'
  BY DEF GatewayInv, OneManager, EmptiedEnd
<1>4. NoServerIsLost' /\ ConnectedMeansOpen'
  BY DEF GatewayInv, NoServerIsLost, InReach, ConnectedMeansOpen
<1>5. QED
  BY <1>1, <1>2, <1>3, <1>4 DEF GatewayInv

LEMMA AskerKeeps ==
  ASSUME GatewayInv, NEW a \in Askers, Ask(a) \/ Query(a) \/ Cancel(a)
  PROVE  GatewayInv'
<1>1. a \in Handlers /\ a \notin Managers /\ GatewayType
  BY Bounds DEF GatewayInv
<1>2. UNCHANGED <<launched, alive, emptied, broken, stack, session, overlapped>>
  BY DEF Ask, Query, Acquire, Answered, CallFails, Cancel, EndCall, servers, gateway
<1>3. /\ \E step \in {"idle", "queued", "calling"} : Goto(a, step)
      /\ mine' = mine \/ \E s \in {None, session} : Take(a, s)
  BY DEF Ask, Query, Acquire, Answered, CallFails, Cancel, EndCall
<1>4. pc' \in [Handlers -> Steps] /\ mine' \in [Handlers -> Launched \cup {None}]
  BY <1>1, <1>3 DEF GatewayType, Goto, Take, Steps
<1>5. \A q \in Managers : pc'[q] = pc[q] /\ mine'[q] = mine[q]
  BY <1>1, <1>3, Bounds DEF GatewayType, Goto, Take
<1>6. QED
  BY <1>2, <1>4, <1>5, QueriesKeep

LEMMA ServerDiesKeeps ==
  ASSUME GatewayInv, NEW s \in Servers, ServerDies(s)
  PROVE  GatewayInv'
<1>1. /\ alive' \subseteq alive
      /\ UNCHANGED <<launched, emptied, broken, stack, session, pc, mine, overlapped>>
  BY DEF ServerDies, gateway
<1>2. GatewayType'
  BY <1>1 DEF GatewayInv, GatewayType, Launched
<1>3. \A q \in Managers : HoldsAServer(q)' /\ OpensItsOwn(q)'
  BY <1>1 DEF GatewayInv, HoldsAServer, OpensItsOwn
<1>4. ~overlapped' => OneManager' /\ EmptiedEnd'
  BY <1>1 DEF GatewayInv, OneManager, EmptiedEnd
<1>5. NoServerIsLost' /\ ConnectedMeansOpen'
  BY <1>1 DEF GatewayInv, NoServerIsLost, InReach, ConnectedMeansOpen
<1>6. QED
  BY <1>2, <1>3, <1>4, <1>5 DEF GatewayInv

LEMMA ServerHangsKeeps ==
  ASSUME GatewayInv, NEW s \in Servers, ServerHangs(s)
  PROVE  GatewayInv'
BY QueriesKeep DEF ServerHangs, gateway, GatewayInv, GatewayType

LEMMA InitOK == Init => GatewayInv
<1> SUFFICES ASSUME Init PROVE GatewayInv
  OBVIOUS
<1>1. GatewayType
  <2>1. launched \in 0 .. Cardinality(Servers)
    BY Bounds DEF Init
  <2>2. pc \in [Handlers -> Steps] /\ mine \in [Handlers -> Launched \cup {None}]
    BY DEF Init, Steps
  <2>3. QED
    BY <2>1, <2>2 DEF Init, GatewayType
<1>2. \A p \in Managers : HoldsAServer(p) /\ OpensItsOwn(p)
  BY Bounds DEF Init, HoldsAServer, OpensItsOwn
<1>3. OneManager /\ EmptiedEnd
  BY Bounds DEF Init, OneManager, EmptiedEnd
<1>4. NoServerIsLost /\ ConnectedMeansOpen
  BY DEF Init, NoServerIsLost, ConnectedMeansOpen
<1>5. QED
  BY <1>1, <1>2, <1>3, <1>4 DEF GatewayInv

LEMMA NextKeeps == GatewayInv /\ [Next]_vars => GatewayInv'
<1> SUFFICES ASSUME GatewayInv, [Next]_vars PROVE GatewayInv'
  OBVIOUS
<1>1. ASSUME NEW p \in Managers, Manage(p) \/ Reconnect(p) PROVE GatewayInv'
  BY <1>1, ManageKeeps, ReconnectKeeps
<1>2. ASSUME NEW a \in Askers, Ask(a) \/ Query(a) \/ Cancel(a) PROVE GatewayInv'
  BY <1>2, AskerKeeps
<1>3. ASSUME NEW s \in Servers, ServerDies(s) \/ ServerHangs(s) PROVE GatewayInv'
  BY <1>3, ServerDiesKeeps, ServerHangsKeeps
<1>4. CASE UNCHANGED vars
  BY <1>4, QueriesKeep DEF vars, GatewayInv, GatewayType
<1>5. QED
  BY <1>1, <1>2, <1>3, <1>4, ShutdownKeeps DEF Next, Stopped

-----------------------------------------------------------------------------
(* Safety *)

(* Every reachable state satisfies the inductive invariant. *)
THEOREM GatewayInvariantHolds == Spec => []GatewayInv
BY InitOK, NextKeeps, PTL DEF Spec

(* Unless reconnects overlap, a server process that runs can always be     *)
(* ended by somebody, however its opening and closing fail.                *)
THEOREM ServersStayInReach == Spec => []NoServerIsLost
<1>1. GatewayInv => NoServerIsLost
  BY DEF GatewayInv
<1>2. QED
  BY <1>1, GatewayInvariantHolds, PTL

(* Even when reconnects overlap, what is reported as connected is no       *)
(* session that has been closed, save while or because its closing fails.  *)
THEOREM ConnectedIsOpen == Spec => []ConnectedMeansOpen
<1>1. GatewayInv => ConnectedMeansOpen
  BY DEF GatewayInv
<1>2. QED
  BY <1>1, GatewayInvariantHolds, PTL
=============================================================================
