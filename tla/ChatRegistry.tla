---------------------------- MODULE ChatRegistry ----------------------------
(***************************************************************************)
(* The chat sessions of api/chat_handler.py: a bounded registry that maps  *)
(* a browser's session id to the object holding its agents' state, and the *)
(* turns of the conversation, each of which fetches the object and then    *)
(* holds its asyncio.Lock until its stream has ended.  Sessions expire,    *)
(* are evicted when there are too many, and are dropped by a reset, a      *)
(* login or a logout, whether or not a turn is holding their lock.         *)
(***************************************************************************)
EXTENDS Integers, Sequences, FiniteSets, Subsequences

CONSTANTS
  Turns,        \* chat requests in progress
  Ids,          \* browser session ids
  Objects,      \* ChatSession objects, in the order they are created
  TTL,          \* SESSION_TTL_SECONDS
  MaxSessions,  \* MAX_CHAT_SESSIONS
  ClockLimit,   \* bound on the clock
  NoId,         \* an object that has not been created
  NoObject      \* a turn with no object

ASSUME RegistryAssumption ==
  /\ Objects \subseteq Nat
  /\ TTL \in Nat
  /\ MaxSessions \in Nat \ {0}
  /\ ClockLimit \in Nat
  /\ NoId \notin Ids
  /\ NoObject \notin Objects

VARIABLES
  registry,  \* the registered objects, least recently used first
  idOf,      \* the session id of each object
  touched,   \* when each object was fetched last
  queue,     \* the turns at each object's lock: the first one holds it
  phase,     \* idle, queued or running
  session,   \* the object each turn has fetched
  dropped,   \* history: the objects that a reset has dropped
  clock

registryVars == <<registry, idOf, touched, queue, phase, session, dropped, clock>>

-----------------------------------------------------------------------------

Expire(objects) == Keep(objects, {o \in Objects : clock - touched[o] <= TTL})

(* Faulty: as many as there may be, and one more. *)
EvictLate(objects) ==
  IF Len(objects) > MaxSessions + 1 THEN Tail(objects) ELSE objects

Evict(objects) ==
  IF Len(objects) > MaxSessions
  THEN SubSeq(objects, Len(objects) - MaxSessions + 1, Len(objects))
  ELSE objects

Prune(objects) == Evict(Expire(objects))

(* Faulty: a session that is found stays where it is. *)
StayInPlace(objects, o) == objects

MoveToEnd(objects, o) == Append(Drop(objects, o), o)

HasId(objects, id) == {o \in Members(objects) : idOf[o] = id}

NextObject(o) ==
  /\ idOf[o] = NoId
  /\ \A other \in Objects : other < o => idOf[other] # NoId

(* Take a place at the object's lock: a free one is had at once. *)
JoinQueue(p, o) ==
  /\ session' = [session EXCEPT ![p] = o]
  /\ queue' = [queue EXCEPT ![o] = Append(@, p)]
  /\ phase' = [phase EXCEPT ![p] = IF queue[o] = <<>> THEN "running" ELSE "queued"]

(* get_or_create finds the session, when it has first pruned. *)
Continue(p, id) ==
  /\ phase[p] = "idle"
  /\ \E o \in HasId(Prune(registry), id) :
       /\ registry' = MoveToEnd(Prune(registry), o)
       /\ touched' = [touched EXCEPT ![o] = clock]
       /\ JoinQueue(p, o)
  /\ UNCHANGED <<idOf, dropped, clock>>

(* get_or_create makes a new one, and prunes again. *)
Create(p, id) ==
  /\ phase[p] = "idle"
  /\ HasId(Prune(registry), id) = {}
  /\ \E o \in Objects :
       /\ NextObject(o)
       /\ registry' = Evict(Append(Prune(registry), o))
       /\ idOf' = [idOf EXCEPT ![o] = id]
       /\ touched' = [touched EXCEPT ![o] = clock]
       /\ JoinQueue(p, o)
  /\ UNCHANGED <<dropped, clock>>

(* The lock was released and goes to the first who waits. *)
Proceed(p) ==
  /\ phase[p] = "queued"
  /\ Head(queue[session[p]]) = p
  /\ phase' = [phase EXCEPT ![p] = "running"]
  /\ UNCHANGED <<registry, idOf, touched, queue, session, dropped, clock>>

(* Faulty: a turn that ends keeps the lock. *)
KeepLock(p) == queue' = queue

LeaveQueue(p) == queue' = [queue EXCEPT ![session[p]] = Drop(@, p)]

(* The stream ends, fails or is cancelled, and the lock is released. *)
End(p) ==
  /\ phase[p] = "running"
  /\ LeaveQueue(p)
  /\ phase' = [phase EXCEPT ![p] = "idle"]
  /\ session' = [session EXCEPT ![p] = NoObject]
  /\ UNCHANGED <<registry, idOf, touched, dropped, clock>>

(* The client disconnects while its turn waits for the lock. *)
Disconnect(p) ==
  /\ phase[p] = "queued"
  /\ LeaveQueue(p)
  /\ phase' = [phase EXCEPT ![p] = "idle"]
  /\ session' = [session EXCEPT ![p] = NoObject]
  /\ UNCHANGED <<registry, idOf, touched, dropped, clock>>

(* A reset by the page, a login, a registration or a logout: nothing is   *)
(* awaited, and nothing happens to a session that is not known.            *)
ResetSession(id) ==
  /\ registry' = Keep(registry, {o \in Objects : idOf[o] # id})
  /\ dropped' = dropped \cup HasId(registry, id)
  /\ UNCHANGED <<idOf, touched, queue, phase, session, clock>>

Elapse ==
  /\ clock < ClockLimit
  /\ clock' = clock + 1
  /\ UNCHANGED <<registry, idOf, touched, queue, phase, session, dropped>>

RegistryInit ==
  /\ registry = <<>>
  /\ idOf = [o \in Objects |-> NoId]
  /\ touched = [o \in Objects |-> 0]
  /\ queue = [o \in Objects |-> <<>>]
  /\ phase = [p \in Turns |-> "idle"]
  /\ session = [p \in Turns |-> NoObject]
  /\ dropped = {}
  /\ clock = 0

RegistryNext ==
  \/ \E p \in Turns, id \in Ids : Continue(p, id) \/ Create(p, id)
  \/ \E p \in Turns : Proceed(p) \/ End(p) \/ Disconnect(p)
  \/ \E id \in Ids : ResetSession(id)
  \/ Elapse

RegistrySpec == RegistryInit /\ [][RegistryNext]_registryVars

(* The event loop hands over a lock that has come free.  Nothing is assumed *)
(* of the turns: one that asks the knowledge server may wait for ever.     *)
RegistryFairSpec == RegistrySpec /\ \A p \in Turns : WF_registryVars(Proceed(p))

-----------------------------------------------------------------------------
(* Properties *)

(* The registry never grows past its bound, and knows no session twice:    *)
(* two turns that run in registered objects are of different sessions.     *)
RegistryOK ==
  /\ Len(registry) <= MaxSessions
  /\ \A o \in Members(registry) : HasId(registry, idOf[o]) = {o}
  /\ \A p, q \in Turns :
       /\ p # q /\ phase[p] = "running" /\ phase[q] = "running"
       /\ {session[p], session[q]} \subseteq Members(registry)
       => idOf[session[p]] # idOf[session[q]]

Latest(id) == {o \in Objects : idOf[o] = id /\ \A x \in Objects : idOf[x] = id => x <= o}

UsedSince(o) == {idOf[x] : x \in {y \in Objects : idOf[y] # NoId /\ touched[y] >= touched[o]}}

(* A conversation is not forgotten before its time: a message that comes   *)
(* within TTL of the last one finds the agents' state as it was, unless it *)
(* was reset or as many other sessions as fit have been used since.        *)
ConversationsAreKept ==
  [][\A p \in Turns, id \in Ids : \A o \in Latest(id) \ dropped :
       /\ session[p] = NoObject /\ session'[p] # NoObject /\ idOf'[session'[p]] = id
       /\ clock - touched[o] <= TTL
       /\ Cardinality(UsedSince(o)) <= MaxSessions
       => session'[p] = o]_registryVars

(* The messages of one session are handled one after the other. *)
OneTurnPerSession ==
  \A p, q \in Turns :
    p # q /\ phase[p] = "running" /\ phase[q] = "running" =>
      idOf[session[p]] # idOf[session[q]]

(* A message that waits for the turns before it is served or given up,     *)
(* whatever becomes of its session meanwhile - unless one of these turns   *)
(* never ends, as it may while the knowledge server does not answer, for   *)
(* that call has no timeout.  Turns of other sessions do not matter.       *)
HoldsUp(q, p) == phase[p] = "queued" /\ phase[q] = "running" /\ session[q] = session[p]

EveryMessageServed ==
  \A p \in Turns :
    (\A q \in Turns : []<>~HoldsUp(q, p)) => (phase[p] = "queued" ~> phase[p] # "queued")

=============================================================================
