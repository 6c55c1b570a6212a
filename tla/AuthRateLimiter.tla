-------------------------- MODULE AuthRateLimiter --------------------------
(***************************************************************************)
(* The sliding-window limits of services/auth_rate_limit_service.py as the *)
(* endpoints of api/auth.py consult them.  The threads of one process      *)
(* share the buckets under one lock, but each reads the clock before it    *)
(* gets the lock, so a bucket's time stamps need not be in order.  A login *)
(* consults two buckets one after the other, its client's and that of the  *)
(* client with the account, and clears the latter once it has succeeded.   *)
(***************************************************************************)
EXTENDS Integers, Sequences, FiniteSets, Subsequences

CONSTANTS
  Threads,          \* worker threads
  Keys,             \* bucket keys: a scope with a fingerprint
  Limit,            \* requests that each key is allowed ...
  Window,           \* ... in a window of this many instants
  MaxBuckets,       \* max_buckets
  CleanupInterval,  \* cleanup_interval_seconds
  Requests,         \* what the clients may ask for
  Horizon,          \* bound on the clock
  NoKey,            \* a request with no bucket to clear
  NoRequest         \* a thread that serves nothing

(* The buckets a request consults, in order, and the one it may clear. *)
Request == [keys: Seq(Keys), clears: Keys \cup {NoKey}]

ASSUME LimiterAssumption ==
  /\ Limit \in [Keys -> Nat \ {0}]
  /\ Window \in [Keys -> Nat \ {0}]
  /\ MaxBuckets \in Nat \ {0}
  /\ CleanupInterval \in Nat
  /\ Requests \subseteq Request
  /\ \A r \in Requests : r.keys # <<>>
  /\ Horizon \in Nat
  /\ NoKey \notin Keys
  /\ NoRequest \notin Request

VARIABLES
  order,        \* the buckets' keys, least recently used first
  stamps,       \* the time stamps in each bucket
  lastCleanup,  \* when the buckets were last pruned
  pc,           \* where each thread stands
  req,          \* the request it serves
  todo,         \* the keys it has still to consult
  readAt,       \* the clock as it read it
  retryAfter,   \* the longest wait it was given, 0 if it was not refused
  admitted,     \* history: the readings each key's bucket let pass, until
                \* the bucket is cleared, evicted, or they are out of date
  now           \* the clock

bucketVars == <<order, stamps, lastCleanup, admitted>>
vars == <<bucketVars, pc, req, todo, readAt, retryAfter, now>>

-----------------------------------------------------------------------------
(* Buckets *)

Larger(a, b) == IF a < b THEN b ELSE a

(* Faulty: a stamp just inside the edge of the window is forgotten. *)
StopsLater(queue, n, cutoff) == n = Len(queue) \/ queue[n + 1] > cutoff + 1

(* The first stamp that is not yet out of the window is at n + 1. *)
StopsAt(queue, n, cutoff) == n = Len(queue) \/ queue[n + 1] > cutoff

(* popleft while the first stamp is out of the window: later ones may be   *)
(* older, and stay.                                                        *)
Expired(queue, cutoff) ==
  LET popped == CHOOSE n \in 0 .. Len(queue) :
                  /\ StopsAt(queue, n, cutoff)
                  /\ \A m \in 0 .. (n - 1) : ~StopsAt(queue, m, cutoff)
  IN  SubSeq(queue, popped + 1, Len(queue))

ExpiredAll(t) == [k \in Keys |-> Expired(stamps[k], t - Window[k])]

Full(keys) == Len(keys) >= MaxBuckets

PruningDue(k, t) ==
  \/ t - lastCleanup >= CleanupInterval
  \/ k \notin Members(order) /\ Full(order)

(* The stamps and the keys that are left of them when k is consulted at t. *)
StampsLeft(k, t) == IF PruningDue(k, t) THEN ExpiredAll(t) ELSE stamps

KeysLeft(k, t) ==
  IF PruningDue(k, t)
  THEN Keep(order, {key \in Keys : StampsLeft(k, t)[key] # <<>>})
  ELSE order

(* Faulty: pruning alone has to make room. *)
RoomWithoutEviction(k, t) == KeysLeft(k, t)

(* ... and when room has been made for k. *)
RoomFor(k, t) ==
  LET left == KeysLeft(k, t)
  IN  IF k \notin Members(left) /\ Full(left)
      THEN SubSeq(left, Len(left) - MaxBuckets + 2, Len(left))
      ELSE left

(* k's stamps as a thread that read t finds them. *)
QueueAt(k, t) == Expired(StampsLeft(k, t)[k], t - Window[k])

Refused(k, t) == Len(QueueAt(k, t)) >= Limit[k]

(* Faulty: the fraction of a second that remains is rounded away. *)
HurriedWait(queue, k, t) == Larger(1, queue[1] + Window[k] - t - 1)

WaitFor(queue, k, t) == Larger(1, queue[1] + Window[k] - t)

-----------------------------------------------------------------------------
(* Steps of a thread *)

Arrive(p, r) ==
  /\ pc[p] = "idle"
  /\ pc' = [pc EXCEPT ![p] = "reading"]
  /\ req' = [req EXCEPT ![p] = r]
  /\ todo' = [todo EXCEPT ![p] = r.keys]
  /\ UNCHANGED <<bucketVars, readAt, retryAfter, now>>

ReadClock(p) ==
  /\ pc[p] = "reading"
  /\ pc' = [pc EXCEPT ![p] = "waiting"]
  /\ readAt' = [readAt EXCEPT ![p] = now]
  /\ UNCHANGED <<bucketVars, req, todo, retryAfter, now>>

AfterConsume(p, wait) ==
  IF Len(todo[p]) > 1 THEN "reading" ELSE
  IF retryAfter[p] = 0 /\ wait = 0 THEN "admitted" ELSE "refused"

StillInWindow(k, readings) ==
  Keep(readings, (now - Window[k] + 1) .. now)

(* consume, under the lock: room is made, k's bucket expires and moves to  *)
(* the end, and the reading is let pass unless the bucket is full.         *)
Consume(p) ==
  /\ pc[p] = "waiting"
  /\ LET k == Head(todo[p])
         t == readAt[p]
         room == RoomFor(k, t)
         queue == QueueAt(k, t)
         refused == Refused(k, t)
         wait == IF refused THEN WaitFor(queue, k, t) ELSE 0
     IN  /\ order' = Append(Drop(room, k), k)
         /\ stamps' = [key \in Keys |->
              IF key = k THEN IF refused THEN queue ELSE Append(queue, t) ELSE
              IF key \in Members(room) THEN StampsLeft(k, t)[key] ELSE <<>>]
         /\ lastCleanup' = IF PruningDue(k, t) THEN t ELSE lastCleanup
         /\ retryAfter' = [retryAfter EXCEPT ![p] = Larger(@, wait)]
         /\ pc' = [pc EXCEPT ![p] = AfterConsume(p, wait)]
         /\ admitted' = [key \in Keys |->
              IF key = k
              THEN StillInWindow(k, IF refused THEN admitted[k] ELSE Append(admitted[k], t)) ELSE
              IF key \in Members(KeysLeft(k, t)) \ Members(room) THEN <<>>
              ELSE admitted[key]]
  /\ todo' = [todo EXCEPT ![p] = Tail(@)]
  /\ UNCHANGED <<req, readAt, now>>

Forget(p) ==
  /\ pc' = [pc EXCEPT ![p] = "idle"]
  /\ req' = [req EXCEPT ![p] = NoRequest]
  /\ todo' = [todo EXCEPT ![p] = <<>>]
  /\ readAt' = [readAt EXCEPT ![p] = 0]
  /\ retryAfter' = [retryAfter EXCEPT ![p] = 0]

(* A login that succeeds clears the bucket of its client and account. *)
Reset(p) ==
  /\ pc[p] = "admitted"
  /\ req[p].clears # NoKey
  /\ order' = Drop(order, req[p].clears)
  /\ stamps' = [stamps EXCEPT ![req[p].clears] = <<>>]
  /\ admitted' = [admitted EXCEPT ![req[p].clears] = <<>>]
  /\ Forget(p)
  /\ UNCHANGED <<lastCleanup, now>>

(* Any other end of the request: a 429, a failed login, a refresh. *)
Finish(p) ==
  /\ pc[p] \in {"admitted", "refused"}
  /\ Forget(p)
  /\ UNCHANGED <<bucketVars, now>>

Tick ==
  /\ now < Horizon
  /\ now' = now + 1
  /\ UNCHANGED <<bucketVars, pc, req, todo, readAt, retryAfter>>

Init ==
  /\ order = <<>>
  /\ stamps = [k \in Keys |-> <<>>]
  /\ lastCleanup = 0
  /\ pc = [p \in Threads |-> "idle"]
  /\ req = [p \in Threads |-> NoRequest]
  /\ todo = [p \in Threads |-> <<>>]
  /\ readAt = [p \in Threads |-> 0]
  /\ retryAfter = [p \in Threads |-> 0]
  /\ admitted = [k \in Keys |-> <<>>]
  /\ now = 0

Next ==
  \/ \E p \in Threads, r \in Requests : Arrive(p, r)
  \/ \E p \in Threads : ReadClock(p) \/ Consume(p) \/ Reset(p) \/ Finish(p)
  \/ Tick

Spec == Init /\ [][Next]_vars

-----------------------------------------------------------------------------
(* Properties *)

(* The buckets are as many as they may be, each once, and none holds more  *)
(* than its limit, however many clients come.                              *)
BoundedMemory ==
  /\ Len(order) <= MaxBuckets
  /\ Cardinality(Members(order)) = Len(order)
  /\ \A k \in Keys :
       /\ stamps[k] \in Seq(0 .. now)
       /\ Len(stamps[k]) <= Limit[k]
       /\ stamps[k] # <<>> => k \in Members(order)

(* Of the requests that read the clock within the last window, no more     *)
(* than the limit were let pass, whatever order the threads got the lock   *)
(* in and whatever was pruned meanwhile.  (A bucket that was evicted for   *)
(* lack of room, or cleared by a login, starts afresh.)                    *)
LimitHolds ==
  \A k \in Keys :
    Cardinality({i \in 1 .. Len(admitted[k]) : admitted[k][i] > now - Window[k]})
      <= Limit[k]

(* Whoever is refused is told to wait long enough: left alone meanwhile,   *)
(* the bucket has room again by then, though its stamps are out of order.  *)
RetryAfterSuffices ==
  [][\A p \in Threads :
       LET k == Head(todo[p]) IN
       pc[p] = "waiting" /\ pc'[p] # "waiting" /\ Refused(k, readAt[p]) =>
         Len(Expired(stamps'[k], readAt[p] + retryAfter'[p] - Window[k])) < Limit[k]]_vars

=============================================================================
