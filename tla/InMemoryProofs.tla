--------------------------- MODULE InMemoryProofs ---------------------------
(***************************************************************************)
(* Theorems about the two ordered dictionaries that the server keeps in    *)
(* memory, within bounds and with time limits of their own: the buckets of *)
(* the sliding-window limits, for any number of threads, any keys, limits  *)
(* and windows; and the registry of chat sessions, for any number of       *)
(* turns, browser sessions and objects, and any TTL.  Both clocks are      *)
(* unbounded.                                                              *)
(***************************************************************************)
EXTENDS AuthRateLimiter, ChatRegistry, SubsequenceTheorems

-----------------------------------------------------------------------------
(* Rate limits: the inductive invariant *)

BucketsType ==
  /\ now \in Nat
  /\ order \in Seq(Keys)
  /\ stamps \in [Keys -> Seq(0 .. now)]
  /\ admitted \in [Keys -> Seq(0 .. now)]

BucketsBounded ==
  /\ Distinct(order)
  /\ Len(order) <= MaxBuckets
  /\ \A k \in Keys :
       /\ Len(stamps[k]) <= Limit[k]
       /\ stamps[k] # <<>> => k \in Members(order)

Instants(k) == (now - Window[k] + 1) .. now

(* What was let pass within the window is what the bucket remembers of it. *)
WindowRemembered ==
  \A k \in Keys : Keep(admitted[k], Instants(k)) = Keep(stamps[k], Instants(k))

ThreadsOK ==
  /\ pc \in [Threads -> {"idle", "reading", "waiting", "admitted", "refused"}]
  /\ req \in [Threads -> Requests \cup {NoRequest}]
  /\ todo \in [Threads -> Seq(Keys)]
  /\ readAt \in [Threads -> 0 .. now]
  /\ retryAfter \in [Threads -> Nat]
  /\ \A p \in Threads :
       /\ pc[p] \in {"reading", "waiting"} => todo[p] # <<>>
       /\ pc[p] # "idle" => req[p] \in Requests

LimiterInv == BucketsType /\ BucketsBounded /\ WindowRemembered /\ ThreadsOK

-----------------------------------------------------------------------------
(* Expiry *)

Popped(bucket, cutoff, p) ==
  /\ p \in 0 .. Len(bucket)
  /\ StopsAt(bucket, p, cutoff)
  /\ \A m \in 0 .. (p - 1) : ~StopsAt(bucket, m, cutoff)

(* It cuts the bucket off after the stamps that are out of the window. *)
LEMMA ExpiredMeaning ==
  ASSUME NEW A, NEW bucket \in Seq(A), NEW cutoff
  PROVE  \E p : Popped(bucket, cutoff, p) /\ Expired(bucket, cutoff) = SubSeq(bucket, p + 1, Len(bucket))
<1> DEFINE T == {n \in 0 .. Len(bucket) : StopsAt(bucket, n, cutoff)}
           p == CHOOSE n : n \in 0 .. Len(bucket) /\ Popped(bucket, cutoff, n)
<1>1. Len(bucket) \in Nat /\ Len(bucket) \in T
  BY DEF StopsAt
<1>2. T \in SUBSET Nat
  OBVIOUS
<1>3. PICK n \in T : \A m \in T : n <= m
  BY <1>1, <1>2, LeastElement
<1>4. Popped(bucket, cutoff, n)
  BY <1>1, <1>3 DEF Popped
<1>5. n \in 0 .. Len(bucket) /\ Popped(bucket, cutoff, n)
  BY <1>4 DEF Popped
<1>6. \A m : m \in 0 .. Len(bucket) /\ Popped(bucket, cutoff, m) <=>
             m \in 0 .. Len(bucket) /\ StopsAt(bucket, m, cutoff)
                /\ \A i \in 0 .. (m - 1) : ~StopsAt(bucket, i, cutoff)
  BY DEF Popped
<1>7. Expired(bucket, cutoff) = SubSeq(bucket, p + 1, Len(bucket))
  BY <1>6 DEF Expired, Popped
<1>8. Popped(bucket, cutoff, p)
  BY <1>5
<1>9. QED
  BY <1>7, <1>8

LEMMA ExpiredFacts ==
  ASSUME NEW t \in Nat, NEW bucket \in Seq(0 .. t), NEW cutoff \in Int
  PROVE  /\ Expired(bucket, cutoff) \in Seq(0 .. t)
         /\ Len(Expired(bucket, cutoff)) \in Nat
         /\ Len(Expired(bucket, cutoff)) <= Len(bucket)
         /\ \A S \in SUBSET Int : (\A x \in S : x > cutoff) =>
              Keep(Expired(bucket, cutoff), S) = Keep(bucket, S)
         /\ bucket # <<>> /\ bucket[1] <= cutoff =>
              Len(Expired(bucket, cutoff)) < Len(bucket)
<1>1. PICK p : Popped(bucket, cutoff, p) /\ Expired(bucket, cutoff) = SubSeq(bucket, p + 1, Len(bucket))
  BY ExpiredMeaning
<1>2. Len(bucket) \in Nat /\ p \in Nat /\ p <= Len(bucket)
  BY <1>1 DEF Popped
<1>3. \A i \in (p + 1) .. Len(bucket) : bucket[i] \in 0 .. t
  BY <1>2
<1>4. /\ SubSeq(bucket, p + 1, Len(bucket)) \in Seq(0 .. t)
      /\ Len(SubSeq(bucket, p + 1, Len(bucket))) = Len(bucket) - p
  BY <1>2, <1>3, SubSeqProperties
<1>5. ASSUME NEW i \in 1 .. p PROVE bucket[i] \in Int /\ bucket[i] <= cutoff
  <2>1. i - 1 \in 0 .. (p - 1) /\ i - 1 # Len(bucket) /\ (i - 1) + 1 = i
    BY <1>2
  <2>2. ~(bucket[i] > cutoff)
    BY <1>1, <2>1 DEF Popped, StopsAt
  <2>3. bucket[i] \in 0 .. t
    BY <1>2
  <2>4. QED
    BY <2>2, <2>3
<1>6. ASSUME NEW S \in SUBSET Int, \A x \in S : x > cutoff
      PROVE  Keep(SubSeq(bucket, p + 1, Len(bucket)), S) = Keep(bucket, S)
  <2>1. \A i \in 1 .. p : bucket[i] \notin S
    BY <1>5, <1>6
  <2>2. QED
    BY <1>2, <2>1, KeepSuffix
<1>7. bucket # <<>> /\ bucket[1] <= cutoff => p # 0
  <2>1. bucket # <<>> => Len(bucket) # 0 /\ bucket[1] \in 0 .. t
    OBVIOUS
  <2>2. SUFFICES ASSUME bucket # <<>>, bucket[1] <= cutoff, p = 0 PROVE FALSE
    OBVIOUS
  <2>3. QED
    BY <1>1, <2>1, <2>2 DEF Popped, StopsAt
<1>8. QED
  BY <1>1, <1>2, <1>4, <1>6, <1>7

-----------------------------------------------------------------------------
(* Making room *)

(* The window does not start before a reading's own. *)
LEMMA InstantsFacts ==
  ASSUME LimiterInv, NEW k \in Keys, NEW t \in 0 .. now
  PROVE  /\ now \in Nat /\ t \in Nat /\ Window[k] \in Nat \ {0} /\ t - Window[k] \in Int
         /\ Instants(k) \in SUBSET Int
         /\ \A x \in Instants(k) : x > t - Window[k]
<1>1. now \in Nat /\ t \in Nat /\ t <= now /\ Window[k] \in Nat \ {0}
  BY LimiterAssumption DEF LimiterInv, BucketsType
<1>2. QED
  BY <1>1 DEF Instants

LEMMA BucketFacts ==
  ASSUME LimiterInv, NEW k \in Keys
  PROVE  /\ stamps[k] \in Seq(0 .. now) /\ admitted[k] \in Seq(0 .. now)
         /\ Len(stamps[k]) \in Nat /\ Len(stamps[k]) <= Limit[k] /\ Limit[k] \in Nat \ {0}
         /\ Keep(admitted[k], Instants(k)) = Keep(stamps[k], Instants(k))
<1>1. stamps[k] \in Seq(0 .. now) /\ admitted[k] \in Seq(0 .. now)
  BY DEF LimiterInv, BucketsType
<1>2. QED
  BY <1>1, LimiterAssumption DEF LimiterInv, BucketsBounded, WindowRemembered

LEMMA ExpiredBucket ==
  ASSUME LimiterInv, NEW k \in Keys, NEW t \in 0 .. now, NEW bucket \in Seq(0 .. now)
  PROVE  LET left == Expired(bucket, t - Window[k])
         IN  /\ left \in Seq(0 .. now) /\ Len(left) \in Nat /\ Len(left) <= Len(bucket)
             /\ Keep(left, Instants(k)) = Keep(bucket, Instants(k))
BY InstantsFacts, ExpiredFacts

LEMMA StampsLeftFacts ==
  ASSUME LimiterInv, NEW k \in Keys, NEW t \in 0 .. now, NEW key \in Keys
  PROVE  /\ StampsLeft(k, t)[key] \in Seq(0 .. now)
         /\ Len(StampsLeft(k, t)[key]) \in Nat
         /\ Len(StampsLeft(k, t)[key]) <= Limit[key]
         /\ Keep(StampsLeft(k, t)[key], Instants(key)) = Keep(stamps[key], Instants(key))
         /\ StampsLeft(k, t)[key] # <<>> => stamps[key] # <<>>
<1>1. CASE ~PruningDue(k, t)
  BY <1>1, BucketFacts DEF StampsLeft
<1>2. CASE PruningDue(k, t)
  <2>1. StampsLeft(k, t)[key] = Expired(stamps[key], t - Window[key])
    BY <1>2 DEF StampsLeft, ExpiredAll
  <2>2. /\ stamps[key] \in Seq(0 .. now) /\ Len(stamps[key]) \in Nat
        /\ Len(stamps[key]) <= Limit[key] /\ Limit[key] \in Nat
    BY BucketFacts
  <2> DEFINE left == Expired(stamps[key], t - Window[key])
  <2>3. /\ left \in Seq(0 .. now) /\ Len(left) \in Nat /\ Len(left) <= Len(stamps[key])
        /\ Keep(left, Instants(key)) = Keep(stamps[key], Instants(key))
    BY <2>2, ExpiredBucket
  <2> HIDE DEF left
  <2>4. left # <<>> => stamps[key] # <<>>
    BY <2>2, <2>3
  <2>5. Len(left) <= Limit[key]
    BY <2>2, <2>3
  <2>6. StampsLeft(k, t)[key] = left
    BY <2>1 DEF left
  <2>7. QED
    BY <2>3, <2>4, <2>5, <2>6
<1>3. QED
  BY <1>1, <1>2

LEMMA KeysLeftFacts ==
  ASSUME LimiterInv, NEW k \in Keys, NEW t \in 0 .. now
  PROVE  /\ KeysLeft(k, t) \in Seq(Keys) /\ Distinct(KeysLeft(k, t))
         /\ Len(KeysLeft(k, t)) \in Nat /\ Len(KeysLeft(k, t)) <= MaxBuckets
         /\ \A key \in Keys : StampsLeft(k, t)[key] # <<>> => key \in Members(KeysLeft(k, t))
<1>1. order \in Seq(Keys) /\ Distinct(order) /\ Len(order) <= MaxBuckets /\ Len(order) \in Nat
  BY DEF LimiterInv, BucketsType, BucketsBounded
<1>2. \A key \in Keys : StampsLeft(k, t)[key] # <<>> => key \in Members(order)
  BY StampsLeftFacts DEF LimiterInv, BucketsBounded
<1>3. CASE ~PruningDue(k, t)
  BY <1>1, <1>2, <1>3 DEF KeysLeft
<1>4. CASE PruningDue(k, t)
  <2> DEFINE S == {key \in Keys : StampsLeft(k, t)[key] # <<>>}
  <2>1. KeysLeft(k, t) = Keep(order, S)
    BY <1>4 DEF KeysLeft
  <2>2. \A key \in Keys : StampsLeft(k, t)[key] # <<>> => key \in Members(order) \cap S
    BY <1>2
  <2> HIDE DEF S
  <2>3. /\ Keep(order, S) \in Seq(Keys) /\ Distinct(Keep(order, S))
        /\ Len(Keep(order, S)) \in Nat /\ Len(Keep(order, S)) <= Len(order)
        /\ Members(Keep(order, S)) = Members(order) \cap S
    BY <1>1, KeepMeaning, KeepLength, KeepMembers, KeepDistinct
  <2>4. Len(Keep(order, S)) <= MaxBuckets
    BY <1>1, <2>3, LimiterAssumption
  <2>5. QED
    BY <2>1, <2>2, <2>3, <2>4
<1>5. QED
  BY <1>3, <1>4

LEMMA RoomFacts ==
  ASSUME LimiterInv, NEW k \in Keys, NEW t \in 0 .. now
  PROVE  /\ RoomFor(k, t) \in Seq(Keys) /\ Distinct(RoomFor(k, t))
         /\ Len(RoomFor(k, t)) \in Nat /\ Len(RoomFor(k, t)) <= MaxBuckets
         /\ k \notin Members(RoomFor(k, t)) => Len(RoomFor(k, t)) < MaxBuckets
<1> DEFINE left == KeysLeft(k, t)
<1>1. /\ left \in Seq(Keys) /\ Distinct(left)
      /\ Len(left) \in Nat /\ Len(left) <= MaxBuckets
  BY KeysLeftFacts
<1>2. CASE k \notin Members(left) /\ Full(left)
  <2>1. RoomFor(k, t) = SubSeq(left, Len(left) - MaxBuckets + 2, Len(left))
    BY <1>2 DEF RoomFor
  <2> HIDE DEF left
  <2>2. Len(left) = MaxBuckets /\ MaxBuckets \in Nat \ {0}
    BY <1>1, <1>2, LimiterAssumption DEF Full
  <2> DEFINE n == Len(left) - MaxBuckets + 2
  <2>3. n \in Nat \ {0} /\ n <= Len(left) + 1 /\ n = 2
    BY <2>2
  <2> HIDE DEF n
  <2>4. LET w == SubSeq(left, n, Len(left))
        IN  w \in Seq(Keys) /\ Len(w) = Len(left) - n + 1 /\ Distinct(w)
    BY <1>1, <2>3, LastOnes
  <2>5. QED
    BY <2>1, <2>2, <2>3, <2>4 DEF n
<1>3. CASE ~(k \notin Members(left) /\ Full(left))
  <2>1. RoomFor(k, t) = left
    BY <1>3 DEF RoomFor
  <2> HIDE DEF left
  <2>2. QED
    BY <1>1, <1>3, <2>1, LimiterAssumption DEF Full
<1>4. QED
  BY <1>2, <1>3

-----------------------------------------------------------------------------
(* Consuming *)

LEMMA QueueFacts ==
  ASSUME LimiterInv, NEW k \in Keys, NEW t \in 0 .. now
  PROVE  /\ QueueAt(k, t) \in Seq(0 .. now)
         /\ Len(QueueAt(k, t)) \in Nat /\ Len(QueueAt(k, t)) <= Limit[k]
         /\ Limit[k] \in Nat \ {0}
         /\ Keep(QueueAt(k, t), Instants(k)) = Keep(stamps[k], Instants(k))
<1> DEFINE before == StampsLeft(k, t)[k]
           bucket == Expired(before, t - Window[k])
<1>1. /\ before \in Seq(0 .. now) /\ Len(before) \in Nat /\ Len(before) <= Limit[k]
      /\ Keep(before, Instants(k)) = Keep(stamps[k], Instants(k))
  BY StampsLeftFacts
<1>2. QueueAt(k, t) = bucket /\ Limit[k] \in Nat \ {0}
  BY LimiterAssumption DEF QueueAt
<1> HIDE DEF before
<1>3. /\ bucket \in Seq(0 .. now) /\ Len(bucket) \in Nat /\ Len(bucket) <= Len(before)
      /\ Keep(bucket, Instants(k)) = Keep(before, Instants(k))
  BY <1>1, ExpiredBucket
<1> HIDE DEF bucket
<1>4. QED
  BY <1>1, <1>2, <1>3

LEMMA WindowKept ==
  ASSUME NEW k, NEW A, NEW readings \in Seq(A)
  PROVE  /\ StillInWindow(k, readings) \in Seq(A)
         /\ Keep(StillInWindow(k, readings), Instants(k)) = Keep(readings, Instants(k))
<1>1. StillInWindow(k, readings) = Keep(readings, Instants(k))
  BY DEF StillInWindow, Instants
<1>2. Instants(k) \cap Instants(k) = Instants(k)
  OBVIOUS
<1>3. QED
  BY <1>1, <1>2, KeepMeaning, KeepKeep

LEMMA AppendBoth ==
  ASSUME NEW A, NEW s \in Seq(A), NEW u \in Seq(A), NEW x \in A, NEW S,
         Keep(s, S) = Keep(u, S)
  PROVE  Keep(Append(s, x), S) = Keep(Append(u, x), S)
<1>1. /\ Keep(Append(s, x), S) = IF x \in S THEN Append(Keep(s, S), x) ELSE Keep(s, S)
      /\ Keep(Append(u, x), S) = IF x \in S THEN Append(Keep(u, S), x) ELSE Keep(u, S)
  BY KeepAppend
<1>2. QED
  BY <1>1

LEMMA TailFacts ==
  ASSUME NEW A, NEW s \in Seq(A), s # <<>>
  PROVE  /\ Head(s) \in A /\ Tail(s) \in Seq(A)
         /\ Len(s) > 1 => Tail(s) # <<>>
<1>1. Len(Tail(s)) = Len(s) - 1 /\ Len(s) \in Nat
  BY HeadTailProperties
<1>2. Len(s) > 1 => Len(Tail(s)) # 0
  BY <1>1
<1>3. Len(<<>>) = 0
  OBVIOUS
<1> DEFINE t == Tail(s)
<1>4. Len(s) > 1 => Len(t) # 0
  BY <1>2
<1> HIDE DEF t
<1>5. Len(s) > 1 => t # <<>>
  BY <1>3, <1>4
<1>6. QED
  BY <1>5, HeadTailProperties DEF t

(* What the steps of the threads find in their requests. *)
LEMMA ConsumerFacts ==
  ASSUME LimiterInv, NEW p \in Threads, pc[p] = "waiting"
  PROVE  /\ Head(todo[p]) \in Keys /\ readAt[p] \in 0 .. now
         /\ todo[p] \in Seq(Keys) /\ Tail(todo[p]) \in Seq(Keys) /\ Len(todo[p]) \in Nat
         /\ Len(todo[p]) > 1 => Tail(todo[p]) # <<>>
         /\ retryAfter[p] \in Nat /\ req[p] \in Requests
<1>1. todo[p] \in Seq(Keys) /\ todo[p] # <<>>
  BY DEF LimiterInv, ThreadsOK
<1>2. /\ Head(todo[p]) \in Keys /\ Tail(todo[p]) \in Seq(Keys)
      /\ Len(todo[p]) > 1 => Tail(todo[p]) # <<>>
  BY <1>1, TailFacts
<1>3. QED
  BY <1>1, <1>2 DEF LimiterInv, ThreadsOK

(* The bucket of each key when a thread that read t has consumed k. *)
BucketAfter(k, t, key) ==
  IF key = k THEN IF Refused(k, t) THEN QueueAt(k, t) ELSE Append(QueueAt(k, t), t) ELSE
  IF key \in Members(RoomFor(k, t)) THEN StampsLeft(k, t)[key] ELSE <<>>

AdmittedAfter(k, t, key) ==
  IF key = k
  THEN StillInWindow(k, IF Refused(k, t) THEN admitted[k] ELSE Append(admitted[k], t)) ELSE
  IF key \in Members(KeysLeft(k, t)) \ Members(RoomFor(k, t)) THEN <<>>
  ELSE admitted[key]

LEMMA ConsumeBuckets ==
  ASSUME LimiterInv, NEW k \in Keys, NEW t \in 0 .. now, NEW key \in Keys
  PROVE  /\ BucketAfter(k, t, key) \in Seq(0 .. now)
         /\ Len(BucketAfter(k, t, key)) <= Limit[key]
         /\ BucketAfter(k, t, key) # <<>> => key \in Members(RoomFor(k, t)) \cup {k}
         /\ AdmittedAfter(k, t, key) \in Seq(0 .. now)
         /\ Keep(AdmittedAfter(k, t, key), Instants(key))
              = Keep(BucketAfter(k, t, key), Instants(key))
<1>1. CASE key = k
  <2> DEFINE bucket == QueueAt(k, t)
             past == admitted[k]
  <2>1. /\ bucket \in Seq(0 .. now) /\ Len(bucket) \in Nat /\ Len(bucket) <= Limit[k]
        /\ Limit[k] \in Nat /\ past \in Seq(0 .. now)
        /\ Keep(bucket, Instants(k)) = Keep(past, Instants(k))
        /\ Refused(k, t) <=> Len(bucket) >= Limit[k]
    BY QueueFacts, BucketFacts DEF Refused
  <2>2. CASE Refused(k, t)
    <3>1. /\ BucketAfter(k, t, key) = bucket
          /\ AdmittedAfter(k, t, key) = StillInWindow(k, past)
      BY <1>1, <2>2 DEF BucketAfter, AdmittedAfter
    <3> HIDE DEF bucket, past
    <3>2. QED
      BY <1>1, <2>1, <3>1, WindowKept
  <2>3. CASE ~Refused(k, t)
    <3>1. /\ BucketAfter(k, t, key) = Append(bucket, t)
          /\ AdmittedAfter(k, t, key) = StillInWindow(k, Append(past, t))
      BY <1>1, <2>3 DEF BucketAfter, AdmittedAfter
    <3> HIDE DEF bucket, past
    <3>2. /\ Append(bucket, t) \in Seq(0 .. now) /\ Len(Append(bucket, t)) = Len(bucket) + 1
          /\ Append(past, t) \in Seq(0 .. now)
      BY <2>1, AppendProperties
    <3>3. Len(Append(bucket, t)) <= Limit[k]
      BY <2>1, <2>3, <3>2
    <3>4. Keep(Append(past, t), Instants(k)) = Keep(Append(bucket, t), Instants(k))
      <4> DEFINE A == 0 .. now
                 R == Instants(k)
      <4>1. bucket \in Seq(A) /\ past \in Seq(A) /\ t \in A /\ Keep(past, R) = Keep(bucket, R)
        BY <2>1
      <4> HIDE DEF A, R
      <4>2. Keep(Append(past, t), R) = Keep(Append(bucket, t), R)
        BY <4>1, AppendBoth
      <4>3. QED
        BY <4>2 DEF R
    <3>5. /\ StillInWindow(k, Append(past, t)) \in Seq(0 .. now)
          /\ Keep(StillInWindow(k, Append(past, t)), Instants(k))
               = Keep(Append(past, t), Instants(k))
      BY <3>2, WindowKept
    <3>6. QED
      BY <1>1, <3>1, <3>2, <3>3, <3>4, <3>5
  <2>4. QED
    BY <2>2, <2>3
<1>2. CASE key # k /\ key \in Members(RoomFor(k, t))
  <2>1. BucketAfter(k, t, key) = StampsLeft(k, t)[key] /\ AdmittedAfter(k, t, key) = admitted[key]
    BY <1>2 DEF BucketAfter, AdmittedAfter
  <2>2. QED
    BY <1>2, <2>1, StampsLeftFacts, BucketFacts
<1>3. CASE key # k /\ key \notin Members(RoomFor(k, t))
  <2>1. BucketAfter(k, t, key) = <<>> /\ Len(<<>>) = 0 /\ <<>> \in Seq(0 .. now)
    BY <1>3 DEF BucketAfter
  <2>2. Len(BucketAfter(k, t, key)) <= Limit[key]
    BY <2>1, BucketFacts
  <2>3. CASE key \in Members(KeysLeft(k, t))
    <3>1. AdmittedAfter(k, t, key) = <<>>
      BY <1>3, <2>3 DEF AdmittedAfter
    <3>2. QED
      BY <2>1, <2>2, <3>1
  <2>4. CASE key \notin Members(KeysLeft(k, t))
    <3>1. AdmittedAfter(k, t, key) = admitted[key]
      BY <1>3, <2>4 DEF AdmittedAfter
    <3>2. StampsLeft(k, t)[key] = <<>>
      BY <2>4, KeysLeftFacts
    <3>3. Keep(admitted[key], Instants(key)) = Keep(<<>>, Instants(key))
      BY <3>2, StampsLeftFacts, BucketFacts
    <3>4. QED
      BY <2>1, <2>2, <3>1, <3>3, BucketFacts
  <2>5. QED
    BY <2>3, <2>4
<1>4. QED
  BY <1>1, <1>2, <1>3

LEMMA ConsumeStep ==
  ASSUME LimiterInv, NEW p \in Threads, Consume(p)
  PROVE  LimiterInv'
<1> DEFINE k == Head(todo[p])
           t == readAt[p]
<1>1. k \in Keys /\ t \in 0 .. now
  BY ConsumerFacts DEF Consume
<1>2. /\ now' = now
      /\ order' = Append(Drop(RoomFor(k, t), k), k)
      /\ stamps' = [key \in Keys |-> BucketAfter(k, t, key)]
      /\ admitted' = [key \in Keys |-> AdmittedAfter(k, t, key)]
  BY DEF Consume, BucketAfter, AdmittedAfter
<1>3. \A key \in Keys : stamps'[key] = BucketAfter(k, t, key)
  BY <1>2
<1>4. \A key \in Keys : admitted'[key] = AdmittedAfter(k, t, key)
  BY <1>2
<1> HIDE DEF k, t
<1>5. /\ order' \in Seq(Keys) /\ Distinct(order') /\ Len(order') <= MaxBuckets
      /\ Members(order') = Members(RoomFor(k, t)) \cup {k}
  <2> DEFINE room == RoomFor(k, t)
             w == Append(Drop(room, k), k)
  <2>1. /\ room \in Seq(Keys) /\ Distinct(room)
        /\ Len(room) \in Nat /\ Len(room) <= MaxBuckets
        /\ k \notin Members(room) => Len(room) < MaxBuckets
    BY <1>1, RoomFacts
  <2> HIDE DEF room
  <2>2. /\ w \in Seq(Keys) /\ Distinct(w)
        /\ Len(w) \in Nat /\ Len(w) <= IF k \in Members(room) THEN Len(room) ELSE Len(room) + 1
        /\ Members(w) = Members(room) \cup {k}
    BY <1>1, <2>1, UsedLast
  <2>3. order' = w
    BY <1>2 DEF room
  <2> HIDE DEF w
  <2>4. Len(w) <= MaxBuckets
    BY <2>1, <2>2, LimiterAssumption
  <2>5. QED
    BY <2>2, <2>3, <2>4 DEF room
<1>6. BucketsType'
  BY <1>1, <1>2, <1>5, ConsumeBuckets DEF BucketsType, LimiterInv
<1>7. BucketsBounded'
  BY <1>1, <1>3, <1>5, ConsumeBuckets DEF BucketsBounded
<1>8. WindowRemembered'
  <2>1. \A key \in Keys : Instants(key)' = Instants(key)
    BY <1>2 DEF Instants
  <2>2. QED
    BY <1>1, <1>3, <1>4, <2>1, ConsumeBuckets DEF WindowRemembered
<1>9. ThreadsOK'
  <2> DEFINE wait == IF Refused(k, t) THEN WaitFor(QueueAt(k, t), k, t) ELSE 0
  <2>1. /\ pc[p] = "waiting"
        /\ pc' = [pc EXCEPT ![p] = AfterConsume(p, wait)]
        /\ retryAfter' = [retryAfter EXCEPT ![p] = Larger(@, wait)]
        /\ todo' = [todo EXCEPT ![p] = Tail(@)]
        /\ req' = req /\ readAt' = readAt
    BY DEF Consume, k, t
  <2>2. wait \in Nat
    <3>1. CASE ~Refused(k, t)
      BY <3>1
    <3>2. CASE Refused(k, t)
      <4>1. QueueAt(k, t) \in Seq(0 .. now) /\ Len(QueueAt(k, t)) > 0
        BY <1>1, <3>2, QueueFacts DEF Refused
      <4>2. QueueAt(k, t)[1] \in Nat /\ Window[k] \in Nat /\ t \in Nat
        BY <1>1, <4>1, InstantsFacts
      <4>3. QED
        BY <3>2, <4>2 DEF WaitFor, Larger
    <3>3. QED
      BY <3>1, <3>2
  <2> HIDE DEF wait
  <2>3. /\ AfterConsume(p, wait) \in {"reading", "admitted", "refused"}
        /\ AfterConsume(p, wait) = "reading" => Tail(todo[p]) # <<>>
    BY <2>1, ConsumerFacts DEF AfterConsume
  <2>4. Larger(retryAfter[p], wait) \in Nat
    BY <2>1, <2>2, ConsumerFacts DEF Larger
  <2>5. Tail(todo[p]) \in Seq(Keys) /\ req[p] \in Requests
    BY <2>1, ConsumerFacts
  <2>6. QED
    BY <1>2, <2>1, <2>3, <2>4, <2>5 DEF LimiterInv, ThreadsOK
<1>10. QED
  BY <1>6, <1>7, <1>8, <1>9 DEF LimiterInv

-----------------------------------------------------------------------------
(* The other steps *)

LEMMA InitInv == Init => LimiterInv
<1> SUFFICES ASSUME Init PROVE LimiterInv
  OBVIOUS
<1>1. /\ order = <<>> /\ now = 0
      /\ stamps = [k \in Keys |-> <<>>] /\ admitted = [k \in Keys |-> <<>>]
  BY DEF Init
<1>2. \A A : <<>> \in Seq(A)
  OBVIOUS
<1>3. BucketsType
  BY <1>1, <1>2 DEF BucketsType
<1>4. BucketsBounded
  BY <1>1, LimiterAssumption DEF BucketsBounded, Distinct, Members
<1>5. WindowRemembered
  BY <1>1 DEF WindowRemembered
<1>6. ThreadsOK
  BY <1>2 DEF Init, ThreadsOK
<1>7. QED
  BY <1>3, <1>4, <1>5, <1>6 DEF LimiterInv

(* A step that leaves the buckets and the clock alone. *)
LEMMA BucketsAlone ==
  ASSUME LimiterInv, UNCHANGED <<order, stamps, admitted, now>>
  PROVE  BucketsType' /\ BucketsBounded' /\ WindowRemembered'
BY DEF LimiterInv, BucketsType, BucketsBounded, WindowRemembered, Instants

LEMMA ForgetThreads ==
  ASSUME LimiterInv, NEW p \in Threads, Forget(p), now' = now
  PROVE  ThreadsOK'
<1>1. now \in Nat /\ \A A : <<>> \in Seq(A)
  BY DEF LimiterInv, BucketsType
<1>2. QED
  BY <1>1 DEF LimiterInv, ThreadsOK, Forget

LEMMA ArriveStep ==
  ASSUME LimiterInv, NEW p \in Threads, NEW r \in Requests, Arrive(p, r)
  PROVE  LimiterInv'
<1>1. r.keys \in Seq(Keys) /\ r.keys # <<>>
  BY LimiterAssumption DEF Request
<1>2. ThreadsOK'
  BY <1>1 DEF LimiterInv, ThreadsOK, Arrive, bucketVars
<1>3. QED
  BY <1>2, BucketsAlone DEF LimiterInv, Arrive, bucketVars

LEMMA ReadClockStep ==
  ASSUME LimiterInv, NEW p \in Threads, ReadClock(p)
  PROVE  LimiterInv'
<1>1. now \in Nat
  BY DEF LimiterInv, BucketsType
<1>2. ThreadsOK'
  BY <1>1 DEF LimiterInv, ThreadsOK, ReadClock, bucketVars
<1>3. QED
  BY <1>2, BucketsAlone DEF LimiterInv, ReadClock, bucketVars

LEMMA ResetStep ==
  ASSUME LimiterInv, NEW p \in Threads, Reset(p)
  PROVE  LimiterInv'
<1> DEFINE k == req[p].clears
<1>1. k \in Keys
  <2>1. req[p] \in Requests
    BY DEF LimiterInv, ThreadsOK, Reset
  <2>2. QED
    BY <2>1, LimiterAssumption DEF Request, Reset
<1>2. /\ order' = Drop(order, k) /\ now' = now
      /\ stamps' = [stamps EXCEPT ![k] = <<>>]
      /\ admitted' = [admitted EXCEPT ![k] = <<>>]
  BY DEF Reset
<1> HIDE DEF k
<1>3. order \in Seq(Keys) /\ Distinct(order) /\ Len(order) \in Nat /\ Len(order) <= MaxBuckets
  BY DEF LimiterInv, BucketsType, BucketsBounded
<1>4. /\ order' \in Seq(Keys) /\ Distinct(order') /\ Len(order') \in Nat
      /\ Len(order') <= Len(order) /\ Members(order') = Members(order) \ {k}
  BY <1>2, <1>3, DropMembers
<1>5. \A A : <<>> \in Seq(A) /\ Len(<<>>) = 0
  OBVIOUS
<1>6. BucketsType'
  BY <1>2, <1>4, <1>5 DEF LimiterInv, BucketsType
<1>7. \A key \in Keys :
        /\ stamps'[key] = IF key = k THEN <<>> ELSE stamps[key]
        /\ admitted'[key] = IF key = k THEN <<>> ELSE admitted[key]
  BY <1>1, <1>2 DEF LimiterInv, BucketsType
<1>8. BucketsBounded'
  <2>1. Len(order') <= MaxBuckets
    BY <1>3, <1>4, LimiterAssumption
  <2>2. \A key \in Keys : Len(stamps'[key]) <= Limit[key]
    BY <1>5, <1>7, BucketFacts
  <2>3. \A key \in Keys : stamps'[key] # <<>> => key \in Members(order')
    BY <1>4, <1>7 DEF LimiterInv, BucketsBounded
  <2>4. QED
    BY <1>4, <2>1, <2>2, <2>3 DEF BucketsBounded
<1>9. WindowRemembered'
  <2>1. \A key \in Keys : Instants(key)' = Instants(key)
    BY <1>2 DEF Instants
  <2>2. QED
    BY <1>7, <2>1 DEF LimiterInv, WindowRemembered
<1>10. ThreadsOK'
  BY <1>2, ForgetThreads DEF Reset
<1>11. QED
  BY <1>6, <1>8, <1>9, <1>10 DEF LimiterInv

LEMMA FinishStep ==
  ASSUME LimiterInv, NEW p \in Threads, Finish(p)
  PROVE  LimiterInv'
<1>1. ThreadsOK'
  BY ForgetThreads DEF Finish
<1>2. QED
  BY <1>1, BucketsAlone DEF LimiterInv, Finish, bucketVars

(* As the clock goes on, the window only loses instants that any reading   *)
(* may have.                                                               *)
LEMMA WindowShrinks ==
  ASSUME LimiterInv, now' = now + 1, NEW k \in Keys, NEW s \in Seq(0 .. now)
  PROVE  Keep(s, Instants(k)') = Keep(Keep(s, Instants(k)), Instants(k)')
<1>1. now \in Nat /\ Window[k] \in Nat
  BY LimiterAssumption DEF LimiterInv, BucketsType
<1>2. ASSUME NEW i \in 1 .. Len(s)
      PROVE  s[i] \in Instants(k)' <=> s[i] \in Instants(k) \cap Instants(k)'
  <2>1. s[i] \in 0 .. now
    BY ElementOfSeq
  <2>2. QED
    BY <1>1, <2>1 DEF Instants
<1>3. Keep(s, Instants(k)') = Keep(s, Instants(k) \cap Instants(k)')
  BY <1>2, KeepSame
<1>4. QED
  BY <1>3, KeepKeep

LEMMA TickStep == LimiterInv /\ Tick => LimiterInv'
<1> SUFFICES ASSUME LimiterInv, Tick PROVE LimiterInv'
  OBVIOUS
<1>1. now \in Nat /\ now' = now + 1 /\ UNCHANGED <<order, stamps, admitted>>
  BY DEF LimiterInv, BucketsType, Tick, bucketVars
<1>2. \A s \in Seq(0 .. now) : s \in Seq(0 .. now')
  <2>1. 0 .. now \subseteq 0 .. now'
    BY <1>1
  <2>2. QED
    BY <2>1, SeqMonotonic
<1>3. BucketsType'
  BY <1>1, <1>2 DEF LimiterInv, BucketsType
<1>4. BucketsBounded'
  BY <1>1 DEF LimiterInv, BucketsBounded
<1>5. WindowRemembered'
  <2> SUFFICES ASSUME NEW k \in Keys
               PROVE  Keep(admitted[k], Instants(k)') = Keep(stamps[k], Instants(k)')
    BY <1>1 DEF WindowRemembered
  <2>1. /\ stamps[k] \in Seq(0 .. now) /\ admitted[k] \in Seq(0 .. now)
        /\ Keep(admitted[k], Instants(k)) = Keep(stamps[k], Instants(k))
    BY BucketFacts
  <2>2. QED
    BY <1>1, <2>1, WindowShrinks
<1>6. ThreadsOK'
  <2>1. \A p \in Threads : readAt[p] \in 0 .. now'
    BY <1>1 DEF LimiterInv, ThreadsOK
  <2>2. QED
    BY <2>1 DEF LimiterInv, ThreadsOK, Tick, bucketVars
<1>7. QED
  BY <1>3, <1>4, <1>5, <1>6 DEF LimiterInv

LEMMA StepInv == LimiterInv /\ [Next]_vars => LimiterInv'
<1> SUFFICES ASSUME LimiterInv, [Next]_vars PROVE LimiterInv'
  OBVIOUS
<1>1. CASE UNCHANGED vars
  BY <1>1, BucketsAlone DEF vars, bucketVars, LimiterInv, ThreadsOK
<1>2. CASE Next
  BY <1>2, ArriveStep, ReadClockStep, ConsumeStep, ResetStep, FinishStep, TickStep DEF Next
<1>3. QED
  BY <1>1, <1>2

THEOREM LimiterInvariantHolds == Spec => []LimiterInv
BY InitInv, StepInv, PTL DEF Spec

-----------------------------------------------------------------------------
(* Rate limits: theorems *)

(* However many clients come, the buckets are as many as they may be, each *)
(* once, and none holds more than its limit.                               *)
THEOREM MemoryIsBounded == Spec => []BoundedMemory
<1>1. LimiterInv => BoundedMemory
  BY DistinctCount DEF LimiterInv, BucketsType, BucketsBounded, BoundedMemory
<1>2. QED
  BY <1>1, LimiterInvariantHolds, PTL

(* Of the requests that read the clock within the last window, no more     *)
(* than the limit were let pass.                                           *)
THEOREM LimitsHold == Spec => []LimitHolds
<1>1. LimiterInv => LimitHolds
  <2> SUFFICES ASSUME LimiterInv, NEW k \in Keys
               PROVE  Cardinality({i \in 1 .. Len(admitted[k]) :
                                     admitted[k][i] > now - Window[k]}) <= Limit[k]
    BY DEF LimitHolds
  <2> DEFINE past == admitted[k]
             bucket == stamps[k]
             R == Instants(k)
  <2>1. /\ bucket \in Seq(0 .. now) /\ past \in Seq(0 .. now)
        /\ Len(bucket) \in Nat /\ Len(bucket) <= Limit[k] /\ Limit[k] \in Nat
        /\ Keep(past, R) = Keep(bucket, R)
    BY BucketFacts
  <2>2. now \in Nat /\ Window[k] \in Nat
    BY LimiterAssumption DEF LimiterInv, BucketsType
  <2> HIDE DEF past, bucket
  <2>3. ASSUME NEW i \in 1 .. Len(past) PROVE past[i] > now - Window[k] <=> past[i] \in R
    <3>1. past[i] \in 0 .. now
      BY <2>1, ElementOfSeq
    <3>2. QED
      BY <2>2, <3>1 DEF Instants
  <2> HIDE DEF R
  <2>4. {i \in 1 .. Len(past) : past[i] > now - Window[k]} = {i \in 1 .. Len(past) : past[i] \in R}
    BY <2>3
  <2>5. Cardinality({i \in 1 .. Len(past) : past[i] \in R}) = Len(Keep(past, R))
    BY <2>1, KeepCount
  <2>6. Len(Keep(bucket, R)) \in Nat /\ Len(Keep(bucket, R)) <= Len(bucket)
    BY <2>1, KeepLength
  <2> DEFINE n == Len(Keep(bucket, R))
             c == Cardinality({i \in 1 .. Len(past) : past[i] > now - Window[k]})
  <2>7. c = n
    BY <2>1, <2>4, <2>5
  <2> HIDE DEF n, c
  <2>8. n \in Nat /\ n <= Len(bucket)
    BY <2>6 DEF n
  <2>9. c <= Limit[k]
    BY <2>1, <2>7, <2>8
  <2>10. QED
    BY <2>9 DEF c, past
<1>2. QED
  BY <1>1, LimiterInvariantHolds, PTL

(* A thread that has waited for the lock is seen off by Consume only. *)
LEMMA OnlyConsumeAnswers ==
  ASSUME LimiterInv, [Next]_vars, NEW p \in Threads, pc[p] = "waiting", pc'[p] # "waiting"
  PROVE  Consume(p)
<1>1. pc \in [Threads -> {"idle", "reading", "waiting", "admitted", "refused"}]
  BY DEF LimiterInv, ThreadsOK
<1>2. Next
  BY DEF vars
<1>3. ASSUME NEW q \in Threads, NEW r \in Requests PROVE ~Arrive(q, r)
  BY <1>1 DEF Arrive
<1>4. ASSUME NEW q \in Threads
      PROVE  ~ReadClock(q) /\ ~Reset(q) /\ ~Finish(q) /\ (q # p => ~Consume(q))
  BY <1>1 DEF ReadClock, Reset, Finish, Forget, Consume
<1>5. ~Tick
  BY DEF Tick
<1>6. QED
  BY <1>2, <1>3, <1>4, <1>5 DEF Next

(* Whoever is refused is told to wait long enough. *)
LEMMA RefusedMayReturn ==
  ASSUME LimiterInv, NEW p \in Threads, Consume(p), Refused(Head(todo[p]), readAt[p])
  PROVE  LET k == Head(todo[p])
         IN  Len(Expired(stamps'[k], readAt[p] + retryAfter'[p] - Window[k])) < Limit[k]
<1> DEFINE k == Head(todo[p])
           t == readAt[p]
           bucket == QueueAt(k, t)
           wait == WaitFor(bucket, k, t)
<1>1. k \in Keys /\ t \in 0 .. now /\ retryAfter[p] \in Nat
  BY ConsumerFacts DEF Consume
<1>2. /\ stamps' = [key \in Keys |-> BucketAfter(k, t, key)]
      /\ retryAfter' = [retryAfter EXCEPT ![p] = Larger(@, wait)]
  BY DEF Consume, BucketAfter
<1>3. retryAfter'[p] = Larger(retryAfter[p], wait)
  BY <1>2 DEF LimiterInv, ThreadsOK
<1> HIDE DEF wait, k, t
<1>4. Refused(k, t)
  BY DEF k, t
<1>5. stamps'[k] = bucket
  BY <1>1, <1>2, <1>4 DEF BucketAfter
<1>6. /\ bucket \in Seq(0 .. now) /\ Len(bucket) \in Nat /\ Len(bucket) <= Limit[k]
      /\ Len(bucket) >= Limit[k] /\ Limit[k] \in Nat \ {0}
  BY <1>1, <1>4, QueueFacts DEF Refused
<1>7. now \in Nat /\ t \in Nat /\ Window[k] \in Nat
  BY <1>1, InstantsFacts
<1> HIDE DEF bucket
<1>8. bucket # <<>> /\ bucket[1] \in 0 .. now
  <2>1. 1 \in 1 .. Len(bucket) /\ Len(bucket) # 0
    BY <1>6
  <2>2. bucket[1] \in 0 .. now
    BY <1>6, <2>1, ElementOfSeq
  <2>3. bucket # <<>>
    BY <2>1
  <2>4. QED
    BY <2>2, <2>3
<1>9. retryAfter'[p] \in Nat /\ retryAfter'[p] >= bucket[1] + Window[k] - t
  BY <1>1, <1>3, <1>7, <1>8 DEF Larger, wait, WaitFor
<1> DEFINE cutoff == t + retryAfter'[p] - Window[k]
<1>10. cutoff \in Int /\ bucket[1] <= cutoff
  BY <1>7, <1>8, <1>9
<1> HIDE DEF cutoff
<1>11. /\ Len(Expired(bucket, cutoff)) \in Nat
       /\ Len(Expired(bucket, cutoff)) < Len(bucket)
  BY <1>6, <1>7, <1>8, <1>10, ExpiredFacts
<1>12. Len(Expired(bucket, cutoff)) < Limit[k]
  BY <1>6, <1>11
<1>13. QED
  BY <1>5, <1>12 DEF cutoff, k, t

(* The wait that a refused request is told is long enough for its bucket   *)
(* to have room again, whatever order its stamps are in.                   *)
THEOREM RetryAfterIsEnough == Spec => RetryAfterSuffices
<1>1. LimiterInv /\ [Next]_vars =>
        [\A p \in Threads :
           LET k == Head(todo[p]) IN
           pc[p] = "waiting" /\ pc'[p] # "waiting" /\ Refused(k, readAt[p]) =>
             Len(Expired(stamps'[k], readAt[p] + retryAfter'[p] - Window[k])) < Limit[k]]_vars
  BY OnlyConsumeAnswers, RefusedMayReturn
<1>2. QED
  BY <1>1, LimiterInvariantHolds, PTL DEF Spec, RetryAfterSuffices

-----------------------------------------------------------------------------
(* Chat sessions: the inductive invariant *)

Created == {o \in Objects : idOf[o] # NoId}

TypeInv ==
  /\ clock \in Nat
  /\ registry \in Seq(Objects)
  /\ idOf \in [Objects -> Ids \cup {NoId}]
  /\ touched \in [Objects -> 0 .. clock]
  /\ queue \in [Objects -> Seq(Turns)]
  /\ phase \in [Turns -> {"idle", "queued", "running"}]
  /\ session \in [Turns -> Objects \cup {NoObject}]

(* The registry is bounded and holds objects that exist, one of each id. *)
RegistryInv ==
  /\ Distinct(registry)
  /\ Len(registry) <= MaxSessions
  /\ Members(registry) \subseteq Created
  /\ \A o, x \in Members(registry) : idOf[o] = idOf[x] => o = x

(* Whoever has fetched an object is in its queue, and who runs is first. *)
LocksInv ==
  \A p \in Turns :
    phase[p] # "idle" =>
      /\ session[p] \in Objects
      /\ p \in Members(queue[session[p]])
      /\ phase[p] = "running" => Head(queue[session[p]]) = p

CreationInv == IsFiniteSet(Created)

(* An object lies before those that were fetched after it. *)
InOrder(objects, times) ==
  \A i, j \in 1 .. Len(objects) : i < j => times[objects[i]] <= times[objects[j]]

(* The last object of an id is registered, unless it was dropped, has      *)
(* expired, or has made room for as many others as fit.                    *)
Remembered(o) ==
  \/ o \in Members(registry)
  \/ clock - touched[o] > TTL
  \/ Cardinality(UsedSince(o)) > MaxSessions

MemoryInv == \A id \in Ids : \A o \in Latest(id) \ dropped : Remembered(o)

ChatInv ==
  /\ TypeInv
  /\ RegistryInv
  /\ LocksInv
  /\ CreationInv
  /\ InOrder(registry, touched)
  /\ MemoryInv

-----------------------------------------------------------------------------
(* Locks *)

LEMMA HeadIsMember ==
  ASSUME NEW A, NEW s \in Seq(A), NEW x \in Members(s)
  PROVE  s # <<>> /\ Head(s) \in Members(s) /\ Head(s) = s[1] /\ 1 \in 1 .. Len(s)
<1>1. PICK i \in 1 .. Len(s) : s[i] = x
  BY DEF Members
<1>2. 1 \in 1 .. Len(s) /\ Len(s) # 0
  BY <1>1
<1>3. s # <<>>
  BY <1>2
<1>4. Head(s) = s[1]
  BY <1>3
<1>5. QED
  BY <1>2, <1>3, <1>4 DEF Members

LEMMA JoinKeepsLocks ==
  ASSUME TypeInv, LocksInv, NEW p \in Turns, NEW o \in Objects,
         phase[p] = "idle", JoinQueue(p, o)
  PROVE  /\ LocksInv'
         /\ queue' \in [Objects -> Seq(Turns)]
         /\ phase' \in [Turns -> {"idle", "queued", "running"}]
         /\ session' \in [Turns -> Objects \cup {NoObject}]
<1> DEFINE longer == Append(queue[o], p)
<1>1. queue[o] \in Seq(Turns)
  BY DEF TypeInv
<1>2. /\ longer \in Seq(Turns) /\ p \in Members(longer)
      /\ Members(queue[o]) \subseteq Members(longer)
      /\ Head(longer) = IF queue[o] = <<>> THEN p ELSE Head(queue[o])
  <2>1. /\ Len(longer) = Len(queue[o]) + 1 /\ longer \in Seq(Turns)
        /\ longer[Len(queue[o]) + 1] = p
        /\ \A i \in 1 .. Len(queue[o]) : longer[i] = queue[o][i]
    BY <1>1, AppendProperties
  <2>2. Len(queue[o]) \in Nat
    BY <1>1
  <2>3. Head(longer) = IF queue[o] = <<>> THEN p ELSE Head(queue[o])
    BY <1>1, HeadTailAppend
  <2> HIDE DEF longer
  <2>4. QED
    BY <2>1, <2>2, <2>3 DEF Members
<1>3. /\ queue' = [queue EXCEPT ![o] = longer]
      /\ session' = [session EXCEPT ![p] = o]
      /\ phase' = [phase EXCEPT ![p] = IF queue[o] = <<>> THEN "running" ELSE "queued"]
  BY DEF JoinQueue
<1> HIDE DEF longer
<1>4. /\ queue' \in [Objects -> Seq(Turns)]
      /\ phase' \in [Turns -> {"idle", "queued", "running"}]
      /\ session' \in [Turns -> Objects \cup {NoObject}]
  BY <1>2, <1>3 DEF TypeInv
<1>5. ASSUME NEW q \in Turns, phase'[q] # "idle"
      PROVE  /\ session'[q] \in Objects
             /\ q \in Members(queue'[session'[q]])
             /\ phase'[q] = "running" => Head(queue'[session'[q]]) = q
  <2>1. CASE q = p
    BY <1>2, <1>3, <2>1 DEF TypeInv
  <2>2. CASE q # p
    <3>1. /\ phase'[q] = phase[q] /\ session'[q] = session[q] /\ session[q] \in Objects
          /\ q \in Members(queue[session[q]])
          /\ phase[q] = "running" => Head(queue[session[q]]) = q
      BY <1>3, <1>5, <2>2 DEF TypeInv, LocksInv
    <3>2. CASE session[q] # o
      BY <1>3, <3>1, <3>2 DEF TypeInv
    <3>3. CASE session[q] = o
      <4>1. queue[o] # <<>>
        BY <1>1, <3>1, <3>3, HeadIsMember
      <4>2. queue'[o] = longer
        BY <1>3 DEF TypeInv
      <4>3. QED
        BY <1>2, <3>1, <3>3, <4>1, <4>2
    <3>4. QED
      BY <3>2, <3>3
  <2>3. QED
    BY <2>1, <2>2
<1>6. QED
  BY <1>4, <1>5 DEF LocksInv

(* Whoever leaves the queue, first or not, makes nobody else's lock two's. *)
LEMMA LeaveKeepsLocks ==
  ASSUME TypeInv, LocksInv, NEW p \in Turns, phase[p] # "idle", LeaveQueue(p),
         phase' = [phase EXCEPT ![p] = "idle"], session' = [session EXCEPT ![p] = NoObject]
  PROVE  /\ LocksInv'
         /\ queue' \in [Objects -> Seq(Turns)]
         /\ phase' \in [Turns -> {"idle", "queued", "running"}]
         /\ session' \in [Turns -> Objects \cup {NoObject}]
<1> DEFINE o == session[p]
           rest == Drop(queue[o], p)
<1>1. o \in Objects /\ queue[o] \in Seq(Turns) /\ p \in Members(queue[o])
  BY DEF TypeInv, LocksInv
<1>2. rest \in Seq(Turns) /\ Members(rest) = Members(queue[o]) \ {p}
  BY <1>1, DropMembers
<1>3. queue' = [queue EXCEPT ![o] = rest]
  BY DEF LeaveQueue
<1>4. ASSUME Head(queue[o]) # p PROVE Head(rest) = Head(queue[o])
  <2>1. queue[o] # <<>> /\ Head(queue[o]) \in Members(queue[o]) \ {p}
    BY <1>1, <1>4, HeadIsMember
  <2>2. QED
    BY <1>1, <2>1, KeepHead DEF Drop
<1> HIDE DEF rest, o
<1>5. /\ queue' \in [Objects -> Seq(Turns)]
      /\ phase' \in [Turns -> {"idle", "queued", "running"}]
      /\ session' \in [Turns -> Objects \cup {NoObject}]
  BY <1>2, <1>3 DEF TypeInv
<1>6. ASSUME NEW q \in Turns, phase'[q] # "idle"
      PROVE  /\ session'[q] \in Objects
             /\ q \in Members(queue'[session'[q]])
             /\ phase'[q] = "running" => Head(queue'[session'[q]]) = q
  <2>1. /\ q # p /\ phase'[q] = phase[q] /\ session'[q] = session[q] /\ session[q] \in Objects
        /\ q \in Members(queue[session[q]])
        /\ phase[q] = "running" => Head(queue[session[q]]) = q
    BY <1>6 DEF TypeInv, LocksInv
  <2>2. CASE session[q] # o
    BY <1>3, <2>1, <2>2 DEF TypeInv
  <2>3. CASE session[q] = o
    <3>1. queue'[o] = rest
      BY <1>1, <1>3 DEF TypeInv
    <3>2. QED
      BY <1>2, <1>4, <2>1, <2>3, <3>1
  <2>4. QED
    BY <2>2, <2>3
<1>7. QED
  BY <1>5, <1>6 DEF LocksInv

-----------------------------------------------------------------------------
(* Order *)

LEMMA InOrderKeep ==
  ASSUME NEW A, NEW s \in Seq(A), NEW S, NEW times, InOrder(s, times)
  PROVE  InOrder(Keep(s, S), times)
<1> SUFFICES ASSUME NEW i \in 1 .. Len(Keep(s, S)), NEW j \in 1 .. Len(Keep(s, S)), i < j
             PROVE  times[Keep(s, S)[i]] <= times[Keep(s, S)[j]]
  BY DEF InOrder
<1>1. \E a, b \in 1 .. Len(s) : a < b /\ Keep(s, S)[i] = s[a] /\ Keep(s, S)[j] = s[b]
  BY KeepOrder
<1>2. QED
  BY <1>1 DEF InOrder

LEMMA InOrderEnd ==
  ASSUME NEW A, NEW s \in Seq(A), NEW n \in Nat \ {0}, NEW times, InOrder(s, times)
  PROVE  InOrder(SubSeq(s, n, Len(s)), times)
<1> DEFINE w == SubSeq(s, n, Len(s))
<1>1. Len(s) \in Nat /\ \A i \in n .. Len(s) : s[i] \in A
  OBVIOUS
<1>2. /\ Len(w) = IF n <= Len(s) THEN Len(s) - n + 1 ELSE 0
      /\ \A i \in 1 .. (Len(s) - n + 1) : w[i] = s[n + i - 1]
  BY <1>1, SubSeqProperties
<1> HIDE DEF w
<1>3. \A i \in 1 .. Len(w) : n + i - 1 \in 1 .. Len(s) /\ w[i] = s[n + i - 1]
  BY <1>1, <1>2
<1>4. InOrder(w, times)
  <2> SUFFICES ASSUME NEW i \in 1 .. Len(w), NEW j \in 1 .. Len(w), i < j
               PROVE  times[w[i]] <= times[w[j]]
    BY DEF InOrder
  <2>1. n + i - 1 < n + j - 1
    OBVIOUS
  <2>2. QED
    BY <1>3, <2>1 DEF InOrder
<1>5. QED
  BY <1>4 DEF w

(* What was used last goes to the end. *)
LEMMA InOrderAppend ==
  ASSUME NEW A, NEW s \in Seq(A), NEW x \in A, NEW times, NEW after, InOrder(s, times),
         \A y \in Members(s) : after[y] = times[y] /\ after[y] <= after[x]
  PROVE  InOrder(Append(s, x), after)
<1> DEFINE w == Append(s, x)
<1>1. /\ Len(s) \in Nat /\ Len(w) = Len(s) + 1 /\ w[Len(s) + 1] = x
      /\ \A i \in 1 .. Len(s) : w[i] = s[i]
  BY AppendProperties
<1> HIDE DEF w
<1>2. \A i \in 1 .. Len(s) : s[i] \in Members(s)
  BY DEF Members
<1>3. ASSUME NEW i \in 1 .. Len(w), NEW j \in 1 .. Len(w), i < j PROVE after[w[i]] <= after[w[j]]
  <2>1. i \in 1 .. Len(s) /\ w[i] = s[i] /\ s[i] \in Members(s)
    BY <1>1, <1>2, <1>3
  <2>2. CASE j = Len(s) + 1
    BY <1>1, <2>1, <2>2
  <2>3. CASE j \in 1 .. Len(s)
    BY <1>1, <1>2, <1>3, <2>1, <2>3 DEF InOrder
  <2>4. QED
    BY <1>1, <2>2, <2>3
<1>4. QED
  BY <1>3 DEF InOrder, w

-----------------------------------------------------------------------------
(* Pruning *)

(* As the registry is within its bound, what get_or_create prunes first is *)
(* only what has expired.                                                  *)
LEMMA PruneFacts ==
  ASSUME ChatInv
  PROVE  LET w == Prune(registry)
         IN  /\ w \in Seq(Objects) /\ Distinct(w)
             /\ Len(w) \in Nat /\ Len(w) <= MaxSessions
             /\ Members(w) = {o \in Members(registry) : clock - touched[o] <= TTL}
             /\ InOrder(w, touched)
<1> DEFINE S == {o \in Objects : clock - touched[o] <= TTL}
           w == Keep(registry, S)
<1>1. /\ registry \in Seq(Objects) /\ Distinct(registry)
      /\ Len(registry) \in Nat /\ Len(registry) <= MaxSessions
      /\ InOrder(registry, touched) /\ MaxSessions \in Nat
      /\ Members(registry) \subseteq Objects
  BY RegistryAssumption DEF ChatInv, TypeInv, RegistryInv, Members
<1>2. Expire(registry) = w
  BY DEF Expire
<1>3. Members(registry) \cap S = {o \in Members(registry) : clock - touched[o] <= TTL}
  BY <1>1
<1> HIDE DEF S
<1>4. /\ w \in Seq(Objects) /\ Distinct(w) /\ Members(w) = Members(registry) \cap S
      /\ Len(w) \in Nat /\ Len(w) <= Len(registry) /\ InOrder(w, touched)
  BY <1>1, KeepMeaning, KeepLength, KeepMembers, KeepDistinct, InOrderKeep
<1> HIDE DEF w
<1>5. Len(w) <= MaxSessions
  BY <1>1, <1>4
<1>6. Evict(w) = w
  BY <1>1, <1>4, <1>5 DEF Evict
<1>7. Prune(registry) = w
  BY <1>2, <1>6 DEF Prune
<1>8. QED
  BY <1>3, <1>4, <1>5, <1>7

(* Those that were used since are finitely many, and grow. *)
LEMMA UsedIsFinite ==
  ASSUME CreationInv, NEW o
  PROVE  IsFiniteSet(UsedSince(o))
<1> DEFINE S == {y \in Objects : idOf[y] # NoId /\ touched[y] >= touched[o]}
           f == [y \in S |-> idOf[y]]
<1>1. S \in SUBSET Created /\ IsFiniteSet(Created)
  BY DEF CreationInv, Created
<1>2. UsedSince(o) = {idOf[x] : x \in S}
  BY DEF UsedSince
<1>3. f \in Surjection(S, {idOf[x] : x \in S})
  BY DEF Surjection
<1> HIDE DEF S, f
<1>4. IsFiniteSet(S)
  BY <1>1, FS_Subset
<1>5. QED
  BY <1>2, <1>3, <1>4, FS_Surjection

LEMMA UsedStaysFinite == (\A o \in Objects : CreationInv => IsFiniteSet(UsedSince(o)))'
<1>1. \A o \in Objects : CreationInv => IsFiniteSet(UsedSince(o))
  BY UsedIsFinite
<1>2. QED
  BY <1>1, PTL

LEMMA MoreIsMore ==
  ASSUME NEW S, NEW T, IsFiniteSet(T), S \subseteq T, Cardinality(S) > MaxSessions
  PROVE  Cardinality(T) > MaxSessions
<1>1. Cardinality(S) <= Cardinality(T) /\ Cardinality(T) \in Nat /\ Cardinality(S) \in Nat
  BY FS_Subset, FS_CardinalityType
<1>2. QED
  BY <1>1, RegistryAssumption

LEMMA UsedGrows ==
  ASSUME TypeInv, TypeInv', CreationInv', NEW o \in Objects, touched'[o] = touched[o],
         \A y \in Created : idOf'[y] = idOf[y] /\ touched'[y] >= touched[y],
         Cardinality(UsedSince(o)) > MaxSessions
  PROVE  Cardinality(UsedSince(o)') > MaxSessions
<1>1. ASSUME NEW i \in UsedSince(o) PROVE i \in UsedSince(o)'
  <2>1. PICK y \in Objects : idOf[y] # NoId /\ touched[y] >= touched[o] /\ i = idOf[y]
    BY DEF UsedSince
  <2>2. /\ touched[y] \in Nat /\ touched'[y] \in Nat /\ touched[o] \in Nat
        /\ idOf'[y] = idOf[y] /\ touched'[y] >= touched[y]
    BY <2>1 DEF TypeInv, Created
  <2>3. touched'[y] >= touched'[o]
    BY <2>1, <2>2
  <2>4. QED
    BY <2>1, <2>2, <2>3 DEF UsedSince
<1>2. IsFiniteSet(UsedSince(o)')
  BY UsedStaysFinite
<1>3. QED
  BY <1>1, <1>2, MoreIsMore

-----------------------------------------------------------------------------
(* Fetching a session that is known *)

LEMMA ContinueStep ==
  ASSUME ChatInv, NEW p \in Turns, NEW id \in Ids, Continue(p, id)
  PROVE  ChatInv'
<1> DEFINE w == Prune(registry)
<1>1. PICK o \in HasId(w, id) :
        /\ registry' = Append(Drop(w, o), o)
        /\ touched' = [touched EXCEPT ![o] = clock]
        /\ JoinQueue(p, o)
  BY DEF Continue, MoveToEnd
<1>2. phase[p] = "idle" /\ idOf' = idOf /\ dropped' = dropped /\ clock' = clock
  BY DEF Continue
<1>3. /\ w \in Seq(Objects) /\ Distinct(w)
      /\ Len(w) \in Nat /\ Len(w) <= MaxSessions
      /\ Members(w) = {x \in Members(registry) : clock - touched[x] <= TTL}
      /\ InOrder(w, touched)
  BY PruneFacts
<1> HIDE DEF w
<1>4. o \in Members(w) /\ o \in Members(registry) /\ o \in Objects /\ o \in Created
  BY <1>1, <1>3 DEF HasId, ChatInv, RegistryInv, Created
<1>5. /\ registry' \in Seq(Objects) /\ Distinct(registry')
      /\ Len(registry') <= Len(w) /\ Len(registry') \in Nat /\ Members(registry') = Members(w)
  <2> DEFINE v == Append(Drop(w, o), o)
  <2>1. /\ v \in Seq(Objects) /\ Distinct(v)
        /\ Len(v) \in Nat /\ Len(v) <= IF o \in Members(w) THEN Len(w) ELSE Len(w) + 1
        /\ Members(v) = Members(w) \cup {o}
    BY <1>3, <1>4, UsedLast
  <2> HIDE DEF v
  <2>2. registry' = v
    BY <1>1 DEF v
  <2>3. QED
    BY <1>4, <2>1, <2>2
<1>6. /\ touched' \in [Objects -> 0 .. clock]
      /\ \A x \in Objects : /\ touched[x] \in Nat /\ touched[x] <= clock
                            /\ touched'[x] = IF x = o THEN clock ELSE touched[x]
      /\ clock \in Nat
  BY <1>1, <1>4 DEF ChatInv, TypeInv
<1>7. LocksInv' /\ TypeInv'
  BY <1>1, <1>2, <1>4, <1>5, <1>6, JoinKeepsLocks DEF ChatInv, TypeInv
<1>8. RegistryInv'
  <2>1. Len(registry') <= MaxSessions
    BY <1>3, <1>5, RegistryAssumption
  <2>2. Members(registry') \subseteq Members(registry)
    BY <1>3, <1>5
  <2>3. QED
    BY <1>2, <1>5, <2>1, <2>2 DEF ChatInv, RegistryInv, Created
<1>9. CreationInv'
  BY <1>2 DEF ChatInv, CreationInv, Created
<1>10. InOrder(registry, touched)'
  <2> DEFINE d == Drop(w, o)
  <2>1. d \in Seq(Objects) /\ Members(d) = Members(w) \ {o}
    BY <1>3, DropMembers
  <2>2. InOrder(d, touched)
    BY <1>3, InOrderKeep DEF Drop
  <2> HIDE DEF d
  <2>3. \A y \in Members(d) : y \in Objects /\ y # o
    BY <1>3, <2>1 DEF ChatInv, RegistryInv, Created
  <2>4. \A y \in Members(d) : touched'[y] = touched[y] /\ touched'[y] <= touched'[o]
    BY <1>4, <1>6, <2>3
  <2>5. InOrder(Append(d, o), touched')
    BY <1>4, <2>1, <2>2, <2>4, InOrderAppend
  <2>6. QED
    BY <1>1, <2>5 DEF d, InOrder
<1>11. MemoryInv'
  <2> SUFFICES ASSUME NEW i \in Ids, NEW x \in Latest(i)' \ dropped' PROVE Remembered(x)'
    BY DEF MemoryInv
  <2>1. x \in Latest(i) \ dropped /\ x \in Objects
    BY <1>2 DEF Latest
  <2>2. Remembered(x)
    BY <2>1 DEF ChatInv, MemoryInv
  <2>3. CASE x \in Members(w)
    BY <1>5, <2>3 DEF Remembered
  <2>4. CASE x \notin Members(w)
    <3>1. x # o /\ touched'[x] = touched[x]
      BY <1>4, <1>6, <2>1, <2>4
    <3>2. CASE clock - touched[x] > TTL
      BY <1>2, <3>1, <3>2 DEF Remembered
    <3>3. CASE Cardinality(UsedSince(x)) > MaxSessions
      <4>1. \A y \in Created : idOf'[y] = idOf[y] /\ touched'[y] >= touched[y]
        BY <1>2, <1>6 DEF Created
      <4>2. Cardinality(UsedSince(x)') > MaxSessions
        BY <1>7, <1>9, <2>1, <3>1, <3>3, <4>1, UsedGrows DEF ChatInv
      <4>3. QED
        BY <4>2 DEF Remembered
    <3>4. CASE x \in Members(registry) /\ ~(clock - touched[x] > TTL)
      <4>1. clock - touched[x] <= TTL
        BY <1>6, <2>1, <3>4, RegistryAssumption
      <4>2. QED
        BY <1>3, <2>4, <3>4, <4>1
    <3>5. QED
      BY <2>2, <3>2, <3>3, <3>4 DEF Remembered
  <2>5. QED
    BY <2>3, <2>4
<1>12. QED
  BY <1>7, <1>8, <1>9, <1>10, <1>11 DEF ChatInv

-----------------------------------------------------------------------------
(* Registering a session that is not known *)

(* Who makes room was used no later than as many others as fit. *)
LEMMA ManyAreUsed ==
  ASSUME TypeInv', CreationInv', NEW v \in Seq(Objects), Distinct(v),
         Len(v) = MaxSessions + 1, InOrder(v, touched'), Members(v) \subseteq Created',
         \A o, x \in Members(v) : idOf'[o] = idOf'[x] => o = x,
         NEW first \in Objects, v[1] = first
  PROVE  Cardinality(UsedSince(first)') > MaxSessions
<1> DEFINE ids == [i \in 1 .. Len(v) |-> idOf'[v[i]]]
<1>1. MaxSessions \in Nat /\ Len(v) \in Nat /\ 1 \in 1 .. Len(v)
  BY RegistryAssumption
<1>2. \A i \in 1 .. Len(v) : v[i] \in Members(v) /\ v[i] \in Objects /\ v[i] \in Created'
  BY DEF Members
<1>3. /\ ids \in Seq(Ids \cup {NoId}) /\ Len(ids) = Len(v)
      /\ \A i \in 1 .. Len(v) : ids[i] = idOf'[v[i]]
  BY <1>1, <1>2 DEF TypeInv
<1> HIDE DEF ids
<1>4. Distinct(ids)
  <2> SUFFICES ASSUME NEW i \in 1 .. Len(v), NEW j \in 1 .. Len(v), ids[i] = ids[j] PROVE i = j
    BY <1>3 DEF Distinct
  <2>1. v[i] = v[j]
    BY <1>2, <1>3
  <2>2. QED
    BY <2>1 DEF Distinct
<1>5. ASSUME NEW i \in 1 .. Len(v) PROVE ids[i] \in UsedSince(first)'
  <2>1. touched'[v[i]] \in Nat /\ touched'[v[1]] \in Nat
    BY <1>1, <1>2 DEF TypeInv
  <2>2. i = 1 \/ 1 < i
    OBVIOUS
  <2>3. touched'[v[i]] >= touched'[v[1]]
    BY <1>1, <2>1, <2>2 DEF InOrder
  <2>4. QED
    BY <1>2, <1>3, <2>3 DEF UsedSince, Created
<1>6. Members(ids) \subseteq UsedSince(first)'
  BY <1>3, <1>5 DEF Members
<1>7. Cardinality(Members(ids)) = MaxSessions + 1
  BY <1>3, <1>4, DistinctCount
<1>8. Cardinality(Members(ids)) > MaxSessions
  BY <1>1, <1>7
<1>9. IsFiniteSet(UsedSince(first)')
  BY <1>1, <1>2, UsedStaysFinite
<1>10. QED
  BY <1>6, <1>8, <1>9, MoreIsMore

(* Of one more than fit, only the first makes room. *)
LEMMA EvictFacts ==
  ASSUME NEW v \in Seq(Objects), Distinct(v), v # <<>>, Len(v) <= MaxSessions + 1
  PROVE  /\ Evict(v) \in Seq(Objects) /\ Distinct(Evict(v)) /\ Len(Evict(v)) <= MaxSessions
         /\ Members(Evict(v)) \subseteq Members(v)
         /\ v[Len(v)] \in Members(Evict(v))
         /\ \A o \in Members(v) \ Members(Evict(v)) : o = v[1] /\ Len(v) = MaxSessions + 1
         /\ Evict(v) = v \/ Evict(v) = SubSeq(v, 2, Len(v))
<1>1. MaxSessions \in Nat \ {0} /\ Len(v) \in Nat \ {0}
  BY RegistryAssumption
<1>2. CASE Len(v) <= MaxSessions
  <2>1. Evict(v) = v
    BY <1>1, <1>2 DEF Evict
  <2>2. v[Len(v)] \in Members(v)
    BY <1>1 DEF Members
  <2>3. QED
    BY <1>2, <2>1, <2>2
<1>3. CASE Len(v) = MaxSessions + 1
  <2> DEFINE u == SubSeq(v, 2, Len(v))
  <2>1. Len(v) - MaxSessions + 1 = 2 /\ Len(v) > MaxSessions
    BY <1>1, <1>3
  <2>2. Evict(v) = u
    BY <2>1 DEF Evict
  <2>3. \A i \in 2 .. Len(v) : v[i] \in Objects
    BY <1>1
  <2>4. /\ u \in Seq(Objects) /\ Len(u) = MaxSessions
        /\ \A i \in 1 .. MaxSessions : u[i] = v[i + 1]
    BY <1>1, <1>3, <2>3, SubSeqProperties
  <2> HIDE DEF u
  <2>5. \A i \in 1 .. Len(u) : i + 1 \in 1 .. Len(v) /\ u[i] = v[i + 1]
    BY <1>1, <1>3, <2>4
  <2>6. Distinct(u)
    <3> SUFFICES ASSUME NEW i \in 1 .. Len(u), NEW j \in 1 .. Len(u), u[i] = u[j] PROVE i = j
      BY DEF Distinct
    <3>1. i + 1 = j + 1
      BY <2>5 DEF Distinct
    <3>2. QED
      BY <3>1
  <2>7. Members(u) \subseteq Members(v)
    BY <2>5 DEF Members
  <2>8. ASSUME NEW i \in 1 .. Len(v), i # 1 PROVE v[i] \in Members(u)
    <3>1. i - 1 \in 1 .. Len(u)
      BY <1>1, <1>3, <2>4, <2>8
    <3>2. u[i - 1] = v[i]
      BY <2>5, <3>1
    <3>3. QED
      BY <3>1, <3>2 DEF Members
  <2>9. v[Len(v)] \in Members(u)
    BY <1>1, <1>3, <2>8
  <2>10. \A o \in Members(v) \ Members(u) : o = v[1]
    BY <2>8 DEF Members
  <2>11. QED
    BY <1>1, <1>3, <2>2, <2>4, <2>6, <2>7, <2>9, <2>10 DEF u
<1>4. QED
  BY <1>1, <1>2, <1>3

LEMMA CreateStep ==
  ASSUME ChatInv, NEW p \in Turns, NEW id \in Ids, Create(p, id)
  PROVE  ChatInv'
<1> DEFINE w == Prune(registry)
<1>1. PICK o \in Objects :
        /\ NextObject(o)
        /\ registry' = Evict(Append(w, o))
        /\ idOf' = [idOf EXCEPT ![o] = id]
        /\ touched' = [touched EXCEPT ![o] = clock]
        /\ JoinQueue(p, o)
  BY DEF Create
<1>2. phase[p] = "idle" /\ dropped' = dropped /\ clock' = clock /\ HasId(w, id) = {}
  BY DEF Create
<1>3. /\ w \in Seq(Objects) /\ Distinct(w)
      /\ Len(w) \in Nat /\ Len(w) <= MaxSessions
      /\ Members(w) = {x \in Members(registry) : clock - touched[x] <= TTL}
      /\ InOrder(w, touched)
  BY PruneFacts
<1> HIDE DEF w
<1>4. /\ o \notin Created
      /\ \A x \in Objects : idOf'[x] = IF x = o THEN id ELSE idOf[x]
      /\ idOf' \in [Objects -> Ids \cup {NoId}]
      /\ id # NoId
  BY <1>1, RegistryAssumption DEF NextObject, Created, ChatInv, TypeInv
<1>5. /\ touched' \in [Objects -> 0 .. clock]
      /\ \A x \in Objects : /\ touched[x] \in Nat /\ touched[x] <= clock
                            /\ touched'[x] = IF x = o THEN clock ELSE touched[x]
      /\ clock \in Nat
  BY <1>1 DEF ChatInv, TypeInv
<1>6. \A y \in Members(w) : y \in Objects /\ y \in Created /\ y # o
  BY <1>3, <1>4 DEF ChatInv, RegistryInv, Created
<1>7. Created' = Created \cup {o}
  BY <1>4 DEF Created
<1> DEFINE v == Append(w, o)
<1>8. /\ v \in Seq(Objects) /\ Len(v) = Len(w) + 1 /\ v[Len(v)] = o
      /\ \A i \in 1 .. Len(w) : v[i] = w[i]
  BY <1>3, AppendProperties
<1>9. InOrder(v, touched')
  BY <1>3, <1>5, <1>6, InOrderAppend
<1>10. registry' = Evict(v)
  BY <1>1
<1> HIDE DEF v
<1>11. Members(v) = Members(w) \cup {o}
  <2>1. 1 .. Len(v) = 1 .. Len(w) \cup {Len(w) + 1}
    BY <1>3, <1>8
  <2>2. QED
    BY <1>8, <2>1 DEF Members
<1>12. Distinct(v)
  <2>1. \A i \in 1 .. Len(w) : w[i] # o
    BY <1>6 DEF Members
  <2> SUFFICES ASSUME NEW i \in 1 .. Len(v), NEW j \in 1 .. Len(v), v[i] = v[j] PROVE i = j
    BY DEF Distinct
  <2>2. CASE i = Len(v) \/ j = Len(v)
    BY <1>3, <1>8, <2>1, <2>2
  <2>3. CASE i # Len(v) /\ j # Len(v)
    <3>1. i \in 1 .. Len(w) /\ j \in 1 .. Len(w)
      BY <1>3, <1>8, <2>3
    <3>2. w[i] = w[j]
      BY <1>8, <3>1
    <3>3. QED
      BY <1>3, <3>1, <3>2 DEF Distinct
  <2>4. QED
    BY <2>2, <2>3
<1>13. \A x, y \in Members(v) : idOf'[x] = idOf'[y] => x = y
  <2>1. \A x \in Members(w) : idOf[x] # id
    BY <1>2 DEF HasId
  <2>2. \A x, y \in Members(w) : idOf[x] = idOf[y] => x = y
    BY <1>3 DEF ChatInv, RegistryInv
  <2>3. QED
    BY <1>4, <1>6, <1>11, <2>1, <2>2
<1>14. /\ registry' \in Seq(Objects) /\ Distinct(registry') /\ Len(registry') <= MaxSessions
       /\ Members(registry') \subseteq Members(v) /\ o \in Members(registry')
       /\ \A x \in Members(v) \ Members(registry') : x = v[1] /\ Len(v) = MaxSessions + 1
       /\ registry' = v \/ registry' = SubSeq(v, 2, Len(v))
  <2>1. Len(v) # 0 /\ Len(v) <= MaxSessions + 1
    BY <1>3, <1>8, RegistryAssumption
  <2>2. v # <<>>
    BY <2>1
  <2>3. QED
    BY <1>8, <1>10, <1>12, <2>1, <2>2, EvictFacts
<1>15. LocksInv' /\ TypeInv'
  BY <1>1, <1>2, <1>4, <1>5, <1>14, JoinKeepsLocks DEF ChatInv, TypeInv
<1>16. RegistryInv'
  BY <1>6, <1>7, <1>11, <1>13, <1>14 DEF RegistryInv
<1>17. CreationInv'
  BY <1>7, FS_AddElement DEF ChatInv, CreationInv
<1>18. InOrder(registry, touched)'
  <2>1. InOrder(SubSeq(v, 2, Len(v)), touched')
    BY <1>8, <1>9, InOrderEnd
  <2>2. InOrder(registry', touched')
    BY <1>9, <1>14, <2>1
  <2>3. QED
    BY <2>2 DEF InOrder
<1>19. MemoryInv'
  <2> SUFFICES ASSUME NEW i \in Ids, NEW x \in Latest(i)' \ dropped' PROVE Remembered(x)'
    BY DEF MemoryInv
  <2>1. CASE x \in Members(registry')
    BY <2>1 DEF Remembered
  <2>2. CASE x \in Members(v) \ Members(registry')
    <3>1. /\ v[1] = x /\ Len(v) = MaxSessions + 1
          /\ Members(v) \subseteq Created' /\ x \in Objects
      BY <1>6, <1>7, <1>11, <1>14, <2>2 DEF Latest
    <3>2. Cardinality(UsedSince(x)') > MaxSessions
      BY <1>8, <1>9, <1>12, <1>13, <1>15, <1>17, <3>1, ManyAreUsed
    <3>3. QED
      BY <3>2 DEF Remembered
  <2>3. CASE x \notin Members(v)
    <3>1. x # o /\ x \in Objects /\ x \notin Members(w) /\ touched'[x] = touched[x]
      BY <1>5, <1>11, <2>3 DEF Latest
    <3>2. x \in Latest(i) \ dropped
      <4>1. idOf[x] = i /\ x \notin dropped /\ i # NoId
        BY <1>2, <1>4, <3>1, RegistryAssumption DEF Latest
      <4>2. \A y \in Objects : idOf[y] = i => idOf'[y] = i
        BY <1>4, <4>1 DEF Created
      <4>3. QED
        BY <3>1, <4>1, <4>2 DEF Latest
    <3>3. Remembered(x)
      BY <3>2 DEF ChatInv, MemoryInv
    <3>4. CASE clock - touched[x] > TTL
      BY <1>2, <3>1, <3>4 DEF Remembered
    <3>5. CASE Cardinality(UsedSince(x)) > MaxSessions
      <4>1. \A y \in Created : idOf'[y] = idOf[y] /\ touched'[y] >= touched[y]
        BY <1>4, <1>5 DEF Created
      <4>2. Cardinality(UsedSince(x)') > MaxSessions
        BY <1>15, <1>17, <3>1, <3>5, <4>1, UsedGrows DEF ChatInv
      <4>3. QED
        BY <4>2 DEF Remembered
    <3>6. CASE x \in Members(registry) /\ ~(clock - touched[x] > TTL)
      <4>1. clock - touched[x] <= TTL
        BY <1>5, <3>1, <3>6, RegistryAssumption
      <4>2. QED
        BY <1>3, <3>1, <3>6, <4>1
    <3>7. QED
      BY <3>3, <3>4, <3>5, <3>6 DEF Remembered
  <2>4. QED
    BY <2>1, <2>2, <2>3
<1>20. QED
  BY <1>15, <1>16, <1>17, <1>18, <1>19 DEF ChatInv

-----------------------------------------------------------------------------
(* The other steps *)

LEMMA RegistryInitInv == RegistryInit => ChatInv
<1> SUFFICES ASSUME RegistryInit PROVE ChatInv
  OBVIOUS
<1>1. TypeInv
  BY DEF RegistryInit, TypeInv
<1>2. RegistryInv /\ InOrder(registry, touched)
  BY RegistryAssumption DEF RegistryInit, RegistryInv, Distinct, Members, InOrder
<1>3. Created = {}
  BY DEF RegistryInit, Created
<1>4. LocksInv /\ CreationInv
  BY <1>3, FS_EmptySet DEF RegistryInit, LocksInv, CreationInv
<1>5. \A id \in Ids : Latest(id) = {}
  BY RegistryAssumption DEF RegistryInit, Latest
<1>6. QED
  BY <1>1, <1>2, <1>4, <1>5 DEF ChatInv, MemoryInv

(* A step of a turn that leaves the registry alone. *)
LEMMA RegistryAlone ==
  ASSUME ChatInv, UNCHANGED <<registry, idOf, touched, dropped, clock>>
  PROVE  RegistryInv' /\ CreationInv' /\ InOrder(registry, touched)' /\ MemoryInv'
<1>1. RegistryInv' /\ CreationInv' /\ InOrder(registry, touched)'
  BY DEF ChatInv, RegistryInv, CreationInv, Created, InOrder
<1>2. MemoryInv'
  BY DEF ChatInv, MemoryInv, Latest, Remembered, UsedSince
<1>3. QED
  BY <1>1, <1>2

LEMMA TurnStep ==
  ASSUME ChatInv, NEW p \in Turns, Proceed(p) \/ End(p) \/ Disconnect(p)
  PROVE  ChatInv'
<1>1. UNCHANGED <<registry, idOf, touched, dropped, clock>>
  BY DEF Proceed, End, Disconnect
<1>2. CASE Proceed(p)
  BY <1>1, <1>2, RegistryAlone DEF Proceed, ChatInv, TypeInv, LocksInv
<1>3. CASE End(p) \/ Disconnect(p)
  <2>1. /\ LocksInv'
        /\ queue' \in [Objects -> Seq(Turns)]
        /\ phase' \in [Turns -> {"idle", "queued", "running"}]
        /\ session' \in [Turns -> Objects \cup {NoObject}]
    <3>1. phase[p] # "idle" /\ LeaveQueue(p)
      BY <1>3 DEF End, Disconnect
    <3>2. phase' = [phase EXCEPT ![p] = "idle"] /\ session' = [session EXCEPT ![p] = NoObject]
      BY <1>3 DEF End, Disconnect
    <3>3. QED
      BY <3>1, <3>2, LeaveKeepsLocks DEF ChatInv
  <2>2. QED
    BY <1>1, <2>1, RegistryAlone DEF ChatInv, TypeInv
<1>4. QED
  BY <1>2, <1>3

LEMMA ResetSessionStep ==
  ASSUME ChatInv, NEW id \in Ids, ResetSession(id)
  PROVE  ChatInv'
<1> DEFINE S == {o \in Objects : idOf[o] # id}
<1>1. /\ registry' = Keep(registry, S) /\ dropped' = dropped \cup HasId(registry, id)
      /\ UNCHANGED <<idOf, touched, queue, phase, session, clock>>
  BY DEF ResetSession
<1>2. /\ registry \in Seq(Objects) /\ Distinct(registry) /\ Len(registry) \in Nat
      /\ Len(registry) <= MaxSessions /\ InOrder(registry, touched) /\ MaxSessions \in Nat
      /\ Members(registry) \subseteq Created
  BY RegistryAssumption DEF ChatInv, TypeInv, RegistryInv
<1>3. Members(registry) \cap S = {o \in Members(registry) : idOf[o] # id}
  BY <1>2 DEF Created
<1> HIDE DEF S
<1>4. /\ registry' \in Seq(Objects) /\ Distinct(registry') /\ Len(registry') \in Nat
      /\ Len(registry') <= Len(registry) /\ InOrder(registry', touched)
      /\ Members(registry') = {o \in Members(registry) : idOf[o] # id}
  BY <1>1, <1>2, <1>3, KeepMeaning, KeepLength, KeepMembers, KeepDistinct, InOrderKeep
<1>5. TypeInv' /\ LocksInv' /\ CreationInv'
  BY <1>1, <1>4 DEF ChatInv, TypeInv, LocksInv, CreationInv, Created
<1>6. RegistryInv'
  <2>1. Len(registry') <= MaxSessions
    BY <1>2, <1>4
  <2>2. QED
    BY <1>1, <1>4, <2>1 DEF ChatInv, RegistryInv, Created
<1>7. InOrder(registry, touched)'
  BY <1>1, <1>4 DEF InOrder
<1>8. MemoryInv'
  <2> SUFFICES ASSUME NEW i \in Ids, NEW x \in Latest(i)' \ dropped' PROVE Remembered(x)'
    BY DEF MemoryInv
  <2>1. x \in Latest(i) \ dropped /\ x \notin HasId(registry, id)
    BY <1>1 DEF Latest
  <2>2. Remembered(x)
    BY <2>1 DEF ChatInv, MemoryInv
  <2>3. CASE x \in Members(registry)
    BY <1>4, <2>1, <2>3 DEF HasId, Remembered
  <2>4. CASE x \notin Members(registry)
    BY <1>1, <2>2, <2>4 DEF Remembered, UsedSince
  <2>5. QED
    BY <2>3, <2>4
<1>9. QED
  BY <1>5, <1>6, <1>7, <1>8 DEF ChatInv

LEMMA ElapseStep == ChatInv /\ Elapse => ChatInv'
<1> SUFFICES ASSUME ChatInv, Elapse PROVE ChatInv'
  OBVIOUS
<1>1. /\ clock \in Nat /\ clock' = clock + 1
      /\ UNCHANGED <<registry, idOf, touched, queue, phase, session, dropped>>
  BY DEF Elapse, ChatInv, TypeInv
<1>2. TypeInv' /\ LocksInv' /\ CreationInv'
  BY <1>1 DEF ChatInv, TypeInv, LocksInv, CreationInv, Created
<1>3. RegistryInv' /\ InOrder(registry, touched)'
  BY <1>1 DEF ChatInv, RegistryInv, Created, InOrder
<1>4. MemoryInv'
  <2> SUFFICES ASSUME NEW i \in Ids, NEW x \in Latest(i)' \ dropped' PROVE Remembered(x)'
    BY DEF MemoryInv
  <2>1. x \in Latest(i) \ dropped /\ x \in Objects
    BY <1>1 DEF Latest
  <2>2. Remembered(x)
    BY <2>1 DEF ChatInv, MemoryInv
  <2>3. touched[x] \in Nat
    BY <2>1 DEF ChatInv, TypeInv
  <2>4. clock - touched[x] > TTL => clock' - touched'[x] > TTL
    BY <1>1, <2>3, RegistryAssumption
  <2>5. QED
    BY <1>1, <2>2, <2>4 DEF Remembered, UsedSince
<1>5. QED
  BY <1>2, <1>3, <1>4 DEF ChatInv

LEMMA RegistryStepInv == ChatInv /\ [RegistryNext]_registryVars => ChatInv'
<1> SUFFICES ASSUME ChatInv, [RegistryNext]_registryVars PROVE ChatInv'
  OBVIOUS
<1>1. CASE UNCHANGED registryVars
  <2>1. TypeInv' /\ LocksInv'
    BY <1>1 DEF registryVars, ChatInv, TypeInv, LocksInv
  <2>2. QED
    BY <1>1, <2>1, RegistryAlone DEF registryVars, ChatInv
<1>2. CASE RegistryNext
  BY <1>2, ContinueStep, CreateStep, TurnStep, ResetSessionStep, ElapseStep DEF RegistryNext
<1>3. QED
  BY <1>1, <1>2

THEOREM ChatInvariantHolds == RegistrySpec => []ChatInv
BY RegistryInitInv, RegistryStepInv, PTL DEF RegistrySpec

-----------------------------------------------------------------------------
(* Chat sessions: theorems *)

(* The registry never grows past its bound, and knows no session twice:    *)
(* two turns that run in registered objects are of different sessions.     *)
THEOREM RegistryIsSound == RegistrySpec => []RegistryOK
<1>1. ChatInv => RegistryOK
  <2> SUFFICES ASSUME ChatInv PROVE RegistryOK
    OBVIOUS
  <2>1. Len(registry) <= MaxSessions
    BY DEF ChatInv, RegistryInv
  <2>2. \A o \in Members(registry) : HasId(registry, idOf[o]) = {o}
    BY DEF ChatInv, RegistryInv, HasId
  <2>3. ASSUME NEW p \in Turns, NEW q \in Turns, p # q, phase[p] = "running", phase[q] = "running",
               {session[p], session[q]} \subseteq Members(registry)
        PROVE  idOf[session[p]] # idOf[session[q]]
    BY <2>3 DEF ChatInv, RegistryInv, LocksInv
  <2>4. QED
    BY <2>1, <2>2, <2>3 DEF RegistryOK
<1>2. QED
  BY <1>1, ChatInvariantHolds, PTL

(* A turn that fetches the session of an id whose last object is neither   *)
(* dropped nor expired, and has not made room, gets that object.           *)
LEMMA FetchesWhatWas ==
  ASSUME ChatInv, RegistryNext, NEW p \in Turns, NEW id \in Ids, NEW o \in Latest(id) \ dropped,
         session[p] = NoObject, session'[p] # NoObject, idOf'[session'[p]] = id,
         clock - touched[o] <= TTL, Cardinality(UsedSince(o)) <= MaxSessions
  PROVE  session'[p] = o
<1> DEFINE w == Prune(registry)
<1>1. o \in Objects /\ idOf[o] = id
  BY DEF Latest
<1>2. o \in Members(registry)
  <2>1. touched[o] \in Nat /\ clock \in Nat /\ TTL \in Nat
    BY <1>1, RegistryAssumption DEF ChatInv, TypeInv
  <2>2. IsFiniteSet(UsedSince(o))
    BY UsedIsFinite DEF ChatInv
  <2>3. Cardinality(UsedSince(o)) \in Nat /\ MaxSessions \in Nat
    BY <2>2, FS_CardinalityType, RegistryAssumption
  <2>4. Remembered(o)
    BY DEF ChatInv, MemoryInv
  <2>5. QED
    BY <2>1, <2>3, <2>4 DEF Remembered
<1>3. /\ Members(w) = {x \in Members(registry) : clock - touched[x] <= TTL}
  BY PruneFacts
<1> HIDE DEF w
<1>4. o \in HasId(w, id)
  BY <1>1, <1>2, <1>3 DEF HasId
<1>5. session \in [Turns -> Objects \cup {NoObject}]
  BY DEF ChatInv, TypeInv
<1>6. ASSUME NEW q \in Turns, NEW i \in Ids, Continue(q, i) PROVE session'[p] = o
  <2>1. PICK x \in HasId(w, i) : session' = [session EXCEPT ![q] = x]
    BY <1>6 DEF Continue, JoinQueue, w
  <2>2. q = p /\ session'[p] = x /\ idOf' = idOf
    BY <1>5, <1>6, <2>1 DEF Continue
  <2>3. x \in Members(registry) /\ idOf[x] = id
    BY <1>3, <2>1, <2>2 DEF HasId
  <2>4. QED
    BY <1>1, <1>2, <2>2, <2>3 DEF ChatInv, RegistryInv
<1>7. ASSUME NEW q \in Turns, NEW i \in Ids, Create(q, i) PROVE FALSE
  <2>1. PICK x \in Objects : session' = [session EXCEPT ![q] = x] /\ idOf' = [idOf EXCEPT ![x] = i]
    BY <1>7 DEF Create, JoinQueue
  <2>2. q = p /\ session'[p] = x
    BY <1>5, <2>1
  <2>3. i = id
    BY <2>1, <2>2 DEF ChatInv, TypeInv
  <2>4. QED
    BY <1>4, <1>7, <2>3 DEF Create, w
<1>8. ASSUME NEW q \in Turns, Proceed(q) \/ End(q) \/ Disconnect(q) PROVE FALSE
  BY <1>5, <1>8 DEF Proceed, End, Disconnect
<1>9. ASSUME NEW i \in Ids, ResetSession(i) PROVE FALSE
  BY <1>9 DEF ResetSession
<1>10. ~Elapse
  BY DEF Elapse
<1>11. QED
  BY <1>6, <1>7, <1>8, <1>9, <1>10 DEF RegistryNext

(* A message that comes within TTL of the last one finds the agents' state *)
(* as it was, unless the session was reset or as many other sessions as    *)
(* fit have been used since.                                               *)
THEOREM ConversationsStay == RegistrySpec => ConversationsAreKept
<1>1. ChatInv /\ [RegistryNext]_registryVars =>
        [\A p \in Turns, id \in Ids : \A o \in Latest(id) \ dropped :
           /\ session[p] = NoObject /\ session'[p] # NoObject /\ idOf'[session'[p]] = id
           /\ clock - touched[o] <= TTL
           /\ Cardinality(UsedSince(o)) <= MaxSessions
           => session'[p] = o]_registryVars
  BY FetchesWhatWas
<1>2. QED
  BY <1>1, ChatInvariantHolds, PTL DEF RegistrySpec, ConversationsAreKept
=============================================================================
