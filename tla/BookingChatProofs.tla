------------------------- MODULE BookingChatProofs --------------------------
(***************************************************************************)
(* Theorems about the search for free slots and the dialogue that books    *)
(* them, for any number of stylists, slots, chats and messages: the caps   *)
(* leave the first slots of those who are free first, whatever others book *)
(* while the schedules are read; the flags of the dialogue agree; and what *)
(* is booked was shown, and agreed to as the messages were read.           *)
(***************************************************************************)
EXTENDS BookingChat, AppointmentServiceProofs, FiniteSetTheorems

Induction == INSTANCE SubsequenceTheorems

-----------------------------------------------------------------------------
(* The order of slots *)

SlotsFor(service) == [stylist: Stylists, service: {service}, start: Nat]

LEMMA EarlierIsAnOrder ==
  ASSUME NEW service, NEW a \in SlotsFor(service), NEW b \in SlotsFor(service)
  PROVE  /\ ~Earlier(a, a)
         /\ Earlier(a, b) => ~Earlier(b, a)
         /\ a = b \/ Earlier(a, b) \/ Earlier(b, a)
         /\ \A c \in SlotsFor(service) : Earlier(a, b) /\ Earlier(b, c) => Earlier(a, c)
<1>1. \A o \in SlotsFor(service) :
        o.start \in Nat /\ StylistId[o.stylist] \in Nat /\ o.stylist \in Stylists
  BY SearchAssumption DEF SlotsFor
<1>2. a.start = b.start /\ StylistId[a.stylist] = StylistId[b.stylist] => a = b
  BY <1>1, SearchAssumption DEF SlotsFor
<1>3. QED
  BY <1>1, <1>2 DEF Earlier

LEMMA EarliestSlot ==
  ASSUME NEW service, NEW T \in SUBSET SlotsFor(service), T # {}
  PROVE  \E o \in T : \A e \in T : e = o \/ Earlier(o, e)
<1>1. \A o \in T : o.start \in Nat /\ o.stylist \in Stylists
                   /\ StylistId[o.stylist] \in Nat
  BY SearchAssumption DEF SlotsFor
<1> DEFINE Starts == {o.start : o \in T}
<1>2. PICK n \in Starts : \A m \in Starts : n <= m
  <2>1. Starts \in SUBSET Nat /\ Starts # {}
    BY <1>1
  <2>2. QED
    BY <2>1, Induction!LeastElement
<1> DEFINE U == {o \in T : o.start = n}
           Ids == {StylistId[o.stylist] : o \in U}
<1>3. PICK k \in Ids : \A m \in Ids : k <= m
  <2>1. Ids \in SUBSET Nat /\ Ids # {}
    BY <1>1, <1>2
  <2>2. QED
    BY <2>1, Induction!LeastElement
<1>4. PICK o \in U : StylistId[o.stylist] = k
  BY <1>3
<1>5. ASSUME NEW e \in T PROVE ~Earlier(e, o)
  <2>1. n <= e.start /\ o.start = n /\ e.start \in Nat /\ n \in Nat
    BY <1>1, <1>2
  <2>2. CASE e.start = n
    <3>1. k <= StylistId[e.stylist] /\ StylistId[e.stylist] \in Nat /\ k \in Nat
      BY <1>1, <1>3, <2>2
    <3>2. QED
      BY <1>4, <2>1, <3>1 DEF Earlier
  <2>3. CASE e.start # n
    BY <2>1, <2>3 DEF Earlier
  <2>4. QED
    BY <2>2, <2>3
<1>6. QED
  BY <1>5, EarlierIsAnOrder

(* Of a finite set with at least k members, those with fewer than k before *)
(* them are at least k.                                                    *)
Ahead(S, R, e) == {u \in S : <<u, e>> \in R}

FirstFew(S, R, k) == {e \in S : Cardinality(Ahead(S, R, e)) < k}

LEMMA FirstOnes ==
  ASSUME NEW S, IsFiniteSet(S), NEW R, NEW k \in Nat, Cardinality(S) >= k,
         \A T \in SUBSET S : T # {} => \E m \in T : \A u \in T : <<u, m>> \notin R
  PROVE  Cardinality(FirstFew(S, R, k)) >= k
<1> DEFINE Before(e) == Ahead(S, R, e)
           G == FirstFew(S, R, k)
<1>1. /\ G \subseteq S
      /\ \A e \in S : e \in G <=> Cardinality(Before(e)) < k
      /\ \A e \in S : Before(e) \subseteq S
      /\ \A e, u \in S : u \in Before(e) <=> <<u, e>> \in R
  BY DEF Ahead, FirstFew
<1> HIDE DEF G, Before
<1>2. IsFiniteSet(G) /\ Cardinality(G) \in Nat /\ Cardinality(S) \in Nat
  BY <1>1, FS_Subset, FS_CardinalityType
<1>3. ASSUME Cardinality(G) < k PROVE FALSE
  <2>1. S \ G # {}
    <3>1. S # G
      BY <1>2, <1>3
    <3>2. QED
      BY <1>1, <3>1
  <2>2. PICK m \in S \ G : \A u \in S \ G : <<u, m>> \notin R
    BY <2>1
  <2>3. Before(m) \subseteq G
    BY <1>1, <2>2
  <2>4. Cardinality(Before(m)) \in Nat /\ Cardinality(Before(m)) <= Cardinality(G)
    BY <1>2, <2>3, FS_Subset, FS_CardinalityType
  <2>5. m \in G
    BY <1>1, <1>2, <1>3, <2>2, <2>4
  <2>6. QED
    BY <2>2, <2>5
<1>4. Cardinality(G) >= k
  BY <1>2, <1>3
<1>5. QED
  BY <1>4 DEF G, Before

-----------------------------------------------------------------------------
(* The slots, ranked *)

Preceding(free, o) == {e \in free : Earlier(e, o)}

LEMMA PrecedingGrows ==
  ASSUME NEW service, NEW free \in SUBSET SlotsFor(service), IsFiniteSet(free),
         NEW a \in free
  PROVE  /\ IsFiniteSet(Preceding(free, a))
         /\ Cardinality(Preceding(free, a)) \in 0 .. (Cardinality(free) - 1)
         /\ \A b \in free : Earlier(a, b) =>
              Cardinality(Preceding(free, a)) < Cardinality(Preceding(free, b))
<1>1. ASSUME NEW S, NEW T, IsFiniteSet(T), S \subseteq T, NEW x \in T, x \notin S
      PROVE  /\ IsFiniteSet(S)
             /\ Cardinality(S) \in Nat
             /\ Cardinality(T) \in Nat
             /\ Cardinality(S) < Cardinality(T)
  <2>1. IsFiniteSet(S) /\ Cardinality(S) <= Cardinality(T) /\ Cardinality(S) # Cardinality(T)
    BY <1>1, FS_Subset
  <2>2. QED
    BY <1>1, <2>1, FS_CardinalityType
<1>2. Preceding(free, a) \subseteq free /\ a \notin Preceding(free, a)
  BY EarlierIsAnOrder DEF Preceding
<1>3. IsFiniteSet(Preceding(free, a)) /\ Cardinality(Preceding(free, a)) \in Nat
      /\ Cardinality(free) \in Nat /\ Cardinality(Preceding(free, a)) < Cardinality(free)
  BY <1>1, <1>2
<1>4. ASSUME NEW b \in free, Earlier(a, b)
      PROVE  Cardinality(Preceding(free, a)) < Cardinality(Preceding(free, b))
  <2>1. \A e \in Preceding(free, a) : e \in Preceding(free, b)
    BY <1>4, EarlierIsAnOrder DEF Preceding
  <2>2. a \in Preceding(free, b)
    BY <1>4 DEF Preceding
  <2>3. IsFiniteSet(Preceding(free, b))
    BY FS_Subset DEF Preceding
  <2>4. QED
    BY <1>1, <1>2, <2>1, <2>2, <2>3
<1>5. QED
  BY <1>3, <1>4

(* Ranked lists every free slot once, the earliest first. *)
LEMMA RankedSlots ==
  ASSUME NEW service, NEW free \in SUBSET SlotsFor(service), IsFiniteSet(free)
  PROVE  /\ Cardinality(free) \in Nat
         /\ Ranked(free) \in [1 .. Cardinality(free) -> free]
         /\ \A o \in free : \E i \in 1 .. Cardinality(free) : Ranked(free)[i] = o
         /\ \A i \in 1 .. Cardinality(free) :
              Preceding(free, Ranked(free)[i]) = {Ranked(free)[j] : j \in 1 .. (i - 1)}
<1> DEFINE N == Cardinality(free)
           Rank(o) == Cardinality(Preceding(free, o))
<1>1. N \in Nat
  BY FS_CardinalityType
<1>2. \A a \in free : Rank(a) \in 0 .. (N - 1)
  BY PrecedingGrows
<1>3. \A a, b \in free : Earlier(a, b) => Rank(a) < Rank(b)
  BY PrecedingGrows
<1>4. \A a, b \in free : Rank(a) = Rank(b) => a = b
  <2> SUFFICES ASSUME NEW a \in free, NEW b \in free, Rank(a) = Rank(b) PROVE a = b
    OBVIOUS
  <2>1. Rank(a) \in Nat /\ Rank(b) \in Nat /\ ~(Rank(a) < Rank(b)) /\ ~(Rank(b) < Rank(a))
    <3> HIDE DEF Rank
    <3> QED
      BY <1>1, <1>2
  <2>2. a = b \/ Earlier(a, b) \/ Earlier(b, a)
    BY EarlierIsAnOrder
  <2>3. QED
    BY <1>3, <2>1, <2>2
<1> DEFINE f == [o \in free |-> Rank(o)]
<1>5. f \in Surjection(free, 0 .. (N - 1))
  <2>1. f \in [free -> 0 .. (N - 1)]
    BY <1>2
  <2>2. f \in Injection(free, 0 .. (N - 1))
    BY <1>4, <2>1 DEF Injection, IsInjective
  <2>3. IsFiniteSet(0 .. (N - 1)) /\ Cardinality(0 .. (N - 1)) = N
    BY <1>1, FS_Interval
  <2> HIDE DEF f
  <2>4. QED
    BY <2>2, <2>3, FS_Injection
<1>6. ASSUME NEW i \in 1 .. N
      PROVE  Ranked(free)[i] \in free /\ Rank(Ranked(free)[i]) = i - 1
  <2>1. i - 1 \in 0 .. (N - 1)
    BY <1>1
  <2>2. PICK o \in free : f[o] = i - 1
    BY <1>5, <2>1 DEF Surjection
  <2>3. \E e \in free : Cardinality({u \in free : Earlier(u, e)}) = i - 1
    BY <2>2 DEF Preceding
  <2>4. Ranked(free)[i] = CHOOSE e \in free : Cardinality({u \in free : Earlier(u, e)}) = i - 1
    BY DEF Ranked
  <2>5. QED
    BY <2>3, <2>4 DEF Preceding
<1>7. Ranked(free) \in [1 .. N -> free]
  <2> DEFINE Place(i) ==
        CHOOSE o \in free : Cardinality({e \in free : Earlier(e, o)}) = i - 1
  <2>1. Ranked(free) = [i \in 1 .. N |-> Place(i)]
    BY DEF Ranked
  <2> HIDE DEF Place
  <2>2. \A i \in 1 .. N : Place(i) \in free
    BY <1>6, <2>1
  <2>3. QED
    BY <2>1, <2>2
<1> HIDE DEF N, Rank, f
<1>8. ASSUME NEW o \in free PROVE \E i \in 1 .. N : Ranked(free)[i] = o
  <2>1. Rank(o) + 1 \in 1 .. N
    BY <1>1, <1>2
  <2>2. Ranked(free)[Rank(o) + 1] = o
    BY <1>1, <1>2, <1>4, <1>6, <2>1
  <2>3. QED
    BY <2>1, <2>2
<1>9. ASSUME NEW i \in 1 .. N
      PROVE  Preceding(free, Ranked(free)[i]) = {Ranked(free)[j] : j \in 1 .. (i - 1)}
  <2> DEFINE o == Ranked(free)[i]
  <2>1. ASSUME NEW e \in free, Earlier(e, o)
        PROVE  \E j \in 1 .. (i - 1) : Ranked(free)[j] = e
    <3>1. PICK j \in 1 .. N : Ranked(free)[j] = e
      BY <1>8
    <3>2. j - 1 < i - 1
      BY <1>3, <1>6, <2>1, <3>1
    <3>3. QED
      BY <1>1, <3>1, <3>2
  <2>2. ASSUME NEW j \in 1 .. (i - 1)
        PROVE  Ranked(free)[j] \in free /\ Earlier(Ranked(free)[j], o)
    <3> DEFINE e == Ranked(free)[j]
    <3>1. j \in 1 .. N /\ j < i
      BY <1>1
    <3>2. e \in free /\ o \in free /\ Rank(e) = j - 1 /\ Rank(o) = i - 1
      BY <1>6, <3>1
    <3>3. ~ Earlier(o, e) /\ e # o
      BY <1>1, <1>3, <3>1, <3>2
    <3>4. QED
      BY <3>2, <3>3, EarlierIsAnOrder
  <2>3. QED
    BY <2>1, <2>2 DEF Preceding
<1>10. QED
  BY <1>1, <1>7, <1>8, <1>9 DEF N

-----------------------------------------------------------------------------
(* The list of offers *)

Listed(f, R, n) == IF n = 0 THEN <<>> ELSE AddUnlessCapped(f[n - 1], R[n])

LEMMA ListingExists ==
  ASSUME NEW R, NEW N \in Nat
  PROVE  \E f : f = [n \in 0 .. N |-> Listed(f, R, n)]
<1> DEFINE T == {n \in Nat : \E f : f = [i \in 0 .. n |-> Listed(f, R, i)]}
<1>1. 0 \in T
  <2> DEFINE f == [i \in 0 .. 0 |-> <<>>]
  <2>1. f = [i \in 0 .. 0 |-> Listed(f, R, i)]
    BY DEF Listed
  <2>2. QED
    BY <2>1
<1>2. ASSUME NEW n \in T PROVE n + 1 \in T
  <2>1. PICK f : f = [i \in 0 .. n |-> Listed(f, R, i)]
    OBVIOUS
  <2> DEFINE g == [i \in 0 .. (n + 1) |-> IF i = n + 1 THEN Listed(f, R, i) ELSE f[i]]
  <2>2. ASSUME NEW i \in 0 .. (n + 1) PROVE g[i] = Listed(g, R, i)
    <3>1. i # 0 => g[i - 1] = f[i - 1] /\ i - 1 \in 0 .. n
      OBVIOUS
    <3>2. Listed(g, R, i) = Listed(f, R, i)
      BY <3>1 DEF Listed
    <3>3. i # n + 1 => f[i] = Listed(f, R, i)
      <4> DEFINE listed == [j \in 0 .. n |-> Listed(f, R, j)]
      <4>1. i # n + 1 => listed[i] = Listed(f, R, i)
        OBVIOUS
      <4>2. f = listed
        BY <2>1
      <4> HIDE DEF listed
      <4>3. QED
        BY <4>1, <4>2
    <3>4. QED
      BY <3>2, <3>3
  <2> HIDE DEF g
  <2>3. g = [i \in 0 .. (n + 1) |-> Listed(g, R, i)]
    BY <2>2 DEF g
  <2>4. QED
    BY <2>3
<1>3. T = Nat
  BY <1>1, <1>2, Induction!SetInduction
<1>4. QED
  BY <1>3

LEMMA OffersAreListed ==
  ASSUME NEW free, Cardinality(free) \in Nat
  PROVE  \E f : /\ f = [n \in 0 .. Cardinality(free) |-> Listed(f, Ranked(free), n)]
                /\ OffersOf(free) = f[Cardinality(free)]
<1> DEFINE IsListed(g) == g = [n \in 0 .. Cardinality(free) |->
                 IF n = 0 THEN <<>> ELSE AddUnlessCapped(g[n - 1], Ranked(free)[n])]
           f == CHOOSE g : IsListed(g)
<1>1. OffersOf(free) = f[Cardinality(free)]
  BY DEF OffersOf
<1>2. \E g : IsListed(g)
  BY ListingExists DEF Listed
<1>3. \A g : IsListed(g) <=>
               g = [n \in 0 .. Cardinality(free) |-> Listed(g, Ranked(free), n)]
  BY DEF Listed
<1> HIDE DEF IsListed
<1>4. IsListed(f)
  BY <1>2
<1> HIDE DEF f
<1>5. QED
  BY <1>1, <1>3, <1>4

(* A stylist's slots that precede a given one of theirs. *)
Previous(free, o) == {e \in free : e.stylist = o.stylist /\ Earlier(e, o)}

LEMMA BestMeans ==
  ASSUME NEW service, NEW free \in SUBSET SlotsFor(service), IsFiniteSet(free),
         NEW o \in free
  PROVE  /\ o \in BestOffers(free) <=>
              /\ Cardinality(Previous(free, o)) < MaxSlots
              /\ Cardinality(FreeBefore(free, o.stylist)) < MaxStylists
         /\ Previous(free, o) \subseteq free
         /\ IsFiniteSet(Previous(free, o))
         /\ Cardinality(Previous(free, o)) \in Nat
         /\ FreeBefore(free, o.stylist) \subseteq Stylists
         /\ IsFiniteSet(FreeBefore(free, o.stylist))
         /\ Cardinality(FreeBefore(free, o.stylist)) \in Nat
<1>1. o.stylist \in Stylists
  BY DEF SlotsFor
<1>2. o \in BestOffers(free) <=>
        \E s \in Stylists : /\ Cardinality(FreeBefore(free, s)) < MaxStylists
                            /\ o \in FirstSlots(free, s)
  BY DEF BestOffers, FirstStylists
<1>3. \A s \in Stylists : o \in FirstSlots(free, s) <=>
        o.stylist = s /\ Cardinality(Previous(free, o)) < MaxSlots
  BY DEF FirstSlots, Previous
<1>4. Previous(free, o) \subseteq free /\ FreeBefore(free, o.stylist) \subseteq Stylists
  BY DEF Previous, FreeBefore
<1>5. IsFiniteSet(Previous(free, o)) /\ IsFiniteSet(FreeBefore(free, o.stylist))
  BY <1>4, FS_Subset, SearchAssumption
<1>6. QED
  BY <1>1, <1>2, <1>3, <1>4, <1>5, FS_CardinalityType

(* Whoever has a slot has a first one. *)
LEMMA FirstOfStylist ==
  ASSUME NEW service, NEW free \in SUBSET SlotsFor(service), NEW o \in free
  PROVE  \E e \in free : /\ e.stylist = o.stylist
                         /\ e = o \/ Earlier(e, o)
                         /\ Previous(free, e) = {}
                         /\ \A u \in free : u.stylist = o.stylist => u = e \/ Earlier(e, u)
<1> DEFINE T == {u \in free : u.stylist = o.stylist}
<1>1. T \in SUBSET SlotsFor(service) /\ T # {}
  OBVIOUS
<1>2. PICK e \in T : \A u \in T : u = e \/ Earlier(e, u)
  <2> HIDE DEF T
  <2>1. QED
    BY <1>1, EarliestSlot
<1>3. \A u \in T : ~ Earlier(u, e)
  BY <1>2, EarlierIsAnOrder
<1>4. Previous(free, e) = {}
  BY <1>2, <1>3 DEF Previous
<1>5. QED
  BY <1>2, <1>4

(* The list so far: the best of the slots before the one at hand, once.    *)
BestBefore(acc, service, free, o) ==
  /\ acc \in Seq(SlotsFor(service))
  /\ \A i, j \in DOMAIN acc : acc[i] = acc[j] => i = j
  /\ ToSet(acc) = Preceding(free, o) \cap BestOffers(free)

LEMMA OffersCounted ==
  ASSUME NEW service, NEW acc \in Seq(SlotsFor(service)), NEW s,
         \A i, j \in DOMAIN acc : acc[i] = acc[j] => i = j
  PROVE  /\ IsFiniteSet(SlotsOf(acc, s))
         /\ Cardinality(SlotsOf(acc, s)) = Cardinality({e \in ToSet(acc) : e.stylist = s})
         /\ IsFiniteSet(StylistsIn(acc))
         /\ StylistsIn(acc) = {e.stylist : e \in ToSet(acc)}
         /\ StylistsIn(acc) \subseteq Stylists
<1> DEFINE I == SlotsOf(acc, s)
           E == {e \in ToSet(acc) : e.stylist = s}
           f == [i \in I |-> acc[i]]
<1>1. DOMAIN acc = 1 .. Len(acc) /\ Len(acc) \in Nat
  OBVIOUS
<1>2. IsFiniteSet(I)
  <2>1. I \subseteq 1 .. Len(acc)
    BY <1>1 DEF SlotsOf
  <2>2. IsFiniteSet(1 .. Len(acc))
    BY <1>1, FS_Interval
  <2> HIDE DEF I
  <2>3. QED
    BY <2>1, <2>2, FS_Subset
<1>3. f \in Bijection(I, E)
  <2>1. f \in [I -> E]
    BY DEF SlotsOf, ToSet
  <2>2. f \in Injection(I, E)
    BY <2>1 DEF Injection, IsInjective, SlotsOf
  <2>3. \A e \in E : \E i \in I : f[i] = e
    BY DEF SlotsOf, ToSet
  <2>4. QED
    BY <2>1, <2>2, <2>3 DEF Bijection, Surjection
<1>4. Cardinality(E) = Cardinality(I)
  <2> HIDE DEF f, I, E
  <2> QED
    BY <1>2, <1>3, FS_Bijection DEF ExistsBijection
<1>5. StylistsIn(acc) = {e.stylist : e \in ToSet(acc)}
  BY DEF StylistsIn, ToSet
<1>6. StylistsIn(acc) \subseteq Stylists
  <2>1. \A i \in DOMAIN acc : acc[i] \in SlotsFor(service)
    OBVIOUS
  <2>2. \A e \in SlotsFor(service) : e.stylist \in Stylists
    BY DEF SlotsFor
  <2>3. QED
    BY <2>1, <2>2 DEF StylistsIn
<1>7. IsFiniteSet(StylistsIn(acc))
  BY <1>6, SearchAssumption, FS_Subset
<1>8. QED
  BY <1>2, <1>4, <1>5, <1>6, <1>7

(* The cap on a stylist's slots keeps the first ones. *)
LEMMA SlotCap ==
  ASSUME NEW service, NEW free \in SUBSET SlotsFor(service), IsFiniteSet(free),
         NEW o \in free, NEW acc, BestBefore(acc, service, free, o),
         Cardinality(FreeBefore(free, o.stylist)) < MaxStylists
  PROVE  Cardinality(SlotsOf(acc, o.stylist)) >= MaxSlots <=>
           ~ (Cardinality(Previous(free, o)) < MaxSlots)
<1> DEFINE S == Previous(free, o)
           G == {e \in S : Cardinality(Previous(free, e)) < MaxSlots}
<1>1. IsFiniteSet(S) /\ S \subseteq free /\ Cardinality(S) \in Nat /\ MaxSlots \in Nat
  BY BestMeans, SearchAssumption
<1>2. {e \in ToSet(acc) : e.stylist = o.stylist} = G
  <2>1. \A e \in free : e.stylist = o.stylist =>
          (e \in BestOffers(free) <=> Cardinality(Previous(free, e)) < MaxSlots)
    BY BestMeans
  <2>2. QED
    BY <2>1 DEF BestBefore, Preceding, Previous
<1>3. Cardinality(SlotsOf(acc, o.stylist)) = Cardinality(G)
  BY <1>2, OffersCounted DEF BestBefore
<1>4. G \subseteq S /\ Cardinality(G) \in Nat /\ Cardinality(G) <= Cardinality(S)
  <2>1. G \subseteq S
    OBVIOUS
  <2> HIDE DEF G, S
  <2>2. QED
    BY <1>1, <2>1, FS_Subset, FS_CardinalityType
<1>5. ASSUME Cardinality(S) >= MaxSlots PROVE Cardinality(G) >= MaxSlots
  <2> DEFINE R == {p \in free \X free : Earlier(p[1], p[2])}
  <2>1. \A e \in S : Ahead(S, R, e) = Previous(free, e)
    <3> SUFFICES ASSUME NEW e \in S PROVE Ahead(S, R, e) = Previous(free, e)
      OBVIOUS
    <3>1. e \in free /\ e.stylist = o.stylist /\ Earlier(e, o)
      BY DEF Previous
    <3>2. \A u \in free : Earlier(u, e) => Earlier(u, o)
      BY <3>1, EarlierIsAnOrder
    <3>3. \A u : u \in S /\ <<u, e>> \in R <=> u \in Previous(free, e)
      BY <3>1, <3>2 DEF Previous
    <3>4. QED
      BY <3>3 DEF Ahead
  <2>2. \A T \in SUBSET S : T # {} => \E m \in T : \A u \in T : <<u, m>> \notin R
    <3> SUFFICES ASSUME NEW T \in SUBSET S, T # {}
                 PROVE  \E m \in T : \A u \in T : <<u, m>> \notin R
      OBVIOUS
    <3>1. T \in SUBSET SlotsFor(service)
      BY <1>1
    <3>2. PICK m \in T : \A u \in T : u = m \/ Earlier(m, u)
      BY <3>1, EarliestSlot
    <3>3. \A u \in T : ~ Earlier(u, m)
      BY <3>1, <3>2, EarlierIsAnOrder
    <3>4. QED
      BY <3>2, <3>3
  <2>3. FirstFew(S, R, MaxSlots) = G
    BY <2>1 DEF FirstFew
  <2> HIDE DEF S, R, G
  <2>4. Cardinality(FirstFew(S, R, MaxSlots)) >= MaxSlots
    BY <1>1, <1>5, <2>2, FirstOnes
  <2>5. QED
    BY <2>3, <2>4
<1> HIDE DEF S, G
<1>6. Cardinality(G) >= MaxSlots <=> ~(Cardinality(S) < MaxSlots)
  BY <1>1, <1>4, <1>5
<1>7. QED
  BY <1>3, <1>6 DEF S

(* The cap on stylists keeps those who come free first. *)
LEMMA StylistCap ==
  ASSUME NEW service, NEW free \in SUBSET SlotsFor(service), IsFiniteSet(free),
         NEW o \in free, NEW acc, BestBefore(acc, service, free, o),
         ~ (Cardinality(FreeBefore(free, o.stylist)) < MaxStylists)
  PROVE  /\ o.stylist \notin StylistsIn(acc)
         /\ Cardinality(StylistsIn(acc)) >= MaxStylists
<1> DEFINE s == o.stylist
           F == FreeBefore(free, s)
           R == {p \in Stylists \X Stylists : p[1] \in FreeBefore(free, p[2])}
<1>1. /\ F \subseteq Stylists /\ IsFiniteSet(F) /\ Cardinality(F) \in Nat
      /\ MaxStylists \in Nat /\ Cardinality(F) >= MaxStylists
  BY BestMeans, SearchAssumption
<1>2. \A e \in free : e.stylist \in Stylists
  BY DEF SlotsFor
<1>3. IsFiniteSet(StylistsIn(acc)) /\ StylistsIn(acc) = {e.stylist : e \in ToSet(acc)}
  BY OffersCounted DEF BestBefore
<1>4. s \notin StylistsIn(acc)
  <2>1. \A e \in free : e.stylist = s => e \notin BestOffers(free)
    BY BestMeans
  <2>2. QED
    BY <1>3, <2>1 DEF BestBefore, Preceding
<1>5. \A T \in SUBSET F : T # {} => \E m \in T : \A u \in T : <<u, m>> \notin R
  <2> SUFFICES ASSUME NEW T \in SUBSET F, T # {}
               PROVE  \E m \in T : \A u \in T : <<u, m>> \notin R
    OBVIOUS
  <2> DEFINE U == {e \in free : e.stylist \in T}
  <2>1. U # {} /\ U \in SUBSET SlotsFor(service)
    BY DEF FreeBefore
  <2>2. PICK e \in U : \A u \in U : u = e \/ Earlier(e, u)
    <3> HIDE DEF U
    <3>1. QED
      BY <2>1, EarliestSlot
  <2>3. \A u \in U : ~ Earlier(u, e)
    BY <2>1, <2>2, EarlierIsAnOrder
  <2>4. ASSUME NEW u \in T PROVE u \notin FreeBefore(free, e.stylist)
    BY <2>2, <2>3 DEF FreeBefore
  <2>5. QED
    BY <2>2, <2>4
<1>6. ASSUME NEW u \in F PROVE Ahead(F, R, u) = FreeBefore(free, u)
  <2>1. PICK e \in free : e.stylist = u /\ \A v \in free : v.stylist = s => Earlier(e, v)
    BY DEF FreeBefore
  <2>2. ASSUME NEW t \in FreeBefore(free, u) PROVE t \in F
    <3>1. PICK v \in free : v.stylist = t /\ \A w \in free : w.stylist = u => Earlier(v, w)
      BY <2>2 DEF FreeBefore
    <3>2. Earlier(v, e)
      BY <2>1, <3>1
    <3>3. \A w \in free : w.stylist = s => Earlier(v, w)
      BY <2>1, <3>2, EarlierIsAnOrder
    <3>4. t # s
      BY <3>1, <3>3, EarlierIsAnOrder
    <3>5. QED
      BY <2>2, <3>1, <3>3, <3>4 DEF FreeBefore
  <2>3. FreeBefore(free, u) \subseteq Stylists
    BY DEF FreeBefore
  <2>4. u \in Stylists
    BY <1>1
  <2> HIDE DEF F
  <2>5. \A t : t \in Ahead(F, R, u) <=> t \in F /\ t \in FreeBefore(free, u)
    BY <1>1, <2>4 DEF Ahead
  <2>6. QED
    BY <2>2, <2>5
<1>7. ASSUME NEW u \in F, Cardinality(FreeBefore(free, u)) < MaxStylists
      PROVE  u \in StylistsIn(acc)
  <2>1. PICK e \in free : e.stylist = u /\ \A v \in free : v.stylist = s => Earlier(e, v)
    BY DEF FreeBefore
  <2>2. PICK first \in free : /\ first.stylist = u
                              /\ first = e \/ Earlier(first, e)
                              /\ Previous(free, first) = {}
    BY <2>1, FirstOfStylist
  <2>3. Earlier(first, o)
    BY <2>1, <2>2, EarlierIsAnOrder
  <2>4. first \in BestOffers(free)
    BY <1>7, <2>2, BestMeans, FS_EmptySet, SearchAssumption
  <2>5. first \in ToSet(acc)
    BY <2>3, <2>4 DEF BestBefore, Preceding
  <2>6. QED
    BY <1>3, <2>2, <2>5
<1>8. FirstFew(F, R, MaxStylists) \subseteq StylistsIn(acc)
  BY <1>6, <1>7 DEF FirstFew
<1> HIDE DEF F, R
<1>9. Cardinality(FirstFew(F, R, MaxStylists)) >= MaxStylists
  BY <1>1, <1>5, FirstOnes
<1>10. /\ Cardinality(FirstFew(F, R, MaxStylists)) <= Cardinality(StylistsIn(acc))
       /\ Cardinality(FirstFew(F, R, MaxStylists)) \in Nat
       /\ Cardinality(StylistsIn(acc)) \in Nat
  BY <1>3, <1>8, FS_Subset, FS_CardinalityType
<1>11. QED
  BY <1>1, <1>4, <1>9, <1>10

LEMMA RoomForStylist ==
  ASSUME NEW service, NEW free \in SUBSET SlotsFor(service), IsFiniteSet(free),
         NEW o \in free, NEW acc, BestBefore(acc, service, free, o),
         Cardinality(FreeBefore(free, o.stylist)) < MaxStylists
  PROVE  o.stylist \in StylistsIn(acc) \/ Cardinality(StylistsIn(acc)) < MaxStylists
<1> DEFINE s == o.stylist
           F == FreeBefore(free, s)
<1>1. F \subseteq Stylists /\ IsFiniteSet(F) /\ Cardinality(F) \in Nat /\ MaxStylists \in Nat
  BY BestMeans, SearchAssumption
<1>2. \A e \in free : e.stylist \in Stylists
  BY DEF SlotsFor
<1>3. IsFiniteSet(StylistsIn(acc)) /\ StylistsIn(acc) = {e.stylist : e \in ToSet(acc)}
  BY OffersCounted DEF BestBefore
<1> SUFFICES ASSUME s \notin StylistsIn(acc) PROVE StylistsIn(acc) \subseteq F
  <2>1. ASSUME StylistsIn(acc) \subseteq F
        PROVE  Cardinality(StylistsIn(acc)) < MaxStylists
    <3> HIDE DEF F
    <3>1. Cardinality(StylistsIn(acc)) <= Cardinality(F) /\ Cardinality(StylistsIn(acc)) \in Nat
      BY <1>1, <2>1, FS_Subset, FS_CardinalityType
    <3>2. Cardinality(F) < MaxStylists
      BY DEF F
    <3>3. QED
      BY <1>1, <3>1, <3>2
  <2>2. QED
    BY <2>1
<1>4. PICK first \in free : /\ first.stylist = s
                            /\ first = o \/ Earlier(first, o)
                            /\ Previous(free, first) = {}
                            /\ \A v \in free : v.stylist = s => v = first \/ Earlier(first, v)
  BY FirstOfStylist
<1>5. first \in BestOffers(free)
  BY <1>4, BestMeans, FS_EmptySet, SearchAssumption
<1>6. first = o
  <2>1. Earlier(first, o) => first \in ToSet(acc)
    BY <1>5 DEF BestBefore, Preceding
  <2>2. QED
    BY <1>3, <1>4, <2>1
<1>7. ASSUME NEW e \in ToSet(acc) PROVE e.stylist \in F
  <2>1. e \in free /\ Earlier(e, o)
    BY DEF BestBefore, Preceding
  <2>2. e.stylist # s
    BY <1>3
  <2>3. \A v \in free : v.stylist = s => Earlier(e, v)
    BY <1>4, <1>6, <2>1, EarlierIsAnOrder
  <2>4. QED
    BY <1>2, <2>1, <2>2, <2>3 DEF FreeBefore
<1>8. QED
  BY <1>3, <1>7

LEMMA OneMoreOffer ==
  ASSUME NEW service, NEW free \in SUBSET SlotsFor(service), IsFiniteSet(free),
         NEW o \in free, NEW acc, BestBefore(acc, service, free, o)
  PROVE  LET new == AddUnlessCapped(acc, o) IN
         /\ new \in Seq(SlotsFor(service))
         /\ \A i, j \in DOMAIN new : new[i] = new[j] => i = j
         /\ ToSet(new) = (Preceding(free, o) \cup {o}) \cap BestOffers(free)
<1> DEFINE few == Cardinality(FreeBefore(free, o.stylist)) < MaxStylists
           crowded == /\ o.stylist \notin StylistsIn(acc)
                      /\ Cardinality(StylistsIn(acc)) >= MaxStylists
           full == Cardinality(SlotsOf(acc, o.stylist)) >= MaxSlots
           new == AddUnlessCapped(acc, o)
<1>1. o \in BestOffers(free) <=> Cardinality(Previous(free, o)) < MaxSlots /\ few
  BY BestMeans
<1>2. few => ~ crowded
  <2>1. Cardinality(StylistsIn(acc)) \in Nat /\ MaxStylists \in Nat
    BY OffersCounted, FS_CardinalityType, SearchAssumption DEF BestBefore
  <2>2. few => o.stylist \in StylistsIn(acc) \/ Cardinality(StylistsIn(acc)) < MaxStylists
    BY RoomForStylist
  <2> HIDE DEF few
  <2>3. QED
    BY <2>1, <2>2
<1>3. few => (full <=> ~ (Cardinality(Previous(free, o)) < MaxSlots))
  BY SlotCap
<1>4. ~ few => crowded
  BY StylistCap
<1>5. o \in BestOffers(free) <=> ~ (crowded \/ full)
  BY <1>1, <1>2, <1>3, <1>4
<1>6. new = IF o \in BestOffers(free) THEN Append(acc, o) ELSE acc
  BY <1>5 DEF AddUnlessCapped
<1>7. /\ acc \in Seq(SlotsFor(service)) /\ o \in SlotsFor(service)
      /\ \A i, j \in DOMAIN acc : acc[i] = acc[j] => i = j
      /\ ToSet(acc) = Preceding(free, o) \cap BestOffers(free)
      /\ ToSet(acc) = {acc[i] : i \in DOMAIN acc}
      /\ o \notin ToSet(acc)
  BY EarlierIsAnOrder DEF BestBefore, Preceding, ToSet
<1>8. CASE o \in BestOffers(free)
  <2>1. /\ new = Append(acc, o) /\ new \in Seq(SlotsFor(service))
        /\ DOMAIN acc = 1 .. Len(acc) /\ Len(acc) \in Nat
        /\ DOMAIN new = 1 .. (Len(acc) + 1)
        /\ new[Len(acc) + 1] = o
        /\ \A i \in 1 .. Len(acc) : new[i] = acc[i]
    BY <1>6, <1>7, <1>8
  <2>2. ToSet(new) = {new[i] : i \in DOMAIN new}
    BY DEF ToSet
  <2> HIDE DEF new
  <2>3. ToSet(new) = ToSet(acc) \cup {o}
    BY <1>7, <2>1, <2>2
  <2>4. \A i, j \in DOMAIN new : new[i] = new[j] => i = j
    <3>1. \A i \in 1 .. Len(acc) : acc[i] # o
      BY <1>7, <2>1
    <3>2. QED
      BY <1>7, <2>1, <3>1
  <2>5. QED
    BY <1>7, <1>8, <2>1, <2>3, <2>4 DEF new
<1>9. CASE o \notin BestOffers(free)
  BY <1>6, <1>7, <1>9
<1>10. QED
  BY <1>8, <1>9

(* What the search makes of the free slots, whatever they are and whatever *)
(* the caps: each stylist who comes free early enough, each of their first *)
(* slots, once, and nothing else.                                          *)
THEOREM SearchFindsTheBest ==
  ASSUME NEW service, NEW free \in SUBSET SlotsFor(service), IsFiniteSet(free)
  PROVE  /\ OffersOf(free) \in Seq(SlotsFor(service))
         /\ \A i, j \in DOMAIN OffersOf(free) : OffersOf(free)[i] = OffersOf(free)[j] => i = j
         /\ ToSet(OffersOf(free)) = BestOffers(free)
<1> DEFINE N == Cardinality(free)
           R == Ranked(free)
           First(n) == {R[j] : j \in 1 .. n}
<1>1. /\ N \in Nat
      /\ \A i \in 1 .. N : R[i] \in free
      /\ \A o \in free : \E i \in 1 .. N : R[i] = o
      /\ \A i \in 1 .. N : Preceding(free, R[i]) = First(i - 1)
  BY RankedSlots
<1>2. PICK f : f = [n \in 0 .. N |-> Listed(f, R, n)] /\ OffersOf(free) = f[N]
  BY <1>1, OffersAreListed
<1> HIDE DEF N, R
<1>3. \A n \in 0 .. N : f[n] = Listed(f, R, n)
  <2> DEFINE listed == [n \in 0 .. N |-> Listed(f, R, n)]
  <2>1. \A n \in 0 .. N : listed[n] = Listed(f, R, n)
    OBVIOUS
  <2>2. f = listed
    BY <1>2
  <2> HIDE DEF listed
  <2>3. QED
    BY <2>1, <2>2
<1> DEFINE OK(n) == /\ f[n] \in Seq(SlotsFor(service))
                    /\ \A i, j \in DOMAIN f[n] : f[n][i] = f[n][j] => i = j
                    /\ ToSet(f[n]) = First(n) \cap BestOffers(free)
           T == {n \in 0 .. N : OK(n)}
<1>4. 0 \in T
  <2>1. f[0] = <<>>
    BY <1>1, <1>3 DEF Listed
  <2>2. ToSet(f[0]) = {} /\ First(0) = {}
    BY <2>1 DEF ToSet
  <2>3. f[0] \in Seq(SlotsFor(service)) /\ DOMAIN f[0] = {}
    BY <2>1
  <2>4. OK(0) /\ 0 \in 0 .. N
    BY <1>1, <2>2, <2>3
  <2> HIDE DEF OK
  <2>5. QED
    BY <2>4
<1>5. ASSUME NEW n \in 0 .. (N - 1), n \in T PROVE n + 1 \in T
  <2>1. n + 1 \in 1 .. N /\ n + 1 \in 0 .. N /\ n + 1 # 0 /\ (n + 1) - 1 = n
    BY <1>1
  <2> DEFINE o == R[n + 1]
  <2>2. f[n + 1] = AddUnlessCapped(f[n], o)
    BY <1>3, <2>1 DEF Listed
  <2>3. o \in free /\ Preceding(free, o) = First(n)
    BY <1>1, <2>1
  <2>4. BestBefore(f[n], service, free, o)
    BY <1>5, <2>3 DEF BestBefore
  <2>5. First(n + 1) = First(n) \cup {o}
    BY <1>1, <2>1
  <2> HIDE DEF o, First
  <2>6. OK(n + 1)
    BY <2>2, <2>3, <2>4, <2>5, OneMoreOffer
  <2>7. QED
    BY <2>1, <2>6
<1>6. N \in T
  <2>1. 0 .. N \subseteq T
    <3> HIDE DEF T
    <3>1. QED
      BY <1>1, <1>4, <1>5, Induction!IntervalInduction
  <2>2. N \in 0 .. N
    BY <1>1
  <2> HIDE DEF T
  <2>3. QED
    BY <2>1, <2>2
<1>7. First(N) = free
  BY <1>1
<1>8. BestOffers(free) \subseteq free
  BY DEF BestOffers, FirstSlots
<1>9. QED
  BY <1>2, <1>6, <1>7, <1>8

-----------------------------------------------------------------------------
(* What a search returns *)

SearchIsTyped(q) ==
  /\ q.day \in Nat
  /\ q.time \in Nat \cup {Unset}
  /\ q.range \in Interval
  /\ q.service \in Services

LEMMA SlotsAreSlots ==
  ASSUME NEW q, NEW t, SearchIsTyped(q)
  PROVE  /\ Slots(q, t) \in SUBSET SlotsFor(q.service)
         /\ Slots(q, t) \in SUBSET Option
         /\ IsFiniteSet(Slots(q, t))
<1> DEFINE A == MatchingStylists(q)
           B == CandidateStarts(q)
           P == A \X B
           Candidates == [stylist: A, service: {q.service}, start: B]
           f == [p \in P |-> [stylist |-> p[1], service |-> q.service, start |-> p[2]]]
<1>1. A \subseteq Stylists /\ IsFiniteSet(A)
  <2>1. A \subseteq Stylists
    BY DEF MatchingStylists
  <2> HIDE DEF A
  <2>2. QED
    BY <2>1, SearchAssumption, FS_Subset
<1>2. B \subseteq Nat /\ IsFiniteSet(B)
  <2>1. \A n \in Nat : At(q.day, n) \in Nat
    BY TimeIsNatural DEF SearchIsTyped
  <2>2. CASE q.time # Unset
    <3>1. B = {At(q.day, q.time)}
      BY <2>2 DEF CandidateStarts
    <3> HIDE DEF B
    <3>2. QED
      BY <2>1, <2>2, <3>1, FS_Singleton DEF SearchIsTyped
  <2>3. CASE q.time = Unset
    <3> DEFINE first == At(q.day, q.range.from)
               last == At(q.day, q.range.to)
    <3>1. first \in Nat /\ last \in Nat
      BY <2>1 DEF SearchIsTyped, Interval
    <3>2. B \subseteq first .. last
      BY <2>3 DEF CandidateStarts, GridStarts
    <3> HIDE DEF B, first, last
    <3>3. IsFiniteSet(first .. last) /\ first .. last \subseteq Nat
      BY <3>1, FS_Interval
    <3>4. QED
      BY <3>2, <3>3, FS_Subset
  <2>4. QED
    BY <2>2, <2>3
<1>3. Slots(q, t) \subseteq Candidates
  BY DEF Slots
<1> HIDE DEF A, B
<1>4. Candidates \subseteq SlotsFor(q.service) /\ SlotsFor(q.service) \subseteq Option
  BY <1>1, <1>2 DEF SlotsFor, Option, SearchIsTyped
<1>5. f \in Surjection(P, Candidates)
  <2>1. f \in [P -> Candidates]
    OBVIOUS
  <2>2. ASSUME NEW o \in Candidates PROVE \E p \in P : f[p] = o
    <3>1. <<o.stylist, o.start>> \in P
      OBVIOUS
    <3>2. f[<<o.stylist, o.start>>] = o
      BY <3>1
    <3>3. QED
      BY <3>1, <3>2
  <2>3. QED
    BY <2>1, <2>2 DEF Surjection
<1>6. IsFiniteSet(P)
  BY <1>1, <1>2, FS_Product
<1> HIDE DEF P, Candidates, f
<1>7. IsFiniteSet(Candidates)
  BY <1>5, <1>6, FS_Surjection
<1>8. QED
  BY <1>3, <1>4, <1>7, FS_Subset

(* A slot found free in the tables d would be booked in them, if its time  *)
(* has not come.                                                           *)
LEMMA FreeSlotsAreAccepted ==
  ASSUME NEW d, NEW q, NEW t, SearchIsTyped(q), NEW o \in Slots(q, t),
         IsSlotFree(d, o), IsFuture(o.start), NEW p
  PROVE  CreateVerdict(d, OfferRequest(p, o)) = "proceed"
<1> DEFINE r == OfferRequest(p, o)
<1>1. /\ o.service = q.service /\ o.service \in Services
      /\ o.stylist \in Stylists /\ o.service \in Supported[o.stylist]
      /\ WithinBusinessHours(o.start, EndOf(o.start, o.service))
      /\ ~ HasScheduleConflict(d, o.stylist, o.start, EndOf(o.start, o.service), {})
  BY DEF Slots, MatchingStylists, IsSlotFree, IsStylistAvailable, SearchIsTyped
<1>2. /\ r.stylist = o.stylist /\ r.service = o.service /\ r.start = o.start
      /\ r.end = EndOf(o.start, o.service)
  BY DEF OfferRequest
<1> HIDE DEF r
<1>3. CreateVerdict(d, r) = "proceed"
  BY <1>1, <1>2 DEF CreateVerdict
<1>4. QED
  BY <1>3 DEF r

(* Whatever is searched for and whatever was found free: the offers are    *)
(* among it, and are the first slots of the stylists who come free first.  *)
THEOREM OffersAreOfTheFree ==
  ASSUME NEW q, NEW t, SearchIsTyped(q), NEW free \in SUBSET Slots(q, t)
  PROVE  /\ OffersOf(free) \in Seq(Option)
         /\ ToSet(OffersOf(free)) = BestOffers(free)
         /\ BestOffers(free) \subseteq free
<1>1. free \in SUBSET SlotsFor(q.service) /\ IsFiniteSet(free)
  BY SlotsAreSlots, FS_Subset
<1>2. OffersOf(free) \in Seq(SlotsFor(q.service)) /\ ToSet(OffersOf(free)) = BestOffers(free)
  BY <1>1, SearchFindsTheBest
<1>3. SlotsFor(q.service) \subseteq Option
  BY DEF SlotsFor, Option, SearchIsTyped
<1>4. BestOffers(free) \subseteq free
  BY DEF BestOffers, FirstSlots
<1>5. QED
  BY <1>2, <1>3, <1>4

-----------------------------------------------------------------------------
(* What a chat holds *)

Times == Nat \cup {Unset}

History ==
  [day: Times, time: Times, range: Interval \cup {Unset},
   service: Services \cup {Unset, Unknown}, stylist: Stylists \cup {Unset, Unknown},
   start: Times,
   searching: BOOLEAN, sday: Times, stime: Times, srange: Interval \cup {Unset},
   specialty: BOOLEAN, offers: Seq(Option), choosing: BOOLEAN,
   chosen: Option \cup {Unset}, confirming: BOOLEAN, over: BOOLEAN,
   recommended: Stylists \cup {Unset}, asking: BOOLEAN,
   confirmed: Stylists \cup {Unset}, declined: BOOLEAN]

States == {"classify", "appointment", "consult"}

Turns == Answering \cup
  {"quiet", "dead", "classifying", "consulting", "booking", "searching", "reading", "deciding",
   "finding", "suggesting", "writing", "reminding"}

Progress ==
  [asOf: Nat, unread: SUBSET Option, free: SUBSET Option, failed: SUBSET Option]

Calls ==
  [from: Owners, owner: Owners, message: Message, guarded: BOOLEAN,
   finished: BOOLEAN, via: {"request", "offer", "recommendation"},
   search: Progress \cup {Unset}]

ChatTypes ==
  /\ history \in [Chats -> History]
  /\ state \in [Chats -> States]
  /\ turn \in [Chats -> Turns]
  /\ call \in [Chats -> Calls \cup {NoCall}]
  /\ shown \in [Chats -> Option \cup {Nothing}]
  /\ consent \in [Chats -> SUBSET Stylists]
  /\ seen \in [Chats -> SUBSET Database]

-----------------------------------------------------------------------------
(* What holds of a dialogue, with history h, call c, proposal s and the    *)
(* stylists k the customer named or agreed to                              *)

(* At every step of every turn. *)
IsCoherent(h, s, k) ==
  /\ ~(h.choosing /\ h.confirming)
  /\ h.choosing => h.offers # <<>> /\ h.searching
  /\ h.confirming => h.chosen \in ToSet(h.offers) /\ h.chosen = s
  /\ h.asking => /\ h.recommended # Unset /\ h.service # Unset
                 /\ h.confirmed = Unset /\ ~h.declined
  /\ h.stylist \in k \cup {Unset, Unknown} /\ h.confirmed \in k \cup {Unset}
  /\ h.start # Unset => (h.day # Unset /\ h.time # Unset) \/ h.stylist # Unset

(* While the message is in hand, it counts as consent. *)
IsHeard(h, c, s, k) ==
  /\ c.message.stylist \in k \cup {Unset}
  /\ c.message.answer = "yes" =>
       /\ h.recommended \in k \cup {Unset}
       /\ s # Nothing => s.stylist \in k

Processing == {"searching", "deciding", "finding", "suggesting", "recommending"}

IsBusy(h, t, s) ==
  /\ h.service # Unset /\ ~h.choosing /\ ~h.confirming
  /\ t = "deciding" => ~ShouldSearchAvailability(h)
  /\ t \in {"finding", "suggesting", "recommending"} =>
       /\ h.start # Unset /\ h.stylist # Unset /\ h.service \in Services
       /\ h.confirmed = Unset /\ ~h.declined
  /\ t = "recommending" => s # Nothing

AtTurn(h, t, c, s, k) ==
  /\ IsCoherent(h, s, k)
  /\ t \notin {"quiet", "dead"} => c \in Calls
  /\ t \in {"classifying", "consulting", "booking"} => IsHeard(h, c, s, k)
  /\ t \in Processing => IsBusy(h, t, s)
  /\ t = "declined" => h.declined
  /\ t \in {"writing", "reminding", "booked", "refused"} /\ c.via = "recommendation" =>
       ~h.asking

(* The transaction of a chat runs while its turn is writing, and only then. *)
InTransaction(p) ==
  /\ turn[p] = "writing" =>
       /\ pc[p] \in Steps \ {"idle", "cut_off"}
       /\ req[p] \in CreateRequest
       /\ req[p].stylist \in consent[p]
       /\ call[p].via = "offer" =>
            Terms(req[p]) = shown[p] /\ call[p].message.answer = "yes"
  /\ turn[p] = "dead" => pc[p] \in {"idle", "cut_off"}
  /\ turn[p] \notin {"writing", "dead"} => pc[p] = "idle"

(* What a search has found, with history h, progress s and the tables w it *)
(* has seen so far: each slot that is done was free, or taken, in one of   *)
(* them.                                                                   *)
IsFoundIn(h, s, w) ==
  LET slots == Slots(SearchOf(h), s.asOf) IN
  /\ SearchIsTyped(SearchOf(h))
  /\ h.searching /\ ~h.choosing /\ ~h.confirming
  /\ s \in Progress /\ s.unread \cup s.free \subseteq slots
  /\ \A o \in s.free : \E d \in w : IsSlotFree(d, o)
  /\ \A o \in slots \ (s.unread \cup s.free) :
       o \in s.failed \/ \E d \in w : ~IsSlotFree(d, o)

(* A search is in progress while the turn is reading, and only then.       *)
InSearch(p) ==
  /\ seen[p] # {} <=> turn[p] = "reading"
  /\ turn[p] = "reading" =>
       db \in seen[p] /\ IsFoundIn(history[p], call[p].search, seen[p])

ChatOK(p) ==
  /\ AtTurn(history[p], turn[p], call[p], shown[p], consent[p])
  /\ InTransaction(p)
  /\ InSearch(p)

(* The clients that are not chats book elsewhere, in one step. *)
DInv ==
  /\ IInv
  /\ ChatTypes
  /\ \A p \in Chats : ChatOK(p)
  /\ \A c \in Clients \ Chats : pc[c] = "idle"

-----------------------------------------------------------------------------
(* Updates of the history *)

LEMMA EmptyHistory ==
  Empty \in History /\ \A s, k : IsCoherent(Empty, s, k)
BY SearchAssumption DEF Empty, History, IsCoherent, Times

LEMMA ClearedHistory ==
  ASSUME NEW h \in History
  PROVE  LET g == ClearPendingAvailability(h) IN
         /\ g \in History
         /\ ~g.choosing /\ ~g.confirming /\ ~g.searching /\ g.offers = <<>>
         /\ g.asking = h.asking /\ g.recommended = h.recommended
         /\ g.confirmed = h.confirmed /\ g.declined = h.declined
         /\ g.day = h.day /\ g.time = h.time /\ g.start = h.start
         /\ g.stylist = h.stylist /\ g.service = h.service
         /\ \A s, k : IsCoherent(h, s, k) => IsCoherent(g, s, k)
<1> DEFINE g == ClearPendingAvailability(h)
<1>1. g \in History
  <2>1. <<>> \in Seq(Option) /\ Unset \in Times
    BY DEF Times
  <2>2. QED
    BY <2>1, Zenon DEF ClearPendingAvailability, ClearAvailabilityTime, History
<1>2. /\ ~g.choosing /\ ~g.confirming /\ ~g.searching /\ g.offers = <<>>
      /\ g.asking = h.asking /\ g.recommended = h.recommended
      /\ g.confirmed = h.confirmed /\ g.declined = h.declined
      /\ g.day = h.day /\ g.time = h.time /\ g.start = h.start
      /\ g.stylist = h.stylist /\ g.service = h.service
  BY DEF ClearPendingAvailability, ClearAvailabilityTime, History
<1> HIDE DEF g
<1>3. \A s, k : IsCoherent(h, s, k) => IsCoherent(g, s, k)
  BY <1>2 DEF IsCoherent
<1>4. QED
  BY <1>1, <1>2, <1>3 DEF g

LEMMA CompletedHistory ==
  ASSUME NEW h \in History
  PROVE  LET g == FlowComplete(h) IN
         /\ g \in History /\ g.recommended = h.recommended /\ g.declined = h.declined
         /\ g.asking = h.asking /\ g.offers = <<>>
         /\ \A s, k : IsCoherent(h, s, k) => IsCoherent(g, s, k)
<1> DEFINE e == ClearPendingAvailability(h)
           g == FlowComplete(h)
<1>1. g = [e EXCEPT !.over = TRUE]
  BY DEF FlowComplete
<1>2. e \in History /\ \A s, k : IsCoherent(h, s, k) => IsCoherent(e, s, k)
  BY ClearedHistory
<1>3. /\ e.recommended = h.recommended /\ e.declined = h.declined
      /\ e.asking = h.asking /\ e.offers = <<>>
  BY ClearedHistory
<1> HIDE DEF e, g
<1>4. g \in History
  BY <1>1, <1>2, Zenon DEF History
<1>5. /\ g.recommended = e.recommended /\ g.declined = e.declined
      /\ g.asking = e.asking /\ g.offers = e.offers
      /\ \A s, k : IsCoherent(e, s, k) => IsCoherent(g, s, k)
  BY <1>1, <1>2 DEF IsCoherent, History
<1>6. QED
  BY <1>2, <1>3, <1>4, <1>5 DEF g

LEMMA RequestCleared ==
  ASSUME NEW h \in History
  PROVE  LET g == ClearRequestedTime(h) IN
         /\ g \in History
         /\ g.choosing = h.choosing /\ g.confirming = h.confirming
         /\ g.recommended = h.recommended /\ g.declined = h.declined
         /\ g.offers = h.offers
         /\ \A s, k : IsCoherent(h, s, k) => IsCoherent(g, s, k)
<1> DEFINE g == ClearRequestedTime(h)
<1>1. g \in History
  BY Zenon DEF ClearRequestedTime, History, Times
<1>2. QED
  BY <1>1 DEF ClearRequestedTime, IsCoherent, History

LEMMA ResumedHistory ==
  ASSUME NEW h \in History, NEW m
  PROVE  LET g == Resumed(h, m) IN
         /\ g \in History /\ g.recommended = h.recommended
         /\ g.offers \in {h.offers, <<>>}
         /\ g.confirming => g = h
         /\ g.choosing => g = h
         /\ \A s, k : IsCoherent(h, s, k) => IsCoherent(g, s, k)
BY ClearedHistory DEF Resumed

LEMMA RecommendationCleared ==
  ASSUME NEW h \in History
  PROVE  LET g == ClearPendingRecommendation(h) IN
         /\ g \in History
         /\ ~g.asking /\ g.recommended = Unset /\ g.service = h.service
         /\ g.offers = h.offers
         /\ g.choosing = h.choosing /\ g.confirming = h.confirming
         /\ \A s, k : IsCoherent(h, s, k) => IsCoherent(g, s, k)
<1> DEFINE g == ClearPendingRecommendation(h)
<1>1. g \in History
  BY Zenon DEF ClearPendingRecommendation, History
<1>2. QED
  BY <1>1 DEF ClearPendingRecommendation, IsCoherent, History

LEMMA ReadingsType ==
  ASSUME NEW h, NEW m \in Message
  PROVE  DataOf(h, m) \subseteq Reading
<1>1. NothingRead \in Reading
  BY DEF NothingRead, Reading
<1>2. [NothingRead EXCEPT !.answer = m.answer] \in Reading
  BY DEF NothingRead, Reading, Message
<1>3. QED
  BY <1>1, <1>2, ChatAssumption DEF DataOf

(* The stylist is the only one of the slots that anybody must agree to. *)
LEMMA FilledSlots ==
  ASSUME NEW h \in History, NEW m \in Message, NEW data \in Reading, ~h.asking
  PROVE  LET g == FillSlots(h, m, data) IN
         /\ g \in History
         /\ ~g.asking /\ g.recommended = h.recommended /\ g.offers = h.offers
         /\ g.choosing = h.choosing /\ g.confirming = h.confirming
         /\ \A s, k : IsCoherent(h, s, k) /\ data.stylist \in k \cup {Unset, Unknown} =>
              IsCoherent(g, s, k)
<1> DEFINE dated == [h EXCEPT !.day = Said(@, m.day)]
           e == MergeTemporalSlots(h, m)
           f == [e EXCEPT !.stylist = Said(@, data.stylist),
                          !.service = ServiceFrom(@, m, data)]
           g == FillSlots(h, m, data)
           Same(a, b) == /\ a.asking = b.asking /\ a.recommended = b.recommended
                         /\ a.choosing = b.choosing /\ a.confirming = b.confirming
                         /\ a.confirmed = b.confirmed /\ a.declined = b.declined
                         /\ a.offers = b.offers /\ a.chosen = b.chosen
                         /\ a.searching = b.searching
<1>1. /\ m.day \in Times /\ m.time \in Times /\ m.range \in Interval \cup {Unset}
      /\ m.service \in Services \cup {Unset}
      /\ data.service \in Services \cup {Unset, Unknown}
      /\ data.stylist \in Stylists \cup {Unset, Unknown}
  BY DEF Message, Reading, Times
<1>2. dated \in History /\ Same(dated, h) /\ dated.stylist = h.stylist
      /\ dated.start = h.start /\ dated.time = h.time
      /\ dated.day = Said(h.day, m.day)
  <2>1. h.day \in Times /\ Said(h.day, m.day) \in Times
    BY <1>1 DEF Said, History
  <2> DEFINE v == Said(h.day, m.day)
  <2>2. dated = [h EXCEPT !.day = v]
    BY DEF History
  <2> HIDE DEF dated, v
  <2>3. dated \in History
    BY <2>1, <2>2, Zenon DEF History, v
  <2>4. QED
    BY <2>2, <2>3 DEF History, v
<1> HIDE DEF dated
<1>3. e = IF m.time # Unset THEN [dated EXCEPT !.time = m.time, !.range = Unset] ELSE
          IF m.range # Unset
          THEN [dated EXCEPT !.range = m.range, !.time = Unset, !.start = Unset]
          ELSE dated
  BY DEF MergeTemporalSlots, dated
<1> HIDE DEF e
<1>4. e \in History
  <2>1. [dated EXCEPT !.time = m.time, !.range = Unset] \in History
    BY <1>1, <1>2, Zenon DEF History
  <2>2. m.range # Unset =>
          [dated EXCEPT !.range = m.range, !.time = Unset, !.start = Unset] \in History
    <3>1. Unset \in Times
      BY DEF Times
    <3>2. QED
      BY <1>1, <1>2, <3>1, Zenon DEF History
  <2>3. QED
    BY <1>2, <1>3, <2>1, <2>2
<1>5. /\ Same(e, h) /\ e.stylist = h.stylist /\ e.day = Said(h.day, m.day)
      /\ e.start \in {h.start, Unset}
  BY <1>2, <1>3 DEF History
<1>6. /\ f \in History
      /\ Same(f, h) /\ f.stylist = Said(h.stylist, data.stylist)
      /\ f.day = Said(h.day, m.day) /\ f.start \in {h.start, Unset}
  <2> DEFINE v == Said(e.stylist, data.stylist)
             w == ServiceFrom(e.service, m, data)
  <2>1. v \in Stylists \cup {Unset, Unknown} /\ w \in Services \cup {Unset, Unknown}
    BY <1>1, <1>4 DEF Said, ServiceFrom, History
  <2>2. f = [e EXCEPT !.stylist = v, !.service = w]
    BY <1>4 DEF History
  <2> HIDE DEF f, v, w
  <2>3. f \in History
    BY <1>4, <2>1, <2>2, Zenon DEF History
  <2>4. QED
    BY <1>4, <1>5, <2>2, <2>3 DEF History, v
<1> HIDE DEF f
<1>7. g = BuildValidatedStartTime(f)
  BY DEF FillSlots, f, e
<1> HIDE DEF g
<1>8. /\ g \in History /\ Same(g, f) /\ g.stylist = f.stylist
      /\ g.start # Unset => (g.day # Unset /\ g.time # Unset) \/ (f.day = Unset /\ f.start # Unset)
  <2>1. CASE f.day # Unset /\ f.time # Unset
    <3> DEFINE v == At(f.day, f.time)
    <3>1. v \in Times
      BY <1>6, <2>1, TimeIsNatural DEF History, Times
    <3>2. g = [f EXCEPT !.start = v]
      BY <1>7, <2>1 DEF BuildValidatedStartTime
    <3> HIDE DEF v
    <3>3. g \in History
      BY <1>6, <3>1, <3>2, Zenon DEF History
    <3>4. g.day = f.day /\ g.time = f.time /\ Same(g, f) /\ g.stylist = f.stylist
      BY <1>6, <3>2 DEF History
    <3>5. QED
      BY <2>1, <3>3, <3>4
  <2>2. CASE ~(f.day # Unset /\ f.time # Unset) /\ (f.day # Unset \/ f.range # Unset)
    <3>1. g = [f EXCEPT !.start = Unset] /\ Unset \in Times
      BY <1>7, <2>2 DEF BuildValidatedStartTime, Times
    <3>2. g \in History
      BY <1>6, <3>1, Zenon DEF History
    <3>3. QED
      BY <1>6, <3>1, <3>2 DEF History
  <2>3. CASE ~(f.day # Unset /\ f.time # Unset) /\ ~(f.day # Unset \/ f.range # Unset)
    BY <1>6, <1>7, <2>3 DEF BuildValidatedStartTime
  <2>4. QED
    BY <2>1, <2>2, <2>3
<1>9. ASSUME NEW s, NEW k, IsCoherent(h, s, k), data.stylist \in k \cup {Unset, Unknown}
      PROVE  IsCoherent(g, s, k)
  <2>1. g.stylist \in {h.stylist, data.stylist} /\ (h.stylist # Unset => g.stylist # Unset)
    BY <1>6, <1>8 DEF Said, Filled
  <2>2. g.start # Unset => \/ g.day # Unset /\ g.time # Unset
                           \/ h.day = Unset /\ h.start # Unset
    BY <1>6, <1>8 DEF Said, Filled
  <2>3. Same(g, h)
    BY <1>6, <1>8
  <2>4. QED
    BY <1>9, <2>1, <2>2, <2>3 DEF IsCoherent
<1>10. QED
  BY <1>6, <1>8, <1>9 DEF g

LEMMA AnsweredHistory ==
  ASSUME NEW h \in History, NEW data, h.asking
  PROVE  LET g == HandleRecommendationResponse(h, data) IN
         /\ g \in History
         /\ g.recommended = h.recommended /\ g.service = h.service
         /\ g.offers = h.offers
         /\ g.choosing = h.choosing /\ g.confirming = h.confirming
         /\ \A s, k : /\ IsCoherent(h, s, k)
                      /\ data.answer = "yes" => h.recommended \in k \cup {Unset}
                      => IsCoherent(g, s, k)
<1> DEFINE g == HandleRecommendationResponse(h, data)
           accepted == [h EXCEPT !.confirmed = h.recommended, !.asking = FALSE]
           refused == [h EXCEPT !.declined = TRUE, !.asking = FALSE]
<1>1. CASE data.answer = "yes" /\ h.recommended # Unset
  <2>1. g = accepted
    BY <1>1 DEF HandleRecommendationResponse
  <2>2. h.recommended \in Stylists \cup {Unset}
    BY DEF History
  <2>3. accepted \in History
    BY <2>2, Zenon DEF History
  <2>4. QED
    BY <1>1, <2>1, <2>3 DEF History, IsCoherent
<1>2. CASE data.answer = "no"
  <2>1. g = refused
    BY <1>2 DEF HandleRecommendationResponse
  <2>2. refused \in History
    BY Zenon DEF History
  <2>3. QED
    BY <2>1, <2>2 DEF History, IsCoherent
<1>3. CASE ~(data.answer = "yes" /\ h.recommended # Unset) /\ data.answer # "no"
  <2>1. g = h
    BY <1>3 DEF HandleRecommendationResponse
  <2>2. QED
    BY <2>1
<1>4. QED
  BY <1>1, <1>2, <1>3

(* Who is named by the reading of a message, or was recommended and is     *)
(* said to be accepted, counts as agreed to.                               *)
LEMMA ConsentGrows ==
  ASSUME NEW k, NEW l, k \subseteq l, NEW h, NEW c, NEW s
  PROVE  /\ IsCoherent(h, s, k) => IsCoherent(h, s, l)
         /\ IsHeard(h, c, s, k) => IsHeard(h, c, s, l)
BY DEF IsCoherent, IsHeard

LEMMA UpdatedHistory ==
  ASSUME NEW h \in History, NEW m \in Message, NEW data \in Reading,
         NEW s, NEW k, IsCoherent(h, s, k), data.stylist \in k \cup {Unset, Unknown},
         data.answer = "yes" => h.recommended \in k \cup {Unset}
  PROVE  LET g == UpdateHistory(h, m, data) IN
         /\ g \in History
         /\ g.recommended \in {h.recommended, Unset} /\ g.offers = h.offers
         /\ g.choosing = h.choosing /\ g.confirming = h.confirming
         /\ IsCoherent(g, s, k)
         /\ IsFinished(h, data, g) \/ HasRequiredFields(g) => g.service # Unset
<1> DEFINE g == UpdateHistory(h, m, data)
           e == ClearPendingRecommendation(h)
<1>1. HasRequiredFields(g) => g.service # Unset
  BY DEF HasRequiredFields
<1>2. CASE h.asking /\ ~IsNewAppointmentRequest(data)
  <2>1. g = HandleRecommendationResponse(h, data)
    BY <1>2 DEF UpdateHistory
  <2>2. h.service # Unset
    BY <1>2 DEF IsCoherent
  <2> HIDE DEF g
  <2>3. QED
    BY <1>2, <2>1, <2>2, AnsweredHistory DEF g
<1>3. CASE ~(h.asking /\ ~IsNewAppointmentRequest(data))
  <2>1. IsFinished(h, data, g) => HasRequiredFields(g)
    BY <1>3 DEF IsFinished
  <2>2. /\ e \in History /\ IsCoherent(e, s, k) /\ ~e.asking /\ e.recommended = Unset
        /\ e.choosing = h.choosing /\ e.confirming = h.confirming
        /\ e.offers = h.offers
    BY RecommendationCleared
  <2> DEFINE f == IF h.asking THEN e ELSE h
  <2>3. g = FillSlots(f, m, data)
    BY <1>3 DEF UpdateHistory
  <2>4. /\ f \in History /\ IsCoherent(f, s, k) /\ ~f.asking
        /\ f.recommended \in {h.recommended, Unset} /\ f.offers = h.offers
        /\ f.choosing = h.choosing /\ f.confirming = h.confirming
    BY <2>2
  <2> HIDE DEF f, g
  <2>5. /\ g \in History /\ IsCoherent(g, s, k)
        /\ g.recommended = f.recommended /\ g.offers = f.offers
        /\ g.choosing = f.choosing /\ g.confirming = f.confirming
    BY <2>3, <2>4, FilledSlots
  <2>6. QED
    BY <1>1, <2>1, <2>4, <2>5 DEF g
<1>4. QED
  BY <1>2, <1>3

(* What a message, or the history itself, asks to search for. *)
Sought(q, k) ==
  /\ q.day \in Times /\ q.time \in Times /\ q.range \in Interval \cup {Unset}
  /\ q.service \in Services \cup {Unset}
  /\ q.stylist \in (k \cup {Unset, Unknown}) \cap (Stylists \cup {Unset, Unknown})
  /\ q.specialty \in BOOLEAN

LEMMA SoughtType ==
  ASSUME NEW k
  PROVE  /\ \A m \in Message : m.stylist \in k \cup {Unset} => Sought(ParsedMessage(m), k)
         /\ \A h \in History : h.stylist \in k \cup {Unset, Unknown} => Sought(ParsedHistory(h), k)
<1>1. \A t \in Times : At1(t) \in Interval \cup {Unset}
  BY DEF At1, Times, Interval
<1>2. \A m \in Message : m.stylist \in k \cup {Unset} => Sought(ParsedMessage(m), k)
  BY <1>1 DEF Message, Times, ParsedMessage, Said, Sought
<1>3. \A h \in History : h.stylist \in k \cup {Unset, Unknown} => Sought(ParsedHistory(h), k)
  BY <1>1 DEF History, ParsedHistory, Said, Sought
<1>4. QED
  BY <1>2, <1>3

LEMMA MergedSearch ==
  ASSUME NEW h \in History, NEW k, NEW q, Sought(q, k)
  PROVE  LET g == MergeSearch(h, q) IN
         /\ g \in History
         /\ g.searching /\ g.offers = h.offers /\ g.recommended = h.recommended
         /\ g.choosing = h.choosing /\ g.confirming = h.confirming
         /\ \A s : IsCoherent(h, s, k) => IsCoherent(g, s, k)
<1> DEFINE d == Said(h.sday, q.day)
           t == Said(h.stime, q.time)
           r == Said(h.srange, q.range)
           v == Said(h.service, q.service)
           x == h.specialty \/ q.specialty
           y == Said(h.stylist, q.stylist)
           g == MergeSearch(h, q)
<1>1. /\ d \in Times /\ t \in Times /\ r \in Interval \cup {Unset}
      /\ v \in Services \cup {Unset, Unknown} /\ x \in BOOLEAN
      /\ y \in Stylists \cup {Unset, Unknown}
      /\ h.service # Unset => v # Unset
      /\ h.stylist # Unset => y # Unset
      /\ y \in {h.stylist, q.stylist} /\ q.stylist \in k \cup {Unset, Unknown}
  BY DEF Sought, Said, Filled, History
<1>2. g = [h EXCEPT !.searching = TRUE, !.sday = d, !.stime = t, !.srange = r,
                    !.service = v, !.specialty = x, !.stylist = y]
  BY DEF MergeSearch, History
<1> HIDE DEF d, t, r, v, x, y, g
<1>3. g \in History
  <2>1. /\ d \in Times /\ t \in Times /\ r \in Interval \cup {Unset}
        /\ v \in Services \cup {Unset, Unknown} /\ x \in BOOLEAN
        /\ y \in Stylists \cup {Unset, Unknown}
    BY <1>1
  <2> DEFINE e == [h EXCEPT !.searching = TRUE, !.sday = d, !.stime = t, !.srange = r,
                           !.specialty = x]
  <2>2. g = [e EXCEPT !.service = v, !.stylist = y]
    BY <1>2 DEF History
  <2>3. e \in History
    BY <2>1, Zenon DEF History
  <2> HIDE DEF e
  <2>4. QED
    BY <2>1, <2>2, <2>3, Zenon DEF History
<1>4. /\ g.searching /\ g.offers = h.offers /\ g.recommended = h.recommended
      /\ g.choosing = h.choosing /\ g.confirming = h.confirming
      /\ g.asking = h.asking /\ g.confirmed = h.confirmed /\ g.declined = h.declined
      /\ g.chosen = h.chosen /\ g.day = h.day /\ g.time = h.time /\ g.start = h.start
      /\ g.service = v /\ g.stylist = y
  BY <1>2 DEF History
<1>5. \A s : IsCoherent(h, s, k) => IsCoherent(g, s, k)
  BY <1>1, <1>4 DEF IsCoherent
<1>6. QED
  BY <1>3, <1>4, <1>5 DEF g

(* A search that is not made leaves no offers.                             *)
LEMMA NotSearchedHistory ==
  ASSUME NEW h \in History
  PROVE  LET g == NotSearched(h) IN
         /\ g \in History /\ g.offers = h.offers
         /\ \A s, k : IsCoherent(h, s, k) => IsCoherent(g, s, k)
<1> DEFINE g == NotSearched(h)
           e == ClearAvailabilityTime(h)
<1>1. e \in History
  BY Zenon DEF ClearAvailabilityTime, History, Times
<1>2. e.offers = h.offers /\ \A s, k : IsCoherent(h, s, k) => IsCoherent(e, s, k)
  BY <1>1 DEF ClearAvailabilityTime, IsCoherent, History
<1>3. g \in {h, ClearRequestedTime(e)}
  BY DEF NotSearched
<1> HIDE DEF e, g
<1>4. QED
  BY <1>1, <1>2, <1>3, RequestCleared DEF g

(* A search ends with the choice among what it found.                      *)
LEMMA OfferedHistory ==
  ASSUME NEW h \in History, h.searching, ~h.confirming,
         NEW offers \in Seq(Option), offers # <<>>
  PROVE  LET g == [h EXCEPT !.offers = offers, !.choosing = TRUE] IN
         /\ g \in History /\ g.offers = offers
         /\ \A s, k : IsCoherent(h, s, k) => IsCoherent(g, s, k)
<1> DEFINE g == [h EXCEPT !.offers = offers, !.choosing = TRUE]
<1>1. g \in History
  BY Zenon DEF History
<1>2. /\ g.offers = offers /\ g.choosing /\ g.searching /\ ~g.confirming
      /\ g.recommended = h.recommended /\ g.asking = h.asking
      /\ g.confirmed = h.confirmed /\ g.declined = h.declined
      /\ g.service = h.service /\ g.stylist = h.stylist
      /\ g.start = h.start /\ g.day = h.day /\ g.time = h.time
  BY DEF History
<1> HIDE DEF g
<1>3. \A s, k : IsCoherent(h, s, k) => IsCoherent(g, s, k)
  BY <1>2 DEF IsCoherent
<1>4. QED
  BY <1>1, <1>2, <1>3 DEF g

LEMMA MatchesAreOffers ==
  ASSUME NEW offers, NEW m
  PROVE  Matches(offers, m) \subseteq DOMAIN offers
BY DEF Matches

(* The choice is closed and the slot, as it is proposed, to be confirmed. *)
LEMMA SelectedHistory ==
  ASSUME NEW h \in History, NEW i \in DOMAIN h.offers
  PROVE  LET g == Select(h, i) IN
         /\ g \in History
         /\ h.offers[i] \in Option
         /\ g.recommended = h.recommended /\ g.offers = h.offers
         /\ \A s, k : IsCoherent(h, s, k) => IsCoherent(g, h.offers[i], k)
<1> DEFINE o == h.offers[i]
           g == Select(h, i)
<1>1. o \in Option /\ o \in ToSet(h.offers)
  BY DEF History, ToSet
<1>2. g = [h EXCEPT !.chosen = o, !.choosing = FALSE, !.confirming = TRUE]
  BY DEF Select
<1> HIDE DEF o, g
<1>3. g \in History
  BY <1>1, <1>2, Zenon DEF History
<1>4. /\ g.offers = h.offers /\ g.chosen = o /\ ~g.choosing /\ g.confirming
      /\ g.searching = h.searching
      /\ g.recommended = h.recommended /\ g.asking = h.asking
      /\ g.confirmed = h.confirmed /\ g.declined = h.declined
      /\ g.service = h.service /\ g.stylist = h.stylist
      /\ g.start = h.start /\ g.day = h.day /\ g.time = h.time
  BY <1>2 DEF History
<1>5. \A s, k : IsCoherent(h, s, k) => IsCoherent(g, o, k)
  BY <1>1, <1>4 DEF IsCoherent
<1>6. QED
  BY <1>1, <1>3, <1>4, <1>5 DEF o, g

LEMMA AcceptedHistory ==
  ASSUME NEW h \in History, h.chosen \in Option
  PROVE  LET g == AcceptOffer(h) IN
         /\ g \in History
         /\ g.start = h.chosen.start /\ g.service = h.chosen.service
         /\ g.stylist = h.chosen.stylist
         /\ g.recommended = h.recommended /\ g.offers = h.offers
         /\ \A s, k : IsCoherent(h, s, k) /\ h.chosen.stylist \in k => IsCoherent(g, s, k)
<1> DEFINE o == h.chosen
           g == AcceptOffer(h)
<1>1. o.start \in Nat /\ o.service \in Services /\ o.stylist \in Stylists
  BY DEF Option
<1>2. o.start \in Times /\ o.service # Unset /\ o.stylist # Unset
  BY <1>1, SearchAssumption DEF Times
<1>3. g = [h EXCEPT !.start = o.start, !.service = o.service, !.stylist = o.stylist,
                    !.confirming = FALSE]
  BY DEF AcceptOffer
<1> HIDE DEF o, g
<1>4. g \in History
  BY <1>1, <1>2, <1>3, Zenon DEF History
<1>5. /\ g.offers = h.offers /\ g.choosing = h.choosing /\ ~g.confirming
      /\ g.searching = h.searching
      /\ g.recommended = h.recommended /\ g.asking = h.asking
      /\ g.confirmed = h.confirmed /\ g.declined = h.declined
      /\ g.service = o.service /\ g.stylist = o.stylist /\ g.start = o.start
  BY <1>3 DEF History
<1>6. \A s, k : IsCoherent(h, s, k) /\ o.stylist \in k => IsCoherent(g, s, k)
  BY <1>2, <1>5 DEF IsCoherent
<1>7. QED
  BY <1>4, <1>5, <1>6 DEF o, g

LEMMA RecommendationDropped ==
  ASSUME NEW h \in History, ~h.asking
  PROVE  LET g == DropRecommendation(h) IN
         /\ g \in History /\ g.offers = h.offers
         /\ \A s, k : IsCoherent(h, s, k) => IsCoherent(g, s, k)
<1> DEFINE g == DropRecommendation(h)
<1>1. g \in History
  BY Zenon DEF DropRecommendation, History
<1>2. QED
  BY <1>1 DEF DropRecommendation, IsCoherent, History

(* What remains to be done once the answer has been sent leaves no         *)
(* question open that is about nothing.                                    *)
LEMMA HistoryAfterAnswer ==
  ASSUME ChatTypes, NEW p \in Chats, ChatOK(p)
  PROVE  LET g == AfterAnswer(p) IN
         /\ g \in History /\ g.offers = history[p].offers
         /\ IsCoherent(g, shown[p], consent[p])
<1> DEFINE h == history[p]
           s == shown[p]
           k == consent[p]
           t == turn[p]
           c == call[p]
           g == AfterAnswer(p)
<1>1. h \in History /\ s \in Option \cup {Nothing} /\ AtTurn(h, t, c, s, k)
  BY DEF ChatTypes, ChatOK
<1>2. IsCoherent(h, s, k)
  BY <1>1 DEF AtTurn
<1>3. CASE t = "declined"
  <2> DEFINE e == [h EXCEPT !.declined = FALSE, !.recommended = Unset]
  <2>1. g = e
    BY <1>3 DEF AfterAnswer
  <2>2. e \in History
    BY <1>1, Zenon DEF History
  <2>3. h.declined /\ ~h.asking
    BY <1>1, <1>2, <1>3 DEF AtTurn, IsCoherent
  <2>4. IsCoherent(e, s, k) /\ e.offers = h.offers
    BY <1>1, <1>2, <2>2, <2>3 DEF History, IsCoherent
  <2> HIDE DEF e
  <2>5. QED
    BY <2>1, <2>2, <2>4
<1>4. CASE t = "recommending"
  <2> DEFINE x == s.stylist
             e == [h EXCEPT !.recommended = x, !.asking = TRUE]
  <2>1. g = e
    BY <1>4 DEF AfterAnswer
  <2>2. /\ h.service # Unset /\ h.confirmed = Unset /\ ~h.declined
        /\ s # Nothing
    BY <1>1, <1>4 DEF AtTurn, IsBusy, Processing
  <2>3. x \in Stylists
    BY <1>1, <2>2 DEF Option
  <2>4. x \in Stylists \cup {Unset} /\ x # Unset
    BY <2>3, SearchAssumption
  <2> HIDE DEF x
  <2>5. e \in History
    BY <1>1, <2>4, Zenon DEF History
  <2>6. IsCoherent(e, s, k) /\ e.offers = h.offers
    BY <1>1, <1>2, <2>2, <2>4, <2>5 DEF History, IsCoherent
  <2> HIDE DEF e
  <2>7. QED
    BY <2>1, <2>5, <2>6
<1>5. CASE t \in {"booked", "refused"}
  <2> DEFINE e == IF c.via = "recommendation" THEN DropRecommendation(h) ELSE h
  <2>1. c.via = "recommendation" => ~h.asking
    BY <1>1, <1>5 DEF AtTurn
  <2>2. e \in History /\ e.offers = h.offers /\ IsCoherent(e, s, k)
    BY <1>1, <1>2, <2>1, RecommendationDropped
  <2>3. g = e \/ g = ClearRequestedTime(e)
    BY <1>5 DEF AfterAnswer
  <2> HIDE DEF e, g
  <2>4. QED
    BY <2>2, <2>3, RequestCleared DEF g
<1>6. CASE t = "unavailable"
  <2>1. g = ClearRequestedTime(h)
    BY <1>6 DEF AfterAnswer
  <2>2. QED
    BY <1>1, <1>2, <2>1, RequestCleared
<1>7. CASE t \notin {"declined", "recommending", "booked", "refused", "unavailable"}
  <2>1. g = h
    BY <1>7 DEF AfterAnswer
  <2>2. QED
    BY <1>1, <1>2, <2>1
<1>8. QED
  BY <1>3, <1>4, <1>5, <1>6, <1>7

-----------------------------------------------------------------------------
(* A step of one chat *)

TakesTurn(p, h, x, t, c, s, k) ==
  /\ history' = [history EXCEPT ![p] = h]
  /\ state' = [state EXCEPT ![p] = x]
  /\ turn' = [turn EXCEPT ![p] = t]
  /\ call' = [call EXCEPT ![p] = c]
  /\ shown' = [shown EXCEPT ![p] = s]
  /\ consent' = [consent EXCEPT ![p] = k]

(* A search in progress sees all that the tables become.                   *)
Watches(p, w) ==
  w \in SUBSET Database /\ seen' = [seen EXCEPT ![p] = w] /\ UNCHANGED db

KeepsWatch(q) ==
  \/ UNCHANGED db /\ seen'[q] = seen[q]
  \/ seen'[q] = IF seen[q] = {} THEN {} ELSE seen[q] \cup {db'}

ConcernsOnly(p) ==
  \A q \in Chats \ {p} :
    /\ history'[q] = history[q] /\ turn'[q] = turn[q] /\ call'[q] = call[q]
    /\ shown'[q] = shown[q] /\ consent'[q] = consent[q]
    /\ KeepsWatch(q)

(* Whoever makes offers has read every slot, and makes the best of them.   *)
OffersFound(p) ==
  history'[p].offers \notin {history[p].offers, <<>>} =>
    LET s == call[p].search
        slots == Slots(SearchOf(history[p]), s.asOf)
        offers == history'[p].offers
    IN  /\ \A o \in s.free : o \in slots /\ \E d \in seen[p] : IsSlotFree(d, o)
        /\ \A o \in slots \ s.free :
             o \in s.failed \/ \E d \in seen[p] : ~IsSlotFree(d, o)
        /\ ToSet(offers) = BestOffers(s.free)
        /\ \A o \in ToSet(offers) :
             IsFuture(o.start) =>
               \E d \in seen[p] : CreateVerdict(d, OfferRequest(p, o)) = "proceed"

KeepsWord(p) ==
  /\ [AnyStep(p)]_vars
  /\ ConcernsOnly(p)
  /\ ChatTypes'
  /\ ChatOK(p)'
  /\ OffersFound(p)

LEMMA TurnFrame ==
  ASSUME ChatTypes, NEW p \in Chats, NEW h \in History, NEW x \in States,
         NEW t \in Turns, NEW c \in Calls \cup {NoCall}, NEW s \in Option \cup {Nothing},
         NEW k \in SUBSET Stylists, TakesTurn(p, h, x, t, c, s, k),
         NEW w, Watches(p, w)
  PROVE  /\ ChatTypes' /\ ConcernsOnly(p)
         /\ history'[p] = h /\ turn'[p] = t /\ call'[p] = c
         /\ shown'[p] = s /\ consent'[p] = k /\ seen'[p] = w
BY DEF ChatTypes, TakesTurn, Watches, ConcernsOnly, KeepsWatch

LEMMA SameAsItWas ==
  ASSUME ChatTypes, NEW p \in Chats
  PROVE  /\ history = [history EXCEPT ![p] = history[p]]
         /\ state = [state EXCEPT ![p] = state[p]]
         /\ turn = [turn EXCEPT ![p] = turn[p]]
         /\ call = [call EXCEPT ![p] = call[p]]
         /\ shown = [shown EXCEPT ![p] = shown[p]]
         /\ consent = [consent EXCEPT ![p] = consent[p]]
         /\ seen = [seen EXCEPT ![p] = seen[p]]
         /\ history[p] \in History /\ state[p] \in States /\ turn[p] \in Turns
         /\ call[p] \in Calls \cup {NoCall} /\ shown[p] \in Option \cup {Nothing}
         /\ consent[p] \in SUBSET Stylists /\ seen[p] \in SUBSET Database
BY DEF ChatTypes

LEMMA SameOffers ==
  ASSUME NEW p \in Chats, history'[p].offers \in {history[p].offers, <<>>}
  PROVE  OffersFound(p)
BY DEF OffersFound

(* A step that leaves the tables, every transaction and every search alone. *)
LEMMA QuietTurn ==
  ASSUME DInv, NEW p \in Chats, turn[p] # "reading", NEW h \in History, NEW x \in States,
         NEW t \in Turns \ {"reading", "writing"}, NEW c \in Calls \cup {NoCall},
         NEW s \in Option \cup {Nothing}, NEW k \in SUBSET Stylists,
         TakesTurn(p, h, x, t, c, s, k), UNCHANGED <<serviceVars, seen>>, pc[p] = "idle",
         AtTurn(h, t, c, s, k), h.offers \in {history[p].offers, <<>>}
  PROVE  KeepsWord(p)
<1>1. /\ ChatTypes' /\ ConcernsOnly(p)
      /\ history'[p] = h /\ turn'[p] = t /\ call'[p] = c
      /\ shown'[p] = s /\ consent'[p] = k
  <2>1. Watches(p, seen[p])
    BY SameAsItWas DEF Watches, DInv, serviceVars
  <2>2. t \in Turns /\ ChatTypes
    BY DEF DInv
  <2>3. QED
    BY <2>1, <2>2, TurnFrame
<1>2. UNCHANGED vars
  BY DEF serviceVars, vars
<1>3. pc'[p] = "idle" /\ seen'[p] = {}
  BY DEF serviceVars, DInv, ChatOK, InSearch
<1>4. ChatOK(p)'
  BY <1>1, <1>3 DEF ChatOK, InTransaction, InSearch
<1>5. OffersFound(p)
  BY <1>1, SameOffers
<1>6. QED
  BY <1>1, <1>2, <1>4, <1>5 DEF KeepsWord

(* What is known of a chat whose transaction does not run. *)
LEMMA AtRest ==
  ASSUME DInv, NEW p \in Chats, turn[p] \notin {"writing", "dead"}
  PROVE  /\ ChatTypes /\ pc[p] = "idle"
         /\ history[p] \in History /\ state[p] \in States /\ turn[p] \in Turns
         /\ shown[p] \in Option \cup {Nothing} /\ consent[p] \in SUBSET Stylists
         /\ turn[p] # "quiet" => call[p] \in Calls
         /\ IsCoherent(history[p], shown[p], consent[p])
         /\ AtTurn(history[p], turn[p], call[p], shown[p], consent[p])
         /\ InSearch(p)
BY DEF DInv, ChatTypes, ChatOK, InTransaction, AtTurn

-----------------------------------------------------------------------------
(* Routing *)

LEMMA HearKeeps ==
  ASSUME DInv, NEW p \in Chats, NEW owner \in Speakers, NEW m \in Messages,
         Hear(p, owner, m)
  PROVE  KeepsWord(p)
<1> DEFINE h == history[p]
           s == shown[p]
           k == consent[p] \cup Agreed(p, m)
<1>1. turn[p] = "quiet" /\ m \in Message /\ owner \in Owners
  BY ChatAssumption DEF Hear
<1>2. /\ h \in History /\ s \in Option \cup {Nothing} /\ pc[p] = "idle"
      /\ IsCoherent(h, s, consent[p]) /\ state[p] \in States
      /\ shown = [shown EXCEPT ![p] = s]
      /\ consent[p] \in SUBSET Stylists
  BY <1>1, AtRest, SameAsItWas
<1>3. k \in SUBSET Stylists
  BY <1>2 DEF Agreed
<1>4. PICK x \in States, t \in {"booking", "consulting", "classifying"},
           guarded \in BOOLEAN :
        /\ state' = [state EXCEPT ![p] = x]
        /\ Become(p, h, t) /\ Pass(p, CallOf(p, owner, m, guarded))
  <2>1. CASE RouteToAppointment(p) /\ Pass(p, CallOf(p, owner, m, state[p] # "appointment"))
    BY <2>1 DEF RouteToAppointment, Enter, States
  <2>2. CASE RouteToConsultation(p) /\ Pass(p, CallOf(p, owner, m, TRUE))
    BY <2>2 DEF RouteToConsultation, Enter, States
  <2>3. CASE RouteByState(p) /\ Pass(p, CallOf(p, owner, m, TRUE))
    <3>1. state' = [state EXCEPT ![p] = state[p]]
      BY <1>1, <2>3, SameAsItWas DEF RouteByState, DInv
    <3>2. PICK t \in {"booking", "consulting", "classifying"} : Become(p, h, t)
      BY <1>2, <2>3 DEF RouteByState, States
    <3>3. QED
      BY <1>2, <2>3, <3>1, <3>2
  <2>4. QED
    BY <2>1, <2>2, <2>3 DEF Hear
<1> DEFINE c == CallOf(p, owner, m, guarded)
<1>5. c \in Calls /\ c.message = m
  BY <1>1 DEF CallOf, Calls
<1>6. consent' = [consent EXCEPT ![p] = k]
  BY <1>2 DEF Hear
<1> HIDE DEF c
<1>7. TakesTurn(p, h, x, t, c, s, k)
  BY <1>2, <1>4, <1>6 DEF Hear, Become, Pass, TakesTurn, c
<1>8. IsHeard(h, c, s, k)
  <2>1. m.stylist \in Stylists \cup {Unset} /\ h.recommended \in Stylists \cup {Unset}
    BY <1>1, <1>2 DEF Message, History
  <2>2. s # Nothing => s.stylist \in Stylists
    BY <1>2 DEF Option
  <2>3. QED
    BY <1>5, <2>1, <2>2 DEF IsHeard, Agreed
<1>9. IsCoherent(h, s, k)
  BY <1>2 DEF IsCoherent
<1>10. AtTurn(h, t, c, s, k)
  BY <1>5, <1>8, <1>9 DEF AtTurn, Processing
<1>11. UNCHANGED <<serviceVars, seen>>
  BY DEF Hear
<1>12. t \in Turns \ {"reading", "writing"}
  BY DEF Turns
<1>13. h.offers \in {h.offers, <<>>}
  OBVIOUS
<1>14. QED
  BY <1>1, <1>2, <1>3, <1>5, <1>7, <1>10, <1>11, <1>12, <1>13, QuietTurn

LEMMA ClassifyKeeps ==
  ASSUME DInv, NEW p \in Chats, Classify(p)
  PROVE  KeepsWord(p)
<1> DEFINE h == history[p]
           c == call[p]
           s == shown[p]
           k == consent[p]
<1>1. turn[p] = "classifying" /\ UNCHANGED <<serviceVars, call, shown, consent, seen>>
  BY DEF Classify
<1>2. /\ h \in History /\ s \in Option \cup {Nothing} /\ k \in SUBSET Stylists
      /\ c \in Calls /\ pc[p] = "idle" /\ AtTurn(h, "classifying", c, s, k)
      /\ state[p] \in States /\ ChatTypes
  BY <1>1, AtRest
<1>3. PICK x \in States, t \in {"booking", "consulting", "asked"} :
        state' = [state EXCEPT ![p] = x] /\ Become(p, h, t)
  BY <1>2, SameAsItWas DEF Classify, RouteToAppointment, RouteToConsultation,
     HandleUnsupportedTask, Enter, States
<1>4. TakesTurn(p, h, x, t, c, s, k)
  BY <1>1, <1>2, <1>3, SameAsItWas DEF Become, TakesTurn
<1>5. AtTurn(h, t, c, s, k)
  BY <1>2 DEF AtTurn, Processing
<1>6. t \in Turns \ {"reading", "writing"}
  BY DEF Turns, Answering
<1>7. h.offers \in {h.offers, <<>>}
  OBVIOUS
<1>8. QED
  BY <1>1, <1>2, <1>4, <1>5, <1>6, <1>7, QuietTurn

(* Whoever carries on without the owner is still in the same conversation. *)
LEMMA UnrelatedKeeps ==
  ASSUME DInv, NEW p \in Chats, NEW h \in History, HandleUnrelated(p, h),
         turn[p] \in {"consulting", "booking"},
         NEW k \in SUBSET Stylists, consent' = [consent EXCEPT ![p] = k],
         consent[p] \subseteq k, IsCoherent(h, shown[p], k),
         h.recommended \in {history[p].recommended, Unset},
         h.offers \in {history[p].offers, <<>>}, UNCHANGED <<serviceVars, shown, seen>>
  PROVE  KeepsWord(p)
<1> DEFINE c == WithoutOwner(p)
           s == shown[p]
<1>1. /\ s \in Option \cup {Nothing} /\ pc[p] = "idle"
      /\ call[p] \in Calls /\ IsHeard(history[p], call[p], s, consent[p]) /\ ChatTypes
  BY AtRest DEF AtTurn
<1>2. c \in Calls /\ c.message = call[p].message
  BY <1>1, ChatAssumption DEF WithoutOwner, Calls
<1>3. TakesTurn(p, h, "classify", "classifying", c, s, k)
  BY <1>1, SameAsItWas DEF HandleUnrelated, Enter, Pass, Become, TakesTurn
<1> HIDE DEF c
<1>4. IsHeard(h, c, s, k)
  BY <1>1, <1>2 DEF IsHeard
<1>5. AtTurn(h, "classifying", c, s, k)
  BY <1>2, <1>4 DEF AtTurn, Processing
<1>6. QED
  BY <1>1, <1>2, <1>3, <1>5, QuietTurn DEF Turns, States

LEMMA ConsultKeeps ==
  ASSUME DInv, NEW p \in Chats, Consult(p)
  PROVE  KeepsWord(p)
<1>1. turn[p] = "consulting" /\ UNCHANGED <<serviceVars, shown, consent, seen>>
  BY DEF Consult
<1>2. /\ history[p] \in History /\ pc[p] = "idle" /\ call[p] \in Calls
      /\ IsCoherent(history[p], shown[p], consent[p]) /\ ChatTypes
  BY <1>1, AtRest
<1>3. CASE HandleUnrelated(p, history[p])
  BY <1>1, <1>2, <1>3, SameAsItWas, UnrelatedKeeps
<1>4. CASE Become(p, history[p], "consulted") /\ UNCHANGED <<state, call>>
  <2>1. TakesTurn(p, history[p], state[p], "consulted", call[p], shown[p], consent[p])
    BY <1>1, <1>2, <1>4, SameAsItWas DEF Become, TakesTurn
  <2>2. AtTurn(history[p], "consulted", call[p], shown[p], consent[p])
    BY <1>2 DEF AtTurn, Processing
  <2>3. QED
    BY <1>1, <1>2, <2>1, <2>2, QuietTurn, SameAsItWas DEF Turns, Answering
<1>5. QED
  BY <1>3, <1>4 DEF Consult

-----------------------------------------------------------------------------
(* The booking agent *)

(* The turn goes on with the call it has. *)
LEMMA GoesOn ==
  ASSUME DInv, NEW p \in Chats, turn[p] \notin {"quiet", "reading", "writing", "dead"},
         NEW h \in History, NEW t \in Turns \ {"reading", "writing"}, Become(p, h, t),
         UNCHANGED <<serviceVars, state, call, shown, consent, seen>>,
         AtTurn(h, t, call[p], shown[p], consent[p]), h.offers \in {history[p].offers, <<>>}
  PROVE  KeepsWord(p)
<1>1. /\ state[p] \in States /\ call[p] \in Calls \cup {NoCall} /\ pc[p] = "idle"
      /\ shown[p] \in Option \cup {Nothing} /\ consent[p] \in SUBSET Stylists
  BY AtRest
<1>2. TakesTurn(p, h, state[p], t, call[p], shown[p], consent[p])
  BY SameAsItWas DEF Become, TakesTurn, DInv
<1>3. UNCHANGED <<serviceVars, seen>>
  OBVIOUS
<1>4. QED
  BY <1>1, <1>2, <1>3, QuietTurn

(* An answer that leaves nothing to be done afterwards. *)
LEMMA Answers ==
  ASSUME DInv, NEW p \in Chats, turn[p] \notin {"quiet", "reading", "writing", "dead"},
         NEW h \in History, NEW t \in {"asked", "over", "unavailable"}, Become(p, h, t),
         UNCHANGED <<serviceVars, state, call, shown, consent, seen>>,
         IsCoherent(h, shown[p], consent[p]), h.offers \in {history[p].offers, <<>>}
  PROVE  KeepsWord(p)
<1>1. AtTurn(h, t, call[p], shown[p], consent[p])
  BY AtRest DEF AtTurn, Processing
<1>2. t \in Turns \ {"reading", "writing"}
  BY DEF Turns, Answering
<1>3. QED
  BY <1>1, <1>2, GoesOn

(* What the booking agent finds when it gets a message. *)
LEMMA InBooking ==
  ASSUME DInv, NEW p \in Chats, Books(p)
  PROVE  /\ turn[p] = "booking" /\ pc[p] = "idle" /\ ChatTypes
         /\ history[p] \in History /\ state[p] \in States
         /\ call[p] \in Calls /\ Heard(p) \in Message
         /\ shown[p] \in Option \cup {Nothing} /\ consent[p] \in SUBSET Stylists
         /\ IsCoherent(history[p], shown[p], consent[p])
         /\ IsHeard(history[p], call[p], shown[p], consent[p])
         /\ Current(p) \in History
         /\ Current(p).recommended = history[p].recommended
         /\ Current(p).offers \in {history[p].offers, <<>>}
         /\ Current(p).confirming \/ Current(p).choosing => Current(p) = history[p]
         /\ IsCoherent(Current(p), shown[p], consent[p])
         /\ IsHeard(Current(p), call[p], shown[p], consent[p])
<1>1. turn[p] = "booking"
  BY DEF Books
<1>2. /\ pc[p] = "idle" /\ ChatTypes
      /\ history[p] \in History /\ state[p] \in States
      /\ call[p] \in Calls
      /\ shown[p] \in Option \cup {Nothing} /\ consent[p] \in SUBSET Stylists
      /\ IsCoherent(history[p], shown[p], consent[p])
      /\ IsHeard(history[p], call[p], shown[p], consent[p])
  BY <1>1, AtRest DEF AtTurn
<1>3. Heard(p) \in Message
  BY <1>2 DEF Heard, Calls
<1> DEFINE g == Current(p)
<1>4. /\ g \in History /\ g.recommended = history[p].recommended
      /\ g.offers \in {history[p].offers, <<>>}
      /\ g.confirming \/ g.choosing => g = history[p]
      /\ IsCoherent(g, shown[p], consent[p])
  BY <1>2, ResumedHistory DEF Current
<1> HIDE DEF g
<1>5. IsHeard(g, call[p], shown[p], consent[p])
  BY <1>2, <1>4 DEF IsHeard
<1>6. QED
  BY <1>1, <1>2, <1>3, <1>4, <1>5 DEF g

LEMMA ManageKeeps ==
  ASSUME DInv, NEW p \in Chats, Manage(p)
  PROVE  KeepsWord(p)
<1>1. /\ turn[p] = "booking" /\ Become(p, Empty, "over")
      /\ UNCHANGED <<serviceVars, state, call, shown, consent, seen>>
  BY DEF Manage, Books
<1>2. Empty.offers = <<>>
  BY DEF Empty
<1>3. QED
  BY <1>1, <1>2, EmptyHistory, Answers

LEMMA AbortKeeps ==
  ASSUME DInv, NEW p \in Chats, Abort(p)
  PROVE  KeepsWord(p)
<1>1. /\ TakesTurn(p, Empty, "classify", "asked", call[p], Nothing, {})
      /\ UNCHANGED <<serviceVars, seen>>
  BY SameAsItWas DEF Abort, Become, Enter, ForgetProposals, TakesTurn, DInv
<1>2. call[p] \in Calls /\ pc[p] = "idle" /\ turn[p] = "booking"
  BY InBooking DEF Abort
<1>3. AtTurn(Empty, "asked", call[p], Nothing, {})
  BY <1>2, EmptyHistory DEF AtTurn, Processing
<1>4. Empty.offers = <<>>
  BY DEF Empty
<1>5. /\ "asked" \in Turns \ {"reading", "writing"} /\ "classify" \in States
      /\ call[p] \in Calls \cup {NoCall} /\ Nothing \in Option \cup {Nothing}
      /\ {} \in SUBSET Stylists /\ turn[p] # "reading"
  BY <1>2 DEF Turns, Answering, States
<1>6. UNCHANGED <<serviceVars, seen>>
  BY <1>1
<1>7. QED
  BY <1>1, <1>2, <1>3, <1>4, <1>5, <1>6, EmptyHistory, QuietTurn

(* A booking that the customer has agreed to is handed to the service. *)
LEMMA SubmitKeeps ==
  ASSUME DInv, NEW p \in Chats, turn[p] \notin {"quiet", "reading", "writing", "dead"},
         NEW h \in History, NEW c \in Calls, NEW y \in Stylists,
         Become(p, h, "writing"), Pass(p, c), UNCHANGED <<state, shown, consent, seen>>,
         NEW r, r = [op |-> "create", owner |-> call[p].owner, stylist |-> y,
                     service |-> h.service, start |-> h.start,
                     end |-> EndOf(h.start, h.service)],
         Submit(p, r), h.service \in Services, h.start \in Nat,
         IsCoherent(h, shown[p], consent[p]), h.offers = history[p].offers,
         y \in consent[p],
         c.via = "offer" => Terms(r) = shown[p] /\ c.message.answer = "yes",
         c.via = "recommendation" => ~h.asking
  PROVE  KeepsWord(p)
<1>1. /\ ChatTypes /\ call[p] \in Calls /\ state[p] \in States
      /\ shown[p] \in Option \cup {Nothing} /\ consent[p] \in SUBSET Stylists
  BY AtRest
<1>2. r \in CreateRequest /\ r.stylist = y
  <2>1. call[p].owner \in Owners
    BY <1>1 DEF Calls
  <2>2. EndOf(h.start, h.service) \in Nat
    BY CatalogAssumption DEF EndOf
  <2>3. QED
    BY <2>1, <2>2 DEF CreateRequest
<1>3. TakesTurn(p, h, state[p], "writing", c, shown[p], consent[p])
  BY <1>1, SameAsItWas DEF Become, Pass, TakesTurn
<1>4. /\ ChatTypes' /\ ConcernsOnly(p)
      /\ history'[p] = h /\ turn'[p] = "writing" /\ call'[p] = c
      /\ shown'[p] = shown[p] /\ consent'[p] = consent[p] /\ seen'[p] = {}
  <2>1. Watches(p, {})
    BY AtRest, SameAsItWas DEF Watches, InSearch, Submit, DInv
  <2>2. "writing" \in Turns /\ c \in Calls \cup {NoCall}
    BY DEF Turns
  <2>3. QED
    BY <1>1, <1>3, <2>1, <2>2, TurnFrame
<1>5. AnyStep(p)
  BY <1>2 DEF AnyStep, Request
<1>6. pc'[p] = "waiting" /\ req'[p] = r
  BY ChatAssumption DEF Submit, Goto, DInv, IInv, TypeOK
<1>7. AtTurn(h, "writing", c, shown[p], consent[p])
  BY DEF AtTurn, Processing
<1>8. ChatOK(p)'
  BY <1>2, <1>4, <1>6, <1>7 DEF ChatOK, InTransaction, InSearch, Steps
<1>9. OffersFound(p)
  BY <1>4, SameOffers
<1>10. QED
  BY <1>4, <1>5, <1>8, <1>9 DEF KeepsWord

(* The offer that is booked is the one to be confirmed, which is the one   *)
(* that was shown.                                                         *)
LEMMA ConfirmKeeps ==
  ASSUME DInv, NEW p \in Chats, Confirm(p)
  PROVE  KeepsWord(p)
<1> DEFINE old == history[p]
           h == AcceptOffer(old)
           c == [call[p] EXCEPT !.via = "offer"]
           r == [op |-> "create", owner |-> call[p].owner, stylist |-> h.stylist,
                 service |-> h.service, start |-> h.start,
                 end |-> EndOf(h.start, h.service)]
           s == shown[p]
           k == consent[p]
<1>1. /\ Books(p) /\ Current(p).confirming /\ Heard(p).answer = "yes"
      /\ Become(p, h, "writing") /\ Pass(p, c) /\ Submit(p, r)
      /\ UNCHANGED <<state, shown, consent, seen>>
  BY DEF Confirm, IsBooking
<1>2. /\ turn[p] = "booking" /\ old \in History /\ call[p] \in Calls
      /\ old.confirming /\ IsCoherent(old, s, k)
      /\ IsHeard(old, call[p], s, k) /\ s \in Option \cup {Nothing}
  BY <1>1, InBooking
<1>3. old.chosen \in ToSet(old.offers) /\ old.chosen = s
  BY <1>2 DEF IsCoherent
<1>4. old.chosen \in Option
  BY <1>2, <1>3 DEF History, ToSet
<1>5. s # Nothing
  BY <1>3, <1>4, ChatAssumption
<1>6. s.stylist \in k /\ s.service \in Services /\ s.start \in Nat /\ s.stylist \in Stylists
  BY <1>1, <1>2, <1>3, <1>4, <1>5 DEF IsHeard, Heard, Option
<1>7. /\ h \in History /\ h.start = s.start /\ h.service = s.service
      /\ h.stylist = s.stylist /\ h.offers = old.offers /\ IsCoherent(h, s, k)
  BY <1>2, <1>3, <1>4, <1>6, AcceptedHistory
<1>8. c \in Calls /\ c.message.answer = "yes" /\ c.via = "offer"
  BY <1>1, <1>2 DEF Calls, Heard
<1> HIDE DEF h, c
<1>9. Terms(r) = s
  <2>1. s = [stylist |-> s.stylist, service |-> s.service, start |-> s.start]
    BY <1>3, <1>4 DEF Option
  <2>2. QED
    BY <1>7, <2>1 DEF Terms
<1>10. h.stylist \in Stylists /\ h.stylist \in k /\ h.service \in Services /\ h.start \in Nat
  BY <1>6, <1>7
<1> HIDE DEF r
<1>11. r = [op |-> "create", owner |-> call[p].owner, stylist |-> h.stylist,
            service |-> h.service, start |-> h.start,
            end |-> EndOf(h.start, h.service)]
  BY DEF r
<1> DEFINE y == h.stylist
<1> HIDE DEF y
<1>12. r = [op |-> "create", owner |-> call[p].owner, stylist |-> y,
            service |-> h.service, start |-> h.start,
            end |-> EndOf(h.start, h.service)]
       /\ y \in Stylists /\ y \in k
  BY <1>10, <1>11 DEF y
<1>13. QED
  BY <1>1, <1>2, <1>7, <1>8, <1>9, <1>10, <1>12, SubmitKeeps

LEMMA AskAgainKeeps ==
  ASSUME DInv, NEW p \in Chats, AskAgain(p)
  PROVE  KeepsWord(p)
<1> DEFINE h == IF Heard(p).answer = "no" THEN FlowComplete(history[p]) ELSE history[p]
<1>1. /\ Books(p) /\ Become(p, h, AfterOffers(h))
      /\ UNCHANGED <<serviceVars, state, call, shown, consent, seen>>
  BY DEF AskAgain, IsBooking
<1>2. turn[p] = "booking" /\ history[p] \in History
      /\ IsCoherent(history[p], shown[p], consent[p])
  BY <1>1, InBooking
<1>3. /\ h \in History /\ h.offers \in {history[p].offers, <<>>}
      /\ IsCoherent(h, shown[p], consent[p])
  BY <1>2, CompletedHistory
<1> HIDE DEF h
<1>4. AfterOffers(h) \in {"asked", "over"}
  BY DEF AfterOffers
<1>5. QED
  BY <1>1, <1>2, <1>3, <1>4, Answers

LEMMA ChooseKeeps ==
  ASSUME DInv, NEW p \in Chats, Choose(p)
  PROVE  KeepsWord(p)
<1> DEFINE h == history[p]
<1>1. Books(p) /\ UNCHANGED <<serviceVars, state, call, consent, seen>>
  BY DEF Choose, IsBooking
<1>2. /\ turn[p] = "booking" /\ h \in History /\ call[p] \in Calls
      /\ state[p] \in States /\ pc[p] = "idle" /\ ChatTypes
      /\ consent[p] \in SUBSET Stylists /\ IsCoherent(h, shown[p], consent[p])
  BY <1>1, InBooking
<1>3. CASE Become(p, FlowComplete(h), "over") /\ UNCHANGED shown
  BY <1>1, <1>2, <1>3, CompletedHistory, Answers
<1>4. CASE Become(p, h, AfterOffers(h)) /\ UNCHANGED shown
  <2>1. AfterOffers(h) \in {"asked", "over"}
    BY DEF AfterOffers
  <2>2. h.offers \in {h.offers, <<>>}
    OBVIOUS
  <2>3. QED
    BY <1>1, <1>2, <1>4, <2>1, <2>2, Answers
<1>5. ASSUME NEW i \in Matches(h.offers, Heard(p)),
             Become(p, Select(h, i), AfterOffers(h)), Propose(p, h.offers[i])
      PROVE  KeepsWord(p)
  <2> DEFINE g == Select(h, i)
             o == h.offers[i]
             t == AfterOffers(h)
             k == consent[p]
  <2>1. i \in DOMAIN h.offers
    BY MatchesAreOffers
  <2>2. g \in History /\ o \in Option /\ g.offers = h.offers /\ IsCoherent(g, o, k)
    BY <1>2, <2>1, SelectedHistory
  <2>3. TakesTurn(p, g, state[p], t, call[p], o, k)
    BY <1>1, <1>2, <1>5, SameAsItWas DEF Become, Propose, TakesTurn
  <2>4. t \in {"asked", "over"}
    BY DEF AfterOffers
  <2> HIDE DEF g, o, t
  <2>5. AtTurn(g, t, call[p], o, k)
    BY <1>2, <2>2, <2>4 DEF AtTurn, Processing
  <2>6. g.offers \in {h.offers, <<>>}
    BY <2>2
  <2>7. t \in Turns \ {"reading", "writing"}
    BY <2>4 DEF Turns, Answering
  <2>8. QED
    BY <1>1, <1>2, <2>2, <2>3, <2>5, <2>6, <2>7, QuietTurn
<1>6. QED
  BY <1>3, <1>4, <1>5, Zenon DEF Choose

(* A search, from wherever it starts: it is not made, or starts to read.   *)
LEMMA BeginSearchKeeps ==
  ASSUME DInv, NEW p \in Chats, turn[p] \notin {"quiet", "reading", "writing", "dead"},
         NEW h \in History, NEW q, Sought(q, consent[p]), BeginSearch(p, MergeSearch(h, q)),
         ~h.choosing, ~h.confirming, h.offers \in {history[p].offers, <<>>},
         IsCoherent(h, shown[p], consent[p])
  PROVE  KeepsWord(p)
<1> DEFINE g == MergeSearch(h, q)
           c == call[p]
           s == shown[p]
           k == consent[p]
<1>1. UNCHANGED <<serviceVars, state, shown, consent>> /\ BeginSearch(p, g)
  BY DEF BeginSearch
<1>2. /\ g \in History /\ g.searching /\ g.offers = h.offers
      /\ ~g.choosing /\ ~g.confirming /\ IsCoherent(g, s, k)
  BY MergedSearch
<1>3. /\ pc[p] = "idle" /\ c \in Calls /\ ChatTypes /\ state[p] \in States
      /\ s \in Option \cup {Nothing} /\ k \in SUBSET Stylists
      /\ db \in Database /\ now \in Nat
  BY AtRest DEF DInv, IInv, TypeOK
<1> HIDE DEF g
<1>4. CASE Become(p, NotSearched(g), "asked") /\ UNCHANGED <<call, seen>>
  <2> DEFINE e == NotSearched(g)
  <2>1. e \in History /\ e.offers = g.offers /\ IsCoherent(e, s, k)
    BY <1>2, NotSearchedHistory
  <2> HIDE DEF e
  <2>2. Become(p, e, "asked")
    BY <1>4 DEF e
  <2>3. QED
    BY <1>1, <1>2, <1>4, <2>1, <2>2, Answers
<1>5. ASSUME IsSearchable(g), Become(p, g, "reading"),
             seen' = [seen EXCEPT ![p] = {db}],
             NEW unread \in {Slots(SearchOf(g), now), {}},
             Pass(p, [c EXCEPT !.search =
                        [asOf |-> now, unread |-> unread, free |-> {},
                         failed |-> Slots(SearchOf(g), now) \ unread]])
      PROVE  KeepsWord(p)
  <2> DEFINE slots == Slots(SearchOf(g), now)
             found == [asOf |-> now, unread |-> unread, free |-> {},
                       failed |-> slots \ unread]
             d == [c EXCEPT !.search = found]
  <2>1. SearchIsTyped(SearchOf(g))
    BY <1>2, <1>5, ServiceAssumption, SearchAssumption
       DEF IsSearchable, Incomplete, Filled, SearchOf, SearchIsTyped, History, Times
  <2>2. slots \in SUBSET Option
    BY <2>1, SlotsAreSlots
  <2> HIDE DEF slots
  <2>3. unread \in {slots, {}}
    BY <1>5 DEF slots
  <2>4. found \in Progress
    BY <1>3, <2>2, <2>3 DEF Progress
  <2>5. /\ found.asOf = now /\ found.unread = unread /\ found.free = {}
        /\ found.failed = slots \ unread
    OBVIOUS
  <2> HIDE DEF found
  <2>6. d \in Calls /\ d.search = found
    BY <1>3, <2>4 DEF Calls
  <2>7. Pass(p, d)
    BY <1>5 DEF d, found, slots
  <2> HIDE DEF d
  <2>8. TakesTurn(p, g, state[p], "reading", d, s, k)
    BY <1>1, <1>3, <1>5, <2>7, SameAsItWas DEF Become, Pass, TakesTurn
  <2>9. /\ ChatTypes' /\ ConcernsOnly(p)
        /\ history'[p] = g /\ turn'[p] = "reading" /\ call'[p] = d
        /\ shown'[p] = s /\ consent'[p] = k /\ seen'[p] = {db}
    <3>1. Watches(p, {db}) /\ "reading" \in Turns
      BY <1>1, <1>3, <1>5 DEF Watches, serviceVars, Turns
    <3>2. QED
      BY <1>2, <1>3, <2>6, <2>8, <3>1
         DEF ChatTypes, TakesTurn, Watches, ConcernsOnly, KeepsWatch
  <2>10. UNCHANGED vars /\ pc'[p] = "idle" /\ db' = db
    BY <1>1, <1>3 DEF serviceVars, vars
  <2>11. AtTurn(g, "reading", d, s, k)
    BY <1>2, <2>6 DEF AtTurn, Processing
  <2>12. IsFoundIn(g, found, {db})
    BY <1>2, <2>1, <2>3, <2>4, <2>5 DEF IsFoundIn, slots
  <2>13. ChatOK(p)'
    BY <2>6, <2>9, <2>10, <2>11, <2>12 DEF ChatOK, InTransaction, InSearch
  <2>14. OffersFound(p)
    BY <1>2, <2>9, SameOffers
  <2>15. QED
    BY <2>9, <2>10, <2>13, <2>14 DEF KeepsWord
<1>6. QED
  BY <1>1, <1>4, <1>5, Zenon DEF BeginSearch

LEMMA SearchMessageKeeps ==
  ASSUME DInv, NEW p \in Chats, SearchMessage(p)
  PROVE  KeepsWord(p)
<1>1. Books(p) /\ ~Current(p).confirming /\ ~Current(p).choosing
  BY DEF SearchMessage, IsBooking
<1>2. PICK m \in Recognised(p) : BeginSearch(p, MergeSearch(Current(p), ParsedMessage(m)))
  BY DEF SearchMessage
<1>3. /\ turn[p] = "booking" /\ Heard(p) \in Message /\ Current(p) \in History
      /\ Current(p).offers \in {history[p].offers, <<>>}
      /\ IsCoherent(Current(p), shown[p], consent[p])
      /\ Heard(p).stylist \in consent[p] \cup {Unset}
  BY <1>1, InBooking DEF IsHeard, Heard
<1>4. m \in Message /\ m.stylist \in consent[p] \cup {Unset}
  BY <1>2, <1>3 DEF Recognised, Message
<1>5. Sought(ParsedMessage(m), consent[p])
  BY <1>4, SoughtType
<1>6. QED
  BY <1>1, <1>2, <1>3, <1>5, BeginSearchKeeps

LEMMA SearchHistoryKeeps ==
  ASSUME DInv, NEW p \in Chats, SearchHistory(p)
  PROVE  KeepsWord(p)
<1> DEFINE h == history[p]
<1>1. turn[p] = "searching" /\ BeginSearch(p, MergeSearch(h, ParsedHistory(h)))
  BY DEF SearchHistory
<1>2. /\ h \in History /\ IsCoherent(h, shown[p], consent[p])
      /\ ~h.choosing /\ ~h.confirming
  BY <1>1, AtRest DEF AtTurn, IsBusy, Processing
<1>3. Sought(ParsedHistory(h), consent[p])
  BY <1>2, SoughtType DEF IsCoherent
<1>4. QED
  BY <1>1, <1>2, <1>3, BeginSearchKeeps

AfterReading(s, d, o) ==
  {[s EXCEPT !.unread = @ \ {o}, !.free = IF IsSlotFree(d, o) THEN @ \cup {o} ELSE @],
   [s EXCEPT !.unread = @ \ {o}, !.failed = @ \cup {o}]}

(* One slot more is done: found free or taken in tables that were seen, or *)
(* counted as failed.                                                      *)
LEMMA OneMoreSlot ==
  ASSUME NEW h, NEW s, NEW w, NEW d \in w, IsFoundIn(h, s, w), NEW o \in s.unread,
         NEW e \in AfterReading(s, d, o)
  PROVE  IsFoundIn(h, e, w)
<1> DEFINE slots == Slots(SearchOf(h), s.asOf)
           free == IF IsSlotFree(d, o) THEN s.free \cup {o} ELSE s.free
<1>1. s \in Progress /\ s.unread \cup s.free \subseteq slots /\ o \in Option
  BY DEF IsFoundIn, Progress
<1>2. /\ e.asOf = s.asOf /\ e.unread = s.unread \ {o}
      /\ \/ e.free = free /\ e.failed = s.failed
         \/ e.free = s.free /\ e.failed = s.failed \cup {o}
  BY <1>1 DEF Progress, AfterReading
<1>3. e \in Progress
  BY <1>1 DEF Progress, AfterReading
<1> HIDE DEF slots
<1>4. \A x \in e.free : \E i \in w : IsSlotFree(i, x)
  BY <1>2 DEF IsFoundIn
<1>5. \A x \in slots \ (e.unread \cup e.free) :
        x \in e.failed \/ \E i \in w : ~IsSlotFree(i, x)
  BY <1>2 DEF IsFoundIn, slots
<1>6. e.unread \cup e.free \subseteq slots
  BY <1>1, <1>2
<1>7. QED
  BY <1>2, <1>3, <1>4, <1>5, <1>6 DEF IsFoundIn, slots

LEMMA ReadSlotKeeps ==
  ASSUME DInv, NEW p \in Chats, ReadSlot(p)
  PROVE  KeepsWord(p)
<1> DEFINE h == history[p]
           c == call[p]
           s == c.search
<1>1. /\ turn[p] = "reading"
      /\ UNCHANGED <<serviceVars, history, state, turn, shown, consent, seen>>
  BY DEF ReadSlot
<1>2. /\ c \in Calls /\ pc[p] = "idle" /\ ChatTypes
      /\ AtTurn(h, "reading", c, shown[p], consent[p])
      /\ db \in seen[p] /\ IsFoundIn(h, s, seen[p])
  BY <1>1, AtRest DEF InSearch
<1>3. PICK o \in s.unread :
        \/ Pass(p, [c EXCEPT !.search =
                      [s EXCEPT !.unread = @ \ {o},
                                !.free = IF IsSlotFree(db, o) THEN @ \cup {o} ELSE @]])
        \/ Pass(p, [c EXCEPT !.search =
                      [s EXCEPT !.unread = @ \ {o}, !.failed = @ \cup {o}]])
  BY Zenon DEF ReadSlot
<1>4. PICK e \in AfterReading(s, db, o) : Pass(p, [c EXCEPT !.search = e])
  BY <1>3 DEF AfterReading
<1> DEFINE d == [c EXCEPT !.search = e]
<1>5. IsFoundIn(h, e, seen[p])
  BY <1>2, <1>4, OneMoreSlot
<1>6. d \in Calls /\ d.search = e
  BY <1>2, <1>5 DEF Calls, IsFoundIn
<1>7. call' = [call EXCEPT ![p] = d]
  BY <1>4 DEF Pass
<1> HIDE DEF d
<1>8. /\ ChatTypes' /\ ConcernsOnly(p) /\ call'[p] = d
  BY <1>1, <1>2, <1>6, <1>7 DEF ChatTypes, ConcernsOnly, KeepsWatch, serviceVars
<1>9. UNCHANGED vars /\ pc'[p] = "idle" /\ db' = db
  BY <1>1, <1>2 DEF serviceVars, vars
<1>10. AtTurn(h, "reading", d, shown[p], consent[p])
  BY <1>2, <1>6 DEF AtTurn, Processing
<1>11. ChatOK(p)'
  BY <1>1, <1>2, <1>5, <1>6, <1>8, <1>9, <1>10 DEF ChatOK, InTransaction, InSearch
<1>12. OffersFound(p)
  BY <1>1, SameOffers
<1>13. QED
  BY <1>8, <1>9, <1>11, <1>12 DEF KeepsWord

(* What is offered is the best of what was found free, once every slot has *)
(* been read.                                                              *)
LEMMA EndSearchKeeps ==
  ASSUME DInv, NEW p \in Chats, EndSearch(p)
  PROVE  KeepsWord(p)
<1> DEFINE h == history[p]
           c == call[p]
           s == c.search
           w == seen[p]
           slots == Slots(SearchOf(h), s.asOf)
           offers == OffersOf(s.free)
           g == IF offers = <<>> THEN h
                ELSE [h EXCEPT !.offers = offers, !.choosing = TRUE]
           d == [c EXCEPT !.search = Unset]
<1>1. /\ turn[p] = "reading" /\ s.unread = {} /\ Become(p, g, "asked") /\ Pass(p, d)
      /\ seen' = [seen EXCEPT ![p] = {}] /\ UNCHANGED <<serviceVars, state, shown, consent>>
  BY DEF EndSearch
<1>2. /\ h \in History /\ c \in Calls /\ pc[p] = "idle" /\ ChatTypes
      /\ IsCoherent(h, shown[p], consent[p]) /\ state[p] \in States
      /\ shown[p] \in Option \cup {Nothing} /\ consent[p] \in SUBSET Stylists
      /\ db \in w /\ IsFoundIn(h, s, w)
  BY <1>1, AtRest DEF InSearch
<1>3. SearchIsTyped(SearchOf(h)) /\ s.free \in SUBSET slots
  BY <1>2 DEF IsFoundIn
<1>4. /\ offers \in Seq(Option) /\ ToSet(offers) = BestOffers(s.free)
      /\ BestOffers(s.free) \subseteq s.free
  BY <1>3, OffersAreOfTheFree
<1> HIDE DEF offers
<1>5. /\ g \in History /\ IsCoherent(g, shown[p], consent[p])
      /\ g.offers \in {h.offers, offers}
  <2>1. h.searching /\ ~h.confirming
    BY <1>2 DEF IsFoundIn
  <2>2. QED
    BY <1>2, <1>4, <2>1, OfferedHistory
<1>6. d \in Calls
  BY <1>2 DEF Calls
<1> HIDE DEF g, d
<1>7. TakesTurn(p, g, state[p], "asked", d, shown[p], consent[p])
  BY <1>1, <1>2, SameAsItWas DEF Become, Pass, TakesTurn
<1>8. /\ ChatTypes' /\ ConcernsOnly(p)
      /\ history'[p] = g /\ turn'[p] = "asked" /\ call'[p] = d
      /\ shown'[p] = shown[p] /\ consent'[p] = consent[p] /\ seen'[p] = {}
  <2>1. Watches(p, {}) /\ "asked" \in Turns
    BY <1>1 DEF Watches, serviceVars, Turns, Answering
  <2>2. QED
    BY <1>1, <1>2, <1>5, <1>6, <1>7, <2>1, TurnFrame
<1>9. UNCHANGED vars /\ pc'[p] = "idle"
  BY <1>1, <1>2 DEF serviceVars, vars
<1>10. AtTurn(g, "asked", d, shown[p], consent[p])
  BY <1>5, <1>6 DEF AtTurn, Processing
<1>11. ChatOK(p)'
  BY <1>8, <1>9, <1>10 DEF ChatOK, InTransaction, InSearch
<1>12. OffersFound(p)
  <2>1. CASE g.offers = h.offers
    BY <1>8, <2>1, SameOffers
  <2>2. CASE g.offers = offers
    <3>1. \A o \in s.free : o \in slots /\ \E i \in w : IsSlotFree(i, o)
      BY <1>2, <1>3 DEF IsFoundIn
    <3>2. \A o \in slots \ s.free : o \in s.failed \/ \E i \in w : ~IsSlotFree(i, o)
      BY <1>1, <1>2 DEF IsFoundIn
    <3>3. ASSUME NEW o \in ToSet(offers), IsFuture(o.start)
          PROVE  \E i \in w : CreateVerdict(i, OfferRequest(p, o)) = "proceed"
      <4>1. o \in s.free /\ o \in slots
        BY <1>4, <3>1
      <4>2. PICK i \in w : IsSlotFree(i, o)
        BY <3>1, <4>1
      <4>3. QED
        BY <1>3, <3>3, <4>1, <4>2, FreeSlotsAreAccepted
    <3>4. QED
      BY <1>4, <1>8, <2>2, <3>1, <3>2, <3>3 DEF OffersFound
  <2>3. QED
    BY <1>5, <2>1, <2>2
<1>13. QED
  BY <1>8, <1>9, <1>11, <1>12 DEF KeepsWord

LEMMA UnderstandKeeps ==
  ASSUME DInv, NEW p \in Chats, Understand(p)
  PROVE  KeepsWord(p)
<1> DEFINE old == Current(p)
           c == call[p]
           s == shown[p]
<1>1. /\ Books(p) /\ ~old.confirming /\ ~old.choosing
      /\ UNCHANGED <<serviceVars, shown, seen>>
  BY DEF Understand, NeedsReading, IsBooking
<1>2. /\ turn[p] = "booking" /\ pc[p] = "idle" /\ ChatTypes
      /\ c \in Calls /\ Heard(p) \in Message /\ state[p] \in States
      /\ s \in Option \cup {Nothing} /\ consent[p] \in SUBSET Stylists
      /\ old \in History /\ old.recommended = history[p].recommended
      /\ old.offers \in {history[p].offers, <<>>}
      /\ IsCoherent(old, s, consent[p])
  BY <1>1, InBooking DEF Heard
<1>3. PICK data \in DataOf(old, Heard(p)) :
        LET h == UpdateHistory(old, Heard(p), data)
            finished == IsFinished(old, data, h)
        IN /\ consent' = [consent EXCEPT ![p] = consent[p] \cup Agreed(p, data)]
           /\ \/ /\ ShouldSearchAvailability(h)
                 /\ Become(p, h, "searching")
                 /\ UNCHANGED <<state, call>>
              \/ /\ ~ShouldSearchAvailability(h) /\ data.unrelated /\ ~h.asking
                 /\ HandleUnrelated(p, h)
              \/ /\ ~ShouldSearchAvailability(h) /\ ~(data.unrelated /\ ~h.asking)
                 /\ Pass(p, [c EXCEPT !.finished = finished])
                 /\ IF finished \/ HasRequiredFields(h)
                    THEN Become(p, h, "deciding") ELSE HandleIncompleteInfo(p, h)
                 /\ UNCHANGED state
  BY Zenon DEF Understand
<1> DEFINE h == UpdateHistory(old, Heard(p), data)
           finished == IsFinished(old, data, h)
           k == consent[p] \cup Agreed(p, data)
<1>4. data \in Reading
  BY <1>2, ReadingsType
<1>5. /\ k \in SUBSET Stylists /\ consent[p] \subseteq k
      /\ data.stylist \in k \cup {Unset, Unknown}
      /\ data.answer = "yes" => old.recommended \in k \cup {Unset}
  BY <1>2, <1>4 DEF Agreed, Reading, History
<1>6. IsCoherent(old, s, k)
  BY <1>2, <1>5, ConsentGrows
<1>7. consent' = [consent EXCEPT ![p] = k]
  BY <1>3
<1> HIDE DEF k
<1>8. /\ h \in History /\ h.recommended \in {old.recommended, Unset}
      /\ h.offers = old.offers /\ h.choosing = old.choosing
      /\ h.confirming = old.confirming /\ IsCoherent(h, s, k)
      /\ finished \/ HasRequiredFields(h) => h.service # Unset
  BY <1>2, <1>4, <1>5, <1>6, UpdatedHistory
<1>9. finished \in BOOLEAN
  BY DEF IsFinished, HasRequiredFields
<1> HIDE DEF h, finished
<1>10. /\ h.recommended \in {history[p].recommended, Unset}
       /\ h.offers \in {history[p].offers, <<>>}
  BY <1>2, <1>8
<1>11. CASE ShouldSearchAvailability(h) /\ Become(p, h, "searching") /\ UNCHANGED <<state, call>>
  <2>1. h.service # Unset
    BY <1>11 DEF ShouldSearchAvailability
  <2>2. AtTurn(h, "searching", c, s, k)
    BY <1>1, <1>2, <1>8, <2>1 DEF AtTurn, IsBusy, Processing
  <2>3. TakesTurn(p, h, state[p], "searching", c, s, k)
    BY <1>1, <1>2, <1>7, <1>11, SameAsItWas DEF Become, TakesTurn
  <2>4. QED
    BY <1>1, <1>2, <1>5, <1>8, <1>10, <2>2, <2>3, QuietTurn DEF Turns
<1>12. CASE HandleUnrelated(p, h)
  BY <1>1, <1>2, <1>5, <1>7, <1>8, <1>10, <1>12, UnrelatedKeeps
<1>13. CASE /\ ~ShouldSearchAvailability(h)
            /\ Pass(p, [c EXCEPT !.finished = finished])
            /\ IF finished \/ HasRequiredFields(h)
               THEN Become(p, h, "deciding") ELSE HandleIncompleteInfo(p, h)
            /\ UNCHANGED state
  <2> DEFINE g == [c EXCEPT !.finished = finished]
  <2>1. g \in Calls
    BY <1>2, <1>9 DEF Calls
  <2> HIDE DEF g
  <2>2. PICK t \in {"deciding", "asked"} :
          Become(p, h, t) /\ (t = "deciding" => h.service # Unset)
    BY <1>8, <1>13 DEF HandleIncompleteInfo
  <2>3. TakesTurn(p, h, state[p], t, g, s, k)
    BY <1>1, <1>2, <1>7, <1>13, <2>2, SameAsItWas DEF Become, Pass, TakesTurn, g
  <2>4. AtTurn(h, t, g, s, k)
    BY <1>1, <1>8, <1>13, <2>1, <2>2 DEF AtTurn, IsBusy, Processing
  <2>5. t \in Turns \ {"reading", "writing"}
    BY DEF Turns, Answering
  <2>6. QED
    BY <1>1, <1>2, <1>5, <1>8, <1>10, <2>1, <2>3, <2>4, <2>5, QuietTurn
<1>14. QED
  BY <1>3, <1>11, <1>12, <1>13 DEF h, finished

(* A booking by a request, or with the stylist who was recommended. *)
LEMMA BookWithKeeps ==
  ASSUME DInv, NEW p \in Chats, turn[p] \in Processing, NEW y \in Stylists,
         NEW via \in {"request", "recommendation"}, BookWith(p, y, via),
         UNCHANGED <<state, shown, consent, seen>>, history[p].start # Unset,
         history[p].service \in Services,
         y \in consent[p], via = "recommendation" => ~history[p].asking
  PROVE  KeepsWord(p)
<1> DEFINE h == history[p]
           c == [call[p] EXCEPT !.via = via]
           r == [op |-> "create", owner |-> call[p].owner, stylist |-> y,
                 service |-> h.service, start |-> h.start,
                 end |-> EndOf(h.start, h.service)]
<1>1. /\ Become(p, h, "writing") /\ Pass(p, c) /\ Submit(p, r)
      /\ UNCHANGED <<state, shown, consent, seen>>
  BY DEF BookWith
<1>2. turn[p] \notin {"quiet", "reading", "writing", "dead"}
  BY DEF Processing
<1>3. h \in History /\ call[p] \in Calls /\ IsCoherent(h, shown[p], consent[p])
  BY <1>2, AtRest DEF AtTurn
<1>4. h.service \in Services /\ h.start \in Nat
  BY <1>3 DEF History, Times
<1>5. c \in Calls /\ c.via = via
  BY <1>3 DEF Calls
<1> HIDE DEF c, h
<1>6. h.offers = history[p].offers
  BY DEF h
<1>7. QED
  BY <1>1, <1>2, <1>3, <1>4, <1>5, <1>6, SubmitKeeps DEF h

LEMMA DecideKeeps ==
  ASSUME DInv, NEW p \in Chats, Decide(p)
  PROVE  KeepsWord(p)
<1> DEFINE h == history[p]
           c == call[p]
           s == shown[p]
           k == consent[p]
<1>1. turn[p] = "deciding" /\ UNCHANGED <<state, shown, consent, seen>>
  BY DEF Decide
<1>2. /\ h \in History /\ IsCoherent(h, s, k) /\ c \in Calls
      /\ h.service # Unset /\ ~h.choosing /\ ~h.confirming
      /\ ~ShouldSearchAvailability(h)
  BY <1>1, AtRest DEF AtTurn, IsBusy, Processing
<1>3. h.offers \in {h.offers, <<>>}
  OBVIOUS
<1>4. CASE h.declined /\ Become(p, h, "declined") /\ UNCHANGED <<serviceVars, call>>
  <2>1. AtTurn(h, "declined", c, s, k)
    BY <1>2, <1>4 DEF AtTurn, Processing
  <2>2. QED
    BY <1>1, <1>2, <1>3, <1>4, <2>1, GoesOn DEF Turns, Answering
<1>5. CASE Become(p, ClearRequestedTime(h), "asked") /\ UNCHANGED <<serviceVars, call>>
  <2> DEFINE g == ClearRequestedTime(h)
  <2>1. g \in History /\ g.offers = h.offers /\ IsCoherent(g, s, k)
    BY <1>2, RequestCleared
  <2> HIDE DEF g
  <2>2. g.offers \in {h.offers, <<>>}
    BY <2>1
  <2>3. QED
    BY <1>1, <1>5, <2>1, <2>2, Answers DEF g
<1>6. CASE WindowIsValid(h) /\ h.confirmed # Unset /\ BookWith(p, h.confirmed, "recommendation")
  <2>1. h.start # Unset /\ h.service \in Services
    BY <1>6 DEF WindowIsValid
  <2>2. h.confirmed \in Stylists /\ h.confirmed \in k /\ ~h.asking
    BY <1>2, <1>6 DEF History, IsCoherent
  <2>3. QED
    BY <1>1, <1>6, <2>1, <2>2, BookWithKeeps DEF Processing
<1>7. CASE /\ ~h.declined /\ WindowIsValid(h) /\ h.confirmed = Unset
           /\ Become(p, h, IF h.asking THEN "asked" ELSE "finding")
           /\ UNCHANGED <<serviceVars, call>>
  <2>1. h.start # Unset /\ h.service \in Services
    BY <1>7 DEF WindowIsValid
  <2>2. h.stylist # Unset
    BY <1>2, <2>1 DEF IsCoherent, ShouldSearchAvailability
  <2>3. PICK t \in {"asked", "finding"} : Become(p, h, t)
    BY <1>7
  <2>4. AtTurn(h, t, c, s, k)
    BY <1>2, <1>7, <2>1, <2>2 DEF AtTurn, IsBusy, Processing
  <2>5. t \in Turns \ {"reading", "writing"}
    BY DEF Turns, Answering
  <2>6. QED
    BY <1>1, <1>2, <1>3, <1>7, <2>3, <2>4, <2>5, GoesOn
<1>8. QED
  BY <1>4, <1>5, <1>6, <1>7, Zenon DEF Decide

(* Only the stylist who was asked for is found. *)
LEMMA FindStylistKeeps ==
  ASSUME DInv, NEW p \in Chats, FindStylist(p)
  PROVE  KeepsWord(p)
<1> DEFINE h == history[p]
           found == IF h.stylist = Unset
                    THEN StylistsFree(db, h.service, h.start)
                    ELSE FindSpecificStylist(db, h.stylist, h.service, h.start)
<1>1. /\ turn[p] = "finding" /\ UNCHANGED <<state, shown, consent, seen>>
      /\ \/ \E y \in found : BookWith(p, y, "request")
         \/ /\ found = {}
            /\ Become(p, h, "suggesting")
            /\ UNCHANGED <<serviceVars, call>>
  BY Zenon DEF FindStylist
<1>2. /\ h \in History /\ IsCoherent(h, shown[p], consent[p]) /\ call[p] \in Calls
      /\ IsBusy(h, "finding", shown[p])
  BY <1>1, AtRest DEF AtTurn, Processing
<1>3. /\ h.start # Unset /\ h.stylist # Unset /\ h.service \in Services
      /\ h.stylist \in consent[p] \cup {Unknown}
  BY <1>2 DEF IsBusy, IsCoherent
<1>4. \A y \in found : y \in Stylists /\ y \in consent[p]
  <2>1. \A y \in found : y = h.stylist /\ y \in Stylists
    BY <1>3 DEF FindSpecificStylist, StylistsFree
  <2>2. Unknown \notin Stylists
    BY ServiceAssumption
  <2>3. QED
    BY <1>3, <2>1, <2>2
<1> HIDE DEF found
<1>5. ASSUME NEW y \in found, BookWith(p, y, "request") PROVE KeepsWord(p)
  BY <1>1, <1>3, <1>4, <1>5, BookWithKeeps DEF Processing
<1>6. CASE Become(p, h, "suggesting") /\ UNCHANGED <<serviceVars, call>>
  <2>1. AtTurn(h, "suggesting", call[p], shown[p], consent[p])
    BY <1>2 DEF AtTurn, IsBusy, Processing
  <2>2. h.offers \in {h.offers, <<>>}
    OBVIOUS
  <2>3. QED
    BY <1>1, <1>2, <1>6, <2>1, <2>2, GoesOn DEF Turns
<1>7. QED
  BY <1>1, <1>5, <1>6

LEMMA RecommendKeeps ==
  ASSUME DInv, NEW p \in Chats, Recommend(p)
  PROVE  KeepsWord(p)
<1> DEFINE h == history[p]
           c == call[p]
           k == consent[p]
           others == FindSimilarAvailableStylist(db, h.stylist, h.service, h.start)
<1>1. /\ turn[p] = "suggesting" /\ UNCHANGED <<serviceVars, state, call, consent, seen>>
      /\ \/ \E y \in others :
              /\ Become(p, h, "recommending")
              /\ Propose(p, [stylist |-> y, service |-> h.service, start |-> h.start])
         \/ Become(p, h, "unavailable") /\ UNCHANGED shown
  BY Zenon DEF Recommend
<1>2. /\ h \in History /\ IsCoherent(h, shown[p], k) /\ c \in Calls
      /\ IsBusy(h, "suggesting", shown[p]) /\ state[p] \in States /\ ChatTypes
      /\ k \in SUBSET Stylists /\ pc[p] = "idle"
  BY <1>1, AtRest DEF AtTurn, Processing
<1>3. /\ h.service \in Services /\ h.start \in Nat /\ ~h.choosing /\ ~h.confirming
      /\ h.stylist # Unset /\ h.confirmed = Unset /\ ~h.declined
      /\ h.service # Unset /\ h.start # Unset
  BY <1>2 DEF IsBusy, History, Times
<1>4. others \subseteq Stylists
  BY DEF FindSimilarAvailableStylist, StylistsFree
<1>5. h.offers \in {h.offers, <<>>}
  OBVIOUS
<1>6. ASSUME NEW y \in others, Become(p, h, "recommending"),
             Propose(p, [stylist |-> y, service |-> h.service, start |-> h.start])
      PROVE  KeepsWord(p)
  <2> DEFINE o == [stylist |-> y, service |-> h.service, start |-> h.start]
  <2>1. o \in Option
    BY <1>3, <1>4 DEF Option
  <2>2. TakesTurn(p, h, state[p], "recommending", c, o, k)
    BY <1>1, <1>2, <1>6, SameAsItWas DEF Become, Propose, TakesTurn
  <2> HIDE DEF o
  <2>3. o # Nothing
    BY <2>1, ChatAssumption
  <2>4. IsCoherent(h, o, k)
    BY <1>2, <1>3 DEF IsCoherent
  <2>5. AtTurn(h, "recommending", c, o, k)
    BY <1>2, <1>3, <2>3, <2>4 DEF AtTurn, IsBusy
  <2>6. "recommending" \in Turns \ {"reading", "writing"}
    BY DEF Turns, Answering
  <2>7. QED
    BY <1>1, <1>2, <1>5, <2>1, <2>2, <2>5, <2>6, QuietTurn
<1>7. CASE Become(p, h, "unavailable") /\ UNCHANGED shown
  BY <1>1, <1>2, <1>5, <1>7, Answers
<1>8. QED
  BY <1>1, <1>6, <1>7

-----------------------------------------------------------------------------
(* The booking, from the chat's side *)

LEMMA WriteKeeps ==
  ASSUME DInv, NEW p \in Chats, Write(p)
  PROVE  KeepsWord(p)
<1>1. /\ turn[p] = "writing" /\ Serve(p) /\ pc[p] # "answering"
      /\ UNCHANGED <<history, state, turn, call, shown, consent>> /\ WatchTables
  BY DEF Write
<1>2. p \in Clients /\ AnyStep(p)
  BY <1>1, ChatAssumption DEF AnyStep
<1>3. db' \in Database
  BY <1>2, AnyKeeps DEF AnyNext, DInv, IInv, TypeOK
<1>4. ChatTypes' /\ ConcernsOnly(p)
  BY <1>1, <1>3 DEF DInv, ChatTypes, ConcernsOnly, KeepsWatch, WatchTables
<1>5. /\ AtTurn(history[p], turn[p], call[p], shown[p], consent[p])
      /\ InTransaction(p) /\ seen[p] = {}
  BY <1>1 DEF DInv, ChatOK, InSearch
<1>6. pc'[p] \in Steps \ {"idle", "cut_off"} /\ req'[p] = req[p]
  BY <1>1, <1>2, <1>5, ServeGoesOn DEF InTransaction, DInv
<1>7. seen'[p] = {}
  BY <1>1, <1>5 DEF WatchTables
<1>8. ChatOK(p)'
  BY <1>1, <1>5, <1>6, <1>7 DEF ChatOK, InTransaction, InSearch
<1>9. OffersFound(p)
  BY <1>1, SameOffers
<1>10. QED
  BY <1>2, <1>4, <1>8, <1>9 DEF KeepsWord

LEMMA ConcludeKeeps ==
  ASSUME DInv, NEW p \in Chats, Conclude(p)
  PROVE  KeepsWord(p)
<1> DEFINE h == history[p]
           c == call[p]
           s == shown[p]
           k == consent[p]
<1>1. turn[p] = "writing" /\ Deliver(p) /\ UNCHANGED <<state, call, shown, consent, seen>>
  BY DEF Conclude
<1>2. /\ ChatTypes /\ h \in History /\ state[p] \in States
      /\ s \in Option \cup {Nothing} /\ k \in SUBSET Stylists
      /\ AtTurn(h, "writing", c, s, k)
  BY <1>1, SameAsItWas DEF DInv, ChatOK
<1>3. c \in Calls /\ IsCoherent(h, s, k)
  BY <1>2 DEF AtTurn
<1>4. p \in Clients /\ AnyStep(p)
  BY <1>1, ChatAssumption DEF AnyStep, Serve
<1>5. PICK g \in {h, FlowComplete(h)}, t \in {"reminding", "over", "refused"} :
        Become(p, g, t) /\ (t # "over" => g = h)
  BY DEF Conclude
<1>6. g \in History /\ IsCoherent(g, s, k) /\ g.offers \in {h.offers, <<>>}
  BY <1>2, <1>3, CompletedHistory
<1>7. TakesTurn(p, g, state[p], t, c, s, k)
  BY <1>1, <1>2, <1>5, SameAsItWas DEF Become, TakesTurn
<1>8. t \in Turns
  BY DEF Turns, Answering
<1>9. /\ ChatTypes' /\ ConcernsOnly(p)
      /\ history'[p] = g /\ turn'[p] = t /\ call'[p] = c
      /\ shown'[p] = s /\ consent'[p] = k /\ seen'[p] = {}
  <2>1. Watches(p, {})
    BY <1>1, SameAsItWas DEF Watches, ChatOK, InSearch, Deliver, DInv
  <2>2. c \in Calls \cup {NoCall}
    BY <1>3
  <2>3. QED
    BY <1>2, <1>6, <1>7, <1>8, <2>1, <2>2, TurnFrame
<1>10. AtTurn(g, t, c, s, k)
  BY <1>2, <1>3, <1>5, <1>6 DEF AtTurn, Processing
<1>11. pc'[p] = "idle"
  BY <1>1, <1>4 DEF Deliver, Goto, DInv, IInv, TypeOK
<1>12. ChatOK(p)'
  BY <1>5, <1>9, <1>10, <1>11 DEF ChatOK, InTransaction, InSearch
<1>13. OffersFound(p)
  BY <1>6, <1>9, SameOffers
<1>14. QED
  BY <1>4, <1>9, <1>12, <1>13 DEF KeepsWord

LEMMA RemindKeeps ==
  ASSUME DInv, NEW p \in Chats, Remind(p)
  PROVE  KeepsWord(p)
<1> DEFINE h == history[p]
<1>1. turn[p] = "reminding" /\ UNCHANGED <<serviceVars, state, call, shown, consent, seen>>
  BY DEF Remind
<1>2. /\ h \in History /\ call[p] \in Calls /\ IsCoherent(h, shown[p], consent[p])
      /\ AtTurn(h, "reminding", call[p], shown[p], consent[p])
  BY <1>1, AtRest
<1>3. CASE Become(p, FlowComplete(h), "over")
  BY <1>1, <1>2, <1>3, CompletedHistory, Answers
<1>4. CASE Become(p, h, "booked")
  <2>1. AtTurn(h, "booked", call[p], shown[p], consent[p])
    BY <1>2 DEF AtTurn, Processing
  <2>2. h.offers \in {h.offers, <<>>}
    OBVIOUS
  <2>3. QED
    BY <1>1, <1>2, <1>4, <2>1, <2>2, GoesOn DEF Turns, Answering
<1>5. QED
  BY <1>3, <1>4 DEF Remind

-----------------------------------------------------------------------------
(* How a turn ends *)

(* A message is over and done with. *)
LEMMA TurnEnds ==
  ASSUME DInv, NEW p \in Chats, turn[p] \notin {"reading", "writing", "dead"},
         NEW h \in History, NEW x \in States, NEW s \in Option \cup {Nothing},
         NEW k \in SUBSET Stylists, TakesTurn(p, h, x, "quiet", NoCall, s, k),
         UNCHANGED <<serviceVars, seen>>, IsCoherent(h, s, k), h.offers \in {history[p].offers, <<>>}
  PROVE  KeepsWord(p)
<1>1. pc[p] = "idle"
  BY AtRest
<1>2. AtTurn(h, "quiet", NoCall, s, k)
  BY DEF AtTurn, Processing
<1>3. h.offers \in {history[p].offers, <<>>}
  OBVIOUS
<1>4. QED
  BY <1>1, <1>2, <1>3, QuietTurn DEF Turns

LEMMA ReplyKeeps ==
  ASSUME DInv, NEW p \in Chats, Reply(p)
  PROVE  KeepsWord(p)
<1>1. /\ turn[p] \in Answering /\ UNCHANGED <<serviceVars, seen>>
      /\ EndTurn(p, IF FlowIsOver(p) THEN Empty ELSE AfterAnswer(p), "quiet")
      /\ IF FlowIsOver(p) \/ turn[p] = "consulted" THEN Enter(p, "classify") ELSE UNCHANGED state
      /\ IF FlowIsOver(p) THEN ForgetProposals(p) ELSE UNCHANGED <<shown, consent>>
  BY DEF Reply
<1>2. turn[p] \notin {"reading", "writing", "dead"}
  BY <1>1 DEF Answering
<1>3. /\ ChatTypes /\ state[p] \in States /\ shown[p] \in Option \cup {Nothing}
      /\ consent[p] \in SUBSET Stylists
  BY <1>2, AtRest
<1>4. PICK x \in States : state' = [state EXCEPT ![p] = x]
  BY <1>1, <1>3, SameAsItWas DEF Enter, States
<1>5. CASE FlowIsOver(p)
  <2>1. TakesTurn(p, Empty, x, "quiet", NoCall, Nothing, {})
    BY <1>1, <1>4, <1>5 DEF EndTurn, Become, ForgetProposals, TakesTurn
  <2>2. /\ Empty.offers = <<>> /\ Nothing \in Option \cup {Nothing}
        /\ {} \in SUBSET Stylists /\ UNCHANGED <<serviceVars, seen>>
    BY <1>1 DEF Empty
  <2>3. QED
    BY <1>2, <2>1, <2>2, EmptyHistory, TurnEnds
<1>6. CASE ~FlowIsOver(p)
  <2> DEFINE g == AfterAnswer(p)
  <2>1. ChatOK(p)
    BY DEF DInv
  <2>2. /\ g \in History /\ g.offers = history[p].offers
        /\ IsCoherent(g, shown[p], consent[p])
    BY <1>3, <2>1, HistoryAfterAnswer
  <2>3. TakesTurn(p, g, x, "quiet", NoCall, shown[p], consent[p])
    BY <1>1, <1>3, <1>4, <1>6, SameAsItWas DEF EndTurn, Become, TakesTurn
  <2> HIDE DEF g
  <2>4. QED
    BY <1>1, <1>2, <1>3, <2>2, <2>3, TurnEnds
<1>7. QED
  BY <1>5, <1>6

LEMMA DisconnectKeeps ==
  ASSUME DInv, NEW p \in Chats, Disconnect(p)
  PROVE  KeepsWord(p)
<1>1. /\ turn[p] \notin {"reading", "writing", "dead"} /\ EndTurn(p, history[p], "quiet")
      /\ UNCHANGED <<serviceVars, state, shown, consent, seen>>
  BY DEF Disconnect, Answering
<1>2. /\ ChatTypes /\ history[p] \in History /\ state[p] \in States
      /\ shown[p] \in Option \cup {Nothing} /\ consent[p] \in SUBSET Stylists
      /\ IsCoherent(history[p], shown[p], consent[p])
  BY <1>1, AtRest
<1>3. TakesTurn(p, history[p], state[p], "quiet", NoCall, shown[p], consent[p])
  BY <1>1, <1>2, SameAsItWas DEF EndTurn, Become, TakesTurn
<1>4. QED
  BY <1>1, <1>2, <1>3, TurnEnds

LEMMA ModelErrorKeeps ==
  ASSUME DInv, NEW p \in Chats, ModelError(p)
  PROVE  KeepsWord(p)
<1> DEFINE h == IF NeedsReading(p) THEN Current(p) ELSE history[p]
           c == call[p]
           s == shown[p]
           k == consent[p]
<1>1. /\ turn[p] \in {"classifying", "consulting"} \/ NeedsReading(p)
      /\ Become(p, h, "asked") /\ UNCHANGED <<serviceVars, call, shown, consent, seen>>
      /\ IF c.guarded THEN Enter(p, "classify") ELSE UNCHANGED state
  BY DEF ModelError
<1>2. NeedsReading(p) => Books(p)
  BY DEF NeedsReading, IsBooking
<1>3. turn[p] \notin {"quiet", "reading", "writing", "dead"}
  BY <1>1, <1>2 DEF Books
<1>4. /\ ChatTypes /\ history[p] \in History /\ state[p] \in States /\ c \in Calls
      /\ s \in Option \cup {Nothing} /\ k \in SUBSET Stylists /\ pc[p] = "idle"
      /\ IsCoherent(history[p], s, k)
  BY <1>3, AtRest
<1>5. /\ h \in History /\ h.offers \in {history[p].offers, <<>>} /\ IsCoherent(h, s, k)
  BY <1>2, <1>4, InBooking
<1>6. PICK x \in States : state' = [state EXCEPT ![p] = x]
  BY <1>1, <1>4, SameAsItWas DEF Enter, States
<1> HIDE DEF h
<1>7. TakesTurn(p, h, x, "asked", c, s, k)
  BY <1>1, <1>4, <1>6, SameAsItWas DEF Become, TakesTurn
<1>8. AtTurn(h, "asked", c, s, k)
  BY <1>4, <1>5 DEF AtTurn, Processing
<1>9. h.offers \in {history[p].offers, <<>>}
  BY <1>5
<1>10. "asked" \in Turns \ {"reading", "writing"}
  BY DEF Turns, Answering
<1>11. QED
  BY <1>1, <1>3, <1>4, <1>5, <1>7, <1>8, <1>9, <1>10, QuietTurn

LEMMA ParseErrorKeeps ==
  ASSUME DInv, NEW p \in Chats, ParseError(p)
  PROVE  KeepsWord(p)
<1>1. /\ Books(p) /\ Become(p, Current(p), "asked")
      /\ UNCHANGED <<serviceVars, state, call, shown, consent, seen>>
  BY DEF ParseError, NeedsReading, IsBooking
<1>2. /\ turn[p] = "booking" /\ Current(p) \in History
      /\ Current(p).offers \in {history[p].offers, <<>>}
      /\ IsCoherent(Current(p), shown[p], consent[p])
  BY <1>1, InBooking
<1>3. QED
  BY <1>1, <1>2, Answers

LEMMA ReadErrorKeeps ==
  ASSUME DInv, NEW p \in Chats, ReadError(p)
  PROVE  KeepsWord(p)
<1> DEFINE h == history[p]
<1>1. /\ turn[p] \in {"finding", "suggesting"}
      /\ UNCHANGED <<serviceVars, state, call, shown, consent, seen>>
  BY DEF ReadError
<1>2. /\ h \in History /\ IsCoherent(h, shown[p], consent[p]) /\ call[p] \in Calls
      /\ IsBusy(h, turn[p], shown[p])
  BY <1>1, AtRest DEF AtTurn, Processing
<1>3. CASE turn[p] = "finding" /\ Become(p, h, "suggesting")
  <2>1. AtTurn(h, "suggesting", call[p], shown[p], consent[p])
    BY <1>2, <1>3 DEF AtTurn, IsBusy, Processing
  <2>2. QED
    BY <1>1, <1>2, <1>3, <2>1, GoesOn DEF Turns
<1>4. CASE Become(p, h, "unavailable")
  BY <1>1, <1>2, <1>4, Answers
<1>5. QED
  BY <1>3, <1>4 DEF ReadError

(* The chat's memory is lost, and maybe its transaction cut off. *)
LEMMA MemoryLost ==
  ASSUME DInv, NEW p \in Chats, NEW t \in {"dead", "quiet"}, NEW x \in States,
         NEW c \in Calls \cup {NoCall}, NEW s \in Option \cup {Nothing},
         NEW k \in SUBSET Stylists, TakesTurn(p, Empty, x, t, c, s, k),
         seen' = [seen EXCEPT ![p] = {}],
         \/ pc[p] = "idle" /\ UNCHANGED serviceVars
         \/ CutOff(p) /\ t = "dead"
         \/ GiveUp(p) /\ t = "quiet"
  PROVE  KeepsWord(p)
<1>1. t \in Turns
  BY DEF Turns
<1>2. /\ ChatTypes' /\ ConcernsOnly(p)
      /\ history'[p] = Empty /\ turn'[p] = t /\ call'[p] = c
      /\ shown'[p] = s /\ consent'[p] = k /\ seen'[p] = {}
  <2>1. Watches(p, {})
    BY DEF Watches, CutOff, GiveUp, serviceVars
  <2>2. QED
    BY <1>1, <2>1, EmptyHistory, TurnFrame DEF DInv
<1>3. [AnyStep(p)]_vars
  BY DEF AnyStep, serviceVars, vars
<1>4. pc'[p] = "idle" \/ (pc'[p] = "cut_off" /\ t = "dead")
  BY ChatAssumption DEF CutOff, GiveUp, Goto, DInv, IInv, TypeOK, serviceVars
<1>5. AtTurn(Empty, t, c, s, k)
  BY EmptyHistory DEF AtTurn, Processing
<1>6. ChatOK(p)'
  BY <1>2, <1>4, <1>5 DEF ChatOK, InTransaction, InSearch
<1>7. OffersFound(p)
  BY <1>2, SameOffers DEF Empty
<1>8. QED
  BY <1>2, <1>3, <1>6, <1>7 DEF KeepsWord

LEMMA DieKeeps ==
  ASSUME DInv, NEW p \in Chats, Die(p)
  PROVE  KeepsWord(p)
<1>1. /\ TakesTurn(p, Empty, "classify", "dead", NoCall, Nothing, {})
      /\ seen' = [seen EXCEPT ![p] = {}]
  BY DEF Die, EndTurn, Become, Enter, ForgetProposals, TakesTurn
<1>2. CutOff(p) \/ (pc[p] = "idle" /\ UNCHANGED serviceVars)
  BY DEF Die
<1>3. /\ "classify" \in States /\ NoCall \in Calls \cup {NoCall}
      /\ Nothing \in Option \cup {Nothing} /\ {} \in SUBSET Stylists
  BY DEF States
<1>4. QED
  BY <1>1, <1>2, <1>3, MemoryLost

LEMMA RestartKeeps ==
  ASSUME DInv, NEW p \in Chats, Restart(p)
  PROVE  KeepsWord(p)
<1>1. /\ TakesTurn(p, Empty, state[p], "quiet", call[p], shown[p], consent[p])
      /\ state[p] \in States /\ call[p] \in Calls \cup {NoCall}
      /\ shown[p] \in Option \cup {Nothing} /\ consent[p] \in SUBSET Stylists
      /\ seen' = [seen EXCEPT ![p] = {}]
  BY SameAsItWas DEF Restart, Become, TakesTurn, DInv, ChatOK, InSearch
<1>2. GiveUp(p) \/ (pc[p] = "idle" /\ UNCHANGED serviceVars)
  BY DEF Restart
<1>3. QED
  BY <1>1, <1>2, MemoryLost

-----------------------------------------------------------------------------
(* The inductive invariant *)

LEMMA ChatInitOK == ChatInit => DInv
<1> SUFFICES ASSUME ChatInit PROVE DInv
  OBVIOUS
<1>1. IInv
  BY InitOK DEF ChatInit
<1>2. ChatTypes
  BY EmptyHistory DEF ChatInit, ChatTypes, States, Turns
<1>3. \A c \in Clients : pc[c] = "idle"
  BY DEF ChatInit, Init
<1>4. ASSUME NEW p \in Chats PROVE ChatOK(p)
  <2>1. history[p] = Empty /\ turn[p] = "quiet" /\ pc[p] = "idle" /\ seen[p] = {}
    BY <1>3, ChatAssumption DEF ChatInit
  <2>2. AtTurn(history[p], turn[p], call[p], shown[p], consent[p])
    BY <2>1, EmptyHistory DEF AtTurn, Processing
  <2>3. QED
    BY <2>1, <2>2 DEF ChatOK, InTransaction, InSearch
<1>5. QED
  BY <1>1, <1>2, <1>3, <1>4 DEF DInv

LEMMA BookingAgentKeepsWord ==
  ASSUME DInv, NEW p \in Chats, BookingAgent(p)
  PROVE  KeepsWord(p)
BY ManageKeeps, AbortKeeps, ConfirmKeeps, AskAgainKeeps, ChooseKeeps,
   SearchMessageKeeps, UnderstandKeeps, SearchHistoryKeeps, ReadSlotKeeps,
   EndSearchKeeps, DecideKeeps,
   FindStylistKeeps, RecommendKeeps, WriteKeeps, ConcludeKeeps, RemindKeeps
   DEF BookingAgent

LEMMA ChatStepKeepsWord ==
  ASSUME DInv, NEW p \in Chats, ChatStep(p)
  PROVE  KeepsWord(p)
<1>1. ASSUME NEW owner \in Speakers, NEW m \in Messages, Hear(p, owner, m)
      PROVE  KeepsWord(p)
  BY <1>1, HearKeeps
<1>2. CASE Classify(p) \/ Consult(p) \/ BookingAgent(p)
  BY <1>2, ClassifyKeeps, ConsultKeeps, BookingAgentKeepsWord
<1>3. CASE ModelError(p) \/ ParseError(p) \/ ReadError(p) \/ Reply(p)
  BY <1>3, ModelErrorKeeps, ParseErrorKeeps, ReadErrorKeeps, ReplyKeeps
<1>4. CASE Disconnect(p) \/ Die(p) \/ Restart(p)
  BY <1>4, DisconnectKeeps, DieKeeps, RestartKeeps
<1>5. QED
  BY <1>1, <1>2, <1>3, <1>4 DEF ChatStep

(* A booking made elsewhere in one step is as good as one made by steps.   *)
LEMMA BookElsewhereKeeps ==
  ASSUME DInv, NEW r \in Requests, BookElsewhere(r)
  PROVE  /\ IInv' /\ \A c \in Clients : pc'[c] = pc[c] /\ req'[c] = req[c]
         /\ Book!Next
<1> DEFINE row == NewAppointment(r)
<1>1. /\ r \in CreateRequest /\ CreateVerdict(db, r) = "proceed"
      /\ db \in Database /\ Consistent(db) /\ IInv
  BY ServiceAssumption, OpOfRequest DEF BookElsewhere, DInv, IInv, TypeOK
<1>2. /\ r.service \in Services /\ r.stylist \in Stylists
      /\ ~HasScheduleConflict(db, r.stylist, r.start, r.end, {})
  <2>1. CreateVerdict(db, r) \notin
          {"past_appointment", "outside_business_hours", "unknown_service",
           "invalid_service_duration", "stylist_not_found",
           "stylist_service_unsupported", "schedule_conflict"}
    BY <1>1
  <2>2. QED
    BY <2>1 DEF CreateVerdict
<1>3. row \in Appointment /\ row.status = "confirmed"
      /\ row.stylist = r.stylist /\ row.start = r.start /\ row.end = r.end
  BY <1>1, <1>2, NewAppointmentType DEF NewAppointment
<1>4. PICK id \in RowIds, k \in RowIds :
        /\ NextKey(db.appts, id) /\ NextKey(db.scheds, k)
        /\ db' = PutSchedule(PutAppointment(db, id, row), k, NewSchedule(id, row))
  BY DEF BookElsewhere
<1> HIDE DEF row
<1> DEFINE sched == NewSchedule(id, row)
           half == PutAppointment(db, id, row)
<1>5. /\ half \in Database /\ half.appts = [db.appts EXCEPT ![id] = row]
      /\ half.scheds = db.scheds
  BY <1>1, <1>3, PutAppointmentType
<1>6. sched \in Schedule /\ sched.stylist = row.stylist
      /\ sched.start = row.start /\ sched.end = row.end
  BY <1>3, NewScheduleType DEF NewSchedule
<1> HIDE DEF half
<1>7. /\ db' \in Database /\ db'.appts = [db.appts EXCEPT ![id] = row]
      /\ db'.scheds = [db.scheds EXCEPT ![k] = sched]
  <2> HIDE DEF sched
  <2>1. db' = PutSchedule(half, k, sched)
    BY <1>4 DEF half, sched
  <2>2. QED
    BY <1>5, <1>6, <2>1, PutScheduleType
<1>8. ~TriggerAborts(db, k, sched)
  BY <1>2, <1>3, <1>6 DEF TriggerAborts, HasScheduleConflict
<1>9. db.appts[id] = NoRow /\ db.scheds[k] = NoRow
  BY <1>4 DEF NextKey
<1>10. Consistent(db')
  BY <1>1, <1>3, <1>6, <1>7, <1>8, <1>9, CreateKeepsConsistent
<1>11. \A c \in Clients : tx[c] = NoTx
  BY DEF BookElsewhere, DInv, IInv, HandlerOK, InTx
<1>12. UNCHANGED <<tx, pc, req, rowId, reply, effects, now>>
  BY DEF BookElsewhere
<1>13. \A c \in Clients : HandlerOK(c)'
  BY <1>1, <1>11, <1>12 DEF IInv, HandlerOK, InTx
<1>14. TypeOK'
  BY <1>1, <1>7, <1>12 DEF IInv, TypeOK
<1>15. IInv'
  BY <1>1, <1>10, <1>12, <1>13, <1>14 DEF IInv, OneWriter
<1>16. Book!Next
  <2>1. /\ Book!OthersKept(id) /\ Book!Fits(id, BookOfClaims'[id])
    BY <1>3, <1>7, <1>10, WrittenRowFits DEF Database, DInv, IInv, TypeOK
  <2>2. BookOfClaims[id] = NoRow /\ BookOfClaims'[id] = BookEntry(row)
    BY <1>1, <1>7, <1>9 DEF BookOfClaims, BookEntry, Database
  <2>3. BookOfClaims'[id] \in Claims
    BY <1>3, <2>2, EntryOfRow
  <2>4. QED
    BY <2>1, <2>2, <2>3 DEF Book!Next, Book!Book
<1>17. QED
  BY <1>12, <1>15, <1>16

LEMMA SilentChat ==
  ASSUME NEW p \in Chats, ChatOK(p), pc'[p] = pc[p], req'[p] = req[p],
         history'[p] = history[p], turn'[p] = turn[p], call'[p] = call[p],
         shown'[p] = shown[p], consent'[p] = consent[p], KeepsWatch(p)
  PROVE  ChatOK(p)'
<1>1. InSearch(p)'
  <2>1. CASE UNCHANGED db /\ seen'[p] = seen[p]
    BY <2>1 DEF ChatOK, InSearch
  <2>2. CASE seen'[p] = IF seen[p] = {} THEN {} ELSE seen[p] \cup {db'}
    <3> DEFINE h == history[p]
               s == call[p].search
    <3>1. ASSUME NEW w, NEW l, w \subseteq l, IsFoundIn(h, s, w)
          PROVE  IsFoundIn(h, s, l)
      BY <3>1 DEF IsFoundIn
    <3>2. turn[p] = "reading" =>
            /\ seen[p] # {} /\ IsFoundIn(h, s, seen[p])
            /\ seen[p] \subseteq seen'[p] /\ db' \in seen'[p]
      BY <2>2 DEF ChatOK, InSearch
    <3>3. seen'[p] # {} <=> turn[p] = "reading"
      BY <2>2 DEF ChatOK, InSearch
    <3>4. turn[p] = "reading" => IsFoundIn(h, s, seen'[p])
      BY <3>1, <3>2
    <3>5. IsFoundIn(history'[p], call'[p].search, seen'[p]) <=> IsFoundIn(h, s, seen'[p])
      OBVIOUS
    <3>6. QED
      BY <3>2, <3>3, <3>4, <3>5 DEF InSearch
  <2>3. QED
    BY <2>1, <2>2 DEF KeepsWatch
<1>2. QED
  BY <1>1 DEF ChatOK, InTransaction

(* What a step of anybody leaves behind. *)
LEMMA ElsewhereKeeps ==
  ASSUME DInv, Elsewhere \/ UNCHANGED allVars
  PROVE  DInv' /\ UNCHANGED <<history, state, turn, call, shown, consent>>
<1>1. UNCHANGED <<history, state, turn, call, shown, consent>>
  BY DEF Elsewhere, allVars, chatVars
<1>2. /\ IInv' /\ \A c \in Clients : pc'[c] = pc[c] /\ req'[c] = req[c]
      /\ \A p \in Chats : KeepsWatch(p)
      /\ UNCHANGED seen \/ WatchTables
  <2>1. CASE Tick /\ UNCHANGED seen
    BY <2>1, TickKeeps DEF DInv, Tick, KeepsWatch
  <2>2. ASSUME NEW r \in Requests, BookElsewhere(r), WatchTables
        PROVE  /\ IInv' /\ \A c \in Clients : pc'[c] = pc[c] /\ req'[c] = req[c]
               /\ \A p \in Chats : KeepsWatch(p)
    BY <2>2, BookElsewhereKeeps DEF WatchTables, KeepsWatch
  <2>3. CASE UNCHANGED allVars
    <3>1. UNCHANGED vars /\ UNCHANGED seen
      BY <2>3 DEF allVars, serviceVars, chatVars, vars
    <3>2. QED
      BY <3>1, StutterKeeps DEF DInv, KeepsWatch, vars
  <2>4. QED
    BY <2>1, <2>2, <2>3 DEF Elsewhere
<1>3. ChatTypes'
  <2>1. db' \in Database
    BY <1>2 DEF IInv, TypeOK
  <2>2. seen' \in [Chats -> SUBSET Database]
    BY <1>2, <2>1 DEF WatchTables, DInv, ChatTypes
  <2>3. QED
    BY <1>1, <2>2 DEF DInv, ChatTypes
<1>4. ASSUME NEW p \in Chats PROVE ChatOK(p)'
  <2>1. ChatOK(p) /\ p \in Clients
    BY ChatAssumption DEF DInv
  <2>2. QED
    BY <1>1, <1>2, <2>1, SilentChat
<1>5. \A c \in Clients \ Chats : pc'[c] = "idle"
  BY <1>2 DEF DInv
<1>6. QED
  BY <1>1, <1>2, <1>3, <1>4, <1>5 DEF DInv

LEMMA ChatNextKeeps == DInv /\ [ChatNext]_allVars => DInv'
<1> SUFFICES ASSUME DInv, [ChatNext]_allVars PROVE DInv'
  OBVIOUS
<1>1. CASE Elsewhere \/ UNCHANGED allVars
  BY <1>1, ElsewhereKeeps
<1>2. ASSUME NEW p \in Chats, ChatStep(p) PROVE DInv'
  <2>1. KeepsWord(p) /\ p \in Clients
    BY <1>2, ChatStepKeepsWord, ChatAssumption
  <2>2. IInv'
    <3>1. [AnyNext]_vars
      BY <2>1 DEF KeepsWord, AnyNext
    <3>2. QED
      BY <3>1, AnyKeeps DEF DInv
  <2>3. \A b \in Clients \ {p} : pc'[b] = pc[b] /\ req'[b] = req[b]
    BY <2>1, HandlersWait DEF KeepsWord, DInv
  <2>4. ASSUME NEW q \in Chats \ {p} PROVE ChatOK(q)'
    <3>1. /\ history'[q] = history[q] /\ turn'[q] = turn[q] /\ call'[q] = call[q]
          /\ shown'[q] = shown[q] /\ consent'[q] = consent[q] /\ KeepsWatch(q)
      BY <2>1 DEF KeepsWord, ConcernsOnly
    <3>2. pc'[q] = pc[q] /\ req'[q] = req[q] /\ ChatOK(q)
      BY <2>3, ChatAssumption DEF DInv
    <3>3. QED
      BY <3>1, <3>2, SilentChat
  <2>5. \A c \in Clients \ Chats : pc'[c] = "idle"
    BY <2>3 DEF DInv
  <2>6. QED
    BY <2>1, <2>2, <2>4, <2>5 DEF KeepsWord, DInv
<1>3. QED
  BY <1>1, <1>2 DEF ChatNext

-----------------------------------------------------------------------------
(* Safety *)

(* In every reachable state of chats and of whoever else books, the tables *)
(* are consistent, the handlers in order, and every dialogue coherent, at  *)
(* every step of every turn.                                               *)
THEOREM DialogueInvariantHolds == ChatSpec => []DInv
BY ChatInitOK, ChatNextKeeps, PTL DEF ChatSpec

(* Whatever the chats make of what they hear, no stylist is booked twice,  *)
(* and appointments and schedules agree.                                   *)
THEOREM DialoguesKeepTheTables ==
  ChatSpec => [](NoDoubleBooking /\ AppointmentsMirrorSchedules)
<1>1. DInv => NoDoubleBooking /\ AppointmentsMirrorSchedules
  BY DEF DInv, IInv, Consistent, NoDoubleBooking, AppointmentsMirrorSchedules
<1>2. QED
  BY <1>1, DialogueInvariantHolds, PTL

(* Seen from the appointments table, all that happens is that claims that  *)
(* fit are entered.                                                        *)
THEOREM DialoguesImplementBook == ChatSpec => ImplementsSalonBook
<1>1. DInv /\ [ChatNext]_allVars => [Book!Next]_BookOfClaims
  <2> SUFFICES ASSUME DInv, [ChatNext]_allVars PROVE [Book!Next]_BookOfClaims
    OBVIOUS
  <2>1. ASSUME NEW p \in Chats, ChatStep(p) PROVE [Book!Next]_BookOfClaims
    <3>1. [AnyNext]_vars
      BY <2>1, ChatStepKeepsWord, ChatAssumption DEF KeepsWord, AnyNext
    <3>2. QED
      BY <3>1, StepRefines DEF DInv
  <2>2. CASE Tick \/ UNCHANGED allVars
    BY <2>2 DEF Tick, allVars, serviceVars, BookOfClaims
  <2>3. ASSUME NEW r \in Requests, BookElsewhere(r) PROVE Book!Next
    BY <2>3, BookElsewhereKeeps
  <2>4. QED
    BY <2>1, <2>2, <2>3 DEF ChatNext, Elsewhere
<1>2. ChatInit => Book!Init
  BY InitRefines DEF ChatInit
<1>3. QED
  BY <1>1, <1>2, DialogueInvariantHolds, PTL DEF ChatSpec, ImplementsSalonBook, Book!Spec

(* Between messages a question is open for one thing only, and for one     *)
(* that was shown.                                                         *)
THEOREM DialogueStaysCoherent == ChatSpec => []DialogueIsCoherent
<1>1. DInv => DialogueIsCoherent
  BY DEF DInv, ChatOK, AtTurn, IsCoherent, DialogueIsCoherent
<1>2. QED
  BY <1>1, DialogueInvariantHolds, PTL

(* The transaction of a chat commits only while the chat's turn waits.     *)
LEMMA CommitsWhileWriting ==
  ASSUME DInv, NEW p \in Chats, CommitsFor(p)
  PROVE  /\ req[p].stylist \in consent[p]
         /\ call[p].via = "offer" =>
              Terms(req[p]) = shown[p] /\ call[p].message.answer = "yes"
<1>1. ChatOK(p) /\ pc[p] = "committing"
  BY DEF DInv, CommitsFor
<1>2. turn[p] = "writing"
  BY <1>1 DEF ChatOK, InTransaction
<1>3. QED
  BY <1>1, <1>2 DEF ChatOK, InTransaction

(* A slot chosen from a list is booked exactly as it was last put to the   *)
(* customer, and after they said yes to it.                                *)
THEOREM OffersAreBookedAsShown == ChatSpec => OfferIsBookedAsShown
<1> DEFINE AsShown ==
      \A p \in Chats :
        CommitsFor(p) /\ call[p].via = "offer" =>
          /\ Terms(req[p]) = shown[p]
          /\ Heard(p).answer = "yes"
<1>1. DInv => AsShown
  BY CommitsWhileWriting DEF Heard
<1>2. DInv /\ [ChatNext]_allVars => [AsShown]_allVars
  BY <1>1
<1>3. QED
  BY <1>2, DialogueInvariantHolds, PTL DEF ChatSpec, OfferIsBookedAsShown

(* Whatever the model makes of the messages: no stylist is booked who was  *)
(* not named, or proposed and agreed to, in a message of the flow as it    *)
(* was read.  A stylist, or a yes, that the model makes up counts too.     *)
THEOREM StylistsAreAgreedTo == ChatSpec => NoStylistIsAssigned
<1> DEFINE Agree == \A p \in Chats : CommitsFor(p) => req[p].stylist \in consent[p]
<1>1. DInv => Agree
  BY CommitsWhileWriting
<1>2. DInv /\ [ChatNext]_allVars => [Agree]_allVars
  BY <1>1
<1>3. QED
  BY <1>2, DialogueInvariantHolds, PTL DEF ChatSpec, NoStylistIsAssigned

(* A search that others' bookings run through offers, of the slots it      *)
(* found free, the first of the stylists who come free first; each was     *)
(* free, and would have been booked, at some moment of the search; and     *)
(* none was passed over that was not taken at one, or could not be read.   *)
THEOREM OffersMadeAreTheBest == ChatSpec => OffersAreTheBest
<1> DEFINE Best ==
      \A p \in Chats :
        history'[p].offers \notin {history[p].offers, <<>>} =>
          LET s == call[p].search
              slots == Slots(SearchOf(history[p]), s.asOf)
              offers == history'[p].offers
          IN  /\ \A o \in s.free : o \in slots /\ \E d \in seen[p] : IsSlotFree(d, o)
              /\ \A o \in slots \ s.free :
                   o \in s.failed \/ \E d \in seen[p] : ~IsSlotFree(d, o)
              /\ ToSet(offers) = BestOffers(s.free)
              /\ \A o \in ToSet(offers) :
                   IsFuture(o.start) =>
                     \E d \in seen[p] : CreateVerdict(d, OfferRequest(p, o)) = "proceed"
<1>1. ASSUME DInv, ChatNext, NEW p \in Chats
      PROVE  OffersFound(p)
  <2>1. CASE Elsewhere
    BY <2>1, SameOffers DEF Elsewhere
  <2>2. CASE ChatStep(p)
    BY <1>1, <2>2, ChatStepKeepsWord DEF KeepsWord
  <2>3. ASSUME NEW b \in Chats \ {p}, ChatStep(b)
        PROVE  OffersFound(p)
    <3>1. history'[p] = history[p]
      BY <1>1, <2>3, ChatStepKeepsWord DEF KeepsWord, ConcernsOnly
    <3>2. QED
      BY <3>1, SameOffers
  <2>4. QED
    BY <1>1, <2>1, <2>2, <2>3 DEF ChatNext
<1>2. DInv /\ [ChatNext]_allVars => [Best]_allVars
  <2> SUFFICES ASSUME DInv, ChatNext PROVE Best
    OBVIOUS
  <2>1. \A p \in Chats : OffersFound(p)
    BY <1>1
  <2>2. QED
    BY <2>1, Zenon DEF OffersFound
<1>3. QED
  BY <1>2, DialogueInvariantHolds, PTL DEF ChatSpec, OffersAreTheBest
=============================================================================
