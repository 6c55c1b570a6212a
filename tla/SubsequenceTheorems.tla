------------------------ MODULE SubsequenceTheorems ------------------------
(***************************************************************************)
(* What Keep returns, for every sequence and every set: how long it is,    *)
(* what its members are and in which order.  Keep is defined by recursion  *)
(* on the positions of the sequence; the induction is over a set of        *)
(* numbers, which leaves nothing to be instantiated by an operator.        *)
(***************************************************************************)
EXTENDS Subsequences, FiniteSetTheorems, SequenceTheorems, WellFoundedInduction, TLAPS

-----------------------------------------------------------------------------
(* Induction *)

LEMMA LeastElement ==
  ASSUME NEW T \in SUBSET Nat, T # {}
  PROVE  \E n \in T : \A m \in T : n <= m
<1> DEFINE R == OpToRel(<, Nat)
<1>1. IsWellFoundedOn(R, Nat)
  BY NatLessThanWellFounded
<1>2. \A x, y \in Nat : x < y => <<x, y>> \in R
  BY DEF OpToRel
<1> HIDE DEF R
<1>3. PICK x \in T : \A y \in T : ~ (<<y, x>> \in R)
  BY <1>1, WFMin
<1>4. \A y \in T : y \in Nat /\ ~(y < x) /\ x \in Nat
  BY <1>2, <1>3
<1>5. QED
  BY <1>3, <1>4

LEMMA SetInduction ==
  ASSUME NEW T \in SUBSET Nat, 0 \in T, \A n \in T : n + 1 \in T
  PROVE  T = Nat
<1> SUFFICES ASSUME T # Nat PROVE FALSE
  OBVIOUS
<1>1. PICK n \in Nat \ T : \A m \in Nat \ T : n <= m
  BY LeastElement
<1>2. n # 0 /\ n - 1 \in T
  BY <1>1
<1>3. QED
  BY <1>1, <1>2

(* Induction up to a bound. *)
LEMMA IntervalInduction ==
  ASSUME NEW N \in Nat, NEW T, 0 \in T, \A n \in 0 .. (N - 1) : n \in T => n + 1 \in T
  PROVE  0 .. N \subseteq T
<1> DEFINE U == {n \in Nat : n <= N => n \in T}
<1>1. 0 \in U
  OBVIOUS
<1>2. \A n \in U : n + 1 \in U
  OBVIOUS
<1>3. U = Nat
  BY <1>1, <1>2, SetInduction
<1>4. QED
  BY <1>3

-----------------------------------------------------------------------------
(* The recursion *)

Kept(f, s, S, n) ==
  IF n = 0 THEN <<>> ELSE
  IF s[n] \in S THEN Append(f[n - 1], s[n]) ELSE f[n - 1]

LEMMA KeepingExists ==
  ASSUME NEW A, NEW s \in Seq(A), NEW S
  PROVE  \E f : f = [n \in 0 .. Len(s) |-> Kept(f, s, S, n)]
<1> DEFINE T == {n \in Nat : \E f : f = [i \in 0 .. n |-> Kept(f, s, S, i)]}
<1>1. 0 \in T
  <2> DEFINE f == [i \in 0 .. 0 |-> <<>>]
  <2>1. f = [i \in 0 .. 0 |-> Kept(f, s, S, i)]
    BY DEF Kept
  <2>2. QED
    BY <2>1
<1>2. ASSUME NEW n \in T PROVE n + 1 \in T
  <2>1. PICK f : f = [i \in 0 .. n |-> Kept(f, s, S, i)]
    OBVIOUS
  <2> DEFINE g == [i \in 0 .. (n + 1) |-> IF i = n + 1 THEN Kept(f, s, S, i) ELSE f[i]]
  <2>2. ASSUME NEW i \in 0 .. (n + 1) PROVE g[i] = Kept(g, s, S, i)
    <3>1. i # 0 => g[i - 1] = f[i - 1] /\ i - 1 \in 0 .. n
      OBVIOUS
    <3>2. Kept(g, s, S, i) = Kept(f, s, S, i)
      BY <3>1 DEF Kept
    <3>3. i # n + 1 => f[i] = Kept(f, s, S, i)
      <4> DEFINE kept == [j \in 0 .. n |-> Kept(f, s, S, j)]
      <4>1. i # n + 1 => kept[i] = Kept(f, s, S, i)
        OBVIOUS
      <4>2. f = kept
        BY <2>1
      <4> HIDE DEF kept
      <4>3. QED
        BY <4>1, <4>2
    <3>4. QED
      BY <3>2, <3>3
  <2> HIDE DEF g
  <2>3. g = [i \in 0 .. (n + 1) |-> Kept(g, s, S, i)]
    BY <2>2 DEF g
  <2>4. QED
    BY <2>3
<1>3. T = Nat
  BY <1>1, <1>2, SetInduction
<1>4. QED
  BY <1>3

LEMMA KeepIsRecursive ==
  ASSUME NEW A, NEW s \in Seq(A), NEW S
  PROVE  \E f : f = [n \in 0 .. Len(s) |-> Kept(f, s, S, n)] /\ Keep(s, S) = f[Len(s)]
<1> DEFINE IsKept(g) == g = [n \in 0 .. Len(s) |->
                 IF n = 0 THEN <<>> ELSE
                 IF s[n] \in S THEN Append(g[n - 1], s[n]) ELSE g[n - 1]]
           f == CHOOSE g : IsKept(g)
<1>1. Keep(s, S) = f[Len(s)]
  BY DEF Keep
<1>2. \E g : IsKept(g)
  BY KeepingExists DEF Kept
<1>3. \A g : IsKept(g) <=> g = [n \in 0 .. Len(s) |-> Kept(g, s, S, n)]
  BY DEF Kept
<1> HIDE DEF IsKept
<1>4. IsKept(f)
  BY <1>2
<1> HIDE DEF f
<1>5. QED
  BY <1>1, <1>3, <1>4

-----------------------------------------------------------------------------
(* The meaning *)

(* t is made of the members of s up to its n-th that lie in S: m maps the  *)
(* positions of t to the positions of s that they come from.               *)
Selects(m, t, s, S, n) ==
  /\ m \in [1 .. Len(t) -> {i \in 1 .. n : s[i] \in S}]
  /\ \A i, j \in 1 .. Len(t) : i < j => m[i] < m[j]
  /\ \A i \in 1 .. n : s[i] \in S => \E j \in 1 .. Len(t) : m[j] = i
  /\ \A j \in 1 .. Len(t) : t[j] = s[m[j]]

LEMMA SelectsOneMore ==
  ASSUME NEW A, NEW s \in Seq(A), NEW S, NEW n \in Nat, n < Len(s),
         NEW t \in Seq(A), NEW m, Selects(m, t, s, S, n)
  PROVE  LET u == IF s[n + 1] \in S THEN Append(t, s[n + 1]) ELSE t
         IN  u \in Seq(A) /\ \E k : Selects(k, u, s, S, n + 1)
<1>1. CASE s[n + 1] \notin S
  <2>1. Selects(m, t, s, S, n + 1)
    BY <1>1 DEF Selects
  <2>2. QED
    BY <1>1, <2>1
<1>2. CASE s[n + 1] \in S
  <2> DEFINE u == Append(t, s[n + 1])
             k == [j \in 1 .. (Len(t) + 1) |-> IF j = Len(t) + 1 THEN n + 1 ELSE m[j]]
  <2>1. s[n + 1] \in A /\ Len(t) \in Nat
    OBVIOUS
  <2>2. /\ u \in Seq(A) /\ Len(u) = Len(t) + 1
        /\ u[Len(t) + 1] = s[n + 1]
        /\ \A j \in 1 .. Len(t) : u[j] = t[j]
    BY <2>1
  <2> HIDE DEF u
  <2>3. k \in [1 .. Len(u) -> {i \in 1 .. (n + 1) : s[i] \in S}]
    BY <1>2, <2>1, <2>2 DEF Selects
  <2>4. \A j \in 1 .. Len(t) : k[j] = m[j] /\ m[j] \in 1 .. n
    BY <2>1 DEF Selects
  <2>5. k[Len(t) + 1] = n + 1
    BY <2>1
  <2> HIDE DEF k
  <2>6. \A i, j \in 1 .. Len(u) : i < j => k[i] < k[j]
    BY <2>1, <2>2, <2>4, <2>5 DEF Selects
  <2>7. \A i \in 1 .. (n + 1) : s[i] \in S => \E j \in 1 .. Len(u) : k[j] = i
    <3> SUFFICES ASSUME NEW i \in 1 .. (n + 1), s[i] \in S
                 PROVE  \E j \in 1 .. Len(u) : k[j] = i
      OBVIOUS
    <3>1. CASE i = n + 1
      BY <2>1, <2>2, <2>5, <3>1
    <3>2. CASE i \in 1 .. n
      BY <2>1, <2>2, <2>4, <3>2 DEF Selects
    <3>3. QED
      BY <3>1, <3>2
  <2>8. \A j \in 1 .. Len(u) : u[j] = s[k[j]]
    BY <2>1, <2>2, <2>4, <2>5 DEF Selects
  <2>9. QED
    BY <1>2, <2>2, <2>3, <2>6, <2>7, <2>8 DEF Selects, u
<1>3. QED
  BY <1>1, <1>2

(* The members of s that lie in S, all of them, and in their order. *)
THEOREM KeepMeaning ==
  ASSUME NEW A, NEW s \in Seq(A), NEW S
  PROVE  Keep(s, S) \in Seq(A) /\ \E m : Selects(m, Keep(s, S), s, S, Len(s))
<1>1. PICK f : f = [n \in 0 .. Len(s) |-> Kept(f, s, S, n)] /\ Keep(s, S) = f[Len(s)]
  BY KeepIsRecursive
<1> DEFINE T == {n \in 0 .. Len(s) : f[n] \in Seq(A) /\ \E m : Selects(m, f[n], s, S, n)}
<1>2. Len(s) \in Nat /\ \A n \in 0 .. Len(s) : f[n] = Kept(f, s, S, n)
  BY <1>1
<1>3. 0 \in T
  <2>1. f[0] = <<>>
    BY <1>2 DEF Kept
  <2>2. Selects([j \in {} |-> 0], f[0], s, S, 0)
    BY <2>1 DEF Selects
  <2>3. f[0] \in Seq(A) /\ 0 \in 0 .. Len(s)
    BY <1>2, <2>1
  <2>4. QED
    BY <2>2, <2>3
<1>4. ASSUME NEW n \in 0 .. (Len(s) - 1), n \in T PROVE n + 1 \in T
  <2>1. PICK m : Selects(m, f[n], s, S, n)
    BY <1>4
  <2>2. f[n + 1] = IF s[n + 1] \in S THEN Append(f[n], s[n + 1]) ELSE f[n]
    BY <1>2 DEF Kept
  <2>3. f[n + 1] \in Seq(A) /\ \E k : Selects(k, f[n + 1], s, S, n + 1)
    BY <1>2, <1>4, <2>1, <2>2, SelectsOneMore
  <2>4. QED
    BY <1>2, <2>3
<1>5. 0 .. Len(s) \subseteq T
  BY <1>2, <1>3, <1>4, IntervalInduction
<1>6. QED
  BY <1>1, <1>2, <1>5

-----------------------------------------------------------------------------
(* Lengths *)

LEMMA IncreasingMap ==
  ASSUME NEW L \in Nat, NEW N \in Nat, NEW m \in [1 .. L -> 1 .. N],
         \A i, j \in 1 .. L : i < j => m[i] < m[j]
  PROVE  L <= N
<1> DEFINE T == {j \in 0 .. L : j = 0 \/ j <= m[j]}
<1>1. ASSUME NEW j \in 0 .. (L - 1), j \in T PROVE j + 1 \in T
  <2>1. CASE j = 0
    BY <2>1
  <2>2. CASE j # 0
    BY <1>1, <2>2
  <2>3. QED
    BY <2>1, <2>2
<1>2. 0 \in T
  OBVIOUS
<1>3. (L # 0 /\ L \in T) => L <= m[L]
  OBVIOUS
<1> HIDE DEF T
<1>4. 0 .. L \subseteq T
  BY <1>1, <1>2, IntervalInduction
<1>5. L \in T
  BY <1>4
<1>6. CASE L = 0
  BY <1>6
<1>7. CASE L # 0
  <2>1. m[L] \in 1 .. N
    BY <1>7
  <2>2. QED
    BY <1>3, <1>5, <1>7, <2>1
<1>8. QED
  BY <1>6, <1>7

LEMMA KeepLength ==
  ASSUME NEW A, NEW s \in Seq(A), NEW S
  PROVE  /\ Len(Keep(s, S)) \in Nat
         /\ Len(Keep(s, S)) <= Len(s)
<1>1. PICK m : Selects(m, Keep(s, S), s, S, Len(s))
  BY KeepMeaning
<1>2. Keep(s, S) \in Seq(A)
  BY KeepMeaning
<1>3. m \in [1 .. Len(Keep(s, S)) -> 1 .. Len(s)]
  BY <1>1 DEF Selects
<1>4. Len(Keep(s, S)) \in Nat /\ Len(s) \in Nat
  BY <1>2
<1>5. \A i, j \in 1 .. Len(Keep(s, S)) : i < j => m[i] < m[j]
  BY <1>1 DEF Selects
<1>6. QED
  BY <1>3, <1>4, <1>5, IncreasingMap

(* What is left out is missing. *)
LEMMA KeepShorter ==
  ASSUME NEW A, NEW s \in Seq(A), NEW S, NEW n \in 1 .. Len(s), s[n] \notin S
  PROVE  Len(Keep(s, S)) < Len(s)
<1>1. PICK m : Selects(m, Keep(s, S), s, S, Len(s))
  BY KeepMeaning
<1>2. Len(Keep(s, S)) \in Nat /\ Len(s) \in Nat \ {0}
  BY KeepLength
<1> DEFINE L == Len(Keep(s, S))
           k == [j \in 1 .. L |-> IF m[j] > n THEN m[j] - 1 ELSE m[j]]
<1>3. \A j \in 1 .. L : m[j] \in 1 .. Len(s) /\ m[j] # n
  BY <1>1 DEF Selects
<1>4. k \in [1 .. L -> 1 .. (Len(s) - 1)]
  BY <1>2, <1>3
<1>5. \A i, j \in 1 .. L : i < j => k[i] < k[j]
  BY <1>1, <1>2, <1>3 DEF Selects
<1> HIDE DEF k
<1>6. Len(s) - 1 \in Nat
  BY <1>2
<1>7. L <= Len(s) - 1
  BY <1>2, <1>4, <1>5, <1>6, IncreasingMap
<1>8. QED
  BY <1>2, <1>7

-----------------------------------------------------------------------------
(* Members *)

Distinct(s) == \A i, j \in 1 .. Len(s) : s[i] = s[j] => i = j

LEMMA KeepMembers ==
  ASSUME NEW A, NEW s \in Seq(A), NEW S
  PROVE  Members(Keep(s, S)) = Members(s) \cap S
<1>1. PICK m : Selects(m, Keep(s, S), s, S, Len(s))
  BY KeepMeaning
<1>2. \A x \in Members(Keep(s, S)) : x \in Members(s) \cap S
  BY <1>1 DEF Selects, Members
<1>3. ASSUME NEW x \in Members(s) \cap S PROVE x \in Members(Keep(s, S))
  <2>1. PICK i \in 1 .. Len(s) : x = s[i]
    BY DEF Members
  <2>2. PICK j \in 1 .. Len(Keep(s, S)) : m[j] = i
    BY <1>1, <2>1 DEF Selects
  <2>3. Keep(s, S)[j] = s[m[j]]
    BY <1>1 DEF Selects
  <2>4. QED
    BY <2>1, <2>2, <2>3 DEF Members
<1>4. QED
  BY <1>2, <1>3

LEMMA KeepDistinct ==
  ASSUME NEW A, NEW s \in Seq(A), NEW S, Distinct(s)
  PROVE  Distinct(Keep(s, S))
<1>1. PICK m : Selects(m, Keep(s, S), s, S, Len(s))
  BY KeepMeaning
<1>2. Len(Keep(s, S)) \in Nat
  BY KeepLength
<1>3. \A j \in 1 .. Len(Keep(s, S)) : m[j] \in 1 .. Len(s)
  BY <1>1 DEF Selects
<1>4. \A i, j \in 1 .. Len(Keep(s, S)) : m[i] = m[j] => i = j
  BY <1>1, <1>2, <1>3 DEF Selects
<1>5. QED
  BY <1>1, <1>3, <1>4 DEF Selects, Distinct

LEMMA DropMembers ==
  ASSUME NEW A, NEW s \in Seq(A), NEW x
  PROVE  /\ Drop(s, x) \in Seq(A)
         /\ Len(Drop(s, x)) \in Nat /\ Len(Drop(s, x)) <= Len(s)
         /\ Members(Drop(s, x)) = Members(s) \ {x}
         /\ x \in Members(s) => Len(Drop(s, x)) < Len(s)
         /\ Distinct(s) => Distinct(Drop(s, x))
<1>1. x \in Members(s) => \E n \in 1 .. Len(s) : s[n] = x
  BY DEF Members
<1>2. QED
  BY <1>1, KeepMeaning, KeepLength, KeepMembers, KeepShorter, KeepDistinct DEF Drop

(* What came first comes first. *)
LEMMA KeepOrder ==
  ASSUME NEW A, NEW s \in Seq(A), NEW S,
         NEW i \in 1 .. Len(Keep(s, S)), NEW j \in 1 .. Len(Keep(s, S)), i < j
  PROVE  \E a, b \in 1 .. Len(s) : a < b /\ Keep(s, S)[i] = s[a] /\ Keep(s, S)[j] = s[b]
<1>1. PICK m : Selects(m, Keep(s, S), s, S, Len(s))
  BY KeepMeaning
<1>2. QED
  BY <1>1 DEF Selects

LEMMA KeepHead ==
  ASSUME NEW A, NEW s \in Seq(A), NEW S, s # <<>>, Head(s) \in S
  PROVE  Keep(s, S) # <<>> /\ Head(Keep(s, S)) = Head(s)
<1>1. PICK m : Selects(m, Keep(s, S), s, S, Len(s))
  BY KeepMeaning
<1>2. /\ Keep(s, S) \in Seq(A) /\ Len(Keep(s, S)) \in Nat
      /\ 1 \in 1 .. Len(s) /\ s[1] \in S /\ Head(s) = s[1]
  BY KeepMeaning, KeepLength
<1>3. PICK j \in 1 .. Len(Keep(s, S)) : m[j] = 1
  BY <1>1, <1>2 DEF Selects
<1>4. m[1] \in 1 .. Len(s) /\ ~(1 < j)
  BY <1>1, <1>2, <1>3 DEF Selects
<1>5. m[1] = 1
  BY <1>2, <1>3, <1>4
<1>6. Keep(s, S)[1] = s[1] /\ Len(Keep(s, S)) > 0
  BY <1>1, <1>2, <1>3, <1>5 DEF Selects
<1>7. QED
  BY <1>2, <1>6

-----------------------------------------------------------------------------
(* There is only one such sequence *)

(* m lists P in increasing order, from its first to its L-th member. *)
Enumerates(m, L, P) ==
  /\ m \in [1 .. L -> P]
  /\ \A i, j \in 1 .. L : i < j => m[i] < m[j]
  /\ \A x \in P : \E j \in 1 .. L : m[j] = x

LEMMA OrderReflected ==
  ASSUME NEW L \in Nat, NEW P \in SUBSET Int, NEW m, Enumerates(m, L, P)
  PROVE  /\ \A i \in 1 .. L : m[i] \in P /\ m[i] \in Int
         /\ \A i, j \in 1 .. L : m[i] < m[j] => i < j
         /\ \A i, j \in 1 .. L : m[i] = m[j] => i = j
<1>1. \A i \in 1 .. L : m[i] \in P /\ m[i] \in Int
  BY DEF Enumerates
<1>2. ASSUME NEW i \in 1 .. L, NEW j \in 1 .. L PROVE (m[i] < m[j] => i < j) /\ (m[i] = m[j] => i = j)
  <2>1. m[i] \in Int /\ m[j] \in Int /\ i \in Nat /\ j \in Nat
    BY <1>1
  <2>2. (i < j => m[i] < m[j]) /\ (j < i => m[j] < m[i])
    BY DEF Enumerates
  <2>3. QED
    BY <2>1, <2>2
<1>3. QED
  BY <1>1, <1>2

(* Two such lists that agree up to a position agree there ... *)
LEMMA NotBefore ==
  ASSUME NEW L \in Nat, NEW K \in Nat, NEW P \in SUBSET Int, NEW m, NEW k,
         Enumerates(m, L, P), Enumerates(k, K, P),
         NEW j \in 1 .. L, j \in 1 .. K,
         \A i \in 1 .. (j - 1) : m[i] = k[i]
  PROVE  ~ (m[j] < k[j])
<1> SUFFICES ASSUME m[j] < k[j] PROVE FALSE
  OBVIOUS
<1>1. m[j] \in P
  BY OrderReflected
<1>2. PICK i \in 1 .. K : k[i] = m[j]
  BY <1>1 DEF Enumerates
<1>3. i < j
  BY <1>2, OrderReflected
<1>4. i \in 1 .. (j - 1) /\ i \in 1 .. L
  BY <1>3
<1>5. m[i] = m[j]
  BY <1>2, <1>4
<1>6. i = j
  BY <1>4, <1>5, OrderReflected
<1>7. QED
  BY <1>3, <1>6

(* ... so that they agree throughout ... *)
LEMMA SameImage ==
  ASSUME NEW L \in Nat, NEW K \in Nat, NEW P \in SUBSET Int, NEW m, NEW k,
         Enumerates(m, L, P), Enumerates(k, K, P)
  PROVE  \A j \in 1 .. L : j \in 1 .. K => m[j] = k[j]
<1> DEFINE D == {j \in Nat : j \in 1 .. L /\ j \in 1 .. K /\ m[j] # k[j]}
<1> SUFFICES ASSUME D # {} PROVE FALSE
  OBVIOUS
<1>1. PICK j \in D : \A i \in D : j <= i
  BY LeastElement
<1>2. j \in 1 .. L /\ j \in 1 .. K /\ m[j] # k[j]
  OBVIOUS
<1>3. \A i \in 1 .. (j - 1) : m[i] = k[i] /\ k[i] = m[i]
  BY <1>1, <1>2
<1> HIDE DEF D
<1>4. ~(m[j] < k[j]) /\ ~(k[j] < m[j])
  BY <1>2, <1>3, NotBefore
<1>5. m[j] \in Int /\ k[j] \in Int
  BY <1>2, OrderReflected
<1>6. QED
  BY <1>2, <1>4, <1>5

(* ... and neither is longer. *)
LEMMA NotLonger ==
  ASSUME NEW L \in Nat, NEW K \in Nat, NEW P \in SUBSET Int, NEW m, NEW k,
         Enumerates(m, L, P), Enumerates(k, K, P)
  PROVE  K <= L
<1> SUFFICES ASSUME L < K PROVE FALSE
  OBVIOUS
<1>1. L + 1 \in 1 .. K /\ k[L + 1] \in P
  BY OrderReflected
<1>2. PICK j \in 1 .. L : m[j] = k[L + 1]
  BY <1>1 DEF Enumerates
<1>3. j \in 1 .. K /\ j # L + 1
  OBVIOUS
<1>4. m[j] = k[j]
  BY <1>3, SameImage
<1>5. QED
  BY <1>1, <1>2, <1>3, <1>4, OrderReflected

LEMMA KeepUnique ==
  ASSUME NEW A, NEW s \in Seq(A), NEW S, NEW t \in Seq(A),
         NEW m, Selects(m, t, s, S, Len(s))
  PROVE  Keep(s, S) = t
<1> DEFINE u == Keep(s, S)
           P == {i \in 1 .. Len(s) : s[i] \in S}
<1>1. u \in Seq(A) /\ \E k : Selects(k, u, s, S, Len(s))
  BY KeepMeaning
<1>2. PICK k : Selects(k, u, s, S, Len(s))
  BY <1>1
<1> HIDE DEF u
<1>3. Len(u) \in Nat /\ Len(t) \in Nat
  BY <1>1
<1>4. P \in SUBSET Int
  OBVIOUS
<1>5. Enumerates(m, Len(t), P) /\ \A j \in 1 .. Len(t) : t[j] = s[m[j]]
  BY DEF Selects, Enumerates
<1>6. Enumerates(k, Len(u), P) /\ \A j \in 1 .. Len(u) : u[j] = s[k[j]]
  BY <1>2 DEF Selects, Enumerates
<1> HIDE DEF P
<1>7. Len(u) <= Len(t) /\ Len(t) <= Len(u)
  BY <1>3, <1>4, <1>5, <1>6, NotLonger
<1>8. \A j \in 1 .. Len(u) : j \in 1 .. Len(t) => k[j] = m[j]
  BY <1>3, <1>4, <1>5, <1>6, SameImage
<1>9. Len(u) = Len(t) /\ \A j \in 1 .. Len(u) : u[j] = t[j]
  BY <1>3, <1>5, <1>6, <1>7, <1>8
<1>10. u = t
  BY <1>1, <1>9, SeqEqual
<1>11. QED
  BY <1>10 DEF u

(* Only which members lie in the set matters. *)
LEMMA KeepSame ==
  ASSUME NEW A, NEW s \in Seq(A), NEW S, NEW R,
         \A i \in 1 .. Len(s) : s[i] \in S <=> s[i] \in R
  PROVE  Keep(s, S) = Keep(s, R)
<1> DEFINE t == Keep(s, R)
<1>1. t \in Seq(A) /\ \E m : Selects(m, t, s, R, Len(s))
  BY KeepMeaning
<1> HIDE DEF t
<1>2. PICK m : Selects(m, t, s, R, Len(s))
  BY <1>1
<1>3. {i \in 1 .. Len(s) : s[i] \in R} = {i \in 1 .. Len(s) : s[i] \in S}
  OBVIOUS
<1>4. Selects(m, t, s, S, Len(s))
  BY <1>2, <1>3 DEF Selects
<1>5. Keep(s, S) = t
  BY <1>1, <1>4, KeepUnique
<1>6. QED
  BY <1>5 DEF t

LEMMA KeepKeep ==
  ASSUME NEW A, NEW s \in Seq(A), NEW S, NEW R
  PROVE  Keep(Keep(s, S), R) = Keep(s, S \cap R)
<1> DEFINE t == Keep(s, S)
           u == Keep(t, R)
<1>1. t \in Seq(A) /\ \E m : Selects(m, t, s, S, Len(s))
  BY KeepMeaning
<1> HIDE DEF t
<1>2. u \in Seq(A) /\ \E m : Selects(m, u, t, R, Len(t))
  BY <1>1, KeepMeaning
<1> HIDE DEF u
<1>3. PICK m : Selects(m, t, s, S, Len(s))
  BY <1>1
<1>4. PICK k : Selects(k, u, t, R, Len(t))
  BY <1>2
<1> DEFINE c == [j \in 1 .. Len(u) |-> m[k[j]]]
<1>5. \A j \in 1 .. Len(u) : k[j] \in 1 .. Len(t) /\ t[k[j]] \in R /\ u[j] = t[k[j]]
  BY <1>4 DEF Selects
<1>6. \A i \in 1 .. Len(t) : m[i] \in 1 .. Len(s) /\ s[m[i]] \in S /\ t[i] = s[m[i]]
  BY <1>3 DEF Selects
<1>7. c \in [1 .. Len(u) -> {i \in 1 .. Len(s) : s[i] \in S \cap R}]
  BY <1>5, <1>6
<1>8. \A j \in 1 .. Len(u) : c[j] = m[k[j]] /\ u[j] = s[c[j]]
  BY <1>5, <1>6
<1> HIDE DEF c
<1>9. \A i, j \in 1 .. Len(u) : i < j => c[i] < c[j]
  <2>1. \A i, j \in 1 .. Len(u) : i < j => k[i] < k[j]
    BY <1>4 DEF Selects
  <2>2. \A i, j \in 1 .. Len(t) : i < j => m[i] < m[j]
    BY <1>3 DEF Selects
  <2>3. QED
    BY <1>5, <1>8, <2>1, <2>2
<1>10. ASSUME NEW i \in 1 .. Len(s), s[i] \in S \cap R PROVE \E j \in 1 .. Len(u) : c[j] = i
  <2>1. PICK x \in 1 .. Len(t) : m[x] = i
    BY <1>3, <1>10 DEF Selects
  <2>2. t[x] \in R
    BY <1>6, <1>10, <2>1
  <2>3. PICK j \in 1 .. Len(u) : k[j] = x
    BY <1>4, <2>2 DEF Selects
  <2>4. QED
    BY <1>8, <2>1, <2>3
<1>11. Selects(c, u, s, S \cap R, Len(s))
  BY <1>7, <1>8, <1>9, <1>10 DEF Selects
<1>12. u = Keep(s, S \cap R)
  BY <1>2, <1>11, KeepUnique
<1>13. QED
  BY <1>12 DEF u, t

LEMMA KeepAppend ==
  ASSUME NEW A, NEW s \in Seq(A), NEW x \in A, NEW S
  PROVE  Keep(Append(s, x), S) =
           IF x \in S THEN Append(Keep(s, S), x) ELSE Keep(s, S)
<1> DEFINE t == Keep(s, S)
           w == Append(s, x)
           u == IF x \in S THEN Append(t, x) ELSE t
<1>1. t \in Seq(A) /\ \E m : Selects(m, t, s, S, Len(s))
  BY KeepMeaning
<1> HIDE DEF t
<1>2. PICK m : Selects(m, t, s, S, Len(s))
  BY <1>1
<1>3. /\ w \in Seq(A) /\ Len(s) \in Nat /\ Len(w) = Len(s) + 1
      /\ w[Len(s) + 1] = x
      /\ \A i \in 1 .. Len(s) : w[i] = s[i]
  BY AppendProperties
<1> HIDE DEF w
<1>4. {i \in 1 .. Len(s) : s[i] \in S} = {i \in 1 .. Len(s) : w[i] \in S}
  BY <1>3
<1>5. \A j \in 1 .. Len(t) : m[j] \in 1 .. Len(s)
  BY <1>2 DEF Selects
<1>6. Selects(m, t, w, S, Len(s))
  BY <1>2, <1>3, <1>4, <1>5 DEF Selects
<1>7. u \in Seq(A) /\ \E k : Selects(k, u, w, S, Len(s) + 1)
  BY <1>1, <1>3, <1>6, SelectsOneMore
<1> HIDE DEF u
<1>8. Keep(w, S) = u
  BY <1>3, <1>7, KeepUnique
<1>9. QED
  BY <1>8 DEF u, t, w

(* A beginning of which nothing is kept may be cut off. *)
LEMMA KeepSuffix ==
  ASSUME NEW A, NEW s \in Seq(A), NEW S, NEW p \in 0 .. Len(s),
         \A i \in 1 .. p : s[i] \notin S
  PROVE  Keep(SubSeq(s, p + 1, Len(s)), S) = Keep(s, S)
<1> DEFINE w == SubSeq(s, p + 1, Len(s))
           u == Keep(w, S)
<1>1. Len(s) \in Nat /\ p \in Nat /\ p <= Len(s)
  OBVIOUS
<1>2. \A i \in (p + 1) .. Len(s) : s[i] \in A
  BY <1>1
<1>3. /\ w \in Seq(A)
      /\ Len(w) = Len(s) - p
      /\ \A i \in 1 .. Len(w) : w[i] = s[i + p]
  BY <1>1, <1>2, SubSeqProperties
<1> HIDE DEF w
<1>4. u \in Seq(A) /\ \E m : Selects(m, u, w, S, Len(w))
  BY <1>3, KeepMeaning
<1> HIDE DEF u
<1>5. PICK m : Selects(m, u, w, S, Len(w))
  BY <1>4
<1> DEFINE k == [j \in 1 .. Len(u) |-> m[j] + p]
<1>6. \A j \in 1 .. Len(u) : m[j] \in 1 .. Len(w) /\ w[m[j]] \in S /\ u[j] = w[m[j]]
  BY <1>5 DEF Selects
<1>7. \A j \in 1 .. Len(u) : k[j] = m[j] + p /\ k[j] \in 1 .. Len(s) /\ s[k[j]] = w[m[j]]
  BY <1>1, <1>3, <1>6
<1>8. k \in [1 .. Len(u) -> {i \in 1 .. Len(s) : s[i] \in S}]
  BY <1>6, <1>7
<1> HIDE DEF k
<1>9. ASSUME NEW i \in 1 .. Len(u), NEW j \in 1 .. Len(u), i < j PROVE k[i] < k[j]
  <2>1. m[i] < m[j]
    BY <1>5, <1>9 DEF Selects
  <2>2. QED
    BY <1>1, <1>3, <1>6, <1>7, <2>1
<1>10. ASSUME NEW i \in 1 .. Len(s), s[i] \in S PROVE \E j \in 1 .. Len(u) : k[j] = i
  <2>1. i - p \in 1 .. Len(w)
    BY <1>1, <1>3, <1>10
  <2>2. w[i - p] \in S
    BY <1>1, <1>3, <1>10, <2>1
  <2>3. PICK j \in 1 .. Len(u) : m[j] = i - p
    BY <1>5, <2>1, <2>2 DEF Selects
  <2>4. QED
    BY <1>1, <1>7, <2>3
<1>11. Selects(k, u, s, S, Len(s))
  BY <1>6, <1>7, <1>8, <1>9, <1>10 DEF Selects
<1>12. Keep(s, S) = u
  BY <1>4, <1>11, KeepUnique
<1>13. QED
  BY <1>12 DEF u, w

LEMMA KeepEmpty ==
  ASSUME NEW S
  PROVE  Keep(<<>>, S) = <<>>
<1>1. <<>> \in Seq({}) /\ Len(<<>>) = 0
  BY EmptySeq
<1>2. Len(Keep(<<>>, S)) \in Nat /\ Len(Keep(<<>>, S)) <= 0 /\ Keep(<<>>, S) \in Seq({})
  BY <1>1, KeepLength, KeepMeaning
<1>3. QED
  BY <1>2, EmptySeq

-----------------------------------------------------------------------------
(* Counting *)

(* As many as there are places with a member of S. *)
LEMMA KeepCount ==
  ASSUME NEW A, NEW s \in Seq(A), NEW S
  PROVE  Cardinality({i \in 1 .. Len(s) : s[i] \in S}) = Len(Keep(s, S))
<1> DEFINE u == Keep(s, S)
           P == {i \in 1 .. Len(s) : s[i] \in S}
<1>1. PICK m : Selects(m, u, s, S, Len(s))
  BY KeepMeaning
<1>2. Len(u) \in Nat
  BY KeepLength
<1> HIDE DEF u
<1>3. Enumerates(m, Len(u), P)
  BY <1>1 DEF Selects, Enumerates
<1>4. P \in SUBSET Int
  OBVIOUS
<1> HIDE DEF P
<1>5. m \in Bijection(1 .. Len(u), P)
  <2>1. m \in Injection(1 .. Len(u), P)
    BY <1>2, <1>3, <1>4, OrderReflected DEF Enumerates, Injection, IsInjective
  <2>2. m \in Surjection(1 .. Len(u), P)
    BY <1>3 DEF Enumerates, Surjection
  <2>3. QED
    BY <2>1, <2>2 DEF Bijection
<1>6. ExistsBijection(1 .. Len(u), P)
  BY <1>5 DEF ExistsBijection
<1>7. Cardinality(P) = Len(u)
  BY <1>2, <1>6, FS_CountingElements
<1>8. QED
  BY <1>7 DEF P, u

(* A sequence without repetition has as many members as it is long. *)
LEMMA DistinctCount ==
  ASSUME NEW A, NEW s \in Seq(A), Distinct(s)
  PROVE  IsFiniteSet(Members(s)) /\ Cardinality(Members(s)) = Len(s)
<1>1. s \in [1 .. Len(s) -> Members(s)] /\ Len(s) \in Nat
  BY DEF Members
<1>2. s \in Injection(1 .. Len(s), Members(s))
  BY <1>1 DEF Distinct, Injection, IsInjective
<1>3. s \in Surjection(1 .. Len(s), Members(s))
  BY <1>1 DEF Surjection, Members
<1>4. ExistsBijection(1 .. Len(s), Members(s))
  BY <1>2, <1>3 DEF Bijection, ExistsBijection
<1>5. QED
  BY <1>1, <1>4, FS_CountingElements, FS_NatBijection

-----------------------------------------------------------------------------
(* Ends *)

(* The last ones of a list without repetition. *)
LEMMA LastOnes ==
  ASSUME NEW A, NEW s \in Seq(A), Distinct(s), NEW n \in Nat \ {0}, n <= Len(s) + 1
  PROVE  LET w == SubSeq(s, n, Len(s))
         IN  /\ w \in Seq(A) /\ Len(w) = Len(s) - n + 1 /\ Distinct(w)
             /\ Members(w) \subseteq Members(s)
<1> DEFINE w == SubSeq(s, n, Len(s))
<1>1. Len(s) \in Nat /\ \A i \in n .. Len(s) : s[i] \in A
  OBVIOUS
<1>2. w \in Seq(A) /\ Len(w) = Len(s) - n + 1 /\ \A i \in 1 .. Len(w) : w[i] = s[n + i - 1]
  BY <1>1, SubSeqProperties
<1> HIDE DEF w
<1>3. \A i \in 1 .. Len(w) : n + i - 1 \in 1 .. Len(s)
  BY <1>1, <1>2
<1>4. Distinct(w)
  BY <1>1, <1>2, <1>3 DEF Distinct
<1>5. Members(w) \subseteq Members(s)
  BY <1>2, <1>3 DEF Members
<1>6. QED
  BY <1>2, <1>4, <1>5 DEF w

(* What is used goes to the end. *)
LEMMA UsedLast ==
  ASSUME NEW A, NEW s \in Seq(A), Distinct(s), NEW k \in A
  PROVE  LET w == Append(Drop(s, k), k)
         IN  /\ w \in Seq(A) /\ Distinct(w)
             /\ Len(w) \in Nat /\ Len(w) <= IF k \in Members(s) THEN Len(s) ELSE Len(s) + 1
             /\ Members(w) = Members(s) \cup {k}
<1> DEFINE d == Drop(s, k)
           w == Append(d, k)
<1>1. /\ d \in Seq(A) /\ Len(d) \in Nat /\ Len(d) <= Len(s) /\ Distinct(d)
      /\ Members(d) = Members(s) \ {k}
      /\ k \in Members(s) => Len(d) < Len(s)
  BY DropMembers
<1>2. Len(s) \in Nat
  OBVIOUS
<1> HIDE DEF d
<1>3. /\ w \in Seq(A) /\ Len(w) = Len(d) + 1 /\ w[Len(d) + 1] = k
      /\ \A i \in 1 .. Len(d) : w[i] = d[i]
  BY <1>1, AppendProperties
<1> HIDE DEF w
<1>4. \A i \in 1 .. Len(d) : d[i] # k
  BY <1>1 DEF Members
<1>5. Distinct(w)
  <2> SUFFICES ASSUME NEW i \in 1 .. Len(w), NEW j \in 1 .. Len(w), w[i] = w[j] PROVE i = j
    BY DEF Distinct
  <2>1. CASE i = Len(w) \/ j = Len(w)
    BY <1>1, <1>3, <1>4, <2>1
  <2>2. CASE i # Len(w) /\ j # Len(w)
    <3>1. i \in 1 .. Len(d) /\ j \in 1 .. Len(d)
      BY <1>1, <1>3, <2>2
    <3>2. d[i] = d[j]
      BY <1>3, <3>1
    <3>3. QED
      BY <1>1, <3>1, <3>2 DEF Distinct
  <2>3. QED
    BY <2>1, <2>2
<1>6. Members(w) = Members(d) \cup {k}
  <2>1. 1 .. Len(w) = 1 .. Len(d) \cup {Len(d) + 1}
    BY <1>1, <1>3
  <2>2. QED
    BY <1>3, <2>1 DEF Members
<1>7. QED
  BY <1>1, <1>2, <1>3, <1>5, <1>6 DEF w, d
=============================================================================
