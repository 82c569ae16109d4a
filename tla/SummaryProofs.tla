--------------------------- MODULE SummaryProofs ---------------------------
(***************************************************************************)
(* The numbers of a run summary, for any clock, any number of samples and  *)
(* any samples: the percentiles are the nearest-rank percentiles, the      *)
(* order in which the workers' samples are merged does not show, and the   *)
(* three distributions agree with each other and with the counts.          *)
(*                                                                         *)
(* The arguments are about sequences of any length.  Induction is used in  *)
(* the form of SetInduction, over a set of natural numbers.                *)
(***************************************************************************)
EXTENDS RunSummary, Integers, TLAPS, FiniteSetTheorems, WellFoundedInduction

-----------------------------------------------------------------------------
(* Induction *)

(* A set with 0 that is closed under successor has all natural numbers:    *)
(* otherwise the least number outside it has its predecessor inside.       *)
LEMMA SetInduction ==
  ASSUME NEW S, 0 \in S, \A n \in Nat : n \in S => n + 1 \in S
  PROVE  Nat \subseteq S
<1> SUFFICES ASSUME Nat \ S # {} PROVE FALSE
  OBVIOUS
<1> DEFINE T == Nat \ S
<1>1. IsWellFoundedOn(OpToRel(<, Nat), Nat)
  BY NatLessThanWellFounded
<1>2. PICK x \in T : \A y \in T : ~(<<y, x>> \in OpToRel(<, Nat))
  <2>1. T \subseteq Nat /\ T # {}
    OBVIOUS
  <2> HIDE DEF T
  <2> QED BY <1>1, <2>1, WFMin
<1>3. \A y \in T : ~(y < x)
  BY <1>2 DEF OpToRel
<1>4. x \in Nat /\ x # 0
  OBVIOUS
<1>5. x - 1 \in Nat /\ x - 1 < x /\ x = (x - 1) + 1
  BY <1>4
<1>6. x - 1 \in S
  BY <1>3, <1>5
<1> QED
  BY <1>5, <1>6

(* The same for a statement about the numbers 0 .. n: S holds those for    *)
(* which it is true.                                                       *)
LEMMA PrefixInduction ==
  ASSUME NEW n \in Nat, NEW S, 0 \in S,
         \A j \in 1 .. n : j - 1 \in S => j \in S
  PROVE  \A j \in 0 .. n : j \in S
<1> DEFINE U == {j \in Nat : j <= n => j \in S}
<1>1. 0 \in U
  OBVIOUS
<1>2. ASSUME NEW j \in Nat, j \in U PROVE j + 1 \in U
  <2>1. CASE j + 1 <= n
    <3>1. j \in S /\ j + 1 \in 1 .. n /\ (j + 1) - 1 = j
      BY <1>2, <2>1
    <3> QED
      BY <3>1
  <2>2. CASE ~(j + 1 <= n)
    BY <2>2
  <2> QED
    BY <2>1, <2>2
<1> HIDE DEF U
<1>3. Nat \subseteq U
  BY <1>1, <1>2, SetInduction
<1> QED
  BY <1>3 DEF U

-----------------------------------------------------------------------------
(* The sum of a sequence *)

(* The recursion of the summing loop has a solution: partial sums of every *)
(* length exist.                                                           *)
LEMMA TotalsExist ==
  ASSUME NEW n \in Nat, NEW v \in [1 .. n -> Int]
  PROVE  \E g \in [0 .. n -> Int] :
            g[0] = 0 /\ \A j \in 1 .. n : g[j] = g[j - 1] + v[j]
<1> DEFINE Sums(g, m) == g[0] = 0 /\ \A j \in 1 .. m : g[j] = g[j - 1] + v[j]
           S == {m \in 0 .. n : \E g \in [0 .. n -> Int] : Sums(g, m)}
<1>1. 0 \in S
  <2>1. [j \in 0 .. n |-> 0] \in [0 .. n -> Int] /\ Sums([j \in 0 .. n |-> 0], 0)
    OBVIOUS
  <2> HIDE DEF Sums
  <2> QED
    BY <2>1
<1>2. ASSUME NEW m \in 1 .. n, m - 1 \in S PROVE m \in S
  <2>1. PICK g \in [0 .. n -> Int] : Sums(g, m - 1)
    BY <1>2
  <2> DEFINE h == [g EXCEPT ![m] = g[m - 1] + v[m]]
  <2>2. h \in [0 .. n -> Int]
    OBVIOUS
  <2>3. h[0] = 0 /\ h[m] = h[m - 1] + v[m]
    BY <2>1
  <2>4. ASSUME NEW j \in 1 .. m - 1 PROVE h[j] = h[j - 1] + v[j]
    BY <2>1
  <2>5. \A j \in 1 .. m : j = m \/ j \in 1 .. m - 1
    OBVIOUS
  <2>6. Sums(h, m)
    <3> HIDE DEF h
    <3> QED
      BY <2>3, <2>4, <2>5
  <2> HIDE DEF Sums, h
  <2> QED
    BY <2>2, <2>6
<1>3. n \in S
  <2> HIDE DEF S
  <2>1. \A m \in 1 .. n : m - 1 \in S => m \in S
    BY <1>2
  <2>2. \A m \in 0 .. n : m \in S
    BY <1>1, <2>1, PrefixInduction
  <2> QED
    BY <2>2
<1> QED
  BY <1>3

(* A function on 1 .. n is a sequence of length n. *)
LEMMA LengthOf ==
  ASSUME NEW n \in Nat, NEW v, DOMAIN v = 1 .. n
  PROVE  Len(v) = n
OBVIOUS

(* What the rounds of the summing loop compute. *)
LEMMA TotalsAre ==
  ASSUME NEW n \in Nat, NEW v \in [1 .. n -> Int]
  PROVE  /\ totals(v) \in [0 .. n -> Int]
         /\ totals(v)[0] = 0
         /\ \A j \in 1 .. n : totals(v)[j] = totals(v)[j - 1] + v[j]
         /\ total(v) = totals(v)[n]
<1> DEFINE D(f) == f = [j \in 0 .. Len(v) |-> IF j = 0 THEN 0 ELSE f[j - 1] + v[j]]
<1>1. Len(v) = n
  BY LengthOf
<1>2. PICK g \in [0 .. n -> Int] : g[0] = 0 /\ \A j \in 1 .. n : g[j] = g[j - 1] + v[j]
  BY TotalsExist
<1>3. D(g)
  <2>1. \A j \in 0 .. n : g[j] = IF j = 0 THEN 0 ELSE g[j - 1] + v[j]
    BY <1>2
  <2> QED
    BY <1>1, <2>1
<1>4. totals(v) = CHOOSE f : D(f)
  BY DEF totals
<1>5. D(totals(v))
  <2> HIDE DEF D
  <2> QED
    BY <1>3, <1>4
<1> DEFINE f == totals(v)
<1>6. f = [j \in 0 .. n |-> IF j = 0 THEN 0 ELSE f[j - 1] + v[j]]
  BY <1>1, <1>5
<1> HIDE DEF f
<1>7. f[0] = 0 /\ \A j \in 1 .. n : f[j] = f[j - 1] + v[j]
  BY <1>6
<1>8. \A j \in 0 .. n : f[j] \in Int
  <2> DEFINE S == {j \in 0 .. n : f[j] \in Int}
  <2>1. 0 \in S
    BY <1>7
  <2>2. ASSUME NEW j \in 1 .. n, j - 1 \in S PROVE j \in S
    <3>1. f[j - 1] \in Int /\ v[j] \in Int /\ f[j] = f[j - 1] + v[j]
      BY <1>7, <2>2
    <3>2. f[j] \in Int
      BY <3>1
    <3> QED
      BY <3>2
  <2> HIDE DEF S
  <2>3. \A j \in 0 .. n : j \in S
    BY <2>1, <2>2, PrefixInduction
  <2> QED
    BY <2>3 DEF S
<1>9. f \in [0 .. n -> Int]
  BY <1>6, <1>8
<1>10. total(v) = f[n]
  BY <1>1 DEF total, f
<1> QED
  BY <1>7, <1>9, <1>10 DEF f

(* Whatever grows by the next value in every round is the partial sum.     *)
LEMMA TotalsUnique ==
  ASSUME NEW n \in Nat, NEW v \in [1 .. n -> Int], NEW g,
         g[0] = 0, \A j \in 1 .. n : g[j] = g[j - 1] + v[j]
  PROVE  total(v) = g[n]
<1> DEFINE f == totals(v)
           S == {j \in 0 .. n : f[j] = g[j]}
<1>1. f[0] = 0 /\ \A j \in 1 .. n : f[j] = f[j - 1] + v[j]
  BY TotalsAre
<1> HIDE DEF f
<1>2. 0 \in S
  BY <1>1
<1>3. \A j \in 1 .. n : j - 1 \in S => j \in S
  BY <1>1
<1> HIDE DEF S
<1>4. \A j \in 0 .. n : j \in S
  BY <1>2, <1>3, PrefixInduction
<1>5. f[n] = g[n]
  BY <1>4 DEF S
<1> QED
  BY <1>5, TotalsAre DEF f

(* Sums of sequences that are added place by place add up. *)
LEMMA TotalOfSum ==
  ASSUME NEW n \in Nat, NEW u \in [1 .. n -> Int], NEW v \in [1 .. n -> Int],
         NEW w \in [1 .. n -> Int], \A i \in 1 .. n : w[i] = u[i] + v[i]
  PROVE  total(w) = total(u) + total(v)
<1> DEFINE f == totals(u)
           h == totals(v)
           g == [j \in 0 .. n |-> f[j] + h[j]]
<1>1. /\ f \in [0 .. n -> Int] /\ f[0] = 0 /\ total(u) = f[n]
      /\ \A j \in 1 .. n : f[j] = f[j - 1] + u[j]
  BY TotalsAre
<1>2. /\ h \in [0 .. n -> Int] /\ h[0] = 0 /\ total(v) = h[n]
      /\ \A j \in 1 .. n : h[j] = h[j - 1] + v[j]
  BY TotalsAre
<1> HIDE DEF f, h
<1>3. g[0] = 0 /\ g[n] = total(u) + total(v)
  BY <1>1, <1>2
<1>4. ASSUME NEW j \in 1 .. n PROVE g[j] = g[j - 1] + w[j]
  BY <1>1, <1>2
<1> HIDE DEF g
<1> QED
  BY <1>3, <1>4, TotalsUnique

(* n values between a and b have a sum between n * a and n * b. *)
LEMMA TotalBetween ==
  ASSUME NEW n \in Nat, NEW v \in [1 .. n -> Int], NEW a \in Int, NEW b \in Int,
         \A i \in 1 .. n : a <= v[i] /\ v[i] <= b
  PROVE  n * a <= total(v) /\ total(v) <= n * b
<1> DEFINE f == totals(v)
           S == {j \in 0 .. n : j * a <= f[j] /\ f[j] <= j * b}
<1>1. /\ f \in [0 .. n -> Int] /\ f[0] = 0 /\ total(v) = f[n]
      /\ \A j \in 1 .. n : f[j] = f[j - 1] + v[j]
  BY TotalsAre
<1> HIDE DEF f
<1>2. 0 \in S
  BY <1>1
<1>3. ASSUME NEW j \in 1 .. n, j - 1 \in S PROVE j \in S
  <2>1. (j - 1) * a <= f[j - 1] /\ f[j - 1] <= (j - 1) * b
    BY <1>3
  <2>2. a <= v[j] /\ v[j] <= b /\ f[j] = f[j - 1] + v[j]
    BY <1>1
  <2>3. j * a = (j - 1) * a + a /\ j * b = (j - 1) * b + b
    OBVIOUS
  <2>4. f[j - 1] \in Int /\ v[j] \in Int /\ (j - 1) * a \in Int /\ (j - 1) * b \in Int
    BY <1>1
  <2>5. j * a <= f[j] /\ f[j] <= j * b
    BY <2>1, <2>2, <2>3, <2>4
  <2> QED
    BY <2>5
<1> HIDE DEF S
<1>4. \A j \in 1 .. n : j - 1 \in S => j \in S
  BY <1>3
<1>5. \A j \in 0 .. n : j \in S
  BY <1>2, <1>4, PrefixInduction
<1> QED
  BY <1>1, <1>5 DEF S

-----------------------------------------------------------------------------
(* Sorting *)

(* A set of positions is finite, a smaller one has fewer elements. *)
LEMMA Positions ==
  ASSUME NEW n \in Nat, NEW B \in SUBSET (1 .. n)
  PROVE  /\ IsFiniteSet(B)
         /\ Cardinality(B) \in 0 .. n
         /\ B # {} => Cardinality(B) # 0
         /\ \A A \in SUBSET B : Cardinality(A) \in Nat /\ Cardinality(A) <= Cardinality(B)
         /\ \A A \in SUBSET B : A # B => Cardinality(A) < Cardinality(B)
<1>1. IsFiniteSet(1 .. n) /\ Cardinality(1 .. n) = n
  BY FS_Interval
<1>2. IsFiniteSet(B) /\ Cardinality(B) <= n
  BY <1>1, FS_Subset
<1>3. Cardinality(B) \in Nat
  BY <1>2, FS_CardinalityType
<1>4. B # {} => Cardinality(B) # 0
  BY <1>2, FS_EmptySet
<1>5. ASSUME NEW A \in SUBSET B
      PROVE  /\ Cardinality(A) \in Nat
             /\ Cardinality(A) <= Cardinality(B)
             /\ A # B => Cardinality(A) < Cardinality(B)
  <2>1. IsFiniteSet(A) /\ Cardinality(A) <= Cardinality(B)
    BY <1>2, FS_Subset
  <2>2. Cardinality(A) \in Nat
    BY <2>1, FS_CardinalityType
  <2>3. A # B => Cardinality(A) # Cardinality(B)
    BY <1>2, FS_Subset
  <2> QED
    BY <2>1, <2>2, <2>3, <1>3
<1> QED
  BY <1>2, <1>3, <1>4, <1>5

(* The values that std::sort puts up to the place of value i. *)
UpTo(v, n, i) == {j \in 1 .. n : v[j] < v[i] \/ (v[j] = v[i] /\ j <= i)}

(* A place is one of the positions 1 .. n. *)
LEMMA PlaceIs ==
  ASSUME NEW n \in Nat, NEW v \in [1 .. n -> Int], NEW i \in 1 .. n
  PROVE  place(v, i) = Cardinality(UpTo(v, n, i)) /\ place(v, i) \in 1 .. n
<1>1. place(v, i) = Cardinality(UpTo(v, n, i))
  BY DEF place, UpTo
<1>2. UpTo(v, n, i) \in SUBSET (1 .. n) /\ i \in UpTo(v, n, i)
  BY DEF UpTo
<1> HIDE DEF UpTo
<1>3. Cardinality(UpTo(v, n, i)) \in 0 .. n /\ Cardinality(UpTo(v, n, i)) # 0
  BY <1>2, Positions
<1> QED
  BY <1>1, <1>3

(* No two values get the same place: of two values one goes first. *)
LEMMA PlacesDiffer ==
  ASSUME NEW n \in Nat, NEW v \in [1 .. n -> Int], NEW i \in 1 .. n, NEW j \in 1 .. n,
         place(v, i) = place(v, j)
  PROVE  i = j
<1>1. ASSUME NEW a \in 1 .. n, NEW b \in 1 .. n,
             v[a] < v[b] \/ (v[a] = v[b] /\ a < b)
      PROVE  place(v, a) < place(v, b)
  <2>1. UpTo(v, n, a) \in SUBSET UpTo(v, n, b)
    BY <1>1 DEF UpTo
  <2>2. b \in UpTo(v, n, b) /\ b \notin UpTo(v, n, a)
    BY <1>1 DEF UpTo
  <2>3. UpTo(v, n, b) \in SUBSET (1 .. n)
    BY DEF UpTo
  <2>4. Cardinality(UpTo(v, n, a)) < Cardinality(UpTo(v, n, b))
    BY <2>1, <2>2, <2>3, Positions
  <2> QED
    BY <2>4, PlaceIs
<1>2. place(v, i) \in Int /\ place(v, j) \in Int
  BY PlaceIs
<1>3. v[i] \in Int /\ v[j] \in Int
  OBVIOUS
<1>4. ~(v[i] < v[j]) /\ ~(v[j] < v[i])
  BY <1>1, <1>2
<1>5. v[i] = v[j]
  BY <1>3, <1>4
<1>6. ~(i < j) /\ ~(j < i)
  BY <1>1, <1>2, <1>5
<1> QED
  BY <1>6

(* Hence every place is taken. *)
LEMMA PlacesTaken ==
  ASSUME NEW n \in Nat, NEW v \in [1 .. n -> Int], NEW k \in 1 .. n
  PROVE  \E i \in 1 .. n : place(v, i) = k
<1> DEFINE f == [i \in 1 .. n |-> place(v, i)]
<1>1. f \in [1 .. n -> 1 .. n]
  BY PlaceIs
<1>2. \A i, j \in 1 .. n : f[i] = f[j] => i = j
  BY PlacesDiffer
<1>3. \A i \in 1 .. n : f[i] = place(v, i)
  OBVIOUS
<1> HIDE DEF f
<1>4. f \in Injection(1 .. n, 1 .. n)
  BY <1>1, <1>2 DEF Injection, IsInjective
<1>5. f \in Surjection(1 .. n, 1 .. n)
  <2>1. IsFiniteSet(1 .. n)
    BY FS_Interval
  <2> QED
    BY <1>4, <2>1, FS_Injection
<1>6. \E i \in 1 .. n : f[i] = k
  BY <1>5 DEF Surjection
<1> QED
  BY <1>3, <1>6

(* The sorted sequence is a permutation of the values. *)
LEMMA SortPermutes ==
  ASSUME NEW n \in Nat, NEW v \in [1 .. n -> Int]
  PROVE  \E p \in [1 .. n -> 1 .. n] :
            /\ \A k \in 1 .. n : place(v, p[k]) = k
            /\ sort(v) = [k \in 1 .. n |-> v[p[k]]]
<1> DEFINE p == [k \in 1 .. n |-> CHOOSE i \in 1 .. n : place(v, i) = k]
           placed == {<<place(v, i), v[i]>> : i \in 1 .. n}
<1>1. ASSUME NEW k \in 1 .. n PROVE p[k] \in 1 .. n /\ place(v, p[k]) = k
  <2>1. \E i \in 1 .. n : place(v, i) = k
    BY PlacesTaken
  <2> QED
    BY <2>1
<1>2. sort(v) = [k \in 1 .. n |-> (CHOOSE q \in placed : q[1] = k)[2]]
  <2>1. sort(v) = [k \in DOMAIN v |->
          (CHOOSE q \in {<<place(v, i), v[i]>> : i \in DOMAIN v} : q[1] = k)[2]]
    BY DEF sort
  <2>2. DOMAIN v = 1 .. n
    OBVIOUS
  <2> QED
    BY <2>1, <2>2
<1>3. p \in [1 .. n -> 1 .. n]
  BY <1>1
<1> HIDE DEF p
<1>4. ASSUME NEW k \in 1 .. n PROVE (CHOOSE q \in placed : q[1] = k)[2] = v[p[k]]
  <2>1. <<place(v, p[k]), v[p[k]]>> \in placed
    BY <1>1
  <2>2. \E q \in placed : q[1] = k
    <3>1. <<place(v, p[k]), v[p[k]]>>[1] = k
      BY <1>1
    <3> QED
      BY <2>1, <3>1
  <2>3. ASSUME NEW q \in placed, q[1] = k PROVE q[2] = v[p[k]]
    <3>1. PICK i \in 1 .. n : q = <<place(v, i), v[i]>>
      BY <2>3
    <3>2. place(v, i) = place(v, p[k])
      BY <1>1, <2>3, <3>1
    <3>3. i = p[k]
      BY <1>1, <3>2, PlacesDiffer
    <3> QED
      BY <3>1, <3>3
  <2> DEFINE q0 == CHOOSE q \in placed : q[1] = k
  <2> HIDE DEF placed
  <2>4. q0 \in placed /\ q0[1] = k
    BY <2>2
  <2> QED
    BY <2>3, <2>4
<1>5. sort(v) = [k \in 1 .. n |-> v[p[k]]]
  <2> HIDE DEF placed
  <2> QED
    BY <1>2, <1>4
<1>6. \A k \in 1 .. n : place(v, p[k]) = k
  BY <1>1
<1> QED
  BY <1>3, <1>5, <1>6, Zenon

(* How many values do not exceed x, and how many are below it. *)
AtMost(v, n, x) == Cardinality({i \in 1 .. n : v[i] <= x})
Below(v, n, x) == Cardinality({i \in 1 .. n : v[i] < x})

(* Both are at most n. *)
LEMMA CountTypes ==
  ASSUME NEW n \in Nat, NEW v, NEW x
  PROVE  AtMost(v, n, x) \in 0 .. n /\ Below(v, n, x) \in 0 .. n
<1>1. {i \in 1 .. n : v[i] <= x} \in SUBSET (1 .. n)
  OBVIOUS
<1>2. {i \in 1 .. n : v[i] < x} \in SUBSET (1 .. n)
  OBVIOUS
<1>3. Cardinality({i \in 1 .. n : v[i] <= x}) \in 0 .. n
  BY <1>1, Positions
<1>4. Cardinality({i \in 1 .. n : v[i] < x}) \in 0 .. n
  BY <1>2, Positions
<1> QED
  BY <1>3, <1>4 DEF AtMost, Below

(* Whatever does not exceed the smaller of two values is below the other.  *)
LEMMA CountOrder ==
  ASSUME NEW n \in Nat, NEW v \in [1 .. n -> Int], NEW x \in Int, NEW y \in Int, x < y
  PROVE  AtMost(v, n, x) <= Below(v, n, y)
<1> DEFINE A == {i \in 1 .. n : v[i] <= x}
           B == {i \in 1 .. n : v[i] < y}
<1>1. A \in SUBSET B /\ B \in SUBSET (1 .. n)
  OBVIOUS
<1> HIDE DEF A, B
<1>2. Cardinality(A) <= Cardinality(B)
  BY <1>1, Positions
<1> QED
  BY <1>2 DEF AtMost, Below, A, B

(* The value that sorting puts at place k is one of the values; k values   *)
(* do not exceed it, and fewer than k are below it.                        *)
LEMMA KthValue ==
  ASSUME NEW n \in Nat, NEW v \in [1 .. n -> Int], NEW k \in 1 .. n
  PROVE  /\ \E i \in 1 .. n : v[i] = sort(v)[k]
         /\ sort(v)[k] \in Int
         /\ k <= AtMost(v, n, sort(v)[k])
         /\ Below(v, n, sort(v)[k]) < k
<1>1. PICK p \in [1 .. n -> 1 .. n] :
        (\A j \in 1 .. n : place(v, p[j]) = j) /\ sort(v) = [j \in 1 .. n |-> v[p[j]]]
  BY SortPermutes
<1> DEFINE i == p[k]
           A == {j \in 1 .. n : v[j] <= v[i]}
           B == {j \in 1 .. n : v[j] < v[i]}
           U == UpTo(v, n, i)
<1>2. i \in 1 .. n /\ place(v, i) = k /\ sort(v)[k] = v[i] /\ v[i] \in Int
  BY <1>1
<1> HIDE DEF i
<1>3. k = Cardinality(U)
  BY <1>2, PlaceIs
<1>4. U \in SUBSET A /\ A \in SUBSET (1 .. n)
  <2>1. ASSUME NEW j \in U PROVE j \in A
    <3>1. j \in 1 .. n /\ (v[j] < v[i] \/ v[j] = v[i])
      BY DEF UpTo
    <3>2. v[j] \in Int
      BY <3>1
    <3>3. \A x, y \in Int : x < y \/ x = y => x <= y
      OBVIOUS
    <3>4. v[j] <= v[i]
      BY <3>1, <3>2, <3>3, <1>2, Zenon
    <3> QED
      BY <3>1, <3>4
  <2> QED
    BY <2>1
<1>5. B \in SUBSET U /\ U \in SUBSET (1 .. n) /\ B # U
  <2>1. i \in U /\ i \notin B
    BY <1>2 DEF UpTo
  <2>2. B \in SUBSET U /\ U \in SUBSET (1 .. n)
    BY <1>2 DEF UpTo
  <2> QED
    BY <2>1, <2>2
<1> HIDE DEF A, B, U
<1>6. Cardinality(U) <= Cardinality(A)
  BY <1>4, Positions
<1>7. Cardinality(B) < Cardinality(U)
  BY <1>5, Positions
<1>8. Cardinality(A) = AtMost(v, n, sort(v)[k]) /\ Cardinality(B) = Below(v, n, sort(v)[k])
  BY <1>2 DEF AtMost, Below, A, B
<1>9. \E j \in 1 .. n : v[j] = sort(v)[k]
  BY <1>2
<1> QED
  BY <1>2, <1>3, <1>6, <1>7, <1>8, <1>9

-----------------------------------------------------------------------------
(* Percentiles *)

(* nearest_rank_index stays inside the sequence and rounds up: the rank is *)
(* the first that covers percent of the n values.                          *)
LEMMA NearestRank ==
  ASSUME NEW percent \in 0 .. 100, NEW n \in Nat \ {0}
  PROVE  LET r == nearest_rank_index(percent, n) + 1
         IN  /\ r \in 1 .. n
             /\ percent * n <= 100 * r
             /\ r = 1 \/ 100 * (r - 1) < percent * n
<1>1. PICK x \in Nat : x = percent * n
  OBVIOUS
<1>2. x <= 100 * n
  <2>1. PICK y \in Nat : percent + y = 100
    <3>1. 100 - percent \in Nat /\ percent + (100 - percent) = 100
      OBVIOUS
    <3> QED
      BY <3>1
  <2>2. 100 * n = percent * n + y * n /\ y * n \in Nat
    BY <2>1
  <2> QED
    BY <1>1, <2>2
<1> DEFINE rank == (x + 99) \div 100
<1>3. rank \in Nat /\ x <= 100 * rank /\ 100 * rank < x + 100
  OBVIOUS
<1>4. nearest_rank_index(percent, n) =
        (IF rank < 1 THEN 1 ELSE IF rank > n THEN n ELSE rank) - 1
  BY <1>1 DEF nearest_rank_index
<1> HIDE DEF rank
<1>5. rank <= n
  BY <1>2, <1>3
<1>6. CASE rank < 1
  BY <1>1, <1>3, <1>4, <1>6
<1>7. CASE rank >= 1
  <2>1. nearest_rank_index(percent, n) + 1 = rank
    BY <1>3, <1>4, <1>5, <1>7
  <2>2. rank \in 1 .. n /\ 100 * (rank - 1) < x
    BY <1>3, <1>5, <1>7
  <2> QED
    BY <1>1, <1>3, <2>1, <2>2
<1> QED
  BY <1>3, <1>6, <1>7

(* The value at a rank that covers percent of the values, and is the first *)
(* to do so, is that percentile.                                           *)
LEMMA RankIsPercentile ==
  ASSUME NEW n \in Nat, NEW v \in [1 .. n -> Int], NEW percent \in 0 .. 100,
         NEW r \in 1 .. n, percent * n <= 100 * r,
         r = 1 \/ 100 * (r - 1) < percent * n
  PROVE  IsPercentile(sort(v)[r], percent, v)
<1> DEFINE s == sort(v)[r]
<1>1. /\ \E i \in 1 .. n : v[i] = s
      /\ s \in Int /\ r <= AtMost(v, n, s) /\ Below(v, n, s) < r
  BY KthValue
<1> HIDE DEF s
<1>2. Len(v) = n /\ DOMAIN v = 1 .. n
  BY LengthOf
<1>3. AtMost(v, n, s) \in Int /\ Below(v, n, s) \in Nat /\ percent * n \in Int
  BY CountTypes
<1>4. 100 * AtMost(v, n, s) >= percent * n
  BY <1>1, <1>3
<1>5. ASSUME NEW i \in 1 .. n, v[i] < s PROVE 100 * AtMost(v, n, v[i]) < percent * n
  <2>1. v[i] \in Int
    OBVIOUS
  <2>2. AtMost(v, n, v[i]) <= Below(v, n, s) /\ AtMost(v, n, v[i]) \in Int
    <3>1. AtMost(v, n, v[i]) <= Below(v, n, s)
      BY <1>1, <1>5, <2>1, CountOrder, Zenon
    <3>2. AtMost(v, n, v[i]) \in 0 .. n
      BY CountTypes, Zenon
    <3> QED
      BY <3>1, <3>2
  <2>3. r # 1
    <3> DEFINE A == {j \in 1 .. n : v[j] <= v[i]}
    <3>1. i \in A
      <4>1. v[i] <= v[i]
        BY <2>1
      <4> QED
        BY <4>1
    <3>2. A \in SUBSET (1 .. n)
      OBVIOUS
    <3>3. Cardinality(A) # 0
      <4> HIDE DEF A
      <4> QED
        BY <3>1, <3>2, Positions
    <3>4. AtMost(v, n, v[i]) # 0 /\ AtMost(v, n, v[i]) \in Nat
      <4>1. AtMost(v, n, v[i]) = Cardinality(A)
        BY DEF AtMost
      <4>2. AtMost(v, n, v[i]) \in 0 .. n
        BY CountTypes
      <4> HIDE DEF A
      <4> QED
        BY <3>3, <4>1, <4>2
    <3> QED
      BY <1>1, <1>3, <2>2, <3>4
  <2> QED
    BY <1>1, <1>3, <2>2, <2>3
<1> QED
  BY <1>1, <1>2, <1>4, <1>5 DEF IsPercentile, AtMost, s

(* stats_from describes the durations it is given. *)
LEMMA StatsDescribe ==
  ASSUME NEW n \in Nat, NEW v \in [1 .. n -> Int]
  PROVE  Describes(stats_from(v), v)
<1>1. Len(v) = n
  BY LengthOf
<1>2. CASE n = 0
  <2>1. stats_from(v) = NoStats
    BY <1>1, <1>2 DEF stats_from
  <2>2. mean(NoStats) = 0
    BY DEF mean, NoStats
  <2>3. v = <<>>
    BY <1>2
  <2> QED
    BY <2>1, <2>2, <2>3 DEF Describes
<1>3. CASE n # 0
  <2> DEFINE a == nearest_rank_index(50, n) + 1
             b == nearest_rank_index(95, n) + 1
  <2>1. stats_from(v) =
          [count |-> n, min |-> sort(v)[1], p50 |-> sort(v)[a], p95 |-> sort(v)[b],
           max |-> sort(v)[n], total |-> total(sort(v))]
    BY <1>1, <1>3 DEF stats_from
  <2>2. a \in 1 .. n /\ 50 * n <= 100 * a /\ (a = 1 \/ 100 * (a - 1) < 50 * n)
    BY <1>3, NearestRank
  <2>3. b \in 1 .. n /\ 95 * n <= 100 * b /\ (b = 1 \/ 100 * (b - 1) < 95 * n)
    BY <1>3, NearestRank
  <2> HIDE DEF a, b
  <2>4. 1 \in 1 .. n /\ 0 * n <= 100 * 1
    BY <1>3
  <2>5. n \in 1 .. n /\ 100 * n <= 100 * n /\ 100 * (n - 1) < 100 * n
    BY <1>3
  <2>6. IsPercentile(sort(v)[a], 50, v)
    BY <2>2, RankIsPercentile
  <2>7. IsPercentile(sort(v)[b], 95, v)
    BY <2>3, RankIsPercentile
  <2>8. IsPercentile(sort(v)[1], 0, v)
    BY <2>4, RankIsPercentile
  <2>9. IsPercentile(sort(v)[n], 100, v)
    BY <2>5, RankIsPercentile
  <2>10. v # <<>>
    BY <1>1, <1>3
  <2> QED
    BY <1>1, <2>1, <2>6, <2>7, <2>8, <2>9, <2>10 DEF Describes
<1> QED
  BY <1>2, <1>3

-----------------------------------------------------------------------------
(* The order of the values does not matter *)

Permutes(p, n) ==
  /\ p \in [1 .. n -> 1 .. n]
  /\ \A i, j \in 1 .. n : p[i] = p[j] => i = j
  /\ \A k \in 1 .. n : \E i \in 1 .. n : p[i] = k

(* A permutation takes as many positions into a set as the set has. *)
LEMMA PermutedCount ==
  ASSUME NEW n \in Nat, NEW p, Permutes(p, n), NEW A \in SUBSET (1 .. n)
  PROVE  Cardinality({i \in 1 .. n : p[i] \in A}) = Cardinality(A)
<1> DEFINE B == {i \in 1 .. n : p[i] \in A}
           f == [i \in B |-> p[i]]
<1>1. B \in SUBSET (1 .. n)
  OBVIOUS
<1>2. f \in [B -> A] /\ \A i, j \in B : f[i] = f[j] => i = j
  BY DEF Permutes
<1>3. \A a \in A : \E i \in B : f[i] = a
  BY DEF Permutes
<1> HIDE DEF f, B
<1>4. f \in Injection(B, A)
  BY <1>2 DEF Injection, IsInjective
<1>5. f \in Surjection(B, A)
  BY <1>2, <1>3 DEF Surjection
<1>6. IsFiniteSet(A)
  BY Positions
<1>7. Cardinality(B) = Cardinality(A)
  BY <1>4, <1>5, <1>6, FS_Injection
<1> QED
  BY <1>7 DEF B

(* The k-th smallest value is determined by how many values do not exceed  *)
(* a number and how many are below it, for every number.                   *)
LEMMA CountsDetermineSort ==
  ASSUME NEW n \in Nat, NEW v \in [1 .. n -> Int], NEW w \in [1 .. n -> Int],
         \A x \in Int : AtMost(v, n, x) = AtMost(w, n, x) /\ Below(v, n, x) = Below(w, n, x)
  PROVE  sort(v) = sort(w)
<1>1. ASSUME NEW k \in 1 .. n PROVE sort(v)[k] = sort(w)[k]
  <2> DEFINE x == sort(v)[k]
             y == sort(w)[k]
  <2>1. x \in Int /\ k <= AtMost(v, n, x) /\ Below(v, n, x) < k
    BY KthValue, Zenon
  <2>2. y \in Int /\ k <= AtMost(w, n, y) /\ Below(w, n, y) < k
    BY KthValue, Zenon
  <2> HIDE DEF x, y
  <2>3. /\ AtMost(v, n, x) \in 0 .. n /\ Below(v, n, x) \in 0 .. n
        /\ AtMost(w, n, y) \in 0 .. n /\ Below(w, n, y) \in 0 .. n
    BY CountTypes, Zenon
  <2>4. ~(x < y)
    <3>1. x < y => AtMost(v, n, x) <= Below(v, n, y)
      BY <2>1, <2>2, CountOrder
    <3>2. Below(v, n, y) = Below(w, n, y)
      BY <2>2
    <3> QED
      BY <2>1, <2>2, <2>3, <3>1, <3>2
  <2>5. ~(y < x)
    <3>1. y < x => AtMost(w, n, y) <= Below(w, n, x)
      BY <2>1, <2>2, CountOrder
    <3>2. Below(v, n, x) = Below(w, n, x)
      BY <2>1
    <3> QED
      BY <2>1, <2>2, <2>3, <3>1, <3>2
  <2>6. x = y
    BY <2>1, <2>2, <2>4, <2>5
  <2> QED
    BY <2>6 DEF x, y
<1>2. ASSUME NEW u \in [1 .. n -> Int] PROVE sort(u) = [k \in 1 .. n |-> sort(u)[k]]
  <2>1. PICK p \in [1 .. n -> 1 .. n] :
          /\ \A k \in 1 .. n : place(u, p[k]) = k
          /\ sort(u) = [k \in 1 .. n |-> u[p[k]]]
    BY SortPermutes, Zenon
  <2> QED
    BY <2>1
<1>3. sort(v) = [k \in 1 .. n |-> sort(v)[k]] /\ sort(w) = [k \in 1 .. n |-> sort(w)[k]]
  BY <1>2
<1> QED
  BY <1>1, <1>3

(* A permutation of the values has the same sorted sequence. *)
LEMMA PermutedSort ==
  ASSUME NEW n \in Nat, NEW v \in [1 .. n -> Int], NEW w \in [1 .. n -> Int],
         NEW p, Permutes(p, n), \A i \in 1 .. n : w[i] = v[p[i]]
  PROVE  sort(w) = sort(v)
<1>1. \A i \in 1 .. n : p[i] \in 1 .. n
  BY DEF Permutes
<1>2. ASSUME NEW x \in Int
      PROVE  AtMost(w, n, x) = AtMost(v, n, x) /\ Below(w, n, x) = Below(v, n, x)
  <2> DEFINE A == {i \in 1 .. n : v[i] <= x}
             B == {i \in 1 .. n : v[i] < x}
  <2>1. A \in SUBSET (1 .. n) /\ B \in SUBSET (1 .. n)
    OBVIOUS
  <2>2. {i \in 1 .. n : w[i] <= x} = {i \in 1 .. n : p[i] \in A}
    BY <1>1
  <2>3. {i \in 1 .. n : w[i] < x} = {i \in 1 .. n : p[i] \in B}
    BY <1>1
  <2>4. AtMost(v, n, x) = Cardinality(A) /\ Below(v, n, x) = Cardinality(B)
    BY DEF AtMost, Below
  <2> HIDE DEF A, B
  <2>5. AtMost(w, n, x) = Cardinality(A)
    BY <2>1, <2>2, PermutedCount DEF AtMost
  <2>6. Below(w, n, x) = Cardinality(B)
    BY <2>1, <2>3, PermutedCount DEF Below
  <2> QED
    BY <2>4, <2>5, <2>6
<1> QED
  BY <1>2, CountsDetermineSort

(* Sorting permutes, so the sum is the same: values between 0 and M add up *)
(* to the number of values that reach 1, plus those that reach 2, and so   *)
(* on up to M, and these numbers do not depend on the order.               *)
LEMMA SortIsPermutation ==
  ASSUME NEW n \in Nat, NEW v \in [1 .. n -> Int]
  PROVE  \E p : Permutes(p, n) /\ sort(v) = [k \in 1 .. n |-> v[p[k]]]
<1>1. PICK p \in [1 .. n -> 1 .. n] :
        /\ \A k \in 1 .. n : place(v, p[k]) = k
        /\ sort(v) = [k \in 1 .. n |-> v[p[k]]]
  BY SortPermutes, Zenon
<1>2. \A i, j \in 1 .. n : p[i] = p[j] => i = j
  BY <1>1, Zenon
<1>3. ASSUME NEW k \in 1 .. n PROVE \E i \in 1 .. n : p[i] = k
  <2>1. place(v, k) \in 1 .. n
    BY PlaceIs
  <2>2. p[place(v, k)] \in 1 .. n /\ place(v, p[place(v, k)]) = place(v, k)
    BY <1>1, <2>1
  <2>3. p[place(v, k)] = k
    BY <2>2, PlacesDiffer
  <2> QED
    BY <2>1, <2>3
<1>4. Permutes(p, n)
  BY <1>2, <1>3 DEF Permutes
<1> QED
  BY <1>1, <1>4

(* The first j values that reach x. *)
Reach(v, j, x) == {i \in 1 .. j : x <= v[i]}

(* The j-th value adds itself to the numbers it reaches. *)
LEMMA OneMoreReaches ==
  ASSUME NEW n \in Nat, NEW v \in [1 .. n -> Int], NEW j \in 1 .. n, NEW x \in Int
  PROVE  /\ Cardinality(Reach(v, j - 1, x)) \in Nat
         /\ Cardinality(Reach(v, j, x)) =
              Cardinality(Reach(v, j - 1, x)) + (IF x <= v[j] THEN 1 ELSE 0)
<1> DEFINE R == Reach(v, j - 1, x)
<1>1. R \in SUBSET (1 .. n) /\ j \notin R
  BY DEF Reach
<1>2. CASE x <= v[j]
  <2>1. Reach(v, j, x) = R \cup {j}
    BY <1>2 DEF Reach
  <2> HIDE DEF R
  <2>2. IsFiniteSet(R) /\ Cardinality(R) \in 0 .. n
    BY <1>1, Positions
  <2>3. Cardinality(R \cup {j}) = Cardinality(R) + 1
    BY <1>1, <2>2, FS_AddElement
  <2> QED
    BY <1>2, <2>1, <2>2, <2>3 DEF R
<1>3. CASE ~(x <= v[j])
  <2>1. Reach(v, j, x) = R
    BY <1>3 DEF Reach
  <2> HIDE DEF R
  <2>2. Cardinality(R) \in 0 .. n
    BY <1>1, Positions
  <2> QED
    BY <1>3, <2>1, <2>2 DEF R
<1> QED
  BY <1>2, <1>3

(* A number y up to M is the sum of y ones and M - y zeros. *)
LEMMA TotalOfOnes ==
  ASSUME NEW M \in Nat, NEW y \in 0 .. M
  PROVE  total([x \in 1 .. M |-> IF x <= y THEN 1 ELSE 0]) = y
<1> DEFINE u == [x \in 1 .. M |-> IF x <= y THEN 1 ELSE 0]
           g == [m \in 0 .. M |-> IF m <= y THEN m ELSE y]
<1>1. u \in [1 .. M -> Int]
  OBVIOUS
<1>2. g[0] = 0 /\ g[M] = y
  OBVIOUS
<1>3. ASSUME NEW m \in 1 .. M PROVE g[m] = g[m - 1] + u[m]
  OBVIOUS
<1> HIDE DEF u, g
<1>4. total(u) = y
  BY <1>1, <1>2, <1>3, TotalsUnique
<1> QED
  BY <1>4 DEF u

(* Zeros add up to zero. *)
LEMMA TotalOfNothing ==
  ASSUME NEW M \in Nat, NEW u \in [1 .. M -> Int], \A x \in 1 .. M : u[x] = 0
  PROVE  total(u) = 0
<1> DEFINE g == [m \in 0 .. M |-> 0]
<1>1. g[0] = 0 /\ g[M] = 0
  OBVIOUS
<1>2. \A m \in 1 .. M : g[m] = g[m - 1] + u[m]
  OBVIOUS
<1> HIDE DEF g
<1> QED
  BY <1>1, <1>2, TotalsUnique

(* The sum, counted number by number instead of value by value. *)
LEMMA TotalByLayers ==
  ASSUME NEW n \in Nat, NEW M \in Nat, NEW v \in [1 .. n -> 0 .. M]
  PROVE  total(v) = total([x \in 1 .. M |-> Cardinality(Reach(v, n, x))])
<1> DEFINE C(j) == [x \in 1 .. M |-> Cardinality(Reach(v, j, x))]
           g == [j \in 0 .. n |-> total(C(j))]
<1>1. v \in [1 .. n -> Int]
  OBVIOUS
<1>2. ASSUME NEW j \in 0 .. n PROVE C(j) \in [1 .. M -> Int]
  <2>1. ASSUME NEW x \in 1 .. M PROVE Cardinality(Reach(v, j, x)) \in Int
    <3>1. Reach(v, j, x) \in SUBSET (1 .. n)
      BY DEF Reach
    <3>2. Cardinality(Reach(v, j, x)) \in 0 .. n
      BY <3>1, Positions
    <3> QED
      BY <3>2
  <2> QED
    BY <2>1
<1>3. total(C(0)) = 0
  <2>1. ASSUME NEW x \in 1 .. M PROVE C(0)[x] = 0
    <3>1. Reach(v, 0, x) = {}
      BY DEF Reach
    <3> QED
      BY <3>1, FS_EmptySet
  <2> HIDE DEF C
  <2> QED
    BY <1>2, <2>1, TotalOfNothing
<1>4. ASSUME NEW j \in 1 .. n PROVE total(C(j)) = total(C(j - 1)) + v[j]
  <2> DEFINE u == [x \in 1 .. M |-> IF x <= v[j] THEN 1 ELSE 0]
  <2>1. total(u) = v[j]
    BY TotalOfOnes
  <2>2. ASSUME NEW x \in 1 .. M PROVE C(j)[x] = C(j - 1)[x] + u[x]
    <3>1. x \in Int
      OBVIOUS
    <3>2. Cardinality(Reach(v, j, x)) =
            Cardinality(Reach(v, j - 1, x)) + (IF x <= v[j] THEN 1 ELSE 0)
      BY <1>1, <3>1, OneMoreReaches
    <3> QED
      BY <3>2
  <2>3. u \in [1 .. M -> Int]
    OBVIOUS
  <2> HIDE DEF u, C
  <2>4. C(j) \in [1 .. M -> Int] /\ C(j - 1) \in [1 .. M -> Int]
    BY <1>2
  <2>5. total(C(j)) = total(C(j - 1)) + total(u)
    BY <2>2, <2>3, <2>4, TotalOfSum
  <2> QED
    BY <2>1, <2>5
<1>5. g[0] = 0 /\ g[n] = total(C(n))
  BY <1>3
<1>6. \A j \in 1 .. n : g[j] = g[j - 1] + v[j]
  <2> HIDE DEF C
  <2> QED
    BY <1>4
<1>7. total(v) = g[n]
  <2> HIDE DEF g
  <2> QED
    BY <1>1, <1>5, <1>6, TotalsUnique
<1> QED
  BY <1>5, <1>7

(* The loop may add up the sorted values instead of the given ones. *)
LEMMA TotalOfSorted ==
  ASSUME NEW n \in Nat, NEW M \in Nat, NEW v \in [1 .. n -> 0 .. M]
  PROVE  total(sort(v)) = total(v)
<1>1. v \in [1 .. n -> Int]
  OBVIOUS
<1>2. PICK p : Permutes(p, n) /\ sort(v) = [k \in 1 .. n |-> v[p[k]]]
  BY <1>1, SortIsPermutation
<1>3. p \in [1 .. n -> 1 .. n]
  BY <1>2 DEF Permutes
<1> DEFINE w == sort(v)
<1>4. w \in [1 .. n -> 0 .. M] /\ \A k \in 1 .. n : w[k] = v[p[k]]
  BY <1>2, <1>3
<1> HIDE DEF w
<1>5. ASSUME NEW x \in 1 .. M
      PROVE  Cardinality(Reach(w, n, x)) = Cardinality(Reach(v, n, x))
  <2>1. Reach(v, n, x) \in SUBSET (1 .. n)
    BY DEF Reach
  <2>2. Reach(w, n, x) = {i \in 1 .. n : p[i] \in Reach(v, n, x)}
    BY <1>3, <1>4 DEF Reach
  <2> QED
    BY <1>2, <2>1, <2>2, PermutedCount
<1>6. total(w) = total([x \in 1 .. M |-> Cardinality(Reach(w, n, x))])
  BY <1>4, TotalByLayers
<1>7. total(v) = total([x \in 1 .. M |-> Cardinality(Reach(v, n, x))])
  BY TotalByLayers
<1>8. [x \in 1 .. M |-> Cardinality(Reach(w, n, x))]
        = [x \in 1 .. M |-> Cardinality(Reach(v, n, x))]
  BY <1>5
<1> QED
  BY <1>6, <1>7, <1>8 DEF w

-----------------------------------------------------------------------------
(* The recorded samples *)

SampleTypes == samples \in Seq(Samples) /\ rejected \in Nat

(* There are only terminal samples with instants in order. *)
LEMMA SampleInit == Init => SampleTypes
BY DEF Init, SampleTypes

(* A step records one more sample or counts one more rejection. *)
LEMMA SampleStep ==
  SampleTypes /\ [Next]_<<samples, rejected, long>> => SampleTypes'
<1> SUFFICES ASSUME SampleTypes, [Next]_<<samples, rejected, long>> PROVE SampleTypes'
  OBVIOUS
<1> USE DEF SampleTypes
<1>1. CASE RecordAny
  BY <1>1 DEF RecordAny
<1>2. CASE RecordLong
  BY <1>2 DEF RecordLong
<1>3. CASE Reject
  BY <1>3 DEF Reject
<1>4. CASE UNCHANGED <<samples, rejected, long>>
  BY <1>4
<1> QED
  BY <1>1, <1>2, <1>3, <1>4 DEF Next

(* So every recorded sample is one. *)
LEMMA SamplesTyped == Spec => []SampleTypes
BY SampleInit, SampleStep, PTL DEF Spec

QueueWaits(S) == [i \in DOMAIN S |-> queue_wait(S[i])]
ExecutionTimes(S) == [i \in DOMAIN S |-> execution_time(S[i])]
TotalLatencies(S) == [i \in DOMAIN S |-> total_latency(S[i])]

(* The durations of a sample are not negative, and the latency is made of  *)
(* the other two.                                                          *)
LEMMA Durations ==
  ASSUME NEW S \in Seq(Samples)
  PROVE  /\ Len(S) \in Nat /\ DOMAIN S = 1 .. Len(S)
         /\ QueueWaits(S) \in [1 .. Len(S) -> 0 .. MaxTime]
         /\ ExecutionTimes(S) \in [1 .. Len(S) -> 0 .. MaxTime]
         /\ TotalLatencies(S) \in [1 .. Len(S) -> 0 .. MaxTime]
         /\ \A i \in 1 .. Len(S) :
              TotalLatencies(S)[i] = QueueWaits(S)[i] + ExecutionTimes(S)[i]
<1>1. Len(S) \in Nat /\ DOMAIN S = 1 .. Len(S)
  OBVIOUS
<1>2. ASSUME NEW s \in Samples
      PROVE  /\ queue_wait(s) \in 0 .. MaxTime
             /\ execution_time(s) \in 0 .. MaxTime
             /\ total_latency(s) \in 0 .. MaxTime
             /\ total_latency(s) = queue_wait(s) + execution_time(s)
  BY BoundAssumption DEF Samples, queue_wait, execution_time, total_latency
<1>3. \A i \in 1 .. Len(S) : S[i] \in Samples
  OBVIOUS
<1> QED
  BY <1>1, <1>2, <1>3 DEF QueueWaits, ExecutionTimes, TotalLatencies

(* The same as functions into the integers. *)
LEMMA DurationsAreNumbers ==
  ASSUME NEW S \in Seq(Samples)
  PROVE  /\ QueueWaits(S) \in [1 .. Len(S) -> Int]
         /\ ExecutionTimes(S) \in [1 .. Len(S) -> Int]
         /\ TotalLatencies(S) \in [1 .. Len(S) -> Int]
<1>1. \A m \in Nat : \A f \in [1 .. m -> 0 .. MaxTime] : f \in [1 .. m -> Int]
  BY BoundAssumption
<1> QED
  BY <1>1, Durations

(* The fields of a summary. *)
LEMMA SummaryIs ==
  ASSUME NEW S, NEW r
  PROVE  /\ summarize(S, r).total = Len(S) + r
         /\ summarize(S, r).succeeded = CountOf(S, "Succeeded")
         /\ summarize(S, r).failed = CountOf(S, "Failed")
         /\ summarize(S, r).rejected = r
         /\ summarize(S, r).queue_wait = stats_from(QueueWaits(S))
         /\ summarize(S, r).execution_time = stats_from(ExecutionTimes(S))
         /\ summarize(S, r).total_latency = stats_from(TotalLatencies(S))
BY DEF summarize, QueueWaits, ExecutionTimes, TotalLatencies

(* For every run: min, p50, p95 and max are the nearest-rank percentiles   *)
(* of the durations, whatever their number and order, and an empty run     *)
(* reports nothing (stats_from and nearest_rank_index).                    *)
THEOREM PercentilesAreRight == Spec => []DistributionsAreRight
<1>1. ASSUME SampleTypes PROVE DistributionsAreRight
  <2>1. samples \in Seq(Samples)
    BY <1>1 DEF SampleTypes
  <2>2. Len(samples) \in Nat
    BY <2>1, Durations
  <2>3. Describes(stats_from(QueueWaits(samples)), QueueWaits(samples))
    BY <2>1, <2>2, DurationsAreNumbers, StatsDescribe
  <2>4. Describes(stats_from(ExecutionTimes(samples)), ExecutionTimes(samples))
    BY <2>1, <2>2, DurationsAreNumbers, StatsDescribe
  <2>5. Describes(stats_from(TotalLatencies(samples)), TotalLatencies(samples))
    BY <2>1, <2>2, DurationsAreNumbers, StatsDescribe
  <2>6. /\ Summary.queue_wait = stats_from(QueueWaits(samples))
        /\ Summary.execution_time = stats_from(ExecutionTimes(samples))
        /\ Summary.total_latency = stats_from(TotalLatencies(samples))
    BY SummaryIs DEF Summary
  <2> QED
    BY <2>3, <2>4, <2>5, <2>6
    DEF DistributionsAreRight, QueueWaits, ExecutionTimes, TotalLatencies
<1> QED
  BY <1>1, SamplesTyped, PTL

-----------------------------------------------------------------------------
(* Merging the buffers in another order *)

(* Cutting a sequence before k and swapping the parts permutes it. *)
Rotation(n, k) == [i \in 1 .. n |-> IF i <= n - k + 1 THEN i + k - 1 ELSE i - (n - k + 1)]

(* Every position of the result comes from one of the original. *)
LEMMA RotationPermutes ==
  ASSUME NEW n \in Nat, NEW k \in 1 .. n
  PROVE  Permutes(Rotation(n, k), n)
<1> DEFINE p == Rotation(n, k)
<1>1. p \in [1 .. n -> 1 .. n]
  BY DEF Rotation
<1>2. ASSUME NEW i \in 1 .. n, NEW j \in 1 .. n, p[i] = p[j] PROVE i = j
  BY <1>2 DEF Rotation
<1>3. ASSUME NEW m \in 1 .. n PROVE \E i \in 1 .. n : p[i] = m
  <2>1. CASE m >= k
    <3>1. m - k + 1 \in 1 .. n /\ p[m - k + 1] = m
      BY <2>1 DEF Rotation
    <3> QED
      BY <3>1
  <2>2. CASE m < k
    <3>1. m + (n - k + 1) \in 1 .. n /\ p[m + (n - k + 1)] = m
      BY <2>2 DEF Rotation
    <3> QED
      BY <3>1
  <2> QED
    BY <2>1, <2>2
<1> HIDE DEF p
<1>4. Permutes(p, n)
  BY <1>1, <1>2, <1>3 DEF Permutes
<1> QED
  BY <1>4 DEF p

Rotated(S, k) == SubSeq(S, k, Len(S)) \o SubSeq(S, 1, k - 1)

(* A rotated sequence, position by position. *)
LEMMA RotatedIs ==
  ASSUME NEW T, NEW S \in Seq(T), NEW k \in 1 .. Len(S)
  PROVE  /\ Rotated(S, k) \in Seq(T) /\ Len(Rotated(S, k)) = Len(S)
         /\ \A i \in 1 .. Len(S) : Rotated(S, k)[i] = S[Rotation(Len(S), k)[i]]
<1> DEFINE a == SubSeq(S, k, Len(S))
           b == SubSeq(S, 1, k - 1)
           n == Len(S)
<1>1. a \in Seq(T) /\ Len(a) = n - k + 1 /\ \A i \in 1 .. n - k + 1 : a[i] = S[k + i - 1]
  OBVIOUS
<1>2. b \in Seq(T) /\ Len(b) = k - 1 /\ \A i \in 1 .. k - 1 : b[i] = S[i]
  OBVIOUS
<1>3. Rotated(S, k) = a \o b /\ n \in Nat
  BY DEF Rotated
<1> HIDE DEF a, b
<1>4. a \o b \in Seq(T) /\ Len(a \o b) = n
  BY <1>1, <1>2, <1>3
<1>5. ASSUME NEW i \in 1 .. n PROVE (a \o b)[i] = S[Rotation(n, k)[i]]
  <2>1. CASE i <= n - k + 1
    <3>1. Rotation(n, k)[i] = k + i - 1
      BY <2>1 DEF Rotation
    <3>2. (a \o b)[i] = a[i] /\ i \in 1 .. n - k + 1
      BY <1>1, <1>2, <2>1
    <3> QED
      BY <1>1, <3>1, <3>2
  <2>2. CASE ~(i <= n - k + 1)
    <3>1. Rotation(n, k)[i] = i - (n - k + 1)
      BY <2>2 DEF Rotation
    <3>2. (a \o b)[i] = b[i - (n - k + 1)] /\ i - (n - k + 1) \in 1 .. k - 1
      BY <1>1, <1>2, <2>2
    <3> QED
      BY <1>2, <3>1, <3>2
  <2> QED
    BY <2>1, <2>2
<1> QED
  BY <1>3, <1>4, <1>5

(* stats_from looks at its values only through their sorted sequence. *)
LEMMA StatsOfSorted ==
  ASSUME NEW n \in Nat, NEW v, NEW w, Len(v) = n, Len(w) = n, sort(v) = sort(w)
  PROVE  stats_from(v) = stats_from(w)
BY DEF stats_from

(* So a distribution does not depend on the order of its values. *)
LEMMA PermutedStats ==
  ASSUME NEW n \in Nat, NEW v \in [1 .. n -> Int], NEW w \in [1 .. n -> Int],
         NEW p, Permutes(p, n), \A i \in 1 .. n : w[i] = v[p[i]]
  PROVE  stats_from(w) = stats_from(v)
<1>1. sort(w) = sort(v)
  BY PermutedSort
<1>2. Len(v) = n /\ Len(w) = n
  BY LengthOf
<1> QED
  BY <1>1, <1>2, StatsOfSorted

(* No permutation of the samples shows in the summary. *)
LEMMA PermutedSummary ==
  ASSUME NEW n \in Nat, NEW S \in Seq(Samples), NEW R \in Seq(Samples), NEW p,
         Len(S) = n, Len(R) = n, Permutes(p, n),
         \A i \in 1 .. n : R[i] = S[p[i]], NEW r
  PROVE  summarize(R, r) = summarize(S, r)
<1>1. S \in Seq(Samples) /\ n \in Nat /\ DOMAIN S = 1 .. n
  OBVIOUS
<1>2. R \in Seq(Samples) /\ Len(R) = n /\ \A i \in 1 .. n : R[i] = S[p[i]]
  OBVIOUS
<1>3. Permutes(p, n) /\ p \in [1 .. n -> 1 .. n]
  BY DEF Permutes
<1>4. DOMAIN R = 1 .. n
  BY <1>2
<1>5. stats_from(QueueWaits(R)) = stats_from(QueueWaits(S))
  <2>1. \A i \in 1 .. n : QueueWaits(R)[i] = QueueWaits(S)[p[i]]
    BY <1>1, <1>2, <1>3, <1>4 DEF QueueWaits
  <2>2. QueueWaits(R) \in [1 .. n -> Int] /\ QueueWaits(S) \in [1 .. n -> Int]
    BY <1>1, <1>2, DurationsAreNumbers
  <2> QED
    BY <1>1, <1>3, <2>1, <2>2, PermutedStats
<1>6. stats_from(ExecutionTimes(R)) = stats_from(ExecutionTimes(S))
  <2>1. \A i \in 1 .. n : ExecutionTimes(R)[i] = ExecutionTimes(S)[p[i]]
    BY <1>1, <1>2, <1>3, <1>4 DEF ExecutionTimes
  <2>2. ExecutionTimes(R) \in [1 .. n -> Int] /\ ExecutionTimes(S) \in [1 .. n -> Int]
    BY <1>1, <1>2, DurationsAreNumbers
  <2> QED
    BY <1>1, <1>3, <2>1, <2>2, PermutedStats
<1>7. stats_from(TotalLatencies(R)) = stats_from(TotalLatencies(S))
  <2>1. \A i \in 1 .. n : TotalLatencies(R)[i] = TotalLatencies(S)[p[i]]
    BY <1>1, <1>2, <1>3, <1>4 DEF TotalLatencies
  <2>2. TotalLatencies(R) \in [1 .. n -> Int] /\ TotalLatencies(S) \in [1 .. n -> Int]
    BY <1>1, <1>2, DurationsAreNumbers
  <2> QED
    BY <1>1, <1>3, <2>1, <2>2, PermutedStats
<1>8. ASSUME NEW state PROVE CountOf(R, state) = CountOf(S, state)
  <2> DEFINE A == {i \in 1 .. n : S[i].state = state}
  <2>1. A \in SUBSET (1 .. n)
    OBVIOUS
  <2>2. {i \in 1 .. n : R[i].state = state} = {i \in 1 .. n : p[i] \in A}
    BY <1>2, <1>3
  <2>3. CountOf(S, state) = Cardinality(A)
    BY <1>1 DEF CountOf
  <2>4. CountOf(R, state) = Cardinality({i \in 1 .. n : p[i] \in A})
    BY <1>4, <2>2 DEF CountOf
  <2> HIDE DEF A
  <2>5. Cardinality({i \in 1 .. n : p[i] \in A}) = Cardinality(A)
    BY <2>1, PermutedCount
  <2> QED
    BY <2>3, <2>4, <2>5
<1>9. summarize(R, r) = summarize(S, r)
  <2>1. Len(R) = Len(S)
    BY <1>2
  <2>2. \A T : summarize(T, r) =
          [total |-> Len(T) + r, succeeded |-> CountOf(T, "Succeeded"),
           failed |-> CountOf(T, "Failed"), rejected |-> r,
           queue_wait |-> stats_from(QueueWaits(T)),
           execution_time |-> stats_from(ExecutionTimes(T)),
           total_latency |-> stats_from(TotalLatencies(T))]
    BY Zenon DEF summarize, QueueWaits, ExecutionTimes, TotalLatencies
  <2>3. /\ CountOf(R, "Succeeded") = CountOf(S, "Succeeded")
        /\ CountOf(R, "Failed") = CountOf(S, "Failed")
    BY <1>8
  <2> QED
    BY <1>5, <1>6, <1>7, <2>1, <2>2, <2>3, Zenon
<1> QED
  BY <1>9

(* In particular not the swap of two buffers. *)
LEMMA RotatedSummary ==
  ASSUME NEW S \in Seq(Samples), NEW k \in 1 .. Len(S), NEW r
  PROVE  summarize(Rotated(S, k), r) = summarize(S, r)
<1> DEFINE n == Len(S)
           R == Rotated(S, k)
           p == Rotation(n, k)
<1>1. S \in Seq(Samples) /\ n \in Nat
  OBVIOUS
<1>2. R \in Seq(Samples) /\ Len(R) = n /\ \A i \in 1 .. n : R[i] = S[p[i]]
  BY RotatedIs
<1>3. Permutes(p, n)
  BY <1>1, RotationPermutes
<1> HIDE DEF R, p
<1>4. summarize(R, r) = summarize(S, r)
  BY <1>1, <1>2, <1>3, PermutedSummary
<1> QED
  BY <1>4 DEF R

(* Wherever the merged samples are cut in two, the summary does not depend *)
(* on which part collect_samples appended first.                           *)
THEOREM MergeOrderIsFree == Spec => []OrderDoesNotMatter
<1>1. ASSUME SampleTypes PROVE OrderDoesNotMatter
  BY <1>1, RotatedSummary DEF SampleTypes, OrderDoesNotMatter, Summary, Rotated
<1> QED
  BY <1>1, SamplesTyped, PTL

-----------------------------------------------------------------------------
(* The numbers of one summary *)

(* The first and the last of the sorted values bound them all. *)
LEMMA Extremes ==
  ASSUME NEW n \in Nat \ {0}, NEW v \in [1 .. n -> Int]
  PROVE  /\ sort(v)[1] \in Int /\ sort(v)[n] \in Int
         /\ \A i \in 1 .. n : sort(v)[1] <= v[i] /\ v[i] <= sort(v)[n]
<1> DEFINE a == sort(v)[1]
           b == sort(v)[n]
           A == {i \in 1 .. n : v[i] < a}
           B == {i \in 1 .. n : v[i] <= b}
<1>1. 1 \in 1 .. n /\ n \in 1 .. n
  OBVIOUS
<1>2. a \in Int /\ Below(v, n, a) < 1
  BY <1>1, KthValue
<1>3. b \in Int /\ n <= AtMost(v, n, b)
  BY <1>1, KthValue
<1> HIDE DEF a, b
<1>4. Cardinality(A) < 1 /\ n <= Cardinality(B)
  BY <1>2, <1>3 DEF Below, AtMost
<1>5. A \in SUBSET (1 .. n) /\ B \in SUBSET (1 .. n)
  OBVIOUS
<1>6. A = {}
  <2> HIDE DEF A
  <2>1. Cardinality(A) \in 0 .. n /\ (A # {} => Cardinality(A) # 0)
    BY <1>5, Positions
  <2> QED
    BY <1>4, <2>1
<1>7. B = 1 .. n
  <2> HIDE DEF B
  <2>1. Cardinality(1 .. n) = n
    BY FS_Interval
  <2>2. B # 1 .. n => Cardinality(B) < Cardinality(1 .. n)
    BY <1>5, Positions
  <2>3. Cardinality(B) \in 0 .. n
    BY <1>5, Positions
  <2> QED
    BY <1>4, <2>1, <2>2, <2>3
<1>8. ASSUME NEW i \in 1 .. n PROVE a <= v[i] /\ v[i] <= b
  <2>1. v[i] \in Int /\ ~(v[i] < a)
    BY <1>6
  <2>2. v[i] <= b
    BY <1>7
  <2> QED
    BY <1>2, <2>1, <2>2
<1> QED
  BY <1>2, <1>3, <1>8 DEF a, b

(* Integer division of natural numbers. *)
LEMMA Quotient ==
  ASSUME NEW t \in Nat, NEW n \in Nat \ {0}
  PROVE  t \div n \in Nat /\ n * (t \div n) <= t /\ t < n * (t \div n) + n
<1>1. t \div n \in Nat
  OBVIOUS
<1>2. n * (t \div n) <= t
  OBVIOUS
<1>3. t < n * (t \div n) + n
  OBVIOUS
<1> QED
  BY <1>1, <1>2, <1>3

(* Multiplication by a natural number keeps the order. *)
LEMMA Monotone ==
  ASSUME NEW n \in Nat, NEW x \in Int, NEW y \in Int, x <= y
  PROVE  n * x <= n * y
<1>1. PICK d \in Nat : y = x + d
  <2>1. y - x \in Nat /\ y = x + (y - x)
    OBVIOUS
  <2> QED
    BY <2>1
<1>2. n * y = n * x + n * d /\ n * d \in Nat /\ n * x \in Int
  BY <1>1
<1> QED
  BY <1>2

(* The mean of values between a and b is between a and b. *)
LEMMA MeanBetween ==
  ASSUME NEW t \in Nat, NEW n \in Nat \ {0}, NEW a \in Int, NEW b \in Int,
         n * a <= t, t <= n * b
  PROVE  a <= t \div n /\ t \div n <= b
<1> DEFINE m == t \div n
<1>1. m \in Nat /\ n * m <= t /\ t < n * m + n
  BY Quotient
<1> HIDE DEF m
<1>2. n * m \in Int /\ n * a \in Int /\ n * b \in Int /\ n * (m + 1) \in Int
  BY <1>1
<1>3. n * (m + 1) = n * m + n
  BY <1>1
<1>4. a <= m
  <2>1. m + 1 <= a => n * (m + 1) <= n * a
    BY <1>1, Monotone
  <2> QED
    BY <1>1, <1>2, <1>3, <2>1
<1>5. m <= b
  <2>1. b + 1 <= m => n * (b + 1) <= n * m
    BY <1>1, Monotone
  <2>2. n * (b + 1) = n * b + n
    OBVIOUS
  <2> QED
    BY <1>1, <1>2, <2>1, <2>2
<1> QED
  BY <1>4, <1>5 DEF m

(* Rounding down two means loses less than two, the mean of the sum less   *)
(* than one.                                                               *)
LEMMA MeanOfSum ==
  ASSUME NEW t \in Nat, NEW u \in Nat, NEW n \in Nat \ {0}
  PROVE  (t + u) \div n - (t \div n + u \div n) \in 0 .. 1
<1> DEFINE a == t \div n
           b == u \div n
           c == (t + u) \div n
<1>1. a \in Nat /\ n * a <= t /\ t < n * a + n
  BY Quotient
<1>2. b \in Nat /\ n * b <= u /\ u < n * b + n
  BY Quotient
<1>3. c \in Nat /\ n * c <= t + u /\ t + u < n * c + n
  <2>1. t + u \in Nat
    OBVIOUS
  <2> QED
    BY <2>1, Quotient
<1> HIDE DEF a, b, c
<1>4. n * a \in Int /\ n * b \in Int /\ n * c \in Int
  BY <1>1, <1>2, <1>3
<1>5. a + b <= c
  <2>1. c + 1 <= a + b => n * (c + 1) <= n * (a + b)
    BY <1>1, <1>2, <1>3, Monotone
  <2>2. n * (c + 1) = n * c + n /\ n * (a + b) = n * a + n * b
    BY <1>1, <1>2, <1>3
  <2> QED
    BY <1>1, <1>2, <1>3, <1>4, <2>1, <2>2
<1>6. c <= a + b + 1
  <2>1. a + b + 2 <= c => n * (a + b + 2) <= n * c
    BY <1>1, <1>2, <1>3, Monotone
  <2>2. n * (a + b + 2) = n * a + n * b + n + n
    BY <1>1, <1>2
  <2> QED
    BY <1>1, <1>2, <1>3, <1>4, <2>1, <2>2
<1>7. c - (a + b) \in 0 .. 1
  BY <1>1, <1>2, <1>3, <1>5, <1>6
<1> QED
  BY <1>7 DEF a, b, c

(* What stats_from and mean give for n durations. *)
LEMMA StatsAre ==
  ASSUME NEW n \in Nat, NEW M \in Nat, NEW v \in [1 .. n -> 0 .. M]
  PROVE  /\ total(v) \in Nat
         /\ stats_from(v).count = n
         /\ stats_from(v).total = total(v)
         /\ mean(stats_from(v)) = IF n = 0 THEN 0 ELSE total(v) \div n
         /\ stats_from(v).min <= mean(stats_from(v))
         /\ mean(stats_from(v)) <= stats_from(v).max
<1>1. Len(v) = n
  BY LengthOf
<1>2. v \in [1 .. n -> Int]
  OBVIOUS
<1>3. total(v) \in Nat
  <2>1. n * 0 <= total(v)
    <3>1. \A j \in 1 .. n : 0 <= v[j] /\ v[j] <= M
      OBVIOUS
    <3>2. 0 \in Int /\ M \in Int
      OBVIOUS
    <3> QED
      BY <1>2, <3>1, <3>2, TotalBetween, Zenon
  <2>2. total(v) \in Int
    BY <1>2, TotalsAre
  <2> QED
    BY <2>1, <2>2
<1>4. CASE n = 0
  <2>1. stats_from(v) = NoStats
    BY <1>1, <1>4 DEF stats_from
  <2>2. total(v) = 0
    <3>1. \A x \in 1 .. n : v[x] = 0
      BY <1>4
    <3> QED
      BY <1>2, <3>1, TotalOfNothing
  <2> QED
    BY <1>3, <1>4, <2>1, <2>2 DEF NoStats, mean
<1>5. CASE n # 0
  <2> DEFINE d == stats_from(v)
  <2>1. d.count = n /\ d.min = sort(v)[1] /\ d.max = sort(v)[n] /\ d.total = total(sort(v))
    BY <1>1, <1>5 DEF stats_from
  <2>2. total(sort(v)) = total(v)
    BY TotalOfSorted
  <2>3. /\ sort(v)[1] \in Int /\ sort(v)[n] \in Int
        /\ \A i \in 1 .. n : sort(v)[1] <= v[i] /\ v[i] <= sort(v)[n]
    BY <1>2, <1>5, Extremes
  <2>4. n * sort(v)[1] <= total(v) /\ total(v) <= n * sort(v)[n]
    BY <1>2, <2>3, TotalBetween
  <2>5. sort(v)[1] <= total(v) \div n /\ total(v) \div n <= sort(v)[n]
    BY <1>3, <1>5, <2>3, <2>4, MeanBetween
  <2> HIDE DEF d
  <2>6. mean(d) = total(v) \div n
    BY <1>5, <2>1, <2>2 DEF mean
  <2>7. d.min <= mean(d) /\ mean(d) <= d.max
    BY <2>1, <2>5, <2>6
  <2> QED
    BY <1>3, <1>5, <2>1, <2>2, <2>6, <2>7 DEF d
<1> QED
  BY <1>4, <1>5

(* A sample is a success or a failure, never both and never anything else. *)
LEMMA OutcomesCount ==
  ASSUME NEW S \in Seq(Samples)
  PROVE  /\ CountOf(S, "Succeeded") \in Nat /\ CountOf(S, "Failed") \in Nat
         /\ CountOf(S, "Succeeded") + CountOf(S, "Failed") = Len(S)
<1> DEFINE n == Len(S)
           A == {i \in DOMAIN S : S[i].state = "Succeeded"}
           B == {i \in DOMAIN S : S[i].state = "Failed"}
<1>1. n \in Nat /\ DOMAIN S = 1 .. n
  OBVIOUS
<1>2. A \in SUBSET (1 .. n) /\ B \in SUBSET (1 .. n)
  BY <1>1
<1>3. A \cap B = {}
  OBVIOUS
<1>4. A \cup B = 1 .. n
  <2>1. \A i \in 1 .. n : S[i].state \in {"Succeeded", "Failed"}
    BY <1>1 DEF Samples
  <2> QED
    BY <1>1, <2>1
<1>5. CountOf(S, "Succeeded") = Cardinality(A) /\ CountOf(S, "Failed") = Cardinality(B)
  BY DEF CountOf
<1> HIDE DEF A, B, n
<1>6. /\ IsFiniteSet(A) /\ Cardinality(A) \in 0 .. n
      /\ IsFiniteSet(B) /\ Cardinality(B) \in 0 .. n
  BY <1>1, <1>2, Positions
<1>7. Cardinality(A \cup B) = Cardinality(A) + Cardinality(B) - Cardinality(A \cap B)
  BY <1>6, FS_Union
<1>8. Cardinality(1 .. n) = n
  <2>1. Cardinality(1 .. n) = IF 1 > n THEN 0 ELSE n - 1 + 1
    BY <1>1, FS_Interval
  <2> QED
    BY <1>1, <2>1
<1>9. Cardinality(A \cap B) = 0
  BY <1>3, FS_EmptySet
<1>10. n = Cardinality(A) + Cardinality(B)
  <2>1. Cardinality(A \cup B) = n
    BY <1>4, <1>8, Zenon
  <2>2. \A a, b, c \in Int : n = a + b - c /\ c = 0 => n = a + b
    BY <1>1
  <2>3. Cardinality(A) \in Int /\ Cardinality(B) \in Int /\ Cardinality(A \cap B) \in Int
    BY <1>6, <1>9
  <2>4. n = Cardinality(A) + Cardinality(B) - Cardinality(A \cap B)
    BY <1>7, <2>1, Zenon
  <2> QED
    BY <1>9, <2>2, <2>3, <2>4, Zenon
<1> QED
  BY <1>1, <1>5, <1>6, <1>10 DEF n

(* For every run: the counts partition the total, each distribution is     *)
(* over the tasks that ran, the summed latency is the summed queue wait    *)
(* plus the summed execution time although each was sorted on its own, the *)
(* means differ by the rounding only and lie between min and max           *)
(* (summarize and DurationStats::mean).                                    *)
THEOREM SummaryAgrees == Spec => []DistributionsAgree
<1>1. ASSUME NEW S \in Seq(Samples), NEW r \in Nat
      PROVE  LET s == summarize(S, r)
                 q == s.queue_wait  e == s.execution_time  l == s.total_latency
             IN  /\ s.total = s.succeeded + s.failed + s.rejected
                 /\ \A d \in {q, e, l} : d.count = s.total - s.rejected
                 /\ l.total = q.total + e.total
                 /\ mean(l) - (mean(q) + mean(e)) \in 0 .. 1
                 /\ \A d \in {q, e, l} : d.min <= mean(d) /\ mean(d) <= d.max
  <2> DEFINE s == summarize(S, r)
             n == Len(S)
             qv == QueueWaits(S)
             ev == ExecutionTimes(S)
             lv == TotalLatencies(S)
             q == stats_from(qv)
             e == stats_from(ev)
             l == stats_from(lv)
  <2>1. /\ s.total = n + r /\ s.succeeded = CountOf(S, "Succeeded")
        /\ s.failed = CountOf(S, "Failed") /\ s.rejected = r
        /\ s.queue_wait = q /\ s.execution_time = e /\ s.total_latency = l
    BY SummaryIs
  <2>2. /\ n \in Nat /\ MaxTime \in Nat
        /\ qv \in [1 .. n -> 0 .. MaxTime] /\ ev \in [1 .. n -> 0 .. MaxTime]
        /\ lv \in [1 .. n -> 0 .. MaxTime]
        /\ \A i \in 1 .. n : lv[i] = qv[i] + ev[i]
    BY Durations, BoundAssumption
  <2>3. qv \in [1 .. n -> Int] /\ ev \in [1 .. n -> Int] /\ lv \in [1 .. n -> Int]
    BY DurationsAreNumbers
  <2>4. s.total = s.succeeded + s.failed + s.rejected /\ s.total - s.rejected = n
    <3> HIDE DEF s
    <3> QED
      BY <2>1, OutcomesCount
  <2> HIDE DEF s, n, qv, ev, lv
  <2>5. total(lv) = total(qv) + total(ev)
    BY <2>2, <2>3, TotalOfSum
  <2>6. /\ total(qv) \in Nat /\ q.count = n /\ q.total = total(qv)
        /\ mean(q) = (IF n = 0 THEN 0 ELSE total(qv) \div n)
        /\ q.min <= mean(q) /\ mean(q) <= q.max
    BY <2>2, StatsAre
  <2>7. /\ total(ev) \in Nat /\ e.count = n /\ e.total = total(ev)
        /\ mean(e) = (IF n = 0 THEN 0 ELSE total(ev) \div n)
        /\ e.min <= mean(e) /\ mean(e) <= e.max
    BY <2>2, StatsAre
  <2>8. /\ total(lv) \in Nat /\ l.count = n /\ l.total = total(lv)
        /\ mean(l) = (IF n = 0 THEN 0 ELSE total(lv) \div n)
        /\ l.min <= mean(l) /\ mean(l) <= l.max
    BY <2>2, StatsAre
  <2> HIDE DEF q, e, l
  <2>9. mean(l) - (mean(q) + mean(e)) \in 0 .. 1
    <3>1. CASE n = 0
      BY <2>6, <2>7, <2>8, <3>1
    <3>2. CASE n # 0
      <4>1. mean(l) = (total(qv) + total(ev)) \div n
        BY <2>5, <2>8, <3>2
      <4>2. mean(q) = total(qv) \div n /\ mean(e) = total(ev) \div n
        BY <2>6, <2>7, <3>2
      <4>3. (total(qv) + total(ev)) \div n - (total(qv) \div n + total(ev) \div n) \in 0 .. 1
        BY <2>2, <2>6, <2>7, <3>2, MeanOfSum
      <4> QED
        BY <4>1, <4>2, <4>3
    <3> QED
      BY <3>1, <3>2
  <2>10. l.total = q.total + e.total
    BY <2>5, <2>6, <2>7, <2>8
  <2>11. \A d \in {q, e, l} : d.count = s.total - s.rejected
    BY <2>4, <2>6, <2>7, <2>8
  <2>12. \A d \in {q, e, l} : d.min <= mean(d) /\ mean(d) <= d.max
    BY <2>6, <2>7, <2>8
  <2> QED
    BY <2>1, <2>4, <2>9, <2>10, <2>11, <2>12 DEF s
<1>2. ASSUME SampleTypes PROVE DistributionsAgree
  BY <1>1, <1>2 DEF SampleTypes, DistributionsAgree, Summary
<1> QED
  BY <1>2, SamplesTyped, PTL
=============================================================================
