--------------------------- MODULE NumberTheorems ---------------------------
(* Least and greatest elements of sets of naturals, induction, and running  *)
(* totals, for the proofs of the other modules.                             *)
EXTENDS Sums, FiniteSetsExt, WellFoundedInduction, SequenceTheorems, TLAPS

(* A set of naturals has a least element. *)
LEMMA LeastNatural ==
  ASSUME NEW S \in SUBSET Nat, S # {}
  PROVE  \E m \in S : \A n \in S : m <= n
<1> DEFINE R == {e \in Nat \X Nat : e[1] < e[2]}
<1>1. IsWellFoundedOn(R, Nat)
  BY NatLessThanWellFounded DEF OpToRel
<1>2. PICK m \in S : \A n \in S : ~(<<n, m>> \in R)
  <2> HIDE DEF R
  <2> QED
    BY <1>1, WFMin
<1>3. ASSUME NEW n \in S PROVE m <= n
  <2>1. ~(<<n, m>> \in R)
    BY <1>2
  <2> QED
    BY <2>1
<1> QED
  BY <1>3

(* A property of 0 that goes from each number to the next holds of all. *)
LEMMA Induction ==
  ASSUME NEW S \in SUBSET Nat, 0 \in S, \A n \in S : n + 1 \in S
  PROVE  S = Nat
<1> SUFFICES ASSUME Nat \ S # {} PROVE FALSE
  OBVIOUS
<1>1. PICK m \in Nat \ S : \A n \in Nat \ S : m <= n
  <2>1. Nat \ S \in SUBSET Nat
    OBVIOUS
  <2> QED
    BY <2>1, LeastNatural
<1>2. m # 0 /\ m - 1 \in Nat /\ ~(m <= m - 1) /\ (m - 1) + 1 = m
  OBVIOUS
<1>3. m - 1 \in S
  BY <1>1, <1>2
<1> QED
  BY <1>2, <1>3

(* Min finds the least element. *)
LEMMA MinIsLeast ==
  ASSUME NEW S \in SUBSET Nat, S # {}
  PROVE  Min(S) \in S /\ \A n \in S : Min(S) <= n
<1>1. \E m \in S : \A n \in S : m <= n
  BY LeastNatural
<1> QED
  BY <1>1 DEF Min

(* A bounded set of naturals has a largest element, which Max finds. *)
LEMMA MaxOfBounded ==
  ASSUME NEW S \in SUBSET Nat, S # {}, NEW b \in Nat, \A n \in S : n <= b
  PROVE  Max(S) \in S /\ \A n \in S : n <= Max(S)
<1> DEFINE D == {d \in Nat : \E n \in S : d = b - n}
           R == {e \in Nat \X Nat : e[1] < e[2]}
<1>1. D # {}
  <2>1. PICK n \in S : TRUE
    OBVIOUS
  <2>2. b - n \in D
    OBVIOUS
  <2> QED
    BY <2>2
<1>2. IsWellFoundedOn(R, Nat)
  BY NatLessThanWellFounded DEF OpToRel
<1>3. PICK d \in D : \A e \in D : ~(<<e, d>> \in R)
  <2> HIDE DEF R
  <2> QED
    BY <1>1, <1>2, WFMin
<1>4. PICK m \in S : d = b - m
  OBVIOUS
<1>5. ASSUME NEW n \in S PROVE n <= m
  <2>1. b - n \in D
    OBVIOUS
  <2>2. ~(<<b - n, d>> \in R)
    BY <1>3, <2>1
  <2> QED
    BY <2>1, <2>2, <1>4
<1> QED
  BY <1>5 DEF Max

-----------------------------------------------------------------------------
(* Running totals.                                                          *)

\* The recursion of Sums.
SumsStep(g, lens) == [i \in 0..Len(lens) |-> IF i = 0 THEN 0 ELSE g[i-1] + lens[i]]

(* Sums is defined by its recursion. *)
LEMMA SumsRecursion ==
  ASSUME NEW lens \in Seq(Nat)
  PROVE  Sums(lens) = SumsStep(Sums(lens), lens)
<1> DEFINE Solves(g, n) == g \in [0..n -> Nat] /\ g[0] = 0 /\ \A i \in 1..n : g[i] = g[i-1] + lens[i]
           Bad == {n \in Nat : n <= Len(lens) /\ ~\E g : Solves(g, n)}
<1>1. \A i \in 1..Len(lens) : lens[i] \in Nat
  OBVIOUS
<1>2. Solves([i \in 0..0 |-> 0], 0)
  OBVIOUS
<1>3. ASSUME NEW n \in Nat, n + 1 <= Len(lens), NEW g, Solves(g, n)
      PROVE  Solves([i \in 0..n+1 |-> IF i <= n THEN g[i] ELSE g[n] + lens[n+1]], n + 1)
  <2> DEFINE h == [i \in 0..n+1 |-> IF i <= n THEN g[i] ELSE g[n] + lens[n+1]]
  <2>1. lens[n+1] \in Nat /\ g[n] \in Nat
    BY <1>1, <1>3
  <2>2. h \in [0..n+1 -> Nat]
    BY <1>3, <2>1
  <2>3. h[0] = 0
    BY <1>3
  <2>4. ASSUME NEW i \in 1..n+1 PROVE h[i] = h[i-1] + lens[i]
    <3>1. CASE i <= n
      BY <1>3, <3>1
    <3>2. CASE i = n + 1
      BY <3>2
    <3> QED
      BY <3>1, <3>2
  <2> QED
    BY <2>2, <2>3, <2>4
<1>4. Bad = {}
  <2> SUFFICES ASSUME Bad # {} PROVE FALSE
    OBVIOUS
  <2>1. Bad \in SUBSET Nat
    OBVIOUS
  <2>2. PICK m \in Bad : \A n \in Bad : m <= n
    <3> HIDE DEF Bad
    <3> QED
      BY <2>1, LeastNatural
  <2>3. m # 0
    <3> HIDE DEF Solves
    <3> QED
      BY <1>2
  <2>4. m - 1 \in Nat /\ m - 1 \notin Bad /\ m - 1 <= Len(lens)
    <3> HIDE DEF Solves
    <3>1. m \in Nat /\ m <= Len(lens) /\ Len(lens) \in Nat
      OBVIOUS
    <3>2. m - 1 \in Nat /\ m - 1 <= Len(lens)
      BY <2>3, <3>1
    <3>3. ~(m <= m - 1)
      BY <3>1
    <3> QED
      BY <2>2, <3>2, <3>3
  <2>5. PICK g : Solves(g, m - 1)
    <3> HIDE DEF Solves
    <3> QED
      BY <2>4
  <2>6. (m - 1) + 1 = m /\ m <= Len(lens)
    BY <2>4
  <2>7. \E h : Solves(h, m)
    <3> HIDE DEF Solves
    <3> QED
      BY <1>3, <2>4, <2>5, <2>6
  <2> QED
    <3> HIDE DEF Solves
    <3> QED
      BY <2>7
<1>5. Len(lens) \in Nat
  OBVIOUS
<1>6. PICK g : Solves(g, Len(lens))
  <2> HIDE DEF Solves
  <2> QED
    BY <1>4, <1>5
<1>7. g = SumsStep(g, lens)
  BY <1>5, <1>6 DEF SumsStep
<1>8. Sums(lens) = CHOOSE e : e = SumsStep(e, lens)
  BY DEF Sums, SumsStep
<1> QED
  BY <1>7, <1>8

(* The numbers that Sums gives, in the order of the positions. *)
LEMMA SumsType ==
  ASSUME NEW lens \in Seq(Nat)
  PROVE  /\ Sums(lens)[0] = 0
         /\ \A i \in 1..Len(lens) : Sums(lens)[i] = Sums(lens)[i-1] + lens[i]
         /\ \A i \in 0..Len(lens) : Sums(lens)[i] \in Nat
<1>1. Sums(lens) = SumsStep(Sums(lens), lens) /\ Len(lens) \in Nat
  BY SumsRecursion
<1>2. \A i \in 1..Len(lens) : lens[i] \in Nat
  OBVIOUS
<1> DEFINE e == Sums(lens)
<1> HIDE DEF e
<1>3. e[0] = 0 /\ \A i \in 1..Len(lens) : e[i] = e[i-1] + lens[i]
  <2>1. e = SumsStep(e, lens) /\ Len(lens) \in Nat
    BY <1>1 DEF e
  <2>2. \A i \in 0..Len(lens) : e[i] = IF i = 0 THEN 0 ELSE e[i-1] + lens[i]
    BY <2>1 DEF SumsStep
  <2>3. 0 \in 0..Len(lens) /\ \A i \in 1..Len(lens) : i \in 0..Len(lens) /\ i # 0
    BY <2>1
  <2> QED
    BY <2>2, <2>3
<1> DEFINE Bad == {n \in Nat : n <= Len(lens) /\ e[n] \notin Nat}
<1>4. Bad = {}
  <2> SUFFICES ASSUME Bad # {} PROVE FALSE
    OBVIOUS
  <2>1. Bad \in SUBSET Nat
    OBVIOUS
  <2>2. PICK m \in Bad : \A n \in Bad : m <= n
    <3> HIDE DEF Bad
    <3> QED
      BY <2>1, LeastNatural
  <2>3. m # 0 /\ m \in Nat /\ m <= Len(lens)
    BY <1>3
  <2>4. m - 1 \in Nat /\ m \in 1..Len(lens) /\ m - 1 <= Len(lens) /\ ~(m <= m - 1)
    BY <1>1, <2>3
  <2>5. e[m-1] \in Nat
    BY <2>2, <2>4
  <2>6. e[m] = e[m-1] + lens[m] /\ lens[m] \in Nat
    BY <1>2, <1>3, <2>4
  <2>7. e[m] \in Nat
    BY <2>5, <2>6
  <2> QED
    BY <2>7
<1> QED
  BY <1>1, <1>3, <1>4 DEF e

(* Totals grow along the sequence. *)
LEMMA SumsMonotone ==
  ASSUME NEW lens \in Seq(Nat), NEW i \in 0..Len(lens), NEW j \in 0..Len(lens), i <= j
  PROVE  Sums(lens)[i] <= Sums(lens)[j]
<1> DEFINE e == Sums(lens)
           S == {d \in Nat : i + d <= Len(lens) => e[i] <= e[i+d]}
<1>1. /\ \A n \in 1..Len(lens) : e[n] = e[n-1] + lens[n] /\ lens[n] \in Nat
      /\ \A n \in 0..Len(lens) : e[n] \in Nat
  BY SumsType
<1>2. Len(lens) \in Nat /\ i \in Nat /\ j \in Nat
  OBVIOUS
<1> HIDE DEF e
<1>3. 0 \in S
  BY <1>1, <1>2
<1>4. ASSUME NEW d \in S PROVE d + 1 \in S
  <2> SUFFICES ASSUME i + (d + 1) <= Len(lens) PROVE e[i] <= e[i+(d+1)]
    OBVIOUS
  <2>1. /\ i + (d + 1) \in 1..Len(lens) /\ (i + (d + 1)) - 1 = i + d
        /\ i + d \in 0..Len(lens) /\ i + d <= Len(lens)
    BY <1>2
  <2>2. e[i] <= e[i+d] /\ e[i] \in Nat /\ e[i+d] \in Nat
    BY <1>1, <2>1
  <2>3. e[i+(d+1)] = e[i+d] + lens[i+(d+1)] /\ lens[i+(d+1)] \in Nat
    BY <1>1, <2>1
  <2> DEFINE a == e[i]
             b == e[i+d]
             c == lens[i+(d+1)]
  <2>4. a \in Nat /\ b \in Nat /\ c \in Nat /\ a <= b
    BY <2>2, <2>3
  <2> HIDE DEF a, b, c
  <2>5. a <= b + c
    BY <2>4
  <2> QED
    BY <2>3, <2>5 DEF a, b, c
<1>5. S = Nat
  <2> HIDE DEF S
  <2>1. S \in SUBSET Nat
    BY DEF S
  <2> QED
    BY <1>3, <1>4, <2>1, Induction
<1>6. j - i \in Nat /\ i + (j - i) = j /\ j <= Len(lens)
  BY <1>2
<1>7. j - i \in S
  BY <1>5, <1>6
<1>8. e[i] <= e[i + (j - i)]
  BY <1>6, <1>7
<1> QED
  BY <1>6, <1>8 DEF e
=============================================================================
