-------------------------- MODULE KeptElementsProofs --------------------------
(***************************************************************************)
(* What Kept returns, by induction over the numbers up to the length of    *)
(* the list.                                                               *)
(***************************************************************************)
EXTENDS KeptElements, SequenceTheorems, WellFoundedInduction, TLAPS

\* A set of numbers that is not empty has a least one.
LEMMA LeastNumber ==
  ASSUME NEW T, T \subseteq Nat, T # {}
  PROVE  \E x \in T : \A y \in T : x <= y
<1> DEFINE R == OpToRel(<, Nat)
<1>1. IsWellFoundedOn(R, Nat)
  BY Zenon, NatLessThanWellFounded
<1>2. R = {ss \in Nat \X Nat : ss[1] < ss[2]}
  BY DEF OpToRel
<1> HIDE DEF R
<1>3. PICK x \in T : \A y \in T : ~ (<<y, x>> \in R)
  BY <1>1, WFMin
<1>4. \A y \in T : <<y, x>> \in Nat \X Nat
  OBVIOUS
<1>5. \A y \in T : ~(y < x)
  BY <1>2, <1>3, <1>4
<1>6. QED
  BY <1>5

\* A set that has 0, and of each number in it the next, has every number.
LEMMA AllNumbers ==
  ASSUME NEW S, 0 \in S, \A n \in Nat : n \in S => n + 1 \in S
  PROVE  Nat \subseteq S
<1> SUFFICES ASSUME ~(Nat \subseteq S) PROVE FALSE
  OBVIOUS
<1> DEFINE T == Nat \ S
<1>1. T \subseteq Nat /\ T # {}
  OBVIOUS
<1> HIDE DEF T
<1>2. PICK x \in T : \A y \in T : x <= y
  BY <1>1, LeastNumber
<1>3. x \in Nat /\ x # 0 /\ x - 1 \in Nat
  BY <1>2 DEF T
<1>4. x - 1 \in S
  BY <1>2, <1>3 DEF T
<1>5. QED
  BY <1>2, <1>3, <1>4 DEF T

\* Going through the first n elements of a sequence, with those in K kept.
Filter(f, s, K, n) ==
  f = [k \in 0..n |-> IF k = 0 THEN <<>> ELSE IF s[k] \in K THEN Append(f[k - 1], s[k]) ELSE f[k - 1]]

\* There is such a filter.
LEMMA FilterExists ==
  ASSUME NEW s, NEW K, NEW n \in Nat
  PROVE  \E f : Filter(f, s, K, n)
<1> DEFINE S == {m \in Nat : \E f : Filter(f, s, K, m)}
<1>1. 0 \in S
  <2> DEFINE f == [k \in 0..0 |-> <<>>]
  <2>1. Filter(f, s, K, 0)
    BY DEF Filter
  <2>2. QED
    BY <2>1
<1>2. ASSUME NEW m \in Nat, m \in S
      PROVE  m + 1 \in S
  <2>1. PICK f : Filter(f, s, K, m)
    BY <1>2
  <2>2. f = [k \in 0..m |-> IF k = 0 THEN <<>> ELSE IF s[k] \in K THEN Append(f[k - 1], s[k]) ELSE f[k - 1]]
    BY <2>1 DEF Filter
  <2>3. PICK last : last = IF s[m + 1] \in K THEN Append(f[m], s[m + 1]) ELSE f[m]
    OBVIOUS
  <2>4. PICK g : g = [k \in 0..(m + 1) |-> IF k = m + 1 THEN last ELSE f[k]]
    OBVIOUS
  <2>5. \A k \in 0..m : g[k] = f[k]
    BY <2>4
  <2>6. ASSUME NEW k \in 0..(m + 1)
        PROVE  g[k] = IF k = 0 THEN <<>> ELSE IF s[k] \in K THEN Append(g[k - 1], s[k]) ELSE g[k - 1]
    <3>1. CASE k = m + 1
      <4>1. k # 0 /\ k - 1 = m /\ g[m] = f[m] /\ g[k] = last
        BY <2>4, <2>5, <3>1
      <4>2. QED
        BY <2>3, <3>1, <4>1
    <3>2. CASE k = 0
      BY <2>2, <2>5, <3>2
    <3>3. CASE k \in 1..m
      <4>1. k - 1 \in 0..m /\ k \in 0..m /\ k # 0
        BY <3>3
      <4>2. g[k] = f[k] /\ g[k - 1] = f[k - 1]
        BY <2>5, <4>1
      <4>3. f[k] = IF k = 0 THEN <<>> ELSE IF s[k] \in K THEN Append(f[k - 1], s[k]) ELSE f[k - 1]
        BY <2>2, <4>1
      <4>4. QED
        BY <4>1, <4>2, <4>3
    <3>4. QED
      BY <3>1, <3>2, <3>3
  <2>7. g = [k \in 0..(m + 1) |->
               IF k = 0 THEN <<>> ELSE IF s[k] \in K THEN Append(g[k - 1], s[k]) ELSE g[k - 1]]
    BY <2>4, <2>6
  <2>8. Filter(g, s, K, m + 1)
    BY <2>7 DEF Filter
  <2>9. QED
    BY <2>8
<1> HIDE DEF S
<1>3. n \in S
  BY <1>1, <1>2, AllNumbers
<1>4. QED
  BY <1>3 DEF S

\* Each element is there once.
Once(s) == \A i, j \in DOMAIN s : s[i] = s[j] => i = j

\* What is kept of a sequence: elements of it, each once if it has each once.
LEMMA FilterKeeps ==
  ASSUME NEW U, NEW s \in Seq(U), NEW K, NEW f, Filter(f, s, K, Len(s)), NEW r, r = f[Len(s)]
  PROVE  /\ r \in Seq(U)
         /\ \A i \in DOMAIN r : r[i] \in K /\ \E j \in DOMAIN s : r[i] = s[j]
         /\ Once(s) => Once(r)
<1>1. Len(s) \in Nat /\ DOMAIN s = 1..Len(s)
  BY LenProperties
<1> DEFINE Good(m) == /\ f[m] \in Seq(U)
                      /\ \A i \in 1..Len(f[m]) : f[m][i] \in K /\ \E j \in 1..m : f[m][i] = s[j]
                      /\ (\A i, j \in 1..Len(s) : s[i] = s[j] => i = j) =>
                           \A i, j \in 1..Len(f[m]) : f[m][i] = f[m][j] => i = j
           S == {m \in Nat : m <= Len(s) => Good(m)}
<1>2. 0 \in S
  <2>1. f[0] = <<>>
    BY <1>1 DEF Filter
  <2>2. f[0] \in Seq(U) /\ Len(f[0]) = 0
    BY <2>1, EmptySeq
  <2>3. QED
    BY <2>2
<1>3. ASSUME NEW m \in Nat, m \in S
      PROVE  m + 1 \in S
  <2> SUFFICES ASSUME m + 1 <= Len(s)
               PROVE  Good(m + 1)
    OBVIOUS
  <2>1. PICK g, h, e : g = f[m] /\ h = f[m + 1] /\ e = s[m + 1]
    OBVIOUS
  <2>2. h = IF e \in K THEN Append(g, e) ELSE g
    <3>1. m + 1 \in 0..Len(s) /\ m + 1 # 0 /\ (m + 1) - 1 = m
      BY <1>1
    <3>2. f[m + 1] = IF m + 1 = 0 THEN <<>>
                     ELSE IF s[m + 1] \in K THEN Append(f[(m + 1) - 1], s[m + 1]) ELSE f[(m + 1) - 1]
      BY <3>1 DEF Filter
    <3>3. QED
      BY <2>1, <3>1, <3>2
  <2>3. /\ g \in Seq(U) /\ Len(g) \in Nat /\ m <= Len(s)
        /\ \A i \in 1..Len(g) : g[i] \in K /\ \E j \in 1..m : g[i] = s[j]
        /\ (\A i, j \in 1..Len(s) : s[i] = s[j] => i = j) => \A i, j \in 1..Len(g) : g[i] = g[j] => i = j
    BY <1>1, <1>3, <2>1, LenProperties
  <2>4. e \in U /\ m + 1 \in 1..Len(s)
    BY <1>1, <2>1
  <2>5. CASE e \notin K
    <3>1. h = g
      BY <2>2, <2>5
    <3>2. \A i \in 1..Len(h) : h[i] \in K /\ \E j \in 1..(m + 1) : h[i] = s[j]
      BY <2>3, <3>1
    <3>3. QED
      BY <2>1, <2>3, <3>1, <3>2
  <2>6. CASE e \in K
    <3>1. /\ h \in Seq(U) /\ Len(h) = Len(g) + 1 /\ h[Len(g) + 1] = e
          /\ \A i \in 1..Len(g) : h[i] = g[i]
      BY <2>2, <2>3, <2>4, <2>6, AppendProperties
    <3>2. ASSUME NEW i \in 1..Len(h)
          PROVE  h[i] \in K /\ \E j \in 1..(m + 1) : h[i] = s[j]
      <4>1. CASE i \in 1..Len(g)
        <5>1. g[i] \in K /\ h[i] = g[i] /\ \E j \in 1..m : g[i] = s[j]
          BY <2>3, <3>1, <4>1
        <5>2. PICK j \in 1..m : g[i] = s[j]
          BY <5>1
        <5>3. j \in 1..(m + 1)
          OBVIOUS
        <5>4. QED
          BY <5>1, <5>2, <5>3
      <4>2. CASE i = Len(g) + 1
        BY <2>1, <2>6, <3>1, <4>2
      <4>3. QED
        BY <2>3, <3>1, <4>1, <4>2
    <3>3. ASSUME \A i, j \in 1..Len(s) : s[i] = s[j] => i = j, NEW i \in 1..Len(h), NEW j \in 1..Len(h), h[i] = h[j]
          PROVE  i = j
      <4>1. \A k \in 1..Len(g) : g[k] # e
        <5> SUFFICES ASSUME NEW k \in 1..Len(g), g[k] = e
                     PROVE  FALSE
          OBVIOUS
        <5>1. PICK l \in 1..m : g[k] = s[l]
          BY <2>3
        <5>2. s[l] = s[m + 1] /\ l \in 1..Len(s) /\ l # m + 1
          BY <2>1, <2>3, <5>1
        <5>3. QED
          BY <2>4, <3>3, <5>2
      <4>2. (i \in 1..Len(g) \/ i = Len(g) + 1) /\ (j \in 1..Len(g) \/ j = Len(g) + 1)
        BY <2>3, <3>1
      <4>3. CASE i \in 1..Len(g) /\ j \in 1..Len(g)
        BY <2>3, <3>1, <3>3, <4>3
      <4>4. CASE ~(i \in 1..Len(g) /\ j \in 1..Len(g))
        BY <3>1, <3>3, <4>1, <4>2, <4>4
      <4>5. QED
        BY <4>3, <4>4
    <3>4. QED
      BY <2>1, <3>1, <3>2, <3>3
  <2>7. QED
    BY <2>5, <2>6
<1>4. Len(s) \in S
  <2> HIDE DEF S
  <2>1. QED
    BY <1>1, <1>2, <1>3, AllNumbers
<1>5. Good(Len(s))
  BY <1>1, <1>4
<1>6. DOMAIN r = 1..Len(r)
  BY <1>5, LenProperties
<1>7. QED
  BY <1>1, <1>5, <1>6 DEF Once

\* Kept is the last of such a filter's values.
LEMMA KeptIsFiltered ==
  ASSUME NEW s, NEW K, Len(s) \in Nat
  PROVE  \E f : Filter(f, s, K, Len(s)) /\ Kept(s, K) = f[Len(s)]
<1> DEFINE Of(k) == k = [n \in 0..Len(s) |-> IF n = 0 THEN <<>>
                           ELSE IF s[n] \in K THEN Append(k[n - 1], s[n]) ELSE k[n - 1]]
           g == CHOOSE k : Of(k)
<1>1. PICK h : Filter(h, s, K, Len(s))
  BY FilterExists
<1>2. \E k : Of(k)
  <2>1. Of(h)
    BY <1>1 DEF Filter
  <2> HIDE DEF Of
  <2>2. QED
    BY <2>1
<1>3. Of(g)
  BY Zenon, <1>2
<1>4. Kept(s, K) = g[Len(s)]
  BY Zenon DEF Kept
<1>5. Filter(g, s, K, Len(s))
  BY <1>3 DEF Filter
<1>6. QED
  BY Zenon, <1>4, <1>5

\* What is kept of a list are elements of it that are to be kept, each once if
\* the list has each once.
LEMMA KeptKeeps ==
  ASSUME NEW U, NEW s \in Seq(U), NEW K
  PROVE  /\ Kept(s, K) \in Seq(U)
         /\ \A i \in DOMAIN Kept(s, K) : Kept(s, K)[i] \in K /\ \E j \in DOMAIN s : Kept(s, K)[i] = s[j]
         /\ Once(s) => Once(Kept(s, K))
<1>1. Len(s) \in Nat
  BY LenProperties
<1>2. PICK f : Filter(f, s, K, Len(s)) /\ Kept(s, K) = f[Len(s)]
  BY <1>1, KeptIsFiltered
<1>3. PICK r : r = Kept(s, K)
  OBVIOUS
<1>4. QED
  BY <1>2, <1>3, FilterKeeps

\* Of a list whose last element alone may not be kept, all is kept, or all but
\* the last.
LEMMA KeptButLast ==
  ASSUME NEW U, NEW s \in Seq(U), NEW K, \A i \in 1..(Len(s) - 1) : s[i] \in K
  PROVE  /\ Kept(s, K) \in Seq(U)
         /\ \A i \in 1..Len(Kept(s, K)) : Kept(s, K)[i] = s[i] /\ s[i] \in K
         /\ Len(Kept(s, K)) \in {Len(s) - 1, Len(s)}
<1>1. Len(s) \in Nat
  BY LenProperties
<1>2. PICK f : Filter(f, s, K, Len(s)) /\ Kept(s, K) = f[Len(s)]
  BY <1>1, KeptIsFiltered
<1> DEFINE AgreesUpTo(m, r) == r \in Seq(U) /\ Len(r) = m /\ \A i \in 1..m : r[i] = s[i]
           S == {m \in Nat : m <= Len(s) - 1 => AgreesUpTo(m, f[m])}
<1>3. 0 \in S
  <2>1. f[0] = <<>>
    BY <1>1, <1>2 DEF Filter
  <2>2. f[0] \in Seq(U) /\ Len(f[0]) = 0
    BY <2>1, EmptySeq
  <2>3. QED
    BY <2>2
<1>4. ASSUME NEW m \in 1..Len(s)
      PROVE  f[m] = IF s[m] \in K THEN Append(f[m - 1], s[m]) ELSE f[m - 1]
  <2>1. m \in 0..Len(s) /\ m # 0
    BY <1>1
  <2>2. QED
    BY <1>2, <2>1 DEF Filter
<1>5. ASSUME NEW m \in Nat, m \in S
      PROVE  m + 1 \in S
  <2> SUFFICES ASSUME m + 1 <= Len(s) - 1
               PROVE  AgreesUpTo(m + 1, f[m + 1])
    OBVIOUS
  <2>1. PICK g, h, e : g = f[m] /\ h = f[m + 1] /\ e = s[m + 1]
    OBVIOUS
  <2>2. m + 1 \in 1..Len(s) /\ m + 1 \in 1..(Len(s) - 1) /\ (m + 1) - 1 = m
    BY <1>1
  <2>3. h = Append(g, e) /\ e \in U
    <3>1. PICK k : k = m + 1
      OBVIOUS
    <3>2. k \in 1..Len(s) /\ k - 1 = m /\ s[k] \in K
      BY <2>2, <3>1
    <3>3. f[k] = Append(f[k - 1], s[k])
      BY <1>4, <3>2
    <3>4. QED
      BY <2>1, <3>1, <3>2, <3>3
  <2>4. g \in Seq(U) /\ Len(g) = m /\ \A i \in 1..m : g[i] = s[i]
    BY <1>1, <1>5, <2>1
  <2>5. h \in Seq(U) /\ Len(h) = m + 1 /\ h[m + 1] = e /\ \A i \in 1..m : h[i] = g[i]
    BY <2>3, <2>4, AppendProperties
  <2>6. \A i \in 1..(m + 1) : h[i] = s[i]
    BY <2>1, <2>4, <2>5
  <2>7. QED
    BY <2>1, <2>5, <2>6
<1> HIDE DEF S
<1>6. Nat \subseteq S
  BY <1>3, <1>5, AllNumbers
<1>7. CASE Len(s) = 0
  <2>1. f[0] = <<>>
    BY <1>1, <1>2 DEF Filter
  <2>2. f[0] \in Seq(U) /\ Len(f[0]) = 0
    BY <2>1, EmptySeq
  <2>3. PICK r : r = Kept(s, K)
    OBVIOUS
  <2>4. r \in Seq(U) /\ Len(r) = 0
    BY <1>2, <1>7, <2>2, <2>3
  <2>5. QED
    BY <1>7, <2>3, <2>4
<1>8. CASE Len(s) # 0
  <2>1. PICK n : n = Len(s) - 1
    OBVIOUS
  <2>2. n \in Nat /\ n + 1 = Len(s) /\ n <= Len(s) - 1 /\ Len(s) \in 1..Len(s)
    BY <1>1, <1>8, <2>1
  <2>3. PICK g, h, e : g = f[n] /\ h = Kept(s, K) /\ e = s[n + 1]
    OBVIOUS
  <2>4. g \in Seq(U) /\ Len(g) = n /\ \A i \in 1..n : g[i] = s[i]
    BY <1>6, <2>2, <2>3 DEF S
  <2>5. h = IF e \in K THEN Append(g, e) ELSE g
    BY <1>2, <1>4, <2>1, <2>2, <2>3
  <2>6. e \in U
    BY <2>2, <2>3
  <2>7. \A i \in 1..n : s[i] \in K
    BY <2>1
  <2>8. CASE e \in K
    <3>1. h \in Seq(U) /\ Len(h) = n + 1 /\ h[n + 1] = e /\ \A i \in 1..n : h[i] = g[i]
      BY <2>4, <2>5, <2>6, <2>8, AppendProperties
    <3>2. \A i \in 1..Len(h) : h[i] = s[i] /\ s[i] \in K
      BY <2>2, <2>3, <2>4, <2>7, <2>8, <3>1
    <3>3. QED
      BY <2>2, <2>3, <3>1, <3>2
  <2>9. CASE e \notin K
    BY <2>1, <2>2, <2>3, <2>4, <2>5, <2>7, <2>9
  <2>10. QED
    BY <2>8, <2>9
<1>9. QED
  BY <1>7, <1>8
=============================================================================
