------------------------- MODULE DhdrEditor_proofs -------------------------
(***************************************************************************)
(* The editor of dynamic headers does what DynamicSection promises.        *)
(*                                                                         *)
(* Its array is taken for the list of those positions which hold no        *)
(* DT_NULL, from the first to the last.  Each function of the editor does  *)
(* something to the array, and so to these positions; each lemma below     *)
(* says what this does to the list.  The facts about positions need        *)
(* induction, which is that sets of natural numbers have least elements.   *)
(***************************************************************************)
EXTENDS DhdrEditor, Integers, FiniteSetTheorems, SequenceTheorems, TLAPS

-----------------------------------------------------------------------------
(* Sets of natural numbers, from which induction is taken.                  *)

\* A set of natural numbers has a least one.
LEMMA LeastBelow ==
  ASSUME NEW n \in Nat, NEW S \in SUBSET (0..n), S # {}
  PROVE  \E m \in S : \A k \in S : m <= k
<1> DEFINE F == {S \cap 0..k : k \in S}
           R == StrictSubsetOrdering(0..n)
<1>1. IsFiniteSet(0..n)
  BY FS_Interval
<1>2. IsWellFoundedOn(R, FiniteSubsetsOf(0..n))
  BY <1>1, FS_StrictSubsetOrderingWellFounded
<1>3. F \subseteq FiniteSubsetsOf(0..n) /\ F # {}
  <2>1. \A k \in S : S \cap 0..k \in SUBSET (0..n)
    OBVIOUS
  <2>2. \A x \in SUBSET (0..n) : IsFiniteSet(x)
    BY <1>1, FS_Subset
  <2>3. \A k \in S : S \cap 0..k \in FiniteSubsetsOf(0..n)
    BY <2>1, <2>2 DEF FiniteSubsetsOf
  <2> QED BY <2>3
<1>4. PICK x \in F : \A y \in F : <<y, x>> \notin R
  <2> HIDE DEF F, R
  <2> QED BY <1>2, <1>3, WFMin
<1>5. PICK m \in S : x = S \cap 0..m
  OBVIOUS
<1>6. ASSUME NEW k \in S, k < m PROVE FALSE
  <2>1. S \cap 0..k \in F
    OBVIOUS
  <2>2. S \cap 0..k \subseteq S \cap 0..m /\ m \in S \cap 0..m /\ m \notin 0..k
    BY <1>6
  <2>3. <<S \cap 0..k, x>> \in R
    BY <2>1, <2>2, <1>5, <1>3, <1>1 DEF StrictSubsetOrdering
  <2> QED BY <2>1, <2>3, <1>4
<1> QED BY <1>6

\* A set of natural numbers has a least one, if it is not empty.
LEMMA Least ==
  ASSUME NEW S \in SUBSET Nat, S # {}
  PROVE  \E m \in S : \A k \in S : m <= k
<1>1. PICK n \in S : TRUE
  OBVIOUS
<1>2. S \cap 0..n \in SUBSET (0..n) /\ S \cap 0..n # {}
  BY <1>1
<1>3. PICK m \in S \cap 0..n : \A k \in S \cap 0..n : m <= k
  BY <1>1, <1>2, LeastBelow
<1> QED BY <1>1, <1>3

\* A finite one has a greatest.
LEMMA Greatest ==
  ASSUME NEW n \in Nat, NEW S \in SUBSET (1..n), S # {}
  PROVE  \E m \in S : \A k \in S : k <= m
<1> DEFINE T == {n - k : k \in S}
<1>1. T \in SUBSET Nat /\ T # {}
  <2>1. \A k \in S : n - k \in Nat
    OBVIOUS
  <2> QED BY <2>1
<1> HIDE DEF T
<1>2. PICK x \in T : \A y \in T : x <= y
  BY <1>1, Least
<1>3. PICK m \in S : x = n - m
  BY <1>2 DEF T
<1>4. ASSUME NEW k \in S PROVE k <= m
  <2>1. n - k \in T
    BY DEF T
  <2>2. n - m <= n - k
    BY <1>2, <1>3, <2>1
  <2> QED BY <2>2
<1> QED BY <1>4

\* Induction up to n, as a fact about sets.
LEMMA Upwards ==
  ASSUME NEW n \in Nat, NEW S \in SUBSET (0..n), 0 \in S,
         \A i \in 0..(n - 1) : i \in S => i + 1 \in S
  PROVE  S = 0..n
<1> SUFFICES ASSUME (0..n) \ S # {} PROVE FALSE
  OBVIOUS
<1>1. (0..n) \ S \in SUBSET Nat
  OBVIOUS
<1>2. PICK m \in (0..n) \ S : \A k \in (0..n) \ S : m <= k
  BY <1>1, Least
<1>3. m - 1 \in 0..(n - 1) /\ m - 1 \in S
  BY <1>2
<1> QED BY <1>2, <1>3

-----------------------------------------------------------------------------
(* The positions which are kept.                                            *)

\* f lists the set K of positions from the first to the last.
Ascending(f, K) ==
  /\ f \in Seq(K)
  /\ \A i, j \in DOMAIN f : i < j => f[i] < f[j]
  /\ \A k \in K : \E i \in DOMAIN f : f[i] = k

\* There is only one such list.
LEMMA AscendingShape ==
  ASSUME NEW K \in SUBSET Nat, NEW f, Ascending(f, K)
  PROVE  /\ Len(f) \in Nat /\ DOMAIN f = 1..Len(f)
         /\ \A i \in 1..Len(f) : f[i] \in K /\ f[i] \in Nat
         /\ \A i, j \in 1..Len(f) : i < j => f[i] < f[j]
         /\ \A k \in K : \E i \in 1..Len(f) : f[i] = k
<1>1. f \in Seq(K)
  BY DEF Ascending
<1>2. Len(f) \in Nat /\ DOMAIN f = 1..Len(f) /\ \A i \in 1..Len(f) : f[i] \in K
  BY <1>1
<1> QED BY <1>2 DEF Ascending

\* Of two such lists, the one begins with the other...
LEMMA AscendingPrefix ==
  ASSUME NEW K \in SUBSET Nat, NEW f, NEW g, Ascending(f, K), Ascending(g, K)
  PROVE  Len(f) <= Len(g) /\ \A i \in 1..Len(f) : f[i] = g[i]
<1> DEFINE S == {k \in 1..Len(f) : k > Len(g) \/ f[k] # g[k]}
<1>1. /\ Len(f) \in Nat /\ Len(g) \in Nat
      /\ \A i \in 1..Len(f) : f[i] \in K /\ f[i] \in Nat
      /\ \A i \in 1..Len(g) : g[i] \in K /\ g[i] \in Nat
  BY AscendingShape
<1>2. \A i, j \in 1..Len(f) : i < j => f[i] < f[j]
  BY AscendingShape
<1>3. \A i, j \in 1..Len(g) : i < j => g[i] < g[j]
  BY AscendingShape
<1>4. \A k \in K : \E i \in 1..Len(f) : f[i] = k
  BY AscendingShape
<1>5. \A k \in K : \E i \in 1..Len(g) : g[i] = k
  BY AscendingShape
<1>6. S = {}
  <2> SUFFICES ASSUME S # {} PROVE FALSE
    OBVIOUS
  <2>1. S \in SUBSET Nat
    OBVIOUS
  <2>2. PICK k \in S : \A i \in S : k <= i
    <3> HIDE DEF S
    <3> QED BY <2>1, Least
  <2>3. k \in 1..Len(f) /\ k \in Nat /\ (k > Len(g) \/ f[k] # g[k])
    BY <1>1
  <2>4. ASSUME NEW i \in 1..Len(f), i < k PROVE i \in 1..Len(g) /\ f[i] = g[i]
    <3>1. i \notin S
      BY <1>1, <2>2, <2>3, <2>4
    <3> QED BY <1>1, <3>1
  <2> HIDE DEF S
  <2>5. PICK j \in 1..Len(g) : g[j] = f[k]
    BY <1>1, <1>5, <2>3
  <2>6. ~ (j < k)
    <3> SUFFICES ASSUME j < k PROVE FALSE
      OBVIOUS
    <3>1. j \in 1..Len(f)
      BY <1>1, <2>3
    <3>2. f[j] = g[j]
      BY <2>4, <3>1
    <3>3. f[j] < f[k]
      BY <1>2, <2>3, <3>1
    <3> QED BY <1>1, <2>3, <2>5, <3>2, <3>3
  <2>7. k # j
    BY <1>1, <2>3, <2>5
  <2>8. k < j /\ k \in 1..Len(g)
    BY <1>1, <2>3, <2>6, <2>7
  <2>9. g[k] < f[k]
    BY <1>3, <2>5, <2>8
  <2>10. PICK i \in 1..Len(f) : f[i] = g[k]
    BY <1>1, <1>4, <2>8
  <2>11. i < k
    <3> SUFFICES ASSUME ~ (i < k) PROVE FALSE
      OBVIOUS
    <3>1. i = k \/ k < i
      BY <1>1, <2>3
    <3>2. f[i] \in Nat /\ f[k] \in Nat /\ f[i] < f[k]
      BY <1>1, <2>3, <2>9, <2>10
    <3>3. k < i => f[k] < f[i]
      BY <1>2, <2>3
    <3> QED BY <3>1, <3>2, <3>3
  <2>12. i \in 1..Len(g) /\ g[i] = g[k]
    BY <2>4, <2>10, <2>11
  <2>13. g[i] < g[k] /\ g[i] \in Nat
    BY <1>1, <1>3, <2>8, <2>11, <2>12
  <2> QED BY <2>12, <2>13
<1>7. ~ (Len(f) > Len(g))
  <2> SUFFICES ASSUME Len(f) > Len(g) PROVE FALSE
    OBVIOUS
  <2>1. Len(g) + 1 \in S
    BY <1>1
  <2> QED BY <1>6, <2>1
<1> QED BY <1>1, <1>6, <1>7

\* ...so that they are the same.
LEMMA AscendingUnique ==
  ASSUME NEW K \in SUBSET Nat, NEW f, NEW g, Ascending(f, K), Ascending(g, K)
  PROVE  Len(f) = Len(g) /\ f = g
<1>1. Len(f) <= Len(g) /\ Len(g) <= Len(f) /\ \A i \in 1..Len(f) : f[i] = g[i]
  BY AscendingPrefix
<1>2. f \in Seq(K) /\ g \in Seq(K)
  BY DEF Ascending
<1>3. Len(f) = Len(g)
  BY <1>1, <1>2
<1> QED BY <1>1, <1>2, <1>3, SeqEqual

\* A greater position goes to the end.
LEMMA AscendingAppend ==
  ASSUME NEW K \in SUBSET Nat, NEW f, Ascending(f, K), NEW p \in Nat, \A k \in K : k < p
  PROVE  Ascending(Append(f, p), K \cup {p})
<1> DEFINE g == Append(f, p)
           n == Len(f)
<1>1. /\ n \in Nat /\ \A i \in 1..n : f[i] \in K /\ f[i] \in Nat
      /\ \A i, j \in 1..n : i < j => f[i] < f[j]
      /\ \A k \in K : \E i \in 1..n : f[i] = k
  BY AscendingShape
<1>2. f \in Seq(K \cup {p})
  BY <1>1 DEF Ascending
<1>3. g \in Seq(K \cup {p}) /\ DOMAIN g = 1..(n + 1) /\ g[n + 1] = p
      /\ \A i \in 1..n : g[i] = f[i]
  BY <1>2
<1> HIDE DEF g, n
<1>4. ASSUME NEW i \in DOMAIN g, NEW j \in DOMAIN g, i < j PROVE g[i] < g[j]
  <2>1. i \in 1..n
    BY <1>1, <1>3, <1>4
  <2>2. CASE j = n + 1
    BY <1>1, <1>3, <2>1, <2>2
  <2>3. CASE j # n + 1
    <3>1. j \in 1..n
      BY <1>1, <1>3, <2>3
    <3>2. f[i] < f[j]
      BY <1>1, <1>4, <2>1, <3>1
    <3> QED BY <1>3, <2>1, <3>1, <3>2
  <2> QED BY <2>2, <2>3
<1>5. ASSUME NEW k \in K \cup {p} PROVE \E i \in DOMAIN g : g[i] = k
  <2>1. CASE k = p
    BY <1>1, <1>3, <2>1
  <2>2. CASE k \in K
    <3>1. PICK i \in 1..n : f[i] = k
      BY <1>1, <2>2
    <3>2. i \in DOMAIN g
      BY <1>1, <1>3
    <3> QED BY <1>3, <3>1, <3>2
  <2> QED BY <2>1, <2>2
<1> QED BY <1>3, <1>4, <1>5 DEF Ascending, g

\* Every set of positions can be listed.
LEMMA AscendingExists ==
  ASSUME NEW n \in Nat, NEW K \in SUBSET (1..n)
  PROVE  \E f : Ascending(f, K)
<1> DEFINE S == {i \in 0..n : \E f : Ascending(f, K \cap 1..i)}
<1>1. 0 \in S
  <2>1. K \cap 1..0 = {}
    OBVIOUS
  <2>2. Ascending(<< >>, {})
    BY DEF Ascending
  <2> QED BY <2>1, <2>2
<1>2. ASSUME NEW i \in 0..(n - 1), i \in S PROVE i + 1 \in S
  <2>1. PICK f : Ascending(f, K \cap 1..i)
    BY <1>2
  <2>2. CASE i + 1 \in K
    <3>1. K \cap 1..(i + 1) = (K \cap 1..i) \cup {i + 1}
      BY <2>2
    <3>2. K \cap 1..i \in SUBSET Nat /\ i + 1 \in Nat /\ \A k \in K \cap 1..i : k < i + 1
      OBVIOUS
    <3>3. Ascending(Append(f, i + 1), (K \cap 1..i) \cup {i + 1})
      BY <2>1, <3>2, AscendingAppend
    <3> QED BY <3>1, <3>3
  <2>3. CASE i + 1 \notin K
    <3>1. K \cap 1..(i + 1) = K \cap 1..i
      BY <2>3
    <3> QED BY <2>1, <3>1
  <2> QED BY <2>2, <2>3
<1>3. n \in S
  <2>1. S \in SUBSET (0..n)
    OBVIOUS
  <2> HIDE DEF S
  <2>2. S = 0..n
    BY <1>1, <1>2, <2>1, Upwards
  <2> QED BY <2>2
<1>4. K \cap 1..n = K
  OBVIOUS
<1> QED BY <1>3, <1>4

\* The list of a set.
Listing(K) == CHOOSE f : Ascending(f, K)

\* Listing gives the list.
LEMMA ListingIs ==
  ASSUME NEW n \in Nat, NEW K \in SUBSET (1..n)
  PROVE  Ascending(Listing(K), K) /\ \A f : Ascending(f, K) => f = Listing(K)
<1>1. Ascending(Listing(K), K)
  BY AscendingExists DEF Listing
<1>2. K \in SUBSET Nat
  OBVIOUS
<1> QED BY <1>1, <1>2, AscendingUnique

\* The entries of s which f lists.
Of(s, f) == [i \in 1..Len(f) |-> s[f[i]]]

\* An entry at one more position.
LEMMA OfAppend ==
  ASSUME NEW s, NEW K \in SUBSET Nat, NEW f, Ascending(f, K), NEW p \in Nat
  PROVE  Of(s, Append(f, p)) = Append(Of(s, f), s[p])
<1> DEFINE E == {s[i] : i \in K \cup {p}}
           n == Len(f)
           h == Of(s, f)
<1>1. n \in Nat /\ \A i \in 1..n : f[i] \in K
  BY AscendingShape
<1>2. f \in Seq(K \cup {p})
  BY <1>1 DEF Ascending
<1>3. Len(Append(f, p)) = n + 1 /\ Append(f, p)[n + 1] = p
      /\ \A i \in 1..n : Append(f, p)[i] = f[i]
  BY <1>2
<1>4. h \in Seq(E) /\ Len(h) = n /\ \A i \in 1..n : h[i] = s[f[i]]
  BY <1>1 DEF Of
<1>5. s[p] \in E
  OBVIOUS
<1> HIDE DEF E, n, h
<1>6. /\ Append(h, s[p]) \in Seq(E) /\ Len(Append(h, s[p])) = n + 1
      /\ Append(h, s[p])[n + 1] = s[p]
      /\ \A i \in 1..n : Append(h, s[p])[i] = h[i]
  BY <1>1, <1>4, <1>5
<1>7. Of(s, Append(f, p)) = [i \in 1..(n + 1) |-> s[Append(f, p)[i]]]
  BY <1>3 DEF Of
<1>8. ASSUME NEW i \in 1..(n + 1) PROVE s[Append(f, p)[i]] = Append(h, s[p])[i]
  <2>1. CASE i = n + 1
    BY <1>3, <1>6, <2>1
  <2>2. CASE i # n + 1
    <3>1. i \in 1..n
      BY <1>1, <2>2
    <3> QED BY <1>3, <1>4, <1>6, <3>1
  <2> QED BY <2>1, <2>2
<1>9. DOMAIN Append(h, s[p]) = 1..(n + 1)
  BY <1>1, <1>6
<1>10. Append(h, s[p]) = [i \in 1..(n + 1) |-> Append(h, s[p])[i]]
  BY <1>6, <1>9
<1>11. [i \in 1..(n + 1) |-> s[Append(f, p)[i]]] = [i \in 1..(n + 1) |-> Append(h, s[p])[i]]
  BY <1>8, Zenon
<1> QED BY <1>7, <1>10, <1>11 DEF h

\* What is kept is what is listed.
LEMMA KeptIs ==
  ASSUME NEW s, Len(s) \in Nat, NEW K \in SUBSET (1..Len(s))
  PROVE  Kept(s, K) = Of(s, Listing(K))
<1> DEFINE n == Len(s)
           A(i) == Listing(K \cap 1..i)
           G == [i \in 0..n |-> Of(s, A(i))]
           Def(f) == f = [i \in 0..n |-> IF i = 0 THEN << >>
                                         ELSE IF i \in K THEN Append(f[i - 1], s[i])
                                         ELSE f[i - 1]]
           F == CHOOSE f : Def(f)
<1>1. Kept(s, K) = F[n]
  BY DEF Kept
<1>2. ASSUME NEW i \in 0..n
      PROVE  K \cap 1..i \in SUBSET (1..i) /\ Ascending(A(i), K \cap 1..i)
             /\ \A f : Ascending(f, K \cap 1..i) => f = A(i)
  <2>1. K \cap 1..i \in SUBSET (1..i) /\ i \in Nat
    OBVIOUS
  <2> QED BY <2>1, ListingIs
<1>3. Of(s, A(0)) = << >>
  <2>1. Ascending(<< >>, K \cap 1..0)
    BY DEF Ascending
  <2>2. A(0) = << >>
    BY <1>2, <2>1
  <2> QED BY <2>2 DEF Of
<1>4. ASSUME NEW i \in 1..n
      PROVE  Of(s, A(i)) = IF i \in K THEN Append(Of(s, A(i - 1)), s[i]) ELSE Of(s, A(i - 1))
  <2>1. i - 1 \in 0..n /\ i \in 0..n /\ i \in Nat
    OBVIOUS
  <2>2. CASE i \in K
    <3>1. K \cap 1..i = (K \cap 1..(i - 1)) \cup {i}
      BY <2>2
    <3>2. /\ K \cap 1..(i - 1) \in SUBSET Nat /\ \A k \in K \cap 1..(i - 1) : k < i
          /\ Ascending(A(i - 1), K \cap 1..(i - 1))
      BY <1>2, <2>1
    <3> HIDE DEF A
    <3>3. Ascending(Append(A(i - 1), i), (K \cap 1..(i - 1)) \cup {i})
      BY <2>1, <3>2, AscendingAppend
    <3>4. A(i) = Append(A(i - 1), i)
      BY <1>2, <2>1, <3>1, <3>3
    <3>5. Of(s, Append(A(i - 1), i)) = Append(Of(s, A(i - 1)), s[i])
      BY <2>1, <3>2, OfAppend
    <3> QED BY <2>2, <3>4, <3>5
  <2>3. CASE i \notin K
    <3>1. K \cap 1..i = K \cap 1..(i - 1)
      BY <2>3
    <3> QED BY <2>3, <3>1
  <2> QED BY <2>2, <2>3
<1> HIDE DEF A
<1>5. Def(G)
  <2>1. ASSUME NEW i \in 0..n
        PROVE  Of(s, A(i)) = IF i = 0 THEN << >>
                             ELSE IF i \in K THEN Append(G[i - 1], s[i]) ELSE G[i - 1]
    <3>1. CASE i = 0
      BY <1>3, <3>1
    <3>2. CASE i # 0
      <4>1. i \in 1..n /\ i - 1 \in 0..n
        BY <3>2
      <4>2. G[i - 1] = Of(s, A(i - 1))
        BY <4>1
      <4> QED BY <1>4, <3>2, <4>1, <4>2
    <3> QED BY <3>1, <3>2
  <2> QED BY <2>1, Zenon
<1>6. Def(F)
  <2> HIDE DEF Def, G
  <2> QED BY <1>5
<1> HIDE DEF F
<1>7. F[0] = << >> /\ \A i \in 1..n : F[i] = IF i \in K THEN Append(F[i - 1], s[i]) ELSE F[i - 1]
  <2>1. F = [i \in 0..n |-> IF i = 0 THEN << >>
                            ELSE IF i \in K THEN Append(F[i - 1], s[i]) ELSE F[i - 1]]
    BY <1>6
  <2>2. \A i \in 0..n : F[i] = IF i = 0 THEN << >>
                               ELSE IF i \in K THEN Append(F[i - 1], s[i]) ELSE F[i - 1]
    <3> HIDE DEF Def
    <3> QED BY <2>1, Zenon
  <2>3. 0 \in 0..n /\ \A i \in 1..n : i \in 0..n /\ i # 0
    OBVIOUS
  <2> QED BY <2>2, <2>3, Zenon
<1> HIDE DEF Def, G
<1> DEFINE S == {i \in 0..n : F[i] = Of(s, A(i))}
<1>8. n \in S
  <2>1. 0 \in S
    BY <1>3, <1>7
  <2>2. ASSUME NEW i \in 0..(n - 1), i \in S PROVE i + 1 \in S
    <3>1. i + 1 \in 1..n /\ i + 1 - 1 = i
      OBVIOUS
    <3>2. F[i] = Of(s, A(i))
      BY <2>2
    <3>3. F[i + 1] = IF i + 1 \in K THEN Append(F[i], s[i + 1]) ELSE F[i]
      BY <1>7, <3>1
    <3>4. Of(s, A(i + 1)) = IF i + 1 \in K THEN Append(Of(s, A(i)), s[i + 1]) ELSE Of(s, A(i))
      <4> DEFINE j == i + 1
      <4>1. j \in 1..n /\ j - 1 = i
        BY <3>1
      <4> HIDE DEF j
      <4>2. Of(s, A(j)) = IF j \in K THEN Append(Of(s, A(i)), s[j]) ELSE Of(s, A(i))
        BY <1>4, <4>1
      <4> QED BY <4>2 DEF j
    <3>5. F[i + 1] = Of(s, A(i + 1))
      BY <3>2, <3>3, <3>4
    <3> QED BY <3>5
  <2>3. S \in SUBSET (0..n)
    OBVIOUS
  <2> HIDE DEF S
  <2>4. S = 0..n
    BY <2>1, <2>2, <2>3, Upwards
  <2> QED BY <2>4
<1>9. K \cap 1..n = K
  OBVIOUS
<1> QED BY <1>1, <1>8, <1>9 DEF A

\* The sequence f with p at position k.
With(f, k, p) ==
  [i \in 1..(Len(f) + 1) |-> IF i < k THEN f[i] ELSE IF i = k THEN p ELSE f[i - 1]]

\* A further position goes to its place among the others.
LEMMA AscendingInsert ==
  ASSUME NEW K \in SUBSET Nat, NEW f, Ascending(f, K), NEW m \in Nat, m = Len(f),
         NEW p \in Nat \ K, NEW k \in 1..(m + 1),
         \A i \in 1..(k - 1) : f[i] < p, \A i \in k..m : p < f[i]
  PROVE  Ascending(With(f, k, p), K \cup {p})
<1> DEFINE h == [i \in 1..(m + 1) |->
                  IF i < k THEN f[i] ELSE IF i = k THEN p ELSE f[i - 1]]
<1>2. /\ \A i \in 1..m : f[i] \in K /\ f[i] \in Nat
      /\ \A i, j \in 1..m : i < j => f[i] < f[j]
  BY AscendingShape
<1>3. \A j \in K : \E i \in 1..m : f[i] = j
  <2>1. \A j \in K : \E i \in 1..Len(f) : f[i] = j
    BY AscendingShape
  <2> QED BY <2>1
<1>5. /\ h[k] = p /\ \A i \in 1..(k - 1) : h[i] = f[i]
      /\ \A i \in k..m : h[i + 1] = f[i]
  <2>1. ASSUME NEW i \in k..m PROVE h[i + 1] = f[i]
    <3> DEFINE j == i + 1
    <3>1. j \in 1..(m + 1) /\ ~ (j < k) /\ j # k /\ j - 1 = i
      OBVIOUS
    <3> HIDE DEF j
    <3>2. h[j] = f[i]
      BY <3>1
    <3> QED BY <3>2 DEF j
  <2>2. k \in 1..(m + 1) /\ \A i \in 1..(k - 1) : i \in 1..(m + 1) /\ i < k
    OBVIOUS
  <2> QED BY <2>1, <2>2
<1>6. \A i \in 1..(m + 1) : \/ (i \in 1..(k - 1) /\ i \in 1..m)
                            \/ i = k
                            \/ (i - 1 \in k..m /\ i - 1 \in 1..m /\ i = (i - 1) + 1)
  OBVIOUS
<1>7. ASSUME NEW i \in 1..(m + 1)
      PROVE  /\ h[i] \in Nat /\ h[i] \in K \cup {p}
             /\ i < k => h[i] = f[i] /\ h[i] < p
             /\ i = k => h[i] = p
             /\ i > k => i - 1 \in 1..m /\ h[i] = f[i - 1] /\ p < h[i]
  <2>1. CASE i \in 1..(k - 1) /\ i \in 1..m
    BY <1>2, <1>5, <2>1
  <2>2. CASE i = k
    BY <1>2, <1>5, <2>2
  <2>3. CASE i - 1 \in k..m /\ i - 1 \in 1..m /\ i = (i - 1) + 1
    <3>1. h[i] = f[i - 1] /\ p < f[i - 1]
      <4> DEFINE j == i - 1
      <4>1. j \in k..m /\ i = j + 1
        BY <2>3
      <4> HIDE DEF j
      <4>2. h[j + 1] = f[j] /\ p < f[j]
        BY <1>5, <4>1
      <4> QED BY <4>1, <4>2 DEF j
    <3>2. ~ (i < k) /\ i # k
      BY <2>3
    <3> QED BY <1>2, <2>3, <3>1, <3>2
  <2> QED BY <1>6, <2>1, <2>2, <2>3
<1>8. h \in Seq(K \cup {p}) /\ DOMAIN h = 1..(m + 1)
  BY <1>2, <1>7
<1>9. ASSUME NEW i \in 1..(m + 1), NEW j \in 1..(m + 1), i < j PROVE h[i] < h[j]
  <2>1. CASE j < k
    <3>1. i < k /\ i \in 1..m /\ j \in 1..m
      BY <1>2, <1>9, <2>1
    <3>2. f[i] < f[j]
      BY <1>2, <1>9, <3>1
    <3> QED BY <1>7, <2>1, <3>1, <3>2
  <2>2. CASE j = k
    BY <1>7, <1>9, <2>2
  <2>3. CASE j > k /\ i < k
    <3>1. h[i] < p /\ p < h[j] /\ h[i] \in Nat /\ h[j] \in Nat
      BY <1>7, <2>3
    <3> QED BY <3>1
  <2>4. CASE j > k /\ i = k
    BY <1>7, <2>4
  <2>5. CASE j > k /\ i > k
    <3>1. h[i] = f[i - 1] /\ h[j] = f[j - 1] /\ i - 1 \in 1..m /\ j - 1 \in 1..m
      BY <1>7, <2>5
    <3>2. i - 1 < j - 1
      BY <1>9
    <3> QED BY <1>2, <3>1, <3>2
  <2> QED BY <2>1, <2>2, <2>3, <2>4, <2>5
<1>10. ASSUME NEW j \in K \cup {p} PROVE \E i \in 1..(m + 1) : h[i] = j
  <2>1. CASE j = p
    <3>1. k \in 1..(m + 1)
      OBVIOUS
    <3> QED BY <1>5, <2>1, <3>1
  <2>2. CASE j \in K
    <3>1. PICK i \in 1..m : f[i] = j
      BY <1>3, <2>2
    <3>2. CASE i < k
      <4>1. i \in 1..(k - 1) /\ i \in 1..(m + 1)
        BY <1>2, <3>2
      <4> QED BY <1>5, <3>1, <4>1
    <3>3. CASE ~ (i < k)
      <4>1. i \in k..m /\ i + 1 \in 1..(m + 1)
        BY <1>2, <3>3
      <4> QED BY <1>5, <3>1, <4>1
    <3> QED BY <3>2, <3>3
  <2> QED BY <2>1, <2>2
<1>11. Ascending(h, K \cup {p})
  <2> HIDE DEF h
  <2> QED BY <1>8, <1>9, <1>10 DEF Ascending
<1> QED BY <1>11 DEF With

\* There is such a place.
LEMMA PlaceExists ==
  ASSUME NEW K \in SUBSET Nat, NEW f, Ascending(f, K), NEW m \in Nat, m = Len(f),
         NEW p \in Nat \ K
  PROVE  \E k \in 1..(m + 1) :
           (\A i \in 1..(k - 1) : f[i] < p) /\ (\A i \in k..m : p < f[i])
<1> DEFINE S == {i \in 1..m : f[i] < p}
<1>2. /\ \A i \in 1..m : f[i] \in K /\ f[i] \in Nat
      /\ \A i, j \in 1..m : i < j => f[i] < f[j]
  BY AscendingShape
<1>3. CASE S = {}
  <2>1. \A i \in 1..m : p < f[i]
    BY <1>2, <1>3
  <2>2. 1 \in 1..(m + 1)
    BY <1>2
  <2> QED BY <2>1, <2>2
<1>4. CASE S # {}
  <2>1. S \in SUBSET (1..m)
    OBVIOUS
  <2>2. PICK j \in S : \A i \in S : i <= j
    <3> HIDE DEF S
    <3>1. S \in SUBSET (1..m) /\ S # {} /\ m \in Nat
      BY <1>4, <2>1
    <3> QED BY <3>1, Greatest
  <2>3. j \in 1..m /\ f[j] < p /\ j + 1 \in 1..(m + 1)
    BY <1>2, <2>2
  <2>4. ASSUME NEW i \in 1..((j + 1) - 1) PROVE f[i] < p
    <3>1. i \in 1..m /\ (i = j \/ i < j)
      BY <1>2, <2>3
    <3>2. f[i] \in Nat /\ f[j] \in Nat /\ (i = j \/ f[i] < f[j])
      BY <1>2, <2>3, <3>1
    <3> QED BY <2>3, <3>2
  <2>5. ASSUME NEW i \in (j + 1)..m PROVE p < f[i]
    <3>1. i \in 1..m /\ ~ (i <= j)
      BY <1>2, <2>3
    <3>2. i \notin S
      BY <2>2, <3>1
    <3> QED BY <1>2, <3>1, <3>2
  <2> QED BY <2>3, <2>4, <2>5
<1> QED BY <1>3, <1>4

\* A part of a list, listed.
LEMMA AscendingOf ==
  ASSUME NEW K \in SUBSET Nat, NEW f, Ascending(f, K), NEW M \in SUBSET K,
         NEW J \in SUBSET Nat, NEW g, Ascending(g, J),
         \A i \in J : i \in 1..Len(f) /\ f[i] \in M,
         \A i \in 1..Len(f) : f[i] \in M => i \in J
  PROVE  Ascending(Of(f, g), M)
<1> DEFINE h == Of(f, g)
<1>1. /\ \A i \in 1..Len(f) : f[i] \in K /\ f[i] \in Nat
      /\ \A i, j \in 1..Len(f) : i < j => f[i] < f[j]
      /\ \A k \in K : \E i \in 1..Len(f) : f[i] = k
  BY AscendingShape
<1>2. /\ Len(g) \in Nat /\ \A i \in 1..Len(g) : g[i] \in J
      /\ \A i, j \in 1..Len(g) : i < j => g[i] < g[j]
      /\ \A k \in J : \E i \in 1..Len(g) : g[i] = k
  BY AscendingShape
<1>3. \A i \in 1..Len(g) : g[i] \in 1..Len(f) /\ f[g[i]] \in M
  BY <1>2
<1>4. h = [i \in 1..Len(g) |-> f[g[i]]]
  BY DEF Of
<1> HIDE DEF h
<1>5. Len(h) = Len(g) /\ DOMAIN h = 1..Len(g) /\ \A i \in 1..Len(g) : h[i] = f[g[i]]
  BY <1>2, <1>4
<1>6. h \in Seq(M)
  BY <1>2, <1>3, <1>4
<1>7. ASSUME NEW i \in 1..Len(g), NEW j \in 1..Len(g), i < j PROVE h[i] < h[j]
  <2>1. g[i] < g[j] /\ g[i] \in 1..Len(f) /\ g[j] \in 1..Len(f)
    BY <1>2, <1>3, <1>7
  <2>2. f[g[i]] < f[g[j]]
    BY <1>1, <2>1
  <2> QED BY <1>5, <2>2
<1>8. ASSUME NEW p \in M PROVE \E i \in 1..Len(g) : h[i] = p
  <2>1. PICK i \in 1..Len(f) : f[i] = p
    BY <1>1
  <2>2. i \in J
    BY <2>1
  <2>3. PICK j \in 1..Len(g) : g[j] = i
    BY <1>2, <2>2
  <2> QED BY <1>5, <2>1, <2>3
<1>9. Ascending(h, M)
  BY <1>5, <1>6, <1>7, <1>8 DEF Ascending
<1> QED BY <1>9 DEF h

-----------------------------------------------------------------------------
(* Searching.                                                               *)

\* SelectInSeq finds the first DT_NULL.
LEMMA FirstNull ==
  ASSUME NEW es, Len(es) \in Nat, NEW n, n = SelectInSeq(es, IsNull)
  PROVE  \/ n = 0 /\ \A i \in 1..Len(es) : ~ IsNull(es[i])
         \/ /\ n \in 1..Len(es) /\ IsNull(es[n])
            /\ \A i \in 1..(n - 1) : i \in 1..Len(es) /\ ~ IsNull(es[i])
<1> DEFINE I == {i \in 1..Len(es) : IsNull(es[i])}
<1>1. n = IF I # {} THEN Min(I) ELSE 0
  BY DEF SelectInSeq
<1>2. CASE I = {}
  BY <1>1, <1>2
<1>3. CASE I # {}
  <2>1. I \in SUBSET Nat
    OBVIOUS
  <2>2. \E m \in I : \A k \in I : m <= k
    <3> HIDE DEF I
    <3> QED BY <1>3, <2>1, Least
  <2>3. n \in I /\ \A k \in I : n <= k
    <3>1. n = CHOOSE m \in I : \A k \in I : m <= k
      BY <1>1, <1>3 DEF Min
    <3> HIDE DEF I
    <3> QED BY <2>2, <3>1
  <2>4. n \in 1..Len(es) /\ IsNull(es[n])
    BY <2>3
  <2>5. ASSUME NEW i \in 1..(n - 1) PROVE i \in 1..Len(es) /\ ~ IsNull(es[i])
    <3>1. i \in 1..Len(es) /\ ~ (n <= i)
      BY <2>4
    <3>2. i \notin I
      BY <2>3, <3>1
    <3> QED BY <3>1, <3>2
  <2> QED BY <2>4, <2>5
<1> QED BY <1>2, <1>3

\* SelectLastInSeq finds the last DT_FLAGS.
LEMMA LastFlags ==
  ASSUME NEW es, Len(es) \in Nat, NEW n, n = SelectLastInSeq(es, LAMBDA e : e.tag = "FLAGS")
  PROVE  \/ n = 0 /\ \A i \in 1..Len(es) : es[i].tag # "FLAGS"
         \/ /\ n \in 1..Len(es) /\ es[n].tag = "FLAGS"
            /\ \A i \in 1..Len(es) : i > n => es[i].tag # "FLAGS"
<1> DEFINE I == {i \in 1..Len(es) : es[i].tag = "FLAGS"}
<1>1. n = IF I # {} THEN Max(I) ELSE 0
  BY DEF SelectLastInSeq
<1>2. CASE I = {}
  BY <1>1, <1>2
<1>3. CASE I # {}
  <2>1. I \in SUBSET (1..Len(es))
    OBVIOUS
  <2>2. \E m \in I : \A k \in I : k <= m
    <3> HIDE DEF I
    <3> QED BY <1>3, <2>1, Greatest
  <2>3. n \in I /\ \A k \in I : k <= n
    <3>1. n = CHOOSE m \in I : \A k \in I : m >= k
      BY <1>1, <1>3 DEF Max
    <3>2. \A m, k \in I : m >= k <=> k <= m
      OBVIOUS
    <3> HIDE DEF I
    <3>3. \E m \in I : \A k \in I : m >= k
      BY <2>2, <3>2
    <3>4. n \in I /\ \A k \in I : n >= k
      BY <3>1, <3>3
    <3> QED BY <3>2, <3>4
  <2>4. n \in 1..Len(es) /\ es[n].tag = "FLAGS"
    BY <2>3
  <2>5. ASSUME NEW i \in 1..Len(es), i > n PROVE es[i].tag # "FLAGS"
    <3>1. ~ (i <= n)
      BY <2>4, <2>5
    <3>2. i \notin I
      BY <2>3, <3>1
    <3> QED BY <3>2
  <2> QED BY <2>4, <2>5
<1> QED BY <1>2, <1>3

-----------------------------------------------------------------------------
(* The entries which are not DT_NULLs.                                      *)

\* Their positions.
Shown(es) == {i \in 1..Len(es) : ~ IsNull(es[i])}

\* What is known of an array of entries.
LEMMA SeqShape ==
  ASSUME NEW es \in Seq(EntryType)
  PROVE  /\ Len(es) \in Nat /\ DOMAIN es = 1..Len(es)
         /\ \A i \in 1..Len(es) : es[i] \in EntryType
         /\ Shown(es) \in SUBSET (1..Len(es)) /\ Shown(es) \in SUBSET Nat
<1>1. Len(es) \in Nat /\ DOMAIN es = 1..Len(es)
  OBVIOUS
<1>2. \A i \in 1..Len(es) : es[i] \in EntryType
  <2> HIDE DEF EntryType
  <2> QED OBVIOUS
<1> QED BY <1>1, <1>2 DEF Shown

\* They are a list in the order of the array.
LEMMA LiveIs ==
  ASSUME NEW es \in Seq(EntryType), NEW f, Ascending(f, Shown(es))
  PROVE  Live(es) = Of(es, f)
<1>1. /\ Len(es) \in Nat /\ DOMAIN es = 1..Len(es)
      /\ Shown(es) \in SUBSET (1..Len(es))
  BY SeqShape
<1>2. DOMAIN es \ NullsOf(es) = Shown(es)
  BY <1>1 DEF NullsOf, Shown
<1>3. Live(es) = Kept(es, Shown(es))
  BY <1>2 DEF Live
<1>4. Live(es) = Of(es, Listing(Shown(es)))
  BY <1>1, <1>3, KeptIs
<1>5. f = Listing(Shown(es))
  BY <1>1, ListingIs
<1> QED BY <1>4, <1>5

\* What an entry of it is.
LEMMA LiveShape ==
  ASSUME NEW es \in Seq(EntryType), NEW f, Ascending(f, Shown(es))
  PROVE  /\ Len(Live(es)) = Len(f) /\ Len(f) \in Nat
         /\ Live(es) \in Seq(EntryType) /\ DOMAIN Live(es) = 1..Len(f)
         /\ \A i \in 1..Len(f) : /\ f[i] \in 1..Len(es) /\ Live(es)[i] = es[f[i]]
                                 /\ ~ IsNull(Live(es)[i]) /\ ~ IsNull(es[f[i]])
         /\ \A i, j \in 1..Len(f) : i < j => f[i] < f[j]
         /\ \A p \in 1..Len(es) : ~ IsNull(es[p]) => \E i \in 1..Len(f) : f[i] = p
<1>1. /\ Shown(es) \in SUBSET Nat
      /\ \A i \in 1..Len(es) : es[i] \in EntryType
  BY SeqShape
<1>2. /\ Len(f) \in Nat /\ DOMAIN f = 1..Len(f)
      /\ \A i \in 1..Len(f) : f[i] \in Shown(es)
      /\ \A i, j \in 1..Len(f) : i < j => f[i] < f[j]
      /\ \A k \in Shown(es) : \E i \in 1..Len(f) : f[i] = k
  BY <1>1, AscendingShape
<1>3. Live(es) = [i \in 1..Len(f) |-> es[f[i]]]
  BY LiveIs DEF Of
<1>4. \A i \in 1..Len(f) : f[i] \in 1..Len(es) /\ ~ IsNull(es[f[i]]) /\ es[f[i]] \in EntryType
  BY <1>1, <1>2 DEF Shown
<1>5. Live(es) \in Seq(EntryType) /\ Len(Live(es)) = Len(f) /\ DOMAIN Live(es) = 1..Len(f)
  <2> HIDE DEF EntryType
  <2> QED BY <1>2, <1>3, <1>4
<1>6. \A i \in 1..Len(f) : Live(es)[i] = es[f[i]]
  BY <1>3
<1>7. \A p \in 1..Len(es) : ~ IsNull(es[p]) => p \in Shown(es)
  BY DEF Shown
<1> QED BY <1>2, <1>4, <1>5, <1>6, <1>7

\* There is such a list.
LEMMA LiveListed ==
  ASSUME NEW es \in Seq(EntryType)
  PROVE  \E f : Ascending(f, Shown(es))
BY SeqShape, AscendingExists

-----------------------------------------------------------------------------
(* The operators of DynamicSection.                                         *)

\* InsertAt, entry by entry.
LEMMA InsertAtIs ==
  ASSUME NEW S, NEW s \in Seq(S), NEW e \in S, NEW k \in 1..(Len(s) + 1)
  PROVE  InsertAt(s, k, e) = With(s, k, e)
<1> DEFINE a == SubSeq(s, 1, k - 1)
           b == SubSeq(s, k, Len(s))
           c == a \o <<e>>
           n == Len(s)
<1>1. n \in Nat /\ k \in 1..(n + 1) /\ \A i \in 1..n : s[i] \in S
  OBVIOUS
<1>2. a \in Seq(S) /\ Len(a) = k - 1 /\ \A i \in 1..(k - 1) : a[i] = s[i]
  BY <1>1
<1>3. b \in Seq(S) /\ Len(b) = n - k + 1 /\ \A i \in 1..(n - k + 1) : b[i] = s[k + i - 1]
  BY <1>1
<1> HIDE DEF a, b
<1>4. c \in Seq(S) /\ Len(c) = k /\ c[k] = e /\ \A i \in 1..(k - 1) : c[i] = s[i]
  BY <1>1, <1>2
<1> HIDE DEF c
<1> DEFINE d == c \o b
<1>5. d \in Seq(S) /\ Len(d) = n + 1 /\ DOMAIN d = 1..(n + 1)
  BY <1>1, <1>3, <1>4
<1>6. /\ \A i \in 1..k : d[i] = c[i]
      /\ \A i \in 1..(n + 1) : i > k => d[i] = b[i - k]
  BY <1>1, <1>3, <1>4
<1> HIDE DEF d, n
<1>7. ASSUME NEW i \in 1..(n + 1)
      PROVE  d[i] = IF i < k THEN s[i] ELSE IF i = k THEN e ELSE s[i - 1]
  <2>1. CASE i < k
    BY <1>1, <1>4, <1>6, <2>1
  <2>2. CASE i = k
    BY <1>1, <1>4, <1>6, <2>2
  <2>3. CASE i > k
    <3> DEFINE j == i - k
    <3>1. j \in 1..(n - k + 1) /\ k + j - 1 = i - 1
      BY <1>1, <2>3
    <3>2. d[i] = b[j]
      BY <1>6, <2>3
    <3> HIDE DEF j
    <3>3. d[i] = s[i - 1]
      BY <1>3, <3>1, <3>2
    <3>4. ~ (i < k) /\ i # k
      BY <1>1, <2>3
    <3> QED BY <3>3, <3>4
  <2> QED BY <1>1, <2>1, <2>2, <2>3
<1>8. d = [i \in 1..(n + 1) |-> IF i < k THEN s[i] ELSE IF i = k THEN e ELSE s[i - 1]]
  <2>1. d = [i \in 1..(n + 1) |-> d[i]]
    BY <1>5
  <2> QED BY <1>7, <2>1, Zenon
<1> QED BY <1>8 DEF InsertAt, With, d, c, a, b, n

\* The promise inserts an entry as this module does.
LEMMA PromiseInserted ==
  ASSUME NEW l, NEW e, NEW k \in 1..(Len(l) + 1)
  PROVE  InsertAt(l, k, e) \in Promise!Inserted(l, e)
BY DEF Promise!Inserted, InsertAt, Promise!InsertAt

\* The promise selects entries as this module does.
LEMMA PromiseKept ==
  ASSUME NEW s, NEW K
  PROVE  Promise!Kept(s, K) = Kept(s, K)
BY DEF Promise!Kept, Kept

-----------------------------------------------------------------------------
(* What an edit of the array does to the list.                              *)

\* One more entry which is not a DT_NULL.
LEMMA LiveInserted ==
  ASSUME NEW es \in Seq(EntryType), NEW gs \in Seq(EntryType),
         NEW p \in 1..Len(gs), p \notin Shown(es), Shown(gs) = Shown(es) \cup {p},
         \A i \in Shown(es) : gs[i] = es[i]
  PROVE  Live(gs) \in Promise!Inserted(Live(es), gs[p])
<1>1. PICK f : Ascending(f, Shown(es))
  BY LiveListed
<1> DEFINE m == Len(f)
<1>2. /\ m \in Nat /\ Len(Live(es)) = m /\ Live(es) \in Seq(EntryType)
      /\ \A i \in 1..m : Live(es)[i] = es[f[i]] /\ f[i] \in 1..Len(es) /\ ~ IsNull(es[f[i]])
  BY <1>1, LiveShape
<1>3. /\ Shown(es) \in SUBSET Nat /\ p \in Nat \ Shown(es)
      /\ Len(gs) \in Nat /\ gs[p] \in EntryType
  <2> HIDE DEF EntryType
  <2>1. p \in Nat
    OBVIOUS
  <2> QED BY <2>1, SeqShape
<1>4. PICK k \in 1..(m + 1) :
        (\A i \in 1..(k - 1) : f[i] < p) /\ (\A i \in k..m : p < f[i])
  <2>1. m = Len(f)
    OBVIOUS
  <2> HIDE DEF m
  <2> QED BY <1>1, <1>2, <1>3, <2>1, PlaceExists
<1> DEFINE h == With(f, k, p)
           e == gs[p]
           l == Live(es)
<1>5. Ascending(h, Shown(gs))
  <2> DEFINE K == Shown(es)
  <2>1. K \in SUBSET Nat /\ p \in Nat \ K /\ Ascending(f, K) /\ m = Len(f)
    BY <1>1, <1>3
  <2> HIDE DEF K, m
  <2>2. Ascending(h, K \cup {p})
    BY <1>2, <1>4, <2>1, AscendingInsert
  <2> QED BY <2>2 DEF K
<1>6. Live(gs) = Of(gs, h)
  <2> HIDE DEF h
  <2> QED BY <1>5, LiveIs
<1>a. h = [i \in 1..(m + 1) |-> IF i < k THEN f[i] ELSE IF i = k THEN p ELSE f[i - 1]]
  BY DEF With
<1> HIDE DEF h
<1>7. Len(h) = m + 1
  BY <1>2, <1>a
<1>8. Live(gs) = [i \in 1..(m + 1) |-> gs[h[i]]]
  BY <1>6, <1>7 DEF Of
<1>9. \A i \in 1..m : gs[f[i]] = l[i]
  BY <1>2 DEF Shown
<1>10. ASSUME NEW i \in 1..(m + 1)
       PROVE  gs[h[i]] = IF i < k THEN l[i] ELSE IF i = k THEN e ELSE l[i - 1]
  <2>1. CASE i < k
    <3>1. i \in 1..m /\ h[i] = f[i]
      BY <1>2, <1>4, <1>a, <2>1
    <3> HIDE DEF l, e
    <3> QED BY <1>9, <2>1, <3>1
  <2>2. CASE i = k
    <3>1. h[i] = p /\ ~ (i < k)
      BY <1>4, <1>a, <2>2
    <3> QED BY <2>2, <3>1
  <2>3. CASE i > k
    <3>1. i - 1 \in 1..m /\ h[i] = f[i - 1] /\ ~ (i < k) /\ i # k
      BY <1>2, <1>4, <1>a, <2>3
    <3> HIDE DEF l, e
    <3> DEFINE j == i - 1
    <3>2. j \in 1..m /\ h[i] = f[j]
      BY <3>1
    <3> HIDE DEF j
    <3>3. gs[h[i]] = l[j]
      BY <1>9, <3>2
    <3> QED BY <3>1, <3>3 DEF j
  <2> QED BY <1>2, <1>4, <2>1, <2>2, <2>3
<1>11. Live(gs) = [i \in 1..(m + 1) |-> IF i < k THEN l[i] ELSE IF i = k THEN e ELSE l[i - 1]]
  <2> HIDE DEF l, e
  <2> QED BY <1>8, <1>10, Zenon
<1>12. Live(gs) = InsertAt(l, k, e) /\ k \in 1..(Len(l) + 1)
  <2>1. l \in Seq(EntryType) /\ e \in EntryType /\ Len(l) = m
    BY <1>2, <1>3
  <2>2. Live(gs) = With(l, k, e)
    BY <1>2, <1>11 DEF With
  <2> HIDE DEF l, e, m, EntryType
  <2> QED BY <1>4, <2>1, <2>2, InsertAtIs
<1> QED BY <1>12, PromiseInserted

\* Entries become DT_NULLs.
LEMMA LiveRemoved ==
  ASSUME NEW es \in Seq(EntryType), NEW gs \in Seq(EntryType),
         Shown(gs) \subseteq Shown(es), \A i \in Shown(gs) : gs[i] = es[i],
         NEW f, Ascending(f, Shown(es)),
         NEW J \in SUBSET Nat, \A i \in J : i \in 1..Len(f) /\ f[i] \in Shown(gs),
         \A i \in 1..Len(f) : f[i] \in Shown(gs) => i \in J
  PROVE  Live(gs) = Kept(Live(es), J)
<1> DEFINE l == Live(es)
           m == Len(f)
           g == Listing(J)
           K == Shown(es)
           M == Shown(gs)
<1>1. /\ m \in Nat /\ Len(l) = m /\ J \in SUBSET (1..m)
      /\ \A i \in 1..m : l[i] = es[f[i]]
  BY LiveShape
<1>2. J \in SUBSET Nat
  BY <1>1
<1>3. Ascending(g, J)
  BY <1>1, ListingIs
<1>4. K \in SUBSET Nat /\ M \in SUBSET K /\ Ascending(f, K)
  BY SeqShape
<1>5. \A i \in J : i \in 1..Len(f) /\ f[i] \in M
  OBVIOUS
<1>b. \A i \in 1..Len(f) : f[i] \in M => i \in J
  OBVIOUS
<1>6. Kept(l, J) = Of(l, g)
  <2>1. Len(l) \in Nat /\ J \in SUBSET (1..Len(l))
    BY <1>1
  <2> HIDE DEF l
  <2> QED BY <2>1, KeptIs
<1>7. /\ Ascending(Of(f, g), M) /\ Len(Of(f, g)) = Len(g) /\ Len(g) \in Nat
      /\ \A i \in 1..Len(g) : Of(f, g)[i] = f[g[i]] /\ g[i] \in J
  <2>1. K \in SUBSET Nat
    BY <1>4
  <2>2. M \in SUBSET K
    BY <1>4
  <2>3. Ascending(f, K)
    BY <1>4
  <2> HIDE DEF g, K, M, m, l
  <2>4. Ascending(Of(f, g), M)
    BY <1>2, <1>3, <1>5, <1>b, <2>1, <2>2, <2>3, AscendingOf
  <2>5. /\ Len(Of(f, g)) = Len(g) /\ Len(g) \in Nat
        /\ \A i \in 1..Len(g) : Of(f, g)[i] = f[g[i]]
    BY <1>2, <1>3, AscendingShape DEF Of
  <2>6. \A i \in 1..Len(g) : g[i] \in J
    BY <1>2, <1>3, AscendingShape
  <2> QED BY <2>4, <2>5, <2>6
<1> HIDE DEF g
<1>8. Live(gs) = [i \in 1..Len(g) |-> gs[Of(f, g)[i]]]
  <2>1. Live(gs) = Of(gs, Of(f, g))
    BY <1>7, LiveIs
  <2> QED BY <1>7, <2>1 DEF Of
<1>9. ASSUME NEW i \in 1..Len(g) PROVE gs[Of(f, g)[i]] = l[g[i]]
  <2>1. Of(f, g)[i] = f[g[i]] /\ g[i] \in 1..m /\ f[g[i]] \in M
    BY <1>5, <1>7
  <2> QED BY <1>1, <2>1
<1>10. Live(gs) = [i \in 1..Len(g) |-> l[g[i]]]
  <2> HIDE DEF l
  <2> QED BY <1>8, <1>9, Zenon
<1> QED BY <1>6, <1>10 DEF Of

\* Entries change their values.
LEMMA LiveChanged ==
  ASSUME NEW es \in Seq(EntryType), NEW gs \in Seq(EntryType), Shown(gs) = Shown(es),
         NEW f, Ascending(f, Shown(es))
  PROVE  Live(gs) = [i \in DOMAIN Live(es) |-> gs[f[i]]]
<1>1. DOMAIN Live(es) = 1..Len(f)
  BY LiveShape
<1>2. Ascending(f, Shown(gs))
  OBVIOUS
<1> QED BY <1>1, <1>2, LiveIs DEF Of

-----------------------------------------------------------------------------
(* The operators of the editor.                                             *)

\* The entries which the editor makes are of the type of entries.
LEMMA EntryTypes ==
  /\ Null \in EntryType /\ IsNull(Null)
  /\ \A tag \in StringTags, str \in Seq(Names) :
       LET e == Entry(tag, str, {}) IN e \in EntryType /\ ~ IsNull(e) /\ e.tag = tag
  /\ \A tag \in {"FLAGS", "DEBUG", "STRTAB", "SYMTAB"}, bits \in SUBSET Bits :
       LET e == Entry(tag, << >>, bits)
       IN e \in EntryType /\ ~ IsNull(e) /\ e.tag = tag /\ e.bits = bits
  /\ \A lib \in Libraries : Needed(lib) \in EntryType /\ Needed(lib).tag = "NEEDED"
<1> USE DEF EntryType, Entry, Tags, StringTags, IsNull
<1>1. Null \in EntryType /\ IsNull(Null)
  BY DEF Null
<1>2. ASSUME NEW tag \in StringTags, NEW str \in Seq(Names)
      PROVE  LET e == Entry(tag, str, {}) IN e \in EntryType /\ ~ IsNull(e) /\ e.tag = tag
  OBVIOUS
<1>3. ASSUME NEW tag \in {"FLAGS", "DEBUG", "STRTAB", "SYMTAB"}, NEW bits \in SUBSET Bits
      PROVE  LET e == Entry(tag, << >>, bits)
             IN e \in EntryType /\ ~ IsNull(e) /\ e.tag = tag /\ e.bits = bits
  <2>1. << >> \in Seq(Names)
    OBVIOUS
  <2> QED BY <2>1
<1>4. ASSUME NEW lib \in Libraries PROVE Needed(lib) \in EntryType /\ Needed(lib).tag = "NEEDED"
  <2>1. <<lib>> \in Seq(Names)
    BY DhdrAssumption
  <2> QED BY <2>1 DEF Needed
<1> QED BY <1>1, <1>2, <1>3, <1>4

\* An entry has its tag in the array and in the list.
LEMMA HasLive ==
  ASSUME NEW es \in Seq(EntryType), NEW tag, tag # "NULL"
  PROVE  Has(es, tag) <=> Promise!Has(Live(es), tag)
<1>1. PICK f : Ascending(f, Shown(es))
  BY LiveListed
<1>2. /\ DOMAIN Live(es) = 1..Len(f)
      /\ \A i \in 1..Len(f) : f[i] \in 1..Len(es) /\ Live(es)[i] = es[f[i]]
      /\ \A p \in 1..Len(es) : ~ IsNull(es[p]) => \E i \in 1..Len(f) : f[i] = p
  BY <1>1, LiveShape
<1>3. DOMAIN es = 1..Len(es)
  BY SeqShape
<1>4. ASSUME Has(es, tag) PROVE Promise!Has(Live(es), tag)
  <2>1. PICK p \in 1..Len(es) : es[p].tag = tag
    BY <1>3, <1>4 DEF Has
  <2>2. PICK i \in 1..Len(f) : f[i] = p
    BY <1>2, <2>1 DEF IsNull
  <2> QED BY <1>2, <2>1, <2>2 DEF Promise!Has
<1>5. ASSUME Promise!Has(Live(es), tag) PROVE Has(es, tag)
  <2>1. PICK i \in 1..Len(f) : Live(es)[i].tag = tag
    BY <1>2, <1>5 DEF Promise!Has
  <2> QED BY <1>2, <1>3, <2>1 DEF Has
<1> QED BY <1>4, <1>5

\* Where an entry is put.
LEMMA PutShape ==
  ASSUME NEW es \in Seq(EntryType), NEW e \in EntryType
  PROVE  /\ Put(es, e) \in Seq(EntryType) /\ Len(Put(es, e)) \in {Len(es), Len(es) + 1}
         /\ \E n \in 1..Len(Put(es, e)) :
              /\ Put(es, e)[n] = e /\ n \notin Shown(es)
              /\ \A i \in 1..Len(Put(es, e)) :
                   i # n => i \in 1..Len(es) /\ Put(es, e)[i] = es[i]
<1> DEFINE n == SelectInSeq(es, IsNull)
           m == Len(es)
<1>1. m \in Nat /\ DOMAIN es = 1..m /\ \A i \in 1..m : es[i] \in EntryType
  BY SeqShape
<1>2. \/ n = 0
      \/ n \in 1..m /\ IsNull(es[n])
  <2>1. n = SelectInSeq(es, IsNull)
    OBVIOUS
  <2> HIDE DEF n
  <2> QED BY <1>1, <2>1, FirstNull
<1>3. CASE n = 0
  <2>1. Put(es, e) = Append(es, e)
    BY <1>3 DEF Put
  <2> HIDE DEF n, EntryType
  <2>2. /\ Append(es, e) \in Seq(EntryType) /\ Len(Append(es, e)) = m + 1
        /\ Append(es, e)[m + 1] = e /\ \A i \in 1..m : Append(es, e)[i] = es[i]
    OBVIOUS
  <2>3. m + 1 \notin Shown(es) /\ m + 1 \in 1..(m + 1)
    BY <1>1 DEF Shown
  <2>4. \A i \in 1..(m + 1) : i # m + 1 => i \in 1..m
    BY <1>1
  <2> QED BY <2>1, <2>2, <2>3, <2>4
<1>4. CASE n \in 1..m /\ IsNull(es[n])
  <2>1. n # 0
    BY <1>4
  <2>2. Put(es, e) = [es EXCEPT ![n] = e]
    BY <2>1 DEF Put
  <2> HIDE DEF n, EntryType
  <2> DEFINE gs == [es EXCEPT ![n] = e]
  <2>3. /\ gs \in Seq(EntryType) /\ Len(gs) = m
        /\ gs[n] = e /\ \A i \in 1..m : i # n => gs[i] = es[i]
    BY <1>1, <1>4
  <2>4. n \notin Shown(es)
    BY <1>4 DEF Shown
  <2> QED BY <1>4, <2>2, <2>3, <2>4
<1> QED BY <1>2, <1>3, <1>4

\* ... which is some place in the list.
LEMMA LivePut ==
  ASSUME NEW es \in Seq(EntryType), NEW e \in EntryType, ~ IsNull(e)
  PROVE  Live(Put(es, e)) \in Promise!Inserted(Live(es), e)
<1> DEFINE gs == Put(es, e)
<1>1. gs \in Seq(EntryType) /\ Len(gs) \in {Len(es), Len(es) + 1} /\ Len(es) \in Nat
  BY PutShape, SeqShape
<1>2. PICK n \in 1..Len(gs) :
        /\ gs[n] = e /\ n \notin Shown(es)
        /\ \A i \in 1..Len(gs) : i # n => i \in 1..Len(es) /\ gs[i] = es[i]
  BY PutShape
<1> HIDE DEF gs
<1>3. \A i \in 1..Len(es) : i \in 1..Len(gs)
  BY <1>1
<1>4. Shown(gs) = Shown(es) \cup {n}
  BY <1>2, <1>3 DEF Shown
<1>5. \A i \in Shown(es) : gs[i] = es[i]
  BY <1>2, <1>3 DEF Shown
<1>6. Live(gs) \in Promise!Inserted(Live(es), gs[n])
  BY <1>1, <1>2, <1>4, <1>5, LiveInserted
<1> QED BY <1>2, <1>6 DEF gs

\* Some entries are made DT_NULLs.
LEMMA LiveWithout ==
  ASSUME NEW es \in Seq(EntryType), NEW gs \in Seq(EntryType), Len(gs) = Len(es),
         \A i \in 1..Len(es) : IsNull(gs[i]) \/ gs[i] = es[i],
         NEW J, J \subseteq DOMAIN Live(es), NEW f, Ascending(f, Shown(es)),
         \A i \in 1..Len(f) : i \in J <=> ~ IsNull(gs[f[i]])
  PROVE  Live(gs) = Kept(Live(es), J)
<1>1. /\ DOMAIN Live(es) = 1..Len(f) /\ Len(f) \in Nat
      /\ \A i \in 1..Len(f) : f[i] \in 1..Len(es) /\ ~ IsNull(es[f[i]])
  BY LiveShape
<1>2. Shown(gs) \subseteq Shown(es) /\ \A i \in Shown(gs) : gs[i] = es[i]
  BY DEF Shown
<1>3. J \in SUBSET Nat
  BY <1>1
<1>4. \A i \in J : i \in 1..Len(f) /\ f[i] \in Shown(gs)
  BY <1>1 DEF Shown
<1>5. \A i \in 1..Len(f) : f[i] \in Shown(gs) => i \in J
  BY <1>1 DEF Shown
<1> QED BY <1>2, <1>3, <1>4, <1>5, LiveRemoved

\* What RemoveMask does to each entry.
LEMMA RemoveMaskShape ==
  ASSUME NEW es \in Seq(EntryType), NEW tags
  PROVE  /\ RemoveMask(es, tags) \in Seq(EntryType) /\ Len(RemoveMask(es, tags)) = Len(es)
         /\ \A i \in 1..Len(es) :
              RemoveMask(es, tags)[i] = IF es[i].tag \in tags THEN Null ELSE es[i]
<1> DEFINE gs == [i \in DOMAIN es |-> IF es[i].tag \in tags THEN Null ELSE es[i]]
<1>1. RemoveMask(es, tags) = gs
  BY DEF RemoveMask, Nulled
<1>2. Len(es) \in Nat /\ DOMAIN es = 1..Len(es) /\ \A i \in 1..Len(es) : es[i] \in EntryType
  BY SeqShape
<1>3. Null \in EntryType
  BY EntryTypes
<1>4. gs = [i \in 1..Len(es) |-> IF es[i].tag \in tags THEN Null ELSE es[i]]
  BY <1>2
<1> HIDE DEF gs, EntryType
<1> QED BY <1>1, <1>2, <1>3, <1>4

\* To remove entries by their tags is to drop them from the list: the DT_NULLs
\* which they become are not seen.
LEMMA LiveMasked ==
  ASSUME NEW es \in Seq(EntryType), NEW tags, "NULL" \notin tags
  PROVE  Live(RemoveMask(es, tags)) = Promise!Without(Live(es), tags)
<1> DEFINE gs == RemoveMask(es, tags)
           l == Live(es)
           J == {i \in DOMAIN l : l[i].tag \notin tags}
<1>1. gs \in Seq(EntryType) /\ Len(gs) = Len(es)
  BY RemoveMaskShape
<1>2. \A i \in 1..Len(es) : gs[i] = IF es[i].tag \in tags THEN Null ELSE es[i]
  BY RemoveMaskShape
<1>3. PICK f : Ascending(f, Shown(es))
  BY LiveListed
<1>4. /\ DOMAIN l = 1..Len(f)
      /\ \A i \in 1..Len(f) : f[i] \in 1..Len(es) /\ l[i] = es[f[i]] /\ ~ IsNull(es[f[i]])
  BY <1>3, LiveShape
<1>5. IsNull(Null)
  BY EntryTypes
<1> HIDE DEF gs
<1>6. \A i \in 1..Len(es) : IsNull(gs[i]) \/ gs[i] = es[i]
  BY <1>2, <1>5
<1>7. \A i \in 1..Len(f) : i \in J <=> ~ IsNull(gs[f[i]])
  <2> HIDE DEF l
  <2> QED BY <1>2, <1>4, <1>5
<1>8. Live(gs) = Kept(l, J)
  <2>1. J \subseteq DOMAIN Live(es)
    OBVIOUS
  <2> HIDE DEF J, l
  <2>2. Live(gs) = Kept(Live(es), J)
    BY <1>1, <1>3, <1>6, <1>7, <2>1, LiveWithout
  <2> QED BY <2>2 DEF l
<1>9. Promise!Without(l, tags) = Kept(l, J)
  BY PromiseKept DEF Promise!Without
<1> QED BY <1>8, <1>9 DEF gs
\* A number is set.
LEMMA SetUShape ==
  ASSUME NEW es \in Seq(EntryType), NEW tag \in {"DEBUG", "STRTAB", "SYMTAB"}
  PROVE  /\ SetU(es, tag, {}) \in Seq(EntryType)
         /\ Len(SetU(es, tag, {})) \in {Len(es), Len(es) + 1}
         /\ Has(es, tag) =>
              Live(SetU(es, tag, {})) =
                [i \in DOMAIN Live(es) |->
                  IF Live(es)[i].tag = tag THEN [Live(es)[i] EXCEPT !.bits = {}]
                  ELSE Live(es)[i]]
         /\ ~ Has(es, tag) =>
              Live(SetU(es, tag, {})) \in Promise!Inserted(Live(es), Entry(tag, << >>, {}))
<1> DEFINE gs == SetU(es, tag, {})
           l == Live(es)
<1>1. Len(es) \in Nat /\ DOMAIN es = 1..Len(es) /\ \A i \in 1..Len(es) : es[i] \in EntryType
  BY SeqShape
<1>2. CASE Has(es, tag)
  <2> DEFINE hs == [i \in 1..Len(es) |->
                     IF es[i].tag = tag THEN [es[i] EXCEPT !.bits = {}] ELSE es[i]]
  <2>1. gs = hs
    BY <1>1, <1>2 DEF SetU
  <2>2. ASSUME NEW i \in 1..Len(es)
        PROVE  /\ hs[i] \in EntryType /\ hs[i].tag = es[i].tag
               /\ hs[i] = IF es[i].tag = tag THEN [es[i] EXCEPT !.bits = {}] ELSE es[i]
    <3>1. es[i] \in EntryType
      BY <1>1
    <3> QED BY <3>1 DEF EntryType
  <2> HIDE DEF gs
  <2>3. hs \in Seq(EntryType) /\ Len(hs) = Len(es)
    <3>1. hs = [i \in 1..Len(es) |-> hs[i]]
      OBVIOUS
    <3> HIDE DEF hs, EntryType
    <3> QED BY <1>1, <2>2, <3>1
  <2>4. PICK f : Ascending(f, Shown(es))
    BY LiveListed
  <2>5. /\ DOMAIN l = 1..Len(f)
        /\ \A i \in 1..Len(f) : f[i] \in 1..Len(es) /\ l[i] = es[f[i]]
    BY <2>4, LiveShape
  <2> HIDE DEF hs
  <2>6. Shown(hs) = Shown(es)
    BY <2>2, <2>3 DEF Shown, IsNull
  <2>7. Live(hs) = [i \in DOMAIN l |-> hs[f[i]]]
    BY <2>3, <2>4, <2>6, LiveChanged
  <2>8. ASSUME NEW i \in DOMAIN l
        PROVE  hs[f[i]] = IF l[i].tag = tag THEN [l[i] EXCEPT !.bits = {}] ELSE l[i]
    <3> HIDE DEF l
    <3> QED BY <2>2, <2>5
  <2>9. Live(hs) = [i \in DOMAIN l |->
                     IF l[i].tag = tag THEN [l[i] EXCEPT !.bits = {}] ELSE l[i]]
    <3> HIDE DEF l
    <3> QED BY <2>7, <2>8, Zenon
  <2>10. gs \in Seq(EntryType) /\ Len(gs) = Len(es)
    BY <2>1, <2>3
  <2> QED BY <1>2, <2>1, <2>9, <2>10 DEF gs
<1>3. CASE ~ Has(es, tag)
  <2>1. gs = Put(es, Entry(tag, << >>, {}))
    BY <1>3 DEF SetU
  <2>2. Entry(tag, << >>, {}) \in EntryType /\ ~ IsNull(Entry(tag, << >>, {}))
    <3>1. tag \in {"FLAGS", "DEBUG", "STRTAB", "SYMTAB"} /\ {} \in SUBSET Bits
      OBVIOUS
    <3> QED BY <3>1, EntryTypes
  <2> DEFINE e == Entry(tag, << >>, {})
  <2> HIDE DEF e
  <2>3. /\ Put(es, e) \in Seq(EntryType) /\ Len(Put(es, e)) \in {Len(es), Len(es) + 1}
        /\ Live(Put(es, e)) \in Promise!Inserted(Live(es), e)
    BY <2>2, PutShape, LivePut DEF e
  <2> QED BY <1>3, <2>1, <2>3 DEF e
<1> QED BY <1>2, <1>3

\* A string is set, where there is none.
LEMMA SetStrKeeps ==
  ASSUME NEW es \in Seq(EntryType), NEW tag \in StringTags, NEW str, Has(es, tag)
  PROVE  SetStr(es, tag, str) = es
<1> DEFINE gs == SetStr(es, tag, str)
           e == Entry(tag, str, {})
<1>1. Len(es) \in Nat /\ DOMAIN es = 1..Len(es) /\ \A i \in 1..Len(es) : es[i] \in EntryType
  BY SeqShape
<1>2. gs = [i \in 1..Len(es) |-> IF es[i].tag = tag /\ es[i].str = str THEN e ELSE es[i]]
  BY <1>1 DEF SetStr
<1>3. ASSUME NEW i \in 1..Len(es), es[i].tag = tag, es[i].str = str PROVE e = es[i]
  <2>1. es[i] \in EntryType
    BY <1>1
  <2>2. /\ es[i] = [tag |-> es[i].tag, str |-> es[i].str, bits |-> es[i].bits]
        /\ es[i].bits = {}
    BY <1>3, <2>1 DEF EntryType
  <2> QED BY <1>3, <2>2 DEF Entry
<1> HIDE DEF e, gs
<1>4. \A i \in 1..Len(es) : (IF es[i].tag = tag /\ es[i].str = str THEN e ELSE es[i]) = es[i]
  BY <1>3
<1>5. es = [i \in 1..Len(es) |-> es[i]]
  BY <1>1
<1>6. gs = es
  BY <1>2, <1>4, <1>5, Zenon
<1> QED BY <1>6 DEF gs

\* set_str leaves an entry of this tag as it is, and makes one if there is none.
LEMMA SetStrShape ==
  ASSUME NEW es \in Seq(EntryType), NEW tag \in StringTags, NEW str \in Seq(Names)
  PROVE  /\ SetStr(es, tag, str) \in Seq(EntryType)
         /\ Live(SetStr(es, tag, str)) \in Promise!StringSet(Live(es), tag, str)
         /\ Has(es, tag) => SetStr(es, tag, str) = es
<1> DEFINE gs == SetStr(es, tag, str)
           e == Entry(tag, str, {})
<1>1. tag # "NULL"
  BY DEF StringTags
<1>2. CASE Has(es, tag)
  <2>1. gs = es
    BY <1>2, SetStrKeeps
  <2>2. Promise!StringSet(Live(es), tag, str) = {Live(es)}
    BY <1>1, <1>2, HasLive DEF Promise!StringSet
  <2> QED BY <1>2, <2>1, <2>2
<1>3. CASE ~ Has(es, tag)
  <2>1. gs = Put(es, e)
    BY <1>3 DEF SetStr
  <2>2. e \in EntryType /\ ~ IsNull(e)
    BY EntryTypes
  <2>3. Promise!StringSet(Live(es), tag, str) = Promise!Inserted(Live(es), e)
    BY <1>1, <1>3, HasLive DEF Promise!StringSet, Promise!Entry, Entry
  <2> HIDE DEF e
  <2>4. Put(es, e) \in Seq(EntryType) /\ Live(Put(es, e)) \in Promise!Inserted(Live(es), e)
    BY <2>2, PutShape, LivePut
  <2> QED BY <1>3, <2>1, <2>3, <2>4
<1> QED BY <1>2, <1>3

-----------------------------------------------------------------------------
(* Libraries.                                                               *)

\* The promise means the same DT_NEEDED.
LEMMA PromiseNeeded == ASSUME NEW lib PROVE Promise!Needed(lib) = Needed(lib)
BY DEF Promise!Needed, Needed, Promise!Entry, Entry

\* An entry is found in the array if the list has it.
LEMMA ContainsLive ==
  ASSUME NEW es \in Seq(EntryType), NEW e, ~ IsNull(e)
  PROVE  Contains(es, e) <=> Promise!Contains(Live(es), e)
<1>1. PICK f : Ascending(f, Shown(es))
  BY LiveListed
<1>2. /\ Len(Live(es)) = Len(f)
      /\ \A i \in 1..Len(f) : f[i] \in 1..Len(es) /\ Live(es)[i] = es[f[i]]
      /\ \A p \in 1..Len(es) : ~ IsNull(es[p]) => \E i \in 1..Len(f) : f[i] = p
  BY <1>1, LiveShape
<1>3. ASSUME Contains(es, e) PROVE Promise!Contains(Live(es), e)
  <2>1. PICK p \in 1..Len(es) : es[p] = e
    BY <1>3 DEF Contains
  <2>2. PICK i \in 1..Len(f) : f[i] = p
    BY <1>2, <2>1
  <2> QED BY <1>2, <2>1, <2>2 DEF Promise!Contains
<1>4. ASSUME Promise!Contains(Live(es), e) PROVE Contains(es, e)
  <2>1. PICK i \in 1..Len(f) : Live(es)[i] = e
    BY <1>2, <1>4 DEF Promise!Contains
  <2> QED BY <1>2, <2>1 DEF Contains
<1> QED BY <1>3, <1>4

\* add_late_needed: the entry is the last of the list.
LEMMA LiveLate ==
  ASSUME NEW es \in Seq(EntryType), NEW e \in EntryType, ~ IsNull(e)
  PROVE  Append(es, e) \in Seq(EntryType) /\ Live(Append(es, e)) = Append(Live(es), e)
<1> DEFINE gs == Append(es, e)
           p == Len(es) + 1
<1>1. Len(es) \in Nat /\ Shown(es) \in SUBSET Nat /\ Shown(es) \in SUBSET (1..Len(es))
  BY SeqShape
<1>2. gs \in Seq(EntryType) /\ Len(gs) = p /\ gs[p] = e /\ \A i \in 1..Len(es) : gs[i] = es[i]
  <2> HIDE DEF EntryType
  <2> QED OBVIOUS
<1>3. PICK f : Ascending(f, Shown(es))
  BY LiveListed
<1>4. \A i \in 1..Len(f) : f[i] \in 1..Len(es)
  BY <1>3, LiveShape
<1>5. p \in Nat /\ (\A k \in Shown(es) : k < p) /\ (\A i \in 1..p : i = p \/ i \in 1..Len(es))
  BY <1>1
<1> HIDE DEF gs
<1>6. Shown(gs) = Shown(es) \cup {p}
  BY <1>1, <1>2, <1>5 DEF Shown
<1> HIDE DEF p
<1>7. Ascending(Append(f, p), Shown(gs))
  <2>1. Shown(es) \in SUBSET Nat
    BY <1>1
  <2>2. Ascending(Append(f, p), Shown(es) \cup {p})
    BY <1>3, <1>5, <2>1, AscendingAppend
  <2> QED BY <1>6, <2>2
<1>8. Live(gs) = Of(gs, Append(f, p))
  BY <1>2, <1>7, LiveIs
<1>9. Of(gs, Append(f, p)) = Append(Of(gs, f), gs[p])
  <2>1. Shown(es) \in SUBSET Nat
    BY <1>1
  <2> QED BY <1>3, <1>5, <2>1, OfAppend
<1>10. Of(gs, f) = Of(es, f)
  <2>1. \A i \in 1..Len(f) : gs[f[i]] = es[f[i]]
    BY <1>2, <1>4
  <2> QED BY <2>1, Zenon DEF Of
<1>11. Of(es, f) = Live(es)
  BY <1>3, LiveIs
<1> QED BY <1>2, <1>8, <1>9, <1>10, <1>11 DEF gs

\* add_early_needed: the entry is the first of the list.
LEMMA LiveEarly ==
  ASSUME NEW es \in Seq(EntryType), NEW e \in EntryType, ~ IsNull(e)
  PROVE  <<e>> \o es \in Seq(EntryType) /\ Live(<<e>> \o es) = <<e>> \o Live(es)
<1> DEFINE gs == <<e>> \o es
           n == Len(es)
<1>1. n \in Nat /\ Shown(es) \in SUBSET (1..n)
  BY SeqShape
<1>2. /\ gs \in Seq(EntryType) /\ Len(gs) = n + 1 /\ gs[1] = e
      /\ \A i \in 1..n : gs[i + 1] = es[i]
  <2> HIDE DEF EntryType
  <2> QED BY <1>1
<1>3. PICK f : Ascending(f, Shown(es))
  BY LiveListed
<1> DEFINE m == Len(f)
           l == Live(es)
           h == [i \in 1..(m + 1) |-> IF i = 1 THEN 1 ELSE f[i - 1] + 1]
<1>4. /\ m \in Nat /\ l \in Seq(EntryType) /\ Len(l) = m
      /\ \A i \in 1..m : f[i] \in 1..n /\ l[i] = es[f[i]] /\ ~ IsNull(es[f[i]])
      /\ \A i, j \in 1..m : i < j => f[i] < f[j]
      /\ \A p \in 1..n : ~ IsNull(es[p]) => \E i \in 1..m : f[i] = p
  BY <1>3, LiveShape
<1> HIDE DEF gs, n, m, l
<1>5. /\ h[1] = 1 /\ Len(h) = m + 1 /\ DOMAIN h = 1..(m + 1)
      /\ \A i \in 1..(m + 1) : i = 1 \/ (i - 1 \in 1..m /\ h[i] = f[i - 1] + 1)
  BY <1>4
<1>6. Len(h) = m + 1 /\ h = [i \in 1..(m + 1) |-> h[i]]
  BY <1>5
<1> HIDE DEF h
<1>7. ASSUME NEW i \in 1..(m + 1)
      PROVE  /\ h[i] \in Shown(gs)
             /\ gs[h[i]] = IF i = 1 THEN e ELSE l[i - 1]
             /\ i # 1 => h[i] > 1
  <2>1. CASE i = 1
    <3>1. 1 \in 1..(n + 1)
      BY <1>1
    <3> QED BY <1>2, <1>5, <2>1, <3>1 DEF Shown
  <2>2. CASE i # 1
    <3> DEFINE j == i - 1
    <3>1. j \in 1..m /\ h[i] = f[j] + 1
      BY <1>5, <2>2
    <3> HIDE DEF j
    <3>2. f[j] \in 1..n /\ l[j] = es[f[j]] /\ ~ IsNull(es[f[j]])
      BY <1>4, <3>1
    <3>3. gs[f[j] + 1] = es[f[j]] /\ f[j] + 1 \in 1..(n + 1) /\ f[j] + 1 > 1
      BY <1>1, <1>2, <3>2
    <3>4. h[i] \in Shown(gs)
      BY <1>2, <3>1, <3>2, <3>3 DEF Shown
    <3> QED BY <2>2, <3>1, <3>2, <3>3, <3>4 DEF j
  <2> QED BY <2>1, <2>2
<1>8. Ascending(h, Shown(gs))
  <2>1. h \in Seq(Shown(gs))
    BY <1>4, <1>6, <1>7
  <2>2. ASSUME NEW i \in 1..(m + 1), NEW j \in 1..(m + 1), i < j PROVE h[i] < h[j]
    <3>1. j # 1 /\ j - 1 \in 1..m /\ h[j] = f[j - 1] + 1 /\ f[j - 1] \in 1..n
      BY <1>4, <1>5, <2>2
    <3>2. CASE i = 1
      <4>1. h[i] = 1
        BY <1>5, <3>2
      <4> QED BY <1>1, <3>1, <4>1
    <3>3. CASE i # 1
      <4>1. i - 1 \in 1..m /\ h[i] = f[i - 1] + 1 /\ f[i - 1] \in 1..n /\ i - 1 < j - 1
        BY <1>4, <1>5, <2>2, <3>3
      <4>2. f[i - 1] < f[j - 1]
        BY <1>4, <3>1, <4>1
      <4> QED BY <1>1, <3>1, <4>1, <4>2
    <3> QED BY <3>2, <3>3
  <2>3. ASSUME NEW p \in Shown(gs) PROVE \E i \in 1..(m + 1) : h[i] = p
    <3>1. CASE p = 1
      <4>1. 1 \in 1..(m + 1)
        BY <1>4
      <4> QED BY <1>5, <3>1, <4>1
    <3>2. CASE p # 1
      <4> DEFINE q == p - 1
      <4>1. p \in 1..(n + 1) /\ ~ IsNull(gs[p])
        BY <1>2 DEF Shown
      <4>2. q \in 1..n /\ p = q + 1
        BY <1>1, <3>2, <4>1
      <4> HIDE DEF q
      <4>3. ~ IsNull(es[q])
        BY <1>2, <4>1, <4>2
      <4>4. PICK i \in 1..m : f[i] = q
        BY <1>4, <4>2, <4>3
      <4> DEFINE j == i + 1
      <4>5. j \in 1..(m + 1) /\ j # 1 /\ j - 1 = i
        BY <1>4
      <4> HIDE DEF j
      <4>6. h[j] = p
        BY <1>5, <4>2, <4>4, <4>5
      <4> QED BY <4>5, <4>6
    <3> QED BY <3>1, <3>2
  <2> QED BY <1>5, <2>1, <2>2, <2>3 DEF Ascending
<1>9. Live(gs) = [i \in 1..(m + 1) |-> gs[h[i]]]
  <2>1. gs \in Seq(EntryType)
    BY <1>2
  <2>2. Live(gs) = Of(gs, h)
    BY <1>8, <2>1, LiveIs
  <2>3. Of(gs, h) = [i \in 1..Len(h) |-> gs[h[i]]]
    BY DEF Of
  <2> QED BY <1>6, <2>2, <2>3
<1>10. Live(gs) = [i \in 1..(m + 1) |-> IF i = 1 THEN e ELSE l[i - 1]]
  BY <1>7, <1>9, Zenon
<1>11. <<e>> \o l = [i \in 1..(m + 1) |-> IF i = 1 THEN e ELSE l[i - 1]]
  <2> HIDE DEF EntryType
  <2> QED BY <1>4
<1> QED BY <1>2, <1>10, <1>11 DEF gs, l

\* remove_needed: the entries equal to it are dropped from the list.
LEMMA NulledNeeded ==
  ASSUME NEW es \in Seq(EntryType), NEW lib \in Libraries,
         NEW gs, gs = [i \in DOMAIN es |-> IF es[i] = Needed(lib) THEN Null ELSE es[i]]
  PROVE  /\ gs \in Seq(EntryType) /\ Len(gs) = Len(es)
         /\ Live(gs) = Kept(Live(es), {i \in DOMAIN Live(es) : Live(es)[i] # Needed(lib)})
         /\ ~ Contains(es, Needed(lib)) => gs = es
<1> DEFINE l == Live(es)
           J == {i \in DOMAIN l : l[i] # Needed(lib)}
<1>1. Len(es) \in Nat /\ DOMAIN es = 1..Len(es) /\ \A i \in 1..Len(es) : es[i] \in EntryType
  BY SeqShape
<1>2. Null \in EntryType /\ IsNull(Null) /\ ~ IsNull(Needed(lib))
  BY EntryTypes DEF IsNull
<1>3. gs = [i \in 1..Len(es) |-> IF es[i] = Needed(lib) THEN Null ELSE es[i]]
  BY <1>1
<1>4. /\ gs \in Seq(EntryType) /\ Len(gs) = Len(es)
      /\ \A i \in 1..Len(es) : gs[i] = IF es[i] = Needed(lib) THEN Null ELSE es[i]
  <2>1. Null \in EntryType
    BY <1>2
  <2>2. \A i \in 1..Len(es) : (IF es[i] = Needed(lib) THEN Null ELSE es[i]) \in EntryType
    BY <1>1, <2>1
  <2> HIDE DEF EntryType
  <2> QED BY <1>1, <1>3, <2>2
<1>5. PICK f : Ascending(f, Shown(es))
  BY LiveListed
<1>6. /\ DOMAIN l = 1..Len(f)
      /\ \A i \in 1..Len(f) : f[i] \in 1..Len(es) /\ l[i] = es[f[i]] /\ ~ IsNull(es[f[i]])
  BY <1>5, LiveShape
<1>7. \A i \in 1..Len(es) : IsNull(gs[i]) \/ gs[i] = es[i]
  BY <1>2, <1>4
<1>8. \A i \in 1..Len(f) : i \in J <=> ~ IsNull(gs[f[i]])
  <2> HIDE DEF l
  <2> QED BY <1>2, <1>4, <1>6
<1>9. Live(gs) = Kept(l, J)
  <2>1. J \subseteq DOMAIN Live(es) /\ gs \in Seq(EntryType) /\ Len(gs) = Len(es)
    BY <1>4
  <2> HIDE DEF J, l
  <2>2. Live(gs) = Kept(Live(es), J)
    BY <1>5, <1>7, <1>8, <2>1, LiveWithout
  <2> QED BY <2>2 DEF l
<1>10. ~ Contains(es, Needed(lib)) => gs = es
  <2> SUFFICES ASSUME ~ Contains(es, Needed(lib)) PROVE gs = es
    OBVIOUS
  <2>1. \A i \in 1..Len(es) : (IF es[i] = Needed(lib) THEN Null ELSE es[i]) = es[i]
    BY DEF Contains
  <2>2. es = [i \in 1..Len(es) |-> es[i]]
    BY <1>1
  <2> QED BY <1>3, <2>1, <2>2, Zenon
<1> QED BY <1>4, <1>9, <1>10

-----------------------------------------------------------------------------
(* Flags.                                                                   *)

\* The last DT_FLAGS of the array is the last one of the list.
LEMMA FlagsLive ==
  ASSUME NEW es \in Seq(EntryType), NEW f, Ascending(f, Shown(es)),
         NEW i, i = SelectLastInSeq(es, LAMBDA e : e.tag = "FLAGS"),
         NEW j, j = Promise!LastFlags(Live(es))
  PROVE  \/ i = 0 /\ j = 0
         \/ i \in 1..Len(es) /\ es[i].tag = "FLAGS" /\ j \in 1..Len(f) /\ f[j] = i
<1> DEFINE l == Live(es)
<1>1. Len(es) \in Nat
  BY SeqShape
<1>2. /\ Len(l) = Len(f) /\ Len(f) \in Nat
      /\ \A k \in 1..Len(f) : f[k] \in 1..Len(es) /\ l[k] = es[f[k]]
      /\ \A k, m \in 1..Len(f) : k < m => f[k] < f[m]
      /\ \A p \in 1..Len(es) : ~ IsNull(es[p]) => \E k \in 1..Len(f) : f[k] = p
  BY LiveShape
<1>3. j = SelectLastInSeq(l, LAMBDA e : e.tag = "FLAGS")
  BY DEF Promise!LastFlags, Promise!SelectLastInSeq, Promise!Max, SelectLastInSeq, Max
<1>4. \/ i = 0 /\ \A k \in 1..Len(es) : es[k].tag # "FLAGS"
      \/ /\ i \in 1..Len(es) /\ es[i].tag = "FLAGS"
         /\ \A k \in 1..Len(es) : k > i => es[k].tag # "FLAGS"
  BY <1>1, LastFlags
<1> HIDE DEF l
<1>5. \/ j = 0 /\ \A k \in 1..Len(l) : l[k].tag # "FLAGS"
      \/ /\ j \in 1..Len(l) /\ l[j].tag = "FLAGS"
         /\ \A k \in 1..Len(l) : k > j => l[k].tag # "FLAGS"
  <2>1. Len(l) \in Nat
    BY <1>2
  <2> QED BY <1>3, <2>1, LastFlags
<1>6. CASE i = 0
  <2>1. \A k \in 1..Len(l) : l[k].tag # "FLAGS"
    BY <1>2, <1>4, <1>6
  <2> QED BY <1>5, <1>6, <2>1
<1>7. CASE i \in 1..Len(es) /\ es[i].tag = "FLAGS"
  <2>1. PICK k \in 1..Len(f) : f[k] = i
    BY <1>2, <1>7 DEF IsNull
  <2>2. l[k].tag = "FLAGS" /\ k \in 1..Len(l)
    BY <1>2, <1>7, <2>1
  <2>3. j \in 1..Len(l) /\ l[j].tag = "FLAGS" /\ ~ (k > j)
    BY <1>5, <2>2
  <2>4. ~ (k < j)
    <3> SUFFICES ASSUME k < j PROVE FALSE
      OBVIOUS
    <3>1. f[k] < f[j] /\ f[j] \in 1..Len(es) /\ es[f[j]].tag = "FLAGS"
      BY <1>2, <2>1, <2>3
    <3>2. f[j] > i
      BY <1>7, <2>1, <3>1
    <3> QED BY <1>4, <1>7, <3>1, <3>2
  <2>5. j = k
    BY <1>2, <2>3, <2>4
  <2> QED BY <1>2, <1>7, <2>1, <2>3, <2>5
<1> QED BY <1>4, <1>6, <1>7

\* The bits of an entry are changed.
WithBits(es, i, bits) == [es EXCEPT ![i].bits = bits]

\* WithBits changes the bits of one entry and nothing else.
LEMMA BitsShape ==
  ASSUME NEW es \in Seq(EntryType), NEW i \in 1..Len(es), es[i].tag = "FLAGS",
         NEW bits \in SUBSET Bits
  PROVE  /\ WithBits(es, i, bits) \in Seq(EntryType)
         /\ Len(WithBits(es, i, bits)) = Len(es)
         /\ WithBits(es, i, bits)[i].tag = "FLAGS" /\ WithBits(es, i, bits)[i].bits = bits
         /\ \A k \in 1..Len(es) : k # i => WithBits(es, i, bits)[k] = es[k]
         /\ Shown(WithBits(es, i, bits)) = Shown(es)
<1> DEFINE gs == WithBits(es, i, bits)
<1>1. Len(es) \in Nat /\ DOMAIN es = 1..Len(es) /\ \A k \in 1..Len(es) : es[k] \in EntryType
  BY SeqShape
<1> DEFINE e == [es[i] EXCEPT !.bits = bits]
<1>2. e \in EntryType /\ e.tag = "FLAGS" /\ e.bits = bits
  <2>1. es[i] \in EntryType
    BY <1>1
  <2> QED BY <2>1 DEF EntryType, StringTags
<1>3. gs = [es EXCEPT ![i] = e]
  BY DEF WithBits
<1> HIDE DEF e, gs
<1>4. /\ gs = [k \in 1..Len(es) |-> IF k = i THEN e ELSE es[k]]
  BY <1>1, <1>3
<1>5. \A k \in 1..Len(es) : (IF k = i THEN e ELSE es[k]) \in EntryType
  BY <1>1, <1>2
<1>6. gs \in Seq(EntryType) /\ Len(gs) = Len(es)
  <2> HIDE DEF EntryType
  <2> QED BY <1>1, <1>4, <1>5
<1>7. gs[i] = e /\ \A k \in 1..Len(es) : k # i => gs[k] = es[k]
  BY <1>4
<1>8. Shown(gs) = Shown(es)
  <2>1. \A k \in 1..Len(es) : IsNull(gs[k]) <=> IsNull(es[k])
    BY <1>2, <1>7 DEF IsNull
  <2> QED BY <1>6, <2>1 DEF Shown
<1> QED BY <1>2, <1>6, <1>7, <1>8 DEF e, gs

\* That entry is still of the type of entries, and no DT_NULL.
LEMMA BitsAt ==
  ASSUME NEW es \in Seq(EntryType), NEW i \in 1..Len(es), NEW bits
  PROVE  WithBits(es, i, bits)[i] = [es[i] EXCEPT !.bits = bits]
<1>1. DOMAIN es = 1..Len(es)
  BY SeqShape
<1> QED BY <1>1 DEF WithBits

\* The bits change in the list where they change in the array.
LEMMA LiveBits ==
  ASSUME NEW es \in Seq(EntryType), NEW i \in 1..Len(es), es[i].tag = "FLAGS",
         NEW bits \in SUBSET Bits,
         NEW f, Ascending(f, Shown(es)), NEW j \in 1..Len(f), f[j] = i
  PROVE  Live(WithBits(es, i, bits)) = WithBits(Live(es), j, bits)
<1> DEFINE l == Live(es)
           gs == WithBits(es, i, bits)
<1>1. /\ gs \in Seq(EntryType) /\ Shown(gs) = Shown(es)
      /\ gs[i] = [es[i] EXCEPT !.bits = bits]
      /\ \A k \in 1..Len(es) : k # i => gs[k] = es[k]
  <2>1. gs[i] = [es[i] EXCEPT !.bits = bits]
    BY BitsAt
  <2>2. /\ gs \in Seq(EntryType) /\ Shown(gs) = Shown(es)
        /\ \A k \in 1..Len(es) : k # i => gs[k] = es[k]
    BY BitsShape
  <2> QED BY <2>1, <2>2
<1>2. /\ DOMAIN l = 1..Len(f) /\ Len(f) \in Nat
      /\ \A k \in 1..Len(f) : f[k] \in 1..Len(es) /\ l[k] = es[f[k]]
      /\ \A k, m \in 1..Len(f) : k < m => f[k] < f[m]
  BY LiveShape
<1>3. l = [k \in 1..Len(f) |-> l[k]]
  <2>1. l = Of(es, f)
    BY LiveIs
  <2> QED BY <2>1 DEF Of
<1>4. Live(gs) = [k \in 1..Len(f) |-> gs[f[k]]]
  BY <1>1, <1>2, LiveChanged
<1> HIDE DEF l, gs
<1>5. ASSUME NEW k \in 1..Len(f)
      PROVE  gs[f[k]] = IF k = j THEN [l[j] EXCEPT !.bits = bits] ELSE l[k]
  <2>1. CASE k = j
    BY <1>1, <1>2, <2>1
  <2>2. CASE k # j
    <3>1. k < j \/ j < k
      BY <1>2, <2>2
    <3>2. f[k] < f[j] \/ f[j] < f[k]
      BY <1>2, <3>1
    <3>3. f[k] # i /\ f[k] \in 1..Len(es)
      BY <1>2, <3>2
    <3> QED BY <1>1, <1>2, <2>2, <3>3
  <2> QED BY <2>1, <2>2
<1>6. Live(gs) = [k \in 1..Len(f) |-> IF k = j THEN [l[j] EXCEPT !.bits = bits] ELSE l[k]]
  BY <1>4, <1>5, Zenon
<1>7. WithBits(l, j, bits) =
        [k \in 1..Len(f) |-> IF k = j THEN [l[j] EXCEPT !.bits = bits] ELSE l[k]]
  BY <1>3 DEF WithBits
<1> QED BY <1>6, <1>7 DEF l, gs

\* What the promise says of the list l, which becomes m.
PromiseFlags(l, m, add, rem) ==
  LET i == Promise!LastFlags(l)
      bits == (l[i].bits \cup add) \ rem
  IN IF i = 0
     THEN IF add = {} THEN m = l ELSE m \in Promise!Inserted(l, Entry("FLAGS", << >>, add))
     ELSE IF bits = {} /\ l[i].bits # {} THEN m = Promise!Without(l, {"FLAGS"})
     ELSE m = WithBits(l, i, bits)

\* add_remove_flags does what is promised of it.
LEMMA FlagsShape ==
  ASSUME NEW es \in Seq(EntryType), NEW add \in SUBSET Bits, NEW rem \in SUBSET Bits,
         NEW gs, gs = AddRemoveFlags(es, add, rem)
  PROVE  /\ gs \in Seq(EntryType) /\ Len(gs) \in {Len(es), Len(es) + 1}
         /\ PromiseFlags(Live(es), Live(gs), add, rem)
<1> DEFINE i == SelectLastInSeq(es, LAMBDA e : e.tag = "FLAGS")
           l == Live(es)
           j == Promise!LastFlags(l)
           bits == (es[i].bits \cup add) \ rem
<1>1. PICK f : Ascending(f, Shown(es))
  BY LiveListed
<1>2. \/ i = 0 /\ j = 0
      \/ i \in 1..Len(es) /\ es[i].tag = "FLAGS" /\ j \in 1..Len(f) /\ f[j] = i
  <2>1. i = SelectLastInSeq(es, LAMBDA e : e.tag = "FLAGS") /\ j = Promise!LastFlags(Live(es))
    OBVIOUS
  <2> HIDE DEF i, j
  <2> QED BY <1>1, <2>1, FlagsLive
<1>3. gs = IF i = 0 THEN IF add = {} THEN es ELSE Put(es, Entry("FLAGS", << >>, add))
           ELSE IF bits = {} /\ es[i].bits # {} THEN RemoveMask(es, {"FLAGS"})
           ELSE WithBits(es, i, bits)
  BY DEF AddRemoveFlags, WithBits
<1>4. Len(es) \in Nat
  BY SeqShape
<1> HIDE DEF i, j, l
<1>5. CASE i = 0 /\ add = {}
  <2>1. j = 0 /\ gs = es
    BY <1>2, <1>3, <1>4, <1>5
  <2>2. PromiseFlags(l, Live(gs), add, rem)
    BY <1>5, <2>1 DEF PromiseFlags, j, l
  <2> QED BY <1>4, <2>1, <2>2 DEF l
<1>6. CASE i = 0 /\ add # {}
  <2> DEFINE e == Entry("FLAGS", << >>, add)
  <2>1. e \in EntryType /\ ~ IsNull(e)
    <3>1. "FLAGS" \in {"FLAGS", "DEBUG", "STRTAB", "SYMTAB"}
      OBVIOUS
    <3> QED BY <3>1, EntryTypes
  <2>2. j = 0 /\ gs = Put(es, e)
    BY <1>2, <1>3, <1>4, <1>6
  <2> HIDE DEF e
  <2>3. /\ gs \in Seq(EntryType) /\ Len(gs) \in {Len(es), Len(es) + 1}
        /\ Live(gs) \in Promise!Inserted(l, e)
    BY <2>1, <2>2, PutShape, LivePut DEF l
  <2>4. PromiseFlags(l, Live(gs), add, rem)
    BY <1>6, <2>2, <2>3 DEF PromiseFlags, j, e
  <2> QED BY <2>3, <2>4 DEF l
<1>7. ASSUME i \in 1..Len(es), es[i].tag = "FLAGS", j \in 1..Len(f), f[j] = i
      PROVE  /\ gs \in Seq(EntryType) /\ Len(gs) \in {Len(es), Len(es) + 1}
             /\ PromiseFlags(Live(es), Live(gs), add, rem)
  <2>1. i # 0 /\ j # 0
    BY <1>7
  <2>2. l[j] = es[i] /\ es[i].bits \in SUBSET Bits
    <3>1. l[j] = es[i]
      BY <1>1, <1>7, LiveShape DEF l
    <3>2. es[i] \in EntryType
      BY <1>7, SeqShape
    <3> QED BY <3>1, <3>2 DEF EntryType
  <2>3. CASE bits = {} /\ es[i].bits # {}
    <3>1. gs = RemoveMask(es, {"FLAGS"})
      BY <1>3, <2>1, <2>3
    <3>2. /\ gs \in Seq(EntryType) /\ Len(gs) = Len(es)
          /\ Live(gs) = Promise!Without(l, {"FLAGS"})
      BY <3>1, RemoveMaskShape, LiveMasked DEF l
    <3>3. PromiseFlags(l, Live(gs), add, rem)
      BY <2>1, <2>2, <2>3, <3>2 DEF PromiseFlags, j
    <3> QED BY <3>2, <3>3 DEF l
  <2>4. CASE ~ (bits = {} /\ es[i].bits # {})
    <3>1. gs = WithBits(es, i, bits)
      BY <1>3, <2>1, <2>4
    <3>2. bits \in SUBSET Bits
      BY <2>2
    <3> DEFINE b == bits
    <3>3. b = (l[j].bits \cup add) \ rem /\ ~ (b = {} /\ l[j].bits # {})
      BY <2>2, <2>4
    <3>4. gs = WithBits(es, i, b) /\ b \in SUBSET Bits
      BY <3>1, <3>2
    <3> HIDE DEF b, bits
    <3>a. WithBits(es, i, b) \in Seq(EntryType) /\ Len(WithBits(es, i, b)) = Len(es)
      BY <1>7, <3>4, BitsShape
    <3>5. gs \in Seq(EntryType) /\ Len(gs) = Len(es)
      BY <3>4, <3>a
    <3>6. Live(gs) = WithBits(l, j, b)
      BY <1>1, <1>7, <3>4, LiveBits DEF l
    <3>7. PromiseFlags(l, Live(gs), add, rem)
      BY <2>1, <3>3, <3>6 DEF PromiseFlags, j
    <3> QED BY <3>5, <3>7 DEF l
  <2> QED BY <2>3, <2>4
<1> QED BY <1>2, <1>5, <1>6, <1>7

\* The bits of the last DT_FLAGS.
LastBits(es) ==
  LET i == SelectLastInSeq(es, LAMBDA e : e.tag = "FLAGS")
  IN IF i = 0 THEN {} ELSE es[i].bits

\* LastBits has the bits of the last DT_FLAGS.
LEMMA LastBitsAre ==
  ASSUME NEW es \in Seq(EntryType)
  PROVE  /\ (\A k \in 1..Len(es) : es[k].tag # "FLAGS") => LastBits(es) = {}
         /\ \A n \in 1..Len(es) :
              es[n].tag = "FLAGS" /\ (\A k \in 1..Len(es) : k > n => es[k].tag # "FLAGS")
                => LastBits(es) = es[n].bits
<1> DEFINE i == SelectLastInSeq(es, LAMBDA e : e.tag = "FLAGS")
<1>1. Len(es) \in Nat
  BY SeqShape
<1>2. \/ i = 0 /\ \A k \in 1..Len(es) : es[k].tag # "FLAGS"
      \/ /\ i \in 1..Len(es) /\ es[i].tag = "FLAGS"
         /\ \A k \in 1..Len(es) : k > i => es[k].tag # "FLAGS"
  <2>1. i = SelectLastInSeq(es, LAMBDA e : e.tag = "FLAGS")
    OBVIOUS
  <2> HIDE DEF i
  <2> QED BY <1>1, <2>1, LastFlags
<1>3. LastBits(es) = IF i = 0 THEN {} ELSE es[i].bits
  BY DEF LastBits
<1> HIDE DEF i
<1>4. ASSUME \A k \in 1..Len(es) : es[k].tag # "FLAGS" PROVE LastBits(es) = {}
  BY <1>2, <1>3, <1>4
<1>5. ASSUME NEW n \in 1..Len(es), es[n].tag = "FLAGS",
             \A k \in 1..Len(es) : k > n => es[k].tag # "FLAGS"
      PROVE  LastBits(es) = es[n].bits
  <2>1. i \in 1..Len(es) /\ es[i].tag = "FLAGS" /\ ~ (n > i)
    BY <1>2, <1>5
  <2>2. ~ (i > n)
    BY <1>5, <2>1
  <2>3. i = n /\ i # 0
    BY <1>1, <2>1, <2>2
  <2> QED BY <1>3, <2>3
<1> QED BY <1>4, <1>5

\* They are what is added and what is removed make of them.
LEMMA FlagsBits ==
  ASSUME NEW es \in Seq(EntryType), NEW add \in SUBSET Bits, NEW rem \in SUBSET Bits,
         add \cap rem = {}, NEW gs, gs = AddRemoveFlags(es, add, rem)
  PROVE  /\ LastBits(gs) = (LastBits(es) \cup add) \ rem
         /\ Has(gs, "SYMBOLIC") <=> Has(es, "SYMBOLIC")
<1> DEFINE i == SelectLastInSeq(es, LAMBDA e : e.tag = "FLAGS")
           bits == (es[i].bits \cup add) \ rem
<1>1. Len(es) \in Nat /\ DOMAIN es = 1..Len(es) /\ \A k \in 1..Len(es) : es[k] \in EntryType
  BY SeqShape
<1>2. \/ i = 0 /\ \A k \in 1..Len(es) : es[k].tag # "FLAGS"
      \/ /\ i \in 1..Len(es) /\ es[i].tag = "FLAGS"
         /\ \A k \in 1..Len(es) : k > i => es[k].tag # "FLAGS"
  <2>1. i = SelectLastInSeq(es, LAMBDA e : e.tag = "FLAGS")
    OBVIOUS
  <2> HIDE DEF i
  <2> QED BY <1>1, <2>1, LastFlags
<1>3. gs = IF i = 0 THEN IF add = {} THEN es ELSE Put(es, Entry("FLAGS", << >>, add))
           ELSE IF bits = {} /\ es[i].bits # {} THEN RemoveMask(es, {"FLAGS"})
           ELSE WithBits(es, i, bits)
  BY DEF AddRemoveFlags, WithBits
<1>4. gs \in Seq(EntryType) /\ Len(gs) \in Nat /\ DOMAIN gs = 1..Len(gs)
  <2>1. gs \in Seq(EntryType)
    BY FlagsShape
  <2> QED BY <2>1, SeqShape
<1> HIDE DEF i
<1>5. CASE i = 0 /\ add = {}
  <2>1. gs = es /\ LastBits(es) = {}
    BY <1>1, <1>2, <1>3, <1>5, LastBitsAre
  <2> QED BY <1>5, <2>1
<1>6. CASE i = 0 /\ add # {}
  <2> DEFINE e == Entry("FLAGS", << >>, add)
  <2>1. e \in EntryType /\ ~ IsNull(e) /\ e.tag = "FLAGS" /\ e.bits = add
    <3>1. "FLAGS" \in {"FLAGS", "DEBUG", "STRTAB", "SYMTAB"}
      OBVIOUS
    <3> QED BY <3>1, EntryTypes
  <2>2. gs = Put(es, e) /\ \A k \in 1..Len(es) : es[k].tag # "FLAGS"
    BY <1>1, <1>2, <1>3, <1>6
  <2> HIDE DEF e
  <2>a. /\ Len(Put(es, e)) \in {Len(es), Len(es) + 1}
        /\ \E n \in 1..Len(Put(es, e)) :
              /\ Put(es, e)[n] = e /\ n \notin Shown(es)
              /\ \A k \in 1..Len(Put(es, e)) :
                   k # n => k \in 1..Len(es) /\ Put(es, e)[k] = es[k]
    BY <2>1, PutShape
  <2>3. PICK n \in 1..Len(gs) :
          /\ gs[n] = e /\ n \notin Shown(es)
          /\ \A k \in 1..Len(gs) : k # n => k \in 1..Len(es) /\ gs[k] = es[k]
    BY <2>2, <2>a
  <2>4. Len(gs) \in {Len(es), Len(es) + 1}
    BY <2>2, <2>a
  <2>5. \A k \in 1..Len(gs) : k > n => gs[k].tag # "FLAGS"
    BY <2>2, <2>3
  <2>6. LastBits(gs) = add /\ LastBits(es) = {}
    BY <1>4, <2>1, <2>2, <2>3, <2>5, LastBitsAre
  <2>7. ASSUME Has(gs, "SYMBOLIC") PROVE Has(es, "SYMBOLIC")
    <3>1. PICK k \in 1..Len(gs) : gs[k].tag = "SYMBOLIC"
      BY <1>4, <2>7 DEF Has
    <3>2. k # n
      BY <2>1, <2>3, <3>1
    <3> QED BY <1>1, <2>3, <3>1, <3>2 DEF Has
  <2>8. ASSUME Has(es, "SYMBOLIC") PROVE Has(gs, "SYMBOLIC")
    <3>1. PICK k \in 1..Len(es) : es[k].tag = "SYMBOLIC"
      BY <1>1, <2>8 DEF Has
    <3>2. k \in Shown(es) /\ k \in 1..Len(gs)
      BY <1>1, <2>4, <3>1 DEF Shown, IsNull
    <3> QED BY <1>4, <2>3, <3>1, <3>2 DEF Has
  <2> QED BY <2>6, <2>7, <2>8
<1>7. CASE i \in 1..Len(es) /\ es[i].tag = "FLAGS"
  <2>1. i # 0 /\ \A k \in 1..Len(es) : k > i => es[k].tag # "FLAGS"
    BY <1>2, <1>7
  <2>2. LastBits(es) = es[i].bits /\ es[i].bits \in SUBSET Bits
    <3>1. es[i] \in EntryType
      BY <1>1, <1>7
    <3>2. es[i].bits \in SUBSET Bits
      BY <3>1 DEF EntryType
    <3> QED BY <1>7, <2>1, <3>2, LastBitsAre
  <2>3. CASE bits = {} /\ es[i].bits # {}
    <3>1. gs = RemoveMask(es, {"FLAGS"})
      BY <1>3, <2>1, <2>3
    <3>2. /\ Len(gs) = Len(es)
          /\ \A k \in 1..Len(es) : gs[k] = IF es[k].tag = "FLAGS" THEN Null ELSE es[k]
      BY <3>1, RemoveMaskShape
    <3>3. Null.tag = "NULL"
      BY EntryTypes DEF IsNull
    <3>4. \A k \in 1..Len(gs) : gs[k].tag # "FLAGS"
      BY <3>2, <3>3
    <3>5. LastBits(gs) = {}
      BY <1>4, <3>4, LastBitsAre
    <3>6. \A k \in 1..Len(es) : gs[k].tag = "SYMBOLIC" <=> es[k].tag = "SYMBOLIC"
      BY <3>2, <3>3
    <3>7. Has(gs, "SYMBOLIC") <=> Has(es, "SYMBOLIC")
      BY <1>1, <1>4, <3>2, <3>6 DEF Has
    <3> QED BY <2>2, <2>3, <3>5, <3>7
  <2>4. CASE ~ (bits = {} /\ es[i].bits # {})
    <3> DEFINE b == bits
    <3>1. gs = WithBits(es, i, b) /\ b \in SUBSET Bits
      BY <1>3, <2>1, <2>2, <2>4
    <3>2. b = (LastBits(es) \cup add) \ rem
      BY <2>2
    <3> HIDE DEF b, bits
    <3> DEFINE hs == WithBits(es, i, b)
    <3>a. /\ Len(hs) = Len(es) /\ hs[i].tag = "FLAGS" /\ hs[i].bits = b
          /\ \A k \in 1..Len(es) : k # i => hs[k] = es[k]
      <4>1. b \in SUBSET Bits
        BY <3>1
      <4> QED BY <1>7, <4>1, BitsShape
    <3>3. /\ Len(gs) = Len(es) /\ gs[i].tag = "FLAGS" /\ gs[i].bits = b
          /\ \A k \in 1..Len(es) : k # i => gs[k] = es[k]
      <4>1. gs = hs
        BY <3>1
      <4> HIDE DEF hs
      <4> QED BY <3>a, <4>1
    <3>4. \A k \in 1..Len(gs) : k > i => gs[k].tag # "FLAGS"
      BY <1>1, <1>7, <2>1, <3>3
    <3>5. LastBits(gs) = b
      BY <1>4, <1>7, <3>3, <3>4, LastBitsAre
    <3>6. \A k \in 1..Len(es) : gs[k].tag = "SYMBOLIC" <=> es[k].tag = "SYMBOLIC"
      BY <1>7, <3>3
    <3>7. Has(gs, "SYMBOLIC") <=> Has(es, "SYMBOLIC")
      BY <1>1, <1>4, <3>3, <3>6 DEF Has
    <3> QED BY <3>2, <3>5, <3>7
  <2> QED BY <2>3, <2>4
<1> QED BY <1>2, <1>5, <1>6, <1>7

-----------------------------------------------------------------------------
(* What a loader reads.                                                     *)

\* SelectInSubSeq finds the end of a span of DT_NULLs.
LEMMA NextShown ==
  ASSUME NEW es, Len(es) \in Nat, NEW first \in Nat, NEW n,
         n = SelectInSubSeq(es, first, Len(es), LAMBDA e : ~ IsNull(e))
  PROVE  \/ n = 0 /\ \A i \in first..Len(es) : IsNull(es[i])
         \/ /\ n \in first..Len(es) /\ ~ IsNull(es[n])
            /\ \A i \in first..(n - 1) : i \in first..Len(es) /\ IsNull(es[i])
<1> DEFINE I == {i \in first..Len(es) : ~ IsNull(es[i])}
<1>1. n = IF I # {} THEN Min(I) ELSE 0
  BY DEF SelectInSubSeq
<1>2. CASE I = {}
  BY <1>1, <1>2
<1>3. CASE I # {}
  <2>1. I \in SUBSET Nat
    OBVIOUS
  <2>2. \E m \in I : \A k \in I : m <= k
    <3> HIDE DEF I
    <3> QED BY <1>3, <2>1, Least
  <2>3. n \in I /\ \A k \in I : n <= k
    <3>1. n = CHOOSE m \in I : \A k \in I : m <= k
      BY <1>1, <1>3 DEF Min
    <3> HIDE DEF I
    <3> QED BY <2>2, <3>1
  <2>4. n \in first..Len(es) /\ ~ IsNull(es[n])
    BY <2>3
  <2>5. ASSUME NEW i \in first..(n - 1) PROVE i \in first..Len(es) /\ IsNull(es[i])
    <3>1. i \in first..Len(es) /\ ~ (n <= i)
      BY <2>4
    <3>2. i \notin I
      BY <2>3, <3>1
    <3> QED BY <3>1, <3>2
  <2> QED BY <2>4, <2>5
<1> QED BY <1>2, <1>3

\* An array of which DT_NULLs are only at the end.
LEMMA LiveHead ==
  ASSUME NEW es \in Seq(EntryType), NEW n \in 0..Len(es),
         \A i \in 1..n : ~ IsNull(es[i]), \A i \in (n + 1)..Len(es) : IsNull(es[i])
  PROVE  Live(es) = SubSeq(es, 1, n)
<1> DEFINE f == [i \in 1..n |-> i]
<1>1. Len(es) \in Nat
  BY SeqShape
<1>2. n \in Nat /\ \A i \in 1..Len(es) : i \in 1..n \/ i \in (n + 1)..Len(es)
  BY <1>1
<1>3. \A i \in 1..n : i \in 1..Len(es)
  BY <1>1
<1>4. Shown(es) = 1..n
  BY <1>2, <1>3 DEF Shown
<1>5. Ascending(f, Shown(es))
  <2>1. f \in Seq(1..n) /\ DOMAIN f = 1..n /\ \A i \in 1..n : f[i] = i
    BY <1>2
  <2> HIDE DEF f
  <2> QED BY <1>4, <2>1 DEF Ascending
<1>6. Live(es) = [i \in 1..Len(f) |-> es[f[i]]]
  <2> HIDE DEF f
  <2> QED BY <1>5, LiveIs DEF Of
<1>7. Len(f) = n
  BY <1>2
<1>8. Live(es) = [i \in 1..n |-> es[i]]
  <2>1. \A i \in 1..n : es[f[i]] = es[i]
    OBVIOUS
  <2> HIDE DEF f
  <2> QED BY <1>6, <1>7, <2>1, Zenon
<1>9. SubSeq(es, 1, n) = [i \in 1..n |-> es[i]]
  <2> HIDE DEF EntryType
  <2> QED BY <1>1, <1>2
<1> QED BY <1>8, <1>9

\* A loader reads up to the first DT_NULL.
LEMMA LoaderHead ==
  ASSUME NEW s \in Seq(EntryType), NEW n \in 0..Len(s),
         \A i \in 1..n : ~ IsNull(s[i]), n < Len(s) => IsNull(s[n + 1])
  PROVE  LoaderSees(s) = SubSeq(s, 1, n)
<1> DEFINE end == SelectInSeq(s, IsNull)
<1>1. Len(s) \in Nat /\ n \in Nat
  BY SeqShape
<1>2. \/ end = 0 /\ \A i \in 1..Len(s) : ~ IsNull(s[i])
      \/ /\ end \in 1..Len(s) /\ IsNull(s[end])
         /\ \A i \in 1..(end - 1) : i \in 1..Len(s) /\ ~ IsNull(s[i])
  <2>1. end = SelectInSeq(s, IsNull)
    OBVIOUS
  <2> HIDE DEF end
  <2> QED BY <1>1, <2>1, FirstNull
<1>3. LoaderSees(s) = IF end = 0 THEN s ELSE SubSeq(s, 1, end - 1)
  BY DEF LoaderSees
<1> HIDE DEF end
<1>4. CASE end = 0
  <2>1. ~ (n < Len(s))
    <3> SUFFICES ASSUME n < Len(s) PROVE FALSE
      OBVIOUS
    <3> DEFINE j == n + 1
    <3>1. j \in 1..Len(s) /\ IsNull(s[j])
      BY <1>1
    <3> HIDE DEF j
    <3> QED BY <1>2, <1>4, <3>1
  <2>2. n = Len(s)
    BY <1>1, <2>1
  <2>3. SubSeq(s, 1, Len(s)) = s
    <3> HIDE DEF EntryType
    <3> QED OBVIOUS
  <2> QED BY <1>3, <1>4, <2>2, <2>3
<1>5. CASE end \in 1..Len(s) /\ IsNull(s[end])
  <2>1. ~ (end \in 1..n)
    BY <1>5
  <2>2. ~ (end > n + 1)
    <3> SUFFICES ASSUME end > n + 1 PROVE FALSE
      OBVIOUS
    <3> DEFINE j == n + 1
    <3>1. j \in 1..(end - 1) /\ IsNull(s[j]) /\ end # 0
      BY <1>1, <1>5
    <3> HIDE DEF j
    <3> QED BY <1>2, <3>1
  <2>3. end = n + 1
    BY <1>1, <1>5, <2>1, <2>2
  <2> QED BY <1>1, <1>3, <2>3
<1> QED BY <1>2, <1>4, <1>5

\* What dhdrs_init takes of the array, and what it leaves.
LEMMA InitLive ==
  ASSUME NEW a \in Seq(EntryType)
  PROVE  LET es == SubSeq(a, 1, Count(a))
             r == SubSeq(a, Count(a) + 1, Len(a))
         IN /\ es \in Seq(EntryType) /\ r \in Seq(EntryType) /\ es \o r = a
            /\ Live(es) = LoaderSees(a)
<1> DEFINE first == SelectInSeq(a, IsNull)
           next == SelectInSubSeq(a, first, Len(a), LAMBDA e : ~ IsNull(e))
           c == Count(a)
           es == SubSeq(a, 1, c)
           r == SubSeq(a, c + 1, Len(a))
<1>1. Len(a) \in Nat
  BY SeqShape
<1>2. \/ first = 0 /\ \A i \in 1..Len(a) : ~ IsNull(a[i])
      \/ /\ first \in 1..Len(a) /\ IsNull(a[first])
         /\ \A i \in 1..(first - 1) : i \in 1..Len(a) /\ ~ IsNull(a[i])
  <2>1. first = SelectInSeq(a, IsNull)
    OBVIOUS
  <2> HIDE DEF first
  <2> QED BY <1>1, <2>1, FirstNull
<1>3. \/ next = 0 /\ \A i \in first..Len(a) : IsNull(a[i])
      \/ /\ next \in first..Len(a) /\ ~ IsNull(a[next])
         /\ \A i \in first..(next - 1) : i \in first..Len(a) /\ IsNull(a[i])
  <2>1. first \in Nat
    <3> HIDE DEF first
    <3> QED BY <1>1, <1>2
  <2>2. next = SelectInSubSeq(a, first, Len(a), LAMBDA e : ~ IsNull(e))
    OBVIOUS
  <2> HIDE DEF first, next
  <2> QED BY <1>1, <2>1, <2>2, NextShown
<1>4. c = IF first = 0 \/ next = 0 THEN Len(a) ELSE next - 1
  BY DEF Count
<1> HIDE DEF first, next, c
<1> DEFINE n == IF first = 0 THEN Len(a) ELSE first - 1
<1>5. /\ c \in 0..Len(a) /\ n \in 0..c
      /\ \A i \in 1..n : ~ IsNull(a[i])
      /\ \A i \in (n + 1)..c : IsNull(a[i])
      /\ n < Len(a) => IsNull(a[n + 1])
  <2>1. CASE first = 0
    BY <1>1, <1>2, <1>4, <2>1
  <2>2. CASE first # 0
    <3>1. /\ first \in 1..Len(a) /\ IsNull(a[first]) /\ n = first - 1 /\ n + 1 = first
          /\ \A i \in 1..n : ~ IsNull(a[i])
      BY <1>1, <1>2, <2>2
    <3>2. CASE next = 0
      BY <1>1, <1>3, <1>4, <3>1, <3>2
    <3>3. CASE next # 0
      <4>1. c = next - 1 /\ next \in first..Len(a) /\ ~ IsNull(a[next])
        BY <1>3, <1>4, <2>2, <3>3
      <4>2. next # first
        BY <3>1, <4>1
      <4>3. c \in 0..Len(a) /\ n \in 0..c
        BY <1>1, <3>1, <4>1, <4>2
      <4>4. \A i \in first..c : IsNull(a[i])
        BY <1>3, <3>3, <4>1
      <4> QED BY <3>1, <4>3, <4>4
    <3> QED BY <3>2, <3>3
  <2> QED BY <2>1, <2>2
<1> HIDE DEF n
<1>6. /\ es \in Seq(EntryType) /\ r \in Seq(EntryType) /\ es \o r = a
      /\ Len(es) = c /\ \A i \in 1..c : es[i] = a[i]
  <2> HIDE DEF EntryType
  <2>1. c \in Nat /\ c <= Len(a)
    BY <1>1, <1>5
  <2>2. es \in Seq(EntryType) /\ Len(es) = c /\ \A i \in 1..c : es[i] = a[i]
    BY <1>1, <2>1
  <2>3. /\ r \in Seq(EntryType) /\ Len(r) = Len(a) - c
        /\ \A i \in 1..(Len(a) - c) : r[i] = a[c + i]
    BY <1>1, <2>1
  <2> DEFINE s == es \o r
  <2> HIDE DEF es, r
  <2>4. s \in Seq(EntryType) /\ Len(s) = Len(a)
    BY <1>1, <2>1, <2>2, <2>3
  <2>5. ASSUME NEW i \in 1..Len(a) PROVE s[i] = a[i]
    <3>1. CASE i <= c
      BY <1>1, <2>1, <2>2, <2>3, <3>1
    <3>2. CASE i > c
      <4> DEFINE j == i - c
      <4>1. j \in 1..(Len(a) - c) /\ c + j = i /\ s[i] = r[j]
        BY <1>1, <2>1, <2>2, <2>3, <3>2
      <4> HIDE DEF j
      <4>2. r[j] = a[c + j]
        BY <2>3, <4>1
      <4> QED BY <4>1, <4>2
    <3>3. i <= c \/ i > c
      BY <1>1, <2>1
    <3> HIDE DEF s
    <3> QED BY <3>1, <3>2, <3>3
  <2>6. s = a
    <3> HIDE DEF s
    <3>1. s = [i \in 1..Len(a) |-> s[i]] /\ a = [i \in 1..Len(a) |-> a[i]]
      BY <2>4
    <3> QED BY <2>5, <3>1, Zenon
  <2> QED BY <2>2, <2>3, <2>6
<1>7. LoaderSees(a) = SubSeq(a, 1, n)
  <2>1. n \in 0..Len(a)
    BY <1>1, <1>5
  <2> QED BY <1>5, <2>1, LoaderHead
<1>8. Live(es) = SubSeq(es, 1, n)
  <2> HIDE DEF es
  <2>1. /\ \A i \in 1..n : ~ IsNull(es[i])
        /\ \A i \in (n + 1)..Len(es) : IsNull(es[i])
        /\ n \in 0..Len(es) /\ es \in Seq(EntryType)
    <3>1. \A i \in 1..n : i \in 1..c
      BY <1>1, <1>5
    <3>2. \A i \in (n + 1)..c : i \in 1..c
      BY <1>1, <1>5
    <3> QED BY <1>5, <1>6, <3>1, <3>2
  <2> QED BY <2>1, LiveHead
<1>9. SubSeq(es, 1, n) = SubSeq(a, 1, n)
  <2>1. n \in Nat /\ n <= c /\ c \in Nat /\ c <= Len(a)
    BY <1>1, <1>5
  <2> HIDE DEF es, EntryType
  <2>2. SubSeq(es, 1, n) = [i \in 1..n |-> es[i]] /\ SubSeq(a, 1, n) = [i \in 1..n |-> a[i]]
    BY <1>1, <1>6, <2>1
  <2>3. \A i \in 1..n : es[i] = a[i]
    BY <1>6, <2>1
  <2> QED BY <2>2, <2>3, Zenon
<1> QED BY <1>6, <1>7, <1>8, <1>9 DEF c

\* The list is no longer than the array.
LEMMA LiveShort ==
  ASSUME NEW es \in Seq(EntryType)
  PROVE  Len(Live(es)) \in Nat /\ Len(Live(es)) <= Len(es)
<1>1. PICK f : Ascending(f, Shown(es))
  BY LiveListed
<1> DEFINE m == Len(f)
           S == {i \in 0..m : i = 0 \/ i <= f[i]}
<1>2. /\ Len(Live(es)) = m /\ m \in Nat /\ Len(es) \in Nat
      /\ \A i \in 1..m : f[i] \in 1..Len(es)
      /\ \A i, j \in 1..m : i < j => f[i] < f[j]
  BY <1>1, LiveShape, SeqShape
<1> HIDE DEF m
<1>3. ASSUME NEW i \in 0..(m - 1), i \in S PROVE i + 1 \in S
  <2> DEFINE j == i + 1
  <2>1. j \in 1..m
    BY <1>2
  <2>2. CASE i = 0
    <3>1. j = 1 /\ f[j] \in 1..Len(es)
      BY <1>2, <2>1, <2>2
    <3>2. j <= f[j]
      BY <1>2, <3>1
    <3> QED BY <2>1, <3>2
  <2>3. CASE i # 0
    <3>1. i \in 1..m /\ i <= f[i] /\ i < j /\ j = i + 1
      BY <1>2, <1>3, <2>3
    <3> HIDE DEF j
    <3>2. f[i] < f[j] /\ f[i] \in 1..Len(es) /\ f[j] \in 1..Len(es)
      BY <1>2, <2>1, <3>1
    <3>3. j <= f[j]
      BY <1>2, <3>1, <3>2
    <3>4. j \in S
      BY <2>1, <3>3
    <3> QED BY <3>1, <3>4
  <2> QED BY <2>2, <2>3
<1>4. S = 0..m
  <2>1. S \in SUBSET (0..m) /\ 0 \in S
    BY <1>2
  <2> HIDE DEF S
  <2> QED BY <1>2, <1>3, <2>1, Upwards
<1>5. CASE m = 0
  BY <1>2, <1>5
<1>6. CASE m # 0
  <2>1. m \in 1..m /\ m \in S
    BY <1>2, <1>4, <1>6
  <2>2. m <= f[m] /\ f[m] \in 1..Len(es)
    BY <1>2, <1>6, <2>1
  <2> QED BY <1>2, <2>2
<1> QED BY <1>5, <1>6

\* fixup_nulls: the list, and DT_NULLs behind it.
LEMMA FixupShape ==
  ASSUME NEW es \in Seq(EntryType), NEW onHeap \in BOOLEAN
  PROVE  LET gs == FixupNulls(es, onHeap)
         IN /\ gs \in Seq(EntryType) /\ Live(gs) = Live(es)
            /\ \A r \in Seq(EntryType) :
                 LoaderSees(gs \o r) = Live(es) /\ Has(gs \o r, "NULL")
            /\ LoaderSees(gs) = Live(es) /\ Has(gs, "NULL")
<1> DEFINE gs == FixupNulls(es, onHeap)
           l == Live(es)
           m == Len(l)
           spare == Len(es) - m
           t == IF onHeap \/ spare = 0 THEN <<Null>> ELSE [i \in 1..spare |-> Null]
<1>1. /\ m \in Nat /\ m <= Len(es) /\ Len(es) \in Nat
  BY LiveShort, SeqShape
<1>2. Null \in EntryType /\ IsNull(Null) /\ Null.tag = "NULL"
  BY EntryTypes DEF IsNull
<1>3. l \in Seq(EntryType) /\ \A i \in 1..m : ~ IsNull(l[i])
  <2>1. PICK f : Ascending(f, Shown(es))
    BY LiveListed
  <2> QED BY <2>1, LiveShape
<1>4. gs = IF onHeap \/ spare = 0 THEN Append(l, Null) ELSE l \o [i \in 1..spare |-> Null]
  BY DEF FixupNulls
<1>5. Len(t) \in Nat \ {0} /\ t \in Seq(EntryType) /\ \A i \in 1..Len(t) : t[i] = Null
  <2> HIDE DEF EntryType, l, m
  <2>1. CASE onHeap \/ spare = 0
    BY <1>2, <2>1
  <2>2. CASE ~ (onHeap \/ spare = 0)
    <3>1. spare \in Nat \ {0} /\ t = [i \in 1..spare |-> Null]
      BY <1>1, <2>2
    <3> QED BY <1>2, <3>1
  <2> QED BY <2>1, <2>2
<1>6. gs = l \o t
  <2>1. Append(l, Null) = l \o <<Null>>
    <3> HIDE DEF l, EntryType
    <3> QED BY <1>2, <1>3
  <2> HIDE DEF l, gs
  <2> QED BY <1>4, <2>1
<1> HIDE DEF t, gs, l
<1>7. /\ gs \in Seq(EntryType) /\ Len(gs) = m + Len(t)
      /\ (\A i \in 1..m : gs[i] = l[i]) /\ \A i \in (m + 1)..Len(gs) : gs[i] = Null
  <2> HIDE DEF EntryType
  <2>1. gs \in Seq(EntryType) /\ Len(gs) = m + Len(t) /\ \A i \in 1..m : gs[i] = l[i]
    BY <1>3, <1>5, <1>6
  <2>2. ASSUME NEW i \in (m + 1)..Len(gs) PROVE gs[i] = Null
    <3> DEFINE j == i - m
    <3>1. j \in 1..Len(t) /\ gs[i] = t[j]
      BY <1>1, <1>3, <1>5, <1>6, <2>1
    <3> HIDE DEF j
    <3> QED BY <1>5, <3>1
  <2> QED BY <2>1, <2>2
<1>8. ASSUME NEW s \in Seq(EntryType), Len(s) \in Nat, m < Len(s), IsNull(s[m + 1]),
             \A i \in 1..m : s[i] = l[i]
      PROVE  LoaderSees(s) = l /\ Has(s, "NULL")
  <2>1. m \in 0..Len(s) /\ m + 1 \in 1..Len(s) /\ DOMAIN s = 1..Len(s)
    BY <1>1, <1>8
  <2>2. \A i \in 1..m : ~ IsNull(s[i])
    BY <1>3, <1>8
  <2>3. LoaderSees(s) = SubSeq(s, 1, m)
    BY <1>8, <2>1, <2>2, LoaderHead
  <2>4. SubSeq(s, 1, m) = l
    <3> HIDE DEF EntryType
    <3>1. SubSeq(s, 1, m) = [i \in 1..m |-> s[i]] /\ l = [i \in 1..m |-> l[i]]
      BY <1>1, <1>3, <1>8
    <3> QED BY <1>8, <3>1, Zenon
  <2>5. Has(s, "NULL")
    BY <1>8, <2>1 DEF Has, IsNull
  <2> QED BY <2>3, <2>4, <2>5
<1>9. Len(gs) \in Nat /\ m < Len(gs) /\ m + 1 \in (m + 1)..Len(gs) /\ m \in 0..Len(gs)
  BY <1>1, <1>5, <1>7
<1>10. IsNull(gs[m + 1])
  BY <1>2, <1>7, <1>9
<1>11. LoaderSees(gs) = l /\ Has(gs, "NULL")
  BY <1>7, <1>8, <1>9, <1>10
<1>12. Live(gs) = l
  <2>1. (\A i \in 1..m : ~ IsNull(gs[i])) /\ \A i \in (m + 1)..Len(gs) : IsNull(gs[i])
    BY <1>2, <1>3, <1>7
  <2>2. Live(gs) = SubSeq(gs, 1, m)
    BY <1>7, <1>9, <2>1, LiveHead
  <2>3. SubSeq(gs, 1, m) = l
    <3> HIDE DEF EntryType
    <3>1. SubSeq(gs, 1, m) = [i \in 1..m |-> gs[i]] /\ l = [i \in 1..m |-> l[i]]
      BY <1>1, <1>3, <1>7, <1>9
    <3> QED BY <1>7, <3>1, Zenon
  <2> QED BY <2>2, <2>3
<1>13. ASSUME NEW r \in Seq(EntryType)
       PROVE  LoaderSees(gs \o r) = l /\ Has(gs \o r, "NULL")
  <2> DEFINE s == gs \o r
  <2>1. s \in Seq(EntryType) /\ Len(s) \in Nat /\ m < Len(s) /\ s[m + 1] = gs[m + 1]
    <3> HIDE DEF EntryType
    <3> QED BY <1>1, <1>7, <1>9
  <2>2. \A i \in 1..m : s[i] = gs[i]
    <3> HIDE DEF EntryType
    <3> QED BY <1>1, <1>7, <1>9
  <2> HIDE DEF s
  <2>3. LoaderSees(s) = l /\ Has(s, "NULL")
    BY <1>7, <1>8, <1>10, <2>1, <2>2
  <2> QED BY <2>3 DEF s
<1> QED BY <1>7, <1>11, <1>12, <1>13 DEF gs, l

\* ensure_minimal: two more entries, if need be.
LEMMA MinimalShape ==
  ASSUME NEW es \in Seq(EntryType)
  PROVE  /\ EnsureMinimal(es) \in Seq(EntryType)
         /\ \E l \in (IF Promise!Has(Live(es), "STRTAB") THEN {Live(es)}
                      ELSE Promise!Inserted(Live(es), Promise!Entry("STRTAB", << >>, {}))) :
              Live(EnsureMinimal(es)) \in
                (IF Promise!Has(l, "SYMTAB") THEN {l}
                 ELSE Promise!Inserted(l, Promise!Entry("SYMTAB", << >>, {})))
<1> DEFINE s == IF Has(es, "STRTAB") THEN es ELSE SetU(es, "STRTAB", {})
           gs == IF Has(s, "SYMTAB") THEN s ELSE SetU(s, "SYMTAB", {})
<1>1. EnsureMinimal(es) = gs
  BY DEF EnsureMinimal
<1>2. /\ s \in Seq(EntryType)
      /\ Live(s) \in (IF Promise!Has(Live(es), "STRTAB") THEN {Live(es)}
                      ELSE Promise!Inserted(Live(es), Promise!Entry("STRTAB", << >>, {})))
  BY SetUShape, HasLive DEF Promise!Entry, Entry
<1> HIDE DEF s
<1>3. /\ gs \in Seq(EntryType)
      /\ Live(gs) \in (IF Promise!Has(Live(s), "SYMTAB") THEN {Live(s)}
                       ELSE Promise!Inserted(Live(s), Promise!Entry("SYMTAB", << >>, {})))
  BY <1>2, SetUShape, HasLive DEF Promise!Entry, Entry
<1> HIDE DEF gs
<1> QED BY <1>1, <1>2, <1>3

-----------------------------------------------------------------------------
(* The invariant.                                                           *)

DhdrTypes ==
  /\ entries \in Seq(EntryType) /\ rest \in Seq(EntryType)
  /\ heap \in BOOLEAN /\ modified \in BOOLEAN /\ flushed \in BOOLEAN

\* As long as nothing has been modified, the file has the entries, and a loader
\* sees those of the editor.
Original ==
  ~ flushed /\ ~ modified =>
    inFile = entries \o rest /\ LoaderSees(inFile) = Live(entries)

DhdrInv == DhdrTypes /\ Original

\* The invariant holds of every file, and a loader of the file sees the list.
LEMMA InitDhdr == Init => DhdrInv /\ Live(entries) = InMemory /\ flushed = FALSE
<1> SUFFICES ASSUME Init PROVE DhdrInv /\ Live(entries) = InMemory /\ flushed = FALSE
  OBVIOUS
<1>1. PICK a \in Arrays :
        /\ entries = SubSeq(a.array, 1, Count(a.array))
        /\ rest = SubSeq(a.array, Count(a.array) + 1, Len(a.array))
        /\ heap = a.split
        /\ modified = FALSE /\ flushed = FALSE
        /\ inFile = a.array
  BY DEF Init
<1>2. a.array \in Seq(EntryType) /\ a.split \in BOOLEAN
  BY DhdrAssumption
<1>3. /\ entries \in Seq(EntryType) /\ rest \in Seq(EntryType) /\ entries \o rest = a.array
      /\ Live(entries) = LoaderSees(a.array)
  BY <1>1, <1>2, InitLive
<1> QED BY <1>1, <1>2, <1>3 DEF DhdrInv, DhdrTypes, Original, InMemory

\* The state after an edit.
LEMMA BecomeKeeps ==
  ASSUME DhdrInv, NEW es \in Seq(EntryType), NEW changed \in BOOLEAN, Become(es, changed),
         ~ changed => es = entries
  PROVE  DhdrInv' /\ entries' = es /\ InMemory' = InMemory /\ Live(entries)' = Live(es)
<1>1. /\ entries' = es /\ flushed = FALSE /\ flushed' = FALSE /\ rest' = rest /\ inFile' = inFile
      /\ heap' = (heap \/ Len(es) > Len(entries))
      /\ modified' = (modified \/ changed)
  BY DEF Become, DhdrInv, DhdrTypes
<1>2. DhdrTypes'
  BY <1>1 DEF DhdrInv, DhdrTypes
<1>3. Original'
  <2> SUFFICES ASSUME ~ modified'
               PROVE  (inFile = entries \o rest /\ LoaderSees(inFile) = Live(entries))'
    BY DEF Original
  <2>1. ~ modified /\ ~ changed
    BY <1>1
  <2>2. entries' = entries
    BY <1>1, <2>1
  <2>3. inFile = entries \o rest /\ LoaderSees(inFile) = Live(entries)
    BY <1>1, <2>1 DEF DhdrInv, Original
  <2> QED BY <1>1, <2>2, <2>3
<1>4. InMemory' = InMemory
  BY <1>1 DEF InMemory
<1> QED BY <1>1, <1>2, <1>3, <1>4 DEF DhdrInv

-----------------------------------------------------------------------------
(* The actions, each of which is one of the promise.                        *)

\* Nothing is removed if there is no entry of this tag.
LEMMA MaskNothing ==
  ASSUME NEW es \in Seq(EntryType), NEW tag, ~ Has(es, tag)
  PROVE  RemoveMask(es, {tag}) = es
<1>1. Len(es) \in Nat /\ DOMAIN es = 1..Len(es)
  BY SeqShape
<1>2. RemoveMask(es, {tag}) = [i \in DOMAIN es |-> IF es[i].tag \in {tag} THEN Null ELSE es[i]]
  BY DEF RemoveMask, Nulled
<1>3. \A i \in DOMAIN es : (IF es[i].tag \in {tag} THEN Null ELSE es[i]) = es[i]
  BY DEF Has
<1>4. es = [i \in DOMAIN es |-> es[i]]
  BY <1>1
<1> QED BY <1>2, <1>3, <1>4, Zenon

\* --add-debug: DT_DEBUG has the bits {} or is put somewhere between the others.
LEMMA AddDebugStep ==
  ASSUME DhdrInv, AddDebug
  PROVE  DhdrInv' /\ Promise!Edit
<1> DEFINE es == SetU(entries, "DEBUG", {})
<1>1. entries \in Seq(EntryType)
  BY DEF DhdrInv, DhdrTypes
<1>2. /\ es \in Seq(EntryType)
      /\ Has(entries, "DEBUG") =>
           Live(es) = [i \in DOMAIN Live(entries) |->
                        IF Live(entries)[i].tag = "DEBUG" THEN [Live(entries)[i] EXCEPT !.bits = {}]
                        ELSE Live(entries)[i]]
      /\ ~ Has(entries, "DEBUG") =>
           Live(es) \in Promise!Inserted(Live(entries), Entry("DEBUG", << >>, {}))
  <2>1. "DEBUG" \in {"DEBUG", "STRTAB", "SYMTAB"}
    OBVIOUS
  <2> QED BY <1>1, <2>1, SetUShape
<1>3. Become(es, es # entries)
  BY DEF AddDebug
<1> HIDE DEF es
<1>4. DhdrInv' /\ Live(entries)' = Live(es) /\ InMemory' = InMemory
  <2> DEFINE changed == es # entries
  <2>1. changed \in BOOLEAN /\ (~ changed => es = entries) /\ Become(es, changed)
    BY <1>3
  <2> HIDE DEF changed
  <2> QED BY <1>2, <2>1, BecomeKeeps
<1>5. Has(entries, "DEBUG") <=> Promise!Has(Live(entries), "DEBUG")
  BY <1>1, HasLive
<1>6. Promise!SetU("DEBUG", {})
  BY <1>2, <1>4, <1>5 DEF Promise!SetU, Promise!Entry, Entry
<1> QED BY <1>4, <1>6 DEF Promise!Edit

\* --set-soname and --set-runpath put a new entry somewhere, or change nothing.
LEMMA SetStrStep ==
  ASSUME DhdrInv, NEW tag \in {"SONAME", "RUNPATH"}, NEW str \in Lists,
         Become(SetStr(entries, tag, str), SetStrModifies(entries, tag, str))
  PROVE  DhdrInv' /\ Promise!Edit
<1> DEFINE es == SetStr(entries, tag, str)
           changed == SetStrModifies(entries, tag, str)
<1>1. entries \in Seq(EntryType) /\ tag \in StringTags /\ str \in Seq(Names)
  BY DhdrAssumption DEF DhdrInv, DhdrTypes, StringTags
<1>2. /\ es \in Seq(EntryType) /\ Live(es) \in Promise!StringSet(Live(entries), tag, str)
      /\ Has(entries, tag) => es = entries
  BY <1>1, SetStrShape
<1>3. changed \in BOOLEAN /\ (~ changed => Has(entries, tag)) /\ Become(es, changed)
  BY DEF SetStrModifies, Has
<1> HIDE DEF es, changed
<1>4. DhdrInv' /\ Live(entries)' = Live(es) /\ InMemory' = InMemory
  BY <1>2, <1>3, BecomeKeeps
<1>5. Promise!SetStr(tag, str)
  BY <1>2, <1>4 DEF Promise!SetStr
<1> QED BY <1>1, <1>4, <1>5 DEF Promise!Edit, Promise!StringTags, StringTags

\* --set-rpath drops the DT_RUNPATHs of the list as well.
LEMMA SetRpathStep ==
  ASSUME DhdrInv, NEW str \in Lists, SetRpath(str)
  PROVE  DhdrInv' /\ Promise!Edit
<1> DEFINE s == SetStr(entries, "RPATH", str)
           es == RemoveMask(s, {"RUNPATH"})
           changed == SetStrModifies(entries, "RPATH", str) \/ Has(entries, "RUNPATH")
<1>1. entries \in Seq(EntryType) /\ "RPATH" \in StringTags /\ str \in Seq(Names)
  BY DhdrAssumption DEF DhdrInv, DhdrTypes, StringTags
<1>2. /\ s \in Seq(EntryType) /\ Live(s) \in Promise!StringSet(Live(entries), "RPATH", str)
      /\ Has(entries, "RPATH") => s = entries
  BY <1>1, SetStrShape
<1>3. /\ changed \in BOOLEAN /\ Become(es, changed)
      /\ ~ changed => Has(entries, "RPATH") /\ ~ Has(entries, "RUNPATH")
  BY DEF SetRpath, SetStrModifies, Has
<1> HIDE DEF s, changed
<1>4. es \in Seq(EntryType) /\ Live(es) = Promise!Without(Live(s), {"RUNPATH"})
  <2>1. "NULL" \notin {"RUNPATH"}
    OBVIOUS
  <2> QED BY <1>2, <2>1, RemoveMaskShape, LiveMasked
<1>5. ~ changed => es = entries
  BY <1>1, <1>2, <1>3, MaskNothing
<1> HIDE DEF es
<1>6. DhdrInv' /\ Live(entries)' = Live(es) /\ InMemory' = InMemory
  BY <1>3, <1>4, <1>5, BecomeKeeps
<1>7. Promise!SetStr("RPATH", str)
  BY <1>2, <1>4, <1>6 DEF Promise!SetStr
<1> QED BY <1>1, <1>6, <1>7 DEF Promise!Edit, Promise!StringTags, StringTags

\* Nothing is set where there is a list already.
LEMMA AddToListStep ==
  ASSUME DhdrInv, NEW tag \in {"RPATH", "RUNPATH"}, NEW str \in Lists, AddToList(tag, str),
         Has(entries, tag)
  PROVE  DhdrInv' /\ Promise!Edit
<1> DEFINE list == Extended(Find(entries, tag).str, str)
           s == IF list = << >> THEN entries ELSE SetStr(entries, tag, list)
           changed == list # << >> /\ SetStrModifies(entries, tag, list)
<1>1. entries \in Seq(EntryType) /\ tag \in StringTags /\ tag # "NULL"
  BY DEF DhdrInv, DhdrTypes, StringTags
<1>2. s = entries
  <2>1. CASE list = << >>
    BY <2>1
  <2>2. CASE list # << >>
    <3> HIDE DEF list
    <3>1. SetStr(entries, tag, list) = entries
      BY <1>1, SetStrKeeps
    <3> QED BY <2>2, <3>1
  <2> QED BY <2>1, <2>2
<1>3. changed \in BOOLEAN
  BY DEF SetStrModifies, Has
<1>4. IF tag = "RPATH"
      THEN Become(RemoveMask(s, {"RUNPATH"}), changed \/ Has(entries, "RUNPATH"))
      ELSE Become(s, changed)
  BY DEF AddToList
<1> HIDE DEF s, list, changed
<1>5. Promise!StringSet(Live(entries), tag, str) = {Live(entries)}
  BY <1>1, HasLive DEF Promise!StringSet
<1>6. CASE tag = "RPATH"
  <2> DEFINE es == RemoveMask(entries, {"RUNPATH"})
             more == changed \/ Has(entries, "RUNPATH")
  <2>1. Become(es, more) /\ more \in BOOLEAN
    BY <1>2, <1>3, <1>4, <1>6 DEF Has
  <2>2. es \in Seq(EntryType) /\ Live(es) = Promise!Without(Live(entries), {"RUNPATH"})
    <3>1. "NULL" \notin {"RUNPATH"}
      OBVIOUS
    <3> QED BY <1>1, <3>1, RemoveMaskShape, LiveMasked
  <2>3. ~ more => es = entries
    BY <1>1, MaskNothing
  <2> HIDE DEF es, more
  <2>4. DhdrInv' /\ Live(entries)' = Live(es) /\ InMemory' = InMemory
    BY <2>1, <2>2, <2>3, BecomeKeeps
  <2>5. Promise!SetStr(tag, str)
    BY <1>5, <1>6, <2>2, <2>4 DEF Promise!SetStr
  <2> QED BY <1>1, <2>4, <2>5 DEF Promise!Edit, Promise!StringTags, StringTags
<1>7. CASE tag # "RPATH"
  <2>1. Become(entries, changed)
    BY <1>2, <1>4, <1>7
  <2>2. DhdrInv' /\ Live(entries)' = Live(entries) /\ InMemory' = InMemory
    BY <1>1, <1>3, <2>1, BecomeKeeps
  <2>3. Promise!SetStr(tag, str)
    BY <1>5, <1>7, <2>2 DEF Promise!SetStr
  <2> QED BY <1>1, <2>2, <2>3 DEF Promise!Edit, Promise!StringTags, StringTags
<1> QED BY <1>6, <1>7

\* --remove-... drops the entries of one tag.
LEMMA RemoveTagStep ==
  ASSUME DhdrInv, NEW tag \in {"SONAME", "RPATH", "RUNPATH", "DEBUG"}, RemoveTag(tag)
  PROVE  DhdrInv' /\ Promise!Edit
<1> DEFINE es == RemoveMask(entries, {tag})
           changed == Has(entries, tag)
<1>1. entries \in Seq(EntryType) /\ "NULL" \notin {tag}
  BY DEF DhdrInv, DhdrTypes
<1>2. es \in Seq(EntryType) /\ Live(es) = Promise!Without(Live(entries), {tag})
  BY <1>1, RemoveMaskShape, LiveMasked
<1>3. Become(es, changed) /\ changed \in BOOLEAN
  BY DEF RemoveTag, Has
<1>4. ~ changed => es = entries
  BY <1>1, MaskNothing
<1> HIDE DEF es, changed
<1>5. DhdrInv' /\ Live(entries)' = Live(es) /\ InMemory' = InMemory
  BY <1>2, <1>3, <1>4, BecomeKeeps
<1>6. Promise!RemoveTag(tag)
  BY <1>2, <1>5 DEF Promise!RemoveTag
<1>7. tag \in Promise!Tags
  BY DEF Promise!Tags, Promise!StringTags
<1> QED BY <1>5, <1>6, <1>7 DEF Promise!Edit

\* --add-flags and --remove-flags of DF_ flags, the latter of DT_SYMBOLIC, too.
LEMMA FlagsStep ==
  ASSUME DhdrInv, NEW add \in SUBSET Bits, NEW rem \in SUBSET Bits, Flags(add, rem)
  PROVE  DhdrInv' /\ Promise!Edit
<1> DEFINE es == IF "SYMBOLIC" \in rem THEN RemoveMask(entries, {"SYMBOLIC"}) ELSE entries
           gs == AddRemoveFlags(es, add, rem)
           list == IF "SYMBOLIC" \in rem THEN Promise!Without(Live(entries), {"SYMBOLIC"})
                   ELSE Live(entries)
           changed == gs # entries
<1>1. entries \in Seq(EntryType)
  BY DEF DhdrInv, DhdrTypes
<1>2. es \in Seq(EntryType) /\ Live(es) = list
  <2>1. CASE "SYMBOLIC" \in rem
    <3>1. "NULL" \notin {"SYMBOLIC"}
      OBVIOUS
    <3> QED BY <1>1, <2>1, <3>1, RemoveMaskShape, LiveMasked
  <2>2. CASE "SYMBOLIC" \notin rem
    BY <1>1, <2>2
  <2> QED BY <2>1, <2>2
<1>3. Become(gs, changed) /\ changed \in BOOLEAN /\ (~ changed => gs = entries)
  BY DEF Flags
<1> HIDE DEF es, changed
<1>4. gs \in Seq(EntryType) /\ PromiseFlags(Live(es), Live(gs), add, rem)
  <2>1. gs = AddRemoveFlags(es, add, rem)
    OBVIOUS
  <2> HIDE DEF gs
  <2> QED BY <1>2, <2>1, FlagsShape
<1> HIDE DEF gs
<1>5. DhdrInv' /\ Live(entries)' = Live(gs) /\ InMemory' = InMemory
  BY <1>3, <1>4, BecomeKeeps
<1>6. PromiseFlags(list, Live(entries)', add, rem)
  BY <1>2, <1>4, <1>5
<1>7. Promise!AddRemoveFlags(add, rem)
  BY <1>6 DEF Promise!AddRemoveFlags, PromiseFlags, WithBits, Promise!Entry, Entry
<1> QED BY <1>5, <1>7 DEF Promise!Edit

\* The actions for DT_NEEDED.
LEMMA NeededSteps ==
  ASSUME DhdrInv, NEW lib \in Libraries,
         AddEarlyNeeded(lib) \/ AddLateNeeded(lib) \/ RemoveNeeded(lib)
  PROVE  DhdrInv' /\ Promise!Edit
<1>1. entries \in Seq(EntryType)
  BY DEF DhdrInv, DhdrTypes
<1>2. Needed(lib) \in EntryType /\ ~ IsNull(Needed(lib)) /\ Promise!Needed(lib) = Needed(lib)
  BY EntryTypes, PromiseNeeded DEF IsNull
<1>3. Contains(entries, Needed(lib)) <=> Promise!Contains(Live(entries), Needed(lib))
  BY <1>1, <1>2, ContainsLive
<1>4. CASE AddEarlyNeeded(lib)
  <2> DEFINE es == <<Needed(lib)>> \o entries
             changed == TRUE
  <2>1. es \in Seq(EntryType) /\ Live(es) = <<Needed(lib)>> \o Live(entries)
    BY <1>1, <1>2, LiveEarly
  <2>2. /\ Become(es, changed) /\ ~ Contains(entries, Needed(lib))
        /\ changed \in BOOLEAN /\ changed
    BY <1>4 DEF AddEarlyNeeded
  <2> HIDE DEF es, changed
  <2>3. DhdrInv' /\ Live(entries)' = Live(es) /\ InMemory' = InMemory
    BY <2>1, <2>2, BecomeKeeps
  <2>4. Promise!AddEarlyNeeded(lib)
    BY <1>2, <2>1, <2>3 DEF Promise!AddEarlyNeeded
  <2> QED BY <1>2, <1>3, <2>2, <2>3, <2>4 DEF Promise!Edit
<1>5. CASE AddLateNeeded(lib)
  <2> DEFINE es == Append(entries, Needed(lib))
             changed == TRUE
  <2>1. es \in Seq(EntryType) /\ Live(es) = Append(Live(entries), Needed(lib))
    BY <1>1, <1>2, LiveLate
  <2>2. /\ Become(es, changed) /\ ~ Contains(entries, Needed(lib))
        /\ changed \in BOOLEAN /\ changed
    BY <1>5 DEF AddLateNeeded
  <2> HIDE DEF es, changed
  <2>3. DhdrInv' /\ Live(entries)' = Live(es) /\ InMemory' = InMemory
    BY <2>1, <2>2, BecomeKeeps
  <2>4. Promise!AddLateNeeded(lib)
    BY <1>2, <2>1, <2>3 DEF Promise!AddLateNeeded
  <2> QED BY <1>2, <1>3, <2>2, <2>3, <2>4 DEF Promise!Edit
<1>6. CASE RemoveNeeded(lib)
  <2> DEFINE es == [i \in DOMAIN entries |->
                     IF entries[i] = Needed(lib) THEN Null ELSE entries[i]]
             changed == Contains(entries, Needed(lib))
             J == {i \in DOMAIN Live(entries) : Live(entries)[i] # Needed(lib)}
  <2>1. Become(es, changed) /\ changed \in BOOLEAN
    BY <1>6 DEF RemoveNeeded, Nulled, Contains
  <2>2. /\ es \in Seq(EntryType) /\ Live(es) = Kept(Live(entries), J)
        /\ ~ changed => es = entries
    <3>1. es = [i \in DOMAIN entries |-> IF entries[i] = Needed(lib) THEN Null ELSE entries[i]]
      OBVIOUS
    <3> HIDE DEF es
    <3> QED BY <1>1, <3>1, NulledNeeded
  <2>3. Promise!Kept(Live(entries), J) = Kept(Live(entries), J)
    BY PromiseKept
  <2> HIDE DEF es, changed
  <2>4. DhdrInv' /\ Live(entries)' = Live(es) /\ InMemory' = InMemory
    BY <2>1, <2>2, BecomeKeeps
  <2>5. Promise!RemoveNeeded(lib)
    BY <1>2, <2>2, <2>3, <2>4 DEF Promise!RemoveNeeded
  <2> QED BY <2>4, <2>5 DEF Promise!Edit
<1> QED BY <1>4, <1>5, <1>6

-----------------------------------------------------------------------------
(* Every step is one of the promise.                                      *)

\* Every edit of the command line is an edit of the list.
LEMMA EditStep ==
  ASSUME DhdrInv, Edit
  PROVE  DhdrInv' /\ Promise!Edit
<1>1. ASSUME NEW str \in Lists, SetSoname(str) PROVE DhdrInv' /\ Promise!Edit
  <2> DEFINE tag == "SONAME"
  <2>1. /\ Become(SetStr(entries, tag, str), SetStrModifies(entries, tag, str))
        /\ tag \in {"SONAME", "RUNPATH"}
    BY <1>1 DEF SetSoname
  <2> HIDE DEF tag
  <2> QED BY <2>1, SetStrStep
<1>2. ASSUME NEW str \in Lists, SetRunpath(str) PROVE DhdrInv' /\ Promise!Edit
  <2> DEFINE tag == "RUNPATH"
  <2>1. /\ Become(SetStr(entries, tag, str), SetStrModifies(entries, tag, str))
        /\ tag \in {"SONAME", "RUNPATH"}
    BY <1>2 DEF SetRunpath
  <2> HIDE DEF tag
  <2> QED BY <2>1, SetStrStep
<1>3. ASSUME NEW tag \in {"SONAME", "RPATH", "RUNPATH", "DEBUG"}, RemoveTag(tag)
      PROVE  DhdrInv' /\ Promise!Edit
  BY <1>3, RemoveTagStep
<1>4. ASSUME NEW str \in Lists, AddRpath(str) PROVE DhdrInv' /\ Promise!Edit
  <2>1. CASE Has(entries, "RPATH")
    <3> DEFINE tag == "RPATH"
    <3>1. Has(entries, tag) /\ AddToList(tag, str) /\ tag \in {"RPATH", "RUNPATH"}
      BY <1>4, <2>1 DEF AddRpath
    <3> HIDE DEF tag
    <3> QED BY <3>1, AddToListStep
  <2>2. CASE ~ Has(entries, "RPATH")
    BY <1>4, <2>2, SetRpathStep DEF AddRpath
  <2> QED BY <2>1, <2>2
<1>5. ASSUME NEW str \in Lists, AddRunpath(str) PROVE DhdrInv' /\ Promise!Edit
  <2>1. CASE Has(entries, "RUNPATH")
    <3> DEFINE tag == "RUNPATH"
    <3>1. Has(entries, tag) /\ AddToList(tag, str) /\ tag \in {"RPATH", "RUNPATH"}
      BY <1>5, <2>1 DEF AddRunpath
    <3> HIDE DEF tag
    <3> QED BY <3>1, AddToListStep
  <2>2. CASE ~ Has(entries, "RUNPATH")
    BY <1>2, <1>5, <2>2 DEF AddRunpath
  <2> QED BY <2>1, <2>2
<1>6. ASSUME NEW bit \in Bits, Flags({bit}, {}) \/ Flags({}, {bit})
      PROVE  DhdrInv' /\ Promise!Edit
  <2> DEFINE one == {bit}
             none == {}
  <2>1. one \in SUBSET Bits /\ none \in SUBSET Bits /\ (Flags(one, none) \/ Flags(none, one))
    BY <1>6
  <2> HIDE DEF one, none
  <2> QED BY <2>1, FlagsStep
<1>7. ASSUME NEW lib \in Libraries,
             AddEarlyNeeded(lib) \/ AddLateNeeded(lib) \/ RemoveNeeded(lib)
      PROVE  DhdrInv' /\ Promise!Edit
  BY <1>7, NeededSteps
<1>8. CASE AddDebug
  BY <1>8, AddDebugStep
<1>9. CASE \E str \in Lists : SetSoname(str) \/ SetRunpath(str) \/ SetRpath(str)
                              \/ AddRpath(str) \/ AddRunpath(str)
  BY <1>1, <1>2, <1>4, <1>5, <1>9, SetRpathStep
<1>10. CASE \E tag \in {"SONAME", "RPATH", "RUNPATH", "DEBUG"} : RemoveTag(tag)
  BY <1>3, <1>10
<1>11. CASE \E bit \in Bits : Flags({bit}, {}) \/ Flags({}, {bit})
  BY <1>6, <1>11
<1>12. CASE \E lib \in Libraries : AddEarlyNeeded(lib) \/ AddLateNeeded(lib) \/ RemoveNeeded(lib)
  BY <1>7, <1>12
<1> QED BY <1>8, <1>9, <1>10, <1>11, <1>12 DEF Edit

\* The entries are written, and with them the list.
LEMMA FlushStep ==
  ASSUME DhdrInv, Flush
  PROVE  DhdrInv' /\ Promise!Flush
<1> DEFINE base == IF heap THEN EnsureMinimal(entries) ELSE entries
           es == FixupNulls(base, heap)
           moved == heap \/ Len(es) > Len(entries)
<1>1. /\ entries \in Seq(EntryType) /\ rest \in Seq(EntryType) /\ heap \in BOOLEAN
      /\ modified \in BOOLEAN /\ ~ flushed
  BY DEF DhdrInv, DhdrTypes, Flush
<1>2. /\ flushed' = TRUE /\ rest' = rest /\ heap' = heap /\ modified' = modified
      /\ IF modified
         THEN entries' = es /\ inFile' = IF moved THEN es ELSE es \o rest
         ELSE inFile' = (IF heap THEN inFile ELSE entries \o rest) /\ entries' = entries
  BY DEF Flush
<1> HIDE DEF es, moved
<1>3. CASE ~ modified
  <2>1. entries' = entries /\ inFile' = inFile /\ LoaderSees(inFile) = Live(entries)
    BY <1>1, <1>2, <1>3 DEF DhdrInv, Original
  <2>2. Live(entries)' = Live(entries) /\ InMemory' = Live(entries)
    BY <1>2, <1>3, <2>1 DEF InMemory
  <2>3. DhdrInv'
    BY <1>1, <1>2, <2>1 DEF DhdrInv, DhdrTypes, Original
  <2>4. Promise!Flush
    BY <2>2 DEF Promise!Flush
  <2> QED BY <2>3, <2>4
<1>4. CASE modified
  <2>1. /\ base \in Seq(EntryType)
        /\ \/ Live(base) = Live(entries)
           \/ \E l \in (IF Promise!Has(Live(entries), "STRTAB") THEN {Live(entries)}
                        ELSE Promise!Inserted(Live(entries), Promise!Entry("STRTAB", << >>, {}))) :
                Live(base) \in
                  (IF Promise!Has(l, "SYMTAB") THEN {l}
                   ELSE Promise!Inserted(l, Promise!Entry("SYMTAB", << >>, {})))
    BY <1>1, MinimalShape
  <2> HIDE DEF base
  <2>2. /\ es \in Seq(EntryType) /\ Live(es) = Live(base)
        /\ \A r \in Seq(EntryType) : LoaderSees(es \o r) = Live(base) /\ Has(es \o r, "NULL")
        /\ LoaderSees(es) = Live(base) /\ Has(es, "NULL")
    BY <1>1, <2>1, FixupShape DEF es
  <2>3. entries' = es /\ (inFile' = es \/ inFile' = es \o rest)
    BY <1>2, <1>4
  <2>4. Has(inFile', "NULL") /\ LoaderSees(inFile') = Live(base)
    BY <1>1, <2>2, <2>3
  <2>5. InMemory' = Live(base) /\ Live(entries)' = Live(base)
    BY <2>2, <2>3, <2>4 DEF InMemory
  <2>6. DhdrInv'
    BY <1>1, <1>2, <2>2, <2>3 DEF DhdrInv, DhdrTypes, Original
  <2>7. Promise!Flush
    BY <2>1, <2>5 DEF Promise!Flush
  <2> QED BY <2>6, <2>7
<1> QED BY <1>1, <1>3, <1>4

\* Every step keeps the invariant, and is a step of the promise or none.
LEMMA NextKeeps ==
  ASSUME DhdrInv, [Next]_vars
  PROVE  DhdrInv' /\ [Promise!Next]_(Promise!vars)
<1>1. CASE Edit
  BY <1>1, EditStep DEF Promise!Next
<1>2. CASE Flush
  BY <1>2, FlushStep DEF Promise!Next
<1>3. CASE UNCHANGED vars
  <2>1. /\ entries' = entries /\ rest' = rest /\ heap' = heap /\ modified' = modified
        /\ flushed' = flushed /\ inFile' = inFile
    BY <1>3 DEF vars
  <2>2. DhdrInv'
    BY <2>1 DEF DhdrInv, DhdrTypes, Original
  <2>3. Live(entries)' = Live(entries) /\ InMemory' = InMemory
    BY <2>1 DEF InMemory
  <2> QED BY <2>2, <2>3 DEF Promise!vars
<1> QED BY <1>1, <1>2, <1>3 DEF Next

\* Every file is one that the promise starts from.
LEMMA InitPromise ==
  ASSUME Init
  PROVE  DhdrInv /\ Promise!Init
<1> DEFINE T == [tag : Tags, str : Seq(Names), bits : SUBSET Bits]
           l == Live(entries)
<1>1. DhdrInv /\ l = InMemory /\ entries \in Seq(EntryType)
  BY InitDhdr DEF DhdrInv, DhdrTypes
<1>2. /\ l \in Seq(EntryType) /\ \A i \in 1..Len(l) : ~ IsNull(l[i])
  <2>1. PICK f : Ascending(f, Shown(entries))
    BY <1>1, LiveListed
  <2> QED BY <1>1, <2>1, LiveShape
<1> HIDE DEF l
<1>3. Len(l) \in Nat /\ \A i \in 1..Len(l) : l[i] \in EntryType
  BY <1>2, SeqShape
<1>4. \A i \in 1..Len(l) : l[i] \in T
  BY <1>2, <1>3 DEF EntryType, IsNull
<1>5. l \in Seq(T)
  <2>1. l = [i \in 1..Len(l) |-> l[i]]
    <3> HIDE DEF EntryType, T
    <3> QED BY <1>2
  <2> HIDE DEF T
  <2> QED BY <1>3, <1>4, <2>1
<1>6. T = [tag : Promise!Tags, str : Seq(Names), bits : SUBSET Bits]
  BY DEF Tags, StringTags, Promise!Tags, Promise!StringTags
<1> HIDE DEF T
<1> QED BY <1>1, <1>5, <1>6 DEF Promise!Init, l

-----------------------------------------------------------------------------
(* What holds in every behaviour.                                          *)

\* The entries stay entries, and as long as nothing has been modified the array of
\* the file is that of the editor.
THEOREM DhdrCorrect == Spec => []DhdrInv
<1>1. Init => DhdrInv
  BY InitDhdr
<1>2. DhdrInv /\ [Next]_vars => DhdrInv'
  BY NextKeeps
<1> QED BY <1>1, <1>2, PTL DEF Spec

\* The editor does what DynamicSection promises: whatever DT_NULLs are in the array,
\* wherever it is and whatever follows it, every function does to the list of its
\* entries what is meant, and a loader reads this list from the flushed file.
THEOREM ImplementsCorrect == Spec => Implements
<1>1. Init => DhdrInv /\ Promise!Init
  BY InitPromise
<1>2. DhdrInv /\ [Next]_vars => DhdrInv' /\ [Promise!Next]_(Promise!vars)
  BY NextKeeps
<1> QED BY <1>1, <1>2, PTL DEF Spec, Implements, Promise!Spec

-----------------------------------------------------------------------------
(* What is printed of the flags.                                           *)

\* --print-flags: the bits of the last DT_FLAGS, and DT_SYMBOLIC.
LEMMA GetFlagsIs ==
  ASSUME NEW es
  PROVE  GetFlags(es) = LastBits(es) \cup (IF Has(es, "SYMBOLIC") THEN {"SYMBOLIC"} ELSE {})
BY DEF GetFlags, LastBits

\* To remove DT_SYMBOLIC leaves the bits of the last DT_FLAGS.
LEMMA SymbolicMasked ==
  ASSUME NEW es \in Seq(EntryType), NEW hs, hs = RemoveMask(es, {"SYMBOLIC"})
  PROVE  hs \in Seq(EntryType) /\ LastBits(hs) = LastBits(es) /\ ~ Has(hs, "SYMBOLIC")
<1>1. /\ hs \in Seq(EntryType) /\ Len(hs) = Len(es)
      /\ \A k \in 1..Len(es) : hs[k] = IF es[k].tag = "SYMBOLIC" THEN Null ELSE es[k]
  <2>1. "NULL" \notin {"SYMBOLIC"}
    OBVIOUS
  <2> QED BY <2>1, RemoveMaskShape
<1>2. Null.tag = "NULL" /\ Len(es) \in Nat /\ DOMAIN hs = 1..Len(es)
  BY <1>1, EntryTypes, SeqShape DEF IsNull
<1>3. ~ Has(hs, "SYMBOLIC")
  BY <1>1, <1>2 DEF Has
<1>4. \A k \in 1..Len(es) : /\ hs[k].tag = "FLAGS" <=> es[k].tag = "FLAGS"
                            /\ es[k].tag = "FLAGS" => hs[k] = es[k]
  BY <1>1, <1>2
<1>5. CASE \A k \in 1..Len(es) : es[k].tag # "FLAGS"
  <2>1. \A k \in 1..Len(hs) : hs[k].tag # "FLAGS"
    BY <1>1, <1>4, <1>5
  <2> QED BY <1>1, <1>3, <1>5, <2>1, LastBitsAre
<1>6. CASE \E k \in 1..Len(es) : es[k].tag = "FLAGS"
  <2> DEFINE i == SelectLastInSeq(es, LAMBDA e : e.tag = "FLAGS")
  <2>1. \/ i = 0 /\ \A k \in 1..Len(es) : es[k].tag # "FLAGS"
        \/ /\ i \in 1..Len(es) /\ es[i].tag = "FLAGS"
           /\ \A k \in 1..Len(es) : k > i => es[k].tag # "FLAGS"
    <3>1. i = SelectLastInSeq(es, LAMBDA e : e.tag = "FLAGS")
      OBVIOUS
    <3> HIDE DEF i
    <3> QED BY <1>2, <3>1, LastFlags
  <2> HIDE DEF i
  <2>2. /\ i \in 1..Len(es) /\ es[i].tag = "FLAGS"
        /\ \A k \in 1..Len(es) : k > i => es[k].tag # "FLAGS"
    BY <1>6, <2>1
  <2>3. LastBits(es) = es[i].bits
    BY <2>2, LastBitsAre
  <2>4. /\ i \in 1..Len(hs) /\ hs[i].tag = "FLAGS" /\ hs[i] = es[i]
        /\ \A k \in 1..Len(hs) : k > i => hs[k].tag # "FLAGS"
    BY <1>1, <1>4, <2>2
  <2>5. LastBits(hs) = hs[i].bits
    BY <1>1, <2>4, LastBitsAre
  <2> QED BY <1>1, <1>3, <2>3, <2>4, <2>5
<1> QED BY <1>5, <1>6

\* What --add-flags and --remove-flags do to what --print-flags prints.
LEMMA FlagsStepExact ==
  ASSUME DhdrInv, NEW bit \in Bits
  PROVE  /\ Flags({bit}, {}) => GetFlags(entries') = GetFlags(entries) \cup {bit}
         /\ Flags({}, {bit}) => GetFlags(entries') = GetFlags(entries) \ {bit}
<1> DEFINE one == {bit}
           none == {}
<1>1. /\ entries \in Seq(EntryType)
      /\ one \in SUBSET Bits /\ none \in SUBSET Bits /\ one \cap none = {} /\ none \cap one = {}
  BY DEF DhdrInv, DhdrTypes
<1>2. ASSUME Flags(one, none) PROVE GetFlags(entries') = GetFlags(entries) \cup one
  <2> DEFINE gs == AddRemoveFlags(entries, one, none)
  <2>1. entries' = gs
    BY <1>2 DEF Flags, Become
  <2>2. /\ LastBits(gs) = (LastBits(entries) \cup one) \ none
        /\ Has(gs, "SYMBOLIC") <=> Has(entries, "SYMBOLIC")
    <3>1. gs = AddRemoveFlags(entries, one, none)
      OBVIOUS
    <3> HIDE DEF gs, one, none
    <3> QED BY <1>1, <3>1, FlagsBits, ZenonT(60)
  <2> HIDE DEF gs
  <2> QED BY <2>1, <2>2, GetFlagsIs
<1>3. ASSUME Flags(none, one) PROVE GetFlags(entries') = GetFlags(entries) \ one
  <2> DEFINE es == IF "SYMBOLIC" \in one THEN RemoveMask(entries, {"SYMBOLIC"}) ELSE entries
             gs == AddRemoveFlags(es, none, one)
  <2>1. entries' = gs
    BY <1>3 DEF Flags, Become
  <2>2. /\ es \in Seq(EntryType) /\ LastBits(es) = LastBits(entries)
        /\ Has(es, "SYMBOLIC") <=> "SYMBOLIC" \notin one /\ Has(entries, "SYMBOLIC")
    <3> HIDE DEF one
    <3>1. CASE "SYMBOLIC" \in one
      BY <1>1, <3>1, SymbolicMasked
    <3>2. CASE "SYMBOLIC" \notin one
      BY <1>1, <3>2
    <3> QED BY <3>1, <3>2
  <2> HIDE DEF es
  <2>3. /\ LastBits(gs) = (LastBits(es) \cup none) \ one
        /\ Has(gs, "SYMBOLIC") <=> Has(es, "SYMBOLIC")
    <3>1. gs = AddRemoveFlags(es, none, one) /\ none \cap one = {}
      OBVIOUS
    <3>2. es \in Seq(EntryType)
      BY <2>2
    <3> HIDE DEF gs, one, none
    <3>3. one \in SUBSET Bits /\ none \in SUBSET Bits
      BY <1>1
    <3> QED BY <3>1, <3>2, <3>3, FlagsBits, ZenonT(60)
  <2> HIDE DEF gs
  <2> QED BY <2>1, <2>2, <2>3, GetFlagsIs
<1> QED BY <1>2, <1>3

\* A flag that is added or removed is what --print-flags finds or does not find
\* afterwards, however many DT_FLAGS there are, and no other flag changes.
THEOREM FlagsExactCorrect == Spec => FlagsExact
<1>1. DhdrInv /\ [Next]_vars =>
        [\A bit \in Bits :
           /\ Flags({bit}, {}) => GetFlags(entries') = GetFlags(entries) \cup {bit}
           /\ Flags({}, {bit}) => GetFlags(entries') = GetFlags(entries) \ {bit}]_vars
  BY FlagsStepExact
<1> QED BY <1>1, DhdrCorrect, PTL DEF Spec, FlagsExact
=============================================================================
