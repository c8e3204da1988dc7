----------------------- MODULE SymbolVersions_proofs -----------------------
(***************************************************************************)
(* What vers_flush leaves in the file agrees with the editor, what         *)
(* vers_ensure_vaddrs places is inside of what it allocates, and a feature *)
(* which needs a C library that knows of it is still required of one.      *)
(* Symbols are bound as the actions have asked for, and what no symbol     *)
(* refers to, or is newer than the target, is gone.                        *)
(*                                                                         *)
(* The invariants, IInv and BInv, are in SymbolVersions_inv.               *)
(***************************************************************************)
EXTENDS SymbolVersions_inv, FiniteSetTheorems, SequenceTheorems, TLAPS

-----------------------------------------------------------------------------
(* Positions in a sequence.                                                 *)

\* Positions are counted one after the other.
LEMMA RankIs ==
  ASSUME NEW n \in Nat, NEW K \in SUBSET (1 .. n)
  PROVE  /\ IsFiniteSet(K) /\ Cardinality(K) \in Nat
         /\ \A k \in K : RankIn(K, k) \in 1 .. Cardinality(K)
         /\ \A j, k \in K : j < k => RankIn(K, j) < RankIn(K, k)
<1> DEFINE Up(k) == {j \in K : j <= k}
<1>1. IsFiniteSet(K) /\ Cardinality(K) \in Nat /\ K \in SUBSET Nat
  <2>1. IsFiniteSet(1 .. n)
    BY FS_Interval
  <2>2. IsFiniteSet(K)
    BY <2>1, FS_Subset
  <2> QED BY <2>2, FS_CardinalityType
<1>2. \A k \in K : IsFiniteSet(Up(k)) /\ Cardinality(Up(k)) \in Nat /\ Cardinality(Up(k)) <= Cardinality(K)
  BY <1>1, FS_Subset, FS_CardinalityType
<1>3. ASSUME NEW k \in K PROVE Cardinality(Up(k)) # 0
  <2>1. k \in Up(k)
    BY <1>1
  <2> HIDE DEF Up
  <2> QED BY <2>1, <1>2, FS_EmptySet
<1>4. ASSUME NEW j \in K, NEW k \in K, j < k PROVE Cardinality(Up(j)) < Cardinality(Up(k))
  <2>1. Up(j) \in SUBSET Up(k) /\ k \in Up(k) /\ k \notin Up(j)
    <3>1. j \in Nat /\ k \in Nat /\ j < k /\ \A i \in K : i \in Nat
      BY <1>1, <1>4
    <3>2. \A i \in K : i <= j => i <= k
      BY <3>1
    <3>3. k <= k /\ ~(k <= j)
      BY <3>1
    <3> QED BY <3>2, <3>3
  <2> HIDE DEF Up
  <2>2. IsFiniteSet(Up(k))
    BY <1>2
  <2>3. Cardinality(Up(j)) <= Cardinality(Up(k)) /\ Cardinality(Up(j)) # Cardinality(Up(k))
    BY <2>1, <2>2, FS_Subset
  <2> QED BY <1>2, <2>3
<1>5. \A k : RankIn(K, k) = Cardinality(Up(k))
  BY DEF RankIn
<1> HIDE DEF Up
<1>6. \A k \in K : RankIn(K, k) \in 1 .. Cardinality(K)
  BY <1>1, <1>2, <1>3, <1>5
<1> QED BY <1>1, <1>4, <1>5, <1>6

\* Each count is that of one position.
LEMMA NthIs ==
  ASSUME NEW n \in Nat, NEW K \in SUBSET (1 .. n)
  PROVE  /\ \A m \in 1 .. Cardinality(K) : Nth(K, m) \in K /\ RankIn(K, Nth(K, m)) = m
         /\ \A k \in K : Nth(K, RankIn(K, k)) = k
<1> DEFINE c == Cardinality(K)
           f == [k \in K |-> RankIn(K, k)]
<1>1. IsFiniteSet(K) /\ c \in Nat /\ K \in SUBSET Nat
  <2>1. IsFiniteSet(K) /\ c \in Nat
    BY RankIs, Zenon
  <2>2. K \in SUBSET Nat
    OBVIOUS
  <2> QED BY <2>1, <2>2
<1>2. \A k \in K : RankIn(K, k) \in 1 .. c
  BY RankIs, Zenon
<1>3. \A j, k \in K : RankIn(K, j) = RankIn(K, k) => j = k
  BY RankIs, <1>1, <1>2
<1>4. f \in Injection(K, 1 .. c)
  BY <1>2, <1>3 DEF Injection, IsInjective
<1>5. IsFiniteSet(1 .. c) /\ Cardinality(1 .. c) = c
  BY <1>1, FS_Interval
<1>6. f \in Surjection(K, 1 .. c)
  <2> HIDE DEF f, c
  <2> QED BY <1>4, <1>5, FS_Injection DEF c
<1>7. \A m \in 1 .. c : \E k \in K : RankIn(K, k) = m
  BY <1>6 DEF Surjection
<1>8. \A m \in 1 .. c : Nth(K, m) \in K /\ RankIn(K, Nth(K, m)) = m
  BY <1>7 DEF Nth
<1> QED BY <1>2, <1>3, <1>8

\* The next position, the first one and the last one.
LEMMA RankNext ==
  ASSUME NEW n \in Nat, NEW K \in SUBSET (1 .. n), NEW k \in K
  PROVE  /\ k + 1 \in K => RankIn(K, k + 1) = RankIn(K, k) + 1
         /\ (\A j \in K : j <= k) => RankIn(K, k) = Cardinality(K)
         /\ (\A j \in K : k <= j) => RankIn(K, k) = 1
<1> DEFINE U == {j \in K : j <= k}
           V == {j \in K : j <= k + 1}
<1>0. \A j \in K : j \in Nat
  OBVIOUS
<1>1. IsFiniteSet(K) /\ Cardinality(K) \in Nat
  BY RankIs
<1>2. IsFiniteSet(U)
  <2>1. U \in SUBSET K
    OBVIOUS
  <2> HIDE DEF U
  <2> QED BY <1>1, <2>1, FS_Subset
<1>3. ASSUME k + 1 \in K PROVE RankIn(K, k + 1) = RankIn(K, k) + 1
  <2>1. V = U \cup {k + 1} /\ k + 1 \notin U
    <3>1. k \in Nat /\ k + 1 \in K
      BY <1>0, <1>3
    <3>2. \A j \in K : j <= k + 1 <=> (j <= k \/ j = k + 1)
      BY <1>0, <3>1
    <3>3. k + 1 \notin U
      BY <3>1
    <3>4. \A j : j \in V <=> (j \in U \/ j = k + 1)
      BY <3>1, <3>2
    <3> HIDE DEF U, V
    <3> QED BY <3>3, <3>4
  <2>2. Cardinality(U \cup {k + 1}) = Cardinality(U) + 1
    <3> DEFINE p == k + 1
    <3>1. p \notin U
      BY <2>1
    <3> HIDE DEF U, p
    <3>2. Cardinality(U \cup {p}) = Cardinality(U) + 1
      BY <1>2, <3>1, FS_AddElement
    <3> QED BY <3>2 DEF p
  <2> QED BY <2>1, <2>2 DEF RankIn
<1>4. ASSUME \A j \in K : j <= k PROVE RankIn(K, k) = Cardinality(K)
  BY <1>4 DEF RankIn
<1>5. ASSUME \A j \in K : k <= j PROVE RankIn(K, k) = 1
  <2>1. U = {k}
    <3>1. \A j \in K : j <= k <=> j = k
      BY <1>0, <1>5
    <3> QED BY <3>1
  <2>2. Cardinality({k}) = 1
    BY FS_Singleton
  <2> QED BY <2>1, <2>2 DEF RankIn
<1> QED BY <1>3, <1>4, <1>5

-----------------------------------------------------------------------------
(* Lists.                                                                   *)

\* A list has positions from 1 to its length.
LEMMA ListIs == ASSUME NEW s, List(s) PROVE Len(s) \in Nat /\ DOMAIN s = 1 .. Len(s)
BY DEF List

\* Every sequence is a list.
LEMMA ListOf == ASSUME NEW S, NEW r \in Seq(S) PROVE List(r) /\ DOMAIN r = 1 .. Len(r)
BY DEF Values, List

\* A function on 1..n is a list of n entries.
LEMMA ListMade ==
  ASSUME NEW n \in Nat, NEW f, f = [k \in 1 .. n |-> f[k]]
  PROVE  List(f) /\ Len(f) = n /\ DOMAIN f = 1 .. n
<1>1. DOMAIN f = 1 .. n
  BY Zenon
<1>2. f \in [1 .. n -> Values(f)]
  BY <1>1 DEF Values
<1>3. f \in Seq(Values(f))
  BY <1>2
<1> QED BY <1>1, <1>3 DEF List

\* Picking the entries at positions K gives as many, in their order.
LEMMA PickIs ==
  ASSUME NEW s, List(s), NEW K \in SUBSET (DOMAIN s)
  PROVE  LET r == Pick(s, K) IN
         /\ List(r) /\ Len(r) = Cardinality(K) /\ DOMAIN r = 1 .. Cardinality(K)
         /\ \A m \in DOMAIN r : Nth(K, m) \in K /\ r[m] = s[Nth(K, m)]
         /\ \A k \in K : RankIn(K, k) \in DOMAIN r /\ r[RankIn(K, k)] = s[k]
<1> DEFINE r == Pick(s, K)
           c == Cardinality(K)
<1>1. Len(s) \in Nat /\ K \in SUBSET (1 .. Len(s))
  BY ListIs
<1>2. c \in Nat /\ \A k \in K : RankIn(K, k) \in 1 .. c
  BY <1>1, RankIs
<1>3. /\ \A m \in 1 .. c : Nth(K, m) \in K
      /\ \A k \in K : Nth(K, RankIn(K, k)) = k
  BY <1>1, NthIs
<1>4. r = [m \in 1 .. c |-> r[m]] /\ \A m \in 1 .. c : r[m] = s[Nth(K, m)]
  BY DEF Pick
<1> HIDE DEF r, c
<1>5. List(r) /\ Len(r) = c /\ DOMAIN r = 1 .. c
  BY <1>2, <1>4, ListMade
<1> QED BY <1>2, <1>3, <1>4, <1>5 DEF r, c

\* Appending adds one entry at the end...
LEMMA ListAppended ==
  ASSUME NEW s, List(s), NEW x
  PROVE  LET r == Append(s, x) IN
         /\ List(r) /\ Len(r) = Len(s) + 1 /\ DOMAIN r = 1 .. (Len(s) + 1)
         /\ r[Len(s) + 1] = x /\ \A k \in DOMAIN s : r[k] = s[k]
<1> DEFINE S == Values(s) \cup {x}
           r == Append(s, x)
           n == Len(s)
<1>1. n \in Nat /\ DOMAIN s = 1 .. n
  BY ListIs
<1>2. s \in Seq(S) /\ x \in S
  BY SeqMonotonic DEF List
<1>3. /\ r \in Seq(S) /\ Len(r) = n + 1 /\ \A k \in 1 .. n : r[k] = s[k]
      /\ r[n + 1] = x
  BY <1>2, AppendProperties
<1> HIDE DEF r, n, S
<1>4. List(r) /\ DOMAIN r = 1 .. (n + 1)
  BY <1>1, <1>3, ListOf
<1> QED BY <1>1, <1>3, <1>4 DEF r, n

\* ...and prepending one at the front, which moves the others.
LEMMA ListPrepended ==
  ASSUME NEW s, List(s), NEW x
  PROVE  LET r == <<x>> \o s IN
         /\ List(r) /\ Len(r) = Len(s) + 1 /\ DOMAIN r = 1 .. (Len(s) + 1)
         /\ r[1] = x /\ \A k \in DOMAIN s : r[k + 1] = s[k]
<1> DEFINE S == Values(s) \cup {x}
           h == <<x>>
           r == h \o s
           n == Len(s)
<1>1. n \in Nat /\ DOMAIN s = 1 .. n
  BY ListIs
<1>2. s \in Seq(S)
  BY SeqMonotonic DEF List
<1>3. h \in Seq(S) /\ Len(h) = 1 /\ h[1] = x
  OBVIOUS
<1> HIDE DEF h, S
<1>4. /\ r \in Seq(S) /\ Len(r) = Len(h) + Len(s)
      /\ \A k \in 1 .. Len(h) + Len(s) : r[k] = IF k <= Len(h) THEN h[k] ELSE s[k - Len(h)]
  BY <1>2, <1>3, ConcatProperties
<1> HIDE DEF r, n
<1>5. Len(r) = n + 1 /\ \A k \in 1 .. (n + 1) : r[k] = IF k <= 1 THEN x ELSE s[k - 1]
  BY <1>1, <1>3, <1>4 DEF n
<1>6. List(r) /\ DOMAIN r = 1 .. (n + 1)
  BY <1>1, <1>4, <1>5, ListOf
<1>7. r[1] = x
  BY <1>1, <1>5
<1>8. ASSUME NEW k \in 1 .. n PROVE r[k + 1] = s[k]
  <2> DEFINE j == k + 1
  <2>1. j \in 1 .. (n + 1) /\ ~(j <= 1) /\ j - 1 = k
    BY <1>1
  <2> HIDE DEF j
  <2>2. r[j] = s[k]
    BY <1>5, <2>1
  <2> QED BY <2>2 DEF j
<1> QED BY <1>1, <1>5, <1>6, <1>7, <1>8 DEF r, n, h

-----------------------------------------------------------------------------
(* A list of the editor, and the list in the file from which it was loaded.  Some of *)
(* its entries have no place in the file yet, and their addresses are 0.    *)

\* Only addresses tie a list to the one in the file.
LEMMA TiedSame ==
  ASSUME NEW m, NEW head, NEW s, Tied(m, head, s), NEW r,
         DOMAIN r = DOMAIN s, \A k \in DOMAIN s : r[k].addr = s[k].addr
  PROVE  Tied(m, head, r)
BY DEF Follows, PlacedAt, Tied

\* What has no place may come first, as add_verdef puts it...
LEMMA TiedPrepended ==
  ASSUME NEW m, NEW head, NEW s, List(s), Tied(m, head, s), NEW x, x.addr = 0
  PROVE  Tied(m, head, <<x>> \o s)
<1> DEFINE r == <<x>> \o s
           n == Len(s)
<1>1. n \in Nat /\ DOMAIN s = 1 .. n
  BY ListIs
<1>2. DOMAIN r = 1 .. (n + 1) /\ r[1] = x /\ \A k \in 1 .. n : r[k + 1] = s[k]
  BY <1>1, ListPrepended
<1> HIDE DEF r, n
<1>3. \A j \in DOMAIN r : j = 1 \/ \E k \in 1 .. n : j = k + 1
  <2>1. ASSUME NEW j \in 1 .. (n + 1), j # 1 PROVE j - 1 \in 1 .. n /\ j = (j - 1) + 1
    BY <1>1, <2>1
  <2> QED BY <1>2, <2>1
<1>4. ASSUME NEW k \in Nat, NEW a, Follows(s, k, a) PROVE Follows(r, k + 1, a)
  <2>1. CASE a = 0 /\ \A j \in DOMAIN s : j > k => s[j].addr = 0
    <3>1. ASSUME NEW j \in DOMAIN r, j > k + 1 PROVE r[j].addr = 0
      <4>1. PICK l \in 1 .. n : j = l + 1
        BY <1>3, <3>1
      <4>2. l > k
        BY <3>1, <4>1
      <4> QED BY <1>1, <1>2, <2>1, <4>1, <4>2
    <3> QED BY <2>1, <3>1 DEF Follows
  <2>2. CASE \E j \in DOMAIN s : /\ j > k /\ s[j].addr = a /\ a # 0
                                 /\ \A i \in DOMAIN s : k < i /\ i < j => s[i].addr = 0
    <3>1. PICK j \in 1 .. n : /\ j > k /\ s[j].addr = a /\ a # 0
                              /\ \A i \in DOMAIN s : k < i /\ i < j => s[i].addr = 0
      BY <1>1, <2>2
    <3>2. j + 1 \in DOMAIN r /\ j + 1 > k + 1 /\ r[j + 1].addr = a
      BY <1>1, <1>2, <3>1
    <3>3. ASSUME NEW i \in DOMAIN r, k + 1 < i, i < j + 1 PROVE r[i].addr = 0
      <4>1. PICK l \in 1 .. n : i = l + 1
        BY <1>3, <3>3
      <4>2. k < l /\ l < j
        BY <3>3, <4>1
      <4> QED BY <1>1, <1>2, <3>1, <4>1, <4>2
    <3> QED BY <3>1, <3>2, <3>3 DEF Follows
  <2> QED BY <2>1, <2>2, <1>4 DEF Follows
<1>5. ASSUME NEW a, Follows(r, 1, a) PROVE Follows(r, 0, a)
  BY <1>1, <1>2, <1>5 DEF Follows
<1>6. Follows(r, 0, head)
  BY <1>4, <1>5 DEF Tied
<1>7. ASSUME NEW k \in PlacedAt(r)
      PROVE  r[k].addr \in DOMAIN m /\ Follows(r, k, m[r[k].addr].next)
  <2>1. PICK l \in 1 .. n : k = l + 1
    BY <1>2, <1>3 DEF PlacedAt
  <2>2. r[k] = s[l] /\ l \in PlacedAt(s)
    BY <1>1, <1>2, <2>1 DEF PlacedAt
  <2> QED BY <1>4, <2>1, <2>2 DEF Tied
<1>8. Tied(m, head, r)
  BY <1>6, <1>7 DEF Tied
<1> QED BY <1>8 DEF r

\* ...or last, as ensure_verneed and add_vernaux put it.
LEMMA TiedAppended ==
  ASSUME NEW m, NEW head, NEW s, List(s), Tied(m, head, s), NEW x, x.addr = 0
  PROVE  Tied(m, head, Append(s, x))
<1> DEFINE r == Append(s, x)
           n == Len(s)
<1>1. n \in Nat /\ DOMAIN s = 1 .. n
  BY ListIs
<1>2. DOMAIN r = 1 .. (n + 1) /\ r[n + 1] = x /\ \A k \in 1 .. n : r[k] = s[k]
  BY <1>1, ListAppended
<1> HIDE DEF r, n
<1>3. \A j \in DOMAIN r : j = n + 1 \/ j \in 1 .. n
  BY <1>1, <1>2
<1>4. \A j \in 1 .. n : j \in DOMAIN r /\ j < n + 1
  BY <1>1, <1>2
<1>5. ASSUME NEW k \in 0 .. n, NEW a, Follows(s, k, a) PROVE Follows(r, k, a)
  <2>1. CASE a = 0 /\ \A j \in DOMAIN s : j > k => s[j].addr = 0
    BY <1>1, <1>2, <1>3, <2>1 DEF Follows
  <2>2. CASE \E j \in DOMAIN s : /\ j > k /\ s[j].addr = a /\ a # 0
                                 /\ \A i \in DOMAIN s : k < i /\ i < j => s[i].addr = 0
    <3>1. PICK j \in 1 .. n : /\ j > k /\ s[j].addr = a /\ a # 0
                              /\ \A i \in DOMAIN s : k < i /\ i < j => s[i].addr = 0
      BY <1>1, <2>2
    <3>2. \A i \in DOMAIN r : i < j => i \in 1 .. n
      BY <1>1, <1>2
    <3> QED BY <1>1, <1>2, <1>4, <3>1, <3>2 DEF Follows
  <2> QED BY <1>5, <2>1, <2>2 DEF Follows
<1>6. Follows(r, 0, head)
  BY <1>1, <1>5 DEF Tied
<1>7. ASSUME NEW k \in PlacedAt(r)
      PROVE  r[k].addr \in DOMAIN m /\ Follows(r, k, m[r[k].addr].next)
  BY <1>2, <1>3, <1>1, <1>5 DEF PlacedAt, Tied
<1>8. Tied(m, head, r)
  BY <1>6, <1>7 DEF Tied
<1> QED BY <1>8 DEF r

-----------------------------------------------------------------------------
(* What is written: the two lists once everything in them has a place.      *)

\* vers_erase_pending_deletes keeps what is not deleted.  Of what it keeps,
\* whatever is not dirty after it is followed by what followed it before.
LEMMA Erased ==
  ASSUME NEW s, List(s), \A k \in DOMAIN s : {"addr", "dirty", "del"} \subseteq DOMAIN s[k]
  PROVE  LET r == EraseFrom(s)
             K == LiveAt(s) IN
         /\ List(r) /\ Len(r) = Cardinality(K) /\ DOMAIN r = 1 .. Cardinality(K)
         /\ \A n \in DOMAIN r : /\ Nth(K, n) \in K /\ RankIn(K, Nth(K, n)) = n
                                /\ r[n] = s[Nth(K, n)] \/ r[n] = [s[Nth(K, n)] EXCEPT !.dirty = TRUE]
         /\ \A n \in DOMAIN r : ~r[n].dirty =>
               /\ r[n] = s[Nth(K, n)]
               /\ \/ Nth(K, n) = Len(s) /\ n = Len(r)
                  \/ /\ Nth(K, n) + 1 \in K /\ n + 1 \in DOMAIN r /\ ~s[Nth(K, n) + 1].dirty
                     /\ Nth(K, n + 1) = Nth(K, n) + 1
         /\ 1 \in K => 1 \in DOMAIN r /\ Nth(K, 1) = 1
<1> DEFINE t == [k \in DOMAIN s |-> IF k < Len(s) /\ (s[k + 1].dirty \/ s[k + 1].del) THEN [s[k] EXCEPT !.dirty = TRUE]
                                    ELSE s[k]]
           r == EraseFrom(s)
           K == LiveAt(s)
           N == Len(s)
<1>1. N \in Nat /\ DOMAIN s = 1 .. N /\ K \in SUBSET (1 .. N)
  BY ListIs DEF LiveAt
<1>2. r = Live(t)
  BY DEF EraseFrom
<1>3. /\ t = [k \in 1 .. N |-> t[k]]
      /\ \A k \in 1 .. N : t[k] = s[k] \/ t[k] = [s[k] EXCEPT !.dirty = TRUE]
      /\ \A k \in 1 .. N : ~t[k].dirty => t[k] = s[k]
      /\ \A k \in 1 .. N : k < N /\ (s[k + 1].dirty \/ s[k + 1].del) => t[k].dirty
      /\ DOMAIN t = 1 .. N
  BY <1>1
<1> HIDE DEF t, r
<1>4. List(t) /\ LiveAt(t) = K
  BY <1>1, <1>3, ListMade DEF LiveAt
<1> HIDE DEF K
<1>5. /\ List(r) /\ Len(r) = Cardinality(K) /\ DOMAIN r = 1 .. Cardinality(K)
      /\ \A n \in DOMAIN r : Nth(K, n) \in K /\ r[n] = t[Nth(K, n)]
  <2>1. K \in SUBSET (DOMAIN t) /\ r = Pick(t, K)
    BY <1>1, <1>2, <1>3, <1>4 DEF Live
  <2> QED BY <1>4, <2>1, PickIs
<1>6. \A n \in DOMAIN r : RankIn(K, Nth(K, n)) = n
  BY <1>1, <1>5, NthIs
<1>7. ASSUME NEW n \in DOMAIN r, ~r[n].dirty
      PROVE  /\ r[n] = s[Nth(K, n)]
             /\ \/ Nth(K, n) = N /\ n = Len(r)
                \/ /\ Nth(K, n) + 1 \in K /\ n + 1 \in DOMAIN r /\ ~s[Nth(K, n) + 1].dirty
                   /\ Nth(K, n + 1) = Nth(K, n) + 1
  <2> DEFINE k == Nth(K, n)
             j == k + 1
  <2>1. k \in K /\ k \in 1 .. N /\ r[n] = t[k] /\ ~t[k].dirty /\ RankIn(K, k) = n
    BY <1>1, <1>5, <1>6, <1>7
  <2> HIDE DEF k
  <2>2. r[n] = s[k]
    BY <1>3, <2>1
  <2>3. CASE k = N
    <3>1. \A i \in K : i <= k
      BY <1>1, <2>3
    <3>2. n = Cardinality(K)
      BY <1>1, <2>1, <3>1, RankNext
    <3> QED BY <1>5, <2>2, <2>3, <3>2 DEF k
  <2>4. CASE k # N
    <3>1. k < N /\ j \in 1 .. N
      <4> HIDE DEF N
      <4> QED BY <1>1, <2>1, <2>4
    <3>2. ~s[j].dirty /\ ~s[j].del
      BY <1>3, <2>1, <3>1
    <3>3. j \in K
      BY <1>1, <3>1, <3>2 DEF K, LiveAt
    <3>4. RankIn(K, j) = n + 1
      BY <1>1, <2>1, <3>3, RankNext
    <3> HIDE DEF j
    <3>5. RankIn(K, j) \in 1 .. Cardinality(K) /\ Nth(K, RankIn(K, j)) = j
      BY <1>1, <3>3, RankIs, NthIs
    <3> QED BY <1>5, <2>2, <3>2, <3>3, <3>4, <3>5 DEF k, j
  <2> QED BY <2>3, <2>4
<1>8. ASSUME 1 \in K PROVE 1 \in DOMAIN r /\ Nth(K, 1) = 1
  <2> DEFINE one == 1
  <2>1. one \in K /\ \A i \in K : one <= i
    BY <1>1, <1>8
  <2> HIDE DEF one
  <2>2. RankIn(K, one) = 1
    BY <1>1, <2>1, RankNext
  <2>3. RankIn(K, one) \in 1 .. Cardinality(K) /\ Nth(K, RankIn(K, one)) = one
    BY <1>1, <2>1, RankIs, NthIs
  <2> QED BY <1>5, <2>2, <2>3 DEF one
<1>9. \A n \in DOMAIN r : r[n] = s[Nth(K, n)] \/ r[n] = [s[Nth(K, n)] EXCEPT !.dirty = TRUE]
  BY <1>1, <1>3, <1>5
<1> QED BY <1>5, <1>6, <1>7, <1>8, <1>9 DEF r, K

\* What becomes of a group.
LEMMA ErasedGroup ==
  ASSUME NEW m, NEW g, GroupFields \subseteq DOMAIN g, List(g.items),
         \A j \in DOMAIN g.items : ItemFields \subseteq DOMAIN g.items[j], GroupPlaced(m, g),
         NEW q, q = g \/ q = [g EXCEPT !.dirty = TRUE]
  PROVE  LET e == EraseItems(q)
             L == LiveAt(g.items) IN
         /\ GroupFields \subseteq DOMAIN e /\ e.lib = g.lib /\ e.addr = g.addr /\ e.del = g.del
         /\ List(e.items) /\ FirstOnly(e)
         /\ \A j \in DOMAIN e.items : /\ ItemFields \subseteq DOMAIN e.items[j]
                                      /\ e.items[j].addr \in Nat \ {0}
                                      /\ Nth(L, j) \in L /\ RankIn(L, Nth(L, j)) = j
                                      /\ e.items[j].addr = g.items[Nth(L, j)].addr
                                      /\ e.items[j].dirty \/ ItemAgrees(m, e, j)
         /\ ~e.dirty => /\ ~q.dirty /\ e.addr \in DOMAIN m /\ m[e.addr].lib = e.lib
                        /\ m[e.addr].aux = IF e.items = <<>> THEN 0 ELSE e.items[1].addr
                        /\ e.lib = None => m[e.addr].idx = e.items[1].idx
         /\ \A j \in L : \E i \in DOMAIN e.items : e.items[i].ver = g.items[j].ver
<1> DEFINE e == EraseItems(q)
           s == g.items
           L == LiveAt(s)
           r == EraseFrom(s)
           N == Len(s)
<1>1. /\ GroupFields \subseteq DOMAIN e /\ e.lib = g.lib /\ e.addr = g.addr /\ e.del = g.del /\ e.items = r
      /\ e.dirty <=> (q.dirty \/ (s # <<>> /\ (s[1].dirty \/ s[1].del)))
      /\ ~q.dirty => q = g
  BY DEF GroupFields, EraseItems
<1> HIDE DEF e
<1>2. /\ N \in Nat /\ DOMAIN s = 1 .. N /\ L \in SUBSET (1 .. N)
      /\ \A k \in DOMAIN s : {"addr", "dirty", "del"} \subseteq DOMAIN s[k]
  BY ListIs DEF LiveAt, ItemFields
<1>3. /\ List(r) /\ Len(r) = Cardinality(L) /\ DOMAIN r = 1 .. Cardinality(L)
      /\ \A n \in DOMAIN r : /\ Nth(L, n) \in L /\ RankIn(L, Nth(L, n)) = n
                             /\ r[n] = s[Nth(L, n)] \/ r[n] = [s[Nth(L, n)] EXCEPT !.dirty = TRUE]
      /\ \A n \in DOMAIN r : ~r[n].dirty =>
            /\ r[n] = s[Nth(L, n)]
            /\ \/ Nth(L, n) = Len(s) /\ n = Len(r)
               \/ /\ Nth(L, n) + 1 \in L /\ n + 1 \in DOMAIN r /\ ~s[Nth(L, n) + 1].dirty
                  /\ Nth(L, n + 1) = Nth(L, n) + 1
      /\ 1 \in L => 1 \in DOMAIN r /\ Nth(L, 1) = 1
  BY <1>2, Erased
<1> HIDE DEF r
<1>4. \A n \in DOMAIN r : LET i == s[Nth(L, n)] IN
         /\ ItemFields \subseteq DOMAIN r[n] /\ r[n].addr = i.addr /\ r[n].ver = i.ver /\ r[n].idx = i.idx
         /\ r[n].weak = i.weak /\ r[n].del = i.del
  <2>1. \A n \in DOMAIN r : ItemFields \subseteq DOMAIN s[Nth(L, n)]
    BY <1>2, <1>3
  <2> QED BY <1>3, <2>1 DEF ItemFields
<1>5. \A n \in DOMAIN r : ItemPlaced(m, g.lib, s[Nth(L, n)])
  BY <1>3 DEF GroupPlaced
<1>6. ASSUME NEW n \in DOMAIN r, ~r[n].dirty PROVE ItemAgrees(m, e, n)
  <2> DEFINE k == Nth(L, n)
             i == s[k]
  <2>1. r[n] = i /\ ~i.dirty /\ k \in L /\ ItemPlaced(m, g.lib, i)
    BY <1>3, <1>5, <1>6
  <2>2. /\ i.addr \in DOMAIN m /\ m[i.addr].ver = i.ver /\ m[i.addr].weak = i.weak
        /\ g.lib # None => m[i.addr].idx = i.idx
    BY <2>1 DEF ItemPlaced
  <2>3. m[i.addr].next = Next1(r, n)
    <3>1. /\ k = N => m[i.addr].next = 0
          /\ k + 1 \in L /\ ~s[k + 1].dirty => m[i.addr].next = s[k + 1].addr
      BY <2>1 DEF GroupPlaced, Links
    <3>2. CASE k = N /\ n = Len(r)
      BY <1>2, <1>3, <3>2, <3>1 DEF Next1
    <3>3. CASE k + 1 \in L /\ n + 1 \in DOMAIN r /\ ~s[k + 1].dirty /\ Nth(L, n + 1) = k + 1
      BY <1>2, <1>3, <3>3, RankIs, <1>4, <3>1 DEF Next1
    <3> QED BY <1>3, <1>6, <3>2, <3>3
  <2> QED BY <1>1, <2>1, <2>2, <2>3 DEF ItemAgrees
<1>7. FirstOnly(e)
  <2>1. ASSUME g.lib = None
        PROVE  r # <<>> /\ \A j \in DOMAIN r : ~r[j].del /\ (j > 1 => r[j].idx = 0)
    <3>1. s # <<>> /\ \A j \in 1 .. N : ~s[j].del /\ (j > 1 => s[j].idx = 0)
      BY <1>2, <2>1 DEF GroupPlaced, FirstOnly
    <3>2. N # 0 /\ 1 \in 1 .. N
      BY <1>2, <3>1, EmptySeq DEF List
    <3>3. 1 \in L
      BY <1>2, <3>1, <3>2 DEF LiveAt
    <3>4. 1 \in DOMAIN r /\ Nth(L, 1) = 1
      BY <1>3, <3>3
    <3>5. r # <<>>
      BY <3>4
    <3>6. ASSUME NEW j \in DOMAIN r, j > 1 PROVE Nth(L, j) > 1
      BY <1>3, <3>4, <1>2, <3>6
    <3>7. \A j \in DOMAIN r : Nth(L, j) \in 1 .. N
      BY <1>2, <1>3
    <3> QED BY <1>4, <3>1, <3>5, <3>6, <3>7
  <2> QED BY <1>1, <2>1 DEF FirstOnly
<1>8. ASSUME ~e.dirty
      PROVE  /\ ~q.dirty /\ e.addr \in DOMAIN m /\ m[e.addr].lib = e.lib
             /\ m[e.addr].aux = IF e.items = <<>> THEN 0 ELSE e.items[1].addr
             /\ e.lib = None => m[e.addr].idx = e.items[1].idx
  <2>1. ~q.dirty /\ ~g.dirty /\ (s # <<>> => ~s[1].dirty /\ ~s[1].del)
    BY <1>1, <1>8
  <2>2. /\ g.addr \in DOMAIN m /\ m[g.addr].lib = g.lib
        /\ s = <<>> => m[g.addr].aux = 0
        /\ s # <<>> => m[g.addr].aux = s[1].addr
        /\ g.lib = None => m[g.addr].idx = s[1].idx
    BY <2>1 DEF GroupPlaced, Heads
  <2>3. CASE s = <<>>
    <3>1. r = <<>>
      BY <2>3, FS_EmptySet, <1>3, EmptySeq DEF LiveAt, List
    <3>2. g.lib # None
      BY <2>3 DEF GroupPlaced, FirstOnly
    <3> QED BY <1>1, <2>1, <2>2, <2>3, <3>1, <3>2
  <2>4. CASE s # <<>>
    <3>1. N # 0 /\ 1 \in 1 .. N
      BY <1>2, <2>4, EmptySeq DEF List
    <3>2. 1 \in L
      BY <1>2, <2>1, <2>4, <3>1 DEF LiveAt
    <3>3. 1 \in DOMAIN r /\ Nth(L, 1) = 1
      BY <1>3, <3>2
    <3>4. r[1].addr = s[1].addr /\ r[1].idx = s[1].idx /\ r # <<>>
      BY <1>4, <3>3
    <3> QED BY <1>1, <2>1, <2>2, <2>4, <3>4
  <2> QED BY <2>3, <2>4
<1>9. \A j \in L : \E i \in DOMAIN r : r[i].ver = s[j].ver
  BY <1>2, <1>3, RankIs, NthIs, <1>4
<1>10. \A j \in DOMAIN r : r[j].addr \in Nat \ {0}
  BY <1>4, <1>5 DEF ItemPlaced
<1> QED BY <1>1, <1>3, <1>4, <1>6, <1>7, <1>8, <1>9, <1>10 DEF e, L

\* What vers_erase_pending_deletes leaves is the whole list, of which all that is
\* not in the file is dirty.  Its addresses are those of what it left.
LEMMA ErasedWhole ==
  ASSUME NEW m, NEW gs, Ensured(m, gs)
  PROVE  LET es == Erase(gs) IN
         Whole(m, es) /\ PlacedAs(es, gs) /\ Survive(es, gs)
<1> DEFINE r == EraseFrom(gs)
           es == Erase(gs)
           K == LiveAt(gs)
           H(n) == Nth(K, n)
           L(n) == LiveAt(gs[H(n)].items)
           P(n, i) == IF i = 0 THEN 0 ELSE Nth(L(n), i)
<1>1. /\ List(gs) /\ Len(gs) \in Nat /\ DOMAIN gs = 1 .. Len(gs) /\ K \in SUBSET (1 .. Len(gs))
      /\ \A k \in DOMAIN gs : /\ GroupFields \subseteq DOMAIN gs[k] /\ List(gs[k].items)
                              /\ {"addr", "dirty", "del"} \subseteq DOMAIN gs[k]
                              /\ \A j \in DOMAIN gs[k].items : ItemFields \subseteq DOMAIN gs[k].items[j]
  BY ListIs DEF LiveAt, Ensured, Groups, GroupFields
<1>2. /\ List(r) /\ Len(r) = Cardinality(K) /\ DOMAIN r = 1 .. Cardinality(K)
      /\ \A n \in DOMAIN r : /\ H(n) \in K /\ RankIn(K, H(n)) = n
                             /\ r[n] = gs[H(n)] \/ r[n] = [gs[H(n)] EXCEPT !.dirty = TRUE]
      /\ \A n \in DOMAIN r : ~r[n].dirty =>
            /\ r[n] = gs[H(n)]
            /\ \/ H(n) = Len(gs) /\ n = Len(r)
               \/ /\ H(n) + 1 \in K /\ n + 1 \in DOMAIN r /\ ~gs[H(n) + 1].dirty
                  /\ H(n + 1) = H(n) + 1
  BY <1>1, Erased
<1>3. es = [n \in DOMAIN r |-> EraseItems(r[n])]
  BY DEF Erase, Map
<1> HIDE DEF r, es, K
<1>4. List(es) /\ DOMAIN es = DOMAIN r /\ Len(es) = Len(r) /\ \A n \in DOMAIN es : es[n] = EraseItems(r[n])
  <2>1. DOMAIN es = 1 .. Cardinality(K) /\ \A n \in DOMAIN es : es[n] = EraseItems(r[n])
    BY <1>2, <1>3
  <2>2. es = [n \in 1 .. Cardinality(K) |-> es[n]]
    BY <1>3, <2>1, <1>2
  <2>3. Cardinality(K) \in Nat
    BY <1>1, RankIs
  <2>4. List(es) /\ Len(es) = Cardinality(K)
    BY <2>2, <2>3, ListMade
  <2> QED BY <1>2, <2>1, <2>4
<1>5. ASSUME NEW n \in DOMAIN es
      PROVE  LET e == es[n]
                 g == gs[H(n)] IN
         /\ GroupFields \subseteq DOMAIN e /\ e.lib = g.lib /\ e.addr = g.addr /\ e.del = g.del
         /\ List(e.items) /\ FirstOnly(e)
         /\ \A j \in DOMAIN e.items : /\ ItemFields \subseteq DOMAIN e.items[j]
                                      /\ e.items[j].addr \in Nat \ {0}
                                      /\ Nth(L(n), j) \in L(n) /\ RankIn(L(n), Nth(L(n), j)) = j
                                      /\ e.items[j].addr = g.items[Nth(L(n), j)].addr
                                      /\ e.items[j].dirty \/ ItemAgrees(m, e, j)
         /\ ~e.dirty => /\ ~r[n].dirty /\ e.addr \in DOMAIN m /\ m[e.addr].lib = e.lib
                        /\ m[e.addr].aux = IF e.items = <<>> THEN 0 ELSE e.items[1].addr
                        /\ e.lib = None => m[e.addr].idx = e.items[1].idx
         /\ \A j \in L(n) : \E i \in DOMAIN e.items : e.items[i].ver = g.items[j].ver
  <2> DEFINE g == gs[H(n)]
             q == r[n]
  <2>1. n \in DOMAIN r /\ es[n] = EraseItems(q) /\ H(n) \in K /\ H(n) \in DOMAIN gs
    BY <1>1, <1>2, <1>4
  <2>2. q = g \/ q = [g EXCEPT !.dirty = TRUE]
    BY <1>2, <2>1
  <2>3. /\ GroupFields \subseteq DOMAIN g /\ List(g.items)
        /\ \A j \in DOMAIN g.items : ItemFields \subseteq DOMAIN g.items[j]
    BY <1>1, <2>1
  <2>4. GroupPlaced(m, g)
    BY <2>1 DEF Ensured, K
  <2> HIDE DEF g, q
  <2> QED BY <2>1, <2>2, <2>3, <2>4, ErasedGroup DEF g, q
<1>6. ASSUME NEW n \in DOMAIN es
      PROVE  /\ H(n) \in K /\ RankIn(K, H(n)) = n /\ Len(es[n].items) \in Nat /\ DOMAIN es[n].items = 1 .. Len(es[n].items)
             /\ \A i \in Pos(es[n]) : /\ P(n, i) \in LivePos(gs[H(n)])
                                      /\ Addr(es[n], i) = Addr(gs[H(n)], P(n, i))
                                      /\ Addr(es[n], i) \in Nat \ {0}
                                      /\ (i = 0 <=> P(n, i) = 0)
                                      /\ \A j \in Pos(es[n]) : P(n, i) = P(n, j) => i = j
  <2>1. H(n) \in K /\ RankIn(K, H(n)) = n /\ GroupPlaced(m, gs[H(n)]) /\ List(gs[H(n)].items)
    BY <1>1, <1>2, <1>4 DEF Ensured, K
  <2>2. Len(es[n].items) \in Nat /\ DOMAIN es[n].items = 1 .. Len(es[n].items)
    BY <1>5, ListIs
  <2>3. \A i \in Pos(es[n]) : i = 0 \/ (i \in DOMAIN es[n].items /\ i # 0)
    BY <2>2 DEF Pos
  <2>4. \A i \in L(n) : i # 0
    BY <2>1, ListIs DEF LiveAt
  <2>5. \A i \in DOMAIN es[n].items : Nth(L(n), i) \in L(n) /\ RankIn(L(n), Nth(L(n), i)) = i
    BY <1>5
  <2>6. ASSUME NEW i \in Pos(es[n])
        PROVE  /\ P(n, i) \in LivePos(gs[H(n)])
               /\ Addr(es[n], i) = Addr(gs[H(n)], P(n, i))
               /\ Addr(es[n], i) \in Nat \ {0}
               /\ (i = 0 <=> P(n, i) = 0)
    <3>1. CASE i = 0
      BY <1>5, <2>1, <3>1 DEF Addr, LivePos, GroupPlaced
    <3>2. CASE i \in DOMAIN es[n].items /\ i # 0
      BY <1>5, <2>4, <2>5, <3>2 DEF Addr, LivePos
    <3> QED BY <2>3, <3>1, <3>2
  <2>7. ASSUME NEW i \in Pos(es[n]), NEW j \in Pos(es[n]), P(n, i) = P(n, j) PROVE i = j
    BY <2>3, <2>4, <2>5, <2>7
  <2> QED BY <2>1, <2>2, <2>6, <2>7
<1> HIDE DEF P, L, H
<1>7. Apart(es)
  <2> SUFFICES ASSUME NEW k \in DOMAIN es, NEW l \in DOMAIN es, NEW i \in Pos(es[k]), NEW j \in Pos(es[l]),
                      Addr(es[k], i) = Addr(es[l], j)
               PROVE  k = l /\ i = j
    BY DEF Apart
  <2>1. Addr(gs[H(k)], P(k, i)) = Addr(gs[H(l)], P(l, j))
    BY <1>6
  <2>2. H(k) \in K /\ H(l) \in K /\ P(k, i) \in LivePos(gs[H(k)]) /\ P(l, j) \in LivePos(gs[H(l)])
    BY <1>6
  <2>3. H(k) = H(l) /\ P(k, i) = P(l, j)
    BY <2>1, <2>2 DEF Ensured, K
  <2>4. k = l
    BY <1>6, <2>3
  <2> QED BY <1>6, <2>3, <2>4
<1>8. Shaped(es)
  BY <1>5, <1>6, <1>4, <1>7 DEF Groups, Shaped
<1>9. ASSUME NEW k \in DOMAIN es, ~es[k].dirty PROVE GroupAgrees(m, es, k)
  <2> DEFINE g == gs[H(k)]
             h == H(k)
  <2>1. /\ ~r[k].dirty /\ es[k].addr \in DOMAIN m /\ m[es[k].addr].lib = es[k].lib
        /\ m[es[k].addr].aux = IF es[k].items = <<>> THEN 0 ELSE es[k].items[1].addr
        /\ es[k].lib = None => m[es[k].addr].idx = es[k].items[1].idx
        /\ es[k].addr = g.addr /\ k \in DOMAIN r
    BY <1>4, <1>5, <1>9
  <2>2. /\ h \in K /\ r[k] = g
        /\ \/ h = Len(gs) /\ k = Len(r)
           \/ h + 1 \in K /\ k + 1 \in DOMAIN r /\ ~gs[h + 1].dirty /\ H(k + 1) = h + 1
    BY <1>2, <2>1 DEF H
  <2>3. m[g.addr].next = Next1(es, k)
    <3>1. /\ h = Len(gs) => m[g.addr].next = 0
          /\ h + 1 \in K /\ ~gs[h + 1].dirty => m[g.addr].next = gs[h + 1].addr
      BY <2>1, <2>2 DEF Ensured, K, Links
    <3>2. CASE h = Len(gs) /\ k = Len(r)
      BY <1>4, <1>2, <2>1, <3>2, <3>1 DEF Next1
    <3>3. CASE h + 1 \in K /\ k + 1 \in DOMAIN r /\ ~gs[h + 1].dirty /\ H(k + 1) = h + 1
      <4>1. k < Len(es)
        BY <1>4, ListIs, <3>3
      <4>2. es[k + 1].addr = gs[h + 1].addr
        <5> DEFINE p == k + 1
        <5>1. p \in DOMAIN es /\ H(p) = h + 1
          BY <1>4, <3>3
        <5> HIDE DEF p
        <5>2. es[p].addr = gs[H(p)].addr
          BY <1>5, <5>1
        <5> QED BY <5>1, <5>2 DEF p
      <4> QED BY <3>1, <3>3, <4>1, <4>2 DEF Next1
    <3> QED BY <2>2, <3>2, <3>3
  <2> QED BY <2>1, <2>3 DEF GroupAgrees
<1>10. Whole(m, es)
  BY <1>5, <1>8, <1>9 DEF Whole
<1>11. ASSUME NEW l \in LiveAt(gs), NEW j \in LiveAt(gs[l].items)
       PROVE  \E k \in DOMAIN es : es[k].lib = gs[l].lib /\ \E i \in DOMAIN es[k].items : es[k].items[i].ver = gs[l].items[j].ver
  <2> DEFINE k == RankIn(K, l)
  <2>1. k \in DOMAIN es /\ H(k) = l
    BY <1>1, <1>2, <1>4, RankIs, NthIs DEF K, H
  <2> HIDE DEF k
  <2>2. es[k].lib = gs[l].lib /\ \E i \in DOMAIN es[k].items : es[k].items[i].ver = gs[l].items[j].ver
    BY <1>5, <2>1 DEF L
  <2> QED BY <2>1, <2>2
<1>12. ASSUME NEW k \in DOMAIN es, NEW i \in Pos(es[k])
       PROVE  \E l \in LiveAt(gs) : \E j \in LivePos(gs[l]) : Addr(es[k], i) = Addr(gs[l], j) /\ (i = 0 <=> j = 0)
  BY <1>6 DEF K
<1> QED BY <1>10, <1>11, <1>12 DEF es, PlacedAs, Survive

-----------------------------------------------------------------------------
(* Staying in place.                                                        *)

\* What vers_ensure_vaddrs deals out when the places of deleted entries suffice:
\* every live entry gets a place of its own, and is dirty if that is another one.
LEMMA Dealt ==
  ASSUME NEW s, List(s), \A k \in DOMAIN s : {"addr", "dirty", "del"} \subseteq DOMAIN s[k], Suffices(s)
  PROVE  LET r == Redeal(s) IN
         /\ List(r) /\ DOMAIN r = DOMAIN s /\ Len(r) = Len(s) /\ LiveAt(r) = LiveAt(s)
         /\ \A k \in DOMAIN s : \/ r[k] = s[k]
                                \/ s[k].del /\ r[k] = [s[k] EXCEPT !.addr = 0]
                                \/ \E a : r[k] = [s[k] EXCEPT !.addr = a, !.dirty = TRUE]
         /\ \A k \in LiveAt(s) : /\ DealtFrom(s, k) \in PlacedAt(s) /\ r[k].addr = s[DealtFrom(s, k)].addr
                                 /\ \A j \in LiveAt(s) : DealtFrom(s, j) = DealtFrom(s, k) => j = k
         /\ \/ r = s /\ LiveAt(s) \subseteq PlacedAt(s)
            \/ \A k \in LiveAt(s) : r[k].dirty
<1> DEFINE r == Redeal(s)
           A == LiveAt(s)
           P == PlacedAt(s)
           N == Len(s)
<1>1. N \in Nat /\ DOMAIN s = 1 .. N /\ A \in SUBSET (1 .. N) /\ P \in SUBSET (1 .. N)
  BY ListIs DEF LiveAt, PlacedAt
<1>2. CASE A \subseteq P
  <2>1. r = s
    BY <1>2 DEF Redeal
  <2>2. \A k \in A : DealtFrom(s, k) = k
    BY <1>2 DEF DealtFrom
  <2>3. \A k \in A : k \in P /\ r[k].addr = s[k].addr
    BY <1>2, <2>1
  <2> HIDE DEF r, A, P
  <2>4. \A k \in A : /\ DealtFrom(s, k) \in P /\ r[k].addr = s[DealtFrom(s, k)].addr
                     /\ \A j \in A : DealtFrom(s, j) = DealtFrom(s, k) => j = k
    BY <2>2, <2>3
  <2>5. List(r) /\ DOMAIN r = DOMAIN s /\ Len(r) = Len(s) /\ LiveAt(r) = A /\ \A k \in DOMAIN s : r[k] = s[k]
    BY <2>1 DEF A
  <2>6. r = s /\ A \subseteq P
    BY <1>2, <2>1
  <2> QED BY <2>4, <2>5, <2>6 DEF r, A, P
<1>3. CASE ~(A \subseteq P)
  <2> DEFINE D(k) == Nth(P, RankIn(A, k))
  <2>1. \A k \in A : DealtFrom(s, k) = D(k)
    BY <1>3 DEF DealtFrom, Rank
  <2>2. Cardinality(A) \in Nat /\ Cardinality(P) \in Nat /\ Cardinality(A) <= Cardinality(P)
    <3>1. IsFiniteSet(A) /\ IsFiniteSet(P) /\ Cardinality(A) \in Nat /\ Cardinality(P) \in Nat
      BY <1>1, RankIs
    <3>2. Cardinality(A \ P) = Cardinality(A) - Cardinality(A \cap P)
      BY <3>1, FS_Difference
    <3>3. Cardinality(P \ A) = Cardinality(P) - Cardinality(P \cap A)
      BY <3>1, FS_Difference
    <3>4. A \cap P = P \cap A
      OBVIOUS
    <3>5. Cardinality(A \ P) <= Cardinality(P \ A)
      BY DEF Suffices
    <3>6. Cardinality(A \cap P) \in Nat
      BY <1>1, RankIs
    <3> DEFINE a == Cardinality(A)
               p == Cardinality(P)
               b == Cardinality(A \cap P)
    <3>7. a - b <= p - b
      <4>1. Cardinality(P \cap A) = b
        BY <3>4
      <4> HIDE DEF a, p, b
      <4>2. Cardinality(A \ P) = a - b /\ Cardinality(P \ A) = p - b
        BY <3>2, <3>3, <4>1 DEF a, p, b
      <4> QED BY <3>5, <4>2
    <3> HIDE DEF a, p, b
    <3>8. a \in Nat /\ p \in Nat /\ b \in Nat
      BY <3>1, <3>6 DEF a, p, b
    <3>9. a <= p
      BY <3>7, <3>8
    <3> QED BY <3>1, <3>9 DEF a, p
  <2>3. \A k \in A : RankIn(A, k) \in 1 .. Cardinality(P)
    <3>1. \A k \in A : RankIn(A, k) \in 1 .. Cardinality(A)
      BY <1>1, RankIs
    <3> HIDE DEF A, P
    <3> QED BY <2>2, <3>1
  <2>4. \A k \in A : D(k) \in P /\ RankIn(P, D(k)) = RankIn(A, k)
    BY <1>1, <2>3, NthIs
  <2>5. \A j, k \in A : D(j) = D(k) => j = k
    <3>1. \A k \in A : Nth(A, RankIn(A, k)) = k
      BY <1>1, NthIs
    <3> HIDE DEF D, A
    <3> QED BY <2>4, <3>1
  <2>6. r = [k \in 1 .. N |-> IF s[k].del THEN [s[k] EXCEPT !.addr = 0]
                              ELSE [s[k] EXCEPT !.addr = Pick(s, P)[RankIn(A, k)].addr, !.dirty = TRUE]]
    BY <1>1, <1>3 DEF Redeal, Rank
  <2>7. \A k \in A : Pick(s, P)[RankIn(A, k)] = s[D(k)]
    <3>1. P \in SUBSET (DOMAIN s)
      BY <1>1
    <3>2. \A m \in 1 .. Cardinality(P) : Pick(s, P)[m] = s[Nth(P, m)]
      BY <3>1, PickIs
    <3> HIDE DEF A, P
    <3> QED BY <2>3, <3>2 DEF D
  <2>8. /\ r = [k \in 1 .. N |-> r[k]] /\ DOMAIN r = 1 .. N
        /\ \A k \in 1 .. N : s[k].del => r[k] = [s[k] EXCEPT !.addr = 0]
        /\ \A k \in 1 .. N : ~s[k].del => r[k] = [s[k] EXCEPT !.addr = Pick(s, P)[RankIn(A, k)].addr, !.dirty = TRUE]
    BY <2>6
  <2> HIDE DEF r
  <2>9. List(r) /\ Len(r) = N
    BY <1>1, <2>8, ListMade
  <2>10. \A k \in 1 .. N : (k \in A <=> ~s[k].del) /\ (r[k].del = s[k].del)
    BY <1>1, <2>8 DEF LiveAt
  <2>11. LiveAt(r) = A
    BY <1>1, <2>8, <2>10 DEF LiveAt
  <2>12. \A k \in A : r[k].dirty /\ r[k].addr = s[D(k)].addr
    <3>1. \A k \in A : /\ k \in 1 .. N /\ ~s[k].del
                       /\ r[k] = [s[k] EXCEPT !.addr = s[D(k)].addr, !.dirty = TRUE]
      BY <1>1, <2>7, <2>8, <2>10
    <3> HIDE DEF D, A
    <3> QED BY <1>1, <3>1
  <2>13. \A k \in 1 .. N : \/ s[k].del /\ r[k] = [s[k] EXCEPT !.addr = 0]
                           \/ \E a : r[k] = [s[k] EXCEPT !.addr = a, !.dirty = TRUE]
    BY <2>8
  <2> HIDE DEF D
  <2>14. \A k \in A : DealtFrom(s, k) \in P /\ r[k].addr = s[DealtFrom(s, k)].addr
    BY <2>1, <2>4, <2>12
  <2>15. \A j, k \in A : DealtFrom(s, j) = DealtFrom(s, k) => j = k
    BY <2>1, <2>5
  <2> QED BY <1>1, <2>8, <2>9, <2>11, <2>12, <2>13, <2>14, <2>15 DEF r
<1> QED BY <1>2, <1>3

\* The links of what was left alone are still right.
LEMMA DealtLinks ==
  ASSUME NEW m, NEW head, NEW s, List(s), Tied(m, head, s), LiveAt(s) \subseteq PlacedAt(s)
  PROVE  /\ Links(m, s)
         /\ s = <<>> => head = 0
         /\ s # <<>> /\ ~s[1].del => head = s[1].addr
<1> DEFINE N == Len(s)
<1>1. N \in Nat /\ DOMAIN s = 1 .. N
  BY ListIs
<1>2. ASSUME NEW k \in 0 .. N, NEW a, Follows(s, k, a)
      PROVE  (k = N => a = 0) /\ (k + 1 \in LiveAt(s) => a = s[k + 1].addr)
  <2>1. ASSUME k = N PROVE a = 0
    BY <1>1, <2>1, <1>2 DEF Follows
  <2>2. ASSUME k + 1 \in LiveAt(s) PROVE a = s[k + 1].addr
    <3> DEFINE p == k + 1
    <3>1. p \in 1 .. N /\ s[p].addr # 0 /\ p > k /\ \A j \in 1 .. N : j > k => j = p \/ p < j
      BY <1>1, <2>2 DEF PlacedAt
    <3> HIDE DEF p
    <3>2. a # 0
      BY <1>1, <1>2, <3>1 DEF Follows
    <3>3. PICK j \in DOMAIN s : /\ j > k /\ s[j].addr = a
                                /\ \A i \in DOMAIN s : k < i /\ i < j => s[i].addr = 0
      BY <1>2, <3>2 DEF Follows
    <3>4. j = p
      BY <1>1, <3>1, <3>3
    <3> QED BY <3>3, <3>4 DEF p
  <2> QED BY <2>1, <2>2
<1>3. Links(m, s)
  <2> SUFFICES ASSUME NEW k \in LiveAt(s)
               PROVE  /\ s[k].addr \in DOMAIN m
                      /\ k = N => m[s[k].addr].next = 0
                      /\ k + 1 \in LiveAt(s) => m[s[k].addr].next = s[k + 1].addr
    BY DEF Links
  <2>1. k \in PlacedAt(s) /\ k \in 0 .. N
    BY <1>1 DEF LiveAt
  <2>2. s[k].addr \in DOMAIN m /\ Follows(s, k, m[s[k].addr].next)
    BY <2>1 DEF Tied
  <2> QED BY <1>2, <2>1, <2>2
<1>4. Follows(s, 0, head)
  BY DEF Tied
<1>5. s = <<>> => head = 0
  BY <1>4 DEF Follows
<1>6. ASSUME s # <<>>, ~s[1].del PROVE head = s[1].addr
  <2>1. N # 0
    BY <1>6, EmptySeq DEF List
  <2>2. 0 + 1 \in LiveAt(s) /\ 0 \in 0 .. N
    BY <1>1, <1>6, <2>1 DEF LiveAt
  <2>3. head = s[0 + 1].addr
    BY <1>2, <1>4, <2>2
  <2> QED BY <2>3
<1> QED BY <1>3, <1>5, <1>6

\* A group whose items are dealt out.
LEMMA DealtGroup ==
  ASSUME NEW m, NEW g, GroupIs(m, g), g.lib = None => Defines(m, g), Suffices(g.items)
  PROVE  LET t == [g EXCEPT !.items = Redeal(@)]
             L == LiveAt(g.items) IN
         /\ GroupFields \subseteq DOMAIN t /\ t.lib = g.lib /\ t.addr = g.addr /\ t.dirty = g.dirty /\ t.del = g.del
         /\ List(t.items) /\ LiveAt(t.items) = L /\ FirstOnly(t) /\ Links(m, t.items)
         /\ \A j \in DOMAIN t.items : ItemFields \subseteq DOMAIN t.items[j]
         /\ \A j \in L : /\ ItemPlaced(m, g.lib, t.items[j]) /\ t.items[j].ver = g.items[j].ver
                         /\ DealtFrom(g.items, j) \in PlacedAt(g.items)
                         /\ t.items[j].addr = g.items[DealtFrom(g.items, j)].addr
                         /\ \A i \in L : DealtFrom(g.items, i) = DealtFrom(g.items, j) => i = j
         /\ g.addr # 0 => Heads(m, t)
<1> DEFINE t == [g EXCEPT !.items = Redeal(@)]
           s == g.items
           r == Redeal(s)
           L == LiveAt(s)
           N == Len(s)
<1>1. /\ GroupFields \subseteq DOMAIN t /\ t.lib = g.lib /\ t.addr = g.addr /\ t.dirty = g.dirty /\ t.del = g.del
      /\ t.items = r
  BY DEF GroupIs, GroupFields
<1> HIDE DEF t
<1>2. /\ N \in Nat /\ DOMAIN s = 1 .. N /\ L \in SUBSET (1 .. N) /\ List(s)
      /\ \A k \in DOMAIN s : {"addr", "dirty", "del"} \subseteq DOMAIN s[k]
      /\ \A k \in DOMAIN s : ItemIs(m, g.lib, s[k])
  BY ListIs DEF LiveAt, GroupIs, ItemIs, ItemFields
<1>3. /\ List(r) /\ DOMAIN r = DOMAIN s /\ Len(r) = Len(s) /\ LiveAt(r) = L
      /\ \A k \in DOMAIN s : \/ r[k] = s[k]
                             \/ s[k].del /\ r[k] = [s[k] EXCEPT !.addr = 0]
                             \/ \E a : r[k] = [s[k] EXCEPT !.addr = a, !.dirty = TRUE]
      /\ \A k \in L : /\ DealtFrom(s, k) \in PlacedAt(s) /\ r[k].addr = s[DealtFrom(s, k)].addr
                      /\ \A j \in L : DealtFrom(s, j) = DealtFrom(s, k) => j = k
      /\ \/ r = s /\ L \subseteq PlacedAt(s)
         \/ \A k \in L : r[k].dirty
  BY <1>2, Dealt
<1> HIDE DEF r
<1>4. \A k \in 1 .. N : /\ ItemFields \subseteq DOMAIN r[k]
                        /\ r[k].ver = s[k].ver /\ r[k].idx = s[k].idx /\ r[k].weak = s[k].weak /\ r[k].del = s[k].del
  <2>1. \A k \in 1 .. N : ItemFields \subseteq DOMAIN s[k]
    BY <1>2 DEF ItemIs
  <2> SUFFICES ASSUME NEW k \in 1 .. N
               PROVE  /\ ItemFields \subseteq DOMAIN r[k]
                      /\ r[k].ver = s[k].ver /\ r[k].idx = s[k].idx /\ r[k].weak = s[k].weak /\ r[k].del = s[k].del
    OBVIOUS
  <2>2. CASE r[k] = s[k]
    BY <2>1, <2>2
  <2>3. CASE r[k] = [s[k] EXCEPT !.addr = 0]
    BY <2>1, <2>3 DEF ItemFields
  <2>4. CASE \E a : r[k] = [s[k] EXCEPT !.addr = a, !.dirty = TRUE]
    <3>1. PICK a : r[k] = [s[k] EXCEPT !.addr = a, !.dirty = TRUE]
      BY <2>4
    <3> QED BY <2>1, <3>1 DEF ItemFields
  <2> QED BY <1>2, <1>3, <2>2, <2>3, <2>4
<1>5. ASSUME g.addr # 0 PROVE Tied(m, m[g.addr].aux, s)
  BY <1>5 DEF GroupIs
<1>6. g.addr = 0 => PlacedAt(s) = {}
  BY DEF GroupIs
<1>7. Links(m, r)
  <2>1. CASE \A k \in L : r[k].dirty
    BY <1>3, <2>1 DEF Links
  <2>2. CASE r = s /\ L \subseteq PlacedAt(s)
    <3>1. CASE g.addr # 0
      BY <1>2, <1>5, <2>2, <3>1, DealtLinks
    <3>2. CASE g.addr = 0
      BY <1>6, <2>2, <3>2 DEF Links
    <3> QED BY <3>1, <3>2
  <2> QED BY <1>3, <2>1, <2>2
<1>8. ASSUME NEW j \in L PROVE ItemPlaced(m, g.lib, r[j])
  <2>1. ItemFields \subseteq DOMAIN r[j] /\ j \in 1 .. N
    BY <1>2, <1>4
  <2>2. r[j].addr \in Nat \ {0}
    BY <1>3, <1>2 DEF PlacedAt, ItemIs
  <2>3. ASSUME ~r[j].dirty
        PROVE  /\ r[j].addr \in DOMAIN m /\ m[r[j].addr].ver = r[j].ver /\ m[r[j].addr].weak = r[j].weak
               /\ g.lib # None => m[r[j].addr].idx = r[j].idx
    BY <1>3, <2>3, <1>2, <2>1, <2>2 DEF ItemIs
  <2> QED BY <2>1, <2>2, <2>3 DEF ItemPlaced
<1>9. FirstOnly(t)
  <2>1. ASSUME g.lib = None PROVE r # <<>> /\ \A j \in 1 .. N : ~r[j].del /\ (j > 1 => r[j].idx = 0)
    <3>1. s # <<>> /\ \A j \in DOMAIN s : ~s[j].del /\ (j > 1 => s[j].idx = 0)
      BY <2>1 DEF Defines
    <3>2. N # 0
      BY <1>2, <3>1, EmptySeq DEF List
    <3>3. r # <<>>
      BY <1>3, <3>2
    <3> QED BY <1>2, <1>4, <3>1, <3>3
  <2> QED BY <1>1, <1>2, <1>3, <2>1 DEF FirstOnly
<1>10. ASSUME g.addr # 0 PROVE Heads(m, t)
  <2> DEFINE aux == m[g.addr].aux
  <2>1. g.addr \in DOMAIN m /\ m[g.addr].lib = g.lib /\ Tied(m, aux, s)
    BY <1>10 DEF GroupIs
  <2>2. ASSUME r = <<>> PROVE aux = 0
    <3>1. DOMAIN s = {}
      <4>1. Len(r) = 0
        BY <2>2, EmptySeq
      <4> QED BY <1>2, <1>3, <4>1
    <3> QED BY <2>1, <3>1 DEF Tied, Follows
  <2>3. ASSUME r # <<>>, ~r[1].dirty, ~r[1].del PROVE aux = r[1].addr
    <3>1. N # 0
      BY <1>2, <1>3, <2>3, EmptySeq DEF List
    <3>2. 1 \in 1 .. N /\ 1 \in L
      BY <1>2, <3>1, <1>4, <2>3 DEF LiveAt
    <3>3. r = s /\ L \subseteq PlacedAt(s)
      BY <1>3, <2>3, <3>2
    <3> QED BY <1>2, <2>1, <2>3, <3>3, DealtLinks
  <2>4. ASSUME g.lib = None PROVE m[g.addr].idx = r[1].idx
    BY <1>10, <2>4, <1>2, EmptySeq, <1>4 DEF Defines, List
  <2> QED BY <1>1, <2>1, <2>2, <2>3, <2>4 DEF Heads
<1> QED BY <1>1, <1>2, <1>3, <1>4, <1>7, <1>8, <1>9, <1>10 DEF t, L

\* A list which stays where it is.
LEMMA EnsuredInPlace ==
  ASSUME NEW m, NEW head, NEW gs, Listed(m, head, gs), Defining(m, gs), InPlace(gs), NEW size, NEW brk
  PROVE  LET es == EnsureVaddrs(gs, size, brk) IN
         /\ Ensured(m, es)
         /\ \A k \in LiveAt(es) : \A i \in LivePos(es[k]) :
               \E l \in DOMAIN gs : \E j \in Pos(gs[l]) : Addr(es[k], i) = Addr(gs[l], j)
         /\ LiveAt(es) = LiveAt(gs)
         /\ \A k \in LiveAt(gs) : /\ es[k].lib = gs[k].lib /\ LiveAt(es[k].items) = LiveAt(gs[k].items)
                                  /\ \A j \in LiveAt(gs[k].items) : es[k].items[j].ver = gs[k].items[j].ver
<1> DEFINE T(g) == IF g.del THEN g ELSE [g EXCEPT !.items = Redeal(@)]
           t == [k \in DOMAIN gs |-> T(gs[k])]
           es == Redeal(t)
           K == LiveAt(gs)
           N == Len(gs)
           D(k) == DealtFrom(t, k)
           E(k, j) == IF j = 0 THEN 0 ELSE DealtFrom(gs[k].items, j)
<1>1. EnsureVaddrs(gs, size, brk) = es
  BY DEF EnsureVaddrs, Map
<1>2. N \in Nat /\ DOMAIN gs = 1 .. N /\ K \in SUBSET (1 .. N) /\ \A k \in 1 .. N : GroupIs(m, gs[k])
  BY ListIs DEF LiveAt, Listed
<1>3. /\ t = [k \in 1 .. N |-> t[k]] /\ DOMAIN t = 1 .. N
      /\ \A k \in 1 .. N : IF gs[k].del THEN t[k] = gs[k] ELSE t[k] = [gs[k] EXCEPT !.items = Redeal(@)]
  BY <1>2
<1> HIDE DEF t
<1>4. List(t) /\ Len(t) = N
  BY <1>2, <1>3, ListMade
<1>5. ASSUME NEW k \in K
      PROVE  LET g == gs[k]
                 u == t[k]
                 L == LiveAt(g.items) IN
             /\ GroupFields \subseteq DOMAIN u /\ u.lib = g.lib /\ u.addr = g.addr /\ u.dirty = g.dirty /\ u.del = g.del
             /\ List(u.items) /\ LiveAt(u.items) = L /\ FirstOnly(u) /\ Links(m, u.items)
             /\ \A j \in DOMAIN u.items : ItemFields \subseteq DOMAIN u.items[j]
             /\ \A j \in L : /\ ItemPlaced(m, g.lib, u.items[j]) /\ u.items[j].ver = g.items[j].ver
                             /\ DealtFrom(g.items, j) \in PlacedAt(g.items)
                             /\ u.items[j].addr = g.items[DealtFrom(g.items, j)].addr
                             /\ \A i \in L : DealtFrom(g.items, i) = DealtFrom(g.items, j) => i = j
             /\ g.addr # 0 => Heads(m, u)
  <2> DEFINE g == gs[k]
  <2>1. k \in 1 .. N /\ ~g.del
    BY <1>2 DEF LiveAt
  <2>2. GroupIs(m, g) /\ (g.lib = None => Defines(m, g)) /\ t[k] = [g EXCEPT !.items = Redeal(@)]
    BY <1>2, <1>3, <2>1 DEF Defining
  <2>3. Suffices(g.items)
    BY <1>2, <2>1 DEF InPlace, Range
  <2> HIDE DEF g
  <2> QED BY <2>2, <2>3, DealtGroup DEF g
<1>6. \A k \in 1 .. N : /\ GroupFields \subseteq DOMAIN t[k] /\ t[k].addr = gs[k].addr /\ t[k].del = gs[k].del
                        /\ List(t[k].items) /\ \A j \in DOMAIN t[k].items : ItemFields \subseteq DOMAIN t[k].items[j]
  <2>1. ASSUME NEW k \in 1 .. N, ~gs[k].del
        PROVE  /\ GroupFields \subseteq DOMAIN t[k] /\ t[k].addr = gs[k].addr /\ t[k].del = gs[k].del
               /\ List(t[k].items) /\ \A j \in DOMAIN t[k].items : ItemFields \subseteq DOMAIN t[k].items[j]
    BY <1>2, <2>1, <1>5 DEF LiveAt
  <2>2. ASSUME NEW k \in 1 .. N, gs[k].del
        PROVE  /\ GroupFields \subseteq DOMAIN t[k] /\ t[k].addr = gs[k].addr /\ t[k].del = gs[k].del
               /\ List(t[k].items) /\ \A j \in DOMAIN t[k].items : ItemFields \subseteq DOMAIN t[k].items[j]
    BY <1>2, <1>3, <2>2 DEF GroupIs, ItemIs
  <2> QED BY <2>1, <2>2
<1>7. LiveAt(t) = K /\ PlacedAt(t) = PlacedAt(gs)
  BY <1>2, <1>3, <1>6 DEF LiveAt, PlacedAt
<1>8. /\ \A k \in DOMAIN t : {"addr", "dirty", "del"} \subseteq DOMAIN t[k]
      /\ Suffices(t)
  BY <1>3, <1>6, <1>7 DEF InPlace, Suffices, GroupFields
<1>9. /\ List(es) /\ DOMAIN es = DOMAIN t /\ Len(es) = Len(t) /\ LiveAt(es) = K
      /\ \A k \in DOMAIN t : \/ es[k] = t[k]
                             \/ t[k].del /\ es[k] = [t[k] EXCEPT !.addr = 0]
                             \/ \E a : es[k] = [t[k] EXCEPT !.addr = a, !.dirty = TRUE]
      /\ \A k \in K : /\ D(k) \in PlacedAt(gs) /\ es[k].addr = t[D(k)].addr
                      /\ \A j \in K : D(j) = D(k) => j = k
      /\ \/ es = t /\ K \subseteq PlacedAt(gs)
         \/ \A k \in K : es[k].dirty
  BY <1>4, <1>7, <1>8, Dealt
<1> HIDE DEF es, D
<1>10. \A k \in 1 .. N : /\ GroupFields \subseteq DOMAIN es[k] /\ es[k].lib = t[k].lib /\ es[k].items = t[k].items
                         /\ es[k].del = t[k].del
  <2> SUFFICES ASSUME NEW k \in 1 .. N
               PROVE  /\ GroupFields \subseteq DOMAIN es[k] /\ es[k].lib = t[k].lib /\ es[k].items = t[k].items
                      /\ es[k].del = t[k].del
    OBVIOUS
  <2>1. GroupFields \subseteq DOMAIN t[k]
    BY <1>6
  <2>2. CASE es[k] = t[k]
    BY <2>1, <2>2
  <2>3. CASE es[k] = [t[k] EXCEPT !.addr = 0]
    BY <2>1, <2>3 DEF GroupFields
  <2>4. CASE \E a : es[k] = [t[k] EXCEPT !.addr = a, !.dirty = TRUE]
    <3>1. PICK a : es[k] = [t[k] EXCEPT !.addr = a, !.dirty = TRUE]
      BY <2>4
    <3> QED BY <2>1, <3>1 DEF GroupFields
  <2> QED BY <1>3, <1>9, <2>2, <2>3, <2>4
<1>11. Groups(es)
  BY <1>3, <1>6, <1>9, <1>10 DEF Groups
<1>12. \A k \in K : es[k].addr = gs[D(k)].addr /\ D(k) \in 1 .. N /\ gs[D(k)].addr # 0 /\ es[k].addr \in Nat \ {0}
  <2>1. \A k \in K : D(k) \in 1 .. N /\ gs[D(k)].addr # 0 /\ es[k].addr = t[D(k)].addr
    BY <1>2, <1>9 DEF PlacedAt
  <2> QED BY <1>2, <1>6, <2>1 DEF GroupIs
<1>13. ASSUME NEW k \in K PROVE GroupPlaced(m, es[k])
  <2> DEFINE e == es[k]
             u == t[k]
  <2>1. k \in 1 .. N /\ e.items = u.items /\ e.lib = u.lib /\ u.lib = gs[k].lib /\ LiveAt(u.items) = LiveAt(gs[k].items)
    BY <1>2, <1>5, <1>10
  <2>2. FirstOnly(e) /\ Links(m, e.items) /\ \A j \in LiveAt(e.items) : ItemPlaced(m, e.lib, e.items[j])
    BY <1>5, <2>1 DEF FirstOnly
  <2>3. Heads(m, e)
    <3>1. CASE e.dirty
      BY <3>1 DEF Heads
    <3>2. CASE ~e.dirty
      BY <1>9, <3>2, <1>5 DEF PlacedAt
    <3> QED BY <3>1, <3>2
  <2> QED BY <1>12, <2>2, <2>3 DEF GroupPlaced
<1>14. Links(m, es)
  <2>1. CASE \A k \in K : es[k].dirty
    BY <1>9, <2>1 DEF Links
  <2>2. CASE es = t /\ K \subseteq PlacedAt(gs)
    BY <1>2, <1>3, <1>6, TiedSame, <1>4, <1>7, <2>2, DealtLinks DEF Listed
  <2> QED BY <1>9, <2>1, <2>2
<1>15. ASSUME NEW k \in K, NEW i \in LivePos(es[k])
       PROVE  /\ i = 0 => /\ D(k) \in 1 .. N /\ 0 \in Pos(gs[D(k)])
                           /\ Addr(es[k], i) = Addr(gs[D(k)], 0) /\ Addr(gs[D(k)], 0) # 0
              /\ i # 0 => /\ i \in LiveAt(gs[k].items) /\ E(k, i) \in Pos(gs[k]) /\ E(k, i) # 0
                           /\ Addr(es[k], i) = Addr(gs[k], E(k, i)) /\ Addr(gs[k], E(k, i)) # 0
  <2>1. k \in 1 .. N
    BY <1>2
  <2>2. CASE i = 0
    BY <1>2, <1>12, ListIs, <2>2 DEF GroupIs, Pos, Addr
  <2>3. CASE i # 0
    <3> DEFINE s == gs[k].items
               j == DealtFrom(s, i)
    <3>1. i \in LiveAt(s)
      BY <1>5, <1>10, <2>1, <2>3 DEF LivePos
    <3>2. j \in PlacedAt(s) /\ t[k].items[i].addr = s[j].addr
      BY <1>5, <3>1
    <3>3. List(s)
      BY <1>2, <2>1 DEF GroupIs
    <3> HIDE DEF j
    <3>4. j \in Pos(gs[k]) /\ j # 0 /\ s[j].addr # 0
      BY <3>2, <3>3, ListIs DEF PlacedAt, Pos
    <3>5. E(k, i) = j
      BY <2>3 DEF j
    <3>6. Addr(es[k], i) = s[j].addr
      BY <1>10, <2>1, <2>3, <3>2 DEF Addr
    <3>7. Addr(gs[k], j) = s[j].addr
      BY <3>4 DEF Addr
    <3> QED BY <2>3, <3>1, <3>4, <3>5, <3>6, <3>7
  <2> QED BY <2>2, <2>3
<1>16. \A k, l \in K : \A i \in LivePos(es[k]), j \in LivePos(es[l]) :
          Addr(es[k], i) = Addr(es[l], j) => k = l /\ i = j
  <2> SUFFICES ASSUME NEW k \in K, NEW l \in K, NEW i \in LivePos(es[k]), NEW j \in LivePos(es[l]),
                      Addr(es[k], i) = Addr(es[l], j)
               PROVE  k = l /\ i = j
    OBVIOUS
  <2>1. k \in 1 .. N /\ l \in 1 .. N
    BY <1>2
  <2>2. Apart(gs)
    BY DEF Listed
  <2>3. CASE i = 0 /\ j = 0
    <3>1. D(k) = D(l)
      BY <1>2, <1>15, <2>2, <2>3 DEF Apart
    <3> QED BY <1>9, <2>3, <3>1
  <2>4. CASE i = 0 /\ j # 0
    BY <1>2, <1>15, <2>1, <2>2, <2>4 DEF Apart
  <2>5. CASE i # 0 /\ j = 0
    BY <1>2, <1>15, <2>1, <2>2, <2>5 DEF Apart
  <2>6. CASE i # 0 /\ j # 0
    <3>1. k = l /\ E(k, i) = E(l, j)
      <4> HIDE DEF E
      <4> QED BY <1>2, <1>15, <2>1, <2>2, <2>6 DEF Apart
    <3> QED BY <1>5, <1>15, <2>6, <3>1
  <2> QED BY <2>3, <2>4, <2>5, <2>6
<1>17. Ensured(m, es)
  BY <1>9, <1>11, <1>13, <1>14, <1>16 DEF Ensured
<1>18. \A k \in K : \A i \in LivePos(es[k]) :
          \E l \in DOMAIN gs : \E j \in Pos(gs[l]) : Addr(es[k], i) = Addr(gs[l], j)
  <2> HIDE DEF E
  <2> QED BY <1>2, <1>15
<1>19. \A k \in K : /\ es[k].lib = gs[k].lib /\ LiveAt(es[k].items) = LiveAt(gs[k].items)
                    /\ \A j \in LiveAt(gs[k].items) : es[k].items[j].ver = gs[k].items[j].ver
  BY <1>2, <1>5, <1>10
<1>20. LiveAt(es) = K
  BY <1>9
<1> QED BY <1>1, <1>17, <1>18, <1>19, <1>20

-----------------------------------------------------------------------------
(* Moving to an allocation.                                                 *)

\* Multiples of s are s apart.
LEMMA Times == ASSUME NEW s \in Nat, NEW a \in Nat, NEW b \in Nat
               PROVE  /\ a * s \in Nat /\ (a < b => a * s + s <= b * s) /\ (a <= b => a * s <= b * s)
                      /\ a # 0 => a - 1 \in Nat /\ (a - 1) * s + s = a * s
<1>1. a * s \in Nat /\ b * s \in Nat
  OBVIOUS
<1>2. ASSUME a <= b PROVE a * s <= b * s
  <2>1. PICK d \in Nat : b = a + d
    BY <1>2
  <2>2. b * s = a * s + d * s /\ d * s \in Nat
    BY <2>1
  <2> QED BY <1>1, <2>2
<1>3. ASSUME a < b PROVE a * s + s <= b * s
  <2>1. PICK d \in Nat : b = a + 1 + d
    BY <1>3
  <2>2. b * s = a * s + s + d * s /\ d * s \in Nat
    BY <2>1
  <2> QED BY <1>1, <2>2
<1>4. ASSUME a # 0 PROVE a - 1 \in Nat /\ (a - 1) * s + s = a * s
  <2>1. PICK d \in Nat : a = d + 1
    BY <1>4
  <2>2. a - 1 = d /\ a * s = d * s + s
    BY <2>1
  <2> QED BY <2>2
<1> QED BY <1>1, <1>2, <1>3, <1>4

\* Items which live are numbered one after the other, whatever group they are in.
LEMMA ItemsCounted ==
  ASSUME NEW gs, List(gs), \A k \in DOMAIN gs : List(gs[k].items)
  PROVE  LET n(k, j) == Cardinality(UpTo(gs, k, j)) IN
         /\ Cardinality(LiveItemsAt(gs)) \in Nat
         /\ \A k \in LiveAt(gs) : \A j \in LiveAt(gs[k].items) :
               /\ n(k, j) \in 1 .. Cardinality(LiveItemsAt(gs))
               /\ \A l \in LiveAt(gs) : \A i \in LiveAt(gs[l].items) : n(k, j) = n(l, i) => k = l /\ j = i
<1> DEFINE A == LiveItemsAt(gs)
           K == LiveAt(gs)
           S(k) == LiveAt(gs[k].items)
           U(k, j) == UpTo(gs, k, j)
<1>1. Len(gs) \in Nat /\ K \in SUBSET (1 .. Len(gs))
  BY ListIs DEF LiveAt
<1>2. \A k \in K : Len(gs[k].items) \in Nat /\ S(k) \in SUBSET (1 .. Len(gs[k].items))
  BY ListIs DEF LiveAt
<1>3. IsFiniteSet(A)
  <2> DEFINE P(k) == {k} \X S(k)
             F == {P(k) : k \in K}
  <2>1. ASSUME NEW k \in K PROVE IsFiniteSet(P(k))
    BY <1>2, RankIs, FS_Singleton, FS_Product
  <2>2. IsFiniteSet(K)
    BY <1>1, RankIs
  <2> HIDE DEF P
  <2>3. IsFiniteSet(F)
    <3> DEFINE f == [k \in K |-> P(k)]
    <3>1. f \in Surjection(K, F)
      BY DEF Surjection
    <3> HIDE DEF f, F, K
    <3> QED BY <2>2, <3>1, FS_Surjection
  <2>4. \A T \in F : IsFiniteSet(T)
    BY <2>1
  <2>5. A = UNION F
    BY DEF LiveItemsAt, P
  <2> HIDE DEF F, A
  <2> QED BY <2>3, <2>4, <2>5, FS_UNION
<1>4. \A p : p \in A <=> \E k \in K : \E j \in S(k) : p = <<k, j>>
  BY DEF LiveItemsAt
<1>5. \A p \in A : /\ p[1] \in K /\ p[2] \in S(p[1]) /\ p = <<p[1], p[2]>>
                   /\ p[1] \in Nat /\ p[2] \in Nat
  <2> SUFFICES ASSUME NEW p \in A
               PROVE  /\ p[1] \in K /\ p[2] \in S(p[1]) /\ p = <<p[1], p[2]>> /\ p[1] \in Nat /\ p[2] \in Nat
    OBVIOUS
  <2>1. PICK k \in K : \E j \in S(k) : p = <<k, j>>
    BY <1>4
  <2>2. PICK j \in S(k) : p = <<k, j>>
    BY <2>1
  <2>3. p[1] = k /\ p[2] = j
    BY <2>2
  <2>4. k \in Nat /\ j \in Nat
    BY <1>1, <1>2
  <2> HIDE DEF K, S
  <2> QED BY <2>2, <2>3, <2>4
<1>6. \A k, j : U(k, j) = {p \in A : p[1] < k \/ (p[1] = k /\ p[2] <= j)}
  BY DEF UpTo
<1> HIDE DEF A, K, S, U
<1>7. Cardinality(A) \in Nat
  BY <1>3, FS_CardinalityType
<1>8. \A k, j : /\ IsFiniteSet(U(k, j)) /\ Cardinality(U(k, j)) \in Nat
                /\ Cardinality(U(k, j)) <= Cardinality(A)
  BY <1>6, <1>3, FS_Subset, FS_CardinalityType
<1>9. ASSUME NEW k \in K, NEW j \in S(k) PROVE <<k, j>> \in U(k, j) /\ k \in Nat /\ j \in Nat
  BY <1>4, <1>5, <1>6
<1>10. ASSUME NEW k \in K, NEW j \in S(k) PROVE Cardinality(U(k, j)) # 0
  BY <1>9, <1>8, FS_EmptySet
<1>11. ASSUME NEW k \in K, NEW j \in S(k), NEW l \in K, NEW i \in S(l), k < l \/ (k = l /\ j < i)
       PROVE  Cardinality(U(k, j)) < Cardinality(U(l, i))
  <2>1. k \in Nat /\ j \in Nat /\ l \in Nat /\ i \in Nat
    BY <1>9
  <2>2. <<l, i>> \in U(l, i)
    BY <1>9
  <2>3. <<l, i>> \notin U(k, j)
    BY <1>6, <1>11, <2>1
  <2>4. U(k, j) \in SUBSET U(l, i)
    <3> SUFFICES ASSUME NEW p \in U(k, j) PROVE p \in U(l, i)
      OBVIOUS
    <3>1. p \in A /\ (p[1] < k \/ (p[1] = k /\ p[2] <= j)) /\ p[1] \in Nat /\ p[2] \in Nat
      BY <1>5, <1>6
    <3>2. p[1] < l \/ (p[1] = l /\ p[2] <= i)
      BY <1>11, <2>1, <3>1
    <3> QED BY <1>6, <3>1, <3>2
  <2> DEFINE X == U(k, j)
             Y == U(l, i)
  <2>5. IsFiniteSet(Y) /\ X \in SUBSET Y /\ X # Y
    BY <1>8, <2>2, <2>3, <2>4
  <2>6. Cardinality(X) \in Nat /\ Cardinality(Y) \in Nat
    BY <1>8
  <2> HIDE DEF X, Y
  <2>7. Cardinality(X) <= Cardinality(Y) /\ Cardinality(X) # Cardinality(Y)
    BY <2>5, FS_Subset
  <2>8. Cardinality(X) < Cardinality(Y)
    BY <2>6, <2>7
  <2> QED BY <2>8 DEF X, Y
<1>12. ASSUME NEW k \in K, NEW j \in S(k)
       PROVE  /\ Cardinality(U(k, j)) \in 1 .. Cardinality(A)
              /\ \A l \in K : \A i \in S(l) : Cardinality(U(k, j)) = Cardinality(U(l, i)) => k = l /\ j = i
  <2>1. Cardinality(U(k, j)) \in 1 .. Cardinality(A)
    BY <1>7, <1>8, <1>10
  <2>2. ASSUME NEW l \in K, NEW i \in S(l), ~(k = l /\ j = i) PROVE Cardinality(U(k, j)) # Cardinality(U(l, i))
    <3>1. k \in Nat /\ j \in Nat /\ l \in Nat /\ i \in Nat
      BY <1>9
    <3>2. (k < l \/ (k = l /\ j < i)) \/ (l < k \/ (l = k /\ i < j))
      BY <2>2, <3>1
    <3>3. Cardinality(U(k, j)) \in Nat /\ Cardinality(U(l, i)) \in Nat
      BY <1>8
    <3>4. Cardinality(U(k, j)) < Cardinality(U(l, i)) \/ Cardinality(U(l, i)) < Cardinality(U(k, j))
      BY <1>11, <3>2
    <3> QED BY <3>3, <3>4
  <2> QED BY <2>1, <2>2
<1> QED BY <1>7, <1>12 DEF A, K, S, U

\* A list which moves is at brk and behind it, and inside of what is allocated as long
\* as nothing is deleted.
LEMMA Relocated ==
  ASSUME NEW m, NEW head, NEW gs, Listed(m, head, gs), Defining(m, gs), NEW size,
         size.group \in Nat \ {0}, size.item \in Nat \ {0}, NEW brk \in Nat \ {0}
  PROVE  LET es == Relocate(gs, size, brk)
             end == brk + Required(gs, size) IN
         /\ Ensured(m, es) /\ Required(gs, size) \in Nat
         /\ LiveAt(es) = LiveAt(gs)
         /\ \A k \in LiveAt(gs) : /\ es[k].lib = gs[k].lib /\ LiveAt(es[k].items) = LiveAt(gs[k].items)
                                  /\ \A j \in LiveAt(gs[k].items) : es[k].items[j].ver = gs[k].items[j].ver
         /\ \A k \in LiveAt(gs) : \A i \in LivePos(es[k]) : Addr(es[k], i) >= brk
         /\ (\A k \in DOMAIN gs : ~gs[k].del) =>
               \A k \in LiveAt(gs) : /\ es[k].addr + size.group <= end
                                     /\ \A j \in LiveAt(es[k].items) : es[k].items[j].addr + size.item <= end
<1> DEFINE es == Relocate(gs, size, brk)
           K == LiveAt(gs)
           N == Len(gs)
           S(k) == LiveAt(gs[k].items)
           G == size.group
           I == size.item
           R(k) == RankIn(K, k)
           n(k, j) == Cardinality(UpTo(gs, k, j))
           M == Cardinality(LiveItemsAt(gs))
           GA(k) == brk + (R(k) - 1) * G
           IA(k, j) == brk + N * G + (n(k, j) - 1) * I
           Moved(k) == [j \in DOMAIN gs[k].items |->
                          IF gs[k].items[j].del THEN gs[k].items[j]
                          ELSE [gs[k].items[j] EXCEPT !.addr = IA(k, j), !.dirty = TRUE]]
<1>1. /\ N \in Nat /\ DOMAIN gs = 1 .. N /\ K \in SUBSET (1 .. N) /\ List(gs)
      /\ \A k \in 1 .. N : GroupIs(m, gs[k]) /\ List(gs[k].items)
      /\ G \in Nat /\ G # 0 /\ I \in Nat /\ I # 0 /\ brk \in Nat /\ brk # 0
  BY ListIs DEF LiveAt, Listed, GroupIs
<1>2. /\ es = [k \in 1 .. N |-> es[k]] /\ DOMAIN es = 1 .. N
      /\ \A k \in 1 .. N : gs[k].del => es[k] = gs[k]
      /\ \A k \in 1 .. N : ~gs[k].del =>
            es[k] = [gs[k] EXCEPT !.addr = GA(k), !.dirty = TRUE, !.items = Moved(k)]
  BY <1>1 DEF Relocate, Rank, UpTo
<1> HIDE DEF es
<1>3. ASSUME NEW k \in K PROVE k \in 1 .. N /\ ~gs[k].del
  BY <1>1 DEF LiveAt
<1>4. ASSUME NEW k \in 1 .. N
      PROVE  /\ Len(gs[k].items) \in Nat /\ DOMAIN gs[k].items = 1 .. Len(gs[k].items)
             /\ List(Moved(k)) /\ DOMAIN Moved(k) = DOMAIN gs[k].items /\ Len(Moved(k)) = Len(gs[k].items)
             /\ LiveAt(Moved(k)) = S(k)
             /\ \A j \in DOMAIN gs[k].items :
                   /\ ItemFields \subseteq DOMAIN Moved(k)[j] /\ Moved(k)[j].ver = gs[k].items[j].ver
                   /\ Moved(k)[j].idx = gs[k].items[j].idx /\ Moved(k)[j].del = gs[k].items[j].del
             /\ \A j \in S(k) : Moved(k)[j].addr = IA(k, j) /\ Moved(k)[j].dirty
  <2> DEFINE s == gs[k].items
             t == Moved(k)
             L == Len(s)
  <2>1. L \in Nat /\ DOMAIN s = 1 .. L /\ \A j \in 1 .. L : ItemFields \subseteq DOMAIN s[j]
    BY <1>1, ListIs DEF GroupIs, ItemIs
  <2> HIDE DEF IA
  <2>2. /\ t = [j \in 1 .. L |-> t[j]] /\ DOMAIN t = 1 .. L
        /\ \A j \in 1 .. L : t[j] = IF s[j].del THEN s[j] ELSE [s[j] EXCEPT !.addr = IA(k, j), !.dirty = TRUE]
    BY <2>1
  <2> HIDE DEF t
  <2>3. List(t) /\ Len(t) = L
    <3> HIDE DEF L
    <3> QED BY <2>1, <2>2, ListMade
  <2>4. \A j \in 1 .. L : /\ ItemFields \subseteq DOMAIN t[j] /\ t[j].ver = s[j].ver
                          /\ t[j].idx = s[j].idx /\ t[j].del = s[j].del
                          /\ ~s[j].del => t[j].addr = IA(k, j) /\ t[j].dirty
    BY <2>1, <2>2 DEF ItemFields
  <2>5. LiveAt(t) = S(k)
    BY <2>1, <2>2, <2>4 DEF LiveAt
  <2>6. \A j \in S(k) : j \in 1 .. L /\ ~s[j].del
    BY <2>1 DEF LiveAt
  <2> QED BY <2>1, <2>2, <2>3, <2>4, <2>5, <2>6 DEF t
<1> HIDE DEF Moved
<1>5. ASSUME NEW k \in K
      PROVE  LET e == es[k]
                 g == gs[k] IN
             /\ GroupFields \subseteq DOMAIN e /\ e.lib = g.lib /\ ~e.del /\ e.dirty /\ e.addr = GA(k) /\ e.items = Moved(k)
  <2>1. GroupFields \subseteq DOMAIN gs[k]
    BY <1>1, <1>3 DEF GroupIs
  <2>2. es[k] = [gs[k] EXCEPT !.addr = GA(k), !.dirty = TRUE, !.items = Moved(k)] /\ ~gs[k].del
    BY <1>2, <1>3
  <2> HIDE DEF GA
  <2> QED BY <2>1, <2>2 DEF GroupFields
<1>6. List(es) /\ Len(es) = N
  BY <1>1, <1>2, ListMade
<1>7. LiveAt(es) = K
  <2>1. \A k \in 1 .. N : es[k].del <=> gs[k].del
    <3>1. ASSUME NEW k \in 1 .. N, ~gs[k].del PROVE ~es[k].del
      BY <1>1, <3>1, <1>5 DEF LiveAt
    <3> QED BY <1>2, <3>1
  <2> QED BY <1>1, <1>2, <2>1 DEF LiveAt
<1>8. Groups(es)
  <2>1. ASSUME NEW k \in 1 .. N
        PROVE  /\ GroupFields \subseteq DOMAIN es[k] /\ List(es[k].items)
               /\ \A j \in DOMAIN es[k].items : ItemFields \subseteq DOMAIN es[k].items[j]
    <3>1. CASE gs[k].del
      BY <1>1, <1>2, <3>1 DEF GroupIs, ItemIs
    <3>2. CASE ~gs[k].del
      <4>1. k \in K
        BY <1>1, <3>2 DEF LiveAt
      <4> QED BY <1>4, <1>5, <4>1
    <3> QED BY <3>1, <3>2
  <2> QED BY <1>2, <1>6, <2>1 DEF Groups
<1>9. /\ \A k \in K : R(k) \in 1 .. Cardinality(K)
      /\ \A k, l \in K : R(k) = R(l) => k = l
      /\ Cardinality(K) \in Nat /\ Cardinality(K) <= N
  <2>1. \A k \in K : R(k) \in 1 .. Cardinality(K) /\ Nth(K, R(k)) = k
    BY <1>1, RankIs, NthIs
  <2>2. Cardinality(K) \in Nat
    BY <1>1, RankIs
  <2>3. Cardinality(K) <= N
    <3>1. IsFiniteSet(1 .. N) /\ Cardinality(1 .. N) = N
      <4>1. N \in Nat
        BY <1>1
      <4> HIDE DEF N
      <4>2. IsFiniteSet(1 .. N)
        BY <4>1, FS_Interval
      <4>3. Cardinality(1 .. N) = N
        BY <4>1, FS_Interval
      <4> QED BY <4>2, <4>3
    <3>2. Cardinality(K) <= Cardinality(1 .. N)
      BY <1>1, <3>1, FS_Subset
    <3> QED BY <3>1, <3>2
  <2> HIDE DEF R
  <2> QED BY <2>1, <2>2, <2>3
<1>10. /\ M \in Nat
       /\ \A k \in K : \A j \in S(k) :
             n(k, j) \in 1 .. M /\ \A l \in K : \A i \in S(l) : n(k, j) = n(l, i) => k = l /\ j = i
  BY <1>1, ItemsCounted
<1> HIDE DEF n, M, K, S, R, G, I
<1>11. ASSUME NEW k \in K
       PROVE  /\ GA(k) \in Nat /\ GA(k) >= brk /\ GA(k) + G <= brk + Cardinality(K) * G
              /\ GA(k) + G <= brk + N * G
              /\ Cardinality(K) * G \in Nat /\ N * G \in Nat
  <2> DEFINE r == R(k)
             c == Cardinality(K)
  <2>1. r \in Nat /\ r # 0 /\ r <= c /\ c \in Nat /\ c <= N
    BY <1>9
  <2> HIDE DEF r, c
  <2>2. r - 1 \in Nat /\ (r - 1) * G + G = r * G /\ (r - 1) * G \in Nat
    BY <1>1, <2>1, Times
  <2>3. r * G <= c * G /\ c * G <= N * G /\ r * G \in Nat /\ c * G \in Nat /\ N * G \in Nat
    BY <1>1, <2>1, Times
  <2> DEFINE x == (r - 1) * G
             y == r * G
             z == c * G
             u == N * G
  <2>4. x \in Nat /\ x + G = y /\ y <= z /\ z <= u /\ y \in Nat /\ z \in Nat /\ u \in Nat
    BY <2>2, <2>3
  <2>5. GA(k) = brk + x
    BY DEF r
  <2> HIDE DEF x, y, z, u, GA
  <2>6. GA(k) \in Nat /\ GA(k) >= brk /\ GA(k) + G <= brk + z /\ GA(k) + G <= brk + u
    BY <1>1, <2>4, <2>5
  <2> QED BY <2>4, <2>6 DEF z, u, c
<1>12. ASSUME NEW k \in K, NEW j \in S(k)
       PROVE  /\ IA(k, j) \in Nat /\ IA(k, j) >= brk + N * G /\ IA(k, j) >= brk
              /\ IA(k, j) + I <= brk + N * G + M * I
              /\ N * G \in Nat /\ M * I \in Nat
  <2> DEFINE r == n(k, j)
             x == (r - 1) * I
             y == r * I
             z == M * I
             u == N * G
  <2>1. r \in Nat /\ r # 0 /\ r <= M /\ M \in Nat
    BY <1>10
  <2> HIDE DEF r
  <2>2. x \in Nat /\ x + I = y
    BY <1>1, <2>1, Times
  <2>3. y <= z /\ y \in Nat /\ z \in Nat /\ u \in Nat
    BY <1>1, <2>1, Times
  <2>4. IA(k, j) = brk + u + x
    BY DEF r
  <2> HIDE DEF x, y, z, u, IA
  <2>5. IA(k, j) \in Nat /\ IA(k, j) >= brk + u /\ IA(k, j) >= brk /\ IA(k, j) + I <= brk + u + z
    BY <1>1, <2>2, <2>3, <2>4
  <2> QED BY <2>3, <2>5 DEF z, u
<1>13. ASSUME NEW k \in K, NEW l \in K, GA(k) = GA(l) PROVE k = l
  <2> DEFINE r == R(k)
             q == R(l)
  <2>1. r \in Nat /\ r # 0 /\ q \in Nat /\ q # 0
    BY <1>9
  <2> HIDE DEF r, q
  <2>2. (r - 1) * G \in Nat /\ (q - 1) * G \in Nat /\ r - 1 \in Nat /\ q - 1 \in Nat
    BY <1>1, <2>1, Times
  <2>3. (r - 1) * G = (q - 1) * G
    <3> DEFINE x == (r - 1) * G
               y == (q - 1) * G
    <3>1. brk + x = brk + y
      BY <1>13 DEF r, q
    <3> HIDE DEF x, y
    <3>2. x \in Nat /\ y \in Nat
      BY <2>2 DEF x, y
    <3>3. x = y
      BY <1>1, <3>1, <3>2
    <3> QED BY <3>3 DEF x, y
  <2>4. r = q
    <3> DEFINE a == r - 1
               b == q - 1
    <3>1. a \in Nat /\ b \in Nat /\ a * G = b * G
      BY <2>2, <2>3
    <3> HIDE DEF a, b
    <3>2. (a < b => a * G + G <= b * G) /\ (b < a => b * G + G <= a * G) /\ a * G \in Nat
      BY <1>1, <3>1, Times
    <3>3. a = b
      BY <1>1, <3>1, <3>2
    <3> QED BY <2>1, <3>3 DEF a, b
  <2> QED BY <1>9, <2>4 DEF r, q
<1>14. ASSUME NEW k \in K, NEW j \in S(k), NEW l \in K, NEW i \in S(l), IA(k, j) = IA(l, i) PROVE k = l /\ j = i
  <2> DEFINE r == n(k, j)
             q == n(l, i)
             u == N * G
  <2>1. r \in Nat /\ r # 0 /\ q \in Nat /\ q # 0
    BY <1>10
  <2>2. u \in Nat
    BY <1>1, Times
  <2> HIDE DEF r, q, u
  <2>3. (r - 1) * I \in Nat /\ (q - 1) * I \in Nat /\ r - 1 \in Nat /\ q - 1 \in Nat
    BY <1>1, <2>1, Times
  <2>4. (r - 1) * I = (q - 1) * I
    <3> DEFINE x == (r - 1) * I
               y == (q - 1) * I
    <3>1. brk + u + x = brk + u + y
      BY <1>14 DEF r, q, u
    <3> HIDE DEF x, y
    <3>2. x \in Nat /\ y \in Nat
      BY <2>3 DEF x, y
    <3>3. x = y
      BY <1>1, <2>2, <3>1, <3>2
    <3> QED BY <3>3 DEF x, y
  <2>5. r = q
    <3> DEFINE a == r - 1
               b == q - 1
    <3>1. a \in Nat /\ b \in Nat /\ a * I = b * I
      BY <2>3, <2>4
    <3> HIDE DEF a, b
    <3>2. (a < b => a * I + I <= b * I) /\ (b < a => b * I + I <= a * I) /\ a * I \in Nat
      BY <1>1, <3>1, Times
    <3>3. a = b
      BY <1>1, <3>1, <3>2
    <3> QED BY <2>1, <3>3 DEF a, b
  <2> QED BY <1>10, <2>5 DEF r, q
<1>15. ASSUME NEW k \in K, NEW l \in K, NEW i \in S(l) PROVE GA(k) # IA(l, i)
  <2> DEFINE x == GA(k)
             y == IA(l, i)
             u == N * G
  <2>1. x \in Nat /\ x + G <= brk + u /\ y \in Nat /\ y >= brk + u /\ u \in Nat
    BY <1>11, <1>12
  <2> HIDE DEF x, y, u
  <2>2. x # y
    BY <1>1, <2>1
  <2> QED BY <2>2 DEF x, y
<1>16. ASSUME NEW k \in K, NEW i \in LivePos(es[k])
       PROVE  /\ i = 0 => Addr(es[k], i) = GA(k)
              /\ i # 0 => i \in S(k) /\ Addr(es[k], i) = IA(k, i)
  <2>1. LiveAt(es[k].items) = S(k)
    BY <1>3, <1>4, <1>5
  <2>2. i # 0 => i \in S(k)
    BY <2>1 DEF LivePos
  <2> HIDE DEF GA, IA
  <2> QED BY <1>3, <1>4, <1>5, <2>2 DEF Addr
<1> HIDE DEF GA, IA
<1>17. ASSUME NEW k \in K PROVE GroupPlaced(m, es[k])
  <2>1. GA(k) \in Nat \ {0}
    BY <1>1, <1>11
  <2>2. \A j \in S(k) : IA(k, j) \in Nat \ {0}
    BY <1>1, <1>12
  <2>3. \A j \in LiveAt(es[k].items) : ItemPlaced(m, es[k].lib, es[k].items[j])
    <3> SUFFICES ASSUME NEW j \in S(k) PROVE ItemPlaced(m, es[k].lib, Moved(k)[j])
      BY <1>3, <1>4, <1>5
    <3>1. j \in DOMAIN gs[k].items
      BY DEF S, LiveAt
    <3> QED BY <1>3, <1>4, <2>2, <3>1 DEF ItemPlaced
  <2>4. Heads(m, es[k]) /\ Links(m, es[k].items)
    BY <1>3, <1>4, <1>5 DEF Heads, Links
  <2>5. FirstOnly(es[k])
    <3>1. ASSUME gs[k].lib = None
          PROVE  Moved(k) # <<>> /\ \A j \in DOMAIN Moved(k) : ~Moved(k)[j].del /\ (j > 1 => Moved(k)[j].idx = 0)
      <4>1. gs[k].items # <<>> /\ \A j \in DOMAIN gs[k].items : ~gs[k].items[j].del /\ (j > 1 => gs[k].items[j].idx = 0)
        BY <1>1, <1>3, <3>1 DEF Defining, Defines
      <4>2. Len(gs[k].items) # 0
        BY <1>1, <1>3, <4>1, EmptySeq DEF List
      <4>3. Moved(k) # <<>>
        BY <1>3, <1>4, <4>2, EmptySeq
      <4> QED BY <1>3, <1>4, <4>1, <4>3
    <3> QED BY <1>5, <3>1 DEF FirstOnly
  <2> QED BY <1>5, <2>1, <2>3, <2>4, <2>5 DEF GroupPlaced
<1>18. \A k, l \in K : \A i \in LivePos(es[k]), j \in LivePos(es[l]) :
          Addr(es[k], i) = Addr(es[l], j) => k = l /\ i = j
  <2> SUFFICES ASSUME NEW k \in K, NEW l \in K, NEW i \in LivePos(es[k]), NEW j \in LivePos(es[l]),
                      Addr(es[k], i) = Addr(es[l], j)
               PROVE  k = l /\ i = j
    OBVIOUS
  <2>1. CASE i = 0 /\ j = 0
    BY <1>13, <1>16, <2>1
  <2>2. CASE i = 0 /\ j # 0
    BY <1>15, <1>16, <2>2
  <2>3. CASE i # 0 /\ j = 0
    BY <1>15, <1>16, <2>3
  <2>4. CASE i # 0 /\ j # 0
    BY <1>14, <1>16, <2>4
  <2> QED BY <2>1, <2>2, <2>3, <2>4
<1>19. Ensured(m, es)
  BY <1>5, <1>7, <1>8, <1>17, <1>18 DEF Links, Ensured
<1>20. \A k \in K : \A i \in LivePos(es[k]) : Addr(es[k], i) >= brk
  BY <1>11, <1>12, <1>16
<1>21. ASSUME \A k \in DOMAIN gs : ~gs[k].del, NEW k \in K
       PROVE  /\ es[k].addr + G <= brk + Required(gs, size)
              /\ \A j \in LiveAt(es[k].items) : es[k].items[j].addr + I <= brk + Required(gs, size)
  <2> DEFINE c == Cardinality(K)
             z == M * I
             u == N * G
             a == GA(k)
  <2>1. c = N
    <3>1. K = 1 .. N
      BY <1>1, <1>21 DEF K, LiveAt
    <3>2. Cardinality(1 .. N) = N
      <4>1. N \in Nat
        BY <1>1
      <4> HIDE DEF N
      <4> QED BY <4>1, FS_Interval
    <3> QED BY <3>1, <3>2
  <2>2. Required(gs, size) = u + z
    BY <2>1 DEF Required, K, M, G, I
  <2>3. u \in Nat /\ z \in Nat
    BY <1>1, <1>10, Times
  <2>4. a \in Nat /\ a + G <= brk + u
    BY <1>11
  <2>5. \A j \in S(k) : IA(k, j) \in Nat /\ IA(k, j) + I <= brk + u + z
    BY <1>12
  <2> HIDE DEF u, z, a
  <2>6. a + G <= brk + Required(gs, size)
    BY <1>1, <2>2, <2>3, <2>4
  <2>7. \A j \in S(k) : IA(k, j) + I <= brk + Required(gs, size)
    <3> SUFFICES ASSUME NEW j \in S(k) PROVE IA(k, j) + I <= brk + Required(gs, size)
      OBVIOUS
    <3> DEFINE b == IA(k, j)
    <3>1. b \in Nat /\ b + I <= brk + u + z
      BY <2>5
    <3> HIDE DEF b
    <3>2. b + I <= brk + (u + z)
      BY <1>1, <2>3, <3>1
    <3> QED BY <2>2, <3>2 DEF b
  <2>8. es[k].addr = a
    BY <1>5 DEF a
  <2>9. \A j \in LiveAt(es[k].items) : j \in S(k) /\ es[k].items[j].addr = IA(k, j)
    BY <1>3, <1>4, <1>5
  <2> QED BY <2>6, <2>7, <2>8, <2>9
<1>22. \A k \in K : /\ es[k].lib = gs[k].lib /\ LiveAt(es[k].items) = S(k)
                    /\ \A j \in S(k) : es[k].items[j].ver = gs[k].items[j].ver
  BY <1>3, <1>4, <1>5 DEF S, LiveAt
<1>23. Required(gs, size) \in Nat
  <2>1. Cardinality(K) * G \in Nat /\ M * I \in Nat
    BY <1>1, <1>9, <1>10, Times
  <2> QED BY <2>1 DEF Required, K, M, G, I
<1> QED BY <1>7, <1>19, <1>20, <1>21, <1>22, <1>23 DEF es, K, S, G, I

-----------------------------------------------------------------------------
(* Writing.                                                                 *)

\* A list has finitely many addresses.
LEMMA AddrsFinite == ASSUME NEW gs, Groups(gs) PROVE IsFiniteSet(AddrsOf(gs))
<1> DEFINE A(k) == {Addr(gs[k], i) : i \in Pos(gs[k])}
           F == {A(k) : k \in DOMAIN gs}
           N == Len(gs)
<1>1. N \in Nat /\ DOMAIN gs = 1 .. N
  BY ListIs DEF Groups
<1>2. ASSUME NEW k \in DOMAIN gs PROVE IsFiniteSet(A(k))
  <2> DEFINE P == Pos(gs[k])
             T == A(k)
             f == [i \in P |-> Addr(gs[k], i)]
  <2>1. IsFiniteSet(P)
    <3>1. List(gs[k].items)
      BY DEF Groups
    <3>2. Len(gs[k].items) \in Nat
      BY <3>1, ListIs
    <3> QED BY <3>2, FS_Interval DEF Pos
  <2>2. f \in Surjection(P, T)
    BY DEF Surjection
  <2> HIDE DEF P, T, f
  <2>3. IsFiniteSet(T)
    BY <2>1, <2>2, FS_Surjection
  <2> QED BY <2>3 DEF T
<1> HIDE DEF A
<1>3. IsFiniteSet(F)
  <2> DEFINE D == DOMAIN gs
             f == [k \in D |-> A(k)]
  <2>1. IsFiniteSet(D)
    BY <1>1, FS_Interval
  <2>2. f \in Surjection(D, F)
    BY DEF Surjection
  <2> HIDE DEF D, f, F
  <2> QED BY <2>1, <2>2, FS_Surjection
<1>4. \A T \in F : IsFiniteSet(T)
  BY <1>2
<1>5. AddrsOf(gs) = UNION F
  BY DEF AddrsOf, A
<1> HIDE DEF F
<1> QED BY <1>3, <1>4, <1>5, FS_UNION

\* What is dirty is written, where nothing else of the list is.
LEMMA WrittenIs ==
  ASSUME NEW m, NEW gs, Whole(m, gs)
  PROVE  LET w == Write(m, gs) IN
         /\ InFile(w, gs)
         /\ DOMAIN m \in SUBSET (DOMAIN w) /\ DOMAIN w \in SUBSET (DOMAIN m \cup AddrsOf(gs))
         /\ \A a \in DOMAIN m : a \notin AddrsOf(gs) => w[a] = m[a]
<1> DEFINE w == Write(m, gs)
           aux(k) == IF gs[k].items = <<>> THEN 0 ELSE gs[k].items[1].addr
           idx(k) == IF gs[k].items = <<>> THEN 0 ELSE gs[k].items[1].idx
           GC(k) == [addr |-> gs[k].addr, lib |-> gs[k].lib, next |-> Next1(gs, k), aux |-> aux(k), idx |-> idx(k)]
           IC(k, j) == [addr |-> gs[k].items[j].addr, ver |-> gs[k].items[j].ver, next |-> Next1(gs[k].items, j),
                        idx |-> gs[k].items[j].idx, weak |-> gs[k].items[j].weak]
           cells == GroupCells(gs) \cup UNION {ItemCells(g.items) : g \in Range(gs)}
           At(a) == CHOOSE c \in cells : c.addr = a
           addrs == {c.addr : c \in cells}
<1>1. /\ w = [a \in DOMAIN m \cup addrs |-> IF a \in addrs THEN At(a) ELSE m[a]]
      /\ DOMAIN w = DOMAIN m \cup addrs /\ \A a \in DOMAIN m : a \notin addrs => w[a] = m[a]
      /\ \A a \in addrs : w[a] = At(a)
  <2>1. w = [a \in DOMAIN m \cup addrs |-> IF a \in addrs THEN At(a) ELSE m[a]]
    BY DEF Write
  <2> HIDE DEF w, addrs, At
  <2> QED BY <2>1
<1>2. /\ Shaped(gs) /\ \A k \in DOMAIN gs : List(gs[k].items)
      /\ \A k \in DOMAIN gs : Len(gs[k].items) \in Nat /\ DOMAIN gs[k].items = 1 .. Len(gs[k].items)
  BY ListIs DEF Whole, Shaped, Groups
<1>3. \A c : c \in cells <=> \/ \E k \in DOMAIN gs : gs[k].dirty /\ c = GC(k)
                             \/ \E k \in DOMAIN gs : \E j \in DOMAIN gs[k].items : gs[k].items[j].dirty /\ c = IC(k, j)
  <2>1. \A c : c \in GroupCells(gs) <=> \E k \in DOMAIN gs : gs[k].dirty /\ c = GC(k)
    BY DEF GroupCells
  <2>2. \A c : \A k \in DOMAIN gs : c \in ItemCells(gs[k].items) <=> \E j \in DOMAIN gs[k].items : gs[k].items[j].dirty /\ c = IC(k, j)
    BY DEF ItemCells
  <2>3. \A c : c \in UNION {ItemCells(g.items) : g \in Range(gs)} <=> \E k \in DOMAIN gs : c \in ItemCells(gs[k].items)
    BY DEF Range
  <2> HIDE DEF GC, IC
  <2> QED BY <2>1, <2>2, <2>3
<1>4. /\ \A k \in DOMAIN gs : GC(k).addr = Addr(gs[k], 0) /\ 0 \in Pos(gs[k])
      /\ \A k \in DOMAIN gs : \A j \in DOMAIN gs[k].items : /\ IC(k, j).addr = Addr(gs[k], j)
                                                            /\ j \in Pos(gs[k]) /\ j # 0
  <2>1. \A k \in DOMAIN gs : 0 \in Pos(gs[k]) /\ \A j \in DOMAIN gs[k].items : j \in Pos(gs[k]) /\ j # 0
    BY <1>2 DEF Pos
  <2>2. \A k : GC(k).addr = gs[k].addr
    OBVIOUS
  <2>3. \A k, j : IC(k, j).addr = gs[k].items[j].addr
    OBVIOUS
  <2> HIDE DEF GC, IC
  <2> QED BY <2>1, <2>2, <2>3 DEF Addr
<1> HIDE DEF w, cells
<1>5. \A k, l \in DOMAIN gs : \A i \in Pos(gs[k]), j \in Pos(gs[l]) : Addr(gs[k], i) = Addr(gs[l], j) => k = l /\ i = j
  BY <1>2 DEF Shaped, Apart
<1>6. ASSUME NEW k \in DOMAIN gs, gs[k].dirty PROVE gs[k].addr \in addrs /\ At(gs[k].addr) = GC(k)
  <2> HIDE DEF GC, IC
  <2>1. GC(k) \in cells /\ GC(k).addr = gs[k].addr
    BY <1>3, <1>4, <1>6 DEF Addr
  <2>2. ASSUME NEW c \in cells, c.addr = gs[k].addr PROVE c = GC(k)
    <3>1. gs[k].addr = Addr(gs[k], 0)
      BY DEF Addr
    <3>2. CASE \E l \in DOMAIN gs : gs[l].dirty /\ c = GC(l)
      BY <1>4, <1>5, <2>2, <3>1, <3>2
    <3>3. CASE \E l \in DOMAIN gs : \E j \in DOMAIN gs[l].items : gs[l].items[j].dirty /\ c = IC(l, j)
      BY <1>4, <1>5, <2>2, <3>1, <3>3
    <3> QED BY <1>3, <3>2, <3>3
  <2> QED BY <2>1, <2>2
<1>7. ASSUME NEW k \in DOMAIN gs, NEW j \in DOMAIN gs[k].items, gs[k].items[j].dirty
      PROVE  gs[k].items[j].addr \in addrs /\ At(gs[k].items[j].addr) = IC(k, j)
  <2> HIDE DEF GC, IC
  <2> DEFINE a == gs[k].items[j].addr
  <2>0. a = Addr(gs[k], j) /\ j \in Pos(gs[k]) /\ j # 0
    BY <1>4 DEF Addr
  <2>1. IC(k, j) \in cells /\ IC(k, j).addr = a
    BY <1>3, <1>4, <1>7, <2>0
  <2> HIDE DEF a
  <2>2. ASSUME NEW c \in cells, c.addr = a PROVE c = IC(k, j)
    <3>1. CASE \E l \in DOMAIN gs : gs[l].dirty /\ c = GC(l)
      BY <1>4, <1>5, <2>0, <2>2, <3>1
    <3>2. CASE \E l \in DOMAIN gs : \E i \in DOMAIN gs[l].items : gs[l].items[i].dirty /\ c = IC(l, i)
      BY <1>4, <1>5, <2>0, <2>2, <3>2
    <3> QED BY <1>3, <3>1, <3>2
  <2> QED BY <2>1, <2>2 DEF a
<1>8. ASSUME NEW k \in DOMAIN gs, NEW i \in Pos(gs[k]), IF i = 0 THEN ~gs[k].dirty ELSE ~gs[k].items[i].dirty
      PROVE  Addr(gs[k], i) \notin addrs
  <2> HIDE DEF GC, IC
  <2> SUFFICES ASSUME NEW c \in cells, c.addr = Addr(gs[k], i) PROVE FALSE
    OBVIOUS
  <2>1. CASE \E l \in DOMAIN gs : gs[l].dirty /\ c = GC(l)
    BY <1>4, <1>5, <1>8, <2>1
  <2>2. CASE \E l \in DOMAIN gs : \E j \in DOMAIN gs[l].items : gs[l].items[j].dirty /\ c = IC(l, j)
    BY <1>4, <1>5, <1>8, <2>2
  <2> QED BY <1>3, <2>1, <2>2
<1>9. addrs \in SUBSET AddrsOf(gs)
  <2> HIDE DEF GC, IC
  <2> SUFFICES ASSUME NEW c \in cells PROVE c.addr \in AddrsOf(gs)
    OBVIOUS
  <2>1. \E k \in DOMAIN gs : \E i \in Pos(gs[k]) : c.addr = Addr(gs[k], i)
    BY <1>3, <1>4
  <2> QED BY <2>1 DEF AddrsOf
<1> HIDE DEF addrs, At
<1>10. ASSUME NEW k \in DOMAIN gs PROVE GroupAgrees(w, gs, k)
  <2>1. CASE gs[k].dirty
    <3>1. gs[k].addr \in DOMAIN w /\ w[gs[k].addr] = GC(k)
      BY <1>1, <1>6, <2>1
    <3>2. gs[k].lib = None => gs[k].items # <<>>
      BY <1>2 DEF Shaped, FirstOnly
    <3> QED BY <3>1, <3>2 DEF GroupAgrees
  <2>2. CASE ~gs[k].dirty
    BY <2>2, <1>4, <1>8, <1>1 DEF Whole, Addr, GroupAgrees
  <2> QED BY <2>1, <2>2
<1>11. ASSUME NEW k \in DOMAIN gs, NEW j \in DOMAIN gs[k].items PROVE ItemAgrees(w, gs[k], j)
  <2> DEFINE i == gs[k].items[j]
  <2>1. CASE i.dirty
    <3>1. i.addr \in DOMAIN w /\ w[i.addr] = IC(k, j)
      BY <1>1, <1>7, <2>1
    <3> QED BY <3>1 DEF ItemAgrees
  <2>2. CASE ~i.dirty
    BY <2>2, <1>4, <1>8, <1>1 DEF Whole, Addr, ItemAgrees
  <2> QED BY <2>1, <2>2
<1>12. InFile(w, gs)
  BY <1>2, <1>10, <1>11 DEF InFile
<1>13. /\ DOMAIN m \in SUBSET (DOMAIN w) /\ DOMAIN w \in SUBSET (DOMAIN m \cup AddrsOf(gs))
       /\ \A a \in DOMAIN m : a \notin AddrsOf(gs) => w[a] = m[a]
  BY <1>1, <1>9
<1> QED BY <1>12, <1>13 DEF w

\* Elsewhere in the file other things may change.
LEMMA InFileKept ==
  ASSUME NEW m, NEW w, NEW gs, InFile(m, gs), DOMAIN m \in SUBSET (DOMAIN w),
         \A a \in DOMAIN m : a \in AddrsOf(gs) => w[a] = m[a]
  PROVE  InFile(w, gs)
<1>1. \A k \in DOMAIN gs : Len(gs[k].items) \in Nat /\ DOMAIN gs[k].items = 1 .. Len(gs[k].items)
  BY ListIs DEF InFile, Shaped, Groups
<1>2. ASSUME NEW k \in DOMAIN gs PROVE GroupAgrees(w, gs, k)
  <2>1. 0 \in Pos(gs[k]) /\ Addr(gs[k], 0) = gs[k].addr
    BY <1>1 DEF Pos, Addr
  <2>2. gs[k].addr \in AddrsOf(gs)
    BY <2>1 DEF AddrsOf
  <2>3. GroupAgrees(m, gs, k)
    BY DEF InFile
  <2>4. gs[k].addr \in DOMAIN w /\ w[gs[k].addr] = m[gs[k].addr]
    BY <2>2, <2>3 DEF GroupAgrees
  <2> QED BY <2>3, <2>4 DEF GroupAgrees
<1>3. ASSUME NEW k \in DOMAIN gs, NEW j \in DOMAIN gs[k].items PROVE ItemAgrees(w, gs[k], j)
  <2> DEFINE a == gs[k].items[j].addr
  <2>1. j \in Pos(gs[k]) /\ Addr(gs[k], j) = a
    BY <1>1 DEF Pos, Addr
  <2>2. a \in AddrsOf(gs)
    BY <2>1 DEF AddrsOf
  <2>3. ItemAgrees(m, gs[k], j)
    BY DEF InFile
  <2>4. a \in DOMAIN w /\ w[a] = m[a]
    BY <2>2, <2>3 DEF ItemAgrees
  <2> QED BY <2>3, <2>4 DEF ItemAgrees
<1> QED BY <1>2, <1>3 DEF InFile

\* Writing elsewhere leaves a list as it is in the file.
LEMMA WholeKept ==
  ASSUME NEW m, NEW w, NEW gs, Whole(m, gs), DOMAIN m \in SUBSET (DOMAIN w),
         \A a \in DOMAIN m : a \in AddrsOf(gs) => w[a] = m[a]
  PROVE  Whole(w, gs)
<1>1. \A k \in DOMAIN gs : Len(gs[k].items) \in Nat /\ DOMAIN gs[k].items = 1 .. Len(gs[k].items)
  BY ListIs DEF Whole, Shaped, Groups
<1>2. ASSUME NEW k \in DOMAIN gs PROVE gs[k].dirty \/ GroupAgrees(w, gs, k)
  <2> SUFFICES ASSUME ~gs[k].dirty PROVE GroupAgrees(w, gs, k)
    OBVIOUS
  <2>1. 0 \in Pos(gs[k]) /\ Addr(gs[k], 0) = gs[k].addr
    BY <1>1 DEF Pos, Addr
  <2>2. gs[k].addr \in AddrsOf(gs)
    BY <2>1 DEF AddrsOf
  <2>3. GroupAgrees(m, gs, k)
    BY DEF Whole
  <2>4. gs[k].addr \in DOMAIN w /\ w[gs[k].addr] = m[gs[k].addr]
    BY <2>2, <2>3 DEF GroupAgrees
  <2> QED BY <2>3, <2>4 DEF GroupAgrees
<1>3. ASSUME NEW k \in DOMAIN gs, NEW j \in DOMAIN gs[k].items
      PROVE  gs[k].items[j].dirty \/ ItemAgrees(w, gs[k], j)
  <2> SUFFICES ASSUME ~gs[k].items[j].dirty PROVE ItemAgrees(w, gs[k], j)
    OBVIOUS
  <2> DEFINE a == gs[k].items[j].addr
  <2>1. j \in Pos(gs[k]) /\ Addr(gs[k], j) = a
    BY <1>1 DEF Pos, Addr
  <2>2. a \in AddrsOf(gs)
    BY <2>1 DEF AddrsOf
  <2>3. ItemAgrees(m, gs[k], j)
    BY DEF Whole
  <2>4. a \in DOMAIN w /\ w[a] = m[a]
    BY <2>2, <2>3 DEF ItemAgrees
  <2> QED BY <2>3, <2>4 DEF ItemAgrees
<1> QED BY <1>2, <1>3 DEF Whole

-----------------------------------------------------------------------------
(* Induction, as a fact about sets.                                         *)

\* A set of natural numbers has a least one.
LEMMA LeastBelow ==
  ASSUME NEW n \in Nat, NEW S \in SUBSET (0..n), S # {}
  PROVE  \E m \in S : \A k \in S : m <= k
<1> DEFINE F == {S \cap 0..k : k \in S}
           R == StrictSubsetOrdering(0..n)
<1>1. IsFiniteSet(0..n)
  BY FS_Interval
<1>2. IsWellFoundedOn(R, FiniteSubsetsOf(0..n))
  BY <1>1, FS_StrictSubsetOrderingWellFounded
<1>3. F \subseteq FiniteSubsetsOf(0..n) /\ F # {}
  <2>1. \A k \in S : S \cap 0..k \in SUBSET (0..n)
    OBVIOUS
  <2>2. \A x \in SUBSET (0..n) : IsFiniteSet(x)
    BY <1>1, FS_Subset
  <2>3. \A k \in S : S \cap 0..k \in FiniteSubsetsOf(0..n)
    BY <2>1, <2>2 DEF FiniteSubsetsOf
  <2> QED BY <2>3
<1>4. PICK x \in F : \A y \in F : <<y, x>> \notin R
  <2> HIDE DEF F, R
  <2> QED BY <1>2, <1>3, WFMin
<1>5. PICK m \in S : x = S \cap 0..m
  OBVIOUS
<1>6. ASSUME NEW k \in S, k < m PROVE FALSE
  <2>1. S \cap 0..k \in F
    OBVIOUS
  <2>2. S \cap 0..k \subseteq S \cap 0..m /\ m \in S \cap 0..m /\ m \notin 0..k
    BY <1>6
  <2>3. <<S \cap 0..k, x>> \in R
    BY <2>1, <2>2, <1>5, <1>3, <1>1 DEF StrictSubsetOrdering
  <2> QED BY <2>1, <2>3, <1>4
<1> QED BY <1>6

\* A set of natural numbers has a least one, if it is not empty.
LEMMA Least ==
  ASSUME NEW S \in SUBSET Nat, S # {}
  PROVE  \E m \in S : \A k \in S : m <= k
<1>1. PICK n \in S : TRUE
  OBVIOUS
<1>2. S \cap 0..n \in SUBSET (0..n) /\ S \cap 0..n # {}
  BY <1>1
<1>3. PICK m \in S \cap 0..n : \A k \in S \cap 0..n : m <= k
  BY <1>1, <1>2, LeastBelow
<1> QED BY <1>1, <1>3

\* Induction up to n, as a fact about sets.
LEMMA Upwards ==
  ASSUME NEW n \in Nat, NEW S \in SUBSET (0..n), 0 \in S,
         \A i \in 0..(n - 1) : i \in S => i + 1 \in S
  PROVE  S = 0..n
<1> SUFFICES ASSUME (0..n) \ S # {} PROVE FALSE
  OBVIOUS
<1>1. (0..n) \ S \in SUBSET Nat
  OBVIOUS
<1>2. PICK m \in (0..n) \ S : \A k \in (0..n) \ S : m <= k
  BY <1>1, Least
<1>3. m - 1 \in 0..(n - 1) /\ m - 1 \in S
  BY <1>2
<1> QED BY <1>2, <1>3

-----------------------------------------------------------------------------
(* Reading.                                                                 *)

\* The steps along a list.
LEMMA ChainSteps ==
  ASSUME NEW m, IsFiniteSet(DOMAIN m), NEW head
  PROVE  \E F : /\ F[0] = head
                /\ \A o \in 1 .. Cardinality(DOMAIN m) : F[o] = IF F[o - 1] = 0 THEN 0 ELSE m[F[o - 1]].next
                /\ ChainAt(m, head) = Chained(m, F)
<1> DEFINE N == Cardinality(DOMAIN m)
           St(x, o) == IF x = 0 THEN 0 ELSE m[x].next
           Def(f, n) == f = [o \in 0 .. n |-> IF o = 0 THEN head ELSE St(f[o - 1], o)]
           F == CHOOSE f : Def(f, N)
<1>1. N \in Nat
  BY FS_CardinalityType
<1>2. ChainAt(m, head) = Chained(m, F)
  BY DEF ChainAt, Chained
<1> HIDE DEF St
<1>3. \E f : Def(f, N)
  <2> DEFINE S == {n \in 0 .. N : \E f : Def(f, n)}
  <2>1. 0 \in S
    <3> DEFINE f == [o \in 0 .. 0 |-> head]
    <3>1. \A o \in 0 .. 0 : f[o] = IF o = 0 THEN head ELSE St(f[o - 1], o)
      OBVIOUS
    <3>2. f = [o \in 0 .. 0 |-> f[o]]
      OBVIOUS
    <3> HIDE DEF f
    <3>3. Def(f, 0)
      BY <3>1, <3>2, Zenon
    <3> QED BY <1>1, <3>3
  <2>2. ASSUME NEW n \in 0 .. (N - 1), n \in S PROVE n + 1 \in S
    <3>1. PICK f : Def(f, n)
      BY <2>2
    <3> DEFINE g == [o \in 0 .. (n + 1) |-> IF o <= n THEN f[o] ELSE St(f[n], n + 1)]
    <3>2. \A o \in 0 .. n : f[o] = IF o = 0 THEN head ELSE St(f[o - 1], o)
      <4> DEFINE V(o) == IF o = 0 THEN head ELSE St(f[o - 1], o)
      <4>1. f = [o \in 0 .. n |-> V(o)]
        BY <3>1, Zenon
      <4> HIDE DEF V, Def
      <4>2. \A o \in 0 .. n : f[o] = V(o)
        BY <4>1, Zenon
      <4> QED BY <4>2 DEF V
    <3>3. \A o \in 0 .. n : g[o] = f[o]
      OBVIOUS
    <3>4. g[n + 1] = St(f[n], n + 1)
      OBVIOUS
    <3>5. g = [o \in 0 .. (n + 1) |-> g[o]]
      OBVIOUS
    <3> HIDE DEF g, Def
    <3>6. ASSUME NEW o \in 0 .. (n + 1)
          PROVE  g[o] = IF o = 0 THEN head ELSE St(g[o - 1], o)
      <4>1. CASE o = n + 1
        BY <4>1, <3>3, <3>4
      <4>2. CASE o # n + 1
        <5>1. o \in 0 .. n
          BY <4>2
        <5>2. g[o] = f[o] /\ f[o] = IF o = 0 THEN head ELSE St(f[o - 1], o)
          BY <3>2, <3>3, <5>1
        <5>3. CASE o = 0
          BY <5>2, <5>3
        <5>4. CASE o # 0
          BY <5>1, <5>4, <3>3, <5>2
        <5> QED BY <5>3, <5>4
      <4> QED BY <4>1, <4>2
    <3>7. Def(g, n + 1)
      BY <3>5, <3>6, Zenon DEF Def
    <3>8. n + 1 \in 0 .. N
      BY <1>1
    <3> QED BY <3>7, <3>8
  <2>3. S \in SUBSET (0 .. N)
    OBVIOUS
  <2> HIDE DEF S
  <2>4. S = 0 .. N
    BY <1>1, <2>1, <2>2, <2>3, Upwards
  <2>5. N \in S
    BY <1>1, <2>4
  <2> QED BY <2>5 DEF S
<1>4. Def(F, N)
  <2> HIDE DEF Def
  <2> QED BY <1>3
<1> HIDE DEF F
<1>5. \A o \in 0 .. N : F[o] = IF o = 0 THEN head ELSE St(F[o - 1], o)
  <2> DEFINE V(o) == IF o = 0 THEN head ELSE St(F[o - 1], o)
  <2>1. F = [o \in 0 .. N |-> V(o)]
    BY <1>4, Zenon
  <2> HIDE DEF V, Def, N
  <2>2. \A o \in 0 .. N : F[o] = V(o)
    BY <2>1, Zenon
  <2> QED BY <2>2 DEF V
<1> HIDE DEF Def
<1>6. F[0] = head
  BY <1>1, <1>5
<1>7. \A o \in 1 .. N : F[o] = St(F[o - 1], o)
  BY <1>1, <1>5
<1> DEFINE Good(G) == /\ G[0] = head
                      /\ \A o \in 1 .. Cardinality(DOMAIN m) : G[o] = IF G[o - 1] = 0 THEN 0 ELSE m[G[o - 1]].next
                      /\ ChainAt(m, head) = Chained(m, G)
<1>8. Good(F)
  BY <1>2, <1>6, <1>7 DEF St
<1> HIDE DEF Good
<1>9. \E G : Good(G)
  BY <1>8
<1> QED BY <1>9, Zenon DEF Good

\* A list in the file is read from its head on.
LEMMA ChainIs ==
  ASSUME NEW m, IsFiniteSet(DOMAIN m), NEW s, List(s),
         \A k \in DOMAIN s : s[k].addr \in DOMAIN m /\ s[k].addr # 0 /\ m[s[k].addr].next = Next1(s, k),
         \A j, k \in DOMAIN s : s[j].addr = s[k].addr => j = k,
         NEW head, head = IF s = <<>> THEN 0 ELSE s[1].addr
  PROVE  /\ DOMAIN ChainAt(m, head) = DOMAIN s /\ Len(ChainAt(m, head)) = Len(s)
         /\ \A k \in DOMAIN s : ChainAt(m, head)[k] = s[k].addr
<1> DEFINE N == Cardinality(DOMAIN m)
           L == Len(s)
           Entry(n) == IF n < L THEN s[n + 1].addr ELSE 0
<1>1. N \in Nat /\ L \in Nat /\ DOMAIN s = 1 .. L
  BY FS_CardinalityType, ListIs
<1>2. L <= N
  <2> DEFINE D == DOMAIN m
             C == 1 .. L
             f == [k \in C |-> s[k].addr]
  <2>1. f \in Injection(C, D)
    BY <1>1 DEF Injection, IsInjective
  <2>2. IsFiniteSet(C) /\ Cardinality(C) = L
    <3>1. L \in Nat
      BY <1>1
    <3> HIDE DEF L
    <3>2. IsFiniteSet(C)
      BY <3>1, FS_Interval
    <3>3. Cardinality(C) = L
      BY <3>1, FS_Interval
    <3> QED BY <3>2, <3>3
  <2>3. IsFiniteSet(D)
    OBVIOUS
  <2> HIDE DEF f, C, D
  <2>4. Cardinality(C) <= Cardinality(D)
    BY <2>1, <2>3, FS_Injection
  <2> QED BY <2>2, <2>4 DEF D
<1>3. PICK F : /\ F[0] = head
               /\ \A o \in 1 .. N : F[o] = IF F[o - 1] = 0 THEN 0 ELSE m[F[o - 1]].next
               /\ ChainAt(m, head) = Chained(m, F)
  BY ChainSteps
<1> DEFINE T == {n \in 0 .. N : F[n] = Entry(n)}
<1>4. 0 \in T
  <2>1. 0 \in 0 .. N
    BY <1>1
  <2>2. CASE s = <<>>
    BY <2>2, EmptySeq, <1>3, <2>1
  <2>3. CASE s # <<>>
    BY <2>3, EmptySeq, <1>1, <1>3, <2>1 DEF List
  <2> QED BY <2>2, <2>3
<1>5. ASSUME NEW n \in 0 .. (N - 1), n \in T PROVE n + 1 \in T
  <2> DEFINE p == n + 1
  <2>1. p \in 1 .. N /\ p \in 0 .. N /\ p - 1 = n /\ n \in Nat
    BY <1>1
  <2>2. F[p] = IF F[n] = 0 THEN 0 ELSE m[F[n]].next
    <3> HIDE DEF p
    <3> QED BY <1>3, <2>1
  <2>3. F[n] = Entry(n)
    BY <1>5
  <2>4. CASE n < L
    <3>1. p \in 1 .. L
      BY <1>1, <2>1, <2>4
    <3>2. F[n] = s[p].addr
      BY <2>3, <2>4
    <3> HIDE DEF p
    <3>3. F[n] # 0 /\ m[F[n]].next = Next1(s, p)
      BY <1>1, <3>1, <3>2
    <3>4. F[p] = Entry(p)
      BY <2>2, <3>3 DEF Next1
    <3> QED BY <2>1, <3>4 DEF p
  <2>5. CASE ~(n < L)
    <3>1. ~(p < L)
      BY <1>1, <2>1, <2>5
    <3> HIDE DEF p
    <3>2. F[n] = 0
      BY <2>3, <2>5
    <3>3. F[p] = Entry(p)
      BY <2>2, <3>1, <3>2
    <3> QED BY <2>1, <3>3 DEF p
  <2> QED BY <2>4, <2>5
<1>6. T = 0 .. N
  <2>1. T \in SUBSET (0 .. N)
    OBVIOUS
  <2> HIDE DEF T, N
  <2> QED BY <1>1, <1>4, <1>5, <2>1, Upwards
<1>7. \A n \in 0 .. N : F[n] = Entry(n)
  BY <1>6
<1>8. {n \in 0 .. N - 1 : F[n] # 0} = 0 .. L - 1
  <2>1. ASSUME NEW n \in 0 .. N - 1 PROVE F[n] # 0 <=> n < L
    <3>1. n \in 0 .. N
      BY <1>1
    <3>2. F[n] = Entry(n)
      BY <1>7, <3>1
    <3>3. ASSUME n < L PROVE s[n + 1].addr # 0
      <4> DEFINE p == n + 1
      <4>1. p \in 1 .. L
        BY <1>1, <3>1, <3>3
      <4> HIDE DEF p
      <4>2. s[p].addr # 0
        BY <1>1, <4>1
      <4> QED BY <4>2 DEF p
    <3> QED BY <3>2, <3>3
  <2>2. \A n : n \in 0 .. L - 1 <=> n \in 0 .. N - 1 /\ n < L
    <3> HIDE DEF L, N
    <3> QED BY <1>1, <1>2
  <2> QED BY <2>1, <2>2
<1>9. Cardinality(0 .. L - 1) = L
  <2>1. L \in Nat
    BY <1>1
  <2> HIDE DEF L
  <2>2. 0 \in Int /\ L - 1 \in Int
    BY <2>1
  <2>3. Cardinality(0 .. L - 1) = IF 0 > L - 1 THEN 0 ELSE L - 1 - 0 + 1
    BY <2>2, FS_Interval
  <2> QED BY <2>1, <2>3
<1>10. ChainAt(m, head) = [k \in 1 .. L |-> F[k - 1]]
  BY <1>3, <1>8, <1>9 DEF Chained
<1>11. ASSUME NEW k \in 1 .. L PROVE F[k - 1] = s[k].addr
  <2> DEFINE n == k - 1
  <2>1. n \in 0 .. N /\ n < L /\ n + 1 = k
    BY <1>1, <1>2
  <2> HIDE DEF n
  <2>2. F[n] = s[k].addr
    BY <1>7, <2>1
  <2> QED BY <2>2 DEF n
<1> DEFINE c == ChainAt(m, head)
<1>12. c = [k \in 1 .. L |-> c[k]] /\ \A k \in 1 .. L : c[k] = s[k].addr
  BY <1>10, <1>11
<1> HIDE DEF c, L
<1>13. Len(c) = L /\ DOMAIN c = 1 .. L
  BY <1>1, <1>12, ListMade
<1> QED BY <1>1, <1>12, <1>13 DEF c, L

\* What is read is what was written.
LEMMA ReadBack ==
  ASSUME NEW m, IsFiniteSet(DOMAIN m), NEW gs, InFile(m, gs)
  PROVE  LET fs == ListAt(m, HeadOf(gs)) IN
         /\ DOMAIN fs = DOMAIN gs
         /\ \A k \in DOMAIN gs :
               /\ fs[k].lib = gs[k].lib /\ DOMAIN fs[k].items = DOMAIN gs[k].items
               /\ \A j \in DOMAIN gs[k].items :
                     /\ fs[k].items[j].ver = gs[k].items[j].ver /\ fs[k].items[j].idx = gs[k].items[j].idx
                     /\ fs[k].items[j].weak = gs[k].items[j].weak
<1> DEFINE fs == ListAt(m, HeadOf(gs))
           c == ChainAt(m, HeadOf(gs))
           d(g) == ChainAt(m, m[g].aux)
           IndexAt(g, a) == IF m[g].lib # None THEN m[a].idx ELSE IF m[g].aux = a THEN m[g].idx ELSE 0
           Item(g, a) == [id |-> a, ver |-> m[a].ver, idx |-> IndexAt(g, a), weak |-> m[a].weak,
                          addr |-> a, dirty |-> FALSE, del |-> FALSE, unref |-> FALSE]
           Group(g) == [lib |-> m[g].lib, addr |-> g, dirty |-> FALSE, del |-> FALSE,
                        items |-> [j \in DOMAIN d(g) |-> Item(g, d(g)[j])]]
<1>1. fs = [k \in DOMAIN c |-> Group(c[k])]
  BY DEF ListAt, Map
<1>2. /\ List(gs) /\ \A k \in DOMAIN gs : List(gs[k].items)
      /\ \A k \in DOMAIN gs : Len(gs[k].items) \in Nat /\ DOMAIN gs[k].items = 1 .. Len(gs[k].items)
      /\ \A k, l \in DOMAIN gs : \A i \in Pos(gs[k]), j \in Pos(gs[l]) : Addr(gs[k], i) = Addr(gs[l], j) => k = l /\ i = j
      /\ \A k \in DOMAIN gs : FirstOnly(gs[k]) /\ \A i \in Pos(gs[k]) : Addr(gs[k], i) \in Nat \ {0}
  <2>1. List(gs) /\ (\A k \in DOMAIN gs : List(gs[k].items)) /\ Apart(gs)
    BY DEF InFile, Shaped, Groups
  <2>2. \A k \in DOMAIN gs : FirstOnly(gs[k]) /\ \A i \in Pos(gs[k]) : Addr(gs[k], i) \in Nat \ {0}
    BY DEF InFile, Shaped
  <2>3. \A k, l \in DOMAIN gs : \A i \in Pos(gs[k]), j \in Pos(gs[l]) : Addr(gs[k], i) = Addr(gs[l], j) => k = l /\ i = j
    BY <2>1, <2>2 DEF Apart
  <2>4. \A k \in DOMAIN gs : Len(gs[k].items) \in Nat /\ DOMAIN gs[k].items = 1 .. Len(gs[k].items)
    BY <2>1, ListIs
  <2> QED BY <2>1, <2>2, <2>3, <2>4
<1>3. /\ \A k \in DOMAIN gs : Addr(gs[k], 0) = gs[k].addr /\ 0 \in Pos(gs[k])
      /\ \A k \in DOMAIN gs : \A j \in DOMAIN gs[k].items : Addr(gs[k], j) = gs[k].items[j].addr /\ j \in Pos(gs[k])
  BY <1>2 DEF Addr, Pos
<1>4. DOMAIN c = DOMAIN gs /\ \A k \in DOMAIN gs : c[k] = gs[k].addr
  <2>1. \A k \in DOMAIN gs : gs[k].addr \in DOMAIN m /\ gs[k].addr # 0 /\ m[gs[k].addr].next = Next1(gs, k)
    BY <1>2, <1>3 DEF InFile, GroupAgrees
  <2>2. \A j, k \in DOMAIN gs : gs[j].addr = gs[k].addr => j = k
    BY <1>2, <1>3
  <2> DEFINE head == HeadOf(gs)
  <2>3. head = IF gs = <<>> THEN 0 ELSE gs[1].addr
    BY DEF HeadOf
  <2> HIDE DEF head
  <2>4. DOMAIN ChainAt(m, head) = DOMAIN gs /\ \A k \in DOMAIN gs : ChainAt(m, head)[k] = gs[k].addr
    BY <1>2, <2>1, <2>2, <2>3, ChainIs
  <2> QED BY <2>4 DEF head
<1>5. ASSUME NEW k \in DOMAIN gs
      PROVE  /\ DOMAIN d(gs[k].addr) = DOMAIN gs[k].items
             /\ \A j \in DOMAIN gs[k].items : d(gs[k].addr)[j] = gs[k].items[j].addr
  <2> DEFINE s == gs[k].items
             head == m[gs[k].addr].aux
  <2>1. \A j \in DOMAIN s : s[j].addr \in DOMAIN m /\ s[j].addr # 0 /\ m[s[j].addr].next = Next1(s, j)
    BY <1>2, <1>3 DEF InFile, ItemAgrees
  <2>2. \A i, j \in DOMAIN s : s[i].addr = s[j].addr => i = j
    BY <1>2, <1>3
  <2>3. head = IF s = <<>> THEN 0 ELSE s[1].addr
    BY DEF InFile, GroupAgrees
  <2>4. List(s)
    BY <1>2
  <2> HIDE DEF head, s
  <2>5. DOMAIN ChainAt(m, head) = DOMAIN s /\ \A j \in DOMAIN s : ChainAt(m, head)[j] = s[j].addr
    BY <2>1, <2>2, <2>3, <2>4, ChainIs
  <2> QED BY <2>5 DEF head, s
<1> HIDE DEF c, d
<1>6. ASSUME NEW k \in DOMAIN gs
      PROVE  LET g == gs[k] IN
             /\ k \in DOMAIN fs /\ fs[k].lib = m[g.addr].lib /\ DOMAIN fs[k].items = DOMAIN g.items
             /\ \A j \in DOMAIN g.items :
                   /\ fs[k].items[j].ver = m[g.items[j].addr].ver
                   /\ fs[k].items[j].weak = m[g.items[j].addr].weak
                   /\ fs[k].items[j].idx = IndexAt(g.addr, g.items[j].addr)
  <2> HIDE DEF fs
  <2>1. k \in DOMAIN fs /\ fs[k] = Group(gs[k].addr)
    BY <1>1, <1>4
  <2>2. fs[k].lib = m[gs[k].addr].lib /\ fs[k].items = [j \in DOMAIN gs[k].items |-> Item(gs[k].addr, gs[k].items[j].addr)]
    <3> HIDE DEF Item
    <3>1. fs[k].lib = m[gs[k].addr].lib
      BY <2>1
    <3>2. fs[k].items = [j \in DOMAIN d(gs[k].addr) |-> Item(gs[k].addr, d(gs[k].addr)[j])]
      BY <2>1
    <3> QED BY <1>5, <3>1, <3>2
  <2> HIDE DEF IndexAt
  <2>3. DOMAIN fs[k].items = DOMAIN gs[k].items
    BY <2>2
  <2>4. \A j \in DOMAIN gs[k].items : fs[k].items[j] = Item(gs[k].addr, gs[k].items[j].addr)
    BY <2>2
  <2>5. \A g, a : /\ Item(g, a).ver = m[a].ver /\ Item(g, a).weak = m[a].weak /\ Item(g, a).idx = IndexAt(g, a)
    OBVIOUS
  <2> HIDE DEF Item
  <2>6. \A j \in DOMAIN gs[k].items :
           /\ fs[k].items[j].ver = m[gs[k].items[j].addr].ver
           /\ fs[k].items[j].weak = m[gs[k].items[j].addr].weak
           /\ fs[k].items[j].idx = IndexAt(gs[k].addr, gs[k].items[j].addr)
    BY <2>4, <2>5
  <2>7. fs[k].lib = m[gs[k].addr].lib
    BY <2>2
  <2> QED BY <2>1, <2>3, <2>6, <2>7
<1>7. DOMAIN fs = DOMAIN gs
  BY <1>1, <1>4
<1> HIDE DEF fs
<1>8. ASSUME NEW k \in DOMAIN gs, NEW j \in DOMAIN gs[k].items
      PROVE  IndexAt(gs[k].addr, gs[k].items[j].addr) = gs[k].items[j].idx
  <2> DEFINE g == gs[k]
             i == g.items[j]
  <2>1. GroupAgrees(m, gs, k) /\ ItemAgrees(m, g, j) /\ FirstOnly(g)
    BY <1>2 DEF InFile
  <2>2. CASE g.lib # None
    BY <2>1, <2>2 DEF GroupAgrees, ItemAgrees
  <2>3. CASE g.lib = None
    <3>1. /\ m[g.addr].lib = None /\ g.items # <<>> /\ m[g.addr].aux = g.items[1].addr
          /\ m[g.addr].idx = g.items[1].idx /\ (j > 1 => i.idx = 0)
      BY <2>1, <2>3 DEF GroupAgrees, FirstOnly
    <3>2. 1 \in DOMAIN g.items /\ j \in Nat /\ j >= 1
      BY <1>2, <3>1, EmptySeq DEF List
    <3>3. CASE j = 1
      BY <3>1, <3>3
    <3>4. CASE j # 1
      BY <3>2, <3>4, <1>2, <1>3, <3>1
    <3> QED BY <3>3, <3>4
  <2> QED BY <2>2, <2>3
<1> HIDE DEF IndexAt
<1>9. ASSUME NEW k \in DOMAIN gs
      PROVE  /\ fs[k].lib = gs[k].lib /\ DOMAIN fs[k].items = DOMAIN gs[k].items
             /\ \A j \in DOMAIN gs[k].items :
                   /\ fs[k].items[j].ver = gs[k].items[j].ver /\ fs[k].items[j].idx = gs[k].items[j].idx
                   /\ fs[k].items[j].weak = gs[k].items[j].weak
  BY <1>6, <1>8 DEF InFile, GroupAgrees, ItemAgrees
<1> QED BY <1>7, <1>9 DEF fs

\* So others see the list of the editor.
LEMMA SeenBack ==
  ASSUME NEW m, IsFiniteSet(DOMAIN m), NEW gs, InFile(m, gs)
  PROVE  /\ Seen(ListAt(m, HeadOf(gs))) = Seen(gs)
         /\ \A f : KnownIn(gs, f) => \E lib \in Libcs : <<lib, f>> \in NeedVersions(ListAt(m, HeadOf(gs)))
<1> DEFINE fs == ListAt(m, HeadOf(gs))
           SeenItem(i) == <<i.ver, i.idx, i.weak>>
           SeenItems(s) == [j \in DOMAIN s |-> SeenItem(s[j])]
           SeenGroup(g) == [lib |-> g.lib, items |-> SeenItems(g.items)]
<1>1. /\ DOMAIN fs = DOMAIN gs
      /\ \A k \in DOMAIN gs :
            /\ fs[k].lib = gs[k].lib /\ DOMAIN fs[k].items = DOMAIN gs[k].items
            /\ \A j \in DOMAIN gs[k].items :
                  /\ fs[k].items[j].ver = gs[k].items[j].ver /\ fs[k].items[j].idx = gs[k].items[j].idx
                  /\ fs[k].items[j].weak = gs[k].items[j].weak
  BY ReadBack
<1>2. \A x : Seen(x) = [k \in DOMAIN x |-> SeenGroup(x[k])]
  BY DEF Seen, Map
<1> HIDE DEF fs
<1>3. ASSUME NEW k \in DOMAIN gs PROVE SeenGroup(fs[k]) = SeenGroup(gs[k])
  <2> DEFINE s == fs[k].items
             t == gs[k].items
  <2>1. DOMAIN s = DOMAIN t /\ \A j \in DOMAIN t : SeenItem(s[j]) = SeenItem(t[j])
    BY <1>1
  <2> HIDE DEF SeenItem, s, t
  <2>2. SeenItems(s) = SeenItems(t)
    BY <2>1, Zenon
  <2> HIDE DEF SeenItems
  <2>3. SeenItems(fs[k].items) = SeenItems(gs[k].items)
    BY <2>2 DEF s, t
  <2> QED BY <1>1, <2>3
<1> HIDE DEF SeenGroup
<1>4. [k \in DOMAIN fs |-> SeenGroup(fs[k])] = [k \in DOMAIN gs |-> SeenGroup(gs[k])]
  BY <1>1, <1>3, Zenon
<1>5. Seen(fs) = Seen(gs)
  BY <1>2, <1>4
<1>6. ASSUME NEW f, KnownIn(gs, f) PROVE \E lib \in Libcs : <<lib, f>> \in NeedVersions(fs)
  <2>1. PICK k \in DOMAIN gs : gs[k].lib \in Libcs /\ \E j \in DOMAIN gs[k].items : gs[k].items[j].ver = f
    BY <1>6 DEF KnownIn
  <2>2. PICK j \in DOMAIN gs[k].items : gs[k].items[j].ver = f
    BY <2>1
  <2>3. fs[k] \in Range(fs) /\ fs[k].items[j] \in Range(fs[k].items) /\ fs[k].items[j].ver = f /\ fs[k].lib = gs[k].lib
    BY <1>1, <2>2 DEF Range
  <2>4. <<fs[k].lib, f>> \in NeedVersions(fs)
    BY <2>3 DEF NeedVersions
  <2> QED BY <2>1, <2>3, <2>4
<1> QED BY <1>5, <1>6 DEF fs

-----------------------------------------------------------------------------
(* Both lists are written.                                                  *)

\* Nothing in the file is behind its last address.
LEMMA LastCellIs ==
  ASSUME NEW m, Memory(m)
  PROVE  LastCell(m) \in Nat /\ \A a \in DOMAIN m : a <= LastCell(m)
<1> DEFINE D == DOMAIN m
           S == D \cup {0}
           Over == {c \in Nat : \A a \in S : a <= c}
<1>1. IsFiniteSet(D) /\ D \in SUBSET Nat
  BY DEF Memory
<1>2. PICK n \in Nat : ExistsBijection(1 .. n, D)
  BY <1>1, FS_NatBijection
<1>3. PICK f : f \in Bijection(1 .. n, D)
  BY <1>2 DEF ExistsBijection
<1>4. \A a \in D : \E i \in 1 .. n : f[i] = a
  BY <1>3 DEF Bijection, Surjection
<1>5. \A i \in 1 .. n : f[i] \in Nat
  BY <1>1, <1>3 DEF Bijection, Injection
<1> HIDE DEF D
<1> DEFINE T == {k \in 0 .. n : \E b \in Nat : \A i \in 1 .. k : f[i] <= b}
<1>6. 0 \in T
  OBVIOUS
<1>7. ASSUME NEW k \in 0 .. (n - 1), k \in T PROVE k + 1 \in T
  <2> DEFINE p == k + 1
  <2>1. PICK b \in Nat : \A i \in 1 .. k : f[i] <= b
    BY <1>7
  <2>2. p \in 0 .. n /\ p \in 1 .. n /\ \A i \in 1 .. p : i = p \/ i \in 1 .. k
    OBVIOUS
  <2> HIDE DEF p
  <2>3. f[p] \in Nat /\ \A i \in 1 .. k : f[i] \in Nat
    BY <1>7, <1>5, <2>2
  <2> DEFINE c == b + f[p]
  <2>4. c \in Nat /\ b <= c /\ f[p] <= c
    BY <2>1, <2>3
  <2> HIDE DEF c
  <2>5. \A i \in 1 .. p : f[i] <= c
    BY <2>1, <2>2, <2>3, <2>4
  <2>6. p \in T
    BY <2>2, <2>4, <2>5
  <2> QED BY <2>6 DEF p
<1>8. T = 0 .. n
  <2>1. T \in SUBSET (0 .. n)
    OBVIOUS
  <2> HIDE DEF T
  <2> QED BY <1>2, <1>6, <1>7, <2>1, Upwards
<1>9. PICK b \in Nat : \A i \in 1 .. n : f[i] <= b
  BY <1>8
<1>10. b \in Over
  BY <1>4, <1>9
<1> HIDE DEF T
<1>11. PICK c \in Over : \A e \in Over : c <= e
  <2>1. Over \in SUBSET Nat /\ Over # {}
    BY <1>10
  <2> HIDE DEF Over
  <2> QED BY <2>1, Least
<1>12. c \in S
  <2> SUFFICES ASSUME c \notin S PROVE FALSE
    OBVIOUS
  <2>1. c \in Nat /\ c # 0 /\ \A a \in S : a \in Nat /\ a <= c /\ a # c
    BY <1>1, <1>11
  <2> DEFINE e == c - 1
  <2>2. e \in Nat /\ ~(c <= e)
    BY <2>1
  <2>3. \A a \in S : a <= e
    <3> HIDE DEF S
    <3> QED BY <2>1
  <2> HIDE DEF e
  <2>4. e \in Over
    BY <2>2, <2>3
  <2> QED BY <1>11, <2>2, <2>4
<1>13. \A a \in S : c >= a /\ a \in Nat
  BY <1>1, <1>11
<1> DEFINE x == Max(S)
<1>14. x \in S /\ \A a \in S : x >= a
  <2> HIDE DEF S
  <2> QED BY <1>12, <1>13 DEF Max
<1>15. LastCell(m) = x
  BY DEF LastCell, D
<1> HIDE DEF x
<1>16. x \in Nat /\ \A a \in D : a \in Nat /\ x >= a
  BY <1>1, <1>14
<1>17. \A a \in D : a <= x
  BY <1>16
<1> QED BY <1>15, <1>16, <1>17 DEF D

\* A list in which nothing has been changed is in the file.
LEMMA CleanWhole ==
  ASSUME NEW m, NEW head, NEW gs, Listed(m, head, gs), Defining(m, gs), Clean(gs)
  PROVE  Whole(m, gs) /\ head = HeadOf(gs)
<1>1. /\ Len(gs) \in Nat /\ DOMAIN gs = 1 .. Len(gs) /\ List(gs) /\ Tied(m, head, gs)
      /\ \A k \in DOMAIN gs : GroupIs(m, gs[k])
      /\ \A k \in DOMAIN gs : List(gs[k].items)
      /\ \A k \in DOMAIN gs : Len(gs[k].items) \in Nat /\ DOMAIN gs[k].items = 1 .. Len(gs[k].items)
  BY ListIs DEF Listed, GroupIs
<1>2. /\ \A k \in DOMAIN gs : gs[k].addr \in Nat \ {0} /\ ~gs[k].dirty /\ ~gs[k].del
      /\ \A k \in DOMAIN gs : \A j \in DOMAIN gs[k].items :
            gs[k].items[j].addr \in Nat \ {0} /\ ~gs[k].items[j].dirty /\ ~gs[k].items[j].del
  BY <1>1 DEF Clean, GroupIs, ItemIs
<1>3. \A k \in DOMAIN gs : FirstOnly(gs[k])
  BY DEF Defining, Defines, FirstOnly
<1>4. Shaped(gs)
  <2>1. Groups(gs)
    BY <1>1 DEF Groups, GroupIs, ItemIs
  <2>2. \A k \in DOMAIN gs : \A i \in Pos(gs[k]) : Addr(gs[k], i) \in Nat \ {0}
    BY <1>1, <1>2 DEF Pos, Addr
  <2> QED BY <1>3, <2>1, <2>2 DEF Shaped, Listed
<1>5. LiveAt(gs) = DOMAIN gs /\ LiveAt(gs) \subseteq PlacedAt(gs)
  BY <1>2 DEF LiveAt, PlacedAt
<1>6. /\ Links(m, gs)
      /\ gs = <<>> => head = 0
      /\ gs # <<>> /\ ~gs[1].del => head = gs[1].addr
  BY <1>1, <1>5, DealtLinks
<1>7. head = HeadOf(gs)
  <2>1. ASSUME gs # <<>> PROVE ~gs[1].del
    BY <1>1, <2>1, EmptySeq, <1>2 DEF List
  <2> QED BY <1>6, <2>1 DEF HeadOf
<1>8. ASSUME NEW s, List(s), Links(m, s), \A k \in DOMAIN s : ~s[k].dirty /\ ~s[k].del, NEW k \in DOMAIN s
      PROVE  m[s[k].addr].next = Next1(s, k)
  <2>1. Len(s) \in Nat /\ DOMAIN s = 1 .. Len(s)
    BY <1>8, ListIs
  <2>2. k \in LiveAt(s)
    BY <1>8 DEF LiveAt
  <2>3. CASE k = Len(s)
    BY <2>1, <2>3, <1>8, <2>2 DEF Links, Next1
  <2>4. CASE k # Len(s)
    <3> DEFINE p == k + 1
    <3>1. k < Len(s) /\ p \in DOMAIN s
      BY <2>1, <2>4
    <3>2. ~s[p].dirty /\ p \in LiveAt(s)
      <4> HIDE DEF p
      <4> QED BY <1>8, <3>1 DEF LiveAt
    <3> QED BY <1>8, <2>2, <3>1, <3>2 DEF Links, Next1
  <2> QED BY <2>3, <2>4
<1>9. ASSUME NEW k \in DOMAIN gs
      PROVE  GroupAgrees(m, gs, k) /\ \A j \in DOMAIN gs[k].items : ItemAgrees(m, gs[k], j)
  <2> DEFINE g == gs[k]
             s == g.items
             aux == m[g.addr].aux
  <2>1. g.addr \in DOMAIN m /\ m[g.addr].lib = g.lib /\ Tied(m, aux, s) /\ List(s)
    BY <1>1, <1>2 DEF GroupIs
  <2>2. LiveAt(s) \subseteq PlacedAt(s)
    BY <1>2 DEF LiveAt, PlacedAt
  <2> HIDE DEF aux, s
  <2>3. /\ Links(m, s)
        /\ s = <<>> => aux = 0
        /\ s # <<>> /\ ~s[1].del => aux = s[1].addr
    BY <2>1, <2>2, DealtLinks
  <2>4. s # <<>> => 1 \in DOMAIN s
    BY <2>1, EmptySeq, <1>1 DEF List, s
  <2>5. aux = IF s = <<>> THEN 0 ELSE s[1].addr
    BY <1>2, <2>3, <2>4 DEF s
  <2>6. m[g.addr].next = Next1(gs, k)
    BY <1>1, <1>2, <1>6, <1>8
  <2>7. g.lib = None => m[g.addr].idx = s[1].idx
    BY <1>2 DEF Defining, Defines, s
  <2>8. GroupAgrees(m, gs, k)
    BY <2>1, <2>5, <2>6, <2>7 DEF GroupAgrees, aux, s
  <2>9. ASSUME NEW j \in DOMAIN s PROVE ItemAgrees(m, g, j)
    BY <1>1, <1>2, <1>8, <2>1, <2>3 DEF GroupIs, s, ItemAgrees, ItemIs
  <2> QED BY <2>8, <2>9 DEF s
<1>10. Whole(m, gs)
  BY <1>4, <1>9 DEF Whole
<1> QED BY <1>7, <1>10

\* What vers_flush makes of a list which it writes.
LEMMA FlushedList ==
  ASSUME NEW m, NEW head, NEW gs, Listed(m, head, gs), Defining(m, gs), NEW size,
         size.group \in Nat \ {0}, size.item \in Nat \ {0}, NEW brk \in Nat \ {0}
  PROVE  LET es == Erase(EnsureVaddrs(gs, size, brk)) IN
         /\ Whole(m, es) /\ Required(gs, size) \in Nat
         /\ \A a \in AddrsOf(es) : /\ a \in Nat \ {0}
                                   /\ \/ a \in AddrsOf(gs)
                                      \/ /\ ~InPlace(gs) /\ a >= brk
                                         /\ (Overran(gs, size, brk) \/ a < brk + Required(gs, size))
         /\ Overran(gs, size, brk) => \E k \in DOMAIN gs : gs[k].del
         /\ Survive(es, gs)
<1> DEFINE rs == Relocate(gs, size, brk)
           us == EnsureVaddrs(gs, size, brk)
           es == Erase(us)
           end == brk + Required(gs, size)
           G == size.group
           I == size.item
<1>0. G \in Nat /\ G # 0 /\ I \in Nat /\ I # 0 /\ brk \in Nat
  OBVIOUS
<1>1. /\ Ensured(m, rs) /\ Required(gs, size) \in Nat
      /\ LiveAt(rs) = LiveAt(gs)
      /\ \A k \in LiveAt(gs) : /\ rs[k].lib = gs[k].lib /\ LiveAt(rs[k].items) = LiveAt(gs[k].items)
                               /\ \A j \in LiveAt(gs[k].items) : rs[k].items[j].ver = gs[k].items[j].ver
      /\ \A k \in LiveAt(gs) : \A i \in LivePos(rs[k]) : Addr(rs[k], i) >= brk
      /\ (\A k \in DOMAIN gs : ~gs[k].del) =>
            \A k \in LiveAt(gs) : /\ rs[k].addr + G <= end
                                  /\ \A j \in LiveAt(rs[k].items) : rs[k].items[j].addr + I <= end
  BY Relocated, ZenonT(40)
<1>2. InPlace(gs) =>
      /\ Ensured(m, us)
      /\ \A k \in LiveAt(us) : \A i \in LivePos(us[k]) :
            \E l \in DOMAIN gs : \E j \in Pos(gs[l]) : Addr(us[k], i) = Addr(gs[l], j)
      /\ LiveAt(us) = LiveAt(gs)
      /\ \A k \in LiveAt(gs) : /\ us[k].lib = gs[k].lib /\ LiveAt(us[k].items) = LiveAt(gs[k].items)
                               /\ \A j \in LiveAt(gs[k].items) : us[k].items[j].ver = gs[k].items[j].ver
  BY EnsuredInPlace
<1>3. ~InPlace(gs) => us = rs
  BY DEF EnsureVaddrs
<1> HIDE DEF rs, us
<1>4. /\ Ensured(m, us) /\ LiveAt(us) = LiveAt(gs)
      /\ \A k \in LiveAt(gs) : /\ us[k].lib = gs[k].lib /\ LiveAt(us[k].items) = LiveAt(gs[k].items)
                               /\ \A j \in LiveAt(gs[k].items) : us[k].items[j].ver = gs[k].items[j].ver
  BY <1>1, <1>2, <1>3
<1>5. Whole(m, es) /\ PlacedAs(es, us) /\ Survive(es, us)
  BY <1>4, ErasedWhole
<1> HIDE DEF es
<1>6. /\ \A k \in DOMAIN es : List(es[k].items) /\ Len(es[k].items) \in Nat
                              /\ DOMAIN es[k].items = 1 .. Len(es[k].items)
      /\ \A k \in DOMAIN es : \A i \in Pos(es[k]) : Addr(es[k], i) \in Nat \ {0}
  BY <1>5, ListIs DEF Whole, Shaped, Groups
<1>7. ASSUME NEW a \in AddrsOf(es)
      PROVE  /\ a \in Nat \ {0}
             /\ \/ a \in AddrsOf(gs)
                \/ /\ ~InPlace(gs) /\ a >= brk
                   /\ (Overran(gs, size, brk) \/ a < end)
  <2>1. PICK k \in DOMAIN es : \E i \in Pos(es[k]) : a = Addr(es[k], i)
    BY DEF AddrsOf
  <2>2. PICK i \in Pos(es[k]) : a = Addr(es[k], i)
    BY <2>1
  <2>3. a \in Nat \ {0}
    BY <1>6, <2>2
  <2>4. PICK l \in LiveAt(us) : \E j \in LivePos(us[l]) : a = Addr(us[l], j)
    BY <1>5, <2>2 DEF PlacedAs
  <2>5. PICK j \in LivePos(us[l]) : a = Addr(us[l], j)
    BY <2>4
  <2>6. CASE InPlace(gs)
    BY <1>2, <2>4, <2>5, <2>6, <2>3 DEF AddrsOf
  <2>7. CASE ~InPlace(gs)
    <3>1. a >= brk
      BY <1>1, <1>3, <2>4, <2>5, <2>7
    <3>2. ASSUME ~Overran(gs, size, brk) PROVE a < end
      <4>1. \A g \in Range(es) : /\ ~(g.addr + G > end)
                                 /\ \A x \in Range(g.items) : ~(x.addr + I > end)
        BY <1>3, <2>7, <3>2 DEF Overran, es, rs
      <4>2. es[k] \in Range(es)
        BY DEF Range
      <4>3. end \in Nat
        BY <1>0, <1>1
      <4>4. CASE i = 0
        <5>1. ~(a + G > end)
          BY <2>2, <4>1, <4>2, <4>4 DEF Addr
        <5> HIDE DEF end, G, I
        <5> QED BY <1>0, <2>3, <4>3, <5>1
      <4>5. CASE i # 0
        <5>1. i \in DOMAIN es[k].items
          BY <1>6, <4>5 DEF Pos
        <5>2. es[k].items[i] \in Range(es[k].items) /\ es[k].items[i].addr = a
          BY <2>2, <4>5, <5>1 DEF Range, Addr
        <5>3. ~(a + I > end)
          BY <4>1, <4>2, <5>2
        <5> HIDE DEF end, G, I
        <5> QED BY <1>0, <2>3, <4>3, <5>3
      <4> QED BY <4>4, <4>5
    <3> QED BY <2>3, <2>7, <3>1, <3>2
  <2> QED BY <2>6, <2>7
<1>8. ASSUME \A k \in DOMAIN gs : ~gs[k].del PROVE ~Overran(gs, size, brk)
  <2> SUFFICES ASSUME ~InPlace(gs)
               PROVE  \A g \in Range(Erase(rs)) : /\ ~(g.addr + G > end)
                                                  /\ \A x \in Range(g.items) : ~(x.addr + I > end)
    BY DEF Overran, rs
  <2>1. us = rs /\ es = Erase(rs)
    BY <1>3 DEF es
  <2>2. \A l \in LiveAt(us) : \A j \in LivePos(us[l]) : Addr(us[l], j) + (IF j = 0 THEN G ELSE I) <= end
    BY <1>1, <1>8, <2>1 DEF Addr, LivePos
  <2>3. end \in Nat
    BY <1>0, <1>1
  <2> SUFFICES ASSUME NEW k \in DOMAIN es
               PROVE  /\ ~(es[k].addr + G > end)
                      /\ \A i \in DOMAIN es[k].items : ~(es[k].items[i].addr + I > end)
    BY <2>1 DEF Range
  <2> HIDE DEF end, G, I
  <2>4. ASSUME NEW i \in Pos(es[k]) PROVE ~(Addr(es[k], i) + (IF i = 0 THEN G ELSE I) > end)
    <3>1. PICK l \in LiveAt(us) : \E j \in LivePos(us[l]) : Addr(es[k], i) = Addr(us[l], j) /\ (i = 0 <=> j = 0)
      BY <1>5 DEF PlacedAs
    <3>2. PICK j \in LivePos(us[l]) : Addr(es[k], i) = Addr(us[l], j) /\ (i = 0 <=> j = 0)
      BY <3>1
    <3>3. Addr(es[k], i) + (IF i = 0 THEN G ELSE I) <= end
      BY <2>2, <3>2
    <3>4. Addr(es[k], i) \in Nat
      BY <1>6
    <3> QED BY <1>0, <2>3, <3>3, <3>4
  <2>5. 0 \in Pos(es[k]) /\ \A i \in DOMAIN es[k].items : i \in Pos(es[k]) /\ i # 0
    BY <1>6 DEF Pos
  <2> QED BY <2>4, <2>5 DEF Addr
<1>9. Survive(es, gs)
  BY <1>4, <1>5 DEF Survive
<1> QED BY <1>1, <1>5, <1>7, <1>8, <1>9 DEF es, us

\* Both lists are in the file once both have been written, as they are in different
\* places.
LEMMA TwoWritten ==
  ASSUME NEW m, Memory(m), NEW ds, NEW ns, Whole(m, ds), Whole(m, ns),
         AddrsOf(ds) \cap AddrsOf(ns) = {}
  PROVE  LET w == Write(Write(m, ds), ns) IN
         IsFiniteSet(DOMAIN w) /\ InFile(w, ds) /\ InFile(w, ns)
<1> DEFINE u == Write(m, ds)
           w == Write(u, ns)
<1>1. /\ InFile(u, ds) /\ DOMAIN m \in SUBSET (DOMAIN u) /\ DOMAIN u \in SUBSET (DOMAIN m \cup AddrsOf(ds))
      /\ \A a \in DOMAIN m : a \notin AddrsOf(ds) => u[a] = m[a]
  BY WrittenIs
<1> HIDE DEF u
<1>2. \A a \in DOMAIN m : a \in AddrsOf(ns) => u[a] = m[a]
  BY <1>1
<1>3. Whole(u, ns)
  BY <1>1, <1>2, WholeKept
<1>4. /\ InFile(w, ns) /\ DOMAIN u \in SUBSET (DOMAIN w) /\ DOMAIN w \in SUBSET (DOMAIN u \cup AddrsOf(ns))
      /\ \A a \in DOMAIN u : a \notin AddrsOf(ns) => w[a] = u[a]
  BY <1>3, WrittenIs
<1> HIDE DEF w
<1>5. InFile(w, ds)
  BY <1>4, <1>1, InFileKept
<1>6. IsFiniteSet(DOMAIN w)
  BY AddrsFinite, FS_Union, <1>1, FS_Subset, <1>4 DEF Memory, Whole, Shaped
<1> QED BY <1>4, <1>5, <1>6 DEF w, u

\* What a list of the editor occupies in the file.
LEMMA ListedAddrs ==
  ASSUME NEW m, NEW head, NEW gs, Listed(m, head, gs)
  PROVE  \A a \in AddrsOf(gs) : a # 0 => a \in DOMAIN m
<1> SUFFICES ASSUME NEW k \in DOMAIN gs, NEW i \in Pos(gs[k]), Addr(gs[k], i) # 0
             PROVE  Addr(gs[k], i) \in DOMAIN m
  BY DEF AddrsOf
<1>1. GroupIs(m, gs[k])
  BY DEF Listed
<1>2. CASE i = 0
  BY <1>1, <1>2 DEF Addr, GroupIs
<1>3. CASE i # 0
  BY <1>1, <1>3, ListIs DEF GroupIs, Pos, Addr, ItemIs
<1> QED BY <1>2, <1>3

\* The definitions go to the first part of what is allocated, what is required to the
\* rest.
LEMMA LandApart ==
  ASSUME NEW m, Memory(m), NEW hd, NEW ds, Listed(m, hd, ds), NEW hn, NEW ns, Listed(m, hn, ns),
         Disjoint(ds, ns), NEW brk1 \in Nat, brk1 >= Brk(m), NEW es, NEW fs,
         \A a \in AddrsOf(es) : a \in Nat \ {0} /\ (a \in AddrsOf(ds) \/ (a >= Brk(m) /\ a < brk1)),
         \A a \in AddrsOf(fs) : a \in Nat \ {0} /\ (a \in AddrsOf(ns) \/ a >= brk1)
  PROVE  AddrsOf(es) \cap AddrsOf(fs) = {}
<1> SUFFICES ASSUME NEW a \in AddrsOf(es), a \in AddrsOf(fs) PROVE FALSE
  OBVIOUS
<1> DEFINE b == Brk(m)
<1>1. a \in Nat /\ a # 0
  OBVIOUS
<1>2. b \in Nat /\ b # 0 /\ \A c \in DOMAIN m : c < b
  <2>1. LastCell(m) \in Nat /\ \A c \in DOMAIN m : c <= LastCell(m) /\ c \in Nat
    BY LastCellIs DEF Memory
  <2> DEFINE l == LastCell(m)
  <2> HIDE DEF l
  <2>2. b = l + 10 /\ l \in Nat /\ \A c \in DOMAIN m : c <= l /\ c \in Nat
    BY <2>1 DEF l, Brk
  <2> HIDE DEF b
  <2> QED BY <2>2
<1>3. /\ a \in AddrsOf(ds) \/ (a >= b /\ a < brk1)
      /\ a \in AddrsOf(ns) \/ a >= brk1
      /\ brk1 >= b
  OBVIOUS
<1>4. /\ a \in AddrsOf(ds) => a < b
      /\ a \in AddrsOf(ns) => a < b
  BY <1>1, <1>2, ListedAddrs
<1>5. ~(a \in AddrsOf(ds) /\ a \in AddrsOf(ns))
  BY <1>1 DEF AddrsOf, Disjoint
<1> HIDE DEF b
<1> QED BY <1>1, <1>2, <1>3, <1>4, <1>5

-----------------------------------------------------------------------------
(* Marking: the groups and the items stay where they are.                   *)

\* Lists which are alike have the same addresses at the same positions.
LEMMA LikePos ==
  ASSUME NEW gs, NEW hs, Like(gs, hs), \A k \in DOMAIN gs : List(gs[k].items)
  PROVE  /\ \A k \in DOMAIN gs : Pos(hs[k]) = Pos(gs[k]) /\ Len(hs[k].items) = Len(gs[k].items)
         /\ \A k \in DOMAIN gs : \A i \in Pos(gs[k]) : Addr(hs[k], i) = Addr(gs[k], i)
<1>1. ASSUME NEW k \in DOMAIN gs
      PROVE  /\ Pos(hs[k]) = Pos(gs[k]) /\ Len(hs[k].items) = Len(gs[k].items)
             /\ \A i \in Pos(gs[k]) : Addr(hs[k], i) = Addr(gs[k], i)
  <2>1. LikeGroup(gs[k], hs[k])
    BY DEF Like
  <2>2. /\ Len(gs[k].items) \in Nat /\ DOMAIN gs[k].items = 1 .. Len(gs[k].items)
        /\ Len(hs[k].items) \in Nat /\ DOMAIN gs[k].items = 1 .. Len(hs[k].items)
    BY <2>1, ListIs DEF LikeGroup
  <2>3. Len(hs[k].items) = Len(gs[k].items)
    <3> DEFINE a == Len(gs[k].items)
               b == Len(hs[k].items)
    <3>1. a \in Nat /\ b \in Nat /\ 1 .. a = 1 .. b
      BY <2>2
    <3> HIDE DEF a, b
    <3>2. a = b
      BY <3>1
    <3> QED BY <3>2 DEF a, b
  <2>4. Pos(hs[k]) = Pos(gs[k])
    BY <2>3 DEF Pos
  <2>5. ASSUME NEW i \in Pos(gs[k]) PROVE Addr(hs[k], i) = Addr(gs[k], i)
    <3>1. CASE i = 0
      BY <2>1, <3>1 DEF Addr, LikeGroup
    <3>2. CASE i # 0
      BY <2>2, <3>2, <2>1 DEF Pos, Addr, LikeGroup, LikeItem
    <3> QED BY <3>1, <3>2
  <2> QED BY <2>3, <2>4, <2>5
<1> QED BY <1>1

\* So the list is still that of the file.
LEMMA LikeListed ==
  ASSUME NEW m, NEW head, NEW gs, Listed(m, head, gs), NEW hs, Like(gs, hs)
  PROVE  /\ Listed(m, head, hs) /\ AddrsOf(hs) = AddrsOf(gs)
         /\ Needs(gs) => Needs(hs)
         /\ \A f : KnownIn(gs, f) => KnownIn(hs, f)
<1>1. /\ List(gs) /\ List(hs) /\ DOMAIN hs = DOMAIN gs
      /\ \A k \in DOMAIN gs : GroupIs(m, gs[k]) /\ LikeGroup(gs[k], hs[k]) /\ List(gs[k].items)
  BY DEF Listed, Like, GroupIs
<1>2. /\ \A k \in DOMAIN gs : Pos(hs[k]) = Pos(gs[k])
      /\ \A k \in DOMAIN gs : \A i \in Pos(gs[k]) : Addr(hs[k], i) = Addr(gs[k], i)
  BY <1>1, LikePos
<1>3. Apart(hs) /\ AddrsOf(hs) = AddrsOf(gs)
  <2>1. Apart(gs)
    BY DEF Listed
  <2>2. Apart(hs)
    BY <1>1, <1>2, <2>1 DEF Apart
  <2>3. \A a : /\ a \in AddrsOf(gs) <=> \E k \in DOMAIN gs : \E i \in Pos(gs[k]) : a = Addr(gs[k], i)
               /\ a \in AddrsOf(hs) <=> \E k \in DOMAIN hs : \E i \in Pos(hs[k]) : a = Addr(hs[k], i)
    BY DEF AddrsOf
  <2>4. AddrsOf(hs) = AddrsOf(gs)
    BY <1>1, <1>2, <2>3
  <2> QED BY <2>2, <2>4
<1>4. Tied(m, head, hs)
  BY <1>1, TiedSame DEF LikeGroup, Listed
<1>5. ASSUME NEW k \in DOMAIN gs PROVE GroupIs(m, hs[k])
  <2> DEFINE g == gs[k]
             h == hs[k]
  <2>1. GroupIs(m, g) /\ LikeGroup(g, h)
    BY <1>1
  <2> HIDE DEF g, h
  <2>2. /\ GroupFields \subseteq DOMAIN h /\ h.lib = g.lib /\ h.addr = g.addr
        /\ List(h.items) /\ DOMAIN h.items = DOMAIN g.items
        /\ \A j \in DOMAIN g.items : LikeItem(g.items[j], h.items[j])
        /\ g.dirty \/ g.del => h.dirty \/ h.del
    BY <2>1 DEF LikeGroup
  <2>3. /\ g.addr \in Nat
        /\ \A j \in DOMAIN g.items : ItemIs(m, g.lib, g.items[j])
        /\ g.addr = 0 => (g.dirty \/ g.del) /\ PlacedAt(g.items) = {}
        /\ g.addr # 0 => g.addr \in DOMAIN m /\ m[g.addr].lib = g.lib /\ Tied(m, m[g.addr].aux, g.items)
    BY <2>1 DEF GroupIs
  <2>4. \A j \in DOMAIN h.items : ItemIs(m, h.lib, h.items[j])
    BY <2>2, <2>3 DEF ItemIs, LikeItem
  <2>5. \A j \in DOMAIN g.items : h.items[j].addr = g.items[j].addr
    BY <2>2 DEF LikeItem
  <2>6. PlacedAt(h.items) = PlacedAt(g.items)
    BY <2>2, <2>5 DEF PlacedAt
  <2>7. \A a : Tied(m, a, g.items) => Tied(m, a, h.items)
    BY <2>2, <2>5, TiedSame
  <2>8. GroupIs(m, h)
    BY <2>2, <2>3, <2>4, <2>6, <2>7 DEF GroupIs
  <2> QED BY <2>8 DEF h
<1>6. Listed(m, head, hs)
  BY <1>1, <1>3, <1>4, <1>5 DEF Listed
<1>7. Needs(gs) => Needs(hs)
  BY <1>1 DEF Needs, LikeGroup
<1>8. ASSUME NEW f, KnownIn(gs, f) PROVE KnownIn(hs, f)
  <2>1. PICK k \in DOMAIN gs : gs[k].lib \in Libcs /\ \E j \in DOMAIN gs[k].items : gs[k].items[j].ver = f
    BY <1>8 DEF KnownIn
  <2>2. PICK j \in DOMAIN gs[k].items : gs[k].items[j].ver = f
    BY <2>1
  <2>3. hs[k].lib = gs[k].lib /\ j \in DOMAIN hs[k].items /\ hs[k].items[j].ver = f
    BY <1>1, <2>2 DEF LikeGroup, LikeItem
  <2> QED BY <1>1, <2>1, <2>3 DEF KnownIn
<1> QED BY <1>3, <1>6, <1>7, <1>8

\* What is like two disjoint lists is disjoint.
LEMMA LikeDisjoint ==
  ASSUME NEW m, NEW hd, NEW ds, Listed(m, hd, ds), NEW hn, NEW ns, Listed(m, hn, ns), Disjoint(ds, ns),
         NEW es, Like(ds, es), NEW fs, Like(ns, fs)
  PROVE  Disjoint(es, fs)
<1>1. /\ \A k \in DOMAIN ds : List(ds[k].items)
      /\ \A k \in DOMAIN ns : List(ns[k].items)
  BY DEF Listed, GroupIs
<1>2. /\ \A k \in DOMAIN ds : Pos(es[k]) = Pos(ds[k])
      /\ \A k \in DOMAIN ds : \A i \in Pos(ds[k]) : Addr(es[k], i) = Addr(ds[k], i)
  BY <1>1, LikePos
<1>3. /\ \A k \in DOMAIN ns : Pos(fs[k]) = Pos(ns[k])
      /\ \A k \in DOMAIN ns : \A i \in Pos(ns[k]) : Addr(fs[k], i) = Addr(ns[k], i)
  BY <1>1, LikePos
<1>4. DOMAIN es = DOMAIN ds /\ DOMAIN fs = DOMAIN ns
  BY DEF Like
<1> QED BY <1>2, <1>3, <1>4 DEF Disjoint

\* Definitions stay definitions, as long as nothing in them is deleted.
LEMMA LikeDefines ==
  ASSUME NEW m, NEW gs, AllDefine(m, gs), NEW hs, Like(gs, hs), SameDeleted(gs, hs), \A k \in DOMAIN gs : List(gs[k].items)
  PROVE  AllDefine(m, hs)
<1> SUFFICES ASSUME NEW k \in DOMAIN gs PROVE Defines(m, hs[k])
  BY DEF AllDefine, Like
<1>1. Defines(m, gs[k]) /\ LikeGroup(gs[k], hs[k])
  BY DEF AllDefine, Like
<1>2. /\ Len(gs[k].items) \in Nat /\ DOMAIN gs[k].items = 1 .. Len(gs[k].items) /\ Len(hs[k].items) = Len(gs[k].items)
      /\ DOMAIN hs[k].items = DOMAIN gs[k].items
  BY <1>1, ListIs, LikePos DEF LikeGroup
<1>3. gs[k].items # <<>> /\ 1 \in DOMAIN gs[k].items /\ hs[k].items # <<>>
  <2> DEFINE n == Len(gs[k].items)
  <2>1. gs[k].items # <<>>
    BY <1>1 DEF Defines
  <2>2. n # 0
    BY <2>1 DEF List
  <2>3. 1 \in DOMAIN gs[k].items
    <3>1. n \in Nat /\ DOMAIN gs[k].items = 1 .. n
      BY <1>2
    <3> HIDE DEF n
    <3> QED BY <2>2, <3>1
  <2>4. hs[k].items # <<>>
    BY <1>2, <2>3
  <2> QED BY <2>1, <2>3, <2>4
<1>4. \A j \in DOMAIN gs[k].items : hs[k].items[j].idx = gs[k].items[j].idx /\ hs[k].items[j].del = gs[k].items[j].del
  BY <1>1 DEF LikeGroup, LikeItem, SameDeleted
<1>5. hs[k].lib = gs[k].lib /\ hs[k].addr = gs[k].addr
  BY <1>1 DEF LikeGroup
<1> QED BY <1>1, <1>2, <1>3, <1>4, <1>5 DEF Defines

\* How to make such a list.
LEMMA LikeMade ==
  ASSUME NEW gs, List(gs), NEW hs, hs = [k \in DOMAIN gs |-> hs[k]],
         \A k \in DOMAIN gs : LikeGroup(gs[k], hs[k])
  PROVE  Like(gs, hs)
<1>1. Len(gs) \in Nat /\ DOMAIN gs = 1 .. Len(gs)
  BY ListIs
<1>2. List(hs) /\ DOMAIN hs = DOMAIN gs
  <2> DEFINE n == Len(gs)
  <2>1. n \in Nat /\ hs = [k \in 1 .. n |-> hs[k]] /\ DOMAIN gs = 1 .. n
    BY <1>1
  <2> HIDE DEF n
  <2> QED BY <2>1, ListMade
<1> QED BY <1>2 DEF Like

\* A list is like itself.
LEMMA LikeSame ==
  ASSUME NEW m, NEW head, NEW gs, Listed(m, head, gs)
  PROVE  Like(gs, gs) /\ SameDeleted(gs, gs)
BY DEF Listed, GroupIs, ItemIs, Like, LikeGroup, LikeItem, SameDeleted

\* A group is like another if its items are, one by one.
LEMMA LikeGroupMade ==
  ASSUME NEW g, List(g.items), NEW h, GroupFields \subseteq DOMAIN h, h.lib = g.lib, h.addr = g.addr,
         h.items = [j \in DOMAIN g.items |-> h.items[j]], \A j \in DOMAIN g.items : LikeItem(g.items[j], h.items[j]),
         g.dirty \/ g.del => h.dirty \/ h.del
  PROVE  LikeGroup(g, h)
<1>1. List(h.items) /\ DOMAIN h.items = DOMAIN g.items
  <2> DEFINE n == Len(g.items)
             t == h.items
  <2>1. n \in Nat /\ t = [j \in 1 .. n |-> t[j]] /\ DOMAIN g.items = 1 .. n
    BY ListIs
  <2> HIDE DEF n, t
  <2>2. List(t) /\ DOMAIN t = 1 .. n
    BY <2>1, ListMade
  <2> QED BY <2>1, <2>2 DEF t
<1> QED BY <1>1 DEF LikeGroup

\* A list whose items are marked is like the one before.
LEMMA MarkedLike ==
  ASSUME NEW m, NEW head, NEW gs, Listed(m, head, gs), NEW hs, Marked(gs, hs)
  PROVE  Like(gs, hs) /\ SameDeleted(gs, hs) /\ (Clean(gs) => Clean(hs))
<1>1. /\ List(gs) /\ \A k \in DOMAIN gs : /\ GroupFields \subseteq DOMAIN gs[k] /\ List(gs[k].items)
                                          /\ \A j \in DOMAIN gs[k].items : ItemFields \subseteq DOMAIN gs[k].items[j]
  BY DEF Listed, GroupIs, ItemIs
<1>2. ASSUME NEW k \in DOMAIN gs
      PROVE  /\ LikeGroup(gs[k], hs[k]) /\ \A j \in DOMAIN gs[k].items : hs[k].items[j].del = gs[k].items[j].del
             /\ hs[k].dirty = gs[k].dirty /\ hs[k].del = gs[k].del
             /\ \A j \in DOMAIN gs[k].items : hs[k].items[j].dirty = gs[k].items[j].dirty
  <2>1. CASE hs[k] = gs[k]
    BY <1>1, <2>1 DEF LikeGroup, LikeItem
  <2>2. CASE /\ hs[k] = [gs[k] EXCEPT !.items = hs[k].items]
             /\ hs[k].items = [j \in DOMAIN gs[k].items |-> hs[k].items[j]]
             /\ \A j \in DOMAIN gs[k].items : hs[k].items[j] = [gs[k].items[j] EXCEPT !.unref = hs[k].items[j].unref]
    <3> DEFINE g == gs[k]
               h == hs[k]
               t == hs[k].items
    <3>1. /\ GroupFields \subseteq DOMAIN g /\ List(g.items) /\ h = [g EXCEPT !.items = t]
          /\ h.items = t /\ t = [j \in DOMAIN g.items |-> t[j]]
          /\ \A j \in DOMAIN g.items : ItemFields \subseteq DOMAIN g.items[j] /\ t[j] = [g.items[j] EXCEPT !.unref = t[j].unref]
      BY <1>1, <2>2
    <3> HIDE DEF g, h, t
    <3>2. \A j \in DOMAIN g.items : LikeItem(g.items[j], t[j]) /\ t[j].del = g.items[j].del /\ t[j].dirty = g.items[j].dirty
      BY <3>1 DEF LikeItem, ItemFields
    <3>3. GroupFields \subseteq DOMAIN h /\ h.lib = g.lib /\ h.addr = g.addr /\ h.dirty = g.dirty /\ h.del = g.del
      BY <3>1 DEF GroupFields
    <3>4. LikeGroup(g, h)
      <4>1. h.items = [j \in DOMAIN g.items |-> h.items[j]]
        BY <3>1
      <4>2. \A j \in DOMAIN g.items : LikeItem(g.items[j], h.items[j])
        BY <3>1, <3>2
      <4>3. List(g.items) /\ GroupFields \subseteq DOMAIN h /\ h.lib = g.lib /\ h.addr = g.addr
        BY <3>1, <3>3
      <4>4. g.dirty \/ g.del => h.dirty \/ h.del
        BY <3>3
      <4> QED BY <4>1, <4>2, <4>3, <4>4, LikeGroupMade, Zenon
    <3> QED BY <3>1, <3>2, <3>3, <3>4 DEF g, h, t
  <2> QED BY <2>1, <2>2 DEF Marked
<1>3. Like(gs, hs)
  BY <1>1, <1>2, LikeMade DEF Marked
<1>4. SameDeleted(gs, hs)
  BY <1>2 DEF SameDeleted
<1>5. ASSUME Clean(gs) PROVE Clean(hs)
  BY <1>2, <1>3, <1>5 DEF Like, LikeGroup, Clean
<1> QED BY <1>3, <1>4, <1>5

\* vers_check_removed_refs
LEMMA Checked ==
  ASSUME NEW w, Fields \subseteq DOMAIN w, NEW m, NEW hd, NEW hn, Listed(m, hd, w.def), Listed(m, hn, w.need)
  PROVE  LET u == CheckRemovedRefs(w) IN
         /\ Fields \subseteq DOMAIN u /\ u.feats = w.feats
         /\ Like(w.def, u.def) /\ SameDeleted(w.def, u.def) /\ Like(w.need, u.need)
<1> DEFINE u == CheckRemovedRefs(w)
           used == {w.base[k].id : k \in {w.symver[s] : s \in DOMAIN w.symver} \cap DOMAIN w.base}
           T(g) == [j \in DOMAIN g.items |-> [g.items[j] EXCEPT !.unref = @ /\ g.items[j].id \notin used]]
           M(gs) == [k \in DOMAIN gs |-> [gs[k] EXCEPT !.items = T(gs[k])]]
<1>1. CASE ~w.versions
  BY <1>1, LikeSame DEF CheckRemovedRefs
<1>2. CASE w.versions
  <2>1. u = [w EXCEPT !.need = M(w.need), !.def = M(w.def)]
    BY <1>2 DEF CheckRemovedRefs, Map
  <2> HIDE DEF u
  <2>2. ASSUME NEW gs, NEW h, Listed(m, h, gs) PROVE Marked(gs, M(gs))
    <3> DEFINE hs == M(gs)
    <3>1. hs = [k \in DOMAIN gs |-> hs[k]]
      OBVIOUS
    <3>2. ASSUME NEW k \in DOMAIN gs
          PROVE  /\ hs[k] = [gs[k] EXCEPT !.items = hs[k].items]
                 /\ hs[k].items = [j \in DOMAIN gs[k].items |-> hs[k].items[j]]
                 /\ \A j \in DOMAIN gs[k].items : hs[k].items[j] = [gs[k].items[j] EXCEPT !.unref = hs[k].items[j].unref]
      <4>1. GroupFields \subseteq DOMAIN gs[k] /\ \A j \in DOMAIN gs[k].items : ItemFields \subseteq DOMAIN gs[k].items[j]
        BY <2>2 DEF Listed, GroupIs, ItemIs
      <4>2. hs[k] = [gs[k] EXCEPT !.items = T(gs[k])]
        OBVIOUS
      <4> HIDE DEF hs
      <4>3. hs[k].items = T(gs[k])
        BY <4>1, <4>2 DEF GroupFields
      <4>4. \A j \in DOMAIN gs[k].items : T(gs[k])[j] = [gs[k].items[j] EXCEPT !.unref = T(gs[k])[j].unref]
        BY <4>1 DEF ItemFields
      <4>5. T(gs[k]) = [j \in DOMAIN gs[k].items |-> T(gs[k])[j]]
        OBVIOUS
      <4> HIDE DEF T
      <4> QED BY <4>2, <4>3, <4>4, <4>5
    <3> HIDE DEF hs
    <3> QED BY <3>1, <3>2 DEF Marked, hs
  <2>3. u.need = M(w.need) /\ u.def = M(w.def) /\ Fields \subseteq DOMAIN u /\ u.feats = w.feats
    BY <2>1 DEF Fields
  <2> HIDE DEF M
  <2>4. Marked(w.need, M(w.need)) /\ Marked(w.def, M(w.def))
    BY <2>2
  <2>5. Like(w.def, u.def) /\ SameDeleted(w.def, u.def) /\ Like(w.need, u.need)
    BY <2>3, <2>4, MarkedLike
  <2> QED BY <2>3, <2>5 DEF u
<1> QED BY <1>1, <1>2

\* verdef_sweep_removed_refs
LEMMA SweptDef ==
  ASSUME NEW m, NEW head, NEW gs, Listed(m, head, gs)
  PROVE  Like(gs, SweepDef(gs)) /\ SameDeleted(gs, SweepDef(gs))
<1> DEFINE hs == SweepDef(gs)
<1>1. /\ List(gs) /\ \A k \in DOMAIN gs : /\ GroupFields \subseteq DOMAIN gs[k] /\ List(gs[k].items)
                                          /\ \A j \in DOMAIN gs[k].items : ItemFields \subseteq DOMAIN gs[k].items[j]
  BY DEF Listed, GroupIs, ItemIs
<1>2. /\ hs = [k \in DOMAIN gs |-> hs[k]]
      /\ \A k \in DOMAIN gs : hs[k] = [gs[k] EXCEPT !.del = gs[k].del \/ gs[k].items[1].unref]
  BY <1>1 DEF SweepDef, Map, GroupFields
<1> HIDE DEF hs
<1>3. ASSUME NEW k \in DOMAIN gs PROVE LikeGroup(gs[k], hs[k]) /\ hs[k].items = gs[k].items
  <2> DEFINE g == gs[k]
             h == hs[k]
  <2>1. /\ GroupFields \subseteq DOMAIN g /\ List(g.items) /\ h = [g EXCEPT !.del = g.del \/ g.items[1].unref]
        /\ \A j \in DOMAIN g.items : ItemFields \subseteq DOMAIN g.items[j]
    BY <1>1, <1>2
  <2> HIDE DEF g, h
  <2>2. /\ GroupFields \subseteq DOMAIN h /\ h.lib = g.lib /\ h.addr = g.addr /\ h.items = g.items
        /\ g.dirty \/ g.del => h.dirty \/ h.del
    BY <2>1 DEF GroupFields
  <2>3. LikeGroup(g, h)
    BY <2>1, <2>2 DEF LikeGroup, LikeItem
  <2> QED BY <2>2, <2>3 DEF g, h
<1>4. Like(gs, hs)
  BY <1>1, <1>2, <1>3, LikeMade
<1>5. SameDeleted(gs, hs)
  BY <1>3 DEF SameDeleted
<1> QED BY <1>4, <1>5 DEF hs

\* verneed_sweep_removed_refs
LEMMA SweptNeed ==
  ASSUME NEW m, NEW head, NEW gs, Listed(m, head, gs)
  PROVE  Like(gs, SweepNeed(gs))
<1> DEFINE hs == SweepNeed(gs)
           It(i) == [i EXCEPT !.unref = FALSE, !.del = i.unref \/ i.del]
           T(g) == [j \in DOMAIN g.items |-> It(g.items[j])]
<1>1. /\ List(gs) /\ \A k \in DOMAIN gs : /\ GroupFields \subseteq DOMAIN gs[k] /\ List(gs[k].items)
                                          /\ \A j \in DOMAIN gs[k].items : ItemFields \subseteq DOMAIN gs[k].items[j]
  BY DEF Listed, GroupIs, ItemIs
<1>2. /\ hs = [k \in DOMAIN gs |-> hs[k]]
      /\ \A k \in DOMAIN gs : hs[k] = IF gs[k].del THEN gs[k]
                                      ELSE [gs[k] EXCEPT !.items = T(gs[k]), !.del = \A j \in DOMAIN T(gs[k]) : T(gs[k])[j].del]
  BY DEF SweepNeed, Map
<1> HIDE DEF hs
<1>3. ASSUME NEW k \in DOMAIN gs PROVE LikeGroup(gs[k], hs[k])
  <2>1. CASE gs[k].del
    BY <1>1, <1>2, <2>1 DEF LikeGroup, LikeItem
  <2>2. CASE ~gs[k].del
    <3> DEFINE g == gs[k]
               h == hs[k]
               d == \A j \in DOMAIN T(g) : T(g)[j].del
    <3>1. /\ GroupFields \subseteq DOMAIN g /\ List(g.items) /\ h = [g EXCEPT !.items = T(g), !.del = d] /\ ~g.del
          /\ \A j \in DOMAIN g.items : ItemFields \subseteq DOMAIN g.items[j]
      BY <1>1, <1>2, <2>2
    <3> HIDE DEF g, h, d
    <3>2. \A j \in DOMAIN g.items : LikeItem(g.items[j], T(g)[j])
      BY <3>1 DEF LikeItem, ItemFields
    <3>3. T(g) = [j \in DOMAIN g.items |-> T(g)[j]]
      OBVIOUS
    <3> HIDE DEF T
    <3>4. List(g.items) /\ GroupFields \subseteq DOMAIN h /\ h.lib = g.lib /\ h.addr = g.addr /\ h.items = T(g) /\ h.dirty = g.dirty
      BY <3>1 DEF GroupFields
    <3>5. g.dirty \/ g.del => h.dirty \/ h.del
      BY <3>1, <3>4
    <3>6. h.items = [j \in DOMAIN g.items |-> h.items[j]] /\ \A j \in DOMAIN g.items : LikeItem(g.items[j], h.items[j])
      BY <3>2, <3>3, <3>4
    <3>7. LikeGroup(g, h)
      BY <3>4, <3>5, <3>6, LikeGroupMade, Zenon
    <3> QED BY <3>7 DEF g, h
  <2> QED BY <2>1, <2>2
<1>4. Like(gs, hs)
  BY <1>1, <1>2, <1>3, LikeMade
<1> QED BY <1>4 DEF hs

\* What is flushed if the tables are modified.
LEMMA Swept ==
  ASSUME NEW m, NEW d, NEW w, Editing(w, m, d)
  PROVE  LET u == CheckRemovedRefs(w)
             ds == SweepDef(u.def)
             ns == SweepNeed(u.need) IN
         /\ Fields \subseteq DOMAIN u /\ u.feats = w.feats
         /\ Listed(m, d.def, ds) /\ Defining(m, ds) /\ AddrsOf(ds) = AddrsOf(w.def)
         /\ Listed(m, d.need, ns) /\ Defining(m, ns) /\ AddrsOf(ns) = AddrsOf(w.need)
         /\ \A f \in w.feats : KnownIn(ns, f)
<1> DEFINE u == CheckRemovedRefs(w)
           ds == SweepDef(u.def)
           ns == SweepNeed(u.need)
<1>1. /\ Fields \subseteq DOMAIN w /\ Listed(m, d.need, w.need) /\ Needs(w.need)
      /\ Listed(m, d.def, w.def) /\ AllDefine(m, w.def) /\ \A f \in w.feats : KnownIn(w.need, f)
  BY DEF Editing
<1>2. /\ Fields \subseteq DOMAIN u /\ u.feats = w.feats
      /\ Like(w.def, u.def) /\ SameDeleted(w.def, u.def) /\ Like(w.need, u.need)
  BY <1>1, Checked
<1> HIDE DEF u
<1>3. /\ Listed(m, d.def, u.def) /\ AddrsOf(u.def) = AddrsOf(w.def)
      /\ Listed(m, d.need, u.need) /\ AddrsOf(u.need) = AddrsOf(w.need)
      /\ Needs(u.need) /\ \A f \in w.feats : KnownIn(u.need, f)
  BY <1>1, <1>2, LikeListed
<1>4. AllDefine(m, u.def)
  BY <1>1, <1>2, LikeDefines DEF Listed, GroupIs
<1>5. Like(u.def, ds) /\ SameDeleted(u.def, ds) /\ Like(u.need, ns)
  BY <1>3, SweptDef, SweptNeed
<1> HIDE DEF ds, ns
<1>6. /\ Listed(m, d.def, ds) /\ AddrsOf(ds) = AddrsOf(w.def)
      /\ Listed(m, d.need, ns) /\ AddrsOf(ns) = AddrsOf(w.need)
      /\ Needs(ns) /\ \A f \in w.feats : KnownIn(ns, f)
  BY <1>3, <1>5, LikeListed
<1>7. AllDefine(m, ds)
  BY <1>3, <1>4, <1>5, LikeDefines DEF Listed, GroupIs
<1>8. Defining(m, ds) /\ Defining(m, ns)
  BY <1>6, <1>7 DEF Defining, AllDefine, Needs
<1> QED BY <1>2, <1>6, <1>8 DEF u, ds, ns

\* What becomes of the definitions.
LEMMA FlushedDef ==
  ASSUME NEW m, Memory(m), NEW d, NEW w, Editing(w, m, d)
  PROVE  /\ Brk(m) \in Nat \ {0} /\ Brk1(w, m) \in Nat \ {0} /\ Brk1(w, m) >= Brk(m)
         /\ Whole(m, Def1(w, m)) /\ ("def" \notin w.mod => d.def = HeadOf(Def1(w, m)))
         /\ \A a \in AddrsOf(Def1(w, m)) :
               a \in Nat \ {0} /\ (OverD(w, m) \/ a \in AddrsOf(w.def) \/ (a >= Brk(m) /\ a < Brk1(w, m)))
         /\ OverD(w, m) => \E g \in Range(SweptD(w)) : g.del
<1> DEFINE ds == SweptD(w)
           b == Brk(m)
           b1 == Brk1(w, m)
           es == Def1(w, m)
<1>1. Listed(m, d.def, ds) /\ Defining(m, ds) /\ AddrsOf(ds) = AddrsOf(w.def)
  BY Swept DEF SweptD
<1>2. b \in Nat \ {0}
  <2>1. LastCell(m) \in Nat
    BY LastCellIs
  <2> DEFINE l == LastCell(m)
  <2> HIDE DEF l
  <2>2. b = l + 10 /\ l \in Nat
    BY <2>1 DEF l, Brk
  <2> QED BY <2>2
<1> HIDE DEF ds, b
<1>3. DefSize.group \in Nat \ {0} /\ DefSize.item \in Nat \ {0}
  BY DEF DefSize
<1>4. /\ Whole(m, Erase(EnsureVaddrs(ds, DefSize, b))) /\ Required(ds, DefSize) \in Nat
      /\ \A a \in AddrsOf(Erase(EnsureVaddrs(ds, DefSize, b))) :
            /\ a \in Nat \ {0}
            /\ \/ a \in AddrsOf(ds)
               \/ /\ ~InPlace(ds) /\ a >= b
                  /\ (Overran(ds, DefSize, b) \/ a < b + Required(ds, DefSize))
      /\ Overran(ds, DefSize, b) => \E k \in DOMAIN ds : ds[k].del
  BY <1>1, <1>2, <1>3, FlushedList
<1>5. b1 = IF InPlace(ds) THEN b ELSE b + Required(ds, DefSize)
  BY DEF Brk1, ds, b
<1>6. b1 \in Nat \ {0} /\ b1 >= b
  <2> DEFINE r == Required(ds, DefSize)
  <2>1. r \in Nat
    BY <1>4
  <2> HIDE DEF r, b1
  <2> QED BY <1>2, <1>5, <2>1 DEF r
<1> HIDE DEF b1
<1>7. CASE "def" \in w.mod
  <2>1. es = Erase(EnsureVaddrs(ds, DefSize, b)) /\ (OverD(w, m) <=> Overran(ds, DefSize, b))
    BY <1>7 DEF Def1, OverD, ds, b
  <2> HIDE DEF es
  <2>2. \A a \in AddrsOf(es) : a \in Nat \ {0} /\ (OverD(w, m) \/ a \in AddrsOf(w.def) \/ (a >= b /\ a < b1))
    BY <1>1, <1>4, <1>5, <2>1
  <2>3. OverD(w, m) => \E g \in Range(ds) : g.del
    BY <1>4, <2>1 DEF Range
  <2> QED BY <1>2, <1>4, <1>6, <1>7, <2>1, <2>2, <2>3 DEF es, ds, b, b1
<1>8. CASE "def" \notin w.mod
  <2>1. es = w.def /\ ~OverD(w, m)
    BY <1>8 DEF Def1, OverD
  <2>2. Listed(m, d.def, w.def) /\ Defining(m, w.def) /\ Clean(w.def)
    BY <1>8 DEF Editing, AllDefine, Defining
  <2>3. Whole(m, w.def) /\ d.def = HeadOf(w.def)
    BY <2>2, CleanWhole
  <2>4. \A a \in AddrsOf(w.def) : a \in Nat \ {0}
    BY <2>3 DEF Whole, Shaped, AddrsOf
  <2> QED BY <1>2, <1>6, <2>1, <2>3, <2>4 DEF b, b1
<1> QED BY <1>7, <1>8

\* What becomes of what is required.
LEMMA FlushedNeed ==
  ASSUME NEW m, Memory(m), NEW d, NEW w, Editing(w, m, d)
  PROVE  /\ Whole(m, Need1(w, m)) /\ ("need" \notin w.mod => d.need = HeadOf(Need1(w, m)))
         /\ \A a \in AddrsOf(Need1(w, m)) : a \in Nat \ {0} /\ (a \in AddrsOf(w.need) \/ a >= Brk1(w, m))
         /\ OverN(w, m) => \E g \in Range(SweptN(w)) : g.del
         /\ \A f \in w.feats : ("need" \in w.mod => f \notin Removing(SweptN(w))) => KnownIn(Need1(w, m), f)
<1> DEFINE ns == SweptN(w)
           b1 == Brk1(w, m)
           es == Need1(w, m)
<1>1. /\ Listed(m, d.need, ns) /\ Defining(m, ns) /\ AddrsOf(ns) = AddrsOf(w.need)
      /\ \A f \in w.feats : KnownIn(ns, f)
  BY Swept DEF SweptN
<1>2. b1 \in Nat \ {0}
  BY FlushedDef
<1> HIDE DEF ns, b1
<1>3. NeedSize.group \in Nat \ {0} /\ NeedSize.item \in Nat \ {0}
  BY DEF NeedSize
<1>4. /\ Whole(m, Erase(EnsureVaddrs(ns, NeedSize, b1)))
      /\ \A a \in AddrsOf(Erase(EnsureVaddrs(ns, NeedSize, b1))) :
            a \in Nat \ {0} /\ (a \in AddrsOf(ns) \/ a >= b1)
      /\ Overran(ns, NeedSize, b1) => \E k \in DOMAIN ns : ns[k].del
      /\ Survive(Erase(EnsureVaddrs(ns, NeedSize, b1)), ns)
  BY <1>1, <1>2, <1>3, FlushedList
<1>5. CASE "need" \in w.mod
  <2>1. es = Erase(EnsureVaddrs(ns, NeedSize, b1)) /\ (OverN(w, m) <=> Overran(ns, NeedSize, b1))
    BY <1>5 DEF Need1, OverN, ns, b1
  <2> HIDE DEF es
  <2>2. OverN(w, m) => \E g \in Range(ns) : g.del
    BY <1>4, <2>1 DEF Range
  <2>3. ASSUME NEW f \in w.feats, f \notin Removing(ns) PROVE KnownIn(es, f)
    <3>1. PICK l \in DOMAIN ns : ns[l].lib \in Libcs /\ \E j \in DOMAIN ns[l].items : ns[l].items[j].ver = f
      BY <1>1 DEF KnownIn
    <3>2. PICK j \in DOMAIN ns[l].items : ns[l].items[j].ver = f
      BY <3>1
    <3>3. ~ns[l].del /\ ~ns[l].items[j].del
      BY <2>3, <3>1, <3>2 DEF Removing, Range
    <3>4. l \in LiveAt(ns) /\ j \in LiveAt(ns[l].items)
      BY <3>3 DEF LiveAt
    <3>5. \E k \in DOMAIN es : es[k].lib = ns[l].lib /\ \E i \in DOMAIN es[k].items : es[k].items[i].ver = ns[l].items[j].ver
      BY <1>4, <2>1, <3>4 DEF Survive
    <3> QED BY <3>1, <3>2, <3>5 DEF KnownIn
  <2> QED BY <1>1, <1>4, <1>5, <2>1, <2>2, <2>3 DEF es, ns, b1
<1>6. CASE "need" \notin w.mod
  <2>1. es = w.need /\ ~OverN(w, m)
    BY <1>6 DEF Need1, OverN
  <2>2. Listed(m, d.need, w.need) /\ Defining(m, w.need) /\ Clean(w.need) /\ \A f \in w.feats : KnownIn(w.need, f)
    BY <1>6 DEF Editing, Needs, Defining
  <2>3. Whole(m, w.need) /\ d.need = HeadOf(w.need)
    BY <2>2, CleanWhole
  <2>4. \A a \in AddrsOf(w.need) : a \in Nat \ {0}
    BY <2>3 DEF Whole, Shaped, AddrsOf
  <2> QED BY <2>1, <2>2, <2>3, <2>4
<1> QED BY <1>5, <1>6

\* Unless the room did not suffice, the file holds what the editor has.
LEMMA FlushedFile ==
  ASSUME NEW m, Memory(m), NEW d, NEW w, Editing(w, m, d), ~OverD(w, m)
  PROVE  LET u == Write(Write(m, Def1(w, m)), Need1(w, m)) IN
         IsFiniteSet(DOMAIN u) /\ InFile(u, Def1(w, m)) /\ InFile(u, Need1(w, m))
<1>1. /\ Brk1(w, m) \in Nat /\ Brk1(w, m) >= Brk(m) /\ Whole(m, Def1(w, m))
      /\ \A a \in AddrsOf(Def1(w, m)) : a \in Nat \ {0} /\ (a \in AddrsOf(w.def) \/ (a >= Brk(m) /\ a < Brk1(w, m)))
  BY FlushedDef
<1>2. /\ Whole(m, Need1(w, m))
      /\ \A a \in AddrsOf(Need1(w, m)) : a \in Nat \ {0} /\ (a \in AddrsOf(w.need) \/ a >= Brk1(w, m))
  BY FlushedNeed
<1>3. Listed(m, d.def, w.def) /\ Listed(m, d.need, w.need) /\ Disjoint(w.def, w.need)
  BY DEF Editing
<1>4. AddrsOf(Def1(w, m)) \cap AddrsOf(Need1(w, m)) = {}
  BY <1>1, <1>2, <1>3, LandApart
<1> QED BY <1>1, <1>2, <1>4, TwoWritten

\* The lists are those which others see.
LEMMA FileSeen ==
  ASSUME NEW m, IsFiniteSet(DOMAIN m), NEW ds, NEW ns, InFile(m, ds), InFile(m, ns),
         NEW d, d.def = HeadOf(ds), d.need = HeadOf(ns), NEW w, w.def = ds, w.need = ns,
         \A f \in w.feats : KnownIn(ns, f)
  PROVE  /\ Seen(ListAt(m, d.need)) = Seen(w.need) /\ Seen(ListAt(m, d.def)) = Seen(w.def)
         /\ \A f \in w.feats : \E lib \in Libcs : <<lib, f>> \in NeedVersions(ListAt(m, d.need))
BY SeenBack

\* A step which ends the editing.
LEMMA FlushKeeps == ASSUME IInv, Flush PROVE IInv'
<1>1. pc = "edit" /\ pc' = "done" /\ Memory(mem) /\ Editing(v, mem, dyn) /\ ~hist.overran
      /\ {"overran", "deleted"} \subseteq DOMAIN hist
  BY DEF IInv, Flush
<1>2. CASE v.mod = {}
  <2>1. v' = v /\ mem' = mem /\ dyn' = dyn /\ hist' = hist
    BY <1>2 DEF Flush
  <2>2. /\ Listed(mem, dyn.def, v.def) /\ Defining(mem, v.def) /\ Clean(v.def)
        /\ Listed(mem, dyn.need, v.need) /\ Defining(mem, v.need) /\ Clean(v.need)
        /\ \A f \in v.feats : KnownIn(v.need, f)
    BY <1>1, <1>2 DEF Editing, AllDefine, Needs, Defining
  <2>3. /\ Whole(mem, v.def) /\ dyn.def = HeadOf(v.def)
        /\ Whole(mem, v.need) /\ dyn.need = HeadOf(v.need)
    BY <2>2, CleanWhole
  <2>4. InFile(mem, v.def) /\ InFile(mem, v.need)
    BY <2>2, <2>3 DEF Whole, InFile, Clean
  <2>5. /\ Seen(ListAt(mem, dyn.need)) = Seen(v.need) /\ Seen(ListAt(mem, dyn.def)) = Seen(v.def)
        /\ \A f \in v.feats : \E lib \in Libcs : <<lib, f>> \in NeedVersions(ListAt(mem, dyn.need))
    BY <1>1, <2>2, <2>3, <2>4, FileSeen DEF Memory
  <2> QED BY <1>1, <2>1, <2>5 DEF IInv, ImageAgrees, InsideAllocation, FeaturesRequired, FileNeed, FileDef, Written
<1>3. CASE v.mod # {}
  <2> DEFINE u == CheckRemovedRefs(v)
             ds == SweptD(v)
             ns == SweptN(v)
             es == Def1(v, mem)
             fs == Need1(v, mem)
             x == [u EXCEPT !.def = es, !.need = fs, !.feats = IF "need" \in v.mod THEN @ \ Removing(ns) ELSE @]
  <2>1. /\ v' = DropVersions(x)
        /\ mem' = Write(Write(mem, es), fs)
        /\ dyn' = [need |-> IF "need" \in v.mod THEN HeadOf(fs) ELSE dyn.need,
                   def  |-> IF "def" \in v.mod THEN HeadOf(es) ELSE dyn.def]
        /\ hist' = [hist EXCEPT !.overran = OverD(v, mem) \/ OverN(v, mem),
                                !.deleted = \E g \in Range(ds) \cup Range(ns) : g.del]
    BY <1>3 DEF Flush, SweptD, SweptN, Brk1, Def1, Need1, OverD, OverN
  <2> HIDE DEF u, ds, ns, es, fs, x
  <2>2. /\ Fields \subseteq DOMAIN u /\ u.feats = v.feats
    BY <1>1, Swept DEF u
  <2>3. /\ v'.def = es /\ v'.need = fs
        /\ v'.feats = IF "need" \in v.mod THEN v.feats \ Removing(ns) ELSE v.feats
    BY <2>2, <2>1 DEF x, Fields, DropVersions
  <2>4. hist'.overran = (OverD(v, mem) \/ OverN(v, mem)) /\ hist'.deleted = (\E g \in Range(ds) \cup Range(ns) : g.del)
    BY <1>1, <2>1
  <2>5. /\ "def" \notin v.mod => dyn.def = HeadOf(es)
        /\ OverD(v, mem) => \E g \in Range(ds) : g.del
    BY <1>1, FlushedDef DEF es, ds
  <2>6. /\ "need" \notin v.mod => dyn.need = HeadOf(fs)
        /\ OverN(v, mem) => \E g \in Range(ns) : g.del
        /\ \A f \in v.feats : ("need" \in v.mod => f \notin Removing(ns)) => KnownIn(fs, f)
    BY <1>1, FlushedNeed DEF fs, ns
  <2>7. dyn'.def = HeadOf(es) /\ dyn'.need = HeadOf(fs)
    BY <2>1, <2>5, <2>6
  <2>8. \A f \in v'.feats : KnownIn(fs, f)
    BY <2>3, <2>6
  <2>9. InsideAllocation'
    BY <2>4, <2>5, <2>6 DEF InsideAllocation
  <2>10. ASSUME ~hist'.overran
         PROVE  /\ Seen(ListAt(mem', dyn'.need)) = Seen(v'.need) /\ Seen(ListAt(mem', dyn'.def)) = Seen(v'.def)
                /\ \A f \in v'.feats : \E lib \in Libcs : <<lib, f>> \in NeedVersions(ListAt(mem', dyn'.need))
    <3>1. ~OverD(v, mem)
      BY <2>4, <2>10
    <3>2. IsFiniteSet(DOMAIN mem') /\ InFile(mem', es) /\ InFile(mem', fs)
      BY <1>1, <2>1, <3>1, FlushedFile DEF es, fs
    <3> QED BY <2>3, <2>7, <2>8, <3>2, FileSeen
  <2> QED BY <1>1, <2>9, <2>10 DEF IInv, ImageAgrees, FeaturesRequired, FileNeed, FileDef, Written
<1> QED BY <1>2, <1>3

-----------------------------------------------------------------------------
(* What the actions of the command line do to the lists.                    *)

\* An edit which leaves the lists alike leaves the editor as it should be...
LEMMA EditLike ==
  ASSUME NEW m, NEW d, NEW w, Editing(w, m, d), NEW x, Fields \subseteq DOMAIN x,
         Like(w.need, x.need), Like(w.def, x.def), SameDeleted(w.def, x.def), \A f \in x.feats : f \in w.feats,
         "need" \notin x.mod => Clean(x.need), "def" \notin x.mod => Clean(x.def)
  PROVE  Editing(x, m, d)
<1>1. /\ Listed(m, d.need, w.need) /\ Needs(w.need) /\ Listed(m, d.def, w.def) /\ AllDefine(m, w.def)
      /\ Disjoint(w.def, w.need) /\ \A f \in w.feats : KnownIn(w.need, f)
  BY DEF Editing
<1>2. /\ Listed(m, d.need, x.need) /\ Needs(x.need) /\ Listed(m, d.def, x.def)
      /\ \A f \in x.feats : KnownIn(x.need, f)
  BY <1>1, LikeListed
<1>3. Disjoint(x.def, x.need)
  BY <1>1, LikeDisjoint
<1>4. AllDefine(m, x.def)
  BY <1>1, LikeDefines DEF Listed, GroupIs
<1> QED BY <1>2, <1>3, <1>4 DEF Editing

\* ...and so does one which leaves them alone.
LEMMA EditSame ==
  ASSUME NEW m, NEW d, NEW w, Editing(w, m, d), NEW x, Fields \subseteq DOMAIN x,
         x.need = w.need, x.def = w.def, x.feats = w.feats, x.mod = w.mod
  PROVE  Editing(x, m, d)
BY DEF Editing

\* Mark only marks.
LEMMA MarkIs ==
  ASSUME NEW m, NEW head, NEW gs, Listed(m, head, gs), NEW ids
  PROVE  Marked(gs, Mark(gs, ids))
<1> DEFINE hs == Mark(gs, ids)
           T(k) == [j \in DOMAIN gs[k].items |-> [gs[k].items[j] EXCEPT !.unref = @ \/ gs[k].items[j].id \in ids]]
<1>1. hs = [k \in DOMAIN gs |-> hs[k]] /\ \A k \in DOMAIN gs : hs[k] = [gs[k] EXCEPT !.items = T(k)]
  BY DEF Mark
<1> HIDE DEF hs
<1>2. ASSUME NEW k \in DOMAIN gs
      PROVE  /\ hs[k] = [gs[k] EXCEPT !.items = hs[k].items]
             /\ hs[k].items = [j \in DOMAIN gs[k].items |-> hs[k].items[j]]
             /\ \A j \in DOMAIN gs[k].items : hs[k].items[j] = [gs[k].items[j] EXCEPT !.unref = hs[k].items[j].unref]
  <2>1. GroupFields \subseteq DOMAIN gs[k] /\ \A j \in DOMAIN gs[k].items : ItemFields \subseteq DOMAIN gs[k].items[j]
    BY DEF Listed, GroupIs, ItemIs
  <2>2. hs[k].items = T(k)
    BY <1>1, <2>1 DEF GroupFields
  <2>3. \A j \in DOMAIN gs[k].items : T(k)[j] = [gs[k].items[j] EXCEPT !.unref = T(k)[j].unref]
    BY <2>1 DEF ItemFields
  <2>4. T(k) = [j \in DOMAIN gs[k].items |-> T(k)[j]]
    OBVIOUS
  <2> HIDE DEF T
  <2> QED BY <1>1, <2>2, <2>3, <2>4
<1> QED BY <1>1, <1>2 DEF Marked, hs

\* Removing references marks items, and notes their table as modified.
LEMMA RemovingRefs ==
  ASSUME NEW m, NEW d, NEW w, Editing(w, m, d), NEW indices
  PROVE  Editing(RemoveRefs(w, indices), m, d)
<1> DEFINE refs == {ref \in {w.base[k] : k \in indices \cap DOMAIN w.base} : ref.id # 0}
           ids == {ref.id : ref \in refs}
           new == {IF ref.lib = None THEN "def" ELSE "need" : ref \in refs}
           x == RemoveRefs(w, indices)
<1>1. x = [w EXCEPT !.need = Mark(w.need, ids), !.def = Mark(w.def, ids), !.mod = w.mod \cup new]
  BY DEF Editing, RemoveRefs, MarkIn, Map, Mark, Fields
<1> HIDE DEF x, ids, new
<1>2. Fields \subseteq DOMAIN w /\ Listed(m, d.need, w.need) /\ Listed(m, d.def, w.def)
      /\ ("need" \notin w.mod => Clean(w.need)) /\ ("def" \notin w.mod => Clean(w.def))
  BY DEF Editing
<1>3. /\ Fields \subseteq DOMAIN x /\ x.feats = w.feats /\ x.need = Mark(w.need, ids) /\ x.def = Mark(w.def, ids)
      /\ x.mod = w.mod \cup new
  BY <1>1, <1>2 DEF Fields
<1>4. Marked(w.need, x.need) /\ Marked(w.def, x.def)
  BY <1>2, <1>3, MarkIs
<1>5. /\ Like(w.need, x.need) /\ (Clean(w.need) => Clean(x.need))
      /\ Like(w.def, x.def) /\ SameDeleted(w.def, x.def) /\ (Clean(w.def) => Clean(x.def))
  BY <1>2, <1>4, MarkedLike
<1>6. ("need" \notin x.mod => Clean(x.need)) /\ ("def" \notin x.mod => Clean(x.def))
  BY <1>2, <1>3, <1>5
<1>7. Editing(x, m, d)
  BY <1>3, <1>5, <1>6, EditLike
<1> QED BY <1>7 DEF x

\* action_remove_verneed
LEMMA RemovingVerneed ==
  ASSUME NEW m, NEW d, NEW w, Editing(w, m, d)
  PROVE  Editing(RemoveVerneedOf(w), m, d)
<1>1. CASE w.need = <<>>
  BY <1>1 DEF RemoveVerneedOf
<1>2. CASE w.need # <<>>
  <2> DEFINE x == RemoveVerneedOf(w)
             gs == w.need
             hs == [k \in DOMAIN gs |-> [gs[k] EXCEPT !.del = TRUE, !.dirty = FALSE]]
  <2>1. Fields \subseteq DOMAIN w /\ Listed(m, d.need, gs) /\ Listed(m, d.def, w.def) /\ ("def" \notin w.mod => Clean(w.def))
    BY DEF Editing
  <2>2. /\ Fields \subseteq DOMAIN x /\ x.need = hs /\ x.def = w.def /\ x.feats = w.feats /\ x.mod = w.mod \cup {"need"}
    BY <1>2, <2>1 DEF RemoveVerneedOf, Map, Fields
  <2> HIDE DEF x
  <2>3. Like(gs, hs)
    <3>1. List(gs)
      BY <2>1 DEF Listed
    <3>2. \A k \in DOMAIN gs : /\ GroupFields \subseteq DOMAIN gs[k] /\ List(gs[k].items)
                               /\ \A j \in DOMAIN gs[k].items : ItemFields \subseteq DOMAIN gs[k].items[j]
      BY <2>1 DEF Listed, GroupIs, ItemIs
    <3>3. \A k \in DOMAIN gs : hs[k] = [gs[k] EXCEPT !.del = TRUE, !.dirty = FALSE]
      OBVIOUS
    <3>4. hs = [k \in DOMAIN gs |-> hs[k]]
      OBVIOUS
    <3> HIDE DEF hs, gs
    <3>5. \A k \in DOMAIN gs : /\ GroupFields \subseteq DOMAIN hs[k] /\ hs[k].lib = gs[k].lib /\ hs[k].addr = gs[k].addr
                               /\ hs[k].items = gs[k].items /\ hs[k].del
      BY <3>2, <3>3 DEF GroupFields
    <3>6. \A k \in DOMAIN gs : LikeGroup(gs[k], hs[k])
      BY <3>2, <3>5 DEF LikeGroup, LikeItem
    <3> QED BY <3>1, <3>4, <3>6, LikeMade
  <2> HIDE DEF hs
  <2>4. Like(w.def, x.def) /\ SameDeleted(w.def, x.def)
    BY <2>1, <2>2, LikeSame
  <2>5. Editing(x, m, d)
    BY <2>1, <2>2, <2>3, <2>4, EditLike
  <2> QED BY <2>5 DEF x
<1> QED BY <1>1, <1>2

\* action_weak_verneed
LEMMA WeakeningVerneed ==
  ASSUME NEW m, NEW d, NEW w, Editing(w, m, d)
  PROVE  Editing(WeakVerneedOf(w), m, d)
<1> DEFINE gs == w.need
           T(g) == [j \in DOMAIN g.items |-> IF ~g.items[j].weak THEN [g.items[j] EXCEPT !.weak = TRUE, !.dirty = TRUE]
                                             ELSE g.items[j]]
           hs == [k \in DOMAIN gs |-> IF \E j \in DOMAIN gs[k].items : ~gs[k].items[j].weak
                                      THEN [gs[k] EXCEPT !.dirty = TRUE, !.items = T(gs[k])]
                                      ELSE gs[k]]
           x == WeakVerneedOf(w)
<1>1. /\ Fields \subseteq DOMAIN w /\ Listed(m, d.need, gs) /\ Listed(m, d.def, w.def) /\ ("def" \notin w.mod => Clean(w.def))
      /\ ("need" \notin w.mod => Clean(gs))
  BY DEF Editing
<1>2. /\ List(gs)
      /\ \A k \in DOMAIN gs : /\ GroupFields \subseteq DOMAIN gs[k] /\ List(gs[k].items)
                              /\ \A j \in DOMAIN gs[k].items : ItemFields \subseteq DOMAIN gs[k].items[j]
  BY <1>1 DEF Listed, GroupIs, ItemIs
<1>3. x = [w EXCEPT !.need = hs, !.mod = IF hs = gs THEN w.mod ELSE w.mod \cup {"need"}]
  <2> DEFINE Weaken(g) == IF \E k \in DOMAIN g.items : ~g.items[k].weak
                          THEN [g EXCEPT !.dirty = TRUE,
                                  !.items = Map(LAMBDA i : IF ~i.weak THEN [i EXCEPT !.weak = TRUE, !.dirty = TRUE]
                                                           ELSE i, @)]
                          ELSE g
  <2>1. \A k \in DOMAIN gs : Weaken(gs[k]) = IF \E j \in DOMAIN gs[k].items : ~gs[k].items[j].weak
                                      THEN [gs[k] EXCEPT !.dirty = TRUE, !.items = T(gs[k])]
                                      ELSE gs[k]
    BY <1>2 DEF Map, GroupFields
  <2>2. Map(Weaken, gs) = hs
    BY <2>1 DEF Map
  <2>3. x = [w EXCEPT !.need = Map(Weaken, gs), !.mod = IF Map(Weaken, gs) = gs THEN w.mod ELSE w.mod \cup {"need"}]
    BY <1>1 DEF WeakVerneedOf, Fields
  <2> QED BY <2>2, <2>3
<1> HIDE DEF x
<1>4. /\ Fields \subseteq DOMAIN x /\ x.need = hs /\ x.def = w.def /\ x.feats = w.feats
      /\ x.mod = IF hs = gs THEN w.mod ELSE w.mod \cup {"need"}
  BY <1>1, <1>3 DEF Fields
<1>5. hs = [k \in DOMAIN gs |-> hs[k]]
  OBVIOUS
<1>6. ASSUME NEW k \in DOMAIN gs PROVE LikeGroup(gs[k], hs[k])
  <2>1. CASE ~\E j \in DOMAIN gs[k].items : ~gs[k].items[j].weak
    BY <1>2, <2>1 DEF LikeGroup, LikeItem
  <2>2. CASE \E j \in DOMAIN gs[k].items : ~gs[k].items[j].weak
    <3> DEFINE g == gs[k]
               h == hs[k]
    <3>1. /\ GroupFields \subseteq DOMAIN g /\ List(g.items) /\ h = [g EXCEPT !.dirty = TRUE, !.items = T(g)]
          /\ \A j \in DOMAIN g.items : ItemFields \subseteq DOMAIN g.items[j]
      BY <1>2, <2>2
    <3> HIDE DEF g, h
    <3>2. \A j \in DOMAIN g.items : LikeItem(g.items[j], T(g)[j])
      BY <3>1 DEF LikeItem, ItemFields
    <3>3. T(g) = [j \in DOMAIN g.items |-> T(g)[j]]
      OBVIOUS
    <3> HIDE DEF T
    <3>4. List(g.items) /\ GroupFields \subseteq DOMAIN h /\ h.lib = g.lib /\ h.addr = g.addr /\ h.items = T(g) /\ h.dirty
      BY <3>1 DEF GroupFields
    <3>5. h.items = [j \in DOMAIN g.items |-> h.items[j]] /\ \A j \in DOMAIN g.items : LikeItem(g.items[j], h.items[j])
      BY <3>2, <3>3, <3>4
    <3>6. LikeGroup(g, h)
      BY <3>4, <3>5, LikeGroupMade, Zenon
    <3> QED BY <3>6 DEF g, h
  <2> QED BY <2>1, <2>2
<1> HIDE DEF hs, gs
<1>7. Like(gs, hs)
  BY <1>2, <1>5, <1>6, LikeMade
<1>8. Like(w.def, x.def) /\ SameDeleted(w.def, x.def)
  BY <1>1, <1>4, LikeSame
<1>9. "need" \notin x.mod => Clean(x.need)
  BY <1>1, <1>4
<1>10. Editing(x, m, d)
  BY <1>1, <1>4, <1>7, <1>8, <1>9, EditLike DEF gs
<1> QED BY <1>10 DEF x

\* dsyms_clear_version
LEMMA ClearingVersion ==
  ASSUME NEW m, NEW d, NEW w, Editing(w, m, d), NEW names
  PROVE  Editing(ClearVersionOf(w, names), m, d)
<1> DEFINE cleared == {s \in names : w.symver[s] > 1}
           t == [s \in DOMAIN w.symver |-> IF s \in cleared THEN 1 ELSE w.symver[s]]
           x == [w EXCEPT !.symver = t]
           K == {w.symver[s] : s \in cleared}
<1>1. Fields \subseteq DOMAIN w
  BY DEF Editing
<1>2. ClearVersionOf(w, names) = IF ~w.versions THEN w ELSE RemoveRefs(x, K)
  BY <1>1 DEF ClearVersionOf, Fields
<1> HIDE DEF t, K
<1>3. Editing(x, m, d)
  <2>1. Fields \subseteq DOMAIN x /\ x.need = w.need /\ x.def = w.def /\ x.feats = w.feats /\ x.mod = w.mod
    BY <1>1 DEF Fields
  <2> HIDE DEF x
  <2> QED BY <2>1, EditSame
<1> HIDE DEF x
<1>4. Editing(RemoveRefs(x, K), m, d)
  BY <1>3, RemovingRefs
<1> QED BY <1>2, <1>4

\* target_ver_registry_confirm
LEMMA MarkingNewer ==
  ASSUME NEW m, NEW d, NEW w, Editing(w, m, d)
  PROVE  Editing(MarkNewer(w), m, d)
<1> DEFINE gs == w.need
           T(g) == [j \in DOMAIN g.items |-> [g.items[j] EXCEPT !.unref = @ \/ Newer(g.items[j])]]
           hs == [k \in DOMAIN gs |-> IF gs[k].del THEN gs[k] ELSE [gs[k] EXCEPT !.items = T(gs[k])]]
           x == MarkNewer(w)
           relr == \E i \in LiveItems(w.need) : i.ver = Relr /\ Newer(i)
<1>1. /\ Fields \subseteq DOMAIN w /\ Listed(m, d.need, gs) /\ Listed(m, d.def, w.def) /\ ("def" \notin w.mod => Clean(w.def))
      /\ ("need" \notin w.mod => Clean(gs))
  BY DEF Editing
<1>2. /\ List(gs)
      /\ \A k \in DOMAIN gs : /\ GroupFields \subseteq DOMAIN gs[k] /\ List(gs[k].items)
                              /\ \A j \in DOMAIN gs[k].items : ItemFields \subseteq DOMAIN gs[k].items[j]
  BY <1>1 DEF Listed, GroupIs, ItemIs
<1>3. x = [w EXCEPT !.need = hs, !.feats = IF relr THEN w.feats \ {Relr} ELSE w.feats]
  BY <1>1, <1>2 DEF MarkNewer, Map, Fields, GroupFields
<1> HIDE DEF x, relr
<1>4. /\ Fields \subseteq DOMAIN x /\ x.need = hs /\ x.def = w.def /\ \A f \in x.feats : f \in w.feats
      /\ x.mod = w.mod
  BY <1>1, <1>3 DEF Fields
<1>5. hs = [k \in DOMAIN gs |-> hs[k]] /\ \A k \in DOMAIN gs : hs[k] = IF gs[k].del THEN gs[k] ELSE [gs[k] EXCEPT !.items = T(gs[k])]
  OBVIOUS
<1> HIDE DEF hs
<1>6. ASSUME NEW k \in DOMAIN gs, ~gs[k].del
      PROVE  /\ hs[k] = [gs[k] EXCEPT !.items = hs[k].items]
             /\ hs[k].items = [j \in DOMAIN gs[k].items |-> hs[k].items[j]]
             /\ \A j \in DOMAIN gs[k].items : hs[k].items[j] = [gs[k].items[j] EXCEPT !.unref = hs[k].items[j].unref]
  <2>1. hs[k].items = T(gs[k])
    BY <1>2, <1>5, <1>6 DEF GroupFields
  <2>2. \A j \in DOMAIN gs[k].items : T(gs[k])[j] = [gs[k].items[j] EXCEPT !.unref = T(gs[k])[j].unref]
    BY <1>2 DEF ItemFields
  <2>3. T(gs[k]) = [j \in DOMAIN gs[k].items |-> T(gs[k])[j]]
    OBVIOUS
  <2> HIDE DEF T
  <2> QED BY <1>5, <1>6, <2>1, <2>2, <2>3
<1>7. Marked(gs, hs)
  BY <1>5, <1>6 DEF Marked
<1>8. Like(gs, hs) /\ (Clean(gs) => Clean(hs))
  BY <1>1, <1>7, MarkedLike
<1>9. Like(w.def, x.def) /\ SameDeleted(w.def, x.def)
  BY <1>1, <1>4, LikeSame
<1>10. Editing(x, m, d)
  BY <1>1, <1>4, <1>8, <1>9, EditLike
<1> QED BY <1>10 DEF x

\* A library which is removed.
LEMMA RemovingGroup ==
  ASSUME NEW m, NEW d, NEW w, Editing(w, m, d), NEW k \in DOMAIN w.need
  PROVE  Editing([w EXCEPT !.need[k].del = TRUE, !.mod = @ \cup {"need", "def"}], m, d)
<1> DEFINE gs == w.need
           hs == [gs EXCEPT ![k].del = TRUE]
           x == [w EXCEPT !.need[k].del = TRUE, !.mod = @ \cup {"need", "def"}]
<1>1. Fields \subseteq DOMAIN w /\ Listed(m, d.need, gs) /\ Listed(m, d.def, w.def)
  BY DEF Editing
<1>2. /\ Fields \subseteq DOMAIN x /\ x.need = hs /\ x.def = w.def /\ x.feats = w.feats /\ x.mod = w.mod \cup {"need", "def"}
  BY <1>1 DEF Fields
<1> HIDE DEF x
<1>3. Like(gs, hs)
  <2>1. List(gs)
    BY <1>1 DEF Listed
  <2>2. \A j \in DOMAIN gs : /\ GroupFields \subseteq DOMAIN gs[j] /\ List(gs[j].items)
                             /\ \A i \in DOMAIN gs[j].items : ItemFields \subseteq DOMAIN gs[j].items[i]
    BY <1>1 DEF Listed, GroupIs, ItemIs
  <2>3. hs = [j \in DOMAIN gs |-> hs[j]]
    OBVIOUS
  <2>4. \A j \in DOMAIN gs : hs[j] = IF j = k THEN [gs[j] EXCEPT !.del = TRUE] ELSE gs[j]
    OBVIOUS
  <2> HIDE DEF hs, gs
  <2>5. \A j \in DOMAIN gs : /\ GroupFields \subseteq DOMAIN hs[j] /\ hs[j].lib = gs[j].lib /\ hs[j].addr = gs[j].addr
                             /\ hs[j].items = gs[j].items /\ (hs[j] = gs[j] \/ hs[j].del)
    BY <2>2, <2>4 DEF GroupFields
  <2>6. \A j \in DOMAIN gs : LikeGroup(gs[j], hs[j])
    BY <2>2, <2>5 DEF LikeGroup, LikeItem
  <2> QED BY <2>1, <2>3, <2>6, LikeMade
<1> HIDE DEF hs
<1>4. Like(w.def, x.def) /\ SameDeleted(w.def, x.def)
  BY <1>1, <1>2, LikeSame
<1>5. Editing(x, m, d)
  BY <1>1, <1>2, <1>3, <1>4, EditLike
<1> QED BY <1>5 DEF x

-----------------------------------------------------------------------------
(* Adding: what is new has no place.                                        *)

\* What comes from a list in which addresses are apart has them apart.
LEMMA ApartStill ==
  ASSUME NEW gs, Apart(gs), NEW hs, NEW K, NEW I, ComesFrom(hs, gs, K, I)
  PROVE  Apart(hs) /\ \A a \in AddrsOf(hs) : a = 0 \/ a \in AddrsOf(gs)
<1>1. ASSUME NEW k \in DOMAIN hs, NEW l \in DOMAIN hs, NEW i \in Pos(hs[k]), NEW j \in Pos(hs[l]),
             Addr(hs[k], i) # 0, Addr(hs[k], i) = Addr(hs[l], j)
      PROVE  k = l /\ i = j
  <2>1. /\ K[k] \in DOMAIN gs /\ I[<<k, i>>] \in Pos(gs[K[k]]) /\ Addr(hs[k], i) = Addr(gs[K[k]], I[<<k, i>>])
        /\ K[l] \in DOMAIN gs /\ I[<<l, j>>] \in Pos(gs[K[l]]) /\ Addr(hs[l], j) = Addr(gs[K[l]], I[<<l, j>>])
    BY <1>1 DEF ComesFrom
  <2>2. K[k] = K[l] /\ I[<<k, i>>] = I[<<l, j>>]
    <3> DEFINE p == I[<<k, i>>]
               q == I[<<l, j>>]
               kk == K[k]
               ll == K[l]
    <3>1. /\ kk \in DOMAIN gs /\ ll \in DOMAIN gs /\ p \in Pos(gs[kk]) /\ q \in Pos(gs[ll])
          /\ Addr(gs[kk], p) # 0 /\ Addr(gs[kk], p) = Addr(gs[ll], q)
      BY <1>1, <2>1
    <3> HIDE DEF p, q, kk, ll
    <3>2. kk = ll /\ p = q
      BY <3>1 DEF Apart
    <3> QED BY <3>2 DEF p, q, kk, ll
  <2>3. k = l
    BY <2>2 DEF ComesFrom
  <2>4. i = j
    BY <1>1, <2>2, <2>3 DEF ComesFrom
  <2> QED BY <2>3, <2>4
<1>2. ASSUME NEW a \in AddrsOf(hs), a # 0 PROVE a \in AddrsOf(gs)
  <2>1. PICK k \in DOMAIN hs : \E i \in Pos(hs[k]) : a = Addr(hs[k], i)
    BY DEF AddrsOf
  <2>2. PICK i \in Pos(hs[k]) : a = Addr(hs[k], i)
    BY <2>1
  <2>3. K[k] \in DOMAIN gs /\ I[<<k, i>>] \in Pos(gs[K[k]]) /\ a = Addr(gs[K[k]], I[<<k, i>>])
    BY <1>2, <2>2 DEF ComesFrom
  <2> QED BY <2>3 DEF AddrsOf
<1> QED BY <1>1, <1>2 DEF Apart

\* Two lists are disjoint whatever has no place.
LEMMA DisjointIs ==
  ASSUME NEW ds, NEW ns
  PROVE  Disjoint(ds, ns) <=> \A a : a \in AddrsOf(ds) /\ a \in AddrsOf(ns) => a = 0
<1>1. ASSUME Disjoint(ds, ns), NEW a, a \in AddrsOf(ds), a \in AddrsOf(ns) PROVE a = 0
  BY <1>1 DEF Disjoint, AddrsOf
<1>2. ASSUME \A a : a \in AddrsOf(ds) /\ a \in AddrsOf(ns) => a = 0 PROVE Disjoint(ds, ns)
  <2> SUFFICES ASSUME NEW k \in DOMAIN ds, NEW l \in DOMAIN ns, NEW i \in Pos(ds[k]), NEW j \in Pos(ns[l]),
                      Addr(ds[k], i) = Addr(ns[l], j)
               PROVE  Addr(ds[k], i) = 0
    BY DEF Disjoint
  <2>1. Addr(ds[k], i) \in AddrsOf(ds) /\ Addr(ns[l], j) \in AddrsOf(ns)
    BY DEF AddrsOf
  <2> QED BY <1>2, <2>1
<1> QED BY <1>1, <1>2

\* A version which the file is to define.
LEMMA DefinitionAdded ==
  ASSUME NEW m, NEW head, NEW gs, Listed(m, head, gs), AllDefine(m, gs), NEW i, ItemFields \subseteq DOMAIN i,
         i.addr = 0, i.dirty, ~i.del
  PROVE  LET hs == <<NewGroup(None, <<i>>)>> \o gs IN
         /\ Listed(m, head, hs) /\ AllDefine(m, hs) /\ \A a \in AddrsOf(hs) : a = 0 \/ a \in AddrsOf(gs)
<1> DEFINE x == NewGroup(None, <<i>>)
           hs == <<x>> \o gs
           n == Len(gs)
           one == <<i>>
<1>1. /\ List(gs) /\ n \in Nat /\ DOMAIN gs = 1 .. n /\ Tied(m, head, gs) /\ Apart(gs)
      /\ \A k \in 1 .. n : GroupIs(m, gs[k]) /\ Defines(m, gs[k])
  BY ListIs DEF Listed, AllDefine
<1>2. /\ GroupFields \subseteq DOMAIN x /\ x.lib = None /\ x.addr = 0 /\ x.dirty /\ ~x.del /\ x.items = one
  BY DEF NewGroup, GroupFields
<1>3. List(one) /\ Len(one) = 1 /\ DOMAIN one = 1 .. 1 /\ one[1] = i /\ one # <<>>
  <2>1. one \in Seq({i})
    OBVIOUS
  <2>2. List(one)
    BY <2>1, ListOf
  <2> QED BY <2>2
<1> HIDE DEF x, one
<1>4. /\ List(hs) /\ DOMAIN hs = 1 .. (n + 1) /\ hs[1] = x /\ \A k \in 1 .. n : hs[k + 1] = gs[k]
  BY <1>1, ListPrepended
<1>5. Tied(m, head, hs)
  BY <1>1, <1>2, TiedPrepended
<1> HIDE DEF hs, n
<1>6. \A k \in DOMAIN hs : k # 1 => k - 1 \in DOMAIN gs /\ hs[k] = gs[k - 1]
  <2> SUFFICES ASSUME NEW k \in DOMAIN hs, k # 1 PROVE k - 1 \in DOMAIN gs /\ hs[k] = gs[k - 1]
    OBVIOUS
  <2> DEFINE l == k - 1
  <2>1. l \in 1 .. n /\ k = l + 1
    BY <1>1, <1>4
  <2> HIDE DEF l
  <2>2. l \in DOMAIN gs /\ hs[k] = gs[l]
    BY <1>1, <1>4, <2>1
  <2> QED BY <2>2 DEF l
<1>7. GroupIs(m, x) /\ Defines(m, x) /\ Pos(x) = 0 .. 1 /\ \A j \in Pos(x) : Addr(x, j) = 0
  <2>1. \A j \in DOMAIN one : one[j] = i /\ j = 1
    BY <1>3
  <2>2. PlacedAt(one) = {}
    BY <2>1 DEF PlacedAt
  <2>3. \A j \in DOMAIN one : ItemIs(m, None, one[j])
    BY <2>1 DEF ItemIs
  <2>4. GroupIs(m, x)
    BY <1>2, <1>3, <2>2, <2>3 DEF GroupIs
  <2>5. Defines(m, x)
    BY <1>2, <1>3, <2>1 DEF Defines
  <2>6. Pos(x) = 0 .. 1
    BY <1>2, <1>3 DEF Pos
  <2>7. \A j \in 0 .. 1 : j = 0 \/ (j = 1 /\ j # 0)
    OBVIOUS
  <2>8. \A j \in Pos(x) : Addr(x, j) = 0
    BY <1>2, <1>3, <2>6, <2>7 DEF Addr
  <2> QED BY <2>4, <2>5, <2>6, <2>8
<1>8. \A k \in DOMAIN hs : GroupIs(m, hs[k]) /\ Defines(m, hs[k])
  BY <1>1, <1>4, <1>6, <1>7
<1>9. Apart(hs) /\ \A a \in AddrsOf(hs) : a = 0 \/ a \in AddrsOf(gs)
  <2> DEFINE K == [k \in DOMAIN hs |-> k - 1]
             P == {<<k, j>> : k \in DOMAIN hs, j \in UNION {Pos(hs[l]) : l \in DOMAIN hs}}
             I == [p \in P |-> p[2]]
  <2>1. \A k \in DOMAIN hs : K[k] = k - 1 /\ k \in Nat
    BY <1>1, <1>4
  <2>2. \A k \in DOMAIN hs : \A j \in Pos(hs[k]) : I[<<k, j>>] = j
    OBVIOUS
  <2> HIDE DEF K, I
  <2>3. \A k \in DOMAIN hs : \A j \in Pos(hs[k]) : Addr(hs[k], j) # 0 =>
           /\ K[k] \in DOMAIN gs /\ I[<<k, j>>] \in Pos(gs[K[k]])
           /\ Addr(hs[k], j) = Addr(gs[K[k]], I[<<k, j>>])
    BY <1>4, <1>6, <1>7, <2>1, <2>2
  <2>4. \A k, l \in DOMAIN hs : K[k] = K[l] => k = l
    BY <2>1
  <2>5. ComesFrom(hs, gs, K, I)
    BY <2>2, <2>3, <2>4 DEF ComesFrom
  <2> QED BY <1>1, <2>5, ApartStill
<1>10. Listed(m, head, hs) /\ AllDefine(m, hs)
  BY <1>4, <1>5, <1>8, <1>9 DEF Listed, AllDefine
<1> QED BY <1>9, <1>10 DEF hs, x, one

\* A library which is to be required.
LEMMA LibraryAdded ==
  ASSUME NEW m, NEW head, NEW gs, Listed(m, head, gs), NEW lib
  PROVE  LET hs == Append(gs, NewGroup(lib, <<>>)) IN
         /\ Listed(m, head, hs) /\ \A a \in AddrsOf(hs) : a = 0 \/ a \in AddrsOf(gs)
         /\ DOMAIN hs = 1 .. (Len(gs) + 1) /\ hs[Len(gs) + 1].lib = lib /\ \A k \in DOMAIN gs : hs[k] = gs[k]
<1> DEFINE x == NewGroup(lib, <<>>)
           hs == Append(gs, x)
           n == Len(gs)
<1>1. /\ List(gs) /\ n \in Nat /\ DOMAIN gs = 1 .. n /\ Tied(m, head, gs) /\ Apart(gs)
      /\ \A k \in 1 .. n : GroupIs(m, gs[k])
  BY ListIs DEF Listed
<1>2. /\ GroupFields \subseteq DOMAIN x /\ x.lib = lib /\ x.addr = 0 /\ x.dirty /\ ~x.del /\ x.items = <<>>
  BY DEF NewGroup, GroupFields
<1> HIDE DEF x
<1>3. /\ List(hs) /\ DOMAIN hs = 1 .. (n + 1) /\ hs[n + 1] = x /\ \A k \in 1 .. n : hs[k] = gs[k]
  BY <1>1, ListAppended
<1>4. Tied(m, head, hs)
  BY <1>1, <1>2, TiedAppended
<1> HIDE DEF hs, n
<1>5. \A k \in DOMAIN hs : k = n + 1 \/ k \in DOMAIN gs
  BY <1>1, <1>3
<1>6. GroupIs(m, x) /\ Pos(x) = {0} /\ Addr(x, 0) = 0
  <2> DEFINE e == <<>>
  <2>1. e \in Seq({}) /\ Len(e) = 0 /\ DOMAIN e = {}
    OBVIOUS
  <2>2. List(e)
    BY <2>1, ListOf
  <2>3. PlacedAt(e) = {}
    BY <2>1 DEF PlacedAt
  <2>4. GroupIs(m, x)
    BY <1>2, <2>1, <2>2, <2>3 DEF GroupIs
  <2>5. 0 .. 0 = {0}
    OBVIOUS
  <2>6. Pos(x) = {0}
    BY <1>2, <2>1, <2>5 DEF Pos
  <2> QED BY <1>2, <2>4, <2>6 DEF Addr
<1>7. \A k \in DOMAIN hs : GroupIs(m, hs[k])
  BY <1>1, <1>3, <1>5, <1>6
<1>8. Apart(hs) /\ \A a \in AddrsOf(hs) : a = 0 \/ a \in AddrsOf(gs)
  <2> DEFINE K == [k \in DOMAIN hs |-> k]
             P == {<<k, j>> : k \in DOMAIN hs, j \in UNION {Pos(hs[l]) : l \in DOMAIN hs}}
             I == [p \in P |-> p[2]]
  <2>1. \A k \in DOMAIN hs : K[k] = k
    OBVIOUS
  <2>2. \A k \in DOMAIN hs : \A j \in Pos(hs[k]) : I[<<k, j>>] = j
    OBVIOUS
  <2> HIDE DEF K, I
  <2>3. \A k \in DOMAIN hs : \A j \in Pos(hs[k]) : Addr(hs[k], j) # 0 =>
           /\ K[k] \in DOMAIN gs /\ I[<<k, j>>] \in Pos(gs[K[k]])
           /\ Addr(hs[k], j) = Addr(gs[K[k]], I[<<k, j>>])
    BY <1>1, <1>3, <1>5, <1>6, <2>1, <2>2
  <2>4. ComesFrom(hs, gs, K, I)
    BY <2>1, <2>2, <2>3 DEF ComesFrom
  <2> QED BY <1>1, <2>4, ApartStill
<1>9. Listed(m, head, hs)
  BY <1>3, <1>4, <1>7, <1>8 DEF Listed
<1> QED BY <1>1, <1>2, <1>3, <1>8, <1>9 DEF hs, x, n

\* A version which is to be required of a library.
LEMMA ItemAdded ==
  ASSUME NEW m, NEW head, NEW gs, Listed(m, head, gs), NEW p \in DOMAIN gs, NEW i, ItemFields \subseteq DOMAIN i,
         i.addr = 0, i.dirty
  PROVE  LET hs == [gs EXCEPT ![p].items = <<i>> \o @] IN
         /\ Listed(m, head, hs) /\ \A a \in AddrsOf(hs) : a = 0 \/ a \in AddrsOf(gs)
         /\ DOMAIN hs = DOMAIN gs /\ \A k \in DOMAIN gs : hs[k].lib = gs[k].lib
         /\ \A f : KnownIn(gs, f) => KnownIn(hs, f)
<1> DEFINE hs == [gs EXCEPT ![p].items = <<i>> \o @]
           g == gs[p]
           h == hs[p]
           n == Len(g.items)
<1>1. /\ List(gs) /\ Len(gs) \in Nat /\ DOMAIN gs = 1 .. Len(gs) /\ Tied(m, head, gs) /\ Apart(gs)
      /\ \A k \in DOMAIN gs : GroupIs(m, gs[k])
  BY ListIs DEF Listed
<1>2. /\ hs = [k \in DOMAIN gs |-> hs[k]] /\ \A k \in DOMAIN gs : k # p => hs[k] = gs[k]
      /\ h = [g EXCEPT !.items = <<i>> \o g.items]
  OBVIOUS
<1>3. GroupIs(m, g) /\ GroupFields \subseteq DOMAIN g /\ List(g.items)
  BY <1>1 DEF GroupIs
<1> HIDE DEF hs, g, h
<1>4. /\ GroupFields \subseteq DOMAIN h /\ h.lib = g.lib /\ h.addr = g.addr /\ h.dirty = g.dirty /\ h.del = g.del
      /\ h.items = <<i>> \o g.items
  BY <1>2, <1>3 DEF GroupFields
<1>5. /\ List(h.items) /\ Len(h.items) = n + 1 /\ DOMAIN h.items = 1 .. (n + 1) /\ n \in Nat /\ DOMAIN g.items = 1 .. n
      /\ h.items[1] = i /\ \A j \in DOMAIN g.items : h.items[j + 1] = g.items[j]
  <2>1. n \in Nat /\ DOMAIN g.items = 1 .. n
    BY <1>3, ListIs
  <2>2. /\ List(h.items) /\ Len(h.items) = n + 1 /\ DOMAIN h.items = 1 .. (n + 1)
        /\ h.items[1] = i /\ \A j \in DOMAIN g.items : h.items[j + 1] = g.items[j]
    BY <1>3, <1>4, ListPrepended
  <2> QED BY <2>1, <2>2
<1> HIDE DEF n
<1>6. \A j \in DOMAIN h.items : j # 1 => j - 1 \in DOMAIN g.items /\ h.items[j] = g.items[j - 1]
  <2> SUFFICES ASSUME NEW j \in DOMAIN h.items, j # 1 PROVE j - 1 \in DOMAIN g.items /\ h.items[j] = g.items[j - 1]
    OBVIOUS
  <2> DEFINE l == j - 1
  <2>1. l \in 1 .. n /\ j = l + 1
    BY <1>5
  <2> HIDE DEF l
  <2>2. l \in DOMAIN g.items /\ h.items[j] = g.items[l]
    BY <1>5, <2>1
  <2> QED BY <2>2 DEF l
<1>7. GroupIs(m, h)
  <2>1. \A j \in DOMAIN h.items : ItemIs(m, h.lib, h.items[j])
    BY <1>3, <1>4, <1>5, <1>6 DEF GroupIs, ItemIs
  <2>2. ASSUME h.addr = 0 PROVE (h.dirty \/ h.del) /\ PlacedAt(h.items) = {}
    <3>1. (g.dirty \/ g.del) /\ PlacedAt(g.items) = {}
      BY <1>3, <1>4, <2>2 DEF GroupIs
    <3>2. ASSUME NEW j \in DOMAIN h.items PROVE h.items[j].addr = 0
      <4>1. \A l \in DOMAIN g.items : g.items[l].addr = 0
        BY <3>1 DEF PlacedAt
      <4>2. CASE j = 1
        BY <1>5, <4>2
      <4>3. CASE j # 1
        BY <1>6, <4>1, <4>3
      <4> QED BY <4>2, <4>3
    <3> QED BY <1>4, <3>1, <3>2 DEF PlacedAt
  <2>3. ASSUME h.addr # 0 PROVE h.addr \in DOMAIN m /\ m[h.addr].lib = h.lib /\ Tied(m, m[h.addr].aux, h.items)
    BY <1>3, <1>4, <2>3, TiedPrepended DEF GroupIs
  <2>4. h.addr \in Nat
    BY <1>3, <1>4 DEF GroupIs
  <2> QED BY <1>4, <1>5, <2>1, <2>2, <2>3, <2>4 DEF GroupIs
<1>8. DOMAIN hs = DOMAIN gs /\ List(hs)
  <2> DEFINE c == Len(gs)
  <2>1. c \in Nat /\ DOMAIN gs = 1 .. c
    BY <1>1
  <2> HIDE DEF c
  <2>2. hs = [k \in 1 .. c |-> hs[k]]
    BY <1>2, <2>1
  <2> QED BY <2>1, <2>2, ListMade
<1>9. \A k \in DOMAIN gs : hs[k].addr = gs[k].addr /\ hs[k].lib = gs[k].lib /\ GroupIs(m, hs[k])
  BY <1>1, <1>2, <1>4, <1>7 DEF g, h
<1>10. Tied(m, head, hs)
  BY <1>1, <1>8, <1>9, TiedSame
<1>11. Apart(hs) /\ \A a \in AddrsOf(hs) : a = 0 \/ a \in AddrsOf(gs)
  <2> DEFINE K == [k \in DOMAIN hs |-> k]
             P == {<<k, j>> : k \in DOMAIN hs, j \in UNION {Pos(hs[l]) : l \in DOMAIN hs}}
             It(k, j) == IF k = p /\ j # 0 THEN j - 1 ELSE j
             I == [q \in P |-> It(q[1], q[2])]
  <2>1. \A k \in DOMAIN hs : K[k] = k
    OBVIOUS
  <2>2. \A k \in DOMAIN hs : \A j \in Pos(hs[k]) : I[<<k, j>>] = It(k, j)
    OBVIOUS
  <2> HIDE DEF K, I
  <2>3. ASSUME NEW j \in Pos(h), Addr(h, j) # 0
        PROVE  /\ It(p, j) \in Pos(g) /\ Addr(h, j) = Addr(g, It(p, j))
               /\ j \in Nat /\ It(p, j) \in Nat /\ (j # 0 => It(p, j) = j - 1 /\ It(p, j) # 0) /\ (j = 0 => It(p, j) = 0)
    <3>1. Pos(h) = 0 .. (n + 1) /\ Pos(g) = 0 .. n /\ n \in Nat
      BY <1>5 DEF Pos, n
    <3>2. CASE j = 0
      BY <1>4, <3>1, <3>2 DEF Addr
    <3>3. CASE j # 0
      <4> DEFINE l == j - 1
      <4>1. j \in DOMAIN h.items /\ Addr(h, j) = h.items[j].addr /\ It(p, j) = l
        BY <1>5, <3>1, <3>3 DEF Addr
      <4>2. j # 1
        BY <1>5, <2>3, <4>1
      <4>3. l \in 1 .. n /\ l # 0
        BY <3>1, <3>3, <4>2
      <4>4. h.items[j] = g.items[l]
        BY <1>6, <4>1, <4>2
      <4>5. Addr(g, l) = g.items[l].addr
        BY <4>3 DEF Addr
      <4> HIDE DEF l, It
      <4>6. l \in Pos(g) /\ Addr(h, j) = Addr(g, l) /\ l \in Nat /\ j \in Nat
        BY <3>1, <4>1, <4>3, <4>4, <4>5
      <4> QED BY <3>3, <4>1, <4>3, <4>6 DEF l
    <3> QED BY <3>2, <3>3
  <2>4. \A k \in DOMAIN hs : k # p => hs[k] = gs[k] /\ \A j : It(k, j) = j
    BY <1>2, <1>8
  <2> HIDE DEF It
  <2>5. ASSUME NEW k \in DOMAIN hs, NEW j \in Pos(hs[k]), Addr(hs[k], j) # 0
        PROVE  /\ K[k] \in DOMAIN gs /\ I[<<k, j>>] \in Pos(gs[K[k]])
               /\ Addr(hs[k], j) = Addr(gs[K[k]], I[<<k, j>>])
    <3>1. CASE k = p
      BY <1>8, <2>1, <2>2, <2>3, <2>5, <3>1 DEF g, h
    <3>2. CASE k # p
      BY <1>8, <2>1, <2>2, <2>4, <2>5, <3>2
    <3> QED BY <3>1, <3>2
  <2>6. ASSUME NEW k \in DOMAIN hs, NEW j \in Pos(hs[k]), NEW l \in Pos(hs[k]), Addr(hs[k], j) # 0, Addr(hs[k], l) # 0,
               I[<<k, j>>] = I[<<k, l>>]
        PROVE  j = l
    <3>1. It(k, j) = It(k, l)
      BY <2>2, <2>6
    <3>2. CASE k = p
      BY <2>6, <3>1, <3>2, <2>3 DEF h
    <3>3. CASE k # p
      BY <2>4, <3>1, <3>3
    <3> QED BY <3>2, <3>3
  <2>7. ComesFrom(hs, gs, K, I)
    BY <2>1, <2>5, <2>6 DEF ComesFrom
  <2> QED BY <1>1, <2>7, ApartStill
<1>12. Listed(m, head, hs)
  BY <1>8, <1>9, <1>10, <1>11 DEF Listed
<1>13. ASSUME NEW f, KnownIn(gs, f) PROVE KnownIn(hs, f)
  <2>1. PICK k \in DOMAIN gs : gs[k].lib \in Libcs /\ \E j \in DOMAIN gs[k].items : gs[k].items[j].ver = f
    BY <1>13 DEF KnownIn
  <2>2. PICK j \in DOMAIN gs[k].items : gs[k].items[j].ver = f
    BY <2>1
  <2>3. \E l \in DOMAIN hs[k].items : hs[k].items[l].ver = f
    <3>1. CASE k = p
      <4> DEFINE l == j + 1
      <4>1. l \in DOMAIN h.items /\ h.items[l] = g.items[j]
        BY <1>5, <2>2, <3>1 DEF g
      <4> HIDE DEF l
      <4> QED BY <2>2, <3>1, <4>1 DEF g, h
    <3>2. CASE k # p
      BY <1>2, <2>2, <3>2
    <3> QED BY <3>1, <3>2
  <2> QED BY <1>8, <1>9, <2>1, <2>3 DEF KnownIn
<1> QED BY <1>8, <1>9, <1>11, <1>12, <1>13 DEF hs

\* A new item has no place, and is dirty.
LEMMA NewItemIs ==
  ASSUME NEW w, NEW ver, NEW idx
  PROVE  LET i == NewItem(w, ver, idx) IN ItemFields \subseteq DOMAIN i /\ i.addr = 0 /\ i.dirty /\ ~i.del
BY DEF NewItem, ItemFields

\* add_verdef leaves the editor as it should be, and the other list alone.
LEMMA AddingVerdef ==
  ASSUME NEW m, NEW d, NEW w, Editing(w, m, d), NEW ver, NEW idx
  PROVE  LET x == AddVerdef(w, ver, idx) IN Editing(x, m, d) /\ x.need = w.need
<1> DEFINE i == NewItem(w, ver, idx)
           hs == <<NewGroup(None, <<i>>)>> \o w.def
           x == AddVerdef(w, ver, idx)
<1>1. /\ Fields \subseteq DOMAIN w /\ Listed(m, d.def, w.def) /\ AllDefine(m, w.def) /\ Disjoint(w.def, w.need)
      /\ Listed(m, d.need, w.need) /\ Needs(w.need)
      /\ ("need" \notin w.mod => Clean(w.need)) /\ \A f \in w.feats : KnownIn(w.need, f)
  BY DEF Editing
<1>2. ItemFields \subseteq DOMAIN i /\ i.addr = 0 /\ i.dirty /\ ~i.del
  BY NewItemIs
<1>3. /\ Fields \subseteq DOMAIN x /\ x.def = hs /\ x.need = w.need /\ x.feats = w.feats /\ x.mod = w.mod \cup {"def"}
  BY <1>1 DEF AddVerdef, Fields
<1> HIDE DEF x, i
<1>4. /\ Listed(m, d.def, hs) /\ AllDefine(m, hs) /\ \A a \in AddrsOf(hs) : a = 0 \/ a \in AddrsOf(w.def)
  BY <1>1, <1>2, DefinitionAdded
<1> HIDE DEF hs
<1>5. Disjoint(hs, w.need)
  BY <1>1, <1>4, DisjointIs
<1>6. Editing(x, m, d)
  BY <1>1, <1>3, <1>4, <1>5 DEF Editing
<1> QED BY <1>3, <1>6 DEF x

\* So does add_vernaux, with the group which ensure_verneed gives it.
LEMMA AddingVernaux ==
  ASSUME NEW m, NEW d, NEW w, Editing(w, m, d), NEW lib, lib # None, NEW ver, NEW idx
  PROVE  Editing(AddVernaux(w, lib, ver, idx), m, d)
<1> DEFINE i == NewItem(w, ver, idx)
           gs == EnsureVerneed(w.need, lib)
           S == GroupsOf(gs, lib)
           p == Min(S)
           hs == [gs EXCEPT ![p].items = <<i>> \o @]
           x == AddVernaux(w, lib, ver, idx)
<1>1. /\ Fields \subseteq DOMAIN w /\ Listed(m, d.def, w.def) /\ AllDefine(m, w.def) /\ Disjoint(w.def, w.need)
      /\ Listed(m, d.need, w.need) /\ Needs(w.need) /\ List(w.need)
      /\ ("def" \notin w.mod => Clean(w.def)) /\ \A f \in w.feats : KnownIn(w.need, f)
  BY DEF Editing, Listed
<1>2. ItemFields \subseteq DOMAIN i /\ i.addr = 0 /\ i.dirty /\ ~i.del
  BY NewItemIs
<1>3. /\ Fields \subseteq DOMAIN x /\ x.def = w.def /\ x.need = hs /\ x.feats = w.feats /\ x.mod = w.mod \cup {"need"}
  BY <1>1 DEF AddVernaux, Fields
<1> HIDE DEF x, i, hs, p
<1>4. /\ Listed(m, d.need, gs) /\ \A a \in AddrsOf(gs) : a = 0 \/ a \in AddrsOf(w.need)
      /\ Needs(gs) /\ \A f : KnownIn(w.need, f) => KnownIn(gs, f)
      /\ S # {}
  <2>1. CASE GroupsOf(w.need, lib) # {}
    BY <1>1, <2>1 DEF EnsureVerneed
  <2>2. CASE GroupsOf(w.need, lib) = {}
    <3> DEFINE n == Len(w.need) + 1
    <3>1. gs = Append(w.need, NewGroup(lib, <<>>))
      BY <2>2 DEF EnsureVerneed
    <3>2. /\ Listed(m, d.need, gs) /\ \A a \in AddrsOf(gs) : a = 0 \/ a \in AddrsOf(w.need)
          /\ DOMAIN gs = 1 .. n /\ gs[n].lib = lib /\ \A k \in DOMAIN w.need : gs[k] = w.need[k]
      BY <1>1, <3>1, LibraryAdded
    <3>3. DOMAIN w.need = 1 .. Len(w.need) /\ Len(w.need) \in Nat
      BY <1>1, ListIs
    <3> HIDE DEF gs
    <3>4. n \in DOMAIN gs /\ DOMAIN w.need \in SUBSET (DOMAIN gs) /\ \A k \in DOMAIN gs : k = n \/ k \in DOMAIN w.need
      BY <3>2, <3>3
    <3> HIDE DEF n
    <3>5. Needs(gs)
      BY <1>1, <3>2, <3>4 DEF Needs
    <3>6. \A f : KnownIn(w.need, f) => KnownIn(gs, f)
      BY <3>2, <3>4 DEF KnownIn
    <3>7. n \in S
      BY <3>2, <3>4 DEF GroupsOf
    <3> QED BY <3>2, <3>5, <3>6, <3>7
  <2> QED BY <2>1, <2>2
<1> HIDE DEF gs
<1>5. p \in DOMAIN gs
  <2>1. S \in SUBSET Nat /\ S \in SUBSET (DOMAIN gs)
    BY <1>4, ListIs DEF Listed, GroupsOf
  <2> HIDE DEF S
  <2>2. \E k \in S : \A j \in S : k <= j
    BY <1>4, <2>1, Least
  <2>3. Min(S) \in S
    BY <2>2 DEF Min
  <2> QED BY <2>1, <2>3 DEF p
<1>6. /\ Listed(m, d.need, hs) /\ \A a \in AddrsOf(hs) : a = 0 \/ a \in AddrsOf(gs)
      /\ DOMAIN hs = DOMAIN gs /\ \A k \in DOMAIN gs : hs[k].lib = gs[k].lib
      /\ \A f : KnownIn(gs, f) => KnownIn(hs, f)
  BY <1>2, <1>4, <1>5, ItemAdded DEF hs
<1>7. Needs(hs) /\ \A f \in w.feats : KnownIn(hs, f)
  BY <1>1, <1>4, <1>6 DEF Needs
<1>8. Disjoint(w.def, hs)
  BY <1>1, <1>4, <1>6, DisjointIs
<1>9. Editing(x, m, d)
  BY <1>1, <1>3, <1>6, <1>7, <1>8 DEF Editing
<1> QED BY <1>9 DEF x

\* erw_vers_find_or_add
LEMMA FindingOrAdding ==
  ASSUME NEW m, NEW d, NEW w, Editing(w, m, d), NEW lib, NEW ver
  PROVE  Editing(FindOrAdd(w, lib, ver).v, m, d)
<1>1. CASE Matching(w, lib, ver) # {}
  BY <1>1 DEF FindOrAdd
<1>2. CASE Matching(w, lib, ver) = {} /\ lib = None
  BY <1>2, AddingVerdef DEF FindOrAdd
<1>3. CASE Matching(w, lib, ver) = {} /\ lib # None
  BY <1>3, AddingVernaux DEF FindOrAdd
<1> QED BY <1>1, <1>2, <1>3

\* renamer_apply_to, for one symbol
LEMMA Rebinding ==
  ASSUME NEW m, NEW d, NEW w, Editing(w, m, d), NEW s, NEW to, to.kind \in {"keep", "plain", "bind"}
  PROVE  Editing(Rebind(w, s, to), m, d)
<1>1. Fields \subseteq DOMAIN w
  BY DEF Editing
<1>2. \A u : Editing(u, m, d) => Fields \subseteq DOMAIN u
  BY DEF Editing
<1>3. ASSUME NEW u, Editing(u, m, d), NEW i PROVE Editing([u EXCEPT !.symver[s] = i], m, d)
  <2> DEFINE x == [u EXCEPT !.symver[s] = i]
  <2>1. Fields \subseteq DOMAIN x /\ x.need = u.need /\ x.def = u.def /\ x.feats = u.feats /\ x.mod = u.mod
    BY <1>2, <1>3 DEF Fields
  <2> HIDE DEF x
  <2>2. Editing(x, m, d)
    BY <1>3, <2>1, EditSame
  <2> QED BY <2>2 DEF x
<1>4. CASE to.kind = "keep"
  BY <1>4 DEF Rebind
<1>5. CASE to.kind = "plain"
  <2> DEFINE x == [w EXCEPT !.symver[s] = 1]
             K == {w.symver[s]}
  <2>1. Rebind(w, s, to) = IF ~w.versions \/ w.symver[s] = 1 THEN w ELSE RemoveRefs(x, K)
    BY <1>5 DEF Rebind
  <2>2. Editing(x, m, d)
    BY <1>3
  <2> HIDE DEF x, K
  <2>3. Editing(RemoveRefs(x, K), m, d)
    BY <2>2, RemovingRefs
  <2> QED BY <2>1, <2>3
<1>6. CASE to.kind = "bind"
  <2> DEFINE u == [EnsureVersionsArray(w) EXCEPT !.libs = @ \cup {to.lib}]
             found == FindOrAdd(u, to.lib, to.ver)
             fv == found.v
             fi == found.idx
             x == [fv EXCEPT !.symver[s] = fi]
             K == {w.symver[s]}
  <2>1. Rebind(w, s, to) = IF fi = w.symver[s] THEN fv ELSE RemoveRefs(x, K)
    BY <1>6 DEF Rebind
  <2>2. Fields \subseteq DOMAIN u /\ u.need = w.need /\ u.def = w.def /\ u.feats = w.feats /\ u.mod = w.mod
    BY <1>1 DEF EnsureVersionsArray, Fields
  <2> HIDE DEF u
  <2>3. Editing(u, m, d)
    BY <2>2, EditSame
  <2>4. Editing(fv, m, d)
    BY <2>3, FindingOrAdding
  <2> HIDE DEF found, fv, fi
  <2>5. Editing(x, m, d)
    BY <1>3, <2>4
  <2> HIDE DEF x, K
  <2>6. Editing(RemoveRefs(x, K), m, d)
    BY <2>5, RemovingRefs
  <2> QED BY <2>1, <2>4, <2>6
<1> QED BY <1>4, <1>5, <1>6

-----------------------------------------------------------------------------
(* What is done for one after the other.                                    *)

\* The items of a library which is removed.
LEMMA DefineItemsSteps ==
  ASSUME NEW w, NEW items, List(items)
  PROVE  \E F : /\ F[0] = w
                /\ \A o \in 1 .. Len(items) : F[o] = IF Own(F[o - 1], items[o]) THEN AddVerdef(F[o - 1], items[o].ver, items[o].idx) ELSE F[o - 1]
                /\ DefineItems(w, items) = F[Len(items)]
<1> DEFINE N == Len(items)
           St(x, o) == IF Own(x, items[o]) THEN AddVerdef(x, items[o].ver, items[o].idx) ELSE x
           Def(f, n) == f = [o \in 0 .. n |-> IF o = 0 THEN w ELSE St(f[o - 1], o)]
           F == CHOOSE f : Def(f, N)
<1>1. N \in Nat
  BY ListIs
<1>2. DefineItems(w, items) = F[Len(items)]
  BY DEF DefineItems
<1> HIDE DEF St
<1>3. \E f : Def(f, N)
  <2> DEFINE S == {n \in 0 .. N : \E f : Def(f, n)}
  <2>1. 0 \in S
    <3> DEFINE f == [o \in 0 .. 0 |-> w]
    <3>1. \A o \in 0 .. 0 : f[o] = IF o = 0 THEN w ELSE St(f[o - 1], o)
      OBVIOUS
    <3>2. f = [o \in 0 .. 0 |-> f[o]]
      OBVIOUS
    <3> HIDE DEF f
    <3>3. Def(f, 0)
      BY <3>1, <3>2, Zenon
    <3> QED BY <1>1, <3>3
  <2>2. ASSUME NEW n \in 0 .. (N - 1), n \in S PROVE n + 1 \in S
    <3>1. PICK f : Def(f, n)
      BY <2>2
    <3> DEFINE g == [o \in 0 .. (n + 1) |-> IF o <= n THEN f[o] ELSE St(f[n], n + 1)]
    <3>2. \A o \in 0 .. n : f[o] = IF o = 0 THEN w ELSE St(f[o - 1], o)
      <4> DEFINE V(o) == IF o = 0 THEN w ELSE St(f[o - 1], o)
      <4>1. f = [o \in 0 .. n |-> V(o)]
        BY <3>1, Zenon
      <4> HIDE DEF V, Def
      <4>2. \A o \in 0 .. n : f[o] = V(o)
        BY <4>1, Zenon
      <4> QED BY <4>2 DEF V
    <3>3. \A o \in 0 .. n : g[o] = f[o]
      OBVIOUS
    <3>4. g[n + 1] = St(f[n], n + 1)
      OBVIOUS
    <3>5. g = [o \in 0 .. (n + 1) |-> g[o]]
      OBVIOUS
    <3> HIDE DEF g, Def
    <3>6. ASSUME NEW o \in 0 .. (n + 1)
          PROVE  g[o] = IF o = 0 THEN w ELSE St(g[o - 1], o)
      <4>1. CASE o = n + 1
        BY <4>1, <3>3, <3>4
      <4>2. CASE o # n + 1
        <5>1. o \in 0 .. n
          BY <4>2
        <5>2. g[o] = f[o] /\ f[o] = IF o = 0 THEN w ELSE St(f[o - 1], o)
          BY <3>2, <3>3, <5>1
        <5>3. CASE o = 0
          BY <5>2, <5>3
        <5>4. CASE o # 0
          BY <5>1, <5>4, <3>3, <5>2
        <5> QED BY <5>3, <5>4
      <4> QED BY <4>1, <4>2
    <3>7. Def(g, n + 1)
      BY <3>5, <3>6, Zenon DEF Def
    <3>8. n + 1 \in 0 .. N
      BY <1>1
    <3> QED BY <3>7, <3>8
  <2>3. S \in SUBSET (0 .. N)
    OBVIOUS
  <2> HIDE DEF S
  <2>4. S = 0 .. N
    BY <1>1, <2>1, <2>2, <2>3, Upwards
  <2>5. N \in S
    BY <1>1, <2>4
  <2> QED BY <2>5 DEF S
<1>4. Def(F, N)
  <2> HIDE DEF Def
  <2> QED BY <1>3
<1> HIDE DEF F
<1>5. \A o \in 0 .. N : F[o] = IF o = 0 THEN w ELSE St(F[o - 1], o)
  <2> DEFINE V(o) == IF o = 0 THEN w ELSE St(F[o - 1], o)
  <2>1. F = [o \in 0 .. N |-> V(o)]
    BY <1>4, Zenon
  <2> HIDE DEF V, Def, N
  <2>2. \A o \in 0 .. N : F[o] = V(o)
    BY <2>1, Zenon
  <2> QED BY <2>2 DEF V
<1> HIDE DEF Def
<1>6. F[0] = w
  BY <1>1, <1>5
<1>7. \A o \in 1 .. N : F[o] = St(F[o - 1], o)
  BY <1>1, <1>5
<1> DEFINE Good(G) == /\ G[0] = w
                      /\ \A o \in 1 .. Len(items) : G[o] = IF Own(G[o - 1], items[o]) THEN AddVerdef(G[o - 1], items[o].ver, items[o].idx) ELSE G[o - 1]
                      /\ DefineItems(w, items) = G[Len(items)]
<1>8. Good(F)
  BY <1>2, <1>6, <1>7 DEF St
<1> HIDE DEF Good
<1>9. \E G : Good(G)
  BY <1>8
<1> QED BY <1>9, Zenon DEF Good

\* The groups of a library which is removed.
LEMMA RemoveNeededSteps ==
  ASSUME NEW w, List(w.need), NEW lib, lib \in w.libs
  PROVE  \E F : /\ F[0] = [w EXCEPT !.libs = @ \ {lib}]
                /\ \A o \in 1 .. Len(w.need) : F[o] = IF w.need[o].lib = lib THEN DefineGroup(F[o - 1], o) ELSE F[o - 1]
                /\ RemoveNeededOf(w, lib) = F[Len(w.need)]
<1> DEFINE N == Len(w.need)
           St(x, o) == IF w.need[o].lib = lib THEN DefineGroup(x, o) ELSE x
           Def(f, n) == f = [o \in 0 .. n |-> IF o = 0 THEN [w EXCEPT !.libs = @ \ {lib}] ELSE St(f[o - 1], o)]
           F == CHOOSE f : Def(f, N)
<1>1. N \in Nat
  BY ListIs
<1>2. RemoveNeededOf(w, lib) = F[Len(w.need)]
  BY DEF RemoveNeededOf
<1> HIDE DEF St
<1>3. \E f : Def(f, N)
  <2> DEFINE S == {n \in 0 .. N : \E f : Def(f, n)}
  <2>1. 0 \in S
    <3> DEFINE f == [o \in 0 .. 0 |-> [w EXCEPT !.libs = @ \ {lib}]]
    <3>1. \A o \in 0 .. 0 : f[o] = IF o = 0 THEN [w EXCEPT !.libs = @ \ {lib}] ELSE St(f[o - 1], o)
      OBVIOUS
    <3>2. f = [o \in 0 .. 0 |-> f[o]]
      OBVIOUS
    <3> HIDE DEF f
    <3>3. Def(f, 0)
      BY <3>1, <3>2, Zenon
    <3> QED BY <1>1, <3>3
  <2>2. ASSUME NEW n \in 0 .. (N - 1), n \in S PROVE n + 1 \in S
    <3>1. PICK f : Def(f, n)
      BY <2>2
    <3> DEFINE g == [o \in 0 .. (n + 1) |-> IF o <= n THEN f[o] ELSE St(f[n], n + 1)]
    <3>2. \A o \in 0 .. n : f[o] = IF o = 0 THEN [w EXCEPT !.libs = @ \ {lib}] ELSE St(f[o - 1], o)
      <4> DEFINE V(o) == IF o = 0 THEN [w EXCEPT !.libs = @ \ {lib}] ELSE St(f[o - 1], o)
      <4>1. f = [o \in 0 .. n |-> V(o)]
        BY <3>1, Zenon
      <4> HIDE DEF V, Def
      <4>2. \A o \in 0 .. n : f[o] = V(o)
        BY <4>1, Zenon
      <4> QED BY <4>2 DEF V
    <3>3. \A o \in 0 .. n : g[o] = f[o]
      OBVIOUS
    <3>4. g[n + 1] = St(f[n], n + 1)
      OBVIOUS
    <3>5. g = [o \in 0 .. (n + 1) |-> g[o]]
      OBVIOUS
    <3> HIDE DEF g, Def
    <3>6. ASSUME NEW o \in 0 .. (n + 1)
          PROVE  g[o] = IF o = 0 THEN [w EXCEPT !.libs = @ \ {lib}] ELSE St(g[o - 1], o)
      <4>1. CASE o = n + 1
        BY <4>1, <3>3, <3>4
      <4>2. CASE o # n + 1
        <5>1. o \in 0 .. n
          BY <4>2
        <5>2. g[o] = f[o] /\ f[o] = IF o = 0 THEN [w EXCEPT !.libs = @ \ {lib}] ELSE St(f[o - 1], o)
          BY <3>2, <3>3, <5>1
        <5>3. CASE o = 0
          BY <5>2, <5>3
        <5>4. CASE o # 0
          BY <5>1, <5>4, <3>3, <5>2
        <5> QED BY <5>3, <5>4
      <4> QED BY <4>1, <4>2
    <3>7. Def(g, n + 1)
      BY <3>5, <3>6, Zenon DEF Def
    <3>8. n + 1 \in 0 .. N
      BY <1>1
    <3> QED BY <3>7, <3>8
  <2>3. S \in SUBSET (0 .. N)
    OBVIOUS
  <2> HIDE DEF S
  <2>4. S = 0 .. N
    BY <1>1, <2>1, <2>2, <2>3, Upwards
  <2>5. N \in S
    BY <1>1, <2>4
  <2> QED BY <2>5 DEF S
<1>4. Def(F, N)
  <2> HIDE DEF Def
  <2> QED BY <1>3
<1> HIDE DEF F
<1>5. \A o \in 0 .. N : F[o] = IF o = 0 THEN [w EXCEPT !.libs = @ \ {lib}] ELSE St(F[o - 1], o)
  <2> DEFINE V(o) == IF o = 0 THEN [w EXCEPT !.libs = @ \ {lib}] ELSE St(F[o - 1], o)
  <2>1. F = [o \in 0 .. N |-> V(o)]
    BY <1>4, Zenon
  <2> HIDE DEF V, Def, N
  <2>2. \A o \in 0 .. N : F[o] = V(o)
    BY <2>1, Zenon
  <2> QED BY <2>2 DEF V
<1> HIDE DEF Def
<1>6. F[0] = [w EXCEPT !.libs = @ \ {lib}]
  BY <1>1, <1>5
<1>7. \A o \in 1 .. N : F[o] = St(F[o - 1], o)
  BY <1>1, <1>5
<1> DEFINE Good(G) == /\ G[0] = [w EXCEPT !.libs = @ \ {lib}]
                      /\ \A o \in 1 .. Len(w.need) : G[o] = IF w.need[o].lib = lib THEN DefineGroup(G[o - 1], o) ELSE G[o - 1]
                      /\ RemoveNeededOf(w, lib) = G[Len(w.need)]
<1>8. Good(F)
  BY <1>2, <1>6, <1>7 DEF St
<1> HIDE DEF Good
<1>9. \E G : Good(G)
  BY <1>8
<1> QED BY <1>9, Zenon DEF Good

\* The symbols which are renamed.
LEMMA RebindSteps ==
  ASSUME NEW w, NEW to, Len(to) \in Nat
  PROVE  \E F : /\ F[0] = w
                /\ \A o \in 1 .. Len(to) : F[o] = Rebind(F[o - 1], o, to[o])
                /\ RebindAll(w, to) = F[Len(to)]
<1> DEFINE N == Len(to)
           St(x, o) == Rebind(x, o, to[o])
           Def(f, n) == f = [o \in 0 .. n |-> IF o = 0 THEN w ELSE St(f[o - 1], o)]
           F == CHOOSE f : Def(f, N)
<1>1. N \in Nat
  OBVIOUS
<1>2. RebindAll(w, to) = F[Len(to)]
  BY DEF RebindAll
<1> HIDE DEF St
<1>3. \E f : Def(f, N)
  <2> DEFINE S == {n \in 0 .. N : \E f : Def(f, n)}
  <2>1. 0 \in S
    <3> DEFINE f == [o \in 0 .. 0 |-> w]
    <3>1. \A o \in 0 .. 0 : f[o] = IF o = 0 THEN w ELSE St(f[o - 1], o)
      OBVIOUS
    <3>2. f = [o \in 0 .. 0 |-> f[o]]
      OBVIOUS
    <3> HIDE DEF f
    <3>3. Def(f, 0)
      BY <3>1, <3>2, Zenon
    <3> QED BY <1>1, <3>3
  <2>2. ASSUME NEW n \in 0 .. (N - 1), n \in S PROVE n + 1 \in S
    <3>1. PICK f : Def(f, n)
      BY <2>2
    <3> DEFINE g == [o \in 0 .. (n + 1) |-> IF o <= n THEN f[o] ELSE St(f[n], n + 1)]
    <3>2. \A o \in 0 .. n : f[o] = IF o = 0 THEN w ELSE St(f[o - 1], o)
      <4> DEFINE V(o) == IF o = 0 THEN w ELSE St(f[o - 1], o)
      <4>1. f = [o \in 0 .. n |-> V(o)]
        BY <3>1, Zenon
      <4> HIDE DEF V, Def
      <4>2. \A o \in 0 .. n : f[o] = V(o)
        BY <4>1, Zenon
      <4> QED BY <4>2 DEF V
    <3>3. \A o \in 0 .. n : g[o] = f[o]
      OBVIOUS
    <3>4. g[n + 1] = St(f[n], n + 1)
      OBVIOUS
    <3>5. g = [o \in 0 .. (n + 1) |-> g[o]]
      OBVIOUS
    <3> HIDE DEF g, Def
    <3>6. ASSUME NEW o \in 0 .. (n + 1)
          PROVE  g[o] = IF o = 0 THEN w ELSE St(g[o - 1], o)
      <4>1. CASE o = n + 1
        BY <4>1, <3>3, <3>4
      <4>2. CASE o # n + 1
        <5>1. o \in 0 .. n
          BY <4>2
        <5>2. g[o] = f[o] /\ f[o] = IF o = 0 THEN w ELSE St(f[o - 1], o)
          BY <3>2, <3>3, <5>1
        <5>3. CASE o = 0
          BY <5>2, <5>3
        <5>4. CASE o # 0
          BY <5>1, <5>4, <3>3, <5>2
        <5> QED BY <5>3, <5>4
      <4> QED BY <4>1, <4>2
    <3>7. Def(g, n + 1)
      BY <3>5, <3>6, Zenon DEF Def
    <3>8. n + 1 \in 0 .. N
      BY <1>1
    <3> QED BY <3>7, <3>8
  <2>3. S \in SUBSET (0 .. N)
    OBVIOUS
  <2> HIDE DEF S
  <2>4. S = 0 .. N
    BY <1>1, <2>1, <2>2, <2>3, Upwards
  <2>5. N \in S
    BY <1>1, <2>4
  <2> QED BY <2>5 DEF S
<1>4. Def(F, N)
  <2> HIDE DEF Def
  <2> QED BY <1>3
<1> HIDE DEF F
<1>5. \A o \in 0 .. N : F[o] = IF o = 0 THEN w ELSE St(F[o - 1], o)
  <2> DEFINE V(o) == IF o = 0 THEN w ELSE St(F[o - 1], o)
  <2>1. F = [o \in 0 .. N |-> V(o)]
    BY <1>4, Zenon
  <2> HIDE DEF V, Def, N
  <2>2. \A o \in 0 .. N : F[o] = V(o)
    BY <2>1, Zenon
  <2> QED BY <2>2 DEF V
<1> HIDE DEF Def
<1>6. F[0] = w
  BY <1>1, <1>5
<1>7. \A o \in 1 .. N : F[o] = St(F[o - 1], o)
  BY <1>1, <1>5
<1> DEFINE Good(G) == /\ G[0] = w
                      /\ \A o \in 1 .. Len(to) : G[o] = Rebind(G[o - 1], o, to[o])
                      /\ RebindAll(w, to) = G[Len(to)]
<1>8. Good(F)
  BY <1>2, <1>6, <1>7 DEF St
<1> HIDE DEF Good
<1>9. \E G : Good(G)
  BY <1>8
<1> QED BY <1>9, Zenon DEF Good

\* The items of a group become definitions, one after the other...
LEMMA DefiningItems ==
  ASSUME NEW m, NEW d, NEW w, Editing(w, m, d), NEW items, List(items)
  PROVE  Editing(DefineItems(w, items), m, d) /\ DefineItems(w, items).need = w.need
<1> DEFINE n == Len(items)
           Good(x) == Editing(x, m, d) /\ x.need = w.need
<1>1. n \in Nat
  BY ListIs
<1>2. PICK F : /\ F[0] = w
               /\ \A o \in 1 .. n : F[o] = IF Own(F[o - 1], items[o]) THEN AddVerdef(F[o - 1], items[o].ver, items[o].idx)
                                           ELSE F[o - 1]
               /\ DefineItems(w, items) = F[n]
  BY DefineItemsSteps
<1> DEFINE S == {o \in 0 .. n : Good(F[o])}
<1>3. 0 \in S
  BY <1>1, <1>2
<1>4. ASSUME NEW o \in 0 .. (n - 1), o \in S PROVE o + 1 \in S
  <2> DEFINE p == o + 1
             x == F[o]
  <2>1. p \in 1 .. n /\ p \in 0 .. n /\ p - 1 = o
    BY <1>1
  <2>2. Good(x)
    BY <1>4
  <2> HIDE DEF p, n
  <2>3. F[p] = IF Own(x, items[p]) THEN AddVerdef(x, items[p].ver, items[p].idx) ELSE x
    BY <1>2, <2>1
  <2> HIDE DEF x
  <2>4. Good(AddVerdef(x, items[p].ver, items[p].idx))
    BY <2>2, AddingVerdef
  <2>5. Good(F[p])
    BY <2>2, <2>3, <2>4
  <2>6. p \in S
    BY <2>1, <2>5
  <2> QED BY <2>6 DEF p
<1>5. S \in SUBSET (0 .. n)
  OBVIOUS
<1> HIDE DEF S, n
<1>6. S = 0 .. n
  BY <1>1, <1>3, <1>4, <1>5, Upwards
<1>7. n \in S
  BY <1>1, <1>6
<1> QED BY <1>2, <1>7 DEF S

\* ...and their group is deleted: what is required of a library which is removed.
LEMMA DefiningGroup ==
  ASSUME NEW m, NEW d, NEW w, Editing(w, m, d), NEW k \in DOMAIN w.need
  PROVE  Editing(DefineGroup(w, k), m, d) /\ DOMAIN DefineGroup(w, k).need = DOMAIN w.need
<1> DEFINE x == [w EXCEPT !.need[k].del = TRUE, !.mod = @ \cup {"need", "def"}]
           items == w.need[k].items
<1>1. Editing(x, m, d)
  BY RemovingGroup
<1>2. DOMAIN x.need = DOMAIN w.need
  BY DEF Editing, Fields
<1>3. List(items)
  BY DEF Editing, Listed, GroupIs
<1>4. DefineGroup(w, k) = DefineItems(x, items)
  BY DEF DefineGroup
<1> HIDE DEF x, items
<1> QED BY <1>1, <1>2, <1>3, <1>4, DefiningItems

\* erwNNE_(dhdrs_remove_needed)
LEMMA RemovingNeeded ==
  ASSUME NEW m, NEW d, NEW w, Editing(w, m, d), NEW lib
  PROVE  Editing(RemoveNeededOf(w, lib), m, d)
<1>1. CASE lib \notin w.libs
  BY <1>1 DEF RemoveNeededOf
<1>2. CASE lib \in w.libs
  <2> DEFINE n == Len(w.need)
             w0 == [w EXCEPT !.libs = @ \ {lib}]
             Good(x) == Editing(x, m, d) /\ DOMAIN x.need = DOMAIN w.need
  <2>1. List(w.need) /\ Fields \subseteq DOMAIN w
    BY DEF Editing, Listed
  <2>2. n \in Nat /\ DOMAIN w.need = 1 .. n
    BY <2>1, ListIs
  <2>3. PICK F : /\ F[0] = w0
                 /\ \A o \in 1 .. n : F[o] = IF w.need[o].lib = lib THEN DefineGroup(F[o - 1], o) ELSE F[o - 1]
                 /\ RemoveNeededOf(w, lib) = F[n]
    BY <1>2, <2>1, RemoveNeededSteps
  <2>4. Good(w0)
    <3>1. Fields \subseteq DOMAIN w0 /\ w0.need = w.need /\ w0.def = w.def /\ w0.feats = w.feats /\ w0.mod = w.mod
      BY <2>1 DEF Fields
    <3> HIDE DEF w0
    <3> QED BY <3>1, EditSame
  <2> HIDE DEF w0
  <2> DEFINE S == {o \in 0 .. n : Good(F[o])}
  <2>5. 0 \in S
    BY <2>2, <2>3, <2>4
  <2>6. ASSUME NEW o \in 0 .. (n - 1), o \in S PROVE o + 1 \in S
    <3> DEFINE p == o + 1
               x == F[o]
    <3>1. p \in 1 .. n /\ p \in 0 .. n /\ p - 1 = o
      BY <2>2
    <3>2. Good(x)
      BY <2>6
    <3> HIDE DEF p, n
    <3>3. F[p] = IF w.need[p].lib = lib THEN DefineGroup(x, p) ELSE x
      BY <2>3, <3>1
    <3> HIDE DEF x
    <3>4. p \in DOMAIN x.need
      BY <2>2, <3>1, <3>2
    <3>5. Good(DefineGroup(x, p))
      BY <3>2, <3>4, DefiningGroup
    <3>6. Good(F[p])
      BY <3>2, <3>3, <3>5
    <3>7. p \in S
      BY <3>1, <3>6
    <3> QED BY <3>7 DEF p
  <2>7. S \in SUBSET (0 .. n)
    OBVIOUS
  <2> HIDE DEF S, n
  <2>8. S = 0 .. n
    BY <2>2, <2>5, <2>6, <2>7, Upwards
  <2>9. n \in S
    BY <2>2, <2>8
  <2> QED BY <2>3, <2>9 DEF S
<1> QED BY <1>1, <1>2

\* The renamer gives one symbol after the other its new version.
LEMMA RebindingAll ==
  ASSUME NEW m, NEW d, NEW w, Editing(w, m, d), NEW to, Len(to) \in Nat, DOMAIN to = 1 .. Len(to),
         \A s \in DOMAIN to : to[s].kind \in {"keep", "plain", "bind"}
  PROVE  Editing(RebindAll(w, to), m, d)
<1> DEFINE n == Len(to)
<1>1. PICK F : /\ F[0] = w
               /\ \A o \in 1 .. n : F[o] = Rebind(F[o - 1], o, to[o])
               /\ RebindAll(w, to) = F[n]
  BY RebindSteps
<1> DEFINE S == {o \in 0 .. n : Editing(F[o], m, d)}
<1>2. 0 \in S
  BY <1>1
<1>3. ASSUME NEW o \in 0 .. (n - 1), o \in S PROVE o + 1 \in S
  <2> DEFINE p == o + 1
             x == F[o]
  <2>1. p \in 1 .. n /\ p \in 0 .. n /\ p - 1 = o /\ p \in DOMAIN to
    OBVIOUS
  <2>2. Editing(x, m, d)
    BY <1>3
  <2> HIDE DEF p, n
  <2>3. F[p] = Rebind(x, p, to[p])
    BY <1>1, <2>1
  <2> HIDE DEF x
  <2>4. Editing(F[p], m, d)
    BY <2>1, <2>2, <2>3, Rebinding
  <2>5. p \in S
    BY <2>1, <2>4
  <2> QED BY <2>5 DEF p
<1>4. S \in SUBSET (0 .. n) /\ n \in Nat
  OBVIOUS
<1> HIDE DEF S, n
<1>5. S = 0 .. n
  BY <1>2, <1>3, <1>4, Upwards
<1>6. n \in S
  BY <1>4, <1>5
<1> QED BY <1>1, <1>6 DEF S

-----------------------------------------------------------------------------
(* Loading.                                                                 *)

\* What is loaded from a list: a group for each structure in it.
LEMMA ListAtIs ==
  ASSUME NEW m, NEW head
  PROVE  ListAt(m, head) = [k \in DOMAIN ChainAt(m, head) |-> GroupAt(m, ChainAt(m, head)[k])]
BY DEF ListAt, Map, GroupAt, ItemAt

\* The structures of a list are a list.
LEMMA ChainList ==
  ASSUME NEW m, IsFiniteSet(DOMAIN m), NEW head
  PROVE  LET c == ChainAt(m, head) IN
         List(c) /\ Len(c) \in Nat /\ DOMAIN c = 1 .. Len(c)
<1> DEFINE c == ChainAt(m, head)
           N == Cardinality(DOMAIN m)
<1>1. N \in Nat
  BY FS_CardinalityType
<1>2. PICK F : c = Chained(m, F)
  BY ChainSteps
<1> DEFINE S == {n \in 0 .. N - 1 : F[n] # 0}
           l == Cardinality(S)
<1>3. l \in Nat
  <2>1. IsFiniteSet(0 .. N - 1)
    BY <1>1, FS_Interval
  <2>2. IsFiniteSet(S)
    BY <2>1, FS_Subset
  <2> QED BY <2>2, FS_CardinalityType
<1>4. c = [k \in 1 .. l |-> F[k - 1]]
  BY <1>2 DEF Chained
<1> HIDE DEF c, l
<1>5. c = [k \in 1 .. l |-> c[k]]
  BY <1>4
<1>6. List(c) /\ Len(c) = l /\ DOMAIN c = 1 .. l
  BY <1>3, <1>5, ListMade
<1> QED BY <1>3, <1>6 DEF c

\* A list which has been loaded, and in which every entry has its place.
LEMMA EndsTied ==
  ASSUME NEW m, Memory(m), NEW head, Ends(m, head), NEW s, DOMAIN s = DOMAIN ChainAt(m, head),
         \A k \in DOMAIN s : s[k].addr = ChainAt(m, head)[k]
  PROVE  Tied(m, head, s)
<1> DEFINE c == ChainAt(m, head)
           n == Len(c)
<1>1. n \in Nat /\ DOMAIN c = 1 .. n
  BY ChainList DEF Memory
<1>2. /\ \A k \in 1 .. n : c[k] \in DOMAIN m /\ c[k] # 0
      /\ head = IF c = <<>> THEN 0 ELSE c[1]
      /\ \A k \in 1 .. n : m[c[k]].next = IF k < n THEN c[k + 1] ELSE 0
  BY <1>1 DEF Ends, Range, Memory
<1>3. DOMAIN s = 1 .. n /\ \A k \in 1 .. n : s[k].addr = c[k]
  BY <1>1
<1>4. c = <<>> <=> n = 0
  <2>1. c \in Seq(Values(c))
    BY ChainList DEF Memory, List
  <2> HIDE DEF c
  <2> QED BY <2>1
<1> HIDE DEF c, n
<1>5. Follows(s, 0, head)
  <2>1. CASE n = 0
    BY <1>2, <1>3, <1>4, <2>1 DEF Follows
  <2>2. CASE n # 0
    <3> DEFINE one == 1
    <3>1. one \in 1 .. n /\ head = c[one] /\ \A i \in DOMAIN s : ~(0 < i /\ i < one)
      BY <1>1, <1>2, <1>3, <1>4, <2>2
    <3>2. one > 0
      OBVIOUS
    <3> HIDE DEF one
    <3> QED BY <1>2, <1>3, <3>1, <3>2 DEF Follows
  <2> QED BY <2>1, <2>2
<1>6. ASSUME NEW k \in 1 .. n PROVE Follows(s, k, m[c[k]].next)
  <2>1. CASE k < n
    <3> DEFINE p == k + 1
    <3>1. p \in 1 .. n /\ p > k /\ m[c[k]].next = c[p] /\ \A i \in DOMAIN s : ~(k < i /\ i < p)
      BY <1>1, <1>2, <1>3, <2>1
    <3> HIDE DEF p
    <3> QED BY <1>2, <1>3, <3>1 DEF Follows
  <2>2. CASE ~(k < n)
    BY <1>1, <1>2, <1>3, <2>2 DEF Follows
  <2> QED BY <2>1, <2>2
<1> QED BY <1>2, <1>3, <1>5, <1>6 DEF Tied, PlacedAt

\* A group which is loaded agrees with the file, and nothing of it is dirty.
LEMMA GroupLoaded ==
  ASSUME NEW m, Memory(m), NEW g \in DOMAIN m, Ends(m, m[g].aux)
  PROVE  LET h == GroupAt(m, g)
             c == ChainAt(m, m[g].aux) IN
         /\ GroupIs(m, h) /\ h.lib = m[g].lib /\ h.addr = g /\ ~h.dirty /\ ~h.del
         /\ List(h.items) /\ Len(h.items) = Len(c) /\ Len(c) \in Nat /\ DOMAIN h.items = 1 .. Len(c) /\ DOMAIN c = 1 .. Len(c)
         /\ \A j \in DOMAIN h.items : h.items[j] = ItemAt(m, g, c[j]) /\ c[j] \in DOMAIN m
<1> DEFINE h == GroupAt(m, g)
           c == ChainAt(m, m[g].aux)
           n == Len(c)
           s == [j \in DOMAIN c |-> ItemAt(m, g, c[j])]
<1>1. n \in Nat /\ DOMAIN c = 1 .. n /\ \A j \in 1 .. n : c[j] \in DOMAIN m
  BY ChainList DEF Memory, Ends, Range
<1>2. /\ GroupFields \subseteq DOMAIN h /\ h.lib = m[g].lib /\ h.addr = g /\ ~h.dirty /\ ~h.del /\ h.items = s
  BY DEF GroupAt, GroupFields
<1> HIDE DEF h
<1>3. \A j \in DOMAIN c : s[j] = ItemAt(m, g, c[j])
  OBVIOUS
<1>4. s = [j \in 1 .. n |-> s[j]]
  BY <1>1
<1> HIDE DEF s, n
<1>5. List(s) /\ Len(s) = n /\ DOMAIN s = 1 .. n
  BY <1>1, <1>4, ListMade
<1>6. \A j \in 1 .. n : s[j].addr = c[j]
  <2>1. \A a : ItemAt(m, g, a).addr = a
    BY DEF ItemAt
  <2> QED BY <1>1, <1>3, <2>1
<1> HIDE DEF c
<1>7. Tied(m, m[g].aux, s)
  BY <1>1, <1>5, <1>6, EndsTied DEF c
<1>8. \A j \in DOMAIN s : ItemIs(m, m[g].lib, s[j])
  <2> SUFFICES ASSUME NEW j \in 1 .. n PROVE ItemIs(m, m[g].lib, s[j])
    BY <1>5
  <2> DEFINE a == c[j]
             i == s[j]
  <2>1. i = ItemAt(m, g, a) /\ a \in DOMAIN m /\ a \in Nat
    BY <1>1, <1>3 DEF Memory
  <2> HIDE DEF a, i
  <2>2. /\ ItemFields \subseteq DOMAIN i /\ i.addr = a /\ i.ver = m[a].ver /\ i.weak = m[a].weak
        /\ i.idx = IF m[g].lib # None THEN m[a].idx ELSE IF m[g].aux = a THEN m[g].idx ELSE 0
    BY <2>1 DEF ItemAt, ItemFields
  <2>3. a # 0
    BY <2>1 DEF Memory
  <2>4. ItemIs(m, m[g].lib, i)
    BY <2>1, <2>2, <2>3 DEF ItemIs
  <2> QED BY <2>4 DEF i
<1>9. g \in Nat /\ g # 0
  BY DEF Memory
<1>10. GroupIs(m, h)
  BY <1>2, <1>5, <1>7, <1>8, <1>9 DEF GroupIs
<1> QED BY <1>1, <1>2, <1>3, <1>5, <1>10 DEF h, c, n

\* A list which is loaded agrees with the file, and nothing of it is dirty.
LEMMA ListLoaded ==
  ASSUME NEW m, Memory(m), NEW head, Ends(m, head),
         \A g \in Tops(m, head) : Ends(m, m[g].aux) /\ Held(m, g) \cap Tops(m, head) = {},
         \A g, h \in Tops(m, head) : g # h => Held(m, g) \cap Held(m, h) = {}
  PROVE  LET gs == ListAt(m, head)
             c == ChainAt(m, head) IN
         /\ Listed(m, head, gs) /\ Clean(gs)
         /\ DOMAIN gs = DOMAIN c /\ \A k \in DOMAIN c : gs[k] = GroupAt(m, c[k]) /\ c[k] \in Tops(m, head) /\ c[k] \in DOMAIN m
         /\ \A a \in AddrsOf(gs) : a \in Tops(m, head) \/ \E g \in Tops(m, head) : a \in Held(m, g)
<1> DEFINE gs == ListAt(m, head)
           c == ChainAt(m, head)
           n == Len(c)
           e(k) == ChainAt(m, m[c[k]].aux)
<1>1. /\ n \in Nat /\ DOMAIN c = 1 .. n
      /\ \A k \in 1 .. n : c[k] \in Tops(m, head) /\ c[k] \in DOMAIN m
      /\ \A j, k \in 1 .. n : c[j] = c[k] => j = k
  BY ChainList DEF Memory, Ends, Range, Tops
<1>2. gs = [k \in DOMAIN c |-> GroupAt(m, c[k])]
  BY ListAtIs
<1> HIDE DEF gs, c, n
<1>3. List(gs) /\ DOMAIN gs = 1 .. n /\ \A k \in 1 .. n : gs[k] = GroupAt(m, c[k])
  BY <1>1, <1>2, ListMade
<1>4. ASSUME NEW k \in 1 .. n
      PROVE  LET h == gs[k] IN
             /\ GroupIs(m, h) /\ h.addr = c[k] /\ ~h.dirty /\ ~h.del
             /\ Len(h.items) \in Nat /\ DOMAIN h.items = 1 .. Len(h.items) /\ DOMAIN e(k) = DOMAIN h.items
             /\ \A j \in DOMAIN h.items : h.items[j] = ItemAt(m, c[k], e(k)[j]) /\ e(k)[j] \in DOMAIN m
  <2>1. c[k] \in DOMAIN m /\ Ends(m, m[c[k]].aux) /\ gs[k] = GroupAt(m, c[k])
    BY <1>1, <1>3
  <2> DEFINE g == c[k]
  <2> HIDE DEF g
  <2>2. g \in DOMAIN m /\ Ends(m, m[g].aux)
    BY <2>1 DEF g
  <2>3. LET h == GroupAt(m, g)
            b == ChainAt(m, m[g].aux) IN
        /\ GroupIs(m, h) /\ h.lib = m[g].lib /\ h.addr = g /\ ~h.dirty /\ ~h.del
        /\ List(h.items) /\ Len(h.items) = Len(b) /\ Len(b) \in Nat /\ DOMAIN h.items = 1 .. Len(b) /\ DOMAIN b = 1 .. Len(b)
        /\ \A j \in DOMAIN h.items : h.items[j] = ItemAt(m, g, b[j]) /\ b[j] \in DOMAIN m
    BY <2>2, GroupLoaded
  <2> QED BY <2>1, <2>3 DEF g
<1>5. ASSUME NEW k \in 1 .. n, NEW i \in Pos(gs[k])
      PROVE  /\ i = 0 => Addr(gs[k], i) = c[k]
             /\ i # 0 => i \in DOMAIN e(k) /\ Addr(gs[k], i) = e(k)[i] /\ Addr(gs[k], i) \in Held(m, c[k])
  <2>1. CASE i = 0
    BY <1>4, <2>1 DEF Addr
  <2>2. CASE i # 0
    <3>1. i \in DOMAIN gs[k].items /\ i \in DOMAIN e(k)
      BY <1>4, <2>2 DEF Pos
    <3>2. gs[k].items[i] = ItemAt(m, c[k], e(k)[i])
      BY <1>4, <3>1
    <3>3. \A g, a : ItemAt(m, g, a).addr = a
      BY DEF ItemAt
    <3>4. Addr(gs[k], i) = e(k)[i]
      BY <2>2, <3>2, <3>3 DEF Addr
    <3> QED BY <2>2, <3>1, <3>4 DEF Held, Range
  <2> QED BY <2>1, <2>2
<1>6. Apart(gs)
  <2> SUFFICES ASSUME NEW k \in 1 .. n, NEW l \in 1 .. n, NEW i \in Pos(gs[k]), NEW j \in Pos(gs[l]),
                      Addr(gs[k], i) = Addr(gs[l], j)
               PROVE  k = l /\ i = j
    BY <1>3 DEF Apart
  <2>1. c[k] \in Tops(m, head) /\ c[l] \in Tops(m, head)
    BY <1>1
  <2>2. CASE i = 0 /\ j = 0
    BY <1>1, <1>5, <2>2
  <2>3. CASE i = 0 /\ j # 0
    BY <1>5, <2>1, <2>3
  <2>4. CASE i # 0 /\ j = 0
    <3>1. Addr(gs[k], i) \in Held(m, c[k]) /\ Addr(gs[k], i) = c[l]
      BY <1>5, <2>4
    <3>2. Held(m, c[k]) \cap Tops(m, head) = {}
      BY <2>1
    <3> QED BY <2>1, <3>1, <3>2
  <2>5. CASE i # 0 /\ j # 0
    <3>1. Addr(gs[k], i) \in Held(m, c[k]) /\ Addr(gs[k], i) \in Held(m, c[l])
      BY <1>5, <2>5
    <3>2. c[k] = c[l]
      BY <2>1, <3>1
    <3>3. k = l
      BY <1>1, <3>2
    <3>4. i \in DOMAIN e(k) /\ j \in DOMAIN e(k) /\ e(k)[i] = e(k)[j]
      BY <1>5, <2>5, <3>3
    <3>5. \A p, q \in DOMAIN e(k) : e(k)[p] = e(k)[q] => p = q
      BY <2>1 DEF Ends
    <3> QED BY <3>3, <3>4, <3>5
  <2> QED BY <2>2, <2>3, <2>4, <2>5
<1>7. Tied(m, head, gs)
  BY <1>1, <1>3, <1>4, EndsTied DEF c
<1>8. Listed(m, head, gs)
  BY <1>3, <1>4, <1>6, <1>7 DEF Listed
<1>9. Clean(gs)
  <2>1. \A g, a : ~ItemAt(m, g, a).dirty /\ ~ItemAt(m, g, a).del
    BY DEF ItemAt
  <2> QED BY <1>3, <1>4, <2>1 DEF Clean
<1>10. ASSUME NEW a \in AddrsOf(gs)
       PROVE  a \in Tops(m, head) \/ \E g \in Tops(m, head) : a \in Held(m, g)
  <2>1. PICK k \in 1 .. n : \E i \in Pos(gs[k]) : a = Addr(gs[k], i)
    BY <1>3 DEF AddrsOf
  <2>2. PICK i \in Pos(gs[k]) : a = Addr(gs[k], i)
    BY <2>1
  <2> QED BY <1>1, <1>5, <2>2
<1> QED BY <1>1, <1>3, <1>8, <1>9, <1>10 DEF gs, c

\* A file which has been loaded.
LEMMA Loaded ==
  ASSUME NEW f \in Files
  PROVE  Memory(f.mem) /\ Editing(Load(f), f.mem, [need |-> f.need, def |-> f.def])
<1> DEFINE m == f.mem
           ns == ListAt(m, f.need)
           ds == ListAt(m, f.def)
           w == Load(f)
           d == [need |-> f.need, def |-> f.def]
           N == Tops(m, f.need)
           D == Tops(m, f.def)
<1>1. /\ Memory(m) /\ Ends(m, f.need) /\ Ends(m, f.def) /\ \A g \in N \cup D : Ends(m, m[g].aux)
      /\ N \cap D = {}
      /\ \A g \in N \cup D : Held(m, g) \cap (N \cup D) = {}
      /\ \A g, h \in N \cup D : g # h => Held(m, g) \cap Held(m, h) = {}
      /\ \A g \in N : m[g].lib # None
      /\ \A g \in D : m[g].lib = None /\ Held(m, g) # {}
      /\ \A x \in f.feats : \E g \in N : m[g].lib \in Libcs /\ \E a \in Held(m, g) : m[a].ver = x
  BY VersionsAssumption DEF WellFormed, Memory, Tops, Held
<1>2. /\ Fields \subseteq DOMAIN w /\ w.need = ns /\ w.def = ds /\ w.feats = f.feats
  BY DEF Load, Fields
<1>3. d.need = f.need /\ d.def = f.def
  OBVIOUS
<1> HIDE DEF w, d, m
<1>4. /\ Listed(m, f.need, ns) /\ Clean(ns)
      /\ DOMAIN ns = DOMAIN ChainAt(m, f.need)
      /\ \A k \in DOMAIN ns : /\ ns[k] = GroupAt(m, ChainAt(m, f.need)[k]) /\ ChainAt(m, f.need)[k] \in N
                              /\ ChainAt(m, f.need)[k] \in DOMAIN m
      /\ \A a \in AddrsOf(ns) : a \in N \/ \E g \in N : a \in Held(m, g)
  BY <1>1, ListLoaded
<1>5. /\ Listed(m, f.def, ds) /\ Clean(ds)
      /\ DOMAIN ds = DOMAIN ChainAt(m, f.def)
      /\ \A k \in DOMAIN ds : /\ ds[k] = GroupAt(m, ChainAt(m, f.def)[k]) /\ ChainAt(m, f.def)[k] \in D
                              /\ ChainAt(m, f.def)[k] \in DOMAIN m
      /\ \A a \in AddrsOf(ds) : a \in D \/ \E g \in D : a \in Held(m, g)
  BY <1>1, ListLoaded
<1>6. \A g : GroupAt(m, g).lib = m[g].lib
  BY DEF GroupAt
<1>7. Needs(ns)
  BY <1>1, <1>4, <1>6 DEF Needs
<1>8. Disjoint(ds, ns)
  <2>1. \A a : ~(a \in AddrsOf(ds) /\ a \in AddrsOf(ns))
    <3> SUFFICES ASSUME NEW a, a \in AddrsOf(ds), a \in AddrsOf(ns) PROVE FALSE
      OBVIOUS
    <3>1. a \in D \/ \E g \in D : a \in Held(m, g)
      BY <1>5
    <3>2. a \in N \/ \E g \in N : a \in Held(m, g)
      BY <1>4
    <3>3. CASE a \in D
      BY <1>1, <3>2, <3>3
    <3>4. CASE \E g \in D : a \in Held(m, g)
      <4>1. PICK g \in D : a \in Held(m, g)
        BY <3>4
      <4>2. a \notin N
        BY <1>1, <4>1
      <4>3. PICK h \in N : a \in Held(m, h)
        BY <3>2, <4>2
      <4>4. g # h
        BY <1>1
      <4> QED BY <1>1, <4>1, <4>3, <4>4
    <3> QED BY <3>1, <3>3, <3>4
  <2> QED BY <2>1, DisjointIs
<1>9. ASSUME NEW k \in DOMAIN ds PROVE Defines(m, ds[k])
  <2> DEFINE g == ChainAt(m, f.def)[k]
             c == ChainAt(m, m[g].aux)
             h == GroupAt(m, g)
  <2>1. g \in D /\ g \in DOMAIN m /\ ds[k] = h
    BY <1>5
  <2>2. m[g].lib = None /\ Held(m, g) # {} /\ Ends(m, m[g].aux)
    BY <1>1, <2>1
  <2> HIDE DEF g
  <2>3. /\ h.lib = m[g].lib /\ h.addr = g
        /\ Len(c) \in Nat /\ DOMAIN h.items = 1 .. Len(c) /\ DOMAIN c = 1 .. Len(c)
        /\ \A j \in DOMAIN h.items : h.items[j] = ItemAt(m, g, c[j])
    BY <1>1, <2>1, <2>2, GroupLoaded
  <2> HIDE DEF h
  <2>4. c # <<>> /\ 1 \in DOMAIN c
    <3>1. PICK j \in DOMAIN c : TRUE
      BY <2>2 DEF Held, Range
    <3> HIDE DEF c
    <3> QED BY <2>3, <3>1
  <2>5. m[g].aux = c[1] /\ \A j \in DOMAIN c : c[j] = c[1] => j = 1
    BY <2>2, <2>4 DEF Ends
  <2> HIDE DEF c
  <2>6. \A a : ~ItemAt(m, g, a).del /\ ItemAt(m, g, a).idx = IF m[g].aux = a THEN m[g].idx ELSE 0
    BY <2>2 DEF ItemAt
  <2>7. ASSUME NEW j \in DOMAIN h.items PROVE ~h.items[j].del /\ (j > 1 => h.items[j].idx = 0)
    BY <2>3, <2>5, <2>6
  <2>8. 1 \in DOMAIN h.items /\ h.items[1] = ItemAt(m, g, c[1]) /\ h.items[1].idx = m[g].idx
    BY <2>3, <2>4, <2>5, <2>6
  <2>9. Defines(m, h)
    BY <2>2, <2>3, <2>7, <2>8 DEF Defines
  <2> QED BY <2>1, <2>9
<1>10. ASSUME NEW x \in f.feats PROVE KnownIn(ns, x)
  <2>1. PICK g \in N : m[g].lib \in Libcs /\ \E a \in Held(m, g) : m[a].ver = x
    BY <1>1
  <2>2. PICK a \in Held(m, g) : m[a].ver = x
    BY <2>1
  <2> DEFINE c == ChainAt(m, m[g].aux)
             h == GroupAt(m, g)
  <2>3. PICK k \in DOMAIN ChainAt(m, f.need) : ChainAt(m, f.need)[k] = g
    BY DEF Tops, Range
  <2>4. k \in DOMAIN ns /\ ns[k] = h /\ g \in DOMAIN m
    BY <1>4, <2>3
  <2>5. PICK j \in DOMAIN c : c[j] = a
    BY <2>2 DEF Held, Range
  <2>6. Ends(m, m[g].aux)
    BY <1>1
  <2>7. DOMAIN h.items = DOMAIN c /\ h.items[j] = ItemAt(m, g, c[j])
    BY <1>1, <2>4, <2>6, GroupLoaded, <2>5
  <2> HIDE DEF h, c
  <2>8. h.items[j].ver = x
    BY <2>2, <2>5, <2>7 DEF ItemAt
  <2>9. h.lib \in Libcs
    BY <1>6, <2>1 DEF h
  <2> QED BY <2>4, <2>5, <2>7, <2>8, <2>9 DEF KnownIn
<1>11. Editing(w, m, d)
  BY <1>2, <1>3, <1>4, <1>5, <1>7, <1>8, <1>9, <1>10 DEF Editing, AllDefine
<1> QED BY <1>1, <1>11 DEF m, w, d

-----------------------------------------------------------------------------
(* The invariant.                                                           *)

\* A file which is well-formed is loaded as the invariant has it.
LEMMA Starts == ASSUME Init PROVE IInv
<1>1. PICK f \in Files :
         /\ v = Load(f) /\ mem = f.mem /\ dyn = [need |-> f.need, def |-> f.def]
         /\ pc = "edit"
         /\ hist = [file |-> f, renamed |-> FALSE, target |-> FALSE, reused |-> FALSE,
                    overran |-> FALSE, deleted |-> FALSE]
  BY DEF Init
<1>2. Memory(mem) /\ Editing(v, mem, dyn)
  BY <1>1, Loaded
<1>3. {"overran", "deleted"} \subseteq DOMAIN hist /\ ~hist.overran
  BY <1>1
<1> QED BY <1>1, <1>2, <1>3 DEF IInv, ImageAgrees, InsideAllocation, FeaturesRequired, Written

\* A step of the editing, after which the editing may go on.
LEMMA Edits ==
  ASSUME IInv, Act, pc' = "edit" => Editing(v', mem, dyn), pc' \in {"edit", "failed"},
         {"overran", "deleted"} \subseteq DOMAIN hist', hist'.overran = hist.overran
  PROVE  IInv'
<1>1. pc = "edit" /\ mem' = mem /\ dyn' = dyn /\ Memory(mem) /\ ~hist.overran
  BY DEF Act, IInv
<1>2. pc' = "edit" => Memory(mem') /\ Editing(v', mem', dyn')
  BY <1>1
<1>3. ~hist'.overran /\ pc' # "done"
  BY <1>1
<1>4. ImageAgrees' /\ InsideAllocation' /\ FeaturesRequired'
  BY <1>3 DEF ImageAgrees, InsideAllocation, FeaturesRequired, Written
<1> QED BY <1>2, <1>3, <1>4 DEF IInv

\* Every step keeps the invariant.
LEMMA Steps == ASSUME IInv, [Next]_vars PROVE IInv'
<1>1. CASE UNCHANGED vars
  BY <1>1 DEF vars, IInv, ImageAgrees, InsideAllocation, FeaturesRequired, Written, FileNeed, FileDef
<1>2. CASE Terminated
  BY <1>2 DEF Terminated, vars, IInv, ImageAgrees, InsideAllocation, FeaturesRequired, Written, FileNeed, FileDef
<1>3. CASE Flush
  BY <1>3, FlushKeeps
<1>4. pc = "edit" => Editing(v, mem, dyn) /\ {"overran", "deleted"} \subseteq DOMAIN hist
  BY DEF IInv
<1>5. CASE RemoveVerneed
  BY <1>5, <1>4, RemovingVerneed, Edits DEF RemoveVerneed, Act
<1>6. CASE WeakVerneed
  BY <1>6, <1>4, WeakeningVerneed, Edits DEF WeakVerneed, Act
<1>7. ASSUME NEW lib \in Libs, RemoveNeeded(lib) PROVE IInv'
  BY <1>7, <1>4, RemovingNeeded, Edits DEF RemoveNeeded, Act
<1>8. ASSUME NEW names \in NameSets, ClearVersion(names) PROVE IInv'
  BY <1>8, <1>4, ClearingVersion, Edits DEF ClearVersion, Act
<1>9. ASSUME NEW to \in Renames, NEW target \in BOOLEAN, Rename(to, target) PROVE IInv'
  <2> DEFINE bound == RebindAll(v, to)
  <2>1. /\ Act /\ v' = IF target THEN MarkNewer(bound) ELSE bound
        /\ pc' = IF target /\ BadSymbols(bound) # {} THEN "failed" ELSE pc
        /\ \E b : hist' = [hist EXCEPT !.renamed = TRUE, !.target = target, !.reused = b]
    BY <1>9 DEF Rename
  <2>2. pc = "edit"
    BY <2>1 DEF Act
  <2>3. Len(to) \in Nat /\ DOMAIN to = 1 .. Len(to) /\ \A s \in DOMAIN to : to[s].kind \in {"keep", "plain", "bind"}
    BY VersionsAssumption
  <2>4. Editing(bound, mem, dyn)
    BY <1>4, <2>2, <2>3, RebindingAll
  <2> HIDE DEF bound
  <2>5. Editing(v', mem, dyn)
    BY <2>1, <2>4, MarkingNewer
  <2>6. {"overran", "deleted"} \subseteq DOMAIN hist' /\ hist'.overran = hist.overran
    BY <1>4, <2>1, <2>2
  <2>7. pc' \in {"edit", "failed"}
    BY <2>1, <2>2
  <2> QED BY <2>1, <2>5, <2>6, <2>7, Edits
<1> QED BY <1>1, <1>2, <1>3, <1>5, <1>6, <1>7, <1>8, <1>9 DEF Next

\* The invariant holds.
LEMMA Always == Spec => []IInv
BY Starts, Steps, PTL DEF Spec

\* What vers_ensure_vaddrs places is inside of what it allocates, as long as nothing
\* is deleted, whatever is in the lists and whatever has become of them.
THEOREM InsideAllocationCorrect == Spec => []InsideAllocation
BY Always, PTL DEF IInv

\* The lists which vers_flush leaves in the file are those of the editor, for any
\* file which is well-formed, and however many actions have changed them.
THEOREM ImageAgreesCorrect == Spec => []ImageAgrees
BY Always, PTL DEF IInv

\* A feature which the file still has, and which needs a C library that knows of it,
\* is still required of one.
THEOREM FeaturesRequiredCorrect == Spec => []FeaturesRequired
BY Always, PTL DEF IInv

-----------------------------------------------------------------------------
(* Indices, and the versions they stand for.                                *)

\* The editor has this shape while actions are executed.
LEMMA EditingShape ==
  ASSUME NEW m, NEW d, NEW w, Editing(w, m, d)
  PROVE  Shape(w)
<1>1. /\ Fields \subseteq DOMAIN w /\ Listed(m, d.need, w.need) /\ Needs(w.need)
      /\ Listed(m, d.def, w.def) /\ AllDefine(m, w.def)
  BY DEF Editing
<1>2. \A h, gs : Listed(m, h, gs) => Groups(gs)
  BY DEF Listed, GroupIs, ItemIs, Groups
<1>3. ASSUME NEW k \in DOMAIN w.def PROVE 1 \in DOMAIN w.def[k].items
  BY <1>1, ListIs, EmptySeq DEF Listed, GroupIs, AllDefine, Defines, List
<1> QED BY <1>1, <1>2, <1>3 DEF Shape

-----------------------------------------------------------------------------
(* Edits which leave all items where they are.                              *)

\* Such an edit leaves every item with its index...
LEMMA KinItems ==
  ASSUME NEW w, Shape(w), NEW x, Kin(w, x)
  PROVE  /\ DOMAIN x.need = DOMAIN w.need
         /\ \A g \in DOMAIN w.need : /\ x.need[g].lib = w.need[g].lib /\ (w.need[g].del => x.need[g].del)
                                     /\ \A i \in Items(x, g) : \E h \in Items(w, g) : SameKeys(h, i)
                                     /\ \A h \in Items(w, g) : \E i \in Items(x, g) : SameKeys(h, i)
         /\ \A i \in Firsts(x) : \E h \in Firsts(w) : SameKeys(h, i)
         /\ \A h \in Firsts(w) : \E i \in Firsts(x) : SameKeys(h, i)
<1>1. SameItems(w.need, x.need) /\ SameItems(w.def, x.def)
  BY DEF Kin
<1>2. ASSUME NEW g \in DOMAIN w.need
      PROVE  /\ \A i \in Items(x, g) : \E h \in Items(w, g) : SameKeys(h, i)
             /\ \A h \in Items(w, g) : \E i \in Items(x, g) : SameKeys(h, i)
  BY <1>1 DEF SameItems, Items, Values
<1>3. \A k \in DOMAIN w.def : SameKeys(w.def[k].items[1], x.def[k].items[1])
  BY <1>1 DEF SameItems, Shape
<1>4. DOMAIN x.def = DOMAIN w.def
  BY <1>1 DEF SameItems
<1>5. /\ \A i \in Firsts(x) : \E h \in Firsts(w) : SameKeys(h, i)
      /\ \A h \in Firsts(w) : \E i \in Firsts(x) : SameKeys(h, i)
  BY <1>3, <1>4 DEF Firsts
<1> QED BY <1>1, <1>2, <1>5 DEF SameItems

\* ...and every index with what it stands for.
LEMMA KinIndexed ==
  ASSUME NEW w, Shape(w), Indexed(w), NEW x, Kin(w, x)
  PROVE  Indexed(x)
<1>1. /\ DOMAIN x.need = DOMAIN w.need
      /\ \A g \in DOMAIN w.need : /\ x.need[g].lib = w.need[g].lib /\ (w.need[g].del => x.need[g].del)
                                  /\ \A i \in Items(x, g) : \E h \in Items(w, g) : SameKeys(h, i)
                                  /\ \A h \in Items(w, g) : \E i \in Items(x, g) : SameKeys(h, i)
      /\ \A i \in Firsts(x) : \E h \in Firsts(w) : SameKeys(h, i)
      /\ \A h \in Firsts(w) : \E i \in Firsts(x) : SameKeys(h, i)
  BY KinItems
<1>2. x.base = w.base /\ x.fresh = w.fresh
  BY DEF Kin
<1>3. \A lib, h, i : SameKeys(h, i) /\ Keys \subseteq DOMAIN h => Ref(lib, i) = Ref(lib, h) /\ i.idx = h.idx
  BY DEF SameKeys, Ref
<1>11. /\ \A g \in DOMAIN w.need : \A h \in Items(w, g) : Keys \subseteq DOMAIN h
      /\ \A h \in Firsts(w) : Keys \subseteq DOMAIN h
  BY DEF Indexed, NeedIs, DefIs
<1>4. ASSUME NEW k, IsNeeded(w, k) PROVE IsNeeded(x, k)
  <2>1. PICK g \in DOMAIN w.need : \E h \in Items(w, g) : h.idx = k /\ w.base[k] = Ref(w.need[g].lib, h)
    BY <1>4 DEF IsNeeded
  <2>2. PICK h \in Items(w, g) : h.idx = k /\ w.base[k] = Ref(w.need[g].lib, h)
    BY <2>1
  <2>3. PICK i \in Items(x, g) : SameKeys(h, i)
    BY <1>1
  <2>4. i.idx = k /\ x.base[k] = Ref(x.need[g].lib, i)
    BY <1>11, <1>1, <1>2, <1>3, <2>2, <2>3
  <2> QED BY <1>1, <2>4 DEF IsNeeded
<1>5. \A k : IsDefined(w, k) => IsDefined(x, k)
  BY <1>11, <1>1, <1>2, <1>3 DEF IsDefined
<1>6. BaseIs(x)
  BY <1>2, <1>4, <1>5 DEF Indexed, BaseIs
<1>7. ASSUME NEW g \in DOMAIN x.need, NEW i \in Items(x, g) PROVE NeedIs(x, g, i)
  <2>1. PICK h \in Items(w, g) : SameKeys(h, i)
    BY <1>1
  <2>2. NeedIs(w, g, h) /\ x.need[g].lib = w.need[g].lib /\ (w.need[g].del => x.need[g].del)
    BY <1>1 DEF Indexed
  <2> QED BY <1>2, <1>3, <2>1, <2>2 DEF NeedIs, SameKeys
<1>8. ASSUME NEW i \in Firsts(x) PROVE DefIs(x, i)
  <2>1. PICK h \in Firsts(w) : SameKeys(h, i)
    BY <1>1
  <2>2. DefIs(w, h)
    BY DEF Indexed
  <2> QED BY <1>2, <1>3, <2>1, <2>2 DEF DefIs, SameKeys
<1>9. \A g, h \in DOMAIN x.need : \A i \in Items(x, g), j \in Items(x, h) : i.idx = j.idx => g = h
  <2> TAKE g, h \in DOMAIN x.need
  <2> TAKE i \in Items(x, g), j \in Items(x, h)
  <2> HAVE i.idx = j.idx
  <2>1. PICK i0 \in Items(w, g) : SameKeys(i0, i)
    BY <1>1
  <2>2. PICK j0 \in Items(w, h) : SameKeys(j0, j)
    BY <1>1
  <2>3. i0.idx = j0.idx /\ g \in DOMAIN w.need /\ h \in DOMAIN w.need
    BY <1>11, <1>1, <1>3, <2>1, <2>2
  <2> QED BY <2>3 DEF Indexed
<1>10. \A k \in DOMAIN x.def : ~x.def[k].del
  BY DEF Indexed, Kin, SameItems
<1> QED BY <1>6, <1>7, <1>8, <1>9, <1>10 DEF Indexed

\* If no group is deleted, what is there stays.
LEMMA KinPresent ==
  ASSUME NEW w, Shape(w), Indexed(w), NEW x, Kin(w, x), \A g \in LiveAt(w.need) : ~x.need[g].del, NEW k, Present(w, k)
  PROVE  Present(x, k)
BY KinItems DEF Indexed, NeedIs, DefIs, SameKeys, Present, LiveAt

-----------------------------------------------------------------------------
(* Removing references.                                                     *)

\* Marking leaves all items where they are, and marks those which have the identities.
LEMMA MarkSame ==
  ASSUME NEW gs, Groups(gs), NEW ids
  PROVE  LET hs == Mark(gs, ids) IN
         /\ SameItems(gs, hs)
         /\ \A k \in DOMAIN gs : /\ hs[k].del = gs[k].del
                                 /\ \A j \in DOMAIN gs[k].items : "id" \in DOMAIN gs[k].items[j] =>
                                       hs[k].items[j].id = gs[k].items[j].id /\ (gs[k].items[j].id \in ids => hs[k].items[j].unref)
<1> DEFINE hs == Mark(gs, ids)
           I(k, j) == [gs[k].items[j] EXCEPT !.unref = @ \/ gs[k].items[j].id \in ids]
           T(k) == [j \in DOMAIN gs[k].items |-> I(k, j)]
<1>1. DOMAIN hs = DOMAIN gs /\ \A k \in DOMAIN gs : hs[k] = [gs[k] EXCEPT !.items = T(k)]
  BY DEF Mark
<1> HIDE DEF hs
<1>2. ASSUME NEW k \in DOMAIN gs
      PROVE  /\ hs[k].lib = gs[k].lib /\ hs[k].del = gs[k].del /\ DOMAIN hs[k].items = DOMAIN gs[k].items
             /\ \A j \in DOMAIN gs[k].items :
                   /\ SameKeys(gs[k].items[j], hs[k].items[j])
                   /\ "id" \in DOMAIN gs[k].items[j] =>
                         hs[k].items[j].id = gs[k].items[j].id /\ (gs[k].items[j].id \in ids => hs[k].items[j].unref)
  <2>1. GroupFields \subseteq DOMAIN gs[k] /\ \A j \in DOMAIN gs[k].items : ItemFields \subseteq DOMAIN gs[k].items[j]
    BY DEF Groups
  <2>2. hs[k].items = T(k) /\ hs[k].lib = gs[k].lib /\ hs[k].del = gs[k].del
    BY <1>1, <2>1 DEF GroupFields
  <2>3. \A j \in DOMAIN gs[k].items : T(k)[j] = I(k, j)
    OBVIOUS
  <2>4. DOMAIN T(k) = DOMAIN gs[k].items
    OBVIOUS
  <2> HIDE DEF T
  <2>5. ASSUME NEW j \in DOMAIN gs[k].items
        PROVE  /\ SameKeys(gs[k].items[j], I(k, j))
               /\ "id" \in DOMAIN gs[k].items[j] =>
                     I(k, j).id = gs[k].items[j].id /\ (gs[k].items[j].id \in ids => I(k, j).unref)
    <3>1. ItemFields \subseteq DOMAIN gs[k].items[j]
      BY <2>1
    <3> DEFINE h == gs[k].items[j]
    <3> HIDE DEF h
    <3>2. /\ SameKeys(h, [h EXCEPT !.unref = @ \/ h.id \in ids])
          /\ "id" \in DOMAIN h => [h EXCEPT !.unref = @ \/ h.id \in ids].id = h.id
          /\ h.id \in ids => [h EXCEPT !.unref = @ \/ h.id \in ids].unref
      BY <3>1 DEF h, ItemFields, SameKeys, Keys
    <3> QED BY <3>2 DEF h
  <2> HIDE DEF I
  <2> QED BY <2>2, <2>3, <2>4, <2>5
<1> QED BY <1>1, <1>2 DEF SameItems, hs

\* Removing references leaves all items where they are, and marks those which indices
\* stand for.
LEMMA RefsRemoved ==
  ASSUME NEW w, Shape(w), Indexed(w), NEW K
  PROVE  LET x == RemoveRefs(w, K) IN
         /\ Kin(w, x) /\ Shape(x) /\ x.symver = w.symver /\ x.versions = w.versions /\ w.mod \subseteq x.mod /\ x.libs = w.libs
         /\ \A g \in DOMAIN w.need : x.need[g].del = w.need[g].del
         /\ \A g \in LiveAt(x.need) : \A i \in Items(x, g) : i.idx \in K => i.unref /\ "need" \in x.mod
<1> DEFINE refs == {ref \in {w.base[k] : k \in K \cap DOMAIN w.base} : ref.id # 0}
           ids == {ref.id : ref \in refs}
           new == {IF ref.lib = None THEN "def" ELSE "need" : ref \in refs}
           x == RemoveRefs(w, K)
<1>1. x = [w EXCEPT !.need = Mark(w.need, ids), !.def = Mark(w.def, ids), !.mod = w.mod \cup new]
  BY DEF Shape, RemoveRefs, MarkIn, Map, Mark, Fields
<1> HIDE DEF x
<1>2. /\ Fields \subseteq DOMAIN x /\ x.need = Mark(w.need, ids) /\ x.def = Mark(w.def, ids)
      /\ x.mod = w.mod \cup new /\ x.base = w.base /\ x.fresh = w.fresh /\ x.symver = w.symver /\ x.versions = w.versions
      /\ x.libs = w.libs
  BY <1>1 DEF Fields, Shape
<1> HIDE DEF new, ids
<1>3. Groups(w.need) /\ Groups(w.def)
  BY DEF Shape
<1>4. /\ SameItems(w.need, x.need)
      /\ \A k \in DOMAIN w.need :
            /\ x.need[k].del = w.need[k].del
            /\ \A j \in DOMAIN w.need[k].items : "id" \in DOMAIN w.need[k].items[j] =>
                  /\ x.need[k].items[j].id = w.need[k].items[j].id
                  /\ w.need[k].items[j].id \in ids => x.need[k].items[j].unref
  BY <1>2, <1>3, MarkSame
<1>5. SameItems(w.def, x.def) /\ \A k \in DOMAIN w.def : x.def[k].del = w.def[k].del
  BY <1>2, <1>3, MarkSame
<1>6. Kin(w, x)
  BY <1>2, <1>4, <1>5 DEF Kin
<1>7. ASSUME NEW g \in LiveAt(x.need), NEW i \in Items(x, g), i.idx \in K
      PROVE  i.unref /\ "need" \in x.mod
  <2>1. g \in DOMAIN w.need /\ ~w.need[g].del
    BY <1>4 DEF LiveAt, SameItems
  <2>2. PICK j \in DOMAIN w.need[g].items : i = x.need[g].items[j]
    BY <1>4, <2>1 DEF Items, Values, SameItems
  <2> DEFINE h == w.need[g].items[j]
  <2>3. NeedIs(w, g, h)
    BY <2>1, <2>2 DEF Indexed, Items, Values
  <2>4. SameKeys(h, i)
    BY <1>4, <2>1, <2>2 DEF SameItems
  <2> HIDE DEF h
  <2>5. h.idx \in K /\ h.idx \in DOMAIN w.base /\ w.base[h.idx] = Ref(w.need[g].lib, h) /\ h.id # 0 /\ "id" \in DOMAIN h
    BY <1>7, <2>1, <2>3, <2>4 DEF NeedIs, SameKeys, Keys
  <2>6. w.base[h.idx].id = h.id /\ w.base[h.idx].lib # None
    BY <2>1, <2>5 DEF Ref, Shape, Needs
  <2>7. w.base[h.idx] \in refs
    BY <2>5, <2>6
  <2> HIDE DEF refs
  <2>8. h.id \in ids /\ "need" \in new
    BY <2>6, <2>7 DEF ids, new
  <2> QED BY <1>2, <1>4, <2>1, <2>2, <2>5, <2>8 DEF h
<1>8. Shape(x)
  <2>2. Groups(x.need) /\ Groups(x.def)
    <3>1. ASSUME NEW gs, Groups(gs) PROVE Groups(Mark(gs, ids))
      <4> DEFINE hs == Mark(gs, ids)
                 T(k) == [j \in DOMAIN gs[k].items |-> [gs[k].items[j] EXCEPT !.unref = @ \/ gs[k].items[j].id \in ids]]
      <4>1. hs = [k \in DOMAIN gs |-> hs[k]] /\ \A k \in DOMAIN gs : hs[k] = [gs[k] EXCEPT !.items = T(k)]
        BY DEF Mark
      <4>2. List(gs) /\ Len(gs) \in Nat /\ DOMAIN gs = 1 .. Len(gs)
        BY <3>1, ListIs DEF Groups
      <4> HIDE DEF hs
      <4>3. List(hs) /\ DOMAIN hs = DOMAIN gs
        BY <4>1, <4>2, ListMade
      <4>4. ASSUME NEW k \in DOMAIN gs
            PROVE  /\ GroupFields \subseteq DOMAIN hs[k] /\ List(hs[k].items)
                   /\ \A j \in DOMAIN hs[k].items : ItemFields \subseteq DOMAIN hs[k].items[j]
        <5>1. /\ GroupFields \subseteq DOMAIN gs[k] /\ List(gs[k].items)
              /\ \A j \in DOMAIN gs[k].items : ItemFields \subseteq DOMAIN gs[k].items[j]
          BY <3>1 DEF Groups
        <5>2. GroupFields \subseteq DOMAIN hs[k] /\ hs[k].items = T(k)
          BY <4>1, <5>1 DEF GroupFields
        <5>3. \A j \in DOMAIN T(k) : ItemFields \subseteq DOMAIN T(k)[j]
          BY <5>1 DEF ItemFields
        <5>4. Len(gs[k].items) \in Nat /\ DOMAIN gs[k].items = 1 .. Len(gs[k].items)
          BY <5>1, ListIs
        <5>5. T(k) = [j \in 1 .. Len(gs[k].items) |-> T(k)[j]]
          BY <5>4
        <5> HIDE DEF T
        <5>6. List(T(k))
          BY <5>4, <5>5, ListMade
        <5> QED BY <5>2, <5>3, <5>6
      <4>5. Groups(hs)
        BY <4>3, <4>4 DEF Groups
      <4> QED BY <4>5 DEF hs
    <3> QED BY <1>2, <1>3, <3>1
  <2>3. Needs(x.need)
    BY <1>4 DEF Shape, Needs, SameItems
  <2>4. \A k \in DOMAIN x.def : 1 \in DOMAIN x.def[k].items
    BY <1>5 DEF Shape, SameItems
  <2> QED BY <1>2, <2>2, <2>3, <2>4 DEF Shape
<1> QED BY <1>2, <1>4, <1>6, <1>7, <1>8 DEF x

-----------------------------------------------------------------------------
(* Adding a version.                                                        *)

\* The least element of a set of numbers...
LEMMA MinIs ==
  ASSUME NEW S \in SUBSET Nat, S # {}
  PROVE  Min(S) \in S /\ \A k \in S : Min(S) <= k
BY Least DEF Min

\* ...and the greatest one.
LEMMA MaxIs ==
  ASSUME NEW n \in Nat, NEW S \in SUBSET (0 .. n), S # {}
  PROVE  Max(S) \in S /\ \A k \in S : k <= Max(S)
<1> DEFINE U == {b \in 0 .. n : \A k \in S : k <= b}
<1>1. U \in SUBSET Nat /\ n \in U
  OBVIOUS
<1>2. PICK b \in U : \A k \in U : b <= k
  BY <1>1, Least
<1>3. b \in S
  <2> SUFFICES ASSUME b \notin S PROVE FALSE
    OBVIOUS
  <2>1. b \in Nat /\ b <= n /\ \A k \in S : k \in Nat /\ k <= b /\ k # b
    BY <1>2
  <2>2. b # 0
    <3>1. PICK k \in S : TRUE
      OBVIOUS
    <3> QED BY <2>1, <3>1
  <2>3. b - 1 \in U
    BY <2>1, <2>2
  <2> QED BY <1>2, <2>1, <2>3
<1>4. \E b0 \in S : \A k \in S : b0 >= k
  BY <1>2, <1>3
<1>5. Max(S) \in S /\ \A k \in S : Max(S) >= k
  BY <1>4 DEF Max
<1> QED BY <1>5

\* The entries of base.
LEMMA RefSet ==
  ASSUME NEW w, BaseIs(w), NEW lib, NEW i, i.idx \in Nat
  PROVE  Reset(w.base, SetRef(w.base, lib, i), i.idx, Ref(lib, i))
<1> DEFINE c == Count(w.base)
           n == Max({c - 1, i.idx})
           b == SetRef(w.base, lib, i)
<1>1. c \in Nat /\ c > 1 /\ DOMAIN w.base = 0 .. (c - 1)
  BY DEF BaseIs
<1> HIDE DEF c
<1>2. n \in {c - 1, i.idx} /\ \A k \in {c - 1, i.idx} : k <= n
  <2>1. PICK m \in Nat : c - 1 <= m /\ i.idx <= m
    <3>1. c + i.idx \in Nat /\ c - 1 <= c + i.idx /\ i.idx <= c + i.idx
      BY <1>1
    <3> QED BY <3>1
  <2>2. {c - 1, i.idx} \in SUBSET (0 .. m)
    BY <1>1, <2>1
  <2> QED BY <2>2, MaxIs
<1> HIDE DEF n
<1>3. b = [k \in 0 .. n |-> IF k = i.idx THEN Ref(lib, i) ELSE IF k < c THEN w.base[k] ELSE NoRef]
  BY DEF SetRef, n, c
<1> HIDE DEF b
<1>4. n \in Nat /\ c - 1 <= n /\ i.idx <= n
  BY <1>1, <1>2
<1>5. Count(b) = n + 1
  BY <1>3, <1>4, FS_Interval DEF Count
<1>6. n + 1 >= c /\ DOMAIN b = 0 .. (n + 1 - 1)
  BY <1>1, <1>3, <1>4
<1>7. i.idx \in DOMAIN b /\ b[i.idx] = Ref(lib, i)
  BY <1>3, <1>4
<1>8. \A k \in DOMAIN w.base : k \in DOMAIN b /\ (k # i.idx => b[k] = w.base[k])
  BY <1>1, <1>3, <1>4
<1>9. \A k \in DOMAIN b : k # i.idx /\ b[k] # NoRef => k \in DOMAIN w.base
  BY <1>1, <1>3, <1>4
<1> QED BY <1>4, <1>5, <1>6, <1>7, <1>8, <1>9 DEF b, c, Reset

\* Every index still has what it stands for, if that of the new version was vacant.
LEMMA IndexedAdded ==
  ASSUME NEW w, Shape(w), Indexed(w), NEW x, NEW lib, NEW i, Added(w, x, lib, i), Vacant(w, i.idx),
         lib # None => Free(w, i.idx)
  PROVE  Indexed(x) /\ \A k : Present(w, k) => Present(x, k)
<1>1. /\ x.base = SetRef(w.base, lib, i) /\ x.fresh = w.fresh + 1 /\ i.id = w.fresh
      /\ Keys \subseteq DOMAIN i /\ ~i.del /\ i.idx \in Nat /\ i.idx > 1
  BY DEF Added, Vacant
<1>2. BaseIs(w) /\ \A k \in DOMAIN w.def : ~w.def[k].del
  BY DEF Indexed
<1>3. /\ Count(x.base) \in Nat /\ Count(x.base) > 1 /\ DOMAIN x.base = 0 .. (Count(x.base) - 1) /\ i.idx \in DOMAIN x.base
      /\ x.base[i.idx] = Ref(lib, i)
      /\ \A k \in DOMAIN w.base : k \in DOMAIN x.base /\ (k # i.idx => x.base[k] = w.base[k])
      /\ \A k \in DOMAIN x.base : k # i.idx /\ x.base[k] # NoRef => k \in DOMAIN w.base
  <2>1. Count(w.base) \in Nat /\ Count(w.base) > 1
    BY <1>2 DEF BaseIs
  <2>2. Reset(w.base, SetRef(w.base, lib, i), i.idx, Ref(lib, i))
    BY <1>1, <1>2, RefSet
  <2>3. Reset(w.base, x.base, i.idx, Ref(lib, i))
    BY <1>1, <2>2
  <2> QED BY <2>1, <2>3 DEF Reset
<1>4. w.fresh \in Nat \ {0} /\ x.fresh \in Nat \ {0} /\ w.fresh < x.fresh
  BY <1>1, <1>2 DEF BaseIs
<1>5. /\ \A g \in DOMAIN w.need : /\ g \in DOMAIN x.need /\ x.need[g].lib = w.need[g].lib /\ x.need[g].del = w.need[g].del
                                  /\ Items(w, g) \subseteq Items(x, g)
      /\ \A g \in DOMAIN x.need : \A h \in Items(x, g) : (g \in DOMAIN w.need /\ h \in Items(w, g)) \/ (h = i /\ lib # None /\ x.need[g].lib = lib)
      /\ \A g, h \in DOMAIN x.need : i \in Items(x, g) /\ i \in Items(x, h) /\ lib # None
            => (g = h \/ (g \in DOMAIN w.need /\ i \in Items(w, g)) \/ (h \in DOMAIN w.need /\ i \in Items(w, h)))
  <2>1. CASE lib = None
    BY <2>1 DEF Added, Items
  <2>2. CASE lib # None
    <3>1. PICK p \in DOMAIN x.need :
              /\ DOMAIN x.need = DOMAIN w.need \cup {p} /\ \A g \in DOMAIN w.need : g # p => x.need[g] = w.need[g]
              /\ x.need[p].lib = lib
              /\ \/ p \in DOMAIN w.need /\ w.need[p].lib = lib /\ x.need[p].del = w.need[p].del /\ Items(x, p) = Items(w, p) \cup {i}
                 \/ p \notin DOMAIN w.need /\ ~x.need[p].del /\ Items(x, p) = {i}
      BY <2>2 DEF Added
    <3>2. \A g \in DOMAIN w.need : g # p => Items(x, g) = Items(w, g)
      BY <3>1 DEF Items
    <3> QED BY <2>2, <3>1, <3>2
  <2> QED BY <2>1, <2>2
<1>6. /\ Firsts(w) \subseteq Firsts(x) /\ \A h \in Firsts(x) : h \in Firsts(w) \/ (h = i /\ lib = None)
      /\ \A k \in DOMAIN x.def : ~x.def[k].del
  BY <1>2 DEF Added, Firsts
<1>7. lib # None => \E g \in DOMAIN x.need : i \in Items(x, g) /\ x.need[g].lib = lib
  BY DEF Added
<1>8. lib = None => i \in Firsts(x)
  BY DEF Added
<1>9. ASSUME NEW k, k # i.idx, k \in DOMAIN w.base, IsNeeded(w, k) \/ IsDefined(w, k) PROVE IsNeeded(x, k) \/ IsDefined(x, k)
  <2>1. x.base[k] = w.base[k]
    BY <1>3, <1>9
  <2>2. CASE IsNeeded(w, k)
    BY <1>5, <2>1, <2>2 DEF IsNeeded
  <2>3. CASE IsDefined(w, k)
    BY <1>6, <2>1, <2>3 DEF IsDefined
  <2> QED BY <1>9, <2>2, <2>3
<1>10. BaseIs(x)
  <2>1. ASSUME NEW k \in DOMAIN x.base, x.base[k] # NoRef
        PROVE  k > 1 /\ x.base[k].id \in Nat \ {0} /\ x.base[k].id < x.fresh /\ (IsNeeded(x, k) \/ IsDefined(x, k))
    <3>1. CASE k = i.idx
      <4>1. x.base[k].id = w.fresh
        BY <1>1, <1>3, <3>1 DEF Ref
      <4>2. IsNeeded(x, k) \/ IsDefined(x, k)
        BY <1>3, <1>7, <1>8, <3>1 DEF IsNeeded, IsDefined
      <4> QED BY <1>1, <1>4, <3>1, <4>1, <4>2
    <3>2. CASE k # i.idx
      BY <1>3, <2>1, <3>2, <1>2, <1>4, <1>9 DEF BaseIs
    <3> QED BY <3>1, <3>2
  <2>2. ASSUME NEW k \in DOMAIN x.base, NEW l \in DOMAIN x.base, x.base[k] # NoRef, x.base[k].id = x.base[l].id PROVE k = l
    <3>1. x.base[l] # NoRef
      BY <2>1, <2>2 DEF NoRef
    <3>2. \A j \in DOMAIN x.base : j # i.idx /\ x.base[j] # NoRef =>
             j \in DOMAIN w.base /\ x.base[j] = w.base[j] /\ w.base[j].id \in Nat /\ w.base[j].id < w.fresh
      BY <1>2, <1>3 DEF BaseIs
    <3>3. x.base[i.idx].id = w.fresh
      BY <1>1, <1>3 DEF Ref
    <3>4. \A j \in DOMAIN x.base : j # i.idx /\ x.base[j] # NoRef => x.base[j].id # x.base[i.idx].id
      BY <1>4, <3>2, <3>3
    <3>5. CASE k # i.idx /\ l # i.idx
      BY <1>2, <2>2, <3>1, <3>2, <3>5 DEF BaseIs
    <3> QED BY <2>2, <3>1, <3>4, <3>5
  <2> QED BY <1>3, <1>4, <2>1, <2>2 DEF BaseIs
<1>11. ASSUME NEW g \in DOMAIN x.need, NEW h \in Items(x, g) PROVE NeedIs(x, g, h)
  <2>1. CASE g \in DOMAIN w.need /\ h \in Items(w, g)
    <3>1. NeedIs(w, g, h)
      BY <2>1 DEF Indexed
    <3>2. CASE h.idx # i.idx
      BY <1>3, <3>1, <3>2, <1>4, <1>5, <2>1 DEF NeedIs
    <3>3. CASE h.idx = i.idx
      <4>1. w.need[g].del /\ lib = None
        BY <2>1, <3>3 DEF Vacant, Free, LiveAt
      <4>2. x.need[g].del
        BY <1>5, <2>1, <4>1
      <4>3. h.id \in Nat /\ h.id < w.fresh
        BY <3>1 DEF NeedIs
      <4>4. x.base[h.idx] = Ref(lib, i) /\ x.base[h.idx].id = w.fresh /\ h.idx \in DOMAIN x.base
        BY <1>1, <1>3, <3>3 DEF Ref
      <4>5. x.base[h.idx].id # h.id /\ x.base[h.idx] # NoRef /\ h.id < x.fresh
        BY <1>4, <4>3, <4>4 DEF NoRef
      <4> QED BY <3>1, <4>2, <4>4, <4>5 DEF NeedIs
    <3> QED BY <3>2, <3>3
  <2>2. CASE h = i /\ lib # None /\ x.need[g].lib = lib
    BY <1>1, <1>3, <1>4, <2>2 DEF Ref, NoRef, NeedIs
  <2> QED BY <1>5, <2>1, <2>2
<1>12. ASSUME NEW h \in Firsts(x) PROVE DefIs(x, h)
  <2>1. CASE h \in Firsts(w)
    <3>1. DefIs(w, h) /\ h.idx # i.idx
      BY <2>1 DEF Indexed, Vacant
    <3>2. h.id \in Nat /\ h.id < w.fresh
      BY <3>1 DEF DefIs
    <3>3. h.id < x.fresh
      BY <1>4, <3>2
    <3>4. h.idx # 1 => h.idx \in DOMAIN x.base /\ x.base[h.idx] = Ref(None, h)
      BY <1>3, <3>1 DEF DefIs
    <3> QED BY <3>1, <3>3, <3>4 DEF DefIs
  <2>2. CASE h = i /\ lib = None
    BY <1>1, <1>3, <1>4, <2>2 DEF DefIs
  <2> QED BY <1>6, <2>1, <2>2
<1>13. \A g, h \in DOMAIN x.need : \A j \in Items(x, g), k \in Items(x, h) : j.idx = k.idx => g = h
  <2> TAKE g, h \in DOMAIN x.need
  <2> TAKE j \in Items(x, g), k \in Items(x, h)
  <2> HAVE j.idx = k.idx
  <2>1. \A q \in DOMAIN w.need : \A z \in Items(w, q) : lib # None => z.idx # i.idx
    BY DEF Free
  <2>2. (g \in DOMAIN w.need /\ j \in Items(w, g)) \/ (j = i /\ lib # None)
    BY <1>5
  <2>3. (h \in DOMAIN w.need /\ k \in Items(w, h)) \/ (k = i /\ lib # None)
    BY <1>5
  <2>4. CASE j = i /\ lib # None
    BY <1>5, <2>1, <2>3, <2>4
  <2>5. CASE k = i /\ lib # None
    BY <1>5, <2>1, <2>2, <2>5
  <2>6. CASE g \in DOMAIN w.need /\ j \in Items(w, g) /\ h \in DOMAIN w.need /\ k \in Items(w, h)
    BY <2>6 DEF Indexed
  <2> QED BY <2>2, <2>3, <2>4, <2>5, <2>6
<1>14. Indexed(x)
  BY <1>6, <1>10, <1>11, <1>12, <1>13 DEF Indexed
<1>15. \A k : Present(w, k) => Present(x, k)
  BY <1>5, <1>6 DEF Present, LiveAt
<1> QED BY <1>14, <1>15

\* add_verdef adds a definition...
LEMMA AddedVerdef ==
  ASSUME NEW w, Shape(w), NEW ver, NEW idx
  PROVE  Added(w, AddVerdef(w, ver, idx), None, NewItem(w, ver, idx))
<1> DEFINE i == NewItem(w, ver, idx)
           q == NewGroup(None, <<i>>)
           hs == <<q>> \o w.def
           x == AddVerdef(w, ver, idx)
<1>1. Fields \subseteq DOMAIN w /\ List(w.def) /\ \A k \in DOMAIN w.def : 1 \in DOMAIN w.def[k].items
  BY DEF Shape, Groups
<1>2. /\ x.base = SetRef(w.base, None, i) /\ x.fresh = w.fresh + 1 /\ x.symver = w.symver /\ x.versions = w.versions
      /\ w.mod \subseteq x.mod /\ x.libs = w.libs /\ x.need = w.need /\ x.def = hs
  BY <1>1 DEF AddVerdef, Fields
<1>3. i.id = w.fresh /\ Keys \subseteq DOMAIN i /\ ~i.del /\ ~i.unref
  BY DEF NewItem, Keys
<1>4. q.items[1] = i /\ ~q.del
  BY DEF NewGroup
<1> HIDE DEF x, i, q
<1>5. /\ List(hs) /\ DOMAIN hs = 1 .. (Len(w.def) + 1) /\ Len(w.def) \in Nat /\ DOMAIN w.def = 1 .. Len(w.def)
      /\ hs[1] = q /\ \A k \in DOMAIN w.def : hs[k + 1] = w.def[k]
  <2>1. Len(w.def) \in Nat /\ DOMAIN w.def = 1 .. Len(w.def)
    BY <1>1, ListIs
  <2>2. /\ List(hs) /\ DOMAIN hs = 1 .. (Len(w.def) + 1) /\ hs[1] = q /\ \A k \in DOMAIN w.def : hs[k + 1] = w.def[k]
    <3>1. hs = <<q>> \o w.def
      OBVIOUS
    <3> HIDE DEF hs
    <3> QED BY <1>1, <3>1, ListPrepended
  <2> QED BY <2>1, <2>2
<1> HIDE DEF hs
<1>6. \A k \in DOMAIN hs : hs[k] = q \/ \E l \in DOMAIN w.def : hs[k] = w.def[l]
  <2> TAKE k \in DOMAIN hs
  <2>1. k # 1 => k - 1 \in DOMAIN w.def /\ k = (k - 1) + 1
    BY <1>5
  <2>2. k # 1 => hs[k] = w.def[k - 1]
    <3> DEFINE l == k - 1
    <3>1. k # 1 => l \in DOMAIN w.def /\ k = l + 1
      BY <2>1
    <3> HIDE DEF l
    <3>2. k # 1 => hs[k] = w.def[l]
      BY <1>5, <3>1
    <3> QED BY <3>2 DEF l
  <2> QED BY <1>5, <2>1, <2>2
<1>7. \A l \in DOMAIN w.def : \E k \in DOMAIN hs : hs[k] = w.def[l]
  <2> TAKE l \in DOMAIN w.def
  <2>1. l + 1 \in DOMAIN hs
    BY <1>5
  <2> QED BY <1>5, <2>1
<1>8. 1 \in DOMAIN hs
  BY <1>5
<1>9. Firsts(x) = Firsts(w) \cup {i}
  BY <1>2, <1>4, <1>6, <1>5, <1>8, <1>7 DEF Firsts
<1>10. (\A k \in DOMAIN w.def : ~w.def[k].del) => \A k \in DOMAIN x.def : ~x.def[k].del
  BY <1>2, <1>4, <1>6
<1>11. Added(w, x, None, i)
  BY <1>2, <1>3, <1>9, <1>10 DEF Added
<1> QED BY <1>11 DEF x, i

\* ...and add_vernaux an item, to the group of its library.
LEMMA AddedVernaux ==
  ASSUME NEW w, Shape(w), NEW lib, lib # None, NEW ver, NEW idx
  PROVE  Added(w, AddVernaux(w, lib, ver, idx), lib, NewItem(w, ver, idx))
<1> DEFINE i == NewItem(w, ver, idx)
           gs == EnsureVerneed(w.need, lib)
           S == GroupsOf(gs, lib)
           p == Min(S)
           hs == [gs EXCEPT ![p].items = <<i>> \o @]
           x == AddVernaux(w, lib, ver, idx)
<1>1. Fields \subseteq DOMAIN w /\ Groups(w.need) /\ List(w.need) /\ Len(w.need) \in Nat /\ DOMAIN w.need = 1 .. Len(w.need)
  BY ListIs DEF Shape, Groups
<1>2. /\ x.base = SetRef(w.base, lib, i) /\ x.fresh = w.fresh + 1 /\ x.symver = w.symver /\ x.versions = w.versions
      /\ w.mod \subseteq x.mod /\ x.libs = w.libs /\ x.def = w.def /\ x.need = hs
  BY <1>1 DEF AddVernaux, Fields
<1>3. i.id = w.fresh /\ Keys \subseteq DOMAIN i /\ ~i.del /\ ~i.unref
  BY DEF NewItem, Keys
<1> HIDE DEF x, i, hs, p, S
<1>4. \/ gs = w.need /\ GroupsOf(w.need, lib) # {}
      \/ /\ GroupsOf(w.need, lib) = {} /\ DOMAIN gs = DOMAIN w.need \cup {Len(w.need) + 1} /\ DOMAIN gs = 1 .. (Len(w.need) + 1)
         /\ gs[Len(w.need) + 1] = NewGroup(lib, <<>>) /\ \A k \in DOMAIN w.need : gs[k] = w.need[k]
  <2>1. CASE GroupsOf(w.need, lib) # {}
    BY <2>1 DEF EnsureVerneed
  <2>2. CASE GroupsOf(w.need, lib) = {}
    BY <2>2, <1>1, ListAppended DEF EnsureVerneed
  <2> QED BY <2>1, <2>2
<1> DEFINE n == Len(w.need) + 1
<1>5. n \notin DOMAIN w.need /\ n \in Nat
  BY <1>1
<1>6. NewGroup(lib, <<>>).lib = lib /\ ~NewGroup(lib, <<>>).del /\ NewGroup(lib, <<>>).items = <<>> /\ GroupFields \subseteq DOMAIN NewGroup(lib, <<>>)
  BY DEF NewGroup, GroupFields
<1> HIDE DEF gs, n
<1>7. S # {} /\ S \in SUBSET Nat
  <2>1. CASE gs = w.need /\ GroupsOf(w.need, lib) # {}
    BY <1>1, <2>1 DEF S, GroupsOf
  <2>2. CASE gs # w.need \/ GroupsOf(w.need, lib) = {}
    BY <1>4, <1>6, <2>2, <1>1 DEF n, S, GroupsOf
  <2> QED BY <2>1, <2>2
<1>8. p \in DOMAIN gs /\ gs[p].lib = lib
  BY <1>7, MinIs DEF p, S, GroupsOf
<1>9. GroupFields \subseteq DOMAIN gs[p] /\ List(gs[p].items)
  <2>1. CASE p \in DOMAIN w.need /\ gs[p] = w.need[p]
    BY <1>1, <2>1 DEF Groups
  <2>2. CASE gs[p] = NewGroup(lib, <<>>)
    BY ListOf, <<>> \in Seq({}), <1>6, <2>2
  <2> QED BY <1>4, <1>8, <2>1, <2>2
<1> DEFINE t == gs[p].items
           u == <<i>> \o t
<1>10. /\ DOMAIN hs = DOMAIN gs /\ \A g \in DOMAIN gs : g # p => hs[g] = gs[g]
       /\ hs[p] = [gs[p] EXCEPT !.items = u]
  BY <1>8 DEF hs
<1>11. Values(u) = Values(t) \cup {i}
  <2>1. /\ DOMAIN u = 1 .. (Len(t) + 1) /\ Len(t) \in Nat /\ DOMAIN t = 1 .. Len(t) /\ u[1] = i
        /\ \A k \in DOMAIN t : u[k + 1] = t[k]
    BY <1>9, ListPrepended, ListIs
  <2> HIDE DEF t, u
  <2>2. \A k \in DOMAIN u : u[k] = i \/ \E l \in DOMAIN t : u[k] = t[l]
    <3> TAKE k \in DOMAIN u
    <3> DEFINE l == k - 1
    <3>1. k # 1 => l \in DOMAIN t /\ k = l + 1
      BY <2>1
    <3> HIDE DEF l
    <3> QED BY <2>1, <3>1
  <2>3. \A l \in DOMAIN t : l + 1 \in DOMAIN u /\ u[l + 1] = t[l]
    BY <2>1
  <2>4. 1 \in DOMAIN u
    BY <2>1
  <2> QED BY <2>1, <2>2, <2>3, <2>4 DEF Values
<1> HIDE DEF u
<1>12. hs[p].items = u /\ hs[p].lib = lib /\ hs[p].del = gs[p].del
  BY <1>8, <1>9, <1>10 DEF GroupFields
<1>13. Items(x, p) = Values(gs[p].items) \cup {i}
  BY <1>2, <1>11, <1>12 DEF Items
<1>14. /\ DOMAIN x.need = DOMAIN w.need \cup {p} /\ \A g \in DOMAIN w.need : g # p => x.need[g] = w.need[g]
       /\ \/ p \in DOMAIN w.need /\ gs[p] = w.need[p]
          \/ p \notin DOMAIN w.need /\ gs[p] = NewGroup(lib, <<>>)
  <2>1. CASE gs = w.need
    BY <1>2, <1>8, <1>10, <2>1
  <2>2. CASE gs # w.need
    BY <1>4, <2>2, <1>8, <1>2, <1>5, <1>10 DEF n, GroupsOf
  <2> QED BY <2>1, <2>2
<1>15. \/ p \in DOMAIN w.need /\ w.need[p].lib = lib /\ x.need[p].del = w.need[p].del /\ Items(x, p) = Items(w, p) \cup {i}
       \/ p \notin DOMAIN w.need /\ ~x.need[p].del /\ Items(x, p) = {i}
  <2>1. CASE p \in DOMAIN w.need /\ gs[p] = w.need[p]
    BY <1>2, <1>8, <1>12, <1>13, <2>1 DEF Items
  <2>2. CASE p \notin DOMAIN w.need /\ gs[p] = NewGroup(lib, <<>>)
    BY <1>6, <2>2, <1>2, <1>12, <1>13 DEF Values
  <2> QED BY <1>14, <2>1, <2>2
<1>16. p \in DOMAIN x.need /\ x.need[p].lib = lib
  BY <1>2, <1>8, <1>10, <1>12
<1>17. Added(w, x, lib, i)
  BY <1>2, <1>3, <1>14, <1>15, <1>16 DEF Added
<1> QED BY <1>17 DEF x, i

\* The last unused index is that of no item.
LEMMA AvailFree ==
  ASSUME NEW w, Indexed(w)
  PROVE  Free(w, Avail(w))
<1> DEFINE unused == {k \in DOMAIN w.base : k >= 3 /\ w.base[k] = NoRef}
           c == Count(w.base)
           a == Avail(w)
<1>1. c \in Nat /\ DOMAIN w.base = 0 .. (c - 1)
  BY DEF Indexed, BaseIs
<1> HIDE DEF c
<1>2. a \in Nat /\ a > 1 /\ (a \in DOMAIN w.base => w.base[a] = NoRef)
  <2>1. CASE unused # {}
    <3>1. a = Max(unused)
      BY <2>1 DEF Avail
    <3>2. unused \in SUBSET (0 .. c)
      BY <1>1
    <3> HIDE DEF unused, a
    <3>3. a \in unused
      BY <1>1, <2>1, <3>1, <3>2, MaxIs
    <3>4. a \in DOMAIN w.base /\ a >= 3 /\ w.base[a] = NoRef
      BY <3>3 DEF unused
    <3> QED BY <1>1, <3>4
  <2>2. CASE unused = {}
    <3>1. a = Max({c, 3})
      BY <2>2 DEF Avail, c
    <3>2. {c, 3} \in SUBSET (0 .. c + 3)
      BY <1>1
    <3> HIDE DEF unused, a
    <3>3. a \in {c, 3} /\ \A k \in {c, 3} : k <= a
      <4> DEFINE T == {c, 3}
                 n == c + 3
      <4>1. T \in SUBSET (0 .. n) /\ T # {} /\ n \in Nat
        BY <1>1, <3>2
      <4> HIDE DEF T, n
      <4>2. Max(T) \in T /\ \A k \in T : k <= Max(T)
        BY <4>1, MaxIs
      <4> QED BY <3>1, <4>2 DEF T
    <3> QED BY <1>1, <3>3
  <2> QED BY <2>1, <2>2
<1> HIDE DEF a
<1>3. \A g \in DOMAIN w.need : \A i \in Items(w, g) : i.idx # a
  BY <1>2 DEF Indexed, NeedIs
<1>4. \A i \in Firsts(w) : i.idx # a
  <2> TAKE i \in Firsts(w)
  <2>1. DefIs(w, i)
    BY DEF Indexed
  <2>2. i.idx # 1 => i.idx \in DOMAIN w.base /\ w.base[i.idx].id # 0
    BY <2>1 DEF DefIs, Ref
  <2> QED BY <1>2, <2>2 DEF NoRef
<1>5. Free(w, a)
  BY <1>2, <1>3, <1>4 DEF Free
<1> QED BY <1>5 DEF a

\* An index which no item has is vacant.
LEMMA FreeVacant == ASSUME NEW w, NEW k, Free(w, k) PROVE Vacant(w, k)
BY DEF Free, Vacant, LiveAt

-----------------------------------------------------------------------------
(* Edits which mark, and unbind symbols.                                    *)

\* What an index stands for which is that of something.
LEMMA PresentIs ==
  ASSUME NEW w, Shape(w), Indexed(w), NEW k, k # 1, Present(w, k)
  PROVE  /\ k \in DOMAIN w.base /\ w.base[k] # NoRef
         /\ w.base[k].lib # None => \E g \in LiveAt(w.need) : \E i \in Items(w, g) : i.idx = k /\ w.base[k] = Ref(w.need[g].lib, i)
         /\ w.base[k].lib = None => \E i \in Firsts(w) : i.idx = k /\ w.base[k] = Ref(None, i)
<1>1. CASE \E g \in LiveAt(w.need) : \E i \in Items(w, g) : i.idx = k
  <2>1. PICK g \in LiveAt(w.need) : \E i \in Items(w, g) : i.idx = k
    BY <1>1
  <2>2. PICK i \in Items(w, g) : i.idx = k
    BY <2>1
  <2>3. g \in DOMAIN w.need /\ ~w.need[g].del /\ w.need[g].lib # None
    BY DEF LiveAt, Shape, Needs
  <2>4. NeedIs(w, g, i)
    BY <2>3 DEF Indexed
  <2>5. k \in DOMAIN w.base /\ w.base[k] # NoRef /\ w.base[k] = Ref(w.need[g].lib, i)
    BY <2>2, <2>3, <2>4 DEF NeedIs
  <2>6. w.base[k].lib # None
    BY <2>3, <2>5 DEF Ref
  <2> QED BY <2>2, <2>5, <2>6
<1>2. CASE \E i \in Firsts(w) : i.idx = k
  <2>1. PICK i \in Firsts(w) : i.idx = k
    BY <1>2
  <2>2. DefIs(w, i)
    BY DEF Indexed
  <2>3. k \in DOMAIN w.base /\ w.base[k] = Ref(None, i) /\ i.id # 0
    BY <2>1, <2>2 DEF DefIs
  <2>4. w.base[k].lib = None /\ w.base[k] # NoRef
    BY <2>3 DEF Ref, NoRef
  <2> QED BY <2>1, <2>3, <2>4
<1> QED BY <1>1, <1>2 DEF Present

\* Items stay spared as long as one which loses its symbols is marked...
LEMMA KinSpared ==
  ASSUME NEW w, Shape(w), Indexed(w), NEW f, Spared(w, f), NEW x, Kin(w, x), w.mod \subseteq x.mod,
         \A g \in LiveAt(x.need) : \A i \in Items(x, g) : (\E s \in DOMAIN w.symver : w.symver[s] = i.idx) =>
            (\E s \in DOMAIN x.symver : x.symver[s] = i.idx) \/ (i.unref /\ "need" \in x.mod)
  PROVE  Spared(x, f)
<1> SUFFICES ASSUME NEW g \in LiveAt(x.need), NEW i \in Items(x, g)
             PROVE  \/ i.unref /\ "need" \in x.mod
                    \/ \E s \in DOMAIN x.symver : x.symver[s] = i.idx
                    \/ Unused(f, x.need[g].lib, i.ver)
  BY DEF Spared
<1>1. /\ DOMAIN x.need = DOMAIN w.need
      /\ x.need[g].lib = w.need[g].lib /\ (w.need[g].del => x.need[g].del)
      /\ \E h \in Items(w, g) : SameKeys(h, i)
  BY KinItems DEF LiveAt
<1>2. g \in LiveAt(w.need) /\ g \in DOMAIN w.need
  BY <1>1 DEF LiveAt
<1>3. PICK h \in Items(w, g) : SameKeys(h, i)
  BY <1>1
<1>4. Keys \subseteq DOMAIN h
  BY <1>2 DEF Indexed, NeedIs
<1>5. i.idx = h.idx /\ i.ver = h.ver /\ (h.unref => i.unref)
  BY <1>3, <1>4 DEF SameKeys
<1>6. \/ h.unref /\ "need" \in w.mod
      \/ \E s \in DOMAIN w.symver : w.symver[s] = h.idx
      \/ Unused(f, w.need[g].lib, h.ver)
  BY <1>2 DEF Spared
<1> QED BY <1>1, <1>5, <1>6

\* ...and the old ones old, as long as no symbol is bound to another.
LEMMA KinOld ==
  ASSUME NEW w, Shape(w), Indexed(w), OldOnly(w), NEW x, Kin(w, x), DOMAIN x.symver = DOMAIN w.symver,
         \A s \in DOMAIN w.symver : x.symver[s] = w.symver[s] \/ x.symver[s] = 1
  PROVE  OldOnly(x)
<1> SUFFICES ASSUME NEW g \in LiveAt(x.need), NEW i \in Items(x, g), Newer(i), ~i.weak
             PROVE  i.unref /\ \A s \in DOMAIN x.symver : x.symver[s] # i.idx
  BY DEF OldOnly
<1>1. /\ DOMAIN x.need = DOMAIN w.need /\ (w.need[g].del => x.need[g].del)
      /\ \E h \in Items(w, g) : SameKeys(h, i)
  BY KinItems DEF LiveAt
<1>2. g \in LiveAt(w.need) /\ g \in DOMAIN w.need
  BY <1>1 DEF LiveAt
<1>3. PICK h \in Items(w, g) : SameKeys(h, i)
  BY <1>1
<1>4. Keys \subseteq DOMAIN h /\ h.idx > 1
  BY <1>2 DEF Indexed, NeedIs
<1>5. i.idx = h.idx /\ i.ver = h.ver /\ (h.unref => i.unref) /\ (h.weak => i.weak)
  BY <1>3, <1>4 DEF SameKeys
<1>6. Newer(h) /\ ~h.weak
  BY <1>5 DEF Newer
<1>7. h.unref /\ \A s \in DOMAIN w.symver : w.symver[s] # h.idx
  BY <1>2, <1>6 DEF OldOnly
<1> QED BY <1>4, <1>5, <1>7

\* action_remove_verneed
LEMMA RemoveVerneedSound ==
  ASSUME NEW w, Shape(w), NEW wanted, NEW f, NEW old, NEW sure, Sound(w, wanted, f, old, sure)
  PROVE  Sound(RemoveVerneedOf(w), [s \in DOMAIN wanted |-> IF s \in {t \in DOMAIN wanted : wanted[t].lib # None} THEN Plain ELSE wanted[s]],
               f, old, sure)
<1> DEFINE wish == [s \in DOMAIN wanted |-> IF s \in {t \in DOMAIN wanted : wanted[t].lib # None} THEN Plain ELSE wanted[s]]
           x == RemoveVerneedOf(w)
<1>1. /\ Indexed(w) /\ Numbers(w) /\ DOMAIN w.symver = DOMAIN f.symver /\ DOMAIN wanted = DOMAIN w.symver
      /\ Spared(w, f) /\ (sure => Binds(w, wanted)) /\ (old => OldOnly(w))
  BY DEF Sound
<1>2. DOMAIN wish = DOMAIN wanted /\ \A s \in DOMAIN wanted : wish[s] = IF wanted[s].lib # None THEN Plain ELSE wanted[s]
  OBVIOUS
<1> HIDE DEF wish
<1>3. \A k : k # 1 /\ Present(w, k) =>
         /\ k \in DOMAIN w.base /\ w.base[k] # NoRef
         /\ w.base[k].lib # None => \E g \in LiveAt(w.need) : \E i \in Items(w, g) : i.idx = k
         /\ w.base[k].lib = None => \E i \in Firsts(w) : i.idx = k
  BY <1>1, PresentIs
<1>4. Plain.lib = None
  BY DEF Plain
<1>5. CASE w.need = <<>>
  <2>1. x = w
    BY <1>5 DEF RemoveVerneedOf
  <2>2. LiveAt(w.need) = {}
    BY <1>5 DEF LiveAt
  <2>3. ASSUME Binds(w, wanted) PROVE Binds(w, wish)
    <3>1. ASSUME NEW s \in DOMAIN wanted PROVE wanted[s].lib = None
      <4>1. CASE w.symver[s] > 1
        <5>1. w.symver[s] # 1
          BY <1>1, <2>3, <4>1 DEF Numbers, Binds
        <5>2. Present(w, w.symver[s]) /\ wanted[s] = [lib |-> w.base[w.symver[s]].lib, ver |-> w.base[w.symver[s]].ver]
          BY <2>3, <4>1 DEF Binds
        <5>3. wanted[s].lib = w.base[w.symver[s]].lib
          BY <5>2
        <5> QED BY <1>3, <2>2, <5>1, <5>2, <5>3
      <4>2. CASE ~(w.symver[s] > 1)
        BY <1>4, <2>3, <4>2 DEF Binds
      <4> QED BY <4>1, <4>2
    <3>2. \A s \in DOMAIN wanted : wish[s] = wanted[s]
      BY <1>2, <3>1
    <3> QED BY <1>2, <2>3, <3>2 DEF Binds
  <2>4. Sound(w, wish, f, old, sure)
    BY <1>1, <1>2, <2>3 DEF Sound
  <2> QED BY <2>1, <2>4 DEF wish
<1>6. CASE w.need # <<>>
  <2> DEFINE sv == [s \in DOMAIN w.symver |-> IF w.symver[s] \in DOMAIN w.base /\ w.base[w.symver[s]].lib # None THEN 1 ELSE w.symver[s]]
             hs == [k \in DOMAIN w.need |-> [w.need[k] EXCEPT !.del = TRUE, !.dirty = FALSE]]
  <2>1. Fields \subseteq DOMAIN w /\ Groups(w.need)
    BY DEF Shape
  <2>2. /\ x.need = hs /\ x.def = w.def /\ x.base = w.base /\ x.fresh = w.fresh /\ x.mod = w.mod \cup {"need"}
        /\ x.symver = sv /\ x.versions = w.versions
    BY <1>6, <2>1 DEF RemoveVerneedOf, Map, Fields
  <2>3. \A k \in DOMAIN w.need : hs[k] = [w.need[k] EXCEPT !.del = TRUE, !.dirty = FALSE]
    OBVIOUS
  <2>4. DOMAIN hs = DOMAIN w.need
    OBVIOUS
  <2> HIDE DEF x, hs
  <2>5. \A k \in DOMAIN w.need : hs[k].lib = w.need[k].lib /\ hs[k].del /\ hs[k].items = w.need[k].items
    <3> TAKE k \in DOMAIN w.need
    <3>1. GroupFields \subseteq DOMAIN w.need[k]
      BY <2>1 DEF Groups
    <3> QED BY <2>3, <3>1 DEF GroupFields
  <2>6. \A i : SameKeys(i, i)
    BY DEF SameKeys
  <2>7. Kin(w, x)
    BY <2>2, <2>4, <2>5, <2>6 DEF Kin, SameItems
  <2>8. LiveAt(x.need) = {}
    BY <2>2, <2>4, <2>5 DEF LiveAt
  <2>9. Spared(x, f) /\ OldOnly(x)
    BY <2>8 DEF Spared, OldOnly
  <2>10. Indexed(x)
    BY <1>1, <2>7, KinIndexed
  <2>11. DOMAIN x.symver = DOMAIN w.symver /\ \A s \in DOMAIN w.symver : x.symver[s] = 1 \/ x.symver[s] = w.symver[s]
    BY <2>2
  <2>12. Numbers(x)
    BY <1>1, <2>2, <2>11 DEF Numbers
  <2>13. ASSUME Binds(w, wanted) PROVE Binds(x, wish)
    <3> SUFFICES ASSUME NEW s \in DOMAIN wish
                 PROVE  IF x.symver[s] > 1
                        THEN /\ x.symver[s] \in DOMAIN x.base /\ Present(x, x.symver[s])
                             /\ wish[s] = [lib |-> x.base[x.symver[s]].lib, ver |-> x.base[x.symver[s]].ver]
                        ELSE wish[s] = Plain
      BY <1>1, <1>2, <2>11 DEF Binds
    <3> DEFINE k == w.symver[s]
    <3>1. s \in DOMAIN wanted /\ s \in DOMAIN w.symver /\ k \in Nat
      BY <1>1, <1>2 DEF Numbers
    <3>2. x.symver[s] = IF k \in DOMAIN w.base /\ w.base[k].lib # None THEN 1 ELSE k
      BY <2>2, <3>1
    <3>3. CASE k > 1
      <4>1. k \in DOMAIN w.base /\ Present(w, k) /\ wanted[s] = [lib |-> w.base[k].lib, ver |-> w.base[k].ver] /\ k # 1
        BY <2>13, <3>1, <3>3 DEF Binds
      <4>2. CASE w.base[k].lib # None
        BY <1>2, <3>1, <3>2, <4>1, <4>2
      <4>3. CASE w.base[k].lib = None
        <5>1. x.symver[s] = k /\ wish[s] = wanted[s]
          BY <1>2, <3>1, <3>2, <4>1, <4>3
        <5>2. Present(x, k)
          BY <1>3, <2>2, <4>1, <4>3 DEF Present, Firsts
        <5> QED BY <2>2, <3>3, <4>1, <5>1, <5>2
      <4> QED BY <4>2, <4>3
    <3>4. CASE ~(k > 1)
      <4>1. wish[s] = Plain
        BY <1>2, <1>4, <2>13, <3>1, <3>4 DEF Binds
      <4>2. ~(x.symver[s] > 1)
        BY <3>2, <3>4
      <4> QED BY <4>1, <4>2
    <3> QED BY <3>3, <3>4
  <2>14. Sound(x, wish, f, old, sure)
    BY <1>1, <1>2, <2>9, <2>10, <2>11, <2>12, <2>13 DEF Sound
  <2> QED BY <2>14 DEF x, wish
<1> QED BY <1>5, <1>6

\* Symbols lose their versions, and what these stand for loses references.
LEMMA ClearedSound ==
  ASSUME NEW w, Shape(w), NEW wanted, NEW f, NEW old, NEW sure, Sound(w, wanted, f, old, sure),
         NEW y, y = [w EXCEPT !.symver = y.symver], DOMAIN y.symver = DOMAIN w.symver, NEW K,
         \A s \in DOMAIN w.symver : y.symver[s] = w.symver[s] \/ (y.symver[s] = 1 /\ w.symver[s] \in K),
         NEW wish, DOMAIN wish = DOMAIN wanted,
         sure => \A s \in DOMAIN wanted : IF y.symver[s] = w.symver[s] /\ w.symver[s] > 1 THEN wish[s] = wanted[s] ELSE wish[s] = Plain
  PROVE  Sound(RemoveRefs(y, K), wish, f, old, sure)
<1> DEFINE x == RemoveRefs(y, K)
<1>1. /\ Indexed(w) /\ Numbers(w) /\ DOMAIN w.symver = DOMAIN f.symver /\ DOMAIN wanted = DOMAIN w.symver
      /\ Spared(w, f) /\ (sure => Binds(w, wanted)) /\ (old => OldOnly(w))
  BY DEF Sound
<1>2. Fields \subseteq DOMAIN y /\ y.need = w.need /\ y.def = w.def /\ y.base = w.base /\ y.fresh = w.fresh /\ y.mod = w.mod /\ y.versions = w.versions
  <2> DEFINE sv == y.symver
  <2>1. Fields \subseteq DOMAIN w /\ y = [w EXCEPT !.symver = sv]
    BY DEF Shape
  <2> HIDE DEF sv
  <2> QED BY <2>1 DEF Fields
<1>3. Shape(y)
  BY <1>2 DEF Shape
<1>4. \A i : SameKeys(i, i)
  BY DEF SameKeys
<1>5. Kin(w, y)
  BY <1>2, <1>4 DEF Kin, SameItems
<1>6. Indexed(y)
  BY <1>1, <1>5, KinIndexed
<1>7. /\ Kin(y, x) /\ Shape(x) /\ x.symver = y.symver /\ x.versions = y.versions /\ y.mod \subseteq x.mod
      /\ \A g \in DOMAIN y.need : x.need[g].del = y.need[g].del
      /\ \A g \in LiveAt(x.need) : \A i \in Items(x, g) : i.idx \in K => i.unref /\ "need" \in x.mod
  BY <1>3, <1>6, RefsRemoved
<1> HIDE DEF x
<1>8. Kin(w, x)
  BY <1>2, <1>7 DEF Kin
<1>9. Indexed(x)
  BY <1>1, <1>8, KinIndexed
<1>10. Spared(x, f)
  BY <1>7, <1>2, <1>1, <1>8, KinSpared
<1>11. DOMAIN x.symver = DOMAIN w.symver /\ \A s \in DOMAIN w.symver : x.symver[s] = w.symver[s] \/ x.symver[s] = 1
  BY <1>7
<1>12. old => OldOnly(x)
  BY <1>1, <1>8, <1>11, KinOld
<1>13. Numbers(x)
  BY <1>1, <1>2, <1>7, <1>11 DEF Numbers
<1>14. \A k : Present(w, k) => Present(x, k)
  BY <1>2, <1>7, <1>1, <1>8, KinPresent DEF LiveAt
<1>15. x.base = w.base
  BY <1>8 DEF Kin
<1>16. ASSUME sure PROVE Binds(x, wish)
  <2> SUFFICES ASSUME NEW s \in DOMAIN wish
               PROVE  IF x.symver[s] > 1
                      THEN /\ x.symver[s] \in DOMAIN x.base /\ Present(x, x.symver[s])
                           /\ wish[s] = [lib |-> x.base[x.symver[s]].lib, ver |-> x.base[x.symver[s]].ver]
                      ELSE wish[s] = Plain
    BY <1>1, <1>11 DEF Binds
  <2>1. s \in DOMAIN wanted /\ s \in DOMAIN w.symver /\ w.symver[s] \in Nat /\ x.symver[s] = y.symver[s]
    BY <1>1, <1>7 DEF Numbers
  <2>2. CASE y.symver[s] = w.symver[s] /\ w.symver[s] > 1
    BY <1>1, <1>14, <1>15, <1>16, <2>1, <2>2 DEF Binds
  <2>3. CASE y.symver[s] = w.symver[s] /\ ~(w.symver[s] > 1)
    BY <1>16, <2>1, <2>3
  <2>4. CASE y.symver[s] = 1 /\ y.symver[s] # w.symver[s]
    BY <1>16, <2>1, <2>4
  <2> QED BY <2>1, <2>2, <2>3, <2>4
<1>17. Sound(x, wish, f, old, sure)
  BY <1>1, <1>9, <1>10, <1>11, <1>12, <1>13, <1>16 DEF Sound
<1> QED BY <1>17 DEF x

\* dsyms_clear_version
LEMMA ClearVersionSound ==
  ASSUME NEW w, Shape(w), NEW wanted, NEW f, NEW old, NEW sure, Sound(w, wanted, f, old, sure), NEW names
  PROVE  Sound(ClearVersionOf(w, names), [s \in DOMAIN wanted |-> IF s \in names THEN Plain ELSE wanted[s]], f, old, sure)
<1> DEFINE wish == [s \in DOMAIN wanted |-> IF s \in names THEN Plain ELSE wanted[s]]
           cleared == {s \in names : w.symver[s] > 1}
           sv == [s \in DOMAIN w.symver |-> IF s \in cleared THEN 1 ELSE w.symver[s]]
           y == [w EXCEPT !.symver = sv]
           K == {w.symver[s] : s \in cleared}
<1>1. /\ Indexed(w) /\ Numbers(w) /\ DOMAIN w.symver = DOMAIN f.symver /\ DOMAIN wanted = DOMAIN w.symver
      /\ Spared(w, f) /\ (sure => Binds(w, wanted)) /\ (old => OldOnly(w))
  BY DEF Sound
<1>2. CASE ~w.versions
  <2>1. ClearVersionOf(w, names) = w
    BY <1>2 DEF ClearVersionOf
  <2>2. DOMAIN wish = DOMAIN wanted /\ \A s \in DOMAIN wanted : wish[s] = Plain \/ wish[s] = wanted[s]
    OBVIOUS
  <2> HIDE DEF wish
  <2>3. ASSUME Binds(w, wanted) PROVE Binds(w, wish)
    BY <1>1, <1>2, <2>3, <2>2 DEF Binds, Numbers
  <2>4. Sound(w, wish, f, old, sure)
    BY <1>1, <2>2, <2>3 DEF Sound
  <2> QED BY <2>1, <2>4 DEF wish
<1>3. CASE w.versions
  <2>1. ClearVersionOf(w, names) = RemoveRefs(y, K)
    BY <1>3 DEF ClearVersionOf
  <2>2. Fields \subseteq DOMAIN w
    BY DEF Shape
  <2>3. y.symver = sv /\ y = [w EXCEPT !.symver = y.symver]
    BY <2>2 DEF Fields
  <2> HIDE DEF y
  <2>4. DOMAIN y.symver = DOMAIN w.symver
    BY <2>3
  <2>5. \A s \in DOMAIN w.symver : y.symver[s] = w.symver[s] \/ (y.symver[s] = 1 /\ w.symver[s] \in K)
    BY <2>3
  <2>6. DOMAIN wish = DOMAIN wanted
    OBVIOUS
  <2>7. ASSUME sure
        PROVE  \A s \in DOMAIN wanted : IF y.symver[s] = w.symver[s] /\ w.symver[s] > 1 THEN wish[s] = wanted[s] ELSE wish[s] = Plain
    <3> TAKE s \in DOMAIN wanted
    <3>1. w.symver[s] \in Nat /\ s \in DOMAIN w.symver /\ (~(w.symver[s] > 1) => wanted[s] = Plain)
      BY <1>1, <2>7 DEF Numbers, Binds
    <3>2. CASE s \in cleared
      BY <2>3, <3>1, <3>2
    <3>3. CASE s \notin cleared
      BY <2>3, <3>1, <3>3
    <3> QED BY <3>2, <3>3
  <2> HIDE DEF wish, sv, cleared, K
  <2>8. Sound(RemoveRefs(y, K), wish, f, old, sure)
    BY <2>3, <2>4, <2>5, <2>6, <2>7, ClearedSound
  <2> QED BY <2>1, <2>8 DEF wish
<1> QED BY <1>2, <1>3

\* action_weak_verneed
LEMMA WeakVerneedSound ==
  ASSUME NEW w, Shape(w), NEW wanted, NEW f, NEW old, NEW sure, Sound(w, wanted, f, old, sure)
  PROVE  Sound(WeakVerneedOf(w), wanted, f, old, sure)
<1> DEFINE I(k, j) == IF ~w.need[k].items[j].weak THEN [w.need[k].items[j] EXCEPT !.weak = TRUE, !.dirty = TRUE] ELSE w.need[k].items[j]
           T(k) == [j \in DOMAIN w.need[k].items |-> I(k, j)]
           hs == [k \in DOMAIN w.need |->
                    IF \E j \in DOMAIN w.need[k].items : ~w.need[k].items[j].weak
                    THEN [w.need[k] EXCEPT !.dirty = TRUE, !.items = T(k)] ELSE w.need[k]]
           x == WeakVerneedOf(w)
<1>1. /\ Indexed(w) /\ Numbers(w) /\ DOMAIN w.symver = DOMAIN f.symver /\ DOMAIN wanted = DOMAIN w.symver
      /\ Spared(w, f) /\ (sure => Binds(w, wanted)) /\ (old => OldOnly(w))
  BY DEF Sound
<1>2. Fields \subseteq DOMAIN w /\ Groups(w.need)
  BY DEF Shape
<1>3. /\ x.need = hs /\ x.def = w.def /\ x.base = w.base /\ x.fresh = w.fresh /\ w.mod \subseteq x.mod
      /\ x.symver = w.symver /\ x.versions = w.versions
  BY <1>2 DEF WeakVerneedOf, Map, Fields
<1>4. \A i : SameKeys(i, i)
  BY DEF SameKeys
<1>5. DOMAIN hs = DOMAIN w.need
  OBVIOUS
<1>6. ASSUME NEW k \in DOMAIN w.need
      PROVE  /\ hs[k].lib = w.need[k].lib /\ hs[k].del = w.need[k].del /\ DOMAIN hs[k].items = DOMAIN w.need[k].items
             /\ \A j \in DOMAIN w.need[k].items : SameKeys(w.need[k].items[j], hs[k].items[j])
  <2>1. /\ GroupFields \subseteq DOMAIN w.need[k]
        /\ \A j \in DOMAIN w.need[k].items : ItemFields \subseteq DOMAIN w.need[k].items[j]
    BY <1>2 DEF Groups
  <2>2. CASE ~\E j \in DOMAIN w.need[k].items : ~w.need[k].items[j].weak
    BY <1>4, <2>2
  <2>3. CASE \E j \in DOMAIN w.need[k].items : ~w.need[k].items[j].weak
    <3>1. hs[k] = [w.need[k] EXCEPT !.dirty = TRUE, !.items = T(k)]
      BY <2>3
    <3>2. DOMAIN T(k) = DOMAIN w.need[k].items /\ \A j \in DOMAIN w.need[k].items : T(k)[j] = I(k, j)
      OBVIOUS
    <3> HIDE DEF hs, T
    <3>3. hs[k].lib = w.need[k].lib /\ hs[k].del = w.need[k].del /\ hs[k].items = T(k)
      BY <2>1, <3>1 DEF GroupFields
    <3>4. ASSUME NEW j \in DOMAIN w.need[k].items PROVE SameKeys(w.need[k].items[j], I(k, j))
      <4> DEFINE h == w.need[k].items[j]
      <4>1. CASE h.weak
        BY <1>4, <4>1
      <4>2. CASE ~h.weak
        <5>1. I(k, j) = [h EXCEPT !.weak = TRUE, !.dirty = TRUE] /\ "weak" \in DOMAIN h /\ "dirty" \in DOMAIN h
          BY <2>1, <4>2 DEF ItemFields
        <5> HIDE DEF h, I
        <5>2. SameKeys(h, I(k, j))
          BY <5>1 DEF SameKeys, Keys
        <5> QED BY <5>2 DEF h
      <4> QED BY <4>1, <4>2
    <3> QED BY <3>2, <3>3, <3>4
  <2> QED BY <2>2, <2>3
<1> HIDE DEF hs, x, T, I
<1>7. Kin(w, x)
  BY <1>3, <1>4, <1>5, <1>6 DEF Kin, SameItems
<1>8. Indexed(x) /\ Numbers(x)
  BY <1>1, <1>3, <1>7, KinIndexed DEF Numbers
<1>9. \A k : Present(w, k) => Present(x, k)
  BY <1>3, <1>6, <1>1, <1>7, KinPresent DEF LiveAt
<1>10. Spared(x, f)
  BY <1>3, <1>1, <1>7, KinSpared
<1>11. old => OldOnly(x)
  BY <1>1, <1>3, <1>7, KinOld
<1>12. sure => Binds(x, wanted)
  BY <1>1, <1>3, <1>9 DEF Binds
<1>13. Sound(x, wanted, f, old, sure)
  BY <1>1, <1>3, <1>8, <1>10, <1>11, <1>12 DEF Sound
<1> QED BY <1>13 DEF x

-----------------------------------------------------------------------------
(* Removing a library: what is required of it becomes what is defined.      *)

\* One edit of this kind after the other.
LEMMA TurnedTwice ==
  ASSUME NEW lib, NEW w, NEW x, Turned(w, x, lib), NEW y, Turned(x, y, lib), Kept(x, y)
  PROVE  Turned(w, y, lib)
<1>1. /\ Indexed(y) /\ y.symver = w.symver /\ y.versions = w.versions /\ w.mod \subseteq y.mod /\ DOMAIN y.need = DOMAIN w.need
      /\ \A g \in DOMAIN w.need : /\ y.need[g].lib = w.need[g].lib /\ y.need[g].items = w.need[g].items
                                  /\ (w.need[g].del => y.need[g].del)
                                  /\ (y.need[g].del => w.need[g].del \/ w.need[g].lib = lib)
  BY DEF Turned
<1>2. ASSUME NEW k \in DOMAIN w.base PROVE TurnedAt(w, y, lib, k)
  BY DEF Turned, TurnedAt, Kept
<1> QED BY <1>1, <1>2 DEF Turned

\* An item becomes a definition.
LEMMA TurnedItem ==
  ASSUME NEW x, Shape(x), Indexed(x), NEW g \in DOMAIN x.need, x.need[g].del, NEW i \in Items(x, g), Own(x, i)
  PROVE  LET y == AddVerdef(x, i.ver, i.idx) IN
         Turned(x, y, x.need[g].lib) /\ Kept(x, y) /\ Present(y, i.idx)
<1> DEFINE y == AddVerdef(x, i.ver, i.idx)
           n == NewItem(x, i.ver, i.idx)
<1>1. Added(x, y, None, n)
  BY AddedVerdef
<1>2. n.idx = i.idx /\ n.ver = i.ver
  BY DEF NewItem
<1> HIDE DEF y, n
<1>3. NeedIs(x, g, i) /\ x.need[g].lib # None
  BY DEF Indexed, Shape, Needs
<1>4. i.idx \in DOMAIN x.base /\ i.idx > 1 /\ x.base[i.idx] = Ref(x.need[g].lib, i) /\ x.base[i.idx].lib = x.need[g].lib /\ x.base[i.idx].ver = i.ver
  BY <1>3 DEF NeedIs, Own, Ref
<1>5. BaseIs(x) /\ i.idx \in Nat
  BY <1>4 DEF Indexed, BaseIs
<1>6. Vacant(x, i.idx)
  <2>1. \A h \in LiveAt(x.need) : \A j \in Items(x, h) : j.idx # i.idx
    BY DEF Indexed, LiveAt
  <2>2. \A j \in Firsts(x) : j.idx # i.idx
    <3> TAKE j \in Firsts(x)
    <3>1. DefIs(x, j)
      BY DEF Indexed
    <3>2. j.idx # 1 => x.base[j.idx].lib = None
      BY <3>1 DEF DefIs, Ref
    <3> QED BY <1>3, <1>4, <3>2
  <2> QED BY <1>4, <1>5, <2>1, <2>2 DEF Vacant
<1>7. Indexed(y) /\ Kept(x, y)
  BY <1>1, <1>2, <1>6, IndexedAdded DEF Kept
<1>8. /\ y.base = SetRef(x.base, None, n) /\ y.symver = x.symver /\ y.versions = x.versions /\ x.mod \subseteq y.mod
      /\ y.need = x.need /\ n \in Firsts(y)
  BY <1>1 DEF Added
<1>9. Present(y, i.idx)
  BY <1>2, <1>8 DEF Present
<1>10. /\ y.base[i.idx] = Ref(None, n)
       /\ \A k \in DOMAIN x.base : k \in DOMAIN y.base /\ (k # i.idx => y.base[k] = x.base[k])
  BY <1>2, <1>5, RefSet, <1>8 DEF Reset
<1>11. \A k \in DOMAIN x.base : TurnedAt(x, y, x.need[g].lib, k)
  <2> TAKE k \in DOMAIN x.base
  <2>1. CASE k # i.idx
    BY <1>10, <2>1 DEF TurnedAt
  <2>2. CASE k = i.idx
    BY <1>2, <1>10, <2>2, <1>4, <1>9 DEF Ref, TurnedAt
  <2> QED BY <2>1, <2>2
<1>12. Turned(x, y, x.need[g].lib)
  BY <1>7, <1>8, <1>11 DEF Turned
<1> QED BY <1>7, <1>9, <1>12 DEF y

\* Nothing has been turned yet.
LEMMA TurnedSame ==
  ASSUME NEW x, Indexed(x), NEW lib
  PROVE  Turned(x, x, lib) /\ Kept(x, x)
BY DEF Turned, TurnedAt, Kept

\* The items of a group become definitions.
LEMMA TurnedItems ==
  ASSUME NEW m, NEW d, NEW x, Editing(x, m, d), Indexed(x), NEW g \in DOMAIN x.need, x.need[g].del,
         NEW items, List(items), items = x.need[g].items
  PROVE  LET y == DefineItems(x, items) IN
         /\ Turned(x, y, x.need[g].lib) /\ Kept(x, y)
         /\ \A i \in Items(x, g) : Own(x, i) => Present(y, i.idx)
<1> DEFINE n == Len(items)
           lib == x.need[g].lib
           Good(o, y) == /\ Editing(y, m, d) /\ y.need = x.need /\ Turned(x, y, lib) /\ Kept(x, y)
                         /\ \A j \in 1 .. o : Own(x, items[j]) => Present(y, items[j].idx)
<1>1. n \in Nat /\ DOMAIN items = 1 .. n
  BY ListIs
<1>2. PICK F : /\ F[0] = x
               /\ \A o \in 1 .. n : F[o] = IF Own(F[o - 1], items[o]) THEN AddVerdef(F[o - 1], items[o].ver, items[o].idx)
                                           ELSE F[o - 1]
               /\ DefineItems(x, items) = F[n]
  BY DefineItemsSteps
<1> DEFINE S == {o \in 0 .. n : Good(o, F[o])}
<1>3. 0 \in S
  BY <1>1, <1>2, TurnedSame
<1>4. ASSUME NEW o \in 0 .. (n - 1), o \in S PROVE o + 1 \in S
  <2> DEFINE p == o + 1
             u == F[o]
             y == F[p]
             i == items[p]
  <2>1. p \in 1 .. n /\ p \in 0 .. n /\ p - 1 = o /\ (\A j \in 1 .. p : j = p \/ j \in 1 .. o)
    BY <1>1
  <2>2. Good(o, u)
    BY <1>4
  <2> HIDE DEF p, n
  <2>3. y = IF Own(u, i) THEN AddVerdef(u, i.ver, i.idx) ELSE u
    BY <1>2, <2>1
  <2>4. i \in Items(x, g)
    BY <1>1, <2>1 DEF Items, Values
  <2> HIDE DEF u, y, i
  <2>5. Shape(u) /\ Indexed(u) /\ g \in DOMAIN u.need /\ u.need[g].del /\ i \in Items(u, g) /\ u.need[g].lib = lib
    BY <2>2, <2>4, EditingShape DEF Turned, Items
  <2>6. CASE Own(u, i)
    <3>1. y = AddVerdef(u, i.ver, i.idx)
      BY <2>3, <2>6
    <3>2. Turned(u, y, lib) /\ Kept(u, y) /\ Present(y, i.idx)
      BY <2>5, <2>6, <3>1, TurnedItem
    <3>3. Editing(y, m, d) /\ y.need = x.need
      BY <2>2, <3>1, AddingVerdef
    <3>4. Turned(x, y, lib)
      BY <2>2, <3>2, TurnedTwice
    <3>5. Kept(x, y)
      BY <2>2, <3>2 DEF Kept
    <3>6. \A j \in 1 .. p : Own(x, items[j]) => Present(y, items[j].idx)
      BY <2>1, <2>2, <3>2 DEF Kept, i
    <3>7. Good(p, y)
      BY <3>3, <3>4, <3>5, <3>6
    <3> QED BY <2>1, <3>7 DEF p, y
  <2>7. CASE ~Own(u, i)
    <3>1. y = u
      BY <2>3, <2>7
    <3>2. Own(x, i) => Present(u, i.idx)
      <4> SUFFICES ASSUME Own(x, i) PROVE Present(u, i.idx)
        OBVIOUS
      <4>1. TurnedAt(x, u, lib, i.idx)
        BY <2>2 DEF Turned, Own
      <4> QED BY <2>7, <4>1 DEF TurnedAt, Own
    <3>3. Good(p, y)
      BY <2>1, <2>2, <3>1, <3>2 DEF i
    <3> QED BY <2>1, <3>3 DEF p, y
  <2> QED BY <2>6, <2>7
<1>5. S \in SUBSET (0 .. n)
  OBVIOUS
<1> HIDE DEF S
<1>6. S = 0 .. n
  <2> HIDE DEF n
  <2> QED BY <1>1, <1>3, <1>4, <1>5, Upwards
<1>7. n \in S
  BY <1>1, <1>6
<1>8. Good(n, DefineItems(x, items))
  BY <1>2, <1>7 DEF S
<1>9. \A i \in Items(x, g) : \E j \in 1 .. n : i = items[j]
  BY <1>1 DEF Items, Values
<1> HIDE DEF n
<1> QED BY <1>8, <1>9

\* The group of a library which is removed is deleted, and what was there is there.
LEMMA TurnedGroup ==
  ASSUME NEW m, NEW d, NEW w, Editing(w, m, d), Indexed(w), NEW g \in DOMAIN w.need
  PROVE  LET y == DefineGroup(w, g) IN
         Turned(w, y, w.need[g].lib) /\ Kept(w, y) /\ y.need[g].del
<1> DEFINE x == [w EXCEPT !.need[g].del = TRUE, !.mod = @ \cup {"need", "def"}]
           items == w.need[g].items
           lib == w.need[g].lib
           y == DefineGroup(w, g)
<1>1. Editing(x, m, d)
  BY RemovingGroup
<1>2. Shape(w) /\ Fields \subseteq DOMAIN w /\ GroupFields \subseteq DOMAIN w.need[g] /\ List(items)
  BY EditingShape DEF Shape, Groups
<1>3. y = DefineItems(x, items)
  BY DEF DefineGroup
<1>4. /\ x.base = w.base /\ x.fresh = w.fresh /\ x.symver = w.symver /\ x.versions = w.versions /\ w.mod \subseteq x.mod
      /\ x.def = w.def /\ x.need = [w.need EXCEPT ![g].del = TRUE]
  BY <1>2 DEF Fields
<1> HIDE DEF x, y
<1>5. /\ DOMAIN x.need = DOMAIN w.need /\ \A h \in DOMAIN w.need : h # g => x.need[h] = w.need[h]
      /\ x.need[g] = [w.need[g] EXCEPT !.del = TRUE]
  BY <1>4
<1>6. x.need[g].lib = lib /\ x.need[g].items = items /\ x.need[g].del
  BY <1>2, <1>5 DEF GroupFields
<1>7. \A i : SameKeys(i, i)
  BY DEF SameKeys
<1> HIDE DEF items, lib
<1>8. /\ \A h \in DOMAIN w.need : /\ x.need[h].lib = w.need[h].lib /\ x.need[h].items = w.need[h].items
                                  /\ (w.need[h].del => x.need[h].del)
                                  /\ (x.need[h].del => w.need[h].del \/ w.need[h].lib = lib)
  BY <1>5, <1>6 DEF items, lib
<1>9. Kin(w, x)
  BY <1>4, <1>5, <1>7, <1>8 DEF Kin, SameItems
<1>10. Indexed(x)
  BY <1>2, <1>9, KinIndexed
<1>11. Turned(w, x, lib)
  BY <1>4, <1>5, <1>8, <1>10 DEF Turned, TurnedAt
<1>12. Turned(x, y, lib) /\ Kept(x, y) /\ \A i \in Items(x, g) : Own(x, i) => Present(y, i.idx)
  BY <1>1, <1>2, <1>3, <1>5, <1>6, <1>10, TurnedItems
<1>13. Turned(w, y, lib)
  BY <1>11, <1>12, TurnedTwice
<1>14. Kept(w, y)
  <2> SUFFICES ASSUME NEW k, Present(w, k) PROVE Present(y, k)
    BY DEF Kept
  <2>1. CASE \E i \in Firsts(w) : i.idx = k
    <3>1. Firsts(x) = Firsts(w)
      BY <1>4 DEF Firsts
    <3>2. Present(x, k)
      BY <2>1, <3>1 DEF Present
    <3> QED BY <1>12, <3>2 DEF Kept
  <2>2. CASE \E h \in LiveAt(w.need) : \E i \in Items(w, h) : i.idx = k
    <3>1. PICK h \in LiveAt(w.need) : \E i \in Items(w, h) : i.idx = k
      BY <2>2
    <3>2. PICK i \in Items(w, h) : i.idx = k
      BY <3>1
    <3>3. CASE h # g
      <4>1. h \in LiveAt(x.need) /\ i \in Items(x, h)
        BY <1>5, <3>3 DEF LiveAt, Items
      <4> QED BY <1>12, <3>2, <4>1 DEF Kept, Present
    <3>4. CASE h = g
      <4>1. NeedIs(w, g, i) /\ ~w.need[g].del
        BY <3>4 DEF Indexed, LiveAt
      <4>2. Own(x, i)
        BY <1>4, <4>1 DEF NeedIs, Own, Ref
      <4>3. i \in Items(x, g)
        BY <1>8, <3>4 DEF Items
      <4> QED BY <1>12, <3>2, <4>2, <4>3
    <3> QED BY <3>3, <3>4
  <2> QED BY <2>1, <2>2 DEF Present
<1>15. y.need[g].del
  BY <1>5, <1>6, <1>12 DEF Turned
<1> QED BY <1>13, <1>14, <1>15 DEF y, lib

\* All that is required of the library has been turned into definitions.
LEMMA TurnedNeeded ==
  ASSUME NEW m, NEW d, NEW w, Editing(w, m, d), Indexed(w), NEW lib, lib \in w.libs
  PROVE  LET x == RemoveNeededOf(w, lib) IN
         Turned(w, x, lib) /\ Kept(w, x) /\ \A g \in DOMAIN w.need : w.need[g].lib = lib => x.need[g].del
<1> DEFINE n == Len(w.need)
           w0 == [w EXCEPT !.libs = @ \ {lib}]
           Good(o, x) == /\ Editing(x, m, d) /\ Turned(w, x, lib) /\ Kept(w, x)
                         /\ \A g \in 1 .. o : w.need[g].lib = lib => x.need[g].del
<1>1. List(w.need) /\ Fields \subseteq DOMAIN w
  BY DEF Editing, Listed
<1>2. n \in Nat /\ DOMAIN w.need = 1 .. n
  BY <1>1, ListIs
<1>3. PICK F : /\ F[0] = w0
               /\ \A o \in 1 .. n : F[o] = IF w.need[o].lib = lib THEN DefineGroup(F[o - 1], o) ELSE F[o - 1]
               /\ RemoveNeededOf(w, lib) = F[n]
  BY <1>1, RemoveNeededSteps
<1>4. Good(0, w0)
  <2>1. /\ Fields \subseteq DOMAIN w0 /\ w0.need = w.need /\ w0.def = w.def /\ w0.feats = w.feats /\ w0.mod = w.mod
        /\ w0.base = w.base /\ w0.fresh = w.fresh /\ w0.symver = w.symver /\ w0.versions = w.versions
    BY <1>1 DEF Fields
  <2> HIDE DEF w0
  <2>2. Editing(w0, m, d)
    BY <2>1, EditSame
  <2>3. \A i : SameKeys(i, i)
    BY DEF SameKeys
  <2>4. Kin(w, w0)
    BY <2>1, <2>3 DEF Kin, SameItems
  <2>5. Shape(w)
    BY EditingShape
  <2>6. Indexed(w0)
    BY <2>4, <2>5, KinIndexed
  <2>7. Turned(w, w0, lib)
    BY <2>1, <2>6 DEF Turned, TurnedAt
  <2>8. Kept(w, w0)
    BY <2>1 DEF Kept, Present, Items, Firsts
  <2>9. \A g \in 1 .. 0 : FALSE
    OBVIOUS
  <2> QED BY <2>2, <2>7, <2>8, <2>9
<1> HIDE DEF w0
<1> DEFINE S == {o \in 0 .. n : Good(o, F[o])}
<1>5. 0 \in S
  BY <1>2, <1>3, <1>4
<1>6. ASSUME NEW o \in 0 .. (n - 1), o \in S PROVE o + 1 \in S
  <2> DEFINE p == o + 1
             u == F[o]
             y == F[p]
  <2>1. p \in 1 .. n /\ p \in 0 .. n /\ p - 1 = o /\ (\A j \in 1 .. p : j = p \/ j \in 1 .. o)
        /\ \A j \in 1 .. o : j \in 1 .. n
    BY <1>2
  <2>2. Good(o, u)
    BY <1>6
  <2> HIDE DEF p, n
  <2>3. y = IF w.need[p].lib = lib THEN DefineGroup(u, p) ELSE u
    BY <1>3, <2>1
  <2> HIDE DEF u, y
  <2>4. p \in DOMAIN w.need /\ p \in DOMAIN u.need /\ u.need[p].lib = w.need[p].lib
    BY <1>2, <2>1, <2>2 DEF Turned
  <2>5. CASE w.need[p].lib = lib
    <3>1. y = DefineGroup(u, p) /\ Indexed(u)
      BY <2>2, <2>3, <2>5 DEF Turned
    <3>2. Editing(y, m, d)
      BY <2>2, <2>4, <3>1, DefiningGroup
    <3>3. Turned(u, y, lib) /\ Kept(u, y) /\ y.need[p].del
      BY <2>2, <2>4, <2>5, <3>1, TurnedGroup
    <3>4. Turned(w, y, lib)
      BY <2>2, <3>3, TurnedTwice
    <3>5. Kept(w, y)
      BY <2>2, <3>3 DEF Kept
    <3>6. \A g \in 1 .. p : w.need[g].lib = lib => y.need[g].del
      BY <1>2, <2>1, <2>2, <3>3 DEF Turned
    <3>7. Good(p, y)
      BY <3>2, <3>4, <3>5, <3>6
    <3> QED BY <2>1, <3>7 DEF p, y
  <2>6. CASE w.need[p].lib # lib
    BY <2>1, <2>2, <2>3, <2>6 DEF p, y
  <2> QED BY <2>5, <2>6
<1>7. S \in SUBSET (0 .. n)
  OBVIOUS
<1> HIDE DEF S
<1>8. S = 0 .. n
  <2> HIDE DEF n
  <2> QED BY <1>2, <1>5, <1>6, <1>7, Upwards
<1>9. n \in S
  BY <1>2, <1>8
<1>10. Good(n, RemoveNeededOf(w, lib))
  BY <1>3, <1>9 DEF S
<1> QED BY <1>2, <1>10

\* erwNNE_(dhdrs_remove_needed)
LEMMA RemoveNeededSound ==
  ASSUME NEW m, NEW d, NEW w, Editing(w, m, d), NEW wanted, NEW f, NEW old, NEW sure, Sound(w, wanted, f, old, sure), NEW lib
  PROVE  Sound(RemoveNeededOf(w, lib),
               [s \in DOMAIN wanted |-> IF lib \in w.libs /\ wanted[s].lib = lib THEN [wanted[s] EXCEPT !.lib = None] ELSE wanted[s]],
               f, old, sure)
<1> DEFINE wish == [s \in DOMAIN wanted |-> IF lib \in w.libs /\ wanted[s].lib = lib THEN [wanted[s] EXCEPT !.lib = None] ELSE wanted[s]]
           x == RemoveNeededOf(w, lib)
<1>1. /\ Indexed(w) /\ Numbers(w) /\ DOMAIN w.symver = DOMAIN f.symver /\ DOMAIN wanted = DOMAIN w.symver
      /\ Spared(w, f) /\ (sure => Binds(w, wanted)) /\ (old => OldOnly(w))
  BY DEF Sound
<1>2. /\ DOMAIN wish = DOMAIN wanted
      /\ \A s \in DOMAIN wanted : wish[s] = IF lib \in w.libs /\ wanted[s].lib = lib THEN [wanted[s] EXCEPT !.lib = None] ELSE wanted[s]
  OBVIOUS
<1> HIDE DEF wish
<1>3. CASE lib \notin w.libs
  <2>1. x = w
    BY <1>3 DEF RemoveNeededOf
  <2>2. \A s \in DOMAIN wanted : wish[s] = wanted[s]
    BY <1>2, <1>3
  <2>3. sure => Binds(w, wish)
    BY <1>1, <1>2, <2>2 DEF Binds
  <2>4. Sound(w, wish, f, old, sure)
    BY <1>1, <1>2, <2>3 DEF Sound
  <2> QED BY <2>1, <2>4 DEF wish
<1>4. CASE lib \in w.libs
  <2>1. Turned(w, x, lib) /\ Kept(w, x) /\ \A g \in DOMAIN w.need : w.need[g].lib = lib => x.need[g].del
    BY <1>1, <1>4, TurnedNeeded
  <2>2. Editing(x, m, d)
    BY RemovingNeeded
  <2> HIDE DEF x
  <2>3. Shape(x)
    BY <2>2, EditingShape
  <2>4. /\ Indexed(x) /\ x.symver = w.symver /\ x.versions = w.versions /\ w.mod \subseteq x.mod
        /\ DOMAIN x.need = DOMAIN w.need
        /\ \A g \in DOMAIN w.need : x.need[g].lib = w.need[g].lib /\ x.need[g].items = w.need[g].items /\ (w.need[g].del => x.need[g].del)
        /\ \A k \in DOMAIN w.base : TurnedAt(w, x, lib, k)
    BY <2>1 DEF Turned
  <2>5. \A g \in LiveAt(x.need) : g \in LiveAt(w.need) /\ Items(x, g) = Items(w, g) /\ x.need[g].lib = w.need[g].lib
    BY <2>4 DEF LiveAt, Items
  <2>6. Spared(x, f)
    BY <1>1, <2>4, <2>5 DEF Spared
  <2>7. old => OldOnly(x)
    BY <1>1, <2>4, <2>5 DEF OldOnly
  <2>8. Numbers(x)
    BY <1>1, <2>4 DEF Numbers
  <2>9. ASSUME sure PROVE Binds(x, wish)
    <3> SUFFICES ASSUME NEW s \in DOMAIN wanted
                 PROVE  IF w.symver[s] > 1
                        THEN /\ w.symver[s] \in DOMAIN x.base /\ Present(x, w.symver[s])
                             /\ wish[s] = [lib |-> x.base[w.symver[s]].lib, ver |-> x.base[w.symver[s]].ver]
                        ELSE wish[s] = Plain
      BY <1>1, <1>2, <2>4 DEF Binds
    <3> DEFINE k == w.symver[s]
    <3>1. k \in Nat
      BY <1>1 DEF Numbers
    <3>2. CASE k > 1
      <4>1. k # 1 /\ k \in DOMAIN w.base /\ Present(w, k) /\ wanted[s] = [lib |-> w.base[k].lib, ver |-> w.base[k].ver]
        BY <1>1, <2>9, <3>1, <3>2 DEF Binds
      <4> HIDE DEF k
      <4>2. Present(x, k) /\ TurnedAt(w, x, lib, k) /\ k \in DOMAIN x.base
        BY <2>1, <2>4, <4>1 DEF Kept, TurnedAt
      <4>3. x.base[k].lib # None => \E g \in LiveAt(x.need) : \E i \in Items(x, g) : i.idx = k /\ x.base[k] = Ref(x.need[g].lib, i)
        BY <2>3, <2>4, <4>1, <4>2, PresentIs
      <4>4. x.base[k].lib # None => x.base[k].lib # lib
        <5> SUFFICES ASSUME x.base[k].lib # None PROVE x.base[k].lib # lib
          OBVIOUS
        <5>1. PICK g \in LiveAt(x.need) : \E i \in Items(x, g) : i.idx = k /\ x.base[k] = Ref(x.need[g].lib, i)
          BY <4>3
        <5>2. x.base[k].lib = x.need[g].lib
          BY <5>1 DEF Ref
        <5> QED BY <2>1, <2>4, <5>2 DEF LiveAt
      <4>5. wish[s] = [lib |-> x.base[k].lib, ver |-> x.base[k].ver]
        <5>1. wanted[s].lib = w.base[k].lib /\ wanted[s].ver = w.base[k].ver
          BY <4>1
        <5>2. CASE w.base[k].lib = lib
          BY <1>2, <1>4, <5>1, <5>2, <4>1, <4>2, <4>4 DEF TurnedAt
        <5>3. CASE w.base[k].lib # lib
          BY <1>2, <5>1, <5>3, <4>2, <4>1 DEF TurnedAt
        <5> QED BY <5>2, <5>3
      <4> QED BY <3>2, <4>2, <4>5 DEF k
    <3>3. CASE ~(k > 1)
      <4>1. wanted[s] = Plain
        BY <1>1, <2>9, <3>3 DEF Binds
      <4>2. wish[s] = Plain
        BY <1>2, <4>1 DEF Plain
      <4> QED BY <3>3, <4>2
    <3> QED BY <3>2, <3>3
  <2>10. Sound(x, wish, f, old, sure)
    BY <1>1, <1>2, <2>4, <2>6, <2>7, <2>8, <2>9 DEF Sound
  <2> QED BY <2>10 DEF x, wish
<1> QED BY <1>3, <1>4

-----------------------------------------------------------------------------
(* Renaming.                                                                *)

\* What has been added under an index which was free.
LEMMA FoundAdded ==
  ASSUME NEW u, Shape(u), Indexed(u), NEW x, NEW lib, NEW i, Added(u, x, lib, i), Free(u, i.idx)
  PROVE  Found(u, x, i.idx, lib, i.ver)
<1>1. i.idx \in Nat /\ i.idx > 1 /\ BaseIs(u)
  BY DEF Free, Indexed
<1>2. Reset(u.base, SetRef(u.base, lib, i), i.idx, Ref(lib, i))
  BY <1>1, RefSet
<1> DEFINE k == i.idx
<1>3. Vacant(u, k) /\ Indexed(x) /\ Kept(u, x)
  BY FreeVacant, IndexedAdded DEF Kept
<1>4. /\ x.base = SetRef(u.base, lib, i) /\ x.symver = u.symver /\ x.versions = u.versions /\ u.mod \subseteq x.mod
  BY DEF Added
<1>5. /\ k \in DOMAIN x.base /\ x.base[k] = Ref(lib, i)
      /\ \A l \in DOMAIN u.base : l \in DOMAIN x.base /\ (l # k => x.base[l] = u.base[l])
  BY <1>2, <1>4 DEF Reset
<1>6. x.base[k].lib = lib /\ x.base[k].ver = i.ver
  BY <1>5 DEF Ref
<1>7. ~Present(u, k)
  BY DEF Free, Present, LiveAt
<1>8. \A l : l # 1 /\ Present(u, l) => l \in DOMAIN x.base /\ x.base[l] = u.base[l]
  <2> SUFFICES ASSUME NEW l, l # 1, Present(u, l) PROVE l \in DOMAIN x.base /\ x.base[l] = u.base[l]
    OBVIOUS
  <2>1. l \in DOMAIN u.base
    BY PresentIs
  <2> QED BY <1>5, <1>7, <2>1
<1>9. /\ LiveLib(u, lib) => Present(x, k)
      /\ \A g \in LiveAt(x.need) : \A j \in Items(x, g) :
            j.idx = k \/ (g \in LiveAt(u.need) /\ j \in Items(u, g) /\ u.need[g].lib = x.need[g].lib)
      /\ \A l : LiveLib(u, l) => LiveLib(x, l)
  <2>1. CASE lib = None
    BY <2>1 DEF Added, Items, Present, LiveLib
  <2>2. CASE lib # None
    <3>1. PICK p \in DOMAIN x.need :
              /\ DOMAIN x.need = DOMAIN u.need \cup {p} /\ \A g \in DOMAIN u.need : g # p => x.need[g] = u.need[g]
              /\ x.need[p].lib = lib
              /\ \/ p \in DOMAIN u.need /\ u.need[p].lib = lib /\ x.need[p].del = u.need[p].del /\ Items(x, p) = Items(u, p) \cup {i}
                 \/ p \notin DOMAIN u.need /\ ~x.need[p].del /\ Items(x, p) = {i}
      BY <2>2 DEF Added
    <3>2. \A g \in DOMAIN u.need : g # p => Items(x, g) = Items(u, g)
      BY <3>1 DEF Items
    <3>3. LiveLib(u, lib) => ~x.need[p].del
      BY <3>1 DEF LiveLib
    <3>4. i \in Items(x, p)
      BY <3>1
    <3>5. LiveLib(u, lib) => Present(x, k)
      BY <3>1, <3>3, <3>4 DEF Present, LiveAt
    <3>6. \A g \in LiveAt(x.need) : \A j \in Items(x, g) :
            j.idx = k \/ (g \in LiveAt(u.need) /\ j \in Items(u, g) /\ u.need[g].lib = x.need[g].lib)
      BY <3>1, <3>2 DEF LiveAt
    <3>7. \A l : LiveLib(u, l) => LiveLib(x, l)
      BY <3>1 DEF LiveLib
    <3> QED BY <3>5, <3>6, <3>7
  <2> QED BY <2>1, <2>2
<1> QED BY <1>1, <1>3, <1>4, <1>5, <1>6, <1>8, <1>9 DEF Found

\* erw_vers_find_or_add
LEMMA FindOrAddIs ==
  ASSUME NEW u, Shape(u), Indexed(u), NEW lib, NEW ver
  PROVE  Found(u, FindOrAdd(u, lib, ver).v, FindOrAdd(u, lib, ver).idx, lib, ver)
<1>1. CASE Matching(u, lib, ver) # {}
  <2> DEFINE k == Min(Matching(u, lib, ver))
  <2>1. FindOrAdd(u, lib, ver) = [v |-> u, idx |-> k]
    BY <1>1 DEF FindOrAdd
  <2>2. BaseIs(u)
    BY DEF Indexed
  <2>3. Matching(u, lib, ver) \in SUBSET Nat
    BY <2>2 DEF BaseIs, Matching
  <2>4. k \in Matching(u, lib, ver)
    BY <1>1, <2>3, MinIs
  <2> HIDE DEF k
  <2>5. k \in DOMAIN u.base /\ u.base[k].id # 0 /\ u.base[k].lib = lib /\ u.base[k].ver = ver /\ u.base[k] # NoRef
    BY <2>4 DEF Matching, NoRef
  <2>6. k \in Nat /\ k > 1 /\ (IsNeeded(u, k) \/ IsDefined(u, k))
    BY <2>2, <2>5 DEF BaseIs
  <2>7. LiveLib(u, lib) => Present(u, k)
    <3> SUFFICES ASSUME LiveLib(u, lib) PROVE Present(u, k)
      OBVIOUS
    <3>1. CASE IsNeeded(u, k)
      <4>1. PICK g \in DOMAIN u.need : \E i \in Items(u, g) : i.idx = k /\ u.base[k] = Ref(u.need[g].lib, i)
        BY <3>1 DEF IsNeeded
      <4>2. u.need[g].lib = lib
        BY <2>5, <4>1 DEF Ref
      <4> QED BY <4>1, <4>2 DEF LiveLib, Present, LiveAt
    <3>2. CASE IsDefined(u, k)
      BY <3>2 DEF IsDefined, Present
    <3> QED BY <2>6, <3>1, <3>2
  <2>8. \A l : l # 1 /\ Present(u, l) => l \in DOMAIN u.base
    BY PresentIs
  <2>9. Found(u, u, k, lib, ver)
    BY <2>5, <2>6, <2>7, <2>8 DEF Found, Kept, LiveAt
  <2> QED BY <2>1, <2>9
<1>2. CASE Matching(u, lib, ver) = {}
  <2> DEFINE k == Avail(u)
             i == NewItem(u, ver, k)
             x == IF lib = None THEN AddVerdef(u, ver, k) ELSE AddVernaux(u, lib, ver, k)
  <2>1. FindOrAdd(u, lib, ver) = [v |-> x, idx |-> k]
    BY <1>2 DEF FindOrAdd
  <2>2. Free(u, k)
    BY AvailFree
  <2>3. Added(u, x, lib, i)
    BY AddedVerdef, AddedVernaux
  <2>4. i.idx = k /\ i.ver = ver
    BY DEF NewItem
  <2> HIDE DEF i, x, k
  <2>5. Free(u, i.idx)
    BY <2>2, <2>4
  <2>6. Found(u, x, i.idx, lib, i.ver)
    BY <2>3, <2>5, FoundAdded
  <2> QED BY <2>1, <2>4, <2>6
<1> QED BY <1>1, <1>2

\* Symbol s is bound to the index which has been found, and what it was bound to, that
\* at index q, loses a reference unless it is the same.
LEMMA ReboundSound ==
  ASSUME NEW u, Shape(u), NEW wanted, NEW f, NEW old, ~old, NEW sure, Sound(u, wanted, f, old, sure), u.versions,
         NEW x, Shape(x), NEW k, NEW lib, NEW ver, Found(u, x, k, lib, ver), sure => LiveLib(u, lib),
         NEW s \in DOMAIN wanted, NEW q, u.symver[s] = q \/ (u.symver[s] \in {0, 1} /\ q \in {0, 1}),
         NEW wish, DOMAIN wish = DOMAIN wanted,
         \A t \in DOMAIN wanted : wish[t] = IF t = s THEN [lib |-> lib, ver |-> ver] ELSE wanted[t],
         NEW z, BoundTo(x, z, s, k, q)
  PROVE  Sound(z, wish, f, old, sure) /\ \A l : LiveLib(u, l) => LiveLib(z, l)
<1>1. /\ Indexed(u) /\ Numbers(u) /\ DOMAIN u.symver = DOMAIN f.symver /\ DOMAIN wanted = DOMAIN u.symver
      /\ Spared(u, f) /\ (sure => Binds(u, wanted))
  BY DEF Sound
<1>2. /\ Indexed(x) /\ x.symver = u.symver /\ x.versions = u.versions /\ u.mod \subseteq x.mod
      /\ Kept(u, x) /\ \A l : l # 1 /\ Present(u, l) => l \in DOMAIN x.base /\ x.base[l] = u.base[l]
      /\ k \in Nat /\ k > 1 /\ k \in DOMAIN x.base /\ x.base[k].lib = lib /\ x.base[k].ver = ver
      /\ LiveLib(u, lib) => Present(x, k)
      /\ \A g \in LiveAt(x.need) : \A i \in Items(x, g) :
            i.idx = k \/ (g \in LiveAt(u.need) /\ i \in Items(u, g) /\ u.need[g].lib = x.need[g].lib)
      /\ \A l : LiveLib(u, l) => LiveLib(x, l)
  BY DEF Found
<1> DEFINE y == IF k = q THEN x ELSE [x EXCEPT !.symver[s] = k]
<1>3. /\ Fields \subseteq DOMAIN y /\ y.need = x.need /\ y.def = x.def /\ y.base = x.base /\ y.fresh = x.fresh
      /\ y.mod = x.mod /\ y.versions = x.versions
      /\ y.symver = IF k = q THEN x.symver ELSE [x.symver EXCEPT ![s] = k]
  BY DEF Shape, Fields
<1>4. k # q => z = RemoveRefs(y, {q})
  BY DEF BoundTo
<1>5. k = q => z = y
  BY DEF BoundTo
<1> HIDE DEF y
<1>6. DOMAIN y.symver = DOMAIN u.symver /\ y.symver[s] = k /\ \A t \in DOMAIN wanted : t # s => y.symver[t] = u.symver[t]
  BY <1>2, <1>1, <1>3
<1>7. Shape(y) /\ \A i : SameKeys(i, i)
  BY <1>3 DEF Shape, SameKeys
<1>8. Kin(x, y)
  BY <1>3, <1>7 DEF Kin, SameItems
<1>9. Indexed(y)
  BY <1>2, <1>8, KinIndexed
<1>10. /\ Kin(y, z) /\ z.symver = y.symver /\ z.versions = y.versions /\ y.mod \subseteq z.mod
       /\ DOMAIN z.need = DOMAIN y.need /\ \A g \in DOMAIN y.need : z.need[g].del = y.need[g].del /\ z.need[g].lib = y.need[g].lib
       /\ k # q => \A g \in LiveAt(z.need) : \A i \in Items(z, g) : i.idx = q => i.unref /\ "need" \in z.mod
  <2>1. CASE k = q
    BY <1>5, <1>7, <2>1 DEF Kin, SameItems
  <2>2. CASE k # q
    <3> DEFINE K == {q}
    <3>1. z = RemoveRefs(y, K)
      BY <1>4, <2>2
    <3>2. q \in K
      OBVIOUS
    <3> HIDE DEF K
    <3>3. /\ Kin(y, z) /\ Shape(z) /\ z.symver = y.symver /\ z.versions = y.versions /\ y.mod \subseteq z.mod /\ z.libs = y.libs
          /\ \A g \in DOMAIN y.need : z.need[g].del = y.need[g].del
          /\ \A g \in LiveAt(z.need) : \A i \in Items(z, g) : i.idx \in K => i.unref /\ "need" \in z.mod
      BY <1>7, <1>9, <3>1, RefsRemoved
    <3> QED BY <3>2, <3>3 DEF Kin, SameItems
  <2> QED BY <2>1, <2>2
<1>11. Kin(x, z)
  BY <1>3, <1>10 DEF Kin
<1>12. Indexed(z)
  BY <1>2, <1>11, KinIndexed
<1>13. Numbers(z)
  BY <1>1, <1>2, <1>3, <1>6, <1>10 DEF Numbers
<1>14. Spared(z, f)
  <2> SUFFICES ASSUME NEW g \in LiveAt(z.need), NEW i \in Items(z, g)
               PROVE  \/ i.unref /\ "need" \in z.mod
                      \/ \E t \in DOMAIN z.symver : z.symver[t] = i.idx
                      \/ Unused(f, z.need[g].lib, i.ver)
    BY DEF Spared
  <2>1. /\ DOMAIN z.need = DOMAIN x.need /\ g \in LiveAt(x.need) /\ g \in DOMAIN x.need /\ z.need[g].lib = x.need[g].lib
    BY <1>3, <1>10 DEF LiveAt
  <2>2. PICK h \in Items(x, g) : SameKeys(h, i)
    BY <1>11, <2>1, KinItems
  <2>3. Keys \subseteq DOMAIN h /\ h.idx > 1
    BY <1>2, <2>1 DEF Indexed, NeedIs
  <2>4. i.idx = h.idx /\ i.ver = h.ver /\ (h.unref => i.unref)
    BY <2>2, <2>3 DEF SameKeys
  <2>5. CASE h.idx = k
    BY <1>1, <1>6, <1>10, <2>4, <2>5
  <2>6. CASE h.idx # k
    <3>1. g \in LiveAt(u.need) /\ h \in Items(u, g) /\ u.need[g].lib = x.need[g].lib
      BY <1>2, <2>1, <2>6
    <3>2. \/ h.unref /\ "need" \in u.mod
          \/ \E t \in DOMAIN u.symver : u.symver[t] = h.idx
          \/ Unused(f, u.need[g].lib, h.ver)
      BY <1>1, <3>1 DEF Spared
    <3>3. CASE h.unref /\ "need" \in u.mod
      BY <1>2, <1>3, <1>10, <2>4, <3>3
    <3>4. CASE \E t \in DOMAIN u.symver : u.symver[t] = h.idx
      <4>1. PICK t \in DOMAIN u.symver : u.symver[t] = h.idx
        BY <3>4
      <4>2. CASE t # s
        BY <1>1, <1>6, <1>10, <2>4, <4>1, <4>2
      <4>3. CASE t = s
        BY <2>3, <4>1, <4>3, <2>6, <1>10, <2>4
      <4> QED BY <4>2, <4>3
    <3>5. CASE Unused(f, u.need[g].lib, h.ver)
      BY <2>1, <2>4, <3>1, <3>5
    <3> QED BY <3>2, <3>3, <3>4, <3>5
  <2> QED BY <2>5, <2>6
<1>15. z.base = x.base /\ \A l : Present(x, l) => Present(z, l)
  BY <1>3, <1>10, <1>2, <1>11, KinPresent DEF LiveAt, Kin
<1>16. ASSUME sure PROVE Binds(z, wish)
  <2> SUFFICES ASSUME NEW t \in DOMAIN wanted
               PROVE  IF z.symver[t] > 1
                      THEN /\ z.symver[t] \in DOMAIN z.base /\ Present(z, z.symver[t])
                           /\ wish[t] = [lib |-> z.base[z.symver[t]].lib, ver |-> z.base[z.symver[t]].ver]
                      ELSE wish[t] = Plain
    BY <1>1, <1>6, <1>10 DEF Binds
  <2>1. CASE t = s
    BY <1>2, <1>6, <1>10, <1>15, <1>16, <2>1
  <2>2. CASE t # s
    <3> DEFINE l == u.symver[t]
    <3>1. z.symver[t] = l /\ wish[t] = wanted[t] /\ l \in Nat
      BY <1>1, <1>6, <1>10, <2>2 DEF Numbers
    <3>2. CASE l > 1
      <4>1. l # 1 /\ Present(u, l) /\ wanted[t] = [lib |-> u.base[l].lib, ver |-> u.base[l].ver]
        BY <1>1, <1>16, <3>1, <3>2 DEF Binds
      <4> HIDE DEF l
      <4>2. Present(x, l) /\ l \in DOMAIN x.base /\ x.base[l] = u.base[l]
        BY <1>2, <4>1 DEF Kept
      <4> QED BY <1>15, <3>1, <3>2, <4>1, <4>2
    <3>3. CASE ~(l > 1)
      BY <1>1, <1>16, <3>1, <3>3 DEF Binds
    <3> QED BY <3>2, <3>3
  <2> QED BY <2>1, <2>2
<1>17. \A l : LiveLib(u, l) => LiveLib(z, l)
  <2>1. \A l : LiveLib(x, l) => LiveLib(z, l)
    BY <1>3, <1>10 DEF LiveLib
  <2> QED BY <1>2, <2>1
<1>18. DOMAIN z.symver = DOMAIN u.symver
  BY <1>6, <1>10
<1> QED BY <1>1, <1>12, <1>13, <1>14, <1>16, <1>17, <1>18 DEF Sound

\* erw_dsyms_ensure_versions_array: no symbol which has no version is bound.
LEMMA EnsuredSound ==
  ASSUME NEW w, Shape(w), NEW wanted, NEW f, NEW old, ~old, NEW sure, Sound(w, wanted, f, old, sure), NEW libs
  PROVE  LET u == [EnsureVersionsArray(w) EXCEPT !.libs = libs] IN
         /\ Sound(u, wanted, f, old, sure) /\ Shape(u) /\ u.versions /\ u.need = w.need
         /\ \A s \in DOMAIN wanted : u.symver[s] = w.symver[s] \/ (u.symver[s] \in {0, 1} /\ w.symver[s] \in {0, 1})
<1> DEFINE u == [EnsureVersionsArray(w) EXCEPT !.libs = libs]
           sv == IF w.versions THEN w.symver ELSE [s \in DOMAIN w.symver |-> 1]
<1>1. /\ Indexed(w) /\ Numbers(w) /\ DOMAIN w.symver = DOMAIN f.symver /\ DOMAIN wanted = DOMAIN w.symver
      /\ Spared(w, f) /\ (sure => Binds(w, wanted))
  BY DEF Sound
<1>2. /\ Fields \subseteq DOMAIN u /\ u.need = w.need /\ u.def = w.def /\ u.base = w.base /\ u.fresh = w.fresh /\ u.mod = w.mod
      /\ u.versions = TRUE /\ u.symver = sv
  BY DEF Shape, Fields, EnsureVersionsArray
<1>3. DOMAIN sv = DOMAIN w.symver /\ \A s \in DOMAIN w.symver : sv[s] = w.symver[s] \/ (sv[s] = 1 /\ ~w.versions)
  OBVIOUS
<1> HIDE DEF u, sv
<1>4. \A s \in DOMAIN w.symver : w.symver[s] \in Nat /\ (~w.versions => w.symver[s] \in {0, 1})
  BY <1>1 DEF Numbers
<1>5. Shape(u) /\ \A i : SameKeys(i, i)
  BY <1>2 DEF Shape, SameKeys
<1>6. Kin(w, u)
  BY <1>2, <1>5 DEF Kin, SameItems
<1>7. Indexed(u)
  BY <1>1, <1>6, KinIndexed
<1>8. Numbers(u)
  BY <1>2, <1>3, <1>4 DEF Numbers
<1>9. Spared(u, f)
  <2> SUFFICES ASSUME NEW g \in LiveAt(u.need), NEW i \in Items(u, g), NEW s \in DOMAIN w.symver, w.symver[s] = i.idx
               PROVE  \E t \in DOMAIN u.symver : u.symver[t] = i.idx
    BY <1>2, <1>1, <1>6, KinSpared
  <2>1. NeedIs(w, g, i)
    BY <1>1, <1>2 DEF Indexed, LiveAt, Items
  <2>2. i.idx \notin {0, 1}
    BY <2>1 DEF NeedIs
  <2> QED BY <1>2, <1>3, <1>4, <2>2
<1>10. sure => Binds(u, wanted)
  <2>1. \A k : Present(w, k) => Present(u, k)
    BY <1>2 DEF Present, Items, Firsts
  <2>2. ASSUME sure, NEW s \in DOMAIN wanted
        PROVE  IF u.symver[s] > 1
               THEN /\ u.symver[s] \in DOMAIN u.base /\ Present(u, u.symver[s])
                    /\ wanted[s] = [lib |-> u.base[u.symver[s]].lib, ver |-> u.base[u.symver[s]].ver]
               ELSE wanted[s] = Plain
    <3>1. IF w.symver[s] > 1
          THEN /\ w.symver[s] \in DOMAIN w.base /\ Present(w, w.symver[s])
               /\ wanted[s] = [lib |-> w.base[w.symver[s]].lib, ver |-> w.base[w.symver[s]].ver]
          ELSE wanted[s] = Plain
      BY <1>1, <2>2 DEF Binds
    <3>2. s \in DOMAIN w.symver
      BY <1>1
    <3>3. CASE sv[s] = w.symver[s]
      BY <1>2, <2>1, <3>1, <3>3
    <3>4. CASE sv[s] # w.symver[s]
      BY <1>3, <1>4, <3>2, <3>4, <1>2, <3>1
    <3> QED BY <3>3, <3>4
  <2>3. DOMAIN wanted = DOMAIN u.symver
    BY <1>1, <1>2, <1>3
  <2> QED BY <2>2, <2>3 DEF Binds
<1>11. Sound(u, wanted, f, old, sure)
  BY <1>1, <1>2, <1>3, <1>7, <1>8, <1>9, <1>10 DEF Sound
<1>12. \A s \in DOMAIN wanted : u.symver[s] = w.symver[s] \/ (u.symver[s] \in {0, 1} /\ w.symver[s] \in {0, 1})
  BY <1>1, <1>2, <1>3, <1>4
<1> QED BY <1>2, <1>5, <1>11, <1>12 DEF u

\* Only what is wished for which symbol matters.
LEMMA SoundSame ==
  ASSUME NEW w, NEW wanted, NEW f, NEW old, NEW sure, Sound(w, wanted, f, old, sure),
         NEW wish, DOMAIN wish = DOMAIN wanted, \A s \in DOMAIN wanted : wish[s] = wanted[s]
  PROVE  Sound(w, wish, f, old, sure)
BY DEF Sound, Binds

\* renamer_apply_to, for a symbol which loses its version...
LEMMA PlainSound ==
  ASSUME NEW w, Shape(w), NEW wanted, NEW f, NEW old, NEW sure, Sound(w, wanted, f, old, sure),
         NEW s, NEW to, to.kind = "plain", NEW wish, WishedOf(wish, wanted, s, to)
  PROVE  Sound(Rebind(w, s, to), wish, f, old, sure) /\ \A l : LiveLib(w, l) => LiveLib(Rebind(w, s, to), l)
<1> DEFINE y == [w EXCEPT !.symver[s] = 1]
           K == {w.symver[s]}
<1>1. /\ Indexed(w) /\ Numbers(w) /\ DOMAIN w.symver = DOMAIN f.symver /\ DOMAIN wanted = DOMAIN w.symver
      /\ Spared(w, f) /\ (sure => Binds(w, wanted)) /\ (old => OldOnly(w))
  BY DEF Sound
<1>2. /\ s \in DOMAIN wanted /\ s \in DOMAIN w.symver /\ DOMAIN wish = DOMAIN wanted
      /\ \A t \in DOMAIN wanted : wish[t] = IF t = s THEN Plain ELSE wanted[t]
  BY <1>1 DEF WishedOf, Wished
<1>3. CASE ~w.versions \/ w.symver[s] = 1
  <2>1. Rebind(w, s, to) = w
    BY <1>3 DEF Rebind
  <2>2. ~(w.symver[s] > 1)
    BY <1>1, <1>2, <1>3 DEF Numbers
  <2>3. sure => \A t \in DOMAIN wanted : wish[t] = wanted[t]
    BY <1>1, <1>2, <2>2 DEF Binds
  <2>4. sure => Binds(w, wish)
    BY <1>1, <1>2, <2>3 DEF Binds
  <2>5. Sound(w, wish, f, old, sure)
    BY <1>1, <1>2, <2>4 DEF Sound
  <2> QED BY <2>1, <2>5
<1>4. CASE ~(~w.versions \/ w.symver[s] = 1)
  <2>1. Rebind(w, s, to) = RemoveRefs(y, K)
    BY <1>4 DEF Rebind
  <2>2. Fields \subseteq DOMAIN w
    BY DEF Shape
  <2>3. y.symver = [w.symver EXCEPT ![s] = 1]
    BY <2>2 DEF Fields
  <2>4. y = [w EXCEPT !.symver = y.symver]
    BY <2>3
  <2>5. y.need = w.need /\ y.def = w.def /\ Fields \subseteq DOMAIN y /\ y.base = w.base /\ y.fresh = w.fresh
    BY <2>2 DEF Fields
  <2>6. w.symver[s] \in K
    OBVIOUS
  <2> HIDE DEF y, K
  <2>7. DOMAIN y.symver = DOMAIN w.symver /\ y.symver[s] = 1 /\ \A t \in DOMAIN w.symver : t # s => y.symver[t] = w.symver[t]
    BY <1>2, <2>3
  <2>8. \A t \in DOMAIN w.symver : y.symver[t] = w.symver[t] \/ (y.symver[t] = 1 /\ w.symver[t] \in K)
    BY <2>6, <2>7
  <2>9. ASSUME sure
        PROVE  \A t \in DOMAIN wanted : IF y.symver[t] = w.symver[t] /\ w.symver[t] > 1 THEN wish[t] = wanted[t] ELSE wish[t] = Plain
    <3> TAKE t \in DOMAIN wanted
    <3>1. w.symver[t] \in Nat /\ (~(w.symver[t] > 1) => wanted[t] = Plain)
      BY <1>1, <2>9 DEF Numbers, Binds
    <3> QED BY <1>1, <1>2, <1>4, <2>7, <3>1
  <2>10. Sound(RemoveRefs(y, K), wish, f, old, sure)
    BY <1>2, <2>4, <2>7, <2>8, <2>9, ClearedSound
  <2>11. Shape(y) /\ \A i : SameKeys(i, i)
    BY <2>5 DEF Shape, SameKeys
  <2>12. Kin(w, y)
    BY <2>5, <2>11 DEF Kin, SameItems
  <2>13. Indexed(y)
    BY <1>1, <2>12, KinIndexed
  <2> DEFINE x == RemoveRefs(y, K)
  <2>14. Kin(y, x) /\ \A g \in DOMAIN y.need : x.need[g].del = y.need[g].del
    BY <2>11, <2>13, RefsRemoved
  <2> HIDE DEF x
  <2>15. \A l : LiveLib(w, l) => LiveLib(x, l)
    BY <2>5, <2>14 DEF LiveLib, Kin, SameItems
  <2> QED BY <2>1, <2>10, <2>15 DEF x
<1> QED BY <1>3, <1>4

\* ...or is bound to another one.
LEMMA BindSound ==
  ASSUME NEW m, NEW d, NEW w, Editing(w, m, d), NEW wanted, NEW f, NEW old, ~old, NEW sure, Sound(w, wanted, f, old, sure),
         NEW s, NEW to, to.kind = "bind", NEW wish, WishedOf(wish, wanted, s, to), sure => LiveLib(w, to.lib)
  PROVE  Sound(Rebind(w, s, to), wish, f, old, sure) /\ \A l : LiveLib(w, l) => LiveLib(Rebind(w, s, to), l)
<1> DEFINE u == [EnsureVersionsArray(w) EXCEPT !.libs = @ \cup {to.lib}]
           libs == w.libs \cup {to.lib}
           x == FindOrAdd(u, to.lib, to.ver).v
           k == FindOrAdd(u, to.lib, to.ver).idx
           q == w.symver[s]
           z == Rebind(w, s, to)
<1>1. Shape(w)
  BY EditingShape
<1>2. u = [EnsureVersionsArray(w) EXCEPT !.libs = libs] /\ Fields \subseteq DOMAIN u /\ u.def = w.def /\ u.feats = w.feats /\ u.mod = w.mod
  BY <1>1 DEF EnsureVersionsArray, Shape, Fields
<1>3. z = IF k = q THEN x ELSE RemoveRefs([x EXCEPT !.symver[s] = k], {q})
  BY DEF Rebind
<1>4. BoundTo(x, z, s, k, q)
  BY <1>3 DEF BoundTo
<1> HIDE DEF u, z, libs
<1>5. /\ Sound(u, wanted, f, old, sure) /\ Shape(u) /\ u.versions /\ u.need = w.need
      /\ \A t \in DOMAIN wanted : u.symver[t] = w.symver[t] \/ (u.symver[t] \in {0, 1} /\ w.symver[t] \in {0, 1})
  BY <1>1, <1>2, EnsuredSound
<1>6. Editing(u, m, d)
  BY <1>2, <1>5, EditSame
<1>7. Indexed(u)
  BY <1>5 DEF Sound
<1>8. Found(u, x, k, to.lib, to.ver)
  BY <1>5, <1>7, FindOrAddIs
<1>9. Editing(x, m, d)
  BY <1>6, FindingOrAdding
<1>10. Shape(x)
  BY <1>9, EditingShape
<1> HIDE DEF x, k
<1>11. /\ s \in DOMAIN wanted /\ DOMAIN wish = DOMAIN wanted
       /\ \A t \in DOMAIN wanted : wish[t] = IF t = s THEN [lib |-> to.lib, ver |-> to.ver] ELSE wanted[t]
  BY DEF WishedOf, Wished
<1>12. u.symver[s] = q \/ (u.symver[s] \in {0, 1} /\ q \in {0, 1})
  BY <1>5, <1>11
<1>13. sure => LiveLib(u, to.lib)
  BY <1>5 DEF LiveLib
<1> HIDE DEF q
<1> DEFINE lib == to.lib
           ver == to.ver
<1>14. /\ Found(u, x, k, lib, ver) /\ (sure => LiveLib(u, lib))
       /\ \A t \in DOMAIN wanted : wish[t] = IF t = s THEN [lib |-> lib, ver |-> ver] ELSE wanted[t]
  BY <1>8, <1>11, <1>13
<1> HIDE DEF lib, ver
<1>15. Sound(z, wish, f, old, sure) /\ \A l : LiveLib(u, l) => LiveLib(z, l)
  BY <1>4, <1>5, <1>10, <1>11, <1>12, <1>14, ReboundSound
<1>16. \A l : LiveLib(w, l) => LiveLib(z, l)
  BY <1>5, <1>15 DEF LiveLib
<1> QED BY <1>15, <1>16 DEF z

\* renamer_apply_to, for one symbol
LEMMA RebindSound ==
  ASSUME NEW m, NEW d, NEW w, Editing(w, m, d), NEW wanted, NEW f, NEW old, ~old, NEW sure, Sound(w, wanted, f, old, sure),
         NEW s, NEW to, to.kind \in {"keep", "plain", "bind"}, NEW wish, WishedOf(wish, wanted, s, to),
         sure /\ to.kind = "bind" => LiveLib(w, to.lib)
  PROVE  Sound(Rebind(w, s, to), wish, f, old, sure) /\ \A l : LiveLib(w, l) => LiveLib(Rebind(w, s, to), l)
<1>1. CASE to.kind = "keep"
  BY <1>1, SoundSame DEF Rebind, WishedOf, Wished
<1>2. CASE to.kind = "plain"
  BY EditingShape, <1>2, PlainSound
<1>3. CASE to.kind = "bind"
  BY <1>3, BindSound
<1> QED BY <1>1, <1>2, <1>3

\* The renamer binds one symbol after the other.
LEMMA RebindAllSound ==
  ASSUME NEW m, NEW d, NEW w, Editing(w, m, d), NEW wanted, NEW f, NEW old, ~old, NEW sure, Sound(w, wanted, f, old, sure),
         NEW to, Len(to) \in Nat, DOMAIN to = 1 .. Len(to), DOMAIN wanted = DOMAIN to,
         \A s \in DOMAIN to : to[s].kind \in {"keep", "plain", "bind"},
         sure => \A s \in DOMAIN to : to[s].kind = "bind" => LiveLib(w, to[s].lib)
  PROVE  Sound(RebindAll(w, to), [s \in DOMAIN wanted |-> Wished(to[s], wanted[s])], f, old, sure)
<1> DEFINE n == Len(to)
           Wish(o) == [s \in DOMAIN wanted |-> IF s <= o THEN Wished(to[s], wanted[s]) ELSE wanted[s]]
           Good(o, x) == Editing(x, m, d) /\ Sound(x, Wish(o), f, old, sure) /\ \A l : LiveLib(w, l) => LiveLib(x, l)
<1>1. PICK F : /\ F[0] = w
               /\ \A o \in 1 .. n : F[o] = Rebind(F[o - 1], o, to[o])
               /\ RebindAll(w, to) = F[n]
  BY RebindSteps
<1> DEFINE S == {o \in 0 .. n : Good(o, F[o])}
<1>2. 0 \in S
  <2>1. DOMAIN Wish(0) = DOMAIN wanted /\ \A s \in DOMAIN wanted : Wish(0)[s] = wanted[s]
    OBVIOUS
  <2> HIDE DEF Wish
  <2>2. Sound(w, Wish(0), f, old, sure)
    BY <2>1, SoundSame
  <2> QED BY <1>1, <2>2
<1>3. ASSUME NEW o \in 0 .. (n - 1), o \in S PROVE o + 1 \in S
  <2> DEFINE p == o + 1
             x == F[o]
             z == F[p]
             a == Wish(o)
             b == Wish(p)
             t == to[p]
  <2>1. p \in 1 .. n /\ p \in 0 .. n /\ p - 1 = o /\ o \in Nat
    OBVIOUS
  <2>2. Good(o, x)
    BY <1>3
  <2>3. /\ DOMAIN a = DOMAIN wanted /\ DOMAIN b = DOMAIN wanted
        /\ \A s \in DOMAIN wanted : b[s] = IF s = p THEN Wished(t, a[s]) ELSE a[s]
    <3>1. DOMAIN a = DOMAIN wanted /\ DOMAIN b = DOMAIN wanted
      OBVIOUS
    <3>2. ASSUME NEW s \in DOMAIN wanted PROVE b[s] = IF s = p THEN Wished(t, a[s]) ELSE a[s]
      <4>1. /\ a[s] = IF s <= o THEN Wished(to[s], wanted[s]) ELSE wanted[s]
            /\ b[s] = IF s <= p THEN Wished(to[s], wanted[s]) ELSE wanted[s]
        OBVIOUS
      <4>2. s \in Nat
        OBVIOUS
      <4> HIDE DEF a, b
      <4> QED BY <2>1, <4>1, <4>2
    <3> QED BY <3>1, <3>2
  <2> HIDE DEF p, n
  <2>4. z = Rebind(x, p, t) /\ p \in DOMAIN wanted /\ p \in DOMAIN to
    BY <1>1, <2>1 DEF n
  <2>5. t.kind \in {"keep", "plain", "bind"} /\ (sure /\ t.kind = "bind" => LiveLib(x, t.lib))
    BY <2>2, <2>4
  <2> HIDE DEF x, z, a, b, t, Wish
  <2>6. WishedOf(b, a, p, t)
    BY <2>3, <2>4 DEF WishedOf
  <2>7. Sound(x, a, f, old, sure) /\ Editing(x, m, d)
    BY <2>2 DEF a
  <2>8. Sound(Rebind(x, p, t), b, f, old, sure) /\ \A l : LiveLib(x, l) => LiveLib(Rebind(x, p, t), l)
    BY <2>5, <2>6, <2>7, RebindSound
  <2>9. Editing(z, m, d)
    BY <2>4, <2>5, <2>7, Rebinding
  <2>10. Good(p, z)
    BY <2>2, <2>4, <2>8, <2>9 DEF b
  <2>11. p \in S
    BY <2>1, <2>10 DEF z
  <2> QED BY <2>11 DEF p
<1>4. S \in SUBSET (0 .. n)
  OBVIOUS
<1> HIDE DEF S
<1>5. S = 0 .. n
  <2> HIDE DEF n
  <2>1. n \in Nat
    BY DEF n
  <2> QED BY <1>2, <1>3, <1>4, <2>1, Upwards
<1>6. n \in S
  BY <1>5
<1>7. Sound(RebindAll(w, to), Wish(n), f, old, sure)
  BY <1>1, <1>6 DEF S
<1> DEFINE wish == [s \in DOMAIN wanted |-> Wished(to[s], wanted[s])]
<1>8. DOMAIN wish = DOMAIN Wish(n) /\ \A s \in DOMAIN Wish(n) : wish[s] = Wish(n)[s]
  OBVIOUS
<1> HIDE DEF wish, Wish
<1>9. Sound(RebindAll(w, to), wish, f, old, sure)
  BY <1>7, <1>8, SoundSame
<1> QED BY <1>9 DEF wish

\* target_ver_registry_confirm: what is newer than the target goes, as no symbol
\* refers to it.
LEMMA MarkNewerSound ==
  ASSUME NEW w, Shape(w), NEW wanted, NEW f, NEW old, NEW sure, Sound(w, wanted, f, old, sure), BadSymbols(w) = {}, NEW new
  PROVE  Sound(MarkNewer(w), wanted, f, new, sure)
<1> DEFINE I(k, j) == [w.need[k].items[j] EXCEPT !.unref = @ \/ Newer(w.need[k].items[j])]
           T(k) == [j \in DOMAIN w.need[k].items |-> I(k, j)]
           hs == [k \in DOMAIN w.need |-> IF w.need[k].del THEN w.need[k] ELSE [w.need[k] EXCEPT !.items = T(k)]]
           x == MarkNewer(w)
<1>1. /\ Indexed(w) /\ Numbers(w) /\ DOMAIN w.symver = DOMAIN f.symver /\ DOMAIN wanted = DOMAIN w.symver
      /\ Spared(w, f) /\ (sure => Binds(w, wanted))
  BY DEF Sound
<1>2. Fields \subseteq DOMAIN w /\ Groups(w.need)
  BY DEF Shape
<1>3. /\ x.need = hs /\ x.def = w.def /\ x.base = w.base /\ x.fresh = w.fresh /\ x.mod = w.mod
      /\ x.symver = w.symver /\ x.versions = w.versions
  BY <1>2 DEF MarkNewer, Map, Fields
<1>4. \A i : SameKeys(i, i)
  BY DEF SameKeys
<1>5. DOMAIN hs = DOMAIN w.need
  OBVIOUS
<1>6. ASSUME NEW k \in DOMAIN w.need
      PROVE  /\ hs[k].lib = w.need[k].lib /\ hs[k].del = w.need[k].del /\ DOMAIN hs[k].items = DOMAIN w.need[k].items
             /\ \A j \in DOMAIN w.need[k].items : /\ SameKeys(w.need[k].items[j], hs[k].items[j])
                                                  /\ hs[k].items[j].weak = w.need[k].items[j].weak
                                                  /\ ~w.need[k].del /\ Newer(w.need[k].items[j]) => hs[k].items[j].unref
  <2>1. /\ GroupFields \subseteq DOMAIN w.need[k]
        /\ \A j \in DOMAIN w.need[k].items : ItemFields \subseteq DOMAIN w.need[k].items[j]
    BY <1>2 DEF Groups
  <2>2. CASE w.need[k].del
    BY <1>4, <2>2
  <2>3. CASE ~w.need[k].del
    <3>1. hs[k] = [w.need[k] EXCEPT !.items = T(k)]
      BY <2>3
    <3>2. DOMAIN T(k) = DOMAIN w.need[k].items /\ \A j \in DOMAIN w.need[k].items : T(k)[j] = I(k, j)
      OBVIOUS
    <3> HIDE DEF hs, T
    <3>3. hs[k].lib = w.need[k].lib /\ hs[k].del = w.need[k].del /\ hs[k].items = T(k)
      BY <2>1, <3>1 DEF GroupFields
    <3>4. ASSUME NEW j \in DOMAIN w.need[k].items
          PROVE  /\ SameKeys(w.need[k].items[j], I(k, j)) /\ I(k, j).weak = w.need[k].items[j].weak
                 /\ Newer(w.need[k].items[j]) => I(k, j).unref
      <4> DEFINE h == w.need[k].items[j]
                 e == [h EXCEPT !.unref = @ \/ Newer(h)]
      <4>1. "unref" \in DOMAIN h
        BY <2>1 DEF ItemFields
      <4>2. I(k, j) = e
        OBVIOUS
      <4> DEFINE n == h.unref \/ Newer(h)
      <4>3. e = [h EXCEPT !.unref = n]
        OBVIOUS
      <4>4. (h.unref => n) /\ (Newer(h) => n)
        OBVIOUS
      <4> HIDE DEF h, I, e, n
      <4>5. e.unref = n /\ e.weak = h.weak /\ SameKeys(h, e)
        BY <4>1, <4>3, <4>4 DEF SameKeys, Keys
      <4>6. SameKeys(h, e) /\ e.weak = h.weak /\ (Newer(h) => e.unref)
        BY <4>4, <4>5
      <4>7. SameKeys(h, I(k, j)) /\ I(k, j).weak = h.weak /\ (Newer(h) => I(k, j).unref)
        BY <4>2, <4>6, Zenon
      <4> QED BY <4>7, Zenon DEF h
    <3>5. \A j \in DOMAIN w.need[k].items : hs[k].items[j] = I(k, j)
      BY <3>2, <3>3
    <3>6. ASSUME NEW j \in DOMAIN w.need[k].items
          PROVE  /\ SameKeys(w.need[k].items[j], hs[k].items[j]) /\ hs[k].items[j].weak = w.need[k].items[j].weak
                 /\ Newer(w.need[k].items[j]) => hs[k].items[j].unref
      <4>1. hs[k].items[j] = I(k, j)
        BY <3>5
      <4> HIDE DEF I
      <4> QED BY <3>4, <4>1, Zenon
    <3>7. DOMAIN hs[k].items = DOMAIN w.need[k].items
      BY <3>2, <3>3
    <3> QED BY <3>3, <3>6, <3>7, Zenon
  <2> QED BY <2>2, <2>3
<1> HIDE DEF hs, x, T, I
<1>7. Kin(w, x)
  BY <1>3, <1>4, <1>5, <1>6 DEF Kin, SameItems
<1>8. Indexed(x) /\ Numbers(x)
  BY <1>1, <1>3, <1>7, KinIndexed DEF Numbers
<1>9. \A k : Present(w, k) => Present(x, k)
  BY <1>3, <1>6, <1>1, <1>7, KinPresent DEF LiveAt
<1>10. Spared(x, f)
  BY <1>3, <1>1, <1>7, KinSpared
<1>11. OldOnly(x)
  <2> SUFFICES ASSUME NEW g \in LiveAt(x.need), NEW i \in Items(x, g), Newer(i), ~i.weak
               PROVE  i.unref /\ \A s \in DOMAIN x.symver : x.symver[s] # i.idx
    BY DEF OldOnly
  <2>1. g \in DOMAIN w.need /\ ~w.need[g].del /\ x.need[g] = hs[g]
    BY <1>3, <1>5, <1>6 DEF LiveAt
  <2>2. PICK j \in DOMAIN w.need[g].items : i = hs[g].items[j]
    BY <1>6, <2>1 DEF Items, Values
  <2> DEFINE h == w.need[g].items[j]
  <2>3. h \in Items(w, g)
    BY DEF Items, Values
  <2>4. SameKeys(h, i) /\ i.weak = h.weak /\ (Newer(h) => i.unref)
    BY <1>6, <2>1, <2>2
  <2> HIDE DEF h
  <2>5. NeedIs(w, g, h)
    BY <1>1, <2>1, <2>3 DEF Indexed
  <2>6. i.idx = h.idx /\ i.ver = h.ver /\ w.base[h.idx].id = h.id
    BY <2>1, <2>4, <2>5 DEF SameKeys, NeedIs, Ref
  <2>7. Newer(h) /\ ~h.weak
    BY <2>4, <2>6 DEF Newer
  <2>8. h \in LiveItems(w.need)
    BY <2>1, <2>3 DEF LiveItems, Items, Values, Range
  <2>9. \A s \in DOMAIN w.symver : w.symver[s] # h.idx
    BY <2>6, <2>7, <2>8 DEF BadSymbols
  <2> QED BY <1>3, <2>4, <2>6, <2>7, <2>9
<1>12. sure => Binds(x, wanted)
  BY <1>1, <1>3, <1>9 DEF Binds
<1>13. Sound(x, wanted, f, new, sure)
  BY <1>1, <1>3, <1>8, <1>10, <1>11, <1>12 DEF Sound
<1> QED BY <1>13 DEF x

-----------------------------------------------------------------------------
(* Loading: no two items have one index.                                    *)

\* A group holds one item for each structure in its list.
LEMMA GroupHolds ==
  ASSUME NEW m, Memory(m), NEW g \in DOMAIN m, Ends(m, m[g].aux)
  PROVE  /\ Values(GroupAt(m, g).items) = {ItemAt(m, g, a) : a \in Held(m, g)}
         /\ GroupAt(m, g).lib = m[g].lib /\ ~GroupAt(m, g).del /\ Held(m, g) \subseteq DOMAIN m
         /\ Held(m, g) # {} => m[g].aux \in Held(m, g) /\ GroupAt(m, g).items[1] = ItemAt(m, g, m[g].aux)
<1> DEFINE h == GroupAt(m, g)
           c == ChainAt(m, m[g].aux)
<1>1. /\ h.lib = m[g].lib /\ ~h.del
      /\ Len(h.items) = Len(c) /\ Len(c) \in Nat /\ DOMAIN h.items = 1 .. Len(c) /\ DOMAIN c = 1 .. Len(c)
      /\ \A j \in DOMAIN h.items : h.items[j] = ItemAt(m, g, c[j]) /\ c[j] \in DOMAIN m
  BY GroupLoaded
<1>2. Held(m, g) = {c[j] : j \in DOMAIN c}
  BY DEF Held, Range
<1>3. m[g].aux = IF c = <<>> THEN 0 ELSE c[1]
  BY DEF Ends
<1> HIDE DEF h, c
<1>4. Values(h.items) = {ItemAt(m, g, a) : a \in Held(m, g)}
  BY <1>1, <1>2 DEF Values
<1>5. ASSUME Held(m, g) # {} PROVE m[g].aux \in Held(m, g) /\ h.items[1] = ItemAt(m, g, m[g].aux)
  <2>1. PICK j \in DOMAIN c : TRUE
    BY <1>2, <1>5
  <2>2. 1 \in DOMAIN c /\ c # <<>>
    BY <1>1, <2>1
  <2> QED BY <1>1, <1>2, <1>3, <2>2
<1>6. Held(m, g) \subseteq DOMAIN m
  BY <1>1, <1>2
<1> QED BY <1>1, <1>4, <1>5, <1>6 DEF h

\* What a file is when it has been loaded.
LEMMA LoadedIs ==
  ASSUME NEW f \in Files
  PROVE  /\ FileIs(f.mem, Tops(f.mem, f.need), Tops(f.mem, f.def))
         /\ Holds(Load(f), f.mem, ChainAt(f.mem, f.need), Tops(f.mem, f.need), Tops(f.mem, f.def))
         /\ \A s \in DOMAIN f.symver :
               f.symver[s] \in {0, 1} \cup {f.mem[a].idx : a \in Carriers(f.mem, Tops(f.mem, f.need), Tops(f.mem, f.def))}
<1> DEFINE m == f.mem
           N == Tops(m, f.need)
           D == Tops(m, f.def)
           w == Load(f)
           c == ChainAt(m, f.need)
           e == ChainAt(m, f.def)
<1>1. /\ Memory(m) /\ Ends(m, f.need) /\ Ends(m, f.def) /\ \A g \in N \cup D : Ends(m, m[g].aux)
      /\ N \cap D = {}
      /\ \A g \in N \cup D : Held(m, g) \cap (N \cup D) = {}
      /\ \A g, h \in N \cup D : g # h => Held(m, g) \cap Held(m, h) = {}
      /\ \A g \in N : m[g].lib # None
      /\ \A g \in D : m[g].lib = None /\ Held(m, g) # {}
  BY VersionsAssumption DEF WellFormed, Memory, Tops, Held
<1>2. /\ \A a \in Carriers(m, N, D) : m[a].idx \in Nat \ {0} /\ (m[a].idx = 1 => a \in D)
      /\ \A a, b \in Carriers(m, N, D) : m[a].idx = m[b].idx => a = b
      /\ \A s \in DOMAIN f.symver : f.symver[s] \in {0, 1} \cup {m[a].idx : a \in Carriers(m, N, D)}
  BY VersionsAssumption DEF WellFormed, Carriers, Tops, Held
<1>3. /\ N \subseteq DOMAIN m /\ D \subseteq DOMAIN m
      /\ \A j, k \in DOMAIN c : c[j] = c[k] => j = k
  BY <1>1 DEF Ends, Tops
<1>4. N = {c[k] : k \in DOMAIN c} /\ D = {e[k] : k \in DOMAIN e}
  BY DEF Tops, Range
<1>5. w.need = ListAt(m, f.need) /\ w.def = ListAt(m, f.def)
  BY DEF Load
<1>6. w.need = [k \in DOMAIN c |-> GroupAt(m, c[k])] /\ w.def = [k \in DOMAIN e |-> GroupAt(m, e[k])]
  BY <1>5, ListAtIs
<1> HIDE DEF m, N, D, w, c, e
<1>7. \A g \in N \cup D :
         /\ Values(GroupAt(m, g).items) = {ItemAt(m, g, a) : a \in Held(m, g)}
         /\ GroupAt(m, g).lib = m[g].lib /\ ~GroupAt(m, g).del /\ Held(m, g) \subseteq DOMAIN m
         /\ Held(m, g) # {} => m[g].aux \in Held(m, g) /\ GroupAt(m, g).items[1] = ItemAt(m, g, m[g].aux)
  BY <1>1, <1>3, GroupHolds
<1>8. FileIs(m, N, D)
  BY <1>1, <1>2, <1>3, <1>7 DEF FileIs
<1>9. /\ DOMAIN w.need = DOMAIN c /\ DOMAIN w.def = DOMAIN e
      /\ \A k \in DOMAIN c : w.need[k] = GroupAt(m, c[k]) /\ c[k] \in N
      /\ \A k \in DOMAIN e : w.def[k] = GroupAt(m, e[k]) /\ e[k] \in D
  BY <1>4, <1>6
<1>10. \A k \in DOMAIN c : /\ c[k] \in N /\ w.need[k].lib = m[c[k]].lib /\ ~w.need[k].del
                           /\ Items(w, k) = {ItemAt(m, c[k], a) : a \in Held(m, c[k])}
  BY <1>7, <1>9 DEF Items
<1>11. Firsts(w) = {ItemAt(m, g, m[g].aux) : g \in D}
  BY <1>1, <1>7, <1>9, <1>4 DEF Firsts
<1>12. \A k \in DOMAIN w.def : ~w.def[k].del
  BY <1>7, <1>9
<1>13. \A g \in N : \E k \in DOMAIN c : c[k] = g
  BY <1>4
<1>14. Holds(w, m, c, N, D)
  BY <1>3, <1>9, <1>10, <1>11, <1>12, <1>13 DEF Holds
<1> QED BY <1>2, <1>8, <1>14 DEF m, N, D, w, c

\* No two do so for one index, or for one item.
LEMMA CarriedOnce ==
  ASSUME NEW m, NEW N, NEW D, FileIs(m, N, D), NEW a, NEW r, Carries(m, N, D, a, r), NEW b, NEW s, Carries(m, N, D, b, s),
         m[a].idx = m[b].idx \/ r.id = s.id
  PROVE  a = b /\ r = s
<1>1. /\ Memory(m) /\ N \cap D = {} /\ N \cup D \subseteq DOMAIN m
      /\ \A g \in N \cup D : Held(m, g) \cap (N \cup D) = {} /\ Held(m, g) \subseteq DOMAIN m
      /\ \A g, h \in N \cup D : g # h => Held(m, g) \cap Held(m, h) = {}
      /\ \A g \in D : m[g].lib = None /\ m[g].aux \in Held(m, g)
      /\ \A x, y \in Carriers(m, N, D) : m[x].idx = m[y].idx => x = y
  BY DEF FileIs
<1>2. a \in Carriers(m, N, D) /\ b \in Carriers(m, N, D)
  BY DEF Carries, Carriers
<1>3. \A x, y : Carries(m, N, D, x, y) => \E g \in N \cup D : y.id \in Held(m, g) /\ (g \in D => x = g) /\ (g \in N => x = y.id)
  <2> TAKE x, y
  <2> HAVE Carries(m, N, D, x, y)
  <2>1. CASE x \in D /\ y = [lib |-> None, id |-> m[x].aux, ver |-> m[m[x].aux].ver]
    BY <1>1, <2>1
  <2>2. CASE \E g \in N : x \in Held(m, g) /\ y = [lib |-> m[g].lib, id |-> x, ver |-> m[x].ver]
    <3>1. PICK g \in N : x \in Held(m, g) /\ y = [lib |-> m[g].lib, id |-> x, ver |-> m[x].ver]
      BY <2>2
    <3>2. y.id = x /\ g \notin D
      BY <1>1, <3>1
    <3> QED BY <3>1, <3>2
  <2> QED BY <2>1, <2>2 DEF Carries
<1>4. a = b
  <2>1. CASE m[a].idx = m[b].idx
    BY <1>1, <1>2, <2>1
  <2>2. CASE r.id = s.id
    <3>1. PICK g \in N \cup D : r.id \in Held(m, g) /\ (g \in D => a = g) /\ (g \in N => a = r.id)
      BY <1>3
    <3>2. PICK h \in N \cup D : s.id \in Held(m, h) /\ (h \in D => b = h) /\ (h \in N => b = s.id)
      BY <1>3
    <3>3. g = h
      BY <1>1, <2>2, <3>1, <3>2
    <3> QED BY <2>2, <3>1, <3>2, <3>3
  <2> QED BY <2>1, <2>2
<1>5. r = s
  <2>1. CASE a \in D
    BY <1>1, <2>1, <1>4 DEF Carries
  <2>2. CASE a \notin D
    <3>1. PICK g \in N : a \in Held(m, g) /\ r = [lib |-> m[g].lib, id |-> a, ver |-> m[a].ver]
      BY <2>2 DEF Carries
    <3>2. PICK h \in N : b \in Held(m, h) /\ s = [lib |-> m[h].lib, id |-> b, ver |-> m[b].ver]
      BY <1>4, <2>2 DEF Carries
    <3>3. g = h
      BY <1>1, <1>4, <3>1, <3>2
    <3> QED BY <1>4, <3>1, <3>2, <3>3
  <2> QED BY <2>1, <2>2
<1> QED BY <1>4, <1>5

\* There is a bound to the indices.
LEMMA IndicesBounded ==
  ASSUME NEW m, NEW N, NEW D, FileIs(m, N, D)
  PROVE  \E n \in Nat : \A a \in Carriers(m, N, D) : m[a].idx \in 0 .. n
<1> DEFINE C == Carriers(m, N, D)
           T == {m[a].idx : a \in C}
           p == [a \in C |-> m[a].idx]
           u == [t \in T |-> 0]
<1>1. IsFiniteSet(C)
  BY FS_Subset DEF FileIs, Carriers, Memory
<1>2. p \in Surjection(C, T)
  BY DEF Surjection
<1>3. IsFiniteSet(T) /\ T \in SUBSET (Nat \ {0})
  <2>1. T \in SUBSET (Nat \ {0})
    BY DEF FileIs
  <2> HIDE DEF T, p, C
  <2> QED BY <1>1, <1>2, <2>1, FS_Surjection
<1>4. Memory(u) /\ DOMAIN u = T
  BY <1>3 DEF Memory
<1> HIDE DEF u
<1>5. LastCell(u) \in Nat /\ \A t \in T : t <= LastCell(u)
  BY <1>4, LastCellIs
<1>6. \A a \in C : m[a].idx \in 0 .. LastCell(u)
  BY <1>3, <1>5
<1> QED BY <1>5, <1>6

\* base has each entry at its index, and no others.
LEMMA EntriesMade ==
  ASSUME NEW need, NEW def, NEW n \in Nat, \A r \in Entries(need, def) : r[1] \in 0 .. n,
         \A r, s \in Entries(need, def) : r[1] = s[1] => r[2] = s[2]
  PROVE  LET b == Refs(need, def) IN
         /\ Count(b) \in Nat /\ Count(b) > 1 /\ DOMAIN b = 0 .. (Count(b) - 1)
         /\ \A r \in Entries(need, def) : r[1] \in DOMAIN b /\ b[r[1]] = r[2]
         /\ \A k \in DOMAIN b : b[k] = NoRef \/ \E r \in Entries(need, def) : r[1] = k /\ b[k] = r[2]
<1> DEFINE refs == Entries(need, def)
           S == {1} \cup {r[1] : r \in refs}
           M == Max(S)
           b == [k \in 0 .. M |-> IF \E r \in refs : r[1] = k THEN (CHOOSE r \in refs : r[1] = k)[2] ELSE NoRef]
           n1 == n + 1
<1>1. Refs(need, def) = b
  BY DEF Refs
<1> HIDE DEF refs
<1>2. n1 \in Nat /\ S \in SUBSET (0 .. n1) /\ S # {}
  BY DEF refs
<1> HIDE DEF n1
<1>3. M \in S /\ \A k \in S : k <= M
  BY <1>2, MaxIs
<1>4. M \in Nat /\ 1 <= M /\ \A r \in refs : r[1] \in 0 .. M
  BY <1>2, <1>3
<1> HIDE DEF M, S
<1>5. DOMAIN b = 0 .. M
  OBVIOUS
<1>6. ASSUME NEW r \in refs PROVE r[1] \in DOMAIN b /\ b[r[1]] = r[2]
  <2> DEFINE q == CHOOSE s \in refs : s[1] = r[1]
  <2>1. q \in refs /\ q[1] = r[1]
    OBVIOUS
  <2>2. b[r[1]] = q[2] /\ r[1] \in DOMAIN b
    BY <1>4
  <2> HIDE DEF q, b
  <2> QED BY <2>1, <2>2 DEF refs
<1>7. ASSUME NEW k \in DOMAIN b PROVE b[k] = NoRef \/ \E r \in refs : r[1] = k /\ b[k] = r[2]
  <2>1. CASE \E r \in refs : r[1] = k
    <3>1. PICK r \in refs : r[1] = k
      BY <2>1
    <3>2. b[k] = r[2]
      BY <1>6, <3>1
    <3> QED BY <3>1, <3>2
  <2>2. CASE ~\E r \in refs : r[1] = k
    BY <2>2
  <2> QED BY <2>1, <2>2
<1> HIDE DEF b
<1>8. Count(b) = M + 1
  BY <1>4, FS_Interval, <1>5 DEF Count
<1>9. Count(b) \in Nat /\ Count(b) > 1 /\ DOMAIN b = 0 .. (Count(b) - 1)
  BY <1>4, <1>5, <1>8
<1> QED BY <1>1, <1>6, <1>7, <1>9 DEF refs

\* The entries which the items of a file make.
LEMMA EntriesAre ==
  ASSUME NEW m, NEW N, NEW D, FileIs(m, N, D), NEW w, NEW c, Holds(w, m, c, N, D)
  PROVE  Made(m, N, D, w, c)
<1> DEFINE refs == Entries(w.need, w.def)
           C == Carriers(m, N, D)
<1>1. /\ N \cap D = {} /\ N \cup D \subseteq DOMAIN m
      /\ \A g \in N \cup D : Held(m, g) \cap (N \cup D) = {} /\ Held(m, g) \subseteq DOMAIN m
      /\ \A g \in N : m[g].lib # None
      /\ \A g \in D : m[g].lib = None /\ m[g].aux \in Held(m, g)
      /\ \A a \in C : m[a].idx \in Nat \ {0} /\ (m[a].idx = 1 => a \in D)
  BY DEF FileIs
<1>2. /\ DOMAIN w.need = DOMAIN c
      /\ \A k \in DOMAIN c : /\ c[k] \in N /\ w.need[k].lib = m[c[k]].lib
                             /\ Items(w, k) = {ItemAt(m, c[k], a) : a \in Held(m, c[k])}
      /\ \A g \in N : \E k \in DOMAIN c : c[k] = g
      /\ Firsts(w) = {ItemAt(m, g, m[g].aux) : g \in D}
  BY DEF Holds
<1>3. /\ \A g \in N : \A a \in Held(m, g) : a \in C /\ a \notin D
      /\ \A g \in D : g \in C
  BY <1>1 DEF Carriers
<1>4. \A a \in C : m[a].idx \in Nat /\ (m[a].idx # 1 => m[a].idx > 1)
  BY <1>1
<1>5. refs = {<<i.idx, Ref(None, i)>> : i \in {j \in Firsts(w) : j.idx # 1}}
               \cup UNION {{<<i.idx, Ref(w.need[g].lib, i)>> : i \in Items(w, g)} : g \in DOMAIN w.need}
  BY DEF Entries, Firsts, Items, Values, Range
<1> HIDE DEF refs, C
<1>6. \A r : r \in refs <=>
         \/ \E i \in Firsts(w) : i.idx # 1 /\ r = <<i.idx, Ref(None, i)>>
         \/ \E g \in DOMAIN w.need : \E i \in Items(w, g) : r = <<i.idx, Ref(w.need[g].lib, i)>>
  BY <1>5
<1>7. ASSUME NEW g \in DOMAIN w.need, NEW i \in Items(w, g)
      PROVE  /\ c[g] \in N /\ i.id \in Held(m, c[g]) /\ i.idx = m[i.id].idx /\ ~i.del /\ Keys \subseteq DOMAIN i
             /\ Ref(w.need[g].lib, i) = [lib |-> m[c[g]].lib, id |-> i.id, ver |-> m[i.id].ver]
  <2>1. c[g] \in N /\ w.need[g].lib = m[c[g]].lib /\ m[c[g]].lib # None
    BY <1>1, <1>2
  <2>2. PICK a \in Held(m, c[g]) : i = ItemAt(m, c[g], a)
    BY <1>2
  <2> QED BY <2>1, <2>2 DEF ItemAt, Ref, Keys
<1>8. ASSUME NEW i \in Firsts(w)
      PROVE  \E g \in D : /\ i.idx = m[g].idx /\ i.id = m[g].aux /\ Keys \subseteq DOMAIN i
                          /\ Ref(None, i) = [lib |-> None, id |-> m[g].aux, ver |-> m[m[g].aux].ver]
  <2>1. PICK g \in D : i = ItemAt(m, g, m[g].aux)
    BY <1>2
  <2>2. m[g].lib = None
    BY <1>1
  <2> QED BY <2>1, <2>2 DEF ItemAt, Ref, Keys
<1>9. ASSUME NEW g \in DOMAIN w.need, NEW i \in Items(w, g)
      PROVE  /\ <<i.idx, Ref(w.need[g].lib, i)>> \in refs /\ i.idx \in Nat /\ i.idx > 1
             /\ i.id \in DOMAIN m /\ ~i.del /\ Keys \subseteq DOMAIN i
             /\ i.id \in Held(m, c[g]) /\ i.id \in C /\ m[i.id].idx = i.idx
             /\ Carries(m, N, D, i.id, Ref(w.need[g].lib, i))
  <2>1. <<i.idx, Ref(w.need[g].lib, i)>> \in refs
    BY <1>6
  <2>2. i.id \in C /\ i.id \notin D /\ i.id \in DOMAIN m
    BY <1>1, <1>3, <1>7
  <2>3. i.idx \in Nat /\ i.idx > 1
    BY <1>1, <1>4, <1>7, <2>2
  <2>4. Carries(m, N, D, i.id, Ref(w.need[g].lib, i))
    BY <1>7 DEF Carries
  <2> QED BY <1>7, <2>1, <2>2, <2>3, <2>4
<1>10. ASSUME NEW i \in Firsts(w)
       PROVE  /\ i.idx # 1 => <<i.idx, Ref(None, i)>> \in refs
              /\ i.idx \in Nat \ {0} /\ i.id \in DOMAIN m /\ Keys \subseteq DOMAIN i
              /\ \E a \in C : i.idx = m[a].idx /\ Carries(m, N, D, a, Ref(None, i))
  <2>1. PICK g \in D : /\ i.idx = m[g].idx /\ i.id = m[g].aux /\ Keys \subseteq DOMAIN i
                       /\ Ref(None, i) = [lib |-> None, id |-> m[g].aux, ver |-> m[m[g].aux].ver]
    BY <1>8
  <2>2. g \in C /\ i.id \in DOMAIN m
    BY <1>1, <1>3, <2>1
  <2>3. Carries(m, N, D, g, Ref(None, i))
    BY <2>1 DEF Carries
  <2>4. i.idx # 1 => <<i.idx, Ref(None, i)>> \in refs
    BY <1>6
  <2> QED BY <1>1, <2>1, <2>2, <2>3, <2>4
<1>11. ASSUME NEW r \in refs
       PROVE  /\ r[1] \in Nat /\ r[1] > 1 /\ r[2].id \in DOMAIN m
              /\ \E a \in C : r[1] = m[a].idx /\ Carries(m, N, D, a, r[2])
              /\ \/ \E g \in DOMAIN w.need : \E i \in Items(w, g) : r[1] = i.idx /\ r[2] = Ref(w.need[g].lib, i)
                 \/ \E i \in Firsts(w) : r[1] = i.idx /\ r[2] = Ref(None, i)
  <2>1. CASE \E i \in Firsts(w) : i.idx # 1 /\ r = <<i.idx, Ref(None, i)>>
    <3>1. PICK i \in Firsts(w) : i.idx # 1 /\ r = <<i.idx, Ref(None, i)>>
      BY <2>1
    <3>2. r[1] = i.idx /\ r[2] = Ref(None, i) /\ r[2].id = i.id
      BY <3>1 DEF Ref
    <3> QED BY <1>10, <3>1, <3>2
  <2>2. CASE \E g \in DOMAIN w.need : \E i \in Items(w, g) : r = <<i.idx, Ref(w.need[g].lib, i)>>
    <3>1. PICK g \in DOMAIN w.need : \E i \in Items(w, g) : r = <<i.idx, Ref(w.need[g].lib, i)>>
      BY <2>2
    <3>2. PICK i \in Items(w, g) : r = <<i.idx, Ref(w.need[g].lib, i)>>
      BY <3>1
    <3>3. r[1] = i.idx /\ r[2] = Ref(w.need[g].lib, i) /\ r[2].id = i.id
      BY <3>2 DEF Ref
    <3> QED BY <1>9, <3>3
  <2> QED BY <1>6, <2>1, <2>2
<1>12. ASSUME NEW a \in C
       PROVE  \/ \E g \in DOMAIN w.need : \E i \in Items(w, g) : i.idx = m[a].idx
              \/ \E i \in Firsts(w) : i.idx = m[a].idx
  <2>1. CASE a \in D
    <3>1. ItemAt(m, a, m[a].aux) \in Firsts(w) /\ m[a].lib = None
      BY <1>1, <1>2, <2>1
    <3>2. ItemAt(m, a, m[a].aux).idx = m[a].idx
      BY <3>1 DEF ItemAt
    <3> QED BY <3>1, <3>2
  <2>2. CASE \E g \in N : a \in Held(m, g)
    <3>1. PICK g \in N : a \in Held(m, g)
      BY <2>2
    <3>2. PICK k \in DOMAIN c : c[k] = g
      BY <1>2
    <3>3. ItemAt(m, g, a) \in Items(w, k) /\ k \in DOMAIN w.need /\ m[g].lib # None
      BY <1>1, <1>2, <3>1, <3>2
    <3>4. ItemAt(m, g, a).idx = m[a].idx
      BY <3>3 DEF ItemAt
    <3> QED BY <3>3, <3>4
  <2> QED BY <2>1, <2>2 DEF C, Carriers
<1> QED BY <1>9, <1>10, <1>11, <1>12 DEF refs, C, Made

\* What has been loaded has all its indices.
LEMMA LoadedIndexed ==
  ASSUME NEW m, NEW N, NEW D, FileIs(m, N, D), NEW w, NEW c, Holds(w, m, c, N, D),
         w.base = Refs(w.need, w.def), w.fresh = LastCell(m) + 1
  PROVE  /\ Indexed(w)
         /\ \A a \in Carriers(m, N, D) : Present(w, m[a].idx) /\ (m[a].idx # 1 => m[a].idx \in DOMAIN w.base)
         /\ \A k \in DOMAIN w.base : w.base[k] = NoRef \/ k > 1
<1> DEFINE refs == Entries(w.need, w.def)
           C == Carriers(m, N, D)
           b == w.base
<1>1. /\ \A g \in DOMAIN w.need : \A i \in Items(w, g) :
               /\ <<i.idx, Ref(w.need[g].lib, i)>> \in refs /\ i.idx \in Nat /\ i.idx > 1
               /\ i.id \in DOMAIN m /\ ~i.del /\ Keys \subseteq DOMAIN i
               /\ i.id \in Held(m, c[g]) /\ i.id \in C /\ m[i.id].idx = i.idx
      /\ \A i \in Firsts(w) :
            /\ i.idx # 1 => <<i.idx, Ref(None, i)>> \in refs
            /\ i.idx \in Nat \ {0} /\ i.id \in DOMAIN m /\ Keys \subseteq DOMAIN i
      /\ \A a \in C : \/ \E g \in DOMAIN w.need : \E i \in Items(w, g) : i.idx = m[a].idx
                      \/ \E i \in Firsts(w) : i.idx = m[a].idx
      /\ \A r \in refs : /\ r[1] \in Nat /\ r[1] > 1 /\ r[2].id \in DOMAIN m
                         /\ \E a \in C : r[1] = m[a].idx /\ Carries(m, N, D, a, r[2])
                         /\ \/ \E g \in DOMAIN w.need : \E i \in Items(w, g) : r[1] = i.idx /\ r[2] = Ref(w.need[g].lib, i)
                            \/ \E i \in Firsts(w) : r[1] = i.idx /\ r[2] = Ref(None, i)
  <2>1. Made(m, N, D, w, c)
    BY EntriesAre
  <2> QED BY <2>1 DEF Made
<1>2. \A a \in DOMAIN m : a \in Nat \ {0} /\ a < w.fresh /\ w.fresh \in Nat \ {0}
  BY LastCellIs DEF FileIs, Memory
<1>3. w.fresh \in Nat \ {0}
  BY LastCellIs DEF FileIs
<1>4. PICK n \in Nat : \A a \in C : m[a].idx \in 0 .. n
  BY IndicesBounded
<1> HIDE DEF refs, C
<1>5. ASSUME NEW r \in refs, NEW s \in refs, r[1] = s[1] \/ r[2].id = s[2].id PROVE r[2] = s[2] /\ r[1] = s[1]
  <2>1. PICK x \in C : r[1] = m[x].idx /\ Carries(m, N, D, x, r[2])
    BY <1>1
  <2>2. PICK y \in C : s[1] = m[y].idx /\ Carries(m, N, D, y, s[2])
    BY <1>1
  <2>3. m[x].idx = m[y].idx \/ r[2].id = s[2].id
    BY <1>5, <2>1, <2>2
  <2>4. x = y /\ r[2] = s[2]
    BY <2>1, <2>2, <2>3, CarriedOnce
  <2> QED BY <2>1, <2>2, <2>4
<1>6. /\ Count(b) \in Nat /\ Count(b) > 1 /\ DOMAIN b = 0 .. (Count(b) - 1)
      /\ \A r \in refs : r[1] \in DOMAIN b /\ b[r[1]] = r[2]
      /\ \A k \in DOMAIN b : b[k] = NoRef \/ \E r \in refs : r[1] = k /\ b[k] = r[2]
  BY <1>1, <1>4, <1>5, EntriesMade DEF refs
<1>7. \A k \in DOMAIN b : b[k] # NoRef => k > 1 /\ b[k].id \in DOMAIN m /\ (IsNeeded(w, k) \/ IsDefined(w, k))
  <2> SUFFICES ASSUME NEW k \in DOMAIN b, b[k] # NoRef
               PROVE  k > 1 /\ b[k].id \in DOMAIN m /\ (IsNeeded(w, k) \/ IsDefined(w, k))
    OBVIOUS
  <2>1. PICK r \in refs : r[1] = k /\ b[k] = r[2]
    BY <1>6
  <2>2. k > 1 /\ b[k].id \in DOMAIN m
    BY <1>1, <2>1
  <2>3. IsNeeded(w, k) \/ IsDefined(w, k)
    BY <1>1, <2>1 DEF IsNeeded, IsDefined
  <2> QED BY <2>2, <2>3
<1>8. ASSUME NEW k \in DOMAIN b, NEW l \in DOMAIN b, b[k] # NoRef, b[k].id = b[l].id PROVE k = l
  <2>1. b[k].id # 0
    BY <1>2, <1>7, <1>8
  <2>2. b[l] # NoRef
    BY <1>8, <2>1 DEF NoRef
  <2>3. PICK r \in refs : r[1] = k /\ b[k] = r[2]
    BY <1>6, <1>8
  <2>4. PICK s \in refs : s[1] = l /\ b[l] = s[2]
    BY <1>6, <2>2
  <2> QED BY <1>5, <1>8, <2>3, <2>4
<1>9. BaseIs(w)
  BY <1>2, <1>3, <1>6, <1>7, <1>8 DEF BaseIs
<1>10. \A r \in refs : b[r[1]] # NoRef
  <2> TAKE r \in refs
  <2>1. r[2].id # 0
    BY <1>1, <1>2
  <2> QED BY <1>6, <2>1 DEF NoRef
<1>11. ASSUME NEW g \in DOMAIN w.need, NEW i \in Items(w, g) PROVE NeedIs(w, g, i)
  <2> DEFINE r == <<i.idx, Ref(w.need[g].lib, i)>>
  <2>1. r \in refs /\ r[1] = i.idx /\ r[2] = Ref(w.need[g].lib, i)
    BY <1>1
  <2> HIDE DEF r
  <2>2. i.idx \in DOMAIN b /\ b[i.idx] = Ref(w.need[g].lib, i) /\ b[i.idx] # NoRef
    BY <1>6, <1>10, <2>1
  <2>3. Keys \subseteq DOMAIN i /\ i.id \in Nat \ {0} /\ i.id < w.fresh /\ ~i.del /\ i.idx > 1
    BY <1>1, <1>2
  <2> QED BY <2>2, <2>3 DEF NeedIs
<1>12. ASSUME NEW i \in Firsts(w) PROVE DefIs(w, i)
  <2> DEFINE r == <<i.idx, Ref(None, i)>>
  <2>1. (i.idx # 1 => r \in refs) /\ r[1] = i.idx /\ r[2] = Ref(None, i)
    BY <1>1
  <2> HIDE DEF r
  <2>2. i.idx # 1 => i.idx \in DOMAIN b /\ b[i.idx] = Ref(None, i)
    BY <1>6, <2>1
  <2>3. Keys \subseteq DOMAIN i /\ i.id \in Nat \ {0} /\ i.id < w.fresh /\ i.idx \in Nat \ {0}
    BY <1>1, <1>2
  <2> QED BY <2>2, <2>3 DEF DefIs
<1>13. ASSUME NEW g \in DOMAIN w.need, NEW h \in DOMAIN w.need, NEW i \in Items(w, g), NEW j \in Items(w, h), i.idx = j.idx
       PROVE  g = h
  <2>1. /\ i.id \in Held(m, c[g]) /\ j.id \in Held(m, c[h]) /\ i.id \in C /\ j.id \in C
        /\ m[i.id].idx = i.idx /\ m[j.id].idx = j.idx
    BY <1>1
  <2>2. i.id = j.id
    BY <1>13, <2>1 DEF FileIs, C
  <2>3. c[g] \in N /\ c[h] \in N /\ (c[g] = c[h] => g = h)
    BY DEF Holds
  <2> QED BY <2>1, <2>2, <2>3 DEF FileIs
<1>14. \A k \in DOMAIN w.def : ~w.def[k].del
  BY DEF Holds
<1>15. Indexed(w)
  BY <1>9, <1>11, <1>12, <1>13, <1>14 DEF Indexed
<1>16. ASSUME NEW a \in C PROVE Present(w, m[a].idx) /\ (m[a].idx # 1 => m[a].idx \in DOMAIN b)
  <2>1. CASE \E g \in DOMAIN w.need : \E i \in Items(w, g) : i.idx = m[a].idx
    <3>1. PICK g \in DOMAIN w.need : \E i \in Items(w, g) : i.idx = m[a].idx
      BY <2>1
    <3>2. g \in LiveAt(w.need)
      BY DEF Holds, LiveAt
    <3> QED BY <1>11, <3>1, <3>2 DEF Present, NeedIs
  <2>2. CASE \E i \in Firsts(w) : i.idx = m[a].idx
    BY <1>12, <2>2 DEF Present, DefIs
  <2> QED BY <1>1, <2>1, <2>2
<1> QED BY <1>7, <1>15, <1>16 DEF C

\* A file which has been loaded: each symbol is bound to what it is bound to there.
LEMMA LoadedSound ==
  ASSUME NEW f \in Files, NEW wish, DOMAIN wish = DOMAIN f.symver,
         \A s \in DOMAIN f.symver : wish[s] = [lib |-> Load(f).base[f.symver[s]].lib, ver |-> Load(f).base[f.symver[s]].ver],
         NEW old, ~old, NEW sure
  PROVE  Sound(Load(f), wish, f, old, sure)
<1> DEFINE m == f.mem
           N == Tops(m, f.need)
           D == Tops(m, f.def)
           w == Load(f)
           c == ChainAt(m, f.need)
<1>1. FileIs(m, N, D) /\ Holds(w, m, c, N, D)
  BY LoadedIs
<1>2. \A s \in DOMAIN f.symver : f.symver[s] \in {0, 1} \cup {m[a].idx : a \in Carriers(m, N, D)}
  BY LoadedIs
<1>3. /\ w.need = ListAt(m, f.need) /\ w.base = Refs(w.need, w.def) /\ w.fresh = LastCell(m) + 1 /\ w.symver = f.symver
      /\ w.versions = (w.need # <<>> \/ w.def # <<>>)
  BY DEF Load
<1>4. \A s \in DOMAIN f.symver : wish[s] = [lib |-> w.base[f.symver[s]].lib, ver |-> w.base[f.symver[s]].ver]
  OBVIOUS
<1>5. Shape(w)
  BY Loaded, EditingShape
<1> HIDE DEF m, N, D, w, c
<1>6. /\ Indexed(w)
      /\ \A a \in Carriers(m, N, D) : Present(w, m[a].idx) /\ (m[a].idx # 1 => m[a].idx \in DOMAIN w.base)
      /\ \A k \in DOMAIN w.base : w.base[k] = NoRef \/ k > 1
  BY <1>1, <1>3, LoadedIndexed
<1>7. \A a \in Carriers(m, N, D) : m[a].idx \in Nat
  BY <1>1 DEF FileIs
<1>8. ASSUME NEW s \in DOMAIN f.symver
      PROVE  /\ f.symver[s] \in Nat /\ f.symver[s] \notin {0, 1} => Present(w, f.symver[s]) /\ f.symver[s] \in DOMAIN w.base
             /\ f.symver[s] > 1 => w.versions
  <2>1. \A k : Present(w, k) => w.need # <<>> \/ w.def # <<>>
    BY DEF Present, LiveAt, Firsts
  <2>2. CASE f.symver[s] \in {0, 1}
    BY <2>2
  <2>3. CASE f.symver[s] \notin {0, 1}
    <3>1. PICK a \in Carriers(m, N, D) : f.symver[s] = m[a].idx
      BY <1>2, <2>3
    <3>2. m[a].idx # 1
      BY <2>3, <3>1
    <3> QED BY <1>3, <1>6, <1>7, <2>1, <3>1, <3>2
  <2> QED BY <2>2, <2>3
<1>9. \A s \in DOMAIN f.symver : f.symver[s] \in Nat
  BY <1>2, <1>7
<1>10. Numbers(w)
  BY <1>3, <1>8, <1>9 DEF Numbers
<1>11. 0 \in DOMAIN w.base /\ 1 \in DOMAIN w.base
  BY <1>6 DEF Indexed, BaseIs
<1>12. w.base[0] = NoRef /\ w.base[1] = NoRef
  BY <1>6, <1>11
<1>13. ASSUME NEW s \in DOMAIN wish
       PROVE  IF w.symver[s] > 1
              THEN /\ w.symver[s] \in DOMAIN w.base /\ Present(w, w.symver[s])
                   /\ wish[s] = [lib |-> w.base[w.symver[s]].lib, ver |-> w.base[w.symver[s]].ver]
              ELSE wish[s] = Plain
  <2>1. s \in DOMAIN f.symver /\ w.symver[s] = f.symver[s] /\ f.symver[s] \in Nat
    BY <1>3, <1>9
  <2>2. wish[s] = [lib |-> w.base[w.symver[s]].lib, ver |-> w.base[w.symver[s]].ver]
    BY <1>4, <2>1
  <2>3. CASE w.symver[s] > 1
    BY <1>8, <2>1, <2>2, <2>3
  <2>4. CASE ~(w.symver[s] > 1)
    BY <2>1, <2>4, <1>12, <2>2 DEF NoRef, Plain
  <2> QED BY <2>3, <2>4
<1>14. Binds(w, wish)
  BY <1>3, <1>13 DEF Binds
<1>15. Spared(w, f)
  <2> SUFFICES ASSUME NEW g \in LiveAt(w.need), NEW i \in Items(w, g), ~\E s \in DOMAIN w.symver : w.symver[s] = i.idx
               PROVE  Unused(f, w.need[g].lib, i.ver)
    BY DEF Spared
  <2>1. g \in DOMAIN w.need /\ w.need[g] \in Range(ListAt(f.mem, f.need))
    BY <1>3 DEF LiveAt, Range, m
  <2>2. i \in Range(w.need[g].items)
    BY DEF Items, Values, Range
  <2>3. \A s \in DOMAIN f.symver : f.symver[s] # i.idx
    BY <1>3
  <2> QED BY <2>1, <2>2, <2>3 DEF Unused
<1>16. Sound(w, wish, f, old, sure)
  BY <1>3, <1>6, <1>10, <1>14, <1>15 DEF Sound
<1> QED BY <1>16 DEF w

-----------------------------------------------------------------------------
(* The invariant about bindings.                                            *)

\* It holds for a file which has been loaded...
LEMMA BindingStarts == ASSUME Init PROVE BInv
<1>1. PICK f \in Files :
         /\ v = Load(f)
         /\ pc = "edit"
         /\ want = [s \in DOMAIN f.symver |-> [lib |-> Load(f).base[f.symver[s]].lib, ver |-> Load(f).base[f.symver[s]].ver]]
         /\ hist = [file |-> f, renamed |-> FALSE, target |-> FALSE, reused |-> FALSE,
                    overran |-> FALSE, deleted |-> FALSE]
  BY DEF Init
<1> DEFINE sure == ~hist.reused
<1>2. hist.file = f /\ ~hist.target /\ ~hist.reused /\ {"file", "target", "reused", "renamed"} \subseteq DOMAIN hist
  BY <1>1
<1>3. /\ DOMAIN want = DOMAIN f.symver
      /\ \A s \in DOMAIN f.symver : want[s] = [lib |-> Load(f).base[f.symver[s]].lib, ver |-> Load(f).base[f.symver[s]].ver]
  BY <1>1
<1> HIDE DEF sure
<1>4. Sound(v, want, f, hist.target, sure)
  BY <1>1, <1>2, <1>3, LoadedSound
<1>5. Bindings /\ NothingUnused /\ TargetMet
  BY <1>1 DEF Bindings, NothingUnused, TargetMet, Written
<1> QED BY <1>1, <1>2, <1>4, <1>5 DEF BInv, sure

\* ...and after an action of the command line...
LEMMA BindingEdits ==
  ASSUME pc' # "done", {"file", "target", "reused", "renamed"} \subseteq DOMAIN hist',
         pc' = "edit" => /\ hist'.file \in Files /\ Sound(v', want', hist'.file, hist'.target, ~hist'.reused)
                         /\ hist'.target \/ hist'.reused => hist'.renamed
  PROVE  BInv'
BY DEF BInv, Bindings, NothingUnused, TargetMet, Written

\* ...which is not that of the renamer...
LEMMA BindingMarks ==
  ASSUME BInv, pc = "edit", pc' = pc, hist' = hist,
         \A f, old, sure : Sound(v, want, f, old, sure) => Sound(v', want', f, old, sure)
  PROVE  BInv'
<1> DEFINE sure == ~hist.reused
<1>1. /\ hist.file \in Files /\ Sound(v, want, hist.file, hist.target, sure)
      /\ hist.target \/ hist.reused => hist.renamed
      /\ {"file", "target", "reused", "renamed"} \subseteq DOMAIN hist
  BY DEF BInv
<1> HIDE DEF sure
<1>2. Sound(v', want', hist.file, hist.target, sure)
  BY <1>1
<1>3. Sound(v', want', hist'.file, hist'.target, ~hist'.reused)
  BY <1>2 DEF sure
<1> QED BY <1>1, <1>3, BindingEdits

\* ...or is.
LEMMA BindingRenames ==
  ASSUME IInv, BInv, NEW to \in Renames, NEW target \in BOOLEAN, Rename(to, target)
  PROVE  BInv'
<1> DEFINE bound == RebindAll(v, to)
           f == hist.file
           old == hist.target
           reused == \E s \in DOMAIN to : to[s].kind = "bind" /\ \E k \in GroupsOf(v.need, to[s].lib) : v.need[k].del
           sure == ~reused
           wish == [s \in DOMAIN want |-> Wished(to[s], want[s])]
<1>1. /\ Act /\ ~hist.renamed
      /\ v' = IF target THEN MarkNewer(bound) ELSE bound
      /\ pc' = IF target /\ BadSymbols(bound) # {} THEN "failed" ELSE pc
      /\ hist' = [hist EXCEPT !.renamed = TRUE, !.target = target, !.reused = reused]
  BY DEF Rename
<1>2. want' = wish
  BY DEF Rename, Wished
<1>3. pc = "edit" /\ Editing(v, mem, dyn)
  BY <1>1 DEF Act, IInv
<1>4. /\ hist.file \in Files /\ Sound(v, want, f, old, ~hist.reused)
      /\ ~old /\ ~hist.reused
      /\ {"file", "target", "reused", "renamed"} \subseteq DOMAIN hist
  BY <1>1, <1>3 DEF BInv
<1>5. Sound(v, want, f, old, TRUE)
  BY <1>4 DEF Sound
<1>6. hist'.file = f /\ hist'.target = target /\ hist'.renamed /\ hist'.reused = reused
      /\ {"file", "target", "reused", "renamed"} \subseteq DOMAIN hist'
  <2> HIDE DEF reused, f
  <2> QED BY <1>1, <1>4 DEF f
<1>7. sure => \A s \in DOMAIN to : to[s].kind = "bind" => LiveLib(v, to[s].lib)
  BY DEF LiveLib, GroupsOf
<1>8. Len(to) \in Nat /\ DOMAIN to = 1 .. Len(to) /\ (\A s \in DOMAIN to : to[s].kind \in {"keep", "plain", "bind"})
      /\ DOMAIN f.symver = DOMAIN to
  BY <1>4, VersionsAssumption
<1> HIDE DEF sure, reused
<1>9. Sound(v, want, f, old, sure) /\ DOMAIN want = DOMAIN to
  BY <1>5, <1>8 DEF Sound
<1>10. Sound(bound, wish, f, old, sure)
  BY <1>3, <1>4, <1>7, <1>8, <1>9, RebindAllSound
<1>11. Shape(bound)
  BY <1>3, <1>8, RebindingAll, EditingShape
<1> HIDE DEF bound, wish, f, old
<1>12. ASSUME pc' = "edit" PROVE Sound(v', wish, f, target, sure)
  <2>1. CASE target
    BY <1>1, <1>12, <2>1, <1>10, <1>11, MarkNewerSound
  <2>2. CASE ~target
    BY <1>1, <2>2, <1>10 DEF Sound
  <2> QED BY <2>1, <2>2
<1>13. pc' # "done"
  BY <1>1, <1>3
<1>14. pc' = "edit" => hist'.file \in Files /\ Sound(v', want', hist'.file, hist'.target, ~hist'.reused)
  BY <1>2, <1>4, <1>6, <1>12 DEF sure, f
<1> QED BY <1>6, <1>13, <1>14, BindingEdits

\* So it holds until the editing ends.
LEMMA BindingSteps ==
  ASSUME IInv, BInv, [Next]_vars, ~Flush
  PROVE  BInv'
<1>1. CASE UNCHANGED vars
  BY <1>1 DEF vars, BInv, Bindings, NothingUnused, TargetMet, Written, Described, FileNeed, FileDef
<1>2. CASE Terminated
  BY <1>1, <1>2 DEF Terminated
<1>3. pc = "edit" => Editing(v, mem, dyn)
  BY DEF IInv
<1>4. CASE RemoveVerneed
  BY <1>4, <1>3, EditingShape, RemoveVerneedSound, BindingMarks DEF RemoveVerneed, WantPlain, Act
<1>5. CASE WeakVerneed
  BY <1>5, <1>3, EditingShape, WeakVerneedSound, BindingMarks DEF WeakVerneed, Act
<1>6. ASSUME NEW lib \in Libs, RemoveNeeded(lib) PROVE BInv'
  BY <1>6, <1>3, RemoveNeededSound, BindingMarks DEF RemoveNeeded, Act
<1>7. ASSUME NEW names \in NameSets, ClearVersion(names) PROVE BInv'
  BY <1>7, <1>3, EditingShape, ClearVersionSound, BindingMarks DEF ClearVersion, WantPlain, Act
<1>8. ASSUME NEW to \in Renames, NEW target \in BOOLEAN, Rename(to, target) PROVE BInv'
  BY <1>8, BindingRenames
<1> QED BY <1>1, <1>2, <1>4, <1>5, <1>6, <1>7, <1>8 DEF Next

-----------------------------------------------------------------------------
(* What vers_flush leaves of the lists.                                     *)

\* Dealing out places changes nothing else.
LEMMA DealtSame ==
  ASSUME NEW s
  PROVE  DOMAIN Redeal(s) = DOMAIN s /\ \A k \in DOMAIN s : Replaced(s[k], Redeal(s)[k])
<1>1. CASE LiveAt(s) \subseteq PlacedAt(s)
  BY <1>1 DEF Redeal, Replaced
<1>2. CASE ~(LiveAt(s) \subseteq PlacedAt(s))
  <2> DEFINE A(k) == Pick(s, PlacedAt(s))[Rank(s, k)].addr
             r == [k \in DOMAIN s |-> IF s[k].del THEN [s[k] EXCEPT !.addr = 0] ELSE [s[k] EXCEPT !.addr = A(k), !.dirty = TRUE]]
  <2>1. Redeal(s) = r
    BY <1>2 DEF Redeal
  <2> HIDE DEF A
  <2> QED BY <2>1 DEF Replaced
<1> QED BY <1>1, <1>2

\* Those of the items of a group.
LEMMA DealtItems ==
  ASSUME NEW s, \A j \in DOMAIN s : ItemFields \subseteq DOMAIN s[j]
  PROVE  /\ DOMAIN Redeal(s) = DOMAIN s
         /\ \A j \in DOMAIN s : SameItem(s[j], Redeal(s)[j]) /\ Redeal(s)[j].del = s[j].del
<1>1. ASSUME NEW j \in DOMAIN s PROVE SameItem(s[j], Redeal(s)[j]) /\ Redeal(s)[j].del = s[j].del
  <2> DEFINE h == s[j]
             i == Redeal(s)[j]
  <2>1. Replaced(h, i)
    BY DealtSame
  <2>2. ItemFields \subseteq DOMAIN h
    OBVIOUS
  <2> HIDE DEF h, i
  <2>3. SameItem(h, i) /\ i.del = h.del
    BY <2>1, <2>2 DEF ItemFields, SameItem, Replaced
  <2> QED BY <2>3 DEF h, i
<1> QED BY <1>1, DealtSame

\* Those of the groups and of their items.
LEMMA EnsuredSame ==
  ASSUME NEW gs, Groups(gs), NEW size, NEW brk
  PROVE  LET es == EnsureVaddrs(gs, size, brk) IN
         DOMAIN es = DOMAIN gs /\ \A k \in DOMAIN gs : SameGroup(gs[k], es[k])
<1> DEFINE es == EnsureVaddrs(gs, size, brk)
<1>1. \A k \in DOMAIN gs : /\ GroupFields \subseteq DOMAIN gs[k]
                           /\ \A j \in DOMAIN gs[k].items : ItemFields \subseteq DOMAIN gs[k].items[j]
  BY DEF Groups
<1>2. CASE InPlace(gs)
  <2> DEFINE t == [k \in DOMAIN gs |-> IF gs[k].del THEN gs[k] ELSE [gs[k] EXCEPT !.items = Redeal(gs[k].items)]]
  <2>1. es = Redeal(t)
    BY <1>2 DEF EnsureVaddrs, Map
  <2>2. DOMAIN t = DOMAIN gs
    OBVIOUS
  <2>3. ASSUME NEW k \in DOMAIN gs PROVE SameGroup(gs[k], t[k]) /\ GroupFields \subseteq DOMAIN t[k]
    <3> DEFINE g == gs[k]
               h == t[k]
               r == Redeal(gs[k].items)
    <3>1. GroupFields \subseteq DOMAIN g
      BY <1>1
    <3>2. h = IF g.del THEN g ELSE [g EXCEPT !.items = r]
      OBVIOUS
    <3>3. DOMAIN r = DOMAIN g.items /\ \A j \in DOMAIN g.items : SameItem(g.items[j], r[j]) /\ r[j].del = g.items[j].del
      BY <1>1, DealtItems
    <3> HIDE DEF g, h, r
    <3>4. /\ GroupFields \subseteq DOMAIN h /\ h.lib = g.lib /\ h.del = g.del
          /\ h.items = g.items \/ h.items = r
      BY <3>1, <3>2 DEF GroupFields
    <3>5. SameGroup(g, h)
      BY <3>3, <3>4 DEF SameGroup, SameItem
    <3> QED BY <3>4, <3>5 DEF g, h
  <2> HIDE DEF t, es
  <2>7. \A k \in DOMAIN t : Replaced(t[k], es[k])
    BY <2>1, DealtSame
  <2>4. ASSUME NEW k \in DOMAIN gs PROVE SameGroup(t[k], es[k])
    <3> DEFINE g == t[k]
               h == es[k]
    <3>1. Replaced(g, h)
      BY <2>2, <2>7
    <3>2. GroupFields \subseteq DOMAIN g
      BY <2>3
    <3> HIDE DEF g, h
    <3>3. h.lib = g.lib /\ h.del = g.del /\ h.items = g.items
      BY <3>1, <3>2 DEF GroupFields, Replaced
    <3>4. SameGroup(g, h)
      BY <3>3 DEF SameGroup, SameItem
    <3> QED BY <3>4 DEF g, h
  <2>5. \A k \in DOMAIN gs : SameGroup(gs[k], es[k])
    BY <2>3, <2>4 DEF SameGroup, SameItem
  <2>6. DOMAIN es = DOMAIN gs
    BY <2>1, <2>2, DealtSame
  <2> QED BY <2>5, <2>6 DEF es
<1>3. CASE ~InPlace(gs)
  <2> DEFINE GA(k) == brk + (Rank(gs, k) - 1) * size.group
             UpToo(k, j) == {p \in LiveItemsAt(gs) : p[1] < k \/ (p[1] = k /\ p[2] <= j)}
             IA(k, j) == brk + Len(gs) * size.group + (Cardinality(UpToo(k, j)) - 1) * size.item
             T(k) == [j \in DOMAIN gs[k].items |-> IF gs[k].items[j].del THEN gs[k].items[j]
                                                   ELSE [gs[k].items[j] EXCEPT !.addr = IA(k, j), !.dirty = TRUE]]
  <2>1. /\ DOMAIN es = DOMAIN gs
        /\ \A k \in DOMAIN gs : es[k] = IF gs[k].del THEN gs[k] ELSE [gs[k] EXCEPT !.addr = GA(k), !.dirty = TRUE, !.items = T(k)]
    BY <1>3, Zenon DEF EnsureVaddrs, Relocate
  <2> HIDE DEF GA, IA
  <2>2. ASSUME NEW k \in DOMAIN gs PROVE SameGroup(gs[k], es[k])
    <3> DEFINE g == gs[k]
               h == es[k]
               r == T(k)
    <3>1. GroupFields \subseteq DOMAIN g
      BY <1>1
    <3>2. h = IF g.del THEN g ELSE [g EXCEPT !.addr = GA(k), !.dirty = TRUE, !.items = r]
      BY <2>1
    <3>3. DOMAIN r = DOMAIN g.items /\ \A j \in DOMAIN g.items : SameItem(g.items[j], r[j]) /\ r[j].del = g.items[j].del
      <4>1. ASSUME NEW j \in DOMAIN g.items PROVE SameItem(g.items[j], r[j]) /\ r[j].del = g.items[j].del
        <5> DEFINE i == g.items[j]
        <5>1. ItemFields \subseteq DOMAIN i /\ r[j] = IF i.del THEN i ELSE [i EXCEPT !.addr = IA(k, j), !.dirty = TRUE]
          BY <1>1
        <5> HIDE DEF i, r
        <5>2. SameItem(i, r[j]) /\ r[j].del = i.del
          BY <5>1 DEF ItemFields, SameItem
        <5> QED BY <5>2 DEF i
      <4> QED BY <4>1
    <3> HIDE DEF g, h, r, T
    <3>4. h.lib = g.lib /\ h.del = g.del /\ (h.items = g.items \/ h.items = r)
      BY <3>1, <3>2 DEF GroupFields
    <3>5. SameGroup(g, h)
      BY <3>3, <3>4 DEF SameGroup, SameItem
    <3> QED BY <3>5 DEF g, h
  <2> QED BY <2>1, <2>2
<1> QED BY <1>2, <1>3

-----------------------------------------------------------------------------
(* What is in a list, as a set.                                             *)

\* vers_erase_pending_deletes keeps what is not deleted, and nothing else.
LEMMA ErasedKept ==
  ASSUME NEW s, List(s), \A k \in DOMAIN s : {"addr", "dirty", "del"} \subseteq DOMAIN s[k]
  PROVE  /\ \A n \in DOMAIN EraseFrom(s) : \E k \in LiveAt(s) : Remains(s[k], EraseFrom(s)[n])
         /\ \A k \in LiveAt(s) : \E n \in DOMAIN EraseFrom(s) : Remains(s[k], EraseFrom(s)[n])
<1> DEFINE r == EraseFrom(s)
           K == LiveAt(s)
<1>1. /\ DOMAIN r = 1 .. Cardinality(K)
      /\ \A n \in DOMAIN r : Nth(K, n) \in K /\ Remains(s[Nth(K, n)], r[n])
  BY Erased DEF Remains
<1>2. Len(s) \in Nat /\ DOMAIN s = 1 .. Len(s)
  BY ListIs
<1>3. K \in SUBSET (1 .. Len(s))
  BY <1>2 DEF LiveAt
<1> HIDE DEF r, K
<1>4. \A k \in K : RankIn(K, k) \in 1 .. Cardinality(K) /\ Nth(K, RankIn(K, k)) = k
  BY <1>2, <1>3, RankIs, NthIs
<1>5. \A n \in DOMAIN r : \E k \in K : Remains(s[k], r[n])
  BY <1>1
<1>6. \A k \in K : \E n \in DOMAIN r : Remains(s[k], r[n])
  BY <1>1, <1>4
<1> QED BY <1>5, <1>6 DEF r, K

\* So it is with the items of a group...
LEMMA ErasedItems ==
  ASSUME NEW g, GroupFields \subseteq DOMAIN g, List(g.items),
         \A j \in DOMAIN g.items : ItemFields \subseteq DOMAIN g.items[j], NEW q, Remains(g, q)
  PROVE  LeftIn(g, EraseItems(q))
<1> DEFINE e == EraseItems(q)
           r == EraseFrom(g.items)
<1>1. GroupFields \subseteq DOMAIN q /\ q.lib = g.lib /\ q.items = g.items
  BY DEF Remains, GroupFields
<1>2. e.lib = g.lib /\ e.items = r
  BY <1>1 DEF EraseItems, GroupFields
<1>3. \A j \in DOMAIN g.items : {"addr", "dirty", "del"} \subseteq DOMAIN g.items[j]
  BY DEF ItemFields
<1>4. /\ \A n \in DOMAIN r : \E k \in LiveAt(g.items) : Remains(g.items[k], r[n])
      /\ \A k \in LiveAt(g.items) : \E n \in DOMAIN r : Remains(g.items[k], r[n])
  BY <1>3, ErasedKept
<1>5. ASSUME NEW h, ItemFields \subseteq DOMAIN h, NEW i, Remains(h, i) PROVE Line(e.lib, i) = Line(g.lib, h)
  BY <1>2, <1>5 DEF Remains, ItemFields, Line
<1> HIDE DEF e, r
<1>6. LiveAt(g.items) \subseteq DOMAIN g.items
  BY DEF LiveAt
<1>7. /\ \A i \in DOMAIN e.items : \E j \in LiveAt(g.items) : Line(e.lib, e.items[i]) = Line(g.lib, g.items[j])
      /\ \A j \in LiveAt(g.items) : \E i \in DOMAIN e.items : Line(e.lib, e.items[i]) = Line(g.lib, g.items[j])
  BY <1>2, <1>4, <1>5, <1>6
<1> QED BY <1>2, <1>7 DEF e, LeftIn

\* ...and with the list.
LEMMA ErasedLines == ASSUME NEW gs, Groups(gs) PROVE Lines(Erase(gs)) = LiveLines(gs) /\ LibsOf(Erase(gs)) \subseteq LibsOf(gs)
<1> DEFINE r == EraseFrom(gs)
           es == Erase(gs)
<1>1. List(gs) /\ \A k \in DOMAIN gs : {"addr", "dirty", "del"} \subseteq DOMAIN gs[k]
  BY DEF Groups, GroupFields
<1>2. /\ \A n \in DOMAIN r : \E k \in LiveAt(gs) : Remains(gs[k], r[n])
      /\ \A k \in LiveAt(gs) : \E n \in DOMAIN r : Remains(gs[k], r[n])
  BY <1>1, ErasedKept
<1>3. DOMAIN es = DOMAIN r /\ \A n \in DOMAIN r : es[n] = EraseItems(r[n])
  BY DEF Erase, Map
<1> HIDE DEF r, es
<1>4. ASSUME NEW k \in LiveAt(gs), NEW n \in DOMAIN r, Remains(gs[k], r[n]) PROVE LeftIn(gs[k], es[n])
  BY <1>3, <1>4, ErasedItems DEF Groups, LiveAt
<1>5. ASSUME NEW x \in Lines(es) PROVE x \in LiveLines(gs)
  <2>1. PICK n \in DOMAIN es : \E i \in DOMAIN es[n].items : x = Line(es[n].lib, es[n].items[i])
    BY <1>5 DEF Lines
  <2>2. PICK k \in LiveAt(gs) : Remains(gs[k], r[n])
    BY <1>2, <1>3, <2>1
  <2>3. \E j \in LiveAt(gs[k].items) : x = Line(gs[k].lib, gs[k].items[j])
    BY <1>3, <1>4, <2>1, <2>2 DEF LeftIn
  <2> QED BY <2>3 DEF LiveLines
<1>6. ASSUME NEW x \in LiveLines(gs) PROVE x \in Lines(es)
  <2>1. PICK k \in LiveAt(gs) : \E j \in LiveAt(gs[k].items) : x = Line(gs[k].lib, gs[k].items[j])
    BY <1>6 DEF LiveLines
  <2>2. PICK n \in DOMAIN r : Remains(gs[k], r[n])
    BY <1>2, <2>1
  <2>3. \E i \in DOMAIN es[n].items : x = Line(es[n].lib, es[n].items[i])
    BY <1>3, <1>4, <2>1, <2>2 DEF LeftIn
  <2> QED BY <1>3, <2>3 DEF Lines
<1>7. Lines(es) = LiveLines(gs)
  BY <1>5, <1>6
<1>8. LibsOf(es) \subseteq LibsOf(gs)
  BY <1>2, <1>3, <1>4 DEF LeftIn, LibsOf, LiveAt
<1> QED BY <1>7, <1>8 DEF es

\* Dealing out places leaves them alone.
LEMMA EnsuredLines ==
  ASSUME NEW gs, Groups(gs), NEW size, NEW brk
  PROVE  /\ LiveLines(EnsureVaddrs(gs, size, brk)) = LiveLines(gs)
         /\ LibsOf(EnsureVaddrs(gs, size, brk)) = LibsOf(gs)
<1> DEFINE es == EnsureVaddrs(gs, size, brk)
<1>1. DOMAIN es = DOMAIN gs /\ \A k \in DOMAIN gs : SameGroup(gs[k], es[k])
  BY EnsuredSame
<1> HIDE DEF es
<1>2. LiveAt(es) = LiveAt(gs)
  BY <1>1 DEF LiveAt, SameGroup
<1>3. ASSUME NEW k \in LiveAt(gs)
      PROVE  /\ LiveAt(es[k].items) = LiveAt(gs[k].items)
             /\ \A j \in LiveAt(gs[k].items) : Line(es[k].lib, es[k].items[j]) = Line(gs[k].lib, gs[k].items[j])
  BY <1>1 DEF LiveAt, SameGroup, SameItem, Line
<1>4. LiveLines(es) = LiveLines(gs)
  BY <1>2, <1>3 DEF LiveLines
<1>5. LibsOf(es) = LibsOf(gs)
  BY <1>1 DEF LibsOf, SameGroup
<1> QED BY <1>4, <1>5 DEF es

\* What vers_flush leaves of a list which it writes.
LEMMA LinesLeft ==
  ASSUME NEW m, NEW head, NEW gs, Listed(m, head, gs), Defining(m, gs), NEW size,
         size.group \in Nat \ {0}, size.item \in Nat \ {0}, NEW brk \in Nat \ {0}
  PROVE  /\ Lines(Erase(EnsureVaddrs(gs, size, brk))) = LiveLines(gs)
         /\ LibsOf(Erase(EnsureVaddrs(gs, size, brk))) \subseteq LibsOf(gs)
<1> DEFINE es == EnsureVaddrs(gs, size, brk)
<1>1. Groups(gs)
  BY DEF Listed, GroupIs, ItemIs, Groups
<1>2. Ensured(m, es)
  <2>1. CASE InPlace(gs)
    BY <2>1, EnsuredInPlace
  <2>2. CASE ~InPlace(gs)
    BY <2>2, Relocated DEF EnsureVaddrs
  <2> QED BY <2>1, <2>2
<1>3. LiveLines(es) = LiveLines(gs) /\ LibsOf(es) = LibsOf(gs)
  BY <1>1, EnsuredLines
<1> HIDE DEF es
<1>4. Lines(Erase(es)) = LiveLines(es) /\ LibsOf(Erase(es)) \subseteq LibsOf(es)
  BY <1>2, ErasedLines DEF Ensured
<1> QED BY <1>3, <1>4 DEF es

-----------------------------------------------------------------------------
(* What is deleted when the lists are written.                              *)

\* vers_check_removed_refs finds them.
LEMMA GarbageFound ==
  ASSUME NEW w, Shape(w)
  PROVE  /\ CheckedList(w, w.need, CheckRemovedRefs(w).need)
         /\ CheckedList(w, w.def, CheckRemovedRefs(w).def)
         /\ Fields \subseteq DOMAIN CheckRemovedRefs(w) /\ CheckRemovedRefs(w).symver = w.symver
         /\ CheckRemovedRefs(w).versions = w.versions /\ CheckRemovedRefs(w).mod = w.mod
<1> DEFINE u == CheckRemovedRefs(w)
           used == Used(w)
           I(h) == [h EXCEPT !.unref = h.unref /\ h.id \notin used]
           T(g) == [j \in DOMAIN g.items |-> I(g.items[j])]
           M(gs) == [k \in DOMAIN gs |-> [gs[k] EXCEPT !.items = T(gs[k])]]
<1>1. Fields \subseteq DOMAIN w /\ Groups(w.need) /\ Groups(w.def)
  BY DEF Shape
<1>2. CASE ~w.versions
  <2>1. u = w
    BY <1>2 DEF CheckRemovedRefs
  <2>2. ASSUME NEW gs, Groups(gs) PROVE CheckedList(w, gs, gs)
    BY <1>2, <2>2 DEF Groups, CheckedList, CheckedItem, SameItem, Gone
  <2> HIDE DEF u
  <2> QED BY <1>1, <2>1, <2>2 DEF u
<1>3. CASE w.versions
  <2>1. u = [w EXCEPT !.need = M(w.need), !.def = M(w.def)]
    BY <1>1, <1>3 DEF Groups, ItemFields, CheckRemovedRefs, Map, Used
  <2>2. u.need = M(w.need) /\ u.def = M(w.def) /\ Fields \subseteq DOMAIN u /\ u.symver = w.symver
        /\ u.versions = w.versions /\ u.mod = w.mod
    BY <1>1, <2>1 DEF Fields
  <2>3. ASSUME NEW h, ItemFields \subseteq DOMAIN h PROVE CheckedItem(w, h, I(h))
    <3> DEFINE n == h.unref /\ h.id \notin used
               i == [h EXCEPT !.unref = n]
    <3>1. n <=> Gone(w, h)
      BY <1>3 DEF Gone
    <3> HIDE DEF n
    <3>2. i.unref = n /\ SameItem(h, i) /\ ItemFields \subseteq DOMAIN i /\ i.del = h.del
      BY <2>3 DEF ItemFields, SameItem
    <3>3. I(h) = i
      BY DEF n
    <3> HIDE DEF i, I
    <3> QED BY <3>1, <3>2, <3>3 DEF CheckedItem
  <2> HIDE DEF I
  <2>4. ASSUME NEW gs, Groups(gs) PROVE CheckedList(w, gs, M(gs))
    <3>1. ASSUME NEW k \in DOMAIN gs
          PROVE  /\ GroupFields \subseteq DOMAIN M(gs)[k] /\ M(gs)[k].lib = gs[k].lib /\ M(gs)[k].del = gs[k].del
                 /\ M(gs)[k].items = T(gs[k])
      <4>1. M(gs)[k] = [gs[k] EXCEPT !.items = T(gs[k])] /\ GroupFields \subseteq DOMAIN gs[k]
        BY <2>4 DEF Groups
      <4> HIDE DEF M, T
      <4> QED BY <4>1 DEF GroupFields
    <3>2. \A k \in DOMAIN gs : /\ DOMAIN T(gs[k]) = DOMAIN gs[k].items
                               /\ \A j \in DOMAIN gs[k].items : CheckedItem(w, gs[k].items[j], T(gs[k])[j])
      BY <2>3, <2>4 DEF Groups
    <3>3. DOMAIN M(gs) = DOMAIN gs
      OBVIOUS
    <3> HIDE DEF M, T
    <3> QED BY <3>1, <3>2, <3>3 DEF CheckedList
  <2> HIDE DEF M, u
  <2> QED BY <1>1, <2>2, <2>4 DEF u
<1> QED BY <1>2, <1>3

\* What is required and not garbage is written.
LEMMA NeedLeft ==
  ASSUME NEW w, Shape(w), Indexed(w)
  PROVE  \A x : x \in LiveLines(SweptN(w)) <=>
            \E k \in LiveAt(w.need) : \E h \in Items(w, k) : ~Gone(w, h) /\ x = Line(w.need[k].lib, h)
<1> DEFINE gs == w.need
           hs == CheckRemovedRefs(w).need
           ns == SweptN(w)
           It(i) == [i EXCEPT !.unref = FALSE, !.del = i.unref \/ i.del]
           T(g) == [j \in DOMAIN g.items |-> It(g.items[j])]
<1>1. CheckedList(w, gs, hs)
  BY GarbageFound
<1>2. /\ DOMAIN ns = DOMAIN hs
      /\ \A k \in DOMAIN hs : ns[k] = IF hs[k].del THEN hs[k]
                                      ELSE [hs[k] EXCEPT !.items = T(hs[k]), !.del = \A j \in DOMAIN T(hs[k]) : T(hs[k])[j].del]
  BY DEF SweptN, SweepNeed, Map
<1>3. \A k \in DOMAIN gs : \A j \in DOMAIN gs[k].items : ~gs[k].items[j].del
  BY DEF Indexed, NeedIs, Items, Values
<1> HIDE DEF ns, hs, gs
<1>4. ASSUME NEW k \in DOMAIN gs, ~gs[k].del
      PROVE  /\ ns[k].lib = gs[k].lib /\ DOMAIN ns[k].items = DOMAIN gs[k].items
             /\ ns[k].del <=> \A j \in DOMAIN gs[k].items : ns[k].items[j].del
             /\ \A j \in DOMAIN gs[k].items : SameItem(gs[k].items[j], ns[k].items[j]) /\ (ns[k].items[j].del <=> Gone(w, gs[k].items[j]))
  <2> DEFINE g == hs[k]
             h == ns[k]
             d == \A j \in DOMAIN T(g) : T(g)[j].del
  <2>1. /\ GroupFields \subseteq DOMAIN g /\ g.lib = gs[k].lib /\ ~g.del /\ DOMAIN g.items = DOMAIN gs[k].items
        /\ \A j \in DOMAIN gs[k].items : CheckedItem(w, gs[k].items[j], g.items[j])
    BY <1>1, <1>4 DEF CheckedList
  <2>2. h = [g EXCEPT !.items = T(g), !.del = d]
    BY <1>1, <1>2, <2>1 DEF CheckedList
  <2>3. ASSUME NEW j \in DOMAIN gs[k].items
        PROVE  SameItem(gs[k].items[j], T(g)[j]) /\ (T(g)[j].del <=> Gone(w, gs[k].items[j]))
    <3> DEFINE i == g.items[j]
               a == gs[k].items[j]
               n == i.unref \/ i.del
    <3>1. CheckedItem(w, a, i) /\ ~a.del /\ T(g)[j] = It(i)
      BY <1>3, <2>1
    <3> HIDE DEF i, a
    <3>2. SameItem(a, i) /\ ItemFields \subseteq DOMAIN i /\ (n <=> Gone(w, a))
      BY <3>1 DEF CheckedItem
    <3> HIDE DEF n
    <3>3. [i EXCEPT !.unref = FALSE, !.del = n].del = n /\ SameItem(a, [i EXCEPT !.unref = FALSE, !.del = n])
      BY <3>2 DEF ItemFields, SameItem
    <3>4. It(i) = [i EXCEPT !.unref = FALSE, !.del = n]
      BY DEF n
    <3> HIDE DEF It, T
    <3>5. SameItem(a, T(g)[j]) /\ T(g)[j].del = n
      BY <3>1, <3>3, <3>4
    <3> QED BY <3>2, <3>5 DEF a
  <2>4. DOMAIN T(g) = DOMAIN gs[k].items
    BY <2>1
  <2> HIDE DEF g, h, d, T
  <2>5. h.lib = g.lib /\ h.items = T(g) /\ h.del = d
    BY <2>1, <2>2 DEF GroupFields
  <2>6. d <=> \A j \in DOMAIN gs[k].items : T(g)[j].del
    BY <2>4 DEF d
  <2> QED BY <2>1, <2>3, <2>4, <2>5, <2>6 DEF h
<1>5. \A k \in DOMAIN gs : gs[k].del => ns[k].del
  BY <1>1, <1>2 DEF CheckedList
<1>6. DOMAIN ns = DOMAIN gs
  BY <1>1, <1>2 DEF CheckedList
<1>7. ASSUME NEW x, x \in LiveLines(ns)
      PROVE  \E k \in LiveAt(gs) : \E j \in DOMAIN gs[k].items : ~Gone(w, gs[k].items[j]) /\ x = Line(gs[k].lib, gs[k].items[j])
  <2>1. PICK k \in DOMAIN ns : ~ns[k].del /\ \E j \in DOMAIN ns[k].items : ~ns[k].items[j].del /\ x = Line(ns[k].lib, ns[k].items[j])
    BY <1>7 DEF LiveLines, LiveAt
  <2>2. PICK j \in DOMAIN ns[k].items : ~ns[k].items[j].del /\ x = Line(ns[k].lib, ns[k].items[j])
    BY <2>1
  <2>3. k \in DOMAIN gs /\ ~gs[k].del
    BY <1>5, <1>6, <2>1
  <2>4. j \in DOMAIN gs[k].items /\ ~Gone(w, gs[k].items[j]) /\ SameItem(gs[k].items[j], ns[k].items[j]) /\ ns[k].lib = gs[k].lib
    BY <1>4, <2>2, <2>3
  <2>5. x = Line(gs[k].lib, gs[k].items[j])
    BY <2>2, <2>4 DEF Line, SameItem
  <2> QED BY <2>3, <2>4, <2>5 DEF LiveAt
<1>8. ASSUME NEW k \in LiveAt(gs), NEW j \in DOMAIN gs[k].items, ~Gone(w, gs[k].items[j])
      PROVE  Line(gs[k].lib, gs[k].items[j]) \in LiveLines(ns)
  BY <1>4, <1>8, <1>6 DEF LiveAt, Line, SameItem, LiveLines
<1>9. \A k \in DOMAIN gs : Items(w, k) = {gs[k].items[j] : j \in DOMAIN gs[k].items}
  BY DEF Items, Values, gs
<1>10. LiveAt(gs) \subseteq DOMAIN gs
  BY DEF LiveAt
<1>11. ASSUME NEW x
       PROVE  x \in LiveLines(ns) <=> \E k \in LiveAt(gs) : \E h \in Items(w, k) : ~Gone(w, h) /\ x = Line(gs[k].lib, h)
  BY <1>7, <1>8, <1>9, <1>10
<1> QED BY <1>11 DEF ns, gs

\* So it is with what is defined: of the items of a definition only the first has an
\* index.
LEMMA DefLeft ==
  ASSUME NEW w, Shape(w), Indexed(w), NEW m, AllDefine(m, w.def)
  PROVE  /\ \A x \in LiveLines(SweptD(w)) : x[1] = None /\ (x[3] = 0 \/ \E h \in Firsts(w) : ~Gone(w, h) /\ x = Line(None, h))
         /\ \A h \in Firsts(w) : ~Gone(w, h) => Line(None, h) \in LiveLines(SweptD(w))
         /\ LibsOf(SweptD(w)) \subseteq {None}
<1> DEFINE gs == w.def
           hs == CheckRemovedRefs(w).def
           ds == SweptD(w)
<1>1. CheckedList(w, gs, hs)
  BY GarbageFound
<1>2. DOMAIN ds = DOMAIN hs /\ \A k \in DOMAIN hs : ds[k] = [hs[k] EXCEPT !.del = @ \/ hs[k].items[1].unref]
  BY DEF SweptD, SweepDef, Map
<1>3. /\ \A k \in DOMAIN gs : ~gs[k].del /\ 1 \in DOMAIN gs[k].items /\ gs[k].lib = None
      /\ \A k \in DOMAIN gs : \A j \in DOMAIN gs[k].items : ~gs[k].items[j].del /\ (j > 1 => gs[k].items[j].idx = 0)
  BY DEF Indexed, Shape, AllDefine, Defines
<1>4. \A k \in DOMAIN gs : \A j \in DOMAIN gs[k].items : j = 1 \/ j > 1
  <2> TAKE k \in DOMAIN gs
  <2>1. DOMAIN gs[k].items = 1 .. Len(gs[k].items) /\ Len(gs[k].items) \in Nat
    BY ListIs DEF Shape, Groups
  <2> QED BY <2>1
<1>5. Firsts(w) = {gs[k].items[1] : k \in DOMAIN gs}
  BY DEF Firsts
<1> HIDE DEF ds, hs, gs
<1>6. ASSUME NEW k \in DOMAIN gs
      PROVE  /\ ds[k].lib = None /\ DOMAIN ds[k].items = DOMAIN gs[k].items
             /\ ds[k].del <=> Gone(w, gs[k].items[1])
             /\ \A j \in DOMAIN gs[k].items : SameItem(gs[k].items[j], ds[k].items[j]) /\ ~ds[k].items[j].del
  <2> DEFINE g == hs[k]
             h == ds[k]
             n == g.del \/ g.items[1].unref
  <2>1. /\ GroupFields \subseteq DOMAIN g /\ g.lib = None /\ ~g.del /\ DOMAIN g.items = DOMAIN gs[k].items
        /\ \A j \in DOMAIN gs[k].items : CheckedItem(w, gs[k].items[j], g.items[j])
    BY <1>1, <1>3 DEF CheckedList
  <2>2. h = [g EXCEPT !.del = @ \/ g.items[1].unref]
    BY <1>1, <1>2 DEF CheckedList
  <2>3. n <=> Gone(w, gs[k].items[1])
    BY <1>3, <2>1 DEF CheckedItem
  <2> HIDE DEF g, h
  <2>4. h = [g EXCEPT !.del = n]
    BY <2>1, <2>2 DEF GroupFields
  <2> HIDE DEF n
  <2>5. h.lib = g.lib /\ h.items = g.items /\ h.del = n
    BY <2>1, <2>4 DEF GroupFields
  <2>6. \A j \in DOMAIN gs[k].items : SameItem(gs[k].items[j], h.items[j]) /\ ~h.items[j].del
    BY <1>3, <2>1, <2>5 DEF CheckedItem
  <2> QED BY <2>1, <2>3, <2>5, <2>6 DEF h
<1>7. DOMAIN ds = DOMAIN gs
  BY <1>1, <1>2 DEF CheckedList
<1>8. ASSUME NEW x \in LiveLines(ds)
      PROVE  x[1] = None /\ (x[3] = 0 \/ \E h \in Firsts(w) : ~Gone(w, h) /\ x = Line(None, h))
  <2>1. PICK k \in DOMAIN gs : ~ds[k].del /\ \E j \in DOMAIN ds[k].items : x = Line(ds[k].lib, ds[k].items[j])
    BY <1>7, <1>8 DEF LiveLines, LiveAt
  <2>2. PICK j \in DOMAIN gs[k].items : x = Line(ds[k].lib, ds[k].items[j])
    BY <1>6, <2>1
  <2>3. ds[k].lib = None /\ SameItem(gs[k].items[j], ds[k].items[j]) /\ ~Gone(w, gs[k].items[1])
    BY <1>6, <2>1
  <2>4. x = Line(None, gs[k].items[j])
    BY <2>2, <2>3 DEF Line, SameItem
  <2>5. x[1] = None /\ x[3] = gs[k].items[j].idx
    BY <2>4 DEF Line
  <2> QED BY <1>3, <1>4, <1>5, <2>3, <2>4, <2>5
<1>9. ASSUME NEW k \in DOMAIN gs, ~Gone(w, gs[k].items[1]) PROVE Line(None, gs[k].items[1]) \in LiveLines(ds)
  BY <1>3, <1>6, <1>9, <1>7 DEF Line, SameItem, LiveLines, LiveAt
<1>10. \A h \in Firsts(w) : ~Gone(w, h) => Line(None, h) \in LiveLines(ds)
  BY <1>5, <1>9
<1>11. LibsOf(ds) \subseteq {None}
  BY <1>6, <1>7 DEF LibsOf
<1> QED BY <1>8, <1>10, <1>11 DEF ds

\* What DT_VERNEED has once the lists are written...
LEMMA NeedWritten ==
  ASSUME NEW m, Memory(m), NEW d, NEW w, Editing(w, m, d), Indexed(w)
  PROVE  \A x : x \in Lines(Need1(w, m)) <=>
            \E k \in LiveAt(w.need) : \E h \in Items(w, k) : ("need" \in w.mod => ~Gone(w, h)) /\ x = Line(w.need[k].lib, h)
<1>1. Shape(w)
  BY EditingShape
<1>2. CASE "need" \in w.mod
  <2> DEFINE ns == SweptN(w)
             b1 == Brk1(w, m)
  <2>1. Listed(m, d.need, ns) /\ Defining(m, ns)
    BY Swept DEF SweptN
  <2>2. b1 \in Nat \ {0}
    BY FlushedDef
  <2>3. \A x : x \in LiveLines(ns) <=> \E k \in LiveAt(w.need) : \E h \in Items(w, k) : ~Gone(w, h) /\ x = Line(w.need[k].lib, h)
    BY <1>1, NeedLeft
  <2>4. Need1(w, m) = Erase(EnsureVaddrs(ns, NeedSize, b1))
    BY <1>2 DEF Need1
  <2>5. NeedSize.group \in Nat \ {0} /\ NeedSize.item \in Nat \ {0}
    BY DEF NeedSize
  <2> HIDE DEF ns, b1
  <2>6. Lines(Erase(EnsureVaddrs(ns, NeedSize, b1))) = LiveLines(ns)
    BY <2>1, <2>2, <2>5, LinesLeft
  <2> QED BY <1>2, <2>3, <2>4, <2>6
<1>3. CASE "need" \notin w.mod
  <2>1. Need1(w, m) = w.need
    BY <1>3 DEF Need1
  <2>2. Clean(w.need)
    BY <1>3 DEF Editing
  <2>3. LiveAt(w.need) = DOMAIN w.need
    BY <2>2 DEF Clean, LiveAt
  <2> QED BY <1>3, <2>1, <2>3 DEF Lines, Items, Values
<1> QED BY <1>2, <1>3

\* ...and what DT_VERDEF has.
LEMMA DefWritten ==
  ASSUME NEW m, Memory(m), NEW d, NEW w, Editing(w, m, d), Indexed(w)
  PROVE  /\ \A x \in Lines(Def1(w, m)) : /\ x[1] = None
                                         /\ x[3] = 0 \/ \E h \in Firsts(w) : ("def" \in w.mod => ~Gone(w, h)) /\ x = Line(None, h)
         /\ \A h \in Firsts(w) : ("def" \in w.mod => ~Gone(w, h)) => Line(None, h) \in Lines(Def1(w, m))
         /\ LibsOf(Def1(w, m)) \subseteq {None}
<1>1. Shape(w) /\ AllDefine(m, w.def)
  BY EditingShape DEF Editing
<1>2. CASE "def" \in w.mod
  <2> DEFINE ds == SweptD(w)
             b == Brk(m)
  <2>1. Listed(m, d.def, ds) /\ Defining(m, ds)
    BY Swept DEF SweptD
  <2>2. b \in Nat \ {0}
    BY FlushedDef
  <2>3. /\ \A x \in LiveLines(ds) : x[1] = None /\ (x[3] = 0 \/ \E h \in Firsts(w) : ~Gone(w, h) /\ x = Line(None, h))
        /\ \A h \in Firsts(w) : ~Gone(w, h) => Line(None, h) \in LiveLines(ds)
        /\ LibsOf(ds) \subseteq {None}
    BY <1>1, DefLeft
  <2>4. Def1(w, m) = Erase(EnsureVaddrs(ds, DefSize, b))
    BY <1>2 DEF Def1
  <2>5. DefSize.group \in Nat \ {0} /\ DefSize.item \in Nat \ {0}
    BY DEF DefSize
  <2> HIDE DEF ds, b
  <2>6. Lines(Erase(EnsureVaddrs(ds, DefSize, b))) = LiveLines(ds) /\ LibsOf(Erase(EnsureVaddrs(ds, DefSize, b))) \subseteq LibsOf(ds)
    BY <2>1, <2>2, <2>5, LinesLeft
  <2> QED BY <1>2, <2>3, <2>4, <2>6
<1>3. CASE "def" \notin w.mod
  <2> DEFINE gs == w.def
  <2>1. Def1(w, m) = gs
    BY <1>3 DEF Def1
  <2>2. /\ \A k \in DOMAIN gs : gs[k].lib = None /\ 1 \in DOMAIN gs[k].items
        /\ \A k \in DOMAIN gs : \A j \in DOMAIN gs[k].items : j > 1 => gs[k].items[j].idx = 0
    BY <1>1 DEF Shape, AllDefine, Defines
  <2>3. \A k \in DOMAIN gs : \A j \in DOMAIN gs[k].items : j = 1 \/ j > 1
    <3> TAKE k \in DOMAIN gs
    <3>1. DOMAIN gs[k].items = 1 .. Len(gs[k].items) /\ Len(gs[k].items) \in Nat
      BY <1>1, ListIs DEF Shape, Groups
    <3> QED BY <3>1
  <2>4. Firsts(w) = {gs[k].items[1] : k \in DOMAIN gs}
    BY DEF Firsts
  <2> HIDE DEF gs
  <2>5. ASSUME NEW x \in Lines(gs) PROVE x[1] = None /\ (x[3] = 0 \/ \E h \in Firsts(w) : x = Line(None, h))
    <3>1. PICK k \in DOMAIN gs : \E j \in DOMAIN gs[k].items : x = Line(gs[k].lib, gs[k].items[j])
      BY DEF Lines
    <3>2. PICK j \in DOMAIN gs[k].items : x = Line(gs[k].lib, gs[k].items[j])
      BY <3>1
    <3>3. x[1] = None /\ x[3] = gs[k].items[j].idx
      BY <2>2, <3>2 DEF Line
    <3> QED BY <2>2, <2>3, <2>4, <3>2, <3>3
  <2>6. \A k \in DOMAIN gs : Line(None, gs[k].items[1]) \in Lines(gs)
    BY <2>2 DEF Lines
  <2>7. LibsOf(gs) \subseteq {None}
    BY <2>2 DEF LibsOf
  <2> QED BY <1>3, <2>1, <2>4, <2>5, <2>6, <2>7
<1> QED BY <1>2, <1>3

\* They are those of all that is in the lists, but for 0.
LEMMA IndicesAre ==
  ASSUME NEW ns, NEW ds, Shaped(ds), LibsOf(ds) \subseteq {None}
  PROVE  /\ \A x \in Lines(ns) : x[3] \in Indices(ds, ns)
         /\ \A x \in Lines(ds) : x[3] # 0 => x[3] \in Indices(ds, ns)
         /\ \A n \in Indices(ds, ns) : \E x \in Lines(ds) \cup Lines(ns) : x[3] = n
<1>1. \A lib, i : Line(lib, i)[3] = i.idx
  BY DEF Line
<1>2. ASSUME NEW k \in DOMAIN ds
      PROVE  1 \in DOMAIN ds[k].items /\ \A j \in DOMAIN ds[k].items : j = 1 \/ ds[k].items[j].idx = 0
  <2>1. List(ds[k].items) /\ FirstOnly(ds[k]) /\ ds[k].lib = None
    BY DEF Shaped, Groups, LibsOf
  <2>2. DOMAIN ds[k].items = 1 .. Len(ds[k].items) /\ Len(ds[k].items) \in Nat
    BY <2>1, ListIs
  <2>3. ds[k].items # <<>> /\ \A j \in DOMAIN ds[k].items : j > 1 => ds[k].items[j].idx = 0
    BY <2>1 DEF FirstOnly
  <2>4. Len(ds[k].items) # 0
    BY <2>1, <2>2, <2>3, EmptySeq DEF List
  <2> QED BY <2>2, <2>3, <2>4
<1>3. Indices(ds, ns) = (UNION {{ns[k].items[j].idx : j \in DOMAIN ns[k].items} : k \in DOMAIN ns})
                           \cup {ds[k].items[1].idx : k \in DOMAIN ds}
  BY DEF Indices, Range
<1>4. ASSUME NEW x \in Lines(ns) PROVE x[3] \in Indices(ds, ns)
  <2>1. PICK k \in DOMAIN ns : \E j \in DOMAIN ns[k].items : x = Line(ns[k].lib, ns[k].items[j])
    BY DEF Lines
  <2> QED BY <1>1, <1>3, <2>1
<1>5. ASSUME NEW x \in Lines(ds), x[3] # 0 PROVE x[3] \in Indices(ds, ns)
  <2>1. PICK k \in DOMAIN ds : \E j \in DOMAIN ds[k].items : x = Line(ds[k].lib, ds[k].items[j])
    BY DEF Lines
  <2>2. PICK j \in DOMAIN ds[k].items : x = Line(ds[k].lib, ds[k].items[j])
    BY <2>1
  <2>3. x[3] = ds[k].items[j].idx
    BY <1>1, <2>2
  <2> QED BY <1>2, <1>3, <1>5, <2>3
<1>6. ASSUME NEW n \in Indices(ds, ns) PROVE \E x \in Lines(ds) \cup Lines(ns) : x[3] = n
  <2>1. CASE \E k \in DOMAIN ns : \E j \in DOMAIN ns[k].items : n = ns[k].items[j].idx
    <3>1. PICK k \in DOMAIN ns : \E j \in DOMAIN ns[k].items : n = ns[k].items[j].idx
      BY <2>1
    <3>2. PICK j \in DOMAIN ns[k].items : n = ns[k].items[j].idx
      BY <3>1
    <3>3. Line(ns[k].lib, ns[k].items[j]) \in Lines(ns)
      BY DEF Lines
    <3> QED BY <1>1, <3>2, <3>3
  <2>2. CASE \E k \in DOMAIN ds : n = ds[k].items[1].idx
    <3>1. PICK k \in DOMAIN ds : n = ds[k].items[1].idx
      BY <2>2
    <3>2. Line(ds[k].lib, ds[k].items[1]) \in Lines(ds)
      BY <1>2 DEF Lines
    <3> QED BY <1>1, <3>1, <3>2
  <2> QED BY <1>3, <2>1, <2>2
<1> QED BY <1>4, <1>5, <1>6

\* Others see what is in a list.
LEMMA SeenSame == ASSUME NEW gs, NEW hs, Seen(gs) = Seen(hs) PROVE Lines(gs) = Lines(hs)
<1>1. \A fs : DOMAIN Seen(fs) = DOMAIN fs
  BY DEF Seen, Map
<1>2. ASSUME NEW fs, NEW k \in DOMAIN fs
      PROVE  /\ Seen(fs)[k].lib = fs[k].lib /\ DOMAIN Seen(fs)[k].items = DOMAIN fs[k].items
             /\ \A j \in DOMAIN fs[k].items : Seen(fs)[k].items[j] = <<fs[k].items[j].ver, fs[k].items[j].idx, fs[k].items[j].weak>>
  BY DEF Seen, Map
<1>3. DOMAIN gs = DOMAIN hs
  BY <1>1
<1>4. ASSUME NEW k \in DOMAIN gs
      PROVE  /\ DOMAIN gs[k].items = DOMAIN hs[k].items
             /\ \A j \in DOMAIN gs[k].items : Line(gs[k].lib, gs[k].items[j]) = Line(hs[k].lib, hs[k].items[j])
  <2>1. gs[k].lib = hs[k].lib /\ DOMAIN gs[k].items = DOMAIN hs[k].items
    BY <1>2, <1>3
  <2>2. ASSUME NEW j \in DOMAIN gs[k].items PROVE Line(gs[k].lib, gs[k].items[j]) = Line(hs[k].lib, hs[k].items[j])
    BY <1>2, <1>3, <2>1 DEF Line
  <2> QED BY <2>1, <2>2
<1> QED BY <1>3, <1>4 DEF Lines

\* So the last part of vers_flush leaves them.
LEMMA Dropping ==
  ASSUME NEW w, Numbers(w), NEW ds, Shaped(ds), LibsOf(ds) \subseteq {None}, NEW ns, NEW top \in Nat,
         \A l \in Lines(ds) \cup Lines(ns) : l[3] \in 0 .. top,
         NEW x, Fields \subseteq DOMAIN x, x.def = ds, x.need = ns, x.symver = w.symver, x.versions = w.versions, x.mod = w.mod
  PROVE  Dropped(w, DropVersions(x), Lines(ds) \cup Lines(ns))
<1> DEFINE K == Indices(ds, ns)
           last == Max(K \cup {0})
           y == DropVersions(x)
<1>1. /\ \A l \in Lines(ns) : l[3] \in K
      /\ \A l \in Lines(ds) : l[3] # 0 => l[3] \in K
      /\ \A n \in K : \E l \in Lines(ds) \cup Lines(ns) : l[3] = n
  BY IndicesAre
<1>2. y = [x EXCEPT !.versions = @ /\ last # 0, !.symver = [s \in DOMAIN @ |-> IF @[s] > last THEN 1 ELSE @[s]]]
  BY DEF DropVersions, Indices
<1> HIDE DEF K
<1>3. K \cup {0} \in SUBSET (0 .. top)
  BY <1>1
<1>4. last \in K \cup {0} /\ \A k \in K \cup {0} : k <= last
  BY <1>3, MaxIs
<1> HIDE DEF last, y
<1> DEFINE T == [s \in DOMAIN w.symver |-> IF w.symver[s] > last THEN 1 ELSE w.symver[s]]
           n == w.versions /\ last # 0
<1>5. y = [x EXCEPT !.versions = n, !.symver = T]
  BY <1>2 DEF Fields
<1>6. /\ DOMAIN T = DOMAIN w.symver
      /\ \A s \in DOMAIN w.symver : T[s] = IF w.symver[s] > last THEN 1 ELSE w.symver[s]
  OBVIOUS
<1>7. n <=> w.versions /\ last # 0
  OBVIOUS
<1> HIDE DEF T, n
<1>8. y.versions = n /\ y.symver = T /\ y.mod = w.mod
  BY <1>5 DEF Fields
<1>9. last \in Nat /\ \A l \in Lines(ds) \cup Lines(ns) : l[3] # 0 => l[3] \in Nat /\ l[3] <= last
  BY <1>1, <1>3, <1>4
<1>10. \A s \in DOMAIN w.symver : w.symver[s] \in Nat
  BY DEF Numbers
<1>11. ASSUME NEW s \in DOMAIN w.symver, NEW l \in Lines(ds) \cup Lines(ns), l[3] # 0, l[3] = w.symver[s]
       PROVE  T[s] = w.symver[s]
  BY <1>9, <1>11, <1>10, <1>6
<1>12. ASSUME NEW l \in Lines(ds) \cup Lines(ns), l[3] # 0, w.versions PROVE n
  BY <1>9, <1>12, <1>7
<1>13. Dropped(w, y, Lines(ds) \cup Lines(ns))
  BY <1>6, <1>8, <1>11, <1>12 DEF Dropped
<1> QED BY <1>13 DEF y

-----------------------------------------------------------------------------
(* What is written still binds the symbols.                                 *)

\* An item which a symbol refers to is not garbage.
LEMMA UsedStays ==
  ASSUME NEW w, NEW s \in DOMAIN w.symver, w.symver[s] \in DOMAIN w.base, Numbers(w), w.symver[s] > 1,
         NEW h, w.base[w.symver[s]].id = h.id
  PROVE  ~Gone(w, h)
BY DEF Gone, Used, Numbers

\* A symbol refers to an item which was marked and is not garbage.
LEMMA StaysUsed ==
  ASSUME NEW w, Indexed(w), NEW k \in LiveAt(w.need), NEW h \in Items(w, k), h.unref, ~Gone(w, h)
  PROVE  \E s \in DOMAIN w.symver : w.symver[s] = h.idx
<1>1. NeedIs(w, k, h) /\ ~w.need[k].del
  BY DEF Indexed, LiveAt
<1>2. h.idx \in DOMAIN w.base /\ w.base[h.idx] # NoRef /\ w.base[h.idx].id = h.id
  BY <1>1 DEF NeedIs, Ref
<1>3. PICK s \in DOMAIN w.symver : w.symver[s] \in DOMAIN w.base /\ w.base[w.symver[s]].id = h.id
  BY DEF Gone, Used
<1>4. w.symver[s] = h.idx
  BY <1>2, <1>3 DEF Indexed, BaseIs
<1> QED BY <1>4

\* Every symbol is bound as it is to be, by exactly one line of what is written.
LEMMA BoundStill ==
  ASSUME NEW w, Indexed(w), Numbers(w), NEW wanted, Binds(w, wanted), NEW x, NEW ds, NEW ns, Rests(w, x, ds, ns),
         NEW s \in DOMAIN wanted
  PROVE  IF x.versions /\ x.symver[s] > 1
         THEN FoundIn(ds \cup ns, x.symver[s]) = {wanted[s]}
         ELSE wanted[s] = Plain
<1> DEFINE k == w.symver[s]
<1>1. s \in DOMAIN w.symver /\ k \in Nat /\ (x.symver[s] = k \/ x.symver[s] = 1)
  BY DEF Binds, Numbers, Rests, Dropped
<1>2. CASE ~(k > 1)
  <2>1. ~(x.symver[s] > 1)
    BY <1>1, <1>2
  <2> QED BY <1>2, <2>1 DEF Binds
<1>3. CASE k > 1
  <2>1. /\ k \in DOMAIN w.base /\ Present(w, k) /\ w.versions
        /\ wanted[s] = [lib |-> w.base[k].lib, ver |-> w.base[k].ver]
    BY <1>1, <1>3 DEF Binds, Numbers
  <2> DEFINE b == w.base[k]
  <2>2. \A lib, h : /\ Ref(lib, h).lib = lib /\ Ref(lib, h).id = h.id /\ Ref(lib, h).ver = h.ver
                    /\ Line(lib, h)[1] = lib /\ Line(lib, h)[2] = h.ver /\ Line(lib, h)[3] = h.idx
    BY DEF Ref, Line
  <2>3. /\ \A g \in LiveAt(w.need) : \A h \in Items(w, g) : h.idx = k => b = Ref(w.need[g].lib, h)
        /\ \A h \in Firsts(w) : h.idx = k => b = Ref(None, h)
    BY <1>1, <1>3 DEF Indexed, DefIs, NeedIs, LiveAt
  <2>4. \A h : b.id = h.id => ~Gone(w, h)
    BY <1>1, <1>3, <2>1, UsedStays
  <2>5. \E l \in ds \cup ns : l[3] = k
    <3>1. CASE \E g \in LiveAt(w.need) : \E i \in Items(w, g) : i.idx = k
      <4>1. PICK g \in LiveAt(w.need) : \E i \in Items(w, g) : i.idx = k
        BY <3>1
      <4>2. PICK i \in Items(w, g) : i.idx = k
        BY <4>1
      <4>3. ~Gone(w, i)
        BY <2>2, <2>3, <2>4, <4>2
      <4>4. Line(w.need[g].lib, i) \in ns
        BY <4>3 DEF Rests
      <4> QED BY <2>2, <4>2, <4>4
    <3>2. CASE \E i \in Firsts(w) : i.idx = k
      <4>1. PICK i \in Firsts(w) : i.idx = k
        BY <3>2
      <4>2. ~Gone(w, i)
        BY <2>2, <2>3, <2>4, <4>1
      <4>3. Line(None, i) \in ds
        BY <4>2 DEF Rests
      <4> QED BY <2>2, <4>1, <4>3
    <3> QED BY <2>1, <3>1, <3>2 DEF Present
  <2>6. ASSUME NEW l \in ds \cup ns, l[3] = k PROVE l[1] = b.lib /\ l[2] = b.ver
    <3>1. CASE l \in ns
      <4>1. PICK g \in LiveAt(w.need) : \E h \in Items(w, g) : l = Line(w.need[g].lib, h)
        BY <3>1 DEF Rests
      <4>2. PICK h \in Items(w, g) : l = Line(w.need[g].lib, h)
        BY <4>1
      <4>3. h.idx = k
        BY <2>2, <2>6, <4>2
      <4> QED BY <2>2, <2>3, <4>2, <4>3
    <3>2. CASE l \in ds
      <4>1. PICK h \in Firsts(w) : l = Line(None, h)
        BY <1>1, <1>3, <2>6, <3>2 DEF Rests
      <4>2. h.idx = k
        BY <2>2, <2>6, <4>1
      <4> QED BY <2>2, <2>3, <4>1, <4>2
    <3> QED BY <3>1, <3>2
  <2>7. x.symver[s] = k /\ x.versions
    BY <1>1, <1>3, <2>1, <2>5 DEF Rests, Dropped
  <2>8. FoundIn(ds \cup ns, k) = {[lib |-> b.lib, ver |-> b.ver]}
    BY <2>5, <2>6 DEF FoundIn
  <2> QED BY <1>3, <2>1, <2>7, <2>8
<1> QED BY <1>2, <1>3

\* No version is required which lost its last symbol...
LEMMA NoneUnused ==
  ASSUME NEW w, Indexed(w), Numbers(w), NEW f, Spared(w, f), NEW x, NEW ds, NEW ns, Rests(w, x, ds, ns), NEW l \in ns
  PROVE  (\E s \in DOMAIN w.symver : x.symver[s] = l[3]) \/ Unused(f, l[1], l[2])
<1>1. PICK k \in LiveAt(w.need) : \E h \in Items(w, k) : ("need" \in w.mod => ~Gone(w, h)) /\ l = Line(w.need[k].lib, h)
  BY DEF Rests
<1>2. PICK h \in Items(w, k) : ("need" \in w.mod => ~Gone(w, h)) /\ l = Line(w.need[k].lib, h)
  BY <1>1
<1>3. l[1] = w.need[k].lib /\ l[2] = h.ver /\ l[3] = h.idx
  BY <1>2 DEF Line
<1>4. CASE Unused(f, w.need[k].lib, h.ver)
  BY <1>3, <1>4
<1>5. CASE \E s \in DOMAIN w.symver : w.symver[s] = h.idx
  <2>1. PICK s \in DOMAIN w.symver : w.symver[s] = h.idx
    BY <1>5
  <2>2. h.idx \in Nat /\ h.idx > 1
    BY <2>1 DEF Indexed, LiveAt, NeedIs, Numbers
  <2>3. x.symver[s] = w.symver[s]
    BY <1>3, <2>1, <2>2 DEF Rests, Dropped
  <2> QED BY <1>3, <2>1, <2>3
<1>6. CASE h.unref /\ "need" \in w.mod
  BY <1>2, <1>5, <1>6, StaysUsed
<1> QED BY <1>4, <1>5, <1>6 DEF Spared

\* ...and none which is newer than the target, if the list is written at all.
LEMMA NoneNewer ==
  ASSUME NEW w, Indexed(w), Numbers(w), OldOnly(w), NEW x, NEW ds, NEW ns, Rests(w, x, ds, ns), NEW l \in ns,
         l[2] \in TooNew, ~l[4]
  PROVE  "need" \notin x.mod /\ \A s \in DOMAIN w.symver : x.symver[s] # l[3]
<1>1. PICK k \in LiveAt(w.need) : \E h \in Items(w, k) : ("need" \in w.mod => ~Gone(w, h)) /\ l = Line(w.need[k].lib, h)
  BY DEF Rests
<1>2. PICK h \in Items(w, k) : ("need" \in w.mod => ~Gone(w, h)) /\ l = Line(w.need[k].lib, h)
  BY <1>1
<1>3. l[2] = h.ver /\ l[3] = h.idx /\ l[4] = h.weak
  BY <1>2 DEF Line
<1>4. h.unref /\ \A s \in DOMAIN w.symver : w.symver[s] # h.idx
  BY <1>3 DEF OldOnly, Newer
<1>5. "need" \notin w.mod
  BY <1>2, <1>4, StaysUsed
<1>6. h.idx # 1
  BY DEF Indexed, LiveAt, NeedIs, BaseIs
<1> QED BY <1>3, <1>4, <1>5, <1>6 DEF Rests, Dropped

\* What Flush leaves of the editor.
LEMMA FlushRests ==
  ASSUME Memory(mem), Editing(v, mem, dyn), Indexed(v), Numbers(v), Flush
  PROVE  /\ v'.def = Def1(v, mem) /\ v'.need = Need1(v, mem)
         /\ Rests(v, v', Lines(Def1(v, mem)), Lines(Need1(v, mem)))
<1> DEFINE es == Def1(v, mem)
           fs == Need1(v, mem)
<1>1. /\ \A r : r \in Lines(fs) <=> \E k \in LiveAt(v.need) : \E h \in Items(v, k) :
                                       ("need" \in v.mod => ~Gone(v, h)) /\ r = Line(v.need[k].lib, h)
  BY NeedWritten
<1>2. /\ \A r \in Lines(es) : r[1] = None /\ (r[3] = 0 \/ \E h \in Firsts(v) : r = Line(None, h))
      /\ \A h \in Firsts(v) : ("def" \in v.mod => ~Gone(v, h)) => Line(None, h) \in Lines(es)
      /\ LibsOf(es) \subseteq {None}
  BY DefWritten
<1>3. CASE v.mod = {}
  <2>1. v' = v /\ es = v.def /\ fs = v.need
    BY <1>3 DEF Flush, Def1, Need1
  <2>2. v'.def = es /\ v'.need = fs /\ v'.symver = v.symver /\ v'.versions = v.versions /\ v'.mod = v.mod
    BY <2>1
  <2> HIDE DEF es, fs
  <2>3. Dropped(v, v', Lines(es) \cup Lines(fs))
    BY <2>2 DEF Dropped
  <2> QED BY <1>1, <1>2, <2>2, <2>3 DEF Rests, es, fs
<1>4. CASE v.mod # {}
  <2> DEFINE u == CheckRemovedRefs(v)
             x == [u EXCEPT !.def = es, !.need = fs, !.feats = IF "need" \in v.mod THEN @ \ Removing(SweptN(v)) ELSE @]
  <2>1. v' = DropVersions(x)
    BY <1>4 DEF Flush, SweptD, SweptN, Brk1, Def1, Need1
  <2>2. Fields \subseteq DOMAIN u /\ u.symver = v.symver /\ u.versions = v.versions /\ u.mod = v.mod
    BY GarbageFound, EditingShape
  <2>3. Shaped(es)
    BY FlushedDef DEF Whole
  <2> HIDE DEF u, es, fs
  <2>4. /\ Fields \subseteq DOMAIN x /\ x.def = es /\ x.need = fs
        /\ x.symver = v.symver /\ x.versions = v.versions /\ x.mod = v.mod
    BY <2>2 DEF Fields
  <2> HIDE DEF x
  <2>5. Count(v.base) \in Nat /\ Count(v.base) - 1 \in Nat /\ Count(v.base) > 1 /\ DOMAIN v.base = 0 .. (Count(v.base) - 1)
    BY DEF Indexed, BaseIs
  <2> DEFINE top == Count(v.base) - 1
  <2>6. ASSUME NEW l \in Lines(es) \cup Lines(fs) PROVE l[3] \in 0 .. top
    <3>1. \A lib, h : Line(lib, h)[3] = h.idx
      BY DEF Line
    <3>2. CASE l \in Lines(fs)
      <4>1. PICK k \in LiveAt(v.need) : \E h \in Items(v, k) : l = Line(v.need[k].lib, h)
        BY <1>1, <3>2
      <4>2. PICK h \in Items(v, k) : l = Line(v.need[k].lib, h)
        BY <4>1
      <4>3. NeedIs(v, k, h)
        BY DEF Indexed, LiveAt
      <4> QED BY <2>5, <3>1, <4>2, <4>3 DEF NeedIs
    <3>3. CASE l \in Lines(es)
      <4>1. CASE l[3] = 0
        BY <2>5, <4>1
      <4>2. CASE l[3] # 0
        <5>1. PICK h \in Firsts(v) : l = Line(None, h)
          BY <1>2, <3>3, <4>2
        <5>2. DefIs(v, h) /\ l[3] = h.idx
          BY <3>1, <5>1 DEF Indexed
        <5>3. h.idx = 1 \/ h.idx \in DOMAIN v.base
          BY <5>2 DEF DefIs
        <5> QED BY <2>5, <5>2, <5>3
      <4> QED BY <4>1, <4>2
    <3> QED BY <3>2, <3>3
  <2>7. top \in Nat
    BY <2>5
  <2> HIDE DEF top
  <2>8. Dropped(v, DropVersions(x), Lines(es) \cup Lines(fs))
    BY <1>2, <2>3, <2>4, <2>6, <2>7, Dropping
  <2>9. DropVersions(x).def = x.def /\ DropVersions(x).need = x.need
    BY <2>4 DEF DropVersions, Fields
  <2> QED BY <1>1, <1>2, <2>1, <2>4, <2>8, <2>9 DEF Rests, es, fs
<1> QED BY <1>3, <1>4

\* It is what it makes of what is in them.
LEMMA DescribedAre ==
  ASSUME NEW gs, NEW hs, NEW idx
  PROVE  LoaderFinds(gs, hs, idx) = FoundIn(Lines(hs) \cup Lines(gs), idx)
<1> DEFINE D == LoaderFinds(gs, hs, idx)
           L == FoundIn(Lines(hs) \cup Lines(gs), idx)
<1>1. \A lib, i : Line(lib, i)[1] = lib /\ Line(lib, i)[2] = i.ver /\ Line(lib, i)[3] = i.idx
  BY DEF Line
<1>2. \A g \in Range(gs) \cup Range(hs) : \A i \in Range(g.items) : Line(g.lib, i) \in Lines(hs) \cup Lines(gs)
  BY DEF Range, Lines
<1>3. \A l \in Lines(hs) \cup Lines(gs) : \E g \in Range(gs) \cup Range(hs) : \E i \in Range(g.items) : l = Line(g.lib, i)
  BY DEF Range, Lines
<1>4. ASSUME NEW d \in D PROVE d \in L
  <2>1. PICK g \in Range(gs) \cup Range(hs) : \E i \in Range(g.items) : i.idx = idx /\ d = [lib |-> g.lib, ver |-> i.ver]
    BY DEF LoaderFinds
  <2>2. PICK i \in Range(g.items) : i.idx = idx /\ d = [lib |-> g.lib, ver |-> i.ver]
    BY <2>1
  <2> DEFINE l == Line(g.lib, i)
  <2>3. l \in Lines(hs) \cup Lines(gs) /\ l[3] = idx /\ d = [lib |-> l[1], ver |-> l[2]]
    BY <1>1, <1>2, <2>2
  <2> QED BY <2>3 DEF FoundIn
<1>5. ASSUME NEW d \in L PROVE d \in D
  <2>1. PICK l \in Lines(hs) \cup Lines(gs) : l[3] = idx /\ d = [lib |-> l[1], ver |-> l[2]]
    BY DEF FoundIn
  <2>2. PICK g \in Range(gs) \cup Range(hs) : \E i \in Range(g.items) : l = Line(g.lib, i)
    BY <1>3
  <2>3. PICK i \in Range(g.items) : l = Line(g.lib, i)
    BY <2>2
  <2>4. i.idx = idx /\ d = [lib |-> g.lib, ver |-> i.ver]
    BY <1>1, <2>1, <2>3
  <2> QED BY <2>4 DEF LoaderFinds
<1> QED BY <1>4, <1>5

\* The step which ends the editing leaves a file whose symbols are bound as they are to
\* be.
LEMMA BindingFlush == ASSUME IInv, IInv', BInv, Flush PROVE BInv'
<1> DEFINE es == Def1(v, mem)
           fs == Need1(v, mem)
           f == hist.file
<1>1. /\ pc = "edit" /\ pc' = "done" /\ want' = want
      /\ Memory(mem) /\ Editing(v, mem, dyn) /\ Sound(v, want, f, hist.target, ~hist.reused)
      /\ {"file", "target", "reused", "renamed"} \subseteq DOMAIN hist
  BY DEF IInv, BInv, Flush
<1>2. hist'.file = f /\ hist'.target = hist.target /\ hist'.reused = hist.reused
  <2>1. CASE v.mod = {}
    BY <2>1 DEF Flush
  <2>2. CASE v.mod # {}
    BY <2>2, <1>1 DEF Flush
  <2> QED BY <2>1, <2>2
<1>3. Indexed(v) /\ Numbers(v) /\ Spared(v, f) /\ DOMAIN v.symver = DOMAIN f.symver /\ DOMAIN want = DOMAIN v.symver
  BY <1>1 DEF Sound
<1>4. v'.def = es /\ v'.need = fs /\ Rests(v, v', Lines(es), Lines(fs))
  BY <1>1, <1>3, FlushRests
<1> HIDE DEF es, fs
<1>5. ASSUME Written' PROVE Lines(FileNeed') = Lines(fs) /\ Lines(FileDef') = Lines(es)
  BY <1>5, <1>4, SeenSame DEF IInv, ImageAgrees
<1>6. ASSUME Written', ~hist'.reused, NEW s \in DOMAIN want'
      PROVE  IF v'.versions /\ v'.symver[s] > 1 THEN Described(v.symver[s])' = {want'[s]} ELSE want'[s] = Plain
  <2>1. Binds(v, want) /\ s \in DOMAIN want
    BY <1>1, <1>2, <1>6 DEF Sound
  <2>2. IF v'.versions /\ v'.symver[s] > 1
        THEN FoundIn(Lines(es) \cup Lines(fs), v'.symver[s]) = {want[s]}
        ELSE want[s] = Plain
    BY <1>3, <1>4, <2>1, BoundStill
  <2>3. Described(v.symver[s])' = FoundIn(Lines(es) \cup Lines(fs), v'.symver[s])
    <3> DEFINE gs == FileNeed'
               hs == FileDef'
               idx == v'.symver[s]
    <3>1. Lines(gs) = Lines(fs) /\ Lines(hs) = Lines(es)
      BY <1>5, <1>6
    <3>2. Described(v.symver[s])' = LoaderFinds(gs, hs, idx)
      BY DEF Described, LoaderFinds
    <3> HIDE DEF gs, hs, idx
    <3>3. Described(v.symver[s])' = FoundIn(Lines(hs) \cup Lines(gs), idx)
      BY <3>2, DescribedAre
    <3> QED BY <3>1, <3>3 DEF idx
  <2> QED BY <1>1, <2>2, <2>3
<1>7. Bindings'
  BY <1>6 DEF Bindings
<1>8. ASSUME NEW gs, Lines(gs) = Lines(fs), NEW g \in Range(gs), NEW i \in Range(g.items) PROVE Line(g.lib, i) \in Lines(fs)
  BY <1>8 DEF Range, Lines
<1>9. \A lib, i : Line(lib, i)[1] = lib /\ Line(lib, i)[2] = i.ver /\ Line(lib, i)[3] = i.idx /\ Line(lib, i)[4] = i.weak
  BY DEF Line
<1>10. ASSUME Written', NEW g \in Range(FileNeed'), NEW i \in Range(g.items)
       PROVE  (\E s \in DOMAIN want' : v'.symver[s] = i.idx) \/ Unused(f, g.lib, i.ver)
  <2> DEFINE l == Line(g.lib, i)
  <2>1. l \in Lines(fs)
    BY <1>5, <1>8, <1>10
  <2>2. (\E s \in DOMAIN v.symver : v'.symver[s] = l[3]) \/ Unused(f, l[1], l[2])
    BY <1>3, <1>4, <2>1, NoneUnused
  <2> QED BY <1>1, <1>3, <1>9, <2>2
<1>11. NothingUnused'
  BY <1>1, <1>3, <1>2, <1>10 DEF NothingUnused, Unused
<1>12. ASSUME Written', hist'.target, NEW g \in Range(FileNeed'), NEW i \in Range(g.items), Newer(i), ~i.weak
       PROVE  "need" \notin v'.mod /\ \A s \in DOMAIN want' : v'.symver[s] # i.idx
  <2> DEFINE l == Line(g.lib, i)
  <2>1. l \in Lines(fs) /\ l[2] \in TooNew /\ ~l[4]
    BY <1>5, <1>8, <1>9, <1>12 DEF Newer
  <2>2. OldOnly(v)
    BY <1>1, <1>2, <1>12 DEF Sound
  <2>3. "need" \notin v'.mod /\ \A s \in DOMAIN v.symver : v'.symver[s] # l[3]
    BY <1>3, <1>4, <2>1, <2>2, NoneNewer
  <2> QED BY <1>1, <1>3, <1>9, <2>3
<1>13. TargetMet'
  BY <1>12 DEF TargetMet
<1> QED BY <1>1, <1>7, <1>11, <1>13 DEF BInv

\* Both invariants hold.
LEMMA BindingAlways == Spec => [](IInv /\ BInv)
<1>1. Init => IInv /\ BInv
  BY Starts, BindingStarts
<1>2. (IInv /\ BInv) /\ [Next]_vars => (IInv /\ BInv)'
  <2> SUFFICES ASSUME IInv, BInv, [Next]_vars PROVE IInv' /\ BInv'
    OBVIOUS
  <2>1. IInv'
    BY Steps
  <2>2. CASE Flush
    BY <2>1, <2>2, BindingFlush
  <2>3. CASE ~Flush
    BY <2>1, <2>3, BindingSteps
  <2> QED BY <2>1, <2>2, <2>3
<1> QED BY <1>1, <1>2, PTL DEF Spec

\* Every symbol is bound as the actions have asked for: its index is described by one
\* version in the file, which is that of the library it is to come from.
THEOREM BindingsCorrect == Spec => []Bindings
BY BindingAlways, PTL DEF BInv

\* The file requires no version which lost its last symbol on the way.
THEOREM NothingUnusedCorrect == Spec => []NothingUnused
BY BindingAlways, PTL DEF BInv

\* After --target-glibc no symbol is bound to a version which is newer than the target,
\* and none is required once the list has been written.
THEOREM TargetMetCorrect == Spec => []TargetMet
BY BindingAlways, PTL DEF BInv

=============================================================================
