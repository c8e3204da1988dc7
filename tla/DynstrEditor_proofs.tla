------------------------ MODULE DynstrEditor_proofs ------------------------
(***************************************************************************)
(* Whatever is encoded, removed and tried again, every reference keeps its *)
(* string, and the table of known strings is right about each of them.     *)
(***************************************************************************)
EXTENDS DynstrEditor, FiniteSetTheorems, SequenceTheorems, TLAPS

-----------------------------------------------------------------------------
(* Sets of natural numbers, from which induction is taken.                  *)

\* A set of natural numbers has a least one.
LEMMA LeastBelow ==
  ASSUME NEW n \in Nat, NEW S \in SUBSET (0..n), S # {}
  PROVE  \E m \in S : \A k \in S : m <= k
<1> DEFINE F == {S \cap 0..k : k \in S}
           R == StrictSubsetOrdering(0..n)
<1>1. IsFiniteSet(0..n)
  BY FS_Interval
<1>2. IsWellFoundedOn(R, FiniteSubsetsOf(0..n))
  BY <1>1, FS_StrictSubsetOrderingWellFounded
<1>3. F \subseteq FiniteSubsetsOf(0..n) /\ F # {}
  <2>1. \A k \in S : S \cap 0..k \in SUBSET (0..n)
    OBVIOUS
  <2>2. \A x \in SUBSET (0..n) : IsFiniteSet(x)
    BY <1>1, FS_Subset
  <2>3. \A k \in S : S \cap 0..k \in FiniteSubsetsOf(0..n)
    BY <2>1, <2>2 DEF FiniteSubsetsOf
  <2> QED BY <2>3
<1>4. PICK x \in F : \A y \in F : <<y, x>> \notin R
  <2> HIDE DEF F, R
  <2> QED BY <1>2, <1>3, WFMin
<1>5. PICK m \in S : x = S \cap 0..m
  OBVIOUS
<1>6. ASSUME NEW k \in S, k < m PROVE FALSE
  <2>1. S \cap 0..k \in F
    OBVIOUS
  <2>2. S \cap 0..k \subseteq S \cap 0..m /\ m \in S \cap 0..m /\ m \notin 0..k
    BY <1>6
  <2>3. <<S \cap 0..k, x>> \in R
    BY <2>1, <2>2, <1>5, <1>3, <1>1 DEF StrictSubsetOrdering
  <2> QED BY <2>1, <2>3, <1>4
<1> QED BY <1>6

\* A set of natural numbers has a least one, if it is not empty.
LEMMA Least ==
  ASSUME NEW S \in SUBSET Nat, S # {}
  PROVE  \E m \in S : \A k \in S : m <= k
<1>1. PICK n \in S : TRUE
  OBVIOUS
<1>2. S \cap 0..n \in SUBSET (0..n) /\ S \cap 0..n # {}
  BY <1>1
<1>3. PICK m \in S \cap 0..n : \A k \in S \cap 0..n : m <= k
  BY <1>1, <1>2, LeastBelow
<1> QED BY <1>1, <1>3

\* Induction up to n, as a fact about sets.
LEMMA Upwards ==
  ASSUME NEW n \in Nat, NEW S \in SUBSET (0..n), 0 \in S,
         \A i \in 0..(n - 1) : i \in S => i + 1 \in S
  PROVE  S = 0..n
<1> SUFFICES ASSUME (0..n) \ S # {} PROVE FALSE
  OBVIOUS
<1>1. (0..n) \ S \in SUBSET Nat
  OBVIOUS
<1>2. PICK m \in (0..n) \ S : \A k \in (0..n) \ S : m <= k
  BY <1>1, Least
<1>3. m - 1 \in 0..(n - 1) /\ m - 1 \in S
  BY <1>2
<1> QED BY <1>2, <1>3

Text == Chars \cup {NUL}

-----------------------------------------------------------------------------
(* Strings.                                                                 *)

\* The string s is at offset o.
Spells(b, o, s) ==
  /\ s \in Seq(Chars) /\ o + Len(s) + 1 <= Len(b) /\ b[o + Len(s) + 1] = NUL
  /\ \A j \in 1..Len(s) : b[o + j] = s[j]

\* Decoding finds what is there...
LEMMA StringIs ==
  ASSUME NEW b \in Seq(Text), NEW o \in Nat, NEW s, Spells(b, o, s)
  PROVE  StringAt(b, o) = s
<1> DEFINE nuls == {i \in (o + 1)..Len(b) : b[i] = NUL}
           end == CHOOSE i \in nuls : \A j \in nuls : i <= j
           n == Len(s)
           m == o + n + 1
<1>1. s \in Seq(Chars) /\ n \in Nat /\ Len(b) \in Nat /\ m \in Nat /\ m = o + n + 1
  BY DEF Spells
<1>2. m <= Len(b) /\ b[m] = NUL /\ \A j \in 1..n : b[o + j] = s[j]
  BY DEF Spells
<1>3. m \in nuls
  BY <1>1, <1>2
<1>4. ASSUME NEW i \in nuls, i < m PROVE FALSE
  <2>1. i - o \in 1..n /\ i = o + (i - o)
    BY <1>1, <1>4
  <2>2. b[i] = s[i - o]
    BY <1>2, <2>1
  <2>3. s[i - o] \in Chars
    BY <1>1, <2>1, ElementOfSeq
  <2> QED BY <2>2, <2>3, <1>4, DynstrAssumption
<1>5. \A i \in nuls : i \in Nat /\ m <= i
  BY <1>1, <1>4
<1> HIDE DEF nuls
<1>6. end \in nuls /\ \A j \in nuls : end <= j
  BY <1>3, <1>5
<1>7. end = m
  BY <1>3, <1>5, <1>6, <1>1
<1>8. StringAt(b, o) = SubSeq(b, o + 1, end - 1)
  BY <1>3 DEF StringAt, nuls
<1>9. SubSeq(b, o + 1, o + n) = s
  <2> DEFINE t == SubSeq(b, o + 1, o + n)
  <2>1. \A i \in (o + 1)..(o + n) : b[i] \in Text
    BY <1>1, <1>2, ElementOfSeq
  <2>2. o + 1 \in Int /\ o + n \in Int
    BY <1>1
  <2>3. /\ t \in Seq(Text) /\ Len(t) = (IF o + 1 <= o + n THEN o + n - (o + 1) + 1 ELSE 0)
        /\ \A i \in 1..(o + n - (o + 1) + 1) : t[i] = b[o + 1 + i - 1]
    BY <2>1, <2>2, SubSeqProperties
  <2> HIDE DEF t
  <2>4. Len(t) = n /\ \A i \in 1..n : t[i] = b[o + i]
    <3>1. o + n - (o + 1) + 1 = n /\ (o + 1 <= o + n <=> n >= 1)
      BY <1>1
    <3>2. \A i \in 1..n : o + 1 + i - 1 = o + i
      BY <1>1
    <3> QED BY <1>1, <2>3, <3>1, <3>2
  <2>5. \A i \in 1..n : t[i] = s[i]
    BY <1>2, <2>4
  <2>6. s \in Seq(Text)
    BY <1>1, SeqMonotonic DEF Text
  <2>7. t = s
    BY <2>3, <2>4, <2>5, <2>6, SeqEqual
  <2> QED BY <2>7 DEF t
<1>10. end - 1 = o + n
  <2> HIDE DEF end
  <2> QED BY <1>7, <1>1
<1> QED BY <1>8, <1>9, <1>10

\* ... and there is something where a NUL follows.
LEMMA StringThere ==
  ASSUME NEW b \in Seq(Text), NEW o \in Nat, NEW k \in (o + 1)..Len(b), b[k] = NUL
  PROVE  LET s == StringAt(b, o) IN
         Spells(b, o, s) /\ o + Len(s) + 1 <= k /\ s # None
<1> DEFINE nuls == {i \in (o + 1)..Len(b) : b[i] = NUL}
<1>1. Len(b) \in Nat /\ k \in nuls /\ nuls \in SUBSET Nat
  OBVIOUS
<1>2. PICK m \in nuls : \A j \in nuls : m <= j
  <2> HIDE DEF nuls
  <2> QED BY <1>1, Least
<1> DEFINE s == SubSeq(b, o + 1, m - 1)
           n == m - 1 - o
<1>3. m \in (o + 1)..Len(b) /\ b[m] = NUL /\ m <= k /\ n \in Nat /\ m = o + n + 1
  BY <1>1, <1>2
<1>4. ASSUME NEW i \in (o + 1)..(m - 1) PROVE b[i] \in Chars
  <2>1. i \in 1..Len(b) /\ i < m
    BY <1>1, <1>3
  <2>2. b[i] \in Text
    BY <2>1, ElementOfSeq
  <2>3. i \notin nuls
    BY <1>2, <2>1, <1>1
  <2>4. b[i] # NUL
    BY <2>3, <2>1, <1>1
  <2> QED BY <2>2, <2>4 DEF Text
<1>5. s \in Seq(Chars) /\ Len(s) = n /\ \A j \in 1..n : s[j] = b[o + j]
  <2>1. o + 1 \in Int /\ m - 1 \in Int
    BY <1>3
  <2>2. /\ s \in Seq(Chars) /\ Len(s) = (IF o + 1 <= m - 1 THEN m - 1 - (o + 1) + 1 ELSE 0)
        /\ \A i \in 1..(m - 1 - (o + 1) + 1) : s[i] = b[o + 1 + i - 1]
    BY <1>4, <2>1, SubSeqProperties
  <2> HIDE DEF s
  <2>3. m - 1 - (o + 1) + 1 = n /\ (o + 1 <= m - 1 <=> n >= 1) /\ \A i \in 1..n : o + 1 + i - 1 = o + i
    BY <1>3
  <2> HIDE DEF n
  <2> QED BY <2>2, <2>3, <1>3
<1> HIDE DEF s, nuls
<1>6. Spells(b, o, s)
  BY <1>3, <1>5 DEF Spells
<1>7. StringAt(b, o) = s
  BY <1>6, StringIs
<1>8. s # None
  BY <1>5, DynstrAssumption
<1> QED BY <1>3, <1>5, <1>6, <1>7, <1>8

\* A table which goes on keeps its strings.
LEMMA SpellsOn ==
  ASSUME NEW b \in Seq(Text), NEW c \in Seq(Text), NEW o \in Nat, NEW s, Spells(b, o, s)
  PROVE  Spells(b \o c, o, s)
<1> DEFINE d == b \o c
           n == Len(s)
<1>1. /\ s \in Seq(Chars) /\ n \in Nat /\ Len(b) \in Nat /\ Len(c) \in Nat
      /\ o + n + 1 <= Len(b) /\ b[o + n + 1] = NUL /\ \A j \in 1..n : b[o + j] = s[j]
  BY DEF Spells
<1>2. Len(d) = Len(b) + Len(c) /\ \A i \in 1..Len(b) : d[i] = b[i]
  BY ConcatProperties, <1>1
<1> HIDE DEF d
<1>3. d[o + n + 1] = b[o + n + 1] /\ o + n + 1 <= Len(d)
  <2>1. o + n + 1 \in 1..Len(b)
    BY <1>1
  <2> QED BY <1>1, <1>2, <2>1
<1>4. ASSUME NEW j \in 1..n PROVE d[o + j] = s[j]
  <2>1. o + j \in 1..Len(b)
    BY <1>1
  <2> QED BY <1>1, <1>2, <2>1
<1> QED BY <1>1, <1>3, <1>4 DEF Spells, d

\* A string which is added is there.
LEMMA SpellsAdded ==
  ASSUME NEW b \in Seq(Text), NEW s \in Seq(Chars)
  PROVE  b \o Append(s, NUL) \in Seq(Text) /\ Spells(b \o Append(s, NUL), Len(b), s)
<1> DEFINE c == Append(s, NUL)
           d == b \o c
           n == Len(s)
<1>1. n \in Nat /\ Len(b) \in Nat /\ s \in Seq(Text) /\ NUL \in Text
  BY SeqMonotonic DEF Text
<1>2. c \in Seq(Text) /\ Len(c) = n + 1 /\ c[n + 1] = NUL /\ \A j \in 1..n : c[j] = s[j]
  BY <1>1
<1> HIDE DEF c
<1>3. /\ d \in Seq(Text) /\ Len(d) = Len(b) + (n + 1)
      /\ \A i \in 1..(Len(b) + (n + 1)) : d[i] = IF i <= Len(b) THEN b[i] ELSE c[i - Len(b)]
  <2>1. /\ d \in Seq(Text) /\ Len(d) = Len(b) + Len(c)
        /\ \A i \in 1..(Len(b) + Len(c)) : d[i] = IF i <= Len(b) THEN b[i] ELSE c[i - Len(b)]
    BY <1>2, ConcatProperties
  <2> HIDE DEF d
  <2> QED BY <1>2, <2>1
<1> HIDE DEF d, n
<1>4. ASSUME NEW j \in 1..(n + 1) PROVE d[Len(b) + j] = c[j]
  <2>1. Len(b) + j \in 1..(Len(b) + (n + 1)) /\ ~(Len(b) + j <= Len(b)) /\ Len(b) + j - Len(b) = j
    BY <1>1
  <2> QED BY <1>3, <2>1
<1>5. d[Len(b) + n + 1] = NUL /\ Len(b) + n + 1 <= Len(d)
  <2>1. Len(b) + n + 1 = Len(b) + (n + 1) /\ n + 1 \in 1..(n + 1)
    BY <1>1
  <2> QED BY <1>1, <1>2, <1>3, <1>4, <2>1
<1>6. \A j \in 1..n : d[Len(b) + j] = s[j]
  <2>1. \A j \in 1..n : j \in 1..(n + 1)
    BY <1>1
  <2> QED BY <1>2, <1>4, <2>1
<1>7. Spells(d, Len(b), s)
  BY <1>5, <1>6 DEF Spells, n
<1> QED BY <1>3, <1>7 DEF d, c

-----------------------------------------------------------------------------
(* The table of known strings, before a new one is built.                   *)

Entry(o, s) == [encoded |-> o, str |-> s]

\* Its entries are in the original table, and one is the end of it.
OldTable(b, t) ==
  /\ \A e \in t : /\ e = Entry(e.encoded, e.str)
                  /\ e.encoded \in Nat \ {0} /\ Spells(b, e.encoded, e.str)
  /\ Len(b) > 1 => \E e \in t : e.encoded = Len(b) - 1

\* A table as they are in files.
Table(b) == b \in Seq(Text) /\ Len(b) \in Nat \ {0} /\ b[Len(b)] = NUL

\* Inside of it, each offset is that of a string.
LEMMA StringInside ==
  ASSUME NEW b, Table(b), NEW o \in Nat, o < Len(b)
  PROVE  Spells(b, o, StringAt(b, o)) /\ StringAt(b, o) # None
<1>1. Len(b) \in (o + 1)..Len(b) /\ b[Len(b)] = NUL /\ b \in Seq(Text)
  BY DEF Table
<1> QED BY <1>1, StringThere

\* The table which is built from the references knows the strings of all.
LEMMA BuildTableIs ==
  ASSUME NEW b, Table(b), NEW rs \in [Holders -> Nat \cup {None}],
         \A h \in Holders : rs[h] # None => rs[h] < Len(b)
  PROVE  /\ OldTable(b, BuildTable(b, rs))
         /\ \A h \in Holders : rs[h] \notin {None, 0} =>
              \E e \in BuildTable(b, rs) : e.encoded = rs[h]
<1> DEFINE V == Visited(b, rs) \ {0, -1}
           t == BuildTable(b, rs)
<1>1. t = {Entry(o, StringAt(b, o)) : o \in V}
  BY DEF BuildTable, Entry
<1>2. Len(b) \in Nat \ {0}
  BY DEF Table
<1>3. \A o \in V : o \in Nat \ {0} /\ o < Len(b)
  <2>1. ASSUME NEW o \in V PROVE o \in Nat \ {0} /\ o < Len(b)
    <3>1. CASE o = Len(b) - 1
      BY <1>2, <3>1
    <3>2. CASE o # Len(b) - 1
      <4>1. PICK h \in Holders : rs[h] # None /\ o = rs[h]
        BY <3>2 DEF Visited
      <4> QED BY <4>1
    <3> QED BY <3>1, <3>2
  <2> HIDE DEF V
  <2> QED BY <2>1
<1>4. \A h \in Holders : rs[h] \notin {None, 0} => rs[h] \in V
  BY DynstrAssumption DEF Visited
<1>5. Len(b) > 1 => Len(b) - 1 \in V
  BY <1>2 DEF Visited
<1> HIDE DEF V, t
<1>6. \A o, s : Entry(o, s).encoded = o /\ Entry(o, s).str = s
  BY DEF Entry
<1>7. ASSUME NEW e \in t
      PROVE  e = Entry(e.encoded, e.str) /\ e.encoded \in Nat \ {0} /\ Spells(b, e.encoded, e.str)
  <2>1. PICK o \in V : e = Entry(o, StringAt(b, o))
    BY <1>1
  <2>2. e.encoded = o /\ e.str = StringAt(b, o)
    BY <2>1, <1>6
  <2>3. Spells(b, o, StringAt(b, o))
    BY <1>3, StringInside
  <2> QED BY <1>3, <2>1, <2>2, <2>3
<1>8. \A o \in V : \E e \in t : e.encoded = o
  BY <1>1, <1>6
<1>9. OldTable(b, t)
  BY <1>5, <1>7, <1>8 DEF OldTable
<1> QED BY <1>4, <1>8, <1>9 DEF t

\* Entries are those of their offsets.
LEMMA OldEntries ==
  ASSUME NEW b, Table(b), NEW t, OldTable(b, t)
  PROVE  /\ t # {} <=> Len(b) > 1
         /\ \A e \in t : e.encoded \in Nat \ {0} /\ e.str \in Seq(Chars) /\ Len(e.str) \in Nat
                         /\ Length(e) \in Nat \ {0} /\ e.encoded + Length(e) <= Len(b)
                         /\ e.encoded < Len(b) /\ Spells(b, e.encoded, e.str)
         /\ \A d, e \in t : d.encoded = e.encoded => d = e
<1>1. Len(b) \in Nat \ {0} /\ b \in Seq(Text)
  BY DEF Table
<1>2. ASSUME NEW e \in t
      PROVE  /\ e.encoded \in Nat \ {0} /\ e.str \in Seq(Chars) /\ Len(e.str) \in Nat
             /\ Length(e) \in Nat \ {0} /\ e.encoded + Length(e) <= Len(b)
             /\ e.encoded < Len(b) /\ Spells(b, e.encoded, e.str)
  <2>1. e.encoded \in Nat \ {0} /\ Spells(b, e.encoded, e.str)
    BY DEF OldTable
  <2>2. e.str \in Seq(Chars) /\ e.encoded + Len(e.str) + 1 <= Len(b)
    BY <2>1 DEF Spells
  <2>3. Len(e.str) \in Nat
    BY <2>2
  <2> QED BY <2>1, <2>2, <2>3, <1>1 DEF Length
<1>3. ASSUME NEW d \in t, NEW e \in t, d.encoded = e.encoded PROVE d = e
  <2>1. d.str = StringAt(b, d.encoded) /\ e.str = StringAt(b, e.encoded)
    BY <1>1, <1>2, StringIs
  <2>2. d = Entry(d.encoded, d.str) /\ e = Entry(e.encoded, e.str)
    BY DEF OldTable
  <2> QED BY <1>3, <2>1, <2>2
<1>4. Len(b) > 1 => t # {}
  BY DEF OldTable
<1>5. t # {} => Len(b) > 1
  BY <1>1, <1>2
<1> QED BY <1>2, <1>3, <1>4, <1>5

\* All of the table is in use.
LEMMA MaxOffsetIs ==
  ASSUME NEW b, Table(b), NEW t, OldTable(b, t), t # {}
  PROVE  MaxOffset(t) = Len(b)
<1> DEFINE M == {e.encoded + Length(e) : e \in t}
           n == Len(b)
<1>1. n \in Nat /\ n > 1 /\ \A e \in t : e.encoded \in Nat /\ Length(e) \in Nat \ {0} /\ e.encoded + Length(e) <= n
  BY OldEntries DEF Table
<1>2. PICK e \in t : e.encoded = n - 1
  BY <1>1 DEF OldTable
<1>3. e.encoded + Length(e) = n
  BY <1>1, <1>2
<1>4. n \in M /\ \A m \in M : m <= n /\ m \in Nat
  BY <1>1, <1>3
<1>5. ASSUME NEW m \in M, \A d \in t : d.encoded + Length(d) <= m PROVE m = n
  BY <1>1, <1>3, <1>4, <1>5
<1>6. \A d \in t : d.encoded + Length(d) <= n
  BY <1>1
<1> HIDE DEF M, n
<1>7. MaxOffset(t) = CHOOSE m \in M : \A d \in t : d.encoded + Length(d) <= m
  BY DEF MaxOffset, M
<1> QED BY <1>4, <1>5, <1>6, <1>7 DEF n

-----------------------------------------------------------------------------
(* Compaction.                                                              *)

\* No string begins right behind another.
Spaced(t) == \A d, e \in t : d.encoded < e.encoded => d.encoded + Length(d) # e.encoded

\* A string is copied with the characters around it.
LEMMA SpellsCopied ==
  ASSUME NEW b \in Seq(Text), NEW c \in Seq(Text), NEW o \in Nat, NEW s, Spells(b, o, s),
         NEW f \in Nat, NEW g \in Nat, NEW n \in Nat,
         f <= o, o + Len(s) + 1 <= f + n, g + n <= Len(c),
         \A j \in 1..n : c[g + j] = b[f + j]
  PROVE  Spells(c, g + (o - f), s)
<1> DEFINE m == Len(s)
           p == g + (o - f)
<1>1. /\ s \in Seq(Chars) /\ m \in Nat /\ o + m + 1 <= Len(b) /\ b[o + m + 1] = NUL
      /\ \A j \in 1..m : b[o + j] = s[j]
  BY DEF Spells
<1>2. Len(b) \in Nat /\ Len(c) \in Nat /\ o + m + 1 <= f + n
  OBVIOUS
<1> HIDE DEF m
<1>3. ASSUME NEW j \in 1..(m + 1) PROVE c[p + j] = b[o + j]
  <2> DEFINE i == o - f + j
  <2>1. i \in 1..n /\ g + i = p + j /\ f + i = o + j
    BY <1>1, <1>2
  <2> HIDE DEF i, p
  <2>2. c[g + i] = b[f + i]
    BY <2>1
  <2> QED BY <2>1, <2>2
<1>4. p \in Nat /\ p + m + 1 <= Len(c)
  BY <1>1, <1>2
<1> HIDE DEF p
<1>5. c[p + m + 1] = NUL
  <2>1. m + 1 \in 1..(m + 1) /\ p + (m + 1) = p + m + 1 /\ o + (m + 1) = o + m + 1
    BY <1>1, <1>4
  <2> QED BY <1>1, <1>3, <2>1
<1>6. \A j \in 1..m : c[p + j] = s[j]
  <2>1. \A j \in 1..m : j \in 1..(m + 1)
    BY <1>1
  <2> QED BY <1>1, <1>3, <2>1
<1> QED BY <1>1, <1>4, <1>5, <1>6 DEF Spells, m, p

\* Two strings of which one begins in the other end together.
LEMMA EndsTogether ==
  ASSUME NEW b, Table(b), NEW t, OldTable(b, t), NEW d \in t, NEW e \in t,
         d.encoded <= e.encoded, e.encoded < d.encoded + Length(d)
  PROVE  e.encoded + Length(e) = d.encoded + Length(d)
<1> DEFINE p == d.encoded + Length(d)
           q == e.encoded + Length(e)
<1>1. /\ d.encoded \in Nat /\ e.encoded \in Nat /\ p \in Nat /\ q \in Nat
      /\ Length(d) \in Nat \ {0} /\ Length(e) \in Nat \ {0} /\ p <= Len(b) /\ q <= Len(b)
      /\ Spells(b, d.encoded, d.str) /\ Spells(b, e.encoded, e.str)
      /\ Len(d.str) \in Nat /\ Len(e.str) \in Nat
  BY OldEntries
<1>2. b \in Seq(Text) /\ Len(b) \in Nat
  BY DEF Table
<1>3. p = d.encoded + Len(d.str) + 1 /\ q = e.encoded + Len(e.str) + 1
  BY <1>1 DEF Length
<1>4. b[p] = NUL /\ b[q] = NUL
  BY <1>1, <1>3 DEF Spells
<1>5. p \in (e.encoded + 1)..Len(b) /\ q \in (d.encoded + 1)..Len(b)
  BY <1>1, <1>2
<1>6. d.str = StringAt(b, d.encoded) /\ e.str = StringAt(b, e.encoded)
  BY <1>1, <1>2, StringIs
<1> HIDE DEF p, q
<1>7. p <= q
  <2>1. d.encoded + Len(StringAt(b, d.encoded)) + 1 <= q
    BY <1>1, <1>2, <1>4, <1>5, StringThere
  <2> QED BY <1>3, <1>6, <2>1
<1>8. q <= p
  <2>1. e.encoded + Len(StringAt(b, e.encoded)) + 1 <= p
    BY <1>1, <1>2, <1>4, <1>5, StringThere
  <2> QED BY <1>3, <1>6, <2>1
<1> QED BY <1>1, <1>7, <1>8 DEF p, q

Ranges == [from : Nat, delta : Int]
\* An entry has been copied, and its offset is in the range which says where.
Moved(acc, e) ==
  \E i \in 1..Len(acc.ranges) :
    /\ acc.ranges[i].from <= e.encoded
    /\ \A j \in 1..Len(acc.ranges) : acc.ranges[j].from <= e.encoded => j <= i
    /\ e.encoded + acc.ranges[i].delta \in 0..e.encoded
    /\ Spells(acc.bytes, e.encoded + acc.ranges[i].delta, e.str)
\* The last copy is that of an entry, up to a character behind it.
LastCopy(b, t, acc) ==
  LET n == Len(acc.ranges) IN
  IF n = 0 THEN acc.upTo = 0
  ELSE \E d \in t : LET to == d.encoded + acc.ranges[n].delta IN
         /\ acc.ranges[n].from = d.encoded /\ acc.upTo = d.encoded + Length(d) + 1
         /\ to \in 0..d.encoded /\ to + Length(d) <= Len(acc.bytes)
         /\ \A j \in 1..Length(d) : acc.bytes[to + j] = b[d.encoded + j]
\* The entries below the offset o are done.
Copying(b, t, acc, o) ==
  /\ acc.bytes \in Seq(Text) /\ acc.upTo \in Nat /\ Len(acc.bytes) <= acc.upTo
  /\ acc.ranges \in Seq(Ranges) /\ \A i \in 1..Len(acc.ranges) : acc.ranges[i].from < o
  /\ LastCopy(b, t, acc)
  /\ \A e \in t : e.encoded < o => Moved(acc, e)

Nothing == [bytes |-> << >>, upTo |-> 0, ranges |-> << >>]
LEMMA CopyNothing == ASSUME NEW b, NEW t, OldTable(b, t) PROVE Copying(b, t, Nothing, 0)
<1>1. Len(<< >>) = 0 /\ << >> \in Seq(Text) /\ << >> \in Seq(Ranges)
  BY EmptySeq
<1>2. \A e \in t : ~(e.encoded < 0)
  BY DEF OldTable
<1> QED BY <1>1, <1>2 DEF Copying, LastCopy, Nothing

\* An offset at which there is no entry.
LEMMA CopyNone ==
  ASSUME NEW b, NEW t, OldTable(b, t), NEW acc, NEW o \in Nat, Copying(b, t, acc, o),
         \A e \in t : e.encoded # o
  PROVE  Copying(b, t, acc, o + 1)
<1>1. \A e \in t : e.encoded < o + 1 => e.encoded < o
  BY DEF OldTable
<1>2. \A i \in 1..Len(acc.ranges) : acc.ranges[i].from < o + 1
  <2>1. ASSUME NEW i \in 1..Len(acc.ranges) PROVE acc.ranges[i].from < o + 1
    <3>1. acc.ranges[i].from < o /\ acc.ranges[i] \in Ranges
      BY ElementOfSeq DEF Copying
    <3>2. acc.ranges[i].from \in Nat
      BY <3>1 DEF Ranges
    <3> QED BY <3>1, <3>2
  <2> QED BY <2>1
<1> QED BY <1>1, <1>2 DEF Copying

\* One which begins in the last copy.
LEMMA CopySkips ==
  ASSUME NEW b, Table(b), NEW t, OldTable(b, t), Spaced(t), NEW acc, NEW e \in t,
         Copying(b, t, acc, e.encoded), e.encoded < acc.upTo
  PROVE  Copying(b, t, acc, e.encoded + 1)
<1> DEFINE o == e.encoded
           n == Len(acc.ranges)
           r == acc.ranges[n]
<1>1. o \in Nat /\ Spells(b, o, e.str) /\ Len(e.str) \in Nat /\ Length(e) = Len(e.str) + 1
  BY OldEntries DEF Length
<1>2. /\ acc.bytes \in Seq(Text) /\ acc.ranges \in Seq(Ranges) /\ n \in Nat /\ Len(acc.bytes) \in Nat
      /\ \A i \in 1..n : acc.ranges[i].from < o
  BY DEF Copying
<1>3. n # 0
  <2> SUFFICES ASSUME n = 0 PROVE FALSE
    OBVIOUS
  <2>1. acc.upTo = 0
    BY DEF Copying, LastCopy
  <2> QED BY <1>1, <2>1
<1>4. PICK d \in t : LET to == d.encoded + r.delta IN
         /\ r.from = d.encoded /\ acc.upTo = d.encoded + Length(d) + 1
         /\ to \in 0..d.encoded /\ to + Length(d) <= Len(acc.bytes)
         /\ \A j \in 1..Length(d) : acc.bytes[to + j] = b[d.encoded + j]
  BY <1>3 DEF Copying, LastCopy
<1>5. n \in 1..n /\ r.from < o /\ r \in Ranges
  BY <1>2, <1>3, ElementOfSeq
<1>6. r.delta \in Int /\ d.encoded \in Nat /\ Length(d) \in Nat \ {0} /\ d.encoded < o
  BY <1>4, <1>5, OldEntries DEF Ranges
<1>7. o < d.encoded + Length(d)
  <2>1. d.encoded + Length(d) # o
    BY <1>6 DEF Spaced
  <2>2. acc.upTo = d.encoded + Length(d) + 1
    BY <1>4
  <2>3. o < acc.upTo
    OBVIOUS
  <2> HIDE DEF o
  <2> QED BY <1>1, <1>6, <2>1, <2>2, <2>3
<1>8. o + Length(e) = d.encoded + Length(d)
  <2>1. d.encoded <= e.encoded /\ e.encoded < d.encoded + Length(d)
    BY <1>1, <1>6, <1>7
  <2> QED BY <2>1, EndsTogether
<1> DEFINE to == d.encoded + r.delta
           p == o + r.delta
<1>9. to \in Nat /\ p = to + (o - d.encoded) /\ p \in 0..o
  BY <1>1, <1>4, <1>6
<1>10. Spells(acc.bytes, to + (o - d.encoded), e.str)
  <2>1. d.encoded <= o /\ o + Len(e.str) + 1 <= d.encoded + Length(d)
    BY <1>1, <1>6, <1>8
  <2>2. b \in Seq(Text)
    BY DEF Table
  <2>3. to + Length(d) <= Len(acc.bytes) /\ \A j \in 1..Length(d) : acc.bytes[to + j] = b[d.encoded + j]
    BY <1>4
  <2> HIDE DEF to, o
  <2> QED BY <1>1, <1>2, <1>6, <1>9, <2>1, <2>2, <2>3, SpellsCopied
<1>11. Moved(acc, e)
  <2>1. \A j \in 1..n : j <= n
    BY <1>2
  <2>2. r.from <= e.encoded
    BY <1>1, <1>4, <1>6
  <2>3. Spells(acc.bytes, e.encoded + r.delta, e.str) /\ e.encoded + r.delta \in 0..e.encoded
    BY <1>9, <1>10
  <2> QED BY <1>5, <2>1, <2>2, <2>3 DEF Moved
<1>12. \A x \in t : x.encoded < o + 1 => Moved(acc, x)
  <2>1. ASSUME NEW x \in t, x.encoded < o + 1 PROVE Moved(acc, x)
    <3>1. CASE x.encoded < o
      BY <3>1 DEF Copying
    <3>2. CASE ~(x.encoded < o)
      <4>1. x.encoded = e.encoded
        BY <1>1, <2>1, <3>2, OldEntries
      <4>2. x = e
        BY <4>1, OldEntries
      <4> QED BY <1>11, <4>2
    <3> QED BY <3>1, <3>2
  <2> QED BY <2>1
<1>13. \A i \in 1..n : acc.ranges[i].from < o + 1
  <2>1. ASSUME NEW i \in 1..n PROVE acc.ranges[i].from < o + 1
    <3>1. acc.ranges[i] \in Ranges
      BY <1>2, ElementOfSeq
    <3>2. acc.ranges[i].from \in Nat /\ acc.ranges[i].from < o
      BY <1>2, <3>1 DEF Ranges
    <3> QED BY <1>1, <3>2
  <2> QED BY <2>1
<1> QED BY <1>12, <1>13 DEF Copying

\* One which does not: it is copied.
LEMMA CopyGoesOn ==
  ASSUME NEW b, Table(b), NEW t, OldTable(b, t), NEW acc, NEW e \in t,
         Copying(b, t, acc, e.encoded), ~(e.encoded < acc.upTo)
  PROVE  Copying(b, t, CopyEntry(b, acc, e), e.encoded + 1)
<1> DEFINE o == e.encoded
           n == Length(e) + 1
           k == Len(acc.ranges)
           g == Len(acc.bytes)
           Char(i) == IF i <= Len(b) THEN b[i] ELSE NUL
           new == [i \in 1..n |-> Char(o + i)]
           range == [from |-> o, delta |-> g - o]
           B == acc.bytes \o new
           R == Append(acc.ranges, range)
           c == CopyEntry(b, acc, e)
<1>1. /\ o \in Nat /\ Spells(b, o, e.str) /\ Len(e.str) \in Nat /\ Length(e) = Len(e.str) + 1
      /\ Length(e) \in Nat /\ o + Length(e) <= Len(b)
  BY OldEntries DEF Length
<1>2. b \in Seq(Text) /\ Len(b) \in Nat
  BY DEF Table
<1>3. /\ acc.bytes \in Seq(Text) /\ acc.ranges \in Seq(Ranges) /\ k \in Nat /\ g \in Nat
      /\ acc.upTo \in Nat /\ g <= acc.upTo /\ \A i \in 1..k : acc.ranges[i].from < o
  BY DEF Copying
<1>4. g <= o
  BY <1>1, <1>3
<1>5. c = [bytes |-> B, upTo |-> o + n, ranges |-> R]
  BY DEF CopyEntry
<1>6. c.bytes = B /\ c.upTo = o + n /\ c.ranges = R
  <2> HIDE DEF c, B, R, n, o
  <2> QED BY <1>5
<1> HIDE DEF c
<1>7. new \in Seq(Text) /\ Len(new) = n /\ \A j \in 1..Length(e) : new[j] = b[o + j]
  <2>1. n \in Nat /\ \A i \in 1..n : o + i \in Nat \ {0}
    BY <1>1
  <2>2. ASSUME NEW i \in 1..n PROVE Char(o + i) \in Text
    <3>1. CASE o + i <= Len(b)
      <4>1. o + i \in 1..Len(b)
        BY <1>2, <2>1, <3>1
      <4>2. b[o + i] \in Text
        BY <1>2, <4>1, ElementOfSeq
      <4> QED BY <3>1, <4>2
    <3>2. CASE ~(o + i <= Len(b))
      BY <3>2 DEF Text
    <3> QED BY <3>1, <3>2
  <2>3. \A j \in 1..Length(e) : j \in 1..n /\ o + j <= Len(b)
    BY <1>1, <1>2
  <2> HIDE DEF n, o
  <2>4. new \in Seq(Text) /\ Len(new) = n
    <3>1. new \in [1..n -> Text]
      BY <2>2
    <3> QED BY <2>1, <3>1
  <2> QED BY <2>3, <2>4
<1> HIDE DEF new
<1>8. /\ B \in Seq(Text) /\ Len(B) = g + n /\ \A i \in 1..g : B[i] = acc.bytes[i]
      /\ \A j \in 1..Length(e) : B[g + j] = b[o + j]
  <2>1. /\ B \in Seq(Text) /\ Len(B) = g + Len(new)
        /\ \A i \in 1..(g + Len(new)) : B[i] = IF i <= g THEN acc.bytes[i] ELSE new[i - g]
    BY <1>3, <1>7, ConcatProperties
  <2>2. n \in Nat /\ n = Length(e) + 1
    BY <1>1
  <2> HIDE DEF B, n, g
  <2>3. \A i \in 1..g : B[i] = acc.bytes[i]
    BY <1>3, <1>7, <2>1, <2>2
  <2>4. ASSUME NEW j \in 1..Length(e) PROVE B[g + j] = b[o + j]
    <3> DEFINE i == g + j
    <3>1. i \in 1..(g + Len(new)) /\ ~(i <= g) /\ i - g = j
      BY <1>1, <1>3, <1>7, <2>2
    <3> HIDE DEF i
    <3>2. B[i] = new[j]
      BY <2>1, <3>1
    <3> QED BY <1>7, <3>2 DEF i
  <2> QED BY <1>7, <2>1, <2>3, <2>4
<1>9. /\ range \in Ranges /\ range.from = o /\ range.delta = g - o
      /\ R \in Seq(Ranges) /\ Len(R) = k + 1 /\ R[k + 1] = range
      /\ \A i \in 1..k : R[i] = acc.ranges[i]
  <2>1. range \in Ranges /\ range.from = o /\ range.delta = g - o
    BY <1>1, <1>3 DEF Ranges
  <2> HIDE DEF range
  <2> QED BY <1>3, <2>1, AppendProperties
<1>10. o + range.delta = g
  BY <1>1, <1>3, <1>9
<1> HIDE DEF B, R, range
<1>11. Spells(B, g, e.str)
  <2>1. /\ o <= o /\ o + Len(e.str) + 1 <= o + Length(e) /\ g + Length(e) <= Len(B)
        /\ g + (o - o) = g
    BY <1>1, <1>3, <1>8
  <2>2. \A j \in 1..Length(e) : B[g + j] = b[o + j]
    BY <1>8
  <2>3. B \in Seq(Text)
    BY <1>8
  <2> HIDE DEF o, g
  <2>4. Spells(B, g + (o - o), e.str)
    BY <1>1, <1>2, <1>3, <2>1, <2>2, <2>3, SpellsCopied
  <2> QED BY <2>1, <2>4
<1>12. Moved(c, e)
  <2>1. k + 1 \in 1..Len(R) /\ \A j \in 1..Len(R) : j <= k + 1
    BY <1>3, <1>9
  <2>2. R[k + 1].from <= o /\ o + R[k + 1].delta = g /\ g \in 0..o
    BY <1>1, <1>3, <1>4, <1>9, <1>10
  <2> HIDE DEF g, k
  <2>3. /\ c.ranges[k + 1].from <= e.encoded /\ e.encoded + c.ranges[k + 1].delta \in 0..e.encoded
        /\ Spells(c.bytes, e.encoded + c.ranges[k + 1].delta, e.str)
    BY <1>6, <1>11, <2>2
  <2> QED BY <1>6, <2>1, <2>3 DEF Moved
<1>13. ASSUME NEW x \in t, x.encoded < o PROVE Moved(c, x)
  <2>1. PICK i \in 1..k :
          /\ acc.ranges[i].from <= x.encoded
          /\ \A j \in 1..k : acc.ranges[j].from <= x.encoded => j <= i
          /\ x.encoded + acc.ranges[i].delta \in 0..x.encoded
          /\ Spells(acc.bytes, x.encoded + acc.ranges[i].delta, x.str)
    BY <1>13 DEF Copying, Moved
  <2>2. x.encoded \in Nat
    BY OldEntries
  <2>3. i \in 1..Len(R) /\ R[i] = acc.ranges[i]
    BY <1>3, <1>9
  <2>4. ASSUME NEW j \in 1..Len(R), R[j].from <= x.encoded PROVE j <= i
    <3>1. CASE j = k + 1
      BY <1>1, <1>9, <1>13, <2>2, <2>4, <3>1
    <3>2. CASE j # k + 1
      <4>1. j \in 1..k
        BY <1>3, <1>9, <3>2
      <4> QED BY <1>9, <2>1, <2>4, <4>1
    <3> QED BY <3>1, <3>2
  <2>5. Spells(B, x.encoded + R[i].delta, x.str)
    <3> DEFINE y == x.encoded + R[i].delta
    <3>1. y \in Nat /\ Spells(acc.bytes, y, x.str)
      BY <2>1, <2>3
    <3> HIDE DEF y
    <3>2. Spells(acc.bytes \o new, y, x.str)
      BY <1>3, <1>7, <3>1, SpellsOn
    <3> QED BY <3>2 DEF y, B
  <2>6. R[i].from <= x.encoded /\ x.encoded + R[i].delta \in 0..x.encoded
    BY <2>1, <2>3
  <2> QED BY <1>6, <2>3, <2>4, <2>5, <2>6 DEF Moved
<1>14. \A x \in t : x.encoded < o + 1 => Moved(c, x)
  <2>1. ASSUME NEW x \in t, x.encoded < o + 1, ~(x.encoded < o) PROVE x = e
    <3>1. x.encoded = e.encoded
      BY <1>1, <2>1, OldEntries
    <3> QED BY <3>1, OldEntries
  <2> QED BY <1>12, <1>13, <2>1
<1>15. LastCopy(b, t, c)
  <2>1. Len(c.ranges) = k + 1 /\ c.ranges[k + 1] = range /\ k + 1 # 0
    BY <1>3, <1>6, <1>9
  <2>2. c.upTo = e.encoded + Length(e) + 1
    BY <1>1, <1>6
  <2>3. e.encoded + range.delta = g /\ g \in 0..e.encoded /\ g + Length(e) <= Len(c.bytes)
    BY <1>1, <1>3, <1>4, <1>6, <1>8, <1>10
  <2>4. \A j \in 1..Length(e) : c.bytes[g + j] = b[e.encoded + j]
    BY <1>6, <1>8
  <2>5. range.from = e.encoded
    BY <1>9
  <2> HIDE DEF g, k, o, n
  <2>6. /\ range.from = e.encoded /\ c.upTo = e.encoded + Length(e) + 1
        /\ e.encoded + range.delta \in 0..e.encoded /\ e.encoded + range.delta + Length(e) <= Len(c.bytes)
        /\ \A j \in 1..Length(e) : c.bytes[e.encoded + range.delta + j] = b[e.encoded + j]
    BY <2>2, <2>3, <2>4, <2>5
  <2> QED BY <2>1, <2>6 DEF LastCopy
<1>16. c.upTo \in Nat /\ Len(c.bytes) <= c.upTo
  <2>1. n \in Nat
    BY <1>1
  <2>2. o \in Nat /\ g \in Nat /\ g <= o
    BY <1>1, <1>3, <1>4
  <2> HIDE DEF g, n, o
  <2>3. o + n \in Nat /\ g + n <= o + n
    BY <2>1, <2>2
  <2> QED BY <1>6, <1>8, <2>3
<1>17. \A i \in 1..Len(c.ranges) : c.ranges[i].from < o + 1
  <2>1. ASSUME NEW i \in 1..(k + 1) PROVE R[i].from < o + 1
    <3>1. CASE i = k + 1
      BY <1>1, <1>9, <3>1
    <3>2. CASE i # k + 1
      <4>1. i \in 1..k
        BY <1>3, <3>2
      <4>2. acc.ranges[i] \in Ranges
        BY <1>3, <4>1, ElementOfSeq
      <4>3. acc.ranges[i].from \in Nat /\ acc.ranges[i].from < o
        BY <1>3, <4>1, <4>2 DEF Ranges
      <4> QED BY <1>1, <1>9, <4>1, <4>3
    <3> QED BY <3>1, <3>2
  <2> QED BY <1>6, <1>9, <2>1
<1>18. c.bytes \in Seq(Text) /\ c.ranges \in Seq(Ranges)
  BY <1>6, <1>8, <1>9
<1>19. Copying(b, t, c, o + 1)
  BY <1>14, <1>15, <1>16, <1>17, <1>18 DEF Copying
<1> QED BY <1>19 DEF c

\* One step of the loop, at any offset.
Next1(b, t, acc, o) ==
  LET at == {e \in t : e.encoded = o} IN
  IF at = {} THEN acc ELSE CopyEntry(b, acc, Longest(at))
LEMMA CopyStep ==
  ASSUME NEW b, Table(b), NEW t, OldTable(b, t), Spaced(t), NEW acc, NEW o \in Nat,
         Copying(b, t, acc, o)
  PROVE  Copying(b, t, Next1(b, t, acc, o), o + 1)
<1> DEFINE at == {e \in t : e.encoded = o}
<1>1. CASE at = {}
  <2>1. Next1(b, t, acc, o) = acc
    BY <1>1 DEF Next1
  <2>2. \A e \in t : e.encoded # o
    BY <1>1
  <2> QED BY <2>1, <2>2, CopyNone
<1>2. CASE at # {}
  <2>1. PICK e \in t : e.encoded = o
    BY <1>2
  <2>2. at = {e}
    BY <2>1, OldEntries
  <2>3. Longest(at) = e
    <3>1. Length(e) \in Nat
      BY OldEntries
    <3>2. \A d \in {e} : Length(d) <= Length(e)
      BY <3>1
    <3> QED BY <2>2, <3>2 DEF Longest
  <2>4. Next1(b, t, acc, o) = CopyEntry(b, acc, e)
    BY <1>2, <2>3 DEF Next1
  <2>5. Copying(b, t, acc, e.encoded)
    BY <2>1
  <2>6. CASE e.encoded < acc.upTo
    <3>1. CopyEntry(b, acc, e) = acc
      BY <2>6 DEF CopyEntry
    <3> QED BY <2>1, <2>4, <2>5, <2>6, <3>1, CopySkips
  <2>7. CASE ~(e.encoded < acc.upTo)
    BY <2>1, <2>4, <2>5, <2>7, CopyGoesOn
  <2> QED BY <2>6, <2>7
<1> QED BY <1>1, <1>2

\* The loop has done with all entries.
LEMMA CompactedDone ==
  ASSUME NEW b, Table(b), NEW t, OldTable(b, t), Spaced(t)
  PROVE  Copying(b, t, Compacted(b, t), Len(b))
<1> DEFINE N == Len(b)
           Def(f, n) == f = [o \in 0..n |-> IF o = 0 THEN Nothing ELSE Next1(b, t, f[o - 1], o - 1)]
           F == CHOOSE f : Def(f, N)
<1>1. N \in Nat
  BY DEF Table
<1>2. Compacted(b, t) = F[N]
  BY DEF Compacted, Next1, Nothing
<1>3. \E f : Def(f, N)
  <2> DEFINE S == {n \in 0..N : \E f : Def(f, n)}
  <2>1. 0 \in S
    <3> DEFINE f == [o \in 0..0 |-> Nothing]
    <3>1. \A o \in 0..0 : f[o] = IF o = 0 THEN Nothing ELSE Next1(b, t, f[o - 1], o - 1)
      OBVIOUS
    <3>2. f = [o \in 0..0 |-> f[o]]
      OBVIOUS
    <3> HIDE DEF f
    <3>3. Def(f, 0)
      BY <3>1, <3>2, Zenon
    <3> QED BY <1>1, <3>3
  <2>2. ASSUME NEW n \in 0..(N - 1), n \in S PROVE n + 1 \in S
    <3>1. PICK f : Def(f, n)
      BY <2>2
    <3> DEFINE g == [o \in 0..(n + 1) |-> IF o <= n THEN f[o] ELSE Next1(b, t, f[n], n)]
    <3>2. \A o \in 0..n : f[o] = IF o = 0 THEN Nothing ELSE Next1(b, t, f[o - 1], o - 1)
      <4> DEFINE V(o) == IF o = 0 THEN Nothing ELSE Next1(b, t, f[o - 1], o - 1)
      <4>1. f = [o \in 0..n |-> V(o)]
        BY <3>1, Zenon
      <4> HIDE DEF V, Def
      <4>2. \A o \in 0..n : f[o] = V(o)
        BY <4>1, Zenon
      <4> QED BY <4>2 DEF V
    <3>3. \A o \in 0..n : g[o] = f[o]
      OBVIOUS
    <3>4. g[n + 1] = Next1(b, t, f[n], n)
      OBVIOUS
    <3>5. g = [o \in 0..(n + 1) |-> g[o]]
      OBVIOUS
    <3> HIDE DEF g, Def
    <3>6. ASSUME NEW o \in 0..(n + 1)
          PROVE  g[o] = IF o = 0 THEN Nothing ELSE Next1(b, t, g[o - 1], o - 1)
      <4>1. CASE o = n + 1
        <5>1. o - 1 = n /\ o # 0 /\ n \in 0..n
          BY <4>1
        <5>2. g[n] = f[n]
          BY <3>3, <5>1
        <5>3. g[o] = Next1(b, t, f[n], n)
          BY <3>4, <4>1
        <5> QED BY <5>1, <5>2, <5>3
      <4>2. CASE o # n + 1
        <5>1. o \in 0..n
          BY <4>2
        <5>2. g[o] = f[o] /\ f[o] = IF o = 0 THEN Nothing ELSE Next1(b, t, f[o - 1], o - 1)
          BY <3>2, <3>3, <5>1
        <5>3. CASE o = 0
          BY <5>2, <5>3
        <5>4. CASE o # 0
          <6>1. o - 1 \in 0..n
            BY <5>1, <5>4
          <6>2. g[o - 1] = f[o - 1]
            BY <3>3, <6>1
          <6> QED BY <5>2, <5>4, <6>2
        <5> QED BY <5>3, <5>4
      <4> QED BY <4>1, <4>2
    <3>7. Def(g, n + 1)
      BY <3>5, <3>6, Zenon DEF Def
    <3>8. n + 1 \in 0..N
      BY <1>1
    <3> QED BY <3>7, <3>8
  <2>3. S \in SUBSET (0..N)
    OBVIOUS
  <2> HIDE DEF S
  <2>4. S = 0..N
    BY <1>1, <2>1, <2>2, <2>3, Upwards
  <2>5. N \in S
    BY <1>1, <2>4
  <2> QED BY <2>5 DEF S
<1>4. Def(F, N)
  <2> HIDE DEF Def
  <2> QED BY <1>3
<1> HIDE DEF F
<1>5. \A o \in 0..N : F[o] = IF o = 0 THEN Nothing ELSE Next1(b, t, F[o - 1], o - 1)
  <2> DEFINE V(o) == IF o = 0 THEN Nothing ELSE Next1(b, t, F[o - 1], o - 1)
  <2>1. F = [o \in 0..N |-> V(o)]
    BY <1>4, Zenon
  <2> HIDE DEF V, Def, N
  <2>2. \A o \in 0..N : F[o] = V(o)
    BY <2>1, Zenon
  <2> QED BY <2>2 DEF V
<1> HIDE DEF Def
<1> DEFINE T == {o \in 0..N : Copying(b, t, F[o], o)}
<1>6. 0 \in T
  <2>1. 0 \in 0..N /\ F[0] = Nothing
    BY <1>1, <1>5
  <2> QED BY <2>1, CopyNothing
<1>7. ASSUME NEW o \in 0..(N - 1), o \in T PROVE o + 1 \in T
  <2>1. o \in Nat /\ o + 1 \in 0..N /\ o + 1 # 0 /\ o + 1 - 1 = o
    BY <1>1
  <2>2. F[o + 1] = Next1(b, t, F[o], o)
    <3> DEFINE p == o + 1
    <3> HIDE DEF p
    <3>1. p \in 0..N /\ p # 0 /\ p - 1 = o
      BY <2>1 DEF p
    <3>2. F[p] = Next1(b, t, F[p - 1], p - 1)
      BY <1>5, <3>1
    <3> QED BY <3>1, <3>2 DEF p
  <2>3. Copying(b, t, F[o], o)
    BY <1>7
  <2>4. Copying(b, t, Next1(b, t, F[o], o), o + 1)
    BY <2>1, <2>3, CopyStep
  <2> QED BY <2>1, <2>2, <2>4
<1>8. T \in SUBSET (0..N)
  OBVIOUS
<1> HIDE DEF T, N
<1>9. T = 0..N
  BY <1>1, <1>6, <1>7, <1>8, Upwards
<1>10. N \in T
  BY <1>1, <1>9
<1> QED BY <1>2, <1>10 DEF T, N

\* Every string is where its offset is mapped to.
LEMMA CompactedIs ==
  ASSUME NEW b, Table(b), Len(b) <= RefWidth, NEW t, OldTable(b, t), Spaced(t)
  PROVE  LET c == Compacted(b, t) IN
         /\ c.bytes \in Seq(Text)
         /\ \A e \in t : LET o == Remap(c.ranges, e.encoded) IN o \in Nat /\ Spells(c.bytes, o, e.str)
<1> DEFINE c == Compacted(b, t)
<1>1. Copying(b, t, c, Len(b))
  BY CompactedDone
<1> HIDE DEF c
<1>2. ASSUME NEW e \in t
      PROVE  Remap(c.ranges, e.encoded) \in Nat /\ Spells(c.bytes, Remap(c.ranges, e.encoded), e.str)
  <2> DEFINE rs == c.ranges
             x == e.encoded
             before == {i \in DOMAIN rs : rs[i].from <= x}
             j == CHOOSE k \in before : \A l \in before : l <= k
  <2>1. x \in Nat /\ x < Len(b) /\ Len(b) \in Nat
    BY OldEntries DEF Table
  <2>2. Moved(c, e)
    BY <1>1, <2>1 DEF Copying
  <2>3. PICK i \in 1..Len(rs) :
          /\ rs[i].from <= x /\ \A k \in 1..Len(rs) : rs[k].from <= x => k <= i
          /\ x + rs[i].delta \in 0..x /\ Spells(c.bytes, x + rs[i].delta, e.str)
    BY <2>2 DEF Moved
  <2>4. rs \in Seq(Ranges) /\ Len(rs) \in Nat /\ DOMAIN rs = 1..Len(rs)
    BY <1>1 DEF Copying
  <2>5. i \in before /\ \A k \in before : k <= i /\ k \in Nat
    BY <2>3, <2>4
  <2> HIDE DEF before, rs, x
  <2>6. j = i
    <3>1. j \in before /\ \A l \in before : l <= j
      BY <2>5
    <3> HIDE DEF j
    <3>2. i <= j /\ j <= i /\ i \in Nat /\ j \in Nat
      BY <2>5, <3>1
    <3> QED BY <3>2
  <2>7. Remap(rs, x) = (x + rs[j].delta) % RefWidth
    BY <2>5 DEF Remap, before
  <2> HIDE DEF j
  <2>8. x + rs[i].delta \in 0..(RefWidth - 1)
    <3> DEFINE y == x + rs[i].delta
    <3>1. y \in 0..x
      BY <2>3
    <3>2. RefWidth \in Nat /\ Len(b) <= RefWidth
      BY DynstrAssumption
    <3> HIDE DEF y
    <3>3. y \in 0..(RefWidth - 1)
      BY <2>1, <3>1, <3>2
    <3> QED BY <3>3 DEF y
  <2>9. Remap(rs, x) = x + rs[i].delta
    <3> DEFINE y == x + rs[i].delta
    <3> HIDE DEF y
    <3>1. y \in 0..(RefWidth - 1) /\ RefWidth \in Nat \ {0}
      BY <2>8, DynstrAssumption DEF y
    <3>2. y % RefWidth = y
      BY <3>1
    <3> QED BY <2>6, <2>7, <3>2 DEF y
  <2>10. Remap(rs, x) \in Nat /\ Spells(c.bytes, Remap(rs, x), e.str)
    BY <2>3, <2>9, <2>1
  <2> QED BY <2>10 DEF rs, x
<1> QED BY <1>1, <1>2 DEF Copying, c

-----------------------------------------------------------------------------
(* A new table.                                                             *)

FilesSound == \A fl \in Originals : Sound(fl)

\* What is known of a file.
LEMMA FileIs ==
  ASSUME FilesSound, NEW fl \in Originals
  PROVE  /\ Table(fl.bytes) /\ Len(fl.bytes) <= RefWidth
         /\ fl.refs \in [Holders -> Nat \cup {None}]
         /\ \A h \in Holders : fl.refs[h] \in Nat /\ fl.refs[h] # None /\ fl.refs[h] < Len(fl.bytes)
         /\ OldTable(fl.bytes, BuildTable(fl.bytes, fl.refs))
<1>1. /\ fl.bytes \in Seq(Text) /\ fl.refs \in [Holders -> Nat]
  BY DynstrAssumption DEF OriginalRecord, Text
<1>2. Ends(fl)
  BY DEF FilesSound, Sound
<1>3. Table(fl.bytes) /\ Len(fl.bytes) <= RefWidth
  BY <1>1, <1>2, DynstrAssumption DEF Ends, Table
<1>4. \A h \in Holders : fl.refs[h] \in Nat /\ fl.refs[h] # None /\ fl.refs[h] < Len(fl.bytes)
  BY <1>1, <1>2, DynstrAssumption DEF Ends
<1>5. fl.refs \in [Holders -> Nat \cup {None}]
  BY <1>1
<1>6. OldTable(fl.bytes, BuildTable(fl.bytes, fl.refs))
  BY <1>3, <1>4, <1>5, BuildTableIs
<1> QED BY <1>3, <1>4, <1>5, <1>6

\* The table t of known strings fits the file fl and the references rs to it.  It
\* is that of the references in the file, where none can be removed.
Fits(fl, t, rs) ==
  /\ OldTable(fl.bytes, t) /\ \A h \in Holders : rs[h] # None => rs[h] < Len(fl.bytes)
  /\ fl.removable = {} => /\ t = BuildTable(fl.bytes, fl.refs)
                          /\ \A h \in Holders : rs[h] = fl.refs[h] \/ \E e \in t : e.encoded = rs[h]
\* They are to the strings w.
Refers(fl, rs, w) == \A h \in Holders :
  w[h] = IF rs[h] = None THEN None ELSE StringAt(fl.bytes, rs[h])
\* In the new table A, entries t and references rs are to the strings they should be.
Holding(A, t, rs, w) ==
  /\ A \in Seq(Text) /\ rs \in [Holders -> Nat \cup {None}] /\ DOMAIN w = Holders
  /\ \A e \in t : e.encoded \in Nat /\ Spells(A, e.encoded, e.str)
  /\ \A h \in Holders : IF rs[h] = None THEN w[h] = None ELSE Spells(A, rs[h], w[h])

\* The original table holds them.
LEMMA HoldingOld ==
  ASSUME FilesSound, NEW fl \in Originals, NEW t, NEW rs \in [Holders -> Nat \cup {None}],
         NEW w, DOMAIN w = Holders, Fits(fl, t, rs), Refers(fl, rs, w)
  PROVE  Holding(fl.bytes, t, rs, w)
<1>1. Table(fl.bytes) /\ fl.bytes \in Seq(Text)
  BY FileIs DEF Table
<1>2. \A e \in t : e.encoded \in Nat /\ Spells(fl.bytes, e.encoded, e.str)
  BY DEF Fits, OldTable
<1>3. ASSUME NEW h \in Holders, rs[h] # None PROVE Spells(fl.bytes, rs[h], w[h])
  <2>1. rs[h] \in Nat /\ rs[h] < Len(fl.bytes)
    BY <1>3 DEF Fits
  <2>2. w[h] = StringAt(fl.bytes, rs[h])
    BY <1>3 DEF Refers
  <2> QED BY <1>1, <2>1, <2>2, StringInside
<1>4. \A h \in Holders : rs[h] = None => w[h] = None
  BY DEF Refers
<1> QED BY <1>1, <1>2, <1>3, <1>4 DEF Holding

\* erw_dynstr_start_building_new: the new table holds what is known and referred to.
LEMMA BuildHolds ==
  ASSUME FilesSound, original \in Originals, NEW t, NEW rs \in [Holders -> Nat \cup {None}],
         NEW w, DOMAIN w = Holders, Fits(original, t, rs), Refers(original, rs, w)
  PROVE  LET b == StartBuildingNew(t, rs) IN Holding(b.toAdd, b.table, b.refs, w)
<1> DEFINE b == StartBuildingNew(t, rs)
           B == original.bytes
<1>1. /\ Table(B) /\ B \in Seq(Text) /\ Len(B) \in Nat \ {0} /\ Len(B) <= RefWidth /\ B[Len(B)] = NUL
      /\ OldTable(B, t) /\ Holding(B, t, rs, w)
  BY FileIs, HoldingOld DEF Table, Fits
<1>2. CASE t = {}
  <2>1. b = [toAdd |-> <<NUL>>, table |-> t, refs |-> rs]
    BY <1>2 DEF StartBuildingNew
  <2>2. Len(B) = 1
    <3> HIDE DEF b, B
    <3>1. Table(B) /\ OldTable(B, t)
      BY <1>1
    <3>2. (t # {}) <=> (Len(B) > 1)
      BY <3>1, OldEntries, ZenonT(30)
    <3>3. Len(B) \in Nat /\ Len(B) # 0 /\ t = {}
      BY <1>1, <1>2
    <3>4. ~(Len(B) > 1)
      BY <3>2, <3>3
    <3> DEFINE n == Len(B)
    <3>5. n \in Nat /\ n # 0 /\ ~(n > 1)
      BY <3>3, <3>4
    <3> HIDE DEF n
    <3>6. n = 1
      BY <3>5
    <3> QED BY <3>6 DEF n
  <2>3. B = <<NUL>>
    <3>1. <<NUL>> \in Seq(Text) /\ Len(<<NUL>>) = 1 /\ <<NUL>>[1] = NUL
      BY DEF Text
    <3> HIDE DEF B
    <3>2. \A i \in 1..Len(B) : B[i] = <<NUL>>[i]
      BY <1>1, <2>2, <3>1
    <3> QED BY <1>1, <2>2, <3>1, <3>2, SeqEqual
  <2>4. b.toAdd = B /\ b.table = t /\ b.refs = rs
    BY <2>1, <2>3
  <2> QED BY <1>1, <2>4
<1>3. CASE t # {} /\ Dense(t)
  <2>1. b = [toAdd |-> SubSeq(B, 1, MaxOffset(t)), table |-> t, refs |-> rs]
    BY <1>3 DEF StartBuildingNew
  <2>2. SubSeq(B, 1, MaxOffset(t)) = B
    BY <1>1, <1>3, MaxOffsetIs, SubSeqFull
  <2>3. b.toAdd = B /\ b.table = t /\ b.refs = rs
    BY <2>1, <2>2
  <2> QED BY <1>1, <2>3
<1>4. CASE t # {} /\ ~Dense(t)
  <2> DEFINE c == Compacted(B, t)
             moved(o) == IF o = None THEN None ELSE Remap(c.ranges, o)
             T == {[e EXCEPT !.encoded = moved(@)] : e \in t}
             R == [h \in Holders |-> moved(rs[h])]
  <2>1. b = [toAdd |-> c.bytes, table |-> T, refs |-> R]
    BY <1>4 DEF StartBuildingNew
  <2>2. b.toAdd = c.bytes /\ b.table = T /\ b.refs = R
    <3> HIDE DEF b, c, T, R
    <3> QED BY <2>1
  <2>3. ~Small(original) /\ Sound(original)
    <3>1. MaxOffset(t) = Len(B)
      BY <1>1, <1>4, MaxOffsetIs
    <3> QED BY <1>4, <3>1 DEF Dense, Small, FilesSound
  <2>4. original.removable = {} /\ (KeptWhole(original) \/ Apart(original))
    BY <2>3 DEF Sound
  <2>5. t = BuildTable(B, original.refs)
    BY <2>4 DEF Fits
  <2>6. Apart(original)
    BY <1>4, <2>4, <2>5 DEF KeptWhole
  <2>7. Spaced(t) /\ \A h \in Holders : original.refs[h] # 0
    BY <2>5, <2>6 DEF Apart, Spaced
  <2>8. \A h \in Holders : rs[h] # None => \E e \in t : e.encoded = rs[h]
    <3>1. ASSUME NEW h \in Holders PROVE \E e \in t : e.encoded = original.refs[h]
      <4>1. /\ original.refs \in [Holders -> Nat \cup {None}]
            /\ \A i \in Holders : original.refs[i] # None => original.refs[i] < Len(B)
        BY FileIs
      <4>2. original.refs[h] \notin {None, 0}
        BY FileIs, <2>7
      <4> QED BY <1>1, <2>5, <4>1, <4>2, BuildTableIs
    <3>2. \A h \in Holders : rs[h] = original.refs[h] \/ \E e \in t : e.encoded = rs[h]
      BY <2>4 DEF Fits
    <3> QED BY <3>1, <3>2
  <2>9. /\ c.bytes \in Seq(Text)
        /\ \A e \in t : /\ Remap(c.ranges, e.encoded) \in Nat
                        /\ Spells(c.bytes, Remap(c.ranges, e.encoded), e.str)
    BY <1>1, <2>7, CompactedIs
  <2>10. \A e \in t : e.encoded \in Nat /\ e.encoded # None /\ e = Entry(e.encoded, e.str)
                      /\ Spells(B, e.encoded, e.str)
    BY <1>1, DynstrAssumption DEF OldTable
  <2> HIDE DEF c
  <2>11. ASSUME NEW x \in T PROVE x.encoded \in Nat /\ Spells(c.bytes, x.encoded, x.str)
    <3>1. PICK e \in t : x = [e EXCEPT !.encoded = moved(@)]
      OBVIOUS
    <3>2. moved(e.encoded) = Remap(c.ranges, e.encoded)
      BY <2>10
    <3>3. x.encoded = Remap(c.ranges, e.encoded) /\ x.str = e.str
      <4>1. e = [encoded |-> e.encoded, str |-> e.str]
        BY <2>10 DEF Entry
      <4> HIDE DEF moved
      <4>2. x = [encoded |-> moved(e.encoded), str |-> e.str]
        BY <3>1, <4>1
      <4> QED BY <3>2, <4>2
    <3> QED BY <2>9, <3>3
  <2>12. ASSUME NEW h \in Holders
         PROVE  /\ R[h] \in Nat \cup {None}
                /\ IF R[h] = None THEN w[h] = None ELSE Spells(c.bytes, R[h], w[h])
    <3>1. CASE rs[h] = None
      BY <3>1 DEF Refers
    <3>2. CASE rs[h] # None
      <4>1. PICK e \in t : e.encoded = rs[h]
        BY <2>8, <3>2
      <4>2. R[h] = Remap(c.ranges, e.encoded) /\ R[h] \in Nat /\ R[h] # None
        BY <2>9, <3>2, <4>1, DynstrAssumption
      <4>3. w[h] = StringAt(B, e.encoded)
        BY <3>2, <4>1 DEF Refers
      <4>4. e.str = StringAt(B, e.encoded)
        BY <1>1, <2>10, StringIs
      <4> HIDE DEF R
      <4> QED BY <2>9, <4>2, <4>3, <4>4
    <3> QED BY <3>1, <3>2
  <2>13. R \in [Holders -> Nat \cup {None}]
    BY <2>12
  <2> HIDE DEF T, R, b
  <2>14. Holding(c.bytes, T, R, w)
    BY <2>9, <2>11, <2>12, <2>13 DEF Holding
  <2> QED BY <2>2, <2>14 DEF b
<1> QED BY <1>2, <1>3, <1>4

\* A string is added to it.
LEMMA HoldingAdded ==
  ASSUME NEW A, NEW t, NEW rs, NEW w, Holding(A, t, rs, w), NEW h \in Holders, NEW s \in Seq(Chars)
  PROVE  Holding(A \o Append(s, NUL), t \cup {Entry(Len(A), s)},
                 [rs EXCEPT ![h] = Len(A)], [w EXCEPT ![h] = s])
<1> DEFINE D == A \o Append(s, NUL)
           n == Len(A)
           R == [rs EXCEPT ![h] = n]
           W == [w EXCEPT ![h] = s]
<1>1. A \in Seq(Text) /\ rs \in [Holders -> Nat \cup {None}] /\ DOMAIN w = Holders /\ n \in Nat
  BY DEF Holding
<1>2. D \in Seq(Text) /\ Spells(D, n, s)
  BY <1>1, SpellsAdded
<1>3. Append(s, NUL) \in Seq(Text)
  <2>1. s \in Seq(Text) /\ NUL \in Text
    BY SeqMonotonic DEF Text
  <2> QED BY <2>1
<1>4. \A o \in Nat : \A x : Spells(A, o, x) => Spells(D, o, x)
  BY <1>1, <1>3, SpellsOn
<1> HIDE DEF D, n
<1>5. Entry(n, s).encoded = n /\ Entry(n, s).str = s
  BY DEF Entry
<1>6. \A e \in t \cup {Entry(n, s)} : e.encoded \in Nat /\ Spells(D, e.encoded, e.str)
  <2>1. \A e \in t : e.encoded \in Nat /\ Spells(A, e.encoded, e.str)
    BY DEF Holding
  <2> QED BY <1>1, <1>2, <1>4, <1>5, <2>1
<1>7. R \in [Holders -> Nat \cup {None}] /\ DOMAIN W = Holders
  BY <1>1
<1>8. R[h] = n /\ W[h] = s /\ \A i \in Holders \ {h} : R[i] = rs[i] /\ W[i] = w[i]
  BY <1>1
<1> HIDE DEF R, W
<1>9. ASSUME NEW i \in Holders PROVE IF R[i] = None THEN W[i] = None ELSE Spells(D, R[i], W[i])
  <2>1. CASE i = h
    BY <1>1, <1>2, <1>8, <2>1, DynstrAssumption
  <2>2. CASE i # h
    <3>1. IF rs[i] = None THEN w[i] = None ELSE Spells(A, rs[i], w[i])
      BY DEF Holding
    <3>2. rs[i] # None => rs[i] \in Nat
      BY <1>1
    <3> QED BY <1>4, <1>8, <2>2, <3>1, <3>2
  <2> QED BY <2>1, <2>2
<1>10. Holding(D, t \cup {Entry(n, s)}, R, W)
  BY <1>2, <1>6, <1>7, <1>9 DEF Holding
<1> QED BY <1>10 DEF D, n, R, W

-----------------------------------------------------------------------------
(* The editor.                                                              *)

Typed ==
  /\ original \in Originals /\ toAdd \in Seq(Text)
  /\ refs \in [Holders -> Nat \cup {None}] /\ DOMAIN wanted = Holders
  /\ state \in {"read_only", "from_existing", "building_new"}
  /\ modified \in BOOLEAN /\ (modified <=> state = "building_new")
\* Before a new table is begun, and from then on.
Reading == state = "read_only" =>
  table = {} /\ (original.removable = {} => refs = original.refs)
Before == state # "building_new" => Fits(original, Known, refs) /\ Refers(original, refs, wanted)
Building == state = "building_new" => Holding(toAdd, table, refs, wanted)
IInv == Typed /\ Reading /\ Before /\ Building

\* Removing a reference disturbs no other.
LEMMA RemovedFits ==
  ASSUME NEW fl, NEW t, NEW rs \in [Holders -> Nat \cup {None}], NEW w, DOMAIN w = Holders,
         NEW h \in Holders, fl.removable # {}, Refers(fl, rs, w), Fits(fl, t, rs)
  PROVE  LET R == [rs EXCEPT ![h] = None] IN
         Fits(fl, t, R) /\ Refers(fl, R, [w EXCEPT ![h] = None])
<1> DEFINE R == [rs EXCEPT ![h] = None]
           W == [w EXCEPT ![h] = None]
<1>1. R[h] = None /\ W[h] = None /\ \A i \in Holders \ {h} : R[i] = rs[i] /\ W[i] = w[i]
  OBVIOUS
<1> HIDE DEF R, W
<1>2. Fits(fl, t, R)
  BY <1>1 DEF Fits
<1>3. Refers(fl, R, W)
  BY <1>1 DEF Refers
<1> QED BY <1>2, <1>3 DEF R, W

LEMMA RemovedHolding ==
  ASSUME NEW A, NEW t, NEW rs, NEW w, Holding(A, t, rs, w), NEW h \in Holders
  PROVE  Holding(A, t, [rs EXCEPT ![h] = None], [w EXCEPT ![h] = None])
<1> DEFINE R == [rs EXCEPT ![h] = None]
           W == [w EXCEPT ![h] = None]
<1>1. rs \in [Holders -> Nat \cup {None}] /\ DOMAIN w = Holders
  BY DEF Holding
<1>2. R[h] = None /\ W[h] = None /\ \A i \in Holders \ {h} : R[i] = rs[i] /\ W[i] = w[i]
  BY <1>1
<1>3. R \in [Holders -> Nat \cup {None}] /\ DOMAIN W = Holders
  BY <1>1
<1> HIDE DEF R, W
<1>4. Holding(A, t, R, W)
  BY <1>2, <1>3 DEF Holding
<1> QED BY <1>4 DEF R, W

\* A reference to a known string keeps the others.
LEMMA StoredFits ==
  ASSUME NEW fl, NEW t, NEW rs \in [Holders -> Nat \cup {None}], NEW w, DOMAIN w = Holders,
         NEW h \in Holders, NEW e \in t, e.encoded < Len(fl.bytes), e.encoded # None,
         Refers(fl, rs, w), Fits(fl, t, rs)
  PROVE  LET R == [rs EXCEPT ![h] = e.encoded] IN
         Fits(fl, t, R) /\ Refers(fl, R, [w EXCEPT ![h] = StringAt(fl.bytes, e.encoded)])
<1> DEFINE R == [rs EXCEPT ![h] = e.encoded]
           W == [w EXCEPT ![h] = StringAt(fl.bytes, e.encoded)]
<1>1. /\ R[h] = e.encoded /\ W[h] = StringAt(fl.bytes, e.encoded)
      /\ \A i \in Holders \ {h} : R[i] = rs[i] /\ W[i] = w[i]
  OBVIOUS
<1> HIDE DEF R, W
<1>2. Fits(fl, t, R)
  BY <1>1 DEF Fits
<1>3. Refers(fl, R, W)
  BY <1>1 DEF Refers
<1> QED BY <1>2, <1>3 DEF R, W

LEMMA StoredHolding ==
  ASSUME NEW A, NEW t, NEW rs, NEW w, Holding(A, t, rs, w), NEW h \in Holders, NEW e \in t
  PROVE  Holding(A, t, [rs EXCEPT ![h] = e.encoded], [w EXCEPT ![h] = e.str])
<1> DEFINE R == [rs EXCEPT ![h] = e.encoded]
           W == [w EXCEPT ![h] = e.str]
<1>1. rs \in [Holders -> Nat \cup {None}] /\ DOMAIN w = Holders /\ e.encoded \in Nat
      /\ e.encoded # None /\ Spells(A, e.encoded, e.str)
  BY DynstrAssumption DEF Holding
<1>2. R[h] = e.encoded /\ W[h] = e.str /\ \A i \in Holders \ {h} : R[i] = rs[i] /\ W[i] = w[i]
  BY <1>1
<1>3. R \in [Holders -> Nat \cup {None}] /\ DOMAIN W = Holders
  BY <1>1
<1> HIDE DEF R, W
<1>4. ASSUME NEW i \in Holders PROVE IF R[i] = None THEN W[i] = None ELSE Spells(A, R[i], W[i])
  BY <1>1, <1>2 DEF Holding
<1>5. Holding(A, t, R, W)
  BY <1>3, <1>4 DEF Holding
<1> QED BY <1>5 DEF R, W

\* The references which are loaded from the file.
LEMMA LoadedRefers ==
  ASSUME FilesSound, NEW fl \in Originals
  PROVE  LET W == [h \in Holders |-> StringAt(fl.bytes, fl.refs[h])] IN
         Refers(fl, fl.refs, W) /\ DOMAIN W = Holders
<1>1. \A h \in Holders : fl.refs[h] # None
  BY FileIs
<1> QED BY <1>1 DEF Refers

LEMMA LoadedFits ==
  ASSUME FilesSound, NEW fl \in Originals, NEW t, NEW rs, Fits(fl, t, rs)
  PROVE  Fits(fl, t, fl.refs)
<1>1. \A h \in Holders : fl.refs[h] < Len(fl.bytes)
  BY FileIs
<1> QED BY <1>1 DEF Fits

LEMMA BuiltFits ==
  ASSUME FilesSound, NEW fl \in Originals
  PROVE  Fits(fl, BuildTable(fl.bytes, fl.refs), fl.refs)
<1>1. (\A h \in Holders : fl.refs[h] < Len(fl.bytes)) /\ OldTable(fl.bytes, BuildTable(fl.bytes, fl.refs))
  BY FileIs
<1> QED BY <1>1 DEF Fits

LEMMA Start == ASSUME FilesSound, Init PROVE IInv
<1>1. original \in Originals /\ state = "read_only" /\ table = {} /\ toAdd = << >>
      /\ refs = original.refs /\ modified = FALSE
      /\ wanted = [h \in Holders |-> StringAt(original.bytes, original.refs[h])]
  BY DEF Init
<1>2. refs \in [Holders -> Nat \cup {None}]
  BY <1>1, FileIs
<1>3. Refers(original, refs, wanted) /\ DOMAIN wanted = Holders
  BY <1>1, LoadedRefers
<1>4. toAdd \in Seq(Text)
  BY <1>1
<1>5. Typed
  BY <1>1, <1>2, <1>3, <1>4 DEF Typed
<1>6. Fits(original, Known, refs)
  BY <1>1, BuiltFits DEF Known
<1> QED BY <1>1, <1>3, <1>5, <1>6 DEF IInv, Reading, Before, Building

LEMMA KeepsRemoveRef ==
  ASSUME FilesSound, IInv, NEW h \in Holders, RemoveRef(h) PROVE IInv'
<1> DEFINE R == [refs EXCEPT ![h] = None]
           W == [wanted EXCEPT ![h] = None]
<1>1. /\ refs' = R /\ wanted' = W /\ h \in original.removable
      /\ UNCHANGED <<original, state, table, toAdd, modified>>
  BY DEF RemoveRef
<1>2. /\ original \in Originals /\ toAdd \in Seq(Text)
      /\ refs \in [Holders -> Nat \cup {None}] /\ DOMAIN wanted = Holders
      /\ state \in {"read_only", "from_existing", "building_new"}
      /\ modified \in BOOLEAN /\ (modified <=> state = "building_new")
  BY DEF IInv, Typed
<1>3. R \in [Holders -> Nat \cup {None}] /\ DOMAIN W = Holders
  BY <1>2
<1>4. original.removable # {}
  BY <1>1
<1>5. Typed'
  <2> HIDE DEF R, W
  <2> QED BY <1>1, <1>2, <1>3 DEF Typed
<1>6. Reading'
  BY <1>1, <1>4 DEF IInv, Reading
<1>7. ASSUME state # "building_new"
      PROVE  Fits(original, Known, R) /\ Refers(original, R, W)
  BY <1>2, <1>4, <1>7, RemovedFits DEF IInv, Before
<1>8. ASSUME state = "read_only" PROVE Fits(original, BuildTable(original.bytes, R), R)
  <2>1. Table(original.bytes) /\ \A i \in Holders : R[i] # None => R[i] < Len(original.bytes)
    BY <1>2, <1>7, <1>8, FileIs DEF Fits
  <2> HIDE DEF R
  <2>2. OldTable(original.bytes, BuildTable(original.bytes, R))
    BY <1>3, <2>1, BuildTableIs
  <2> QED BY <1>4, <2>1, <2>2 DEF Fits
<1>9. Before'
  <2> HIDE DEF R, W
  <2>1. ASSUME state = "read_only" PROVE Known' = BuildTable(original.bytes, R)
    BY <1>1, <2>1 DEF Known
  <2>2. ASSUME state # "read_only" PROVE Known' = Known
    BY <1>1, <2>2 DEF Known
  <2> QED BY <1>1, <1>7, <1>8, <2>1, <2>2 DEF Before
<1>10. Building'
  <2>1. state = "building_new" => Holding(toAdd, table, R, W)
    BY RemovedHolding DEF IInv, Building
  <2> HIDE DEF R, W
  <2> QED BY <1>1, <2>1 DEF Building
<1> QED BY <1>5, <1>6, <1>9, <1>10 DEF IInv

LEMMA KeepsEncodeKnown ==
  ASSUME FilesSound, IInv, NEW h \in Holders, NEW s \in Strings, EncodeKnown(h, s) PROVE IInv'
<1>1. PICK e \in Known : /\ e.str = s /\ Decode(e.encoded) = s
                         /\ refs' = [refs EXCEPT ![h] = e.encoded]
  BY DEF EncodeKnown, Matches
<1> DEFINE x == e.encoded
           R == [refs EXCEPT ![h] = x]
           W == [wanted EXCEPT ![h] = s]
<1>2. /\ refs' = R /\ wanted' = W /\ table' = Known
      /\ state' = IF state = "read_only" THEN "from_existing" ELSE state
      /\ UNCHANGED <<original, toAdd, modified>>
  BY <1>1 DEF EncodeKnown
<1>3. /\ original \in Originals /\ toAdd \in Seq(Text)
      /\ refs \in [Holders -> Nat \cup {None}] /\ DOMAIN wanted = Holders
      /\ state \in {"read_only", "from_existing", "building_new"}
      /\ modified \in BOOLEAN /\ (modified <=> state = "building_new")
  BY DEF IInv, Typed
<1>4. ASSUME state # "building_new"
      PROVE  /\ x \in Nat /\ x # None
             /\ Fits(original, Known, R) /\ Refers(original, R, W)
  <2>1. Fits(original, Known, refs) /\ Refers(original, refs, wanted)
    BY <1>4 DEF IInv, Before
  <2>2. Table(original.bytes) /\ OldTable(original.bytes, Known)
    BY <1>3, <2>1, FileIs DEF Fits
  <2>3. x \in Nat /\ x < Len(original.bytes)
    BY <2>2, OldEntries
  <2>4. s = StringAt(original.bytes, x)
    BY <1>1, <1>4 DEF Decode, TableOf
  <2>5. x # None
    BY <2>3, DynstrAssumption
  <2> QED BY <1>3, <2>1, <2>3, <2>4, <2>5, StoredFits
<1>5. ASSUME state = "building_new"
      PROVE  x \in Nat /\ Known = table /\ Holding(toAdd, table, R, W)
  <2>1. Holding(toAdd, table, refs, wanted) /\ Known = table
    BY <1>5 DEF IInv, Building, Known
  <2>2. x \in Nat
    BY <2>1 DEF Holding
  <2> QED BY <1>1, <2>1, <2>2, StoredHolding
<1>6. R \in [Holders -> Nat \cup {None}] /\ DOMAIN W = Holders
  BY <1>3, <1>4, <1>5
<1> HIDE DEF x, R, W
<1>7. Typed'
  BY <1>2, <1>3, <1>6 DEF Typed
<1>8. Reading'
  BY <1>2 DEF Reading
<1>9. Before'
  <2>1. ASSUME state # "building_new" PROVE Known' = Known
    BY <1>2, <2>1 DEF Known
  <2> QED BY <1>2, <1>4, <2>1 DEF Before
<1>10. Building'
  BY <1>2, <1>5 DEF Building
<1> QED BY <1>7, <1>8, <1>9, <1>10 DEF IInv

LEMMA KeepsEncodeNew ==
  ASSUME FilesSound, IInv, NEW h \in Holders, NEW s \in Strings, EncodeNew(h, s) PROVE IInv'
<1> DEFINE b == IF state = "building_new" THEN [toAdd |-> toAdd, table |-> table, refs |-> refs]
                ELSE StartBuildingNew(Known, refs)
           A == b.toAdd
           n == Len(A)
           D == A \o Append(s, NUL)
           T == b.table \cup {Entry(n, s)}
           R == [b.refs EXCEPT ![h] = n]
           W == [wanted EXCEPT ![h] = s]
<1>1. /\ toAdd' = D /\ table' = T /\ refs' = R /\ wanted' = W
      /\ state' = "building_new" /\ modified' = TRUE /\ original' = original
  BY DEF EncodeNew, Entry
<1>2. /\ original \in Originals /\ refs \in [Holders -> Nat \cup {None}] /\ DOMAIN wanted = Holders
  BY DEF IInv, Typed
<1>3. Holding(b.toAdd, b.table, b.refs, wanted)
  <2>1. CASE state = "building_new"
    BY <2>1 DEF IInv, Building
  <2>2. CASE state # "building_new"
    <3>1. Fits(original, Known, refs) /\ Refers(original, refs, wanted)
      BY <2>2 DEF IInv, Before
    <3>2. b = StartBuildingNew(Known, refs)
      BY <2>2
    <3> DEFINE k == Known
    <3>3. Fits(original, k, refs)
      BY <3>1
    <3> HIDE DEF b, k
    <3>4. LET c == StartBuildingNew(k, refs) IN Holding(c.toAdd, c.table, c.refs, wanted)
      BY <1>2, <3>1, <3>3, BuildHolds
    <3> QED BY <3>2, <3>4 DEF k
  <2> QED BY <2>1, <2>2
<1>4. s \in Seq(Chars)
  BY DynstrAssumption
<1> HIDE DEF b
<1>5. Holding(D, T, R, W)
  BY <1>3, <1>4, HoldingAdded
<1>6. D \in Seq(Text) /\ R \in [Holders -> Nat \cup {None}] /\ DOMAIN W = Holders
  BY <1>5 DEF Holding
<1> HIDE DEF D, T, R, W
<1>7. Typed'
  BY <1>1, <1>2, <1>6 DEF Typed
<1>8. Reading' /\ Before' /\ Building'
  BY <1>1, <1>5 DEF Reading, Before, Building
<1> QED BY <1>7, <1>8 DEF IInv

LEMMA KeepsRetry ==
  ASSUME FilesSound, IInv, NEW move \in BOOLEAN, Retry(move) PROVE IInv'
<1> DEFINE fl == original
           r == fl.refs
           t == IF state = "from_existing" THEN table ELSE BuildTable(fl.bytes, r)
           b == StartBuildingNew(t, r)
           W == [i \in Holders |-> StringAt(fl.bytes, r[i])]
<1>1. /\ wanted' = W /\ original' = original /\ modified' = (modified \/ move)
      /\ IF modified'
         THEN toAdd' = b.toAdd /\ table' = b.table /\ refs' = b.refs /\ state' = "building_new"
         ELSE refs' = r /\ UNCHANGED <<toAdd, table, state>>
  BY DEF Retry
<1>2. /\ original \in Originals /\ toAdd \in Seq(Text)
      /\ state \in {"read_only", "from_existing", "building_new"}
      /\ modified \in BOOLEAN /\ (modified <=> state = "building_new")
  BY DEF IInv, Typed
<1>3. r \in [Holders -> Nat \cup {None}]
  BY <1>2, FileIs
<1>4. Refers(fl, r, W) /\ DOMAIN W = Holders
  BY <1>2, LoadedRefers
<1>5. Fits(fl, t, r)
  <2>1. CASE state = "from_existing"
    <3>1. Fits(fl, table, refs)
      BY <2>1 DEF IInv, Before, Known
    <3> QED BY <1>2, <2>1, <3>1, LoadedFits
  <2>2. CASE state # "from_existing"
    BY <1>2, <2>2, BuiltFits
  <2> QED BY <2>1, <2>2
<1> HIDE DEF t, W
<1>6. Holding(b.toAdd, b.table, b.refs, W)
  BY <1>2, <1>3, <1>4, <1>5, BuildHolds
<1>7. CASE modified'
  <2>1. /\ toAdd' = b.toAdd /\ table' = b.table /\ refs' = b.refs
        /\ state' = "building_new" /\ modified' = TRUE
    BY <1>1, <1>2, <1>7
  <2>2. b.toAdd \in Seq(Text) /\ b.refs \in [Holders -> Nat \cup {None}]
    BY <1>6 DEF Holding
  <2> HIDE DEF b
  <2>3. Typed'
    BY <1>1, <1>2, <1>4, <2>1, <2>2 DEF Typed
  <2>4. Reading' /\ Before' /\ Building'
    BY <1>1, <1>6, <2>1 DEF Reading, Before, Building
  <2> QED BY <2>3, <2>4 DEF IInv
<1>8. CASE ~modified'
  <2>1. refs' = r /\ UNCHANGED <<toAdd, table, state, modified>> /\ state # "building_new"
    BY <1>1, <1>2, <1>8
  <2>2. Typed'
    BY <1>1, <1>2, <1>3, <1>4, <2>1 DEF Typed
  <2>3. Reading'
    BY <1>1, <2>1 DEF IInv, Reading
  <2>4. Known' = t
    BY <1>1, <1>2, <2>1 DEF Known, t
  <2>5. Before'
    BY <1>1, <1>4, <1>5, <2>1, <2>4 DEF Before
  <2>6. Building'
    BY <2>1 DEF Building
  <2> QED BY <2>2, <2>3, <2>5, <2>6 DEF IInv
<1> QED BY <1>7, <1>8

LEMMA Invariance == ASSUME FilesSound PROVE Spec => []IInv
<1>1. Init => IInv
  BY Start
<1>2. IInv /\ [Next]_vars => IInv'
  <2> SUFFICES ASSUME IInv, [Next]_vars PROVE IInv'
    OBVIOUS
  <2>1. CASE \E h \in Holders : RemoveRef(h)
    BY <2>1, KeepsRemoveRef
  <2>2. CASE \E h \in Holders, s \in Strings : EncodeKnown(h, s)
    BY <2>2, KeepsEncodeKnown
  <2>3. CASE \E h \in Holders, s \in Strings : EncodeNew(h, s)
    BY <2>3, KeepsEncodeNew
  <2>4. CASE \E move \in BOOLEAN : Retry(move)
    BY <2>4, KeepsRetry
  <2>5. CASE UNCHANGED vars
    <3>1. Known' = Known
      BY <2>5 DEF vars, Known
    <3> QED BY <2>5, <3>1 DEF vars, IInv, Typed, Reading, Before, Building
  <2> QED BY <2>1, <2>2, <2>3, <2>4, <2>5 DEF Next
<1> QED BY <1>1, <1>2, PTL DEF Spec

\* What the invariant says of a state, for the table which is then in use.
LEMMA Found ==
  ASSUME FilesSound, IInv
  PROVE  StringsKept /\ TableSound
<1>1. /\ original \in Originals /\ toAdd \in Seq(Text)
      /\ refs \in [Holders -> Nat \cup {None}]
      /\ state \in {"read_only", "from_existing", "building_new"}
  BY DEF IInv, Typed
<1> DEFINE B == TableOf(state)
<1>2. B \in Seq(Text) /\ Holding(B, table, refs, wanted)
  <2>1. CASE state = "building_new"
    BY <1>1, <2>1 DEF TableOf, IInv, Building
  <2>2. CASE state # "building_new"
    <3>1. B = original.bytes /\ original.bytes \in Seq(Text)
      BY <1>1, <2>2, FileIs DEF TableOf, Table
    <3> DEFINE k == Known
    <3>2. Fits(original, k, refs) /\ Refers(original, refs, wanted) /\ DOMAIN wanted = Holders
      BY <2>2 DEF IInv, Before, Typed
    <3>3. table \subseteq k
      BY <2>2 DEF IInv, Reading, Known
    <3> HIDE DEF k, B
    <3>4. Holding(original.bytes, k, refs, wanted)
      BY <1>1, <3>2, HoldingOld
    <3> QED BY <3>1, <3>3, <3>4 DEF Holding
  <2> QED BY <2>1, <2>2
<1> HIDE DEF B
<1>3. \A o \in Nat : \A x : Spells(B, o, x) => StringAt(B, o) = x /\ x # None
  <2>1. \A x : x \in Seq(Chars) => x # None
    BY DynstrAssumption
  <2> QED BY <1>2, <2>1, StringIs DEF Spells
<1>4. \A o : Decode(o) = StringAt(B, o)
  BY DEF Decode, B
<1>5. StringsKept
  <2>1. ASSUME NEW h \in Holders
        PROVE  IF wanted[h] = None THEN refs[h] = None
               ELSE refs[h] # None /\ Decode(refs[h]) = wanted[h]
    <3>1. IF refs[h] = None THEN wanted[h] = None ELSE Spells(B, refs[h], wanted[h])
      BY <1>2 DEF Holding
    <3>2. refs[h] # None => refs[h] \in Nat
      BY <1>1
    <3> QED BY <1>3, <1>4, <3>1, <3>2
  <2> QED BY <2>1 DEF StringsKept
<1>6. TableSound
  BY <1>2, <1>3, <1>4 DEF TableSound, Holding
<1> QED BY <1>5, <1>6

\* Whatever the command line asks for, and however often the table is begun again,
\* each holder refers to its string: one which was not asked to change to the one
\* it has in the file.  Of the files, that FilesSound is said.
THEOREM StringsKeptCorrect == ASSUME FilesSound PROVE Spec => []StringsKept
<1>1. IInv => StringsKept
  BY Found
<1> QED BY <1>1, Invariance, PTL

\* The table of known strings, which decides whether a string is added, is right
\* about each of its offsets.
THEOREM TableSoundCorrect == ASSUME FilesSound PROVE Spec => []TableSound
<1>1. IInv => TableSound
  BY Found
<1> QED BY <1>1, Invariance, PTL
=============================================================================
