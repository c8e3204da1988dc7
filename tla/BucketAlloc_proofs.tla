-------------------------- MODULE BucketAlloc_proofs --------------------------
(***************************************************************************)
(* Proofs about BucketAlloc, for all files, page sizes and requests: its   *)
(* type invariant, that ranges handed out in one round are disjoint, and   *)
(* that no round takes room from a bucket; and of the PT_LOADs which the   *)
(* retry makes, that they can be mapped, that they hold whatever erw_alloc *)
(* hands out, in memory and in the file, and that there are not too many.  *)
(***************************************************************************)
EXTENDS BucketAlloc, TLAPS

-----------------------------------------------------------------------------
(* Arithmetic.                                                              *)

\* A remainder is between 0 and the divisor.
LEMMA ModRange ==
  ASSUME NEW x \in Int, NEW a \in Nat \ {0}
  PROVE  x % a \in Nat /\ x % a < a
  BY SMT

\* Aligning up never moves an address down.
LEMMA AlignUpGE ==
  ASSUME NEW x \in Int, NEW a \in Nat \ {0}
  PROVE  /\ Bump(x, a) \in Nat
         /\ AlignUp(x, a) \in Int
         /\ AlignUp(x, a) >= x
<1>1. x % a \in Nat /\ x % a < a
  BY ModRange
<1>2. a - (x % a) \in Int
  BY <1>1
<1>3. Bump(x, a) \in Nat
  BY <1>2, ModRange DEF Bump
<1> QED BY <1>3 DEF AlignUp

LEMMA AlignUpNat ==
  ASSUME NEW x \in Nat, NEW a \in Nat \ {0}
  PROVE  /\ Bump(x, a) \in Nat
         /\ AlignUp(x, a) \in Nat
         /\ AlignUp(x, a) >= x
<1>1. x \in Int /\ x >= 0
  OBVIOUS
<1>2. /\ Bump(x, a) \in Nat
      /\ AlignUp(x, a) \in Int
      /\ AlignUp(x, a) >= x
  BY <1>1, AlignUpGE
<1> QED BY <1>1, <1>2

\* Nor does making it congruent to another one.
LEMMA CongruentGE ==
  ASSUME NEW lo \in Int, NEW y \in Int, NEW a \in Nat \ {0}
  PROVE  /\ CongruentFrom(lo, y, a) \in Int
         /\ CongruentFrom(lo, y, a) >= lo
<1>1. lo % a \in Nat /\ lo % a < a /\ y % a \in Nat
  BY ModRange
<1> QED BY <1>1 DEF CongruentFrom

LEMMA LargerGE ==
  ASSUME NEW x \in Int, NEW y \in Int
  PROVE  Larger(x, y) \in {x, y} /\ Larger(x, y) >= x /\ Larger(x, y) >= y
  BY DEF Larger

-----------------------------------------------------------------------------
(* The type invariant.                                                      *)

\* The number of bytes a bucket needs is not negative: its start never
\* overtakes its current and end.
Ordered ==
  \A k \in Keys : /\ bucket[k].start <= bucket[k].current
                  /\ bucket[k].start <= bucket[k].end
                  /\ k \notin inUse => bucket[k].end = 0

TypeInv == TypeOK /\ Ordered

LEMMA KeyType ==
  ASSUME NEW k \in Keys
  PROVE  k[1] \in Categories /\ k[2] \in Alignments /\ k[2] \in Nat \ {0}
  BY AllocAssumption DEF Keys

LEMMA NeedType ==
  ASSUME TypeInv, NEW k \in Keys
  PROVE  Need(k) \in Nat
<1>1. bucket[k] \in [start : Nat, current : Nat, end : Nat]
  BY DEF TypeInv, TypeOK
<1>2. bucket[k].start <= bucket[k].current /\ bucket[k].start <= bucket[k].end
  BY DEF TypeInv, Ordered
<1> QED BY <1>1, <1>2 DEF Need, Larger

\* What the headers of the original file are.
LEMMA OriginalType ==
  ASSUME TypeOK
  PROVE  /\ original.size \in Nat \ {0} /\ original.phdrs \in Nat
         /\ original.loads \in Seq(LoadRecord)
         /\ \A i \in 1..Len(original.loads) :
              /\ original.loads[i].offset \in Nat
              /\ original.loads[i].vaddr \in Nat
              /\ original.loads[i].filesz \in Nat
              /\ original.loads[i].memsz \in Nat
              /\ original.loads[i].align \in Nat
<1>1. original \in FileRecord
  BY AllocAssumption DEF TypeOK
<1>2. original.size \in Nat \ {0} /\ original.phdrs \in Nat
      /\ original.loads \in Seq(LoadRecord)
  BY <1>1 DEF FileRecord
<1>3. \A i \in 1..Len(original.loads) : original.loads[i] \in LoadRecord
  BY <1>2
<1> QED BY <1>2, <1>3 DEF LoadRecord

\* A new segment begins no lower, in the file or in memory, than the cursors.
LEMMA SegmentGE ==
  ASSUME TypeOK, NEW fl \in {"r", "rx", "rw"}
  PROVE  /\ SegAlign(fl) \in Nat \ {0}
         /\ SegV(fl) \in Nat /\ SegV(fl) >= v
         /\ Excess(fl) \in Nat
         /\ SegF(fl) \in Nat /\ SegF(fl) >= f
<1>0. f \in Nat /\ v \in Nat /\ page \in Nat \ {0}
  BY DEF TypeOK
<1>1. HasFirstLoad(fl) =>
        /\ original.loads[1].vaddr \in Nat
        /\ original.loads[1].offset \in Nat
        /\ original.loads[1].align \in Nat
  <2>1. HasFirstLoad(fl) => 1 \in 1..Len(original.loads)
    BY OriginalType DEF HasFirstLoad
  <2> QED BY <2>1, OriginalType
<1>2. SegAlign(fl) \in Nat \ {0}
  BY <1>0, <1>1 DEF SegAlign, Larger
<1>3. AlignUp(v, page) \in Int /\ AlignUp(v, page) >= v
  BY <1>0, AlignUpGE
<1>4. SegV(fl) \in Nat /\ SegV(fl) >= v
  <2>1. SegV(fl) \in Int /\ SegV(fl) >= AlignUp(v, page)
    <3> DEFINE lo == AlignUp(v, page)
               a == SegAlign(fl)
    <3>1. lo \in Int /\ a \in Nat \ {0} /\ f \in Int
      BY <1>0, <1>2, <1>3
    <3>2. SegV(fl) = CongruentFrom(lo, f, a)
      BY DEF SegV
    <3> HIDE DEF lo, a
    <3>3. CongruentFrom(lo, f, a) \in Int /\ CongruentFrom(lo, f, a) >= lo
      BY <3>1, CongruentGE
    <3> QED BY <3>2, <3>3 DEF lo
  <2> QED BY <2>1, <1>3, <1>0
<1>5. HasFirstLoad(fl) => RequiredOffset(fl) \in Int
  BY <1>0, <1>1, <1>4 DEF RequiredOffset
<1>6. Excess(fl) \in Nat
  <2>1. CASE HasFirstLoad(fl)
    BY <2>1, <1>1, <1>5 DEF Excess
  <2>2. CASE ~ HasFirstLoad(fl)
    BY <2>2 DEF Excess
  <2> QED BY <2>1, <2>2
<1>7. SegF(fl) \in Nat /\ SegF(fl) >= f
  <2>1. CASE OffsetNegative(fl)
    <3>1. HasFirstLoad(fl) /\ RequiredOffset(fl) < 0
      BY <2>1 DEF OffsetNegative
    <3> DEFINE r == RequiredOffset(fl)
               nf == f - (r - (r % page))
    <3>2. r \in Int /\ r < 0 /\ r % page \in Nat
      BY <3>1, <1>5, <1>0, ModRange
    <3>3. r - (r % page) \in Int /\ r - (r % page) < 0
      BY <3>2
    <3>4. nf \in Int /\ nf >= f
      BY <3>3, <1>0
    <3> HIDE DEF nf
    <3>5. CongruentFrom(nf, SegV(fl), SegAlign(fl)) \in Int
          /\ CongruentFrom(nf, SegV(fl), SegAlign(fl)) >= nf
      BY <3>4, <1>2, <1>4, CongruentGE
    <3>6. SegF(fl) = CongruentFrom(nf, SegV(fl), SegAlign(fl))
      BY <2>1 DEF SegF, nf
    <3> QED BY <3>4, <3>5, <3>6, <1>0
  <2>2. CASE ~ OffsetNegative(fl)
    BY <2>2, <1>0 DEF SegF
  <2> QED BY <2>1, <2>2
<1> QED BY <1>2, <1>4, <1>6, <1>7

\* What Extend leaves behind, whatever segment list and cursors it is given.
LEMMA ExtendType ==
  ASSUME TypeInv, NEW k \in Keys,
         NEW ls \in Seq(NewLoad), ls # << >>,
         NEW nv \in Nat, NEW nf \in Nat,
         k \in inUse,
         Extend(ls, k, nv, nf)
  PROVE  /\ bucket' \in [Keys -> [start : Nat, current : Nat, end : Nat]]
         /\ loads' \in Seq(NewLoad)
         /\ v' \in Nat /\ f' \in Nat
         /\ bucket'[k].start >= nv /\ bucket'[k].end = v'
         /\ \A j \in Keys \ {k} : bucket'[j] = bucket[j]
         /\ bucket'[k].current = bucket'[k].start
         /\ bucket'[k].end >= bucket'[k].start
         /\ f' >= nf /\ v' >= nv
<1>1. Need(k) \in Nat
  BY NeedType
<1>2. Bump(nv, k[2]) \in Nat
  BY KeyType, AlignUpNat
<1>b. bucket \in [Keys -> [start : Nat, current : Nat, end : Nat]]
  BY DEF TypeInv, TypeOK
<1> DEFINE b == Bump(nv, k[2])
           v1 == nv + b + Need(k)
           f1 == IF k[1] = CatRWZero THEN nf ELSE nf + b + Need(k)
           n == Len(ls)
<1>3. v1 \in Nat /\ v1 >= nv /\ v1 >= nv + b
  BY <1>1, <1>2
<1>4. f1 \in Nat /\ f1 >= nf
  BY <1>1, <1>2
<1>5. /\ bucket' = [bucket EXCEPT ![k] = [start |-> nv + b, current |-> nv + b, end |-> v1]]
      /\ v' = v1 /\ f' = f1
      /\ loads' = [ls EXCEPT ![n].memsz = v1 - ls[n].vaddr, ![n].filesz = f1 - ls[n].offset]
  BY DEF Extend
<1>6. nv + b \in Nat /\ nv + b >= nv
  BY <1>2
<1> HIDE DEF b, v1, f1
<1>7. loads' \in Seq(NewLoad)
  <2>1. n \in 1..Len(ls) /\ ls[n] \in NewLoad
    OBVIOUS
  <2>2. v1 - ls[n].vaddr \in Int /\ f1 - ls[n].offset \in Int
    BY <2>1, <1>3, <1>4, SMTT(30) DEF NewLoad
  <2> DEFINE rec == [ls[n] EXCEPT !.memsz = v1 - ls[n].vaddr, !.filesz = f1 - ls[n].offset]
  <2>3. rec \in NewLoad
    BY <2>1, <2>2 DEF NewLoad
  <2>4. loads' = [ls EXCEPT ![n] = rec]
    <3>1. [ls EXCEPT ![n].memsz = v1 - ls[n].vaddr, ![n].filesz = f1 - ls[n].offset]
            = [ls EXCEPT ![n] = rec]
      BY <2>1 DEF NewLoad
    <3> QED BY <3>1, <1>5
  <2> HIDE DEF rec
  <2> QED BY <2>1, <2>3, <2>4
<1>8. bucket'[k] = [start |-> nv + b, current |-> nv + b, end |-> v1]
      /\ \A j \in Keys \ {k} : bucket'[j] = bucket[j]
  BY <1>5, <1>b
<1>9. bucket' \in [Keys -> [start : Nat, current : Nat, end : Nat]]
  BY <1>3, <1>5, <1>6, <1>b
<1> QED BY <1>3, <1>4, <1>5, <1>6, <1>7, <1>8, <1>9

\* A segment which retry adds is a well-formed program header.
LEMMA SegmentType ==
  ASSUME TypeOK, NEW fl \in {"r", "rx", "rw"}, NEW a \in Nat \ {0}
  PROVE  SegmentFor(fl, a) \in NewLoad
<1> DEFINE sv == SegV(fl) + Excess(fl)
           b == Bump(sv, a)
<1>1. sv \in Nat /\ SegF(fl) \in Nat /\ SegAlign(fl) \in Nat
  BY SegmentGE
<1>2. b \in Nat
  BY <1>1, AlignUpNat
<1> QED BY <1>1, <1>2 DEF SegmentFor, NewLoad

LEMMA InitType == Init => TypeInv
<1> SUFFICES ASSUME Init PROVE TypeInv
  OBVIOUS
<1>1. original.size \in Nat
  BY AllocAssumption DEF Init, FileRecord
<1>2. \A k \in Keys : bucket[k] = [start |-> 0, current |-> 0, end |-> 0]
  BY DEF Init
<1>3. bucket \in [Keys -> [start : Nat, current : Nat, end : Nat]]
  BY DEF Init
<1>4. Ordered
  BY <1>2 DEF Ordered
<1>5. loads \in Seq(NewLoad) /\ given \in Seq(GivenRecord)
  BY DEF Init
<1>6. TypeOK
  <2>1. inUse \subseteq Keys /\ todo \subseteq inUse
    BY DEF Init
  <2>3. next \in Nat \ {0} /\ f \in Nat /\ v \in Nat
    BY DEF Init
  <2>4. phase \in {"open", "scan", "layout"} /\ original \in Files
    BY DEF Init
  <2>5. retry \in BOOLEAN
    BY DEF Init
  <2>2. page \in Nat \ {0} /\ fsize \in Nat
    BY <1>1, AllocAssumption DEF Init
  <2> QED BY <2>1, <2>2, <2>3, <2>4, <2>5, <1>3, <1>5 DEF TypeOK
<1> QED BY <1>4, <1>6 DEF TypeInv

\* Every step keeps the type invariant.
LEMMA TypeStep ==
  ASSUME TypeInv, [Next]_vars
  PROVE  TypeInv'
<1>b. bucket \in [Keys -> [start : Nat, current : Nat, end : Nat]]
  BY DEF TypeInv, TypeOK
<1>0. TypeOK /\ Ordered
  BY DEF TypeInv
<1>1. ASSUME NEW k \in Keys, NEW size \in Sizes, Alloc(k, size)
      PROVE  TypeInv'
  <2>1. size \in Nat /\ bucket[k].current \in Nat 
        /\ k[2] \in Nat \ {0}
    BY <1>b, KeyType, AllocAssumption
  <2>2. ResultAt(k) \in Nat /\ ResultAt(k) >= bucket[k].current
    BY <2>1, AlignUpNat DEF ResultAt
  <2> DEFINE rb == [bucket[k] EXCEPT !.current = ResultAt(k) + size]
  <2>3. rb \in [start : Nat, current : Nat, end : Nat]
        /\ rb.start = bucket[k].start /\ rb.end = bucket[k].end
        /\ rb.current >= bucket[k].current
    BY <1>b, <2>1, <2>2
  <2>4. bucket' = [bucket EXCEPT ![k] = rb]
    BY <1>1, <1>b DEF Alloc
  <2> HIDE DEF rb
  <2>5. bucket' \in [Keys -> [start : Nat, current : Nat, end : Nat]]
    BY <1>b, <2>3, <2>4
  <2>6. given' \in Seq(GivenRecord)
    <3>1. [key |-> k, v |-> ResultAt(k), size |-> size] \in GivenRecord
      BY <2>1, <2>2 DEF GivenRecord
    <3>2. given \in Seq(GivenRecord)
      BY <1>0 DEF TypeOK
    <3>3. given' \in {given, Append(given, [key |-> k, v |-> ResultAt(k), size |-> size])}
      BY <1>1 DEF Alloc
    <3> QED BY <3>1, <3>2, <3>3
  <2>7. Ordered'
    BY <1>0, <1>1, <1>b, <2>1, <2>3, <2>4, <2>5 DEF Ordered, Alloc
  <2>8. TypeOK'
    BY <1>0, <1>1, <2>5, <2>6 DEF TypeOK, Alloc, cursor
  <2> QED BY <2>7, <2>8 DEF TypeInv
<1>2. CASE BeginRetry
  BY <1>0, <1>2, AllocAssumption DEF BeginRetry, TypeInv, TypeOK, Ordered
<1>3. CASE ScanLoad
  <2>1. next \in 1..Len(original.loads)
    BY <1>3, <1>0 DEF ScanLoad, TypeOK
  <2> DEFINE l == original.loads[next]
  <2>2. /\ l.offset \in Nat /\ l.filesz \in Nat /\ l.vaddr \in Nat
        /\ l.memsz \in Nat /\ l.align \in Nat
    BY <1>0, <2>1, OriginalType
  <2>3. /\ f' = Larger(f, l.offset + l.filesz)
        /\ v' = Larger(v, l.vaddr + l.memsz)
        /\ page' \in {page, Larger(page, l.align)}
    BY <1>3 DEF ScanLoad
  <2>4. f \in Nat /\ v \in Nat /\ page \in Nat \ {0}
    BY <1>0 DEF TypeOK
  <2> HIDE DEF l
  <2>5. f' \in Nat /\ v' \in Nat /\ page' \in Nat \ {0}
    BY <2>2, <2>3, <2>4 DEF Larger
  <2> QED BY <1>0, <1>3, <2>5 DEF ScanLoad, TypeInv, TypeOK, Ordered
<1>4. CASE EndScan
  <2>1. f \in Nat /\ v \in Nat /\ page \in Nat \ {0}
    BY <1>0 DEF TypeOK
  <2>2. AlignUp(f, page) \in Nat /\ AlignUp(v, page) \in Nat
    BY <2>1, AlignUpNat
  <2>3. f' \in Nat /\ v' \in Nat
    BY <1>0, <1>4, <2>2, OriginalType DEF EndScan, Larger
  <2> QED BY <1>0, <1>4, <2>3 DEF EndScan, TypeInv, TypeOK, Ordered
<1>5. ASSUME NEW k \in Keys, LayoutFile(k)
      PROVE  TypeInv'
  <2>1. f \in Nat /\ k[2] \in Nat \ {0} /\ Need(k) \in Nat /\ k \in inUse
    BY <1>0, <1>5, KeyType, NeedType DEF LayoutFile, First, TypeOK, TypeInv
  <2> DEFINE s == AlignUp(f, k[2])
  <2>2. s \in Nat
    BY <2>1, AlignUpNat
  <2>3. bucket' = [bucket EXCEPT ![k] = [start |-> s, current |-> s, end |-> s + Need(k)]]
        /\ f' = s + Need(k)
    BY <1>5 DEF LayoutFile
  <2> HIDE DEF s
  <2>4. bucket' \in [Keys -> [start : Nat, current : Nat, end : Nat]] /\ f' \in Nat
    BY <1>b, <2>1, <2>2, <2>3
  <2>5. Ordered'
    BY <1>0, <1>5, <1>b, <2>1, <2>2, <2>3 DEF Ordered, LayoutFile
  <2> QED BY <1>0, <1>5, <2>4, <2>5 DEF LayoutFile, TypeInv, TypeOK
<1>6. ASSUME NEW k \in Keys, LayoutMore(k)
      PROVE  TypeInv'
  <2>1. k \in inUse /\ loads \in Seq(NewLoad) /\ loads # << >> /\ v \in Nat /\ f \in Nat
        /\ Extend(loads, k, v, f)
    BY <1>0, <1>6 DEF LayoutMore, First, NeedsSegment, TypeOK
  <2>2. /\ bucket' \in [Keys -> [start : Nat, current : Nat, end : Nat]]
        /\ loads' \in Seq(NewLoad) /\ v' \in Nat /\ f' \in Nat
        /\ \A j \in Keys \ {k} : bucket'[j] = bucket[j]
        /\ bucket'[k].current = bucket'[k].start /\ bucket'[k].end >= bucket'[k].start
    BY <2>1, ExtendType, <1>0 DEF TypeInv
  <2>3. Ordered'
    BY <1>0, <1>6, <2>1, <2>2 DEF Ordered, LayoutMore
  <2> QED BY <1>0, <1>6, <2>2, <2>3 DEF LayoutMore, TypeInv, TypeOK
<1>7. ASSUME NEW k \in Keys, LayoutSegment(k)
      PROVE  TypeInv'
  <2> DEFINE fl == FlagsOf(k[1])
             sv == SegV(fl) + Excess(fl)
             b == Bump(sv, k[2])
             ls == Append(loads, SegmentFor(fl, k[2]))
  <2>1. k \in inUse /\ k[2] \in Nat \ {0} /\ fl \in {"r", "rx", "rw"}
    BY <1>0, <1>7, KeyType DEF LayoutSegment, First, TypeOK, FlagsOf
  <2>2. sv \in Nat /\ SegF(fl) \in Nat
    BY <1>0, <2>1, SegmentGE
  <2>3. b \in Nat
    BY <2>1, <2>2, AlignUpNat
  <2>4. ls \in Seq(NewLoad) /\ ls # << >>
    <3>1. SegmentFor(fl, k[2]) \in NewLoad
      BY <1>0, <2>1, SegmentType
    <3> QED BY <3>1, <1>0, SMTT(30) DEF TypeOK
  <2>5. Extend(ls, k, sv + b, SegF(fl) + b)
    BY <1>7 DEF LayoutSegment
  <2>6. sv + b \in Nat /\ SegF(fl) + b \in Nat
    BY <2>2, <2>3
  <2> HIDE DEF fl, sv, b, ls
  <2>7. /\ bucket' \in [Keys -> [start : Nat, current : Nat, end : Nat]]
        /\ loads' \in Seq(NewLoad) /\ v' \in Nat /\ f' \in Nat
        /\ \A j \in Keys \ {k} : bucket'[j] = bucket[j]
        /\ bucket'[k].current = bucket'[k].start /\ bucket'[k].end >= bucket'[k].start
    BY <2>1, <2>4, <2>5, <2>6, ExtendType
  <2>8. Ordered'
    BY <1>0, <1>7, <2>1, <2>7 DEF Ordered, LayoutSegment
  <2> QED BY <1>0, <1>7, <2>7, <2>8 DEF LayoutSegment, TypeInv, TypeOK
<1>8. CASE EndLayout
  BY <1>0, <1>8 DEF EndLayout, TypeInv, TypeOK, Ordered
<1>9. CASE UNCHANGED vars
  BY <1>0, <1>9 DEF vars, TypeInv, TypeOK, Ordered
<1> QED
  BY <1>1, <1>2, <1>3, <1>4, <1>5, <1>6, <1>7, <1>8, <1>9 DEF Next, Retry

\* Every reachable state of the allocator is well-typed: offsets and addresses
\* stay non-negative and every bucket starts no higher than it reaches.
THEOREM TypeCorrect == Spec => []TypeOK
<1>1. Init => TypeInv
  BY InitType
<1>2. TypeInv /\ [Next]_vars => TypeInv'
  BY TypeStep
<1>3. TypeInv => TypeOK
  BY DEF TypeInv
<1> QED BY <1>1, <1>2, <1>3, PTL DEF Spec

-----------------------------------------------------------------------------
(* Ranges handed out in one round are disjoint.  The argument: the ranges  *)
(* of two buckets are disjoint because retry deals them out upwards, and    *)
(* the ranges of one bucket are because its current only moves up.          *)

SameSpace(k, j) == (k[1] = CatF) <=> (j[1] = CatF)

\* The buckets of which retry has not to change the range any more are apart.
Apart ==
  \A k, j \in Keys \ todo :
    k # j /\ SameSpace(k, j) =>
      bucket[k].end <= bucket[j].start \/ bucket[j].end <= bucket[k].start

\* Buckets which retry has laid out lie below its cursors.
Below ==
  /\ phase = "open" => todo = {}
  /\ phase = "scan" => todo = inUse
  /\ phase = "layout" =>
       \A k \in inUse \ todo : bucket[k].end <= IF k[1] = CatF THEN f ELSE v

\* What a round has handed out lies in its buckets, below current and upwards.
GivenInBuckets ==
  /\ phase # "open" => given = << >>
  /\ \A i \in DOMAIN given :
       LET b == bucket[given[i].key] IN
       /\ b.start <= given[i].v
       /\ given[i].v + given[i].size <= b.current
       /\ given[i].v + given[i].size <= b.end
  /\ \A i, j \in DOMAIN given :
       i < j /\ given[i].key = given[j].key =>
         given[i].v + given[i].size <= given[j].v

DisjointInv == TypeInv /\ Apart /\ Below /\ GivenInBuckets

LEMMA DisjointInit == Init => DisjointInv
<1> SUFFICES ASSUME Init PROVE DisjointInv
  OBVIOUS
<1>1. TypeInv
  BY InitType
<1>2. \A k \in Keys : bucket[k].start = 0 /\ bucket[k].end = 0
  BY DEF Init
<1> QED BY <1>1, <1>2 DEF Init, DisjointInv, Apart, Below, GivenInBuckets

\* Laying out the bucket k from s, a position no lower than the cursor c of its
\* space, keeps the buckets which are laid out apart.
LEMMA LayoutApart ==
  ASSUME DisjointInv, phase = "layout", NEW k \in todo, k \in Keys,
         todo' = todo \ {k},
         \A j \in Keys \ {k} : bucket'[j] = bucket[j],
         bucket'[k].start >= IF k[1] = CatF THEN f ELSE v,
         bucket'[k].start \in Nat, bucket'[k].end \in Nat,
         UNCHANGED inUse
  PROVE  Apart'
<1>0. TypeOK /\ Ordered /\ Apart /\ Below
  BY DEF DisjointInv, TypeInv
<1>1. \A j \in Keys \ todo : SameSpace(k, j) => bucket[j].end <= bucket'[k].start
  <2> SUFFICES ASSUME NEW j \in Keys \ todo, SameSpace(k, j)
               PROVE  bucket[j].end <= bucket'[k].start
    OBVIOUS
  <2>1. bucket[j].end \in Nat /\ f \in Nat /\ v \in Nat
    BY <1>0 DEF TypeOK
  <2>2. CASE j \in inUse
    BY <1>0, <2>1, <2>2 DEF Below, SameSpace
  <2>3. CASE j \notin inUse
    BY <1>0, <2>1, <2>3 DEF Ordered
  <2> QED BY <2>2, <2>3
<1>2. Keys \ todo' = (Keys \ todo) \cup {k}
  OBVIOUS
<1> SUFFICES ASSUME NEW i \in Keys \ todo', NEW j \in Keys \ todo',
                    i # j, SameSpace(i, j)
             PROVE  \/ bucket'[i].end <= bucket'[j].start
                    \/ bucket'[j].end <= bucket'[i].start
  BY DEF Apart, SameSpace
<1>3. CASE i = k
  BY <1>1, <1>2, <1>3
<1>4. CASE j = k
  BY <1>1, <1>2, <1>4 DEF SameSpace
<1>5. CASE i # k /\ j # k
  BY <1>0, <1>2, <1>5 DEF Apart
<1> QED BY <1>3, <1>4, <1>5

\* And they stay below the cursors when these do not go down.
LEMMA LayoutBelow ==
  ASSUME DisjointInv, phase = "layout", NEW k \in todo, k \in Keys,
         todo' = todo \ {k},
         \A j \in Keys \ {k} : bucket'[j] = bucket[j],
         bucket'[k].end = IF k[1] = CatF THEN f' ELSE v',
         f' \in Nat, v' \in Nat, f' >= f, v' >= v,
         UNCHANGED <<inUse, phase, given>>
  PROVE  Below' /\ GivenInBuckets'
<1>0. TypeOK /\ Below /\ GivenInBuckets
  BY DEF DisjointInv, TypeInv
<1>1. \A j \in inUse' \ todo' : bucket'[j].end <= IF j[1] = CatF THEN f' ELSE v'
  <2> SUFFICES ASSUME NEW j \in inUse' \ todo'
               PROVE  bucket'[j].end <= IF j[1] = CatF THEN f' ELSE v'
    OBVIOUS
  <2>1. CASE j = k
    BY <2>1
  <2>2. CASE j # k
    <3>1. j \in inUse \ todo /\ j \in Keys
      BY <1>0, <2>2 DEF TypeOK
    <3>2. bucket[j].end \in Nat /\ f \in Nat /\ v \in Nat
      BY <3>1, <1>0 DEF TypeOK
    <3> QED BY <1>0, <2>2, <3>1, <3>2 DEF Below
  <2> QED BY <2>1, <2>2
<1>2. Below'
  BY <1>1 DEF Below
<1>3. given' = << >> /\ phase' # "open"
  BY <1>0 DEF GivenInBuckets
<1> QED BY <1>2, <1>3 DEF GivenInBuckets

\* Every step keeps the ranges apart.
LEMMA DisjointStep ==
  ASSUME DisjointInv, [Next]_vars
  PROVE  DisjointInv'
<1>0. TypeInv /\ TypeOK /\ Ordered /\ Apart /\ Below /\ GivenInBuckets
  BY DEF DisjointInv, TypeInv
<1>t. TypeInv'
  BY <1>0, TypeStep
<1>b. bucket \in [Keys -> [start : Nat, current : Nat, end : Nat]]
      /\ bucket' \in [Keys -> [start : Nat, current : Nat, end : Nat]]
  BY <1>0, <1>t DEF TypeInv, TypeOK
<1>c. f \in Nat /\ v \in Nat /\ f' \in Nat /\ v' \in Nat
  BY <1>0, <1>t DEF TypeInv, TypeOK
<1> SUFFICES Apart' /\ Below' /\ GivenInBuckets'
  BY <1>t DEF DisjointInv
<1>1. ASSUME NEW k \in Keys, NEW size \in Sizes, Alloc(k, size)
      PROVE  Apart' /\ Below' /\ GivenInBuckets'
  <2> DEFINE r == ResultAt(k)
             g == [key |-> k, v |-> r, size |-> size]
  <2>1. phase = "open" /\ todo = {} /\ todo' = {} /\ phase' = "open"
    BY <1>0, <1>1 DEF Alloc, Below, cursor
  <2>2. size \in Nat /\ r \in Nat /\ r >= bucket[k].current
    <3>1. bucket[k].current \in Nat /\ k[2] \in Nat \ {0}
      BY <1>b, KeyType
    <3> QED BY <3>1, AllocAssumption, AlignUpNat DEF ResultAt
  <2>3. /\ bucket'[k].start = bucket[k].start /\ bucket'[k].end = bucket[k].end
        /\ bucket'[k].current = r + size
        /\ \A j \in Keys \ {k} : bucket'[j] = bucket[j]
    BY <1>1, <1>b DEF Alloc
  <2>4. \A j \in Keys : /\ bucket'[j].start = bucket[j].start
                        /\ bucket'[j].end = bucket[j].end
                        /\ bucket'[j].current >= bucket[j].current
                        /\ bucket[j].current \in Nat /\ bucket'[j].current \in Nat
                        /\ bucket[j].start \in Nat /\ bucket[j].end \in Nat
    BY <1>b, <2>2, <2>3
  <2>5. Apart'
    BY <1>0, <2>1, <2>4 DEF Apart, SameSpace
  <2>6. Below'
    BY <2>1 DEF Below
  <2>7. given \in Seq(GivenRecord)
    BY <1>0 DEF TypeOK
  <2>8. \A i \in DOMAIN given : given[i].key \in Keys /\ given[i].v \in Nat /\ given[i].size \in Nat
    <3>1. \A i \in DOMAIN given : given[i] \in GivenRecord
      BY <2>7
    <3> QED BY <3>1 DEF GivenRecord
  <2>9. ASSUME given' = given
        PROVE  GivenInBuckets'
    <3>1. \A i \in DOMAIN given :
            LET b == bucket'[given[i].key] IN
            /\ b.start <= given[i].v
            /\ given[i].v + given[i].size <= b.current
            /\ given[i].v + given[i].size <= b.end
      BY <1>0, <2>4, <2>8 DEF GivenInBuckets
    <3> QED BY <1>0, <2>1, <2>9, <3>1 DEF GivenInBuckets
  <2>10. ASSUME Fits(k, size), given' = Append(given, g)
         PROVE  GivenInBuckets'
    <3>1. DOMAIN given' = 1..(Len(given) + 1) /\ DOMAIN given = 1..Len(given)
          /\ given'[Len(given) + 1] = g /\ Len(given) \in Nat
          /\ \A i \in DOMAIN given : given'[i] = given[i]
      BY <2>7, <2>10
    <3>2. r + size <= bucket[k].end
      BY <2>10 DEF Fits
    <3>3. bucket[k].start <= r
      <4>1. bucket[k].start <= bucket[k].current
        BY <1>0 DEF Ordered
      <4> QED BY <4>1, <2>2, <2>4
    <3>4. \A i \in DOMAIN given' :
            LET b == bucket'[given'[i].key] IN
            /\ b.start <= given'[i].v
            /\ given'[i].v + given'[i].size <= b.current
            /\ given'[i].v + given'[i].size <= b.end
      <4> SUFFICES ASSUME NEW i \in DOMAIN given'
                   PROVE  LET b == bucket'[given'[i].key] IN
                          /\ b.start <= given'[i].v
                          /\ given'[i].v + given'[i].size <= b.current
                          /\ given'[i].v + given'[i].size <= b.end
        OBVIOUS
      <4>1. CASE i \in DOMAIN given
        <5>1. given'[i] = given[i] /\ given[i].key \in Keys /\ given[i].v \in Nat
              /\ given[i].size \in Nat
          BY <3>1, <2>8, <4>1
        <5>2. LET b == bucket[given[i].key] IN
              /\ b.start <= given[i].v
              /\ given[i].v + given[i].size <= b.current
              /\ given[i].v + given[i].size <= b.end
          BY <1>0, <4>1 DEF GivenInBuckets
        <5> QED BY <5>1, <5>2, <2>4
      <4>2. CASE i = Len(given) + 1
        BY <2>2, <2>3, <3>1, <3>2, <3>3, <4>2
      <4> QED BY <3>1, <4>1, <4>2
    <3>5. \A i, j \in DOMAIN given' :
            i < j /\ given'[i].key = given'[j].key =>
              given'[i].v + given'[i].size <= given'[j].v
      <4> SUFFICES ASSUME NEW i \in DOMAIN given', NEW j \in DOMAIN given', i < j,
                          given'[i].key = given'[j].key
                   PROVE  given'[i].v + given'[i].size <= given'[j].v
        OBVIOUS
      <4>1. i \in DOMAIN given /\ given'[i] = given[i]
        BY <3>1
      <4>2. CASE j \in DOMAIN given
        BY <1>0, <3>1, <4>1, <4>2 DEF GivenInBuckets
      <4>3. CASE j = Len(given) + 1
        <5>1. given[i].key = k /\ given'[j].v = r
          BY <3>1, <4>1, <4>3
        <5>2. given[i].v + given[i].size <= bucket[k].current
          BY <1>0, <4>1, <5>1 DEF GivenInBuckets
        <5>3. given[i].v \in Nat /\ given[i].size \in Nat /\ bucket[k].current \in Nat
          BY <2>8, <4>1, <1>b
        <5> QED BY <5>1, <5>2, <5>3, <4>1, <2>2
      <4> QED BY <3>1, <4>2, <4>3
    <3> QED BY <2>1, <3>4, <3>5 DEF GivenInBuckets
  <2> QED BY <1>1, <2>5, <2>6, <2>9, <2>10 DEF Alloc
<1>2. CASE BeginRetry
  <2>1. \A k \in Keys \ todo' : bucket'[k].start \in Nat /\ bucket'[k].end = 0
    BY <1>0, <1>2, <1>b DEF BeginRetry, Ordered
  <2>2. Apart'
    BY <2>1 DEF Apart
  <2> QED BY <1>2, <2>2 DEF BeginRetry, Below, GivenInBuckets
<1>3. CASE ScanLoad
  BY <1>0, <1>3 DEF ScanLoad, Apart, Below, GivenInBuckets
<1>4. CASE EndScan
  BY <1>0, <1>4 DEF EndScan, Apart, Below, GivenInBuckets
<1>5. ASSUME NEW k \in Keys, LayoutFile(k)
      PROVE  Apart' /\ Below' /\ GivenInBuckets'
  <2> DEFINE s == AlignUp(f, k[2])
  <2>1. k \in todo /\ phase = "layout" /\ k[1] = CatF /\ Need(k) \in Nat
        /\ k[2] \in Nat \ {0}
    BY <1>0, <1>5, NeedType, KeyType DEF LayoutFile, First
  <2>2. s \in Nat /\ s >= f
    BY <2>1, <1>c, AlignUpNat
  <2>3. bucket' = [bucket EXCEPT ![k] = [start |-> s, current |-> s, end |-> s + Need(k)]]
        /\ f' = s + Need(k) /\ v' = v /\ todo' = todo \ {k}
        /\ UNCHANGED <<inUse, phase, given>>
    BY <1>5 DEF LayoutFile
  <2> HIDE DEF s
  <2>4. /\ bucket'[k].start = s /\ bucket'[k].end = s + Need(k)
        /\ \A j \in Keys \ {k} : bucket'[j] = bucket[j]
    BY <1>b, <2>3
  <2>5. f' >= f /\ v' >= v /\ bucket'[k].start \in Nat /\ bucket'[k].end \in Nat
    BY <1>c, <2>1, <2>2, <2>3, <2>4
  <2>6. Apart'
    BY <2>1, <2>2, <2>3, <2>4, <2>5, LayoutApart
  <2>7. Below' /\ GivenInBuckets'
    BY <1>c, <2>1, <2>2, <2>3, <2>4, <2>5, LayoutBelow
  <2> QED BY <2>6, <2>7
<1>6. ASSUME NEW k \in Keys, LayoutMore(k)
      PROVE  Apart' /\ Below' /\ GivenInBuckets'
  <2>1. /\ k \in todo /\ k \in inUse /\ phase = "layout" /\ k[1] # CatF
        /\ todo' = todo \ {k} /\ UNCHANGED <<inUse, phase, given>>
    BY <1>0, <1>6 DEF LayoutMore, First, TypeOK
  <2>2. loads \in Seq(NewLoad) /\ loads # << >> /\ Extend(loads, k, v, f)
    BY <1>0, <1>6 DEF LayoutMore, NeedsSegment, TypeOK
  <2>3. /\ bucket'[k].start >= v /\ bucket'[k].end = v'
        /\ \A j \in Keys \ {k} : bucket'[j] = bucket[j]
        /\ f' >= f /\ v' >= v
    BY <1>0, <1>c, <2>1, <2>2, ExtendType
  <2>4. bucket'[k].start \in Nat /\ bucket'[k].end \in Nat
    BY <1>b
  <2>5. Apart'
    BY <2>1, <2>3, <2>4, LayoutApart
  <2>6. Below' /\ GivenInBuckets'
    BY <1>c, <2>1, <2>3, LayoutBelow
  <2> QED BY <2>5, <2>6
<1>7. ASSUME NEW k \in Keys, LayoutSegment(k)
      PROVE  Apart' /\ Below' /\ GivenInBuckets'
  <2> DEFINE fl == FlagsOf(k[1])
             b == Bump(SegV(fl) + Excess(fl), k[2])
             nv == SegV(fl) + Excess(fl) + b
             nf == SegF(fl) + b
             ls == Append(loads, SegmentFor(fl, k[2]))
  <2>1. /\ k \in todo /\ k \in inUse /\ phase = "layout" /\ k[1] # CatF
        /\ todo' = todo \ {k} /\ UNCHANGED <<inUse, phase, given>>
    BY <1>0, <1>7 DEF LayoutSegment, First, TypeOK
  <2>2. k[2] \in Nat \ {0} /\ fl \in {"r", "rx", "rw"}
    BY KeyType DEF FlagsOf
  <2>3. SegV(fl) \in Nat /\ SegV(fl) >= v /\ Excess(fl) \in Nat
        /\ SegF(fl) \in Nat /\ SegF(fl) >= f
    BY <1>0, <2>2, SegmentGE
  <2>4. b \in Nat
    <3>1. SegV(fl) + Excess(fl) \in Nat
      BY <2>3
    <3> QED BY <3>1, <2>2, AlignUpNat
  <2>5. nv \in Nat /\ nv >= v /\ nf \in Nat /\ nf >= f
    BY <2>3, <2>4, <1>c
  <2>6. ls \in Seq(NewLoad) /\ ls # << >>
    <3>1. SegmentFor(fl, k[2]) \in NewLoad
      BY <1>0, <2>2, SegmentType
    <3> QED BY <3>1, <1>0, SMTT(30) DEF TypeOK
  <2>7. Extend(ls, k, nv, nf)
    BY <1>7 DEF LayoutSegment
  <2> HIDE DEF fl, b, nv, nf, ls
  <2>8. /\ bucket'[k].start >= nv /\ bucket'[k].end = v'
        /\ \A j \in Keys \ {k} : bucket'[j] = bucket[j]
        /\ f' >= nf /\ v' >= nv
    BY <1>0, <2>1, <2>5, <2>6, <2>7, ExtendType
  <2>9. bucket'[k].start \in Nat /\ bucket'[k].end \in Nat
    BY <1>b
  <2>10. bucket'[k].start >= v /\ f' >= f /\ v' >= v
    BY <1>c, <2>5, <2>8, <2>9
  <2>11. Apart'
    BY <2>1, <2>8, <2>9, <2>10, LayoutApart
  <2>12. Below' /\ GivenInBuckets'
    BY <1>c, <2>1, <2>8, <2>10, LayoutBelow
  <2> QED BY <2>11, <2>12
<1>8. CASE EndLayout
  <2>1. given = << >>
    BY <1>0, <1>8 DEF EndLayout, GivenInBuckets
  <2> QED BY <1>0, <1>8, <2>1 DEF EndLayout, Apart, Below, GivenInBuckets
<1>9. CASE UNCHANGED vars
  BY <1>0, <1>9 DEF vars, Apart, Below, GivenInBuckets
<1> QED
  BY <1>1, <1>2, <1>3, <1>4, <1>5, <1>6, <1>7, <1>8, <1>9 DEF Next, Retry

\* For every file and every sequence of requests and retries: two ranges which
\* erw_alloc hands out in the same round do not overlap.
THEOREM GivenDisjointCorrect == Spec => []GivenDisjoint
<1>1. DisjointInv => GivenDisjoint
  <2> SUFFICES ASSUME DisjointInv,
                      NEW i \in DOMAIN given, NEW j \in DOMAIN given, i < j,
                      Virtual(given[i]) <=> Virtual(given[j])
               PROVE  ~ Overlap(given[i].v, given[i].size, given[j].v, given[j].size)
    BY DEF GivenDisjoint
  <2>1. \A m \in {i, j} : /\ given[m].key \in Keys /\ given[m].v \in Nat
                          /\ given[m].size \in Nat
    <3>1. given \in Seq(GivenRecord)
      BY DEF DisjointInv, TypeInv, TypeOK
    <3>2. \A m \in DOMAIN given : given[m] \in GivenRecord
      BY <3>1
    <3> QED BY <3>2 DEF GivenRecord
  <2>2. phase = "open" /\ todo = {}
    BY DEF DisjointInv, GivenInBuckets, Below
  <2>3. \A m \in {i, j} :
          /\ bucket[given[m].key].start \in Nat /\ bucket[given[m].key].end \in Nat
          /\ bucket[given[m].key].start <= given[m].v
          /\ given[m].v + given[m].size <= bucket[given[m].key].end
    BY <2>1 DEF DisjointInv, TypeInv, TypeOK, GivenInBuckets
  <2>4. CASE given[i].key = given[j].key
    <3>1. given[i].v + given[i].size <= given[j].v
      BY <2>4 DEF DisjointInv, GivenInBuckets
    <3> QED BY <3>1, <2>1 DEF Overlap
  <2>5. CASE given[i].key # given[j].key
    <3>1. SameSpace(given[i].key, given[j].key)
      BY DEF SameSpace, Virtual
    <3>2. \/ bucket[given[i].key].end <= bucket[given[j].key].start
          \/ bucket[given[j].key].end <= bucket[given[i].key].start
      BY <2>1, <2>2, <2>5, <3>1 DEF DisjointInv, Apart
    <3> QED BY <3>2, <2>1, <2>3 DEF Overlap
  <2> QED BY <2>4, <2>5
<1>2. DisjointInv /\ [Next]_vars => DisjointInv'
  BY DisjointStep
<1> QED BY DisjointInit, <1>1, <1>2, PTL DEF Spec

-----------------------------------------------------------------------------
(* Why the rounds converge.                                                 *)

\* A bucket which is in no use is empty, and none ends before it starts.
LEMMA BucketTypes ==
  ASSUME TypeInv, NEW k \in Keys
  PROVE  /\ bucket[k].start \in Nat /\ bucket[k].current \in Nat /\ bucket[k].end \in Nat
         /\ bucket[k].start <= bucket[k].end /\ (k \notin inUse => bucket[k].end = 0)
BY DEF TypeInv, TypeOK, Ordered

\* What a step owes to a bucket, and to the retry as a whole.
RoomOwed(k) ==
  /\ Room(k)' >= Room(k)
  /\ phase # "open" /\ k \in todo =>
       IF k \in todo' THEN bucket'[k] = bucket[k] ELSE Room(k)' >= Asked(k)

AllTaken ==
  /\ phase = "open" /\ phase' # "open" => inUse \subseteq todo'
  /\ phase # "open" /\ phase' = "open" => todo = {}

\* What a step does to the room of a bucket.
LEMMA RoomStep ==
  ASSUME TypeInv, [Next]_vars, NEW k \in Keys
  PROVE  RoomOwed(k)
<1>0. /\ TypeOK /\ v \in Nat /\ f \in Nat
      /\ bucket \in [Keys -> [start : Nat, current : Nat, end : Nat]]
  BY DEF TypeInv, TypeOK
<1>1. bucket[k].start \in Nat /\ bucket[k].current \in Nat /\ bucket[k].end \in Nat
  BY BucketTypes
<1>2. /\ Need(k) \in Nat /\ Room(k) \in Int /\ Need(k) >= Room(k)
      /\ Asked(k) \in Int /\ Need(k) >= Asked(k)
  BY <1>1, NeedType DEF Need, Room, Asked, Larger
\* The bucket keeps its range, or all of it: while retry goes on, if it is to be dealt out.
<1>3. ASSUME bucket'[k].start = bucket[k].start /\ bucket'[k].end = bucket[k].end,
             phase # "open" /\ k \in todo => k \in todo' /\ bucket'[k] = bucket[k]
      PROVE  RoomOwed(k)
  BY <1>1, <1>3 DEF Room, RoomOwed
\* One bucket is dealt out.
<1>4. ASSUME NEW s \in Nat, NEW j \in Keys, todo' = todo \ {j},
             bucket' = [bucket EXCEPT ![j] = [start |-> s, current |-> s, end |-> s + Need(j)]]
      PROVE  RoomOwed(k)
  <2>2. CASE j = k
    <3>1. bucket'[k].start = s /\ bucket'[k].end = s + Need(k) BY <1>0, <1>4, <2>2
    <3>2. Room(k)' = Need(k) BY <1>2, <1>4, <3>1 DEF Room
    <3>3. k \notin todo' BY <1>4, <2>2
    <3>4. QED BY <1>2, <3>2, <3>3 DEF RoomOwed
  <2>3. CASE j # k
    <3>1. bucket'[k] = bucket[k] BY <1>0, <1>4, <2>3
    <3>2. k \in todo => k \in todo' BY <1>4, <2>3
    <3>3. QED BY <1>3, <3>1, <3>2
  <2>4. QED BY <2>2, <2>3
<1>5. CASE \E j \in Keys, size \in Sizes : Alloc(j, size)
  <2>1. phase = "open" BY <1>5 DEF Alloc
  <2>2. bucket'[k].start = bucket[k].start /\ bucket'[k].end = bucket[k].end
    BY <1>0, <1>5 DEF Alloc
  <2>3. QED BY <1>3, <2>1, <2>2
<1>6. CASE BeginRetry \/ ScanLoad \/ EndScan \/ EndLayout \/ UNCHANGED vars
  <2>1. bucket' = bucket /\ (phase = "open" \/ todo' = todo)
    BY <1>6 DEF BeginRetry, ScanLoad, EndScan, EndLayout, vars
  <2>2. QED BY <1>3, <2>1
<1>7. ASSUME NEW j \in Keys, LayoutFile(j) PROVE RoomOwed(k)
  <2> DEFINE s == AlignUp(f, j[2])
  <2>1. s \in Nat BY <1>0, KeyType, AlignUpNat
  <2>2. /\ bucket' = [bucket EXCEPT ![j] = [start |-> s, current |-> s, end |-> s + Need(j)]]
        /\ todo' = todo \ {j}
    BY <1>7 DEF LayoutFile
  <2> HIDE DEF s
  <2>3. QED BY <1>4, <2>1, <2>2
<1>8. ASSUME NEW j \in Keys, NEW ls, NEW nv \in Nat, NEW nf, Extend(ls, j, nv, nf),
             todo' = todo \ {j}
      PROVE  RoomOwed(k)
  <2> DEFINE s == nv + Bump(nv, j[2])
  <2>1. s \in Nat
    <3>1. Bump(nv, j[2]) \in Nat BY KeyType, AlignUpNat
    <3>2. QED BY <3>1
  <2>2. bucket' = [bucket EXCEPT ![j] = [start |-> s, current |-> s, end |-> s + Need(j)]]
    BY <1>8 DEF Extend
  <2> HIDE DEF s
  <2>3. QED BY <1>4, <1>8, <2>1, <2>2
<1>9. ASSUME NEW j \in Keys, LayoutMore(j) PROVE RoomOwed(k)
  BY <1>0, <1>8, <1>9 DEF LayoutMore
<1>10. ASSUME NEW j \in Keys, LayoutSegment(j) PROVE RoomOwed(k)
  <2> DEFINE fl == FlagsOf(j[1])
             sv == SegV(fl) + Excess(fl)
             b == Bump(sv, j[2])
             nv == sv + b
             nf == SegF(fl) + b
             ls == Append(loads, SegmentFor(fl, j[2]))
  <2>1. j[2] \in Nat \ {0} /\ fl \in {"r", "rx", "rw"} BY KeyType DEF FlagsOf
  <2>2. sv \in Nat BY <1>0, <2>1, SegmentGE
  <2>3. b \in Nat BY <2>1, <2>2, AlignUpNat
  <2>4. nv \in Nat BY <2>2, <2>3
  <2>5. Extend(ls, j, nv, nf) /\ todo' = todo \ {j} BY <1>10 DEF LayoutSegment
  <2> HIDE DEF nv, nf, ls
  <2>6. QED BY <1>8, <2>4, <2>5
<1>11. QED BY <1>5, <1>6, <1>7, <1>9, <1>10 DEF Next, Retry

\* A retry begins with every bucket in use, and ends with none.
LEMMA TakenStep == [Next]_vars => AllTaken
BY DEF Next, Retry, Alloc, BeginRetry, ScanLoad, EndScan, LayoutFile, LayoutMore,
       LayoutSegment, EndLayout, vars, AllTaken

\* A bucket never loses room; and by the end of a retry, each bucket in use has been given
\* room for all that the failed round asked of it, whether it has moved or not.
THEOREM RoomGrowsCorrect == Spec => RoomGrows
<1> DEFINE Kept ==
      /\ \A k \in Keys :
           /\ Room(k)' >= Room(k)
           /\ phase # "open" /\ k \in todo =>
                IF k \in todo' THEN bucket'[k] = bucket[k] ELSE Room(k)' >= Asked(k)
      /\ phase = "open" /\ phase' # "open" => inUse \subseteq todo'
      /\ phase # "open" /\ phase' = "open" => todo = {}
<1>1. Init => TypeInv BY InitType
<1>2. TypeInv /\ [Next]_vars => TypeInv' BY TypeStep
<1>3. TypeInv /\ [Next]_vars => Kept BY RoomStep, TakenStep DEF RoomOwed, AllTaken
<1> HIDE DEF Kept
<1>4. Spec => [][Kept]_vars BY <1>1, <1>2, <1>3, PTL DEF Spec
<1>5. QED BY <1>4 DEF RoomGrows, Kept

-----------------------------------------------------------------------------
(* Division, and multiples of the page size.                                *)

\* Quotient and remainder.
LEMMA DivMod ==
  ASSUME NEW x \in Int, NEW a \in Nat \ {0}
  PROVE  x \div a \in Int /\ x % a \in 0..(a - 1) /\ x = a * (x \div a) + (x % a)
BY SMT

LEMMA Mono == ASSUME NEW a \in Nat, NEW p \in Int, NEW q \in Int, p <= q PROVE a * p <= a * q
BY SMT

\* They are the only ones.
LEMMA ModUnique ==
  ASSUME NEW x \in Int, NEW a \in Nat \ {0}, NEW q \in Int, NEW r \in 0..(a - 1), x = a * q + r
  PROVE  x % a = r /\ x \div a = q
<1> DEFINE p == x \div a
           s == x % a
<1>1. p \in Int /\ s \in 0..(a - 1) /\ x = a * p + s BY DivMod
<1> HIDE DEF p, s
<1>2. a * (q - 1) = a * q - a /\ a * (p - 1) = a * p - a BY <1>1
<1>3. CASE p < q
  <2>1. a * p <= a * (q - 1) BY <1>1, <1>3, Mono
  <2>2. QED BY <1>1, <1>2, <2>1
<1>4. CASE q < p
  <2>1. a * q <= a * (p - 1) BY <1>1, <1>4, Mono
  <2>2. QED BY <1>1, <1>2, <2>1
<1>5. CASE p = q BY <1>1, <1>5 DEF p, s
<1>6. QED BY <1>1, <1>3, <1>4, <1>5

LEMMA ModShift ==
  ASSUME NEW x \in Int, NEW a \in Nat \ {0}, NEW q \in Int
  PROVE  (a * q + x) % a = x % a
<1> DEFINE p == x \div a
           s == x % a
           y == a * q + x
<1>1. p \in Int /\ s \in 0..(a - 1) /\ x = a * p + s BY DivMod
<1> HIDE DEF p, s
<1>2. a * (q + p) = a * q + a * p BY <1>1
<1>3. y \in Int /\ y = a * (q + p) + s BY <1>1, <1>2
<1>4. q + p \in Int BY <1>1
<1> HIDE DEF y
<1>5. y % a = s BY <1>1, <1>3, <1>4, ModUnique
<1>6. QED BY <1>5 DEF y, s

LEMMA ModSum ==
  ASSUME NEW x \in Int, NEW y \in Int, NEW b \in Int, NEW a \in Nat \ {0}, x % a = y % a
  PROVE  (x + b) % a = (y + b) % a
<1> DEFINE p == x \div a
           q == y \div a
           d == p - q
           w == y + b
<1>1. p \in Int /\ q \in Int /\ x = a * p + (x % a) /\ y = a * q + (y % a) /\ y % a \in Int
  BY DivMod
<1>2. d \in Int /\ w \in Int BY <1>1
<1>3. a * d = a * p - a * q BY <1>1
<1> HIDE DEF p, q
<1>4. x + b = a * d + w BY <1>1, <1>3
<1> HIDE DEF d, w
<1>5. (a * d + w) % a = w % a BY <1>2, ModShift
<1>6. QED BY <1>4, <1>5 DEF w

\* A multiple of a multiple of s is one of s.
LEMMA ModTrans ==
  ASSUME NEW x \in Int, NEW a \in Nat \ {0}, NEW s \in Nat \ {0}, x % a = 0, a % s = 0
  PROVE  x % s = 0
<1> DEFINE p == x \div a
           q == a \div s
           d == q * p
<1>1. p \in Int /\ q \in Int /\ x = a * p + 0 /\ a = s * q + 0 BY DivMod
<1> HIDE DEF p, q
<1>2. d \in Int /\ x = s * d + 0 BY <1>1
<1> HIDE DEF d
<1>3. QED BY <1>2, ModUnique

LEMMA ModOfMod ==
  ASSUME NEW x \in Int, NEW a \in Nat \ {0}
  PROVE  (x % a) % a = x % a
<1> DEFINE r == x % a
<1>1. r \in 0..(a - 1) BY DivMod
<1>2. r \in Int /\ r = a * 0 + r BY <1>1
<1> HIDE DEF r
<1>3. r % a = r BY <1>1, <1>2, ModUnique
<1>4. QED BY <1>3 DEF r

\* The remainder with which an address is made congruent.
LEMMA CongruentMod ==
  ASSUME NEW lo \in Int, NEW y \in Int, NEW a \in Nat \ {0}
  PROVE  CongruentFrom(lo, y, a) % a = y % a
<1> DEFINE q == lo \div a
           r == y % a
           c == CongruentFrom(lo, y, a)
<1>1. q \in Int /\ lo % a \in Int /\ lo = a * q + (lo % a) /\ r \in Int BY DivMod
<1>2. c = (lo - (lo % a)) + r \/ c = ((lo - (lo % a)) + r) + a BY DEF CongruentFrom
<1> HIDE DEF q, r, c
<1>3. a * (q + 1) = a * q + a BY <1>1
<1>4. c = a * q + r \/ c = a * (q + 1) + r BY <1>1, <1>2, <1>3
<1>5. (a * q + r) % a = r % a /\ (a * (q + 1) + r) % a = r % a
  <2> DEFINE d == q + 1
  <2>1. d \in Int BY <1>1
  <2>2. (a * q + r) % a = r % a BY <1>1, ModShift
  <2> HIDE DEF d
  <2>3. (a * d + r) % a = r % a BY <1>1, <2>1, ModShift
  <2>4. QED BY <2>2, <2>3 DEF d
<1>6. r % a = r BY ModOfMod DEF r
<1>7. QED BY <1>4, <1>5, <1>6 DEF c, r

\* Aligning an address makes it a multiple of the alignment.
LEMMA AlignUpMod ==
  ASSUME NEW x \in Int, NEW a \in Nat \ {0}
  PROVE  AlignUp(x, a) % a = 0
<1> DEFINE q == x \div a
           r == x % a
           u == AlignUp(x, a)
<1>1. q \in Int /\ r \in 0..(a - 1) /\ x = a * q + r BY DivMod
<1>2. u = x + ((a - r) % a) BY DEF AlignUp, Bump
<1> HIDE DEF q, r, u
<1>3. CASE r = 0
  <2>1. a = a * 1 + 0 /\ a \in Int /\ 0 \in 0..(a - 1) BY SMT
  <2>2. a % a = 0 BY <2>1, ModUnique
  <2>3. u = a * q + 0 BY <1>1, <1>2, <1>3, <2>2
  <2>4. u \in Int BY <1>1, <2>3
  <2>5. u % a = 0 BY <1>1, <2>1, <2>3, <2>4, ModUnique
  <2>6. QED BY <2>5 DEF u
<1>4. CASE r # 0
  <2> DEFINE s == a - r
  <2>1. s \in 0..(a - 1) /\ s \in Int /\ s = a * 0 + s BY <1>1, <1>4
  <2>2. s % a = s BY <2>1, ModUnique
  <2>3. a * (q + 1) = a * q + a /\ q + 1 \in Int /\ 0 \in 0..(a - 1) BY <1>1
  <2>4. u = a * (q + 1) + 0 BY <1>1, <1>2, <2>2, <2>3
  <2>5. u \in Int BY <1>1, <2>4
  <2>6. u % a = 0 BY <2>3, <2>4, <2>5, ModUnique
  <2>7. QED BY <2>6 DEF u
<1>5. QED BY <1>3, <1>4

\* What ends before a multiple of a and what begins at it are in different blocks of a.
LEMMA DivApart ==
  ASSUME NEW x \in Int, NEW y \in Int, NEW m \in Int, NEW a \in Nat \ {0},
         m % a = 0, x < m, m <= y
  PROVE  x \div a < y \div a
<1> DEFINE p == x \div a
           q == m \div a
           d == y \div a
<1>1. /\ p \in Int /\ x % a \in Nat /\ x = a * p + (x % a)
      /\ q \in Int /\ m = a * q + 0
      /\ d \in Int /\ y % a \in Nat /\ y % a < a /\ y = a * d + (y % a)
  BY DivMod
<1> HIDE DEF p, q, d
<1>2. a * (d + 1) = a * d + a BY <1>1
<1>3. ASSUME q <= p PROVE FALSE
  <2>1. a * q <= a * p BY <1>1, <1>3, Mono
  <2>2. QED BY <1>1, <2>1
<1>4. ASSUME d < q PROVE FALSE
  <2>1. d + 1 <= q /\ d + 1 \in Int BY <1>1, <1>4
  <2>2. a * (d + 1) <= a * q BY <1>1, <2>1, Mono
  <2>3. QED BY <1>1, <1>2, <2>2
<1>5. p < d BY <1>1, <1>3, <1>4
<1>6. QED BY <1>5 DEF p, d

-----------------------------------------------------------------------------
(* The PT_LOADs.  Where they lie, in memory and in the file, relative to    *)
(* each other, to those of the original file, and to the cursors of retry.  *)

VEnd(l) == l.vaddr + l.memsz
FEnd(l) == l.offset + l.filesz
LastLoad == loads[Len(loads)]

\* A page begins between x and y.
PageBetween(x, y) == \E m \in x..y : m % PageSize = 0

\* The buckets which retry has laid out, and those with addresses among them.
LaidOut == inUse \ todo
Placed == {k \in LaidOut : k[1] # CatF /\ bucket[k].start < bucket[k].end}
Filed == {k \in LaidOut : k[1] = CatF}

PageInv == page >= PageSize /\ page % PageSize = 0

\* Each PT_LOAD begins on a later page, and further in the file, than the one before.
LoadsApart(ls) ==
  \A i, j \in DOMAIN ls : i < j =>
    PageBetween(VEnd(ls[i]), ls[j].vaddr) /\ FEnd(ls[i]) <= ls[j].offset

LoadsWell(ls) ==
  \A i \in DOMAIN ls :
    /\ ls[i].align # 0 /\ ls[i].memsz >= 0 /\ ls[i].filesz >= 0
    /\ ls[i].offset % ls[i].align = ls[i].vaddr % ls[i].align

\* They are all above what there was.
LoadsAbove(ls) ==
  \A n \in DOMAIN ls : \A i \in DOMAIN original.loads :
    PageBetween(VEnd(original.loads[i]), ls[n].vaddr)

OriginalBelow ==
  /\ phase = "scan" => \A i \in DOMAIN original.loads : i < next => VEnd(original.loads[i]) <= v
  /\ phase = "layout" =>
       /\ \A i \in DOMAIN original.loads : PageBetween(VEnd(original.loads[i]), v)
       /\ original.size <= f

\* The last PT_LOAD ends at the cursors, which are in step until there is memory which
\* is not in the file.
AtCursors ==
  loads # << >> =>
    /\ VEnd(LastLoad) = v /\ FEnd(LastLoad) = f
    /\ (\A k \in LaidOut : k[1] # CatRWZero) => LastLoad.filesz = LastLoad.memsz

\* The buckets are laid out in order, and the last one with addresses is in the last PT_LOAD.
LaidInOrder ==
  phase = "layout" =>
    /\ \A k \in LaidOut, j \in todo : Before(k, j)
    /\ loads = << >> => \A k \in LaidOut : k[1] = CatF
    /\ loads # << >> =>
         \E k \in LaidOut : /\ k[1] # CatF /\ LastLoad.flags = FlagsOf(k[1])
                            /\ \A j \in LaidOut : j[1] <= k[1]

\* A PT_LOAD holds a bucket, with its contents.
Holds(l, k) ==
  /\ l.flags = FlagsOf(k[1])
  /\ l.vaddr <= bucket[k].start /\ bucket[k].end <= VEnd(l)
  /\ k[1] # CatRWZero => bucket[k].end - l.vaddr <= l.filesz

PlacedHeld(ls) == \A k \in Placed : \E n \in DOMAIN ls : Holds(ls[n], k)

\* Offset x is behind the original file, and behind the buckets of category f.
Behind(x) == original.size <= x /\ \A k \in Filed : bucket[k].end <= x

\* What a PT_LOAD maps of the file is behind these; in the one which maps the ELF header
\* the buckets are, as is y, from where it goes on.
LoadsBehind(ls, y) ==
  \A n \in DOMAIN ls :
    \/ Behind(ls[n].offset)
    \/ /\ ls[n].offset = ls[n].vaddr
       /\ Behind(y) /\ \A k \in Placed : Behind(bucket[k].start)

FileSize == phase = "open" => f <= fsize

GeometryInv ==
  /\ PageInv /\ LoadsApart(loads) /\ LoadsWell(loads) /\ LoadsAbove(loads)
  /\ OriginalBelow /\ AtCursors /\ LaidInOrder
  /\ PlacedHeld(loads) /\ LoadsBehind(loads, v) /\ FileSize
  /\ phase = "scan" => loads = << >>

\* The room in the file of category f is behind the original contents, and before the cursor.
FiledInv ==
  \A k \in Filed : bucket[k].start < bucket[k].end =>
    original.size <= bucket[k].start /\ bucket[k].end <= f

\* The headers which the buckets that are laid out take.
Made == (IF \E k \in LaidOut : FlagsOf(k[1]) = "r" /\ k[1] # CatF THEN 1 ELSE 0)
        + (IF \E k \in LaidOut : FlagsOf(k[1]) = "rx" THEN 1 ELSE 0)
        + (IF \E k \in LaidOut : FlagsOf(k[1]) = "rw" THEN 1 ELSE 0)

LoadsMade == ~ original.swapped => Len(loads) <= Made

-----------------------------------------------------------------------------
(* The steps, one after the other.                                          *)

\* The entries of a list of PT_LOADs.
LEMMA LoadTypes ==
  ASSUME NEW ls \in Seq(NewLoad), NEW i \in DOMAIN ls
  PROVE  /\ ls[i].flags \in {"r", "rx", "rw"}
         /\ ls[i].offset \in Nat /\ ls[i].vaddr \in Nat /\ ls[i].align \in Nat
         /\ ls[i].filesz \in Int /\ ls[i].memsz \in Int
<1>1. ls[i] \in NewLoad OBVIOUS
<1>2. QED BY <1>1 DEF NewLoad

LEMMA LastIn ==
  ASSUME NEW ls \in Seq(NewLoad), ls # << >>
  PROVE  /\ Len(ls) \in DOMAIN ls /\ DOMAIN ls = 1..Len(ls) /\ Len(ls) \in Nat
OBVIOUS

LEMMA EmptyDomain == DOMAIN << >> = {}
OBVIOUS

LEMMA BetweenMore ==
  ASSUME NEW x \in Int, NEW y \in Int, NEW z \in Int, PageBetween(x, y), y <= z
  PROVE  PageBetween(x, z)
BY DEF PageBetween

LEMMA GeometryInit == Init => GeometryInv /\ LoadsMade
<1> SUFFICES ASSUME Init PROVE GeometryInv /\ LoadsMade
  OBVIOUS
<1>1. /\ loads = << >> /\ LaidOut = {} /\ page = PageSize /\ phase = "open" /\ f = 0
      /\ fsize = original.size /\ fsize \in Nat
  BY AllocAssumption DEF Init, LaidOut, FileRecord
<1>2. PageInv
  <2>1. PageSize \in Nat \ {0} /\ PageSize = PageSize * 1 + 0 /\ 0 \in 0..(PageSize - 1)
        /\ PageSize \in Int
    BY AllocAssumption
  <2>2. PageSize % PageSize = 0 BY <2>1, ModUnique
  <2>3. QED BY <1>1, <2>1, <2>2 DEF PageInv
<1>3. LoadsApart(loads) /\ LoadsWell(loads) /\ LoadsAbove(loads) /\ LoadsBehind(loads, v)
  BY <1>1, EmptyDomain DEF LoadsApart, LoadsWell, LoadsAbove, LoadsBehind
<1>4. Placed = {} BY <1>1 DEF Placed
<1>5. LoadsMade
  <2>1. Len(loads) = 0 /\ Made = 0 BY <1>1 DEF Made
  <2>2. QED BY <2>1 DEF LoadsMade
<1>6. QED
  BY <1>1, <1>2, <1>3, <1>4, <1>5
  DEF GeometryInv, OriginalBelow, AtCursors, LaidInOrder, PlacedHeld, FileSize

\* What erw_alloc asks for changes neither the ranges nor the PT_LOADs.
LEMMA GeometryAlloc ==
  ASSUME DisjointInv, GeometryInv, NEW k \in Keys, NEW size \in Sizes, Alloc(k, size)
  PROVE  GeometryInv'
<1>1. /\ phase = "open" /\ todo = {} /\ inUse' = inUse \cup {k}
      /\ UNCHANGED <<original, phase, next, todo, f, v, page, loads, fsize>>
  BY DEF Alloc, DisjointInv, Below, cursor
<1>2. TypeInv /\ bucket \in [Keys -> [start : Nat, current : Nat, end : Nat]]
      /\ inUse \subseteq Keys
  BY DEF DisjointInv, TypeInv, TypeOK
<1>3. \A j \in Keys : bucket'[j].start = bucket[j].start /\ bucket'[j].end = bucket[j].end
  BY <1>2 DEF Alloc
<1>4. k \notin inUse => bucket[k].end = 0 /\ ~(bucket[k].start < bucket[k].end)
  BY <1>2, BucketTypes
<1>5. Placed' = Placed /\ LaidOut' = LaidOut \cup {k}
  BY <1>1, <1>2, <1>3, <1>4 DEF Placed, LaidOut
<1>6. Filed' \subseteq Filed \cup {k} /\ (k \in Filed' /\ k \notin Filed => bucket[k].end = 0)
  BY <1>1, <1>4 DEF Filed, LaidOut
<1>placed. Placed \subseteq Keys /\ Filed' \subseteq Keys BY <1>1, <1>2 DEF Placed, Filed, LaidOut
<1>7. \A x \in Nat : Behind(x) => Behind(x)'
  BY <1>1, <1>3, <1>6, <1>placed DEF Behind
<1>8. /\ LoadsApart(loads)' /\ LoadsWell(loads)' /\ LoadsAbove(loads)' /\ OriginalBelow'
      /\ AtCursors' /\ LaidInOrder' /\ PageInv' /\ FileSize'
  BY <1>1, <1>5
  DEF GeometryInv, LoadsApart, LoadsWell, LoadsAbove, OriginalBelow, AtCursors, LastLoad,
      LaidInOrder, PageInv, FileSize
<1>9. PlacedHeld(loads)'
  BY <1>1, <1>3, <1>5, <1>placed DEF GeometryInv, PlacedHeld, Holds
<1>10. LoadsBehind(loads, v)'
  <2>1. loads \in Seq(NewLoad) /\ v \in Nat BY <1>2 DEF TypeInv, TypeOK
  <2>2. \A n \in DOMAIN loads : loads[n].offset \in Nat BY <2>1, LoadTypes
  <2>3. \A j \in Placed : bucket[j].start \in Nat BY <1>2, <1>placed
  <2>4. QED BY <1>1, <1>3, <1>5, <1>7, <1>placed, <2>1, <2>2, <2>3 DEF GeometryInv, LoadsBehind
<1>11. QED BY <1>1, <1>8, <1>9, <1>10 DEF GeometryInv

LEMMA GeometryBegin ==
  ASSUME DisjointInv, GeometryInv, BeginRetry
  PROVE  GeometryInv'
<1>1. /\ phase' = "scan" /\ loads' = << >> /\ todo' = inUse /\ inUse' = inUse /\ next' = 1
      /\ page' = PageSize /\ original' = original
  BY DEF BeginRetry
<1>2. LaidOut' = {} /\ Placed' = {} BY <1>1 DEF LaidOut, Placed
<1>3. PageInv'
  <2>1. PageSize \in Nat \ {0} /\ PageSize = PageSize * 1 + 0 /\ 0 \in 0..(PageSize - 1)
        /\ PageSize \in Int
    BY AllocAssumption
  <2>2. PageSize % PageSize = 0 BY <2>1, ModUnique
  <2>3. QED BY <1>1, <2>1, <2>2 DEF PageInv
<1>4. LoadsApart(loads)' /\ LoadsWell(loads)' /\ LoadsAbove(loads)' /\ LoadsBehind(loads, v)'
  BY <1>1, EmptyDomain DEF LoadsApart, LoadsWell, LoadsAbove, LoadsBehind
<1>5. OriginalBelow'
  <2>1. original.loads \in Seq(LoadRecord) BY OriginalType DEF DisjointInv, TypeInv
  <2>2. \A i \in DOMAIN original.loads : ~(i < 1) BY <2>1
  <2>3. QED BY <1>1, <2>2 DEF OriginalBelow
<1>6. QED
  BY <1>1, <1>2, <1>3, <1>4, <1>5
  DEF GeometryInv, AtCursors, LaidInOrder, PlacedHeld, FileSize

LEMMA GeometryScan ==
  ASSUME DisjointInv, GeometryInv, ScanLoad
  PROVE  GeometryInv'
<1>0. TypeOK BY DEF DisjointInv, TypeInv
<1> DEFINE l == original.loads[next]
<1>1. /\ phase = "scan" /\ phase' = "scan" /\ loads = << >> /\ loads' = << >>
      /\ UNCHANGED <<original, bucket, inUse, todo>> /\ next' = next + 1
      /\ v' = Larger(v, l.vaddr + l.memsz)
      /\ page' = IF l.align <= MaxPage /\ PowerOfTwo(l.align) THEN Larger(page, l.align) ELSE page
      /\ todo = inUse /\ next \in 1..Len(original.loads)
  BY <1>0 DEF ScanLoad, GeometryInv, DisjointInv, Below, TypeOK
<1>2. l.vaddr \in Nat /\ l.memsz \in Nat /\ l.align \in Nat /\ v \in Nat /\ page \in Nat
  BY <1>0, <1>1, OriginalType DEF TypeOK
<1>3. PageInv'
  <2>1. PageInv /\ PageSize \in Nat BY AllocAssumption DEF GeometryInv
  <2>2. CASE page' = page BY <2>1, <2>2 DEF PageInv
  <2>3. CASE page' # page
    <3>1. page' = l.align /\ page < l.align /\ PowerOfTwo(l.align)
      BY <1>1, <2>3 DEF Larger
    <3>2. PICK n \in 0..MaxPage : l.align = 2 ^ n BY <3>1 DEF PowerOfTwo
    <3>3. l.align >= PageSize BY <1>2, <2>1, <3>1 DEF PageInv
    <3>4. l.align % PageSize = 0 BY <3>2, <3>3, PageAssumption
    <3>5. QED BY <3>1, <3>3, <3>4 DEF PageInv
  <2>4. QED BY <2>2, <2>3
<1>4. LaidOut' = {} /\ Placed' = {} BY <1>1 DEF LaidOut, Placed
<1>5. OriginalBelow'
  <2>1. \A i \in DOMAIN original.loads : i < next' => VEnd(original.loads[i]) <= v'
    <3> SUFFICES ASSUME NEW i \in DOMAIN original.loads, i < next'
                 PROVE  VEnd(original.loads[i]) <= v'
      OBVIOUS
    <3>1. i \in 1..Len(original.loads) BY <1>0, OriginalType
    <3>2. original.loads[i].vaddr \in Nat /\ original.loads[i].memsz \in Nat
      BY <1>0, <3>1, OriginalType
    <3>3. v' >= v /\ v' >= l.vaddr + l.memsz /\ v' \in Nat
      BY <1>1, <1>2 DEF Larger
    <3>4. CASE i = next BY <3>3, <3>4 DEF VEnd
    <3>5. CASE i < next
      <4>1. VEnd(original.loads[i]) <= v BY <1>1, <3>5 DEF GeometryInv, OriginalBelow
      <4>2. QED BY <1>2, <3>2, <3>3, <4>1 DEF VEnd
    <3>6. QED BY <1>1, <3>1, <3>4, <3>5
  <2>2. QED BY <1>1, <2>1 DEF OriginalBelow
<1>6. LoadsApart(loads)' /\ LoadsWell(loads)' /\ LoadsAbove(loads)' /\ LoadsBehind(loads, v)'
  BY <1>1, EmptyDomain DEF LoadsApart, LoadsWell, LoadsAbove, LoadsBehind
<1>7. QED
  BY <1>1, <1>3, <1>4, <1>5, <1>6
  DEF GeometryInv, AtCursors, LaidInOrder, PlacedHeld, FileSize

LEMMA GeometryEndScan ==
  ASSUME DisjointInv, GeometryInv, EndScan
  PROVE  GeometryInv'
<1>0. TypeOK BY DEF DisjointInv, TypeInv
<1>1. /\ phase = "scan" /\ phase' = "layout" /\ loads = << >> /\ loads' = << >>
      /\ UNCHANGED <<original, bucket, inUse, todo, page>> /\ next > Len(original.loads)
      /\ f' = Larger(AlignUp(f, page), original.size) /\ v' = AlignUp(v, page)
      /\ todo = inUse
  BY DEF EndScan, GeometryInv, DisjointInv, Below
<1>2. /\ f \in Nat /\ v \in Nat /\ page \in Nat \ {0} /\ original.size \in Nat
      /\ PageSize \in Nat \ {0} /\ original.loads \in Seq(LoadRecord) /\ next \in Nat
  BY <1>0, OriginalType, AllocAssumption DEF TypeOK
<1>3. v' \in Nat /\ v' >= v /\ v' % page = 0 /\ AlignUp(f, page) \in Nat
  BY <1>1, <1>2, AlignUpNat, AlignUpMod
<1>4. v' % PageSize = 0
  <2> DEFINE w == v'
  <2>1. w \in Int /\ (w % page) = 0 BY <1>3
  <2>2. (page % PageSize) = 0 BY DEF GeometryInv, PageInv
  <2> HIDE DEF w
  <2>3. (w % PageSize) = 0 BY <1>2, <2>1, <2>2, ModTrans
  <2>4. QED BY <2>3 DEF w
<1>5. LaidOut' = {} /\ Placed' = {} BY <1>1 DEF LaidOut, Placed
<1>6. \A i \in DOMAIN original.loads : PageBetween(VEnd(original.loads[i]), v')
  <2> SUFFICES ASSUME NEW i \in DOMAIN original.loads
               PROVE  PageBetween(VEnd(original.loads[i]), v')
    OBVIOUS
  <2>1. i \in 1..Len(original.loads) /\ i < next BY <1>1, <1>2
  <2>2. original.loads[i].vaddr \in Nat /\ original.loads[i].memsz \in Nat
    BY <1>0, <2>1, OriginalType
  <2>3. VEnd(original.loads[i]) <= v BY <1>1, <2>1 DEF GeometryInv, OriginalBelow
  <2>4. VEnd(original.loads[i]) \in Nat BY <2>2 DEF VEnd
  <2>5. v' \in VEnd(original.loads[i])..v' BY <1>2, <1>3, <2>3, <2>4
  <2>6. QED BY <1>4, <2>5 DEF PageBetween
<1>7. OriginalBelow' BY <1>1, <1>2, <1>3, <1>6 DEF OriginalBelow, Larger
<1>8. LoadsApart(loads)' /\ LoadsWell(loads)' /\ LoadsAbove(loads)' /\ LoadsBehind(loads, v)'
  BY <1>1, EmptyDomain DEF LoadsApart, LoadsWell, LoadsAbove, LoadsBehind
<1>9. PageInv' BY <1>1 DEF GeometryInv, PageInv
<1>10. QED
  BY <1>1, <1>5, <1>7, <1>8, <1>9
  DEF GeometryInv, AtCursors, LaidInOrder, PlacedHeld, FileSize

\* The buckets of category f come first, and take room in the file only.
LEMMA GeometryFile ==
  ASSUME DisjointInv, GeometryInv, NEW k \in Keys, LayoutFile(k)
  PROVE  GeometryInv'
<1>0. TypeOK /\ TypeInv BY DEF DisjointInv, TypeInv
<1>1. /\ phase = "layout" /\ phase' = "layout" /\ k \in inUse \cap todo /\ k[1] = CatF
      /\ \A j \in todo \ {k} : Before(k, j)
      /\ UNCHANGED <<original, inUse, v, page, loads>> /\ todo' = todo \ {k}
  BY <1>0 DEF LayoutFile, First, TypeOK
<1>2. loads = << >>
  <2> SUFFICES ASSUME loads # << >> PROVE FALSE
    OBVIOUS
  <2>1. PICK i \in LaidOut : i[1] # CatF
    BY <1>1 DEF GeometryInv, LaidInOrder
  <2>2. i \in Keys BY <1>0 DEF LaidOut, TypeOK
  <2>3. Before(i, k) BY <1>1 DEF GeometryInv, LaidInOrder
  <2>4. i[1] \in Categories BY <2>2, KeyType
  <2>5. QED BY <1>1, <2>1, <2>3, <2>4 DEF Before, CatF, Categories
<1>3. LaidOut' = LaidOut \cup {k} /\ \A j \in LaidOut' : j[1] = CatF
  BY <1>1, <1>2 DEF LaidOut, GeometryInv, LaidInOrder
<1>4. Placed' = {} BY <1>3 DEF Placed
<1>5. f' \in Nat /\ f' >= f /\ f \in Nat /\ original.size \in Nat
  <2>1. f \in Nat /\ k[2] \in Nat \ {0} /\ Need(k) \in Nat
    BY <1>0, KeyType, NeedType DEF TypeOK
  <2>2. AlignUp(f, k[2]) \in Nat /\ AlignUp(f, k[2]) >= f BY <2>1, AlignUpNat
  <2>3. f' = AlignUp(f, k[2]) + Need(k) BY DEF LayoutFile
  <2>4. original.size \in Nat BY <1>0, OriginalType
  <2>5. QED BY <2>1, <2>2, <2>3, <2>4
<1>6. OriginalBelow' BY <1>1, <1>5 DEF GeometryInv, OriginalBelow
<1>7. LoadsApart(loads)' /\ LoadsWell(loads)' /\ LoadsAbove(loads)' /\ LoadsBehind(loads, v)'
  BY <1>1, <1>2, EmptyDomain DEF LoadsApart, LoadsWell, LoadsAbove, LoadsBehind
<1>8. LaidInOrder' BY <1>1, <1>2, <1>3 DEF GeometryInv, LaidInOrder
<1>9. PageInv' BY <1>1 DEF GeometryInv, PageInv
<1>10. QED
  BY <1>1, <1>2, <1>4, <1>6, <1>7, <1>8, <1>9
  DEF GeometryInv, AtCursors, PlacedHeld, FileSize

LEMMA GeometryEnd ==
  ASSUME DisjointInv, GeometryInv, EndLayout
  PROVE  GeometryInv'
<1>0. TypeOK BY DEF DisjointInv, TypeInv
<1>1. /\ phase' = "open" /\ fsize' = f /\ todo' = todo /\ inUse' = inUse
      /\ UNCHANGED <<original, bucket, f, v, page, loads>>
  BY DEF EndLayout
<1>2. LaidOut' = LaidOut /\ Placed' = Placed /\ Filed' = Filed
  BY <1>1 DEF LaidOut, Placed, Filed
<1>3. f \in Nat BY <1>0 DEF TypeOK
<1>4. /\ LoadsApart(loads)' /\ LoadsWell(loads)' /\ LoadsAbove(loads)' /\ OriginalBelow'
      /\ AtCursors' /\ LaidInOrder' /\ PageInv' /\ FileSize'
  BY <1>1, <1>2, <1>3
  DEF GeometryInv, LoadsApart, LoadsWell, LoadsAbove, OriginalBelow, AtCursors, LastLoad,
      LaidInOrder, PageInv, FileSize
<1>5. PlacedHeld(loads)' /\ LoadsBehind(loads, v)'
  BY <1>1, <1>2 DEF GeometryInv, PlacedHeld, Holds, LoadsBehind, Behind
<1>6. QED BY <1>1, <1>4, <1>5 DEF GeometryInv

LEMMA GeometryIdle ==
  ASSUME GeometryInv, UNCHANGED vars
  PROVE  GeometryInv'
<1>1. LaidOut' = LaidOut /\ Placed' = Placed /\ Filed' = Filed
  BY DEF LaidOut, Placed, Filed, vars
<1>2. /\ LoadsApart(loads)' /\ LoadsWell(loads)' /\ LoadsAbove(loads)' /\ OriginalBelow'
      /\ AtCursors' /\ LaidInOrder' /\ PageInv' /\ FileSize'
  BY <1>1
  DEF vars, GeometryInv, LoadsApart, LoadsWell, LoadsAbove, OriginalBelow, AtCursors, LastLoad,
      LaidInOrder, PageInv, FileSize
<1>3. PlacedHeld(loads)' /\ LoadsBehind(loads, v)'
  BY <1>1 DEF vars, GeometryInv, PlacedHeld, Holds, LoadsBehind, Behind
<1>4. QED BY <1>2, <1>3 DEF GeometryInv, vars

\* Extend changes the sizes of the last PT_LOAD, which ends at the new cursors.
LEMMA ExtendLoads ==
  ASSUME TypeInv, NEW k \in Keys, k \in inUse,
         NEW ls \in Seq(NewLoad), ls # << >>, NEW nv \in Nat, NEW nf \in Nat,
         Extend(ls, k, nv, nf)
  PROVE  /\ loads' \in Seq(NewLoad) /\ loads' # << >> /\ Len(loads') = Len(ls)
         /\ DOMAIN loads' = DOMAIN ls
         /\ \A i \in DOMAIN ls : i # Len(ls) => loads'[i] = ls[i]
         /\ \A i \in DOMAIN ls : /\ loads'[i].flags = ls[i].flags /\ loads'[i].align = ls[i].align
                                 /\ loads'[i].vaddr = ls[i].vaddr
                                 /\ loads'[i].offset = ls[i].offset
         /\ loads'[Len(ls)].memsz = v' - ls[Len(ls)].vaddr
         /\ loads'[Len(ls)].filesz = f' - ls[Len(ls)].offset
         /\ f' = IF k[1] = CatRWZero THEN nf ELSE nf + (v' - nv)
<1> DEFINE n == Len(ls)
           v1 == nv + Bump(nv, k[2]) + Need(k)
           f1 == IF k[1] = CatRWZero THEN nf ELSE nf + Bump(nv, k[2]) + Need(k)
           rec == [ls[n] EXCEPT !.memsz = v1 - ls[n].vaddr, !.filesz = f1 - ls[n].offset]
<1>1. Need(k) \in Nat /\ Bump(nv, k[2]) \in Nat BY NeedType, KeyType, AlignUpNat
<1>2. v' = v1 /\ f' = f1
      /\ loads' = [ls EXCEPT ![n].memsz = v1 - ls[n].vaddr, ![n].filesz = f1 - ls[n].offset]
  BY DEF Extend
<1>3. f1 = IF k[1] = CatRWZero THEN nf ELSE nf + (v1 - nv) BY <1>1
<1>4. n \in DOMAIN ls /\ DOMAIN ls = 1..n /\ n \in Nat /\ ls[n] \in NewLoad BY LastIn
<1> HIDE DEF v1, f1
<1>5. loads' = [ls EXCEPT ![n] = rec] BY <1>2, <1>4 DEF NewLoad
<1>6. /\ rec.memsz = v1 - ls[n].vaddr /\ rec.filesz = f1 - ls[n].offset
      /\ rec.flags = ls[n].flags /\ rec.align = ls[n].align /\ rec.vaddr = ls[n].vaddr
      /\ rec.offset = ls[n].offset
  BY <1>4 DEF NewLoad
<1>7. loads' \in Seq(NewLoad) BY ExtendType
<1> HIDE DEF rec
<1>8. DOMAIN loads' = DOMAIN ls /\ loads'[n] = rec
      /\ \A i \in DOMAIN ls : i # n => loads'[i] = ls[i]
  BY <1>4, <1>5
<1>9. Len(loads') = n /\ loads' # << >> BY <1>4, <1>7, <1>8
<1>10. QED BY <1>2, <1>3, <1>4, <1>6, <1>7, <1>8, <1>9

\* Adding the bucket k to the last PT_LOAD of ls keeps the geometry.
LEMMA GeometryExtend ==
  ASSUME DisjointInv, GeometryInv, NEW k \in Keys,
         phase = "layout", First(k), k[1] # CatF,
         todo' = todo \ {k}, UNCHANGED <<original, inUse, phase, page>>,
         NEW ls \in Seq(NewLoad), ls # << >>, NEW nv \in Nat, NEW nf \in Nat,
         Extend(ls, k, nv, nf), nv >= v, nf >= f,
         LoadsApart(ls), LoadsWell(ls), LoadsAbove(ls), PlacedHeld(ls), LoadsBehind(ls, nv),
         ls[Len(ls)].flags = FlagsOf(k[1]),
         VEnd(ls[Len(ls)]) <= nv, FEnd(ls[Len(ls)]) <= nf,
         (\A j \in LaidOut : j[1] # CatRWZero) =>
           nv - ls[Len(ls)].vaddr = nf - ls[Len(ls)].offset
  PROVE  GeometryInv'
<1> DEFINE n == Len(ls)
<1>0. /\ TypeInv /\ TypeOK /\ k \in inUse /\ v \in Nat /\ f \in Nat
      /\ \A j \in todo \ {k} : Before(k, j)
  BY DEF DisjointInv, TypeInv, TypeOK, First
<1>1. /\ loads' \in Seq(NewLoad) /\ loads' # << >> /\ Len(loads') = n
      /\ DOMAIN loads' = DOMAIN ls
      /\ \A i \in DOMAIN ls : i # n => loads'[i] = ls[i]
      /\ \A i \in DOMAIN ls : /\ loads'[i].flags = ls[i].flags /\ loads'[i].align = ls[i].align
                              /\ loads'[i].vaddr = ls[i].vaddr
                              /\ loads'[i].offset = ls[i].offset
      /\ loads'[n].memsz = v' - ls[n].vaddr /\ loads'[n].filesz = f' - ls[n].offset
      /\ f' = IF k[1] = CatRWZero THEN nf ELSE nf + (v' - nv)
  BY <1>0, ExtendLoads
<1>2. /\ bucket' \in [Keys -> [start : Nat, current : Nat, end : Nat]]
      /\ v' \in Nat /\ f' \in Nat /\ v' >= nv /\ f' >= nf
      /\ bucket'[k].start >= nv /\ bucket'[k].end = v'
      /\ \A j \in Keys \ {k} : bucket'[j] = bucket[j]
  BY <1>0, ExtendType
<1>3. n \in DOMAIN ls /\ DOMAIN ls = 1..n /\ n \in Nat BY LastIn
<1>4. \A i \in DOMAIN ls : /\ ls[i].offset \in Nat /\ ls[i].vaddr \in Nat /\ ls[i].align \in Nat
                           /\ ls[i].filesz \in Int /\ ls[i].memsz \in Int
  BY LoadTypes
<1>5. ls[n].memsz >= 0 /\ ls[n].filesz >= 0 /\ ls[n].vaddr <= nv /\ ls[n].offset <= nf
      /\ ls[n].filesz <= nf - ls[n].offset
  BY <1>3, <1>4 DEF LoadsWell, VEnd, FEnd
<1>6. VEnd(loads'[n]) = v' /\ FEnd(loads'[n]) = f'
  BY <1>1, <1>2, <1>3, <1>4 DEF VEnd, FEnd
<1>7. LaidOut' = LaidOut \cup {k} /\ k \notin LaidOut /\ LaidOut \subseteq Keys
  BY <1>0 DEF LaidOut, First, TypeOK
<1>8. \A j \in LaidOut : Before(j, k) /\ j[1] <= k[1]
  <2> SUFFICES ASSUME NEW j \in LaidOut PROVE Before(j, k) /\ j[1] <= k[1]
    OBVIOUS
  <2>1. Before(j, k) BY DEF GeometryInv, LaidInOrder, First
  <2>2. j[1] \in Int /\ k[1] \in Int BY <1>7, KeyType DEF Categories
  <2>3. QED BY <2>1, <2>2 DEF Before
<1>9. k[1] # CatRWZero => \A j \in LaidOut : j[1] # CatRWZero
  <2> SUFFICES ASSUME NEW j \in LaidOut, j[1] = CatRWZero, k[1] # CatRWZero PROVE FALSE
    OBVIOUS
  <2>1. j[1] <= k[1] /\ k[1] \in Categories BY <1>8, KeyType
  <2>2. QED BY <2>1 DEF Categories, CatRWZero
<1>s. /\ loads'[n].filesz \in Int /\ loads'[n].memsz \in Int
      /\ ls[n].filesz <= loads'[n].filesz /\ VEnd(ls[n]) <= VEnd(loads'[n])
      /\ k[1] # CatRWZero /\ nv - ls[n].vaddr = nf - ls[n].offset =>
           loads'[n].filesz = loads'[n].memsz
  <2> DEFINE x == ls[n].vaddr
             y == ls[n].offset
             w == v'
             g == f'
             z == ls[n].filesz
             p == VEnd(ls[n])
  <2>1. /\ x \in Nat /\ y \in Nat /\ w \in Nat /\ g \in Nat /\ w >= nv /\ g >= nf
        /\ loads'[n].memsz = w - x /\ loads'[n].filesz = g - y
        /\ g = IF k[1] = CatRWZero THEN nf ELSE nf + (w - nv)
        /\ VEnd(loads'[n]) = w /\ p <= nv /\ p \in Int /\ z <= nf - y /\ z \in Int
    BY <1>1, <1>2, <1>3, <1>4, <1>5, <1>6 DEF VEnd
  <2>2. nv - ls[n].vaddr = nv - x /\ nf - ls[n].offset = nf - y OBVIOUS
  <2> HIDE DEF x, y, w, g, z, p
  <2>3. loads'[n].filesz \in Int /\ loads'[n].memsz \in Int BY <2>1
  <2>4. z <= loads'[n].filesz /\ p <= VEnd(loads'[n]) BY <2>1
  <2>5. ASSUME k[1] # CatRWZero, nv - x = nf - y PROVE loads'[n].filesz = loads'[n].memsz
    <3>1. g = nf + (w - nv) BY <2>1, <2>5
    <3>2. g - y = w - x BY <2>1, <2>5, <3>1
    <3>3. QED BY <2>1, <3>2
  <2>6. QED BY <2>2, <2>3, <2>4, <2>5 DEF z, p
<1>10. LoadsApart(loads)'
  <2> SUFFICES ASSUME NEW i \in DOMAIN loads', NEW j \in DOMAIN loads', i < j
               PROVE  PageBetween(VEnd(loads'[i]), loads'[j].vaddr)
                      /\ FEnd(loads'[i]) <= loads'[j].offset
    BY DEF LoadsApart, PageBetween, VEnd, FEnd
  <2>1. i \in DOMAIN ls /\ j \in DOMAIN ls /\ i # n BY <1>1, <1>3
  <2>2. loads'[i] = ls[i] /\ loads'[j].vaddr = ls[j].vaddr /\ loads'[j].offset = ls[j].offset
    BY <1>1, <2>1
  <2>3. QED BY <2>1, <2>2 DEF LoadsApart
<1>11. LoadsWell(loads)'
  <2> SUFFICES ASSUME NEW i \in DOMAIN loads'
               PROVE  /\ loads'[i].align # 0 /\ loads'[i].memsz >= 0 /\ loads'[i].filesz >= 0
                      /\ loads'[i].offset % loads'[i].align = loads'[i].vaddr % loads'[i].align
    BY DEF LoadsWell
  <2>1. i \in DOMAIN ls BY <1>1
  <2>2. /\ loads'[i].align # 0
        /\ loads'[i].offset % loads'[i].align = loads'[i].vaddr % loads'[i].align
    BY <1>1, <2>1 DEF LoadsWell
  <2>3. loads'[i].memsz >= 0 /\ loads'[i].filesz >= 0
    <3>1. CASE i = n BY <1>1, <1>2, <1>3, <1>4, <1>5, <3>1, SMTT(30)
    <3>2. CASE i # n BY <1>1, <2>1, <3>2 DEF LoadsWell
    <3>3. QED BY <3>1, <3>2
  <2>4. QED BY <2>2, <2>3
<1>12. LoadsAbove(loads)'
  BY <1>1 DEF LoadsAbove, PageBetween, VEnd
<1>13. Placed' \subseteq Placed \cup {k} /\ Placed \subseteq Keys \ {k} /\ Placed' \subseteq Keys
  BY <1>2, <1>7 DEF Placed
<1>14. PlacedHeld(loads)'
  <2> SUFFICES ASSUME NEW j \in Placed'
               PROVE  \E m \in DOMAIN loads' : Holds(loads[m], j)'
    BY DEF PlacedHeld
  <2>1. CASE j = k
    <3>1. ls[n].flags = FlagsOf(k[1]) OBVIOUS
    <3>2. loads'[n].vaddr <= bucket'[k].start /\ bucket'[k].end <= VEnd(loads'[n])
      BY <1>1, <1>2, <1>3, <1>4, <1>5, <1>6
    <3>3. k[1] # CatRWZero => bucket'[k].end - loads'[n].vaddr <= loads'[n].filesz
      <4> SUFFICES ASSUME k[1] # CatRWZero
                   PROVE  bucket'[k].end - loads'[n].vaddr <= loads'[n].filesz
        OBVIOUS
      <4>1. nv - ls[n].vaddr = nf - ls[n].offset BY <1>9
      <4>2. loads'[n].filesz = loads'[n].memsz BY <1>s, <4>1
      <4>3. loads'[n].vaddr \in Nat /\ loads'[n].memsz = v' - loads'[n].vaddr BY <1>1, <1>3, <1>4
      <4>4. QED BY <1>2, <4>2, <4>3
    <3>4. QED BY <1>1, <1>3, <2>1, <3>1, <3>2, <3>3 DEF Holds, VEnd
  <2>2. CASE j # k
    <3>1. j \in Placed /\ bucket'[j] = bucket[j] /\ j \in Keys BY <1>2, <1>13, <2>2
    <3>2. PICK m \in DOMAIN ls : Holds(ls[m], j) BY <3>1 DEF PlacedHeld
    <3>3. loads'[m].flags = ls[m].flags /\ loads'[m].vaddr = ls[m].vaddr BY <1>1
    <3>4. loads'[m].filesz \in Int /\ loads'[m].memsz \in Int
          /\ ls[m].filesz <= loads'[m].filesz /\ VEnd(ls[m]) <= VEnd(loads'[m])
      <4>1. CASE m = n BY <1>s, <4>1
      <4>2. CASE m # n BY <1>1, <1>4, <4>2 DEF VEnd
      <4>3. QED BY <4>1, <4>2
    <3>5. bucket[j].end \in Nat /\ bucket[j].start \in Nat BY <1>0, <3>1, BucketTypes
    <3>6. VEnd(ls[m]) \in Int /\ VEnd(loads'[m]) \in Int BY <1>4, <3>3, <3>4, SMTT(30) DEF VEnd
    <3>7. /\ loads'[m].flags = FlagsOf(j[1])
          /\ loads'[m].vaddr <= bucket'[j].start /\ bucket'[j].end <= VEnd(loads'[m])
          /\ j[1] # CatRWZero => bucket'[j].end - loads'[m].vaddr <= loads'[m].filesz
      <4> DEFINE x == ls[m].vaddr
                 z == ls[m].filesz
                 p == VEnd(ls[m])
                 q == VEnd(loads'[m])
                 h == loads'[m].filesz
      <4>1. /\ x \in Nat /\ z \in Int /\ p \in Int /\ q \in Int /\ h \in Int /\ z <= h /\ p <= q
            /\ x <= bucket[j].start /\ bucket[j].end <= p
            /\ j[1] # CatRWZero => bucket[j].end - x <= z
        BY <1>4, <3>2, <3>4, <3>6 DEF Holds
      <4>2. loads'[m].vaddr = x /\ loads'[m].flags = FlagsOf(j[1]) BY <3>2, <3>3 DEF Holds
      <4> HIDE DEF x, z, p, q
      <4>3. bucket'[j].end <= q BY <3>1, <3>5, <4>1
      <4>4. QED BY <3>1, <3>5, <4>1, <4>2, <4>3 DEF q
    <3>8. QED BY <1>1, <3>7 DEF Holds, VEnd
  <2>3. QED BY <2>1, <2>2
<1>15. Filed' = Filed /\ Filed \subseteq Keys \ {k}
  BY <1>7 DEF Filed
<1>16. \A x \in Nat : Behind(x) => Behind(x)'
  BY <1>2, <1>15 DEF Behind
<1>17. LoadsBehind(loads, v)'
  <2> SUFFICES ASSUME NEW m \in DOMAIN loads', ~ Behind(loads[m].offset)'
               PROVE  /\ loads'[m].offset = loads'[m].vaddr
                      /\ Behind(v)' /\ \A j \in Placed' : Behind(bucket[j].start)'
    BY DEF LoadsBehind
  <2>1. m \in DOMAIN ls /\ loads'[m].offset = ls[m].offset /\ loads'[m].vaddr = ls[m].vaddr
    BY <1>1
  <2>2. ~ Behind(ls[m].offset)
    <3>1. ls[m].offset \in Nat BY <1>4, <2>1
    <3>2. Behind(ls[m].offset) => Behind(ls[m].offset)' BY <1>16, <3>1
    <3>3. QED BY <1>15, <2>1, <3>2 DEF Behind
  <2>3. /\ ls[m].offset = ls[m].vaddr /\ Behind(nv)
        /\ \A j \in Placed : Behind(bucket[j].start)
    BY <2>1, <2>2 DEF LoadsBehind
  <2>4. original.size \in Nat /\ \A j \in Filed : bucket[j].end \in Nat
    BY <1>0, <1>15, OriginalType, BucketTypes
  <2>5. \A x \in Nat : x >= nv => Behind(x)'
    BY <1>2, <1>15, <2>3, <2>4 DEF Behind
  <2>6. Behind(v)' BY <1>2, <2>5 DEF Behind
  <2>7. ASSUME NEW j \in Placed' PROVE Behind(bucket[j].start)'
    <3>1. bucket'[j].start \in Nat BY <1>2, <1>13
    <3>2. CASE j = k BY <1>2, <2>5, <3>1, <3>2 DEF Behind
    <3>3. CASE j # k
      <4>1. j \in Placed /\ bucket'[j] = bucket[j] /\ bucket[j].start \in Nat
        BY <1>2, <1>13, <3>1, <3>3
      <4>2. Behind(bucket[j].start) BY <2>3, <4>1
      <4>3. QED BY <1>2, <1>15, <4>1, <4>2 DEF Behind
    <3>4. QED BY <3>2, <3>3
  <2>8. QED BY <2>1, <2>3, <2>6, <2>7
<1>18. AtCursors'
  <2>1. LastLoad' = loads'[n] BY <1>1 DEF LastLoad
  <2>2. ASSUME \A j \in LaidOut' : j[1] # CatRWZero
        PROVE  loads'[n].filesz = loads'[n].memsz
    <3>1. nv - ls[n].vaddr = nf - ls[n].offset /\ k[1] # CatRWZero BY <1>7, <2>2
    <3>2. QED BY <1>s, <3>1
  <2>3. QED BY <1>6, <2>1, <2>2 DEF AtCursors, VEnd, FEnd, LastLoad
<1>19. LaidInOrder'
  <2>1. LastLoad' = loads'[n] BY <1>1 DEF LastLoad
  <2>2. \A i \in LaidOut', j \in todo' : Before(i, j)
    BY <1>0, <1>7 DEF GeometryInv, LaidInOrder
  <2>3. k[1] \in Int BY KeyType DEF Categories
  <2>4. \A j \in LaidOut' : j[1] <= k[1] BY <1>7, <1>8, <2>3
  <2>5. k \in LaidOut' /\ LastLoad'.flags = FlagsOf(k[1]) BY <1>1, <1>3, <1>7, <2>1
  <2>6. QED BY <1>1, <2>2, <2>4, <2>5 DEF LaidInOrder, LastLoad
<1>20. OriginalBelow'
  <2>1. v' >= v /\ f' >= f BY <1>0, <1>2
  <2>2. original.size \in Nat BY <1>0, OriginalType
  <2>3. \A i \in DOMAIN original.loads : PageBetween(VEnd(original.loads[i]), v')
    <3> SUFFICES ASSUME NEW i \in DOMAIN original.loads
                 PROVE  PageBetween(VEnd(original.loads[i]), v')
      OBVIOUS
    <3>1. PageBetween(VEnd(original.loads[i]), v) BY DEF GeometryInv, OriginalBelow
    <3>2. original.loads \in Seq(LoadRecord) BY <1>0, OriginalType
    <3>3. VEnd(original.loads[i]) \in Int BY <1>0, <3>2, OriginalType, SMTT(30) DEF VEnd
    <3>4. QED BY <1>0, <1>2, <2>1, <3>1, <3>3, BetweenMore
  <2>4. QED BY <1>0, <1>2, <2>1, <2>2, <2>3 DEF GeometryInv, OriginalBelow, PageBetween, VEnd
<1>21. PageInv' BY DEF GeometryInv, PageInv
<1>22. FileSize' /\ (phase' = "scan" => loads' = << >>) BY DEF FileSize
<1>23. QED
  BY <1>10, <1>11, <1>12, <1>14, <1>17, <1>18, <1>19, <1>20, <1>21, <1>22 DEF GeometryInv

\* The PT_LOADs are below the cursors, and so is the room for categories other than f.
LEMMA LoadsBelow ==
  ASSUME DisjointInv, GeometryInv, NEW i \in DOMAIN loads
  PROVE  /\ VEnd(loads[i]) \in Int /\ VEnd(loads[i]) <= v
         /\ FEnd(loads[i]) \in Int /\ FEnd(loads[i]) <= f
<1> DEFINE n == Len(loads)
<1>1. loads \in Seq(NewLoad) /\ loads # << >> /\ v \in Nat /\ f \in Nat
  BY DEF DisjointInv, TypeInv, TypeOK
<1>2. n \in DOMAIN loads /\ DOMAIN loads = 1..n BY <1>1, LastIn
<1>3. \A j \in DOMAIN loads : /\ loads[j].offset \in Nat /\ loads[j].vaddr \in Nat
                              /\ loads[j].filesz \in Int /\ loads[j].memsz \in Int
  BY <1>1, LoadTypes
<1>4. VEnd(loads[i]) \in Int /\ FEnd(loads[i]) \in Int BY <1>3 DEF VEnd, FEnd
<1>5. VEnd(loads[n]) = v /\ FEnd(loads[n]) = f BY <1>1 DEF GeometryInv, AtCursors, LastLoad
<1>6. CASE i = n BY <1>4, <1>5, <1>6
<1>7. CASE i # n
  <2>1. i < n BY <1>2, <1>7
  <2>2. PageBetween(VEnd(loads[i]), loads[n].vaddr) /\ FEnd(loads[i]) <= loads[n].offset
    BY <1>2, <2>1 DEF GeometryInv, LoadsApart
  <2>3. VEnd(loads[i]) <= loads[n].vaddr BY <1>2, <1>3, <1>4, <2>2 DEF PageBetween
  <2>4. loads[n].vaddr <= VEnd(loads[n]) /\ loads[n].offset <= FEnd(loads[n])
    BY <1>2, <1>3 DEF GeometryInv, LoadsWell, VEnd, FEnd
  <2>5. loads[n].vaddr \in Nat /\ loads[n].offset \in Nat BY <1>2, <1>3
  <2>6. QED BY <1>1, <1>4, <1>5, <2>2, <2>3, <2>4, <2>5
<1>8. QED BY <1>6, <1>7

LEMMA GeometryMore ==
  ASSUME DisjointInv, GeometryInv, NEW k \in Keys, LayoutMore(k)
  PROVE  GeometryInv'
<1> DEFINE n == Len(loads)
<1>1. /\ phase = "layout" /\ First(k) /\ k[1] # CatF /\ todo' = todo \ {k}
      /\ UNCHANGED <<original, inUse, phase, page>> /\ Extend(loads, k, v, f)
      /\ loads # << >> /\ loads[n].flags = FlagsOf(k[1])
  BY DEF LayoutMore, NeedsSegment
<1>2. loads \in Seq(NewLoad) /\ v \in Nat /\ f \in Nat BY DEF DisjointInv, TypeInv, TypeOK
<1>3. n \in DOMAIN loads BY <1>1, <1>2, LastIn
<1>4. VEnd(loads[n]) = v /\ FEnd(loads[n]) = f
      /\ ((\A j \in LaidOut : j[1] # CatRWZero) => loads[n].filesz = loads[n].memsz)
  BY <1>1 DEF GeometryInv, AtCursors, LastLoad
<1>5. /\ loads[n].offset \in Nat /\ loads[n].vaddr \in Nat
      /\ loads[n].filesz \in Int /\ loads[n].memsz \in Int
  BY <1>2, <1>3, LoadTypes
<1>6. (\A j \in LaidOut : j[1] # CatRWZero) => v - loads[n].vaddr = f - loads[n].offset
  BY <1>2, <1>4, <1>5 DEF VEnd, FEnd
<1>7. LoadsApart(loads) /\ LoadsWell(loads) /\ LoadsAbove(loads) /\ PlacedHeld(loads)
      /\ LoadsBehind(loads, v)
  BY DEF GeometryInv
<1>8. VEnd(loads[n]) <= v /\ FEnd(loads[n]) <= f /\ v >= v /\ f >= f BY <1>2, <1>4
<1>9. QED BY <1>1, <1>2, <1>6, <1>7, <1>8, GeometryExtend

\* The file offset and the address at which a new PT_LOAD begins agree modulo its alignment.
LEMMA SegmentCongruent ==
  ASSUME TypeInv, GeometryInv, NEW fl \in {"r", "rx", "rw"}
  PROVE  SegF(fl) % SegAlign(fl) = (SegV(fl) + Excess(fl)) % SegAlign(fl)
<1> DEFINE a == SegAlign(fl)
           s == SegV(fl)
           e == Excess(fl)
           m == AlignUp(v, page)
<1>1. TypeOK /\ f \in Nat /\ v \in Nat /\ page \in Nat \ {0} BY DEF TypeInv, TypeOK
<1>2. a \in Nat \ {0} /\ s \in Nat /\ e \in Nat BY <1>1, SegmentGE
<1>3. m \in Int BY <1>1, AlignUpGE
<1>4. s % a = f % a
  <2>1. s = CongruentFrom(m, f, a) BY DEF SegV
  <2> HIDE DEF m, a
  <2>2. (CongruentFrom(m, f, a) % a) = (f % a) BY <1>1, <1>2, <1>3, CongruentMod
  <2>3. QED BY <2>1, <2>2
<1>5. HasFirstLoad(fl) =>
        /\ original.loads[1].vaddr \in Nat
        /\ original.loads[1].offset \in Nat
        /\ original.loads[1].align \in Nat
  <2>1. HasFirstLoad(fl) => 1 \in 1..Len(original.loads)
    BY <1>1, OriginalType DEF HasFirstLoad
  <2>2. QED BY <1>1, <2>1, OriginalType
<1>6. CASE OffsetNegative(fl)
  <2> DEFINE r == RequiredOffset(fl)
             lo == f - (r - (r % page))
  <2>1. HasFirstLoad(fl) BY <1>6 DEF OffsetNegative
  <2>2. r \in Int BY <1>1, <1>2, <1>5, <2>1 DEF RequiredOffset
  <2>3. r % page \in Int BY <1>1, <2>2, ModRange
  <2>4. lo \in Int BY <1>1, <2>2, <2>3
  <2>5. SegF(fl) = CongruentFrom(lo, s, a) /\ e = 0 BY <1>6 DEF SegF, Excess
  <2> HIDE DEF lo, s, a
  <2>6. (CongruentFrom(lo, s, a) % a) = (s % a) BY <1>2, <2>4, CongruentMod
  <2>7. s + e = s BY <1>2, <2>5
  <2>8. QED BY <2>5, <2>6, <2>7 DEF s, a
<1>7. CASE ~ OffsetNegative(fl) /\ e = 0
  <2>1. SegF(fl) = f /\ s + e = s BY <1>2, <1>7 DEF SegF
  <2>2. QED BY <1>4, <2>1
<1>8. CASE ~ OffsetNegative(fl) /\ e # 0
  <2>1. /\ HasFirstLoad(fl) /\ SegF(fl) = f /\ e % page = 0
        /\ e = RequiredOffset(fl) - original.loads[1].offset
    BY <1>8 DEF Excess, SegF
  <2>2. CASE a = page
    <3> DEFINE q == e \div a
    <3>0. (e % a) = 0 /\ s \in Int /\ e \in Int /\ a \in Nat \ {0} BY <1>2, <2>1, <2>2
    <3> HIDE DEF s, e, a
    <3>1. q \in Int /\ e = a * q + (e % a) BY <3>0, DivMod
    <3> HIDE DEF q
    <3>2. s + e = a * q + s BY <3>0, <3>1
    <3>3. ((a * q + s) % a) = (s % a) BY <3>0, <3>1, ModShift
    <3>4. QED BY <1>4, <2>1, <3>2, <3>3 DEF a, s, e
  <2>3. CASE a # page
    <3> DEFINE x == original.loads[1].vaddr
               y == original.loads[1].offset
               d == f - y
    <3>1. a = original.loads[1].align BY <2>1, <2>3 DEF SegAlign, Larger
    <3>2. 1 \in DOMAIN original.loads /\ original \in Files
      BY <1>1, <2>1, OriginalType DEF HasFirstLoad, TypeOK
    <3>3. (y % a) = (x % a) BY <1>2, <3>1, <3>2, FileAssumption
    <3>4. x \in Int /\ y \in Int /\ d \in Int BY <1>1, <1>5, <2>1
    <3>5. e = (x + f - s) - y BY <2>1 DEF RequiredOffset
    <3>6. s + e = x + d /\ f = y + d
      <4>1. x \in Int /\ y \in Int /\ s \in Int /\ f \in Int BY <1>1, <1>2, <3>4
      <4> HIDE DEF x, y, s, e
      <4>2. QED BY <3>5, <4>1
    <3> HIDE DEF x, y, d, a, s, e
    <3>7. ((y + d) % a) = ((x + d) % a) BY <1>2, <3>3, <3>4, ModSum
    <3>8. QED BY <2>1, <3>6, <3>7 DEF a, s, e
  <2>4. QED BY <2>2, <2>3
<1>9. QED BY <1>6, <1>7, <1>8

\* A new PT_LOAD begins on a page of its own, behind the others, or is that which maps
\* the ELF header of a file that had no program header.
LEMMA GeometrySegment ==
  ASSUME DisjointInv, GeometryInv, NEW k \in Keys, LayoutSegment(k)
  PROVE  GeometryInv'
<1> DEFINE fl == FlagsOf(k[1])
           sv == SegV(fl) + Excess(fl)
           sf == SegF(fl)
           b == Bump(sv, k[2])
           nv == sv + b
           nf == sf + b
           s == SegmentFor(fl, k[2])
           ls == Append(loads, s)
           n == Len(ls)
           m == AlignUp(v, page)
           whole == nf = nv /\ original.phdrs = 0 /\ loads = << >> /\ fl = "r"
<1>0. /\ TypeInv /\ TypeOK /\ v \in Nat /\ f \in Nat /\ page \in Nat \ {0}
      /\ loads \in Seq(NewLoad) /\ inUse \subseteq Keys
  BY DEF DisjointInv, TypeInv, TypeOK
<1>1. /\ phase = "layout" /\ First(k) /\ k[1] # CatF /\ todo' = todo \ {k}
      /\ UNCHANGED <<original, inUse, phase, page>> /\ Extend(ls, k, nv, nf)
  BY DEF LayoutSegment
<1>2. k[2] \in Nat \ {0} /\ fl \in {"r", "rx", "rw"} BY KeyType DEF FlagsOf
<1>3. sv \in Nat /\ sf \in Nat /\ sf >= f /\ SegV(fl) \in Nat /\ sv >= SegV(fl)
      /\ SegAlign(fl) \in Nat \ {0}
  BY <1>0, <1>2, SegmentGE, SMTT(30)
<1>4. b \in Nat BY <1>2, <1>3, AlignUpNat
<1>5. nv \in Nat /\ nf \in Nat /\ nv >= sv /\ nf >= f BY <1>0, <1>3, <1>4
<1>6. m \in Int /\ v <= m /\ SegV(fl) >= m
  <2>1. m \in Int /\ v <= m
    <3>1. v \in Int /\ page \in Nat \ {0} BY <1>0
    <3>2. m \in Int /\ m >= v BY <3>1, AlignUpGE
    <3> HIDE DEF m
    <3>3. QED BY <3>1, <3>2
  <2>2. SegV(fl) = CongruentFrom(m, f, SegAlign(fl)) BY DEF SegV
  <2> HIDE DEF m
  <2>3. CongruentFrom(m, f, SegAlign(fl)) >= m BY <1>0, <1>3, <2>1, CongruentGE
  <2>4. QED BY <2>1, <2>2, <2>3
<1>7. nv >= v /\ m <= nv BY <1>0, <1>3, <1>5, <1>6
<1>8. PageBetween(v, nv)
  <2>1. (m % page) = 0 BY <1>0, AlignUpMod
  <2>2. (page % PageSize) = 0 /\ PageSize \in Nat \ {0}
    BY AllocAssumption DEF GeometryInv, PageInv
  <2> HIDE DEF m, nv
  <2>3. (m % PageSize) = 0 BY <1>0, <1>6, <2>1, <2>2, ModTrans
  <2>4. m \in v..nv BY <1>0, <1>5, <1>6, <1>7
  <2>5. QED BY <2>3, <2>4 DEF PageBetween
<1>9. /\ s \in NewLoad /\ s.flags = fl /\ s.memsz = 0 /\ s.filesz = 0 /\ s.align = SegAlign(fl)
      /\ s.offset = (IF whole THEN 0 ELSE nf) /\ s.vaddr = (IF whole THEN 0 ELSE nv)
  BY <1>0, <1>2, SegmentType DEF SegmentFor
<1>10. ls \in Seq(NewLoad) /\ ls # << >> /\ n = Len(loads) + 1 /\ DOMAIN ls = 1..n /\ ls[n] = s
       /\ Len(loads) \in Nat /\ DOMAIN loads = 1..Len(loads)
       /\ (\A i \in DOMAIN loads : ls[i] = loads[i]) /\ n \notin DOMAIN loads
  BY <1>0, <1>9
<1>c. (nf % SegAlign(fl)) = (nv % SegAlign(fl))
  <2>1. (sf % SegAlign(fl)) = (sv % SegAlign(fl)) BY <1>0, <1>2, SegmentCongruent
  <2> DEFINE al == SegAlign(fl)
  <2>2. sf \in Int /\ sv \in Int /\ b \in Int /\ al \in Nat \ {0} BY <1>3, <1>4
  <2> HIDE DEF sf, sv, b, al
  <2>3. (sf % al) = (sv % al) BY <2>1 DEF al
  <2>4. ((sf + b) % al) = ((sv + b) % al) BY <2>2, <2>3, ModSum
  <2>5. QED BY <2>4 DEF al
<1> HIDE DEF s, ls, sv, sf, b, nv, nf, m
<1>11. LoadsApart(ls)
  <2> SUFFICES ASSUME NEW i \in DOMAIN ls, NEW j \in DOMAIN ls, i < j
               PROVE  PageBetween(VEnd(ls[i]), ls[j].vaddr) /\ FEnd(ls[i]) <= ls[j].offset
    BY DEF LoadsApart
  <2>1. i \in DOMAIN loads /\ ls[i] = loads[i] /\ (j \in DOMAIN loads \/ j = n) BY <1>10
  <2>2. CASE j \in DOMAIN loads
    BY <1>10, <2>1, <2>2 DEF GeometryInv, LoadsApart
  <2>3. CASE j = n
    <3>1. ls[j].vaddr = nv /\ ls[j].offset = nf BY <1>9, <1>10, <2>1, <2>3
    <3>2. /\ VEnd(loads[i]) \in Int /\ VEnd(loads[i]) <= v
          /\ FEnd(loads[i]) \in Int /\ FEnd(loads[i]) <= f
      BY <2>1, LoadsBelow
    <3>3. PageBetween(VEnd(loads[i]), nv) BY <1>0, <1>5, <1>8, <3>2 DEF PageBetween
    <3>4. FEnd(loads[i]) <= nf BY <1>0, <1>5, <3>2
    <3>5. QED BY <2>1, <3>1, <3>3, <3>4
  <2>4. QED BY <2>1, <2>2, <2>3
<1>12. LoadsWell(ls)
  <2> SUFFICES ASSUME NEW i \in DOMAIN ls
               PROVE  /\ ls[i].align # 0 /\ ls[i].memsz >= 0 /\ ls[i].filesz >= 0
                      /\ (ls[i].offset % ls[i].align) = (ls[i].vaddr % ls[i].align)
    BY DEF LoadsWell
  <2>1. CASE i = n BY <1>3, <1>9, <1>10, <1>c, <2>1
  <2>2. CASE i # n
    <3>1. i \in DOMAIN loads /\ ls[i] = loads[i] BY <1>10, <2>2
    <3>2. QED BY <3>1 DEF GeometryInv, LoadsWell
  <2>3. QED BY <2>1, <2>2
<1>13. LoadsAbove(ls)
  <2> SUFFICES ASSUME NEW i \in DOMAIN ls, NEW j \in DOMAIN original.loads
               PROVE  PageBetween(VEnd(original.loads[j]), ls[i].vaddr)
    BY DEF LoadsAbove
  <2>0. original.loads \in Seq(LoadRecord) /\ j \in 1..Len(original.loads)
    BY <1>0, OriginalType
  <2>1. CASE i = n
    <3>1. ~ whole
      <4>1. original \in Files BY <1>0 DEF TypeOK
      <4>2. Len(original.loads) <= original.phdrs BY <4>1, AllocAssumption
      <4>3. Len(original.loads) \in Nat BY <2>0
      <4>4. QED BY <2>0, <4>2, <4>3
    <3>2. ls[i].vaddr = nv BY <1>9, <1>10, <2>1, <3>1
    <3>3. PageBetween(VEnd(original.loads[j]), v) BY <1>1 DEF GeometryInv, OriginalBelow
    <3>4. VEnd(original.loads[j]) \in Int BY <1>0, <2>0, OriginalType DEF VEnd
    <3>5. QED BY <1>0, <1>5, <1>7, <3>2, <3>3, <3>4, BetweenMore
  <2>2. CASE i # n
    <3>1. i \in DOMAIN loads /\ ls[i] = loads[i] BY <1>10, <2>2
    <3>2. QED BY <3>1 DEF GeometryInv, LoadsAbove
  <2>3. QED BY <2>1, <2>2
<1>14. PlacedHeld(ls)
  <2> SUFFICES ASSUME NEW j \in Placed PROVE \E i \in DOMAIN ls : Holds(ls[i], j)
    BY DEF PlacedHeld
  <2>1. PICK i \in DOMAIN loads : Holds(loads[i], j) BY DEF GeometryInv, PlacedHeld
  <2>2. i \in DOMAIN ls /\ ls[i] = loads[i] BY <1>10
  <2>3. QED BY <2>1, <2>2
<1>15. LoadsBehind(ls, nv)
  <2>1. original.size \in Nat /\ \A j \in Filed : bucket[j].end \in Nat
    <3>1. Filed \subseteq Keys BY <1>0 DEF Filed, LaidOut
    <3>2. QED BY <1>0, <3>1, OriginalType, BucketTypes
  <2>2. original.size <= f /\ \A j \in Filed : bucket[j].end <= f
    BY <1>1 DEF GeometryInv, OriginalBelow, DisjointInv, Below, Filed, LaidOut
  <2>3. Behind(nf) BY <1>0, <1>5, <2>1, <2>2 DEF Behind
  <2>4. Behind(v) => Behind(nv) BY <1>0, <1>5, <1>7, <2>1 DEF Behind
  <2> SUFFICES ASSUME NEW i \in DOMAIN ls, ~ Behind(ls[i].offset)
               PROVE  /\ ls[i].offset = ls[i].vaddr
                      /\ Behind(nv) /\ \A j \in Placed : Behind(bucket[j].start)
    BY DEF LoadsBehind
  <2>5. CASE i = n
    <3>1. whole BY <1>9, <1>10, <2>3, <2>5
    <3>2. nf = nv /\ loads = << >> /\ ls[i].offset = ls[i].vaddr BY <1>9, <1>10, <2>5, <3>1
    <3>3. Placed = {} BY <1>1, <3>2 DEF GeometryInv, LaidInOrder, Placed
    <3>4. QED BY <2>3, <3>2, <3>3
  <2>6. CASE i # n
    <3>1. i \in DOMAIN loads /\ ls[i] = loads[i] BY <1>10, <2>6
    <3>2. QED BY <2>4, <3>1 DEF GeometryInv, LoadsBehind
  <2>7. QED BY <2>5, <2>6
<1>16. VEnd(ls[n]) <= nv /\ FEnd(ls[n]) <= nf /\ nv - ls[n].vaddr = nf - ls[n].offset
  BY <1>5, <1>9, <1>10 DEF VEnd, FEnd
<1>17. ls[n].flags = FlagsOf(k[1]) BY <1>9, <1>10
<1>18. QED
  BY <1>1, <1>5, <1>7, <1>10, <1>11, <1>12, <1>13, <1>14, <1>15, <1>16, <1>17, GeometryExtend

\* The room of category f.
LEMMA FiledStep ==
  ASSUME DisjointInv, GeometryInv, FiledInv, [Next]_vars
  PROVE  FiledInv'
<1>0. /\ TypeInv /\ TypeOK /\ f \in Nat /\ v \in Nat /\ original.size \in Nat
      /\ inUse \subseteq Keys
      /\ bucket \in [Keys -> [start : Nat, current : Nat, end : Nat]]
      /\ Filed \subseteq Keys /\ TypeInv'
  <2>1. TypeInv' BY TypeStep DEF DisjointInv
  <2>2. QED BY <2>1, OriginalType DEF DisjointInv, TypeInv, TypeOK, Filed, LaidOut
<1>f. f' \in Nat /\ Filed' \subseteq Keys
  BY <1>0 DEF TypeInv, TypeOK, Filed, LaidOut
<1>1. ASSUME NEW k \in Keys, NEW size \in Sizes, Alloc(k, size) PROVE FiledInv'
  <2>1. /\ UNCHANGED <<original, todo, f>> /\ inUse' = inUse \cup {k}
        /\ \A j \in Keys : bucket'[j].start = bucket[j].start /\ bucket'[j].end = bucket[j].end
    BY <1>0, <1>1 DEF Alloc, cursor
  <2>2. k \notin inUse => ~(bucket[k].start < bucket[k].end) BY <1>0, BucketTypes
  <2>3. \A j \in Filed' : j \in Filed \/ (j = k /\ k \notin inUse)
    BY <2>1 DEF Filed, LaidOut
  <2>4. QED BY <1>f, <2>1, <2>2, <2>3 DEF FiledInv
<1>2. ASSUME NEW k \in Keys, LayoutFile(k) PROVE FiledInv'
  <2> DEFINE s == AlignUp(f, k[2])
  <2>1. Need(k) \in Nat /\ k[2] \in Nat \ {0} BY <1>0, NeedType, KeyType
  <2>2. s \in Nat /\ s >= f BY <1>0, <2>1, AlignUpNat
  <2>3. /\ bucket' = [bucket EXCEPT ![k] = [start |-> s, current |-> s, end |-> s + Need(k)]]
        /\ f' = s + Need(k) /\ phase = "layout" /\ todo' = todo \ {k}
        /\ UNCHANGED <<original, inUse>>
    BY <1>2 DEF LayoutFile
  <2> HIDE DEF s
  <2>4. bucket'[k].start = s /\ bucket'[k].end = s + Need(k)
        /\ \A j \in Keys \ {k} : bucket'[j] = bucket[j]
    BY <1>0, <2>3
  <2>5. original.size <= f BY <2>3 DEF GeometryInv, OriginalBelow
  <2>6. original.size <= s /\ f <= f' BY <1>0, <2>1, <2>2, <2>3, <2>5
  <2>7. \A j \in Filed' : j = k \/ (j \in Filed /\ j \in Keys \ {k})
    BY <1>f, <2>3 DEF Filed, LaidOut
  <2>8. SUFFICES ASSUME NEW j \in Filed', bucket'[j].start < bucket'[j].end
                 PROVE  original.size <= bucket'[j].start /\ bucket'[j].end <= f'
    BY <2>3 DEF FiledInv
  <2>9. CASE j = k BY <1>f, <2>3, <2>4, <2>6, <2>9
  <2>10. CASE j # k
    <3>1. j \in Filed /\ bucket'[j] = bucket[j] /\ bucket[j].end \in Nat
      BY <1>0, <2>4, <2>7, <2>10
    <3>2. QED BY <1>0, <1>f, <2>6, <2>8, <3>1 DEF FiledInv
  <2>11. QED BY <2>9, <2>10
<1>3. ASSUME NEW k \in Keys, LayoutMore(k) \/ LayoutSegment(k) PROVE FiledInv'
  <2>1. k[1] # CatF /\ todo' = todo \ {k} /\ UNCHANGED <<original, inUse>>
    BY <1>3 DEF LayoutMore, LayoutSegment
  <2>2. f' >= f /\ \A j \in Keys \ {k} : bucket'[j] = bucket[j]
    <3>0. k \in inUse BY <1>0, <1>3 DEF LayoutMore, LayoutSegment, First, TypeOK
    <3>1. CASE LayoutMore(k)
      <4>1. loads \in Seq(NewLoad) /\ loads # << >> /\ Extend(loads, k, v, f)
        BY <1>0, <3>1 DEF LayoutMore, NeedsSegment, TypeOK
      <4>2. QED BY <1>0, <3>0, <4>1, ExtendType
    <3>2. CASE LayoutSegment(k)
      <4> DEFINE fl == FlagsOf(k[1])
                 sv == SegV(fl) + Excess(fl)
                 b == Bump(sv, k[2])
                 nv == sv + b
                 nf == SegF(fl) + b
                 ls == Append(loads, SegmentFor(fl, k[2]))
      <4>1. k[2] \in Nat \ {0} /\ fl \in {"r", "rx", "rw"} BY KeyType DEF FlagsOf
      <4>2. sv \in Nat /\ SegF(fl) \in Nat /\ SegF(fl) >= f BY <1>0, <4>1, SegmentGE
      <4>3. b \in Nat BY <4>1, <4>2, AlignUpNat
      <4>4. nv \in Nat /\ nf \in Nat /\ nf >= f BY <1>0, <4>2, <4>3
      <4>5. ls \in Seq(NewLoad) /\ ls # << >>
        <5>1. SegmentFor(fl, k[2]) \in NewLoad BY <1>0, <4>1, SegmentType
        <5>2. QED BY <1>0, <5>1 DEF TypeOK
      <4>6. Extend(ls, k, nv, nf) BY <3>2 DEF LayoutSegment
      <4> HIDE DEF nv, nf, ls
      <4>7. f' >= nf /\ \A j \in Keys \ {k} : bucket'[j] = bucket[j]
        BY <1>0, <3>0, <4>4, <4>5, <4>6, ExtendType
      <4>8. QED BY <1>0, <1>f, <4>4, <4>7
    <3>3. QED BY <1>3, <3>1, <3>2
  <2>3. \A j \in Filed' : j \in Filed /\ j \in Keys \ {k}
    BY <1>0, <2>1 DEF Filed, LaidOut
  <2>4. \A j \in Filed' : bucket'[j] = bucket[j] /\ bucket[j].end \in Nat BY <1>0, <2>2, <2>3
  <2>5. QED BY <1>0, <1>f, <2>1, <2>2, <2>3, <2>4 DEF FiledInv
<1>4. CASE BeginRetry
  <2>1. Filed' = {} BY <1>4 DEF BeginRetry, Filed, LaidOut
  <2>2. QED BY <2>1 DEF FiledInv
<1>5. CASE ScanLoad \/ EndScan
  <2>1. phase = "scan" /\ inUse' = inUse /\ todo' = todo BY <1>5 DEF ScanLoad, EndScan
  <2>2. todo = inUse BY <2>1 DEF DisjointInv, Below
  <2>3. Filed' = {} BY <2>1, <2>2 DEF Filed, LaidOut
  <2>4. QED BY <2>3 DEF FiledInv
<1>6. CASE EndLayout \/ UNCHANGED vars
  <2>1. UNCHANGED <<original, bucket, inUse, todo, f>> BY <1>6 DEF EndLayout, vars
  <2>2. QED BY <2>1 DEF FiledInv, Filed, LaidOut
<1>7. QED BY <1>1, <1>2, <1>3, <1>4, <1>5, <1>6 DEF Next, Retry

-----------------------------------------------------------------------------
(* How many headers retry writes.                                           *)

LEMMA MadeType == Made \in Nat
BY DEF Made

LEMMA MadeGrows ==
  ASSUME LaidOut \subseteq LaidOut'
  PROVE  Made' \in Nat /\ Made' >= Made
BY DEF Made

\* A native file gets a header only when no bucket that is laid out has its protection.
LEMMA FreshFlags ==
  ASSUME DisjointInv, GeometryInv, NEW k \in Keys, ~ original.swapped, LayoutSegment(k),
         NEW j \in LaidOut, j[1] # CatF
  PROVE  FlagsOf(j[1]) # FlagsOf(k[1])
<1>1. phase = "layout" /\ k \in todo /\ k[1] # CatF /\ NeedsSegment(k)
  BY DEF LayoutSegment, First
<1>2. loads # << >> BY <1>1 DEF GeometryInv, LaidInOrder
<1>3. LastLoad.flags # FlagsOf(k[1]) BY <1>1, <1>2 DEF NeedsSegment, LastLoad
<1>4. PICK i \in LaidOut : i[1] # CatF /\ LastLoad.flags = FlagsOf(i[1]) /\ j[1] <= i[1]
  BY <1>1, <1>2 DEF GeometryInv, LaidInOrder
<1>5. i \in Keys /\ j \in Keys BY DEF DisjointInv, TypeInv, TypeOK, LaidOut
<1>6. i[1] \in 1..5 /\ j[1] \in 1..5 /\ k[1] \in 1..5
  BY <1>1, <1>4, <1>5, KeyType DEF Categories, CatF
<1>7. Before(i, k) BY <1>1, <1>4 DEF GeometryInv, LaidInOrder
<1>8. i[1] <= k[1] BY <1>6, <1>7 DEF Before
<1>9. FlagsOf(i[1]) # FlagsOf(k[1]) BY <1>3, <1>4
<1>10. QED BY <1>4, <1>6, <1>8, <1>9 DEF FlagsOf, CatRX, CatRW, CatRWZero

LEMMA MadeStep ==
  ASSUME DisjointInv, GeometryInv, LoadsMade, [Next]_vars
  PROVE  LoadsMade'
<1>0. /\ TypeInv /\ TypeOK /\ loads \in Seq(NewLoad) /\ Len(loads) \in Nat /\ inUse \subseteq Keys
      /\ v \in Nat /\ f \in Nat
  BY DEF DisjointInv, TypeInv, TypeOK
<1>1. ASSUME UNCHANGED original, Len(loads') = Len(loads), LaidOut \subseteq LaidOut'
      PROVE  LoadsMade'
  BY <1>0, <1>1, MadeType, MadeGrows DEF LoadsMade
<1>2. ASSUME NEW k \in Keys, NEW size \in Sizes, Alloc(k, size) PROVE LoadsMade'
  BY <1>1, <1>2 DEF Alloc, cursor, LaidOut
<1>3. CASE BeginRetry
  <2>1. Len(loads') = 0 BY <1>3 DEF BeginRetry
  <2>2. Made' \in Nat BY DEF Made
  <2>3. QED BY <2>1, <2>2 DEF LoadsMade
<1>4. CASE ScanLoad \/ EndScan \/ EndLayout \/ UNCHANGED vars
  BY <1>1, <1>4 DEF ScanLoad, EndScan, EndLayout, vars, LaidOut
<1>5. ASSUME NEW k \in Keys, LayoutFile(k) PROVE LoadsMade'
  BY <1>1, <1>5 DEF LayoutFile, LaidOut
<1>6. ASSUME NEW k \in Keys, LayoutMore(k) PROVE LoadsMade'
  <2>1. /\ loads # << >> /\ Extend(loads, k, v, f) /\ k \in inUse
        /\ UNCHANGED original /\ LaidOut \subseteq LaidOut'
    BY <1>0, <1>6 DEF LayoutMore, NeedsSegment, First, TypeOK, LaidOut
  <2>2. Len(loads') = Len(loads) BY <1>0, <2>1, ExtendLoads
  <2>3. QED BY <1>1, <2>1, <2>2
<1>7. ASSUME NEW k \in Keys, LayoutSegment(k), ~ original.swapped PROVE LoadsMade'
  <2> DEFINE fl == FlagsOf(k[1])
             sv == SegV(fl) + Excess(fl)
             b == Bump(sv, k[2])
             nv == sv + b
             nf == SegF(fl) + b
             ls == Append(loads, SegmentFor(fl, k[2]))
  <2>1. k[2] \in Nat \ {0} /\ fl \in {"r", "rx", "rw"} BY KeyType DEF FlagsOf
  <2>2. sv \in Nat /\ SegF(fl) \in Nat BY <1>0, <2>1, SegmentGE, SMTT(30)
  <2>3. b \in Nat BY <2>1, <2>2, AlignUpNat
  <2>4. nv \in Nat /\ nf \in Nat BY <2>2, <2>3
  <2>5. ls \in Seq(NewLoad) /\ ls # << >> /\ Len(ls) = Len(loads) + 1
    <3>1. SegmentFor(fl, k[2]) \in NewLoad BY <1>0, <2>1, SegmentType
    <3>2. QED BY <1>0, <3>1
  <2>6. /\ Extend(ls, k, nv, nf) /\ k \in inUse /\ k \in todo /\ k[1] # CatF
        /\ UNCHANGED <<original, inUse>> /\ todo' = todo \ {k}
    BY <1>0, <1>7 DEF LayoutSegment, First, TypeOK
  <2> HIDE DEF nv, nf, ls
  <2>7. Len(loads') = Len(loads) + 1 BY <1>0, <2>4, <2>5, <2>6, ExtendLoads
  <2>8. LaidOut' = LaidOut \cup {k} BY <2>6 DEF LaidOut
  <2>9. \A j \in LaidOut : j[1] # CatF => FlagsOf(j[1]) # FlagsOf(k[1]) BY <1>7, FreshFlags
  <2>10. FlagsOf(CatF) = "r" BY DEF FlagsOf, CatF, CatRX, CatRW, CatRWZero
  <2> HIDE DEF fl
  <2>11. Made' \in Nat /\ Made' >= Made + 1
    <3>1. CASE fl = "r" BY <2>6, <2>8, <2>9, <2>10, <3>1 DEF Made, fl
    <3>2. CASE fl = "rx" BY <2>6, <2>8, <2>9, <2>10, <3>2 DEF Made, fl
    <3>3. CASE fl = "rw" BY <2>6, <2>8, <2>9, <2>10, <3>3 DEF Made, fl
    <3>4. QED BY <2>1, <3>1, <3>2, <3>3
  <2>12. QED BY <1>0, <1>7, <2>6, <2>7, <2>11, MadeType DEF LoadsMade
<1>8. ASSUME NEW k \in Keys, LayoutSegment(k), original.swapped PROVE LoadsMade'
  BY <1>8 DEF LayoutSegment, LoadsMade
<1>9. QED BY <1>2, <1>3, <1>4, <1>5, <1>6, <1>7, <1>8 DEF Next, Retry

-----------------------------------------------------------------------------
(* What it all amounts to.                                                  *)

AllocInv == DisjointInv /\ GeometryInv /\ FiledInv /\ LoadsMade

LEMMA FiledInit == Init => FiledInv
<1>1. Init => Filed = {} BY DEF Init, Filed, LaidOut
<1>2. QED BY <1>1 DEF FiledInv

LEMMA GeometryStep ==
  ASSUME DisjointInv, GeometryInv, [Next]_vars
  PROVE  GeometryInv'
BY GeometryAlloc, GeometryBegin, GeometryScan, GeometryEndScan, GeometryFile, GeometryMore,
   GeometrySegment, GeometryEnd, GeometryIdle
DEF Next, Retry

LEMMA AllocCorrect == Spec => []AllocInv
<1>1. Init => AllocInv BY DisjointInit, GeometryInit, FiledInit DEF AllocInv
<1>2. AllocInv /\ [Next]_vars => AllocInv'
  BY DisjointStep, GeometryStep, FiledStep, MadeStep DEF AllocInv
<1>3. QED BY <1>1, <1>2, PTL DEF Spec

\* Every PT_LOAD that retry makes can be mapped: offset and address agree modulo its
\* alignment, and no page belongs to it and to another PT_LOAD, new or original.
THEOREM SegmentsLoadableCorrect == Spec => []SegmentsLoadable
<1>1. ASSUME NEW l, NEW m, l.vaddr \in Nat, l.memsz \in Int, m.vaddr \in Nat, m.memsz \in Int,
             PageBetween(VEnd(l), m.vaddr)
      PROVE  ~ SharePage(l, m) /\ ~ SharePage(m, l)
  <2> SUFFICES ASSUME l.memsz > 0, m.memsz > 0
               PROVE  ~(PageOf(m.vaddr) <= PageOf(l.vaddr + l.memsz - 1))
    BY DEF SharePage
  <2>1. PICK p \in VEnd(l)..m.vaddr : (p % PageSize) = 0 BY <1>1 DEF PageBetween
  <2> DEFINE x == l.vaddr + l.memsz - 1
             y == m.vaddr
  <2>2. x \in Int /\ y \in Int /\ p \in Int /\ x < p /\ p <= y BY <1>1, <2>1 DEF VEnd
  <2>3. PageSize \in Nat \ {0} BY AllocAssumption
  <2> HIDE DEF x, y
  <2>4. x \div PageSize < y \div PageSize BY <2>1, <2>2, <2>3, DivApart
  <2>5. x \div PageSize \in Int /\ y \div PageSize \in Int BY <2>2, <2>3, DivMod
  <2> DEFINE d == x \div PageSize
             e == y \div PageSize
  <2>6. PageOf(l.vaddr + l.memsz - 1) = d /\ PageOf(m.vaddr) = e BY DEF PageOf, x, y
  <2>7. d \in Int /\ e \in Int /\ d < e BY <2>4, <2>5
  <2> HIDE DEF d, e
  <2>8. QED BY <2>6, <2>7
<1>2. AllocInv => SegmentsLoadable
  <2> SUFFICES ASSUME AllocInv PROVE SegmentsLoadable
    OBVIOUS
  <2>0. TypeOK /\ loads \in Seq(NewLoad) /\ original.loads \in Seq(LoadRecord)
    BY OriginalType DEF AllocInv, DisjointInv, TypeInv, TypeOK
  <2>1. \A i \in DOMAIN loads : loads[i].vaddr \in Nat /\ loads[i].memsz \in Int
    BY <2>0, LoadTypes
  <2>2. \A i \in DOMAIN original.loads :
          original.loads[i].vaddr \in Nat /\ original.loads[i].memsz \in Int
    BY <2>0, OriginalType, SMTT(30)
  <2>3. \A i \in DOMAIN loads : loads[i].offset % loads[i].align = loads[i].vaddr % loads[i].align
    BY DEF AllocInv, GeometryInv, LoadsWell
  <2>4. ASSUME NEW i \in DOMAIN loads, NEW j \in DOMAIN loads, i # j
        PROVE  ~ SharePage(loads[i], loads[j])
    <3>1. i \in Int /\ j \in Int BY <2>0
    <3>2. CASE i < j
      <4>1. PageBetween(VEnd(loads[i]), loads[j].vaddr)
        BY <3>2 DEF AllocInv, GeometryInv, LoadsApart
      <4>2. QED BY <1>1, <2>1, <4>1
    <3>3. CASE j < i
      <4>1. PageBetween(VEnd(loads[j]), loads[i].vaddr)
        BY <3>3 DEF AllocInv, GeometryInv, LoadsApart
      <4>2. QED BY <1>1, <2>1, <4>1
    <3>4. QED BY <2>4, <3>1, <3>2, <3>3
  <2>5. ASSUME NEW i \in DOMAIN loads, NEW j \in DOMAIN original.loads
        PROVE  ~ SharePage(loads[i], original.loads[j])
    <3>1. PageBetween(VEnd(original.loads[j]), loads[i].vaddr)
      BY DEF AllocInv, GeometryInv, LoadsAbove
    <3>2. QED BY <1>1, <2>1, <2>2, <3>1
  <2>6. QED BY <2>3, <2>4, <2>5 DEF SegmentsLoadable
<1>3. QED BY AllocCorrect, <1>2, PTL

\* A range that erw_alloc hands out lies in its bucket, which was laid out with addresses.
LEMMA GivenPlaced ==
  ASSUME AllocInv, NEW i \in DOMAIN given
  PROVE  LET g == given[i] IN
         /\ g.key \in Keys /\ g.v \in Nat /\ g.size \in Nat /\ phase = "open" /\ todo = {}
         /\ bucket[g.key].start \in Nat /\ bucket[g.key].end \in Nat
         /\ bucket[g.key].start <= g.v /\ g.v + g.size <= bucket[g.key].end
         /\ g.size > 0 => /\ g.key \in LaidOut /\ bucket[g.key].start < bucket[g.key].end
                          /\ Virtual(g) => g.key \in Placed
                          /\ ~ Virtual(g) => g.key \in Filed
<1> DEFINE g == given[i]
<1>1. TypeInv /\ given \in Seq(GivenRecord) BY DEF AllocInv, DisjointInv, TypeInv, TypeOK
<1>2. g \in GivenRecord BY <1>1
<1>3. g.key \in Keys /\ g.v \in Nat /\ g.size \in Nat BY <1>2 DEF GivenRecord
<1>4. phase = "open" /\ todo = {} BY DEF AllocInv, DisjointInv, GivenInBuckets, Below
<1>5. bucket[g.key].start \in Nat /\ bucket[g.key].end \in Nat
      /\ (g.key \notin inUse => bucket[g.key].end = 0)
  BY <1>1, <1>3, BucketTypes
<1>6. bucket[g.key].start <= g.v /\ g.v + g.size <= bucket[g.key].end
  BY DEF AllocInv, DisjointInv, GivenInBuckets
<1> HIDE DEF g
<1>7. g.size > 0 => g.key \in LaidOut /\ bucket[g.key].start < bucket[g.key].end
  BY <1>3, <1>4, <1>5, <1>6 DEF LaidOut
<1>8. g.size > 0 => /\ Virtual(g) => g.key \in Placed
                    /\ ~ Virtual(g) => g.key \in Filed
  BY <1>7 DEF Placed, Filed, Virtual
<1>9. QED BY <1>3, <1>4, <1>5, <1>6, <1>7, <1>8 DEF g

\* A PT_LOAD which covers the range, and the part of it that is in the file, contain it.
LEMMA GivenHeld ==
  ASSUME AllocInv, NEW i \in DOMAIN given, Virtual(given[i]), given[i].size > 0
  PROVE  \E n \in DOMAIN loads :
           /\ Covers(loads[n], given[i])
           /\ given[i].key[1] # CatRWZero =>
                FileOffset(loads[n], given[i]) + given[i].size <= loads[n].offset + loads[n].filesz
<1> DEFINE g == given[i]
           k == g.key
<1>1. /\ k \in Keys /\ g.v \in Nat /\ g.size \in Nat /\ k \in Placed
      /\ bucket[k].start \in Nat /\ bucket[k].end \in Nat
      /\ bucket[k].start <= g.v /\ g.v + g.size <= bucket[k].end
  BY GivenPlaced
<1>2. PICK n \in DOMAIN loads : Holds(loads[n], k)
  BY <1>1 DEF AllocInv, GeometryInv, PlacedHeld
<1>3. /\ loads[n].offset \in Nat /\ loads[n].vaddr \in Nat
      /\ loads[n].filesz \in Int /\ loads[n].memsz \in Int
  BY LoadTypes DEF AllocInv, DisjointInv, TypeInv, TypeOK
<1> HIDE DEF g
<1>4. Covers(loads[n], g) BY <1>1, <1>2, <1>3 DEF Covers, Holds, VEnd
<1>5. k[1] # CatRWZero => FileOffset(loads[n], g) + g.size <= loads[n].offset + loads[n].filesz
  BY <1>1, <1>2, <1>3 DEF Holds, FileOffset
<1>6. QED BY <1>4, <1>5 DEF g

\* Every address which erw_alloc hands out is in a PT_LOAD of its protection, and what
\* it is to hold is loaded from the file.
THEOREM GivenMappedCorrect == Spec => []GivenMapped
<1>1. AllocInv => GivenMapped BY GivenHeld DEF GivenMapped
<1>2. QED BY AllocCorrect, <1>1, PTL

\* At most one PT_LOAD covers a range.
LEMMA CoveredOnce ==
  ASSUME AllocInv, NEW i \in DOMAIN given, given[i].size > 0,
         NEW m \in DOMAIN loads, Covers(loads[m], given[i]),
         NEW n \in DOMAIN loads, Covers(loads[n], given[i])
  PROVE  m = n
<1> DEFINE g == given[i]
<1>1. g.v \in Nat /\ g.size \in Nat BY GivenPlaced
<1>2. loads \in Seq(NewLoad) BY DEF AllocInv, DisjointInv, TypeInv, TypeOK
<1>3. \A j \in DOMAIN loads : loads[j].vaddr \in Nat /\ loads[j].memsz \in Int
  BY <1>2, LoadTypes
<1>4. ASSUME NEW a \in DOMAIN loads, NEW b \in DOMAIN loads, a < b,
             Covers(loads[a], g), Covers(loads[b], g)
      PROVE  FALSE
  <2>1. PageBetween(VEnd(loads[a]), loads[b].vaddr)
    BY <1>4 DEF AllocInv, GeometryInv, LoadsApart
  <2>2. VEnd(loads[a]) \in Int BY <1>3 DEF VEnd
  <2>3. VEnd(loads[a]) <= loads[b].vaddr BY <1>3, <2>1, <2>2 DEF PageBetween
  <2> HIDE DEF g
  <2>4. g.v + g.size <= VEnd(loads[a]) /\ loads[b].vaddr <= g.v
    BY <1>4 DEF Covers, VEnd
  <2>5. g.size > 0 BY DEF g
  <2>6. QED BY <1>1, <1>3, <2>2, <2>3, <2>4, <2>5
<1>5. m \in Int /\ n \in Int BY <1>2
<1> HIDE DEF g
<1>6. Covers(loads[m], g) /\ Covers(loads[n], g) BY DEF g
<1>7. ~(m < n) /\ ~(n < m) BY <1>4, <1>6
<1>8. QED BY <1>5, <1>7

\* Where the image of a range lies: in what its PT_LOAD loads from the file.
LEMMA ImageIn ==
  ASSUME AllocInv, NEW i \in DOMAIN given, Virtual(given[i]), given[i].size > 0,
         given[i].key[1] # CatRWZero
  PROVE  \E n \in DOMAIN loads :
           /\ Image(given[i]) = FileOffset(loads[n], given[i])
           /\ loads[n].vaddr <= given[i].v
           /\ Image(given[i]) \in Int /\ loads[n].offset <= Image(given[i])
           /\ Image(given[i]) + given[i].size <= FEnd(loads[n])
<1> DEFINE g == given[i]
           x == CHOOSE y \in {loads[j] : j \in DOMAIN loads} : Covers(y, g)
<1>1. PICK n \in DOMAIN loads :
        /\ Covers(loads[n], g)
        /\ FileOffset(loads[n], g) + g.size <= loads[n].offset + loads[n].filesz
  BY GivenHeld
<1>2. x \in {loads[j] : j \in DOMAIN loads} /\ Covers(x, g) BY <1>1
<1>3. PICK m \in DOMAIN loads : x = loads[m] BY <1>2
<1>4. m = n BY <1>1, <1>2, <1>3, CoveredOnce
<1>5. Image(g) = FileOffset(loads[n], g) BY <1>3, <1>4 DEF Image
<1>6. loads[n].offset \in Nat /\ loads[n].vaddr \in Nat /\ loads[n].filesz \in Int
  BY LoadTypes DEF AllocInv, DisjointInv, TypeInv, TypeOK
<1>7. g.v \in Nat /\ g.size \in Nat BY GivenPlaced
<1>8. loads[n].vaddr <= g.v BY <1>1 DEF Covers
<1> HIDE DEF g
<1>9. /\ Image(g) \in Int /\ loads[n].offset <= Image(g)
      /\ Image(g) + g.size <= FEnd(loads[n])
  BY <1>1, <1>5, <1>6, <1>7, <1>8 DEF FileOffset, FEnd
<1>10. QED BY <1>5, <1>8, <1>9 DEF g

\* A range of category f, and one with an address, in the file.
LEMMA FileApart ==
  ASSUME AllocInv, NEW i \in DOMAIN given, NEW j \in DOMAIN given,
         Virtual(given[i]), given[i].size > 0, given[i].key[1] # CatRWZero
  PROVE  /\ original.size <= Image(given[i])
         /\ ~ Virtual(given[j]) /\ given[j].size > 0 =>
              given[j].v + given[j].size <= Image(given[i])
<1> DEFINE g == given[i]
           h == given[j]
<1>1. PICK n \in DOMAIN loads :
        /\ Image(g) = FileOffset(loads[n], g) /\ loads[n].vaddr <= g.v
        /\ Image(g) \in Int /\ loads[n].offset <= Image(g)
  BY ImageIn
<1>2. /\ g.v \in Nat /\ g.key \in Placed
      /\ bucket[g.key].start \in Nat /\ bucket[g.key].start <= g.v
      /\ h.v \in Nat /\ h.size \in Nat /\ bucket[h.key].end \in Nat
      /\ h.v + h.size <= bucket[h.key].end
      /\ ~ Virtual(h) /\ h.size > 0 => h.key \in Filed
  BY GivenPlaced
<1>3. loads[n].offset \in Nat /\ loads[n].vaddr \in Nat /\ original.size \in Nat
  BY LoadTypes, OriginalType DEF AllocInv, DisjointInv, TypeInv, TypeOK
<1> HIDE DEF g, h
<1>4. ASSUME NEW y \in Nat, Behind(y), y <= Image(g)
      PROVE  /\ original.size <= Image(g)
             /\ ~ Virtual(h) /\ h.size > 0 => h.v + h.size <= Image(g)
  <2>1. original.size <= Image(g) BY <1>1, <1>3, <1>4 DEF Behind
  <2>2. ASSUME ~ Virtual(h), h.size > 0 PROVE h.v + h.size <= Image(g)
    <3>1. bucket[h.key].end <= y BY <1>2, <1>4, <2>2 DEF Behind
    <3>2. QED BY <1>1, <1>2, <1>4, <3>1
  <2>3. QED BY <2>1, <2>2
<1>5. CASE Behind(loads[n].offset)
  BY <1>1, <1>3, <1>4, <1>5 DEF g, h
<1>6. CASE ~ Behind(loads[n].offset)
  <2>1. loads[n].offset = loads[n].vaddr /\ Behind(bucket[g.key].start)
    BY <1>2, <1>6 DEF AllocInv, GeometryInv, LoadsBehind
  <2>2. Image(g) = g.v BY <1>1, <1>2, <1>3, <2>1 DEF FileOffset
  <2>3. QED BY <1>2, <1>4, <2>1, <2>2 DEF g, h
<1>7. QED BY <1>5, <1>6

\* The images of two ranges with addresses are as far apart as the ranges, or in the
\* file ranges of different PT_LOADs.
LEMMA VirtualApart ==
  ASSUME AllocInv, GivenDisjoint, NEW i \in DOMAIN given, NEW j \in DOMAIN given, i # j,
         Virtual(given[i]), given[i].size > 0, given[i].key[1] # CatRWZero,
         Virtual(given[j]), given[j].size > 0, given[j].key[1] # CatRWZero
  PROVE  ~ Overlap(Image(given[i]), given[i].size, Image(given[j]), given[j].size)
<1> DEFINE g == given[i]
           h == given[j]
<1>1. PICK m \in DOMAIN loads :
        /\ Image(g) = FileOffset(loads[m], g)
        /\ Image(g) \in Int /\ loads[m].offset <= Image(g)
        /\ Image(g) + g.size <= FEnd(loads[m])
  BY ImageIn
<1>2. PICK n \in DOMAIN loads :
        /\ Image(h) = FileOffset(loads[n], h)
        /\ Image(h) \in Int /\ loads[n].offset <= Image(h)
        /\ Image(h) + h.size <= FEnd(loads[n])
  BY ImageIn
<1>3. g.v \in Nat /\ g.size \in Nat /\ h.v \in Nat /\ h.size \in Nat BY GivenPlaced
<1>4. loads \in Seq(NewLoad) /\ given \in Seq(GivenRecord)
  BY DEF AllocInv, DisjointInv, TypeInv, TypeOK
<1>5. \A a \in DOMAIN loads : /\ loads[a].offset \in Nat /\ loads[a].vaddr \in Nat
                              /\ FEnd(loads[a]) \in Int
  BY <1>4, LoadTypes DEF FEnd
<1>6. m \in Int /\ n \in Int /\ i \in Int /\ j \in Int BY <1>4
<1>7. CASE m = n
  <2>1. ~ Overlap(g.v, g.size, h.v, h.size)
    <3>1. CASE i < j BY <3>1 DEF GivenDisjoint
    <3>2. CASE j < i
      <4>1. ~ Overlap(h.v, h.size, g.v, g.size) BY <3>2 DEF GivenDisjoint
      <4>2. QED BY <4>1 DEF Overlap
    <3>3. QED BY <1>6, <3>1, <3>2
  <2> HIDE DEF g, h
  <2>2. QED BY <1>1, <1>2, <1>3, <1>5, <1>7, <2>1 DEF Overlap, FileOffset, g, h
<1>8. CASE m < n
  <2>1. FEnd(loads[m]) <= loads[n].offset BY <1>8 DEF AllocInv, GeometryInv, LoadsApart
  <2>2. Image(g) + g.size <= Image(h)
    <3> HIDE DEF g, h
    <3>1. QED BY <1>1, <1>2, <1>3, <1>5, <2>1
  <2>3. QED BY <1>1, <1>2, <1>3, <2>2 DEF Overlap
<1>9. CASE n < m
  <2>1. FEnd(loads[n]) <= loads[m].offset BY <1>9 DEF AllocInv, GeometryInv, LoadsApart
  <2>2. Image(h) + h.size <= Image(g)
    <3> HIDE DEF g, h
    <3>1. QED BY <1>1, <1>2, <1>3, <1>5, <2>1
  <2>3. QED BY <1>1, <1>2, <1>3, <2>2 DEF Overlap
<1>10. QED BY <1>6, <1>7, <1>8, <1>9

\* Ranges which are empty in the file overlap with none.
LEMMA ImagesApart ==
  ASSUME AllocInv, GivenDisjoint, NEW i \in DOMAIN given, NEW j \in DOMAIN given, i # j,
         given[i].size > 0, given[i].key[1] # CatRWZero, given[j].key[1] # CatRWZero
  PROVE  ~ Overlap(Image(given[i]), given[i].size, Image(given[j]), given[j].size)
<1> DEFINE g == given[i]
           h == given[j]
<1>1. g.v \in Nat /\ g.size \in Nat /\ h.v \in Nat /\ h.size \in Nat BY GivenPlaced
<1>2. CASE ~(h.size > 0) BY <1>2 DEF Overlap
<1>3. CASE h.size > 0 /\ Virtual(g) /\ Virtual(h) BY <1>3, VirtualApart
<1>4. CASE h.size > 0 /\ Virtual(g) /\ ~ Virtual(h)
  <2>1. h.v + h.size <= Image(g) BY <1>4, FileApart
  <2>2. Image(h) = h.v BY <1>4 DEF Image
  <2>3. Image(g) \in Int BY <1>4, ImageIn
  <2>4. QED BY <1>1, <2>1, <2>2, <2>3 DEF Overlap
<1>5. CASE h.size > 0 /\ ~ Virtual(g) /\ Virtual(h)
  <2>1. g.v + g.size <= Image(h) BY <1>5, FileApart
  <2>2. Image(g) = g.v BY <1>5 DEF Image
  <2>3. Image(h) \in Int BY <1>5, ImageIn
  <2>4. QED BY <1>1, <2>1, <2>2, <2>3 DEF Overlap
<1>6. CASE ~ Virtual(g) /\ ~ Virtual(h)
  <2>1. Image(g) = g.v /\ Image(h) = h.v BY <1>6 DEF Image
  <2>2. i \in Int /\ j \in Int BY DEF AllocInv, DisjointInv, TypeInv, TypeOK
  <2>3. CASE i < j BY <1>6, <2>1, <2>3 DEF GivenDisjoint
  <2>4. CASE j < i
    <3>1. ~ Overlap(h.v, h.size, g.v, g.size) BY <1>6, <2>4 DEF GivenDisjoint
    <3>2. QED BY <2>1, <3>1 DEF Overlap
  <2>5. QED BY <2>2, <2>3, <2>4
<1>7. QED BY <1>2, <1>3, <1>4, <1>5, <1>6

\* What is written to the ranges of a round never lands on the contents of the original
\* file, on those of another range, or past the end of the file.
THEOREM ImagesDisjointCorrect == Spec => []ImagesDisjoint
<1>1. AllocInv /\ GivenDisjoint => ImagesDisjoint
  <2> SUFFICES ASSUME AllocInv, GivenDisjoint, NEW i \in DOMAIN given,
                      given[i].key[1] # CatRWZero, given[i].size > 0
               PROVE  /\ Image(given[i]) >= original.size
                      /\ Image(given[i]) + given[i].size <= fsize
                      /\ \A j \in DOMAIN given :
                           j # i /\ given[j].key[1] # CatRWZero =>
                             ~ Overlap(Image(given[i]), given[i].size,
                                       Image(given[j]), given[j].size)
    BY DEF ImagesDisjoint
  <2> DEFINE g == given[i]
  <2>0. /\ g.v \in Nat /\ g.size \in Nat /\ phase = "open"
        /\ bucket[g.key].start \in Nat /\ bucket[g.key].end \in Nat
        /\ bucket[g.key].start <= g.v /\ g.v + g.size <= bucket[g.key].end
        /\ bucket[g.key].start < bucket[g.key].end /\ (~ Virtual(g) => g.key \in Filed)
    BY GivenPlaced
  <2>1. f \in Nat /\ fsize \in Nat /\ original.size \in Nat /\ f <= fsize
    BY <2>0, OriginalType DEF AllocInv, DisjointInv, TypeInv, TypeOK, GeometryInv, FileSize
  <2>2. CASE Virtual(g)
    <3>1. original.size <= Image(g) BY <2>2, FileApart
    <3>2. PICK n \in DOMAIN loads :
            Image(g) \in Int /\ Image(g) + g.size <= FEnd(loads[n])
      BY <2>2, ImageIn
    <3>3. FEnd(loads[n]) \in Int /\ FEnd(loads[n]) <= f BY LoadsBelow DEF AllocInv
    <3> HIDE DEF g
    <3>4. Image(g) >= original.size /\ Image(g) + g.size <= fsize
      BY <2>0, <2>1, <3>1, <3>2, <3>3
    <3>5. QED BY <3>4, ImagesApart DEF g
  <2>3. CASE ~ Virtual(g)
    <3>1. Image(g) = g.v BY <2>3 DEF Image
    <3>2. original.size <= bucket[g.key].start /\ bucket[g.key].end <= f
      BY <2>0, <2>3 DEF AllocInv, FiledInv
    <3> HIDE DEF g
    <3>3. Image(g) >= original.size /\ Image(g) + g.size <= fsize
      BY <2>0, <2>1, <3>1, <3>2
    <3>4. QED BY <3>3, ImagesApart DEF g
  <2>4. QED BY <2>2, <2>3
<1>2. QED BY AllocCorrect, GivenDisjointCorrect, <1>1, PTL

\* In a file of the byte order of the host, retry writes no more program headers than
\* extra_phdrs_required_for_category_mask has made room for.
THEOREM NativePhdrsEnsuredCorrect == Spec => []NativePhdrsEnsured
<1>1. AllocInv => NativePhdrsEnsured
  <2> SUFFICES ASSUME AllocInv, ~ original.swapped PROVE Len(loads) <= ExtraPhdrs
    BY DEF NativePhdrsEnsured, PhdrsEnsured
  <2> DEFINE mask == {k[1] : k \in inUse}
  <2>0. LaidOut \subseteq inUse /\ inUse \subseteq Keys /\ Len(loads) \in Nat
    BY DEF AllocInv, DisjointInv, TypeInv, TypeOK, LaidOut
  <2>1. \A k \in LaidOut : k[1] \in mask /\ k[1] \in Categories BY <2>0, KeyType
  <2>2. Len(loads) <= Made BY DEF AllocInv, LoadsMade
  <2>3. (\E k \in LaidOut : FlagsOf(k[1]) = "r" /\ k[1] # CatF) => ~(mask \subseteq {CatF})
    BY <2>1
  <2>4. (\E k \in LaidOut : FlagsOf(k[1]) = "rx") => CatRX \in mask
    BY <2>1 DEF FlagsOf
  <2>5. (\E k \in LaidOut : FlagsOf(k[1]) = "rw") => mask \cap {CatRW, CatRWZero} # {}
    <3> SUFFICES ASSUME NEW k \in LaidOut, FlagsOf(k[1]) = "rw"
                 PROVE  mask \cap {CatRW, CatRWZero} # {}
      OBVIOUS
    <3>1. k[1] \in {CatRW, CatRWZero} BY <2>1 DEF FlagsOf, Categories, CatRX, CatRW, CatRWZero
    <3>2. QED BY <2>1, <3>1
  <2>6. ExtraPhdrs = (IF mask \subseteq {CatF} THEN 0 ELSE 2)
                     + (IF CatRX \in mask THEN 1 ELSE 0)
                     + (IF mask \cap {CatRW, CatRWZero} # {} THEN 1 ELSE 0)
    BY DEF ExtraPhdrs
  <2> HIDE DEF mask
  <2>7. Made \in Nat /\ Made <= ExtraPhdrs BY <2>3, <2>4, <2>5, <2>6 DEF Made
  <2>8. ExtraPhdrs \in Nat BY <2>6
  <2>9. QED BY <2>0, <2>2, <2>7, <2>8
<1>2. QED BY AllocCorrect, <1>1, PTL
=============================================================================
