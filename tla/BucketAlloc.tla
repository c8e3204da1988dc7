----------------------------- MODULE BucketAlloc -----------------------------
(***************************************************************************)
(* The space allocator of the ELF rewriter: erw_alloc in erw.c, and the    *)
(* part of erwNNE_(retry) in erw_nne.h which lays the buckets out again.   *)
(*                                                                         *)
(* Space in the new file is handed out from buckets, one per (category,    *)
(* alignment).  A bucket that is too small still advances, records in      *)
(* retry that the round has failed, and returns 0.  A failed round ends in *)
(* erwNNE_(retry): every bucket gets a new range which is large enough for *)
(* everything that was asked of it, behind the original contents of the    *)
(* file and of the address space, and new PT_LOAD headers cover them.      *)
(*                                                                         *)
(* Addresses are natural numbers: 64-bit wrap-around is not modelled.      *)
(***************************************************************************)
EXTENDS Integers, Sequences

CONSTANTS
  Alignments,   \* the alignments requested of erw_alloc (powers of two)
  Sizes,        \* the sizes requested of erw_alloc
  PageSize,     \* erw->guest_page_size
  MaxPage,      \* 0x10000: largest p_align which raises the page size
  MaxExcess,    \* 0x40000: virtual space burnt to avoid a dummy PT_LOAD
  Files         \* the original files: erw->original of each

LoadRecord == [offset : Nat, vaddr : Nat, filesz : Nat, memsz : Nat, align : Nat]

\* f_size, the number of program headers, the PT_LOAD ones among them in order,
\* and whether the file has the other byte order (ERW_FILE_KIND_BSWAP)
FileRecord == [size : Nat \ {0}, phdrs : Nat, loads : Seq(LoadRecord),
               swapped : BOOLEAN]

ASSUME AllocAssumption ==
  /\ Alignments \subseteq Nat \ {0}
  /\ Sizes \subseteq Nat
  /\ PageSize \in Nat \ {0}
  /\ MaxPage \in Nat /\ MaxExcess \in Nat
  /\ \A o \in Files : o \in FileRecord /\ Len(o.loads) <= o.phdrs

\* set_page_size, and the sizes of erwNNE_(phdrs_init), are powers of two: they
\* divide the larger ones.
ASSUME PageAssumption ==
  \A n \in 0..MaxPage : 2 ^ n >= PageSize => (2 ^ n) % PageSize = 0

\* The ELF specification's rule for the offset and the address of a PT_LOAD.
ASSUME FileAssumption ==
  \A o \in Files : \A i \in DOMAIN o.loads :
    o.loads[i].align # 0 =>
      o.loads[i].offset % o.loads[i].align = o.loads[i].vaddr % o.loads[i].align

\* enum erw_alloc_category
CatF == 0
CatR == 1
CatRNearX == 2
CatRX == 3
CatRW == 4
CatRWZero == 5
Categories == 0..5

\* A bucket is identified by its category and alignment.
Keys == Categories \X Alignments

\* The order in which cmp_alloc_bucket sorts the buckets.
Before(k, j) == k[1] < j[1] \/ (k[1] = j[1] /\ k[2] < j[2])

\* p_flags of the PT_LOAD which covers a category: the zero-filled and the
\* initialised writable data share one, as do the two kinds of read-only data.
FlagsOf(c) == CASE c = CatRX -> "rx"
                [] c \in {CatRW, CatRWZero} -> "rw"
                [] OTHER -> "r"

\* (a - x) & (a - 1): what has to be added to x to make it a multiple of a.
Bump(x, a) == (a - (x % a)) % a
AlignUp(x, a) == x + Bump(x, a)

\* x and y are the same modulo the alignment a; the smallest value >= lo which
\* is congruent to y modulo a, when lo is rounded down first.
CongruentFrom(lo, y, a) ==
  LET r == (lo - (lo % a)) + (y % a) IN IF r < lo THEN r + a ELSE r

VARIABLES
  original, \* erw->original
  bucket,   \* start, current and end of each bucket
  inUse,    \* the buckets which exist (category_mask is made of their categories)
  retry,    \* erw->retry
  phase,    \* "open" for requests, or the loop of retry being executed
  next,     \* index of the next original PT_LOAD the first loop of retry visits
  todo,     \* the buckets retry has still to lay out
  f, v,     \* the next free file offset and virtual address, in retry
  page,     \* page_size, in retry
  loads,    \* the PT_LOAD headers which retry has added
  fsize,    \* erw->f_size
  given     \* the ranges that erw_alloc has handed out in this round (history)

vars == <<original, bucket, inUse, retry, phase, next, todo, f, v, page, loads, fsize, given>>
cursor == <<next, todo, f, v, page, loads, fsize>>

NewLoad == [flags : {"r", "rx", "rw"}, offset : Nat, vaddr : Nat,
            filesz : Int, memsz : Int, align : Nat]
GivenRecord == [key : Keys, v : Nat, size : Nat]

TypeOK ==
  /\ original \in Files
  /\ bucket \in [Keys -> [start : Nat, current : Nat, end : Nat]]
  /\ inUse \subseteq Keys
  /\ retry \in BOOLEAN
  /\ phase \in {"open", "scan", "layout"}
  /\ next \in Nat \ {0}
  /\ todo \subseteq inUse
  /\ f \in Nat /\ v \in Nat /\ page \in Nat \ {0}
  /\ loads \in Seq(NewLoad)
  /\ fsize \in Nat
  /\ given \in Seq(GivenRecord)

Init ==
  /\ original \in Files
  /\ bucket = [k \in Keys |-> [start |-> 0, current |-> 0, end |-> 0]]
  /\ inUse = {}
  /\ retry = FALSE
  /\ phase = "open"
  /\ next = 1 /\ todo = {} /\ f = 0 /\ v = 0 /\ page = PageSize
  /\ loads = << >>
  /\ fsize = original.size
  /\ given = << >>

(***************************************************************************)
(* erw_alloc for k = <<category, alignment>> (an alignment of 0 counts as  *)
(* 1, so that it is not among Alignments).                                 *)
(***************************************************************************)
ResultAt(k) == AlignUp(bucket[k].current, k[2])
\* (Fits_Start is a variant: the size is left out of the comparison.)
Fits_Start(k, size) == ResultAt(k) < bucket[k].end
Fits(k, size) == ResultAt(k) + size <= bucket[k].end
AllocResult(k, size) == IF Fits(k, size) THEN ResultAt(k) ELSE 0

Alloc(k, size) ==
  /\ phase = "open"
  /\ inUse' = inUse \cup {k}
  /\ bucket' = [bucket EXCEPT ![k].current = ResultAt(k) + size]
  /\ IF Fits(k, size)
     THEN /\ given' = Append(given, [key |-> k, v |-> ResultAt(k), size |-> size])
          /\ UNCHANGED retry
     ELSE /\ retry' = TRUE
          /\ UNCHANGED given
  /\ UNCHANGED <<original, phase, cursor>>


(***************************************************************************)
(* erwNNE_(retry).  The first loop finds the end of the original file and  *)
(* of its address space; the second one deals out the buckets, in order.   *)
(***************************************************************************)
BeginRetry ==
  /\ phase = "open" /\ retry
  /\ phase' = "scan"
  /\ next' = 1 /\ todo' = inUse
  /\ f' = 0 /\ v' = 0 /\ page' = PageSize
  /\ loads' = << >>
  /\ given' = << >>
  /\ UNCHANGED <<original, bucket, inUse, retry, fsize>>

Larger(x, y) == IF x < y THEN y ELSE x

PowerOfTwo(a) == \E n \in 0..MaxPage : a = 2 ^ n

ScanLoad ==
  /\ phase = "scan" /\ next <= Len(original.loads)
  /\ LET l == original.loads[next] IN
     /\ f' = Larger(f, l.offset + l.filesz)
     /\ v' = Larger(v, l.vaddr + l.memsz)
     /\ page' = IF l.align <= MaxPage /\ PowerOfTwo(l.align)
                THEN Larger(page, l.align) ELSE page
  /\ next' = next + 1
  /\ UNCHANGED <<original, bucket, inUse, retry, phase, todo, loads, fsize, given>>

\* Variant: what follows the last PT_LOAD in the file is overwritten.
EndScan_NoFileSize ==
  /\ phase = "scan" /\ next > Len(original.loads)
  /\ phase' = "layout"
  /\ f' = AlignUp(f, page)
  /\ v' = AlignUp(v, page)
  /\ UNCHANGED <<original, bucket, inUse, retry, next, todo, page, loads, fsize, given>>

EndScan ==
  /\ phase = "scan" /\ next > Len(original.loads)
  /\ phase' = "layout"
  /\ f' = Larger(AlignUp(f, page), original.size)
  /\ v' = AlignUp(v, page)
  /\ UNCHANGED <<original, bucket, inUse, retry, next, todo, page, loads, fsize, given>>

First(k) == k \in todo /\ \A j \in todo \ {k} : Before(k, j)

\* Variant: a bucket is given the room it had.
Need_Kept(k) == bucket[k].end - bucket[k].start

\* The size a bucket needs: whatever was asked of it, and never less than it has.
Need(k) == Larger(bucket[k].current, bucket[k].end) - bucket[k].start

LayoutFile(k) ==
  /\ phase = "layout" /\ First(k) /\ k[1] = CatF
  /\ LET s == AlignUp(f, k[2]) IN
     /\ bucket' = [bucket EXCEPT ![k] =
                     [start |-> s, current |-> s, end |-> s + Need(k)]]
     /\ f' = s + Need(k)
  /\ todo' = todo \ {k}
  /\ UNCHANGED <<original, inUse, retry, phase, next, v, page, loads, fsize, given>>

(***************************************************************************)
(* Where a new PT_LOAD begins.  The read-only one, which gets the program  *)
(* headers, is aligned like the first original PT_LOAD, and is placed so   *)
(* that erw_phdrs_bug_workaround has the least to do.                      *)
(***************************************************************************)
HasFirstLoad(flags) == flags = "r" /\ original.loads # << >>

SegAlign(flags) ==
  IF HasFirstLoad(flags) THEN Larger(page, original.loads[1].align) ELSE page

\* Variant: the address is not moved to the next page before it is made congruent.
SegV_SamePage(flags) == CongruentFrom(v, f, SegAlign(flags))

\* v, made congruent to f modulo the alignment of the PT_LOAD
SegV(flags) == CongruentFrom(AlignUp(v, page), f, SegAlign(flags))

\* p_offset which the first PT_LOAD needs to have the v2f of the new PT_LOAD
RequiredOffset(flags) == original.loads[1].vaddr + f - SegV(flags)

OffsetNegative(flags) ==
  /\ HasFirstLoad(flags)
  /\ original.loads[1].offset # RequiredOffset(flags)
  /\ RequiredOffset(flags) < 0

\* The gap in virtual space which saves the dummy PT_LOAD, or 0.
Excess(flags) ==
  LET e == RequiredOffset(flags) - original.loads[1].offset
  IN IF /\ HasFirstLoad(flags) /\ ~ OffsetNegative(flags)
        /\ e > 0 /\ e <= MaxExcess /\ e % page = 0
        /\ original.loads[1].filesz # 0
     THEN e ELSE 0

SegF(flags) ==
  IF OffsetNegative(flags)
  THEN LET r == RequiredOffset(flags)
       IN CongruentFrom(f - (r - (r % page)), SegV(flags), SegAlign(flags))
  ELSE f

\* The new PT_LOAD for flags, which begins with a bucket of alignment a.
SegmentFor(flags, a) ==
  LET sv == SegV(flags) + Excess(flags)
      sf == SegF(flags)
      b == Bump(sv, a)
      \* the file had no program header, and this is its first
      whole == sf + b = sv + b /\ original.phdrs = 0 /\ loads = << >> /\ flags = "r"
  IN [flags |-> flags, align |-> SegAlign(flags), filesz |-> 0, memsz |-> 0,
      offset |-> IF whole THEN 0 ELSE sf + b,
      vaddr |-> IF whole THEN 0 ELSE sv + b]

\* Adds the bucket k to the last PT_LOAD of ls, with the cursors at nv and nf.
Extend(ls, k, nv, nf) ==
  LET b == Bump(nv, k[2])
      v1 == nv + b + Need(k)
      f1 == IF k[1] = CatRWZero THEN nf ELSE nf + b + Need(k)
      n == Len(ls)
  IN /\ bucket' = [bucket EXCEPT ![k] =
                     [start |-> nv + b, current |-> nv + b, end |-> v1]]
     /\ v' = v1
     /\ f' = f1
     /\ loads' = [ls EXCEPT ![n].memsz = v1 - ls[n].vaddr,
                            ![n].filesz = f1 - ls[n].offset]

\* Variant: a new PT_LOAD is made only if there is none.
NeedsSegment_First(k) == loads = << >>

\* Variant: every bucket gets a PT_LOAD.
NeedsSegment_Always(k) == TRUE

\* The test compares p_flags, which are in the byte order of the file, with
\* flags in that of the host: they always differ when the file is swapped.
NeedsSegment(k) ==
  loads # << >> => original.swapped \/ loads[Len(loads)].flags # FlagsOf(k[1])

LayoutMore(k) ==
  /\ phase = "layout" /\ First(k) /\ k[1] # CatF /\ ~ NeedsSegment(k)
  /\ Extend(loads, k, v, f)
  /\ todo' = todo \ {k}
  /\ UNCHANGED <<original, inUse, retry, phase, next, page, fsize, given>>

LayoutSegment(k) ==
  /\ phase = "layout" /\ First(k) /\ k[1] # CatF /\ NeedsSegment(k)
  /\ LET fl == FlagsOf(k[1])
         sv == SegV(fl) + Excess(fl)
         b == Bump(sv, k[2])
     IN Extend(Append(loads, SegmentFor(fl, k[2])), k, sv + b, SegF(fl) + b)
  /\ todo' = todo \ {k}
  /\ UNCHANGED <<original, inUse, retry, phase, next, page, fsize, given>>

EndLayout ==
  /\ phase = "layout" /\ todo = {}
  /\ phase' = "open"
  /\ retry' = FALSE
  /\ fsize' = f
  /\ UNCHANGED <<original, bucket, inUse, next, todo, f, v, page, loads, given>>

Retry == \/ BeginRetry \/ ScanLoad \/ EndScan \/ EndLayout
         \/ \E k \in Keys : LayoutFile(k) \/ LayoutMore(k) \/ LayoutSegment(k)

Next == (\E k \in Keys, size \in Sizes : Alloc(k, size)) \/ Retry

Spec == Init /\ [][Next]_vars

-----------------------------------------------------------------------------
(* What the allocator promises to its callers.                              *)

Overlap(x, m, y, n) == x < y + n /\ y < x + m /\ m > 0 /\ n > 0

Virtual(g) == g.key[1] # CatF

\* Two ranges which erw_alloc hands out in one round never overlap: the file
\* offsets of category f among themselves, the addresses of the others too.
GivenDisjoint ==
  \A i, j \in DOMAIN given :
    i < j /\ (Virtual(given[i]) <=> Virtual(given[j])) =>
      ~ Overlap(given[i].v, given[i].size, given[j].v, given[j].size)

Covers(l, g) == /\ l.vaddr <= g.v /\ g.v + g.size <= l.vaddr + l.memsz
                /\ l.flags = FlagsOf(g.key[1])

FileOffset(l, g) == g.v - l.vaddr + l.offset

\* The file ranges behind what has been handed out, except zero-filled memory.
Image(g) ==
  IF Virtual(g)
  THEN LET l == CHOOSE x \in {loads[i] : i \in DOMAIN loads} : Covers(x, g)
       IN FileOffset(l, g)
  ELSE g.v

\* An address which erw_alloc hands out is covered by a PT_LOAD of retry with
\* the protection of its category, and, unless it is zero-filled memory, by
\* the part of that PT_LOAD which is loaded from the file.
GivenMapped ==
  \A i \in DOMAIN given :
    LET g == given[i] IN
    Virtual(g) /\ g.size > 0 =>
      \E n \in DOMAIN loads :
        /\ Covers(loads[n], g)
        /\ g.key[1] # CatRWZero =>
             FileOffset(loads[n], g) + g.size <= loads[n].offset + loads[n].filesz

\* What is written to the ranges handed out never lands on the contents of the
\* original file, on the contents of another range, or past the end of the file.
ImagesDisjoint ==
  \A i \in DOMAIN given :
    LET g == given[i] IN
    g.key[1] # CatRWZero /\ g.size > 0 =>
      /\ Image(g) >= original.size
      /\ Image(g) + g.size <= fsize
      /\ \A j \in DOMAIN given :
           j # i /\ given[j].key[1] # CatRWZero =>
             ~ Overlap(Image(g), g.size, Image(given[j]), given[j].size)

PageOf(x) == x \div PageSize
SharePage(l, m) ==
  /\ l.memsz > 0 /\ m.memsz > 0
  /\ PageOf(l.vaddr) <= PageOf(m.vaddr + m.memsz - 1)
  /\ PageOf(m.vaddr) <= PageOf(l.vaddr + l.memsz - 1)

\* The kernel and ld.so can map every new PT_LOAD: its file offset and its
\* address agree modulo its alignment, and no page of memory belongs to it and to
\* another one, of which it would unmap a part or change the protection.
SegmentsLoadable ==
  \A i \in DOMAIN loads :
    /\ loads[i].offset % loads[i].align = loads[i].vaddr % loads[i].align
    /\ \A j \in DOMAIN loads : i # j => ~ SharePage(loads[i], loads[j])
    /\ \A j \in DOMAIN original.loads : ~ SharePage(loads[i], original.loads[j])

\* extra_phdrs_required_for_category_mask: the headers for which retry makes room.
ExtraPhdrs ==
  LET mask == {k[1] : k \in inUse}
  IN (IF mask \subseteq {CatF} THEN 0 ELSE 2)
     + (IF CatRX \in mask THEN 1 ELSE 0)
     + (IF mask \cap {CatRW, CatRWZero} # {} THEN 1 ELSE 0)

\* "Reset phdrs, and ensure space for new PT_LOADs": retry writes no more new
\* PT_LOADs than it has made room for.
PhdrsEnsured == Len(loads) <= ExtraPhdrs

\* The same, for the files which have the byte order of the host.
NativePhdrsEnsured == ~ original.swapped => PhdrsEnsured

Room(k) == bucket[k].end - bucket[k].start

\* What the failed round asked of a bucket that has not been laid out again.
Asked(k) == bucket[k].current - bucket[k].start

\* A bucket never loses room.  A retry takes up every bucket in use; until it deals
\* a bucket out it keeps what the failed round asked of it, dealing it out gives it
\* room for all of that, whether it moves or not, and the retry is not over while one
\* is left: this is why the rounds converge.
RoomGrows ==
  [][/\ \A k \in Keys :
          /\ Room(k)' >= Room(k)
          /\ phase # "open" /\ k \in todo =>
               IF k \in todo' THEN bucket'[k] = bucket[k] ELSE Room(k)' >= Asked(k)
     /\ phase = "open" /\ phase' # "open" => inUse \subseteq todo'
     /\ phase # "open" /\ phase' = "open" => todo = {}]_vars

=============================================================================
