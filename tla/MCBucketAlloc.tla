---------------------------- MODULE MCBucketAlloc ----------------------------
(* Model-checking instance of BucketAlloc: five original files and a few      *)
(* requests.                                                                  *)
EXTENDS BucketAlloc, FiniteSets

CONSTANTS
  MaxBucket,  \* bound on what is asked of one bucket in one round
  MaxInUse,   \* bound on the number of buckets
  MaxGiven,   \* bound on the requests granted in one round
  Requests    \* <<category, alignment, size>> that may be asked for

L(o, a, fs, ms, al) ==
  [offset |-> o, vaddr |-> a, filesz |-> fs, memsz |-> ms, align |-> al]

F(size, phdrs, swapped, ls) ==
  [size |-> size, phdrs |-> phdrs, swapped |-> swapped, loads |-> ls]

\* text and data with a .bss; trailing sections which are not loaded; a p_align
\* of more than MaxPage; an empty file without program headers; and a file of
\* the other byte order.
SwappedFiles == {F(21, 2, TRUE, <<L(0, 8, 20, 20, 8)>>), F(9, 0, TRUE, << >>)}
MCFiles ==
  { F(30, 3, FALSE, <<L(0, 0, 20, 20, 8), L(20, 28, 6, 17, 8)>>),
    F(61, 2, FALSE, <<L(0, 16, 20, 20, 8)>>),
    F(21, 2, FALSE, <<L(0, 0, 20, 20, 32)>>),
    F(9, 0, FALSE, << >>) } \cup SwappedFiles

MCRequests == {<<CatF, 1, 3>>, <<CatR, 1, 3>>, <<CatR, 1, 5>>, <<CatR, 4, 1>>, <<CatRX, 4, 5>>,
               <<CatRW, 4, 2>>, <<CatRWZero, 4, 3>>}

MCAlloc(r) ==
  LET k == <<r[1], r[2]>> IN
  /\ Len(given) < MaxGiven
  /\ Cardinality(inUse \cup {k}) <= MaxInUse
  /\ ResultAt(k) + r[3] - bucket[k].start <= MaxBucket
  /\ Alloc(k, r[3])

MCNext == (\E r \in Requests : MCAlloc(r)) \/ Retry
MCSpec == Init /\ [][MCNext]_vars
=============================================================================
