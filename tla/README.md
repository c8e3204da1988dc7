# A verification development of polyfill-glibc

`polyfill-glibc` edits a compiled program or library so that it runs with an
older glibc: it renames or removes references to new symbols, adds the machine
code of replacements, and edits the dynamic section, program headers, strings,
symbols, versions and relocations of an ELF file. This directory holds TLA+
modules of its core, the TLC configurations which check them, and proofs which
TLAPS checks. Paths below are relative to the repository.

## 1. Inventory

The program has two quite different halves: a **sequential rewriter**,
whose difficulty is that one file is edited by many editors, in repeated rounds,
with tables that refer to each other by offset, index and address; and **the
polyfills**, machine code which is linked into the file and runs in threads of
somebody else's process. Around the rewriter there is a third concern, small and
easy to get wrong: files, which several processes may edit at once.

| Part | State | Operations | What makes it correct |
|---|---|---|---|
| Space allocator, `src/erw.c`, `src/erw_nne.h` | buckets per (category, alignment), `retry` | `erw_alloc`, layout in `erwNNE_(retry)` | ranges are disjoint, mapped with the right protection, backed by file contents of their own; rounds converge |
| Rounds of editing, `src/main.c`, `erwNNE_(flush)`, `erwNNE_(retry)` | `modified`, `retry`, which editors are loaded | actions, the stages of flush, retry | what is written has all edits of the last round and none of a failed one; tables agree |
| String table, `src/erw.c` | hash table of known strings, `to_add` | encode, decode, start building new, visit references | a reference keeps its string whatever happens to the table |
| Dynamic section, `src/erw_nne.h` | array of `Dyn`, count, capacity | set, remove, add early/late, flags, fix up, flush | what ld.so reads is what was asked for |
| Program headers | array of `Phdr` | set interpreter, stack protection, flush and its two workarounds | headers are covered by a segment, ldconfig finds the strings |
| Symbols and hash tables | array of `Sym`, versions, two hash tables | find or add, reorder, rebuild | everything that refers to a symbol by index agrees on the order |
| Versions | groups and items of verneed and verdef, `base` | find or add, mark, remove, weaken, collect garbage, place, write | every symbol keeps the version which was asked for, the lists can be walked, nothing unused is required |
| Relocations, `src/reloc_kind.c` | up to five tables | load, add, remap, flush, expand DT_RELR | each is about the symbol and address it was about |
| Address map, `src/v2f.c` | sorted ranges | lookup, insert | the range which contains an address |
| Command line and files, `src/main.c` | actions, inert actions, files | parse, open, several files, `write_out_to` | each action once per file; the old or the new file survives |
| Renamer, `src/renamer.c` | registries of renames | which symbol becomes which, passes over the symbols, confirmation of the target | every symbol ends up as what all renames together make of it |
| Polyfiller, `src/*/polyfiller.c` | tokens which are added, addresses | dependencies, linking, initialisers, unwind tables | every reference of the code reaches what it means; initialisers run once and in order |
| Assembler and build, `src/tokenise.c`, `src/*/assembler.c` | sections of the assembled polyfills | at build time only | encodings of instructions |
| Containers, `src/uuht.c`, `src/sht.c`, `src/arena.c` | hash tables | lookup, insert, grow | finite maps |
| Relative interpreter | code at the entry point | open and map ld.so | sequence of system calls |
| `__cxa_thread_atexit_impl`, `src/*/atexit.s` | one pthread key, a list per thread | register, end of thread, exit | one key, one handler, every function once, newest first |
| `getauxval`, `src/x86_64/glibc_2_16.s` | one pointer | lookup, init, fini | no page lost or freed twice; right answers |
| Other polyfills | mostly none | `sem_clockwait`, `posix_spawn`, `qsort`, `stdbit`, system calls | each its own |

How they interact. `main` runs every action of the command line. An action loads
the editors it needs (from the file in memory), changes them, and may ask
`erw_alloc` for space, which may be too small: then `retry` is set, address 0 is
returned, and the round goes on so that it finds out what is needed.
`erw_flush` runs the stages vers, dsyms, dynstr, relocs, dhdrs, phdrs in this
order, because each may change what a later one writes. At the end
of a failed round, `erwNNE_(retry)` reads the original file again, lays all
buckets out with more room, frees the editors, and all actions are executed
once more. One action, applying renames, brings in the renamer and the polyfiller,
which use every editor. Hard are: what survives a failed round, or a file (flags,
buckets, inert actions, registries of renames) and what must not (editors, offsets,
addresses); references of one table into another which moves; the program headers,
which must cover themselves; renames which code imposes that other renames have
brought in; and, in the polyfills, races for a single word with `lock cmpxchg`.

## 2. Modules

| Module | Models | State and actions |
|---|---|---|
| `BucketAlloc` | `erw_alloc`, the bucket part of `erwNNE_(retry)` | `bucket`, `original`, `loads` are the fields; `Alloc` is a call of `erw_alloc`; `BeginRetry`, `ScanLoad`, `EndScan`, `LayoutFile`/`LayoutMore`/`LayoutSegment`, `EndLayout` are the loops of retry, one iteration a step |
| `ErwFlush` | the loop of `main`, eight kinds of actions, flush, retry | the record `erw` is the `erw_state_t`; a C function is an operator from record to record; `Stage...` is a stage of flush, `EndFlush` its end with retry, `NextFile` the next input file |
| `DynstrEditor` | the string editor | `state`, `table`, `toAdd` are the fields of `dynstr_editor_t`, `refs` the references of all tables; `EncodeKnown`, `EncodeNew`, `RemoveRef`, `Retry` |
| `DynamicSection` | abstract: a list of dynamic entries, and what a loader reads | `Edit`, `Flush` |
| `DhdrEditor` | the array of dynamic headers with its holes, its spare DT_NULLs and its growth | one action per action of the command line, and `Flush`; refines `DynamicSection` (`Implements`) |
| `Selection` | helper of the last two: what is left of a sequence at some of its positions | `Kept` |
| `SymbolVersions` | the editor of versions, and what actions, renamer and target confirmation do to it | `v` is the editor, `mem` what is in the file at each address, `dyn` the two heads; one action per action of the command line, and `Flush`, which is `vers_flush` |
| `Renamer` | registries, the limit of a target version, chains of renames | operators only |
| `PolyfillerX86`, `PolyfillerAArch64` | the static linker of each machine: the second extends the first by what differs | operators on its state `p`, on the addresses `a` and on the file `e` |
| `Linking` | `renamer_apply_to` together with the polyfiller | composes the three: `Export`, `Symbol`, `Adding` (one call of `add_sym_and_deps`), `Confirm`, `FinishedAdding`, `Assigned`, `Written`, `Populated`, `Finished`, `EnsuredLibs`, and `Retry`, after which the registries are still there |
| `Program` | several processes of the program, from opening a file to `write_out_to` | `files` are the blocks of each name; one step per system call, per action of the command line and per end of a round; `Kill` at any moment |
| `ThreadAtexit` | `__cxa_thread_atexit_impl` | one step per instruction, or call, which other threads can see |
| `Getauxval` | `getauxval`, `getauxval_init`, `getauxval_fini` | one step per system call and per access to the pointer |
| `SymbolVersions_inv` | | the two invariants of `SymbolVersions`, and what their proofs speak of |
| `BucketAlloc_proofs`, `ErwFlush_proofs`, `DynstrEditor_proofs`, `DhdrEditor_proofs`, `SymbolVersions_proofs`, `Program_proofs`, `ThreadAtexit_proofs`, `Getauxval_proofs` | | theorems: each extends the module it is about, `SymbolVersions_proofs` by way of `SymbolVersions_inv` |
| `MC...` | | instances for TLC: files, command lines, bounds |

An operator `X_...` next to `X`, introduced by a comment "Variant", is `X` with a
plausible mistake. No specification uses it; it shows that a property can tell
the mistake from the code.

`ErwFlush` composes the editors at the level where they meet: whether a table has
been loaded, moved, reordered and written, and from which category of space. The
modules of one editor each look into it. `Linking` composes renamer and polyfiller
on a file which is symbols, relocations, initialisers and what is stored in
variables. `Program` composes processes on files of which an image is a value.

### Abstractions

* Addresses are natural numbers; wrap-around of 64 bits is left out of
  `BucketAlloc` and kept in `DynstrEditor`, where the code relies on it.
* In `ErwFlush` all buckets of one category are one, sizes are small numbers whose
  growth matters and not their amount, and the facts of a file (dense
  strings, sorted symbols) are fields of the record `file`. The original
  symbols are locals first, as ELF demands. DT_STRSZ and such companions are
  part of their tag. What the deletion of versions does to symbols is in
  `SymbolVersions`.
* In `DynstrEditor` the hash table is a set of entries; probing and growth
  do not matter, except that offset 0 looks like an empty slot, which does.
  What follows the string table in the file is NUL.
* In `SymbolVersions` an address counts words, strings are values, and the module is
  about the round which ends the editing: a round in which an allocation fails
  writes nothing that stays. `want` and `hist` are history.
* In `Linking` an address is a place: a token of the code, a slot of the GOT, a
  stub, a position in the file. A relocation says what is stored in a slot. Instructions
  are references with the way in which they refer (`direct` for `lea`,
  `indirect` for a call through memory, `phantom` for what is only needed). Not in
  it: the conversion of the hash table for targets below 2.5, the check that
  relocated words ascend, the rewriting of single instructions.
* In `Program` a file is a sequence of blocks, written one at a time; a write of
  several blocks is several steps. A file which is not one whole image cannot be
  opened. What goes to standard output is not recorded.
  A temporary file is named after the process, and two processes have different
  numbers; that a number is used again while a temporary file of its first
  owner is still there is left out. What stays from file to file besides actions
  (the page size of `empty:aarch64`, renames which polyfills impose) is left out.
* In `ThreadAtexit` glibc's part (creation of keys, rounds of destructors, exit)
  is as the code uses it, and a destructor is a step which may register others.
  Lists are run by the thread that owns them. `registered`, `during` and `ran` are history: `during` is the round
  of destructors in which a function was registered, and what exit runs counts as the last.
* In `Getauxval` an interrupted system call is repeated at once; a read returns
  any number of entries; munmap and close do not fail. Reading an unmapped page
  is the step "fault".

## 3. Checks

Every passing run explores its whole state space.

| Run | Question | Bounds, and why they suffice |
|---|---|---|
| `alloc` | Are ranges disjoint, mapped, loadable and with file contents of their own, and do rounds grow? | six files: text and data with a .bss, data which is not loaded, a big alignment, an empty file, and a file and an empty file of the other byte order; up to four buckets, two grants a round, 5 bytes a bucket. Two ranges are what a conflict takes; a page of 8 makes all boundary cases happen |
| `flush` | Does every file end with all edits, tables which agree, strings where ldconfig looks, prints once? | every set of up to three of the eight actions in an order or its reverse, prints repeated too, and 30 kinds of programs, libraries, and static programs; two files. Failures need at most two actions that interfere and a third one that moves things |
| `dynstr` | Does every reference keep its string? | every string table of up to six characters over two letters which is `Sound`, two references, three strings to add, dense and sparse (limit 4 for 1024) |
| `dynstr_adjacent` | violation, see 5 | as `dynstr` |
| `dhdrs` | Does the array implement the list? | arrays of two entries with every ending; three entries after growth |
| `versions` | Is every symbol bound as was asked for, and can a loader walk what is written? | four files (a program with newer versions, one without symbols which use them, a library with definitions, one without versions), three symbols, every sequence of three actions, with each of 125 renamings of the symbols: two libraries with two versions each let a group be emptied, kept, moved and reused |
| `linking` | Do symbols, references, initialisers and frames come out as what was meant? | a part of the shipped code, with its real names, flags and references, over files for x86_64, aarch64 and a third machine. Renames which impose others, chains and loops of renames, exports; 48 orders of slots for each target version; all combinations of initialiser, finaliser, entry point and unwind mode; implementations which call others; two rounds |
| `linking_relr` | violation, see 5 | as `linking` |
| `program` | Are files whole, flags and prints as meant? | two processes which write to one file, or of which one edits what the other writes to, killed or failing anywhere; one process with every two actions over lists of up to two mentions of two flags, over two files and two rounds; standard input and output, empty files, `--dry`, a device |
| `atexit` | One key, one handler, each function once, newest first, and an end? | two threads, two keys, nodes of 2 (7), 2 rounds (4), three registrations: a node overflows, and a destructor registers more often than there are rounds |
| `atexit_exit` | violation, see 5 | as `atexit` |
| `auxv` | One owner per page, no read of unmapped memory, right answers? | two threads, three calls, three pages, a vector of three entries of which a page holds two |

The variables called history record what the properties speak about: the ranges
given out, the strings and bindings wanted, the order in which functions ran.

Preconditions. `dynstr` takes files which are `Sound`: where the string table is
compacted, two strings in use are not next to each other, and nothing refers to
offset 0; others go wrong (5). References are removed only where the table is too
small to be compacted, because a retry out of
`encode_from_existing` keeps a table without the strings which were removed before
it was built. `Bindings` and the properties next to it are about files behind whose
allocation nothing was placed, and about renames which do not reuse a version that
an earlier action deleted; `InsideAllocation` says when the first of these can
happen at all: that it does once a group is deleted is how the code is (5), and nothing here
excludes it. `NativePhdrsEnsured` is about files of the host's byte order, `TargetMet` about the
symbols of every file and the list of required versions of those in which something else
changes it; for the others see 5. `ExitRuns` leaves out that exit comes before the handler is
registered, which `atexit_exit` shows. `FramesAgree` gives the length of the table of frames
exactly: as many entries as its header counts, except that one is missing where aarch64
code has externs and none of them a stub (5). `versions` takes files
which are `WellFormed`: their lists of versions end, no structure is in two of them, every
definition has a name, no two versions have one index and no symbol an index without a
version, and the version which stands for DT_RELR, or for addends for
PLT rewriting, is required where the file has these (`feats`). That is what linkers write
for glibc; `vers_init` trusts `vn_next`, `vn_aux` and their like, and a list which never ended
would keep it busy for ever.

### Fairness

* `ErwFlush`: `WF(Round)`. The program is sequential and does not wait for
  anything; its next instruction is executed.
* `ThreadAtexit`, `Getauxval`: `WF(Step(t))` for each thread. The scheduler of
  the kernel does not forget a thread. There is no fairness for what the program decides
  (registering, calling, exiting) and none for what the environment does.
  `Answered` has no fairness for init and fini.

The other modules state safety only: `Program` may be killed, and that its
rounds end is what `alloc` and `flush` show.

Deadlock is checked in `flush`, `dynstr`, `versions`, `linking` and `program`, where
the end is a step of its own. In the others all may be done: threads are gone, or
the bound on calls is reached.

## 4. Proofs

All theorems are for arbitrary constants which satisfy the `ASSUME` of the module.

* `BucketAlloc_proofs`: `TypeCorrect`, `GivenDisjointCorrect` and
  `RoomGrowsCorrect`, for any files, page size, alignments and sequence of
  requests. `GivenDisjoint` is not inductive: that two grants from different
  buckets do not overlap depends on how a whole retry laid the buckets out. The
  invariant `DisjointInv` adds that every grant lies within its bucket, that the
  ranges of two buckets are apart, and, half-way through the layout, that the
  buckets which are done end below the cursor, while nothing is handed out. The
  step theorem has one lemma for each kind of layout; `AlignUp`, `CongruentFrom`
  and the placement of segments have lemmas of their own, which say that cursors
  only move up. `RoomGrows` is an action property about every bucket in use, whether a retry
  moves it or not. It needs that the buckets which a retry has yet to deal out are as the
  failed round left them, so that what that round asked is still known when their turn
  comes (`RoomOwed`), and that the retry takes up all that are in use (`AllTaken`);
  `RoomStep` and `TakenStep` are its steps. The type invariant is proved
  and no longer part of a run.
* In the same module: `SegmentsLoadableCorrect`, `GivenMappedCorrect`,
  `ImagesDisjointCorrect` and `NativePhdrsEnsuredCorrect`, about the PT_LOADs which
  a retry makes. None of the four is inductive: what is handed out in a round is
  where the layout before that round put its bucket, and the PT_LOAD which maps it may
  be one that the first bucket of these flags opened and later buckets made longer.
  `GeometryInv` relates the three: between any two PT_LOADs there is the boundary of a
  page, both in memory and in the file; address and offset of each agree modulo
  the alignment, and the cursors of the layout are as far along as the last of
  them; every bucket which has been placed is held by one, at the same distance in
  the file as in memory (`Holds`, `PlacedHeld`), so that bytes of one range never
  share an offset with bytes of another. `FiledInv` says this of the buckets which are
  in the file only, `LoadsMade` that there is at most one PT_LOAD for each of the
  three kinds of protection. It needs some arithmetic of multiples (`DivMod` to
  `DivApart`), which is proved from the definition of remainders. Assumed are that
  page sizes are powers of two, of which one divides the other
  (`PageAssumption`; `set_page_size`, `src/main.c:733`, admits no others), that the
  PT_LOADs of the original files are ones which can be loaded (`FileAssumption`: address
  and offset agree modulo the alignment, as ELF demands), and that there is a program
  header for each of them (`AllocAssumption`).
* `ErwFlush_proofs`: `EditorsLoadedCorrect`, `NoLostEditsCorrect`,
  `TablesAgreeCorrect`, `LdconfigFindsStringsCorrect` and `AllDoneCorrect`, for any
  files, any command line in which the eight actions come in any order and
  number, and any number of rounds. All five speak of a file which is written out,
  at the end of rounds of which each but the last has failed somewhere. What makes this hard
  is that the flags (`modified`) outlive a failed round while the editors and addresses
  do not, so that in the next round a flag is set before anything is loaded. The
  invariant `ErwInv` therefore keeps apart why a flag is set (`Reasons`: some action of
  the command line, whatever the round), what a flag must be set for (`Flagged`), and
  that whatever set it comes again before the stage that looks at it
  (`LoadedInTime`, with `Pending` for the actions still to come). `Loading` and `Contents`
  relate the editors to the original file, `Entries` the addresses to
  `retry`. `StageInv` says what each stage of flush leaves (`VersDone`, `DsymsDone`, `DynstrDone`,
  `RelocsDone`, `DhdrsDone`, `PhdrsDone`): if no allocation failed, a table which agrees
  with the others, and which no later stage moves again. `PrintInv` is about the actions which
  print once, in whichever round they first can. A stage calls up to ten
  functions of the editors; each is shown to stay within a frame (`LoadStep`,
  `EditStep`, `PartStep`, `PhdrsStep`), frames are closed under composition, and what a frame
  keeps is shown once. `FlushAssumption` states what a file may be.
* `DynstrEditor_proofs`: `StringsKeptCorrect` and `TableSoundCorrect`, for any tables of
  any size, any number of references, strings to add and retries, and either way of
  beginning a new table. Both are theorems about files which are `Sound`, the
  precondition of the run `dynstr`, which they name as a hypothesis (`FilesSound`).
  Neither is inductive: before a new table is begun they need that the known
  strings fit the original file (`Fits`: entries are what the file has at their
  offsets, one of them ends it, and where a compaction is possible there is one for
  every reference), and from then on that every entry and every reference spells
  its string in the new table (`Holding`). `BuildHolds` is the step between the two.
  Its core is compaction: `Copying` says what is true after the entries below some
  offset: the ranges so far begin below it, the last copy is that of an entry with one
  more character (`LastCopy`), and each entry so far is spelled where the last range
  which begins at or before it puts it (`Moved`). An entry which begins inside a string
  of another ends where that one ends (`EndsTogether`), so it has been copied with
  it; one which begins right behind it would be skipped without a copy, which is where
  `Sound` is needed.
  `CopyStep` is the step of the loop, `CompactedIs` its end, with the search for the
  range of a reference. `StringIs` and `StringThere` relate strings to the NULs that end
  them.
* `DhdrEditor_proofs`: `ImplementsCorrect` and `FlagsExactCorrect`, for any names, lists
  and bits, any dynamic arrays (with DT_NULLs anywhere, entries behind them, several
  DT_FLAGS, in place or on the heap), and any sequence of edits before the flush.
  The refinement mapping takes the array for the list of its entries which are no DT_NULLs,
  and each action of the editor is shown to be one of `DynamicSection`, one
  lemma each (`AddDebugStep` to `NeededSteps`, `FlushStep`). Below them are lemmas which say
  what becomes of the list when an entry of the array is put into a DT_NULL, put at
  either end, replaced by another or by a DT_NULL (`LivePut`, `LiveLate`, `LiveEarly`, `LiveBits`,
  `LiveMasked`); and below these that a set of positions has exactly one ascending listing
  (`AscendingExists`, `AscendingUnique`), and how it changes when a position comes or
  goes. For a flush, `FixupShape` says that a loader stops at the first DT_NULL behind the list,
  with or without an entry of the file behind it, and `InitLive` that the loader
  sees the list of an unmodified file too. The invariant needs only types and that an
  array which has not been modified is that of the file (`Original`). `FlagsExact`
  needs that removing DT_SYMBOLIC leaves the last DT_FLAGS the last (`SymbolicMasked`), and
  that what it becomes (`LastBits`) does not depend on the DT_FLAGS before it.
  What is assumed is that arrays consist of entries, and that the value of one which
  refers to a string is that string (`EntryType`).
* `SymbolVersions_proofs`: `ImageAgreesCorrect`, `InsideAllocationCorrect`,
  `FeaturesRequiredCorrect`, `BindingsCorrect`, `NothingUnusedCorrect` and
  `TargetMetCorrect`, for any well-formed files (`VersionsAssumption`), any sets of symbols,
  renamings, libraries and newer versions, and any number of actions. They
  speak of what is there after `vers_flush`. What has to be true before it is
  `Editing`: both lists of the editor are tied to the lists in the file (`Tied`: an entry which
  has an address is linked there to the next which has one; entries without an address, which
  are new, may be anywhere between), an entry agrees with what is there unless it is
  dirty (`ItemIs`, `GroupIs`), no two structures share an address (`Apart`, `Disjoint`), a table
  which is not noted as modified is clean, and a feature is known to a C library which is
  required (`KnownIn`). Actions mark entries (`Like`) or put new ones into the lists
  (`ComesFrom`); removing a needed library and applying renames do so once per item or
  symbol, by induction over the steps of a loop (`DefiningItems`, `DefiningGroup`, `RebindingAll`).
  `vers_flush` is followed stage by stage. Live entries keep their places, are dealt
  those of deleted ones, or are laid out in an allocation (`Ensured`): each time what is not
  dirty still links to its successor if that is not dirty either. Deleted entries are taken out,
  and what was before them becomes dirty (`Whole`); dirty ones are written (`InFile`), and those of
  one list do not touch the other (`FlushKeeps`). `ChainSteps` to `FileSeen` then read the lists
  back from their heads. `InsideAllocation` is a matter of counting: groups and items are numbered
  (`RankIs`, `ItemsCounted`), and what is numbered last ends where the allocation does.
  For `FeaturesRequired`, a version goes together with its feature
  (`Removing`), and with its group only if the sweep takes it out.
  `BindingsCorrect`, `NothingUnusedCorrect` and `TargetMetCorrect` need a second invariant,
  `BInv`, which is inductive together with the first and relates `base` to the items, the indices
  of symbols and the history. Every entry of `base` is that of one item or
  definition and no two entries are of the same one (`Indexed`; an item of a library that is to be
  removed may have lost its entry to the definition which takes its place); the index of a symbol
  stands for a version which will be there (`Present`) and is the wanted one (`Binds`); an
  item without a symbol is marked, or had none in the file (`Spared`), and one that is newer
  than the target is weak, or marked without a symbol (`OldOnly`). `LoadedSound` derives this from
  what is assumed of a file, that no two versions have one index (`CarriedOnce`).
  Actions which move nothing keep it (`Kin`, for instance `RefsRemoved`); removing a
  library hands the entries of its items over to definitions (`Turned`), and a rename
  finds an index or takes an unused one (`RebindAllSound`). For `vers_flush`, a list is reduced to the set
  of what is in it (`Lines`): dealing out places leaves it alone (`EnsuredLines`),
  erasing leaves what lives (`ErasedLines`), and that is what was not garbage
  (`NeedLeft`, `DefLeft`). Hence the version of every symbol is still there (`UsedStays`,
  `BoundStill`), and what is still there was not marked or has a symbol (`StaysUsed`, `NoneUnused`, `NoneNewer`). That an index
  which remains is not beyond the last one is `Dropping`.
* `Program_proofs`: `TargetWholeCorrect`, for any number of processes, command
  lines, files, sizes of images and rounds, and with a failure or a kill at any
  step. `TargetWhole` is not inductive: that a rename installs a whole image
  depends on what its process has written. The invariant adds, per process,
  where it writes and that it only renames a temporary file of its own
  (`Writing`); that the blocks of that file are the ones it has written so far
  (`Prefix`); that it was not there before (`Fresh`); and shapes (`Own`, `Domains`,
  `Blocks`). One lemma, `Frame`, says that a process whose variables and temporary
  files do not change keeps its part, which is what makes the processes
  independent: temporary files of different processes have different names.
  Assumed are that a name next to which a temporary file can be created is not
  standard output, and that no process is called `None`.
* In the same module: `FlagsMeantCorrect`, for any command lines, images, flags
  and rounds. `MeantFlags` says what the flags of a command line mean: of the
  actions which mention a flag the last one decides, and in it the last
  mention. `FlagsMeant` is not inductive: an action of the kind "remove" has its list
  inverted in place the first time it is executed, and is one of the kind "add" in
  the rounds and for the files after that. The invariant says that each action has
  `Became` one with the same `Effect`, whichever of the two it is now, so that
  inverting, and resetting inert actions for the next file, keep what it means; that
  half-way through a round the flags are `MeantFlags` of the actions done
  so far; and that every block of every file comes from an image with known flags
  (`Coloured`), so that this is true of what is opened next. `MeantAct` and
  `MeantSkip` are the step from one action to the next. It builds on the
  invariant of `TargetWhole`. Assumed is that a command line is a list of
  actions, those which change flags with a list of mentions of flags (`WellFormed`).
* Last there: `PrintsMeantCorrect`, for the same. A round which fails is run again from
  the first action, with the list of what to print still there, so the
  theorem is about what keeps a print from being made twice: a print becomes inert once
  made, those made are an initial part of those of the command line, and in a round which
  has not failed they reach up to the action which is next (`InOrder`); one which has
  failed is run again (`Repeats`). That what is printed is what the flags mean at that point of the
  command line (`Shows` of what the process `Did`) is taken from the invariant of
  `FlagsMeant`; `ShowsMore` is the step by one print.
* `ThreadAtexit_proofs`, for any number of threads, keys, rounds and sizes of a node, and
  functions which register others. First `KeyValidCorrect`, `OneHandlerCorrect` and
  `KeyStableCorrect`: the invariant `IInv` is the conjunction of the first two with types and
  with "a thread in exit's loop is the one that called exit". Steps which concern
  the list of a thread are dealt with by one frame lemma, `AsidePreserves`; every
  step of the protocol has its own. Then `TypeCorrect`, `AccountedCorrect`,
  `NewestFirstCorrect` and `AllRunCorrect`, about the lists. `OwnInv` says of one thread
  where its functions are at each of its steps (in the list of its key, in the
  list which the round has detached, running, or run), that a list is sorted by age,
  and is not concerned by a step of another thread (`OwnFrame`). `ProcessInv` says what the loop of exit has found. Each way in
  which a list changes, at its first function, in a full node, or when a node
  has run empty, has its lemma on sequences (`NewFirst`, `AddFirst`, `TakeLast`,
  `DropFirst`). `AllRun` does not count functions, of which there may be any number, but asks in which
  round each was registered (`during`). `DuringInv` relates that to the lists: what is in the
  list of a key was registered in the round that its thread is in, as the round before has detached
  all there was (`DuringOf`). A thread is gone when its list is empty or the rounds are used up
  (`ThreadEndRunsHolds`); with `ProcessInv`, exit leaves only what was registered while
  its handler ran (`ExitRunsHolds`).
* `Getauxval_proofs`: `TypeCorrect`, `OwnedCorrect`, `ReadsMappedCorrect` and
  `AnswerRightCorrect`, for any number of threads, any vector and any room in a
  page. `Owned` and `ReadsMapped` are inductive together and with types: a thread
  reads mapped memory because the page it has loaded is still that of
  all, and this page is mapped because no one else has it. `AnswerRight` needs
  that the shared page, and one that is about to be published, hold all that can be
  read, and that a thread which gives up has seen a failure.

Each invariant was checked by TLC on an instance before it was proved, that of
`ErwFlush` also on random kinds of files with every command line of up to three
actions.

Only model-checked:

* liveness under fairness (`Finished`, `Terminates`, `Answered`), which is out of the
  prover's reach;
* `Linking`, whose operators are folds and recursive functions over the code and the lists
  of a file: facts about them need induction over data.

## 5. Where the code and its documentation disagree

Shown by runs:

* `dynstr_adjacent`: `src/erw.c:1097` adds one to a length that includes the
  terminator already (`src/erw.h:54`), and a string in use directly behind another
  is not copied: what refers to it reads another string.
* `linking_relr`: `src/renamer.c:508` removes DT_RELR and its companions before the
  code which is to do their work has looked them up
  (`src/x86_64/polyfiller.c:359`), and that code is given an empty range.
* `atexit_exit`: `src/x86_64/atexit.s:131` publishes the key before the handler is registered (line 143):
  between the two another thread can register a function, exit, and leave without its being run.

Seen while modelling, without a run of their own; the models follow the code, or
leave the case out as said above:

* `src/erw_nne.h:608` replaces a string by itself only, so `--set-soname` has no effect on a
  file which has a soname (`docs/Command_line_options.md:118`). `DynamicSection` leaves such an
  entry as it is, too.
* `src/erw_nne.h:2455` compares `p_flags` in the byte order of the file with flags in that of
  the host, so that in a file of the other order each bucket gets a PT_LOAD of its own, more
  than there is "space for" (line 2407).
* `src/renamer.c:515` marks newer versions as perhaps unused, but does not say that the versions
  have been modified: if nothing else does, they stay required, and an older C library refuses
  the file with the error that the step "can prevent" (`README.md:10` and 13). `TargetMet` says
  what holds.
* `src/aarch64/polyfiller.c:174` counts every extern as a frame, also those which get no stub
  because they are renamed to an implementation, and which the loop that writes (line 224)
  skips. If there are no others, the table for the unwinder has an entry which is never
  written, though `--polyfill-cfi=full` is to "provide CFI for all statically linked functions"
  (`docs/Command_line_options.md:168`). `FramesAgree` has this case, and no other.
* `src/erw.c:986` takes offset 0 for an empty slot: the empty string at 0 is
  unknown to compaction.
* `src/erw.c:716` counts groups which are deleted when it places items, and not
  when it measures the room (`InsideAllocation`).
* `erw_vers_find_or_add` and `ensure_verneed` can return a version or a group which
  is about to be deleted (`Bindings`); `vn_cnt` of a group which is not dirty is
  not adjusted.
* `src/x86_64/polyfiller.c:492` decides on unwind information before internal
  functions are added.
* Imposed renames (`src/renamer.c:335`) and a page size
  (`src/main.c:861`) stay for the following files.
* `--dry` ignores `--output`, while `docs/Command_line_options.md:50` calls it a
  shorthand for `--output=/dev/null`.
* `write_out_to` does not truncate a file which it writes to directly, leaves the temporary
  file behind when writing fails, and ignores what close returns.

## 6. Not modelled, and what is left

* **Assembler and build**: encodings of instructions, at build time; sequential text
  processing without state worth a state machine.
* **Address map, containers**: pure data structures of one thread, used as functions and sets
  by the modules. Where the order of a hash table's slots matters, it is arbitrary.
* **Relative interpreter**: one sequence of system calls before anything else runs.
* **Printing of unwind information**, and of tables: reads only.
* **Other polyfills**: a system call or a pure function each, except `sem_clockwait`
  (`src/x86_64/glibc_2_30.s:97`), which stores a pointer and the way to call it in two
  steps; it is the first one to add.
* **Relocations** are a list in `Linking` and an order in `ErwFlush`; their division
  into five tables, sorting and the encoding of DT_RELR are left out, as are the bloom
  filter and the chains of the hash tables: what they compute is arithmetic on one
  table, without interaction.

Next, in this order: `SemClockwait`, two threads and two words; the relocation editor with its tables,
below `Linking`.
