------------------------------ MODULE ErwFlush ------------------------------
(***************************************************************************)
(* The rounds in which a file is edited: the loop of main in main.c over   *)
(* the actions of the command line, the editors of erw_state_t which these *)
(* actions load and change, erwNNE_(flush) and its stages, and             *)
(* erwNNE_(retry), in erw_nne.h and erw.c.                                 *)
(*                                                                         *)
(* A table of the file is edited where it is, or on the heap when it has   *)
(* to grow or is not contiguous in the file.  The stage of flush which     *)
(* belongs to it asks for room, records the new address in the dynamic     *)
(* section or in the program headers, and writes the table there.  When    *)
(* there is not enough room, the whole round is repeated on the original   *)
(* file with more room, and the next round must not be confused by what    *)
(* the failed one has left behind.                                         *)
(*                                                                         *)
(* The state of the program is the record erw, as in the code, and a       *)
(* function of the code which changes it is an operator from record to     *)
(* record.  The addresses of the tables are abstracted to where a table is *)
(* (BucketAlloc has the allocator itself) and its contents to what can be  *)
(* wrong about them with respect to another table.                         *)
(***************************************************************************)
EXTENDS Naturals, Sequences, FiniteSets

CONSTANTS
  CommandLines,  \* the command lines: sequences of actions
  Files,         \* the original files
  MaxFiles       \* bound: the number of input files

Kinds == {"print", "set_interpreter", "add_late_needed", "add_gnu_hash", "add_hash",
          "remove_verneed", "weak_verneed", "remove_debug"}

\* What matters of an original file.
FileRecord ==
  [ dynamic  : BOOLEAN,                \* it has a PT_DYNAMIC
    tags     : SUBSET {"GNU_HASH", "HASH", "VERNEED", "RELA", "DEBUG", "SONAME"},
    nulls    : Nat,                    \* DT_NULLs which dhdrs_init counts
    phdrs    : Nat,                    \* e_phnum
    interp   : BOOLEAN,                \* it has a PT_INTERP
    split    : SUBSET {"dsyms", "relocs"}, \* tables not contiguous in the file
    sorted   : BOOLEAN,                \* the symbols are in the order of a new GNU hash
    sparse   : BOOLEAN,                \* start_building_new compacts the strings
    known    : BOOLEAN,                \* the name to add is among the strings already
    far      : BOOLEAN,                \* the first PT_LOAD has another v2f than the new one
    strFar   : BOOLEAN ]               \* ... and so does DT_STRTAB

ASSUME FlushAssumption ==
  /\ CommandLines \subseteq Seq(Kinds)
  /\ Files \subseteq FileRecord
  /\ MaxFiles \in Nat \ {0}

Categories == {"f", "r", "rw"}   \* erw_alloc_category_f, _v_r, _v_rw
Tags == {"STRTAB", "SYMTAB", "VERSYM", "VERNEED", "RELA", "GNU_HASH", "HASH",
         "DEBUG", "SONAME"}

\* The contents of the tables which have been written in this round.
NoImage == [strings |-> FALSE, added |-> FALSE, vers |-> << >>, hash |-> << >>,
            gnuHash |-> << >>]

\* Where a table is: where it was, in new space, at the 0 of a failed
\* allocation, or nowhere.
Place == {"old", "new", "zero", "none"}

VARIABLES
  cmd,      \* the actions of the command line
  inert,    \* the actions which are action_inert
  printed,  \* the print actions which have printed for this file, in order (history)
  left,     \* the number of files still to be edited
  file,     \* the original file
  act,      \* the next action
  pc,       \* "acts", the stage of flush to be run next, or "done"
  erw       \* the erw_state_t

vars == <<cmd, inert, printed, left, file, act, pc, erw>>

-----------------------------------------------------------------------------
(* Editors.  An editor is loaded from the original file when first needed. *)

\* SYMTAB and STRTAB come with PT_DYNAMIC, VERSYM with VERNEED.
OriginalTags(fl) ==
  IF ~ fl.dynamic THEN {}
  ELSE fl.tags \cup {"STRTAB", "SYMTAB"} \cup (IF "VERNEED" \in fl.tags THEN {"VERSYM"} ELSE {})

OriginalDhdrs(fl) ==
  [ loaded |-> TRUE, heap |-> FALSE, moved |-> FALSE, needed |-> FALSE,
    tags |-> [t \in Tags |-> IF t \in OriginalTags(fl) THEN "old" ELSE "none"],
    live |-> Cardinality(OriginalTags(fl)),
    nulls |-> IF fl.dynamic THEN fl.nulls ELSE 0 ]

OriginalPhdrs(fl) ==
  [ heap |-> FALSE, count |-> fl.phdrs, at |-> "old",
    interp |-> IF fl.interp THEN "old" ELSE "none",
    dynamic |-> IF fl.dynamic THEN "old" ELSE "none" ]

OriginalRelocs(fl) ==
  [ loaded |-> TRUE, dirty |-> FALSE, reordered |-> FALSE,
    heap |-> fl.dynamic /\ "RELA" \in fl.tags /\ "relocs" \in fl.split ]

OriginalDsyms(fl) ==
  [ loaded |-> TRUE, any |-> fl.dynamic, reordered |-> FALSE, moved |-> FALSE,
    heap |-> fl.dynamic /\ "dsyms" \in fl.split,
    versions |-> "VERSYM" \in OriginalTags(fl),
    wantHash |-> "HASH" \in OriginalTags(fl),
    wantGnuHash |-> "GNU_HASH" \in OriginalTags(fl) ]

OriginalVers(fl) ==
  [ loaded |-> TRUE, need |-> "VERNEED" \in OriginalTags(fl), weak |-> FALSE,
    moved |-> FALSE ]

\* free_editors_common, or erw_init: nothing is loaded.
Unload(e, fl) ==
  [e EXCEPT !.dhdrs = [OriginalDhdrs(fl) EXCEPT !.loaded = FALSE],
            !.relocs = [OriginalRelocs(fl) EXCEPT !.loaded = FALSE],
            !.dsyms = [OriginalDsyms(fl) EXCEPT !.loaded = FALSE],
            !.vers = [OriginalVers(fl) EXCEPT !.loaded = FALSE, !.need = FALSE],
            !.building = FALSE, !.added = FALSE]

LoadDhdrs(e) ==
  IF e.dhdrs.loaded THEN e ELSE [e EXCEPT !.dhdrs = OriginalDhdrs(file)]

LoadRelocs(e) ==
  IF e.relocs.loaded THEN e ELSE [LoadDhdrs(e) EXCEPT !.relocs = OriginalRelocs(file)]

\* Without a DT_SYMTAB there are no symbols, and the relocations are not needed.
LoadDsyms(e) ==
  IF e.dsyms.loaded THEN e
  ELSE [(IF file.dynamic THEN LoadRelocs(e) ELSE LoadDhdrs(e))
          EXCEPT !.dsyms = OriginalDsyms(file)]

LoadVers(e) ==
  IF e.vers.loaded THEN e ELSE [LoadDhdrs(e) EXCEPT !.vers = OriginalVers(file)]

Modify(e, flags) == [e EXCEPT !.modified = @ \cup flags]

\* erw_alloc of n from the bucket of category c, and the address it returns.
Alloc(e, c, n) ==
  [e EXCEPT !.used[c] = @ + n, !.retry = @ \/ e.used[c] + n > e.room[c]]
Address(e, c, n) == IF e.used[c] + n <= e.room[c] THEN "new" ELSE "zero"

\* The categories of the buckets which exist.
Mask(e) == {c \in Categories : e.room[c] + e.used[c] > 0}

\* erwNNE_(dhdrs_set_u): updates the entry, or takes a DT_NULL, or grows.
SetTag(e, t, place) ==
  LET d == e.dhdrs IN
  IF d.tags[t] = place /\ place = "old" THEN e
  ELSE Modify([e EXCEPT !.dhdrs =
         [d EXCEPT !.tags[t] = place,
                   !.live = IF d.tags[t] = "none" THEN @ + 1 ELSE @,
                   !.nulls = IF d.tags[t] = "none" /\ @ > 0 THEN @ - 1 ELSE @,
                   !.heap = @ \/ (d.tags[t] = "none" /\ d.nulls = 0)]], {"DHDRS"})

\* erwNN_(dhdrs_remove): the entry becomes a DT_NULL.
RemoveTag(e, t) ==
  IF e.dhdrs.tags[t] = "none" THEN e
  ELSE Modify([e EXCEPT !.dhdrs.tags[t] = "none", !.dhdrs.live = @ - 1,
                        !.dhdrs.nulls = @ + 1], {"DHDRS"})

\* Variant: the versions which refer to moved strings are not flushed.
StartBuildingNew_NoVersions(e0) ==
  LET e == Modify(LoadVers(LoadDsyms(LoadDhdrs(e0))), {"DYNSTR"})
      moved == file.sparse /\ file.dynamic
      m == IF moved THEN Modify(e, {"DHDRS", "DSYMS"}) ELSE e
  IN [m EXCEPT !.building = TRUE, !.dhdrs.moved = moved, !.dsyms.moved = moved,
               !.vers.moved = moved /\ e.vers.need]

\* erw_dynstr_start_building_new: from now on the string table is a new one.
\* Compaction changes the references to the strings, wherever they are.
StartBuildingNew(e0) ==
  LET e == Modify(LoadVers(LoadDsyms(LoadDhdrs(e0))), {"DYNSTR"})
      moved == file.sparse /\ file.dynamic
      m == IF moved
           THEN Modify(e, {"DHDRS", "DSYMS"} \cup (IF e.vers.need THEN {"VERNEED"} ELSE {}))
           ELSE e
  IN [m EXCEPT !.building = TRUE, !.dhdrs.moved = moved, !.dsyms.moved = moved,
               !.vers.moved = moved /\ e.vers.need]

-----------------------------------------------------------------------------
(* The actions of the command line.                                         *)

\* erwNNE_(phdrs_set_interpreter)
SetInterpreter(e) ==
  IF e.phdrs.interp = "new" THEN e
  ELSE LET grown == e.phdrs.interp = "none"
           p == [e.phdrs EXCEPT !.heap = @ \/ grown,
                                !.count = IF grown THEN @ + 1 ELSE @]
           a == Alloc(Modify(e, {"MISC", "PHDRS"}), "f", 1)
           written == Address(e, "f", 1) = "new" /\ ~ a.retry
       IN [a EXCEPT !.phdrs =
             [p EXCEPT !.interp = IF written THEN "new" ELSE IF grown THEN "zero" ELSE @]]

\* action_add_late_needed: erw_dynstr_encode, then erwNNE_(dhdrs_add_late_u),
\* which appends after the DT_NULLs and therefore always grows.
AddLateNeeded(e0) ==
  LET e == LoadDhdrs(e0)
      b == IF file.known \/ e.added \/ e.building THEN e ELSE StartBuildingNew(e)
  IN IF e.dhdrs.needed THEN e
     ELSE Modify([b EXCEPT !.added = @ \/ ~ file.known,
                           !.dhdrs.needed = TRUE, !.dhdrs.heap = TRUE,
                           !.dhdrs.live = @ + 1], {"DHDRS"})

\* erw_dsyms_add_hash
AddGnuHash(e0) ==
  LET e == LoadDsyms(e0) IN
  IF e.dsyms.wantGnuHash THEN e
  ELSE Modify([e EXCEPT !.dsyms.wantGnuHash = TRUE], {"DSYMS"})

AddHash(e0) ==
  LET e == LoadDsyms(e0) IN
  IF e.dsyms.wantHash THEN e
  ELSE Modify([e EXCEPT !.dsyms.wantHash = TRUE], {"DSYMS"})

\* action_remove_verneed: every group is pending deletion, no symbol refers to one.
RemoveVerneed(e0) ==
  LET e == LoadVers(e0) IN
  IF ~ e.vers.need THEN e
  ELSE LET d == LoadDsyms(e) IN
       Modify([d EXCEPT !.vers.need = FALSE],
              {"VERNEED"} \cup (IF d.dsyms.versions THEN {"DSYMS"} ELSE {}))

\* action_weak_verneed
WeakVerneed(e0) ==
  LET e == LoadVers(e0) IN
  IF e.vers.need /\ ~ e.vers.weak
  THEN Modify([e EXCEPT !.vers.weak = TRUE], {"VERNEED"}) ELSE e

RemoveDebug(e) == RemoveTag(LoadDhdrs(e), "DEBUG")

\* What an action which does not print does to the file.
Edit(kind, e) ==
  CASE kind = "set_interpreter" -> SetInterpreter(e)
    [] kind = "add_late_needed" -> AddLateNeeded(e)
    [] kind = "add_gnu_hash" -> AddGnuHash(e)
    [] kind = "add_hash" -> AddHash(e)
    [] kind = "remove_verneed" -> RemoveVerneed(e)
    [] kind = "weak_verneed" -> WeakVerneed(e)
    [] kind = "remove_debug" -> RemoveDebug(e)

-----------------------------------------------------------------------------
(* The stages of flush.                                                     *)

\* erwNNE_(vers_flush).  Without versions left, the array of the versions of the
\* symbols goes as well.
FlushVers(e0) ==
  LET e == LoadDsyms(e0)
      t == IF e.vers.need THEN SetTag(e, "VERNEED", "old") ELSE RemoveTag(e, "VERNEED")
      w == IF e.vers.need /\ ~ e.retry
           THEN [t EXCEPT !.image.vers = <<e.vers.weak, e.vers.moved>>]
           ELSE t
  IN IF w.dsyms.versions /\ ~ w.vers.need
     THEN Modify([w EXCEPT !.dsyms.versions = FALSE], {"DSYMS"})
     ELSE w

\* erwNNE_(relocs_remap) and erwNN_(dsyms_remap)
Reorder(e) ==
  LET hasRela == "RELA" \in OriginalTags(file)
      r == [e EXCEPT !.dsyms.reordered = TRUE]
  IN IF file.sorted \/ ~ e.dsyms.any THEN e
     ELSE IF ~ hasRela THEN r
     ELSE Modify([r EXCEPT !.relocs.reordered = TRUE, !.relocs.dirty = TRUE], {"RELOCS"})

\* erwNNE_(rebuild_gnu_hash), of a file which had no such table: puts the
\* symbols in the order of the table, unless the round has failed.
RebuildGnuHash(e) ==
  LET t == SetTag(Alloc(e, "r", 1), "GNU_HASH", Address(e, "r", 1))
      r == Reorder(t)
  IN IF t.retry THEN t ELSE [r EXCEPT !.image.gnuHash = <<r.dsyms.reordered>>]

\* erwNNE_(rebuild_elf_hash): a table which is large enough is rebuilt in place.
RebuildElfHash(e) ==
  LET t == IF e.dhdrs.tags["HASH"] = "old" THEN e
           ELSE SetTag(Alloc(e, "r", 1), "HASH", Address(e, "r", 1))
  IN IF t.retry THEN t
     ELSE [t EXCEPT !.image.hash = <<t.dsyms.reordered>>]

FlushHashes(e) ==
  LET rebuild == e.dsyms.wantGnuHash /\ "GNU_HASH" \notin OriginalTags(file)
      g == IF rebuild THEN Modify(RebuildGnuHash(e), {"HASH_TABLES"}) ELSE e
  IN IF /\ g.dsyms.wantHash
        /\ "HASH" \in OriginalTags(file) => "HASH_TABLES" \in g.modified
     THEN RebuildElfHash(g) ELSE g

\* erwNNE_(dsyms_flush)
FlushDsyms(e0) ==
  LET e == FlushHashes(e0)
      s == SetTag(Alloc(e, "r", 2), "SYMTAB", Address(e, "r", 2))
      v == IF s.dsyms.versions
           THEN SetTag(Alloc(s, "r", 1), "VERSYM", Address(s, "r", 1))
           ELSE RemoveTag(s, "VERSYM")
  IN IF ~ e.dsyms.any THEN RemoveTag(RemoveTag(e, "SYMTAB"), "VERSYM")
     ELSE IF ~ e.dsyms.heap
     THEN IF e.dsyms.versions THEN e ELSE RemoveTag(e, "VERSYM")
     ELSE IF v.retry THEN v ELSE [v EXCEPT !.dsyms.heap = FALSE]

\* erwNNE_(dynstr_flush)
FlushDynstr(e) ==
  LET a == Address(e, "r", 1)
      s == SetTag(Alloc(e, "r", 1), "STRTAB", a)
  IN IF a = "new" THEN [s EXCEPT !.image.strings = TRUE, !.image.added = e.added] ELSE s

\* erwNNE_(relocs_flush)
FlushRelocs(e) ==
  LET s == SetTag(Alloc(e, "r", 1), "RELA", Address(e, "r", 1)) IN
  IF ~ (e.relocs.loaded /\ e.relocs.dirty /\ e.relocs.heap) THEN e
  ELSE IF s.retry THEN s ELSE [s EXCEPT !.relocs.heap = FALSE]

\* erwNNE_(dhdrs_ensure_minimal): what ld.so takes for granted.
EnsureMinimal(e) ==
  LET s == IF e.dhdrs.tags["STRTAB"] # "none" THEN e
           ELSE SetTag(Alloc(e, "r", 1), "STRTAB", Address(e, "r", 1))
  IN IF s.dhdrs.tags["SYMTAB"] # "none" THEN s
     ELSE SetTag(Alloc(s, "r", 1), "SYMTAB", Address(s, "r", 1))

\* erwNN_(dhdrs_fixup_nulls): exactly one DT_NULL, if need be by growing.
FixupNulls(e) ==
  [e EXCEPT !.dhdrs.heap = @ \/ e.dhdrs.nulls = 0,
            !.dhdrs.nulls = IF e.dhdrs.heap \/ @ = 0 THEN 1 ELSE @]

\* erwNNE_(dhdrs_flush): the first PT_DYNAMIC is made if there is none.
WriteDhdrs(e) ==
  LET n == e.dhdrs.live + e.dhdrs.nulls
      grown == e.phdrs.dynamic = "none"
      a == Address(e, "rw", n)
      s == [Alloc(e, "rw", n) EXCEPT !.phdrs.heap = @ \/ grown,
                                     !.phdrs.count = IF grown THEN @ + 1 ELSE @,
                                     !.phdrs.dynamic = IF grown THEN "zero" ELSE @]
  IN IF s.retry THEN s
     ELSE [s EXCEPT !.phdrs.dynamic = a, !.dhdrs.heap = FALSE]

FlushDhdrs(e) ==
  LET m == FixupNulls(IF e.dhdrs.heap THEN EnsureMinimal(e) ELSE e)
  IN IF m.dhdrs.heap THEN WriteDhdrs(m) ELSE m

\* extra_phdrs_required_for_category_mask, and what retry adds of these.
ExtraPhdrs(e) ==
  (IF Mask(e) \subseteq {"f"} THEN 0 ELSE 2) + (IF "rw" \in Mask(e) THEN 1 ELSE 0)
NewLoads(e) == Cardinality(Mask(e) \ {"f"})

\* Variants: DT_STRTAB stays where it is; it is moved in every round.
MovePhdrs_KeepStrings(e) ==
  LET a == Alloc(e, "r", e.phdrs.count)
      first == \A c \in Categories : e.room[c] = 0
      s == IF file.far
           THEN [Alloc(a, "r", 1) EXCEPT !.phdrs.count = @ + 1] ELSE a
  IN IF Address(e, "r", e.phdrs.count) = "zero"
     THEN IF first THEN Alloc(a, "r", ExtraPhdrs(a)) ELSE a
     ELSE IF s.retry THEN s
     ELSE [s EXCEPT !.phdrs.heap = FALSE, !.phdrs.at = "new"]
MovePhdrs_Again(e) ==
  LET a == Alloc(e, "r", e.phdrs.count)
      first == \A c \in Categories : e.room[c] = 0
      d == LoadDhdrs(a)
      again == d.dhdrs.tags["SONAME"] # "none" /\ file.strFar
      s == IF again THEN [Modify(d, {"DYNSTR"}) EXCEPT !.retry = TRUE] ELSE a
  IN IF Address(e, "r", e.phdrs.count) = "zero"
     THEN IF first THEN Alloc(a, "r", ExtraPhdrs(a)) ELSE a
     ELSE IF s.retry THEN s
     ELSE [s EXCEPT !.phdrs.heap = FALSE, !.phdrs.at = "new"]

\* erwNNE_(phdrs_flush), with erwNNE_(phdrs_bug_workaround): the headers are
\* overwritten if they still fit, and no memory has been added.  The headers
\* which are moved need a PT_LOAD of the same v2f, and so does, for ldconfig, a
\* DT_STRTAB with a DT_SONAME; moving the strings takes one more round.
MovePhdrs(e) ==
  LET a == Alloc(e, "r", e.phdrs.count)
      first == \A c \in Categories : e.room[c] = 0
      w == IF file.far
           THEN [Alloc(a, "r", 1) EXCEPT !.phdrs.count = @ + 1] ELSE a
      d == LoadDhdrs(w)
      again == /\ "DYNSTR" \notin d.modified
               /\ d.dhdrs.tags["SONAME"] # "none"
               /\ d.dhdrs.tags["STRTAB"] # "none" /\ file.strFar
      s == IF again THEN [Modify(d, {"DYNSTR"}) EXCEPT !.retry = TRUE]
           ELSE IF "DYNSTR" \in d.modified THEN w ELSE d
  IN IF Address(e, "r", e.phdrs.count) = "zero"
     THEN IF first THEN Alloc(a, "r", ExtraPhdrs(a)) ELSE a
     ELSE IF s.retry THEN s
     ELSE [s EXCEPT !.phdrs.heap = FALSE, !.phdrs.at = "new"]

FlushPhdrs(e) ==
  IF e.phdrs.count <= file.phdrs /\ Mask(e) \subseteq {"f"}
  THEN [e EXCEPT !.phdrs.heap = FALSE]
  ELSE MovePhdrs(e)

\* Variant: the strings are not copied again.
Retry_NoStrings(e) ==
  LET r == [e EXCEPT !.room = [c \in Categories |-> IF e.used[c] > e.room[c]
                                                    THEN e.used[c] ELSE e.room[c]],
                     !.used = [c \in Categories |-> 0],
                     !.retry = FALSE,
                     !.image = NoImage,
                     !.phdrs = [OriginalPhdrs(file) EXCEPT !.heap = TRUE,
                                                           !.count = @ + NewLoads(e)]]
  IN Unload(r, file)

\* erwNNE_(retry): more room, the original file, and nothing loaded; but what
\* has been modified is remembered.  The program headers are on the heap, with
\* those of the new space.
Retry(e) ==
  LET r == [e EXCEPT !.room = [c \in Categories |-> IF e.used[c] > e.room[c]
                                                    THEN e.used[c] ELSE e.room[c]],
                     !.used = [c \in Categories |-> 0],
                     !.retry = FALSE,
                     !.image = NoImage,
                     !.phdrs = [OriginalPhdrs(file) EXCEPT !.heap = TRUE,
                                                           !.count = @ + NewLoads(e)]]
      u == Unload(r, file)
  IN IF "DYNSTR" \in e.modified THEN StartBuildingNew(u) ELSE u

-----------------------------------------------------------------------------
(* The loop of main.                                                        *)

\* erw_init_from_fd
Opened(fl) ==
  Unload([ modified |-> {}, retry |-> FALSE,
           room |-> [c \in Categories |-> 0], used |-> [c \in Categories |-> 0],
           image |-> NoImage, phdrs |-> OriginalPhdrs(fl), dhdrs |-> << >>,
           relocs |-> << >>, dsyms |-> << >>, vers |-> << >>,
           building |-> FALSE, added |-> FALSE ], fl)

Init ==
  /\ cmd \in CommandLines
  /\ inert = {} /\ printed = << >> /\ left \in 1..MaxFiles
  /\ file \in Files
  /\ act = 1 /\ pc = "acts"
  /\ erw = Opened(file)

\* Most actions which print do so in a round which has not failed yet, and are
\* inert from then on.
PrintAction ==
  /\ pc = "acts" /\ act <= Len(cmd) /\ cmd[act] = "print"
  /\ IF act \in inert \/ erw.retry
     THEN UNCHANGED <<inert, printed>>
     ELSE inert' = inert \cup {act} /\ printed' = Append(printed, act)
  /\ act' = act + 1
  /\ UNCHANGED <<cmd, left, file, pc, erw>>

EditAction ==
  /\ pc = "acts" /\ act <= Len(cmd) /\ cmd[act] # "print"
  /\ erw' = Edit(cmd[act], erw)
  /\ act' = act + 1
  /\ UNCHANGED <<cmd, inert, printed, left, file, pc>>

\* The end of a round: there is nothing to flush, or flush begins.
EndActions ==
  /\ pc = "acts" /\ act > Len(cmd)
  /\ pc' = IF erw.modified = {} THEN "done" ELSE "vers"
  /\ UNCHANGED <<cmd, inert, printed, left, file, act, erw>>

\* A stage of flush: it is run if one of the flags is set, and then comes next.
Stage(at, run, result, next) ==
  /\ pc = at
  /\ erw' = IF run THEN result ELSE erw
  /\ pc' = next
  /\ UNCHANGED <<cmd, inert, printed, left, file, act>>

StageVers == Stage("vers", "VERNEED" \in erw.modified, FlushVers(erw), "dsyms")
StageDsyms == Stage("dsyms", "DSYMS" \in erw.modified, FlushDsyms(erw), "dynstr")
StageDynstr == Stage("dynstr", "DYNSTR" \in erw.modified, FlushDynstr(erw), "relocs")
StageRelocs == Stage("relocs", "RELOCS" \in erw.modified, FlushRelocs(erw), "dhdrs")
StageDhdrs == Stage("dhdrs", "DHDRS" \in erw.modified, FlushDhdrs(erw), "phdrs")
StagePhdrs == Stage("phdrs", erw.phdrs.heap \/ ~ Mask(erw) \subseteq {"f"},
                    FlushPhdrs(erw), "end")

\* Variants: retry is not looked at; the actions are not run again.
EndFlush_Ignored ==
  /\ pc = "end" /\ pc' = "done"
  /\ UNCHANGED <<cmd, inert, printed, left, file, act, erw>>
EndFlush_NoActions ==
  /\ pc = "end"
  /\ IF erw.retry THEN erw' = Retry(erw) /\ pc' = "acts"
                  ELSE UNCHANGED erw /\ pc' = "done"
  /\ UNCHANGED <<cmd, inert, printed, left, file, act>>

EndFlush ==
  /\ pc = "end"
  /\ IF erw.retry THEN erw' = Retry(erw) /\ pc' = "acts" /\ act' = 1
                  ELSE UNCHANGED <<erw, act>> /\ pc' = "done"
  /\ UNCHANGED <<cmd, inert, printed, left, file>>

\* The file is written and closed, the inert actions are reset, and the next
\* file is opened.
NextFile ==
  /\ pc = "done" /\ left > 1
  /\ left' = left - 1
  /\ file' \in Files
  /\ erw' = Opened(file')
  /\ act' = 1 /\ pc' = "acts" /\ inert' = {} /\ printed' = << >>
  /\ UNCHANGED cmd

\* After the last file the program ends.
Terminated == pc = "done" /\ left = 1 /\ UNCHANGED vars

Round == \/ PrintAction \/ EditAction \/ EndActions \/ StageVers \/ StageDsyms \/ StageDynstr
         \/ StageRelocs \/ StageDhdrs \/ StagePhdrs \/ EndFlush

Next == Round \/ NextFile \/ Terminated

Spec == Init /\ [][Next]_vars /\ WF_vars(Round)

-----------------------------------------------------------------------------
(* Properties.                                                              *)

\* The flags outlive a failed round and the editors do not: a stage of flush is
\* never run for a table which has not been loaded in this round, and never
\* writes the strings which a failed round has left in to_add.
EditorsLoaded ==
  /\ pc = "vers" /\ "VERNEED" \in erw.modified => erw.vers.loaded
  /\ pc = "dsyms" /\ "DSYMS" \in erw.modified => erw.dsyms.loaded
  /\ pc = "relocs" /\ "RELOCS" \in erw.modified => erw.relocs.loaded
  /\ pc = "dynstr" /\ "DYNSTR" \in erw.modified => erw.building
  /\ pc = "dhdrs" /\ "DHDRS" \in erw.modified => erw.dhdrs.loaded

\* In a file which is about to be written out, nothing refers to the address 0
\* of a failed allocation; no change is still on the heap, and no new table is not
\* written; and new memory comes with the program headers which cover it.
NoLostEdits ==
  pc = "done" =>
    LET tag == erw.dhdrs.tags IN
    /\ \A t \in Tags : tag[t] # "zero"
    /\ erw.phdrs.interp # "zero" /\ erw.phdrs.dynamic # "zero"
    /\ ~ erw.phdrs.heap
    /\ "DHDRS" \in erw.modified => ~ erw.dhdrs.heap
    /\ (erw.dsyms.moved \/ erw.dsyms.reordered) => ~ erw.dsyms.heap
    /\ erw.relocs.reordered => ~ erw.relocs.heap
    /\ tag["SYMTAB"] = "new" /\ erw.dsyms.any => ~ erw.dsyms.heap
    /\ tag["STRTAB"] = "new" /\ file.dynamic => erw.image.strings
    /\ tag["GNU_HASH"] = "new" => erw.image.gnuHash # << >>
    /\ tag["HASH"] = "new" => erw.image.hash # << >>
    /\ (\E c \in {"r", "rw"} : erw.used[c] > 0) => erw.phdrs.at = "new"

\* The tables of the file which is written agree with each other.  Every one
\* refers to the strings where the string table has them, and the relocations and
\* the hash tables have the symbols in the order of the symbol table.
StringsAgree ==
    LET isNew == erw.dhdrs.tags["STRTAB"] = "new"
        moved == isNew /\ file.sparse /\ file.dynamic
    IN /\ erw.dhdrs.moved = moved /\ erw.dsyms.moved = moved
       /\ erw.dhdrs.tags["VERNEED"] # "none" =>
            moved = (erw.image.vers # << >> /\ erw.image.vers[2])
       /\ erw.dhdrs.needed => file.known \/ (isNew /\ erw.image.added)

SymbolsAgree ==
    LET new == erw.dsyms.reordered
        Agrees(t, written) == erw.dhdrs.tags[t] # "none" =>
                                written = <<new>> \/ (written = << >> /\ ~ new)
    IN /\ erw.dhdrs.tags["RELA"] # "none" => erw.relocs.reordered = new
       /\ Agrees("HASH", erw.image.hash) /\ Agrees("GNU_HASH", erw.image.gnuHash)
TablesAgree == pc = "done" => StringsAgree /\ SymbolsAgree

\* "Due to a bug in ldconfig versions prior to 2.31, if DT_SONAME is present,
\* then DT_STRTAB needs its v2f to be the v2f of the first PT_LOAD".
LdconfigFindsStrings ==
  pc = "done" /\ erw.phdrs.at = "new" /\ erw.dhdrs.tags["SONAME"] # "none" =>
    ~ (file.strFar /\ erw.dhdrs.tags["STRTAB"] = "old")

\* However many rounds there were, each action which prints has done so once, in
\* the order of the command line, and the file which is written out has what
\* every other action asked for.
PrintedOnce ==
  LET prints == {i \in DOMAIN cmd : cmd[i] = "print"} IN
  /\ pc = "done" => {printed[i] : i \in DOMAIN printed} = prints
  /\ \A i, j \in DOMAIN printed : i < j => printed[i] < printed[j]

Asked(kind) == \E i \in DOMAIN cmd : cmd[i] = kind
AllDone ==
  /\ PrintedOnce
  /\ pc = "done" =>
    LET tag == erw.dhdrs.tags IN
    /\ Asked("set_interpreter") => erw.phdrs.interp = "new"
    /\ Asked("add_late_needed") => erw.dhdrs.needed /\ erw.phdrs.dynamic # "none"
    /\ Asked("add_gnu_hash") => tag["GNU_HASH"] # "none"
    /\ Asked("add_hash") => tag["HASH"] # "none"
    /\ Asked("remove_verneed") => tag["VERNEED"] = "none" /\ tag["VERSYM"] = "none"
    /\ Asked("weak_verneed") /\ tag["VERNEED"] # "none" =>
         erw.image.vers # << >> /\ erw.image.vers[1]
    /\ Asked("remove_debug") => tag["DEBUG"] = "none"

\* Every file is finished: the rounds converge.
Finished == pc = "acts" ~> pc = "done"
=============================================================================
