----------------------------- MODULE DhdrEditor -----------------------------
(***************************************************************************)
(* The editor of dynamic headers (dhdr_editor_t of erw.h): the functions   *)
(* erwNNE_(dhdrs_...) of erw_nne.h, and the actions of the command line in *)
(* main.c which call them.                                                 *)
(*                                                                         *)
(* The array of the file is edited in place: an entry is removed by making *)
(* it a DT_NULL, wherever it is, and a new one goes to a DT_NULL.  If none *)
(* is left the array grows, on the heap, and is written elsewhere.  Only   *)
(* what comes before the first DT_NULL is read by a loader.                *)
(***************************************************************************)
EXTENDS Naturals, Sequences, FiniteSets, SequencesExt, Selection

CONSTANTS
  Names, Libraries, Lists, Bits,  \* as in DynamicSection
  Arrays  \* the dynamic arrays of the original files

StringTags == {"RPATH", "RUNPATH", "SONAME"}
Tags == StringTags \cup {"NEEDED", "FLAGS", "SYMBOLIC", "DEBUG", "STRTAB", "SYMTAB"}
Entry(tag, str, bits) == [tag |-> tag, str |-> str, bits |-> bits]
Needed(lib) == Entry("NEEDED", <<lib>>, {})
Null == Entry("NULL", << >>, {})

\* The value of an entry is the offset of a string, or a number.
EntryType ==
  {e \in [tag : Tags \cup {"NULL"}, str : Seq(Names), bits : SUBSET Bits] :
     e.tag \in StringTags \cup {"NEEDED"} => e.bits = {}}

ASSUME DhdrAssumption ==
  /\ Libraries \subseteq Names /\ Lists \subseteq Seq(Names) \ {<< >>}
  /\ \A a \in Arrays : a.array \in Seq(EntryType) /\ a.split \in BOOLEAN

VARIABLES
  entries,   \* dhdrs.base and dhdrs.count
  rest,      \* the entries of the file which the editor ignores
  heap,      \* dhdrs.capacity # 0: entries are not those of the file
  modified,  \* ERW_MODIFIED_DHDRS
  flushed,   \* flush has been called, which is the end
  inFile     \* the array which PT_DYNAMIC refers to in the file that is written

vars == <<entries, rest, heap, modified, flushed, inFile>>

-----------------------------------------------------------------------------
IsNull(e) == e.tag = "NULL"
NullsOf(es) == {i \in DOMAIN es : IsNull(es[i])}
Live(es) == Kept(es, DOMAIN es \ NullsOf(es))
Has(es, tag) == \E i \in DOMAIN es : es[i].tag = tag

\* What ld.so reads: everything before the first DT_NULL.
LoaderSees(array) ==
  LET end == SelectInSeq(array, IsNull)
  IN IF end = 0 THEN array ELSE SubSeq(array, 1, end - 1)

\* erwNNE_(dhdrs_init): up to and including the first span of DT_NULLs.
Count(array) ==
  LET first == SelectInSeq(array, IsNull)
      next == SelectInSubSeq(array, first, Len(array), LAMBDA e : ~ IsNull(e))
  IN IF first = 0 \/ next = 0 THEN Len(array) ELSE next - 1

Init ==
  \E a \in Arrays :
    /\ entries = SubSeq(a.array, 1, Count(a.array))
    /\ rest = SubSeq(a.array, Count(a.array) + 1, Len(a.array))
    /\ heap = a.split
    /\ modified = FALSE /\ flushed = FALSE
    /\ inFile = a.array

\* A new entry goes to the first DT_NULL, or to the end of a grown array.
Put(es, e) ==
  LET n == SelectInSeq(es, IsNull) IN
  IF n = 0 THEN Append(es, e) ELSE [es EXCEPT ![n] = e]

Nulled(es, Test(_)) == [i \in DOMAIN es |-> IF Test(es[i]) THEN Null ELSE es[i]]
RemoveMask(es, tags) == Nulled(es, LAMBDA e : e.tag \in tags)

\* The state after an edit.  (An array which has not grown stays where it is.)
Become(es, changed) ==
  /\ ~ flushed
  /\ entries' = es
  /\ heap' = (heap \/ Len(es) > Len(entries))
  /\ modified' = (modified \/ changed)
  /\ UNCHANGED <<rest, flushed, inFile>>

\* erwNNE_(dhdrs_set_u)
SetU(es, tag, bits) ==
  IF Has(es, tag)
  THEN [i \in DOMAIN es |-> IF es[i].tag = tag THEN [es[i] EXCEPT !.bits = bits] ELSE es[i]]
  ELSE Put(es, Entry(tag, << >>, bits))

\* erwNNE_(dhdrs_set_str): an entry of this tag is encoded again if its string is
\* the one to be set, and not touched otherwise.
SetStr(es, tag, str) ==
  IF Has(es, tag)
  THEN [i \in DOMAIN es |-> IF es[i].tag = tag /\ es[i].str = str
                            THEN Entry(tag, str, {}) ELSE es[i]]
  ELSE Put(es, Entry(tag, str, {}))

SetStrModifies(es, tag, str) ==
  ~ Has(es, tag) \/ \E i \in DOMAIN es : es[i].tag = tag /\ es[i].str = str

\* erwNNE_(dhdrs_has) finds the first entry.
Find(es, tag) == es[SelectInSeq(es, LAMBDA e : e.tag = tag)]

\* append_to_colon_list: nothing to append if the list contains it.
Extended(list, str) ==
  IF Len(str) = 1 /\ Contains(list, str[1]) THEN << >> ELSE list \o str

\* Variant: the other entries stay.
AddRemoveFlags_LastOnly(es, add, rem) ==
  LET i == SelectLastInSeq(es, LAMBDA e : e.tag = "FLAGS")
      bits == (es[i].bits \cup add) \ rem
  IN IF i = 0 THEN IF add = {} THEN es ELSE Put(es, Entry("FLAGS", << >>, add))
     ELSE IF bits = {} /\ es[i].bits # {} THEN [es EXCEPT ![i] = Null]
     ELSE [es EXCEPT ![i].bits = bits]

\* erwNNE_(dhdrs_add_remove_flags) of DT_FLAGS: the last entry counts; when it
\* becomes empty, it and all others are removed.
AddRemoveFlags(es, add, rem) ==
  LET i == SelectLastInSeq(es, LAMBDA e : e.tag = "FLAGS")
      bits == (es[i].bits \cup add) \ rem
  IN IF i = 0 THEN IF add = {} THEN es ELSE Put(es, Entry("FLAGS", << >>, add))
     ELSE IF bits = {} /\ es[i].bits # {} THEN RemoveMask(es, {"FLAGS"})
     ELSE [es EXCEPT ![i].bits = bits]

-----------------------------------------------------------------------------
(* The actions of the command line.                                         *)

AddDebug == LET es == SetU(entries, "DEBUG", {}) IN Become(es, es # entries)

\* action_set_soname, action_set_runpath
SetSoname(str) == Become(SetStr(entries, "SONAME", str), SetStrModifies(entries, "SONAME", str))
SetRunpath(str) == Become(SetStr(entries, "RUNPATH", str), SetStrModifies(entries, "RUNPATH", str))

\* action_set_rpath: "DT_RPATH is ignored if DT_RUNPATH is also present".
SetRpath(str) ==
  Become(RemoveMask(SetStr(entries, "RPATH", str), {"RUNPATH"}),
         SetStrModifies(entries, "RPATH", str) \/ Has(entries, "RUNPATH"))

\* action_add_rpath, action_add_runpath
AddToList(tag, str) ==
  LET list == Extended(Find(entries, tag).str, str)
      es == IF list = << >> THEN entries ELSE SetStr(entries, tag, list)
      changed == list # << >> /\ SetStrModifies(entries, tag, list)
  IN IF tag = "RPATH"
     THEN Become(RemoveMask(es, {"RUNPATH"}), changed \/ Has(entries, "RUNPATH"))
     ELSE Become(es, changed)

AddRpath(str) == IF Has(entries, "RPATH") THEN AddToList("RPATH", str) ELSE SetRpath(str)
AddRunpath(str) == IF Has(entries, "RUNPATH") THEN AddToList("RUNPATH", str) ELSE SetRunpath(str)

\* action_remove_debug, _rpath, _runpath, _soname
RemoveTag(tag) == Become(RemoveMask(entries, {tag}), Has(entries, tag))

\* action_add_flag and action_remove_flag, of df_ flags: DT_SYMBOLIC is the flag
\* of that name, too.
Flags(add, rem) ==
  LET es == IF "SYMBOLIC" \in rem THEN RemoveMask(entries, {"SYMBOLIC"}) ELSE entries
      fs == AddRemoveFlags(es, add, rem)
  IN add \cup rem # {} /\ Become(fs, fs # entries)

\* action_add_early_needed, action_add_late_needed
AddEarlyNeeded(lib) ==
  ~ Contains(entries, Needed(lib)) /\ Become(<<Needed(lib)>> \o entries, TRUE)
AddLateNeeded(lib) ==
  ~ Contains(entries, Needed(lib)) /\ Become(Append(entries, Needed(lib)), TRUE)
RemoveNeeded(lib) ==
  Become(Nulled(entries, LAMBDA e : e = Needed(lib)), Contains(entries, Needed(lib)))

-----------------------------------------------------------------------------
(* flush                                                                    *)

\* erwNNE_(dhdrs_ensure_minimal)
EnsureMinimal(es) ==
  LET s == IF Has(es, "STRTAB") THEN es ELSE SetU(es, "STRTAB", {})
  IN IF Has(s, "SYMTAB") THEN s ELSE SetU(s, "SYMTAB", {})

\* Variant: the holes stay.
FixupNulls_Holes(es, onHeap) == IF NullsOf(es) = {} THEN Append(es, Null) ELSE es

\* erwNN_(dhdrs_fixup_nulls): one DT_NULL, at the end; in place, the entries that
\* are left over are made DT_NULLs as well.
FixupNulls(es, onHeap) ==
  LET live == Live(es)
      spare == Len(es) - Len(live)
  IN IF onHeap \/ spare = 0 THEN Append(live, Null)
     ELSE live \o [i \in 1..spare |-> Null]

\* The part of flush for the dynamic headers, when there is room.
Flush ==
  /\ ~ flushed /\ flushed' = TRUE
  /\ LET es == FixupNulls(IF heap THEN EnsureMinimal(entries) ELSE entries, heap)
         moved == heap \/ Len(es) > Len(entries)
     IN IF modified
        THEN entries' = es /\ inFile' = IF moved THEN es ELSE es \o rest
        ELSE inFile' = (IF heap THEN inFile ELSE entries \o rest) /\ UNCHANGED entries
  /\ UNCHANGED <<rest, heap, modified>>

Edit ==
  \/ AddDebug
  \/ \E str \in Lists : SetSoname(str) \/ SetRunpath(str) \/ SetRpath(str) \/ AddRpath(str)
                        \/ AddRunpath(str)
  \/ \E tag \in {"SONAME", "RPATH", "RUNPATH", "DEBUG"} : RemoveTag(tag)
  \/ \E bit \in Bits : Flags({bit}, {}) \/ Flags({}, {bit})
  \/ \E lib \in Libraries : AddEarlyNeeded(lib) \/ AddLateNeeded(lib) \/ RemoveNeeded(lib)

Next == Edit \/ Flush
Spec == Init /\ [][Next]_vars

-----------------------------------------------------------------------------

\* A loader reads on past the end of an array which was edited and has no
\* DT_NULL, and what it finds there is no entry of the editor's.
InMemory ==
  IF flushed /\ modified /\ ~ Has(inFile, "NULL") THEN Append(inFile, Null) ELSE LoaderSees(inFile)

\* The editor does what it promises: whatever holes there are in the array,
\* wherever it is, and whatever follows it, a loader reads the entries that the
\* editor has, and all of them, and nothing past the end.
Promise == INSTANCE DynamicSection WITH live <- Live(entries), loaded <- InMemory
Implements == Promise!Spec

\* erwNNE_(dhdrs_get_flags), for DT_FLAGS: the last one counts, and DT_SYMBOLIC.
GetFlags(es) ==
  LET i == SelectLastInSeq(es, LAMBDA e : e.tag = "FLAGS")
  IN (IF i = 0 THEN {} ELSE es[i].bits) \cup (IF Has(es, "SYMBOLIC") THEN {"SYMBOLIC"} ELSE {})

\* A flag that is added or removed is what --print-flags finds or does not find
\* afterwards, however many DT_FLAGS there are, and no other flag changes.
FlagsExact ==
  [][\A bit \in Bits :
       /\ Flags({bit}, {}) => GetFlags(entries') = GetFlags(entries) \cup {bit}
       /\ Flags({}, {bit}) => GetFlags(entries') = GetFlags(entries) \ {bit}]_vars
=============================================================================
