--------------------------- MODULE DynamicSection ---------------------------
(***************************************************************************)
(* What the editor of dynamic headers promises (the erw_dhdrs_ functions   *)
(* of erw.h): the dynamic section is a list of entries, in which there are *)
(* no DT_NULLs, and which is as long as need be; and what a loader reads   *)
(* from the file is this list once it has been flushed.                    *)
(*                                                                         *)
(* An entry has a tag, a string (a sequence of directories, or of one      *)
(* name), and the bits of a number.                                        *)
(***************************************************************************)
EXTENDS Naturals, Sequences, SequencesExt, Selection

CONSTANTS
  Names,      \* of libraries and directories
  Libraries,  \* names for DT_NEEDED
  Lists,      \* strings for DT_RPATH, DT_RUNPATH and DT_SONAME
  Bits        \* bits of DT_FLAGS

StringTags == {"RPATH", "RUNPATH", "SONAME"}
Tags == StringTags \cup {"NEEDED", "FLAGS", "SYMBOLIC", "DEBUG", "STRTAB", "SYMTAB"}

Entry(tag, str, bits) == [tag |-> tag, str |-> str, bits |-> bits]
Needed(lib) == Entry("NEEDED", <<lib>>, {})

VARIABLES
  live,    \* the entries of the editor
  loaded   \* the entries which ld.so reads from the file

vars == <<live, loaded>>

Has(list, tag) == \E i \in DOMAIN list : list[i].tag = tag
Without(list, tags) == Kept(list, {i \in DOMAIN list : list[i].tag \notin tags})

\* An entry goes to some place between the others.
Inserted(list, e) == {InsertAt(list, i, e) : i \in 1..(Len(list) + 1)}

\* A number: every entry of this tag has it afterwards.
SetU(tag, bits) ==
  IF Has(live, tag)
  THEN live' = [i \in DOMAIN live |->
                 IF live[i].tag = tag THEN [live[i] EXCEPT !.bits = bits] ELSE live[i]]
  ELSE live' \in Inserted(live, Entry(tag, << >>, bits))

\* A string is set where there is none: the code leaves the entries that there
\* are as they are, whatever --set-soname is given.
StringSet(list, tag, str) ==
  IF Has(list, tag) THEN {list} ELSE Inserted(list, Entry(tag, str, {}))

SetStr(tag, str) ==
  IF tag = "RPATH"
  THEN \E l \in StringSet(live, tag, str) : live' = Without(l, {"RUNPATH"})
  ELSE live' \in StringSet(live, tag, str)

RemoveTag(tag) == live' = Without(live, {tag})

\* The last DT_FLAGS counts, and the others go when it becomes empty.
LastFlags(list) == SelectLastInSeq(list, LAMBDA e : e.tag = "FLAGS")
AddRemoveFlags(add, rem) ==
  LET list == IF "SYMBOLIC" \in rem THEN Without(live, {"SYMBOLIC"}) ELSE live
      i == LastFlags(list)
      bits == (list[i].bits \cup add) \ rem
  IN IF i = 0
     THEN IF add = {} THEN live' = list
          ELSE live' \in Inserted(list, Entry("FLAGS", << >>, add))
     ELSE IF bits = {} /\ list[i].bits # {} THEN live' = Without(list, {"FLAGS"})
     ELSE live' = [list EXCEPT ![i].bits = bits]

\* A library is needed before all others, or after them.
AddEarlyNeeded(lib) == live' = <<Needed(lib)>> \o live
AddLateNeeded(lib) == live' = Append(live, Needed(lib))
RemoveNeeded(lib) == live' = Kept(live, {i \in DOMAIN live : live[i] # Needed(lib)})

Edit ==
  /\ \/ SetU("DEBUG", {})
     \/ \E tag \in StringTags, str \in Lists : SetStr(tag, str)
     \/ \E tag \in Tags : RemoveTag(tag)
     \/ \E add, rem \in SUBSET Bits : AddRemoveFlags(add, rem)
     \/ \E lib \in Libraries : \/ ~ Contains(live, Needed(lib)) /\ AddEarlyNeeded(lib)
                               \/ ~ Contains(live, Needed(lib)) /\ AddLateNeeded(lib)
                               \/ RemoveNeeded(lib)
  /\ UNCHANGED loaded

\* The entries are written, with those which ld.so takes for granted.
Flush ==
  /\ \/ live' = live
     \/ \E l \in (IF Has(live, "STRTAB") THEN {live}
                  ELSE Inserted(live, Entry("STRTAB", << >>, {}))) :
          live' \in (IF Has(l, "SYMTAB") THEN {l}
                     ELSE Inserted(l, Entry("SYMTAB", << >>, {})))
  /\ loaded' = live'

Init ==
  /\ live \in Seq([tag : Tags, str : Seq(Names), bits : SUBSET Bits])
  /\ loaded = live
Next == Edit \/ Flush
Spec == Init /\ [][Next]_vars
=============================================================================
