---------------------------- MODULE DynstrEditor ----------------------------
(***************************************************************************)
(* The string table editor, dynstr_editor_t of erw.h: erw_dynstr_encode,   *)
(* erw_dynstr_decode and erw_dynstr_start_building_new of erw.c, with      *)
(* erwNNE_(dynstr_visit_refs) of erw_nne.h.                                *)
(*                                                                         *)
(* A string is referred to by its offset in the table, by the dynamic      *)
(* section, the symbols and the versions: the holders.  Strings may share  *)
(* their ends.  When a string is added, a new table is built, which is     *)
(* either the old one and the additions, or, if the strings in use are     *)
(* sparse, a compacted one; then each holder's offset is changed.          *)
(*                                                                         *)
(* A table is a sequence of characters; offset o is its index o + 1.       *)
(***************************************************************************)
EXTENDS Integers, Sequences, FiniteSets, SequencesExt

CONSTANTS
  Holders,     \* what refers to strings
  Chars,       \* characters, other than NUL
  Strings,     \* the strings which the actions of the command line ask for
  Originals,   \* the original files
  DenseLimit,  \* a table of this size is never compacted (1024 in the code)
  RefWidth,    \* the number of references that can be represented (2^32)
  NUL,         \* the character which ends a string
  None         \* no string, and no offset

\* An original file: the string table, of DT_STRSZ characters, the offsets in
\* it, and the holders which the command line may remove.
OriginalRecord ==
  [bytes : Seq(Chars \cup {NUL}), refs : [Holders -> Nat], removable : SUBSET Holders]

ASSUME DynstrAssumption ==
  /\ NUL \notin Chars
  /\ None \notin Nat /\ None \notin Seq(Chars)
  /\ Strings \subseteq Seq(Chars)
  /\ Originals \subseteq OriginalRecord
  /\ DenseLimit \in Nat /\ RefWidth \in Nat \ {0}

VARIABLES
  original,  \* the original file
  state,     \* dynstr_editor_t.state
  table,     \* the strings known to the editor, and their offsets
  toAdd,     \* the new table
  refs,      \* the offset in each holder, or None
  modified,  \* ERW_MODIFIED_DYNSTR
  wanted     \* the string each holder is to refer to, or None (history)

vars == <<original, state, table, toAdd, refs, modified, wanted>>

-----------------------------------------------------------------------------
\* The string at offset o; None if it does not end.
StringAt(bytes, o) ==
  LET nuls == {i \in (o + 1)..Len(bytes) : bytes[i] = NUL}
      end  == CHOOSE i \in nuls : \A j \in nuls : i <= j
  IN IF nuls = {} THEN None ELSE SubSeq(bytes, o + 1, end - 1)

\* erw_dynstr_decode: the new table while one is built, and the original else.
TableOf(st) == IF st = "building_new" THEN toAdd ELSE original.bytes
Decode(o) == StringAt(TableOf(state), o)

\* len_hash counts the NUL.
Length(e) == Len(e.str) + 1

\* erw_dynstr_build_table visits every reference and the end of the table.  The
\* offset 0 is taken for that of an empty slot, and is not added.
Visited(bytes, rs) ==
  {rs[h] : h \in {h \in Holders : rs[h] # None}} \cup {Len(bytes) - 1}
BuildTable(bytes, rs) ==
  {[encoded |-> o, str |-> StringAt(bytes, o)] : o \in Visited(bytes, rs) \ {0, -1}}

\* What the loop over the sorted entries has copied so far: every entry that
\* does not begin inside the last copy is copied, with one more character than
\* its length, and begins a range of offsets which move by the same delta.
CopyEntry(bytes, acc, e) ==
  IF e.encoded < acc.upTo THEN acc
  ELSE LET n == Length(e) + 1
           Char(i) == IF i <= Len(bytes) THEN bytes[i] ELSE NUL
       IN [bytes  |-> acc.bytes \o [i \in 1..n |-> Char(e.encoded + i)],
           upTo   |-> e.encoded + n,
           ranges |-> Append(acc.ranges, [from |-> e.encoded,
                                          delta |-> Len(acc.bytes) - e.encoded])]

\* The entries are sorted by their offsets, and of those at one offset the
\* longest is first: the others begin inside its copy.
Longest(es) == CHOOSE e \in es : \A d \in es : Length(d) <= Length(e)
Compacted(bytes, t) ==
  LET at(o) == {e \in t : e.encoded = o}
      Before[o \in 0..Len(bytes)] ==   \* when the entries below the offset o are done
        IF o = 0 THEN [bytes |-> << >>, upTo |-> 0, ranges |-> << >>]
        ELSE IF at(o - 1) = {} THEN Before[o - 1]
        ELSE CopyEntry(bytes, Before[o - 1], Longest(at(o - 1)))
  IN Before[Len(bytes)]

\* Variant: the search is off by one.
Remap_Before(ranges, ref) ==
  LET before == {i \in DOMAIN ranges : ranges[i].from < ref}
      i == IF before = {} THEN 1 ELSE CHOOSE j \in before : \A l \in before : l <= j
  IN (ref + ranges[i].delta) % RefWidth

\* apply_dynstr_remap: the last range which begins at or before ref, or else the
\* first one.
Remap(ranges, ref) ==
  LET before == {i \in DOMAIN ranges : ranges[i].from <= ref}
      i == IF before = {} THEN 1 ELSE CHOOSE j \in before : \A l \in before : l <= j
  IN (ref + ranges[i].delta) % RefWidth

MaxOffset(t) ==
  CHOOSE m \in {e.encoded + Length(e) : e \in t} : \A e \in t : e.encoded + Length(e) <= m
SumLength(t) == FoldLeft(LAMBDA n, e : n + Length(e), 0, SetToSeq(t))
Dense(t) == LET sum == SumLength(t) IN
  MaxOffset(t) <= sum + sum \div 8 \/ MaxOffset(t) <= DenseLimit

\* Variant: the offsets in the hash table stay.
StartBuildingNew_OldTable(t, rs) ==
  IF t = {} THEN [toAdd |-> <<NUL>>, table |-> t, refs |-> rs]
  ELSE IF Dense(t)
  THEN [toAdd |-> SubSeq(original.bytes, 1, MaxOffset(t)), table |-> t, refs |-> rs]
  ELSE LET c == Compacted(original.bytes, t)
           moved(o) == IF o = None THEN None ELSE Remap(c.ranges, o)
       IN [toAdd |-> c.bytes, table |-> t, refs |-> [h \in Holders |-> moved(rs[h])]]

\* erw_dynstr_start_building_new: the new table, and what becomes of the offsets
\* in the hash table and in the holders.
StartBuildingNew(t, rs) ==
  IF t = {} THEN [toAdd |-> <<NUL>>, table |-> t, refs |-> rs]
  ELSE IF Dense(t)
  THEN [toAdd |-> SubSeq(original.bytes, 1, MaxOffset(t)), table |-> t, refs |-> rs]
  ELSE LET c == Compacted(original.bytes, t)
           moved(o) == IF o = None THEN None ELSE Remap(c.ranges, o)
       IN [toAdd |-> c.bytes,
           table |-> {[e EXCEPT !.encoded = moved(@)] : e \in t},
           refs |-> [h \in Holders |-> moved(rs[h])]]

-----------------------------------------------------------------------------
Init ==
  /\ original \in Originals
  /\ state = "read_only" /\ table = {} /\ toAdd = << >>
  /\ refs = original.refs
  /\ modified = FALSE
  /\ wanted = [h \in Holders |-> StringAt(original.bytes, original.refs[h])]

\* An action of the command line removes a holder.
RemoveRef(h) ==
  /\ refs[h] # None /\ h \in original.removable
  /\ refs' = [refs EXCEPT ![h] = None]
  /\ wanted' = [wanted EXCEPT ![h] = None]
  /\ UNCHANGED <<original, state, table, toAdd, modified>>

\* The table which erw_dynstr_encode looks into.
Known == IF state = "read_only" THEN BuildTable(original.bytes, refs) ELSE table
Matches(s) == {e \in Known : e.str = s /\ Decode(e.encoded) = s}

\* erw_dynstr_encode of a string there is already, and the store of its result.
EncodeKnown(h, s) ==
  /\ \E e \in Matches(s) : refs' = [refs EXCEPT ![h] = e.encoded]
  /\ table' = Known
  /\ state' = IF state = "read_only" THEN "from_existing" ELSE state
  /\ wanted' = [wanted EXCEPT ![h] = s]
  /\ UNCHANGED <<original, toAdd, modified>>

\* erw_dynstr_encode of a new string.
EncodeNew(h, s) ==
  /\ Matches(s) = {}
  /\ LET b == IF state = "building_new"
              THEN [toAdd |-> toAdd, table |-> table, refs |-> refs]
              ELSE StartBuildingNew(Known, refs)
     IN /\ toAdd' = b.toAdd \o Append(s, NUL)
        /\ table' = b.table \cup {[encoded |-> Len(b.toAdd), str |-> s]}
        /\ refs' = [b.refs EXCEPT ![h] = Len(b.toAdd)]
  /\ state' = "building_new" /\ modified' = TRUE
  /\ wanted' = [wanted EXCEPT ![h] = s]
  /\ UNCHANGED original

\* erwNNE_(retry): the holders are loaded again; free_editors_common leaves
\* "building_new", and only that state.  If the strings are modified, for which
\* erwNNE_(phdrs_bug_workaround) can be the reason (move), a new table is begun.
Retry(move) ==
  LET t == IF state = "from_existing" THEN table ELSE BuildTable(original.bytes, original.refs)
      b == StartBuildingNew(t, original.refs)
  IN /\ modified' = (modified \/ move)
     /\ IF modified'
        THEN toAdd' = b.toAdd /\ table' = b.table /\ refs' = b.refs
             /\ state' = "building_new"
        ELSE refs' = original.refs /\ UNCHANGED <<toAdd, table, state>>
     /\ wanted' = [h \in Holders |-> StringAt(original.bytes, original.refs[h])]
     /\ UNCHANGED original

Next ==
  \/ \E h \in Holders : RemoveRef(h)
  \/ \E h \in Holders, s \in Strings : EncodeKnown(h, s) \/ EncodeNew(h, s)
  \/ \E move \in BOOLEAN : Retry(move)

Spec == Init /\ [][Next]_vars

-----------------------------------------------------------------------------
\* The files with which the editor is right.  Their tables end with a NUL, and
\* offsets are inside of them.  Either the table is never compacted, as it is
\* small or dense; or the strings in use are apart: a character which is not
\* in use is behind each, or another string which ends where it ends; and
\* nothing refers to the offset 0.  Where it is not small nothing may be removed,
\* as a retry keeps a table of known strings without those which are.
Ends(fl) == /\ Len(fl.bytes) \in 1..RefWidth /\ fl.bytes[Len(fl.bytes)] = NUL
            /\ \A h \in Holders : fl.refs[h] < Len(fl.bytes)
Small(fl) == Len(fl.bytes) <= DenseLimit
KeptWhole(fl) == LET t == BuildTable(fl.bytes, fl.refs) IN t = {} \/ Dense(t)
Apart(fl) == LET t == BuildTable(fl.bytes, fl.refs) IN
  /\ \A h \in Holders : fl.refs[h] # 0
  /\ \A d, e \in t : d.encoded < e.encoded => d.encoded + Length(d) # e.encoded
Sound(fl) == Ends(fl) /\ (Small(fl) \/ (fl.removable = {} /\ (KeptWhole(fl) \/ Apart(fl))))

\* Whatever has been encoded, removed and tried again: a holder refers to the
\* string it referred to in the original file, or to the one it was given.
StringsKept ==
  \A h \in Holders : IF wanted[h] = None THEN refs[h] = None
                     ELSE refs[h] # None /\ Decode(refs[h]) = wanted[h]

\* The hash table knows what is where: no string is found at an offset which
\* holds another one, so that none is added a second time.
TableSound == \A e \in table : Decode(e.encoded) = e.str
=============================================================================
