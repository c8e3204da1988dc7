--------------------------- MODULE ErwFlush_proofs ---------------------------
(***************************************************************************)
(* Proofs about ErwFlush: the invariant of the rounds; that the actions of *)
(* the command line, the stages of flush, another round and another file   *)
(* keep it; and the properties which follow from it.                       *)
(*                                                                         *)
(* The flags outlive a round which has failed and the editors do not, so   *)
(* the invariant says separately why a flag is set (Reasons, which needs   *)
(* nothing but the command line), what a flag must be set for (Flagged),   *)
(* and that whatever has set it is repeated in time before the stage which *)
(* looks at it (LoadedInTime).  Then it says what each stage of flush      *)
(* leaves: if the round has not failed, a table which agrees with the      *)
(* others (VersDone and so on).  A stage is shown to keep the invariant    *)
(* through a frame (LoadStep, EditStep, PartStep, PhdrsStep), which lists  *)
(* what the functions it calls may change, and which is closed under       *)
(* composition.                                                            *)
(***************************************************************************)
EXTENDS ErwFlush, Integers, FiniteSetTheorems, TLAPS

-----------------------------------------------------------------------------
(* The types.                                                               *)

Flags == {"DHDRS", "DSYMS", "DYNSTR", "VERNEED", "RELOCS", "HASH_TABLES", "MISC", "PHDRS"}

Hashed == {<< >>, <<TRUE>>, <<FALSE>>}
Image == [strings : BOOLEAN, added : BOOLEAN, vers : {<< >>} \cup BOOLEAN \X BOOLEAN,
          hash : Hashed, gnuHash : Hashed]
Phdrs == [heap : BOOLEAN, count : Int, at : Place, interp : Place, dynamic : Place]
Dhdrs == [loaded : BOOLEAN, heap : BOOLEAN, moved : BOOLEAN, needed : BOOLEAN,
          tags : [Tags -> Place], live : Int, nulls : Int]
Relocs == [loaded : BOOLEAN, dirty : BOOLEAN, reordered : BOOLEAN, heap : BOOLEAN]
Dsyms == [loaded : BOOLEAN, any : BOOLEAN, reordered : BOOLEAN, moved : BOOLEAN,
          heap : BOOLEAN, versions : BOOLEAN, wantHash : BOOLEAN, wantGnuHash : BOOLEAN]
Vers == [loaded : BOOLEAN, need : BOOLEAN, weak : BOOLEAN, moved : BOOLEAN]

State == [modified : SUBSET Flags, retry : BOOLEAN, room : [Categories -> Nat],
          used : [Categories -> Int], image : Image, phdrs : Phdrs, dhdrs : Dhdrs,
          relocs : Relocs, dsyms : Dsyms, vers : Vers, building : BOOLEAN, added : BOOLEAN]

Stages == {"vers", "dsyms", "dynstr", "relocs", "dhdrs", "phdrs"}

TypeInv ==
  /\ cmd \in CommandLines /\ inert \subseteq DOMAIN cmd /\ printed \in Seq(Nat)
  /\ left \in Nat /\ file \in Files
  /\ act \in 1..(Len(cmd) + 1)
  /\ pc \in Stages \cup {"acts", "end", "done"}
  /\ erw \in State

Orig == OriginalTags(file)
Compacted(e) == e.building /\ file.sparse /\ file.dynamic

-----------------------------------------------------------------------------
(* What holds of the state of the program all through a round.              *)

\* An editor which is not loaded is that of the original file, and some editors come
\* with others.
Loading(e) ==
  /\ ~ e.dhdrs.loaded =>
       /\ ~ e.dhdrs.heap /\ ~ e.dhdrs.moved /\ ~ e.dhdrs.needed
       /\ \A t \in Tags : e.dhdrs.tags[t] = IF t \in Orig THEN "old" ELSE "none"
  /\ ~ e.relocs.loaded =>
       ~ e.relocs.dirty /\ ~ e.relocs.reordered /\ e.relocs.heap = OriginalRelocs(file).heap
  /\ ~ e.dsyms.loaded =>
       /\ ~ e.dsyms.reordered /\ ~ e.dsyms.moved /\ e.dsyms.heap = OriginalDsyms(file).heap
       /\ e.dsyms.versions = ("VERSYM" \in Orig)
       /\ e.dsyms.wantHash = ("HASH" \in Orig) /\ e.dsyms.wantGnuHash = ("GNU_HASH" \in Orig)
  /\ ~ e.vers.loaded => ~ e.vers.need /\ ~ e.vers.weak /\ ~ e.vers.moved
  /\ e.dsyms.loaded => e.dhdrs.loaded /\ (file.dynamic => e.relocs.loaded)
  /\ e.relocs.loaded => e.dhdrs.loaded
  /\ e.vers.loaded => e.dhdrs.loaded
  /\ e.building => e.dsyms.loaded /\ e.vers.loaded

\* Why a flag is set, which may have been in an earlier round.
Reasons(e) ==
  /\ "VERNEED" \in e.modified =>
       "DYNSTR" \in e.modified \/ Asked("remove_verneed") \/ Asked("weak_verneed")
  /\ "DSYMS" \in e.modified =>
       \/ "DYNSTR" \in e.modified \/ "VERNEED" \in e.modified
       \/ Asked("add_gnu_hash") \/ Asked("add_hash")
  /\ "DHDRS" \in e.modified =>
       \/ "DYNSTR" \in e.modified \/ "VERNEED" \in e.modified \/ "DSYMS" \in e.modified
       \/ Asked("add_late_needed") \/ Asked("remove_debug")
  /\ "RELOCS" \in e.modified => file.dynamic /\ "DSYMS" \in e.modified
  /\ e.modified = {} =>
       ~ e.retry /\ ~ e.phdrs.heap /\ \A c \in Categories : e.used[c] = 0

\* Nothing is done without a flag which has it written.
Flagged(e) ==
  /\ e.building => "DYNSTR" \in e.modified
  /\ e.dhdrs.needed => "DHDRS" \in e.modified
  /\ e.vers.loaded /\ "VERNEED" \in Orig /\ ~ e.vers.need => "VERNEED" \in e.modified
  /\ e.vers.weak \/ e.vers.moved => "VERNEED" \in e.modified
  /\ e.dsyms.moved \/ e.dsyms.reordered => "DSYMS" \in e.modified
  /\ e.dsyms.wantGnuHash /\ "GNU_HASH" \notin Orig => "DSYMS" \in e.modified
  /\ e.dsyms.wantHash /\ "HASH" \notin Orig => "DSYMS" \in e.modified
  /\ "VERSYM" \in Orig /\ ~ e.dsyms.versions =>
       "DSYMS" \in e.modified /\ "VERNEED" \in e.modified
       /\ e.vers.loaded /\ ~ e.vers.need
  /\ e.relocs.reordered => "RELOCS" \in e.modified

\* What the editors have of the original file, and of the strings.
Contents(e) ==
  /\ e.dsyms.any = file.dynamic /\ (e.dsyms.heap => file.dynamic)
  /\ e.dhdrs.moved = Compacted(e) /\ e.dsyms.moved = Compacted(e)
  /\ e.vers.moved = (Compacted(e) /\ e.vers.moved)
  /\ e.vers.need => "VERNEED" \in Orig /\ e.vers.loaded /\ (Compacted(e) => e.vers.moved)
  /\ e.added => e.building
  /\ e.dhdrs.needed => file.known \/ e.added
  /\ e.dsyms.versions => "VERSYM" \in Orig
  /\ "GNU_HASH" \in Orig => e.dsyms.wantGnuHash
  /\ "HASH" \in Orig => e.dsyms.wantHash
  /\ e.relocs.reordered = (e.dsyms.reordered /\ "RELA" \in Orig)
  /\ e.relocs.reordered => e.relocs.loaded /\ e.relocs.dirty
  /\ e.relocs.dirty => "RELA" \in Orig
  /\ e.dsyms.reordered => file.dynamic

\* The entries of the dynamic section, and the program headers.
Entries(e) ==
  /\ \A t \in Tags : e.dhdrs.tags[t] = "zero" => e.retry
  /\ e.phdrs.interp = "zero" \/ e.phdrs.dynamic = "zero" => e.retry
  /\ file.dynamic => /\ e.dhdrs.tags["STRTAB"] # "none" /\ e.dhdrs.tags["SYMTAB"] # "none"
                     /\ e.phdrs.dynamic # "none"
  /\ \A t \in {"RELA", "VERNEED", "VERSYM", "DEBUG", "SONAME"} :
       e.dhdrs.tags[t] # "none" => t \in Orig
  /\ "GNU_HASH" \in Orig => e.dhdrs.tags["GNU_HASH"] = "old"
  /\ "HASH" \in Orig => e.dhdrs.tags["HASH"] # "none"
  /\ e.phdrs.at \in {"old", "new"}

RoundInv(e) == Loading(e) /\ Reasons(e) /\ Flagged(e) /\ Contents(e) /\ Entries(e)

-----------------------------------------------------------------------------
(* What holds in a part of it.                                              *)

\* An action which is still to come in this round.
Pending(kinds) == pc = "acts" /\ \E i \in act..Len(cmd) : cmd[i] \in kinds

LoadedInTime(e) ==
  /\ "VERNEED" \in e.modified => e.vers.loaded \/ Pending({"remove_verneed", "weak_verneed"})
  /\ "DSYMS" \in e.modified =>
       \/ e.dsyms.loaded \/ Pending({"add_gnu_hash", "add_hash"})
       \/ "VERNEED" \in e.modified /\ pc \in {"acts", "vers"}
  /\ "DHDRS" \in e.modified =>
       \/ e.dhdrs.loaded
       \/ Pending({"add_gnu_hash", "add_hash", "add_late_needed", "remove_debug"})
       \/ "VERNEED" \in e.modified /\ pc \in {"acts", "vers"}
  /\ "DYNSTR" \in e.modified => e.building \/ (pc = "end" /\ e.retry)

\* What the actions have done.
Done(kind, e) ==
  CASE kind = "set_interpreter" -> e.phdrs.interp = "new" \/ e.retry
    [] kind = "add_late_needed" -> e.dhdrs.needed
    [] kind = "add_gnu_hash" -> e.dsyms.loaded /\ e.dsyms.wantGnuHash
    [] kind = "add_hash" -> e.dsyms.loaded /\ e.dsyms.wantHash
    [] kind = "remove_verneed" -> e.vers.loaded /\ ~ e.vers.need
    [] kind = "weak_verneed" -> e.vers.loaded /\ (e.vers.need => e.vers.weak)
    [] kind = "remove_debug" -> e.dhdrs.loaded /\ e.dhdrs.tags["DEBUG"] = "none"
    [] kind = "print" -> TRUE
ActionsDone(e) == \A i \in 1..(act - 1) : Done(cmd[i], e)

\* Before and after each stage.
VersDone(e) ==
  /\ e.image.vers \in {<< >>, <<e.vers.weak, e.vers.moved>>}
  /\ "VERNEED" \notin e.modified => e.image.vers = << >>
  /\ "VERNEED" \in e.modified /\ e.vers.need => e.retry \/ e.image.vers # << >>
  /\ "VERNEED" \in e.modified /\ ~ e.vers.need =>
       e.dhdrs.tags["VERNEED"] = "none" /\ ~ e.dsyms.versions

NoTable(e) ==
  /\ \A t \in Tags : e.dhdrs.tags[t] = "none" \/ (e.dhdrs.tags[t] = "old" /\ t \in Orig)
  /\ e.image.hash = << >> /\ e.image.gnuHash = << >> /\ ~ e.dsyms.reordered

HashesDone(e) ==
  /\ e.dsyms.wantGnuHash => e.dhdrs.tags["GNU_HASH"] # "none"
  /\ e.dsyms.wantHash => e.dhdrs.tags["HASH"] # "none"
  /\ \/ e.retry
     \/ /\ e.image.gnuHash \in {<< >>, <<e.dsyms.reordered>>}
        /\ e.dsyms.reordered \/ e.dhdrs.tags["GNU_HASH"] = "new" =>
             e.image.gnuHash # << >> \/ e.dhdrs.tags["GNU_HASH"] = "none"
        /\ e.image.hash \in {<< >>, <<e.dsyms.reordered>>}
        /\ e.dsyms.reordered \/ e.dhdrs.tags["HASH"] = "new" =>
             e.image.hash # << >> \/ e.dhdrs.tags["HASH"] = "none"

DsymsDone(e) ==
  /\ "DSYMS" \in e.modified => e.retry \/ ~ e.dsyms.heap
  /\ e.dhdrs.tags["SYMTAB"] = "new" /\ file.dynamic => e.retry \/ ~ e.dsyms.heap
  /\ ~ e.dsyms.versions => e.dhdrs.tags["VERSYM"] = "none"
  /\ HashesDone(e)

DynstrDone(e) ==
  /\ e.building => \/ e.retry
                   \/ e.dhdrs.tags["STRTAB"] = "new" /\ e.image.strings /\ e.image.added = e.added
  /\ ~ e.building /\ file.dynamic => e.dhdrs.tags["STRTAB"] = "old"
RelocsDone(e) == e.relocs.reordered => e.retry \/ ~ e.relocs.heap
DhdrsDone(e) ==
  /\ "DHDRS" \in e.modified => e.retry \/ ~ e.dhdrs.heap
  /\ e.dhdrs.needed => e.phdrs.dynamic # "none"
PhdrsDone(e) ==
  e.retry \/ /\ ~ e.phdrs.heap
             /\ e.phdrs.at = "new" \/ \A c \in {"r", "rw"} : e.used[c] <= 0
             /\ e.phdrs.at = "new" /\ e.dhdrs.tags["SONAME"] # "none" =>
                  ~ (file.strFar /\ e.dhdrs.tags["STRTAB"] = "old")

StageInv(e) ==
  /\ IF pc \in {"acts", "vers"} THEN e.image.vers = << >> ELSE VersDone(e)
  /\ IF pc \in {"acts", "vers", "dsyms"} THEN NoTable(e) ELSE DsymsDone(e)
  /\ IF pc \in {"acts", "vers", "dsyms", "dynstr"}
     THEN file.dynamic => e.dhdrs.tags["STRTAB"] = "old" ELSE DynstrDone(e)
  /\ pc \notin {"acts", "vers", "dsyms", "dynstr", "relocs"} => RelocsDone(e)
  /\ IF pc \in {"acts", "vers", "dsyms", "dynstr", "relocs", "dhdrs"}
     THEN e.dhdrs.needed => e.dhdrs.heap ELSE DhdrsDone(e)
  /\ IF pc \notin {"end", "done"} THEN e.phdrs.at = "old" ELSE PhdrsDone(e)
  /\ pc = "done" => ~ e.retry
  /\ pc # "acts" => act = Len(cmd) + 1
  /\ pc \notin {"acts", "done"} => e.modified # {}

\* The actions which have printed.
Prints == {i \in DOMAIN cmd : cmd[i] = "print"}
PrintInv ==
  /\ inert = {printed[i] : i \in DOMAIN printed} /\ inert \subseteq Prints
  /\ \A i, j \in DOMAIN printed : i < j => printed[i] < printed[j]
  /\ \A i \in inert, j \in Prints : j < i => j \in inert
  /\ erw.retry \/ \A i \in Prints : i < act => i \in inert

ErwInv == TypeInv /\ RoundInv(erw) /\ LoadedInTime(erw) /\ ActionsDone(erw)
          /\ StageInv(erw) /\ PrintInv

-----------------------------------------------------------------------------
(* Frames.                                                                  *)

\* The fields of d outside of S are those of e.
Fields == {"modified", "retry", "room", "used", "image", "phdrs", "dhdrs", "relocs",
           "dsyms", "vers", "building", "added"}
Keeps(d, e, S) == \A f \in Fields \ S : d[f] = e[f]

\* Nothing but the entries for the tags in T have changed, and this is flagged.
TagStep(d, e, T) ==
  /\ d \in State /\ Keeps(d, e, {"modified", "dhdrs"})
  /\ d.modified \in {e.modified, e.modified \cup {"DHDRS"}}
  /\ \A u \in Tags \ T : d.dhdrs.tags[u] = e.dhdrs.tags[u]
  /\ d.dhdrs.loaded = e.dhdrs.loaded /\ d.dhdrs.moved = e.dhdrs.moved
  /\ d.dhdrs.needed = e.dhdrs.needed /\ (e.dhdrs.heap => d.dhdrs.heap)

\* Setting flags changes nothing else (Modify).
LEMMA ModifyShape ==
  ASSUME NEW e \in State, NEW F \in SUBSET Flags, NEW d, d = Modify(e, F)
  PROVE  d \in State /\ Keeps(d, e, {"modified"}) /\ d.modified = e.modified \cup F
  BY DEF Modify, State, Keeps, Fields

\* An allocation changes what is used and retry, and its address is 0 only if it has
\* failed.
LEMMA AllocShape ==
  ASSUME NEW e \in State, NEW c \in Categories, NEW n \in Int, NEW d, d = Alloc(e, c, n)
  PROVE  /\ d \in State /\ Keeps(d, e, {"used", "retry"})
         /\ Address(e, c, n) \in {"new", "zero"}
         /\ d.retry = (e.retry \/ Address(e, c, n) = "zero")
<1> DEFINE over == e.used[c] + n > e.room[c]
           failed == e.retry \/ over
           u == [e.used EXCEPT ![c] = @ + n]
<1>1. e.used \in [Categories -> Int] /\ e.room[c] \in Int /\ e.used[c] \in Int
  BY DEF State
<1>2. u \in [Categories -> Int]
  BY <1>1
<1>3. over = (Address(e, c, n) = "zero") /\ Address(e, c, n) \in {"new", "zero"}
  BY <1>1 DEF Address
<1>4. d = [e EXCEPT !.used = u, !.retry = failed]
  BY DEF Alloc, State
<1>5. failed \in BOOLEAN
  OBVIOUS
<1>6. failed = (e.retry \/ Address(e, c, n) = "zero")
  BY <1>3
<1> HIDE DEF u, failed
<1>7. d \in State /\ Keeps(d, e, {"used", "retry"}) /\ d.retry = failed
  BY <1>2, <1>4, <1>5 DEF State, Keeps, Fields
<1> QED BY <1>3, <1>6, <1>7

\* A changed dynamic section, flagged.
LEMMA DhdrsShape ==
  ASSUME NEW e \in State, NEW h \in Dhdrs, NEW t \in Tags,
         \A u \in Tags \ {t} : h.tags[u] = e.dhdrs.tags[u],
         h.loaded = e.dhdrs.loaded, h.moved = e.dhdrs.moved, h.needed = e.dhdrs.needed,
         e.dhdrs.heap => h.heap,
         NEW d, d = Modify([e EXCEPT !.dhdrs = h], {"DHDRS"})
  PROVE  TagStep(d, e, {t}) /\ d.dhdrs = h
<1> DEFINE x == [e EXCEPT !.dhdrs = h]
<1>1. x \in State /\ Keeps(x, e, {"dhdrs"}) /\ x.dhdrs = h
  BY DEF State, Keeps, Fields
<1> HIDE DEF x
<1>2. d \in State /\ Keeps(d, x, {"modified"}) /\ d.modified = x.modified \cup {"DHDRS"}
  BY <1>1, ModifyShape, ZenonT(40) DEF Flags, x
<1>3. d.dhdrs = h
  BY <1>1, <1>2 DEF Keeps, Fields
<1>4. Keeps(d, e, {"modified", "dhdrs"})
  BY <1>1, <1>2 DEF Keeps
<1>5. d.modified = e.modified \cup {"DHDRS"}
  BY <1>1, <1>2 DEF Keeps, Fields
<1> QED BY <1>2, <1>3, <1>4, <1>5 DEF TagStep

\* What is common to dhdrs_set_u and dhdrs_remove.
LEMMA SetTagShape ==
  ASSUME NEW e \in State, NEW t \in Tags, NEW place \in {"old", "new", "zero"},
         NEW d, d = SetTag(e, t, place)
  PROVE  TagStep(d, e, {t}) /\ d.dhdrs.tags[t] = place
<1>1. CASE e.dhdrs.tags[t] = place /\ place = "old"
  <2>1. d = e
    BY <1>1 DEF SetTag
  <2> QED BY <2>1, <1>1 DEF TagStep, Keeps
<1>2. CASE ~ (e.dhdrs.tags[t] = place /\ place = "old")
  <2> DEFINE o == e.dhdrs
             isNew == o.tags[t] = "none"
             live == IF isNew THEN o.live + 1 ELSE o.live
             nulls == IF isNew /\ o.nulls > 0 THEN o.nulls - 1 ELSE o.nulls
             heap == o.heap \/ (isNew /\ o.nulls = 0)
             h == [o EXCEPT !.tags[t] = place, !.live = live, !.nulls = nulls,
                            !.heap = heap]
  <2>1. d = Modify([e EXCEPT !.dhdrs = h], {"DHDRS"})
    BY <1>2 DEF SetTag
  <2>2. o \in Dhdrs
    BY DEF State
  <2> HIDE DEF o
  <2>a. heap \in BOOLEAN /\ (o.heap => heap)
    OBVIOUS
  <2>b. live \in Int /\ nulls \in Int
    BY <2>2 DEF Dhdrs
  <2>c. place \in Place
    BY DEF Place
  <2> HIDE DEF heap, live, nulls
  <2>3. /\ h \in Dhdrs /\ h.tags = [o.tags EXCEPT ![t] = place]
        /\ h.loaded = o.loaded /\ h.moved = o.moved /\ h.needed = o.needed
        /\ (o.heap => h.heap)
    BY <2>2, <2>a, <2>b, <2>c DEF Dhdrs
  <2> HIDE DEF h, isNew
  <2>4. /\ \A u \in Tags \ {t} : h.tags[u] = o.tags[u]
        /\ h.tags[t] = place
    BY <2>2, <2>3 DEF Dhdrs
  <2>5. TagStep(d, e, {t}) /\ d.dhdrs = h
    BY <2>1, <2>3, <2>4, DhdrsShape, ZenonT(40) DEF o
  <2> QED BY <2>4, <2>5
<1> QED BY <1>1, <1>2

\* Removing an entry (dhdrs_remove) changes no other, and leaves none for the tag.
LEMMA RemoveTagShape ==
  ASSUME NEW e \in State, NEW t \in Tags, NEW d, d = RemoveTag(e, t)
  PROVE  TagStep(d, e, {t}) /\ d.dhdrs.tags[t] = "none"
<1>1. CASE e.dhdrs.tags[t] = "none"
  <2>1. d = e
    BY <1>1 DEF RemoveTag
  <2> QED BY <2>1, <1>1 DEF TagStep, Keeps
<1>2. CASE e.dhdrs.tags[t] # "none"
  <2> DEFINE o == e.dhdrs
             h == [o EXCEPT !.tags[t] = "none", !.live = @ - 1, !.nulls = @ + 1]
             x == [e EXCEPT !.dhdrs.tags[t] = "none", !.dhdrs.live = @ - 1,
                            !.dhdrs.nulls = @ + 1]
  <2>1. d = Modify(x, {"DHDRS"})
    BY <1>2 DEF RemoveTag
  <2>2. x = [e EXCEPT !.dhdrs = h]
    BY DEF State, Dhdrs
  <2>3. o \in Dhdrs
    BY DEF State
  <2> HIDE DEF o, x
  <2>a. o.live - 1 \in Int /\ o.nulls + 1 \in Int
    BY <2>3 DEF Dhdrs
  <2>b. "none" \in Place
    BY DEF Place
  <2>4. /\ h \in Dhdrs /\ h.tags = [o.tags EXCEPT ![t] = "none"]
        /\ h.loaded = o.loaded /\ h.moved = o.moved /\ h.needed = o.needed
        /\ (o.heap => h.heap)
    BY <2>3, <2>a, <2>b DEF Dhdrs
  <2> HIDE DEF h
  <2>5. /\ \A u \in Tags \ {t} : h.tags[u] = o.tags[u]
        /\ h.tags[t] = "none"
    BY <2>3, <2>4 DEF Dhdrs
  <2>6. TagStep(d, e, {t}) /\ d.dhdrs = h
    BY <2>1, <2>2, <2>4, <2>5, DhdrsShape, ZenonT(40) DEF o
  <2> QED BY <2>5, <2>6
<1> QED BY <1>1, <1>2

-----------------------------------------------------------------------------
(* Editors are loaded.                                                      *)

\* The tags of a file are some of those of the model, and can be counted.
LEMMA OriginalTagsFinite ==
  ASSUME NEW fl \in FileRecord
  PROVE  OriginalTags(fl) \subseteq Tags /\ Cardinality(OriginalTags(fl)) \in Nat
<1>1. OriginalTags(fl) \subseteq Tags
  BY DEF OriginalTags, FileRecord, Tags
<1>2. IsFiniteSet(Tags)
  <2> DEFINE T1 == {"STRTAB"} T2 == T1 \cup {"SYMTAB"} T3 == T2 \cup {"VERSYM"}
             T4 == T3 \cup {"VERNEED"} T5 == T4 \cup {"RELA"} T6 == T5 \cup {"GNU_HASH"}
             T7 == T6 \cup {"HASH"} T8 == T7 \cup {"DEBUG"} T9 == T8 \cup {"SONAME"}
  <2>1. Tags = T9
    BY DEF Tags
  <2>2. IsFiniteSet(T1)
    BY FS_Singleton
  <2> HIDE DEF T1
  <2>3. IsFiniteSet(T2)
    BY <2>2, FS_AddElement
  <2> HIDE DEF T2
  <2>4. IsFiniteSet(T3)
    BY <2>3, FS_AddElement
  <2> HIDE DEF T3
  <2>5. IsFiniteSet(T4)
    BY <2>4, FS_AddElement
  <2> HIDE DEF T4
  <2>6. IsFiniteSet(T5)
    BY <2>5, FS_AddElement
  <2> HIDE DEF T5
  <2>7. IsFiniteSet(T6)
    BY <2>6, FS_AddElement
  <2> HIDE DEF T6
  <2>8. IsFiniteSet(T7)
    BY <2>7, FS_AddElement
  <2> HIDE DEF T7
  <2>9. IsFiniteSet(T8)
    BY <2>8, FS_AddElement
  <2> HIDE DEF T8
  <2>10. IsFiniteSet(T9)
    BY <2>9, FS_AddElement
  <2> QED BY <2>1, <2>10
<1> QED BY <1>1, <1>2, FS_Subset, FS_CardinalityType

\* The editors of an original file are well-typed.
LEMMA OriginalTypes ==
  ASSUME NEW fl \in FileRecord
  PROVE  /\ OriginalDhdrs(fl) \in Dhdrs /\ OriginalPhdrs(fl) \in Phdrs
         /\ OriginalRelocs(fl) \in Relocs /\ OriginalDsyms(fl) \in Dsyms
         /\ OriginalVers(fl) \in Vers
<1> DEFINE live == Cardinality(OriginalTags(fl))
           nulls == IF fl.dynamic THEN fl.nulls ELSE 0
           tags == [t \in Tags |-> IF t \in OriginalTags(fl) THEN "old" ELSE "none"]
<1>1. live \in Int
  BY OriginalTagsFinite
<1>2. nulls \in Int
  BY DEF FileRecord
<1>3. tags \in [Tags -> Place]
  BY DEF Place
<1>4. OriginalDhdrs(fl) = [ loaded |-> TRUE, heap |-> FALSE, moved |-> FALSE, needed |-> FALSE,
                            tags |-> tags, live |-> live, nulls |-> nulls ]
  BY DEF OriginalDhdrs
<1> HIDE DEF live, nulls, tags
<1>5. OriginalDhdrs(fl) \in Dhdrs
  BY <1>1, <1>2, <1>3, <1>4 DEF Dhdrs
<1>6. OriginalPhdrs(fl) \in Phdrs
  BY DEF OriginalPhdrs, Phdrs, FileRecord, Place
<1>7. OriginalRelocs(fl) \in Relocs
  <2> DEFINE heap == fl.dynamic /\ "RELA" \in fl.tags /\ "relocs" \in fl.split
  <2>1. heap \in BOOLEAN
    BY DEF FileRecord
  <2>2. OriginalRelocs(fl) = [loaded |-> TRUE, dirty |-> FALSE, reordered |-> FALSE,
                              heap |-> heap]
    BY DEF OriginalRelocs
  <2> HIDE DEF heap
  <2> QED BY <2>1, <2>2 DEF Relocs
<1>8. OriginalDsyms(fl) \in Dsyms
  <2> DEFINE heap == fl.dynamic /\ "dsyms" \in fl.split
             versions == "VERSYM" \in OriginalTags(fl)
             hash == "HASH" \in OriginalTags(fl)
             gnu == "GNU_HASH" \in OriginalTags(fl)
  <2>1. heap \in BOOLEAN /\ versions \in BOOLEAN /\ hash \in BOOLEAN /\ gnu \in BOOLEAN
        /\ fl.dynamic \in BOOLEAN
    BY DEF FileRecord
  <2>2. OriginalDsyms(fl) = [loaded |-> TRUE, any |-> fl.dynamic, reordered |-> FALSE,
                             moved |-> FALSE, heap |-> heap, versions |-> versions,
                             wantHash |-> hash, wantGnuHash |-> gnu]
    BY DEF OriginalDsyms
  <2> HIDE DEF heap, versions, hash, gnu
  <2> QED BY <2>1, <2>2 DEF Dsyms
<1>9. OriginalVers(fl) \in Vers
  BY DEF OriginalVers, Vers
<1> QED BY <1>5, <1>6, <1>7, <1>8, <1>9

\* d is e, with more editors loaded.
LoadStep(d, e) ==
  /\ d \in State /\ Loading(d) /\ Keeps(d, e, {"dhdrs", "relocs", "dsyms", "vers"})
  /\ d.dhdrs.heap = e.dhdrs.heap /\ d.dhdrs.moved = e.dhdrs.moved
  /\ d.dhdrs.needed = e.dhdrs.needed /\ d.dhdrs.tags = e.dhdrs.tags
  /\ d.relocs.dirty = e.relocs.dirty /\ d.relocs.reordered = e.relocs.reordered
  /\ d.relocs.heap = e.relocs.heap
  /\ d.dsyms.reordered = e.dsyms.reordered /\ d.dsyms.moved = e.dsyms.moved
  /\ d.dsyms.any = e.dsyms.any
  /\ d.dsyms.heap = e.dsyms.heap /\ d.dsyms.versions = e.dsyms.versions
  /\ d.dsyms.wantHash = e.dsyms.wantHash /\ d.dsyms.wantGnuHash = e.dsyms.wantGnuHash
  /\ d.vers.weak = e.vers.weak /\ d.vers.moved = e.vers.moved
  /\ d.vers.need = (e.vers.need \/ (d.vers.loaded /\ ~ e.vers.loaded /\ "VERNEED" \in Orig))
  /\ e.dhdrs.loaded => d.dhdrs.loaded
  /\ e.relocs.loaded => d.relocs.loaded
  /\ e.dsyms.loaded => d.dsyms.loaded
  /\ e.vers.loaded => d.vers.loaded

\* An editor which is loaded already is not changed by loading it.
LEMMA LoadStepRefl ==
  ASSUME NEW e \in State, Loading(e)
  PROVE  LoadStep(e, e)
<1>1. e.vers.need \in BOOLEAN
  BY DEF State, Vers
<1> QED BY <1>1 DEF LoadStep, Keeps

\* Two steps which load editors are one.
LEMMA LoadStepTrans ==
  ASSUME NEW e, NEW d, NEW c, LoadStep(d, e), LoadStep(c, d)
  PROVE  LoadStep(c, e)
<1>1. Keeps(c, e, {"dhdrs", "relocs", "dsyms", "vers"})
  BY DEF LoadStep, Keeps
<1> QED BY <1>1 DEF LoadStep

\* The original file is one of Files.
LEMMA FileType ==
  ASSUME file \in Files
  PROVE  file \in FileRecord
  BY FlushAssumption

\* Loading the dynamic section is such a step, and leaves it loaded.
LEMMA LoadDhdrsShape ==
  ASSUME file \in FileRecord, NEW e \in State, Loading(e), e.dsyms.any = file.dynamic,
         NEW d, d = LoadDhdrs(e)
  PROVE  LoadStep(d, e) /\ d.dhdrs.loaded /\ Keeps(d, e, {"dhdrs"})
<1>1. CASE e.dhdrs.loaded
  BY <1>1, LoadStepRefl DEF LoadDhdrs, Keeps
<1>2. CASE ~ e.dhdrs.loaded
  <2> DEFINE h == OriginalDhdrs(file)
  <2>1. h \in Dhdrs
    BY OriginalTypes
  <2>2. d = [e EXCEPT !.dhdrs = h]
    BY <1>2 DEF LoadDhdrs
  <2>3. /\ h.loaded /\ h.heap = e.dhdrs.heap /\ h.moved = e.dhdrs.moved
        /\ h.needed = e.dhdrs.needed /\ h.tags = e.dhdrs.tags
    <3>1. e.dhdrs.tags \in [Tags -> Place] /\ e.dhdrs.heap \in BOOLEAN
          /\ e.dhdrs.moved \in BOOLEAN /\ e.dhdrs.needed \in BOOLEAN
      BY DEF State, Dhdrs
    <3> QED BY <1>2, <3>1 DEF Loading, OriginalDhdrs, Orig
  <2> HIDE DEF h
  <2>4. d \in State /\ Keeps(d, e, {"dhdrs"}) /\ d.dhdrs = h
    BY <2>1, <2>2 DEF State, Keeps, Fields
  <2>5. d.relocs = e.relocs /\ d.dsyms = e.dsyms /\ d.vers = e.vers /\ d.building = e.building
    BY <2>4 DEF Keeps, Fields
  <2>6. Loading(d)
    BY <2>3, <2>4, <2>5 DEF Loading
  <2>7. d.vers.need = e.vers.need /\ e.vers.need \in BOOLEAN
    BY <2>5 DEF State, Vers
  <2> QED BY <2>3, <2>4, <2>5, <2>6, <2>7 DEF LoadStep, Keeps
<1> QED BY <1>1, <1>2

\* Loading the relocations is one: the dynamic section comes first.
LEMMA LoadRelocsShape ==
  ASSUME file \in FileRecord, NEW e \in State, Loading(e), e.dsyms.any = file.dynamic,
         NEW d, d = LoadRelocs(e)
  PROVE  /\ LoadStep(d, e) /\ d.dhdrs.loaded /\ d.relocs.loaded
         /\ Keeps(d, e, {"dhdrs", "relocs"})
<1>1. CASE e.relocs.loaded
  <2>1. e.dhdrs.loaded
    BY <1>1 DEF Loading
  <2> QED BY <1>1, <2>1, LoadStepRefl DEF LoadRelocs, Keeps
<1>2. CASE ~ e.relocs.loaded
  <2> DEFINE h == OriginalRelocs(file)
             x == LoadDhdrs(e)
  <2>1. h \in Relocs
    BY OriginalTypes
  <2>2. d = [x EXCEPT !.relocs = h]
    BY <1>2 DEF LoadRelocs
  <2>3. LoadStep(x, e) /\ x.dhdrs.loaded /\ Keeps(x, e, {"dhdrs"})
    BY LoadDhdrsShape
  <2>4. /\ h.loaded /\ h.heap = e.relocs.heap /\ h.dirty = e.relocs.dirty
        /\ h.reordered = e.relocs.reordered
    <3>1. e.relocs.reordered \in BOOLEAN /\ e.relocs.dirty \in BOOLEAN
      BY DEF State, Relocs
    <3> QED BY <1>2, <3>1 DEF Loading, OriginalRelocs
  <2> HIDE DEF h, x
  <2>5. d \in State /\ Keeps(d, x, {"relocs"}) /\ d.relocs = h
    BY <2>1, <2>2, <2>3 DEF LoadStep, State, Keeps, Fields
  <2>6. Keeps(d, e, {"dhdrs", "relocs"})
    BY <2>3, <2>5 DEF Keeps
  <2>7. /\ d.dhdrs = x.dhdrs /\ d.dsyms = e.dsyms /\ d.vers = e.vers
        /\ d.building = e.building
    BY <2>3, <2>5 DEF Keeps, Fields
  <2>8. Loading(x) /\ x.vers = e.vers /\ x.dsyms = e.dsyms /\ x.relocs = e.relocs
        /\ x.building = e.building
    BY <2>3 DEF LoadStep, Keeps, Fields
  <2>9. Loading(d)
    BY <2>3, <2>4, <2>5, <2>7, <2>8 DEF Loading
  <2>10. d.vers.need = e.vers.need /\ e.vers.need \in BOOLEAN
    BY <2>7 DEF State, Vers
  <2> QED BY <1>2, <2>3, <2>4, <2>5, <2>6, <2>7, <2>9, <2>10 DEF LoadStep, Keeps
<1> QED BY <1>1, <1>2

\* Loading the symbols is one: the relocations of a file which has symbols come
\* first.
LEMMA LoadDsymsShape ==
  ASSUME file \in FileRecord, NEW e \in State, Loading(e), e.dsyms.any = file.dynamic,
         NEW d, d = LoadDsyms(e)
  PROVE  /\ LoadStep(d, e) /\ d.dhdrs.loaded /\ d.dsyms.loaded
         /\ Keeps(d, e, {"dhdrs", "relocs", "dsyms"})
<1>1. CASE e.dsyms.loaded
  <2>1. e.dhdrs.loaded
    BY <1>1 DEF Loading
  <2> QED BY <1>1, <2>1, LoadStepRefl DEF LoadDsyms, Keeps
<1>2. CASE ~ e.dsyms.loaded
  <2> DEFINE h == OriginalDsyms(file)
             x == IF file.dynamic THEN LoadRelocs(e) ELSE LoadDhdrs(e)
  <2>1. h \in Dsyms
    BY OriginalTypes
  <2>2. d = [x EXCEPT !.dsyms = h]
    BY <1>2 DEF LoadDsyms
  <2>3. /\ LoadStep(x, e) /\ x.dhdrs.loaded /\ Keeps(x, e, {"dhdrs", "relocs"})
        /\ (file.dynamic => x.relocs.loaded)
    <3>1. CASE file.dynamic
      <4>1. x = LoadRelocs(e)
        BY <3>1
      <4> HIDE DEF x
      <4> QED BY <3>1, <4>1, LoadRelocsShape
    <3>2. CASE ~ file.dynamic
      <4>1. x = LoadDhdrs(e)
        BY <3>2
      <4> HIDE DEF x
      <4>2. LoadStep(x, e) /\ x.dhdrs.loaded /\ Keeps(x, e, {"dhdrs"})
        BY <4>1, LoadDhdrsShape
      <4> QED BY <3>2, <4>2 DEF Keeps
    <3> QED BY <3>1, <3>2
  <2>4. /\ h.loaded /\ h.heap = e.dsyms.heap /\ h.moved = e.dsyms.moved
        /\ h.reordered = e.dsyms.reordered /\ h.versions = e.dsyms.versions
        /\ h.wantHash = e.dsyms.wantHash /\ h.wantGnuHash = e.dsyms.wantGnuHash
        /\ h.any = e.dsyms.any
    <3>1. e.dsyms.reordered \in BOOLEAN /\ e.dsyms.moved \in BOOLEAN
      BY DEF State, Dsyms
    <3> QED BY <1>2, <3>1 DEF Loading, OriginalDsyms, Orig
  <2> HIDE DEF h, x
  <2>5. d \in State /\ Keeps(d, x, {"dsyms"}) /\ d.dsyms = h
    BY <2>1, <2>2, <2>3 DEF LoadStep, State, Keeps, Fields
  <2>6. Keeps(d, e, {"dhdrs", "relocs", "dsyms"})
    BY <2>3, <2>5 DEF Keeps
  <2>7. /\ d.dhdrs = x.dhdrs /\ d.relocs = x.relocs /\ d.vers = e.vers
        /\ d.building = e.building
    BY <2>3, <2>5 DEF Keeps, Fields
  <2>8. Loading(x) /\ x.vers = e.vers /\ x.dsyms = e.dsyms /\ x.building = e.building
    BY <2>3 DEF LoadStep, Keeps, Fields
  <2>9. Loading(d)
    BY <2>3, <2>4, <2>5, <2>7, <2>8 DEF Loading
  <2>10. d.vers.need = e.vers.need /\ e.vers.need \in BOOLEAN
    BY <2>7 DEF State, Vers
  <2>11. Keeps(d, e, {"dhdrs", "relocs", "dsyms", "vers"})
    BY <2>6 DEF Keeps
  <2> QED BY <1>2, <2>3, <2>4, <2>5, <2>6, <2>7, <2>9, <2>10, <2>11 DEF LoadStep
<1> QED BY <1>1, <1>2

\* Loading the versions is one: the dynamic section comes first.
LEMMA LoadVersShape ==
  ASSUME file \in FileRecord, NEW e \in State, Loading(e), e.dsyms.any = file.dynamic,
         NEW d, d = LoadVers(e)
  PROVE  /\ LoadStep(d, e) /\ d.dhdrs.loaded /\ d.vers.loaded
         /\ Keeps(d, e, {"dhdrs", "vers"})
<1>1. CASE e.vers.loaded
  <2>1. e.dhdrs.loaded
    BY <1>1 DEF Loading
  <2> QED BY <1>1, <2>1, LoadStepRefl DEF LoadVers, Keeps
<1>2. CASE ~ e.vers.loaded
  <2> DEFINE h == OriginalVers(file)
             x == LoadDhdrs(e)
  <2>1. h \in Vers
    BY OriginalTypes
  <2>2. d = [x EXCEPT !.vers = h]
    BY <1>2 DEF LoadVers
  <2>3. LoadStep(x, e) /\ x.dhdrs.loaded /\ Keeps(x, e, {"dhdrs"})
    BY LoadDhdrsShape
  <2>4. /\ h.loaded /\ h.weak = e.vers.weak /\ h.moved = e.vers.moved
        /\ ~ e.vers.need /\ h.need = ("VERNEED" \in Orig)
    <3>1. e.vers.weak \in BOOLEAN /\ e.vers.moved \in BOOLEAN
      BY DEF State, Vers
    <3> QED BY <1>2, <3>1 DEF Loading, OriginalVers, Orig
  <2> HIDE DEF h, x
  <2>5. d \in State /\ Keeps(d, x, {"vers"}) /\ d.vers = h
    BY <2>1, <2>2, <2>3 DEF LoadStep, State, Keeps, Fields
  <2>6. Keeps(d, e, {"dhdrs", "vers"})
    BY <2>3, <2>5 DEF Keeps
  <2>7. /\ d.dhdrs = x.dhdrs /\ d.relocs = e.relocs /\ d.dsyms = e.dsyms
        /\ d.building = e.building
    BY <2>3, <2>5 DEF Keeps, Fields
  <2>8. Loading(x) /\ x.vers = e.vers /\ x.dsyms = e.dsyms /\ x.relocs = e.relocs
        /\ x.building = e.building
    BY <2>3 DEF LoadStep, Keeps, Fields
  <2>9. Loading(d)
    BY <2>3, <2>4, <2>5, <2>7, <2>8 DEF Loading
  <2>10. Keeps(d, e, {"dhdrs", "relocs", "dsyms", "vers"})
    BY <2>6 DEF Keeps
  <2> QED BY <1>2, <2>3, <2>4, <2>5, <2>6, <2>7, <2>9, <2>10 DEF LoadStep
<1> QED BY <1>1, <1>2

\* Loading an editor disturbs nothing of what holds all through a round.
LEMMA LoadRound ==
  ASSUME file \in FileRecord, NEW e \in State, NEW d, RoundInv(e), LoadStep(d, e)
  PROVE  RoundInv(d)
<1> DEFINE S == {"dhdrs", "relocs", "dsyms", "vers"}
<1>1. /\ d.modified = e.modified /\ d.retry = e.retry /\ d.used = e.used
      /\ d.phdrs = e.phdrs /\ d.building = e.building /\ d.added = e.added
  BY DEF LoadStep, Keeps, Fields
<1>2. Loading(d)
  BY DEF LoadStep
<1>3. Reasons(d)
  BY <1>1 DEF RoundInv, Reasons
<1>a. /\ d.vers.need => e.vers.need \/ (~ e.vers.loaded /\ d.vers.loaded /\ "VERNEED" \in Orig)
      /\ e.vers.need => d.vers.need
      /\ d.vers.loaded /\ ~ e.vers.loaded /\ "VERNEED" \in Orig => d.vers.need
  BY DEF LoadStep
<1>4. Flagged(d)
  <2>1. /\ d.building => "DYNSTR" \in d.modified
        /\ d.dhdrs.needed => "DHDRS" \in d.modified
        /\ d.vers.weak \/ d.vers.moved => "VERNEED" \in d.modified
        /\ d.dsyms.moved \/ d.dsyms.reordered => "DSYMS" \in d.modified
        /\ d.dsyms.wantGnuHash /\ "GNU_HASH" \notin Orig => "DSYMS" \in d.modified
        /\ d.dsyms.wantHash /\ "HASH" \notin Orig => "DSYMS" \in d.modified
        /\ d.relocs.reordered => "RELOCS" \in d.modified
    BY <1>1 DEF RoundInv, Flagged, LoadStep
  <2>2. d.vers.loaded /\ "VERNEED" \in Orig /\ ~ d.vers.need => "VERNEED" \in d.modified
    BY <1>1, <1>a DEF RoundInv, Flagged, LoadStep
  <2>3. "VERSYM" \in Orig /\ ~ d.dsyms.versions =>
          "DSYMS" \in d.modified /\ "VERNEED" \in d.modified
          /\ e.vers.loaded /\ d.vers.loaded /\ ~ e.vers.need
    BY <1>1 DEF RoundInv, Flagged, LoadStep
  <2>4. e.vers.loaded /\ ~ e.vers.need /\ "VERSYM" \in Orig /\ ~ d.dsyms.versions => ~ d.vers.need
    BY <1>1, <1>a DEF RoundInv, Flagged, LoadStep
  <2> QED BY <2>1, <2>2, <2>3, <2>4 DEF Flagged
<1>b. Compacted(e) = Compacted(d) /\ (Compacted(d) => e.vers.loaded)
  BY <1>1 DEF Compacted, RoundInv, Loading
<1>c. d.vers.need => "VERNEED" \in Orig /\ d.vers.loaded /\ (Compacted(d) => d.vers.moved)
  BY <1>a, <1>b DEF RoundInv, Contents, LoadStep
<1>5. Contents(d)
  BY <1>1, <1>b, <1>c DEF RoundInv, Contents, LoadStep
<1>6. Entries(d)
  BY <1>1 DEF RoundInv, Entries, LoadStep
<1> QED BY <1>2, <1>3, <1>4, <1>5, <1>6 DEF RoundInv

\* A flag whose editor was loaded in time has it loaded afterwards as well.
LEMMA LoadInTime ==
  ASSUME NEW e \in State, NEW d, LoadedInTime(e), LoadStep(d, e)
  PROVE  LoadedInTime(d)
<1>1. d.modified = e.modified /\ d.building = e.building /\ d.retry = e.retry
  BY DEF LoadStep, Keeps, Fields
<1> QED BY <1>1 DEF LoadedInTime, LoadStep

\* ... nor anything an action has done.
LEMMA LoadDone ==
  ASSUME NEW e \in State, NEW d, NEW kind \in Kinds, Done(kind, e), LoadStep(d, e)
  PROVE  Done(kind, d)
<1>1. d.phdrs = e.phdrs /\ d.retry = e.retry
  BY DEF LoadStep, Keeps, Fields
<1> QED BY <1>1 DEF Done, LoadStep, Kinds

\* Loading an editor before the tables are written changes none of them.
LEMMA LoadStage ==
  ASSUME NEW e \in State, NEW d, StageInv(e), LoadStep(d, e), pc \in {"acts", "vers"}
  PROVE  StageInv(d)
<1>1. d.image = e.image /\ d.phdrs = e.phdrs /\ d.retry = e.retry /\ d.modified = e.modified
  BY DEF LoadStep, Keeps, Fields
<1>2. NoTable(e) => NoTable(d)
  BY <1>1 DEF NoTable, LoadStep
<1> QED BY <1>1, <1>2 DEF StageInv, LoadStep

\* All of these together, of a state in which only actions have been run.
ActsInv(e) == RoundInv(e) /\ LoadedInTime(e) /\ ActionsDone(e) /\ StageInv(e)

\* The actions which have been run are of the kinds there are.
LEMMA DoneKinds ==
  ASSUME TypeInv, NEW i \in 1..(act - 1)
  PROVE  cmd[i] \in Kinds /\ i \in DOMAIN cmd
<1>1. cmd \in Seq(Kinds)
  BY FlushAssumption DEF TypeInv
<1>2. act \in 1..(Len(cmd) + 1) /\ Len(cmd) \in Nat
  BY <1>1 DEF TypeInv
<1>3. i \in 1..Len(cmd)
  BY <1>2
<1> QED BY <1>1, <1>3

\* All of this at once: loading an editor keeps what the actions keep.
LEMMA LoadActs ==
  ASSUME TypeInv, NEW e \in State, NEW d, ActsInv(e), LoadStep(d, e),
         pc \in {"acts", "vers"}
  PROVE  ActsInv(d)
<1>1. file \in FileRecord
  BY FileType DEF TypeInv
<1>2. RoundInv(d) /\ LoadedInTime(d) /\ StageInv(d)
  BY <1>1, LoadRound, LoadInTime, LoadStage DEF ActsInv
<1>3. ActionsDone(d)
  <2> SUFFICES ASSUME NEW i \in 1..(act - 1) PROVE Done(cmd[i], d)
    BY DEF ActionsDone
  <2>1. cmd[i] \in Kinds
    BY DoneKinds
  <2>2. Done(cmd[i], e)
    BY DEF ActsInv, ActionsDone
  <2> HIDE DEF Done
  <2> QED BY <2>1, <2>2, LoadDone
<1> QED BY <1>2, <1>3 DEF ActsInv

-----------------------------------------------------------------------------
(* The actions of the command line.                                         *)

\* What an action of this kind makes of e is as good as e was.
EditStep(kind, e, d) ==
  /\ d \in State /\ RoundInv(d) /\ StageInv(d)
  /\ Done(kind, d) /\ \A k \in Kinds : Done(k, e) => Done(k, d)
  /\ e.retry => d.retry
  /\ e.vers.loaded => d.vers.loaded
  /\ e.dsyms.loaded => d.dsyms.loaded
  /\ e.dhdrs.loaded => d.dhdrs.loaded
  /\ e.building => d.building
  /\ "VERNEED" \in d.modified => "VERNEED" \in e.modified \/ d.vers.loaded
  /\ "DSYMS" \in d.modified => "DSYMS" \in e.modified \/ d.dsyms.loaded
  /\ "DHDRS" \in d.modified => "DHDRS" \in e.modified \/ d.dhdrs.loaded
  /\ "DYNSTR" \in d.modified => "DYNSTR" \in e.modified \/ d.building
  /\ e.modified \subseteq d.modified
  /\ kind \in {"remove_verneed", "weak_verneed"} => d.vers.loaded
  /\ kind \in {"add_gnu_hash", "add_hash"} => d.dsyms.loaded
  /\ kind \in {"add_gnu_hash", "add_hash", "add_late_needed", "remove_debug"} =>
       d.dhdrs.loaded

\* An action may load an editor before it edits.
LEMMA LoadThenEdit ==
  ASSUME NEW kind \in Kinds, NEW e \in State, NEW l, NEW d,
         LoadStep(l, e), EditStep(kind, l, d)
  PROVE  EditStep(kind, e, d)
<1>1. l.modified = e.modified /\ l.building = e.building /\ l.retry = e.retry
  BY DEF LoadStep, Keeps, Fields
<1>2. \A k \in Kinds : Done(k, e) => Done(k, l)
  BY LoadDone
<1> HIDE DEF Done
<1> QED BY <1>1, <1>2 DEF EditStep, LoadStep

\* An action which finds nothing to do.
LEMMA EditNothing ==
  ASSUME NEW kind \in Kinds, NEW e \in State, RoundInv(e), StageInv(e), Done(kind, e),
         kind \in {"remove_verneed", "weak_verneed"} => e.vers.loaded,
         kind \in {"add_gnu_hash", "add_hash"} => e.dsyms.loaded,
         kind \in {"add_gnu_hash", "add_hash", "add_late_needed", "remove_debug"} =>
           e.dhdrs.loaded
  PROVE  EditStep(kind, e, e)
  BY DEF EditStep

\* A symbol table which is to have another hash table.
HashStep(d, e, gnu) ==
  /\ d \in State /\ Keeps(d, e, {"modified", "dsyms"})
  /\ d.modified = e.modified \cup {"DSYMS"}
  /\ d.dsyms.loaded = e.dsyms.loaded /\ d.dsyms.any = e.dsyms.any
  /\ d.dsyms.reordered = e.dsyms.reordered /\ d.dsyms.moved = e.dsyms.moved
  /\ d.dsyms.heap = e.dsyms.heap /\ d.dsyms.versions = e.dsyms.versions
  /\ IF gnu THEN d.dsyms.wantGnuHash /\ d.dsyms.wantHash = e.dsyms.wantHash
     ELSE d.dsyms.wantHash /\ d.dsyms.wantGnuHash = e.dsyms.wantGnuHash

\* Asking for a hash table is such an action, once the symbols are loaded.
LEMMA HashStepKeeps ==
  ASSUME file \in FileRecord, NEW e \in State, NEW gnu \in BOOLEAN, NEW d,
         RoundInv(e), StageInv(e), HashStep(d, e, gnu), pc = "acts", e.dsyms.loaded,
         NEW kind, kind = IF gnu THEN "add_gnu_hash" ELSE "add_hash", Asked(kind)
  PROVE  EditStep(kind, e, d)
<1>1. /\ d.retry = e.retry /\ d.used = e.used /\ d.image = e.image
      /\ d.phdrs = e.phdrs /\ d.dhdrs = e.dhdrs /\ d.relocs = e.relocs /\ d.vers = e.vers
      /\ d.building = e.building /\ d.added = e.added
  BY DEF HashStep, Keeps, Fields
<1>2. Loading(d)
  BY <1>1 DEF RoundInv, Loading, HashStep
<1>3. Reasons(d)
  BY <1>1 DEF RoundInv, Reasons, HashStep
<1>4. Flagged(d)
  BY <1>1 DEF RoundInv, Flagged, HashStep
<1>5. Compacted(d) = Compacted(e)
  BY <1>1 DEF Compacted
<1>6. Contents(d)
  BY <1>1, <1>5 DEF RoundInv, Contents, HashStep
<1>7. Entries(d)
  BY <1>1 DEF RoundInv, Entries
<1>8. StageInv(d)
  BY <1>1 DEF StageInv, NoTable, HashStep
<1>9. Done(kind, d) /\ \A k \in Kinds : Done(k, e) => Done(k, d)
  BY <1>1 DEF Done, HashStep, Kinds
<1>10. e.dhdrs.loaded
  BY DEF RoundInv, Loading
<1> QED BY <1>1, <1>2, <1>3, <1>4, <1>6, <1>7, <1>8, <1>9, <1>10
       DEF EditStep, RoundInv, HashStep

\* add_gnu_hash keeps the invariant of a round.
LEMMA AddGnuHashStep ==
  ASSUME file \in FileRecord, NEW e \in State, RoundInv(e), StageInv(e), pc = "acts",
         Asked("add_gnu_hash")
  PROVE  EditStep("add_gnu_hash", e, AddGnuHash(e))
<1> DEFINE l == LoadDsyms(e)
           d == AddGnuHash(e)
           s == [l.dsyms EXCEPT !.wantGnuHash = TRUE]
<1>1. LoadStep(l, e) /\ l.dhdrs.loaded /\ l.dsyms.loaded
  BY LoadDsymsShape DEF RoundInv, Contents
<1>2. l \in State /\ RoundInv(l) /\ StageInv(l)
  BY <1>1, LoadRound, LoadStage DEF LoadStep
<1>3. d = IF l.dsyms.wantGnuHash THEN l
          ELSE Modify([l EXCEPT !.dsyms.wantGnuHash = TRUE], {"DSYMS"})
  BY DEF AddGnuHash
<1> HIDE DEF l, d
<1>4. CASE l.dsyms.wantGnuHash
  <2>1. d = l
    BY <1>3, <1>4
  <2>2. Done("add_gnu_hash", l) /\ "add_gnu_hash" \in Kinds
    BY <1>1, <1>4 DEF Done, Kinds
  <2>3. EditStep("add_gnu_hash", l, l)
    BY <1>1, <1>2, <2>2, EditNothing
  <2> QED BY <1>1, <2>1, <2>2, <2>3, LoadThenEdit DEF d
<1>5. CASE ~ l.dsyms.wantGnuHash
  <2> DEFINE x == [l EXCEPT !.dsyms.wantGnuHash = TRUE]
  <2>1. d = Modify(x, {"DSYMS"})
    BY <1>3, <1>5
  <2>2. x = [l EXCEPT !.dsyms = s] /\ l.dsyms \in Dsyms
    BY <1>2 DEF State, Dsyms
  <2>3. s \in Dsyms /\ s.wantGnuHash
        /\ s.loaded = l.dsyms.loaded /\ s.any = l.dsyms.any
        /\ s.reordered = l.dsyms.reordered /\ s.moved = l.dsyms.moved
        /\ s.heap = l.dsyms.heap /\ s.versions = l.dsyms.versions
        /\ s.wantHash = l.dsyms.wantHash
    BY <2>2 DEF Dsyms
  <2> HIDE DEF s, x
  <2>4. x \in State /\ Keeps(x, l, {"dsyms"}) /\ x.dsyms = s
    BY <1>2, <2>2, <2>3 DEF State, Keeps, Fields
  <2>5. d \in State /\ Keeps(d, x, {"modified"}) /\ d.modified = x.modified \cup {"DSYMS"}
    BY <2>1, <2>4, ModifyShape DEF Flags
  <2>6. HashStep(d, l, TRUE)
    <3>1. Keeps(d, l, {"modified", "dsyms"})
      BY <2>4, <2>5 DEF Keeps
    <3>2. d.dsyms = s /\ d.modified = l.modified \cup {"DSYMS"}
      BY <2>4, <2>5 DEF Keeps, Fields
    <3> QED BY <2>3, <2>5, <3>1, <3>2 DEF HashStep
  <2>7. EditStep("add_gnu_hash", l, d)
    BY <1>1, <1>2, <2>6, HashStepKeeps
  <2> QED BY <1>1, <2>7, LoadThenEdit DEF Kinds, d
<1> QED BY <1>4, <1>5

\* add_hash keeps the invariant of a round.
LEMMA AddHashStep ==
  ASSUME file \in FileRecord, NEW e \in State, RoundInv(e), StageInv(e), pc = "acts",
         Asked("add_hash")
  PROVE  EditStep("add_hash", e, AddHash(e))
<1> DEFINE l == LoadDsyms(e)
           d == AddHash(e)
           s == [l.dsyms EXCEPT !.wantHash = TRUE]
<1>1. LoadStep(l, e) /\ l.dhdrs.loaded /\ l.dsyms.loaded
  BY LoadDsymsShape DEF RoundInv, Contents
<1>2. l \in State /\ RoundInv(l) /\ StageInv(l)
  BY <1>1, LoadRound, LoadStage DEF LoadStep
<1>3. d = IF l.dsyms.wantHash THEN l
          ELSE Modify([l EXCEPT !.dsyms.wantHash = TRUE], {"DSYMS"})
  BY DEF AddHash
<1> HIDE DEF l, d
<1>4. CASE l.dsyms.wantHash
  <2>1. d = l
    BY <1>3, <1>4
  <2>2. Done("add_hash", l) /\ "add_hash" \in Kinds
    BY <1>1, <1>4 DEF Done, Kinds
  <2>3. EditStep("add_hash", l, l)
    BY <1>1, <1>2, <2>2, EditNothing
  <2> QED BY <1>1, <2>1, <2>2, <2>3, LoadThenEdit DEF d
<1>5. CASE ~ l.dsyms.wantHash
  <2> DEFINE x == [l EXCEPT !.dsyms.wantHash = TRUE]
  <2>1. d = Modify(x, {"DSYMS"})
    BY <1>3, <1>5
  <2>2. x = [l EXCEPT !.dsyms = s] /\ l.dsyms \in Dsyms
    BY <1>2 DEF State, Dsyms
  <2>3. s \in Dsyms /\ s.wantHash
        /\ s.loaded = l.dsyms.loaded /\ s.any = l.dsyms.any
        /\ s.reordered = l.dsyms.reordered /\ s.moved = l.dsyms.moved
        /\ s.heap = l.dsyms.heap /\ s.versions = l.dsyms.versions
        /\ s.wantGnuHash = l.dsyms.wantGnuHash
    BY <2>2 DEF Dsyms
  <2> HIDE DEF s, x
  <2>4. x \in State /\ Keeps(x, l, {"dsyms"}) /\ x.dsyms = s
    BY <1>2, <2>2, <2>3 DEF State, Keeps, Fields
  <2>5. d \in State /\ Keeps(d, x, {"modified"}) /\ d.modified = x.modified \cup {"DSYMS"}
    BY <2>1, <2>4, ModifyShape DEF Flags
  <2>6. HashStep(d, l, FALSE)
    <3>1. Keeps(d, l, {"modified", "dsyms"})
      BY <2>4, <2>5 DEF Keeps
    <3>2. d.dsyms = s /\ d.modified = l.modified \cup {"DSYMS"}
      BY <2>4, <2>5 DEF Keeps, Fields
    <3> QED BY <2>3, <2>5, <3>1, <3>2 DEF HashStep
  <2>7. EditStep("add_hash", l, d)
    BY <1>1, <1>2, <2>6, HashStepKeeps
  <2> QED BY <1>1, <2>7, LoadThenEdit DEF Kinds, d
<1> QED BY <1>4, <1>5

\* Versions which are removed or made weak.
VersStep(d, e, F) ==
  /\ d \in State /\ Keeps(d, e, {"modified", "vers"})
  /\ d.modified = e.modified \cup F /\ "VERNEED" \in F /\ F \subseteq {"VERNEED", "DSYMS"}
  /\ d.vers.loaded /\ d.vers.moved = e.vers.moved
  /\ d.vers.need => e.vers.need /\ d.vers.weak
  /\ e.vers.weak => d.vers.weak

\* Editing the versions which have been loaded is such an action.
LEMMA VersStepKeeps ==
  ASSUME file \in FileRecord, NEW e \in State, NEW F, NEW d,
         RoundInv(e), StageInv(e), VersStep(d, e, F), pc = "acts", e.vers.loaded,
         "DSYMS" \in F => e.dsyms.loaded,
         NEW kind \in {"remove_verneed", "weak_verneed"}, Asked(kind), Done(kind, d)
  PROVE  EditStep(kind, e, d)
<1>1. /\ d.retry = e.retry /\ d.used = e.used /\ d.image = e.image
      /\ d.phdrs = e.phdrs /\ d.dhdrs = e.dhdrs /\ d.relocs = e.relocs
      /\ d.dsyms = e.dsyms /\ d.building = e.building /\ d.added = e.added
  BY DEF VersStep, Keeps, Fields
<1>2. Loading(d)
  BY <1>1 DEF RoundInv, Loading, VersStep
<1>3. Reasons(d)
  BY <1>1 DEF RoundInv, Reasons, VersStep
<1>4. Flagged(d)
  BY <1>1 DEF RoundInv, Flagged, VersStep
<1>5. Compacted(d) = Compacted(e)
  BY <1>1 DEF Compacted
<1>6. Contents(d)
  BY <1>1, <1>5 DEF RoundInv, Contents, VersStep
<1>7. Entries(d)
  BY <1>1 DEF RoundInv, Entries
<1>8. StageInv(d)
  BY <1>1 DEF StageInv, NoTable
<1>9. \A k \in Kinds : Done(k, e) => Done(k, d)
  BY <1>1 DEF Done, VersStep, Kinds
<1>10. e.dhdrs.loaded
  BY DEF RoundInv, Loading
<1> QED BY <1>1, <1>2, <1>3, <1>4, <1>6, <1>7, <1>8, <1>9, <1>10
       DEF EditStep, RoundInv, VersStep

\* remove_verneed keeps the invariant of a round.
LEMMA RemoveVerneedStep ==
  ASSUME file \in FileRecord, NEW e \in State, RoundInv(e), StageInv(e), pc = "acts",
         Asked("remove_verneed")
  PROVE  EditStep("remove_verneed", e, RemoveVerneed(e))
<1> DEFINE v == LoadVers(e)
           l == LoadDsyms(v)
           d == RemoveVerneed(e)
           s == [l.vers EXCEPT !.need = FALSE]
           F == {"VERNEED"} \cup (IF l.dsyms.versions THEN {"DSYMS"} ELSE {})
<1>1. LoadStep(v, e) /\ v.dhdrs.loaded /\ v.vers.loaded
  BY LoadVersShape DEF RoundInv, Contents
<1>2. v \in State /\ RoundInv(v) /\ StageInv(v)
  BY <1>1, LoadRound, LoadStage DEF LoadStep
<1>3. d = IF ~ v.vers.need THEN v
          ELSE Modify([l EXCEPT !.vers.need = FALSE], F)
  BY DEF RemoveVerneed
<1> HIDE DEF v, d
<1>4. CASE ~ v.vers.need
  <2>1. d = v
    BY <1>3, <1>4
  <2>2. Done("remove_verneed", v) /\ "remove_verneed" \in Kinds
    BY <1>1, <1>4 DEF Done, Kinds
  <2>3. EditStep("remove_verneed", v, v)
    BY <1>1, <1>2, <2>2, EditNothing
  <2> QED BY <1>1, <2>1, <2>2, <2>3, LoadThenEdit DEF d
<1>5. CASE v.vers.need
  <2>a. LoadStep(l, v) /\ l.dhdrs.loaded /\ l.dsyms.loaded
    BY <1>2, LoadDsymsShape DEF RoundInv, Contents
  <2>b. LoadStep(l, e)
    BY <1>1, <2>a, LoadStepTrans
  <2>c. l \in State /\ RoundInv(l) /\ StageInv(l) /\ l.vers.loaded
    BY <1>1, <1>2, <2>a, LoadRound, LoadStage DEF LoadStep
  <2> DEFINE x == [l EXCEPT !.vers.need = FALSE]
  <2>1. d = Modify(x, F)
    BY <1>3, <1>5
  <2> HIDE DEF l
  <2>2. x = [l EXCEPT !.vers = s] /\ l.vers \in Vers
    BY <2>c DEF State, Vers
  <2>3. s \in Vers /\ ~ s.need /\ s.loaded = l.vers.loaded /\ s.weak = l.vers.weak
        /\ s.moved = l.vers.moved
    BY <2>2 DEF Vers
  <2> HIDE DEF s, x
  <2>4. x \in State /\ Keeps(x, l, {"vers"}) /\ x.vers = s
    BY <2>c, <2>2, <2>3 DEF State, Keeps, Fields
  <2>5. F \in SUBSET Flags /\ "VERNEED" \in F /\ F \subseteq {"VERNEED", "DSYMS"}
    BY DEF Flags
  <2> HIDE DEF F
  <2>6. d \in State /\ Keeps(d, x, {"modified"}) /\ d.modified = x.modified \cup F
    BY <2>1, <2>4, <2>5, ModifyShape
  <2>7. Keeps(d, l, {"modified", "vers"})
    BY <2>4, <2>6 DEF Keeps
  <2>8. d.vers = s /\ d.modified = l.modified \cup F
    BY <2>4, <2>6 DEF Keeps, Fields
  <2>9. VersStep(d, l, F)
    BY <2>c, <2>3, <2>5, <2>6, <2>7, <2>8 DEF VersStep
  <2>10. Done("remove_verneed", d)
    BY <2>c, <2>3, <2>8 DEF Done
  <2>11. EditStep("remove_verneed", l, d)
    BY <2>a, <2>c, <2>9, <2>10, VersStepKeeps
  <2> QED BY <2>b, <2>11, LoadThenEdit DEF Kinds, d
<1> QED BY <1>4, <1>5

\* weak_verneed keeps the invariant of a round.
LEMMA WeakVerneedStep ==
  ASSUME file \in FileRecord, NEW e \in State, RoundInv(e), StageInv(e), pc = "acts",
         Asked("weak_verneed")
  PROVE  EditStep("weak_verneed", e, WeakVerneed(e))
<1> DEFINE l == LoadVers(e)
           d == WeakVerneed(e)
           s == [l.vers EXCEPT !.weak = TRUE]
<1>1. LoadStep(l, e) /\ l.dhdrs.loaded /\ l.vers.loaded
  BY LoadVersShape DEF RoundInv, Contents
<1>2. l \in State /\ RoundInv(l) /\ StageInv(l)
  BY <1>1, LoadRound, LoadStage DEF LoadStep
<1>3. d = IF l.vers.need /\ ~ l.vers.weak
          THEN Modify([l EXCEPT !.vers.weak = TRUE], {"VERNEED"}) ELSE l
  BY DEF WeakVerneed
<1> HIDE DEF l, d
<1>4. CASE ~ (l.vers.need /\ ~ l.vers.weak)
  <2>1. d = l
    BY <1>3, <1>4
  <2>2. Done("weak_verneed", l) /\ "weak_verneed" \in Kinds
    BY <1>1, <1>4 DEF Done, Kinds
  <2>3. EditStep("weak_verneed", l, l)
    BY <1>1, <1>2, <2>2, EditNothing
  <2> QED BY <1>1, <2>1, <2>2, <2>3, LoadThenEdit DEF d
<1>5. CASE l.vers.need /\ ~ l.vers.weak
  <2> DEFINE x == [l EXCEPT !.vers.weak = TRUE]
  <2>1. d = Modify(x, {"VERNEED"})
    BY <1>3, <1>5
  <2>2. x = [l EXCEPT !.vers = s] /\ l.vers \in Vers
    BY <1>2 DEF State, Vers
  <2>3. s \in Vers /\ s.weak /\ s.loaded = l.vers.loaded /\ s.need = l.vers.need
        /\ s.moved = l.vers.moved
    BY <2>2 DEF Vers
  <2> HIDE DEF s, x
  <2>4. x \in State /\ Keeps(x, l, {"vers"}) /\ x.vers = s
    BY <1>2, <2>2, <2>3 DEF State, Keeps, Fields
  <2>6. d \in State /\ Keeps(d, x, {"modified"}) /\ d.modified = x.modified \cup {"VERNEED"}
    BY <2>1, <2>4, ModifyShape DEF Flags
  <2>7. Keeps(d, l, {"modified", "vers"})
    BY <2>4, <2>6 DEF Keeps
  <2>8. d.vers = s /\ d.modified = l.modified \cup {"VERNEED"}
    BY <2>4, <2>6 DEF Keeps, Fields
  <2>9. VersStep(d, l, {"VERNEED"})
    BY <1>1, <1>5, <2>3, <2>6, <2>7, <2>8 DEF VersStep
  <2>10. Done("weak_verneed", d)
    BY <1>1, <2>3, <2>8 DEF Done
  <2>11. EditStep("weak_verneed", l, d)
    BY <1>1, <1>2, <2>9, <2>10, VersStepKeeps
  <2> QED BY <1>1, <2>11, LoadThenEdit DEF Kinds, d
<1> QED BY <1>4, <1>5

\* An entry of the dynamic section which is changed, after an allocation perhaps.
TableStep(d, e, T) ==
  /\ d \in State /\ Keeps(d, e, {"modified", "dhdrs", "used", "retry"})
  /\ d.modified \in {e.modified, e.modified \cup {"DHDRS"}}
  /\ e.retry => d.retry
  /\ \A u \in Tags \ T : d.dhdrs.tags[u] = e.dhdrs.tags[u]
  /\ d.dhdrs.loaded = e.dhdrs.loaded /\ d.dhdrs.moved = e.dhdrs.moved
  /\ d.dhdrs.needed = e.dhdrs.needed /\ (e.dhdrs.heap => d.dhdrs.heap)

\* A changed entry is such a step, which allocates nothing.
LEMMA TagIsTable ==
  ASSUME NEW e, NEW d, NEW T, TagStep(d, e, T)
  PROVE  TableStep(d, e, T) /\ d.retry = e.retry /\ d.used = e.used
<1>1. d.retry = e.retry /\ d.used = e.used
  BY DEF TagStep, Keeps, Fields
<1>2. Keeps(d, e, {"modified", "dhdrs", "used", "retry"})
  BY DEF TagStep, Keeps
<1> QED BY <1>1, <1>2 DEF TableStep, TagStep

\* It has to be of a kind which the table may have, and there has to be a reason.
LEMMA TableRound ==
  ASSUME file \in FileRecord, NEW e \in State, NEW d, NEW T, RoundInv(e),
         TableStep(d, e, T), e.dhdrs.loaded, Entries(d),
         e.modified # {} \/ (d.retry = e.retry /\ d.used = e.used),
         \/ {"DYNSTR", "VERNEED", "DSYMS", "DHDRS"} \cap e.modified # {}
         \/ Asked("add_late_needed") \/ Asked("remove_debug")
  PROVE  RoundInv(d)
<1>1. /\ d.image = e.image
      /\ d.phdrs = e.phdrs /\ d.relocs = e.relocs /\ d.vers = e.vers
      /\ d.dsyms = e.dsyms /\ d.building = e.building /\ d.added = e.added
  BY DEF TableStep, Keeps, Fields
<1>2. Loading(d)
  BY <1>1 DEF RoundInv, Loading, TableStep
<1>3. Reasons(d)
  BY <1>1 DEF RoundInv, Reasons, TableStep
<1>4. Flagged(d)
  BY <1>1 DEF RoundInv, Flagged, TableStep
<1>5. Compacted(d) = Compacted(e)
  BY <1>1 DEF Compacted
<1>6. Contents(d)
  BY <1>1, <1>5 DEF RoundInv, Contents, TableStep
<1> QED BY <1>2, <1>3, <1>4, <1>6 DEF RoundInv

\* remove_debug keeps the invariant of a round.
LEMMA RemoveDebugStep ==
  ASSUME file \in FileRecord, NEW e \in State, RoundInv(e), StageInv(e), pc = "acts",
         Asked("remove_debug")
  PROVE  EditStep("remove_debug", e, RemoveDebug(e))
<1> DEFINE l == LoadDhdrs(e)
           d == RemoveDebug(e)
<1>1. LoadStep(l, e) /\ l.dhdrs.loaded
  BY LoadDhdrsShape DEF RoundInv, Contents
<1>2. l \in State /\ RoundInv(l) /\ StageInv(l)
  BY <1>1, LoadRound, LoadStage DEF LoadStep
<1>3. d = RemoveTag(l, "DEBUG")
  BY DEF RemoveDebug
<1> HIDE DEF l, d
<1>4. TagStep(d, l, {"DEBUG"}) /\ d.dhdrs.tags["DEBUG"] = "none"
  BY <1>2, <1>3, RemoveTagShape DEF Tags
<1>5. TableStep(d, l, {"DEBUG"}) /\ d.retry = l.retry /\ d.used = l.used
  BY <1>4, TagIsTable
<1>6. /\ d.image = l.image /\ d.vers = l.vers
      /\ d.phdrs = l.phdrs /\ d.dsyms = l.dsyms /\ d.building = l.building
  BY <1>4 DEF TagStep, Keeps, Fields
<1>7. Entries(d)
  BY <1>2, <1>4, <1>5, <1>6 DEF RoundInv, Entries, TagStep, Tags
<1>8. RoundInv(d)
  BY <1>1, <1>2, <1>5, <1>7, TableRound
<1>9. StageInv(d)
  BY <1>2, <1>4, <1>5, <1>6 DEF StageInv, NoTable, TagStep, Tags
<1>10. Done("remove_debug", d) /\ \A k \in Kinds : Done(k, l) => Done(k, d)
  BY <1>1, <1>4, <1>5, <1>6 DEF Done, TagStep, Kinds
<1>11. EditStep("remove_debug", l, d)
  BY <1>1, <1>4, <1>5, <1>6, <1>8, <1>9, <1>10 DEF EditStep, TagStep
<1> QED BY <1>1, <1>11, LoadThenEdit DEF Kinds, d

\* set_interpreter keeps the invariant of a round, whether its allocation fails or
\* not.
LEMMA SetInterpreterStep ==
  ASSUME file \in FileRecord, NEW e \in State, RoundInv(e), StageInv(e), pc = "acts"
  PROVE  EditStep("set_interpreter", e, SetInterpreter(e))
<1> DEFINE d == SetInterpreter(e)
           grown == e.phdrs.interp = "none"
           heap == e.phdrs.heap \/ grown
           count == IF grown THEN e.phdrs.count + 1 ELSE e.phdrs.count
           p == [e.phdrs EXCEPT !.heap = heap, !.count = count]
           m == Modify(e, {"MISC", "PHDRS"})
           a == Alloc(m, "f", 1)
           written == Address(e, "f", 1) = "new" /\ ~ a.retry
           interp == IF written THEN "new" ELSE IF grown THEN "zero" ELSE e.phdrs.interp
           q == [p EXCEPT !.interp = interp]
<1>0. "set_interpreter" \in Kinds
  BY DEF Kinds
<1>1. CASE e.phdrs.interp = "new"
  <2>1. d = e
    BY <1>1 DEF SetInterpreter
  <2>2. Done("set_interpreter", e)
    BY <1>1 DEF Done
  <2> HIDE DEF d
  <2> QED BY <1>0, <2>1, <2>2, EditNothing DEF d
<1>2. CASE e.phdrs.interp # "new"
  <2>1. e.phdrs \in Phdrs
    BY DEF State
  <2>2. heap \in BOOLEAN /\ (e.phdrs.heap => heap)
    OBVIOUS
  <2>3. count \in Int
    BY <2>1 DEF Phdrs
  <2>4. interp \in Place
    BY <2>1 DEF Phdrs, Place
  <2>5. d = [a EXCEPT !.phdrs = [p EXCEPT !.interp = IF written THEN "new"
                                      ELSE IF grown THEN "zero" ELSE @]]
    BY <1>2 DEF SetInterpreter
  <2>6. p.interp = e.phdrs.interp
    BY <2>1 DEF Phdrs
  <2>7. d = [a EXCEPT !.phdrs = q]
    BY <2>1, <2>5, <2>6 DEF Phdrs
  <2>8. m \in State /\ Keeps(m, e, {"modified"})
        /\ m.modified = e.modified \cup {"MISC", "PHDRS"}
    BY ModifyShape DEF Flags
  <2>9. /\ a \in State /\ Keeps(a, m, {"used", "retry"})
        /\ a.retry = (m.retry \/ Address(m, "f", 1) = "zero")
        /\ Address(m, "f", 1) \in {"new", "zero"}
    <3> HIDE DEF m
    <3> QED BY <2>8, AllocShape, SMTT(30) DEF Categories
  <2>10. Address(m, "f", 1) = Address(e, "f", 1) /\ m.retry = e.retry
    BY <2>8 DEF Address, Keeps, Fields
  <2> HIDE DEF d, a, m
  <2>11. /\ interp = "new" \/ a.retry
         /\ interp = "zero" => a.retry
    BY <1>2, <2>9, <2>10 DEF RoundInv, Entries
  <2>12. interp \in {"new", "zero", e.phdrs.interp}
    OBVIOUS
  <2> HIDE DEF interp, heap, count, grown, written
  <2>13. /\ q \in Phdrs /\ q.heap = heap /\ q.at = e.phdrs.at /\ q.interp = interp
         /\ q.dynamic = e.phdrs.dynamic
    BY <2>1, <2>2, <2>3, <2>4 DEF Phdrs
  <2> HIDE DEF p, q
  <2>14. d \in State /\ Keeps(d, a, {"phdrs"}) /\ d.phdrs = q
    BY <2>7, <2>9, <2>13 DEF State, Keeps, Fields
  <2>15. /\ Keeps(d, e, {"modified", "phdrs", "used", "retry"})
         /\ d.modified = e.modified \cup {"MISC", "PHDRS"}
         /\ d.retry = a.retry /\ (e.retry => d.retry)
    <3>1. Keeps(d, e, {"modified", "phdrs", "used", "retry"})
      BY <2>8, <2>9, <2>14 DEF Keeps
    <3>2. d.modified = a.modified /\ a.modified = m.modified
      BY <2>9, <2>14 DEF Keeps, Fields
    <3>3. d.retry = a.retry
      BY <2>14 DEF Keeps, Fields
    <3> QED BY <2>8, <2>9, <2>10, <3>1, <3>2, <3>3
  <2>16. /\ d.image = e.image /\ d.dhdrs = e.dhdrs /\ d.relocs = e.relocs
         /\ d.vers = e.vers /\ d.dsyms = e.dsyms /\ d.building = e.building
         /\ d.added = e.added
    BY <2>15 DEF Keeps, Fields
  <2>17. Compacted(d) = Compacted(e)
    BY <2>16 DEF Compacted
  <2>18. Loading(d) /\ Reasons(d) /\ Flagged(d) /\ Contents(d)
    <3>1. Loading(d)
      BY <2>16 DEF RoundInv, Loading
    <3>2. Reasons(d)
      BY <2>15 DEF RoundInv, Reasons
    <3>3. Flagged(d)
      BY <2>15, <2>16 DEF RoundInv, Flagged
    <3>4. Contents(d)
      BY <2>16, <2>17 DEF RoundInv, Contents
    <3> QED BY <3>1, <3>2, <3>3, <3>4
  <2>19. Entries(d)
    BY <2>11, <2>12, <2>13, <2>14, <2>15, <2>16 DEF RoundInv, Entries
  <2>20. StageInv(d)
    BY <2>13, <2>14, <2>15, <2>16 DEF StageInv, NoTable
  <2>21. Done("set_interpreter", d)
    BY <2>11, <2>13, <2>14, <2>15 DEF Done
  <2>22. \A k \in Kinds : Done(k, e) => Done(k, d)
    BY <2>15, <2>16, <2>21 DEF Done, Kinds
  <2>23. EditStep("set_interpreter", e, d)
    BY <2>14, <2>15, <2>16, <2>18, <2>19, <2>20, <2>21, <2>22 DEF EditStep, RoundInv
  <2> QED BY <2>23 DEF d
<1> QED BY <1>1, <1>2

\* erw_dynstr_start_building_new, when everything which refers to strings is loaded.
BuildStep(d, e) ==
  LET moved == file.sparse /\ file.dynamic IN
  /\ d \in State /\ Keeps(d, e, {"modified", "building", "dhdrs", "dsyms", "vers"})
  /\ d.modified = e.modified \cup {"DYNSTR"}
                  \cup (IF moved THEN {"DHDRS", "DSYMS"} ELSE {})
                  \cup (IF moved /\ e.vers.need THEN {"VERNEED"} ELSE {})
  /\ d.building
  /\ d.dhdrs.loaded = e.dhdrs.loaded /\ d.dhdrs.heap = e.dhdrs.heap
  /\ d.dhdrs.needed = e.dhdrs.needed /\ d.dhdrs.tags = e.dhdrs.tags
  /\ d.dhdrs.moved = moved
  /\ d.dsyms.loaded = e.dsyms.loaded /\ d.dsyms.any = e.dsyms.any
  /\ d.dsyms.reordered = e.dsyms.reordered /\ d.dsyms.heap = e.dsyms.heap
  /\ d.dsyms.versions = e.dsyms.versions
  /\ d.dsyms.wantHash = e.dsyms.wantHash /\ d.dsyms.wantGnuHash = e.dsyms.wantGnuHash
  /\ d.dsyms.moved = moved
  /\ d.vers.loaded = e.vers.loaded /\ d.vers.need = e.vers.need /\ d.vers.weak = e.vers.weak
  /\ d.vers.moved = (moved /\ e.vers.need)

\* Everything which refers to strings is loaded.
AllLoaded(e) == e.dhdrs.loaded /\ e.dsyms.loaded /\ e.vers.loaded

\* A new string table is started by loading all editors, then marking them moved.
LEMMA BuildShape ==
  ASSUME file \in FileRecord, NEW e \in State, RoundInv(e)
  PROVE  \E l : LoadStep(l, e) /\ AllLoaded(l) /\ BuildStep(StartBuildingNew(e), l)
<1> DEFINE l1 == LoadDhdrs(e)
           l2 == LoadDsyms(l1)
           l == LoadVers(l2)
           x == Modify(l, {"DYNSTR"})
           moved == file.sparse /\ file.dynamic
           more == {"DHDRS", "DSYMS"} \cup (IF x.vers.need THEN {"VERNEED"} ELSE {})
           m == IF moved THEN Modify(x, more) ELSE x
           versMoved == moved /\ x.vers.need
           h == [m.dhdrs EXCEPT !.moved = moved]
           s == [m.dsyms EXCEPT !.moved = moved]
           v == [m.vers EXCEPT !.moved = versMoved]
           d == StartBuildingNew(e)
<1>1. LoadStep(l1, e) /\ l1.dhdrs.loaded
  BY LoadDhdrsShape DEF RoundInv, Contents
<1>2. RoundInv(l1) /\ l1 \in State
  BY <1>1, LoadRound DEF LoadStep
<1> HIDE DEF l1
<1>3. LoadStep(l2, l1) /\ l2.dsyms.loaded /\ l2.dhdrs.loaded
  BY <1>2, LoadDsymsShape DEF RoundInv, Contents
<1>4. RoundInv(l2) /\ l2 \in State
  BY <1>2, <1>3, LoadRound DEF LoadStep
<1> HIDE DEF l2
<1>5. LoadStep(l, l2) /\ l.vers.loaded
  BY <1>4, LoadVersShape DEF RoundInv, Contents
<1>6. LoadStep(l, e)
  <2> HIDE DEF l
  <2>1. LoadStep(l, l1)
    BY <1>3, <1>5, LoadStepTrans
  <2> QED BY <1>1, <2>1, LoadStepTrans
<1>7. AllLoaded(l) /\ l \in State
  BY <1>3, <1>5 DEF AllLoaded, LoadStep
<1>8. d = [m EXCEPT !.building = TRUE, !.dhdrs.moved = moved, !.dsyms.moved = moved,
                    !.vers.moved = versMoved]
  BY DEF StartBuildingNew, l1, l2
<1> HIDE DEF l, d
<1>9. x \in State /\ Keeps(x, l, {"modified"}) /\ x.modified = l.modified \cup {"DYNSTR"}
  BY <1>7, ModifyShape DEF Flags
<1>10. x.vers = l.vers
  BY <1>9 DEF Keeps, Fields
<1>11. more \in SUBSET Flags
  BY DEF Flags
<1> HIDE DEF x
<1>12. /\ m \in State /\ Keeps(m, l, {"modified"})
       /\ m.modified = l.modified \cup {"DYNSTR"}
                       \cup (IF moved THEN {"DHDRS", "DSYMS"} ELSE {})
                       \cup (IF moved /\ l.vers.need THEN {"VERNEED"} ELSE {})
  <2>1. CASE moved
    <3>1. m = Modify(x, more)
      BY <2>1
    <3> HIDE DEF m
    <3>2. m \in State /\ Keeps(m, x, {"modified"}) /\ m.modified = x.modified \cup more
      BY <1>9, <1>11, <3>1, ModifyShape
    <3>3. Keeps(m, l, {"modified"})
      BY <1>9, <3>2 DEF Keeps
    <3> QED BY <1>9, <1>10, <2>1, <3>2, <3>3
  <2>2. CASE ~ moved
    BY <1>9, <2>2
  <2> QED BY <2>1, <2>2
<1>13. /\ m.dhdrs = l.dhdrs /\ m.dsyms = l.dsyms /\ m.vers = l.vers
  BY <1>12 DEF Keeps, Fields
<1>14. moved \in BOOLEAN /\ versMoved \in BOOLEAN /\ versMoved = (moved /\ l.vers.need)
  BY <1>10
<1> HIDE DEF m, moved, versMoved
<1>15. d = [m EXCEPT !.building = TRUE, !.dhdrs = h, !.dsyms = s, !.vers = v]
  BY <1>8, <1>12 DEF State, Dhdrs, Dsyms, Vers
<1>16. l.dhdrs \in Dhdrs /\ l.dsyms \in Dsyms /\ l.vers \in Vers
  BY <1>7 DEF State
<1>17. /\ h \in Dhdrs /\ h.moved = moved /\ h.loaded = l.dhdrs.loaded
       /\ h.heap = l.dhdrs.heap /\ h.needed = l.dhdrs.needed /\ h.tags = l.dhdrs.tags
  BY <1>13, <1>14, <1>16 DEF Dhdrs
<1>18. /\ s \in Dsyms /\ s.moved = moved /\ s.loaded = l.dsyms.loaded
       /\ s.any = l.dsyms.any /\ s.reordered = l.dsyms.reordered /\ s.heap = l.dsyms.heap
       /\ s.versions = l.dsyms.versions /\ s.wantHash = l.dsyms.wantHash
       /\ s.wantGnuHash = l.dsyms.wantGnuHash
  BY <1>13, <1>14, <1>16 DEF Dsyms
<1>19. /\ v \in Vers /\ v.moved = versMoved /\ v.loaded = l.vers.loaded
       /\ v.need = l.vers.need /\ v.weak = l.vers.weak
  BY <1>13, <1>14, <1>16 DEF Vers
<1> HIDE DEF h, s, v
<1>20. /\ d \in State /\ Keeps(d, m, {"building", "dhdrs", "dsyms", "vers"})
       /\ d.building /\ d.dhdrs = h /\ d.dsyms = s /\ d.vers = v
  BY <1>12, <1>15, <1>17, <1>18, <1>19 DEF State, Keeps, Fields
<1>21. Keeps(d, l, {"modified", "building", "dhdrs", "dsyms", "vers"})
  BY <1>12, <1>20 DEF Keeps
<1>22. d.modified = m.modified
  BY <1>20 DEF Keeps, Fields
<1>23. BuildStep(d, l)
  BY <1>12, <1>14, <1>17, <1>18, <1>19, <1>20, <1>21, <1>22 DEF BuildStep, moved
<1> QED BY <1>6, <1>7, <1>23 DEF d

\* Starting a new string table keeps what holds all through a round.
LEMMA BuildRound ==
  ASSUME file \in FileRecord, NEW e \in State, NEW d, RoundInv(e), AllLoaded(e),
         ~ e.building, BuildStep(d, e)
  PROVE  RoundInv(d)
<1>1. /\ d.retry = e.retry /\ d.used = e.used /\ d.image = e.image
      /\ d.phdrs = e.phdrs /\ d.relocs = e.relocs /\ d.added = e.added
  BY DEF BuildStep, Keeps, Fields
<1>2. Loading(d)
  BY <1>1 DEF RoundInv, Loading, BuildStep, AllLoaded
<1>3. Reasons(d)
  BY <1>1 DEF RoundInv, Reasons, BuildStep
<1>4. Compacted(d) = (file.sparse /\ file.dynamic)
  BY DEF Compacted, BuildStep
<1>5. Flagged(d)
  BY <1>1 DEF RoundInv, Flagged, BuildStep
<1>6. Contents(d)
  BY <1>1, <1>4 DEF RoundInv, Contents, BuildStep, AllLoaded
<1>7. Entries(d)
  BY <1>1 DEF RoundInv, Entries, BuildStep
<1> QED BY <1>2, <1>3, <1>5, <1>6, <1>7 DEF RoundInv

\* It undoes nothing which has been done, and has its editors loaded in time.
LEMMA BuildKeeps ==
  ASSUME file \in FileRecord, NEW e \in State, NEW d, RoundInv(e), StageInv(e),
         AllLoaded(e), ~ e.building, BuildStep(d, e), pc \in {"acts", "vers"}
  PROVE  EditStep("print", e, d)
<1>1. /\ d.retry = e.retry /\ d.image = e.image /\ d.phdrs = e.phdrs
  BY DEF BuildStep, Keeps, Fields
<1>2. RoundInv(d)
  BY BuildRound
<1>3. NoTable(e) => NoTable(d)
  BY <1>1 DEF NoTable, BuildStep
<1>4. d \in State /\ e.modified \subseteq d.modified
      /\ (e.modified # {} => d.modified # {})
  BY DEF BuildStep
<1>5. StageInv(d)
  BY <1>1, <1>3, <1>4 DEF StageInv, BuildStep
<1>6. Done("print", d) /\ \A k \in Kinds : Done(k, e) => Done(k, d)
  BY <1>1 DEF Done, BuildStep, Kinds
<1> QED BY <1>1, <1>2, <1>4, <1>5, <1>6 DEF EditStep, BuildStep, AllLoaded

\* The strings of a file whose string table is not being replaced yet.
LEMMA StartBuildingNewStep ==
  ASSUME file \in FileRecord, NEW e \in State, RoundInv(e), StageInv(e),
         ~ e.building, pc \in {"acts", "vers"}
  PROVE  /\ EditStep("print", e, StartBuildingNew(e))
         /\ AllLoaded(StartBuildingNew(e)) /\ StartBuildingNew(e).building
         /\ StartBuildingNew(e).added = e.added
         /\ StartBuildingNew(e).dhdrs.needed = e.dhdrs.needed
         /\ StartBuildingNew(e).modified \subseteq
              e.modified \cup {"DYNSTR", "DHDRS", "DSYMS", "VERNEED"}
<1> DEFINE d == StartBuildingNew(e)
<1>1. PICK l : LoadStep(l, e) /\ AllLoaded(l) /\ BuildStep(d, l)
  BY BuildShape
<1> HIDE DEF d
<1>2. /\ l \in State /\ RoundInv(l) /\ StageInv(l) /\ l.building = e.building
      /\ l.modified = e.modified /\ l.added = e.added /\ l.dhdrs.needed = e.dhdrs.needed
  <2>1. l.building = e.building /\ l.modified = e.modified /\ l.added = e.added
    BY <1>1 DEF LoadStep, Keeps, Fields
  <2> QED BY <1>1, <2>1, LoadRound, LoadStage DEF LoadStep
<1>3. EditStep("print", l, d)
  BY <1>1, <1>2, BuildKeeps
<1>4. EditStep("print", e, d)
  BY <1>1, <1>3, LoadThenEdit DEF Kinds
<1>5. AllLoaded(d) /\ d.building /\ d.dhdrs.needed = e.dhdrs.needed
      /\ d.modified \subseteq e.modified \cup {"DYNSTR", "DHDRS", "DSYMS", "VERNEED"}
  BY <1>1, <1>2 DEF BuildStep, AllLoaded
<1>6. d.added = e.added
  BY <1>1, <1>2 DEF BuildStep, Keeps, Fields
<1> QED BY <1>4, <1>5, <1>6 DEF d

\* What is done by either of two steps is done by both.
LEMMA EditTrans ==
  ASSUME NEW kind \in Kinds, NEW e, NEW b, NEW d,
         EditStep("print", e, b), EditStep(kind, b, d)
  PROVE  EditStep(kind, e, d)
<1> HIDE DEF Done
<1> QED BY DEF EditStep

\* add_late_needed keeps the invariant of a round, with or without a new string
\* table.
LEMMA AddLateNeededStep ==
  ASSUME file \in FileRecord, NEW e \in State, RoundInv(e), StageInv(e), pc = "acts",
         Asked("add_late_needed")
  PROVE  EditStep("add_late_needed", e, AddLateNeeded(e))
<1> DEFINE l == LoadDhdrs(e)
           b == IF file.known \/ l.added \/ l.building THEN l ELSE StartBuildingNew(l)
           added == b.added \/ ~ file.known
           x == [b EXCEPT !.added = @ \/ ~ file.known, !.dhdrs.needed = TRUE,
                          !.dhdrs.heap = TRUE, !.dhdrs.live = @ + 1]
           h == [b.dhdrs EXCEPT !.needed = TRUE, !.heap = TRUE, !.live = @ + 1]
           d == AddLateNeeded(e)
<1>1. LoadStep(l, e) /\ l.dhdrs.loaded
  BY LoadDhdrsShape DEF RoundInv, Contents
<1>2. l \in State /\ RoundInv(l) /\ StageInv(l)
  BY <1>1, LoadRound, LoadStage DEF LoadStep
<1>3. d = IF l.dhdrs.needed THEN l ELSE Modify(x, {"DHDRS"})
  BY DEF AddLateNeeded
<1> HIDE DEF l, d
<1>4. CASE l.dhdrs.needed
  <2>1. d = l
    BY <1>3, <1>4
  <2>2. Done("add_late_needed", l) /\ "add_late_needed" \in Kinds
    BY <1>4 DEF Done, Kinds
  <2>3. EditStep("add_late_needed", l, l)
    BY <1>1, <1>2, <2>2, EditNothing
  <2> QED BY <1>1, <2>1, <2>2, <2>3, LoadThenEdit DEF d
<1>5. CASE ~ l.dhdrs.needed
  <2>1. /\ EditStep("print", l, b) /\ b.dhdrs.loaded
        /\ ~ file.known => b.building
    <3>1. CASE file.known \/ l.added \/ l.building
      <4>1. b = l
        BY <3>1
      <4>2. ~ file.known => l.building
        BY <1>2, <3>1 DEF RoundInv, Contents
      <4>3. Done("print", l) /\ "print" \in Kinds
        BY DEF Done, Kinds
      <4>4. EditStep("print", l, l)
        BY <1>2, <4>3, EditNothing
      <4> QED BY <1>1, <4>1, <4>2, <4>4
    <3>2. CASE ~ (file.known \/ l.added \/ l.building)
      <4>1. b = StartBuildingNew(l)
        BY <3>2
      <4> HIDE DEF b
      <4> QED BY <1>2, <3>2, <4>1, StartBuildingNewStep DEF AllLoaded
    <3> QED BY <3>1, <3>2
  <2>2. b \in State /\ RoundInv(b) /\ StageInv(b)
    BY <2>1 DEF EditStep
  <2> HIDE DEF b
  <2>3. b.dhdrs \in Dhdrs /\ b.added \in BOOLEAN /\ added \in BOOLEAN
    BY <2>2 DEF State
  <2>4. x = [b EXCEPT !.added = added, !.dhdrs = h]
    <3>1. x = [b EXCEPT !.added = added, !.dhdrs.needed = TRUE, !.dhdrs.heap = TRUE,
                        !.dhdrs.live = @ + 1]
      OBVIOUS
    <3> HIDE DEF added, x
    <3> QED BY <2>2, <2>3, <3>1 DEF State, Dhdrs
  <2>5. /\ h \in Dhdrs /\ h.needed /\ h.heap /\ h.loaded = b.dhdrs.loaded
        /\ h.moved = b.dhdrs.moved /\ h.tags = b.dhdrs.tags
    <3> DEFINE o == b.dhdrs
    <3>1. o \in Dhdrs /\ o.live + 1 \in Int
      BY <2>3 DEF Dhdrs
    <3> HIDE DEF o
    <3> QED BY <3>1 DEF Dhdrs, o
  <2>6. added = (b.added \/ ~ file.known)
    OBVIOUS
  <2>7. d = Modify(x, {"DHDRS"})
    BY <1>3, <1>5
  <2> HIDE DEF x, h, added
  <2>8. x \in State /\ Keeps(x, b, {"added", "dhdrs"}) /\ x.dhdrs = h /\ x.added = added
    BY <2>2, <2>3, <2>4, <2>5 DEF State, Keeps, Fields
  <2>9. d \in State /\ Keeps(d, x, {"modified"}) /\ d.modified = x.modified \cup {"DHDRS"}
    BY <2>7, <2>8, ModifyShape DEF Flags
  <2>10. /\ d.retry = b.retry /\ d.used = b.used /\ d.image = b.image
         /\ d.phdrs = b.phdrs /\ d.relocs = b.relocs /\ d.dsyms = b.dsyms
         /\ d.vers = b.vers /\ d.building = b.building
         /\ d.added = added /\ d.dhdrs = h /\ d.modified = b.modified \cup {"DHDRS"}
    BY <2>8, <2>9 DEF Keeps, Fields
  <2>11. Loading(d)
    BY <2>1, <2>2, <2>5, <2>10, ZenonT(40) DEF RoundInv, Loading
  <2>12. Reasons(d)
    BY <2>2, <2>10 DEF RoundInv, Reasons
  <2>13. Flagged(d)
    BY <2>2, <2>10 DEF RoundInv, Flagged
  <2>14. Compacted(d) = Compacted(b)
    BY <2>10 DEF Compacted
  <2>15. Contents(d)
    BY <2>1, <2>2, <2>5, <2>6, <2>10, <2>14 DEF RoundInv, Contents
  <2>16. Entries(d)
    BY <2>2, <2>5, <2>10 DEF RoundInv, Entries
  <2>17. StageInv(d)
    BY <2>2, <2>5, <2>10 DEF StageInv, NoTable
  <2>18. Done("add_late_needed", d) /\ \A k \in Kinds : Done(k, b) => Done(k, d)
    BY <2>5, <2>10 DEF Done, Kinds
  <2>19. EditStep("add_late_needed", b, d)
    BY <2>1, <2>5, <2>9, <2>10, <2>11, <2>12, <2>13, <2>15, <2>16, <2>17, <2>18
       DEF EditStep, RoundInv
  <2>20. "add_late_needed" \in Kinds
    BY DEF Kinds
  <2>21. EditStep("add_late_needed", l, d)
    BY <2>1, <2>19, <2>20, EditTrans
  <2> QED BY <1>1, <2>20, <2>21, LoadThenEdit DEF d
<1> QED BY <1>4, <1>5

\* Every action does what it is asked for, and keeps what the others have done.
LEMMA EditKeeps ==
  ASSUME file \in FileRecord, NEW e \in State, RoundInv(e), StageInv(e), pc = "acts",
         NEW kind \in Kinds \ {"print"}, Asked(kind)
  PROVE  EditStep(kind, e, Edit(kind, e))
<1>1. CASE kind = "set_interpreter"
  BY <1>1, SetInterpreterStep DEF Edit
<1>2. CASE kind = "add_late_needed"
  BY <1>2, AddLateNeededStep DEF Edit
<1>3. CASE kind = "add_gnu_hash"
  BY <1>3, AddGnuHashStep DEF Edit
<1>4. CASE kind = "add_hash"
  BY <1>4, AddHashStep DEF Edit
<1>5. CASE kind = "remove_verneed"
  BY <1>5, RemoveVerneedStep DEF Edit
<1>6. CASE kind = "weak_verneed"
  BY <1>6, WeakVerneedStep DEF Edit
<1>7. CASE kind = "remove_debug"
  BY <1>7, RemoveDebugStep DEF Edit
<1> QED BY <1>1, <1>2, <1>3, <1>4, <1>5, <1>6, <1>7 DEF Kinds

-----------------------------------------------------------------------------
(* A step within a file.                                                    *)

\* What holds of the next value of erw holds in the next state.
LEMMA RoundPrimed ==
  ASSUME RoundInv(erw'), UNCHANGED <<cmd, file>>
  PROVE  RoundInv(erw)'
<1>1. Orig' = Orig /\ \A kind : Asked(kind)' = Asked(kind)
  BY DEF Orig, Asked
<1>2. Loading(erw)'
  BY <1>1 DEF RoundInv, Loading
<1>3. Reasons(erw)'
  BY <1>1 DEF RoundInv, Reasons
<1>4. Flagged(erw)'
  BY <1>1 DEF RoundInv, Flagged
<1>5. Contents(erw)'
  BY <1>1 DEF RoundInv, Contents, Compacted
<1>6. Entries(erw)'
  BY <1>1 DEF RoundInv, Entries
<1> QED BY <1>2, <1>3, <1>4, <1>5, <1>6 DEF RoundInv

\* The same of the stages, while the actions are run.
LEMMA StagePrimed ==
  ASSUME StageInv(erw'), UNCHANGED <<cmd, file>>, pc = "acts", pc' = "acts"
  PROVE  StageInv(erw)'
<1>1. Orig' = Orig
  BY DEF Orig
<1> QED BY <1>1 DEF StageInv, NoTable

\* What is known of the actions which are still to come.
LEMMA PendingNext ==
  ASSUME act \in Nat, Len(cmd) \in Nat, pc = "acts", pc' = "acts", act' = act + 1,
         cmd' = cmd, NEW K, Pending(K)
  PROVE  cmd[act] \in K \/ Pending(K)'
<1>1. PICK i \in act..Len(cmd) : cmd[i] \in K
  BY DEF Pending
<1>2. i = act \/ i \in (act + 1)..Len(cmd)
  OBVIOUS
<1> QED BY <1>1, <1>2 DEF Pending

\* The types of what the loop over the actions reads.
LEMMA CmdType ==
  ASSUME TypeInv
  PROVE  /\ cmd \in Seq(Kinds) /\ Len(cmd) \in Nat /\ DOMAIN cmd = 1..Len(cmd)
         /\ act \in Nat /\ act >= 1 /\ act <= Len(cmd) + 1
         /\ file \in FileRecord /\ erw \in State
<1>1. cmd \in Seq(Kinds) /\ file \in FileRecord
  BY FlushAssumption DEF TypeInv
<1>2. Len(cmd) \in Nat /\ DOMAIN cmd = 1..Len(cmd)
  BY <1>1
<1> QED BY <1>1, <1>2 DEF TypeInv

\* The invariant without what it says of the actions which print.
FileInv == TypeInv /\ ActsInv(erw)

\* An action which edits keeps the invariant, and does not undo a failure.
LEMMA EditActionKeeps ==
  ASSUME FileInv, EditAction
  PROVE  FileInv' /\ (erw.retry => erw'.retry)
<1> DEFINE kind == cmd[act]
<1>1. /\ pc = "acts" /\ pc' = "acts" /\ act <= Len(cmd) /\ kind # "print"
      /\ erw' = Edit(kind, erw) /\ act' = act + 1
      /\ UNCHANGED <<cmd, inert, printed, left, file>>
  BY DEF EditAction
<1>2. /\ cmd \in Seq(Kinds) /\ Len(cmd) \in Nat /\ act \in Nat /\ act >= 1
      /\ DOMAIN cmd = 1..Len(cmd) /\ file \in FileRecord /\ erw \in State
  BY CmdType DEF FileInv
<1>3. act \in DOMAIN cmd /\ kind \in Kinds
  BY <1>1, <1>2
<1>4. Asked(kind)
  BY <1>3 DEF Asked
<1> HIDE DEF kind
<1>5. EditStep(kind, erw, erw')
  BY <1>1, <1>2, <1>3, <1>4, EditKeeps DEF FileInv, ActsInv
<1>6. RoundInv(erw)'
  BY <1>1, <1>5, RoundPrimed DEF EditStep
<1>7. StageInv(erw)'
  BY <1>1, <1>5, StagePrimed DEF EditStep
<1>8. ActionsDone(erw)'
  <2> SUFFICES ASSUME NEW i \in 1..act PROVE Done(cmd[i], erw')
    <3>1. 1..(act' - 1) = 1..act
      BY <1>1, <1>2
    <3> QED BY <1>1, <3>1 DEF ActionsDone
  <2>1. CASE i = act
    BY <1>5, <2>1 DEF EditStep, kind
  <2>2. CASE i # act
    <3>1. i \in 1..(act - 1)
      BY <1>2, <2>2
    <3>2. Done(cmd[i], erw) /\ cmd[i] \in Kinds
      BY <3>1, DoneKinds DEF FileInv, ActsInv, ActionsDone
    <3> QED BY <1>5, <3>2 DEF EditStep
  <2> QED BY <2>1, <2>2
<1>9. LoadedInTime(erw)'
  <2>1. \A K : Pending(K) => kind \in K \/ Pending(K)'
    BY <1>1, <1>2, PendingNext DEF kind
  <2>2. LoadedInTime(erw)
    BY DEF FileInv, ActsInv
  <2>3. "VERNEED" \in erw'.modified =>
          erw'.vers.loaded \/ Pending({"remove_verneed", "weak_verneed"})'
    BY <1>5, <2>1, <2>2 DEF EditStep, LoadedInTime
  <2>4. "DSYMS" \in erw'.modified =>
          \/ erw'.dsyms.loaded \/ Pending({"add_gnu_hash", "add_hash"})'
          \/ "VERNEED" \in erw'.modified
    BY <1>5, <2>1, <2>2 DEF EditStep, LoadedInTime
  <2>5. "DHDRS" \in erw'.modified =>
          \/ erw'.dhdrs.loaded
          \/ Pending({"add_gnu_hash", "add_hash", "add_late_needed", "remove_debug"})'
          \/ "VERNEED" \in erw'.modified
    BY <1>5, <2>1, <2>2 DEF EditStep, LoadedInTime
  <2>6. "DYNSTR" \in erw'.modified => erw'.building
    BY <1>1, <1>5, <2>2 DEF EditStep, LoadedInTime
  <2> QED BY <1>1, <2>3, <2>4, <2>5, <2>6 DEF LoadedInTime
<1>10. TypeInv'
  <2>1. erw' \in State
    BY <1>5 DEF EditStep
  <2>2. act' \in 1..(Len(cmd') + 1)
    BY <1>1, <1>2
  <2> QED BY <1>1, <2>1, <2>2 DEF FileInv, TypeInv
<1>11. erw.retry => erw'.retry
  BY <1>5 DEF EditStep
<1> QED BY <1>6, <1>7, <1>8, <1>9, <1>10, <1>11 DEF FileInv, ActsInv

-----------------------------------------------------------------------------
(* The stages of flush.                                                     *)

\* With no action left, all that is flagged is loaded.
LoadedNow(e) ==
  /\ "VERNEED" \in e.modified => e.vers.loaded
  /\ "DSYMS" \in e.modified => e.dsyms.loaded
  /\ "DHDRS" \in e.modified => e.dhdrs.loaded
  /\ "DYNSTR" \in e.modified => e.building

\* Once the versions have been flushed, a flag means that its editor is loaded.
LEMMA InTimeNow ==
  ASSUME NEW e, pc \in Stages \ {"vers"}
  PROVE  LoadedInTime(e) <=> LoadedNow(e)
  BY DEF LoadedInTime, LoadedNow, Pending, Stages

\* What each stage is to show.
LEMMA StageKeeps ==
  ASSUME FileInv, pc \in Stages, pc' \in Stages \cup {"end"},
         UNCHANGED <<cmd, inert, printed, left, file, act>>,
         erw' \in State, RoundInv(erw'), LoadedInTime(erw)', StageInv(erw)',
         \A k \in Kinds : Done(k, erw) => Done(k, erw')
  PROVE  FileInv'
<1>1. RoundInv(erw)'
  BY RoundPrimed
<1>2. ActionsDone(erw)'
  <2> SUFFICES ASSUME NEW i \in 1..(act - 1) PROVE Done(cmd[i], erw')
    BY DEF ActionsDone
  <2>1. Done(cmd[i], erw) /\ cmd[i] \in Kinds
    BY DoneKinds DEF FileInv, ActsInv, ActionsDone
  <2> HIDE DEF Done
  <2> QED BY <2>1
<1>3. TypeInv'
  BY DEF FileInv, TypeInv
<1> QED BY <1>1, <1>2, <1>3 DEF FileInv, ActsInv

\* What is written to a table disturbs nothing of what holds all through a round.
LEMMA ImageRound ==
  ASSUME NEW e, NEW d, RoundInv(e), Keeps(d, e, {"image"})
  PROVE  RoundInv(d) /\ \A k \in Kinds : Done(k, e) => Done(k, d)
<1>1. /\ d.modified = e.modified /\ d.retry = e.retry /\ d.used = e.used
      /\ d.phdrs = e.phdrs /\ d.dhdrs = e.dhdrs /\ d.relocs = e.relocs
      /\ d.dsyms = e.dsyms /\ d.vers = e.vers
      /\ d.building = e.building /\ d.added = e.added
  BY DEF Keeps, Fields
<1>2. Loading(d)
  BY <1>1 DEF RoundInv, Loading
<1>3. Reasons(d)
  BY <1>1 DEF RoundInv, Reasons
<1>4. Flagged(d)
  BY <1>1 DEF RoundInv, Flagged
<1>5. Contents(d)
  BY <1>1 DEF RoundInv, Contents, Compacted
<1>6. Entries(d)
  BY <1>1 DEF RoundInv, Entries
<1>7. ASSUME NEW k \in Kinds, Done(k, e) PROVE Done(k, d)
  BY <1>1, <1>7 DEF Done, Kinds
<1> QED BY <1>2, <1>3, <1>4, <1>5, <1>6, <1>7 DEF RoundInv

\* An entry which no action asks for.
LEMMA TableDone ==
  ASSUME NEW e, NEW d, NEW T, TableStep(d, e, T), "DEBUG" \notin T
  PROVE  \A k \in Kinds : Done(k, e) => Done(k, d)
<1>1. d.vers = e.vers /\ d.dsyms = e.dsyms /\ d.phdrs = e.phdrs
  BY DEF TableStep, Keeps, Fields
<1>2. d.dhdrs.tags["DEBUG"] = e.dhdrs.tags["DEBUG"] /\ d.dhdrs.loaded = e.dhdrs.loaded
      /\ d.dhdrs.needed = e.dhdrs.needed /\ (e.retry => d.retry)
  BY DEF TableStep, Tags
<1> QED BY <1>1, <1>2 DEF Done, Kinds

\* vers_flush leaves the versions written, or no entry for them.
LEMMA FlushVersKeeps ==
  ASSUME FileInv, pc = "vers", "VERNEED" \in erw.modified, NEW d, d = FlushVers(erw)
  PROVE  /\ d \in State /\ RoundInv(d) /\ LoadedNow(d) /\ VersDone(d) /\ NoTable(d)
         /\ \A k \in Kinds : Done(k, erw) => Done(k, d)
         /\ file.dynamic => d.dhdrs.tags["STRTAB"] = "old"
         /\ d.dhdrs.needed => d.dhdrs.heap
         /\ d.phdrs = erw.phdrs /\ "VERNEED" \in d.modified /\ d.retry = erw.retry
<1> DEFINE e == erw
           l == LoadDsyms(e)
           t == IF l.vers.need THEN SetTag(l, "VERNEED", "old") ELSE RemoveTag(l, "VERNEED")
           v == <<l.vers.weak, l.vers.moved>>
           w == IF l.vers.need /\ ~ l.retry THEN [t EXCEPT !.image.vers = v] ELSE t
           i == [t.image EXCEPT !.vers = v]
           s == [w.dsyms EXCEPT !.versions = FALSE]
           x == [w EXCEPT !.dsyms.versions = FALSE]
<1>0. e \in State /\ RoundInv(e) /\ file \in FileRecord /\ LoadedInTime(e) /\ StageInv(e)
  BY CmdType DEF FileInv, ActsInv
<1>1. LoadStep(l, e) /\ l.dhdrs.loaded /\ l.dsyms.loaded
  BY <1>0, LoadDsymsShape DEF RoundInv, Contents
<1>2. /\ ActsInv(l) /\ l \in State
      /\ \A k \in Kinds : Done(k, e) => Done(k, l)
  BY <1>0, <1>1, LoadActs, LoadDone DEF FileInv, LoadStep
<1>3. l.modified = e.modified /\ l.building = e.building /\ l.phdrs = e.phdrs
      /\ l.retry = e.retry
  BY <1>1 DEF LoadStep, Keeps, Fields
<1>4. d = IF w.dsyms.versions /\ ~ w.vers.need THEN Modify(x, {"DSYMS"}) ELSE w
  BY DEF FlushVers
<1> HIDE DEF e, l
<1>5. /\ RoundInv(l) /\ NoTable(l) /\ l.image.vers = << >>
      /\ (file.dynamic => l.dhdrs.tags["STRTAB"] = "old")
      /\ (l.dhdrs.needed => l.dhdrs.heap)
      /\ l.vers.loaded
      /\ ("DYNSTR" \in l.modified => l.building)
  BY <1>2, <1>3 DEF ActsInv, StageInv, LoadedInTime, Pending, e
<1>6. /\ TagStep(t, l, {"VERNEED"})
      /\ t.dhdrs.tags["VERNEED"] = IF l.vers.need THEN "old" ELSE "none"
  <2>1. CASE l.vers.need
    <3>1. t = SetTag(l, "VERNEED", "old")
      BY <2>1
    <3> HIDE DEF t
    <3> QED BY <1>2, <2>1, <3>1, SetTagShape DEF Tags
  <2>2. CASE ~ l.vers.need
    <3>1. t = RemoveTag(l, "VERNEED")
      BY <2>2
    <3> HIDE DEF t
    <3> QED BY <1>2, <2>2, <3>1, RemoveTagShape DEF Tags
  <2> QED BY <2>1, <2>2
<1> HIDE DEF t
<1>7. TableStep(t, l, {"VERNEED"}) /\ t.retry = l.retry /\ t.used = l.used
  BY <1>6, TagIsTable
<1>8. /\ t.phdrs = l.phdrs /\ t.vers = l.vers /\ t.dsyms = l.dsyms
      /\ t.image = l.image /\ t.building = l.building /\ t \in State
  BY <1>6 DEF TagStep, Keeps, Fields
<1>9. Entries(t)
  <2>1. l.vers.need => "VERNEED" \in Orig
    BY <1>5 DEF RoundInv, Contents
  <2> QED BY <1>5, <1>6, <1>7, <1>8, <2>1 DEF RoundInv, Entries, TagStep, Tags
<1>10. RoundInv(t)
  BY <1>0, <1>1, <1>2, <1>3, <1>5, <1>7, <1>9, TableRound DEF e
<1>11. /\ w \in State /\ Keeps(w, t, {"image"})
       /\ w.image.hash = t.image.hash /\ w.image.gnuHash = t.image.gnuHash
       /\ w.image.vers = IF l.vers.need /\ ~ l.retry THEN v ELSE << >>
  <2>1. CASE l.vers.need /\ ~ l.retry
    <3>1. w = [t EXCEPT !.image = i] /\ t.image \in Image
      BY <1>8, <2>1 DEF State, Image
    <3>2. v \in BOOLEAN \X BOOLEAN
      BY <1>2 DEF State, Vers
    <3> HIDE DEF v, w
    <3>3. i \in Image /\ i.vers = v /\ i.hash = t.image.hash /\ i.gnuHash = t.image.gnuHash
      BY <3>1, <3>2 DEF Image
    <3> HIDE DEF i
    <3> QED BY <1>8, <2>1, <3>1, <3>3 DEF State, Keeps, Fields
  <2>2. CASE ~ (l.vers.need /\ ~ l.retry)
    BY <1>5, <1>8, <2>2 DEF Keeps
  <2> QED BY <2>1, <2>2
<1> HIDE DEF w
<1>12. RoundInv(w) /\ \A k \in Kinds : Done(k, l) => Done(k, w)
  <2>1. "DEBUG" \notin {"VERNEED"}
    OBVIOUS
  <2>2. \A k \in Kinds : Done(k, l) => Done(k, t)
    BY <1>7, <2>1, TableDone
  <2>3. RoundInv(w) /\ \A k \in Kinds : Done(k, t) => Done(k, w)
    BY <1>10, <1>11, ImageRound
  <2> HIDE DEF Done
  <2> QED BY <2>2, <2>3
<1>13. /\ w.retry = l.retry /\ w.dhdrs = t.dhdrs /\ w.dsyms = l.dsyms /\ w.vers = l.vers
       /\ w.phdrs = l.phdrs /\ w.building = l.building /\ w.modified = t.modified
  BY <1>7, <1>8, <1>11 DEF Keeps, Fields
<1>14. /\ w.modified \in {l.modified, l.modified \cup {"DHDRS"}}
       /\ w.dhdrs.loaded /\ (w.dhdrs.needed => w.dhdrs.heap)
       /\ (file.dynamic => w.dhdrs.tags["STRTAB"] = "old")
       /\ \A u \in Tags : w.dhdrs.tags[u] = "none" \/ (w.dhdrs.tags[u] = "old" /\ u \in Orig)
       /\ (~ l.vers.need => w.dhdrs.tags["VERNEED"] = "none")
  <2>1. l.vers.need => "VERNEED" \in Orig
    BY <1>5 DEF RoundInv, Contents
  <2>2. \A u \in Tags : w.dhdrs.tags[u] = "none" \/ (w.dhdrs.tags[u] = "old" /\ u \in Orig)
    <3> SUFFICES ASSUME NEW u \in Tags
                 PROVE  t.dhdrs.tags[u] = "none" \/ (t.dhdrs.tags[u] = "old" /\ u \in Orig)
      BY <1>13
    <3>1. CASE u = "VERNEED"
      BY <1>6, <2>1, <3>1
    <3>2. CASE u # "VERNEED"
      BY <1>5, <1>6, <3>2 DEF TagStep, NoTable
    <3> QED BY <3>1, <3>2
  <2>3. t.dhdrs.tags["STRTAB"] = l.dhdrs.tags["STRTAB"]
    BY <1>6 DEF TagStep, Tags
  <2> QED BY <1>1, <1>5, <1>6, <1>13, <2>2, <2>3 DEF TagStep
<1>15. CASE ~ (w.dsyms.versions /\ ~ w.vers.need)
  <2>1. d = w
    BY <1>4, <1>15
  <2>2. VersDone(w)
    BY <1>3, <1>5, <1>11, <1>13, <1>14, <1>15 DEF VersDone, e
  <2>3. NoTable(w) /\ LoadedNow(w)
    BY <1>1, <1>5, <1>8, <1>11, <1>13, <1>14 DEF NoTable, LoadedNow
  <2>4. w.phdrs = erw.phdrs /\ "VERNEED" \in w.modified /\ w.retry = erw.retry
    BY <1>3, <1>13, <1>14 DEF e
  <2>5. \A k \in Kinds : Done(k, erw) => Done(k, w)
    <3> HIDE DEF Done
    <3> QED BY <1>2, <1>12 DEF e
  <2> QED BY <1>11, <1>12, <1>14, <2>1, <2>2, <2>3, <2>4, <2>5
<1>16. CASE w.dsyms.versions /\ ~ w.vers.need
  <2>1. x = [w EXCEPT !.dsyms = s] /\ w.dsyms \in Dsyms
    BY <1>11 DEF State, Dsyms
  <2>2. /\ s \in Dsyms /\ ~ s.versions /\ s.loaded = w.dsyms.loaded /\ s.any = w.dsyms.any
        /\ s.reordered = w.dsyms.reordered /\ s.moved = w.dsyms.moved
        /\ s.heap = w.dsyms.heap /\ s.wantHash = w.dsyms.wantHash
        /\ s.wantGnuHash = w.dsyms.wantGnuHash
    BY <2>1 DEF Dsyms
  <2> HIDE DEF s, x
  <2>3. x \in State /\ Keeps(x, w, {"dsyms"}) /\ x.dsyms = s
    BY <1>11, <2>1, <2>2 DEF State, Keeps, Fields
  <2>4. d \in State /\ Keeps(d, x, {"modified"}) /\ d.modified = x.modified \cup {"DSYMS"}
    BY <1>4, <1>16, <2>3, ModifyShape DEF Flags
  <2>5. /\ d.modified = w.modified \cup {"DSYMS"} /\ d.dsyms = s
        /\ d.retry = w.retry /\ d.used = w.used /\ d.image = w.image
        /\ d.phdrs = w.phdrs /\ d.dhdrs = w.dhdrs /\ d.relocs = w.relocs
        /\ d.vers = w.vers /\ d.building = w.building /\ d.added = w.added
    BY <2>3, <2>4 DEF Keeps, Fields
  <2>6. "VERNEED" \in w.modified
    BY <1>3, <1>14 DEF e
  <2>7. RoundInv(d)
    <3>1. Loading(d)
      BY <1>1, <1>5, <1>12, <1>13, <2>2, <2>5 DEF RoundInv, Loading
    <3>2. Reasons(d)
      BY <1>12, <2>5, <2>6 DEF RoundInv, Reasons
    <3>3. Flagged(d)
      BY <1>5, <1>12, <1>13, <1>16, <2>2, <2>5, <2>6 DEF RoundInv, Flagged
    <3>4. Compacted(d) = Compacted(w)
      BY <2>5 DEF Compacted
    <3>5. Contents(d)
      BY <1>12, <2>2, <2>5, <3>4 DEF RoundInv, Contents
    <3>6. Entries(d)
      BY <1>12, <2>5 DEF RoundInv, Entries
    <3> QED BY <3>1, <3>2, <3>3, <3>5, <3>6 DEF RoundInv
  <2>8. VersDone(d)
    BY <1>5, <1>11, <1>13, <1>14, <1>16, <2>2, <2>5, <2>6 DEF VersDone
  <2>9. NoTable(d) /\ LoadedNow(d)
    BY <1>1, <1>5, <1>8, <1>11, <1>13, <1>14, <2>2, <2>5 DEF NoTable, LoadedNow
  <2>10. d.phdrs = erw.phdrs /\ "VERNEED" \in d.modified /\ d.retry = erw.retry
    BY <1>3, <1>13, <2>5, <2>6 DEF e
  <2>11. \A k \in Kinds : Done(k, erw) => Done(k, d)
    <3>1. \A k \in Kinds : Done(k, w) => Done(k, d)
      BY <1>13, <2>2, <2>5 DEF Done, Kinds
    <3> HIDE DEF Done
    <3> QED BY <1>2, <1>12, <3>1 DEF e
  <2>12. (d.dhdrs.needed => d.dhdrs.heap) /\ (file.dynamic => d.dhdrs.tags["STRTAB"] = "old")
    BY <1>14, <2>5
  <2> QED BY <2>4, <2>7, <2>8, <2>9, <2>10, <2>11, <2>12
<1> QED BY <1>15, <1>16

\* A part of a stage: it changes entries for tags in T, it allocates, it puts the
\* symbols in another order, and it writes hash tables.
PartStep(d, e, T) ==
  /\ d \in State /\ RoundInv(d)
  /\ Keeps(d, e, {"modified", "dhdrs", "used", "retry", "dsyms", "relocs", "image"})
  /\ e.modified \subseteq d.modified
  /\ d.modified \subseteq e.modified \cup {"DHDRS", "RELOCS", "HASH_TABLES"}
  /\ e.retry => d.retry
  /\ \A u \in Tags \ T : d.dhdrs.tags[u] = e.dhdrs.tags[u]
  /\ d.dhdrs.loaded = e.dhdrs.loaded /\ d.dhdrs.moved = e.dhdrs.moved
  /\ d.dhdrs.needed = e.dhdrs.needed /\ (e.dhdrs.heap => d.dhdrs.heap)
  /\ d.dsyms.loaded = e.dsyms.loaded /\ d.dsyms.any = e.dsyms.any
  /\ d.dsyms.moved = e.dsyms.moved /\ d.dsyms.versions = e.dsyms.versions
  /\ d.dsyms.wantHash = e.dsyms.wantHash /\ d.dsyms.wantGnuHash = e.dsyms.wantGnuHash
  /\ d.dsyms.heap => e.dsyms.heap
  /\ d.relocs.loaded = e.relocs.loaded
  /\ d.image.vers = e.image.vers /\ d.image.strings = e.image.strings
  /\ d.image.added = e.image.added

\* A stage may do nothing.
LEMMA PartRefl ==
  ASSUME NEW e \in State, RoundInv(e)
  PROVE  PartStep(e, e, {})
  BY DEF PartStep, Keeps

\* A stage may be done in two steps.
LEMMA PartTrans ==
  ASSUME NEW e, NEW c, NEW d, NEW S, NEW T, NEW U, PartStep(c, e, S), PartStep(d, c, T),
         S \subseteq U, T \subseteq U
  PROVE  PartStep(d, e, U)
<1>1. Keeps(d, e, {"modified", "dhdrs", "used", "retry", "dsyms", "relocs", "image"})
  BY DEF PartStep, Keeps
<1>2. \A u \in Tags \ U : d.dhdrs.tags[u] = e.dhdrs.tags[u]
  BY DEF PartStep
<1>3. e.modified \subseteq d.modified
      /\ d.modified \subseteq e.modified \cup {"DHDRS", "RELOCS", "HASH_TABLES"}
  BY DEF PartStep
<1> QED BY <1>1, <1>2, <1>3 DEF PartStep

\* A step of a stage undoes no action.
LEMMA PartDone ==
  ASSUME NEW e, NEW d, NEW T, PartStep(d, e, T), "DEBUG" \notin T
  PROVE  \A k \in Kinds : Done(k, e) => Done(k, d)
<1>1. d.vers = e.vers /\ d.phdrs = e.phdrs
  BY DEF PartStep, Keeps, Fields
<1>2. d.dhdrs.tags["DEBUG"] = e.dhdrs.tags["DEBUG"]
  BY DEF PartStep, Tags
<1> QED BY <1>1, <1>2 DEF Done, Kinds, PartStep

\* What a part does not touch.
LEMMA PartVers ==
  ASSUME NEW e, NEW d, NEW T, PartStep(d, e, T), "VERNEED" \notin T, VersDone(e)
  PROVE  VersDone(d)
<1>1. d.vers = e.vers
  BY DEF PartStep, Keeps, Fields
<1>2. d.dhdrs.tags["VERNEED"] = e.dhdrs.tags["VERNEED"]
  BY DEF PartStep, Tags
<1> QED BY <1>1, <1>2 DEF VersDone, PartStep

\* A step of a stage sets no flag whose editor is not loaded.
LEMMA PartNow ==
  ASSUME NEW e, NEW d, NEW T, PartStep(d, e, T), LoadedNow(e), e.dhdrs.loaded
  PROVE  LoadedNow(d)
<1>1. d.vers = e.vers /\ d.building = e.building
  BY DEF PartStep, Keeps, Fields
<1> QED BY <1>1 DEF LoadedNow, PartStep

\* A stage has its flag, and the dynamic section is loaded.
Flushing(e) ==
  /\ e.dhdrs.loaded
  /\ {"DYNSTR", "VERNEED", "DSYMS", "DHDRS"} \cap e.modified # {}

\* A changed entry is a step of a stage, if the entries are still in order.
LEMMA TablePart ==
  ASSUME file \in FileRecord, NEW e \in State, NEW d, NEW T, RoundInv(e), Flushing(e),
         TableStep(d, e, T), Entries(d)
  PROVE  PartStep(d, e, T) /\ Flushing(d)
<1>1. RoundInv(d)
  BY TableRound DEF Flushing
<1>2. Keeps(d, e, {"modified", "dhdrs", "used", "retry", "dsyms", "relocs", "image"})
  BY DEF TableStep, Keeps
<1>3. d.dsyms = e.dsyms /\ d.relocs = e.relocs /\ d.image = e.image
  BY DEF TableStep, Keeps, Fields
<1>4. e.modified \subseteq d.modified /\ d.modified \subseteq e.modified \cup {"DHDRS"}
  BY DEF TableStep
<1> QED BY <1>1, <1>2, <1>3, <1>4 DEF PartStep, TableStep, Flushing

\* Removing an entry is a step of a stage.
LEMMA RemovePart ==
  ASSUME file \in FileRecord, NEW e \in State, RoundInv(e), Flushing(e),
         NEW t \in Tags \ {"GNU_HASH", "HASH"}, t \in {"STRTAB", "SYMTAB"} => ~ file.dynamic,
         NEW d, d = RemoveTag(e, t)
  PROVE  /\ PartStep(d, e, {t}) /\ Flushing(d) /\ d.dhdrs.tags[t] = "none"
         /\ d.retry = e.retry /\ d.image = e.image /\ d.dsyms = e.dsyms
         /\ d.relocs = e.relocs
<1>1. TagStep(d, e, {t}) /\ d.dhdrs.tags[t] = "none"
  BY RemoveTagShape
<1>2. TableStep(d, e, {t}) /\ d.retry = e.retry
  BY <1>1, TagIsTable
<1>3. d.phdrs = e.phdrs /\ d.image = e.image /\ d.dsyms = e.dsyms /\ d.relocs = e.relocs
  BY <1>1 DEF TagStep, Keeps, Fields
<1>4. \A u \in Tags : d.dhdrs.tags[u] = e.dhdrs.tags[u] \/ (u = t /\ d.dhdrs.tags[u] = "none")
  BY <1>1 DEF TagStep
<1>5. Entries(d)
  BY <1>2, <1>3, <1>4 DEF RoundInv, Entries, Tags
<1> QED BY <1>1, <1>2, <1>3, <1>5, TablePart

\* A table which gets a new place.
Placed(e, n, t) == SetTag(Alloc(e, "r", n), t, Address(e, "r", n))

\* Placing a table at an address which has been allocated is a step of a stage.
LEMMA PlacePart ==
  ASSUME file \in FileRecord, NEW e \in State, RoundInv(e), Flushing(e), NEW n \in Int,
         NEW t \in Tags, t \in {"RELA", "VERNEED", "VERSYM", "DEBUG", "SONAME"} => t \in Orig,
         t = "GNU_HASH" => t \notin Orig, NEW d, d = Placed(e, n, t)
  PROVE  /\ PartStep(d, e, {t}) /\ Flushing(d) /\ d.dhdrs.tags[t] = Address(e, "r", n)
         /\ Address(e, "r", n) \in {"new", "zero"}
         /\ Address(e, "r", n) = "zero" => d.retry
         /\ d.image = e.image /\ d.dsyms = e.dsyms /\ d.relocs = e.relocs
<1> DEFINE a == Alloc(e, "r", n)
           place == Address(e, "r", n)
<1>1. /\ a \in State /\ Keeps(a, e, {"used", "retry"})
      /\ place \in {"new", "zero"} /\ a.retry = (e.retry \/ place = "zero")
  BY AllocShape DEF Categories
<1>2. d = SetTag(a, t, place)
  BY DEF Placed
<1> HIDE DEF a, place
<1>3. TagStep(d, a, {t}) /\ d.dhdrs.tags[t] = place
  BY <1>1, <1>2, SetTagShape
<1>4. a.modified = e.modified /\ a.dhdrs = e.dhdrs
  BY <1>1 DEF Keeps, Fields
<1>5. d.retry = a.retry
  BY <1>3, TagIsTable
<1>6. TableStep(d, e, {t})
  <2>1. Keeps(d, e, {"modified", "dhdrs", "used", "retry"})
    BY <1>1, <1>3 DEF TagStep, Keeps
  <2> QED BY <1>1, <1>3, <1>4, <1>5, <2>1 DEF TableStep, TagStep
<1>7. d.phdrs = e.phdrs /\ d.image = e.image /\ d.dsyms = e.dsyms /\ d.relocs = e.relocs
  BY <1>6 DEF TableStep, Keeps, Fields
<1>8. \A u \in Tags : d.dhdrs.tags[u] = e.dhdrs.tags[u] \/ (u = t /\ d.dhdrs.tags[u] = place)
  BY <1>3, <1>4 DEF TagStep
<1>9. (e.retry => d.retry) /\ (place = "zero" => d.retry)
  BY <1>1, <1>5
<1>10. Entries(d)
  BY <1>1, <1>7, <1>8, <1>9 DEF RoundInv, Entries, Tags
<1> QED BY <1>1, <1>3, <1>6, <1>7, <1>9, <1>10, TablePart DEF place

\* The symbols are put in the order of the hash table.
LEMMA ReorderPart ==
  ASSUME file \in FileRecord, NEW e \in State, RoundInv(e), Flushing(e),
         "DSYMS" \in e.modified, e.dsyms.loaded, ~ e.dsyms.reordered, NEW d, d = Reorder(e)
  PROVE  /\ PartStep(d, e, {}) /\ Flushing(d) /\ d.retry = e.retry /\ d.dhdrs = e.dhdrs
         /\ d.image = e.image /\ d.dsyms.heap = e.dsyms.heap
<1> DEFINE s == [e.dsyms EXCEPT !.reordered = TRUE]
           y == [e.relocs EXCEPT !.reordered = TRUE, !.dirty = TRUE]
           r == [e EXCEPT !.dsyms.reordered = TRUE]
           x == [r EXCEPT !.relocs.reordered = TRUE, !.relocs.dirty = TRUE]
           hasRela == "RELA" \in OriginalTags(file)
<1>0. d = IF file.sorted \/ ~ e.dsyms.any THEN e
          ELSE IF ~ hasRela THEN r ELSE Modify(x, {"RELOCS"})
  BY DEF Reorder
<1>1. CASE file.sorted \/ ~ e.dsyms.any
  <2>1. d = e
    BY <1>0, <1>1
  <2> QED BY <2>1, PartRefl
<1>2. CASE ~ (file.sorted \/ ~ e.dsyms.any)
  <2>1. e.dsyms \in Dsyms /\ e.relocs \in Relocs
    BY DEF State
  <2>2. r = [e EXCEPT !.dsyms = s]
    BY <2>1 DEF State, Dsyms
  <2>3. /\ s \in Dsyms /\ s.reordered /\ s.loaded = e.dsyms.loaded /\ s.any = e.dsyms.any
        /\ s.moved = e.dsyms.moved /\ s.heap = e.dsyms.heap
        /\ s.versions = e.dsyms.versions /\ s.wantHash = e.dsyms.wantHash
        /\ s.wantGnuHash = e.dsyms.wantGnuHash
    BY <2>1 DEF Dsyms
  <2>4. /\ y \in Relocs /\ y.reordered /\ y.dirty /\ y.loaded = e.relocs.loaded
        /\ y.heap = e.relocs.heap
    BY <2>1 DEF Relocs
  <2>5. file.dynamic /\ e.relocs.loaded
    BY <1>2 DEF RoundInv, Contents, Loading
  <2>6. /\ d \in State /\ Keeps(d, e, {"modified", "dsyms", "relocs"}) /\ d.dsyms = s
        /\ d.modified = e.modified \cup (IF hasRela THEN {"RELOCS"} ELSE {})
        /\ d.relocs = IF hasRela THEN y ELSE e.relocs
    <3>1. CASE ~ hasRela
      <4> HIDE DEF s, hasRela
      <4> QED BY <1>0, <1>2, <2>2, <2>3, <3>1 DEF State, Keeps, Fields
    <3>2. CASE hasRela
      <4>1. x = [e EXCEPT !.dsyms = s, !.relocs = y]
        BY <2>1, <2>2 DEF State, Relocs
      <4>2. d = Modify(x, {"RELOCS"})
        BY <1>0, <1>2, <3>2
      <4> HIDE DEF s, y, x, hasRela
      <4>3. x \in State /\ Keeps(x, e, {"dsyms", "relocs"}) /\ x.dsyms = s /\ x.relocs = y
        BY <2>3, <2>4, <4>1 DEF State, Keeps, Fields
      <4>4. d \in State /\ Keeps(d, x, {"modified"}) /\ d.modified = x.modified \cup {"RELOCS"}
        BY <4>2, <4>3, ModifyShape DEF Flags
      <4>5. Keeps(d, e, {"modified", "dsyms", "relocs"})
        BY <4>3, <4>4 DEF Keeps
      <4>6. d.dsyms = s /\ d.relocs = y /\ x.modified = e.modified
        BY <4>3, <4>4 DEF Keeps, Fields
      <4> QED BY <3>2, <4>4, <4>5, <4>6
    <3> QED BY <3>1, <3>2
  <2>7. hasRela = ("RELA" \in Orig)
    BY DEF Orig
  <2> HIDE DEF s, y, r, x, hasRela
  <2>8. /\ d.retry = e.retry /\ d.used = e.used /\ d.image = e.image
        /\ d.phdrs = e.phdrs /\ d.dhdrs = e.dhdrs /\ d.vers = e.vers
        /\ d.building = e.building /\ d.added = e.added
    BY <2>6 DEF Keeps, Fields
  <2>9. Loading(d)
    BY <2>3, <2>4, <2>5, <2>6, <2>8 DEF RoundInv, Loading
  <2>10. Reasons(d)
    BY <2>5, <2>6, <2>8 DEF RoundInv, Reasons
  <2>11. Flagged(d)
    BY <2>3, <2>6, <2>8 DEF RoundInv, Flagged
  <2>12. Compacted(d) = Compacted(e)
    BY <2>8 DEF Compacted
  <2>13. Contents(d)
    BY <2>3, <2>4, <2>5, <2>6, <2>7, <2>8, <2>12, ZenonT(40) DEF RoundInv, Contents
  <2>14. Entries(d)
    BY <2>8 DEF RoundInv, Entries
  <2>15. RoundInv(d)
    BY <2>9, <2>10, <2>11, <2>13, <2>14 DEF RoundInv
  <2>16. Keeps(d, e, {"modified", "dhdrs", "used", "retry", "dsyms", "relocs", "image"})
    BY <2>6 DEF Keeps
  <2>17. e.modified \subseteq d.modified
         /\ d.modified \subseteq e.modified \cup {"DHDRS", "RELOCS", "HASH_TABLES"}
    BY <2>6
  <2>18. PartStep(d, e, {})
    BY <2>3, <2>4, <2>6, <2>8, <2>15, <2>16, <2>17 DEF PartStep
  <2> QED BY <2>3, <2>6, <2>8, <2>18 DEF Flushing
<1> QED BY <1>1, <1>2

\* A part which writes a hash table.
LEMMA ImagePart ==
  ASSUME NEW e \in State, RoundInv(e), NEW i \in Image, NEW d, d = [e EXCEPT !.image = i],
         i.vers = e.image.vers, i.strings = e.image.strings, i.added = e.image.added
  PROVE  /\ PartStep(d, e, {}) /\ d.retry = e.retry /\ d.image = i
         /\ d.dsyms = e.dsyms /\ d.dhdrs = e.dhdrs /\ d.modified = e.modified
<1>1. d \in State /\ Keeps(d, e, {"image"}) /\ d.image = i
  BY DEF State, Keeps, Fields
<1>2. RoundInv(d)
  BY <1>1, ImageRound
<1>3. /\ d.retry = e.retry /\ d.dhdrs = e.dhdrs /\ d.dsyms = e.dsyms /\ d.relocs = e.relocs
      /\ d.modified = e.modified
  BY <1>1 DEF Keeps, Fields
<1>4. Keeps(d, e, {"modified", "dhdrs", "used", "retry", "dsyms", "relocs", "image"})
  BY <1>1 DEF Keeps
<1> QED BY <1>1, <1>2, <1>3, <1>4 DEF PartStep

\* Before dsyms_flush.
DsymsBefore(e) ==
  /\ e \in State /\ RoundInv(e) /\ Flushing(e) /\ "DSYMS" \in e.modified
  /\ e.dsyms.loaded /\ NoTable(e)

\* rebuild_gnu_hash writes a table which has the order of the symbols, or the round
\* has failed.
LEMMA RebuildGnuHashPart ==
  ASSUME file \in FileRecord, NEW e, DsymsBefore(e), "GNU_HASH" \notin Orig,
         NEW d, d = RebuildGnuHash(e)
  PROVE  /\ PartStep(d, e, {"GNU_HASH"}) /\ Flushing(d)
         /\ d.dhdrs.tags["GNU_HASH"] # "none"
         /\ d.retry \/ d.image.gnuHash = <<d.dsyms.reordered>>
         /\ d.image.hash = << >>
<1> DEFINE t == Placed(e, 1, "GNU_HASH")
           r == Reorder(t)
           v == <<r.dsyms.reordered>>
           i == [r.image EXCEPT !.gnuHash = v]
<1>0. e \in State /\ RoundInv(e) /\ Flushing(e) /\ "GNU_HASH" \in Tags /\ 1 \in Int
  BY DEF DsymsBefore, Tags
<1>1. /\ PartStep(t, e, {"GNU_HASH"}) /\ Flushing(t)
      /\ t.dhdrs.tags["GNU_HASH"] # "none"
      /\ t.image = e.image /\ t.dsyms = e.dsyms
  <2>1. /\ PartStep(t, e, {"GNU_HASH"}) /\ Flushing(t)
        /\ t.dhdrs.tags["GNU_HASH"] = Address(e, "r", 1)
        /\ Address(e, "r", 1) \in {"new", "zero"}
        /\ t.image = e.image /\ t.dsyms = e.dsyms
    <3> HIDE DEF Placed
    <3> QED BY <1>0, PlacePart
  <2> QED BY <2>1
<1>2. d = IF t.retry THEN t ELSE [r EXCEPT !.image.gnuHash = v]
  BY DEF RebuildGnuHash, Placed
<1> HIDE DEF t, r
<1>3. CASE t.retry
  <2>1. d = t
    BY <1>2, <1>3
  <2> QED BY <1>1, <1>3, <2>1 DEF DsymsBefore, NoTable
<1>4. CASE ~ t.retry
  <2>1. t \in State /\ RoundInv(t) /\ "DSYMS" \in t.modified /\ t.dsyms.loaded
        /\ ~ t.dsyms.reordered
    BY <1>1 DEF PartStep, DsymsBefore, NoTable
  <2>2. /\ PartStep(r, t, {}) /\ Flushing(r) /\ r.retry = t.retry /\ r.dhdrs = t.dhdrs
        /\ r.image = t.image
    BY <1>1, <2>1, ReorderPart DEF r
  <2>3. r \in State /\ RoundInv(r) /\ r.image \in Image /\ r.dsyms.reordered \in BOOLEAN
    BY <2>2 DEF PartStep, State, Dsyms
  <2>4. v \in Hashed
    BY <2>3 DEF Hashed
  <2>5. d = [r EXCEPT !.image = i]
    BY <1>2, <1>4, <2>3 DEF State, Image
  <2> DEFINE vv == <<r.dsyms.reordered>>
  <2> HIDE DEF v
  <2>6. i \in Image /\ i.gnuHash = v /\ i.vers = r.image.vers /\ i.hash = r.image.hash
        /\ i.strings = r.image.strings /\ i.added = r.image.added
    BY <2>3, <2>4 DEF Image
  <2> HIDE DEF i
  <2>7. /\ PartStep(d, r, {}) /\ d.retry = r.retry /\ d.image = i
        /\ d.dsyms = r.dsyms /\ d.dhdrs = r.dhdrs /\ d.modified = r.modified
    BY <2>3, <2>5, <2>6, ImagePart
  <2>8. PartStep(r, e, {"GNU_HASH"})
    BY <1>1, <2>2, PartTrans
  <2>9. PartStep(d, e, {"GNU_HASH"})
    BY <2>7, <2>8, PartTrans
  <2>10. d.image.hash = << >>
    BY <1>1, <2>2, <2>6, <2>7 DEF DsymsBefore, NoTable
  <2>11. d.image.gnuHash = <<d.dsyms.reordered>>
    BY <2>6, <2>7 DEF v
  <2>12. Flushing(d)
    BY <2>2, <2>7 DEF Flushing
  <2> QED BY <1>1, <2>2, <2>7, <2>9, <2>10, <2>11, <2>12
<1> QED BY <1>3, <1>4

\* rebuild_elf_hash does so for the other table.
LEMMA RebuildElfHashPart ==
  ASSUME file \in FileRecord, NEW e \in State, RoundInv(e), Flushing(e),
         NEW d, d = RebuildElfHash(e)
  PROVE  /\ PartStep(d, e, {"HASH"}) /\ Flushing(d) /\ d.dsyms = e.dsyms
         /\ d.dhdrs.tags["HASH"] # "none"
         /\ d.retry \/ d.image.hash = <<d.dsyms.reordered>>
         /\ d.image.gnuHash = e.image.gnuHash
<1> DEFINE t == IF e.dhdrs.tags["HASH"] = "old" THEN e ELSE Placed(e, 1, "HASH")
           v == <<t.dsyms.reordered>>
           i == [t.image EXCEPT !.hash = v]
<1>1. /\ PartStep(t, e, {"HASH"}) /\ Flushing(t) /\ t.dhdrs.tags["HASH"] # "none"
      /\ t.image = e.image /\ t.dsyms = e.dsyms
  <2>1. CASE e.dhdrs.tags["HASH"] = "old"
    <3>1. t = e
      BY <2>1
    <3>2. PartStep(e, e, {"HASH"})
      BY PartRefl, PartTrans
    <3> QED BY <2>1, <3>1, <3>2
  <2>2. CASE e.dhdrs.tags["HASH"] # "old"
    <3>1. t = Placed(e, 1, "HASH")
      BY <2>2
    <3>2. "HASH" \in Tags /\ 1 \in Int
      BY DEF Tags
    <3> HIDE DEF t, Placed
    <3>3. /\ PartStep(t, e, {"HASH"}) /\ Flushing(t)
          /\ t.dhdrs.tags["HASH"] = Address(e, "r", 1)
          /\ Address(e, "r", 1) \in {"new", "zero"}
          /\ t.image = e.image /\ t.dsyms = e.dsyms
      BY <3>1, <3>2, PlacePart, SMTT(30)
    <3> QED BY <3>3
  <2> QED BY <2>1, <2>2
<1>2. d = IF t.retry THEN t ELSE [t EXCEPT !.image.hash = v]
  BY DEF RebuildElfHash, Placed
<1> HIDE DEF t
<1>3. CASE t.retry
  <2>1. d = t
    BY <1>2, <1>3
  <2> QED BY <1>1, <1>3, <2>1
<1>4. CASE ~ t.retry
  <2>1. t \in State /\ RoundInv(t) /\ t.image \in Image /\ t.dsyms.reordered \in BOOLEAN
    BY <1>1 DEF PartStep, State, Dsyms
  <2>2. v \in Hashed
    BY <2>1 DEF Hashed
  <2>3. d = [t EXCEPT !.image = i]
    BY <1>2, <1>4, <2>1 DEF State, Image
  <2> HIDE DEF v
  <2>4. i \in Image /\ i.hash = v /\ i.vers = t.image.vers /\ i.gnuHash = t.image.gnuHash
        /\ i.strings = t.image.strings /\ i.added = t.image.added
    BY <2>1, <2>2 DEF Image
  <2> HIDE DEF i
  <2>5. /\ PartStep(d, t, {}) /\ d.retry = t.retry /\ d.image = i
        /\ d.dsyms = t.dsyms /\ d.dhdrs = t.dhdrs /\ d.modified = t.modified
    BY <2>1, <2>3, <2>4, ImagePart
  <2>6. PartStep(d, e, {"HASH"})
    BY <1>1, <2>5, PartTrans
  <2>7. d.image.hash = <<d.dsyms.reordered>>
    BY <2>4, <2>5 DEF v
  <2>8. Flushing(d)
    BY <1>1, <2>5 DEF Flushing
  <2> QED BY <1>1, <2>4, <2>5, <2>6, <2>7, <2>8
<1> QED BY <1>3, <1>4

\* Setting the flag of the hash tables is a step of a stage.
LEMMA FlagHashesPart ==
  ASSUME NEW e \in State, RoundInv(e), Flushing(e), NEW d, d = Modify(e, {"HASH_TABLES"})
  PROVE  /\ PartStep(d, e, {}) /\ Flushing(d) /\ "HASH_TABLES" \in d.modified
         /\ d.dsyms = e.dsyms /\ d.dhdrs = e.dhdrs /\ d.image = e.image /\ d.retry = e.retry
<1>1. d \in State /\ Keeps(d, e, {"modified"}) /\ d.modified = e.modified \cup {"HASH_TABLES"}
  BY ModifyShape DEF Flags
<1>2. /\ d.retry = e.retry /\ d.used = e.used /\ d.image = e.image
      /\ d.phdrs = e.phdrs /\ d.dhdrs = e.dhdrs /\ d.vers = e.vers /\ d.relocs = e.relocs
      /\ d.dsyms = e.dsyms /\ d.building = e.building /\ d.added = e.added
  BY <1>1 DEF Keeps, Fields
<1>3. Loading(d)
  BY <1>2 DEF RoundInv, Loading
<1>4. Reasons(d)
  BY <1>1, <1>2 DEF RoundInv, Reasons
<1>5. Flagged(d)
  BY <1>1, <1>2 DEF RoundInv, Flagged
<1>6. Contents(d)
  BY <1>2 DEF RoundInv, Contents, Compacted
<1>7. Entries(d)
  BY <1>2 DEF RoundInv, Entries
<1>8. Keeps(d, e, {"modified", "dhdrs", "used", "retry", "dsyms", "relocs", "image"})
  BY <1>1 DEF Keeps
<1>9. e.modified \subseteq d.modified
      /\ d.modified \subseteq e.modified \cup {"DHDRS", "RELOCS", "HASH_TABLES"}
  BY <1>1
<1> QED BY <1>1, <1>2, <1>3, <1>4, <1>5, <1>6, <1>7, <1>8, <1>9
       DEF PartStep, RoundInv, Flushing

\* After both, each table which is wanted is there and agrees with the order of the
\* symbols.
LEMMA FlushHashesPart ==
  ASSUME file \in FileRecord, NEW e, DsymsBefore(e), NEW d, d = FlushHashes(e)
  PROVE  PartStep(d, e, {"GNU_HASH", "HASH"}) /\ Flushing(d) /\ HashesDone(d)
<1> DEFINE rebuild == e.dsyms.wantGnuHash /\ "GNU_HASH" \notin Orig
           g == IF rebuild THEN Modify(RebuildGnuHash(e), {"HASH_TABLES"}) ELSE e
           elf == g.dsyms.wantHash /\ ("HASH" \in Orig => "HASH_TABLES" \in g.modified)
<1>0. /\ e \in State /\ RoundInv(e) /\ Flushing(e) /\ NoTable(e)
      /\ Flagged(e) /\ Contents(e) /\ Entries(e)
  BY DEF DsymsBefore, RoundInv
<1>1. /\ PartStep(g, e, {"GNU_HASH"}) /\ Flushing(g)
      /\ rebuild => "HASH_TABLES" \in g.modified
      /\ g.retry \/ g.image.gnuHash \in {<< >>, <<g.dsyms.reordered>>}
      /\ g.image.hash = << >>
      /\ rebuild => g.dhdrs.tags["GNU_HASH"] # "none"
      /\ rebuild => g.retry \/ g.image.gnuHash # << >>
      /\ ~ rebuild => ~ g.dsyms.reordered /\ g.dhdrs.tags["GNU_HASH"] = e.dhdrs.tags["GNU_HASH"]
  <2>1. CASE rebuild
    <3> DEFINE b == RebuildGnuHash(e)
    <3>1. /\ PartStep(b, e, {"GNU_HASH"}) /\ Flushing(b)
          /\ b.dhdrs.tags["GNU_HASH"] # "none"
          /\ b.retry \/ b.image.gnuHash = <<b.dsyms.reordered>>
          /\ b.image.hash = << >>
      BY <2>1, RebuildGnuHashPart
    <3>2. g = Modify(b, {"HASH_TABLES"})
      BY <2>1
    <3> HIDE DEF b, g
    <3>3. b \in State /\ RoundInv(b)
      BY <3>1 DEF PartStep
    <3>4. /\ PartStep(g, b, {}) /\ Flushing(g) /\ "HASH_TABLES" \in g.modified
          /\ g.dsyms = b.dsyms /\ g.dhdrs = b.dhdrs /\ g.image = b.image /\ g.retry = b.retry
      BY <3>1, <3>2, <3>3, FlagHashesPart
    <3>5. PartStep(g, e, {"GNU_HASH"})
      BY <3>1, <3>4, PartTrans
    <3>6. <<b.dsyms.reordered>> # << >>
      OBVIOUS
    <3> QED BY <2>1, <3>1, <3>4, <3>5, <3>6
  <2>2. CASE ~ rebuild
    <3>1. g = e
      BY <2>2
    <3>2. PartStep(e, e, {"GNU_HASH"})
      BY <1>0, PartRefl, PartTrans
    <3> QED BY <1>0, <2>2, <3>1, <3>2 DEF NoTable
  <2> QED BY <2>1, <2>2
<1>2. d = IF elf THEN RebuildElfHash(g) ELSE g
  BY DEF FlushHashes, Orig
<1>3. /\ g.dsyms.wantGnuHash = e.dsyms.wantGnuHash /\ g.dsyms.wantHash = e.dsyms.wantHash
      /\ g \in State /\ RoundInv(g) /\ g.dhdrs.tags["HASH"] = e.dhdrs.tags["HASH"]
  BY <1>1 DEF PartStep, Tags
<1>4. g.dsyms.wantGnuHash => g.dhdrs.tags["GNU_HASH"] # "none"
  BY <1>0, <1>1, <1>3 DEF Entries
<1>5. g.dhdrs.tags["GNU_HASH"] = "new" => g.retry \/ g.image.gnuHash # << >>
  BY <1>0, <1>1 DEF NoTable, Tags
<1> HIDE DEF g
<1>6. CASE elf
  <2>1. d = RebuildElfHash(g)
    BY <1>2, <1>6
  <2>2. /\ PartStep(d, g, {"HASH"}) /\ Flushing(d) /\ d.dsyms = g.dsyms
        /\ d.dhdrs.tags["HASH"] # "none"
        /\ d.retry \/ d.image.hash = <<d.dsyms.reordered>>
        /\ d.image.gnuHash = g.image.gnuHash
    BY <1>1, <1>3, <2>1, RebuildElfHashPart
  <2>3. PartStep(d, e, {"GNU_HASH", "HASH"})
    BY <1>1, <2>2, PartTrans
  <2>4. d.dhdrs.tags["GNU_HASH"] = g.dhdrs.tags["GNU_HASH"] /\ (g.retry => d.retry)
    BY <2>2 DEF PartStep, Tags
  <2>5. <<d.dsyms.reordered>> # << >>
    OBVIOUS
  <2>6. HashesDone(d)
    <3>1. d.dsyms.wantGnuHash => d.dhdrs.tags["GNU_HASH"] # "none"
      BY <1>4, <2>2, <2>4
    <3>2. d.retry \/ d.image.gnuHash \in {<< >>, <<d.dsyms.reordered>>}
      BY <1>1, <2>2, <2>4
    <3>3. d.dsyms.reordered \/ d.dhdrs.tags["GNU_HASH"] = "new" =>
            d.retry \/ d.image.gnuHash # << >>
      BY <1>1, <1>5, <2>2, <2>4
    <3>4. d.retry \/ d.image.hash # << >>
      BY <2>2, <2>5
    <3> QED BY <2>2, <3>1, <3>2, <3>3, <3>4 DEF HashesDone
  <2> QED BY <2>2, <2>3, <2>6
<1>7. CASE ~ elf
  <2>1. d = g
    BY <1>2, <1>7
  <2>2. PartStep(g, e, {"GNU_HASH", "HASH"})
    <3>1. PartStep(g, g, {})
      BY <1>3, PartRefl
    <3> QED BY <1>1, <3>1, PartTrans
  <2>3. g.dsyms.wantHash => g.dhdrs.tags["HASH"] # "none"
    BY <1>0, <1>3, <1>7 DEF Entries
  <2>4. g.dsyms.reordered => g.dhdrs.tags["HASH"] = "none" \/ g.retry
    <3>1. g.dsyms.reordered => "HASH_TABLES" \in g.modified
      BY <1>1
    <3>2. g.dsyms.reordered => ~ e.dsyms.wantHash
      BY <1>3, <1>7, <3>1
    <3>3. ~ e.dsyms.wantHash => "HASH" \notin Orig
      BY <1>0 DEF Contents
    <3>4. "HASH" \notin Orig => e.dhdrs.tags["HASH"] = "none"
      BY <1>0 DEF NoTable, Tags
    <3> QED BY <1>3, <3>2, <3>3, <3>4
  <2>5. g.dhdrs.tags["HASH"] # "new"
    BY <1>0, <1>3 DEF NoTable, Tags
  <2>6. HashesDone(g)
    BY <1>1, <1>4, <1>5, <2>3, <2>4, <2>5 DEF HashesDone
  <2> QED BY <1>1, <2>1, <2>2, <2>6
<1> QED BY <1>6, <1>7

\* What does not touch the symbols or the hash tables keeps them in agreement.
LEMMA HashesKept ==
  ASSUME NEW e, NEW d, HashesDone(e), e.retry => d.retry,
         d.image.hash = e.image.hash, d.image.gnuHash = e.image.gnuHash,
         d.dsyms.reordered = e.dsyms.reordered, d.dsyms.wantHash = e.dsyms.wantHash,
         d.dsyms.wantGnuHash = e.dsyms.wantGnuHash,
         d.dhdrs.tags["GNU_HASH"] = e.dhdrs.tags["GNU_HASH"],
         d.dhdrs.tags["HASH"] = e.dhdrs.tags["HASH"]
  PROVE  HashesDone(d)
  BY DEF HashesDone

\* A symbol table which has been written is no longer on the heap.
LEMMA WrittenPart ==
  ASSUME NEW e \in State, RoundInv(e), e.dsyms.loaded, NEW d,
         d = [e EXCEPT !.dsyms.heap = FALSE]
  PROVE  /\ PartStep(d, e, {}) /\ ~ d.dsyms.heap /\ d.retry = e.retry /\ d.image = e.image
         /\ d.dhdrs = e.dhdrs /\ d.dsyms.reordered = e.dsyms.reordered
         /\ d.modified = e.modified
<1> DEFINE s == [e.dsyms EXCEPT !.heap = FALSE]
<1>1. d = [e EXCEPT !.dsyms = s] /\ e.dsyms \in Dsyms
  BY DEF State, Dsyms
<1>2. /\ s \in Dsyms /\ ~ s.heap /\ s.loaded = e.dsyms.loaded /\ s.any = e.dsyms.any
      /\ s.moved = e.dsyms.moved /\ s.reordered = e.dsyms.reordered
      /\ s.versions = e.dsyms.versions /\ s.wantHash = e.dsyms.wantHash
      /\ s.wantGnuHash = e.dsyms.wantGnuHash
  BY <1>1 DEF Dsyms
<1> HIDE DEF s
<1>3. d \in State /\ Keeps(d, e, {"dsyms"}) /\ d.dsyms = s
  BY <1>1, <1>2 DEF State, Keeps, Fields
<1>4. /\ d.retry = e.retry /\ d.used = e.used /\ d.image = e.image
      /\ d.phdrs = e.phdrs /\ d.dhdrs = e.dhdrs /\ d.vers = e.vers /\ d.relocs = e.relocs
      /\ d.building = e.building /\ d.added = e.added /\ d.modified = e.modified
  BY <1>3 DEF Keeps, Fields
<1>5. Loading(d)
  BY <1>2, <1>3, <1>4 DEF RoundInv, Loading
<1>6. Reasons(d)
  BY <1>4 DEF RoundInv, Reasons
<1>7. Flagged(d)
  BY <1>2, <1>3, <1>4 DEF RoundInv, Flagged
<1>8. Compacted(d) = Compacted(e)
  BY <1>4 DEF Compacted
<1>9. Contents(d)
  BY <1>2, <1>3, <1>4, <1>8, ZenonT(40) DEF RoundInv, Contents
<1>10. Entries(d)
  BY <1>4 DEF RoundInv, Entries
<1>11. Keeps(d, e, {"modified", "dhdrs", "used", "retry", "dsyms", "relocs", "image"})
  BY <1>3 DEF Keeps
<1> QED BY <1>2, <1>3, <1>4, <1>5, <1>6, <1>7, <1>9, <1>10, <1>11 DEF PartStep, RoundInv

\* dsyms_flush leaves no symbol on the heap, no array of versions without versions,
\* and the hash tables in agreement.
LEMMA FlushDsymsPart ==
  ASSUME file \in FileRecord, NEW e0, DsymsBefore(e0), NEW d, d = FlushDsyms(e0)
  PROVE  /\ PartStep(d, e0, {"GNU_HASH", "HASH", "SYMTAB", "VERSYM"}) /\ Flushing(d)
         /\ DsymsDone(d)
<1> DEFINE T == {"GNU_HASH", "HASH", "SYMTAB", "VERSYM"}
           e == FlushHashes(e0)
           s == Placed(e, 2, "SYMTAB")
           v == IF s.dsyms.versions THEN Placed(s, 1, "VERSYM") ELSE RemoveTag(s, "VERSYM")
           r == RemoveTag(e, "SYMTAB")
<1>1. PartStep(e, e0, {"GNU_HASH", "HASH"}) /\ Flushing(e) /\ HashesDone(e)
  BY FlushHashesPart
<1>2. e \in State /\ RoundInv(e) /\ PartStep(e, e0, T)
  <2>1. e \in State /\ RoundInv(e)
    BY <1>1 DEF PartStep
  <2> HIDE DEF e
  <2>2. PartStep(e, e, {})
    BY <2>1, PartRefl
  <2> QED BY <1>1, <2>1, <2>2, PartTrans
<1>3. d = IF ~ e.dsyms.any THEN RemoveTag(r, "VERSYM")
          ELSE IF ~ e.dsyms.heap
          THEN IF e.dsyms.versions THEN e ELSE RemoveTag(e, "VERSYM")
          ELSE IF v.retry THEN v ELSE [v EXCEPT !.dsyms.heap = FALSE]
  BY DEF FlushDsyms, Placed
<1>4. /\ e.dsyms.any = file.dynamic /\ (e.dsyms.heap => file.dynamic)
      /\ (e.dsyms.versions => "VERSYM" \in Orig)
  BY <1>2 DEF RoundInv, Contents
<1>5. {"SYMTAB", "VERSYM"} \subseteq Tags \ {"GNU_HASH", "HASH"} /\ e.dsyms.loaded
  BY <1>1 DEF Tags, PartStep, DsymsBefore
<1> HIDE DEF e
<1>6. CASE ~ e.dsyms.any
  <2>1. /\ PartStep(r, e, {"SYMTAB"}) /\ Flushing(r) /\ r.retry = e.retry
        /\ r.image = e.image /\ r.dsyms = e.dsyms
    BY <1>1, <1>2, <1>4, <1>5, <1>6, RemovePart
  <2>2. d = RemoveTag(r, "VERSYM") /\ r \in State /\ RoundInv(r)
    BY <1>3, <1>6, <2>1 DEF PartStep
  <2> HIDE DEF r
  <2>3. /\ PartStep(d, r, {"VERSYM"}) /\ Flushing(d) /\ d.retry = r.retry
        /\ d.image = r.image /\ d.dsyms = r.dsyms /\ d.dhdrs.tags["VERSYM"] = "none"
    BY <1>5, <2>1, <2>2, RemovePart, SMTT(30)
  <2>4. PartStep(r, e0, T)
    BY <1>2, <2>1, PartTrans
  <2>5. PartStep(d, e0, T)
    BY <2>3, <2>4, PartTrans
  <2>6. d.dhdrs.tags["GNU_HASH"] = e.dhdrs.tags["GNU_HASH"]
        /\ d.dhdrs.tags["HASH"] = e.dhdrs.tags["HASH"]
    BY <2>1, <2>3 DEF PartStep, Tags
  <2>7. HashesDone(d)
    BY <1>1, <2>1, <2>3, <2>6, HashesKept
  <2> QED BY <1>4, <1>6, <2>1, <2>3, <2>5, <2>7 DEF DsymsDone
<1>7. CASE e.dsyms.any /\ ~ e.dsyms.heap /\ e.dsyms.versions
  <2>1. d = e
    BY <1>3, <1>7
  <2> QED BY <1>1, <1>2, <1>7, <2>1 DEF DsymsDone
<1>8. CASE e.dsyms.any /\ ~ e.dsyms.heap /\ ~ e.dsyms.versions
  <2>1. d = RemoveTag(e, "VERSYM")
    BY <1>3, <1>8
  <2>2. /\ PartStep(d, e, {"VERSYM"}) /\ Flushing(d) /\ d.retry = e.retry
        /\ d.image = e.image /\ d.dsyms = e.dsyms /\ d.dhdrs.tags["VERSYM"] = "none"
    BY <1>1, <1>2, <1>5, <2>1, RemovePart
  <2>3. PartStep(d, e0, T)
    BY <1>2, <2>2, PartTrans
  <2>4. d.dhdrs.tags["GNU_HASH"] = e.dhdrs.tags["GNU_HASH"]
        /\ d.dhdrs.tags["HASH"] = e.dhdrs.tags["HASH"]
    BY <2>2 DEF PartStep, Tags
  <2>5. HashesDone(d)
    BY <1>1, <2>2, <2>4, HashesKept
  <2> QED BY <1>8, <2>2, <2>3, <2>5 DEF DsymsDone
<1>9. CASE e.dsyms.any /\ e.dsyms.heap
  <2>1. /\ PartStep(s, e, {"SYMTAB"}) /\ Flushing(s) /\ s.image = e.image
        /\ s.dsyms = e.dsyms
    <3>1. "SYMTAB" \in Tags /\ 2 \in Int
      BY DEF Tags
    <3> HIDE DEF Placed
    <3> QED BY <1>1, <1>2, <3>1, PlacePart
  <2>2. s \in State /\ RoundInv(s) /\ (e.retry => s.retry)
    BY <2>1 DEF PartStep
  <2> HIDE DEF s
  <2>3. /\ PartStep(v, s, {"VERSYM"}) /\ Flushing(v) /\ v.image = s.image
        /\ v.dsyms = s.dsyms /\ (~ v.dsyms.versions => v.dhdrs.tags["VERSYM"] = "none")
    <3>1. CASE s.dsyms.versions
      <4>1. v = Placed(s, 1, "VERSYM")
        BY <3>1
      <4>2. "VERSYM" \in Tags /\ 1 \in Int /\ "VERSYM" \in Orig
        BY <1>4, <2>1, <3>1 DEF Tags
      <4> HIDE DEF v, Placed
      <4> QED BY <2>1, <2>2, <3>1, <4>1, <4>2, PlacePart
    <3>2. CASE ~ s.dsyms.versions
      <4>1. v = RemoveTag(s, "VERSYM")
        BY <3>2
      <4> HIDE DEF v
      <4> QED BY <1>5, <2>1, <2>2, <4>1, RemovePart
    <3> QED BY <3>1, <3>2
  <2>4. v \in State /\ RoundInv(v) /\ (e.retry => v.retry)
    BY <2>2, <2>3 DEF PartStep
  <2>5. d = IF v.retry THEN v ELSE [v EXCEPT !.dsyms.heap = FALSE]
    BY <1>3, <1>9
  <2> HIDE DEF v
  <2>6. PartStep(s, e0, T)
    BY <1>2, <2>1, PartTrans
  <2>7. PartStep(v, e0, T)
    BY <2>3, <2>6, PartTrans
  <2>8. v.dhdrs.tags["GNU_HASH"] = e.dhdrs.tags["GNU_HASH"]
        /\ v.dhdrs.tags["HASH"] = e.dhdrs.tags["HASH"]
    BY <2>1, <2>3 DEF PartStep, Tags
  <2>9. HashesDone(v)
    BY <1>1, <2>1, <2>3, <2>4, <2>8, HashesKept
  <2>10. CASE v.retry
    <3>1. d = v
      BY <2>5, <2>10
    <3> QED BY <2>3, <2>7, <2>9, <2>10, <3>1 DEF DsymsDone
  <2>11. CASE ~ v.retry
    <3>1. d = [v EXCEPT !.dsyms.heap = FALSE]
      BY <2>5, <2>11
    <3>2. v.dsyms.loaded
      BY <1>5, <2>1, <2>3
    <3>3. /\ PartStep(d, v, {}) /\ ~ d.dsyms.heap /\ d.retry = v.retry /\ d.image = v.image
          /\ d.dhdrs = v.dhdrs /\ d.dsyms.reordered = v.dsyms.reordered
          /\ d.modified = v.modified
      BY <2>4, <3>1, <3>2, WrittenPart
    <3>4. PartStep(d, e0, T)
      BY <2>7, <3>3, PartTrans
    <3>5. HashesDone(d) /\ d.dsyms.versions = v.dsyms.versions
      BY <2>9, <3>3, HashesKept DEF PartStep
    <3> QED BY <2>3, <3>3, <3>4, <3>5 DEF DsymsDone, Flushing
  <2> QED BY <2>10, <2>11
<1> QED BY <1>6, <1>7, <1>8, <1>9

\* The stage of the versions keeps the invariant.
LEMMA StageVersKeeps ==
  ASSUME FileInv, StageVers
  PROVE  FileInv' /\ (erw.retry => erw'.retry)
<1>1. /\ pc = "vers" /\ pc' = "dsyms"
      /\ erw' = IF "VERNEED" \in erw.modified THEN FlushVers(erw) ELSE erw
      /\ UNCHANGED <<cmd, inert, printed, left, file, act>>
  BY DEF StageVers, Stage
<1>2. /\ erw \in State /\ RoundInv(erw) /\ StageInv(erw) /\ LoadedInTime(erw)
      /\ file \in FileRecord
  BY CmdType DEF FileInv, ActsInv
<1>3. /\ erw' \in State /\ RoundInv(erw') /\ LoadedNow(erw') /\ VersDone(erw')
      /\ NoTable(erw')
      /\ \A k \in Kinds : Done(k, erw) => Done(k, erw')
      /\ file.dynamic => erw'.dhdrs.tags["STRTAB"] = "old"
      /\ erw'.dhdrs.needed => erw'.dhdrs.heap
      /\ erw'.phdrs = erw.phdrs /\ erw'.modified # {} /\ (erw.retry => erw'.retry)
  <2>1. CASE "VERNEED" \in erw.modified
    <3>1. erw' = FlushVers(erw)
      BY <1>1, <2>1
    <3> QED BY <1>1, <2>1, <3>1, FlushVersKeeps
  <2>2. CASE "VERNEED" \notin erw.modified
    <3>1. erw' = erw
      BY <1>1, <2>2
    <3>2. LoadedNow(erw)
      BY <1>1, <1>2, <2>2 DEF LoadedInTime, LoadedNow, Pending
    <3>3. erw.image.vers = << >> /\ NoTable(erw)
          /\ (file.dynamic => erw.dhdrs.tags["STRTAB"] = "old")
          /\ (erw.dhdrs.needed => erw.dhdrs.heap)
      BY <1>1, <1>2 DEF StageInv
    <3>4. VersDone(erw)
      BY <2>2, <3>3 DEF VersDone
    <3>5. erw.modified # {}
      BY <1>1, <1>2 DEF StageInv
    <3> HIDE DEF Done
    <3> QED BY <1>2, <3>1, <3>2, <3>3, <3>4, <3>5
  <2> QED BY <2>1, <2>2
<1>4. LoadedInTime(erw)'
  BY <1>1, <1>3 DEF LoadedInTime, LoadedNow
<1>5. VersDone(erw)' /\ NoTable(erw)'
  BY <1>1, <1>3 DEF VersDone, NoTable, Orig
<1>6. erw.phdrs.at = "old" /\ act = Len(cmd) + 1
  BY <1>1, <1>2 DEF StageInv
<1>7. StageInv(erw)'
  BY <1>1, <1>3, <1>5, <1>6 DEF StageInv
<1> QED BY <1>1, <1>3, <1>4, <1>7, StageKeeps DEF Stages

\* What does not touch the symbols, their entries or the hash tables keeps what their
\* stage has done.
LEMMA DsymsKept ==
  ASSUME NEW e, NEW d, NEW T, DsymsDone(e), PartStep(d, e, T),
         T \cap {"GNU_HASH", "HASH", "SYMTAB", "VERSYM"} = {},
         d.image.hash = e.image.hash, d.image.gnuHash = e.image.gnuHash,
         d.dsyms = e.dsyms
  PROVE  DsymsDone(d)
<1>1. /\ d.dhdrs.tags["GNU_HASH"] = e.dhdrs.tags["GNU_HASH"]
      /\ d.dhdrs.tags["HASH"] = e.dhdrs.tags["HASH"]
      /\ d.dhdrs.tags["SYMTAB"] = e.dhdrs.tags["SYMTAB"]
      /\ d.dhdrs.tags["VERSYM"] = e.dhdrs.tags["VERSYM"]
  BY DEF PartStep, Tags
<1>2. e.retry => d.retry
  BY DEF PartStep
<1>3. HashesDone(d)
  BY <1>1, <1>2, HashesKept DEF DsymsDone
<1> QED BY <1>1, <1>2, <1>3 DEF DsymsDone, PartStep

\* What the symbols stage and the ones after it keep.
AfterVers(e) == e \in State /\ RoundInv(e) /\ LoadedNow(e) /\ VersDone(e)

\* What holds before each of the later stages.
LEMMA StageAfter ==
  ASSUME FileInv, pc \in Stages \ {"vers"}
  PROVE  /\ AfterVers(erw) /\ file \in FileRecord /\ act = Len(cmd) + 1
         /\ erw.phdrs.at = "old" /\ erw.modified # {}
         /\ pc # "phdrs" => (erw.dhdrs.needed => erw.dhdrs.heap)
<1>1. /\ erw \in State /\ RoundInv(erw) /\ StageInv(erw) /\ LoadedInTime(erw)
      /\ file \in FileRecord
  BY CmdType DEF FileInv, ActsInv
<1> QED BY <1>1, InTimeNow DEF AfterVers, StageInv, Stages

\* The stage of the symbols keeps the invariant.
LEMMA StageDsymsKeeps ==
  ASSUME FileInv, StageDsyms
  PROVE  FileInv' /\ (erw.retry => erw'.retry)
<1>1. /\ pc = "dsyms" /\ pc' = "dynstr"
      /\ erw' = IF "DSYMS" \in erw.modified THEN FlushDsyms(erw) ELSE erw
      /\ UNCHANGED <<cmd, inert, printed, left, file, act>>
  BY DEF StageDsyms, Stage
<1>2. /\ AfterVers(erw) /\ file \in FileRecord /\ act = Len(cmd) + 1
      /\ erw.phdrs.at = "old" /\ (erw.dhdrs.needed => erw.dhdrs.heap)
      /\ erw.modified # {}
  BY <1>1, StageAfter DEF Stages
<1>3. NoTable(erw) /\ (file.dynamic => erw.dhdrs.tags["STRTAB"] = "old")
  BY <1>1 DEF FileInv, ActsInv, StageInv
<1>4. /\ AfterVers(erw') /\ DsymsDone(erw')
      /\ \A k \in Kinds : Done(k, erw) => Done(k, erw')
      /\ file.dynamic => erw'.dhdrs.tags["STRTAB"] = "old"
      /\ erw'.dhdrs.needed => erw'.dhdrs.heap
      /\ erw'.phdrs.at = "old" /\ erw'.modified # {} /\ (erw.retry => erw'.retry)
  <2>1. CASE "DSYMS" \in erw.modified
    <3> DEFINE T == {"GNU_HASH", "HASH", "SYMTAB", "VERSYM"}
               e == erw
               d == erw'
    <3>1. DsymsBefore(e)
      BY <1>2, <1>3, <2>1 DEF DsymsBefore, AfterVers, LoadedNow, Flushing, RoundInv, Loading
    <3>2. d = FlushDsyms(e)
      BY <1>1, <2>1
    <3>3. "VERNEED" \notin T /\ "DEBUG" \notin T /\ "STRTAB" \in Tags \ T
      BY DEF Tags
    <3>a. AfterVers(e) /\ (e.dhdrs.needed => e.dhdrs.heap) /\ e.phdrs.at = "old"
          /\ (file.dynamic => e.dhdrs.tags["STRTAB"] = "old") /\ e.modified # {}
      BY <1>2, <1>3
    <3> HIDE DEF e, d
    <3>4. PartStep(d, e, T) /\ DsymsDone(d)
      BY <1>2, <3>1, <3>2, FlushDsymsPart
    <3> HIDE DEF T
    <3>5. VersDone(d)
      BY <3>3, <3>4, <3>a, PartVers DEF AfterVers
    <3>6. LoadedNow(d)
      BY <3>1, <3>4, <3>a, PartNow DEF AfterVers, DsymsBefore, Flushing
    <3>7. \A k \in Kinds : Done(k, e) => Done(k, d)
      BY <3>3, <3>4, PartDone
    <3>8. d.phdrs = e.phdrs
      BY <3>4 DEF PartStep, Keeps, Fields
    <3>9. AfterVers(d)
      BY <3>4, <3>5, <3>6 DEF AfterVers, PartStep
    <3>10. /\ file.dynamic => d.dhdrs.tags["STRTAB"] = "old"
           /\ d.dhdrs.needed => d.dhdrs.heap
           /\ d.modified # {} /\ (e.retry => d.retry)
      BY <3>3, <3>4, <3>a DEF PartStep
    <3> HIDE DEF Done
    <3> QED BY <3>4, <3>7, <3>8, <3>9, <3>10, <3>a DEF e, d
  <2>2. CASE "DSYMS" \notin erw.modified
    <3>1. erw' = erw
      BY <1>1, <2>2
    <3>2. /\ Flagged(erw) /\ Entries(erw) /\ Contents(erw)
      BY <1>2 DEF AfterVers, RoundInv
    <3>3. \A t \in Tags : erw.dhdrs.tags[t] # "new"
      BY <1>3 DEF NoTable
    <3>4. ~ erw.dsyms.versions => erw.dhdrs.tags["VERSYM"] = "none"
      BY <2>2, <3>2 DEF Flagged, Entries
    <3>5. HashesDone(erw)
      BY <1>3, <2>2, <3>2, <3>3 DEF HashesDone, NoTable, Flagged, Entries, Tags
    <3>6. DsymsDone(erw)
      BY <2>2, <3>3, <3>4, <3>5 DEF DsymsDone, Tags
    <3> HIDE DEF Done
    <3> QED BY <1>2, <1>3, <3>1, <3>6
  <2> QED BY <2>1, <2>2
<1>5. LoadedInTime(erw)'
  BY <1>1, <1>4 DEF LoadedInTime, LoadedNow, AfterVers
<1>6. VersDone(erw)' /\ DsymsDone(erw)'
  BY <1>1, <1>4 DEF VersDone, DsymsDone, HashesDone, AfterVers
<1>7. StageInv(erw)'
  BY <1>1, <1>2, <1>4, <1>6 DEF StageInv
<1> QED BY <1>1, <1>4, <1>5, <1>7, StageKeeps DEF Stages, AfterVers

\* dynstr_flush writes the new string table, or the round has failed.
LEMMA FlushDynstrKeeps ==
  ASSUME file \in FileRecord, NEW e, AfterVers(e), DsymsDone(e), "DYNSTR" \in e.modified,
         e.dhdrs.needed => e.dhdrs.heap, NEW d, d = FlushDynstr(e)
  PROVE  /\ AfterVers(d) /\ DsymsDone(d) /\ DynstrDone(d)
         /\ \A k \in Kinds : Done(k, e) => Done(k, d)
         /\ d.dhdrs.needed => d.dhdrs.heap
         /\ d.phdrs = e.phdrs /\ "DYNSTR" \in d.modified /\ (e.retry => d.retry)
<1> DEFINE a == Address(e, "r", 1)
           s == Placed(e, 1, "STRTAB")
           i == [s.image EXCEPT !.strings = TRUE, !.added = e.added]
           T == {"STRTAB"}
<1>1. e \in State /\ RoundInv(e) /\ e.building /\ Flushing(e)
  BY DEF AfterVers, LoadedNow, RoundInv, Loading, Flushing
<1>2. /\ PartStep(s, e, T) /\ Flushing(s) /\ s.dhdrs.tags["STRTAB"] = a
      /\ a \in {"new", "zero"} /\ (a = "zero" => s.retry)
      /\ s.image = e.image /\ s.dsyms = e.dsyms
  <2>1. "STRTAB" \in Tags /\ 1 \in Int
    BY DEF Tags
  <2> HIDE DEF Placed
  <2> QED BY <1>1, <2>1, PlacePart
<1>3. d = IF a = "new" THEN [s EXCEPT !.image.strings = TRUE, !.image.added = e.added] ELSE s
  BY DEF FlushDynstr, Placed
<1> HIDE DEF s, a
<1>4. "VERNEED" \notin T /\ "DEBUG" \notin T
      /\ T \cap {"GNU_HASH", "HASH", "SYMTAB", "VERSYM"} = {}
  OBVIOUS
<1> HIDE DEF T
<1>5. VersDone(s) /\ LoadedNow(s) /\ DsymsDone(s)
      /\ \A k \in Kinds : Done(k, e) => Done(k, s)
  <2>1. VersDone(s)
    BY <1>2, <1>4, PartVers DEF AfterVers
  <2>2. LoadedNow(s)
    BY <1>1, <1>2, PartNow DEF AfterVers, Flushing
  <2>3. DsymsDone(s)
    BY <1>2, <1>4, DsymsKept
  <2>4. \A k \in Kinds : Done(k, e) => Done(k, s)
    BY <1>2, <1>4, PartDone
  <2> QED BY <2>1, <2>2, <2>3, <2>4
<1>6. s \in State /\ RoundInv(s) /\ (s.dhdrs.needed => s.dhdrs.heap)
      /\ "DYNSTR" \in s.modified /\ (e.retry => s.retry)
  BY <1>2 DEF PartStep
<1>7. s.phdrs = e.phdrs /\ s.building = e.building /\ s.added = e.added
  BY <1>2 DEF PartStep, Keeps, Fields
<1>8. CASE a # "new"
  <2>1. d = s /\ s.retry
    BY <1>2, <1>3, <1>8
  <2>2. DynstrDone(s)
    BY <1>1, <1>7, <2>1 DEF DynstrDone
  <2> HIDE DEF Done
  <2> QED BY <1>5, <1>6, <1>7, <2>1, <2>2 DEF AfterVers
<1>9. CASE a = "new"
  <2>1. s.image \in Image /\ e.added \in BOOLEAN
    BY <1>1, <1>6 DEF State
  <2>2. d = [s EXCEPT !.image = i]
    BY <1>3, <1>6, <1>9 DEF State, Image
  <2>3. i \in Image /\ i.strings /\ i.added = e.added /\ i.vers = s.image.vers
        /\ i.hash = s.image.hash /\ i.gnuHash = s.image.gnuHash
    BY <2>1 DEF Image
  <2> HIDE DEF i
  <2>4. d \in State /\ Keeps(d, s, {"image"}) /\ d.image = i
    BY <1>6, <2>2, <2>3 DEF State, Keeps, Fields
  <2>5. RoundInv(d) /\ \A k \in Kinds : Done(k, s) => Done(k, d)
    BY <1>6, <2>4, ImageRound
  <2>6. /\ d.modified = s.modified /\ d.retry = s.retry /\ d.phdrs = s.phdrs
        /\ d.dhdrs = s.dhdrs /\ d.relocs = s.relocs /\ d.dsyms = s.dsyms
        /\ d.vers = s.vers /\ d.building = s.building /\ d.added = s.added
    BY <2>4 DEF Keeps, Fields
  <2>7. VersDone(d)
    BY <1>5, <2>3, <2>4, <2>6 DEF VersDone
  <2>8. LoadedNow(d)
    BY <1>5, <2>6 DEF LoadedNow
  <2>9. DsymsDone(d)
    BY <1>5, <2>3, <2>4, <2>6 DEF DsymsDone, HashesDone
  <2>10. DynstrDone(d)
    BY <1>1, <1>2, <1>7, <1>9, <2>3, <2>4, <2>6 DEF DynstrDone
  <2>11. \A k \in Kinds : Done(k, e) => Done(k, d)
    <3> HIDE DEF Done
    <3> QED BY <1>5, <2>5
  <2> QED BY <1>6, <1>7, <2>4, <2>5, <2>6, <2>7, <2>8, <2>9, <2>10, <2>11 DEF AfterVers
<1> QED BY <1>8, <1>9

\* The stage of the strings keeps the invariant.
LEMMA StageDynstrKeeps ==
  ASSUME FileInv, StageDynstr
  PROVE  FileInv' /\ (erw.retry => erw'.retry)
<1>1. /\ pc = "dynstr" /\ pc' = "relocs"
      /\ erw' = IF "DYNSTR" \in erw.modified THEN FlushDynstr(erw) ELSE erw
      /\ UNCHANGED <<cmd, inert, printed, left, file, act>>
  BY DEF StageDynstr, Stage
<1>2. /\ AfterVers(erw) /\ file \in FileRecord /\ act = Len(cmd) + 1
      /\ erw.phdrs.at = "old" /\ (erw.dhdrs.needed => erw.dhdrs.heap)
      /\ erw.modified # {}
  BY <1>1, StageAfter DEF Stages
<1>3. DsymsDone(erw) /\ (file.dynamic => erw.dhdrs.tags["STRTAB"] = "old")
  BY <1>1 DEF FileInv, ActsInv, StageInv
<1>4. /\ AfterVers(erw') /\ DsymsDone(erw') /\ DynstrDone(erw')
      /\ \A k \in Kinds : Done(k, erw) => Done(k, erw')
      /\ erw'.dhdrs.needed => erw'.dhdrs.heap
      /\ erw'.phdrs.at = "old" /\ erw'.modified # {} /\ (erw.retry => erw'.retry)
  <2>1. CASE "DYNSTR" \in erw.modified
    <3>1. erw' = FlushDynstr(erw)
      BY <1>1, <2>1
    <3>2. /\ AfterVers(erw') /\ DsymsDone(erw') /\ DynstrDone(erw')
          /\ \A k \in Kinds : Done(k, erw) => Done(k, erw')
          /\ erw'.dhdrs.needed => erw'.dhdrs.heap
          /\ erw'.phdrs = erw.phdrs /\ "DYNSTR" \in erw'.modified
          /\ (erw.retry => erw'.retry)
      BY <1>2, <1>3, <2>1, <3>1, FlushDynstrKeeps
    <3> HIDE DEF Done
    <3> QED BY <1>2, <3>2
  <2>2. CASE "DYNSTR" \notin erw.modified
    <3>1. erw' = erw
      BY <1>1, <2>2
    <3>2. ~ erw.building
      BY <1>2, <2>2 DEF AfterVers, RoundInv, Flagged
    <3>3. DynstrDone(erw)
      BY <1>3, <3>2 DEF DynstrDone
    <3> HIDE DEF Done
    <3> QED BY <1>2, <1>3, <3>1, <3>3
  <2> QED BY <2>1, <2>2
<1>5. LoadedInTime(erw)'
  BY <1>1, <1>4 DEF LoadedInTime, LoadedNow, AfterVers
<1>6. VersDone(erw)' /\ DsymsDone(erw)' /\ DynstrDone(erw)'
  BY <1>1, <1>4 DEF VersDone, DsymsDone, HashesDone, DynstrDone, AfterVers
<1>7. StageInv(erw)'
  BY <1>1, <1>2, <1>4, <1>6 DEF StageInv
<1> QED BY <1>1, <1>4, <1>5, <1>7, StageKeeps DEF Stages, AfterVers

\* Relocations which have been written are no longer on the heap.
LEMMA RelocsPart ==
  ASSUME NEW e \in State, RoundInv(e), e.relocs.loaded, NEW d,
         d = [e EXCEPT !.relocs.heap = FALSE]
  PROVE  /\ PartStep(d, e, {}) /\ ~ d.relocs.heap /\ d.retry = e.retry /\ d.image = e.image
         /\ d.dhdrs = e.dhdrs /\ d.dsyms = e.dsyms
<1> DEFINE y == [e.relocs EXCEPT !.heap = FALSE]
<1>1. d = [e EXCEPT !.relocs = y] /\ e.relocs \in Relocs
  BY DEF State, Relocs
<1>2. /\ y \in Relocs /\ ~ y.heap /\ y.loaded = e.relocs.loaded
      /\ y.dirty = e.relocs.dirty /\ y.reordered = e.relocs.reordered
  BY <1>1 DEF Relocs
<1> HIDE DEF y
<1>3. d \in State /\ Keeps(d, e, {"relocs"}) /\ d.relocs = y
  BY <1>1, <1>2 DEF State, Keeps, Fields
<1>4. /\ d.retry = e.retry /\ d.used = e.used /\ d.image = e.image
      /\ d.phdrs = e.phdrs /\ d.dhdrs = e.dhdrs /\ d.vers = e.vers /\ d.dsyms = e.dsyms
      /\ d.building = e.building /\ d.added = e.added /\ d.modified = e.modified
  BY <1>3 DEF Keeps, Fields
<1>5. Loading(d)
  BY <1>2, <1>3, <1>4 DEF RoundInv, Loading
<1>6. Reasons(d)
  BY <1>4 DEF RoundInv, Reasons
<1>7. Flagged(d)
  BY <1>2, <1>3, <1>4 DEF RoundInv, Flagged
<1>8. Compacted(d) = Compacted(e)
  BY <1>4 DEF Compacted
<1>9. Contents(d)
  BY <1>2, <1>3, <1>4, <1>8 DEF RoundInv, Contents
<1>10. Entries(d)
  BY <1>4 DEF RoundInv, Entries
<1>11. Keeps(d, e, {"modified", "dhdrs", "used", "retry", "dsyms", "relocs", "image"})
  BY <1>3 DEF Keeps
<1> QED BY <1>2, <1>3, <1>4, <1>5, <1>6, <1>7, <1>9, <1>10, <1>11 DEF PartStep, RoundInv

\* relocs_flush leaves no relocation on the heap which has been remapped.
LEMMA FlushRelocsPart ==
  ASSUME file \in FileRecord, NEW e, AfterVers(e), "RELOCS" \in e.modified,
         NEW d, d = FlushRelocs(e)
  PROVE  /\ PartStep(d, e, {"RELA"}) /\ RelocsDone(d) /\ d.dsyms = e.dsyms
         /\ d.image = e.image
<1> DEFINE s == Placed(e, 1, "RELA")
           run == e.relocs.loaded /\ e.relocs.dirty /\ e.relocs.heap
<1>1. e \in State /\ RoundInv(e) /\ Flushing(e)
  BY DEF AfterVers, LoadedNow, RoundInv, Reasons, Loading, Flushing
<1>2. d = IF ~ run THEN e
          ELSE IF s.retry THEN s ELSE [s EXCEPT !.relocs.heap = FALSE]
  BY DEF FlushRelocs, Placed
<1>3. CASE ~ run
  <2>1. d = e
    BY <1>2, <1>3
  <2>2. RelocsDone(e)
    BY <1>1, <1>3 DEF RelocsDone, RoundInv, Contents
  <2>3. PartStep(e, e, {"RELA"})
    BY <1>1, PartRefl, PartTrans
  <2> QED BY <2>1, <2>2, <2>3
<1>4. CASE run
  <2>1. "RELA" \in Orig /\ "RELA" \in Tags /\ 1 \in Int
    BY <1>1, <1>4 DEF RoundInv, Contents, Tags
  <2>2. /\ PartStep(s, e, {"RELA"}) /\ s.image = e.image /\ s.dsyms = e.dsyms
        /\ s.relocs = e.relocs
    <3> HIDE DEF Placed
    <3> QED BY <1>1, <2>1, PlacePart
  <2> HIDE DEF s
  <2>3. s \in State /\ RoundInv(s)
    BY <2>2 DEF PartStep
  <2>4. CASE s.retry
    <3>1. d = s
      BY <1>2, <1>4, <2>4
    <3> QED BY <2>2, <2>4, <3>1 DEF RelocsDone
  <2>5. CASE ~ s.retry
    <3>1. d = [s EXCEPT !.relocs.heap = FALSE] /\ s.relocs.loaded
      BY <1>2, <1>4, <2>2, <2>5
    <3>2. /\ PartStep(d, s, {}) /\ ~ d.relocs.heap /\ d.image = s.image
          /\ d.dsyms = s.dsyms
      BY <2>3, <3>1, RelocsPart
    <3>3. PartStep(d, e, {"RELA"})
      BY <2>2, <3>2, PartTrans
    <3> QED BY <2>2, <3>2, <3>3 DEF RelocsDone
  <2> QED BY <2>4, <2>5
<1> QED BY <1>3, <1>4

\* The stage of the relocations keeps the invariant.
LEMMA StageRelocsKeeps ==
  ASSUME FileInv, StageRelocs
  PROVE  FileInv' /\ (erw.retry => erw'.retry)
<1> DEFINE e == erw
           d == erw'
           T == {"RELA"}
<1>1. /\ pc = "relocs" /\ pc' = "dhdrs"
      /\ d = IF "RELOCS" \in e.modified THEN FlushRelocs(e) ELSE e
      /\ UNCHANGED <<cmd, inert, printed, left, file, act>>
  BY DEF StageRelocs, Stage
<1>2. /\ AfterVers(e) /\ file \in FileRecord /\ act = Len(cmd) + 1
      /\ e.phdrs.at = "old" /\ (e.dhdrs.needed => e.dhdrs.heap)
      /\ e.modified # {}
  BY <1>1, StageAfter DEF Stages
<1>3. DsymsDone(e) /\ DynstrDone(e)
  BY <1>1 DEF FileInv, ActsInv, StageInv
<1> HIDE DEF e, d
<1>4. PartStep(d, e, T) /\ RelocsDone(d) /\ d.dsyms = e.dsyms /\ d.image = e.image
  <2>1. CASE "RELOCS" \in e.modified
    <3>1. d = FlushRelocs(e)
      BY <1>1, <2>1
    <3> QED BY <1>2, <2>1, <3>1, FlushRelocsPart
  <2>2. CASE "RELOCS" \notin e.modified
    <3>1. d = e
      BY <1>1, <2>2
    <3>2. RelocsDone(e)
      BY <1>2, <2>2 DEF AfterVers, RoundInv, Flagged, RelocsDone
    <3>3. PartStep(e, e, T)
      <4>1. PartStep(e, e, {}) /\ {} \subseteq T /\ T \subseteq T
        BY <1>2, PartRefl DEF AfterVers
      <4> QED BY <4>1, PartTrans
    <3> QED BY <3>1, <3>2, <3>3
  <2> QED BY <2>1, <2>2
<1>5. "VERNEED" \notin T /\ "DEBUG" \notin T /\ "STRTAB" \in Tags \ T
      /\ T \cap {"GNU_HASH", "HASH", "SYMTAB", "VERSYM"} = {}
  BY DEF Tags
<1> HIDE DEF T
<1>6. d.phdrs = e.phdrs /\ d.building = e.building /\ d.added = e.added
  BY <1>4 DEF PartStep, Keeps, Fields
<1>7. DsymsDone(d)
  BY <1>3, <1>4, <1>5, DsymsKept
<1>8. DynstrDone(d)
  BY <1>3, <1>4, <1>5, <1>6 DEF DynstrDone, PartStep
<1>9. VersDone(d)
  BY <1>2, <1>4, <1>5, PartVers DEF AfterVers
<1>10. \A k \in Kinds : Done(k, e) => Done(k, d)
  BY <1>4, <1>5, PartDone
<1>11. LoadedNow(d)
  <2>1. CASE "RELOCS" \in e.modified
    <3>1. e.dhdrs.loaded
      BY <1>2, <2>1 DEF AfterVers, LoadedNow, RoundInv, Reasons, Loading
    <3> QED BY <1>2, <1>4, <3>1, PartNow DEF AfterVers
  <2>2. CASE "RELOCS" \notin e.modified
    <3>1. d = e
      BY <1>1, <2>2
    <3> QED BY <1>2, <3>1 DEF AfterVers
  <2> QED BY <2>1, <2>2
<1>12. d \in State /\ RoundInv(d) /\ (d.dhdrs.needed => d.dhdrs.heap)
       /\ d.modified # {} /\ (e.retry => d.retry)
  BY <1>2, <1>4 DEF PartStep
<1>13. LoadedInTime(erw)'
  BY <1>1, <1>11 DEF LoadedInTime, LoadedNow, d
<1>14. VersDone(erw)' /\ DsymsDone(erw)' /\ DynstrDone(erw)' /\ RelocsDone(erw)'
  BY <1>1, <1>4, <1>7, <1>8, <1>9
     DEF VersDone, DsymsDone, HashesDone, DynstrDone, RelocsDone, d
<1>15. StageInv(erw)'
  BY <1>1, <1>2, <1>6, <1>12, <1>14 DEF StageInv, d
<1>16. \A k \in Kinds : Done(k, erw) => Done(k, erw')
  <2> HIDE DEF Done
  <2> QED BY <1>10 DEF e, d
<1>17. erw.retry => erw'.retry
  BY <1>12 DEF e, d
<1> QED BY <1>1, <1>12, <1>13, <1>15, <1>16, <1>17, StageKeeps DEF Stages, d

\* Of the two tables ld.so needs.
LEMMA PlaceMinimal ==
  ASSUME file \in FileRecord, NEW e \in State, RoundInv(e), Flushing(e),
         NEW t \in {"STRTAB", "SYMTAB"}, NEW d, d = Placed(e, 1, t)
  PROVE  /\ PartStep(d, e, {t}) /\ Flushing(d)
         /\ d.image = e.image /\ d.dsyms = e.dsyms /\ d.relocs = e.relocs
<1>1. t \in Tags /\ 1 \in Int /\ t \notin {"RELA", "VERNEED", "VERSYM", "DEBUG", "SONAME"}
      /\ t # "GNU_HASH"
  BY DEF Tags
<1> HIDE DEF Placed
<1> QED BY <1>1, PlacePart

\* dhdrs_ensure_minimal gives a file without symbols the two tables ld.so needs.
LEMMA EnsureMinimalPart ==
  ASSUME file \in FileRecord, NEW e \in State, RoundInv(e), Flushing(e),
         NEW d, d = EnsureMinimal(e)
  PROVE  /\ PartStep(d, e, {"STRTAB", "SYMTAB"}) /\ Flushing(d)
         /\ d.image = e.image /\ d.dsyms = e.dsyms /\ d.relocs = e.relocs
         /\ \A t \in {"STRTAB", "SYMTAB"} :
              e.dhdrs.tags[t] # "none" => d.dhdrs.tags[t] = e.dhdrs.tags[t]
<1> DEFINE T == {"STRTAB", "SYMTAB"}
           s == IF e.dhdrs.tags["STRTAB"] # "none" THEN e ELSE Placed(e, 1, "STRTAB")
<1>0. "STRTAB" \in Tags /\ "SYMTAB" \in Tags /\ 1 \in Int
  BY DEF Tags
<1>1. /\ PartStep(s, e, {"STRTAB"}) /\ Flushing(s)
      /\ s.image = e.image /\ s.dsyms = e.dsyms /\ s.relocs = e.relocs
      /\ e.dhdrs.tags["STRTAB"] # "none" => s.dhdrs.tags["STRTAB"] = e.dhdrs.tags["STRTAB"]
  <2>1. CASE e.dhdrs.tags["STRTAB"] # "none"
    <3>1. s = e
      BY <2>1
    <3>2. PartStep(e, e, {"STRTAB"})
      BY PartRefl, PartTrans
    <3> QED BY <3>1, <3>2
  <2>2. CASE e.dhdrs.tags["STRTAB"] = "none"
    <3>1. s = Placed(e, 1, "STRTAB")
      BY <2>2
    <3> HIDE DEF s, Placed
    <3> QED BY <1>0, <2>2, <3>1, PlacePart
  <2> QED BY <2>1, <2>2
<1>2. s \in State /\ RoundInv(s)
  BY <1>1 DEF PartStep
<1>3. d = IF s.dhdrs.tags["SYMTAB"] # "none" THEN s ELSE Placed(s, 1, "SYMTAB")
  BY DEF EnsureMinimal, Placed
<1>4. s.dhdrs.tags["SYMTAB"] = e.dhdrs.tags["SYMTAB"]
  BY <1>0, <1>1 DEF PartStep
<1>5. PartStep(s, e, T)
  <2>1. PartStep(s, s, {})
    BY <1>2, PartRefl
  <2> HIDE DEF s
  <2> QED BY <1>1, <2>1, PartTrans
<1> HIDE DEF s
<1>6. CASE s.dhdrs.tags["SYMTAB"] # "none"
  <2>1. d = s
    BY <1>3, <1>6
  <2> QED BY <1>1, <1>4, <1>5, <2>1
<1>7. CASE s.dhdrs.tags["SYMTAB"] = "none"
  <2>1. d = Placed(s, 1, "SYMTAB")
    BY <1>3, <1>7
  <2> HIDE DEF Placed
  <2>2. /\ PartStep(d, s, {"SYMTAB"}) /\ Flushing(d)
        /\ d.image = s.image /\ d.dsyms = s.dsyms /\ d.relocs = s.relocs
    <3>1. s \in State /\ RoundInv(s) /\ Flushing(s)
      BY <1>1, <1>2
    <3>2. "SYMTAB" \in {"STRTAB", "SYMTAB"}
      OBVIOUS
    <3> HIDE DEF T
    <3> QED BY <2>1, <3>1, <3>2, PlaceMinimal
  <2>3. PartStep(d, e, T)
    BY <1>5, <2>2, PartTrans
  <2>4. d.dhdrs.tags["STRTAB"] = s.dhdrs.tags["STRTAB"]
    BY <1>0, <2>2 DEF PartStep
  <2> QED BY <1>1, <1>4, <1>7, <2>2, <2>3, <2>4
<1> QED BY <1>6, <1>7

\* dhdrs_fixup_nulls is a step of a stage.
LEMMA FixupNullsPart ==
  ASSUME file \in FileRecord, NEW e \in State, RoundInv(e), Flushing(e),
         NEW d, d = FixupNulls(e)
  PROVE  /\ PartStep(d, e, {}) /\ Flushing(d) /\ d.retry = e.retry
         /\ d.image = e.image /\ d.dsyms = e.dsyms /\ d.relocs = e.relocs
<1> DEFINE heap == e.dhdrs.heap \/ e.dhdrs.nulls = 0
           nulls == IF e.dhdrs.heap \/ e.dhdrs.nulls = 0 THEN 1 ELSE e.dhdrs.nulls
           h == [e.dhdrs EXCEPT !.heap = heap, !.nulls = nulls]
<1>1. e.dhdrs \in Dhdrs
  BY DEF State
<1>2. heap \in BOOLEAN /\ (e.dhdrs.heap => heap)
  OBVIOUS
<1>3. nulls \in Int
  BY <1>1 DEF Dhdrs
<1>4. d = [e EXCEPT !.dhdrs = h]
  <2>1. d = [e EXCEPT !.dhdrs.heap = heap, !.dhdrs.nulls = nulls]
    BY <1>1 DEF FixupNulls, State, Dhdrs
  <2> HIDE DEF heap, nulls
  <2> QED BY <1>1, <2>1 DEF State, Dhdrs
<1> HIDE DEF heap, nulls
<1>5. /\ h \in Dhdrs /\ h.loaded = e.dhdrs.loaded /\ h.moved = e.dhdrs.moved
      /\ h.needed = e.dhdrs.needed /\ h.tags = e.dhdrs.tags /\ (e.dhdrs.heap => h.heap)
  BY <1>1, <1>2, <1>3 DEF Dhdrs
<1> HIDE DEF h
<1>6. d \in State /\ Keeps(d, e, {"dhdrs"}) /\ d.dhdrs = h
  BY <1>4, <1>5 DEF State, Keeps, Fields
<1>7. /\ d.retry = e.retry /\ d.phdrs = e.phdrs /\ d.modified = e.modified
      /\ d.image = e.image /\ d.dsyms = e.dsyms /\ d.relocs = e.relocs
  BY <1>6 DEF Keeps, Fields
<1>8. Keeps(d, e, {"modified", "dhdrs", "used", "retry"})
  BY <1>6 DEF Keeps
<1>9. TableStep(d, e, {})
  BY <1>5, <1>6, <1>7, <1>8 DEF TableStep
<1>10. Entries(d)
  BY <1>5, <1>6, <1>7 DEF RoundInv, Entries
<1> QED BY <1>7, <1>9, <1>10, TablePart

\* The dynamic section is written, and its program header made if there is none.
WriteStep(d, e) ==
  /\ d \in State /\ Keeps(d, e, {"used", "retry", "phdrs", "dhdrs"})
  /\ e.retry => d.retry
  /\ d.phdrs.at = e.phdrs.at /\ d.phdrs.interp = e.phdrs.interp
  /\ d.phdrs.dynamic # "none" /\ (d.phdrs.dynamic = "zero" => d.retry)
  /\ d.dhdrs.loaded = e.dhdrs.loaded /\ d.dhdrs.moved = e.dhdrs.moved
  /\ d.dhdrs.needed = e.dhdrs.needed /\ d.dhdrs.tags = e.dhdrs.tags
  /\ d.retry \/ ~ d.dhdrs.heap
  /\ d.dhdrs.heap => e.dhdrs.heap

\* A dynamic section on the heap is written, and the file has a PT_DYNAMIC, or the
\* round has failed.
LEMMA WriteDhdrsShape ==
  ASSUME NEW e \in State, RoundInv(e), NEW d, d = WriteDhdrs(e)
  PROVE  WriteStep(d, e)
<1> DEFINE n == e.dhdrs.live + e.dhdrs.nulls
           grown == e.phdrs.dynamic = "none"
           a == Address(e, "rw", n)
           b == Alloc(e, "rw", n)
           heap == e.phdrs.heap \/ grown
           count == IF grown THEN e.phdrs.count + 1 ELSE e.phdrs.count
           dynamic == IF grown THEN "zero" ELSE e.phdrs.dynamic
           p == [e.phdrs EXCEPT !.heap = heap, !.count = count, !.dynamic = dynamic]
           s == [b EXCEPT !.phdrs.heap = @ \/ grown,
                          !.phdrs.count = IF grown THEN @ + 1 ELSE @,
                          !.phdrs.dynamic = IF grown THEN "zero" ELSE @]
           q == [p EXCEPT !.dynamic = a]
           h == [e.dhdrs EXCEPT !.heap = FALSE]
<1>1. e.phdrs \in Phdrs /\ e.dhdrs \in Dhdrs
  BY DEF State
<1>2. n \in Int
  BY <1>1 DEF Dhdrs
<1>3. d = IF s.retry THEN s ELSE [s EXCEPT !.phdrs.dynamic = a, !.dhdrs.heap = FALSE]
  BY DEF WriteDhdrs
<1> HIDE DEF n
<1>4. /\ b \in State /\ Keeps(b, e, {"used", "retry"})
      /\ a \in {"new", "zero"} /\ b.retry = (e.retry \/ a = "zero")
  BY <1>2, AllocShape DEF Categories
<1> HIDE DEF a, b
<1>5. b.phdrs = e.phdrs /\ b.dhdrs = e.dhdrs
  BY <1>4 DEF Keeps, Fields
<1>6. heap \in BOOLEAN /\ count \in Int /\ dynamic \in Place \ {"none"}
  <2>1. heap \in BOOLEAN
    OBVIOUS
  <2>2. count \in Int
    BY <1>1 DEF Phdrs
  <2>3. dynamic \in Place \ {"none"}
    BY <1>1 DEF Phdrs, Place
  <2> QED BY <2>1, <2>2, <2>3
<1>7. s = [b EXCEPT !.phdrs = p]
  <2>1. s = [b EXCEPT !.phdrs.heap = heap, !.phdrs.count = count, !.phdrs.dynamic = dynamic]
    BY <1>4, <1>5 DEF State, Phdrs
  <2> HIDE DEF heap, count, dynamic, s
  <2> QED BY <1>1, <1>4, <1>5, <2>1 DEF State, Phdrs
<1>8. dynamic = "zero" => e.retry \/ grown
  BY DEF RoundInv, Entries
<1> HIDE DEF heap, count, grown, s
<1>9. /\ p \in Phdrs /\ p.at = e.phdrs.at /\ p.interp = e.phdrs.interp /\ p.dynamic = dynamic
  BY <1>1, <1>6 DEF Phdrs
<1>10. /\ q \in Phdrs /\ q.at = e.phdrs.at /\ q.interp = e.phdrs.interp /\ q.dynamic = a
  <2> HIDE DEF p, dynamic
  <2> QED BY <1>4, <1>9 DEF Phdrs, Place
<1> HIDE DEF p
<1>11. s \in State /\ Keeps(s, b, {"phdrs"}) /\ s.phdrs = p
  BY <1>4, <1>7, <1>9 DEF State, Keeps, Fields
<1>12. s.retry = b.retry /\ s.dhdrs = e.dhdrs
  BY <1>5, <1>11 DEF Keeps, Fields
<1>13. Keeps(s, e, {"used", "retry", "phdrs", "dhdrs"})
  BY <1>4, <1>11 DEF Keeps
<1>14. CASE s.retry
  <2>1. d = s
    BY <1>3, <1>14
  <2>2. dynamic # "none"
    BY <1>6
  <2> HIDE DEF dynamic
  <2> QED BY <1>4, <1>9, <1>11, <1>12, <1>13, <1>14, <2>1, <2>2 DEF WriteStep
<1>15. CASE ~ s.retry
  <2>1. d = [s EXCEPT !.phdrs.dynamic = a, !.dhdrs.heap = FALSE]
    BY <1>3, <1>15
  <2>2. /\ h \in Dhdrs /\ ~ h.heap /\ h.loaded = e.dhdrs.loaded /\ h.moved = e.dhdrs.moved
        /\ h.needed = e.dhdrs.needed /\ h.tags = e.dhdrs.tags
    BY <1>1 DEF Dhdrs
  <2>3. d = [s EXCEPT !.phdrs = q, !.dhdrs = h]
    BY <1>9, <1>11, <1>12, <2>1 DEF State, Phdrs, Dhdrs
  <2> HIDE DEF q, h
  <2>4. d \in State /\ Keeps(d, s, {"phdrs", "dhdrs"}) /\ d.phdrs = q /\ d.dhdrs = h
    BY <1>10, <1>11, <2>2, <2>3 DEF State, Keeps, Fields
  <2>5. Keeps(d, e, {"used", "retry", "phdrs", "dhdrs"})
    BY <1>13, <2>4 DEF Keeps
  <2>6. d.retry = s.retry
    BY <2>4 DEF Keeps, Fields
  <2> QED BY <1>4, <1>10, <1>12, <1>15, <2>2, <2>4, <2>5, <2>6 DEF WriteStep
<1> QED BY <1>14, <1>15

\* What has been done stays so when the dynamic section is written.
LEMMA WriteKeeps ==
  ASSUME NEW e, AfterVers(e), e.modified # {}, NEW d, WriteStep(d, e)
  PROVE  /\ AfterVers(d)
         /\ DsymsDone(e) => DsymsDone(d)
         /\ DynstrDone(e) => DynstrDone(d)
         /\ RelocsDone(e) => RelocsDone(d)
         /\ DhdrsDone(d)
         /\ \A k \in Kinds : Done(k, e) => Done(k, d)
<1>1. /\ d.modified = e.modified /\ d.image = e.image /\ d.relocs = e.relocs
      /\ d.dsyms = e.dsyms /\ d.vers = e.vers /\ d.building = e.building
      /\ d.added = e.added
  BY DEF WriteStep, Keeps, Fields
<1>2. e \in State /\ RoundInv(e) /\ LoadedNow(e) /\ VersDone(e)
  BY DEF AfterVers
<1>3. Loading(d)
  BY <1>1, <1>2 DEF RoundInv, Loading, WriteStep
<1>4. Reasons(d)
  BY <1>1, <1>2 DEF RoundInv, Reasons
<1>5. Flagged(d)
  BY <1>1, <1>2 DEF RoundInv, Flagged, WriteStep
<1>6. Compacted(d) = Compacted(e)
  BY <1>1 DEF Compacted
<1>7. Contents(d)
  BY <1>1, <1>2, <1>6 DEF RoundInv, Contents, WriteStep
<1>8. Entries(d)
  BY <1>2 DEF RoundInv, Entries, WriteStep
<1>9. LoadedNow(d) /\ VersDone(d)
  BY <1>1, <1>2 DEF LoadedNow, VersDone, WriteStep
<1>10. AfterVers(d)
  BY <1>3, <1>4, <1>5, <1>7, <1>8, <1>9 DEF AfterVers, RoundInv, WriteStep
<1>11. ASSUME DsymsDone(e) PROVE DsymsDone(d)
  BY <1>1, <1>11 DEF DsymsDone, HashesDone, WriteStep
<1>12. ASSUME DynstrDone(e) PROVE DynstrDone(d)
  BY <1>1, <1>12 DEF DynstrDone, WriteStep
<1>13. ASSUME RelocsDone(e) PROVE RelocsDone(d)
  BY <1>1, <1>13 DEF RelocsDone, WriteStep
<1>14. DhdrsDone(d)
  BY DEF DhdrsDone, WriteStep
<1>15. ASSUME NEW k \in Kinds, Done(k, e) PROVE Done(k, d)
  BY <1>1, <1>15 DEF Done, Kinds, WriteStep
<1> HIDE DEF Done
<1> QED BY <1>10, <1>11, <1>12, <1>13, <1>14, <1>15

\* dhdrs_flush leaves the dynamic section written, and undoes nothing of the stages
\* before.
LEMMA FlushDhdrsKeeps ==
  ASSUME file \in FileRecord, NEW e, AfterVers(e), DsymsDone(e), DynstrDone(e),
         RelocsDone(e), "DHDRS" \in e.modified, e.dhdrs.needed => e.dhdrs.heap,
         NEW d, d = FlushDhdrs(e)
  PROVE  /\ AfterVers(d) /\ DsymsDone(d) /\ DynstrDone(d) /\ RelocsDone(d) /\ DhdrsDone(d)
         /\ \A k \in Kinds : Done(k, e) => Done(k, d)
         /\ d.phdrs.at = e.phdrs.at /\ d.modified # {} /\ (e.retry => d.retry)
<1> DEFINE T == {"STRTAB", "SYMTAB"}
           c == IF e.dhdrs.heap THEN EnsureMinimal(e) ELSE e
           m == FixupNulls(c)
<1>1. e \in State /\ RoundInv(e) /\ Flushing(e)
  BY DEF AfterVers, LoadedNow, Flushing
<1>2. /\ PartStep(c, e, T) /\ Flushing(c)
      /\ c.image = e.image /\ c.dsyms = e.dsyms /\ c.relocs = e.relocs
      /\ \A t \in T : e.dhdrs.tags[t] # "none" => c.dhdrs.tags[t] = e.dhdrs.tags[t]
  <2>1. CASE e.dhdrs.heap
    <3>1. c = EnsureMinimal(e)
      BY <2>1
    <3> HIDE DEF c
    <3> QED BY <1>1, <3>1, EnsureMinimalPart
  <2>2. CASE ~ e.dhdrs.heap
    <3>1. c = e
      BY <2>2
    <3>2. PartStep(e, e, {}) /\ {} \subseteq T /\ T \subseteq T
      BY <1>1, PartRefl
    <3>3. PartStep(e, e, T)
      BY <3>2, PartTrans
    <3> QED BY <1>1, <3>1, <3>3
  <2> QED BY <2>1, <2>2
<1>3. d = IF m.dhdrs.heap THEN WriteDhdrs(m) ELSE m
  BY DEF FlushDhdrs
<1> HIDE DEF c
<1>4. /\ PartStep(m, c, {}) /\ m.retry = c.retry
      /\ m.image = c.image /\ m.dsyms = c.dsyms /\ m.relocs = c.relocs
  BY <1>2, FixupNullsPart DEF PartStep
<1> HIDE DEF m
<1>5. PartStep(m, e, T)
  <2>1. {} \subseteq T /\ T \subseteq T
    OBVIOUS
  <2> HIDE DEF T
  <2> QED BY <1>2, <1>4, <2>1, PartTrans
<1>6. \A t \in T : e.dhdrs.tags[t] # "none" => m.dhdrs.tags[t] = e.dhdrs.tags[t]
  BY <1>2, <1>4 DEF PartStep, Tags
<1>7. "VERNEED" \notin T /\ "DEBUG" \notin T /\ "STRTAB" \in T /\ "SYMTAB" \in T
      /\ "GNU_HASH" \in Tags \ T /\ "HASH" \in Tags \ T /\ "VERSYM" \in Tags \ T
  BY DEF Tags
<1> HIDE DEF T
<1>8. m.phdrs = e.phdrs /\ m.building = e.building /\ m.added = e.added
  BY <1>5 DEF PartStep, Keeps, Fields
<1>9. AfterVers(m) /\ \A k \in Kinds : Done(k, e) => Done(k, m)
  <2>1. VersDone(m)
    BY <1>5, <1>7, PartVers DEF AfterVers
  <2>2. LoadedNow(m)
    BY <1>1, <1>5, PartNow DEF AfterVers, Flushing
  <2>3. \A k \in Kinds : Done(k, e) => Done(k, m)
    BY <1>5, <1>7, PartDone
  <2> HIDE DEF Done
  <2> QED BY <1>5, <2>1, <2>2, <2>3 DEF AfterVers, PartStep
<1>10. e.retry => m.retry
  BY <1>5 DEF PartStep
<1>11. DsymsDone(m)
  <2>1. /\ m.dhdrs.tags["GNU_HASH"] = e.dhdrs.tags["GNU_HASH"]
        /\ m.dhdrs.tags["HASH"] = e.dhdrs.tags["HASH"]
        /\ m.dhdrs.tags["VERSYM"] = e.dhdrs.tags["VERSYM"]
    BY <1>5, <1>7 DEF PartStep
  <2>2. HashesDone(m)
    BY <1>2, <1>4, <1>10, <2>1 DEF DsymsDone, HashesDone
  <2>3. file.dynamic => m.dhdrs.tags["SYMTAB"] = e.dhdrs.tags["SYMTAB"]
    BY <1>1, <1>6, <1>7 DEF RoundInv, Entries
  <2>4. "DSYMS" \in m.modified <=> "DSYMS" \in e.modified
    BY <1>5 DEF PartStep
  <2> QED BY <1>2, <1>4, <1>10, <2>1, <2>2, <2>3, <2>4 DEF DsymsDone
<1>12. DynstrDone(m)
  <2>1. file.dynamic => m.dhdrs.tags["STRTAB"] = e.dhdrs.tags["STRTAB"]
    BY <1>1, <1>6, <1>7 DEF RoundInv, Entries
  <2>2. e.dhdrs.tags["STRTAB"] = "new" => m.dhdrs.tags["STRTAB"] = "new"
    BY <1>6, <1>7
  <2> QED BY <1>2, <1>4, <1>8, <1>10, <2>1, <2>2 DEF DynstrDone
<1>13. RelocsDone(m)
  BY <1>2, <1>4, <1>10 DEF RelocsDone
<1>14. m.modified # {} /\ (m.dhdrs.needed => m.dhdrs.heap)
  BY <1>5 DEF PartStep
<1>15. CASE m.dhdrs.heap
  <2>1. d = WriteDhdrs(m)
    BY <1>3, <1>15
  <2>2. WriteStep(d, m)
    BY <1>9, <2>1, WriteDhdrsShape DEF AfterVers
  <2>3. /\ AfterVers(d) /\ DsymsDone(d) /\ DynstrDone(d) /\ RelocsDone(d) /\ DhdrsDone(d)
        /\ \A k \in Kinds : Done(k, m) => Done(k, d)
    BY <1>9, <1>11, <1>12, <1>13, <1>14, <2>2, WriteKeeps
  <2>4. d.phdrs.at = e.phdrs.at
    BY <1>8, <2>2 DEF WriteStep
  <2>5. d.modified = m.modified /\ (m.retry => d.retry)
    BY <2>2 DEF WriteStep, Keeps, Fields
  <2> HIDE DEF Done
  <2> QED BY <1>9, <1>10, <1>14, <2>3, <2>4, <2>5
<1>16. CASE ~ m.dhdrs.heap
  <2>1. d = m
    BY <1>3, <1>16
  <2>2. DhdrsDone(m)
    BY <1>14, <1>16 DEF DhdrsDone
  <2> HIDE DEF Done
  <2> QED BY <1>8, <1>9, <1>10, <1>11, <1>12, <1>13, <1>14, <2>1, <2>2
<1> QED BY <1>15, <1>16

\* The stage of the dynamic section keeps the invariant.
LEMMA StageDhdrsKeeps ==
  ASSUME FileInv, StageDhdrs
  PROVE  FileInv' /\ (erw.retry => erw'.retry)
<1>1. /\ pc = "dhdrs" /\ pc' = "phdrs"
      /\ erw' = IF "DHDRS" \in erw.modified THEN FlushDhdrs(erw) ELSE erw
      /\ UNCHANGED <<cmd, inert, printed, left, file, act>>
  BY DEF StageDhdrs, Stage
<1>2. /\ AfterVers(erw) /\ file \in FileRecord /\ act = Len(cmd) + 1
      /\ erw.phdrs.at = "old" /\ (erw.dhdrs.needed => erw.dhdrs.heap)
      /\ erw.modified # {}
  BY <1>1, StageAfter DEF Stages
<1>3. DsymsDone(erw) /\ DynstrDone(erw) /\ RelocsDone(erw)
  BY <1>1 DEF FileInv, ActsInv, StageInv
<1>4. /\ AfterVers(erw') /\ DsymsDone(erw') /\ DynstrDone(erw') /\ RelocsDone(erw')
      /\ DhdrsDone(erw')
      /\ \A k \in Kinds : Done(k, erw) => Done(k, erw')
      /\ erw'.phdrs.at = "old" /\ erw'.modified # {} /\ (erw.retry => erw'.retry)
  <2>1. CASE "DHDRS" \in erw.modified
    <3>1. erw' = FlushDhdrs(erw)
      BY <1>1, <2>1
    <3> DEFINE d == erw'
    <3>2. d = FlushDhdrs(erw)
      BY <3>1
    <3> HIDE DEF d
    <3>3. /\ AfterVers(d) /\ DsymsDone(d) /\ DynstrDone(d) /\ RelocsDone(d) /\ DhdrsDone(d)
          /\ \A k \in Kinds : Done(k, erw) => Done(k, d)
          /\ d.phdrs.at = erw.phdrs.at /\ d.modified # {} /\ (erw.retry => d.retry)
      BY <1>2, <1>3, <2>1, <3>2, FlushDhdrsKeeps
    <3> HIDE DEF Done
    <3> QED BY <1>2, <3>3 DEF d
  <2>2. CASE "DHDRS" \notin erw.modified
    <3>1. erw' = erw
      BY <1>1, <2>2
    <3>2. ~ erw.dhdrs.needed
      BY <1>2, <2>2 DEF AfterVers, RoundInv, Flagged
    <3>3. DhdrsDone(erw)
      BY <2>2, <3>2 DEF DhdrsDone
    <3> HIDE DEF Done
    <3> QED BY <1>2, <1>3, <3>1, <3>3
  <2> QED BY <2>1, <2>2
<1>5. LoadedInTime(erw)'
  BY <1>1, <1>4 DEF LoadedInTime, LoadedNow, AfterVers
<1>6. VersDone(erw)' /\ DsymsDone(erw)' /\ DynstrDone(erw)' /\ RelocsDone(erw)'
      /\ DhdrsDone(erw)'
  BY <1>1, <1>4 DEF VersDone, DsymsDone, HashesDone, DynstrDone, RelocsDone, DhdrsDone,
                    AfterVers
<1>7. StageInv(erw)'
  BY <1>1, <1>2, <1>4, <1>6 DEF StageInv
<1> QED BY <1>1, <1>4, <1>5, <1>7, StageKeeps DEF Stages, AfterVers

\* Where the program headers are written, and what else this changes.
PhdrsStep(d, e) ==
  /\ d \in State /\ Keeps(d, e, {"modified", "used", "retry", "phdrs", "dhdrs"})
  /\ e.retry => d.retry
  /\ d.modified = e.modified \/ (d.retry /\ d.modified = e.modified \cup {"DYNSTR"})
  /\ d.phdrs.interp = e.phdrs.interp /\ d.phdrs.dynamic = e.phdrs.dynamic
  /\ d.phdrs.at \in {e.phdrs.at, "new"}
  /\ d.dhdrs.heap = e.dhdrs.heap /\ d.dhdrs.moved = e.dhdrs.moved
  /\ d.dhdrs.needed = e.dhdrs.needed /\ d.dhdrs.tags = e.dhdrs.tags
  /\ e.dhdrs.loaded => d.dhdrs.loaded

\* The last stage may do nothing.
LEMMA PhdrsRefl ==
  ASSUME NEW e \in State
  PROVE  PhdrsStep(e, e)
  BY DEF PhdrsStep, Keeps

\* The last stage may be done in two steps.
LEMMA PhdrsTrans ==
  ASSUME NEW e, NEW c, NEW d, PhdrsStep(c, e), PhdrsStep(d, c)
  PROVE  PhdrsStep(d, e)
<1>1. Keeps(d, e, {"modified", "used", "retry", "phdrs", "dhdrs"})
  BY DEF PhdrsStep, Keeps
<1>2. d.modified = e.modified \/ (d.retry /\ d.modified = e.modified \cup {"DYNSTR"})
  BY DEF PhdrsStep
<1> QED BY <1>1, <1>2 DEF PhdrsStep

\* An allocation is such a step.
LEMMA PhdrsAlloc ==
  ASSUME NEW e \in State, NEW n \in Int, NEW d, d = Alloc(e, "r", n)
  PROVE  /\ PhdrsStep(d, e) /\ d.phdrs = e.phdrs /\ d.dhdrs = e.dhdrs
         /\ Address(e, "r", n) = "zero" => d.retry
<1>1. /\ d \in State /\ Keeps(d, e, {"used", "retry"})
      /\ d.retry = (e.retry \/ Address(e, "r", n) = "zero")
  BY AllocShape DEF Categories
<1>2. d.phdrs = e.phdrs /\ d.dhdrs = e.dhdrs /\ d.modified = e.modified
  BY <1>1 DEF Keeps, Fields
<1>3. Keeps(d, e, {"modified", "used", "retry", "phdrs", "dhdrs"})
  BY <1>1 DEF Keeps
<1> QED BY <1>1, <1>2, <1>3 DEF PhdrsStep

\* So is moving the program headers.
LEMMA PhdrsSet ==
  ASSUME NEW e \in State, NEW p \in Phdrs, p.interp = e.phdrs.interp,
         p.dynamic = e.phdrs.dynamic, p.at \in {e.phdrs.at, "new"},
         NEW d, d = [e EXCEPT !.phdrs = p]
  PROVE  PhdrsStep(d, e) /\ d.phdrs = p /\ d.dhdrs = e.dhdrs /\ d.retry = e.retry
         /\ d.used = e.used
<1>1. d \in State /\ Keeps(d, e, {"phdrs"}) /\ d.phdrs = p
  BY DEF State, Keeps, Fields
<1>2. d.dhdrs = e.dhdrs /\ d.modified = e.modified /\ d.retry = e.retry /\ d.used = e.used
  BY <1>1 DEF Keeps, Fields
<1>3. Keeps(d, e, {"modified", "used", "retry", "phdrs", "dhdrs"})
  BY <1>1 DEF Keeps
<1> QED BY <1>1, <1>2, <1>3 DEF PhdrsStep

\* So is loading the dynamic section.
LEMMA PhdrsLoad ==
  ASSUME file \in FileRecord, NEW e \in State, RoundInv(e), NEW d, d = LoadDhdrs(e)
  PROVE  PhdrsStep(d, e) /\ d.phdrs = e.phdrs /\ d.retry = e.retry
         /\ d.modified = e.modified
<1>1. LoadStep(d, e) /\ d.dhdrs.loaded /\ Keeps(d, e, {"dhdrs"})
  BY LoadDhdrsShape DEF RoundInv, Contents
<1>2. d.phdrs = e.phdrs /\ d.retry = e.retry /\ d.modified = e.modified
  BY <1>1 DEF Keeps, Fields
<1>3. Keeps(d, e, {"modified", "used", "retry", "phdrs", "dhdrs"})
  BY <1>1 DEF Keeps
<1> QED BY <1>1, <1>2, <1>3 DEF PhdrsStep, LoadStep

\* What such a step keeps.  With the strings flagged the round has to be repeated.
LoadedAtEnd(e) ==
  /\ "VERNEED" \in e.modified => e.vers.loaded
  /\ "DSYMS" \in e.modified => e.dsyms.loaded
  /\ "DHDRS" \in e.modified => e.dhdrs.loaded
  /\ "DYNSTR" \in e.modified => e.building \/ e.retry

\* Such a step undoes nothing of the stages before; a flag which it sets comes with a
\* new round.
LEMMA PhdrsKeeps ==
  ASSUME NEW e, AfterVers(e), e.modified # {}, e.phdrs.at = "old", NEW d, PhdrsStep(d, e)
  PROVE  /\ d \in State /\ RoundInv(d) /\ LoadedAtEnd(d) /\ VersDone(d) /\ d.modified # {}
         /\ DsymsDone(e) => DsymsDone(d)
         /\ DynstrDone(e) => DynstrDone(d)
         /\ RelocsDone(e) => RelocsDone(d)
         /\ DhdrsDone(e) => DhdrsDone(d)
         /\ \A k \in Kinds : Done(k, e) => Done(k, d)
<1>1. /\ d.image = e.image /\ d.relocs = e.relocs /\ d.dsyms = e.dsyms /\ d.vers = e.vers
      /\ d.building = e.building /\ d.added = e.added
  BY DEF PhdrsStep, Keeps, Fields
<1>2. e \in State /\ RoundInv(e) /\ LoadedNow(e) /\ VersDone(e)
  BY DEF AfterVers
<1>3. d.modified \in {e.modified, e.modified \cup {"DYNSTR"}} /\ d.modified # {}
  BY DEF PhdrsStep
<1>4. Loading(d)
  BY <1>1, <1>2 DEF RoundInv, Loading, PhdrsStep
<1>5. Reasons(d)
  BY <1>2, <1>3 DEF RoundInv, Reasons
<1>6. Flagged(d)
  BY <1>1, <1>2, <1>3 DEF RoundInv, Flagged, PhdrsStep
<1>7. Compacted(d) = Compacted(e)
  BY <1>1 DEF Compacted
<1>8. Contents(d)
  BY <1>1, <1>2, <1>7 DEF RoundInv, Contents, PhdrsStep
<1>9. Entries(d)
  BY <1>2 DEF RoundInv, Entries, PhdrsStep
<1>10. LoadedAtEnd(d) /\ VersDone(d)
  BY <1>1, <1>2 DEF LoadedAtEnd, LoadedNow, VersDone, PhdrsStep
<1>11. ASSUME DsymsDone(e) PROVE DsymsDone(d)
  BY <1>1, <1>3, <1>11 DEF DsymsDone, HashesDone, PhdrsStep
<1>12. ASSUME DynstrDone(e) PROVE DynstrDone(d)
  BY <1>1, <1>12 DEF DynstrDone, PhdrsStep
<1>13. ASSUME RelocsDone(e) PROVE RelocsDone(d)
  BY <1>1, <1>13 DEF RelocsDone, PhdrsStep
<1>14. ASSUME DhdrsDone(e) PROVE DhdrsDone(d)
  BY <1>3, <1>14 DEF DhdrsDone, PhdrsStep
<1>15. ASSUME NEW k \in Kinds, Done(k, e) PROVE Done(k, d)
  BY <1>1, <1>15 DEF Done, Kinds, PhdrsStep
<1>16. d \in State
  BY DEF PhdrsStep
<1> HIDE DEF Done
<1> QED BY <1>3, <1>4, <1>5, <1>6, <1>8, <1>9, <1>10, <1>11, <1>12, <1>13, <1>14, <1>15,
           <1>16 DEF RoundInv

\* No new memory has been taken.
LEMMA NothingTaken ==
  ASSUME NEW e \in State, Mask(e) \subseteq {"f"}
  PROVE  \A c \in {"r", "rw"} : e.used[c] <= 0
<1> SUFFICES ASSUME NEW c \in {"r", "rw"} PROVE e.used[c] <= 0
  OBVIOUS
<1>1. c \in Categories /\ c \notin Mask(e)
  BY DEF Categories
<1>2. e.used[c] \in Int /\ e.room[c] \in Nat /\ ~ (e.room[c] + e.used[c] > 0)
  BY <1>1 DEF Mask, State
<1> QED BY <1>2

\* Moving the program headers leaves nothing on the heap and the strings where
\* ldconfig finds them, or the round has failed.
LEMMA MovePhdrsPart ==
  ASSUME file \in FileRecord, NEW e, AfterVers(e), e.modified # {}, e.phdrs.at = "old",
         DynstrDone(e), NEW d, d = MovePhdrs(e)
  PROVE  PhdrsStep(d, e) /\ PhdrsDone(d)
<1> DEFINE n == e.phdrs.count
           a == Alloc(e, "r", n)
           more == Alloc(a, "r", ExtraPhdrs(a))
           first == \A c \in Categories : e.room[c] = 0
           b == Alloc(a, "r", 1)
           p == [b.phdrs EXCEPT !.count = @ + 1]
           w == IF file.far THEN [b EXCEPT !.phdrs.count = @ + 1] ELSE a
           l == LoadDhdrs(w)
           again == /\ "DYNSTR" \notin l.modified
                    /\ l.dhdrs.tags["SONAME"] # "none"
                    /\ l.dhdrs.tags["STRTAB"] # "none" /\ file.strFar
           m == Modify(l, {"DYNSTR"})
           s == IF again THEN [m EXCEPT !.retry = TRUE]
                ELSE IF "DYNSTR" \in l.modified THEN w ELSE l
           q == [s.phdrs EXCEPT !.heap = FALSE, !.at = "new"]
<1>1. d = IF Address(e, "r", n) = "zero" THEN IF first THEN more ELSE a
          ELSE IF s.retry THEN s ELSE [s EXCEPT !.phdrs.heap = FALSE, !.phdrs.at = "new"]
  BY DEF MovePhdrs
<1>2. e \in State /\ n \in Int
  BY DEF AfterVers, State, Phdrs
<1>3. PhdrsStep(a, e) /\ a.phdrs = e.phdrs /\ a.dhdrs = e.dhdrs
      /\ (Address(e, "r", n) = "zero" => a.retry)
  BY <1>2, PhdrsAlloc
<1>4. a \in State
  BY <1>3 DEF PhdrsStep
<1> HIDE DEF a, s
<1>5. CASE Address(e, "r", n) = "zero"
  <2>1. ExtraPhdrs(a) \in Int
    BY DEF ExtraPhdrs
  <2>2. PhdrsStep(more, a)
    BY <1>4, <2>1, PhdrsAlloc
  <2> HIDE DEF more
  <2>3. PhdrsStep(more, e) /\ (a.retry => more.retry)
    BY <1>3, <2>2, PhdrsTrans DEF PhdrsStep
  <2> QED BY <1>1, <1>3, <1>5, <2>3 DEF PhdrsDone
<1>6. CASE Address(e, "r", n) # "zero"
  <2>1. PhdrsStep(w, e) /\ w.phdrs.at = e.phdrs.at
    <3>1. CASE file.far
      <4>1. PhdrsStep(b, a) /\ b.phdrs = a.phdrs
        BY <1>4, PhdrsAlloc
      <4>2. b \in State /\ b.phdrs \in Phdrs
        BY <4>1 DEF PhdrsStep, State
      <4>3. w = [b EXCEPT !.phdrs = p]
        BY <3>1, <4>2 DEF State, Phdrs
      <4>4. b.phdrs.count + 1 \in Int
        BY <4>2 DEF Phdrs
      <4> HIDE DEF b, w
      <4>5. p \in Phdrs /\ p.interp = b.phdrs.interp /\ p.dynamic = b.phdrs.dynamic
            /\ p.at = b.phdrs.at
        BY <4>2, <4>4 DEF Phdrs
      <4> HIDE DEF p
      <4>6. PhdrsStep(w, b) /\ w.phdrs = p
        BY <4>2, <4>3, <4>5, PhdrsSet
      <4>7. PhdrsStep(w, a)
        BY <4>1, <4>6, PhdrsTrans
      <4> QED BY <1>3, <4>1, <4>5, <4>6, <4>7, PhdrsTrans
    <3>2. CASE ~ file.far
      BY <1>3, <3>2
    <3> QED BY <3>1, <3>2
  <2> HIDE DEF w
  <2>2. w \in State /\ RoundInv(w)
    BY <2>1, PhdrsKeeps
  <2>3. PhdrsStep(l, w) /\ l.phdrs = w.phdrs /\ l.retry = w.retry /\ l.modified = w.modified
    BY <2>2, PhdrsLoad
  <2> HIDE DEF l
  <2>4. PhdrsStep(l, e) /\ l \in State
    BY <2>1, <2>3, PhdrsTrans DEF PhdrsStep
  <2>5. CASE again
    <3>1. s = [m EXCEPT !.retry = TRUE]
      BY <2>5 DEF s
    <3>2. m \in State /\ Keeps(m, l, {"modified"}) /\ m.modified = l.modified \cup {"DYNSTR"}
      BY <2>4, ModifyShape DEF Flags
    <3> HIDE DEF m
    <3>3. s \in State /\ Keeps(s, m, {"retry"}) /\ s.retry
      BY <3>1, <3>2 DEF State, Keeps, Fields
    <3>4. s.phdrs = l.phdrs /\ s.dhdrs = l.dhdrs /\ s.modified = l.modified \cup {"DYNSTR"}
      BY <3>2, <3>3 DEF Keeps, Fields
    <3>5. Keeps(s, l, {"modified", "used", "retry", "phdrs", "dhdrs"})
      BY <3>2, <3>3 DEF Keeps
    <3>6. PhdrsStep(s, l)
      BY <3>3, <3>4, <3>5 DEF PhdrsStep
    <3>7. PhdrsStep(s, e)
      BY <2>4, <3>6, PhdrsTrans
    <3> QED BY <1>1, <1>6, <3>3, <3>7 DEF PhdrsDone
  <2>6. CASE ~ again
    <3>1. s = IF "DYNSTR" \in l.modified THEN w ELSE l
      BY <2>6 DEF s
    <3>2. PhdrsStep(s, e) /\ s.phdrs = w.phdrs /\ s.modified = w.modified
          /\ s.dhdrs.tags = w.dhdrs.tags
      BY <2>1, <2>3, <2>4, <3>1 DEF PhdrsStep
    <3>3. CASE s.retry
      BY <1>1, <1>6, <3>2, <3>3 DEF PhdrsDone
    <3>4. CASE ~ s.retry
      <4>1. d = [s EXCEPT !.phdrs.heap = FALSE, !.phdrs.at = "new"]
        BY <1>1, <1>6, <3>4
      <4>2. s \in State /\ s.phdrs \in Phdrs
        BY <3>2 DEF PhdrsStep, State
      <4>3. d = [s EXCEPT !.phdrs = q]
        BY <4>1, <4>2 DEF State, Phdrs
      <4>4. /\ q \in Phdrs /\ ~ q.heap /\ q.at = "new" /\ q.interp = s.phdrs.interp
            /\ q.dynamic = s.phdrs.dynamic
        BY <4>2 DEF Phdrs, Place
      <4> HIDE DEF q
      <4>5. PhdrsStep(d, s) /\ d.phdrs = q /\ d.dhdrs = s.dhdrs
        BY <4>2, <4>3, <4>4, PhdrsSet
      <4>6. PhdrsStep(d, e)
        BY <3>2, <4>5, PhdrsTrans
      <4>7. ~ e.retry /\ s.modified = e.modified /\ s.dhdrs.tags = e.dhdrs.tags
        BY <3>2, <3>4 DEF PhdrsStep
      <4>8. s.dhdrs.tags["SONAME"] # "none" =>
              ~ (file.strFar /\ s.dhdrs.tags["STRTAB"] = "old")
        <5>1. CASE "DYNSTR" \in e.modified
          BY <4>7, <5>1 DEF AfterVers, LoadedNow, DynstrDone
        <5>2. CASE "DYNSTR" \notin e.modified
          BY <2>3, <2>6, <3>2, <4>7, <5>2 DEF PhdrsStep
        <5> QED BY <5>1, <5>2
      <4> QED BY <4>4, <4>5, <4>6, <4>8 DEF PhdrsDone
    <3> QED BY <3>3, <3>4
  <2> QED BY <2>5, <2>6
<1> QED BY <1>5, <1>6

\* phdrs_flush does so in any case: headers are only left in place when no memory was
\* added.
LEMMA StagePhdrsPart ==
  ASSUME file \in FileRecord, NEW e, AfterVers(e), e.modified # {}, e.phdrs.at = "old",
         DynstrDone(e), NEW d,
         d = IF e.phdrs.heap \/ ~ Mask(e) \subseteq {"f"} THEN FlushPhdrs(e) ELSE e
  PROVE  PhdrsStep(d, e) /\ PhdrsDone(d)
<1>1. e \in State
  BY DEF AfterVers
<1>2. CASE ~ Mask(e) \subseteq {"f"} \/ (e.phdrs.heap /\ ~ e.phdrs.count <= file.phdrs)
  <2>1. d = MovePhdrs(e)
    BY <1>2 DEF FlushPhdrs
  <2> QED BY <2>1, MovePhdrsPart
<1>3. CASE Mask(e) \subseteq {"f"} /\ e.phdrs.heap /\ e.phdrs.count <= file.phdrs
  <2> DEFINE q == [e.phdrs EXCEPT !.heap = FALSE]
  <2>1. d = [e EXCEPT !.phdrs.heap = FALSE] /\ e.phdrs \in Phdrs
    BY <1>1, <1>3 DEF FlushPhdrs, State
  <2>2. d = [e EXCEPT !.phdrs = q]
    BY <1>1, <2>1 DEF State, Phdrs
  <2>3. /\ q \in Phdrs /\ ~ q.heap /\ q.at = e.phdrs.at /\ q.interp = e.phdrs.interp
        /\ q.dynamic = e.phdrs.dynamic
    BY <2>1 DEF Phdrs
  <2> HIDE DEF q
  <2>4. PhdrsStep(d, e) /\ d.phdrs = q /\ d.used = e.used
    BY <1>1, <2>2, <2>3, PhdrsSet
  <2>5. \A c \in {"r", "rw"} : e.used[c] <= 0
    BY <1>1, <1>3, NothingTaken
  <2> QED BY <2>3, <2>4, <2>5 DEF PhdrsDone
<1>4. CASE Mask(e) \subseteq {"f"} /\ ~ e.phdrs.heap
  <2>1. d = e
    BY <1>4
  <2>2. PhdrsStep(e, e)
    BY <1>1, PhdrsRefl
  <2>3. \A c \in {"r", "rw"} : e.used[c] <= 0
    BY <1>1, <1>4, NothingTaken
  <2> QED BY <1>4, <2>1, <2>2, <2>3 DEF PhdrsDone
<1> QED BY <1>2, <1>3, <1>4

\* The stage of the program headers keeps the invariant.
LEMMA StagePhdrsKeeps ==
  ASSUME FileInv, StagePhdrs
  PROVE  FileInv' /\ (erw.retry => erw'.retry)
<1> DEFINE e == erw
           d == erw'
<1>1. /\ pc = "phdrs" /\ pc' = "end"
      /\ d = IF e.phdrs.heap \/ ~ Mask(e) \subseteq {"f"} THEN FlushPhdrs(e) ELSE e
      /\ UNCHANGED <<cmd, inert, printed, left, file, act>>
  BY DEF StagePhdrs, Stage
<1>2. /\ AfterVers(e) /\ file \in FileRecord /\ act = Len(cmd) + 1
      /\ e.phdrs.at = "old" /\ e.modified # {}
  BY <1>1, StageAfter DEF Stages
<1>3. DsymsDone(e) /\ DynstrDone(e) /\ RelocsDone(e) /\ DhdrsDone(e)
  BY <1>1 DEF FileInv, ActsInv, StageInv
<1> HIDE DEF e, d
<1>4. PhdrsStep(d, e) /\ PhdrsDone(d)
  BY <1>1, <1>2, <1>3, StagePhdrsPart
<1>5. /\ d \in State /\ RoundInv(d) /\ LoadedAtEnd(d) /\ VersDone(d) /\ d.modified # {}
      /\ DsymsDone(d) /\ DynstrDone(d) /\ RelocsDone(d) /\ DhdrsDone(d)
      /\ \A k \in Kinds : Done(k, e) => Done(k, d)
  BY <1>2, <1>3, <1>4, PhdrsKeeps
<1>6. LoadedInTime(erw)'
  BY <1>1, <1>5 DEF LoadedInTime, LoadedAtEnd, d
<1>7. /\ VersDone(erw)' /\ DsymsDone(erw)' /\ DynstrDone(erw)' /\ RelocsDone(erw)'
      /\ DhdrsDone(erw)' /\ PhdrsDone(erw)'
  BY <1>1, <1>4, <1>5 DEF VersDone, DsymsDone, HashesDone, DynstrDone, RelocsDone,
                          DhdrsDone, PhdrsDone, d
<1>8. StageInv(erw)'
  BY <1>1, <1>2, <1>5, <1>7 DEF StageInv, d
<1>9. \A k \in Kinds : Done(k, erw) => Done(k, erw')
  <2> HIDE DEF Done
  <2> QED BY <1>5 DEF e, d
<1>10. erw.retry => erw'.retry
  BY <1>4 DEF PhdrsStep, e, d
<1> QED BY <1>1, <1>5, <1>6, <1>8, <1>9, <1>10, StageKeeps DEF Stages, d

-----------------------------------------------------------------------------
(* The start and the end of a round.                                        *)

\* Going on from the actions to flush keeps the invariant.
LEMMA EndActionsKeeps ==
  ASSUME FileInv, EndActions
  PROVE  FileInv' /\ (erw.retry => erw'.retry)
<1>1. /\ pc = "acts" /\ act > Len(cmd) /\ pc' = IF erw.modified = {} THEN "done" ELSE "vers"
      /\ UNCHANGED <<cmd, inert, printed, left, file, act, erw>>
  BY DEF EndActions
<1>2. /\ act = Len(cmd) + 1 /\ erw \in State /\ RoundInv(erw) /\ StageInv(erw)
      /\ LoadedInTime(erw) /\ ActionsDone(erw)
  BY <1>1, CmdType DEF FileInv, ActsInv
<1>3. \A K : ~ Pending(K)
  <2> SUFFICES ASSUME NEW i \in act..Len(cmd) PROVE FALSE
    BY DEF Pending
  <2> QED BY <1>1, CmdType DEF FileInv
<1>4. RoundInv(erw)' /\ ActionsDone(erw)'
  <2>1. RoundInv(erw)'
    BY <1>1, <1>2, RoundPrimed
  <2> QED BY <1>1, <1>2, <2>1 DEF ActionsDone, Done
<1>5. TypeInv'
  BY <1>1 DEF FileInv, TypeInv, Stages
<1>6. LoadedInTime(erw)'
  BY <1>1, <1>2, <1>3 DEF LoadedInTime, Pending
<1>7. StageInv(erw)'
  <2>1. CASE erw.modified # {}
    <3>1. NoTable(erw)'
      BY <1>1, <1>2 DEF StageInv, NoTable, Orig
    <3> QED BY <1>1, <1>2, <2>1, <3>1 DEF StageInv
  <2>2. CASE erw.modified = {}
    <3>1. /\ Flagged(erw) /\ Entries(erw) /\ Contents(erw) /\ Reasons(erw) /\ NoTable(erw)
          /\ erw.image.vers = << >> /\ erw.phdrs.at = "old"
          /\ (file.dynamic => erw.dhdrs.tags["STRTAB"] = "old")
      BY <1>1, <1>2 DEF RoundInv, StageInv
    <3>2. \A t \in Tags : erw.dhdrs.tags[t] # "new"
      BY <3>1 DEF NoTable
    <3>3. VersDone(erw)
      BY <2>2, <3>1 DEF VersDone
    <3>4. HashesDone(erw)
      BY <2>2, <3>1, <3>2 DEF HashesDone, NoTable, Flagged, Entries, Tags
    <3>5. ~ erw.dsyms.versions => erw.dhdrs.tags["VERSYM"] = "none"
      BY <2>2, <3>1 DEF Flagged, Entries
    <3>6. DsymsDone(erw)
      BY <2>2, <3>2, <3>4, <3>5 DEF DsymsDone, Tags
    <3>7. DynstrDone(erw) /\ RelocsDone(erw) /\ DhdrsDone(erw)
      BY <2>2, <3>1 DEF DynstrDone, RelocsDone, DhdrsDone, Flagged
    <3>8. PhdrsDone(erw) /\ ~ erw.retry
      BY <2>2, <3>1 DEF PhdrsDone, Reasons, Categories
    <3>9. /\ VersDone(erw)' /\ DsymsDone(erw)' /\ DynstrDone(erw)' /\ RelocsDone(erw)'
          /\ DhdrsDone(erw)' /\ PhdrsDone(erw)'
      BY <1>1, <3>3, <3>6, <3>7, <3>8
         DEF VersDone, DsymsDone, HashesDone, DynstrDone, RelocsDone, DhdrsDone, PhdrsDone
    <3> QED BY <1>1, <1>2, <2>2, <3>8, <3>9 DEF StageInv
  <2> QED BY <2>1, <2>2
<1> QED BY <1>1, <1>4, <1>5, <1>6, <1>7 DEF FileInv, ActsInv

\* A state in which nothing is loaded of the file fl, and nothing done to it.
Fresh(e, fl) ==
  /\ e \in State /\ e.image = NoImage /\ ~ e.building /\ ~ e.added
  /\ ~ e.dhdrs.loaded /\ ~ e.dhdrs.heap /\ ~ e.dhdrs.moved /\ ~ e.dhdrs.needed
  /\ \A t \in Tags : e.dhdrs.tags[t] = IF t \in OriginalTags(fl) THEN "old" ELSE "none"
  /\ ~ e.relocs.loaded /\ ~ e.relocs.dirty /\ ~ e.relocs.reordered
  /\ e.relocs.heap = OriginalRelocs(fl).heap
  /\ ~ e.dsyms.loaded /\ ~ e.dsyms.reordered /\ ~ e.dsyms.moved
  /\ e.dsyms.heap = OriginalDsyms(fl).heap /\ (e.dsyms.heap => fl.dynamic)
  /\ e.dsyms.any = fl.dynamic
  /\ e.dsyms.versions = ("VERSYM" \in OriginalTags(fl))
  /\ e.dsyms.wantHash = ("HASH" \in OriginalTags(fl))
  /\ e.dsyms.wantGnuHash = ("GNU_HASH" \in OriginalTags(fl))
  /\ ~ e.vers.loaded /\ ~ e.vers.need /\ ~ e.vers.weak /\ ~ e.vers.moved
  /\ e.phdrs.at = "old" /\ e.phdrs.interp \in {"old", "none"}
  /\ e.phdrs.dynamic = IF fl.dynamic THEN "old" ELSE "none"

\* What free_editors_common makes of the editors.
NoDhdrs(fl) == [OriginalDhdrs(fl) EXCEPT !.loaded = FALSE]
NoRelocs(fl) == [OriginalRelocs(fl) EXCEPT !.loaded = FALSE]
NoDsyms(fl) == [OriginalDsyms(fl) EXCEPT !.loaded = FALSE]
NoVers(fl) == [OriginalVers(fl) EXCEPT !.loaded = FALSE, !.need = FALSE]

\* The editors which are not loaded are well-typed.
LEMMA NoneLoaded ==
  ASSUME NEW fl \in FileRecord
  PROVE  /\ NoDhdrs(fl) \in Dhdrs /\ NoRelocs(fl) \in Relocs
         /\ NoDsyms(fl) \in Dsyms /\ NoVers(fl) \in Vers
         /\ NoImage \in Image
<1>1. /\ OriginalDhdrs(fl) \in Dhdrs /\ OriginalRelocs(fl) \in Relocs
      /\ OriginalDsyms(fl) \in Dsyms /\ OriginalVers(fl) \in Vers
  BY OriginalTypes
<1>2. NoDhdrs(fl) \in Dhdrs /\ NoRelocs(fl) \in Relocs
  BY <1>1 DEF Dhdrs, NoDhdrs, Relocs, NoRelocs
<1>3. NoDsyms(fl) \in Dsyms /\ NoVers(fl) \in Vers
  BY <1>1 DEF Dsyms, NoDsyms, Vers, NoVers
<1>4. NoImage \in Image
  BY DEF NoImage, Image, Hashed
<1> QED BY <1>2, <1>3, <1>4

\* A round whose editors have been unloaded starts with the original file.
LEMMA UnloadFresh ==
  ASSUME NEW fl \in FileRecord, NEW e \in State, e.image = NoImage, ~ e.building,
         ~ e.added, e.dhdrs = NoDhdrs(fl), e.relocs = NoRelocs(fl),
         e.dsyms = NoDsyms(fl), e.vers = NoVers(fl), e.phdrs.at = "old",
         e.phdrs.interp \in {"old", "none"},
         e.phdrs.dynamic = IF fl.dynamic THEN "old" ELSE "none"
  PROVE  Fresh(e, fl)
<1> DEFINE h == NoDhdrs(fl)
           y == NoRelocs(fl)
           s == NoDsyms(fl)
           v == NoVers(fl)
<1>1. /\ OriginalDhdrs(fl) \in Dhdrs /\ OriginalRelocs(fl) \in Relocs
      /\ OriginalDsyms(fl) \in Dsyms /\ OriginalVers(fl) \in Vers
  BY OriginalTypes
<1>2. /\ ~ h.loaded /\ ~ h.heap /\ ~ h.moved /\ ~ h.needed
      /\ \A t \in Tags : h.tags[t] = IF t \in OriginalTags(fl) THEN "old" ELSE "none"
  <2>1. /\ ~ h.loaded /\ h.heap = OriginalDhdrs(fl).heap
        /\ h.moved = OriginalDhdrs(fl).moved /\ h.needed = OriginalDhdrs(fl).needed
        /\ h.tags = OriginalDhdrs(fl).tags
    BY <1>1 DEF Dhdrs, NoDhdrs
  <2> QED BY <2>1 DEF OriginalDhdrs
<1>3. /\ ~ y.loaded /\ ~ y.dirty /\ ~ y.reordered
      /\ y.heap = OriginalRelocs(fl).heap
  <2>1. /\ ~ y.loaded /\ y.dirty = OriginalRelocs(fl).dirty
        /\ y.reordered = OriginalRelocs(fl).reordered /\ y.heap = OriginalRelocs(fl).heap
    BY <1>1 DEF Relocs, NoRelocs
  <2> QED BY <2>1 DEF OriginalRelocs
<1>4. /\ ~ s.loaded /\ ~ s.reordered /\ ~ s.moved
      /\ s.heap = OriginalDsyms(fl).heap /\ (s.heap => fl.dynamic) /\ s.any = fl.dynamic
      /\ s.versions = ("VERSYM" \in OriginalTags(fl))
      /\ s.wantHash = ("HASH" \in OriginalTags(fl))
      /\ s.wantGnuHash = ("GNU_HASH" \in OriginalTags(fl))
  <2>1. /\ ~ s.loaded /\ s.reordered = OriginalDsyms(fl).reordered
        /\ s.moved = OriginalDsyms(fl).moved /\ s.heap = OriginalDsyms(fl).heap
        /\ s.any = OriginalDsyms(fl).any /\ s.versions = OriginalDsyms(fl).versions
        /\ s.wantHash = OriginalDsyms(fl).wantHash
        /\ s.wantGnuHash = OriginalDsyms(fl).wantGnuHash
    BY <1>1 DEF Dsyms, NoDsyms
  <2> QED BY <2>1 DEF OriginalDsyms
<1>5. ~ v.loaded /\ ~ v.need /\ ~ v.weak /\ ~ v.moved
  BY <1>1 DEF Vers, OriginalVers, NoVers
<1> HIDE DEF h, y, s, v
<1>6. e.dhdrs = h /\ e.relocs = y /\ e.dsyms = s /\ e.vers = v
  BY DEF h, y, s, v
<1> QED BY <1>2, <1>3, <1>4, <1>5, <1>6 DEF Fresh

\* So does a file which has been opened.
LEMMA OpenedFresh ==
  ASSUME NEW fl \in FileRecord, NEW e, e = Opened(fl)
  PROVE  /\ Fresh(e, fl) /\ e.modified = {} /\ ~ e.retry /\ ~ e.phdrs.heap
         /\ \A c \in Categories : e.used[c] = 0
<1> DEFINE room == [c \in Categories |-> 0]
           p == OriginalPhdrs(fl)
<1>1. /\ p \in Phdrs /\ p.at = "old" /\ p.interp \in {"old", "none"} /\ ~ p.heap
      /\ p.dynamic = IF fl.dynamic THEN "old" ELSE "none"
  BY OriginalTypes DEF OriginalPhdrs
<1>2. room \in [Categories -> Nat] /\ room \in [Categories -> Int]
  OBVIOUS
<1>3. \A c \in Categories : room[c] = 0
  OBVIOUS
<1> HIDE DEF p, room
<1>4. e = [ modified |-> {}, retry |-> FALSE, room |-> room, used |-> room,
            image |-> NoImage, phdrs |-> p, dhdrs |-> NoDhdrs(fl),
            relocs |-> NoRelocs(fl), dsyms |-> NoDsyms(fl), vers |-> NoVers(fl),
            building |-> FALSE, added |-> FALSE ]
  BY DEF Opened, Unload, NoDhdrs, NoRelocs, NoDsyms, NoVers, p, room
<1>5. e \in State
  BY <1>1, <1>2, <1>4, NoneLoaded DEF State
<1>6. /\ e.modified = {} /\ ~ e.retry /\ e.used = room /\ e.phdrs = p
      /\ e.image = NoImage /\ ~ e.building /\ ~ e.added /\ e.dhdrs = NoDhdrs(fl)
      /\ e.relocs = NoRelocs(fl) /\ e.dsyms = NoDsyms(fl) /\ e.vers = NoVers(fl)
  BY <1>4
<1>7. Fresh(e, fl)
  BY <1>1, <1>5, <1>6, UnloadFresh
<1> QED BY <1>1, <1>3, <1>6, <1>7

\* Then only the reasons of the flags are left of what holds all through a round.
LEMMA FreshRound ==
  ASSUME NEW e, file \in FileRecord, Fresh(e, file), Reasons(e)
  PROVE  RoundInv(e)
<1>1. Loading(e)
  BY DEF Loading, Fresh, Orig
<1>2. Flagged(e)
  BY DEF Flagged, Fresh, Orig
<1>3. Compacted(e) = FALSE
  BY DEF Compacted, Fresh
<1>4. Contents(e)
  <2>1. ~ e.vers.moved /\ e.vers.moved \in BOOLEAN /\ e.dhdrs.moved \in BOOLEAN
        /\ e.dsyms.moved \in BOOLEAN /\ e.relocs.reordered \in BOOLEAN
        /\ e.dsyms.reordered \in BOOLEAN
    BY DEF Fresh, State, Vers, Dhdrs, Dsyms, Relocs
  <2> QED BY <1>3, <2>1 DEF Contents, Fresh, Orig
<1>5. Entries(e)
  BY DEF Entries, Fresh, Orig, OriginalTags, Tags
<1> QED BY <1>1, <1>2, <1>4, <1>5 DEF RoundInv

\* What the actions and the stages start from.
LEMMA FreshStage ==
  ASSUME NEW e, file \in FileRecord, Fresh(e, file)
  PROVE  /\ e.image.vers = << >> /\ NoTable(e) /\ ~ e.dhdrs.needed /\ e.phdrs.at = "old"
         /\ file.dynamic => e.dhdrs.tags["STRTAB"] = "old"
  BY DEF Fresh, NoTable, NoImage, Orig, OriginalTags, Tags

\* What retry starts the next round from.
LEMMA RetryShape ==
  ASSUME file \in FileRecord, NEW e \in State, RoundInv(e), e.modified # {}
  PROVE  \E u : /\ Fresh(u, file) /\ u.modified = e.modified /\ ~ u.retry /\ RoundInv(u)
                /\ Retry(e) = IF "DYNSTR" \in e.modified THEN StartBuildingNew(u) ELSE u
<1> DEFINE room == [c \in Categories |-> IF e.used[c] > e.room[c] THEN e.used[c]
                                                                  ELSE e.room[c]]
           used == [c \in Categories |-> 0]
           o == OriginalPhdrs(file)
           count == o.count + NewLoads(e)
           p == [o EXCEPT !.heap = TRUE, !.count = count]
           q == [OriginalPhdrs(file) EXCEPT !.heap = TRUE, !.count = @ + NewLoads(e)]
           r == [e EXCEPT !.room = room, !.used = used, !.retry = FALSE,
                          !.image = NoImage, !.phdrs = q]
           u == Unload(r, file)
<1>1. room \in [Categories -> Nat] /\ used \in [Categories -> Int]
  <2>1. \A c \in Categories : e.used[c] \in Int /\ e.room[c] \in Nat
    BY DEF State
  <2>2. \A c \in Categories : room[c] \in Nat
    BY <2>1
  <2> QED BY <2>2
<1>2. count \in Int
  <2>1. Mask(e) \ {"f"} \subseteq {"r", "rw"}
    BY DEF Mask, Categories
  <2>2. IsFiniteSet({"r"}) /\ {"r", "rw"} = {"r"} \cup {"rw"}
    BY FS_Singleton
  <2>3. IsFiniteSet({"r", "rw"})
    BY <2>2, FS_AddElement
  <2>4. NewLoads(e) \in Nat
    BY <2>1, <2>3, FS_Subset, FS_CardinalityType DEF NewLoads
  <2>5. o.count \in Int
    BY OriginalTypes DEF Phdrs
  <2> QED BY <2>4, <2>5
<1>3. /\ o \in Phdrs /\ o.at = "old" /\ o.interp \in {"old", "none"}
      /\ o.dynamic = IF file.dynamic THEN "old" ELSE "none"
  BY OriginalTypes DEF OriginalPhdrs
<1>4. p = q
  BY <1>3 DEF Phdrs
<1> HIDE DEF o, count
<1>5. /\ p \in Phdrs /\ p.at = "old" /\ p.interp \in {"old", "none"}
      /\ p.dynamic = IF file.dynamic THEN "old" ELSE "none"
  BY <1>2, <1>3 DEF Phdrs
<1> HIDE DEF p, q, room, used
<1>6. /\ r \in State /\ r.modified = e.modified /\ ~ r.retry /\ r.phdrs = p
      /\ r.image = NoImage
  BY <1>1, <1>4, <1>5, NoneLoaded DEF State
<1>7. u = [r EXCEPT !.dhdrs = NoDhdrs(file), !.relocs = NoRelocs(file),
                    !.dsyms = NoDsyms(file), !.vers = NoVers(file),
                    !.building = FALSE, !.added = FALSE]
  BY DEF Unload, NoDhdrs, NoRelocs, NoDsyms, NoVers
<1> HIDE DEF r, u
<1>8. Fresh(u, file) /\ u.modified = e.modified /\ ~ u.retry
  <2>1. u \in State
    BY <1>6, <1>7, NoneLoaded DEF State
  <2>2. /\ u.modified = e.modified /\ ~ u.retry /\ u.phdrs = p /\ u.image = NoImage
        /\ ~ u.building /\ ~ u.added /\ u.dhdrs = NoDhdrs(file)
        /\ u.relocs = NoRelocs(file) /\ u.dsyms = NoDsyms(file) /\ u.vers = NoVers(file)
    BY <1>6, <1>7 DEF State
  <2> QED BY <1>5, <2>1, <2>2, UnloadFresh
<1>9. Reasons(u)
  BY <1>8 DEF RoundInv, Reasons
<1>10. RoundInv(u)
  BY <1>8, <1>9, FreshRound
<1>11. Retry(e) = IF "DYNSTR" \in e.modified THEN StartBuildingNew(u) ELSE u
  BY DEF Retry, u, r, q, room, used
<1> QED BY <1>8, <1>10, <1>11

\* If the strings were being replaced they are again, and all which refers to
\* strings is loaded.
LEMMA RetryPart ==
  ASSUME file \in FileRecord, NEW e \in State, RoundInv(e), e.modified # {},
         NEW d, d = Retry(e)
  PROVE  /\ d \in State /\ RoundInv(d)
         /\ d.image.vers = << >> /\ NoTable(d) /\ ~ d.dhdrs.needed /\ d.phdrs.at = "old"
         /\ file.dynamic => d.dhdrs.tags["STRTAB"] = "old"
         /\ IF "DYNSTR" \in e.modified THEN AllLoaded(d) /\ d.building
                                       ELSE d.modified = e.modified
<1>1. PICK u : /\ Fresh(u, file) /\ u.modified = e.modified /\ ~ u.retry /\ RoundInv(u)
               /\ d = IF "DYNSTR" \in e.modified THEN StartBuildingNew(u) ELSE u
  BY RetryShape
<1>2. /\ u \in State /\ u.image.vers = << >> /\ NoTable(u) /\ ~ u.dhdrs.needed
      /\ u.phdrs.at = "old" /\ (file.dynamic => u.dhdrs.tags["STRTAB"] = "old")
      /\ ~ u.building
  BY <1>1, FreshStage DEF Fresh
<1>3. CASE "DYNSTR" \in e.modified
  <2>1. d = StartBuildingNew(u)
    BY <1>1, <1>3
  <2>2. PICK l : LoadStep(l, u) /\ AllLoaded(l) /\ BuildStep(d, l)
    BY <1>1, <1>2, <2>1, BuildShape
  <2>3. /\ l \in State /\ RoundInv(l) /\ ~ l.building
        /\ l.image = u.image /\ l.phdrs = u.phdrs
    <3>1. RoundInv(l)
      BY <1>1, <1>2, <2>2, LoadRound
    <3> QED BY <1>2, <2>2, <3>1 DEF LoadStep, Keeps, Fields
  <2>4. RoundInv(d)
    BY <2>2, <2>3, BuildRound
  <2>5. d.image = u.image /\ d.phdrs = u.phdrs
    BY <2>2, <2>3 DEF BuildStep, Keeps, Fields
  <2>6. NoTable(d)
    BY <1>2, <2>2, <2>5 DEF NoTable, LoadStep, BuildStep
  <2> QED BY <1>2, <1>3, <2>2, <2>4, <2>5, <2>6 DEF LoadStep, BuildStep, AllLoaded
<1>4. CASE "DYNSTR" \notin e.modified
  BY <1>1, <1>2, <1>4
<1> QED BY <1>3, <1>4

\* The end of flush keeps the invariant, with another round or without.
LEMMA EndFlushKeeps ==
  ASSUME FileInv, EndFlush
  PROVE  FileInv'
<1>1. /\ pc = "end" /\ UNCHANGED <<cmd, inert, printed, left, file>>
      /\ IF erw.retry THEN erw' = Retry(erw) /\ pc' = "acts" /\ act' = 1
                      ELSE UNCHANGED <<erw, act>> /\ pc' = "done"
  BY DEF EndFlush
<1>2. /\ erw \in State /\ RoundInv(erw) /\ StageInv(erw) /\ LoadedInTime(erw)
      /\ ActionsDone(erw) /\ file \in FileRecord
      /\ cmd \in Seq(Kinds) /\ Len(cmd) \in Nat /\ DOMAIN cmd = 1..Len(cmd)
  BY CmdType DEF FileInv, ActsInv
<1>3. CASE ~ erw.retry
  <2>1. RoundInv(erw)'
    BY <1>1, <1>2, <1>3, RoundPrimed
  <2>2. ActionsDone(erw)'
    BY <1>1, <1>2, <1>3 DEF ActionsDone, Done
  <2>3. TypeInv'
    BY <1>1, <1>3 DEF FileInv, TypeInv
  <2>4. LoadedInTime(erw)'
    BY <1>1, <1>2, <1>3 DEF LoadedInTime, Pending
  <2>5. StageInv(erw)'
    <3>1. /\ VersDone(erw) /\ DsymsDone(erw) /\ DynstrDone(erw) /\ RelocsDone(erw)
          /\ DhdrsDone(erw) /\ PhdrsDone(erw) /\ act = Len(cmd) + 1
      BY <1>1, <1>2 DEF StageInv
    <3>2. /\ VersDone(erw)' /\ DsymsDone(erw)' /\ DynstrDone(erw)' /\ RelocsDone(erw)'
          /\ DhdrsDone(erw)' /\ PhdrsDone(erw)'
      BY <1>1, <1>3, <3>1
         DEF VersDone, DsymsDone, HashesDone, DynstrDone, RelocsDone, DhdrsDone, PhdrsDone
    <3> QED BY <1>1, <1>3, <3>1, <3>2 DEF StageInv
  <2> QED BY <2>1, <2>2, <2>3, <2>4, <2>5 DEF FileInv, ActsInv
<1>4. CASE erw.retry
  <2> DEFINE e == erw
             d == erw'
  <2>1. d = Retry(e) /\ pc' = "acts" /\ act' = 1 /\ e.modified # {}
    BY <1>1, <1>2, <1>4 DEF StageInv
  <2>a. e \in State /\ RoundInv(e)
    BY <1>2
  <2> HIDE DEF d
  <2>2. /\ d \in State /\ RoundInv(d)
        /\ d.image.vers = << >> /\ NoTable(d) /\ ~ d.dhdrs.needed /\ d.phdrs.at = "old"
        /\ file.dynamic => d.dhdrs.tags["STRTAB"] = "old"
        /\ IF "DYNSTR" \in e.modified THEN AllLoaded(d) /\ d.building
                                      ELSE d.modified = e.modified
    BY <1>2, <2>1, <2>a, RetryPart
  <2>3. RoundInv(erw)'
    BY <1>1, <2>2, RoundPrimed DEF d
  <2>4. TypeInv'
    <3>1. act' \in 1..(Len(cmd') + 1)
      BY <1>1, <1>2, <2>1
    <3> QED BY <1>1, <2>1, <2>2, <3>1 DEF FileInv, TypeInv, d
  <2>5. ActionsDone(erw)'
    <3>1. 1..(act' - 1) = {}
      BY <2>1
    <3> QED BY <3>1 DEF ActionsDone
  <2>6. \A k, K : Asked(k) /\ k \in K => Pending(K)'
    BY <1>1, <1>2, <2>1 DEF Asked, Pending
  <2>7. LoadedInTime(erw)'
    <3>1. CASE "DYNSTR" \in e.modified
      BY <2>2, <3>1 DEF LoadedInTime, AllLoaded, d
    <3>2. CASE "DYNSTR" \notin e.modified
      <4>1. d.modified = e.modified /\ Reasons(e)
        BY <2>2, <2>a, <3>2 DEF RoundInv
      <4>2. "VERNEED" \in d.modified => Pending({"remove_verneed", "weak_verneed"})'
        BY <2>6, <3>2, <4>1 DEF Reasons
      <4>3. "DSYMS" \in d.modified =>
              "VERNEED" \in d.modified \/ Pending({"add_gnu_hash", "add_hash"})'
        BY <2>6, <3>2, <4>1 DEF Reasons
      <4>4. "DHDRS" \in d.modified =>
              \/ "VERNEED" \in d.modified
              \/ Pending({"add_gnu_hash", "add_hash", "add_late_needed", "remove_debug"})'
        <5>1. \A k \in {"add_gnu_hash", "add_hash", "add_late_needed", "remove_debug"} :
                Asked(k) =>
                  Pending({"add_gnu_hash", "add_hash", "add_late_needed", "remove_debug"})'
          BY <2>6
        <5> QED BY <3>2, <4>1, <5>1 DEF Reasons
      <4> QED BY <2>1, <3>2, <4>1, <4>2, <4>3, <4>4 DEF LoadedInTime, d
    <3> QED BY <3>1, <3>2
  <2>8. StageInv(erw)'
    <3>1. NoTable(erw)'
      BY <1>1, <2>2 DEF NoTable, Orig, d
    <3> QED BY <1>1, <2>1, <2>2, <3>1 DEF StageInv, d
  <2> QED BY <2>3, <2>4, <2>5, <2>7, <2>8 DEF FileInv, ActsInv
<1> QED BY <1>3, <1>4

\* The same of the next state, whose file may be another one.
LEMMA FreshRoundNext ==
  ASSUME file' \in FileRecord, Fresh(erw', file'), Reasons(erw)'
  PROVE  RoundInv(erw)'
<1>1. Loading(erw)'
  BY DEF Loading, Fresh, Orig
<1>2. Flagged(erw)'
  BY DEF Flagged, Fresh, Orig
<1>3. Compacted(erw)' = FALSE
  BY DEF Compacted, Fresh
<1>4. Contents(erw)'
  <2>1. /\ erw'.vers.moved \in BOOLEAN /\ erw'.dhdrs.moved \in BOOLEAN
        /\ erw'.dsyms.moved \in BOOLEAN /\ erw'.relocs.reordered \in BOOLEAN
        /\ erw'.dsyms.reordered \in BOOLEAN
    BY DEF Fresh, State, Vers, Dhdrs, Dsyms, Relocs
  <2> QED BY <1>3, <2>1 DEF Contents, Fresh, Orig
<1>5. Entries(erw)'
  BY DEF Entries, Fresh, Orig, OriginalTags, Tags
<1> QED BY <1>1, <1>2, <1>4, <1>5 DEF RoundInv

\* Opening the next file keeps the invariant.
LEMMA NextFileKeeps ==
  ASSUME FileInv, NextFile
  PROVE  FileInv'
<1>1. /\ left > 1 /\ left' = left - 1 /\ file' \in Files /\ erw' = Opened(file')
      /\ act' = 1 /\ pc' = "acts" /\ inert' = {} /\ printed' = << >> /\ UNCHANGED cmd
  BY DEF NextFile
<1>2. file' \in FileRecord /\ cmd \in Seq(Kinds) /\ Len(cmd) \in Nat
  BY <1>1, CmdType, FlushAssumption DEF FileInv
<1>3. /\ Fresh(erw', file') /\ erw'.modified = {} /\ ~ erw'.retry /\ ~ erw'.phdrs.heap
      /\ \A c \in Categories : erw'.used[c] = 0
  BY <1>1, <1>2, OpenedFresh
<1>4. Reasons(erw)'
  BY <1>3 DEF Reasons
<1>5. RoundInv(erw)'
  BY <1>2, <1>3, <1>4, FreshRoundNext
<1>6. LoadedInTime(erw)'
  BY <1>3 DEF LoadedInTime
<1>7. ActionsDone(erw)'
  <2>1. 1..(act' - 1) = {}
    BY <1>1
  <2> QED BY <2>1 DEF ActionsDone
<1>8. StageInv(erw)'
  <2>1. /\ erw'.image.vers = << >> /\ NoTable(erw)' /\ ~ erw'.dhdrs.needed
        /\ erw'.phdrs.at = "old" /\ (file'.dynamic => erw'.dhdrs.tags["STRTAB"] = "old")
    BY <1>3 DEF Fresh, NoTable, NoImage, Orig, OriginalTags, Tags
  <2> QED BY <1>1, <1>3, <2>1 DEF StageInv
<1>9. TypeInv'
  <2>1. erw' \in State /\ left' \in Nat /\ printed' \in Seq(Nat)
    BY <1>1, <1>3 DEF FileInv, TypeInv, Fresh
  <2>2. act' \in 1..(Len(cmd') + 1)
    BY <1>1, <1>2
  <2> QED BY <1>1, <2>1, <2>2 DEF FileInv, TypeInv
<1> QED BY <1>5, <1>6, <1>7, <1>8, <1>9 DEF FileInv, ActsInv

\* The invariant holds at the start.
LEMMA InitFile ==
  ASSUME Init
  PROVE  FileInv
<1>1. /\ cmd \in CommandLines /\ inert = {} /\ printed = << >> /\ left \in 1..MaxFiles
      /\ file \in Files /\ act = 1 /\ pc = "acts" /\ erw = Opened(file)
  BY DEF Init
<1>2. file \in FileRecord /\ cmd \in Seq(Kinds) /\ Len(cmd) \in Nat
  BY <1>1, FlushAssumption
<1>3. /\ Fresh(erw, file) /\ erw.modified = {} /\ ~ erw.retry /\ ~ erw.phdrs.heap
      /\ \A c \in Categories : erw.used[c] = 0
  BY <1>1, <1>2, OpenedFresh
<1>4. Reasons(erw)
  BY <1>3 DEF Reasons
<1>5. RoundInv(erw)
  BY <1>2, <1>3, <1>4, FreshRound
<1>6. LoadedInTime(erw)
  BY <1>3 DEF LoadedInTime
<1>7. ActionsDone(erw)
  <2>1. 1..(act - 1) = {}
    BY <1>1
  <2> QED BY <2>1 DEF ActionsDone
<1>8. StageInv(erw)
  BY <1>1, <1>2, <1>3, FreshStage DEF StageInv
<1>9. TypeInv
  <2>1. erw \in State /\ left \in Nat /\ printed \in Seq(Nat) /\ act \in 1..(Len(cmd) + 1)
    BY <1>1, <1>2, <1>3, FlushAssumption DEF Fresh
  <2> QED BY <1>1, <2>1 DEF TypeInv
<1> QED BY <1>5, <1>6, <1>7, <1>8, <1>9 DEF FileInv, ActsInv

-----------------------------------------------------------------------------
(* The actions which print, and all steps together.                         *)

\* An action which prints leaves the file alone.
LEMMA PrintActionKeepsFile ==
  ASSUME FileInv, PrintAction
  PROVE  FileInv'
<1>1. /\ pc = "acts" /\ pc' = "acts" /\ act <= Len(cmd) /\ cmd[act] = "print"
      /\ act' = act + 1 /\ UNCHANGED <<cmd, left, file, erw>>
      /\ IF act \in inert \/ erw.retry
         THEN UNCHANGED <<inert, printed>>
         ELSE inert' = inert \cup {act} /\ printed' = Append(printed, act)
  BY DEF PrintAction
<1>2. /\ cmd \in Seq(Kinds) /\ Len(cmd) \in Nat /\ act \in Nat /\ act >= 1
      /\ DOMAIN cmd = 1..Len(cmd) /\ file \in FileRecord /\ erw \in State
      /\ RoundInv(erw) /\ LoadedInTime(erw) /\ ActionsDone(erw) /\ StageInv(erw)
  BY CmdType DEF FileInv, ActsInv
<1>3. RoundInv(erw)'
  BY <1>1, <1>2, RoundPrimed
<1>4. StageInv(erw)'
  BY <1>1, <1>2, StagePrimed
<1>5. ActionsDone(erw)'
  <2> SUFFICES ASSUME NEW i \in 1..act PROVE Done(cmd[i], erw')
    <3>1. 1..(act' - 1) = 1..act
      BY <1>1, <1>2
    <3> QED BY <1>1, <3>1 DEF ActionsDone
  <2>1. CASE i = act
    BY <1>1, <2>1 DEF Done
  <2>2. CASE i # act
    <3>1. i \in 1..(act - 1)
      BY <1>2, <2>2
    <3> HIDE DEF Done
    <3> QED BY <1>1, <1>2, <3>1 DEF ActionsDone
  <2> QED BY <2>1, <2>2
<1>6. LoadedInTime(erw)'
  <2>1. \A K : Pending(K) => "print" \in K \/ Pending(K)'
    BY <1>1, <1>2, PendingNext
  <2>2. /\ Pending({"remove_verneed", "weak_verneed"}) =>
             Pending({"remove_verneed", "weak_verneed"})'
        /\ Pending({"add_gnu_hash", "add_hash"}) => Pending({"add_gnu_hash", "add_hash"})'
        /\ Pending({"add_gnu_hash", "add_hash", "add_late_needed", "remove_debug"}) =>
             Pending({"add_gnu_hash", "add_hash", "add_late_needed", "remove_debug"})'
    BY <2>1
  <2> QED BY <1>1, <1>2, <2>2 DEF LoadedInTime
<1>7. TypeInv'
  <2>1. act' \in 1..(Len(cmd') + 1) /\ act \in DOMAIN cmd
    BY <1>1, <1>2
  <2>2. inert' \subseteq DOMAIN cmd' /\ printed' \in Seq(Nat)
    <3>1. inert \subseteq DOMAIN cmd /\ printed \in Seq(Nat)
      BY DEF FileInv, TypeInv
    <3>2. CASE act \in inert \/ erw.retry
      BY <1>1, <3>1, <3>2
    <3>3. CASE ~ (act \in inert \/ erw.retry)
      <4>1. inert' = inert \cup {act} /\ printed' = Append(printed, act) /\ cmd' = cmd
        BY <1>1, <3>3
      <4>2. Append(printed, act) \in Seq(Nat)
        BY <1>2, <3>1
      <4> QED BY <2>1, <3>1, <4>1, <4>2
    <3> QED BY <3>2, <3>3
  <2> QED BY <1>1, <2>1, <2>2 DEF FileInv, TypeInv
<1> QED BY <1>3, <1>4, <1>5, <1>6, <1>7 DEF FileInv, ActsInv

\* It prints once, after all which come before it on the command line.
LEMMA PrintActionKeepsPrints ==
  ASSUME FileInv, PrintInv, PrintAction
  PROVE  PrintInv'
<1>1. /\ act <= Len(cmd) /\ cmd[act] = "print"
      /\ act' = act + 1 /\ UNCHANGED <<cmd, erw>>
      /\ IF act \in inert \/ erw.retry
         THEN UNCHANGED <<inert, printed>>
         ELSE inert' = inert \cup {act} /\ printed' = Append(printed, act)
  BY DEF PrintAction
<1>2. /\ Len(cmd) \in Nat /\ act \in Nat /\ act >= 1 /\ DOMAIN cmd = 1..Len(cmd)
      /\ printed \in Seq(Nat)
  BY CmdType DEF FileInv, TypeInv
<1>3. Prints' = Prints /\ act \in Prints /\ Prints \subseteq Nat
  BY <1>1, <1>2 DEF Prints
<1>4. \A i \in Prints : i < act' => i < act \/ i = act
  BY <1>1, <1>2, <1>3
<1>5. CASE act \in inert \/ erw.retry
  <2>1. erw'.retry \/ \A i \in Prints : i < act' => i \in inert'
    BY <1>1, <1>4, <1>5 DEF PrintInv
  <2> QED BY <1>1, <1>3, <1>5, <2>1 DEF PrintInv
<1>6. CASE ~ (act \in inert \/ erw.retry)
  <2>1. inert' = inert \cup {act} /\ printed' = Append(printed, act)
    BY <1>1, <1>6
  <2>2. \A i \in Prints : i < act => i \in inert
    BY <1>6 DEF PrintInv
  <2>3. \A i \in inert : i < act
    <3> SUFFICES ASSUME NEW i \in inert, ~ (i < act) PROVE FALSE
      OBVIOUS
    <3>1. i \in Prints /\ i # act
      BY <1>6 DEF PrintInv
    <3>2. act < i
      BY <1>2, <1>3, <3>1
    <3> QED BY <1>3, <1>6, <3>2 DEF PrintInv
  <2> DEFINE n == Len(printed)
  <2>4. /\ n \in Nat /\ DOMAIN printed = 1..n /\ DOMAIN printed' = 1..(n + 1)
        /\ printed'[n + 1] = act /\ \A i \in 1..n : printed'[i] = printed[i]
    BY <1>2, <2>1
  <2> HIDE DEF n
  <2>5. inert' = {printed'[i] : i \in DOMAIN printed'}
    <3>1. \A x \in inert' : \E i \in 1..(n + 1) : printed'[i] = x
      <4> SUFFICES ASSUME NEW x \in inert' PROVE \E i \in 1..(n + 1) : printed'[i] = x
        OBVIOUS
      <4>1. CASE x = act
        BY <2>4, <4>1
      <4>2. CASE x \in inert
        <5>1. PICK i \in 1..n : printed[i] = x
          BY <2>4, <4>2 DEF PrintInv
        <5>2. i \in 1..(n + 1)
          BY <2>4
        <5> QED BY <2>4, <5>1, <5>2
      <4> QED BY <2>1, <4>1, <4>2
    <3>2. \A i \in 1..(n + 1) : printed'[i] \in inert'
      <4> SUFFICES ASSUME NEW i \in 1..(n + 1) PROVE printed'[i] \in inert'
        OBVIOUS
      <4>1. CASE i = n + 1
        BY <2>1, <2>4, <4>1
      <4>2. CASE i # n + 1
        <5>1. i \in 1..n
          BY <2>4, <4>2
        <5>2. printed[i] \in inert
          BY <2>4, <5>1 DEF PrintInv
        <5> QED BY <2>1, <2>4, <5>1, <5>2
      <4> QED BY <4>1, <4>2
    <3> QED BY <2>4, <3>1, <3>2
  <2>6. ASSUME NEW i \in DOMAIN printed', NEW j \in DOMAIN printed', i < j
        PROVE  printed'[i] < printed'[j]
    <3>1. i \in 1..n
      BY <2>4, <2>6
    <3>2. printed[i] \in inert
      BY <2>4, <3>1 DEF PrintInv
    <3>3. CASE j = n + 1
      BY <2>3, <2>4, <3>1, <3>2, <3>3
    <3>4. CASE j # n + 1
      <4>1. j \in 1..n
        BY <2>4, <3>4
      <4>2. printed[i] < printed[j]
        BY <2>4, <2>6, <3>1, <4>1 DEF PrintInv
      <4> QED BY <2>4, <3>1, <4>1, <4>2
    <3> QED BY <3>3, <3>4
  <2>7. \A i \in inert', j \in Prints : j < i => j \in inert'
    BY <2>1, <2>2 DEF PrintInv
  <2>8. \A i \in Prints : i < act' => i \in inert'
    BY <1>4, <2>1, <2>2
  <2>9. inert' \subseteq Prints
    BY <1>3, <2>1 DEF PrintInv
  <2> QED BY <1>3, <2>5, <2>6, <2>7, <2>8, <2>9 DEF PrintInv
<1> QED BY <1>5, <1>6

\* No other step of a round prints.
LEMMA PrintsKept ==
  ASSUME FileInv, PrintInv, UNCHANGED <<cmd, inert, printed>>, erw.retry => erw'.retry,
         act' = act \/ (act' = act + 1 /\ cmd[act] # "print")
  PROVE  PrintInv'
<1>1. cmd' = cmd /\ inert' = inert /\ printed' = printed /\ Prints' = Prints
  BY DEF Prints
<1>2. act \in Nat /\ Prints \subseteq Nat
  BY CmdType DEF FileInv, Prints
<1>3. \A i \in Prints : i < act' => i < act
  <2> SUFFICES ASSUME NEW i \in Prints, i < act', ~ (i < act) PROVE FALSE
    OBVIOUS
  <2>1. i = act /\ act' # act
    BY <1>2
  <2> QED BY <2>1 DEF Prints
<1>4. erw'.retry \/ \A i \in Prints : i < act' => i \in inert'
  BY <1>1, <1>3 DEF PrintInv
<1>5. /\ inert' = {printed'[i] : i \in DOMAIN printed'} /\ inert' \subseteq Prints'
      /\ \A i, j \in DOMAIN printed' : i < j => printed'[i] < printed'[j]
      /\ \A i \in inert', j \in Prints' : j < i => j \in inert'
  BY <1>1 DEF PrintInv
<1> QED BY <1>1, <1>4, <1>5 DEF PrintInv

\* A further round starts with what has been printed in the ones before.
LEMMA EndFlushKeepsPrints ==
  ASSUME FileInv, PrintInv, EndFlush
  PROVE  PrintInv'
<1>1. /\ UNCHANGED <<cmd, inert, printed>>
      /\ IF erw.retry THEN act' = 1 ELSE UNCHANGED <<erw, act>>
  BY DEF EndFlush
<1>2. CASE ~ erw.retry
  BY <1>1, <1>2, PrintsKept
<1>3. CASE erw.retry
  <2>1. Prints' = Prints /\ act' = 1
    BY <1>1, <1>3 DEF Prints
  <2>2. \A i \in Prints : ~ (i < 1)
    BY CmdType DEF FileInv, Prints
  <2> QED BY <1>1, <2>1, <2>2 DEF PrintInv
<1> QED BY <1>2, <1>3

\* A file starts with nothing printed.
LEMMA StartKeepsPrints ==
  ASSUME inert = {}, printed = << >>, act = 1, cmd \in Seq(Kinds)
  PROVE  PrintInv
<1>1. DOMAIN printed = {} /\ \A i \in Prints : ~ (i < 1)
  BY DEF Prints
<1> QED BY <1>1 DEF PrintInv

\* So does the next one.
LEMMA NextFileKeepsPrints ==
  ASSUME FileInv, PrintInv, NextFile
  PROVE  PrintInv'
<1>1. inert' = {} /\ printed' = << >> /\ act' = 1 /\ cmd' = cmd
  BY DEF NextFile
<1>2. DOMAIN printed' = {} /\ Prints' = Prints /\ \A i \in Prints : ~ (i < 1)
  BY <1>1, CmdType DEF Prints, FileInv
<1> QED BY <1>1, <1>2 DEF PrintInv

\* The invariant is kept by every step.
LEMMA NextKeeps ==
  ASSUME FileInv, PrintInv, [Next]_vars
  PROVE  FileInv' /\ PrintInv'
<1>1. CASE PrintAction
  BY <1>1, PrintActionKeepsFile, PrintActionKeepsPrints
<1>2. CASE EditAction
  <2>1. /\ UNCHANGED <<cmd, inert, printed>> /\ act' = act + 1 /\ cmd[act] # "print"
    BY <1>2 DEF EditAction
  <2> QED BY <1>2, <2>1, EditActionKeeps, PrintsKept
<1>3. CASE EndActions
  <2>1. UNCHANGED <<cmd, inert, printed, act>>
    BY <1>3 DEF EndActions
  <2> QED BY <1>3, <2>1, EndActionsKeeps, PrintsKept
<1>4. CASE StageVers
  <2>1. UNCHANGED <<cmd, inert, printed, act>>
    BY <1>4 DEF StageVers, Stage
  <2> QED BY <1>4, <2>1, StageVersKeeps, PrintsKept
<1>5. CASE StageDsyms
  <2>1. UNCHANGED <<cmd, inert, printed, act>>
    BY <1>5 DEF StageDsyms, Stage
  <2> QED BY <1>5, <2>1, StageDsymsKeeps, PrintsKept
<1>6. CASE StageDynstr
  <2>1. UNCHANGED <<cmd, inert, printed, act>>
    BY <1>6 DEF StageDynstr, Stage
  <2> QED BY <1>6, <2>1, StageDynstrKeeps, PrintsKept
<1>7. CASE StageRelocs
  <2>1. UNCHANGED <<cmd, inert, printed, act>>
    BY <1>7 DEF StageRelocs, Stage
  <2> QED BY <1>7, <2>1, StageRelocsKeeps, PrintsKept
<1>8. CASE StageDhdrs
  <2>1. UNCHANGED <<cmd, inert, printed, act>>
    BY <1>8 DEF StageDhdrs, Stage
  <2> QED BY <1>8, <2>1, StageDhdrsKeeps, PrintsKept
<1>9. CASE StagePhdrs
  <2>1. UNCHANGED <<cmd, inert, printed, act>>
    BY <1>9 DEF StagePhdrs, Stage
  <2> QED BY <1>9, <2>1, StagePhdrsKeeps, PrintsKept
<1>10. CASE EndFlush
  BY <1>10, EndFlushKeeps, EndFlushKeepsPrints
<1>11. CASE NextFile
  BY <1>11, NextFileKeeps, NextFileKeepsPrints
<1>12. CASE UNCHANGED vars
  <2>1. UNCHANGED <<cmd, inert, printed, left, file, act, pc, erw>>
    BY <1>12 DEF vars
  <2>2. FileInv'
    <3>1. RoundInv(erw)'
      BY <2>1, RoundPrimed DEF FileInv, ActsInv
    <3>2. TypeInv' /\ LoadedInTime(erw)' /\ ActionsDone(erw)'
      BY <2>1 DEF FileInv, ActsInv, TypeInv, LoadedInTime, Pending, ActionsDone, Done
    <3>3. StageInv(erw)'
      BY <2>1 DEF FileInv, ActsInv, StageInv, VersDone, NoTable, Orig, DsymsDone,
                  HashesDone, DynstrDone, RelocsDone, DhdrsDone, PhdrsDone
    <3> QED BY <3>1, <3>2, <3>3 DEF FileInv, ActsInv
  <2> QED BY <2>1, <2>2, PrintsKept
<1> QED BY <1>1, <1>2, <1>3, <1>4, <1>5, <1>6, <1>7, <1>8, <1>9, <1>10, <1>11, <1>12
       DEF Next, Round, Terminated

\* The whole invariant holds of every behaviour: for any files, any command lines,
\* and any number of rounds.
THEOREM ErwCorrect == Spec => []ErwInv
<1>1. Init => FileInv /\ PrintInv
  <2> SUFFICES ASSUME Init PROVE FileInv /\ PrintInv
    OBVIOUS
  <2>1. inert = {} /\ printed = << >> /\ act = 1 /\ FileInv
    BY InitFile DEF Init
  <2>2. cmd \in Seq(Kinds)
    BY <2>1, CmdType DEF FileInv
  <2> QED BY <2>1, <2>2, StartKeepsPrints
<1>2. FileInv /\ PrintInv /\ [Next]_vars => FileInv' /\ PrintInv'
  BY NextKeeps
<1>3. FileInv /\ PrintInv => ErwInv
  BY DEF FileInv, ActsInv, ErwInv
<1> QED BY <1>1, <1>2, <1>3, PTL DEF Spec

-----------------------------------------------------------------------------
(* The properties.                                                          *)

\* A stage of flush is only run when its editor has been loaded in this round: the
\* flag has been set by an action which loads it, or by a stage which has been.
THEOREM EditorsLoadedCorrect == Spec => []EditorsLoaded
<1>1. ErwInv => EditorsLoaded
  <2> SUFFICES ASSUME ErwInv PROVE EditorsLoaded
    OBVIOUS
  <2>1. LoadedInTime(erw) /\ Reasons(erw) /\ Loading(erw)
    BY DEF ErwInv, RoundInv
  <2>2. \A K : pc # "acts" => ~ Pending(K)
    BY DEF Pending
  <2>3. pc = "vers" /\ "VERNEED" \in erw.modified => erw.vers.loaded
    BY <2>1, <2>2 DEF LoadedInTime
  <2>4. pc \in {"dsyms", "relocs"} /\ "DSYMS" \in erw.modified => erw.dsyms.loaded
    BY <2>1, <2>2 DEF LoadedInTime
  <2>5. pc = "relocs" /\ "RELOCS" \in erw.modified => erw.relocs.loaded
    BY <2>1, <2>4 DEF Reasons, Loading
  <2>6. pc = "dynstr" /\ "DYNSTR" \in erw.modified => erw.building
    BY <2>1, <2>2 DEF LoadedInTime
  <2>7. pc = "dhdrs" /\ "DHDRS" \in erw.modified => erw.dhdrs.loaded
    BY <2>1, <2>2 DEF LoadedInTime
  <2> QED BY <2>3, <2>4, <2>5, <2>6, <2>7 DEF EditorsLoaded
<1> QED BY <1>1, ErwCorrect, PTL

\* What the stages have left when a file is done.
LEMMA AtDone ==
  ASSUME ErwInv, pc = "done"
  PROVE  /\ erw \in State /\ file \in FileRecord /\ ~ erw.retry /\ act = Len(cmd) + 1
         /\ VersDone(erw) /\ DsymsDone(erw) /\ DynstrDone(erw) /\ RelocsDone(erw)
         /\ DhdrsDone(erw) /\ PhdrsDone(erw)
         /\ Loading(erw) /\ Flagged(erw) /\ Contents(erw) /\ Entries(erw)
<1>1. TypeInv /\ StageInv(erw) /\ RoundInv(erw)
  BY DEF ErwInv
<1> QED BY <1>1, FlushAssumption DEF TypeInv, StageInv, RoundInv

\* Nothing of the file which is written out is still at the address 0, on the heap,
\* or without the program header which covers it.
THEOREM NoLostEditsCorrect == Spec => []NoLostEdits
<1>1. ErwInv => NoLostEdits
  <2> SUFFICES ASSUME ErwInv, pc = "done" PROVE NoLostEdits
    BY DEF NoLostEdits
  <2>1. /\ erw \in State /\ ~ erw.retry
        /\ VersDone(erw) /\ DsymsDone(erw) /\ DynstrDone(erw) /\ RelocsDone(erw)
        /\ DhdrsDone(erw) /\ PhdrsDone(erw)
        /\ Loading(erw) /\ Flagged(erw) /\ Contents(erw) /\ Entries(erw)
    BY AtDone
  <2>2. \A t \in Tags : erw.dhdrs.tags[t] # "zero"
    BY <2>1 DEF Entries
  <2>3. erw.phdrs.interp # "zero" /\ erw.phdrs.dynamic # "zero"
    BY <2>1 DEF Entries
  <2>4. ~ erw.phdrs.heap
    BY <2>1 DEF PhdrsDone
  <2>5. "DHDRS" \in erw.modified => ~ erw.dhdrs.heap
    BY <2>1 DEF DhdrsDone
  <2>6. (erw.dsyms.moved \/ erw.dsyms.reordered) => ~ erw.dsyms.heap
    BY <2>1 DEF Flagged, DsymsDone
  <2>7. erw.relocs.reordered => ~ erw.relocs.heap
    BY <2>1 DEF RelocsDone
  <2>8. erw.dhdrs.tags["SYMTAB"] = "new" /\ erw.dsyms.any => ~ erw.dsyms.heap
    BY <2>1 DEF DsymsDone, Contents
  <2>9. erw.dhdrs.tags["STRTAB"] = "new" /\ file.dynamic => erw.image.strings
    BY <2>1 DEF DynstrDone
  <2>10. /\ erw.dhdrs.tags["GNU_HASH"] = "new" => erw.image.gnuHash # << >>
         /\ erw.dhdrs.tags["HASH"] = "new" => erw.image.hash # << >>
    BY <2>1 DEF DsymsDone, HashesDone
  <2>11. (\E c \in {"r", "rw"} : erw.used[c] > 0) => erw.phdrs.at = "new"
    <3> SUFFICES ASSUME NEW c \in {"r", "rw"}, erw.used[c] > 0, erw.phdrs.at # "new"
                 PROVE  FALSE
      OBVIOUS
    <3>1. erw.used[c] <= 0 /\ erw.used[c] \in Int
      BY <2>1 DEF PhdrsDone, State, Categories
    <3> QED BY <3>1
  <2> QED BY <2>2, <2>3, <2>4, <2>5, <2>6, <2>7, <2>8, <2>9, <2>10, <2>11 DEF NoLostEdits
<1> QED BY <1>1, ErwCorrect, PTL

\* The tables which are written agree: the strings, and the order of the symbols.
THEOREM TablesAgreeCorrect == Spec => []TablesAgree
<1>1. ErwInv => TablesAgree
  <2> SUFFICES ASSUME ErwInv, pc = "done" PROVE StringsAgree /\ SymbolsAgree
    BY DEF TablesAgree
  <2>1. /\ erw \in State /\ file \in FileRecord /\ ~ erw.retry
        /\ VersDone(erw) /\ DsymsDone(erw) /\ DynstrDone(erw)
        /\ Loading(erw) /\ Flagged(erw) /\ Contents(erw) /\ Entries(erw)
    BY AtDone
  <2>2. /\ file.dynamic \in BOOLEAN /\ file.sparse \in BOOLEAN /\ erw.building \in BOOLEAN
        /\ erw.added \in BOOLEAN /\ erw.dhdrs.moved \in BOOLEAN /\ erw.dsyms.moved \in BOOLEAN
        /\ erw.vers.weak \in BOOLEAN /\ erw.vers.moved \in BOOLEAN /\ erw.vers.need \in BOOLEAN
    BY <2>1 DEF State, FileRecord, Dhdrs, Dsyms, Vers
  <2> DEFINE isNew == erw.dhdrs.tags["STRTAB"] = "new"
             moved == isNew /\ file.sparse /\ file.dynamic
  <2>3. Compacted(erw) = moved
    BY <2>1, <2>2 DEF Compacted, DynstrDone
  <2>4. erw.dhdrs.moved = moved /\ erw.dsyms.moved = moved
    BY <2>1, <2>3 DEF Contents
  <2>5. erw.dhdrs.tags["VERNEED"] # "none" =>
          moved = (erw.image.vers # << >> /\ erw.image.vers[2])
    <3> SUFFICES ASSUME erw.dhdrs.tags["VERNEED"] # "none"
                 PROVE  moved = (erw.image.vers # << >> /\ erw.image.vers[2])
      OBVIOUS
    <3>1. "VERNEED" \in Orig
      BY <2>1 DEF Entries
    <3>2. CASE "VERNEED" \in erw.modified
      <4>1. erw.vers.need /\ erw.image.vers = <<erw.vers.weak, erw.vers.moved>>
        BY <2>1, <3>2 DEF VersDone
      <4>2. erw.vers.moved = moved
        <5>1. Compacted(erw) => erw.vers.moved
          BY <2>1, <4>1 DEF Contents
        <5>2. erw.vers.moved => Compacted(erw)
          BY <2>1 DEF Contents
        <5>3. erw.vers.moved <=> moved
          BY <2>3, <5>1, <5>2
        <5> HIDE DEF isNew
        <5> QED BY <2>2, <5>3
      <4> HIDE DEF moved
      <4>3. erw.image.vers # << >> /\ erw.image.vers[2] = erw.vers.moved
        BY <4>1
      <4> QED BY <2>2, <4>2, <4>3
    <3>3. CASE "VERNEED" \notin erw.modified
      <4>1. erw.image.vers = << >> /\ ~ erw.vers.moved
        BY <2>1, <3>3 DEF VersDone, Flagged
      <4>2. ~ Compacted(erw)
        <5>1. erw.building => erw.vers.loaded
          BY <2>1 DEF Loading
        <5>2. erw.vers.loaded => erw.vers.need
          BY <2>1, <3>1, <3>3 DEF Flagged
        <5>3. erw.vers.need => (Compacted(erw) => erw.vers.moved)
          BY <2>1 DEF Contents
        <5> QED BY <4>1, <5>1, <5>2, <5>3 DEF Compacted
      <4> QED BY <2>3, <4>1, <4>2
    <3> QED BY <3>2, <3>3
  <2>6. erw.dhdrs.needed => file.known \/ (isNew /\ erw.image.added)
    BY <2>1 DEF Contents, DynstrDone
  <2>7. StringsAgree
    BY <2>4, <2>5, <2>6 DEF StringsAgree
  <2> DEFINE new == erw.dsyms.reordered
  <2>8. erw.dhdrs.tags["RELA"] # "none" => erw.relocs.reordered = new
    <3>1. new \in BOOLEAN
      BY <2>1 DEF State, Dsyms
    <3>2. erw.dhdrs.tags["RELA"] # "none" => "RELA" \in Orig
      BY <2>1 DEF Entries
    <3>3. erw.relocs.reordered = (new /\ "RELA" \in Orig)
      BY <2>1 DEF Contents
    <3> QED BY <3>1, <3>2, <3>3
  <2>9. /\ erw.dhdrs.tags["HASH"] # "none" =>
             erw.image.hash = <<new>> \/ (erw.image.hash = << >> /\ ~ new)
        /\ erw.dhdrs.tags["GNU_HASH"] # "none" =>
             erw.image.gnuHash = <<new>> \/ (erw.image.gnuHash = << >> /\ ~ new)
    BY <2>1 DEF DsymsDone, HashesDone
  <2>10. SymbolsAgree
    BY <2>8, <2>9 DEF SymbolsAgree
  <2> QED BY <2>7, <2>10
<1> QED BY <1>1, ErwCorrect, PTL

\* ldconfig finds the strings of a file which has a name.
THEOREM LdconfigFindsStringsCorrect == Spec => []LdconfigFindsStrings
<1>1. ErwInv => LdconfigFindsStrings
  BY AtDone DEF LdconfigFindsStrings, PhdrsDone
<1> QED BY <1>1, ErwCorrect, PTL

\* What a file which is done has of the actions.
LEMMA AskedDone ==
  ASSUME ErwInv, pc = "done", NEW kind, Asked(kind)
  PROVE  Done(kind, erw)
<1>1. act = Len(cmd) + 1 /\ ActionsDone(erw) /\ TypeInv
  BY AtDone DEF ErwInv
<1>2. cmd \in Seq(Kinds)
  BY <1>1, FlushAssumption DEF TypeInv
<1>3. PICK i \in DOMAIN cmd : cmd[i] = kind
  BY DEF Asked
<1>4. i \in 1..(act - 1)
  BY <1>1, <1>2
<1> HIDE DEF Done
<1> QED BY <1>1, <1>3, <1>4 DEF ActionsDone

\* Whatever the number of rounds, each action has been done, and what prints has
\* printed once, in the order of the command line.
THEOREM AllDoneCorrect == Spec => []AllDone
<1>1. ErwInv => AllDone
  <2> SUFFICES ASSUME ErwInv PROVE AllDone
    OBVIOUS
  <2>1. PrintedOnce
    <3>1. PrintInv
      BY DEF ErwInv
    <3>2. ASSUME pc = "done" PROVE inert = Prints
      <4>1. ~ erw.retry /\ act = Len(cmd) + 1 /\ TypeInv
        BY <3>2, AtDone DEF ErwInv
      <4>2. cmd \in Seq(Kinds)
        BY <4>1, FlushAssumption DEF TypeInv
      <4>3. \A i \in Prints : i < act
        BY <4>1, <4>2 DEF Prints
      <4> QED BY <3>1, <4>1, <4>3 DEF PrintInv
    <3> QED BY <3>1, <3>2 DEF PrintInv, PrintedOnce, Prints
  <2>2. ASSUME pc = "done"
        PROVE  LET tag == erw.dhdrs.tags IN
               /\ Asked("set_interpreter") => erw.phdrs.interp = "new"
               /\ Asked("add_late_needed") => erw.dhdrs.needed /\ erw.phdrs.dynamic # "none"
               /\ Asked("add_gnu_hash") => tag["GNU_HASH"] # "none"
               /\ Asked("add_hash") => tag["HASH"] # "none"
               /\ Asked("remove_verneed") => tag["VERNEED"] = "none" /\ tag["VERSYM"] = "none"
               /\ Asked("weak_verneed") /\ tag["VERNEED"] # "none" =>
                    erw.image.vers # << >> /\ erw.image.vers[1]
               /\ Asked("remove_debug") => tag["DEBUG"] = "none"
    <3>1. /\ erw \in State /\ file \in FileRecord /\ ~ erw.retry
          /\ VersDone(erw) /\ DsymsDone(erw) /\ DhdrsDone(erw)
          /\ Loading(erw) /\ Flagged(erw) /\ Contents(erw) /\ Entries(erw)
      BY <2>2, AtDone
    <3>2. \A kind : Asked(kind) => Done(kind, erw)
      BY <2>2, AskedDone
    <3> DEFINE tag == erw.dhdrs.tags
    <3>3. Asked("set_interpreter") => erw.phdrs.interp = "new"
      <4>1. Asked("set_interpreter") => Done("set_interpreter", erw)
        BY <3>2
      <4> QED BY <3>1, <4>1 DEF Done
    <3>4. Asked("add_late_needed") => erw.dhdrs.needed /\ erw.phdrs.dynamic # "none"
      <4>1. Asked("add_late_needed") => Done("add_late_needed", erw)
        BY <3>2
      <4> QED BY <3>1, <4>1 DEF Done, DhdrsDone
    <3>5. Asked("add_gnu_hash") => tag["GNU_HASH"] # "none"
      <4>1. Asked("add_gnu_hash") => Done("add_gnu_hash", erw)
        BY <3>2
      <4> QED BY <3>1, <4>1 DEF Done, DsymsDone, HashesDone
    <3>6. Asked("add_hash") => tag["HASH"] # "none"
      <4>1. Asked("add_hash") => Done("add_hash", erw)
        BY <3>2
      <4> QED BY <3>1, <4>1 DEF Done, DsymsDone, HashesDone
    <3>7. Asked("remove_verneed") => tag["VERNEED"] = "none" /\ tag["VERSYM"] = "none"
      <4> SUFFICES ASSUME Asked("remove_verneed")
                   PROVE  tag["VERNEED"] = "none" /\ tag["VERSYM"] = "none"
        OBVIOUS
      <4>1. Done("remove_verneed", erw)
        BY <3>2
      <4>2. erw.vers.loaded /\ ~ erw.vers.need
        BY <4>1 DEF Done
      <4>3. CASE "VERNEED" \in Orig
        <5>1. "VERNEED" \in erw.modified
          BY <3>1, <4>2, <4>3 DEF Flagged
        <5>2. tag["VERNEED"] = "none" /\ ~ erw.dsyms.versions
          BY <3>1, <4>2, <5>1 DEF VersDone
        <5> QED BY <3>1, <5>2 DEF DsymsDone
      <4>4. CASE "VERNEED" \notin Orig
        <5>1. "VERSYM" \notin Orig
          BY <3>1, <4>4 DEF Orig, OriginalTags, FileRecord
        <5> QED BY <3>1, <4>4, <5>1 DEF Entries
      <4> QED BY <4>3, <4>4
    <3>8. Asked("weak_verneed") /\ tag["VERNEED"] # "none" =>
            erw.image.vers # << >> /\ erw.image.vers[1]
      <4> SUFFICES ASSUME Asked("weak_verneed"), tag["VERNEED"] # "none"
                   PROVE  erw.image.vers # << >> /\ erw.image.vers[1]
        OBVIOUS
      <4>1. Done("weak_verneed", erw)
        BY <3>2
      <4>2. erw.vers.loaded /\ (erw.vers.need => erw.vers.weak)
        BY <4>1 DEF Done
      <4>3. "VERNEED" \in erw.modified
        BY <3>1, <4>2 DEF Entries, Flagged
      <4>4. erw.vers.need
        BY <3>1, <4>3 DEF VersDone
      <4>5. erw.image.vers = <<erw.vers.weak, erw.vers.moved>>
        BY <3>1, <4>3, <4>4 DEF VersDone
      <4> QED BY <4>2, <4>4, <4>5
    <3>9. Asked("remove_debug") => tag["DEBUG"] = "none"
      <4>1. Asked("remove_debug") => Done("remove_debug", erw)
        BY <3>2
      <4> QED BY <4>1 DEF Done
    <3> QED BY <3>3, <3>4, <3>5, <3>6, <3>7, <3>8, <3>9
  <2> QED BY <2>1, <2>2 DEF AllDone
<1> QED BY <1>1, ErwCorrect, PTL
=============================================================================
