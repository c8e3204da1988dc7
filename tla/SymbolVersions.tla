--------------------------- MODULE SymbolVersions ---------------------------
(***************************************************************************)
(* The editor of symbol versions (the section "vers" of erw.c, and the     *)
(* functions vers_.. and dsyms_clear_version of erw_nne.h).                *)
(*                                                                         *)
(* A file holds two linked lists: DT_VERNEED, a group for each library and *)
(* in it an item for each version required of the library, and DT_VERDEF,  *)
(* a group for each version which the file defines.  Every item has an     *)
(* index, and DT_VERSYM gives each symbol the index of its version.  The   *)
(* editor loads the lists, lets the actions of the command line mark and   *)
(* add items, and vers_flush writes back what is dirty: into the room of   *)
(* deleted items where it suffices, else into a new allocation.            *)
(*                                                                         *)
(* The module is about the round which ends the editing: a round in which  *)
(* erw_alloc has no room writes nothing and starts over (ErwFlush).        *)
(* Addresses count words of four bytes.                                    *)
(***************************************************************************)
EXTENDS Integers, Sequences, FiniteSets, SequencesExt, FiniteSetsExt

CONSTANTS Files,       \* the files: [mem, need, def, libs, symver, feats]
          NameSets,    \* sets of symbols, for --clear-symbol-version
          Renames,     \* functions from symbols to what the renamer makes of them
          TooNew,      \* the versions which are newer than the target of --target-glibc
          Libs,        \* the libraries which --remove-needed is given
          Libcs,       \* those whose name contains "libc"
          MaxActions   \* bound: actions on the command line

VARIABLES v,           \* erw->vers, dsyms.versions and what else the editor changes
          mem,         \* address -> the structure which is there
          dyn,         \* DT_VERNEED and DT_VERDEF: the heads of the two lists
          pc, steps,
          want,        \* history: the binding which each symbol is to have
          hist         \* history: which cases have happened
vars == <<v, mem, dyn, pc, steps, want, hist>>

None == "none"
Relr == "GLIBC_ABI_DT_RELR"   \* required by DT_RELR
Plt == "GLIBC_2.36"           \* required by addends of R_X86_64_JUMP_SLOT, for PLT rewriting
Plain == [lib |-> None, ver |-> None]
NeedSize == [group |-> 4, item |-> 4]   \* Elf_Verneed, Elf_Vernaux
DefSize  == [group |-> 5, item |-> 2]   \* Elf_Verdef, Elf_Verdaux

Map(Op(_), s) == [k \in DOMAIN s |-> Op(s[k])]
\* The entries of s at the positions in K, in their order.
RankIn(K, k) == Cardinality({j \in K : j <= k})
Nth(K, n) == CHOOSE k \in K : RankIn(K, k) = n
Pick(s, K) == [n \in 1 .. Cardinality(K) |-> s[Nth(K, n)]]

(***************************************************************************)
(* Reading a list: the addresses from a head on, along "next".             *)
(***************************************************************************)
ChainAt(m, head) ==
  LET all == Cardinality(DOMAIN m)
      From[n \in 0 .. all] == IF n = 0 THEN head
                              ELSE IF From[n - 1] = 0 THEN 0 ELSE m[From[n - 1]].next
      length == Cardinality({n \in 0 .. all - 1 : From[n] # 0})
  IN  [k \in 1 .. length |-> From[k - 1]]

ListAt(m, head) ==
  LET IndexAt(g, a) == IF m[g].lib # None THEN m[a].idx ELSE IF m[g].aux = a THEN m[g].idx ELSE 0
      Item(g, a) == [id |-> a, ver |-> m[a].ver, idx |-> IndexAt(g, a), weak |-> m[a].weak,
                     addr |-> a, dirty |-> FALSE, del |-> FALSE, unref |-> FALSE]
      Group(g) == [lib |-> m[g].lib, addr |-> g, dirty |-> FALSE, del |-> FALSE,
                   items |-> Map(LAMBDA a : Item(g, a), ChainAt(m, m[g].aux))]
  IN  Map(Group, ChainAt(m, head))

LastCell(m) == Max(DOMAIN m \cup {0})

(***************************************************************************)
(* A file as linkers write it: its lists end, no structure is in two, no   *)
(* two versions have one index, symbols have indices of versions, and a C  *)
(* library is required to have whatever the file makes use of.             *)
(***************************************************************************)
Ends(m, head) ==
  LET c == ChainAt(m, head)
  IN  /\ Range(c) \subseteq DOMAIN m
      /\ head = IF c = <<>> THEN 0 ELSE c[1]
      /\ \A k \in DOMAIN c : m[c[k]].next = IF k < Len(c) THEN c[k + 1] ELSE 0
      /\ \A j, k \in DOMAIN c : c[j] = c[k] => j = k
WellFormed(f) ==
  LET m == f.mem
      need == Range(ChainAt(m, f.need))
      def == Range(ChainAt(m, f.def))
      ItemsOf(g) == Range(ChainAt(m, m[g].aux))
      Carriers == def \cup UNION {ItemsOf(g) : g \in need}
  IN  /\ IsFiniteSet(DOMAIN m) /\ \A a \in DOMAIN m : a \in Nat \ {0}
      /\ Ends(m, f.need) /\ Ends(m, f.def) /\ \A g \in need \cup def : Ends(m, m[g].aux)
      /\ need \cap def = {}
      /\ \A g \in need \cup def : ItemsOf(g) \cap (need \cup def) = {}
      /\ \A g, h \in need \cup def : g # h => ItemsOf(g) \cap ItemsOf(h) = {}
      /\ \A g \in need : m[g].lib # None
      /\ \A g \in def : m[g].lib = None /\ ItemsOf(g) # {}
      /\ \A a \in Carriers : m[a].idx \in Nat \ {0} /\ (m[a].idx = 1 => a \in def)
      /\ \A a, b \in Carriers : m[a].idx = m[b].idx => a = b
      /\ \A s \in DOMAIN f.symver : f.symver[s] \in {0, 1} \cup {m[a].idx : a \in Carriers}
      /\ \A x \in f.feats : \E g \in need : m[g].lib \in Libcs /\ \E a \in ItemsOf(g) : m[a].ver = x

ASSUME VersionsAssumption ==
  /\ \A f \in Files : WellFormed(f)
  /\ \A to \in Renames : /\ Len(to) \in Nat /\ DOMAIN to = 1 .. Len(to)
                         /\ \A s \in DOMAIN to : to[s].kind \in {"keep", "plain", "bind"}
  /\ \A f \in Files, to \in Renames : DOMAIN f.symver = DOMAIN to

(***************************************************************************)
(* erw->vers.base: for each index the group and the item it stands for, of *)
(* which only the two names and the identity of the item matter.           *)
(***************************************************************************)
NoRef == [lib |-> None, id |-> 0, ver |-> None]
Ref(lib, i) == [lib |-> lib, id |-> i.id, ver |-> i.ver]
Count(b) == Cardinality(DOMAIN b)
\* erw_vers_ensure_index, and setting the entry.
SetRef(b, lib, i) ==
  [k \in 0 .. Max({Count(b) - 1, i.idx}) |->
      IF k = i.idx THEN Ref(lib, i)
      ELSE IF k < Count(b) THEN b[k] ELSE NoRef]

\* erwNNE_(vers_init): the base version, the file itself, has no entry.  No two
\* items of a file have one index.
Entries(need, def) ==
  {<<g.items[1].idx, Ref(None, g.items[1])>> : g \in {h \in Range(def) : h.items[1].idx # 1}}
    \cup UNION {{<<i.idx, Ref(g.lib, i)>> : i \in Range(g.items)} : g \in Range(need)}
Refs(need, def) ==
  LET refs == Entries(need, def)
  IN  [k \in 0 .. Max({1} \cup {r[1] : r \in refs}) |->
         IF \E r \in refs : r[1] = k THEN (CHOOSE r \in refs : r[1] = k)[2] ELSE NoRef]

Load(f) ==
  LET need == ListAt(f.mem, f.need)
      def  == ListAt(f.mem, f.def)
  IN  [need |-> need, def |-> def, base |-> Refs(need, def), libs |-> f.libs,
       symver |-> f.symver, versions |-> need # <<>> \/ def # <<>>, mod |-> {}, feats |-> f.feats,
       fresh |-> LastCell(f.mem) + 1]

(***************************************************************************)
(* Adding a version.                                                       *)
(***************************************************************************)
NewItem(w, ver, idx) == [id |-> w.fresh, ver |-> ver, idx |-> idx, weak |-> FALSE,
                         addr |-> 0, dirty |-> TRUE, del |-> FALSE, unref |-> FALSE]
NewGroup(lib, items) == [lib |-> lib, addr |-> 0, dirty |-> TRUE, del |-> FALSE, items |-> items]

\* ensure_verneed: the first group of the library, whether or not it is
\* pending deletion.
GroupsOf(need, lib) == {k \in DOMAIN need : need[k].lib = lib}
EnsureVerneed(need, lib) ==
  IF GroupsOf(need, lib) # {} THEN need ELSE Append(need, NewGroup(lib, <<>>))

AddVernaux(w, lib, ver, idx) ==
  LET i    == NewItem(w, ver, idx)
      need == EnsureVerneed(w.need, lib)
  IN  [w EXCEPT !.need = [need EXCEPT ![Min(GroupsOf(need, lib))].items = <<i>> \o @],
                !.base = SetRef(@, lib, i), !.mod = @ \cup {"need"}, !.fresh = @ + 1]
AddVerdef(w, ver, idx) ==
  LET i == NewItem(w, ver, idx)
  IN  [w EXCEPT !.def = <<NewGroup(None, <<i>>)>> \o @,
                !.base = SetRef(@, None, i), !.mod = @ \cup {"def"}, !.fresh = @ + 1]

\* ver_equal, for all indices
Matching(w, lib, ver) ==
  {k \in DOMAIN w.base : w.base[k].id # 0 /\ w.base[k].lib = lib /\ w.base[k].ver = ver}
\* Variant: an unused index below 3 as well.
Avail_Any(w) == IF Count(w.base) >= 3 THEN Count(w.base) - 1 ELSE 3
\* The index of a new version: the last unused one from 3 on.
Avail(w) ==
  LET unused == {k \in DOMAIN w.base : k >= 3 /\ w.base[k] = NoRef}
  IN  IF unused # {} THEN Max(unused) ELSE Max({Count(w.base), 3})

\* erw_vers_find_or_add.  The cache which the caller passes only saves time.
FindOrAdd(w, lib, ver) ==
  IF Matching(w, lib, ver) # {} THEN [v |-> w, idx |-> Min(Matching(w, lib, ver))]
  ELSE [v |-> IF lib = None THEN AddVerdef(w, ver, Avail(w)) ELSE AddVernaux(w, lib, ver, Avail(w)),
        idx |-> Avail(w)]

(***************************************************************************)
(* Marking: VER_EDIT_STATE_REMOVED_REFS on the items which satisfy Test.   *)
(***************************************************************************)
MarkIn(groups, Test(_)) ==
  Map(LAMBDA g : [g EXCEPT !.items = Map(LAMBDA i : [i EXCEPT !.unref = @ \/ Test(i)], @)], groups)
\* Variant: the tables of the items are not noted as modified.
RemoveRefs_Unmodified(w, indices) ==
  LET ids == {w.base[k].id : k \in indices \cap DOMAIN w.base} \ {0}
      Is(i) == i.id \in ids
  IN  [w EXCEPT !.need = MarkIn(@, Is), !.def = MarkIn(@, Is)]
\* The items which indices stand for lose references.
RemoveRefs(w, indices) ==
  LET refs == {ref \in {w.base[k] : k \in indices \cap DOMAIN w.base} : ref.id # 0}
      Is(i) == i.id \in {ref.id : ref \in refs}
  IN  [w EXCEPT !.need = MarkIn(@, Is), !.def = MarkIn(@, Is),
                !.mod = @ \cup {IF ref.lib = None THEN "def" ELSE "need" : ref \in refs}]

(***************************************************************************)
(* The actions of the command line.                                        *)
(***************************************************************************)
\* action_remove_verneed: the items stay in base.
RemoveVerneedOf(w) ==
  IF w.need = <<>> THEN w
  ELSE [w EXCEPT !.symver = [s \in DOMAIN @ |->
                     IF @[s] \in DOMAIN w.base /\ w.base[@[s]].lib # None THEN 1 ELSE @[s]],
                 !.need = Map(LAMBDA g : [g EXCEPT !.del = TRUE, !.dirty = FALSE], @),
                 !.mod = @ \cup {"need"}]

\* action_weak_verneed
WeakVerneedOf(w) ==
  LET Strong(i) == ~i.weak
      Weaken(g) == IF \E k \in DOMAIN g.items : Strong(g.items[k])
                   THEN [g EXCEPT !.dirty = TRUE,
                                  !.items = Map(LAMBDA i : IF Strong(i) THEN [i EXCEPT !.weak = TRUE, !.dirty = TRUE]
                                                                        ELSE i, @)]
                   ELSE g
  IN  [w EXCEPT !.need = Map(Weaken, @),
                !.mod = IF Map(Weaken, w.need) = w.need THEN @ ELSE @ \cup {"need"}]

\* erwNNE_(dhdrs_remove_needed): its versions become versions which the file
\* defines itself, with the same indices.
Own(w, i) == i.idx \in DOMAIN w.base /\ w.base[i.idx].id = i.id
DefineItems(w, items) ==
  LET W[j \in 0 .. Len(items)] ==
        IF j = 0 THEN w
        ELSE IF Own(W[j - 1], items[j]) THEN AddVerdef(W[j - 1], items[j].ver, items[j].idx)
        ELSE W[j - 1]
  IN  W[Len(items)]
DefineGroup(w, k) ==
  DefineItems([w EXCEPT !.need[k].del = TRUE, !.mod = @ \cup {"need", "def"}], w.need[k].items)
RemoveNeededOf(w, lib) ==
  LET W[k \in 0 .. Len(w.need)] ==
        IF k = 0 THEN [w EXCEPT !.libs = @ \ {lib}]
        ELSE IF w.need[k].lib = lib THEN DefineGroup(W[k - 1], k) ELSE W[k - 1]
  IN  IF lib \in w.libs THEN W[Len(w.need)] ELSE w

\* erwNNE_(dsyms_clear_version)
ClearVersionOf(w, names) ==
  LET cleared == {s \in names : w.symver[s] > 1}
  IN  IF ~w.versions THEN w
      ELSE RemoveRefs([w EXCEPT !.symver = [s \in DOMAIN @ |-> IF s \in cleared THEN 1 ELSE @[s]]],
                      {w.symver[s] : s \in cleared})

\* erw_dsyms_ensure_versions_array: index 1, no version, for every symbol
EnsureVersionsArray(w) ==
  [w EXCEPT !.versions = TRUE, !.symver = IF w.versions THEN @ ELSE [s \in DOMAIN @ |-> 1]]

\* erwNNE_(renamer_apply_to), for one symbol: it is kept, or becomes local
\* (its implementation is linked into the file), or loses its version, or is
\* bound to a version of a library, on which the file then depends.
Rebind(w, s, to) ==
  CASE to.kind = "keep"  -> w
    [] to.kind = "plain" -> IF ~w.versions \/ w.symver[s] = 1 THEN w
                            ELSE RemoveRefs([w EXCEPT !.symver[s] = 1], {w.symver[s]})
    [] to.kind = "bind"  ->
         LET found == FindOrAdd([EnsureVersionsArray(w) EXCEPT !.libs = @ \cup {to.lib}], to.lib, to.ver)
         IN  IF found.idx = w.symver[s] THEN found.v
             ELSE RemoveRefs([found.v EXCEPT !.symver[s] = found.idx], {w.symver[s]})
RebindAll(w, to) ==
  LET W[s \in 0 .. Len(to)] == IF s = 0 THEN w ELSE Rebind(W[s - 1], s, to[s])
  IN  W[Len(to)]

\* target_ver_registry_confirm: DT_RELR is replaced, and what is newer than
\* the target is to go unless a symbol refers to it.
Newer(i) == i.ver \in TooNew
LiveItems(groups) == UNION {Range(g.items) : g \in {h \in Range(groups) : ~h.del}}
MarkNewer(w) ==
  LET Live(g) == IF g.del THEN g ELSE [g EXCEPT !.items = Map(LAMBDA i : [i EXCEPT !.unref = @ \/ Newer(i)], @)]
      relr == \E i \in LiveItems(w.need) : i.ver = Relr /\ Newer(i)
  IN  [w EXCEPT !.need = Map(Live, @), !.feats = IF relr THEN @ \ {Relr} ELSE @]
\* Variant: a version is excused by any other which is weak.
BadSymbols_AllStrong(w) ==
  {s \in DOMAIN w.symver : \A i \in LiveItems(w.need) :
      i.idx = w.symver[s] /\ w.base[i.idx].id = i.id /\ Newer(i) /\ ~i.weak}
BadSymbols(w) ==
  {s \in DOMAIN w.symver : \E i \in LiveItems(w.need) :
      i.idx = w.symver[s] /\ w.base[i.idx].id = i.id /\ Newer(i) /\ ~i.weak}

(***************************************************************************)
(* vers_flush.                                                             *)
(***************************************************************************)
\* erwE_(vers_check_removed_refs): an item which a symbol refers to stays.
CheckRemovedRefs(w) ==
  LET used == {w.base[k].id : k \in {w.symver[s] : s \in DOMAIN w.symver} \cap DOMAIN w.base}
      Check(g) == [g EXCEPT !.items = Map(LAMBDA i : [i EXCEPT !.unref = @ /\ i.id \notin used], @)]
  IN  IF ~w.versions THEN w ELSE [w EXCEPT !.need = Map(Check, @), !.def = Map(Check, @)]
\* verdef_sweep_removed_refs
SweepDef(def) == Map(LAMBDA g : [g EXCEPT !.del = @ \/ g.items[1].unref], def)
\* verneed_sweep_removed_refs
SweepNeed(need) ==
  LET Item(i) == [i EXCEPT !.unref = FALSE, !.del = i.unref \/ i.del]
      Group(g) == IF g.del THEN g
                  ELSE LET items == Map(Item, g.items)
                       IN  [g EXCEPT !.items = items, !.del = \A k \in DOMAIN items : items[k].del]
  IN  Map(Group, need)
\* Variant: only if its item is deleted.
Removing_Items(swept) ==
  UNION {{i.ver : i \in {j \in Range(g.items) : ~g.del /\ j.del}} : g \in {h \in Range(swept) : h.lib \in Libcs}}
\* verneed_removing: what a version stands for is taken out of the file,
\* whether its item is deleted or its group is.
Removing(swept) ==
  UNION {{i.ver : i \in {j \in Range(g.items) : g.del \/ j.del}} : g \in {h \in Range(swept) : h.lib \in Libcs}}

\* vers_ensure_vaddrs.  The list can stay in place if what is deleted has
\* room for what is new; then the addresses are dealt out again, in order.
LiveAt(s) == {k \in DOMAIN s : ~s[k].del}
PlacedAt(s) == {k \in DOMAIN s : s[k].addr # 0}
Live(s) == Pick(s, LiveAt(s))
Rank(s, k) == RankIn(LiveAt(s), k)
Suffices(s) == Cardinality(LiveAt(s) \ PlacedAt(s)) <= Cardinality(PlacedAt(s) \ LiveAt(s))
InPlace(groups) == /\ Suffices(groups)
                   /\ \A g \in Range(groups) : g.del \/ Suffices(g.items)
Redeal(s) ==
  IF LiveAt(s) \subseteq PlacedAt(s) THEN s
  ELSE [k \in DOMAIN s |-> IF s[k].del THEN [s[k] EXCEPT !.addr = 0]
                           ELSE [s[k] EXCEPT !.addr = Pick(s, PlacedAt(s))[Rank(s, k)].addr, !.dirty = TRUE]]
\* Else all of it moves to an allocation at brk: the groups, and after them
\* the items.  The groups which are deleted count when the items are placed.
LiveItemsAt(groups) == UNION {{k} \X LiveAt(groups[k].items) : k \in LiveAt(groups)}
Relocate(groups, size, brk) ==
  LET UpTo(k, j) == {p \in LiveItemsAt(groups) : p[1] < k \/ (p[1] = k /\ p[2] <= j)}
      GroupAddr(k) == brk + (Rank(groups, k) - 1) * size.group
      ItemAddr(k, j) == brk + Len(groups) * size.group + (Cardinality(UpTo(k, j)) - 1) * size.item
  IN  [k \in DOMAIN groups |->
         IF groups[k].del THEN groups[k]
         ELSE [groups[k] EXCEPT !.addr = GroupAddr(k), !.dirty = TRUE,
                 !.items = [j \in DOMAIN @ |-> IF @[j].del THEN @[j]
                                               ELSE [@[j] EXCEPT !.addr = ItemAddr(k, j), !.dirty = TRUE]]]]
\* Variant: only what has no place yet.
Required_New(groups, size) ==
  Cardinality(LiveAt(groups) \ PlacedAt(groups)) * size.group
    + Cardinality({p \in LiveItemsAt(groups) : groups[p[1]].items[p[2]].addr = 0}) * size.item
Required(groups, size) ==
  Cardinality(LiveAt(groups)) * size.group + Cardinality(LiveItemsAt(groups)) * size.item
EnsureVaddrs(groups, size, brk) ==
  IF InPlace(groups)
  THEN Redeal(Map(LAMBDA g : IF g.del THEN g ELSE [g EXCEPT !.items = Redeal(@)], groups))
  ELSE Relocate(groups, size, brk)

\* Variant: only what is before something dirty.
EraseFrom_Dirty(s) ==
  Live([k \in DOMAIN s |-> IF k < Len(s) /\ s[k + 1].dirty THEN [s[k] EXCEPT !.dirty = TRUE] ELSE s[k]])
\* vers_erase_pending_deletes: whatever is before something deleted or
\* dirty has to be written again, as it holds the link to it.
EraseFrom(s) ==
  Live([k \in DOMAIN s |-> IF k < Len(s) /\ (s[k + 1].dirty \/ s[k + 1].del) THEN [s[k] EXCEPT !.dirty = TRUE]
                           ELSE s[k]])
EraseItems(g) ==
  [g EXCEPT !.items = EraseFrom(@),
            !.dirty = @ \/ (g.items # <<>> /\ (g.items[1].dirty \/ g.items[1].del))]
Erase(groups) == Map(EraseItems, EraseFrom(groups))

\* The structures which are written: those which are dirty.
Next1(s, k) == IF k < Len(s) THEN s[k + 1].addr ELSE 0
GroupCells(groups) ==
  {[addr |-> groups[k].addr, lib |-> groups[k].lib, next |-> Next1(groups, k),
    aux |-> IF groups[k].items = <<>> THEN 0 ELSE groups[k].items[1].addr,
    idx |-> IF groups[k].items = <<>> THEN 0 ELSE groups[k].items[1].idx] :
       k \in {n \in DOMAIN groups : groups[n].dirty}}
ItemCells(items) ==
  {[addr |-> items[k].addr, ver |-> items[k].ver, next |-> Next1(items, k),
    idx |-> items[k].idx, weak |-> items[k].weak] : k \in {n \in DOMAIN items : items[n].dirty}}
Write(m, groups) ==
  LET cells == GroupCells(groups) \cup UNION {ItemCells(g.items) : g \in Range(groups)}
      At(a) == CHOOSE c \in cells : c.addr = a
      addrs == {c.addr : c \in cells}
  IN  [a \in DOMAIN m \cup addrs |-> IF a \in addrs THEN At(a) ELSE m[a]]

HeadOf(groups) == IF groups = <<>> THEN 0 ELSE groups[1].addr
Brk(m) == LastCell(m) + 10   \* the end of what is allocated

\* The last part of vers_flush: without any index there is no DT_VERSYM, and
\* an index beyond the last one becomes that of no version.
DropVersions(w) ==
  LET indices == {i.idx : i \in UNION {Range(g.items) : g \in Range(w.need)}}
                 \cup {g.items[1].idx : g \in Range(w.def)}
      last == Max(indices \cup {0})
  IN  [w EXCEPT !.versions = @ /\ last # 0,
                !.symver = [s \in DOMAIN @ |-> IF @[s] > last THEN 1 ELSE @[s]]]

(***************************************************************************)
(* The specification.                                                      *)
(***************************************************************************)
Init == \E f \in Files :
  /\ v = Load(f)
  /\ mem = f.mem
  /\ dyn = [need |-> f.need, def |-> f.def]
  /\ pc = "edit" /\ steps = 0
  /\ LET Of(i) == Load(f).base[i]
     IN  want = [s \in DOMAIN f.symver |-> [lib |-> Of(f.symver[s]).lib, ver |-> Of(f.symver[s]).ver]]
  /\ hist = [file |-> f, renamed |-> FALSE, target |-> FALSE, reused |-> FALSE,
             overran |-> FALSE, deleted |-> FALSE]

Act == pc = "edit" /\ steps < MaxActions /\ steps' = steps + 1 /\ UNCHANGED <<mem, dyn>>
WantPlain(S) == [s \in DOMAIN want |-> IF s \in S THEN Plain ELSE want[s]]

RemoveVerneed ==
  /\ Act /\ UNCHANGED <<pc, hist>>
  /\ v' = RemoveVerneedOf(v)
  /\ want' = WantPlain({s \in DOMAIN want : want[s].lib # None})

WeakVerneed ==
  /\ Act /\ UNCHANGED <<pc, hist, want>>
  /\ v' = WeakVerneedOf(v)

RemoveNeeded(lib) ==
  /\ Act /\ UNCHANGED <<pc, hist>>
  /\ v' = RemoveNeededOf(v, lib)
  /\ want' = [s \in DOMAIN want |-> IF lib \in v.libs /\ want[s].lib = lib THEN [want[s] EXCEPT !.lib = None]
                                    ELSE want[s]]

ClearVersion(names) ==
  /\ Act /\ UNCHANGED <<pc, hist>>
  /\ v' = ClearVersionOf(v, names)
  /\ want' = WantPlain(names)

\* renamer_apply_to.  There is one renamer for the command line, whose place
\* is that of the first action which needs it.
Rename(to, target) ==
  /\ Act /\ ~hist.renamed
  /\ LET bound == RebindAll(v, to)
     IN  /\ v' = IF target THEN MarkNewer(bound) ELSE bound
         /\ pc' = IF target /\ BadSymbols(bound) # {} THEN "failed" ELSE pc
  /\ want' = [s \in DOMAIN want |-> CASE to[s].kind = "keep"  -> want[s]
                                      [] to[s].kind = "plain" -> Plain
                                      [] to[s].kind = "bind"  -> [lib |-> to[s].lib, ver |-> to[s].ver]]
  /\ hist' = [hist EXCEPT !.renamed = TRUE, !.target = target,
                !.reused = \E s \in DOMAIN to : to[s].kind = "bind" /\
                              \E k \in GroupsOf(v.need, to[s].lib) : v.need[k].del]

\* Whether something is placed behind what has been allocated (history).
Overran(groups, size, brk) ==
  ~InPlace(groups) /\
    LET end == brk + Required(groups, size)
    IN  \E g \in Range(Erase(Relocate(groups, size, brk))) :
          g.addr + size.group > end \/ \E i \in Range(g.items) : i.addr + size.item > end
\* erwNNE_(vers_flush)
Flush ==
  /\ pc = "edit" /\ pc' = "done"
  /\ LET w    == CheckRemovedRefs(v)
         def  == SweepDef(w.def)
         need == SweepNeed(w.need)
         brk  == Brk(mem)
         brk1 == IF InPlace(def) THEN brk ELSE brk + Required(def, DefSize)
         def1  == IF "def" \in v.mod THEN Erase(EnsureVaddrs(def, DefSize, brk)) ELSE v.def
         need1 == IF "need" \in v.mod THEN Erase(EnsureVaddrs(need, NeedSize, brk1)) ELSE v.need
     IN  IF v.mod = {} THEN UNCHANGED <<v, mem, dyn, hist>>
         ELSE /\ v' = DropVersions([w EXCEPT !.def = def1, !.need = need1,
                        !.feats = IF "need" \in v.mod THEN @ \ Removing(need) ELSE @])
              /\ mem' = Write(Write(mem, def1), need1)
              /\ dyn' = [need |-> IF "need" \in v.mod THEN HeadOf(need1) ELSE dyn.need,
                         def  |-> IF "def" \in v.mod THEN HeadOf(def1) ELSE dyn.def]
              /\ hist' = [hist EXCEPT
                   !.overran = \/ "def" \in v.mod /\ Overran(def, DefSize, brk)
                               \/ "need" \in v.mod /\ Overran(need, NeedSize, brk1),
                   !.deleted = \E g \in Range(def) \cup Range(need) : g.del]
  /\ UNCHANGED <<steps, want>>

Terminated == pc # "edit" /\ UNCHANGED vars

Next == \/ RemoveVerneed \/ WeakVerneed \/ Flush \/ Terminated
        \/ \E lib \in Libs : RemoveNeeded(lib)
        \/ \E names \in NameSets : ClearVersion(names)
        \/ \E to \in Renames, target \in BOOLEAN : Rename(to, target)
Spec == Init /\ [][Next]_vars

(***************************************************************************)
(* What a loader makes of the file which is written: it walks along both   *)
(* lists and notes for each index the version it stands for.               *)
(***************************************************************************)
FileNeed == ListAt(mem, dyn.need)
FileDef  == ListAt(mem, dyn.def)
Described(idx) ==
  UNION {{[lib |-> g.lib, ver |-> i.ver] : i \in {j \in Range(g.items) : j.idx = idx}} :
            g \in Range(FileNeed) \cup Range(FileDef)}
NeedVersions(groups) == UNION {{<<g.lib, i.ver>> : i \in Range(g.items)} : g \in Range(groups)}

\* A file has been written, and nothing behind what was allocated for it, which
\* would overwrite something else.
Written == pc = "done" /\ ~hist.overran
\* A list as others see it: without the marks and the places of the editor.
Seen(groups) ==
  Map(LAMBDA g : [lib |-> g.lib, items |-> Map(LAMBDA i : <<i.ver, i.idx, i.weak>>, g.items)], groups)

(***************************************************************************)
(* Properties.                                                             *)
(***************************************************************************)
\* Every symbol is bound as the actions have asked for, one after the other:
\* its index is described by one version in the file, which is that of the
\* library it is to come from.  (Unless the renamer has used versions which
\* an earlier action had deleted: find_or_add still finds them.)
Bindings ==
  (Written /\ ~hist.reused) =>
     \A s \in DOMAIN want :
        IF v.versions /\ v.symver[s] > 1 THEN Described(v.symver[s]) = {want[s]} ELSE want[s] = Plain

\* The lists which are in the file, however much of it was written again,
\* are those which the editor has: whatever was deleted, added or moved is
\* reached by a link which was written again.
ImageAgrees == Written => Seen(FileNeed) = Seen(v.need) /\ Seen(FileDef) = Seen(v.def)

\* What vers_ensure_vaddrs places is inside of what it allocates, as long as
\* nothing is deleted: groups which are count when the items are placed, and not
\* when the room is measured.
InsideAllocation == hist.overran => hist.deleted

\* The file requires no version which lost its last symbol on the way:
\* vers_check_removed_refs finds those which are garbage.
NothingUnused ==
  Written =>
     \A g \in Range(FileNeed) : \A i \in Range(g.items) :
        \/ \E s \in DOMAIN want : v.symver[s] = i.idx
        \/ \E h \in Range(ListAt(hist.file.mem, hist.file.need)) : h.lib = g.lib /\
             \E j \in Range(h.items) : j.ver = i.ver /\ \A s \in DOMAIN want : hist.file.symver[s] # j.idx

\* A file which still has DT_RELR, or addends for PLT rewriting, still
\* requires a C library which knows of them: a version is only deleted
\* together with what it stands for.
FeaturesRequired ==
  Written => \A f \in v.feats : \E lib \in Libcs : <<lib, f>> \in NeedVersions(FileNeed)

\* After --target-glibc no symbol is bound to a newer version, except a weak
\* one; else the program gives up.  And no such version is required any more,
\* once the list of them has been written at all.
TargetMet ==
  (Written /\ hist.target) =>
     \A g \in Range(FileNeed) : \A i \in Range(g.items) :
        Newer(i) /\ ~i.weak => "need" \notin v.mod /\ \A s \in DOMAIN want : v.symver[s] # i.idx
=============================================================================
