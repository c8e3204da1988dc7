----------------------- MODULE SymbolVersions_inv -----------------------
(***************************************************************************)
(* The invariants which SymbolVersions_proofs proves of SymbolVersions,    *)
(* and what their proofs speak of.                                         *)
(*                                                                         *)
(* The invariant, IInv, is about the editor between actions.  Each of its  *)
(* two lists is tied to the one in the file: an entry which has a place is *)
(* linked there to the next which has one, and agrees with what is there   *)
(* unless it is dirty, whereas one without a place is dirty.  No two       *)
(* structures share a place, and a table is clean unless it is noted as    *)
(* modified.  The lemmas follow vers_flush through its stages, from lists  *)
(* which are so to lists whose every structure is in the file: places are  *)
(* dealt out or allocated (Ensured), deleted entries are erased (Whole),   *)
(* and what is dirty is written (InFile).  Reading those lists back from   *)
(* their heads then gives the lists of the editor, by induction along      *)
(* each of them.  What actions do is to mark (Like), to add entries which  *)
(* have no place (ComesFrom), or both, for one symbol or item after the    *)
(* other.                                                                  *)
(*                                                                         *)
(* A second invariant, BInv, is about the indices of symbols: each stands  *)
(* for an item or a definition, which no other index does (Indexed), and   *)
(* which is what the symbol is to be bound to (Binds); and an item which   *)
(* no symbol refers to is marked (Spared, OldOnly).  It is inductive       *)
(* together with the first.  For the last step, what is in the lists is    *)
(* a set (Lines): that which is written is what was not garbage (Rests).   *)
(***************************************************************************)
EXTENDS SymbolVersions

-----------------------------------------------------------------------------
(* Lists.                                                                   *)

\* The entries of a sequence, and what it is to be one.
Values(s) == {s[k] : k \in DOMAIN s}
List(s) == s \in Seq(Values(s))

-----------------------------------------------------------------------------
(* A list of the editor, and the list in the file from which it was loaded.  Some of *)
(* its entries have no place in the file yet, and their addresses are 0.    *)

\* Behind position k, the next entry that has a place is at the address a.
Follows(s, k, a) ==
  \/ a = 0 /\ \A j \in DOMAIN s : j > k => s[j].addr = 0
  \/ \E j \in DOMAIN s : /\ j > k /\ s[j].addr = a /\ a # 0
                         /\ \A i \in DOMAIN s : k < i /\ i < j => s[i].addr = 0
\* So it is in the file, from the head of the list on.
Tied(m, head, s) ==
  /\ Follows(s, 0, head)
  /\ \A k \in PlacedAt(s) : s[k].addr \in DOMAIN m /\ Follows(s, k, m[s[k].addr].next)

-----------------------------------------------------------------------------
(* The two lists while they are edited.                                     *)

\* What a group and an item have.
GroupFields == {"lib", "addr", "dirty", "del", "items"}
ItemFields == {"ver", "idx", "weak", "addr", "dirty", "del", "unref"}
\* An item which has a place agrees with what is there, but for being weak if
\* it is dirty.  Without a place it is dirty.
ItemIs(m, lib, i) ==
  /\ ItemFields \subseteq DOMAIN i /\ i.addr \in Nat
  /\ i.addr = 0 => i.dirty
  /\ i.addr # 0 => /\ i.addr \in DOMAIN m /\ m[i.addr].ver = i.ver
                   /\ i.dirty \/ m[i.addr].weak = i.weak
                   /\ lib # None => m[i.addr].idx = i.idx
\* So does a group, whose items are tied to it.
GroupIs(m, g) ==
  /\ GroupFields \subseteq DOMAIN g /\ g.addr \in Nat /\ List(g.items)
  /\ \A j \in DOMAIN g.items : ItemIs(m, g.lib, g.items[j])
  /\ g.addr = 0 => (g.dirty \/ g.del) /\ PlacedAt(g.items) = {}
  /\ g.addr # 0 => /\ g.addr \in DOMAIN m /\ m[g.addr].lib = g.lib
                   /\ Tied(m, m[g.addr].aux, g.items)
\* The first item of a group which defines a version has its index.
Defines(m, g) ==
  /\ g.lib = None /\ g.items # <<>>
  /\ \A j \in DOMAIN g.items : ~g.items[j].del /\ (j > 1 => g.items[j].idx = 0)
  /\ g.addr # 0 => m[g.addr].idx = g.items[1].idx
\* The address of the group itself, and of its items.
Addr(g, j) == IF j = 0 THEN g.addr ELSE g.items[j].addr
Pos(g) == 0 .. Len(g.items)
\* No two structures of a list have one address...
Apart(gs) ==
  \A k, l \in DOMAIN gs : \A i \in Pos(gs[k]), j \in Pos(gs[l]) :
     Addr(gs[k], i) # 0 /\ Addr(gs[k], i) = Addr(gs[l], j) => k = l /\ i = j
\* ...nor two of different lists.
Disjoint(gs, hs) ==
  \A k \in DOMAIN gs, l \in DOMAIN hs : \A i \in Pos(gs[k]), j \in Pos(hs[l]) :
     Addr(gs[k], i) = Addr(hs[l], j) => Addr(gs[k], i) = 0
\* A list as it is while it is edited.
Listed(m, head, gs) ==
  /\ List(gs) /\ \A k \in DOMAIN gs : GroupIs(m, gs[k])
  /\ Tied(m, head, gs) /\ Apart(gs)
\* Nothing in a list is to be written.
Clean(gs) ==
  \A k \in DOMAIN gs : /\ ~gs[k].dirty /\ ~gs[k].del
                       /\ \A j \in DOMAIN gs[k].items : ~gs[k].items[j].dirty /\ ~gs[k].items[j].del
\* What is required is of a library; what is defined is of none.
Needs(gs) == \A k \in DOMAIN gs : gs[k].lib # None
AllDefine(m, gs) == \A k \in DOMAIN gs : Defines(m, gs[k])
\* The library which knows of feature f is required with it.
KnownIn(gs, f) == \E k \in DOMAIN gs : gs[k].lib \in Libcs /\ \E j \in DOMAIN gs[k].items : gs[k].items[j].ver = f
\* The file has finitely many addresses.
Memory(m) == IsFiniteSet(DOMAIN m) /\ DOMAIN m \in SUBSET (Nat \ {0})
Fields == {"need", "def", "base", "libs", "symver", "versions", "mod", "feats", "fresh"}
\* The editor, as every action of the command line leaves it: both lists agree with
\* the file but for what is dirty, a list which is not noted as modified is clean, and
\* a feature is known to a C library which is required.
Editing(w, m, d) ==
  /\ Fields \subseteq DOMAIN w
  /\ Listed(m, d.need, w.need) /\ Needs(w.need)
  /\ Listed(m, d.def, w.def) /\ AllDefine(m, w.def)
  /\ Disjoint(w.def, w.need)
  /\ "need" \notin w.mod => Clean(w.need)
  /\ "def" \notin w.mod => Clean(w.def)
  /\ \A f \in w.feats : KnownIn(w.need, f)
\* The inductive invariant.
IInv ==
  /\ pc = "edit" => Memory(mem) /\ Editing(v, mem, dyn)
  /\ pc # "done" => {"overran", "deleted"} \subseteq DOMAIN hist /\ ~hist.overran
  /\ ImageAgrees /\ InsideAllocation /\ FeaturesRequired

-----------------------------------------------------------------------------
(* What is written: the two lists once everything in them has a place.      *)

\* What is not dirty links to what follows, if that is not dirty either.
Links(m, s) ==
  \A k \in LiveAt(s) : ~s[k].dirty =>
     /\ s[k].addr \in DOMAIN m
     /\ k = Len(s) => m[s[k].addr].next = 0
     /\ k + 1 \in LiveAt(s) /\ ~s[k + 1].dirty => m[s[k].addr].next = s[k + 1].addr
\* A group agrees with what is there, unless it is dirty or its first item is.
Heads(m, g) ==
  ~g.dirty =>
     /\ g.addr \in DOMAIN m /\ m[g.addr].lib = g.lib
     /\ g.items = <<>> => m[g.addr].aux = 0
     /\ g.items # <<>> /\ ~g.items[1].dirty /\ ~g.items[1].del => m[g.addr].aux = g.items[1].addr
     /\ g.lib = None => m[g.addr].idx = g.items[1].idx
\* An item with a place agrees with what is there, unless it is dirty.
ItemPlaced(m, lib, i) ==
  /\ ItemFields \subseteq DOMAIN i /\ i.addr \in Nat \ {0}
  /\ ~i.dirty => /\ i.addr \in DOMAIN m /\ m[i.addr].ver = i.ver /\ m[i.addr].weak = i.weak
                 /\ lib # None => m[i.addr].idx = i.idx
\* The items of a version which is defined.
FirstOnly(g) ==
  g.lib = None => /\ g.items # <<>>
                  /\ \A j \in DOMAIN g.items : ~g.items[j].del /\ (j > 1 => g.items[j].idx = 0)
\* A group of which everything that lives has a place.
GroupPlaced(m, g) ==
  /\ g.addr \in Nat \ {0} /\ Heads(m, g) /\ FirstOnly(g)
  /\ \A j \in LiveAt(g.items) : ItemPlaced(m, g.lib, g.items[j])
  /\ Links(m, g.items)
LivePos(g) == {0} \cup LiveAt(g.items)
\* A list of groups, whatever is in them.
Groups(gs) ==
  List(gs) /\ \A k \in DOMAIN gs : /\ GroupFields \subseteq DOMAIN gs[k] /\ List(gs[k].items)
                                   /\ \A j \in DOMAIN gs[k].items : ItemFields \subseteq DOMAIN gs[k].items[j]
\* A list as vers_ensure_vaddrs leaves it.
Ensured(m, gs) ==
  /\ Groups(gs)
  /\ \A k \in LiveAt(gs) : GroupPlaced(m, gs[k])
  /\ Links(m, gs)
  /\ \A k, l \in LiveAt(gs) : \A i \in LivePos(gs[k]), j \in LivePos(gs[l]) :
        Addr(gs[k], i) = Addr(gs[l], j) => k = l /\ i = j
\* The structures of a list, as they are to be in the file.
GroupAgrees(m, gs, k) ==
  LET g == gs[k]
  IN  /\ g.addr \in DOMAIN m /\ m[g.addr].lib = g.lib /\ m[g.addr].next = Next1(gs, k)
      /\ m[g.addr].aux = IF g.items = <<>> THEN 0 ELSE g.items[1].addr
      /\ g.lib = None => m[g.addr].idx = g.items[1].idx
ItemAgrees(m, g, j) ==
  LET i == g.items[j]
  IN  /\ i.addr \in DOMAIN m /\ m[i.addr].ver = i.ver /\ m[i.addr].weak = i.weak
      /\ m[i.addr].next = Next1(g.items, j)
      /\ g.lib # None => m[i.addr].idx = i.idx
\* A list in which everything has a place of its own.
Shaped(gs) ==
  /\ Groups(gs) /\ Apart(gs)
  /\ \A k \in DOMAIN gs : FirstOnly(gs[k]) /\ \A i \in Pos(gs[k]) : Addr(gs[k], i) \in Nat \ {0}
\* Whatever is not there yet is dirty.
Whole(m, gs) ==
  /\ Shaped(gs)
  /\ \A k \in DOMAIN gs : /\ gs[k].dirty \/ GroupAgrees(m, gs, k)
                          /\ \A j \in DOMAIN gs[k].items : gs[k].items[j].dirty \/ ItemAgrees(m, gs[k], j)
\* All of it is there.
InFile(m, gs) ==
  /\ Shaped(gs)
  /\ \A k \in DOMAIN gs : GroupAgrees(m, gs, k) /\ \A j \in DOMAIN gs[k].items : ItemAgrees(m, gs[k], j)
\* What is in the list es is where something of gs is which is left; and what is left
\* of gs is in es.
PlacedAs(es, gs) ==
  \A k \in DOMAIN es : \A i \in Pos(es[k]) :
     \E l \in LiveAt(gs) : \E j \in LivePos(gs[l]) : Addr(es[k], i) = Addr(gs[l], j) /\ (i = 0 <=> j = 0)
\* What lives is still there.
Survive(es, gs) ==
  \A l \in LiveAt(gs) : \A j \in LiveAt(gs[l].items) : \E k \in DOMAIN es :
     es[k].lib = gs[l].lib /\ \E i \in DOMAIN es[k].items : es[k].items[i].ver = gs[l].items[j].ver

-----------------------------------------------------------------------------
(* Staying in place.                                                        *)

\* Whose place an entry gets.
DealtFrom(s, k) == IF LiveAt(s) \subseteq PlacedAt(s) THEN k ELSE Nth(PlacedAt(s), Rank(s, k))
\* The groups which define versions, if any.
Defining(m, gs) == \A k \in DOMAIN gs : gs[k].lib = None => Defines(m, gs[k])

-----------------------------------------------------------------------------
(* Moving to an allocation.                                                 *)

\* Items are counted one after the other, through all of the groups.
UpTo(gs, k, j) == {p \in LiveItemsAt(gs) : p[1] < k \/ (p[1] = k /\ p[2] <= j)}

-----------------------------------------------------------------------------
(* Writing.                                                                 *)

\* The addresses of a list.
AddrsOf(gs) == UNION {{Addr(gs[k], i) : i \in Pos(gs[k])} : k \in DOMAIN gs}

-----------------------------------------------------------------------------
(* Reading.                                                                 *)

\* The structures that F goes through, up to the end of their list.
Chained(m, F) == [k \in 1 .. Cardinality({n \in 0 .. Cardinality(DOMAIN m) - 1 : F[n] # 0}) |-> F[k - 1]]

-----------------------------------------------------------------------------
(* Marking: the groups and the items stay where they are.                   *)

\* Items, groups and lists are alike if they are at the same addresses, and what is
\* written of them is the same or dirty.
LikeItem(i, h) ==
  /\ ItemFields \subseteq DOMAIN h /\ h.ver = i.ver /\ h.idx = i.idx /\ h.addr = i.addr
  /\ i.dirty => h.dirty
  /\ h.weak = i.weak \/ h.dirty
LikeGroup(g, h) ==
  /\ GroupFields \subseteq DOMAIN h /\ h.lib = g.lib /\ h.addr = g.addr
  /\ List(h.items) /\ DOMAIN h.items = DOMAIN g.items
  /\ \A j \in DOMAIN g.items : LikeItem(g.items[j], h.items[j])
  /\ g.dirty \/ g.del => h.dirty \/ h.del
Like(gs, hs) ==
  /\ List(hs) /\ DOMAIN hs = DOMAIN gs
  /\ \A k \in DOMAIN gs : LikeGroup(gs[k], hs[k])
\* No item of a group is deleted.
SameDeleted(gs, hs) ==
  \A k \in DOMAIN gs : \A j \in DOMAIN gs[k].items : hs[k].items[j].del = gs[k].items[j].del
\* Marks of references which were removed, in whatever way they are set and reset.
Marked(gs, hs) ==
  /\ hs = [k \in DOMAIN gs |-> hs[k]]
  /\ \A k \in DOMAIN gs :
        \/ hs[k] = gs[k]
        \/ /\ hs[k] = [gs[k] EXCEPT !.items = hs[k].items]
           /\ hs[k].items = [j \in DOMAIN gs[k].items |-> hs[k].items[j]]
           /\ \A j \in DOMAIN gs[k].items : hs[k].items[j] = [gs[k].items[j] EXCEPT !.unref = hs[k].items[j].unref]
\* The steps of vers_flush.
SweptD(w) == SweepDef(CheckRemovedRefs(w).def)
SweptN(w) == SweepNeed(CheckRemovedRefs(w).need)
Brk1(w, m) == IF InPlace(SweptD(w)) THEN Brk(m) ELSE Brk(m) + Required(SweptD(w), DefSize)
Def1(w, m) == IF "def" \in w.mod THEN Erase(EnsureVaddrs(SweptD(w), DefSize, Brk(m))) ELSE w.def
Need1(w, m) == IF "need" \in w.mod THEN Erase(EnsureVaddrs(SweptN(w), NeedSize, Brk1(w, m))) ELSE w.need
OverD(w, m) == "def" \in w.mod /\ Overran(SweptD(w), DefSize, Brk(m))
OverN(w, m) == "need" \in w.mod /\ Overran(SweptN(w), NeedSize, Brk1(w, m))

-----------------------------------------------------------------------------
(* What the actions of the command line do to the lists.                    *)

\* Setting marks.
Mark(gs, ids) ==
  [k \in DOMAIN gs |-> [gs[k] EXCEPT !.items =
     [j \in DOMAIN gs[k].items |-> [gs[k].items[j] EXCEPT !.unref = @ \/ gs[k].items[j].id \in ids]]]]

-----------------------------------------------------------------------------
(* Adding: what is new has no place.                                        *)

\* Whatever has a place in the list hs had it in gs: that of group k is in group
\* K[k], and there position i is position I[<<k, i>>].
ComesFrom(hs, gs, K, I) ==
  /\ \A k \in DOMAIN hs : \A i \in Pos(hs[k]) : Addr(hs[k], i) # 0 =>
        /\ K[k] \in DOMAIN gs /\ I[<<k, i>>] \in Pos(gs[K[k]])
        /\ Addr(hs[k], i) = Addr(gs[K[k]], I[<<k, i>>])
  /\ \A k, l \in DOMAIN hs : K[k] = K[l] => k = l
  /\ \A k \in DOMAIN hs : \A i, j \in Pos(hs[k]) :
        Addr(hs[k], i) # 0 /\ Addr(hs[k], j) # 0 /\ I[<<k, i>>] = I[<<k, j>>] => i = j

-----------------------------------------------------------------------------
(* Loading.                                                                 *)

\* The item and the group which are loaded from an address.
ItemAt(m, g, a) ==
  [id |-> a, ver |-> m[a].ver,
   idx |-> IF m[g].lib # None THEN m[a].idx ELSE IF m[g].aux = a THEN m[g].idx ELSE 0,
   weak |-> m[a].weak, addr |-> a, dirty |-> FALSE, del |-> FALSE, unref |-> FALSE]
GroupAt(m, g) ==
  [lib |-> m[g].lib, addr |-> g, dirty |-> FALSE, del |-> FALSE,
   items |-> [j \in DOMAIN ChainAt(m, m[g].aux) |-> ItemAt(m, g, ChainAt(m, m[g].aux)[j])]]
\* The groups in the file, and the items of one.
Tops(m, head) == Range(ChainAt(m, head))
Held(m, g) == Range(ChainAt(m, m[g].aux))

-----------------------------------------------------------------------------
(* Indices, and the versions they stand for.                                *)

\* The items of group k of what is required, and the definitions.
Items(w, k) == Values(w.need[k].items)
Firsts(w) == {w.def[k].items[1] : k \in DOMAIN w.def}
\* The index k stands for an item which is required or defined.
IsNeeded(w, k) == \E g \in DOMAIN w.need : \E i \in Items(w, g) : i.idx = k /\ w.base[k] = Ref(w.need[g].lib, i)
IsDefined(w, k) == \E i \in Firsts(w) : i.idx = k /\ w.base[k] = Ref(None, i)
Keys == {"id", "ver", "idx", "del"}
\* Each entry of base is NoRef, or that of one item.  No entry is that of two, and no
\* item has an index before the second.
BaseIs(w) ==
  /\ Count(w.base) \in Nat /\ Count(w.base) > 1 /\ DOMAIN w.base = 0 .. (Count(w.base) - 1)
  /\ w.fresh \in Nat \ {0}
  /\ \A k \in DOMAIN w.base : w.base[k] # NoRef =>
        /\ k > 1 /\ w.base[k].id \in Nat \ {0} /\ w.base[k].id < w.fresh
        /\ IsNeeded(w, k) \/ IsDefined(w, k)
  /\ \A k, l \in DOMAIN w.base : w.base[k] # NoRef /\ w.base[k].id = w.base[l].id => k = l
\* An item has an entry, which is its own unless its group is to be deleted...
NeedIs(w, g, i) ==
  /\ Keys \subseteq DOMAIN i /\ i.id \in Nat \ {0} /\ i.id < w.fresh /\ ~i.del
  /\ i.idx \in DOMAIN w.base /\ i.idx > 1 /\ w.base[i.idx] # NoRef
  /\ w.base[i.idx].id = i.id => w.base[i.idx] = Ref(w.need[g].lib, i)
  /\ ~w.need[g].del => w.base[i.idx] = Ref(w.need[g].lib, i)
\* A definition has its entry, but for that of the file itself.
DefIs(w, i) ==
  /\ Keys \subseteq DOMAIN i /\ i.id \in Nat \ {0} /\ i.id < w.fresh /\ i.idx \in Nat \ {0}
  /\ i.idx # 1 => i.idx \in DOMAIN w.base /\ w.base[i.idx] = Ref(None, i)
Indexed(w) ==
  /\ BaseIs(w)
  /\ \A g \in DOMAIN w.need : \A i \in Items(w, g) : NeedIs(w, g, i)
  /\ \A g, h \in DOMAIN w.need : \A i \in Items(w, g), j \in Items(w, h) : i.idx = j.idx => g = h
  /\ \A k \in DOMAIN w.def : ~w.def[k].del
  /\ \A i \in Firsts(w) : DefIs(w, i)
\* The index k is that of a definition, or of an item whose group is not to be deleted.
Present(w, k) ==
  \/ \E g \in LiveAt(w.need) : \E i \in Items(w, g) : i.idx = k
  \/ \E i \in Firsts(w) : i.idx = k
\* The symbols have indices...
Numbers(w) == \A s \in DOMAIN w.symver : w.symver[s] \in Nat /\ (w.symver[s] > 1 => w.versions)
\* ...which stand for what they are to be bound to.
Binds(w, wanted) ==
  /\ DOMAIN wanted = DOMAIN w.symver
  /\ \A s \in DOMAIN wanted :
        IF w.symver[s] > 1
        THEN /\ w.symver[s] \in DOMAIN w.base /\ Present(w, w.symver[s])
             /\ wanted[s] = [lib |-> w.base[w.symver[s]].lib, ver |-> w.base[w.symver[s]].ver]
        ELSE wanted[s] = Plain
\* An item which no symbol refers to is marked, or was so in the file f already.
Unused(f, lib, ver) ==
  \E h \in Range(ListAt(f.mem, f.need)) : h.lib = lib /\
     \E j \in Range(h.items) : j.ver = ver /\ \A s \in DOMAIN f.symver : f.symver[s] # j.idx
Spared(w, f) ==
  \A g \in LiveAt(w.need) : \A i \in Items(w, g) :
     \/ i.unref /\ "need" \in w.mod
     \/ \E s \in DOMAIN w.symver : w.symver[s] = i.idx
     \/ Unused(f, w.need[g].lib, i.ver)
\* An item which is newer than the target is weak, or marked and not referred to.
OldOnly(w) ==
  \A g \in LiveAt(w.need) : \A i \in Items(w, g) :
     Newer(i) /\ ~i.weak => i.unref /\ \A s \in DOMAIN w.symver : w.symver[s] # i.idx
\* All of this, while actions are executed: the file f has been loaded, old says
\* whether newer versions are gone, and sure whether no deleted version is in use.
Sound(w, wanted, f, old, sure) ==
  /\ Indexed(w) /\ Numbers(w)
  /\ DOMAIN w.symver = DOMAIN f.symver /\ DOMAIN wanted = DOMAIN w.symver
  /\ Spared(w, f)
  /\ sure => Binds(w, wanted)
  /\ old => OldOnly(w)
\* A version which the renamer has asked for is not one which is to be deleted, unless
\* the history says so, and newer ones are only gone once it has been asked.
BInv ==
  /\ pc = "edit" => /\ hist.file \in Files /\ Sound(v, want, hist.file, hist.target, ~hist.reused)
                    /\ hist.target \/ hist.reused => hist.renamed
  /\ pc # "done" => {"file", "target", "reused", "renamed"} \subseteq DOMAIN hist
  /\ Bindings /\ NothingUnused /\ TargetMet
\* What of the editor the lemmas below rely on.
Shape(w) ==
  /\ Fields \subseteq DOMAIN w /\ Groups(w.need) /\ Groups(w.def) /\ Needs(w.need)
  /\ \A k \in DOMAIN w.def : 1 \in DOMAIN w.def[k].items

-----------------------------------------------------------------------------
(* Edits which leave all items where they are.                              *)

\* An item which is the same but for its marks, and has lost none of them.
SameKeys(h, i) ==
  /\ Keys \subseteq DOMAIN h =>
        Keys \subseteq DOMAIN i /\ i.id = h.id /\ i.idx = h.idx /\ i.ver = h.ver /\ i.del = h.del
  /\ (h.unref => i.unref) /\ (h.weak => i.weak)
SameItems(gs, hs) ==
  /\ DOMAIN hs = DOMAIN gs
  /\ \A k \in DOMAIN gs : /\ hs[k].lib = gs[k].lib /\ (gs[k].del => hs[k].del)
                          /\ DOMAIN hs[k].items = DOMAIN gs[k].items
                          /\ \A j \in DOMAIN gs[k].items : SameKeys(gs[k].items[j], hs[k].items[j])
\* An edit which leaves all items where they are.
Kin(w, x) ==
  /\ SameItems(w.need, x.need) /\ SameItems(w.def, x.def) /\ x.base = w.base /\ x.fresh = w.fresh
  /\ \A k \in DOMAIN w.def : x.def[k].del = w.def[k].del

-----------------------------------------------------------------------------
(* Adding a version.                                                        *)

\* An index which a new version can be given.
Vacant(w, k) ==
  /\ k \in Nat /\ k > 1
  /\ \A g \in LiveAt(w.need) : \A i \in Items(w, g) : i.idx # k
  /\ \A i \in Firsts(w) : i.idx # k
\* No item has it at all.
Free(w, k) ==
  /\ k \in Nat /\ k > 1
  /\ \A g \in DOMAIN w.need : \A i \in Items(w, g) : i.idx # k
  /\ \A i \in Firsts(w) : i.idx # k
\* Item i of a library, or of none, is added.
Added(w, x, lib, i) ==
  /\ x.base = SetRef(w.base, lib, i) /\ x.fresh = w.fresh + 1 /\ i.id = w.fresh
  /\ Keys \subseteq DOMAIN i /\ ~i.del /\ ~i.unref
  /\ x.symver = w.symver /\ x.versions = w.versions /\ w.mod \subseteq x.mod /\ x.libs = w.libs
  /\ lib = None => x.need = w.need /\ Firsts(x) = Firsts(w) \cup {i} /\ ((\A k \in DOMAIN w.def : ~w.def[k].del) => \A k \in DOMAIN x.def : ~x.def[k].del)
  /\ lib # None =>
        /\ x.def = w.def
        /\ \E p \in DOMAIN x.need :
              /\ DOMAIN x.need = DOMAIN w.need \cup {p} /\ \A g \in DOMAIN w.need : g # p => x.need[g] = w.need[g]
              /\ x.need[p].lib = lib
              /\ \/ p \in DOMAIN w.need /\ w.need[p].lib = lib /\ x.need[p].del = w.need[p].del /\ Items(x, p) = Items(w, p) \cup {i}
                 \/ p \notin DOMAIN w.need /\ ~x.need[p].del /\ Items(x, p) = {i}
\* Entry k of a is set to ref.
Reset(a, b, k, ref) ==
  /\ Count(b) \in Nat /\ Count(b) >= Count(a) /\ DOMAIN b = 0 .. (Count(b) - 1)
  /\ k \in DOMAIN b /\ b[k] = ref
  /\ \A l \in DOMAIN a : l \in DOMAIN b /\ (l # k => b[l] = a[l])
  /\ \A l \in DOMAIN b : l # k /\ b[l] # NoRef => l \in DOMAIN a

-----------------------------------------------------------------------------
(* Removing a library: what is required of it becomes what is defined.      *)

\* What index k stands for has become a definition, or is as before.
TurnedAt(w, x, lib, k) ==
  /\ k \in DOMAIN x.base
  /\ \/ x.base[k] = w.base[k]
     \/ Present(x, k) /\ w.base[k].lib = lib /\ x.base[k].lib = None /\ x.base[k].ver = w.base[k].ver
\* What is required of the library is being turned into definitions.
Turned(w, x, lib) ==
  /\ Indexed(x) /\ x.symver = w.symver /\ x.versions = w.versions /\ w.mod \subseteq x.mod
  /\ DOMAIN x.need = DOMAIN w.need
  /\ \A g \in DOMAIN w.need : /\ x.need[g].lib = w.need[g].lib /\ x.need[g].items = w.need[g].items
                              /\ (w.need[g].del => x.need[g].del)
                              /\ (x.need[g].del => w.need[g].del \/ w.need[g].lib = lib)
  /\ \A k \in DOMAIN w.base : TurnedAt(w, x, lib, k)
\* What was there is there.
Kept(w, x) == \A k : Present(w, k) => Present(x, k)

-----------------------------------------------------------------------------
(* Renaming.                                                                *)

\* No group of the library is to be deleted.
LiveLib(w, lib) == \A g \in DOMAIN w.need : w.need[g].lib = lib => ~w.need[g].del
\* Index k has been found, or added, for the version of the library.
Found(u, x, k, lib, ver) ==
  /\ Indexed(x) /\ x.symver = u.symver /\ x.versions = u.versions /\ u.mod \subseteq x.mod
  /\ Kept(u, x) /\ \A l : l # 1 /\ Present(u, l) => l \in DOMAIN x.base /\ x.base[l] = u.base[l]
  /\ k \in Nat /\ k > 1 /\ k \in DOMAIN x.base /\ x.base[k].lib = lib /\ x.base[k].ver = ver
  /\ LiveLib(u, lib) => Present(x, k)
  /\ \A g \in LiveAt(x.need) : \A i \in Items(x, g) :
        i.idx = k \/ (g \in LiveAt(u.need) /\ i \in Items(u, g) /\ u.need[g].lib = x.need[g].lib)
  /\ \A l : LiveLib(u, l) => LiveLib(x, l)
\* What the renamer asks of a symbol.
Wished(to, was) == CASE to.kind = "keep" -> was [] to.kind = "plain" -> Plain [] to.kind = "bind" -> [lib |-> to.lib, ver |-> to.ver]
\* Symbol s is bound to index k, and what is at index q loses a reference.
BoundTo(x, z, s, k, q) == z = IF k = q THEN x ELSE RemoveRefs([x EXCEPT !.symver[s] = k], {q})
\* What is wished of symbol s only changes to that.
WishedOf(wish, wanted, s, to) ==
  /\ s \in DOMAIN wanted /\ DOMAIN wish = DOMAIN wanted
  /\ \A t \in DOMAIN wanted : wish[t] = IF t = s THEN Wished(to, wanted[t]) ELSE wanted[t]

-----------------------------------------------------------------------------
(* Loading: no two items have one index.                                    *)

\* The groups N of what is required and D of what is defined are apart, and each index
\* is that of one structure.
Carriers(m, N, D) == D \cup UNION {Held(m, g) : g \in N}
FileIs(m, N, D) ==
  /\ Memory(m) /\ N \cap D = {} /\ N \cup D \subseteq DOMAIN m
  /\ \A g \in N \cup D : Held(m, g) \cap (N \cup D) = {} /\ Held(m, g) \subseteq DOMAIN m
  /\ \A g, h \in N \cup D : g # h => Held(m, g) \cap Held(m, h) = {}
  /\ \A g \in N : m[g].lib # None
  /\ \A g \in D : m[g].lib = None /\ m[g].aux \in Held(m, g)
  /\ \A a \in Carriers(m, N, D) : m[a].idx \in Nat \ {0} /\ (m[a].idx = 1 => a \in D)
  /\ \A a, b \in Carriers(m, N, D) : m[a].idx = m[b].idx => a = b
\* The editor has what is in groups c of what is required, and D of what is defined.
Holds(w, m, c, N, D) ==
  /\ DOMAIN w.need = DOMAIN c /\ \A j, k \in DOMAIN c : c[j] = c[k] => j = k
  /\ \A k \in DOMAIN c : /\ c[k] \in N /\ w.need[k].lib = m[c[k]].lib /\ ~w.need[k].del
                         /\ Items(w, k) = {ItemAt(m, c[k], a) : a \in Held(m, c[k])}
  /\ \A g \in N : \E k \in DOMAIN c : c[k] = g
  /\ Firsts(w) = {ItemAt(m, g, m[g].aux) : g \in D}
  /\ \A k \in DOMAIN w.def : ~w.def[k].del
\* What a structure makes an index stand for.
Carries(m, N, D, a, ref) ==
  \/ a \in D /\ ref = [lib |-> None, id |-> m[a].aux, ver |-> m[m[a].aux].ver]
  \/ \E g \in N : a \in Held(m, g) /\ ref = [lib |-> m[g].lib, id |-> a, ver |-> m[a].ver]
\* What the items in a file and the entries which they make have to do with each other.
Made(m, N, D, w, c) ==
  LET refs == Entries(w.need, w.def) IN
  /\ \A g \in DOMAIN w.need : \A i \in Items(w, g) :
        /\ <<i.idx, Ref(w.need[g].lib, i)>> \in refs /\ i.idx \in Nat /\ i.idx > 1
        /\ i.id \in DOMAIN m /\ ~i.del /\ Keys \subseteq DOMAIN i
        /\ i.id \in Held(m, c[g]) /\ i.id \in Carriers(m, N, D) /\ m[i.id].idx = i.idx
  /\ \A i \in Firsts(w) :
        /\ i.idx # 1 => <<i.idx, Ref(None, i)>> \in refs
        /\ i.idx \in Nat \ {0} /\ i.id \in DOMAIN m /\ Keys \subseteq DOMAIN i
  /\ \A a \in Carriers(m, N, D) : \/ \E g \in DOMAIN w.need : \E i \in Items(w, g) : i.idx = m[a].idx
                                  \/ \E i \in Firsts(w) : i.idx = m[a].idx
  /\ \A r \in refs : /\ r[1] \in Nat /\ r[1] > 1 /\ r[2].id \in DOMAIN m
                     /\ \E a \in Carriers(m, N, D) : r[1] = m[a].idx /\ Carries(m, N, D, a, r[2])
                     /\ \/ \E g \in DOMAIN w.need : \E i \in Items(w, g) : r[1] = i.idx /\ r[2] = Ref(w.need[g].lib, i)
                        \/ \E i \in Firsts(w) : r[1] = i.idx /\ r[2] = Ref(None, i)

-----------------------------------------------------------------------------
(* What vers_flush leaves of the lists.                                     *)

\* The same version; and groups with the same versions and marks of deletion.
SameItem(h, i) == i.ver = h.ver /\ i.idx = h.idx /\ i.weak = h.weak
SameGroup(g, h) ==
  /\ h.lib = g.lib /\ h.del = g.del /\ DOMAIN h.items = DOMAIN g.items
  /\ \A j \in DOMAIN g.items : SameItem(g.items[j], h.items[j]) /\ h.items[j].del = g.items[j].del
\* The same, but for the place.
Replaced(x, y) ==
  \/ y = x
  \/ \E a : y = [x EXCEPT !.addr = a]
  \/ \E a : y = [x EXCEPT !.addr = a, !.dirty = TRUE]

-----------------------------------------------------------------------------
(* What is in a list, as a set.                                             *)

\* An item, as others see it, with the library of its group.
Line(lib, i) == <<lib, i.ver, i.idx, i.weak>>
Lines(gs) == UNION {{Line(gs[k].lib, gs[k].items[j]) : j \in DOMAIN gs[k].items} : k \in DOMAIN gs}
\* Those which are not to be deleted.
LiveLines(gs) == UNION {{Line(gs[k].lib, gs[k].items[j]) : j \in LiveAt(gs[k].items)} : k \in LiveAt(gs)}
\* The libraries in a list.
LibsOf(gs) == {gs[k].lib : k \in DOMAIN gs}
\* What lives of the group g is what the group e has.
LeftIn(g, e) ==
  /\ e.lib = g.lib
  /\ \A i \in DOMAIN e.items : \E j \in LiveAt(g.items) : Line(e.lib, e.items[i]) = Line(g.lib, g.items[j])
  /\ \A j \in LiveAt(g.items) : \E i \in DOMAIN e.items : Line(e.lib, e.items[i]) = Line(g.lib, g.items[j])
\* The same, or dirty now.
Remains(x, y) == y = x \/ y = [x EXCEPT !.dirty = TRUE]

-----------------------------------------------------------------------------
(* What is deleted when the lists are written.                              *)

\* The items which symbols refer to, and those which are garbage.
Used(w) == {w.base[k].id : k \in {w.symver[s] : s \in DOMAIN w.symver} \cap DOMAIN w.base}
Gone(w, i) == i.unref /\ (w.versions => i.id \notin Used(w))
\* The items of a list once it is known which are garbage.
CheckedItem(w, h, i) == SameItem(h, i) /\ ItemFields \subseteq DOMAIN i /\ i.del = h.del /\ (i.unref <=> Gone(w, h))
CheckedList(w, gs, hs) ==
  /\ DOMAIN hs = DOMAIN gs
  /\ \A k \in DOMAIN gs : /\ GroupFields \subseteq DOMAIN hs[k] /\ hs[k].lib = gs[k].lib /\ hs[k].del = gs[k].del
                          /\ DOMAIN hs[k].items = DOMAIN gs[k].items
                          /\ \A j \in DOMAIN gs[k].items : CheckedItem(w, gs[k].items[j], hs[k].items[j])
\* The indices which vers_flush looks for the last one of.
Indices(ds, ns) == {i.idx : i \in UNION {Range(g.items) : g \in Range(ns)}} \cup {g.items[1].idx : g \in Range(ds)}
\* What becomes of the indices of the symbols when L is written: those of what is there
\* stay, others may become that of no version.
Dropped(w, x, L) ==
  /\ DOMAIN x.symver = DOMAIN w.symver
  /\ \A s \in DOMAIN w.symver : /\ x.symver[s] = w.symver[s] \/ x.symver[s] = 1
                                /\ \A l \in L : l[3] # 0 /\ l[3] = w.symver[s] => x.symver[s] = w.symver[s]
  /\ \A l \in L : l[3] # 0 /\ w.versions => x.versions
  /\ x.mod = w.mod

-----------------------------------------------------------------------------
(* What is written still binds the symbols.                                 *)

\* What is written of w, in L, with the indices of x.
Rests(w, x, ds, ns) ==
  /\ \A r : r \in ns <=> \E k \in LiveAt(w.need) : \E h \in Items(w, k) : ("need" \in w.mod => ~Gone(w, h)) /\ r = Line(w.need[k].lib, h)
  /\ \A r \in ds : r[1] = None /\ (r[3] = 0 \/ \E h \in Firsts(w) : r = Line(None, h))
  /\ \A h \in Firsts(w) : ("def" \in w.mod => ~Gone(w, h)) => Line(None, h) \in ds
  /\ Dropped(w, x, ds \cup ns)
\* The versions which an index stands for in L.
FoundIn(L, idx) == {[lib |-> l[1], ver |-> l[2]] : l \in {r \in L : r[3] = idx}}
\* What a loader makes of two lists.
LoaderFinds(gs, hs, idx) ==
  UNION {{[lib |-> g.lib, ver |-> i.ver] : i \in {j \in Range(g.items) : j.idx = idx}} : g \in Range(gs) \cup Range(hs)}

=============================================================================
