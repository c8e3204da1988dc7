------------------------------- MODULE Renamer -------------------------------
(***************************************************************************)
(* The renamer (renamer.c) as operators: the registries of renames, which  *)
(* --target-glibc and --rename-dynamic-symbols add and polyfills impose,   *)
(* and what they make of a symbol.  The table of --target-glibc is         *)
(* renames.txt, which parse_renames has sorted by version.                 *)
(*                                                                         *)
(* A symbol is a name and the version of a library.  A library or a        *)
(* version which is not given (NULL) is None.                              *)
(***************************************************************************)
EXTENDS Integers, Sequences, FiniteSets, SequencesExt, FiniteSetsExt

CONSTANTS None,          \* a library, a version or an address which there is none of
          RenameTable,   \* renames.txt: version -> (name -> [lib, name, ver])
          Nums,          \* version -> its numbers: <<2, 3, 4>> for GLIBC_2.3.4
          MaxRenames     \* bound: renames of one symbol, 1000 in the code

Polyfill == "polyfill"
Sym(lib, name, ver) == [lib |-> lib, name |-> name, ver |-> ver]

\* A fold from the left which has the value at hand at each step.
Steps(op(_, _), base, seq) ==
  FoldLeft(LAMBDA x, t : CHOOSE y \in {op(z, t) : z \in {x}} : TRUE, base, seq)
Upto(n) == [k \in 1 .. n |-> k]

\* version_str_less: the first number which differs decides, and 2.2 is less
\* than 2.2.5.
VersionStrLess(l, r) ==
  LET D == {k \in 1 .. Max({Len(l), Len(r)}) : k > Len(l) \/ k > Len(r) \/ l[k] # r[k]}
  IN  D # {} /\ Min(D) <= Len(r) /\ (Min(D) > Len(l) \/ l[Min(D)] < r[Min(D)])
Newer(ver, target) == ver \in DOMAIN Nums /\ VersionStrLess(target, Nums[ver])

\* parse_renames: the place of a version, the newest one being the first.
Versions == DOMAIN RenameTable
SlotVal(v) == Cardinality({w \in Versions : ~VersionStrLess(Nums[w], Nums[v])})

\* Variant: a version which is older than one which is known to apply is
\* taken for the limit, whether or not it is newer than the target.
Narrow_Older(c, slot, newer) ==
  IF slot < c.limit /\ ~(newer /\ c.known < slot)
  THEN [c EXCEPT !.limit = slot] ELSE [c EXCEPT !.known = IF newer THEN slot ELSE @]
\* target_ver_registry_bind_to, for one slot of the table: what is known
\* already on either side is not compared again.
Narrow(c, slot, newer) ==
  IF ~(c.known < slot /\ slot < c.limit) THEN c
  ELSE IF newer THEN [c EXCEPT !.known = slot] ELSE [c EXCEPT !.limit = slot]
\* Slots come in the order of their hashes; all below the limit apply.
Limit(order, target) ==
  Steps(LAMBDA c, v : Narrow(c, SlotVal(v), VersionStrLess(target, Nums[v])),
        [known |-> 0, limit |-> Cardinality(Versions) + 1], order).limit

TargetRegistry(target) == [kind |-> "target", target |-> target, limit |-> 0, renames |-> <<>>]
BespokeRegistry(renames) == [kind |-> "bespoke", target |-> <<>>, limit |-> 0, renames |-> renames]

\* target_ver_registry_apply_to_name, bespoke_registry_apply_to_name
Applies(reg, s) ==
  \/ reg.kind = "bespoke" /\ <<s.name, s.ver>> \in DOMAIN reg.renames
  \/ reg.kind = "target" /\ s.ver \in Versions /\ SlotVal(s.ver) < reg.limit
                         /\ s.name \in DOMAIN RenameTable[s.ver]
Renamed(reg, s) ==
  LET to == IF reg.kind = "bespoke" THEN reg.renames[<<s.name, s.ver>>] ELSE RenameTable[s.ver][s.name]
  IN  [to EXCEPT !.lib = IF @ = None THEN s.lib ELSE @]

\* renamer_apply_to_name: the first registry which applies, over and over.
Renames(regs, s) == \E k \in DOMAIN regs : Applies(regs[k], s)
ApplyOneStep(regs, s) ==
  IF Renames(regs, s) THEN Renamed(SelectSeq(regs, LAMBDA reg : Applies(reg, s))[1], s) ELSE s
Apply(regs, s) == Steps(LAMBDA to, n : ApplyOneStep(regs, to), s, Upto(MaxRenames))
Loops(regs, s) == Renames(regs, Apply(regs, s))

\* renamer_add_one_rename: to the last registry if that is bespoke, and only
\* if there is none of that name yet.
AddOneRename(regs, old, new) ==
  LET own == IF regs # <<>> /\ Last(regs).kind = "bespoke" THEN regs ELSE Append(regs, BespokeRegistry(<<>>))
      Add(renames) == [k \in DOMAIN renames \cup {old} |-> IF k \in DOMAIN renames THEN renames[k] ELSE new]
  IN  [own EXCEPT ![Len(own)].renames = Add(@)]

\* bespoke_registry_create_polyfill_so, target_ver_registry_create_polyfill_so
Exports(reg) ==
  LET To == IF reg.kind = "bespoke" THEN {reg.renames[k] : k \in DOMAIN reg.renames}
            ELSE UNION {{RenameTable[v][n] : n \in DOMAIN RenameTable[v]} :
                          v \in {w \in Versions : SlotVal(w) < reg.limit}}
  IN  {to.name : to \in {x \in To : x.lib = Polyfill /\ x.ver = None}}
=============================================================================
