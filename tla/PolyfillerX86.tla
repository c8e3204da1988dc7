---------------------------- MODULE PolyfillerX86 ----------------------------
(***************************************************************************)
(* The static linker of implementations for x86_64 (x86_64/polyfiller.c),  *)
(* as operators on its state p, on the file e and on the registries of the *)
(* renamer.  The code which is shipped is a table: for each token (the     *)
(* offset of a function, of a variable or of an extern) what it is and     *)
(* what it refers to.  Tokens are in order of address, externs are last.   *)
(***************************************************************************)
EXTENDS Renamer

CONSTANTS Code    \* token -> [kind, name, refs, init, fini, cfi, room, ext]
                  \* kind: "function", "variable", "extern", "impose" or "nodelete"

Tokens == DOMAIN Code
\* rh_lookup: 0 for a name which has no implementation.
RhLookup(name) ==
  LET Is(t) == Code[t].name = name /\ Code[t].kind \in {"function", "variable"}
  IN  IF \E t \in Tokens : Is(t) THEN CHOOSE t \in Tokens : Is(t) ELSE 0
Token(name) == RhLookup(name)
IsExtern(t) == Code[t].kind \in {"extern", "impose", "nodelete"}
IsFunction(t) == Code[t].kind = "function"

(***************************************************************************)
(* Adding.  p.added gives for each token why it is wanted: to be called,   *)
(* or for its address to be in a slot of the GOT.  p.work are the calls of *)
(* add_sym_and_deps which are left, the innermost first.                   *)
(***************************************************************************)
Regular == {"call", "got"}
PolyfillerInit(mode) ==
  [mode |-> mode, added |-> [t \in Tokens |-> {}], seen |-> {}, work |-> <<>>, cfi |-> FALSE]
AddToken(p, t) == [p EXCEPT !.work = <<[tok |-> t, why |-> Regular]>> \o @]
Added(p) == {t \in Tokens : p.added[t] # {}}
SortedTokens(p) == SelectSeq(Upto(Len(Code)), LAMBDA t : p.added[t] # {})

\* Variant: a call through memory never needs the slot, a lea does not either.
SubWhy_Call(ref) == {"call"}
\* A call or a jmp through memory can be made relative, if need be.
SubWhy(ref) == IF ref.how = "indirect" THEN {"call"} ELSE Regular
Flags(t) == {f \in {"init", "fini", "cfi"} : Code[t][f]} \cup {"function"}
\* What an extern stands for: a symbol, or an implementation.
IsPolyfilled(regs, t) == Renames(regs, Code[t].ext) /\ Apply(regs, Code[t].ext).lib = Polyfill
Target(regs, t) == RhLookup(Apply(regs, Code[t].ext).name)

\* add_sym_and_deps, the innermost call which is left.
Visit(p, regs) ==
  LET t    == Head(p.work).tok
      why  == Head(p.work).why \cup p.added[t]
      deps == [k \in DOMAIN Code[t].refs |-> [tok |-> Code[t].refs[k].to, why |-> SubWhy(Code[t].refs[k])]]
      own  == IF Code[t].kind = "extern" /\ IsPolyfilled(regs, t)
              THEN <<[tok |-> Target(regs, t), why |-> Regular]>> ELSE <<>>
  IN  IF why = p.added[t] THEN [p EXCEPT !.work = Tail(@)]
      ELSE [p EXCEPT !.added[t] = why, !.work = deps \o own \o Tail(@),
                     !.seen = IF IsFunction(t) THEN @ \cup Flags(t) ELSE @]

(***************************************************************************)
(* polyfiller_finished_adding: the internal symbols, added in three steps. *)
(***************************************************************************)
AnyCfi(p, e) ==
  /\ p.seen # {}
  /\ CASE p.mode = "none"    -> FALSE
       [] p.mode = "auto"    -> ~e.eh \/ "cfi" \in p.seen
       [] p.mode = "minimal" -> "cfi" \in p.seen
       [] p.mode = "full"    -> TRUE
CfiToken(e) == Token(IF ~e.eh THEN "_polyfill_cfi_data"
                     ELSE IF "libgcc_s.so.1" \in e.needed THEN "_polyfill_init_cfi_strong"
                     ELSE "_polyfill_init_cfi_weak")
AddCfi(p, e) == IF AnyCfi(p, e) THEN [AddToken(p, CfiToken(e)) EXCEPT !.cfi = TRUE] ELSE p
AddInit(p, e) ==
  LET first == AddToken(p, Token(IF e.init # None THEN "_polyfill_DT_INIT" ELSE "_polyfill_init"))
  IN  IF "init" \notin p.seen THEN p
      ELSE IF e.entry # None THEN AddToken(first, Token("_polyfill_entry")) ELSE first
AddFini(p) == IF "fini" \in p.seen THEN AddToken(p, Token("_polyfill_DT_FINI")) ELSE p

(***************************************************************************)
(* Addresses.  a.addr is the place of each token: its code, or a slot of   *)
(* the GOT, or what is in the file already; a.own is whose address counts  *)
(* for it (two externs can be one symbol), a.extra the implementation to   *)
(* which a call of an extern can be made relative, and a.ext the extern of *)
(* each symbol.  e.relas are the relocations: what is stored where.        *)
(***************************************************************************)
CodeAt(t) == [in |-> "code", n |-> t]
SlotAt(n) == [in |-> "slot", n |-> n]
Nowhere == [in |-> "nowhere", n |-> 0]
NewSlot(e) == SlotAt(Len(e.relas) + 1)
AddRela(e, kind, n) == [e EXCEPT !.relas = Append(@, [kind |-> kind, n |-> n, at |-> NewSlot(e)])]

\* erwNNE_(dsyms_find_or_add), a new symbol being undefined.
NewSym(s) == [name |-> s.name, lib |-> s.lib, ver |-> s.ver, exported |-> FALSE, eager |-> FALSE,
              plt |-> FALSE, pltexp |-> FALSE, local |-> FALSE, want |-> FALSE, value |-> Nowhere]
FindSym(e, s) ==
  {k \in DOMAIN e.syms : /\ ~e.syms[k].local /\ e.syms[k].name = s.name /\ e.syms[k].ver = s.ver
                         /\ s.ver # None => e.syms[k].lib = s.lib}
FindOrAddSym(e, s) ==
  IF FindSym(e, s) # {} THEN [e |-> e, at |-> Min(FindSym(e, s))]
  ELSE [e |-> [e EXCEPT !.syms = Append(@, NewSym(s))], at |-> Len(e.syms) + 1]

Start(p, e, libs) ==
  [e |-> e, libs |-> libs, ext |-> <<>>, addr |-> [t \in Tokens |-> Nowhere], own |-> [t \in Tokens |-> t],
   extra |-> [t \in Tokens |-> 0], plt |-> {}, missing |-> FALSE]
Put(f, k, x) == [j \in DOMAIN f \cup {k} |-> IF j = k THEN x ELSE f[j]]

\* A symbol of the file stands for extern t: find it, or add it.
UseSym(a, t, s) ==
  LET found == FindOrAddSym(a.e, s)
      new   == found.at \notin DOMAIN a.ext
  IN  [a EXCEPT !.e = found.e, !.libs = IF s.lib = None THEN @ ELSE @ \cup {s.lib},
                !.ext = IF new THEN Put(@, found.at, t) ELSE @,
                !.own[t] = IF new THEN t ELSE a.ext[found.at]]
AssignOne(a, regs, p, t) ==
  IF ~IsExtern(t) THEN [a EXCEPT !.addr[t] = CodeAt(t)]
  ELSE IF Code[t].kind # "extern" THEN a
  ELSE IF ~IsPolyfilled(regs, t) THEN UseSym(a, t, Apply(regs, Code[t].ext))
  ELSE IF "got" \notin p.added[t] THEN [a EXCEPT !.extra[t] = Target(regs, t)]
  ELSE [a EXCEPT !.extra[t] = Target(regs, t), !.addr[t] = NewSlot(a.e),
                 !.e = AddRela(@, "relative", Target(regs, t))]

\* erwNNE_(find_existing_relocs): the last relocation of the symbol.
Existing(e, k) == {r \in DOMAIN e.relas : e.relas[r].kind \in {"glob_dat", "jump_slot"} /\ e.relas[r].n = k}
GlobDat(e, k) == [AddRela(e, "glob_dat", k) EXCEPT !.syms[k].eager = TRUE]
LocateOne(a, k) ==
  IF Existing(a.e, k) # {} THEN [a EXCEPT !.addr[a.ext[k]] = a.e.relas[Max(Existing(a.e, k))].at]
  ELSE [a EXCEPT !.addr[a.ext[k]] = NewSlot(a.e), !.e = GlobDat(@, k)]
Externs(a) == SelectSeq(Upto(Len(a.e.syms)), LAMBDA k : k \in DOMAIN a.ext)
Assign(p, e, regs, libs) ==
  LET a == Steps(LAMBDA x, t : AssignOne(x, regs, p, t), Start(p, e, libs), SortedTokens(p))
  IN  Steps(LocateOne, a, Externs(a))

(***************************************************************************)
(* The internal variables.  e.mem holds what is stored in a variable;      *)
(* whatever is stored there is not to be overwritten later on (a.done).    *)
(***************************************************************************)
Those(p, flag) == SelectSeq(SortedTokens(p), LAMBDA t : IsFunction(t) /\ Code[t][flag])
Store(e, name, x) == [e EXCEPT !.mem = Put(@, Token(name), x)]
Places(toks) == [k \in DOMAIN toks |-> CodeAt(toks[k])]

\* populate_init_variables: the array begins with its length.
InitArray(e, fns) == Store(e, "_polyfill_init_array", <<Len(fns)>> \o Places(fns))
HookInit(e) ==
  IF e.init = None THEN [e EXCEPT !.init = CodeAt(Token("_polyfill_init"))]
  ELSE [Store(e, "_polyfill_DT_INIT_original", <<e.init>>) EXCEPT !.init = CodeAt(Token("_polyfill_DT_INIT"))]
HookEntry(e) ==
  IF e.entry = None THEN e
  ELSE [Store(e, "_polyfill_entry_original", <<e.entry>>) EXCEPT !.entry = CodeAt(Token("_polyfill_entry"))]
InitVariables(p, e) == IF Those(p, "init") = <<>> THEN e ELSE HookEntry(HookInit(InitArray(e, Those(p, "init"))))

\* populate_fini_variables: one function needs no array, and the old DT_FINI
\* is called first.
FiniArray(e, fns) == Store(e, "_polyfill_fini_array", <<Len(fns)>> \o fns)
FiniVariables(p, e) ==
  LET new == Places(Those(p, "fini"))
      all == IF e.fini = None THEN new ELSE <<e.fini>> \o new
  IN  IF new = <<>> THEN e
      ELSE IF Len(all) = 1 THEN [e EXCEPT !.fini = all[1]]
      ELSE [FiniArray(e, all) EXCEPT !.fini = CodeAt(Token("_polyfill_DT_FINI"))]

\* populate_dt_relr_variables: what the fixup is to walk over is what the
\* dynamic section says now.
RelrVariables(p, e) ==
  IF Token("_polyfill_DT_RELR_apply") \notin Added(p) THEN e
  ELSE [Store(AddRela(e, "irelative", Token("_polyfill_DT_RELR_apply")), "_polyfill_DT_RELR_data", <<e.relr>>)
          EXCEPT !.relr = {}]

\* populate_cfi_variables, in two passes: the first counts the descriptions
\* of frames and makes room, the second writes them.  Functions without
\* instructions of their own share one with those next to them.
Framed(p) == SelectSeq(SortedTokens(p), IsFunction)
CountOne(c, trivial, want) ==
  IF ~trivial THEN [n |-> c.n + 1, run |-> FALSE]
  ELSE IF c.run THEN c
  ELSE [n |-> IF want THEN c.n + 1 ELSE c.n, run |-> TRUE]
CountFrames(toks, want) ==
  Steps(LAMBDA c, t : CountOne(c, ~Code[t].cfi, want), [n |-> 0, run |-> FALSE], toks).n
\* Variant: the run of functions goes on behind one with instructions.
WriteOne_Run(c, t, trivial, want) ==
  IF ~trivial THEN [c EXCEPT !.fdes = Append(@, {t})]
  ELSE IF ~want THEN c
  ELSE IF c.run THEN [c EXCEPT !.fdes[Len(c.fdes)] = @ \cup {t}]
  ELSE [fdes |-> Append(c.fdes, {t}), run |-> TRUE]
WriteOne(c, t, trivial, want) ==
  IF ~trivial THEN [fdes |-> Append(c.fdes, {t}), run |-> FALSE]
  ELSE IF ~want THEN c
  ELSE IF c.run THEN [c EXCEPT !.fdes[Len(c.fdes)] = @ \cup {t}]
  ELSE [fdes |-> Append(c.fdes, {t}), run |-> TRUE]
WriteFrames(toks, want) ==
  Steps(LAMBDA c, t : WriteOne(c, t, ~Code[t].cfi, want), [fdes |-> <<>>, run |-> FALSE], toks).fdes
Frames(a, p) ==
  [count |-> CountFrames(Framed(p), p.mode # "minimal"), fdes |-> WriteFrames(Framed(p), p.mode # "minimal")]
CfiVariables(a, p, e) ==
  IF ~p.cfi THEN e ELSE [Store(e, "_polyfill_cfi_data", <<Frames(a, p)>>) EXCEPT !.eh = TRUE]

(***************************************************************************)
(* populate_regular_symbol.  A call through the slot of an extern whose    *)
(* implementation is known is made relative; a slot of the file which is   *)
(* too far away is replaced by a new one.                                  *)
(***************************************************************************)
Direct(a, ref) == ref.how = "indirect" /\ a.extra[a.own[ref.to]] # 0
Far(a, t) == a.addr[t].in = "file"
Nearby(a, t) ==
  IF a.e.far /\ Far(a, t)
  THEN LET k == CHOOSE k \in DOMAIN a.ext : a.ext[k] = t
       IN  [a EXCEPT !.addr[t] = NewSlot(a.e), !.e = GlobDat(@, k)]
  ELSE a
LinkOne(a, t, ref) ==
  LET own  == a.own[ref.to]
      goal == IF Direct(a, ref) THEN a.extra[own] ELSE own
      near == Nearby(a, goal)
  IN  IF ref.how = "phantom" THEN a
      ELSE [near EXCEPT !.missing = @ \/ near.addr[goal] = Nowhere,
                        !.e.links = Put(@, <<t, ref.to, ref.how>>,
                                        [at |-> near.addr[goal], via |-> IsExtern(ref.to) /\ ~Direct(a, ref)])]
\* Variant: variables which are stored already are copied from the code, too.
Populate_Again(a, t) ==
  LET b == IF Code[t].room THEN [a EXCEPT !.e.mem = Put(@, t, <<Nowhere>>)] ELSE a
  IN  Steps(LAMBDA x, ref : LinkOne(x, t, ref), b, Code[t].refs)
\* What the code has at a variable is stored, unless its value is already.
Populate(a, t) ==
  LET b == IF Code[t].room /\ t \notin DOMAIN a.e.mem THEN [a EXCEPT !.e.mem = Put(@, t, <<Nowhere>>)] ELSE a
  IN  Steps(LAMBDA x, ref : LinkOne(x, t, ref), b, Code[t].refs)

\* The loop at the end: everything which is not an extern.
PopulateAll(p, a) == Steps(Populate, a, SelectSeq(SortedTokens(p), LAMBDA t : ~IsExtern(t)))
=============================================================================
