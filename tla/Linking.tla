------------------------------- MODULE Linking -------------------------------
(***************************************************************************)
(* Renaming the dynamic symbols of a file and linking implementations into *)
(* it: renamer_apply_to (renamer.c, renamer_nne.h) together with the       *)
(* polyfiller of the machine.                                              *)
(*                                                                         *)
(* Every symbol is renamed.  If its new library is "polyfill", the         *)
(* implementation and whatever that refers to are added, which can impose  *)
(* renames; then all symbols are visited again.  After that the target     *)
(* version is confirmed, and the polyfiller adds what it needs itself,     *)
(* gives everything an address and writes it.  A file which turns out to   *)
(* have no room for that is read again, but the registries of the renamer  *)
(* are those of the command line, and stay as they are.                    *)
(***************************************************************************)
EXTENDS PolyfillerAArch64

CONSTANTS Inputs,      \* {[file, opts, order]}: a file, the command line, and the order of
                       \* the slots of the table of versions; see the instance for the fields
          MaxRounds    \* bound: rounds of editing

VARIABLES file, opts,  \* the file as it is read, and the command line
          e,           \* the file as edited
          regs,        \* renamer->registries
          p,           \* renamer->polyfiller
          a,           \* what the polyfiller has given addresses to, while it does
          libs,        \* renamer->ensured_libs
          again,       \* renamer->added_renames
          exports,     \* what --create-polyfill-so has left to export
          i,           \* the symbol which is next
          pc, round
vars == <<file, opts, e, regs, p, a, libs, again, exports, i, pc, round>>

Loaded(f) == [f EXCEPT !.links = <<>>, !.mem = <<>>, !.stubs = <<>>, !.nodelete = FALSE]
NoPolyfiller == PolyfillerInit(None)
\* bind_target_ver_renamers_to: there is no table for other machines.
Bind(rs, machine, order) ==
  [k \in DOMAIN rs |-> IF rs[k].kind # "target" THEN rs[k]
                       ELSE [rs[k] EXCEPT !.limit = IF machine = "other" THEN 0 ELSE Limit(order, rs[k].target)]]

Init == \E in \in Inputs :
  /\ file = in.file /\ opts = in.opts
  /\ e = Loaded(in.file)
  /\ regs = Bind(in.opts.regs, in.file.machine, in.order)
  /\ p = NoPolyfiller /\ a = None /\ libs = {} /\ again = TRUE /\ exports = {} /\ i = 1
  /\ pc = "begin" /\ round = 1

(***************************************************************************)
(* The polyfiller of the machine: other machines have one which knows of   *)
(* no implementation (polyfiller.c).                                       *)
(***************************************************************************)
Lookup(name) == IF e.machine = "other" THEN 0 ELSE RhLookup(name)
EnsureHasPolyfiller == IF p.mode = None THEN PolyfillerInit(opts.mode) ELSE p
PolyfillerAdd(name) ==
  IF Lookup(name) = 0 THEN EnsureHasPolyfiller ELSE AddToken(EnsureHasPolyfiller, Lookup(name))
By(machine, x86, aarch64) == IF machine = "x86_64" THEN x86 ELSE aarch64

Idle == p.work = <<>>
\* Variant: what is imposed does not lead to another pass over the symbols.
Adding_Once == LET t == Head(p.work).tok IN
  /\ p.work # <<>> /\ pc # "failed"
  /\ p' = By(e.machine, Visit(p, regs), VisitA(p, regs))
  /\ LET new == t \notin Added(p)
     IN  /\ regs' = IF new /\ Code[t].kind = "impose" THEN AddOneRename(regs, Code[t].old, Code[t].ext) ELSE regs
         /\ e' = [e EXCEPT !.nodelete = @ \/ (new /\ Code[t].kind = "nodelete" /\ ~opts.createSo)]
  /\ pc' = IF Code[t].kind = "extern" /\ (Loops(regs, Code[t].ext) \/ (IsPolyfilled(regs, t) /\ Target(regs, t) = 0))
           THEN "failed" ELSE pc
  /\ UNCHANGED <<file, opts, a, again, libs, exports, i, round>>
\* add_sym_and_deps: a symbol and what it refers to, which can be a rename.
Adding == LET t == Head(p.work).tok IN
  /\ p.work # <<>> /\ pc # "failed"
  /\ p' = By(e.machine, Visit(p, regs), VisitA(p, regs))
  /\ LET imposes(kind) == t \notin Added(p) /\ Code[t].kind = kind
     IN  /\ regs' = IF imposes("impose") THEN AddOneRename(regs, Code[t].old, Code[t].ext) ELSE regs
         /\ again' = (again \/ imposes("impose"))
         /\ e' = [e EXCEPT !.nodelete = @ \/ (imposes("nodelete") /\ ~opts.createSo)]
  /\ pc' = IF Code[t].kind = "extern" /\ (Loops(regs, Code[t].ext) \/ (IsPolyfilled(regs, t) /\ Target(regs, t) = 0))
           THEN "failed" ELSE pc
  /\ UNCHANGED <<file, opts, a, libs, exports, i, round>>

(***************************************************************************)
(* The symbols.                                                            *)
(***************************************************************************)
\* The head of the loop: renamer_create_polyfill_so.
Begin ==
  /\ pc = "begin" /\ pc' = "export"
  /\ again' = FALSE /\ i' = 1
  /\ exports' = IF opts.createSo THEN UNION {Exports(regs[k]) : k \in DOMAIN regs} ELSE {}
  /\ UNCHANGED <<file, opts, a, e, regs, p, libs, round>>

\* export_polyfill_symbol
Exported(s, name) == [NewSym(s) EXCEPT !.want = TRUE, !.exported = TRUE, !.value = CodeAt(Lookup(name))]
Export == \E name \in exports :
  LET s == Sym(None, name, "POLYFILL") IN
  /\ pc = "export" /\ Idle
  /\ exports' = exports \ {name}
  /\ p' = PolyfillerAdd(name)
  /\ e' = IF FindSym(e, s) # {} THEN e ELSE [e EXCEPT !.syms = Append(@, Exported(s, name))]
  /\ pc' = IF Lookup(name) = 0 THEN "failed" ELSE pc
  /\ UNCHANGED <<file, opts, a, regs, libs, again, i, round>>
ExportsDone ==
  /\ pc = "export" /\ exports = {} /\ Idle /\ pc' = "symbols"
  /\ UNCHANGED <<file, opts, a, e, regs, p, libs, again, exports, i, round>>

\* An export is not renamed to another library, unless it only gives a
\* function which is imported an address.
Tied(s) == s.exported /\ (~s.eager \/ s.pltexp \/ ~s.plt)
Old(s) == Sym(None, s.name, s.ver)
Rebound(s, r) ==
  LET lib == IF s.want THEN None ELSE IF r.lib # None THEN r.lib ELSE s.lib
      new == [s EXCEPT !.name = r.name]
  IN  IF r.ver = None THEN [new EXCEPT !.lib = None, !.ver = None]
      ELSE IF r.lib # None \/ r.ver # s.ver THEN [new EXCEPT !.lib = lib, !.ver = r.ver] ELSE new
\* A symbol which stands for an implementation: an export has the version
\* of the implementation, an import becomes local.
Implemented(s, r) ==
  LET made == [s EXCEPT !.want = TRUE, !.value = CodeAt(Lookup(r.name))]
  IN  IF s.exported THEN Rebound([made EXCEPT !.pltexp = TRUE], r)
      ELSE [made EXCEPT !.local = TRUE, !.lib = None, !.ver = None]

\* One turn of the loop of erwNNE_(renamer_apply_to).
Symbol ==
  LET s  == e.syms[i]
      r0 == Apply(regs, Old(s))
      r  == IF r0.lib = Polyfill /\ r0.ver = None THEN [r0 EXCEPT !.ver = "POLYFILL"] ELSE r0
      skip == s.local \/ s.want \/ ~Renames(regs, Old(s)) \/ (r.lib # None /\ Tied(s))
      impl == ~skip /\ r.lib = Polyfill
      to   == IF impl THEN [r EXCEPT !.lib = opts.useSo] ELSE r
  IN
  /\ pc = "symbols" /\ Idle /\ i <= Len(e.syms)
  /\ i' = i + 1
  /\ p' = IF impl THEN PolyfillerAdd(r.name) ELSE p
  /\ libs' = IF skip \/ to.lib = None THEN libs ELSE libs \cup {to.lib}
  /\ e' = IF skip THEN e
          ELSE [e EXCEPT !.syms[i] = IF impl /\ opts.useSo = None THEN Implemented(s, r) ELSE Rebound(s, to)]
  /\ pc' = IF (~s.local /\ ~s.want /\ Loops(regs, Old(s))) \/ (impl /\ opts.useSo = None /\ Lookup(r.name) = 0)
           THEN "failed" ELSE pc
  /\ UNCHANGED <<file, opts, a, regs, again, exports, round>>
SymbolsDone ==
  /\ pc = "symbols" /\ Idle /\ i > Len(e.syms)
  /\ pc' = IF again THEN "begin" ELSE "confirm"
  /\ UNCHANGED <<file, opts, a, e, regs, p, libs, again, exports, i, round>>

(***************************************************************************)
(* The end of the round.                                                   *)
(***************************************************************************)
\* renamer_confirm_target_version.  DT_RELR is expanded, or the polyfiller
\* adds a function which applies it.
Targets == {reg \in Range(regs) : reg.kind = "target"}
Expanded(f) ==
  [f EXCEPT !.relas = FoldSet(LAMBDA w, s : Append(s, [kind |-> "base", n |-> w, at |-> [in |-> "file", n |-> w]]),
                              @, f.relr)]
Confirm ==
  LET old   == e.abi /\ \E reg \in Targets : VersionStrLess(reg.target, <<2, 36>>)
      links == old /\ e.relr # {} /\ opts.useSo = None
      apply == links /\ e.machine # "other"
      bad   == \E reg \in Targets, s \in Range(e.syms) : s.lib # None /\ Newer(s.ver, reg.target)
  IN
  /\ pc \in {"confirm", "confirm2"} /\ Idle
  /\ p' = IF apply THEN PolyfillerAdd("_polyfill_DT_RELR_apply") ELSE IF links THEN EnsureHasPolyfiller ELSE p
  /\ e' = IF ~old THEN e ELSE [(IF apply THEN e ELSE Expanded(e)) EXCEPT !.relr = {}]
  /\ pc' = CASE bad -> "failed"
             [] ~bad /\ pc = "confirm2" -> "libs"
             [] ~bad /\ pc = "confirm" -> IF p'.mode = None \/ opts.useSo # None \/ e.machine = "other"
                                          THEN "confirm2" ELSE "cfi"
  /\ UNCHANGED <<file, opts, a, regs, libs, again, exports, i, round>>

\* polyfiller_finished_adding
Internal(at, next, new) ==
  /\ pc = at /\ Idle /\ pc' = next
  /\ p' = IF p.seen = {} THEN p ELSE new
  /\ UNCHANGED <<file, opts, a, e, regs, libs, again, exports, i, round>>
FinishedAdding == \/ Internal("cfi", "init", AddCfi(p, e))
                  \/ Internal("init", "fini", AddInit(p, e))
                  \/ Internal("fini", "assign", AddFini(p))

\* Everything is given an address, and the variables which the polyfiller
\* knows of are written, if there are any.
Assigned ==
  /\ pc = "assign" /\ Idle /\ pc' = "init variables"
  /\ a' = By(e.machine, Assign(p, e, regs, libs), AssignA(p, e, regs, libs))
  /\ UNCHANGED <<file, opts, e, regs, p, libs, again, exports, i, round>>
Variables(at, next, written) ==
  /\ pc = at /\ pc' = next
  /\ a' = [a EXCEPT !.e = written]
  /\ UNCHANGED <<file, opts, e, regs, p, libs, again, exports, i, round>>
Written ==
  \/ Variables("init variables", "fini variables", By(e.machine, InitVariables(p, a.e), InitVariablesA(p, a.e)))
  \/ Variables("fini variables", "cfi variables", By(e.machine, FiniVariables(p, a.e), FiniVariablesA(p, a.e)))
  \/ Variables("cfi variables", "relr variables", By(e.machine, CfiVariables(a, p, a.e), CfiVariablesA(a, p, a.e)))
  \/ Variables("relr variables", "populate", RelrVariables(p, a.e))
Populated ==
  /\ pc = "populate" /\ pc' = "values"
  /\ a' = By(e.machine, PopulateAll(p, a), PopulateAllA(p, a))
  /\ UNCHANGED <<file, opts, e, regs, p, libs, again, exports, i, round>>
\* Then the symbols which stand for an implementation get its address.
Finished ==
  /\ pc = "values"
  /\ pc' = IF a.missing THEN "missing" ELSE "confirm2"
  /\ e' = [a.e EXCEPT !.syms = [k \in DOMAIN @ |-> IF @[k].want THEN [@[k] EXCEPT !.want = FALSE] ELSE @[k]]]
  /\ libs' = a.libs /\ a' = None
  /\ UNCHANGED <<file, opts, regs, p, again, exports, i, round>>

\* Libraries which are not needed yet.
EnsuredLibs ==
  /\ pc = "libs" /\ pc' = "done"
  /\ e' = [e EXCEPT !.needed = @ \cup libs]
  /\ libs' = {}
  /\ UNCHANGED <<file, opts, a, regs, p, again, exports, i, round>>

\* An allocation has not been possible: the file is read again.
Retry ==
  /\ pc = "libs" /\ round < MaxRounds
  /\ round' = round + 1 /\ pc' = "begin"
  /\ e' = Loaded(file) /\ p' = NoPolyfiller /\ libs' = {}
  /\ UNCHANGED <<file, opts, a, regs, again, exports, i>>

Terminated == pc \in {"done", "failed", "missing"} /\ UNCHANGED vars
Step == \/ Adding \/ Begin \/ Export \/ ExportsDone \/ Symbol \/ SymbolsDone
        \/ Confirm \/ FinishedAdding \/ Assigned \/ Written \/ Populated \/ Finished \/ EnsuredLibs \/ Retry
Next == Step \/ Terminated
Spec == Init /\ [][Next]_vars

(***************************************************************************)
(* What is promised of a file which has been written.                      *)
(***************************************************************************)
Done == pc = "done"
Linked == Done /\ p.mode # None /\ opts.useSo = None /\ file.machine # "other"

\* In whatever order the versions are found in the hash table, exactly those
\* which are newer than --target-glibc are renamed (target_ver_registry_bind_to).
LimitExact == \A reg \in Range(regs) :
  reg.kind = "target" /\ file.machine # "other" =>
    \A v \in Versions : (SlotVal(v) < reg.limit) <=> VersionStrLess(reg.target, Nums[v])

\* Every symbol of the file ends up as what all renames together, those which
\* polyfills have imposed on the way included, make of it: the passes over
\* the symbols have missed none, and what it has become is needed.
Meant(s, now) ==
  LET r    == Apply(regs, Old(s))
      ver  == IF r.lib = Polyfill /\ r.ver = None THEN "POLYFILL" ELSE r.ver
      from == IF r.lib = Polyfill THEN opts.useSo ELSE IF r.lib = None THEN s.lib ELSE r.lib
      Same == now.name = s.name /\ now.lib = s.lib /\ now.ver = s.ver /\ now.local = s.local
  IN  IF s.local \/ ~Renames(regs, Old(s)) \/ (r.lib # None /\ Tied(s)) THEN Same
      ELSE IF r.lib = Polyfill /\ opts.useSo = None
      THEN /\ now.value = CodeAt(RhLookup(r.name))
           /\ IF s.exported THEN ~now.local /\ now.name = r.name /\ now.ver = ver ELSE now.local
      ELSE /\ ~now.local /\ now.name = r.name /\ now.ver = ver
           /\ ver # None => now.lib = from /\ (from # s.lib => from \in e.needed)
SymbolsMeant == Done => \A k \in DOMAIN file.syms : Meant(file.syms[k], e.syms[k])

\* Whatever the implementations refer to, they reach: each other, the
\* implementation to which an extern is renamed, or the symbol it stands for
\* in the file, whether by a slot, by a slot which the file had already, by a
\* stub or by code which has been rewritten; and no address is missing.
Deref(at) ==
  LET r == CHOOSE k \in DOMAIN e.relas : /\ e.relas[k].at = at
                                         /\ \A j \in DOMAIN e.relas : e.relas[j].at = at => j <= k
      s == e.syms[e.relas[r].n]
  IN  IF e.relas[r].kind = "relative" THEN CodeAt(e.relas[r].n)
      ELSE IF s.value # Nowhere THEN s.value ELSE Sym(IF s.ver = None THEN None ELSE s.lib, s.name, s.ver)
Reached(link) ==
  IF link.via THEN Deref(link.at) ELSE IF link.at.in = "stub" THEN Deref(e.stubs[link.at.n]) ELSE link.at
Wanted(t) ==
  IF ~IsExtern(t) THEN CodeAt(t)
  ELSE IF IsPolyfilled(regs, t) THEN CodeAt(Target(regs, t))
  ELSE LET s == Apply(regs, Code[t].ext) IN [s EXCEPT !.lib = IF s.ver = None THEN None ELSE @]
RefMeant(t, ref) ==
  LET link == e.links[<<t, ref.to, ref.how>>]
  IN  /\ Reached(link) = Wanted(ref.to)
      /\ e.far /\ e.machine = "x86_64" => link.at.in # "file"
CodeMeant ==
  /\ pc # "missing"
  /\ Linked => \A t \in Added(p) :
       /\ ~IsExtern(t) => \A ref \in Range(Code[t].refs) : ref.how # "phantom" => RefMeant(t, ref)
       /\ Code[t].kind = "extern" /\ ~IsPolyfilled(regs, t) =>
            Apply(regs, Code[t].ext).lib \in e.needed \cup {None}

\* However the program is started, the initialisers of the implementations
\* run first, in order and once, then whatever it had itself; at the end its
\* own DT_FINI runs first and then theirs: the wrappers, the arrays and what
\* is stored of the original addresses agree.
Stored(name) == e.mem[Token(name)]
Array(name, count) ==
  IF e.machine = "aarch64" THEN SubSeq(Stored(name), 1, Stored(count)[1])
  ELSE SubSeq(Tail(Stored(name)), 1, Stored(name)[1])
Initialise == [in |-> "init", n |-> 0]   \* a call of _polyfill_init
Called(at) ==
  LET Is(name) == at = CodeAt(Token(name))
  IN  IF at = None THEN <<>>
      ELSE IF Is("_polyfill_init") THEN <<Initialise>>
      ELSE IF Is("_polyfill_DT_INIT") THEN <<Initialise>> \o Stored("_polyfill_DT_INIT_original")
      ELSE IF Is("_polyfill_entry") THEN <<Initialise>> \o Stored("_polyfill_entry_original")
      ELSE <<at>>
\* A library: DT_INIT.  A program: its entry point, which calls DT_INIT
\* if it uses the __libc_start_main of 2.34.
Starts(f, old) == IF f.entry = None THEN Called(f.init)
                  ELSE IF old THEN Called(f.entry) ELSE Called(f.entry) \o Called(f.init)
\* _polyfill_init does nothing the second time.
Executed(calls) ==
  LET own == SelectSeq(calls, LAMBDA c : c # Initialise)
  IN  IF Initialise \notin Range(calls) THEN own
      ELSE IF calls[1] = Initialise THEN Array("_polyfill_init_array", "_polyfill_init_array_count") \o own
      ELSE <<Nowhere>>
Ends(f) == IF f.fini = CodeAt(Token("_polyfill_DT_FINI"))
           THEN Array("_polyfill_fini_array", "_polyfill_fini_array_count") ELSE Called(f.fini)
HooksMeant == Linked =>
  /\ \A old \in BOOLEAN : Executed(Starts(e, old)) = Places(Those(p, "init")) \o Starts(file, old)
  /\ Ends(e) = Ends(file) \o Places(Those(p, "fini"))
  /\ Range(Starts(e, TRUE) \o Starts(e, FALSE) \o <<e.init, e.entry, e.fini>>)
       \cap {CodeAt(t) : t \in Tokens \ Added(p)} = {}

\* The table of frames has as many entries as its header counts.  There is one
\* exception: externs of aarch64, which come behind all functions, are counted
\* whether they have a stub or not, so that there is one entry too many if none
\* of them has one and they do not go on from a function without instructions
\* of its own.  Every function which is to have a frame is in exactly one entry,
\* and one with instructions of its own has that to itself.
Table == Stored("_polyfill_cfi_data")[1]
Stubless ==
  /\ e.machine = "aarch64" /\ p.mode # "minimal"
  /\ e.stubs = <<>> /\ \E t \in Added(p) : IsExtern(t)
  /\ \E f \in Added(p) : /\ IsFunction(f) /\ Code[f].cfi
                         /\ \A t \in Added(p) : IsFunction(t) => t <= f
FramesAgree == Linked /\ p.cfi =>
  LET Which(t) == {k \in DOMAIN Table.fdes : t \in Table.fdes[k]}
  IN  /\ Table.count = Len(Table.fdes) + IF Stubless THEN 1 ELSE 0
      /\ \A t \in Added(p) : IsFunction(t) =>
           /\ Cardinality(Which(t)) = IF Code[t].cfi \/ p.mode # "minimal" THEN 1 ELSE 0
           /\ Code[t].cfi => Table.fdes[Max(Which(t))] = {t}

\* What DT_RELR relocates in the file as it is read is relocated in the file
\* as it is written.
RelrMeant == Done => \A w \in file.relr :
  \/ w \in e.relr
  \/ \E r \in Range(e.relas) : r.kind = "base" /\ r.n = w
  \/ /\ \E r \in Range(e.relas) : r.kind = "irelative"
     /\ w \in Stored("_polyfill_DT_RELR_data")[1]
=============================================================================
