--------------------------- MODULE PolyfillerAArch64 ---------------------------
(***************************************************************************)
(* The static linker of implementations for aarch64                        *)
(* (aarch64/polyfiller.c), where it is not the same as for x86_64: an      *)
(* extern is called through a stub instead of through a slot of the GOT,   *)
(* so that whatever refers to it refers to code, and the lengths of the    *)
(* arrays are variables of their own.                                      *)
(***************************************************************************)
EXTENDS PolyfillerX86

StubAt(t) == [in |-> "stub", n |-> t]

\* add_sym_and_deps: a symbol is added, or it is not.
VisitA(p, regs) ==
  LET t    == Head(p.work).tok
      Call(to) == [tok |-> to, why |-> Regular]
      deps == [k \in DOMAIN Code[t].refs |-> Call(Code[t].refs[k].to)]
      own  == IF Code[t].kind = "extern" /\ IsPolyfilled(regs, t) THEN <<Call(Target(regs, t))>> ELSE <<>>
  IN  IF t \in Added(p) THEN [p EXCEPT !.work = Tail(@)]
      ELSE [p EXCEPT !.added[t] = Regular, !.work = deps \o own \o Tail(@),
                     !.seen = IF IsFunction(t) THEN @ \cup Flags(t) ELSE @]

\* An extern which is an implementation counts as that.
AssignOneA(a, regs, t) ==
  IF ~IsExtern(t) THEN [a EXCEPT !.addr[t] = CodeAt(t)]
  ELSE IF Code[t].kind # "extern" THEN a
  ELSE IF IsPolyfilled(regs, t) THEN [a EXCEPT !.own[t] = a.own[Target(regs, t)]]
  ELSE UseSym(a, t, Apply(regs, Code[t].ext))

\* write_plt: the slot is located as on x86_64, and the stub jumps through it.
StubOne(a, k) ==
  LET b == LocateOne(a, k)
      t == a.ext[k]
  IN  [b EXCEPT !.addr[t] = StubAt(t), !.e.stubs = Put(@, t, b.addr[t]), !.plt = @ \cup {t}]
ExternsA(a) == SortSeq(Externs(a), LAMBDA j, k : a.ext[j] < a.ext[k])
AssignA(p, e, regs, libs) ==
  LET a == Steps(LAMBDA x, t : AssignOneA(x, regs, t), Start(p, e, libs), SortedTokens(p))
  IN  Steps(StubOne, a, ExternsA(a))

\* populate_init_variables and populate_fini_variables.
InitArrayA(e, fns) ==
  Store(Store(e, "_polyfill_init_array", Places(fns)), "_polyfill_init_array_count", <<Len(fns)>>)
InitVariablesA(p, e) == IF Those(p, "init") = <<>> THEN e ELSE HookEntry(HookInit(InitArrayA(e, Those(p, "init"))))
FiniArrayA(e, fns) ==
  Store(Store(e, "_polyfill_fini_array", fns), "_polyfill_fini_array_count", <<Len(fns)>>)
FiniVariablesA(p, e) ==
  LET new == Places(Those(p, "fini"))
      all == IF e.fini = None THEN new ELSE <<e.fini>> \o new
  IN  IF new = <<>> THEN e
      ELSE IF Len(all) = 1 THEN [e EXCEPT !.fini = all[1]]
      ELSE [FiniArrayA(e, all) EXCEPT !.fini = CodeAt(Token("_polyfill_DT_FINI"))]

\* populate_cfi_variables: every extern is counted, but only stubs, which
\* are without instructions of their own, are written.
FramedA(p) == SelectSeq(SortedTokens(p), LAMBDA t : IsFunction(t) \/ IsExtern(t))
FramesA(a, p) ==
  LET Counted(c, t) == CountOne(c, IsExtern(t) \/ ~Code[t].cfi, p.mode # "minimal")
      Written(c, t) == IF IsExtern(t) /\ t \notin a.plt THEN c
                       ELSE WriteOne(c, t, IsExtern(t) \/ ~Code[t].cfi, p.mode # "minimal")
  IN  [count |-> Steps(Counted, [n |-> 0, run |-> FALSE], FramedA(p)).n,
       fdes  |-> Steps(Written, [fdes |-> <<>>, run |-> FALSE], FramedA(p)).fdes]
CfiVariablesA(a, p, e) ==
  IF ~p.cfi THEN e ELSE [Store(e, "_polyfill_cfi_data", <<FramesA(a, p)>>) EXCEPT !.eh = TRUE]

\* populate_regular_symbol
LinkOneA(a, t, ref) ==
  LET at == a.addr[a.own[ref.to]]
  IN  IF ref.how = "phantom" THEN a
      ELSE [a EXCEPT !.missing = @ \/ at = Nowhere,
                     !.e.links = Put(@, <<t, ref.to, ref.how>>, [at |-> at, via |-> FALSE])]
PopulateA(a, t) ==
  LET b == IF Code[t].room /\ t \notin DOMAIN a.e.mem THEN [a EXCEPT !.e.mem = Put(@, t, <<Nowhere>>)] ELSE a
  IN  Steps(LAMBDA x, ref : LinkOneA(x, t, ref), b, Code[t].refs)
PopulateAllA(p, a) == Steps(PopulateA, a, SelectSeq(SortedTokens(p), LAMBDA t : ~IsExtern(t)))
=============================================================================
