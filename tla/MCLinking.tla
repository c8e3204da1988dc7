----------------------------- MODULE MCLinking -----------------------------
(***************************************************************************)
(* A part of what is shipped, with the names, flags and references it has  *)
(* in _init.s, atexit.s, posix_spawn.s and glibc_2_16.s, and of            *)
(* renames.txt, with files and command lines which bring it together.      *)
(* The lengths of the arrays are variables on aarch64 only, but nothing    *)
(* looks at them on x86_64.                                                *)
(***************************************************************************)
EXTENDS Linking

C6 == "libc.so.6"
To(lib, name, ver) == [lib |-> lib, name |-> name, ver |-> ver]
MCNums == [v \in {"2.2.5", "2.3.4", "2.10", "2.15", "2.16", "2.24", "2.25", "2.29", "2.34"} |->
  CASE v = "2.2.5" -> <<2, 2, 5>> [] v = "2.3.4" -> <<2, 3, 4>> [] v = "2.10" -> <<2, 10>> [] v = "2.15" -> <<2, 15>>
    [] v = "2.16" -> <<2, 16>>    [] v = "2.24" -> <<2, 24>>    [] v = "2.25" -> <<2, 25>> [] v = "2.29" -> <<2, 29>>
    [] v = "2.34" -> <<2, 34>>]
Own(name) == To(Polyfill, name, None)
MCRenameTable ==
  LET one(name, to) == [n \in {name} |-> to] IN
  [v \in DOMAIN MCNums \ {"2.2.5"} |->
    CASE v = "2.3.4" -> one("chk_fail", Own("chk_fail"))     [] v = "2.10" -> one("quick_exit", Own("quick_exit_2_10"))
      [] v = "2.15" -> one("posix_spawn", Own("posix_spawn")) [] v = "2.16" -> one("getauxval", Own("getauxval"))
      [] v = "2.24" -> one("quick_exit", Own("quick_exit_2_24")) [] v = "2.25" -> one("bzero_chk", Own("bzero_chk"))
      [] v = "2.29" -> one("addchdir", Own("addchdir"))
      [] v = "2.34" -> one("dlsym", To("libdl.so.2", "dlsym", "2.2.5"))]

(***************************************************************************)
(* The code.                                                               *)
(***************************************************************************)
Layout == <<"_polyfill_DT_RELR_data", "_polyfill_DT_RELR_apply", "_polyfill_entry_original", "_polyfill_entry",
            "_polyfill_DT_INIT_original", "_polyfill_DT_INIT", "_polyfill_init_array",
            "_polyfill_init_array_count", "_polyfill_init", "_polyfill_cfi_data", "_polyfill_init_cfi_strong",
            "_polyfill_init_cfi_weak", "_polyfill_fini_array", "_polyfill_fini_array_count", "_polyfill_DT_FINI",
            "_polyfill_fini_cfi_weak", "_polyfill_fini_cfi_strong", "quick_exit_2_10", "quick_exit_2_24",
            "getauxval", "getauxval_init", "getauxval_fini", "posix_spawn", "destroy", "addchdir",
            "bzero_chk", "chk_fail", "x_chk_fail", "x_abort", "x_register", "x_deregister", "x_dlsym", "x_quick_exit", "x_errno", "x_free", "x_strdup",
            "need_spawn", "need_destroy", "need_nodelete">>
At(name) == CHOOSE k \in DOMAIN Layout : Layout[k] = name
Ref(how, names) == {[to |-> At(n), how |-> how] : n \in names}
Lea(names) == Ref("direct", names)
Call(names) == Ref("indirect", names)
Also(names) == Ref("phantom", names)
Refs(name) ==
  CASE name = "_polyfill_DT_RELR_apply" -> Lea({"_polyfill_DT_RELR_data"})
    [] name = "_polyfill_entry" -> Lea({"_polyfill_init", "_polyfill_entry_original"})
    [] name = "_polyfill_DT_INIT" -> Lea({"_polyfill_init", "_polyfill_DT_INIT_original"})
    [] name = "_polyfill_init" -> Lea({"_polyfill_init_array", "_polyfill_init_array_count"})
    [] name = "_polyfill_init_cfi_strong" ->
         Lea({"_polyfill_cfi_data"}) \cup Call({"x_register"}) \cup Also({"_polyfill_fini_cfi_strong"})
    [] name = "_polyfill_init_cfi_weak" ->
         Lea({"_polyfill_cfi_data"}) \cup Call({"x_dlsym"}) \cup Also({"_polyfill_fini_cfi_weak"})
    [] name = "_polyfill_DT_FINI" -> Lea({"_polyfill_fini_array", "_polyfill_fini_array_count"})
    [] name = "_polyfill_fini_cfi_weak" -> Lea({"_polyfill_cfi_data"})
    [] name = "_polyfill_fini_cfi_strong" -> Lea({"_polyfill_cfi_data"}) \cup Call({"x_deregister"})
    [] name = "quick_exit_2_24" -> Lea({"x_quick_exit"})
    [] name = "getauxval" -> Call({"x_errno"}) \cup Also({"getauxval_init", "getauxval_fini"})
    [] name = "destroy" -> Call({"x_free"})
    [] name = "bzero_chk" -> Call({"x_chk_fail"})
    [] name = "chk_fail" -> Call({"x_abort"})
    [] name = "addchdir" -> Call({"x_strdup"}) \cup Also({"need_destroy", "need_spawn", "need_nodelete"})
    [] OTHER -> {}
Exts(name) ==
  CASE name = "x_chk_fail" -> Sym(C6, "chk_fail", "2.3.4")
    [] name = "x_abort" -> Sym(C6, "abort", "2.2.5")
    [] name = "x_register" -> Sym("libgcc_s.so.1", "register", None)
    [] name = "x_deregister" -> Sym("libgcc_s.so.1", "deregister", None)
    [] name = "x_dlsym" -> Sym(C6, "dlsym", "2.34")
    [] name = "x_quick_exit" -> Sym(C6, "quick_exit", "2.10")
    [] name = "x_errno" -> Sym(C6, "errno", "2.2.5")
    [] name = "x_free" -> Sym(C6, "free", "2.2.5")
    [] name = "x_strdup" -> Sym(C6, "strdup", "2.2.5")
    [] name = "need_spawn" -> Own("posix_spawn")
    [] name = "need_destroy" -> Own("destroy")
    [] OTHER -> Sym(None, None, None)
Words == {"_polyfill_DT_RELR_data", "_polyfill_entry_original", "_polyfill_DT_INIT_original",
              "_polyfill_init_array_count", "_polyfill_fini_array_count"}
Tables == {"_polyfill_init_array", "_polyfill_cfi_data", "_polyfill_fini_array"}
MCCode == [t \in DOMAIN Layout |-> LET n == Layout[t] IN
  [name |-> n, refs |-> SetToSeq(Refs(n)), ext |-> Exts(n), room |-> n \in Words,
   old  |-> IF n = "need_spawn" THEN <<"posix_spawn", "2.15">> ELSE <<"destroy", "2.2.5">>,
   kind |-> CASE n \in Words \cup Tables -> "variable" [] n \in {"need_spawn", "need_destroy"} -> "impose"
              [] n = "need_nodelete" -> "nodelete"         [] Exts(n).name # None /\ n \notin {"need_spawn", "need_destroy"} -> "extern"
              [] OTHER -> "function",
   init |-> n \in {"_polyfill_init_cfi_strong", "_polyfill_init_cfi_weak", "getauxval_init"},
   fini |-> n \in {"_polyfill_fini_cfi_strong", "_polyfill_fini_cfi_weak", "getauxval_fini"},
   cfi  |-> n \in {"_polyfill_DT_INIT", "_polyfill_init", "_polyfill_init_cfi_weak", "_polyfill_DT_FINI",
                   "getauxval", "destroy", "addchdir"}]]

(***************************************************************************)
(* Files.                                                                  *)
(***************************************************************************)
Import(name, ver) == [NewSym(Sym(C6, name, ver)) EXCEPT !.eager = TRUE, !.plt = TRUE]
Export1(name, ver) == [NewSym(Sym(None, name, ver)) EXCEPT !.exported = TRUE]
\* Imported and exported: interposable, or with its address taken.
Both(name, ver) == [Export1(name, ver) EXCEPT !.eager = TRUE]
Canonical(name, ver) == [Import(name, ver) EXCEPT !.exported = TRUE]
InFile(k) == [in |-> "file", n |-> k]
JumpSlot(k) == [kind |-> "jump_slot", n |-> k, at |-> InFile(k)]
File(machine, syms) ==
  [machine |-> machine, syms |-> syms, needed |-> {C6}, init |-> None, fini |-> None, entry |-> None, relr |-> {},
   abi |-> FALSE, relas |-> [k \in DOMAIN syms |-> JumpSlot(k)], eh |-> TRUE, far |-> FALSE,
   links |-> <<>>, mem |-> <<>>, stubs |-> <<>>, nodelete |-> FALSE]
Machines == {"x86_64", "aarch64"}
Command(regs_, mode, useSo, createSo) == [regs |-> regs_, mode |-> mode, useSo |-> useSo, createSo |-> createSo]
In(f, o, order) == [file |-> f, opts |-> o, order |-> order]
Older(v) == TargetRegistry(MCNums[v])
Bespoke(old, to) == BespokeRegistry([k \in {old} |-> to])
AnyOrder == <<"2.24", "2.3.4", "2.34", "2.15", "2.29", "2.10", "2.25", "2.16">>

\* Renames: of symbols which impose others, of exports, to a library.
SymbolLists ==
  {<<Import("destroy", "2.2.5"), Import("posix_spawn", "2.15"), Import("addchdir", "2.29")>>,
   <<Import("addchdir", "2.29"), Import("free", "2.2.5"), Import("dlsym", "2.34"), Export1("own", "V1")>>,
   <<Import("bzero_chk", "2.25"), Import("chk_fail", "2.3.4")>>,
   <<Import("quick_exit", "2.24"), Both("getauxval", "2.16"), Canonical("posix_spawn", "2.15")>>,
   <<Import("quick_exit", "2.10"), Canonical("getauxval", "2.16"), Import("own", None)>>}
Registries ==
  {<<>>, <<Older("2.2.5")>>, <<Older("2.15")>>, <<Older("2.24")>>, <<Older("2.29"), Older("2.10")>>,
   <<Older("2.15"), Bespoke(<<"free", "2.2.5">>, To(None, "dealloc", "2.2.5"))>>,
   <<Bespoke(<<"strdup", "2.2.5">>, To(C6, "free", "2.2.5")), Older("2.10")>>,
   <<Bespoke(<<"own", "V1">>, To(None, "other", None)), Bespoke(<<"own", None>>, To("libx.so", "own", "V1"))>>,
   <<Bespoke(<<"free", "2.2.5">>, To(None, "strdup", "2.2.5")), Bespoke(<<"strdup", "2.2.5">>, To(None, "free", "2.2.5"))>>}
Renaming ==
  {In([File(m, syms) EXCEPT !.far = (so = None)], Command(rs, "auto", so, FALSE), AnyOrder) :
     m \in Machines \cup {"other"}, syms \in SymbolLists, rs \in Registries, so \in {None, "polyfill.so"}}
\* Every order of half of the slots, before and behind the others.
Orders == {q \o <<"2.15", "2.34", "2.3.4", "2.24">> : q \in SetToSeqs({"2.10", "2.16", "2.25", "2.29"})}
Slots == {In(File("x86_64", <<>>), Command(<<Older(v)>>, "none", None, FALSE), order) :
            v \in DOMAIN MCNums, order \in Orders \cup {Reverse(q) : q \in Orders}}
\* Initialisers and wrappers.
Starting ==
  {In([File(m, syms) EXCEPT !.init = init, !.fini = fini, !.entry = entry, !.eh = eh],
      Command(<<Older("2.15")>>, mode, None, FALSE), AnyOrder) :
     m \in Machines, syms \in {<<Import("getauxval", "2.16")>>, <<Import("quick_exit", "2.24")>>},
     init \in {None, InFile(101)}, fini \in {None, InFile(102)}, entry \in {None, InFile(103)},
     eh \in BOOLEAN, mode \in {"none", "full"}}
\* Frames.
Framing ==
  {In([File(m, syms) EXCEPT !.init = InFile(101), !.fini = InFile(102), !.eh = eh, !.needed = needed],
      Command(<<Older("2.15")>>, mode, None, FALSE), AnyOrder) :
     m \in Machines, syms \in {<<Import("getauxval", "2.16"), Import("addchdir", "2.29")>>, <<Import("dlsym", "2.34"), Import("quick_exit", "2.24")>>},
     eh \in BOOLEAN, needed \in {{C6}, {C6, "libgcc_s.so.1"}}, mode \in {"auto", "minimal", "full"}}
\* Frames, where what an implementation calls is an implementation as well.
Calling ==
  {In([File(m, <<Import("destroy", "2.2.5")>>) EXCEPT !.eh = eh],
      Command(<<Bespoke(<<"destroy", "2.2.5">>, Own("destroy")), Bespoke(<<"free", "2.2.5">>, Own(name))>>, mode, None, FALSE),
      AnyOrder) :
     m \in Machines, eh \in BOOLEAN, mode \in {"auto", "minimal", "full"}, name \in {"posix_spawn", "bzero_chk"}}
\* --create-polyfill-so
Creating == {In(File(m, <<>>), Command(rs, "auto", None, TRUE), AnyOrder) :
               m \in Machines, rs \in {<<Older("2.16")>>, <<Older("2.24")>>}}
\* DT_RELR, where it stays or is expanded.
Relative ==
  {In([File(m, <<Import("getauxval", "2.16")>>) EXCEPT !.relr = {201, 202}, !.abi = abi],
      Command(<<Older("2.15")>>, "auto", so, FALSE), AnyOrder) :
     m \in Machines \cup {"other"}, abi \in BOOLEAN, so \in {None, "polyfill.so"}}
MCInputs == Renaming \cup Slots \cup Starting \cup Framing \cup Calling \cup Creating \cup Relative
=============================================================================
