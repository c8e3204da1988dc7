--------------------------- MODULE MCSymbolVersions ---------------------------
(***************************************************************************)
(* Three symbols, two libraries, and files with versions in the order in   *)
(* which linkers write them.                                               *)
(***************************************************************************)
EXTENDS SymbolVersions

VN(lib, aux, next) == [lib |-> lib, aux |-> aux, next |-> next]
VNA(ver, idx, next) == [ver |-> ver, idx |-> idx, weak |-> FALSE, next |-> next]
VD(idx, aux, next) == [lib |-> None, idx |-> idx, aux |-> aux, next |-> next]
VDA(ver, next) == [ver |-> ver, weak |-> FALSE, next |-> next]
Cells(S) == [a \in {c[1] : c \in S} |-> (CHOOSE c \in S : c[1] = a)[2]]

\* An executable: libc with two versions which are used and two which are
\* not, and libm.
Executable ==
  [mem |-> Cells({<<4, VN("libc", 8, 24)>>, <<8, VNA("GLIBC_2.36", 6, 12)>>, <<12, VNA("GLIBC_ABI_DT_RELR", 5, 16)>>,
                  <<16, VNA("GLIBC_2.34", 4, 20)>>, <<20, VNA("GLIBC_2.2", 3, 0)>>,
                  <<24, VN("libm", 28, 0)>>, <<28, VNA("GLIBC_2.2", 2, 0)>>}),
   need |-> 4, def |-> 0, libs |-> {"libc", "libm"}, symver |-> <<3, 4, 2>>, feats |-> {"GLIBC_ABI_DT_RELR", "GLIBC_2.36"}]
\* One whose symbols only need old versions.
Old == [Executable EXCEPT
   !.mem = Cells({<<4, VN("libc", 8, 24)>>, <<8, VNA("GLIBC_2.36", 5, 12)>>, <<12, VNA("GLIBC_ABI_DT_RELR", 4, 20)>>,
                  <<20, VNA("GLIBC_2.2", 3, 0)>>, <<24, VN("libm", 28, 0)>>, <<28, VNA("GLIBC_2.2", 2, 0)>>}),
   !.symver = <<3, 1, 2>>]
\* A library, which defines V1 and V2 and requires libm and libc.
Library ==
  [mem |-> Cells({<<4, VD(1, 9, 11)>>, <<9, VDA("self", 0)>>, <<11, VD(2, 16, 18)>>, <<16, VDA("V1", 0)>>,
                  <<18, VD(3, 23, 0)>>, <<23, VDA("V2", 25)>>, <<25, VDA("V1", 0)>>,
                  <<27, VN("libm", 35, 31)>>, <<31, VN("libc", 39, 0)>>,
                  <<35, VNA("GLIBC_2.2", 4, 0)>>, <<39, VNA("GLIBC_2.34", 5, 0)>>}),
   need |-> 27, def |-> 4, libs |-> {"libc", "libm"}, symver |-> <<5, 3, 4>>, feats |-> {}]
\* A file without versions.
Unversioned ==
  [mem |-> <<>>, need |-> 0, def |-> 0, libs |-> {}, symver |-> <<1, 1, 1>>, feats |-> {}]
MCFiles == {Executable, Old, Library, Unversioned}

Keep == [kind |-> "keep", lib |-> None, ver |-> None]
ToPlain == [kind |-> "plain", lib |-> None, ver |-> None]
Bind(lib, ver) == [kind |-> "bind", lib |-> lib, ver |-> ver]
Targets == {Keep, ToPlain, Bind("libc", "GLIBC_2.2"), Bind("libm", "GLIBC_2.29"), Bind("libnew", "POLYFILL")}
MCRenames == [1 .. 3 -> Targets]
MCNameSets == {{1}, {2}, {2, 3}}
MCTooNew == {"GLIBC_2.34", "GLIBC_2.36", "GLIBC_ABI_DT_RELR"}
=============================================================================
