---------------------------- MODULE MCDhdrEditor ----------------------------
(* Model-checking instance of DhdrEditor: dynamic arrays of up to MaxOriginal  *)
(* entries, with no, one or two DT_NULLs, or with something behind these.      *)
EXTENDS DhdrEditor

CONSTANTS MaxOriginal,  \* bound: the entries of an original array
          MaxEntries    \* bound: the length to which it grows

Content ==
  { Needed("libc"), Entry("RPATH", <<"lib">>, {}), Entry("RUNPATH", <<"lib">>, {}),
    Entry("SONAME", <<"lib">>, {}), Entry("FLAGS", << >>, {"ORIGIN"}),
    Entry("FLAGS", << >>, {"SYMBOLIC"}), Entry("SYMBOLIC", << >>, {}),
    Entry("STRTAB", << >>, {}) }

Endings == { << >>, <<Null>>, <<Null, Null>>, <<Null, Entry("DEBUG", << >>, {})>> }

MCArrays ==
  { [array |-> es \o end, split |-> split] :
    es \in SeqOf(Content, MaxOriginal), end \in Endings, split \in BOOLEAN }

MCLists == {<<"bin">>}

Bounded == Len(entries) <= MaxEntries
=============================================================================
