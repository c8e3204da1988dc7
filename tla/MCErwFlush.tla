----------------------------- MODULE MCErwFlush -----------------------------
(* Model-checking instance of ErwFlush: command lines of up to three actions *)
(* that differ, and files in which the workarounds do and do not apply.      *)
EXTENDS ErwFlush, SequencesExt

CONSTANT MaxActions  \* bound: the length of a command line

\* The actions come in an order or in its reverse; only prints are repeated.
Order == <<"print", "set_interpreter", "add_late_needed", "add_gnu_hash", "add_hash",
           "remove_verneed", "weak_verneed", "remove_debug">>
Rank(kind) == CHOOSE i \in DOMAIN Order : Order[i] = kind
Before(k, l) == Rank(k) < Rank(l) \/ (k = "print" /\ l = "print")

MCCommandLines ==
  {c \in SeqOf(Kinds, MaxActions) :
     \/ \A i, j \in DOMAIN c : i < j => Before(c[i], c[j])
     \/ \A i, j \in DOMAIN c : i < j => Before(c[j], c[i])} \ {<< >>}

\* A program: symbols, versions, relocations.
Program ==
  { [ dynamic |-> TRUE, tags |-> tags \cup {"RELA", "DEBUG"},
      nulls |-> IF split THEN 1 ELSE 0, phdrs |-> 4,
      interp |-> TRUE, split |-> IF split THEN {"dsyms", "relocs"} ELSE {},
      sorted |-> FALSE, sparse |-> sp,
      known |-> FALSE, far |-> FALSE, strFar |-> FALSE ] :
    tags \in {{"HASH", "VERNEED"}, {"GNU_HASH", "VERNEED"}, {"HASH"}},
    split \in BOOLEAN, sp \in BOOLEAN }

\* A library: DT_SONAME, and no interpreter.
Library ==
  { [ dynamic |-> TRUE, tags |-> {"HASH", "SONAME", "VERNEED"}, nulls |-> 2, phdrs |-> 3,
      interp |-> FALSE, split |-> {}, sorted |-> so, sparse |-> sp,
      known |-> so, far |-> far, strFar |-> sf ] :
    so \in BOOLEAN, sp \in BOOLEAN, far \in BOOLEAN, sf \in BOOLEAN }

\* A statically linked program.
Static ==
  { [ dynamic |-> FALSE, tags |-> {}, nulls |-> 0, phdrs |-> 2,
      interp |-> FALSE, split |-> {}, sorted |-> FALSE, sparse |-> FALSE,
      known |-> FALSE, far |-> far, strFar |-> FALSE ] : far \in BOOLEAN }

MCFiles == Program \cup Library \cup Static

\* Of several files the first is one of these, and the command line is short.
FirstFiles ==
  { f \in MCFiles : /\ f.split = {} /\ ~ f.sorted /\ ~ f.known /\ ~ f.far
                    /\ f.nulls \in {0, 2} /\ f.tags \cap {"GNU_HASH"} = {} }

MCInit == Init /\ (left > 1 => file \in FirstFiles /\ Len(cmd) < MaxActions)
MCSpec == MCInit /\ [][Next]_vars /\ WF_vars(Round)
=============================================================================
