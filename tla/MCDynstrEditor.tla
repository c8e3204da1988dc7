--------------------------- MODULE MCDynstrEditor ---------------------------
(* Model-checking instance of DynstrEditor: every table of up to Size        *)
(* characters, and every way two holders can refer to its strings.           *)
EXTENDS DynstrEditor

CONSTANTS Size,    \* bound: the characters of the original string table
          MaxAdd   \* bound: the characters added to a new table

\* The table begins and ends with a NUL.
Tables(n) == {b \in [1..n -> Chars \cup {NUL}] : b[1] = NUL /\ b[n] = NUL}
File(b, rs, removable) == [bytes |-> b, refs |-> rs, removable |-> removable]
AllFiles == UNION {{File(b, rs, {}) : b \in Tables(n), rs \in [Holders -> 0..(n - 1)]} :
                   n \in 1..Size}

MCFiles ==
  {fl \in AllFiles : Sound(fl)} \cup
  {[fl EXCEPT !.removable = Holders] : fl \in {f \in AllFiles : Sound(f) /\ Small(f)}}

\* Files in which no holder refers to the offset 0; the strings in use may be
\* next to each other.
AdjacentFiles == {fl \in AllFiles : \A h \in Holders : fl.refs[h] # 0}

Bounded == Len(toAdd) <= Size + MaxAdd

CONSTANTS chA, chB  \* the characters
MCStrings == {<<chA>>, <<chA, chB>>, << >>}
=============================================================================
