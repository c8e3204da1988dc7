---------------------------- MODULE MCGetauxval ----------------------------
(* Model-checking instance of Getauxval: two threads, and a vector which does *)
(* not fit in a page.                                                         *)
EXTENDS Getauxval

CONSTANTS hwcap, pagesz, execfn  \* keys

MCAuxv == <<hwcap, pagesz, execfn>>
=============================================================================
