------------------------------ MODULE Selection ------------------------------
(***************************************************************************)
(* What is left of a sequence when some of its entries are passed over.    *)
(***************************************************************************)
EXTENDS Naturals, Sequences, FiniteSets

\* The entries of s at the positions in K, in their order.
Kept(s, K) ==
  LET F[i \in 0..Len(s)] == IF i = 0 THEN << >>
                            ELSE IF i \in K THEN Append(F[i - 1], s[i]) ELSE F[i - 1]
  IN F[Len(s)]
=============================================================================
