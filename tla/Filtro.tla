------------------------------- MODULE Filtro -------------------------------
(* What is left of a queue once some of its elements have been taken out. *)
EXTENDS Naturals, Sequences, FiniteSets

\* The elements of s that belong to S, in the order of s: the one in place n is the
\* one with n - 1 others before it.
Filtrar(s, S) ==
  LET K == {i \in DOMAIN s : s[i] \in S}
  IN  [n \in 1 .. Cardinality(K) |->
         s[CHOOSE i \in K : Cardinality({j \in K : j <= i}) = n]]
=============================================================================
