------------------------------- MODULE Filters -------------------------------
(***************************************************************************)
(* Keeping some elements of a sequence.  SelectSeq, in a form that can be  *)
(* reasoned about: the n-th element kept is the one with n - 1 kept        *)
(* elements before it.                                                     *)
(***************************************************************************)
EXTENDS Naturals, Sequences, FiniteSets

Kept(s, T) == {i \in DOMAIN s : s[i] \in T}

Rank(s, T, i) == Cardinality({j \in Kept(s, T) : j <= i})

\* The elements of s that are in T, in their order.
Among(s, T) == [n \in 1 .. Cardinality(Kept(s, T)) |->
                  s[CHOOSE i \in Kept(s, T) : Rank(s, T, i) = n]]
=============================================================================
