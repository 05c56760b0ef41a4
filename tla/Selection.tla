----------------------------- MODULE Selection ------------------------------
(***************************************************************************)
(* Parts of a sequence, given by the places of their elements.  This is    *)
(* what SelectSeq returns for a test on elements, in a form whose order    *)
(* and length can be reasoned about.                                       *)
(***************************************************************************)
EXTENDS Integers, Sequences, FiniteSets

\* The i-th number of a finite set.
Nth(I, i) == CHOOSE k \in I : Cardinality({j \in I : j <= k}) = i

\* The elements of s at the places in I, in their order.
Selected(s, I) == [i \in 1..Cardinality(I) |-> s[Nth(I, i)]]
=============================================================================
