------------------------------ MODULE Sorting ------------------------------
(***************************************************************************)
(* Numbers in increasing order, as a function the proofs can expand (they  *)
(* cannot the one of the library, which is built on SortSeq).              *)
(***************************************************************************)
EXTENDS Naturals, FiniteSets

\* The k-th number of S has k - 1 smaller ones.
Rank(S, n) == Cardinality({m \in S : m < n})
Sorted(S)  == [k \in 1 .. Cardinality(S) |-> CHOOSE n \in S : Rank(S, n) = k - 1]
=============================================================================
