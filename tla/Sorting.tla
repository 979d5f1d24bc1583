------------------------------ MODULE Sorting ------------------------------
(***************************************************************************)
(* sorted() of distinct numbers, as it is used for the positions of the    *)
(* selected clips and of the matches in a text.                            *)
(***************************************************************************)
EXTENDS Naturals, FiniteSets

\* The members of S, from the smallest to the largest.
Order(S) == CHOOSE f \in [1..Cardinality(S) -> S] :
                \A i, j \in 1..Cardinality(S) : i < j => f[i] < f[j]
=============================================================================
