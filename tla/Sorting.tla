------------------------------ MODULE Sorting -------------------------------
(***************************************************************************)
(* Python's sorted for a finite set, in the order that a relation states   *)
(* as a set of pairs.                                                      *)
(***************************************************************************)
EXTENDS Integers, FiniteSets

\* The k-th of the sequence has k - 1 others before it.
SortedBy(S, R) ==
    [k \in 1 .. Cardinality(S) |->
        CHOOSE p \in S : Cardinality({q \in S : <<q, p>> \in R}) = k - 1]
=============================================================================
