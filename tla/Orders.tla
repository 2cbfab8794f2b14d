------------------------------- MODULE Orders -------------------------------
(***************************************************************************)
(* What Python's sorted and SQL's ORDER BY do: the elements of a finite    *)
(* set in a strict total order, which is given as the set of its pairs.    *)
(* (The sort of the library has a definition for TLC only; of this one     *)
(* something can be proved.)                                               *)
(***************************************************************************)
EXTENDS Integers, FiniteSets

\* The k-th element is the one k - 1 others are before.
InOrder(S, before) ==
    [k \in 1 .. Cardinality(S) |->
        CHOOSE x \in S : Cardinality({y \in S : <<y, x>> \in before}) = k - 1]

Ascending(S) == {p \in S \X S : p[1] < p[2]}
=============================================================================
