----------------------------- MODULE Positions -----------------------------
(***************************************************************************)
(* Parts of a sequence: what is left of a file when lines are dropped, and *)
(* of a log when entries expire.                                           *)
(***************************************************************************)
EXTENDS Naturals, Sequences, FiniteSets

\* The elements at some positions, in their order.
At(f, S) ==
    LET nth(n) == CHOOSE i \in S : Cardinality({j \in S : j <= i}) = n
    IN  [n \in 1..Cardinality(S) |-> f[nth(n)]]
=============================================================================
