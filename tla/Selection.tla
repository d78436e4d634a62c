------------------------------ MODULE Selection ------------------------------
(* The elements of a sequence that pass a test, in their order (Rust's filter  *)
(* and filter_map), told by the positions that are kept: so the order can be   *)
(* reasoned about without an induction over the sequence.                      *)
EXTENDS Naturals, Sequences, FiniteSets

\* The k-th number of a finite set of numbers
Nth(I, k) == CHOOSE i \in I : Cardinality({j \in I : j <= i}) = k

\* The elements of s at the positions of I
Picked(s, I) == [k \in 1..Cardinality(I) |-> s[Nth(I, k)]]
==============================================================================
