----------------------------- MODULE Dictionaries -----------------------------
(***************************************************************************)
(* Python's dictionaries keep their keys in the order of insertion.  A     *)
(* dictionary is a sequence here, and what its deletions leave keeps the   *)
(* order.                                                                  *)
(***************************************************************************)
EXTENDS Naturals, Sequences, FiniteSets

\* The positions in K, a finite set of numbers, in ascending order.
Ascending(K) ==
    CHOOSE f \in [1 .. Cardinality(K) -> K] : \A i, j \in DOMAIN f : i < j => f[i] < f[j]

\* What is left of s when only the positions in K are kept.
Kept(s, K) ==
    LET at == Ascending(K)
    IN  [i \in DOMAIN at |-> s[at[i]]]

=============================================================================
