----------------------------- MODULE MCMayaLLC -----------------------------
(* Model values and small instances for MayaLLC. *)
EXTENDS MayaLLC, TLC

CONSTANTS a1, a2, a3, s1, s2

\* Every address falls in the only set of each skew.
OneSet == [s \in Skew |-> [a \in Addr |-> s1]]

\* Two sets; the second skew splits the addresses that share a set of the first.
Skewed ==
    [s \in Skew |-> [a \in Addr |->
        IF a \in (IF s = 0 THEN {a1, a2} ELSE {a2, a3}) THEN s1 ELSE s2]]

Symmetry == Permutations(Addr) \cup Permutations(Block)
=============================================================================
