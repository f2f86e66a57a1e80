---------------------------- MODULE MCMirageLLC ----------------------------
(* Model values and a small instance for MirageLLC. *)
EXTENDS MirageLLC, TLC

CONSTANTS a1, a2, a3

\* Two sets; the second skew splits the addresses that share a set of the first.
Skewed ==
    [s \in Skew |-> [a \in Addr |-> IF a \in (IF s = 0 THEN {a1, a2} ELSE {a2, a3}) THEN 0 ELSE 1]]

Symmetry == Permutations(Block)
=============================================================================
