-------------------------- MODULE MCDramController --------------------------
(* A small instance of DramController: two banks with two addresses each, in different rows
   of the bank. *)
EXTENDS DramController

CONSTANTS a1, a2, a3, a4, b1, b2, r1, r2

TwoBanks == [a \in Addr |-> IF a \in {a3, a4} THEN b2 ELSE b1]
TwoRows == [a \in Addr |-> IF a \in {a2, a4} THEN r2 ELSE r1]
SmallTables == [k \in Kind |-> IF k = "read" THEN 2 ELSE 3]
=============================================================================
