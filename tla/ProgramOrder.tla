---------------------------- MODULE ProgramOrder ----------------------------
(***************************************************************************)
(* What the out-of-order core promises to the program it runs: instructions *)
(* retire one at a time, each load of an instruction sees the last store   *)
(* to its address that the program made before it, and the stores of an    *)
(* instruction take effect when it retires.  A value is the number of the  *)
(* instruction that stored it, 0 for what memory held at the start.        *)
(***************************************************************************)
EXTENDS Integers

CONSTANTS
    Addr,      \* addresses of data
    Kinds,     \* the instructions a trace may hold
    TraceLen   \* instructions in the trace

VARIABLES
    retired,   \* how many instructions have retired
    memory,    \* for each address, the last instruction that stored to it
    seen       \* the loads of the instruction that retired last, and what each saw

vars == <<retired, memory, seen>>

Init ==
    /\ retired = 0
    /\ memory = [a \in Addr |-> 0]
    /\ seen = <<>>

Retire(k) ==
    /\ retired < TraceLen
    /\ retired' = retired + 1
    /\ seen' = [a \in k.load |-> memory[a]]
    /\ memory' = [a \in Addr |-> IF a \in k.store THEN retired + 1 ELSE memory[a]]

Next == \E k \in Kinds : Retire(k)

Spec == Init /\ [][Next]_vars
=============================================================================
