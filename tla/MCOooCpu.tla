------------------------------ MODULE MCOooCpu ------------------------------
(* A small instance of OooCpu: traces of loads, stores and branches that share two registers
   and two addresses. *)
EXTENDS OooCpu

CONSTANTS r, s, x, y

I(sources, destinations, loads, stores, misses) ==
    [src |-> sources, dst |-> destinations, load |-> loads, store |-> stores, miss |-> misses]

LoadTwo == I({}, {r}, {x, y}, {}, FALSE)
Store == I({r}, {}, {}, {x}, FALSE)
Push == I({}, {s}, {y}, {x}, FALSE)
Branch == I({r, s}, {}, {}, {}, TRUE)

MixedKinds == {LoadTwo, Store, Push, Branch}
=============================================================================
