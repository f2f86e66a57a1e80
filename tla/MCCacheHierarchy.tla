------------------------- MODULE MCCacheHierarchy -------------------------
(* A small instance of CacheHierarchy: one way at each level, and queues for one or two
   entries. *)
EXTENDS CacheHierarchy

One == [c \in Cache |-> 1]
LowerTwo == [c \in Cache |-> IF c = "L1D" THEN 1 ELSE 2]
Two == [c \in Cache |-> 2]
=============================================================================
