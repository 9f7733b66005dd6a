-------------------------- MODULE MCMemoryBalancer --------------------------
(* MemoryBalancer with three map servers, two of them with memory to spare. *)
EXTENDS MemoryBalancer

CONSTANTS c1, c2, c3

SmallAndTwoLarge == [c \in {c1, c2, c3} |-> IF c = c1 THEN 2 ELSE 3]
=============================================================================
