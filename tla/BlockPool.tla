------------------------------ MODULE BlockPool ------------------------------
(***************************************************************************)
(* What a client of a pool allocator may rely on (driver/PoolAllocator.h): *)
(* an allocation returns a block nobody holds, it fails only when every    *)
(* block is held, and a freed block can be allocated again.                *)
(***************************************************************************)
CONSTANTS Blocks, Null            \* the blocks, and the null pointer

VARIABLES
  held,                         \* blocks the clients hold
  ret                           \* what the last allocation returned

vars == <<held, ret>>

Init == held = {} /\ ret = Null

Allocate == \E b \in Blocks \ held : held' = held \cup {b} /\ ret' = b

Exhausted == held = Blocks /\ ret' = Null /\ UNCHANGED held

Free == \E b \in held : held' = held \ {b} /\ UNCHANGED ret

Next == Allocate \/ Exhausted \/ Free

Spec == Init /\ [][Next]_vars
=============================================================================
