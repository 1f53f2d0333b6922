---------------------------- MODULE PoolAllocator ----------------------------
(***************************************************************************)
(* driver/PoolAllocator.c: a fixed number of blocks of equal size, the     *)
(* free ones chained through their own first word.  The memory of a block  *)
(* belongs to the client while the client holds it, so what the chain      *)
(* finds in a held block's first word is whatever the client wrote.        *)
(***************************************************************************)
EXTENDS Integers

CONSTANT N                      \* size / blockSize
ASSUME NAssumption == N \in Nat \ {0}

Null   == 0                     \* the null pointer
Blocks == 1 .. N                \* block addresses in the order they lie in buf

VARIABLES
  nextFree,                     \* pa->nextFreeBlock
  next,                         \* first word of each block of pa->buf
  held,                         \* blocks handed out and not freed yet
  ret                           \* return value of the last poolAllocate

vars == <<nextFree, next, held, ret>>

(* Bug: the last block is chained to the block behind the buffer. *)
chainPastEnd == [b \in Blocks |-> b + 1]

(* createPoolAllocator chains each block to the one behind it. *)
initialChain == [b \in Blocks |-> IF b < N THEN b + 1 ELSE Null]

createPoolAllocator ==
  /\ nextFree = 1
  /\ next = initialChain
  /\ held = {}
  /\ ret = Null

(* One call of poolAllocate: the early return, or the head of the chain. *)
poolAllocate ==
  \/ /\ nextFree = Null
     /\ ret' = Null
     /\ UNCHANGED <<nextFree, next, held>>
  \/ /\ nextFree # Null
     /\ ret' = nextFree
     /\ nextFree' = next[nextFree]
     /\ held' = held \cup {nextFree}
     /\ UNCHANGED next

(* Bug: the freed block does not point to the rest of the chain. *)
freeCutsChain(p) ==
  /\ p \in held
  /\ next' = [next EXCEPT ![p] = Null]
  /\ nextFree' = p
  /\ held' = held \ {p}
  /\ UNCHANGED ret

(* Bug: the client's data stays where the link belongs. *)
freeKeepsWord(p) ==
  /\ p \in held
  /\ nextFree' = p
  /\ held' = held \ {p}
  /\ UNCHANGED <<next, ret>>

(* One call of poolFree: the block becomes the head of the chain.  That p  *)
(* is a held block is the contract the callers keep.                       *)
poolFree(p) ==
  /\ p \in held
  /\ next' = [next EXCEPT ![p] = nextFree]
  /\ nextFree' = p
  /\ held' = held \ {p}
  /\ UNCHANGED ret

(* A client writes its data over the first word of a block it holds. *)
clientWrite(p) ==
  /\ p \in held
  /\ \E word \in Blocks \cup {Null} : next' = [next EXCEPT ![p] = word]
  /\ UNCHANGED <<nextFree, held, ret>>

Init == createPoolAllocator

Next ==
  \/ poolAllocate
  \/ \E p \in held : poolFree(p)
  \/ \E p \in held : clientWrite(p)

Spec == Init /\ [][Next]_vars

-----------------------------------------------------------------------------
Free == Blocks \ held

TypeOK ==
  /\ nextFree \in Blocks \cup {Null}
  /\ next \in [Blocks -> Blocks \cup {Null}]
  /\ held \subseteq Blocks
  /\ ret \in Blocks \cup {Null}

(* The chain never runs into a block that is handed out. *)
ChainStaysFree ==
  /\ nextFree \in Free \cup {Null}
  /\ \A b \in Free : next[b] \in Free \cup {Null}

(* No block is on the chain twice: none has two predecessors, and the head *)
(* has none.                                                               *)
ChainIsSimple ==
  /\ \A b, c \in Free : next[b] = next[c] /\ next[b] # Null => b = c
  /\ \A b \in Free : nextFree # Null => next[b] # nextFree

(* Every free block can be reached: there is no set of free blocks that    *)
(* neither the head nor a free block outside the set points into.          *)
ChainReachesAll ==
  \A S \in SUBSET Free :
    S # {} => \E b \in S : \/ b = nextFree
                           \/ \E c \in Free \ S : next[c] = b

(* The free list consists of the free blocks, each once: whatever order    *)
(* blocks are allocated, overwritten and freed in, poolAllocate hands out  *)
(* no block twice and loses none (PoolAllocator.c:45-73).                  *)
FreeListExact == ChainStaysFree /\ ChainIsSimple /\ ChainReachesAll

(* A failing allocation means that the clients hold every block: poolFree  *)
(* never strands a block where poolAllocate cannot find it                 *)
(* (PoolAllocator.c:49-52).                                                *)
NullOnlyWhenFull == nextFree = Null => held = Blocks

(* The allocator keeps the promise BlockPool states to its clients. *)
Promise == INSTANCE BlockPool
ImplementsBlockPool == Promise!Spec
=============================================================================
