------------------------- MODULE PoolAllocatorProofs -------------------------
(***************************************************************************)
(* The free list of PoolAllocator is exact for pools of every size, and    *)
(* the allocator implements BlockPool.                                     *)
(***************************************************************************)
EXTENDS PoolAllocator, WellFoundedInduction, TLAPS

(* The inductive invariant: FreeListExact needs nothing but the types. *)
IInv == TypeOK /\ FreeListExact

(* Every non-empty set of blocks has one that lies lowest in the buffer. *)
LEMMA LowestBlock ==
  ASSUME NEW S \in SUBSET Blocks, S # {}
  PROVE  \E b \in S : \A c \in S : b <= c
PROOF
<1>1. S \subseteq Nat
  BY NAssumption DEF Blocks
<1>2. \E b \in S : \A c \in S : ~ (<<c, b>> \in OpToRel(<, Nat))
  BY <1>1, NatLessThanWellFounded, WFMin, Zenon
<1>3. \A b, c \in S : <<c, b>> \notin OpToRel(<, Nat) => b <= c
  BY <1>1 DEF OpToRel
<1>. QED
  BY <1>2, <1>3

(* createPoolAllocator chains all blocks: the lowest of a set of blocks is *)
(* the head, or its predecessor in the buffer is outside the set.          *)
LEMMA InitIInv == Init => IInv
PROOF
<1>1. SUFFICES ASSUME Init PROVE IInv
  OBVIOUS
<1>2. TypeOK
  BY <1>1, NAssumption
  DEF Init, createPoolAllocator, initialChain, TypeOK, Blocks, Null
<1>3. ChainStaysFree /\ ChainIsSimple
  BY <1>1, NAssumption
  DEF Init, createPoolAllocator, initialChain, ChainStaysFree, ChainIsSimple,
      Free, Blocks, Null
<1>4. ChainReachesAll
  <2>1. SUFFICES ASSUME NEW S \in SUBSET Blocks, S # {}
                 PROVE  \E b \in S : \/ b = nextFree
                                     \/ \E c \in Free \ S : next[c] = b
    BY <1>1 DEF ChainReachesAll, Init, createPoolAllocator, Free
  <2>2. PICK b \in S : \A c \in S : b <= c
    BY <2>1, LowestBlock
  <2>3. CASE b = 1
    BY <1>1, <2>3 DEF Init, createPoolAllocator
  <2>4. CASE b # 1
    <3>1. b - 1 \in Free \ S
      BY <1>1, <2>2, <2>4, NAssumption DEF Init, createPoolAllocator, Free, Blocks
    <3>2. next[b - 1] = b
      BY <1>1, <2>4, NAssumption DEF Init, createPoolAllocator, initialChain, Blocks
    <3>. QED
      BY <3>1, <3>2
  <2>. QED
    BY <2>3, <2>4
<1>. QED
  BY <1>2, <1>3, <1>4 DEF IInv, FreeListExact

(* Taking the head off the chain. *)
LEMMA AllocateIInv == IInv /\ poolAllocate => IInv'
PROOF
<1>1. SUFFICES ASSUME IInv, poolAllocate PROVE IInv'
  OBVIOUS
<1>2. CASE nextFree = Null /\ UNCHANGED <<nextFree, next, held>> /\ ret' = Null
  BY <1>1, <1>2
  DEF IInv, TypeOK, FreeListExact, ChainStaysFree, ChainIsSimple, ChainReachesAll, Free
<1>3. CASE /\ nextFree # Null
           /\ ret' = nextFree
           /\ nextFree' = next[nextFree]
           /\ held' = held \cup {nextFree}
           /\ UNCHANGED next
  <2>1. /\ nextFree \in Free
        /\ Free' = Free \ {nextFree}
    BY <1>1, <1>3 DEF IInv, FreeListExact, ChainStaysFree, Free
  <2>2. TypeOK'
    BY <1>1, <1>3, <2>1 DEF IInv, TypeOK, Free
  <2>3. ChainStaysFree'
    BY <1>1, <1>3, <2>1 DEF IInv, FreeListExact, ChainStaysFree, ChainIsSimple
  <2>4. ChainIsSimple'
    BY <1>1, <1>3, <2>1 DEF IInv, FreeListExact, ChainIsSimple
  <2>5. ChainReachesAll'
    <3>1. SUFFICES ASSUME NEW S \in SUBSET (Free'), S # {}
                   PROVE  \E b \in S : \/ b = nextFree'
                                       \/ \E c \in Free' \ S : next'[c] = b
      BY DEF ChainReachesAll
    <3>2. PICK b \in S : b = nextFree \/ \E c \in Free \ S : next[c] = b
      BY <1>1, <2>1, <3>1 DEF IInv, FreeListExact, ChainReachesAll
    <3>3. PICK c \in Free \ S : next[c] = b
      BY <2>1, <3>2
    <3>. QED
      BY <1>3, <2>1, <3>3
  <2>. QED
    BY <2>2, <2>3, <2>4, <2>5 DEF IInv, FreeListExact
<1>. QED
  BY <1>1, <1>2, <1>3 DEF poolAllocate

(* Pushing a held block on the chain. *)
LEMMA FreeIInv == ASSUME NEW p \in held PROVE IInv /\ poolFree(p) => IInv'
PROOF
<1>1. SUFFICES ASSUME IInv, poolFree(p) PROVE IInv'
  OBVIOUS
<1>2. /\ p \in Blocks /\ p # Null /\ p \notin Free
      /\ Free' = Free \cup {p}
      /\ nextFree' = p
      /\ next \in [Blocks -> Blocks \cup {Null}]
      /\ next' = [next EXCEPT ![p] = nextFree]
  BY <1>1, NAssumption DEF IInv, TypeOK, poolFree, Free, Blocks, Null
<1>3. next'[p] = nextFree /\ \A b \in Free : next'[b] = next[b]
  BY <1>2 DEF Free
<1>4. TypeOK'
  BY <1>1, <1>2 DEF IInv, TypeOK, poolFree
<1>5. ChainStaysFree'
  BY <1>1, <1>2, <1>3 DEF IInv, FreeListExact, ChainStaysFree
<1>6. ChainIsSimple'
  BY <1>1, <1>2, <1>3 DEF IInv, FreeListExact, ChainIsSimple, ChainStaysFree
<1>7. ChainReachesAll'
  <2>1. SUFFICES ASSUME NEW S \in SUBSET (Free'), S # {}, p \notin S
                 PROVE  \E b \in S : \/ b = nextFree'
                                     \/ \E c \in Free' \ S : next'[c] = b
    BY <1>2 DEF ChainReachesAll
  <2>2. PICK b \in S : b = nextFree \/ \E c \in Free \ S : next[c] = b
    BY <1>1, <1>2, <2>1 DEF IInv, FreeListExact, ChainReachesAll
  <2>. QED
    BY <1>2, <1>3, <2>1, <2>2
<1>. QED
  BY <1>4, <1>5, <1>6, <1>7 DEF IInv, FreeListExact

(* What clients write into their own blocks is not on the chain. *)
LEMMA WriteIInv == ASSUME NEW p \in held PROVE IInv /\ clientWrite(p) => IInv'
PROOF
<1>1. SUFFICES ASSUME IInv, clientWrite(p) PROVE IInv'
  OBVIOUS
<1>2. /\ Free' = Free
      /\ nextFree' = nextFree
      /\ \A b \in Free : next'[b] = next[b]
  BY <1>1 DEF IInv, TypeOK, clientWrite, Free
<1>3. TypeOK'
  BY <1>1 DEF IInv, TypeOK, clientWrite
<1>4. ChainStaysFree' /\ ChainIsSimple'
  BY <1>1, <1>2 DEF IInv, FreeListExact, ChainStaysFree, ChainIsSimple
<1>5. ChainReachesAll'
  BY <1>1, <1>2 DEF IInv, FreeListExact, ChainReachesAll
<1>. QED
  BY <1>3, <1>4, <1>5 DEF IInv, FreeListExact

LEMMA NextIInv == IInv /\ [Next]_vars => IInv'
PROOF
<1>1. SUFFICES ASSUME IInv, [Next]_vars PROVE IInv'
  OBVIOUS
<1>2. CASE UNCHANGED vars
  BY <1>1, <1>2
  DEF vars, IInv, TypeOK, FreeListExact, ChainStaysFree, ChainIsSimple, ChainReachesAll, Free
<1>. QED
  BY <1>1, <1>2, AllocateIInv, FreeIInv, WriteIInv DEF Next

(* Whatever order blocks are allocated, overwritten and freed in, the      *)
(* variables keep their types (PoolAllocator.c:7-73).                      *)
THEOREM TypeCorrect == Spec => []TypeOK
PROOF
<1>1. IInv => TypeOK
  BY DEF IInv
<1>. QED
  BY <1>1, InitIInv, NextIInv, PTL DEF Spec

(* Whatever order blocks are allocated, overwritten and freed in, the      *)
(* chain of PoolAllocator.c:45-73 holds each free block exactly once.      *)
THEOREM FreeListIsExact == Spec => []FreeListExact
PROOF
<1>1. IInv => FreeListExact
  BY DEF IInv
<1>. QED
  BY <1>1, InitIInv, NextIInv, PTL DEF Spec

(* The chain is empty only when every block is held: take the set of all   *)
(* free blocks in ChainReachesAll.                                         *)
LEMMA EmptyChain == IInv => NullOnlyWhenFull
PROOF
<1>1. SUFFICES ASSUME IInv, nextFree = Null PROVE Free = {}
  BY DEF IInv, TypeOK, NullOnlyWhenFull, Free
<1>2. SUFFICES ASSUME Free # {} PROVE FALSE
  OBVIOUS
<1>3. PICK b \in Free : b = nextFree \/ \E c \in Free \ Free : next[c] = b
  BY <1>1, <1>2 DEF IInv, FreeListExact, ChainReachesAll
<1>. QED
  BY <1>1, <1>3, NAssumption DEF Free, Blocks, Null

(* poolAllocate returns 0 only when the clients hold all blocks            *)
(* (PoolAllocator.c:49-52): freeing never strands a block.                 *)
THEOREM FailsOnlyWhenFull == Spec => []NullOnlyWhenFull
PROOF
<1>. QED
  BY EmptyChain, InitIInv, NextIInv, PTL DEF Spec

(* Every step of the free list is a step of the set of held blocks. *)
THEOREM Refinement == Spec => ImplementsBlockPool
PROOF
<1>1. Init => Promise!Init
  BY DEF Init, createPoolAllocator, Promise!Init
<1>2. IInv /\ [Next]_vars => [Promise!Next]_(Promise!vars)
  <2>1. SUFFICES ASSUME IInv, [Next]_vars
                 PROVE  [Promise!Next]_(Promise!vars)
    OBVIOUS
  <2>2. CASE poolAllocate
    <3>1. CASE nextFree = Null
      BY <2>1, <2>2, <3>1, EmptyChain
      DEF poolAllocate, NullOnlyWhenFull, Promise!Next, Promise!Exhausted
    <3>2. CASE nextFree # Null
      BY <2>1, <2>2, <3>2
      DEF poolAllocate, IInv, FreeListExact, ChainStaysFree, Free,
          Promise!Next, Promise!Allocate
    <3>. QED
      BY <3>1, <3>2
  <2>3. ASSUME NEW p \in held, poolFree(p)
        PROVE  Promise!Next
    BY <2>3 DEF poolFree, Promise!Next, Promise!Free
  <2>4. ASSUME NEW p \in held, clientWrite(p)
        PROVE  UNCHANGED Promise!vars
    BY <2>4 DEF clientWrite, Promise!vars
  <2>5. CASE UNCHANGED vars
    BY <2>5 DEF vars, Promise!vars
  <2>. QED
    BY <2>1, <2>2, <2>3, <2>4, <2>5 DEF Next
<1>. QED
  BY <1>1, <1>2, InitIInv, NextIInv, PTL
  DEF Spec, ImplementsBlockPool, Promise!Spec
=============================================================================
