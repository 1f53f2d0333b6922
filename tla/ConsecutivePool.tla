--------------------------- MODULE ConsecutivePool ---------------------------
(***************************************************************************)
(* driver/ConsecutivePoolAllocator.c: runs of neighbouring blocks, taken   *)
(* from a linked list of the free blocks.  The list is kept in the order   *)
(* blocks were freed in, not in address order, and only a freed run that   *)
(* lies right behind a listed block is put next to it.                     *)
(*                                                                         *)
(* The chain of pointers is the sequence of the blocks it visits.          *)
(* numFreeBlocks is only ever printed and left out.                        *)
(***************************************************************************)
EXTENDS Integers, FiniteSets, SequencesExt

CONSTANTS
  NumBlocks,                    \* size / blockSize
  MaxRun                        \* bound: blocks the callers ask for at once

Blocks == 1 .. NumBlocks        \* blocks in the order they lie in pa->buf

VARIABLES
  freeList,                     \* the chain that starts at pa->nextFreeBlock
  held,                         \* runs handed out: [first, len]
  headHeld,                     \* pa->nextFreeBlock points into a held run
  ret                           \* first block of the last call's run, or 0

vars == <<freeList, held, headHeld, ret>>

Run(first, len) == [first |-> first, len |-> len]
blocksOf(r) == r.first .. r.first + r.len - 1
runSeq(r) == [i \in 1 .. r.len |-> r.first + i - 1]

createConsecutivePoolAllocator ==
  /\ freeList = [i \in 1 .. NumBlocks |-> i]
  /\ held = {}
  /\ headHeld = FALSE
  /\ ret = 0

-----------------------------------------------------------------------------
(* Bug: the last of the n entries is not looked at. *)
fitsAtShort(list, i, n) ==
  /\ i + n - 2 <= Len(list)
  /\ \A c \in 1 .. n - 2 : list[i + c] = list[i] + c

(* The n list entries from position i on lie one behind the other in the   *)
(* buffer as well.                                                         *)
fitsAt(list, i, n) ==
  /\ i + n - 1 <= Len(list)
  /\ \A c \in 1 .. n - 1 : list[i + c] = list[i] + c

fits(list, n) == \E i \in DOMAIN list : fitsAt(list, i, n)

(* The walk takes the first place in list order. *)
firstFit(list, n) ==
  CHOOSE i \in DOMAIN list :
    fitsAt(list, i, n) /\ \A j \in 1 .. i - 1 : ~ fitsAt(list, j, n)

(* Bug: the entries in front of the run are not linked to those behind it. *)
withoutTail(list, i, n) == SubSeq(list, 1, i - 1)

without(list, i, n) ==
  SubSeq(list, 1, i - 1) \o SubSeq(list, i + n, Len(list))

consecutivePoolAllocate(n) ==
  \/ /\ ~ fits(freeList, n)
     /\ ret' = 0
     /\ UNCHANGED <<freeList, held, headHeld>>
  \/ /\ fits(freeList, n)
     /\ LET i == firstFit(freeList, n) IN
        /\ ret' = freeList[i]
        /\ freeList' = without(freeList, i, n)
        /\ held' = held \cup {Run(freeList[i], n)}
     /\ UNCHANGED headHeld

(* Bug: off by one block. *)
inFrontOfByTwo(list, p) ==
  IF \E i \in DOMAIN list : list[i] + 2 = p
  THEN CHOOSE i \in DOMAIN list : list[i] + 2 = p
  ELSE 0

(* Position of the listed block right in front of block p, or 0. *)
inFrontOf(list, p) ==
  IF \E i \in DOMAIN list : list[i] + 1 = p
  THEN CHOOSE i \in DOMAIN list : list[i] + 1 = p
  ELSE 0

(* The freed run goes behind the block in front of it, or to the head. *)
withRun(list, r) ==
  LET i == inFrontOf(list, r.first)
  IN  SubSeq(list, 1, i) \o runSeq(r) \o SubSeq(list, i + 1, Len(list))

consecutivePoolFree(r) ==
  /\ r \in held
  /\ freeList' = withRun(freeList, r)
  /\ held' = held \ {r}
  /\ UNCHANGED <<headHeld, ret>>

-----------------------------------------------------------------------------
behind(r) == r.first + r.len

(* The block behind r, at position i of the list, is added to r in place.  *)
(* With a predecessor the list now starts there; without one and with no   *)
(* successor the head stays where it is.                                   *)
growInPlace(r, i) ==
  /\ freeList[i] = behind(r)
  /\ freeList' = IF i > 1 THEN SubSeq(without(freeList, i, 1), i - 1, Len(freeList) - 1)
                 ELSE IF Len(freeList) > 1 THEN Tail(freeList)
                 ELSE freeList
  /\ headHeld' = (i = 1 /\ Len(freeList) = 1)
  /\ held' = (held \ {r}) \cup {Run(r.first, r.len + 1)}
  /\ ret' = r.first

(* Bug: the old run stays allocated. *)
moveKeepsOld(r, n) ==
  \/ /\ ~ fits(freeList, n)
     /\ ret' = 0
     /\ UNCHANGED <<freeList, held, headHeld>>
  \/ /\ fits(freeList, n)
     /\ LET i == firstFit(freeList, n) IN
        /\ ret' = freeList[i]
        /\ freeList' = without(freeList, i, n)
        /\ held' = (held \ {r}) \cup {Run(freeList[i], n)}
     /\ UNCHANGED headHeld

(* Otherwise a new run is allocated, filled and the old one freed. *)
moveRun(r, n) ==
  \/ /\ ~ fits(freeList, n)
     /\ ret' = 0
     /\ UNCHANGED <<freeList, held, headHeld>>
  \/ /\ fits(freeList, n)
     /\ LET i == firstFit(freeList, n) IN
        /\ ret' = freeList[i]
        /\ freeList' = withRun(without(freeList, i, n), r)
        /\ held' = (held \ {r}) \cup {Run(freeList[i], n)}
     /\ UNCHANGED headHeld

(* The only caller, clFit (common.c:534-550), asks for more blocks than    *)
(* the list has.                                                           *)
consecutivePoolReAllocate(r, n) ==
  /\ r \in held /\ n > r.len
  /\ \/ n - r.len < 2 /\ \E i \in DOMAIN freeList : growInPlace(r, i)
     \/ /\ n - r.len < 2 => \A i \in DOMAIN freeList : freeList[i] # behind(r)
        /\ moveRun(r, n)

Init == createConsecutivePoolAllocator

(* Once the head lies in a held run its owner overwrites the chain, and    *)
(* what the allocator does next is undefined: the model stops there.       *)
Ruined == headHeld /\ UNCHANGED vars

Next ==
  \/ Ruined
  \/ /\ ~ headHeld
     /\ \/ \E n \in 1 .. MaxRun : consecutivePoolAllocate(n)
        \/ \E r \in held : consecutivePoolFree(r)
        \/ \E r \in held, n \in 2 .. MaxRun : consecutivePoolReAllocate(r, n)

Spec == Init /\ [][Next]_vars

-----------------------------------------------------------------------------
Listed == {freeList[i] : i \in DOMAIN freeList}
HeldBlocks == UNION {blocksOf(r) : r \in held}
Lost == Blocks \ (Listed \cup HeldBlocks)

TypeOK ==
  /\ freeList \in Seq(Blocks)
  /\ held \subseteq [first : Blocks, len : 1 .. MaxRun]
  /\ headHeld \in BOOLEAN
  /\ ret \in Blocks \cup {0}

(* Two control lists never share a block, and no block is on the list      *)
(* twice.                                                                  *)
RunsDisjoint ==
  /\ IsInjective(freeList)
  /\ \A r \in held : blocksOf(r) \subseteq Blocks
  /\ \A r, s \in held : r # s => blocksOf(r) \cap blocksOf(s) = {}

(* A block a control list holds is not on the free list: no order of       *)
(* allocating, freeing, growing and moving hands it out again, as long as  *)
(* no list grew into the last free block, which the code leaves on the     *)
(* list against its comment at ConsecutivePoolAllocator.c:220 (lines       *)
(* 221-230).  Every variable keeps its type.                               *)
HeldOnce == TypeOK /\ RunsDisjoint /\ (~ headHeld => Listed \cap HeldBlocks = {})

(* Allocating, freeing and moving lose no block: every block that is       *)
(* neither listed nor held was cut off by a list growing in place          *)
(* (ConsecutivePoolAllocator.c:223-224).                                   *)
LostOnlyByGrowing ==
  [][Lost' # Lost => \E r \in held : Run(r.first, r.len + 1) \in held' \ held]_vars

(* Freeing a run never makes an allocation fail that would have succeeded  *)
(* before: it is put where it splits no run of listed neighbours           *)
(* (ConsecutivePoolAllocator.c:155-197).                                   *)
FreeingKeepsFits ==
  [][Cardinality(held') < Cardinality(held)
     => \A n \in 1 .. MaxRun : fits(freeList, n) => fits(freeList', n)]_vars
=============================================================================
