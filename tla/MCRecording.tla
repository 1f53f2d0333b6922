----------------------------- MODULE MCRecording -----------------------------
(***************************************************************************)
(* A command pool at work, its parts on their own: the lists a command     *)
(* buffer records into, the consecutive pool they take their blocks from,  *)
(* and the command buffers of the pool, which hold the blocks and execute  *)
(* each other.  A run moves one part and leaves the others as they start.  *)
(***************************************************************************)
EXTENDS Recording, TLC

CONSTANTS NumBlocks, MaxRun, Primaries, Secondaries, ListBlocks, Objects, Unknown
ASSUME PartsAssumption ==
  /\ NumBlocks \in Nat \ {0} /\ MaxRun \in Nat /\ ListBlocks \in Nat
  /\ IsFiniteSet(Primaries \cup Secondaries) /\ Primaries \cap Secondaries = {}

VARIABLES
  freeList, held, headHeld, ret,
  live, handles, words, off, recording, bufferInPass, executed, listsHeld, room, broken,
  part                          \* "lists", "blocks" or "buffers"; never changes
blockVars == <<freeList, held, headHeld, ret>>
bufferVars ==
  <<live, handles, words, off, recording, bufferInPass, executed, listsHeld, room, broken>>

C == INSTANCE ConsecutivePool
P == INSTANCE CommandPool WITH
  Blocks <- ListBlocks, held <- listsHeld, inPass <- bufferInPass,
  MaxDraws <- 2, MaxWords <- 2, MaxHandles <- 2

PoolSymmetry == Permutations(Secondaries) \cup Permutations(Objects)

PartsInit == Init /\ C!Init /\ P!Init /\ part \in {"lists", "blocks", "buffers"}
PartsNext ==
  /\ \/ part = "lists" /\ Next /\ UNCHANGED <<blockVars, bufferVars>>
     \/ part = "blocks" /\ C!Next /\ UNCHANGED <<vars, bufferVars>>
     \/ part = "buffers" /\ P!Next /\ UNCHANGED <<vars, blockVars>>
  /\ UNCHANGED part
PartsSpec == PartsInit /\ [][PartsNext]_<<vars, blockVars, bufferVars, part>>

-----------------------------------------------------------------------------
(* Programs and targets to record with. *)
used(image, load, multi) == [image |-> image, load |-> load, store |-> TRUE, multi |-> multi]
unused == [image |-> None, load |-> FALSE, store |-> FALSE, multi |-> FALSE]
MCPasses ==
  {[color |-> used("i1", FALSE, FALSE), resolve |-> unused, depth |-> unused],
   [color |-> used("i1", TRUE, FALSE), resolve |-> unused, depth |-> used("d1", TRUE, FALSE)],
   [color |-> used("m1", FALSE, TRUE), resolve |-> used("i2", FALSE, FALSE),
    depth |-> used("d2", FALSE, TRUE)]}

plain == [programs |-> <<"f1", "v1", "c1">>, attributes |-> <<"vb">>, descriptors |-> <<>>,
          samples |-> <<>>, noAutoLod |-> FALSE, constants |-> 2]
textured == [programs |-> <<"f2", "v2", "c2">>, attributes |-> <<"vb", "vb">>,
             descriptors |-> <<"t1", "t2">>, samples |-> <<"2D", "CUBE">>,
             noAutoLod |-> TRUE, constants |-> 1]
wide == [programs |-> <<"f3", "v3", "c3">>,
         attributes |-> <<"vb", "b2", "b3", "b4", "b5", "b6", "b7", "b8">>,
         descriptors |-> <<"t1">>, samples |-> <<"1D">>, noAutoLod |-> FALSE, constants |-> 5]
MCShaders == {plain, textured, wide}

-----------------------------------------------------------------------------
(* No block is handed out twice, until the head of the free list is a held *)
(* block (ConsecutivePoolAllocator.c:47-258).                              *)
HeldOnce == C!HeldOnce

(* Blocks are lost only by growing in place behind a listed run            *)
(* (ConsecutivePoolAllocator.c:224).                                       *)
LostOnlyByGrowing == C!LostOnlyByGrowing

(* Freeing a run never makes an allocation fail that would have succeeded  *)
(* (ConsecutivePoolAllocator.c:126-202).                                   *)
FreeingKeepsFits == C!FreeingKeepsFits

(* Blocks of lists are neither lost nor held twice (command.c:130-137,     *)
(* 789-799).                                                               *)
BlocksConserved == P!BlocksConserved

(* An index copied from a secondary buffer names, among the handles of the *)
(* job it was copied to, the object the secondary recorded                 *)
(* (command.c:994-1140).                                                   *)
CopiedIndicesNameHandles == P!CopiedIndicesNameHandles
===============================================================================
