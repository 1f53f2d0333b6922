------------------------------- MODULE MCObjects -------------------------------
(***************************************************************************)
(* What objects hold: memory of the host, the descriptor sets of a pool,   *)
(* and the counters of a query pool.  A run moves one of the three and     *)
(* leaves the others as they start.                                        *)
(***************************************************************************)
EXTENDS Objects, TLC

CONSTANTS Sets, KindOrder, PoolSize, Layouts, Values, Undefined
CONSTANTS NumEvents, PerMonitor, Selections, Uninitialised, Refused, NoQuery, MaxJobs

VARIABLES
  lists, elements, descriptors, layout, runs, maps, written, freed, strayed, stopped,
  pool, perfmonIDs, monitors, perfmonID, inPass, markers, active, wanted, ran, spoiled,
  part                          \* "objects", "sets" or "queries"; never changes
setVars == <<lists, elements, descriptors, layout, runs, maps, written, freed, strayed, stopped>>
queryVars == <<pool, perfmonIDs, monitors, perfmonID, inPass, markers, active, wanted, ran, spoiled>>

D == INSTANCE DescriptorSets
Q == INSTANCE Queries WITH None <- NoQuery

(* A query needs two monitors at most. *)
ASSUME QueriesAssumption ==
  /\ PerMonitor \in Nat \ {0} /\ NumEvents \in Nat /\ NumEvents <= 2 * PerMonitor
  /\ \A c \in Selections : c \in Seq(0 .. NumEvents - 1) /\ Len(c) <= NumEvents
  /\ Uninitialised \notin 0 .. NumEvents - 1
  /\ {Uninitialised, Refused, NoQuery} \cap (Q!Queries \X Q!Passes) = {}
  /\ Uninitialised # Refused /\ NoQuery \notin Q!Queries /\ NoQuery \notin Selections

(* Layouts are those Vulkan allows, and a map has up to 16 elements.      *)
ASSUME SetsAssumption ==
  /\ IsFiniteSet(Sets)
  /\ KindOrder \in Seq(D!Kinds) /\ "map" \notin D!Kinds
  /\ \A i, j \in DOMAIN KindOrder : KindOrder[i] = KindOrder[j] => i = j
  /\ PoolSize \in [D!Kinds -> Nat] /\ D!MapSize <= 16
  /\ \A l \in Layouts :
       /\ l \in Seq([binding : Nat, kind : D!Kinds, count : Nat])
       /\ \A i, j \in DOMAIN l : l[i].binding = l[j].binding => i = j

SetSymmetry == Permutations(Sets) \cup Permutations(Values)

PartsInit ==
  /\ Init /\ D!Init /\ Q!Init
  /\ part \in {"objects", "sets", "queries"} /\ (part # "objects" => uses = "objects")
PartsNext ==
  /\ \/ part = "objects" /\ Next /\ UNCHANGED <<setVars, queryVars>>
     \/ part = "sets" /\ D!Next /\ UNCHANGED <<vars, queryVars>>
     \/ part = "queries" /\ Q!Next /\ UNCHANGED <<vars, setVars>>
  /\ UNCHANGED part
PartsSpec == PartsInit /\ [][PartsNext]_<<vars, setVars, queryVars, part>>

MCKinds == <<"image", "buffer">>
MCPoolSize == [image |-> 3, buffer |-> 2]
binding(number, kind, count) == [binding |-> number, kind |-> kind, count |-> count]
MCLayouts ==
  {<<binding(0, "image", 1), binding(3, "buffer", 1)>>,
   <<binding(2, "image", 1), binding(1, "image", 1)>>,
   <<binding(1, "buffer", 1), binding(4, "buffer", 0)>>}

(* One monitor in part and in full; two, with events that were never       *)
(* written and with all events there are.                                  *)
MCSelections == {<<1>>, <<2, 0>>, <<0, 1, 2>>, <<3, 1, 2, 0>>, <<4, 3, 2, 1, 0>>}

MCStages == {1, 2}
OptionalOf(kind) == Range(Parts(kind)) \cap Optional
MCInfos ==
  UNION {[kind : {k}, given : {{}, OptionalOf(k)} \cup {{p} : p \in OptionalOf(k)}] : k \in ObjectKinds}

-----------------------------------------------------------------------------
(* What a set holds at a binding, found by its number as a draw finds it,  *)
(* is what was last written or copied there (descriptorSet.c:120-381,      *)
(* map.c:11-31).                                                           *)
SetsHoldWhatWasWritten == D!SetsHoldWhatWasWritten

(* Entering a binding, taking a run and copying a descriptor end but in    *)
(* the cases that are known not to (map.c:16-28, descriptorSet.c:176-189,  *)
(* 352-377).                                                               *)
StopsOnlyWhereKnown == D!StopsOnlyWhereKnown

(* What is read for a query alone is what its counters counted between its *)
(* begin and its end, in the order they were asked for, but in the named   *)
(* cases (query.c:27-218, device.c:234, command.c:572-584).                *)
ResultsAreOfTheQuery == Q!ResultsAreOfTheQuery
===============================================================================
