---------------------------- MODULE DescriptorSets ----------------------------
(***************************************************************************)
(* Descriptor pools and sets (driver/descriptorSet.c) and the map from     *)
(* binding numbers to descriptors (driver/map.c).  The descriptors of a    *)
(* set are a run of blocks for each kind, and so are the elements of its   *)
(* maps; the runs come from consecutive pools, whose list operations are   *)
(* those of module ConsecutivePool.                                        *)
(*                                                                         *)
(* A slot of the pool of sets keeps what its last owner left there, and a  *)
(* copy looks up a binding in the maps of all kinds, also in those the set *)
(* never created.                                                          *)
(***************************************************************************)
EXTENDS Integers, FiniteSets, SequencesExt, TLC

CONSTANTS
  Sets,                         \* slots of the pool of sets
  KindOrder,                    \* kinds of descriptors, in the order of the code:
                                \* image, buffer, texel buffer
  PoolSize,                     \* descriptors of each kind in the pool: 16 in all at most
  Layouts,                      \* sequences of [binding, kind, count]
  Values, Undefined             \* what descriptors refer to, and nothing yet

VARIABLES
  lists,                        \* free lists: of each kind, and of map elements
  elements,                     \* the map elements: [key, data]
  descriptors,                  \* contents of the descriptors of each kind
  layout,                       \* layout of an allocated set, or <<>>
  runs, maps,                   \* a set's runs of descriptors and elements
  written,                      \* history: what was written to a binding
  freed, strayed,               \* history: a set was freed; a copy used a map
                                \* of a kind its set has no descriptors of
  stopped                       \* "", or why the program does not go on
vars == <<lists, elements, descriptors, layout, runs, maps, written, freed, strayed, stopped>>

Kinds == ToSet(KindOrder)

(* Sums, counted as units: f[x] of each x.                                 *)
Units(f) == UNION {{x} \X (1 .. f[x]) : x \in DOMAIN f}
Total(f) == Cardinality(Units(f))
MapSize == Total(PoolSize)

(* Steps 1 to m, one after the other. *)
Each(step(_, _), c, m) ==
  LET after[n \in 0 .. m] == IF n = 0 THEN c ELSE step(after[n - 1], n) IN after[m]

Run(first, len) == [first |-> first, len |-> len]
NoRun == Run(0, 0)

(* The operations on the chain of free blocks of a consecutive pool.       *)
Pool == INSTANCE ConsecutivePool WITH
  NumBlocks <- MapSize, MaxRun <- MapSize,
  freeList <- lists.map, held <- {}, headHeld <- FALSE, ret <- 0

Taken(list, n) == Pool!without(list, Pool!firstFit(list, n), n)
FirstOf(list, n) == list[Pool!firstFit(list, n)]
Returned(list, run) == Pool!withRun(list, run)

-----------------------------------------------------------------------------
(* getIndex: the upper bits of the 32-bit product of the key and           *)
(* 0x678DDE6F, for maps of up to 16 elements.                              *)
UpperHalf(key) == (26509 * key + (56943 * key) \div 65536) % 65536
getIndex(key, size) == (UpperHalf(key) \div 2^(16 - size)) % size

(* The element of map m, counted from 0, at which the search for a key     *)
(* ends: it has the key or is empty.  -1 when there is none and the search *)
(* goes round for ever.                                                    *)
Ends(els, m, key, i) ==
  LET e == els[m.first + i] IN e.key = key \/ e.data = 0

Probe(els, m, key) ==
  LET index == getIndex(key, m.len)
      ends == {d \in 0 .. m.len - 1 : Ends(els, m, key, (index + d) % m.len)}
  IN  IF ends = {} THEN -1
      ELSE (index + CHOOSE d \in ends : \A c \in ends : d <= c) % m.len

getMapElement(els, m, key) ==
  IF Probe(els, m, key) = -1 THEN -1 ELSE els[m.first + Probe(els, m, key)].data

setMapElement(els, m, key, data) ==
  IF Probe(els, m, key) = -1 THEN els
  ELSE [els EXCEPT ![m.first + Probe(els, m, key)] = [key |-> key, data |-> data]]

(* Bug: elements keep what the last maps left in them. *)
createMapKeeps(els, ms) == els

(* createMap, for each of the maps ms. *)
createMap(els, ms) ==
  [i \in DOMAIN els |->
     IF \E k \in Kinds : i \in ms[k].first .. ms[k].first + ms[k].len - 1
     THEN [els[i] EXCEPT !.data = 0] ELSE els[i]]

-----------------------------------------------------------------------------
(* Descriptors of a kind in the first m bindings. *)
CountUpTo(bindings, kind, m) ==
  Each(LAMBDA n, i : IF bindings[i].kind = kind THEN n + bindings[i].count ELSE n, 0, m)
CountOf(bindings, kind) == CountUpTo(bindings, kind, Len(bindings))

(* Bug: all bindings of a kind start at its first descriptor. *)
offsetNone(bindings, i) == 0

(* Descriptors of its kind in front of those of the i-th binding. *)
offsetOf(bindings, i) == CountUpTo(bindings, bindings[i].kind, i - 1)

(* Bindings are entered in the map of their kind one after the other, until *)
(* one finds no element, as one without descriptors may, and the search    *)
(* never ends.                                                             *)
entering(e, ms, rs, bindings, i) ==
  LET b == bindings[i]
      m == ms[b.kind]
  IN  IF e.hangs \/ m.len = 0 \/ Probe(e.els, m, b.binding) = -1 THEN [e EXCEPT !.hangs = TRUE]
      ELSE [e EXCEPT !.els = setMapElement(@, m, b.binding, rs[b.kind].first + offsetOf(bindings, i))]

entered(els, ms, rs, bindings) ==
  Each(LAMBDA e, i : entering(e, ms, rs, bindings, i), [els |-> els, hangs |-> FALSE], Len(bindings))

(* The runs of a new set, one kind after the other, with the lists that    *)
(* are left; a kind without descriptors takes nothing.                     *)
taking(a, k, n) ==
  IF n = 0 \/ ~ a.ok THEN a
  ELSE IF ~ (Pool!fits(a.lists[k], n) /\ Pool!fits(a.lists.map, n)) THEN [a EXCEPT !.ok = FALSE]
  ELSE [lists |-> [a.lists EXCEPT ![k] = Taken(@, n), !.map = Taken(@, n)],
        runs |-> [a.runs EXCEPT ![k] = Run(FirstOf(a.lists[k], n), n)],
        maps |-> [a.maps EXCEPT ![k] = Run(FirstOf(a.lists.map, n), n)],
        ok |-> TRUE]

Allocated(bindings) ==
  Each(LAMBDA a, i : taking(a, KindOrder[i], CountOf(bindings, KindOrder[i])),
    [lists |-> lists, runs |-> [k \in Kinds |-> NoRun], maps |-> [k \in Kinds |-> NoRun],
     ok |-> TRUE],
    Len(KindOrder))

InUse(k) == Total([s \in Sets |-> CountOf(layout[s], k)])

(* vkAllocateDescriptorSets, within the sizes the pool was created for.    *)
(* Results of the pools are not checked: a run that does not fit has the   *)
(* offset ~0, and its elements are cleared all the same.                   *)
vkAllocateDescriptorSets(s, bindings) ==
  /\ layout[s] = <<>>
  /\ \A k \in Kinds : InUse(k) + CountOf(bindings, k) <= PoolSize[k]
  /\ LET a == Allocated(bindings)
         e == entered(createMap(elements, a.maps), a.maps, a.runs, bindings)
     IN IF ~ a.ok
        THEN stopped' = "no run" /\ UNCHANGED <<lists, elements, layout, runs, maps, written>>
        ELSE /\ lists' = a.lists
             /\ elements' = e.els
             /\ stopped' = IF e.hangs THEN "no element" ELSE ""
             /\ layout' = [layout EXCEPT ![s] = bindings]
             /\ runs' = [runs EXCEPT ![s] = a.runs]
             /\ maps' = [maps EXCEPT ![s] = [k \in Kinds |->
                           IF a.maps[k].len = 0 THEN @[k] ELSE a.maps[k]]]
             /\ written' = [written EXCEPT ![s] = [i \in DOMAIN bindings |->
                              [j \in 0 .. bindings[i].count - 1 |-> Undefined]]]
  /\ UNCHANGED <<descriptors, freed, strayed>>

(* vkFreeDescriptorSets: the slot keeps its maps. *)
returning(l, s, k) ==
  IF runs[s][k].len = 0 THEN l
  ELSE [l EXCEPT ![k] = Returned(@, runs[s][k]), !.map = Returned(@, maps[s][k])]

AllReturned(s) == Each(LAMBDA l, i : returning(l, s, KindOrder[i]), lists, Len(KindOrder))

vkFreeDescriptorSets(s) ==
  /\ layout[s] # <<>>
  /\ lists' = AllReturned(s)
  /\ layout' = [layout EXCEPT ![s] = <<>>]
  /\ runs' = [runs EXCEPT ![s] = [k \in Kinds |-> NoRun]]
  /\ written' = [written EXCEPT ![s] = <<>>]
  /\ freed' = TRUE
  /\ UNCHANGED <<elements, descriptors, maps, strayed, stopped>>

(* vkUpdateDescriptorSets: one descriptor written, ... *)
write(s, i, j, v) ==
  LET b == layout[s][i]
      at == getMapElement(elements, maps[s][b.kind], b.binding) + j
  IN  /\ descriptors' = [descriptors EXCEPT ![b.kind][at] = v]
      /\ written' = [written EXCEPT ![s][i][j] = v]
      /\ UNCHANGED <<lists, elements, layout, runs, maps, freed, strayed, stopped>>

(* ... and one copied.  For each kind the source is looked up by its       *)
(* binding number, and if it is found the destination as well.             *)
found(s, k, key) == IF maps[s][k] = NoRun THEN -1 ELSE getMapElement(elements, maps[s][k], key)

astray(d) == [d EXCEPT !.outcome = "copy astray"]
hung(d) == [d EXCEPT !.outcome = "copy hung"]
moved(d, k, x, y) ==
  IF {x, y} \subseteq 1 .. PoolSize[k] THEN [d EXCEPT !.desc[k][y] = d.desc[k][x]] ELSE astray(d)

Copied(d, k, src, sb, j, dst, db, jd) ==
  LET from == found(src, k, sb)
      to   == found(dst, k, db)
  IN  CASE maps[src][k] = NoRun -> astray(d)
        [] maps[src][k] # NoRun /\ from = -1 -> hung(d)
        [] from = 0 -> d
        [] from > 0 /\ maps[dst][k] = NoRun -> astray(d)
        [] from > 0 /\ maps[dst][k] # NoRun /\ to = -1 -> hung(d)
        [] from > 0 /\ to = 0 -> astray(d)
        [] from > 0 /\ to > 0 -> moved(d, k, from + j, to + jd)

CopiedOver(src, sb, j, dst, db, jd) ==
  Each(LAMBDA d, i : IF d.outcome # "" THEN d ELSE Copied(d, KindOrder[i], src, sb, j, dst, db, jd),
    [desc |-> descriptors, outcome |-> ""], Len(KindOrder))

copy(src, i, j, dst, id, jd) ==
  LET sb == layout[src][i]
      db == layout[dst][id]
      r  == CopiedOver(src, sb.binding, j, dst, db.binding, jd)
  IN  /\ sb.kind = db.kind
      /\ descriptors' = r.desc /\ stopped' = r.outcome
      /\ strayed' = (strayed \/ \E k \in Kinds : runs[src][k] = NoRun \/ runs[dst][k] = NoRun)
      /\ written' = [written EXCEPT ![dst][id][jd] = written[src][i][j]]
      /\ UNCHANGED <<lists, elements, layout, runs, maps, freed>>

(* vkCreateDescriptorPool; memory is not cleared. *)
Init ==
  /\ lists = [k \in Kinds \cup {"map"} |->
                [i \in 1 .. IF k = "map" THEN MapSize ELSE PoolSize[k] |-> i]]
  /\ elements = [i \in 1 .. MapSize |-> [key |-> 0, data |-> 0]]
  /\ descriptors = [k \in Kinds |-> [i \in 1 .. PoolSize[k] |-> Undefined]]
  /\ layout = [s \in Sets |-> <<>>]
  /\ runs = [s \in Sets |-> [k \in Kinds |-> NoRun]]
  /\ maps = [s \in Sets |-> [k \in Kinds |-> NoRun]]
  /\ written = [s \in Sets |-> <<>>]
  /\ freed = FALSE /\ strayed = FALSE /\ stopped = ""

Places(s) == {p \in (1 .. Len(layout[s])) \X (0 .. 15) : p[2] < layout[s][p[1]].count}

(* Runs are followed up to the first copy that strays. *)
Next ==
  /\ stopped = "" /\ ~ strayed
  /\ \/ \E s \in Sets, b \in Layouts : vkAllocateDescriptorSets(s, b)
     \/ \E s \in Sets : vkFreeDescriptorSets(s)
     \/ \E s \in Sets : \E p \in Places(s), v \in Values : write(s, p[1], p[2], v)
     \/ \E src, dst \in Sets : \E p \in Places(src), q \in Places(dst) :
          copy(src, p[1], p[2], dst, q[1], q[2])

Spec == Init /\ [][Next]_vars

-----------------------------------------------------------------------------
(* What a set holds at a binding, found by its number as a draw finds it,  *)
(* is what was last written or copied there: however sets were allocated,  *)
(* freed and allocated again, no two share a descriptor and no map leads   *)
(* astray (descriptorSet.c:120-237, 280-381, map.c:11-31).  Not claimed    *)
(* after a copy that used the map of a kind its set has no descriptors of. *)
SetsHoldWhatWasWritten ==
  stopped = "" /\ ~ strayed =>
    \A s \in Sets : \A p \in Places(s) :
      LET b == layout[s][p[1]]
          at == getMapElement(elements, maps[s][b.kind], b.binding)
      IN  /\ at > 0
          /\ \/ written[s][p[1]][p[2]] = Undefined
             \/ descriptors[b.kind][at + p[2]] = written[s][p[1]][p[2]]

(* The set has descriptors of the kind, and their map an empty element. *)
Spare(s, k) ==
  /\ runs[s][k] # NoRun
  /\ \E i \in 0 .. maps[s][k].len - 1 : elements[maps[s][k].first + i].data = 0

(* Entering a binding ends (map.c:28) but for a layout that has a binding  *)
(* without descriptors; each run that is asked for is had                  *)
(* (descriptorSet.c:176-189) until a set is freed; and a copy ends, on     *)
(* memory of its own, if both sets have descriptors of every kind and      *)
(* their maps have an element to spare (descriptorSet.c:352-377, map.c:16).*)
StopsOnlyWhereKnown ==
  /\ stopped = "no element" => \E s \in Sets : \E i \in DOMAIN layout[s] : layout[s][i].count = 0
  /\ stopped = "no run" => freed
  /\ stopped = "copy hung" => \E s \in Sets, k \in Kinds : layout[s] # <<>> /\ ~ Spare(s, k)
  /\ stopped = "copy astray" => strayed
===============================================================================
