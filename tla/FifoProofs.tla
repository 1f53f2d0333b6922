------------------------------ MODULE FifoProofs ------------------------------
(***************************************************************************)
(* The list of fifo.c accounts for every cell and payload, and is the      *)
(* queue BoundedQueue describes, for queues of every size.                 *)
(*                                                                         *)
(* DoublyLinked does not say that the cells form one list: cells that      *)
(* point to each other in a ring beside it would satisfy it.  The          *)
(* inductive invariant says it by naming the cells in their order; adding  *)
(* appends to that sequence and removing drops its head.                   *)
(***************************************************************************)
EXTENDS Fifo, FiniteSetTheorems, SequenceTheorems, TLAPS

(* The list consists of the cells of q, from the oldest on, and each has a *)
(* payload of its own.                                                     *)
Payload(q) == [i \in 1 .. Len(q) |-> elem[q[i]].data]
Threaded(q) ==
  /\ q \in Bijection(1 .. Len(q), eHeld)
  /\ Payload(q) \in Bijection(1 .. Len(q), dHeld)
  /\ q = << >> => first = Null /\ last = Null
  /\ q # << >> => last = q[1] /\ first = q[Len(q)]
  /\ \A i \in 1 .. Len(q) : /\ elem[q[i]].next = IF i = 1 THEN Null ELSE q[i - 1]
                            /\ elem[q[i]].prev = IF i = Len(q) THEN Null ELSE q[i + 1]

ListTypes ==
  /\ first \in Ptr /\ last \in Ptr
  /\ elem \in [Cells -> [next : Ptr, prev : Ptr, data : Ptr]]
  /\ data \in [Cells -> Data \cup {Undefined}]
  /\ eHeld \subseteq Cells /\ dHeld \subseteq Cells
  /\ fault \in BOOLEAN

(* Each pool is in the state its allocator keeps it in.                    *)
dataPool == INSTANCE PoolAllocatorProofs
  WITH N <- MaxElems, nextFree <- dFree, next <- dNext, held <- dHeld, ret <- dRet
elemPool == INSTANCE PoolAllocatorProofs
  WITH N <- MaxElems, nextFree <- eFree, next <- eNext, held <- eHeld, ret <- eRet

ListOK == ListTypes /\ \E q \in Seq(Cells) : Threaded(q)
IInv == ListOK /\ dataPool!IInv /\ elemPool!IInv

-----------------------------------------------------------------------------
(* What PoolAllocatorProofs says of the two pools.                         *)

(* A call takes a free block, or returns 0 when there is none.             *)
Taken(held, heldNow, p) ==
  \/ p = Null /\ held = Cells /\ heldNow = held
  \/ p \in Cells \ held /\ heldNow = held \cup {p}

LEMMA DataTaken ==
  ASSUME dataPool!IInv, dataBuf!poolAllocate
  PROVE  dataPool!IInv' /\ Taken(dHeld, dHeld', dRet')
<1>1. dataPool!poolAllocate
  BY DEF dataBuf!poolAllocate, dataPool!poolAllocate, dataBuf!Null, dataPool!Null
<1>2. dataPool!IInv' /\ dataPool!NullOnlyWhenFull
  BY <1>1, MaxElemsAssumption, dataPool!AllocateIInv, dataPool!EmptyChain
<1>3. dFree = Null \/ dFree \in Cells \ dHeld
  BY DEF dataPool!IInv, dataPool!FreeListExact, dataPool!ChainStaysFree, dataPool!Free, dataPool!Blocks,
         dataPool!Null, Null, Cells
<1> QED
  BY <1>1, <1>2, <1>3 DEF dataPool!poolAllocate, dataPool!NullOnlyWhenFull, dataPool!Blocks, dataPool!Null,
                          Null, Cells, Taken

LEMMA ElemTaken ==
  ASSUME elemPool!IInv, fifoElemBuf!poolAllocate
  PROVE  elemPool!IInv' /\ Taken(eHeld, eHeld', eRet')
<1>1. elemPool!poolAllocate
  BY DEF fifoElemBuf!poolAllocate, elemPool!poolAllocate, fifoElemBuf!Null, elemPool!Null
<1>2. elemPool!IInv' /\ elemPool!NullOnlyWhenFull
  BY <1>1, MaxElemsAssumption, elemPool!AllocateIInv, elemPool!EmptyChain
<1>3. eFree = Null \/ eFree \in Cells \ eHeld
  BY DEF elemPool!IInv, elemPool!FreeListExact, elemPool!ChainStaysFree, elemPool!Free, elemPool!Blocks,
         elemPool!Null, Null, Cells
<1> QED
  BY <1>1, <1>2, <1>3 DEF elemPool!poolAllocate, elemPool!NullOnlyWhenFull, elemPool!Blocks, elemPool!Null,
                          Null, Cells, Taken

(* A block given back.                                                     *)
LEMMA DataFreed ==
  ASSUME dataPool!IInv, NEW p \in dHeld, dataBuf!poolFree(p)
  PROVE  dataPool!IInv' /\ dHeld' = dHeld \ {p}
<1>1. dataPool!poolFree(p)
  BY DEF dataBuf!poolFree, dataPool!poolFree
<1> QED
  BY <1>1, MaxElemsAssumption, dataPool!FreeIInv DEF dataPool!poolFree

LEMMA ElemFreed ==
  ASSUME elemPool!IInv, NEW p \in eHeld, fifoElemBuf!poolFree(p)
  PROVE  elemPool!IInv' /\ eHeld' = eHeld \ {p}
<1>1. elemPool!poolFree(p)
  BY DEF fifoElemBuf!poolFree, elemPool!poolFree
<1> QED
  BY <1>1, MaxElemsAssumption, elemPool!FreeIInv DEF elemPool!poolFree

(* Calls that use neither pool.                                            *)
LEMMA PoolsAlone ==
  ASSUME dataPool!IInv, elemPool!IInv, UNCHANGED <<dataVars, elemVars>>
  PROVE  dataPool!IInv' /\ elemPool!IInv'
<1>1. UNCHANGED dataPool!vars /\ UNCHANGED elemPool!vars
  BY DEF dataVars, elemVars, dataPool!vars, elemPool!vars
<1> QED
  BY <1>1, MaxElemsAssumption, dataPool!NextIInv, elemPool!NextIInv

(* The pools are made.                                                     *)
LEMMA PoolsStart ==
  ASSUME dataBuf!createPoolAllocator, fifoElemBuf!createPoolAllocator
  PROVE  dataPool!IInv /\ elemPool!IInv
<1>1. dataPool!Init /\ elemPool!Init
  BY DEF dataBuf!createPoolAllocator, fifoElemBuf!createPoolAllocator, dataPool!Init, elemPool!Init,
         dataPool!createPoolAllocator, elemPool!createPoolAllocator, dataBuf!initialChain,
         fifoElemBuf!initialChain, dataPool!initialChain, elemPool!initialChain, dataBuf!Blocks,
         fifoElemBuf!Blocks, dataPool!Blocks, elemPool!Blocks, dataBuf!Null, fifoElemBuf!Null,
         dataPool!Null, elemPool!Null
<1> QED
  BY <1>1, MaxElemsAssumption, dataPool!InitIInv, elemPool!InitIInv

(* What the pools' invariants say in the words of Fifo.                    *)
LEMMA PoolsAsNamed ==
  ASSUME dataPool!IInv, elemPool!IInv
  PROVE  dataBuf!TypeOK /\ fifoElemBuf!TypeOK /\ PoolsExact
<1>1. dataBuf!TypeOK /\ dataBuf!FreeListExact
  BY DEF dataPool!IInv, dataPool!TypeOK, dataPool!FreeListExact, dataPool!ChainStaysFree,
         dataPool!ChainIsSimple, dataPool!ChainReachesAll, dataPool!Free, dataPool!Blocks, dataPool!Null,
         dataBuf!TypeOK, dataBuf!FreeListExact, dataBuf!ChainStaysFree, dataBuf!ChainIsSimple,
         dataBuf!ChainReachesAll, dataBuf!Free, dataBuf!Blocks, dataBuf!Null
<1>2. fifoElemBuf!TypeOK /\ fifoElemBuf!FreeListExact
  BY DEF elemPool!IInv, elemPool!TypeOK, elemPool!FreeListExact, elemPool!ChainStaysFree,
         elemPool!ChainIsSimple, elemPool!ChainReachesAll, elemPool!Free, elemPool!Blocks, elemPool!Null,
         fifoElemBuf!TypeOK, fifoElemBuf!FreeListExact, fifoElemBuf!ChainStaysFree,
         fifoElemBuf!ChainIsSimple, fifoElemBuf!ChainReachesAll, fifoElemBuf!Free, fifoElemBuf!Blocks,
         fifoElemBuf!Null
<1> QED
  BY <1>1, <1>2 DEF PoolsExact

-----------------------------------------------------------------------------
(* The list.                                                               *)

LEMMA NullIsNoCell == Null \notin Cells
BY DEF Null, Cells

(* A numbering of S with one more element at the end or without the first. *)
LEMMA OneMore ==
  ASSUME NEW n \in Nat, NEW S, NEW f \in Bijection(1 .. n, S), NEW y, y \notin S,
         NEW g, g = [i \in 1 .. n + 1 |-> g[i]], \A i \in 1 .. n : g[i] = f[i], g[n + 1] = y
  PROVE  g \in Bijection(1 .. n + 1, S \cup {y})
<1>1. \A i \in 1 .. n + 1 : i \in 1 .. n \/ i = n + 1
  OBVIOUS
<1>2. \A i \in 1 .. n : g[i] \in S /\ g[i] # y
  BY DEF Bijection, Injection
<1>3. g \in [1 .. n + 1 -> S \cup {y}]
  BY <1>1, <1>2
<1>4. \A i, j \in 1 .. n + 1 : g[i] = g[j] => i = j
  BY <1>1, <1>2 DEF Bijection, Injection, IsInjective
<1>5. \A x \in S \cup {y} : \E i \in 1 .. n + 1 : g[i] = x
  <2>1. \A i \in 1 .. n : i \in 1 .. n + 1
    OBVIOUS
  <2>2. \A x \in S : \E i \in 1 .. n : f[i] = x
    BY DEF Bijection, Surjection
  <2>3. \A x \in S : \E i \in 1 .. n + 1 : g[i] = x
    BY <2>1, <2>2
  <2>4. n + 1 \in 1 .. n + 1 /\ g[n + 1] = y
    OBVIOUS
  <2> QED
    BY <2>3, <2>4
<1> QED
  BY <1>3, <1>4, <1>5 DEF Bijection, Injection, IsInjective, Surjection

LEMMA OneLess ==
  ASSUME NEW n \in Nat \ {0}, NEW S, NEW f \in Bijection(1 .. n, S),
         NEW g, g = [i \in 1 .. n - 1 |-> g[i]], \A i \in 1 .. n - 1 : g[i] = f[i + 1]
  PROVE  g \in Bijection(1 .. n - 1, S \ {f[1]})
<1>1. \A i \in 1 .. n - 1 : i + 1 \in 1 .. n /\ i + 1 # 1
  OBVIOUS
<1>2. \A i \in 1 .. n : i # 1 => i - 1 \in 1 .. n - 1 /\ (i - 1) + 1 = i
  OBVIOUS
<1>3. 1 \in 1 .. n /\ \A i, j \in 1 .. n - 1 : i + 1 = j + 1 => i = j
  OBVIOUS
<1>4. /\ f \in [1 .. n -> S]
      /\ \A i, j \in 1 .. n : f[i] = f[j] => i = j
      /\ \A x \in S : \E i \in 1 .. n : f[i] = x
  BY DEF Bijection, Injection, IsInjective, Surjection
<1>5. \A i \in 1 .. n - 1 : g[i] \in S \ {f[1]}
  BY <1>1, <1>3, <1>4
<1>6. \A i, j \in 1 .. n - 1 : g[i] = g[j] => i = j
  BY <1>1, <1>3, <1>4
<1>7. \A x \in S \ {f[1]} : \E i \in 1 .. n - 1 : g[i] = x
  BY <1>2, <1>4
<1> QED
  BY <1>5, <1>6, <1>7 DEF Bijection, Injection, IsInjective, Surjection

(* The list has as many cells and as many payloads as q is long.           *)
LEMMA ListSize ==
  ASSUME NEW q \in Seq(Cells), Threaded(q)
  PROVE  /\ IsFiniteSet(eHeld) /\ Cardinality(eHeld) = Len(q)
         /\ IsFiniteSet(dHeld) /\ Cardinality(dHeld) = Len(q)
<1>1. PICK n \in Nat : n = Len(q)
  OBVIOUS
<1>2. ExistsBijection(1 .. n, eHeld) /\ ExistsBijection(1 .. n, dHeld)
  BY <1>1 DEF ExistsBijection, Threaded
<1>3. Cardinality(eHeld) = n /\ Cardinality(dHeld) = n
  BY <1>2, FS_CountingElements
<1>4. IsFiniteSet(eHeld) /\ IsFiniteSet(dHeld)
  BY <1>2, FS_NatBijection
<1> QED
  BY <1>1, <1>3, <1>4

(* The pools run out together.                                             *)
LEMMA BothFull ==
  ASSUME NEW q \in Seq(Cells), Threaded(q), eHeld \subseteq Cells, dHeld \subseteq Cells
  PROVE  eHeld = Cells <=> dHeld = Cells
<1>1. IsFiniteSet(Cells) /\ Cardinality(Cells) = MaxElems
  BY MaxElemsAssumption, FS_Interval DEF Cells
<1>2. Cardinality(eHeld) = Cardinality(dHeld)
  BY ListSize
<1>3. ASSUME NEW held, held \subseteq Cells, Cardinality(held) = Cardinality(Cells)
      PROVE  held = Cells
  BY <1>1, <1>3, FS_Subset
<1> QED
  BY <1>2, <1>3

(* fifoAdd appends the new cell.                                           *)
LEMMA AddAppends ==
  ASSUME ListTypes, NEW q \in Seq(Cells), Threaded(q),
         NEW e \in Cells \ eHeld, NEW p \in Cells \ dHeld,
         eHeld' = eHeld \cup {e}, dHeld' = dHeld \cup {p},
         linkFirst(e, p), first' = e
  PROVE  /\ Append(q, e) \in Seq(Cells)
         /\ Threaded(Append(q, e))'
         /\ Payload(Append(q, e))' = Append(Payload(q), p)
         /\ last' \in Ptr
         /\ elem' \in [Cells -> [next : Ptr, prev : Ptr, data : Ptr]]
<1>1. PICK n \in Nat : n = Len(q)
  OBVIOUS
<1>2. PICK r \in Seq(Cells) : r = Append(q, e)
  BY AppendProperties
<1>3. /\ Len(r) = n + 1 /\ r # << >>
      /\ r[n + 1] = e /\ \A i \in 1 .. n : r[i] = q[i] /\ r[i] \in Cells
      /\ \A i \in 1 .. n + 1 : i = n + 1 \/ i \in 1 .. n
  BY <1>1, <1>2, AppendProperties
<1>4. PICK c \in [next : Ptr, prev : Ptr, data : Ptr] : c = [next |-> first, prev |-> Null, data |-> p]
  BY DEF ListTypes, Ptr
<1>5. /\ q \in Bijection(1 .. n, eHeld)
      /\ Payload(q) \in Bijection(1 .. n, dHeld)
      /\ \A i \in 1 .. n : /\ elem[q[i]].next = IF i = 1 THEN Null ELSE q[i - 1]
                           /\ elem[q[i]].prev = IF i = n THEN Null ELSE q[i + 1]
  BY <1>1, Zenon DEF Threaded
<1>6. \A i \in 1 .. n : q[i] \in eHeld /\ q[i] # e
  BY <1>5 DEF Bijection, Injection
<1>7. elem \in [Cells -> [next : Ptr, prev : Ptr, data : Ptr]]
  BY DEF ListTypes
<1>8. r \in Bijection(1 .. n + 1, eHeld')
  <2>1. r = [i \in 1 .. n + 1 |-> r[i]]
    BY <1>3, LenProperties
  <2>2. r \in Bijection(1 .. n + 1, eHeld \cup {e})
    <3>1. q \in Bijection(1 .. n, eHeld) /\ (\A i \in 1 .. n : r[i] = q[i]) /\ r[n + 1] = e /\ e \notin eHeld
      BY <1>3, <1>5
    <3> QED
      BY <2>1, <3>1, OneMore
  <2> QED
    BY <2>2
<1>9. ASSUME \A i \in 1 .. n : elem'[q[i]].data = elem[q[i]].data, elem'[e].data = p
      PROVE  Payload(r)' \in Bijection(1 .. n + 1, dHeld') /\ Payload(r)' = Append(Payload(q), p)
  <2>1. PICK f : f = Payload(q)
    OBVIOUS
  <2>2. PICK g : g = [i \in 1 .. n + 1 |-> elem'[r[i]].data]
    OBVIOUS
  <2>3. g[n + 1] = p /\ \A i \in 1 .. n : g[i] = f[i]
    BY <1>9, <2>1, <2>2, <1>1, <1>3 DEF Payload
  <2>4. g = [i \in 1 .. n + 1 |-> g[i]]
    BY <2>2
  <2>5. f \in Bijection(1 .. n, dHeld)
    BY <2>1, <1>5
  <2>6. g \in Bijection(1 .. n + 1, dHeld \cup {p})
    BY <2>3, <2>4, <2>5, OneMore
  <2>7. Payload(r)' = g
    BY <2>2, <1>3 DEF Payload
  <2>8. g = Append(f, p)
    <3>1. f \in [1 .. n -> dHeld] /\ \A i \in 1 .. n + 1 : g[i] = IF i \in 1 .. n THEN f[i] ELSE p
      BY <2>3, <2>5, <1>3 DEF Bijection, Injection
    <3>2. f \in Seq(dHeld \cup {p}) /\ Len(f) = n
      BY <3>1
    <3>3. PICK h : h = Append(f, p)
      OBVIOUS
    <3>4. /\ h \in Seq(dHeld \cup {p}) /\ Len(h) = n + 1
          /\ h[n + 1] = p /\ \A i \in 1 .. n : h[i] = f[i]
      BY <3>2, <3>3, AppendProperties
    <3>5. g \in [1 .. n + 1 -> dHeld \cup {p}]
      BY <2>6 DEF Bijection, Injection
    <3>6. g \in Seq(dHeld \cup {p}) /\ Len(g) = n + 1
      BY <3>5
    <3>7. \A i \in 1 .. n + 1 : g[i] = h[i]
      BY <3>1, <3>4, <1>3
    <3>8. g = h
      BY <3>4, <3>6, <3>7, SeqEqual
    <3> QED
      BY <3>3, <3>8
  <2> QED
    BY <2>1, <2>6, <2>7, <2>8
<1>10. CASE n = 0
  <2>1. q = << >> /\ first = Null
    <3>1. q = << >>
      BY <1>1, <1>10, EmptySeq
    <3> QED
      BY <3>1 DEF Threaded
  <2>2. elem' = [elem EXCEPT ![e] = c] /\ last' = e
    BY <2>1, <1>4 DEF linkFirst
  <2>3. elem'[e] = c /\ c.data = p /\ c.next = Null /\ c.prev = Null
    BY <2>1, <2>2, <1>4, <1>7
  <2>4. r[1] = e /\ Len(r) = 1
    BY <1>3, <1>10
  <2>5. Payload(r)' \in Bijection(1 .. n + 1, dHeld') /\ Payload(r)' = Append(Payload(q), p)
    BY <2>3, <1>9, <1>10
  <2>6. \A i \in 1 .. 1 : i = 1
    OBVIOUS
  <2>7. Threaded(r)'
    BY <2>2, <2>3, <2>4, <2>5, <2>6, <1>3, <1>8, <1>10 DEF Threaded
  <2> QED
    BY <2>2, <2>5, <2>7, <1>2, <1>4, <1>7 DEF Ptr
<1>11. CASE n # 0
  <2>1. q # << >> /\ first = q[n] /\ last = q[1] /\ n \in 1 .. n /\ 1 \in 1 .. n
    BY <1>1, <1>11 DEF Threaded
  <2>2. first \in Cells /\ first # Null /\ first # e
    BY <2>1, <1>3, <1>6, NullIsNoCell
  <2>3. PICK b \in [next : Ptr, prev : Ptr, data : Ptr] : b = [elem[first] EXCEPT !.prev = e]
    BY <2>2, <1>7 DEF Ptr
  <2>4. elem' = [elem EXCEPT ![e] = c, ![first] = b] /\ last' = last
    BY <2>2, <2>3, <1>4, <1>7 DEF linkFirst
  <2>5. elem' \in [Cells -> [next : Ptr, prev : Ptr, data : Ptr]]
    BY <2>4, <1>7
  <2>6. /\ elem'[e] = c
        /\ elem'[first] = b
        /\ \A k \in Cells : k # e /\ k # first => elem'[k] = elem[k]
    BY <2>2, <2>4, <1>7
  <2>7. /\ b.next = elem[first].next /\ b.prev = e /\ b.data = elem[first].data
        /\ c.next = first /\ c.prev = Null /\ c.data = p
    BY <2>2, <2>3, <1>4, <1>7
  <2>8. \A i \in 1 .. n : i # n => q[i] # q[n]
    BY <2>1, <1>5 DEF Bijection, Injection, IsInjective
  <2>9. \A i \in 1 .. n : /\ elem'[r[i]].next = elem[q[i]].next
                          /\ elem'[r[i]].data = elem[q[i]].data
                          /\ elem'[r[i]].prev = IF i = n THEN e ELSE q[i + 1]
    <3>1. TAKE i \in 1 .. n
    <3>2. CASE i = n
      BY <3>2, <2>1, <2>6, <2>7, <1>3
    <3>3. CASE i # n
      BY <3>3, <2>1, <2>6, <2>8, <1>3, <1>5, <1>6, SMTT(30)
    <3> QED
      BY <3>2, <3>3
  <2>10. elem'[r[n + 1]].next = q[n] /\ elem'[r[n + 1]].prev = Null /\ elem'[r[n + 1]].data = p
    BY <2>1, <2>6, <2>7, <1>3
  <2>11. \A i \in 1 .. n + 1 : /\ elem'[r[i]].next = IF i = 1 THEN Null ELSE r[i - 1]
                               /\ elem'[r[i]].prev = IF i = n + 1 THEN Null ELSE r[i + 1]
    <3>1. TAKE i \in 1 .. n + 1
    <3>2. CASE i = n + 1
      BY <3>2, <2>1, <2>10, <1>3, <1>11
    <3>3. CASE i \in 1 .. n
      <4>1. r[i - 1] = q[i - 1] \/ i = 1
        BY <3>3, <1>3
      <4>2. r[i + 1] = IF i = n THEN e ELSE q[i + 1]
        BY <3>3, <1>3
      <4> QED
        BY <3>3, <4>1, <4>2, <2>9, <1>5
    <3> QED
      BY <3>2, <3>3, <1>3
  <2>12. Payload(r)' \in Bijection(1 .. n + 1, dHeld') /\ Payload(r)' = Append(Payload(q), p)
    BY <2>9, <2>10, <1>3, <1>9
  <2>13. last' = r[1] /\ first' = r[n + 1]
    BY <2>1, <2>4, <1>3
  <2>14. Threaded(r)'
    BY <2>11, <2>12, <2>13, <1>3, <1>8 DEF Threaded
  <2> QED
    BY <2>4, <2>5, <2>12, <2>14, <1>2 DEF ListTypes
<1> QED
  BY <1>10, <1>11

(* fifoRemove drops the head.                                              *)
LEMMA RemoveDropsHead ==
  ASSUME ListTypes, NEW q \in Seq(Cells), Threaded(q), last # Null,
         eHeld' = eHeld \ {last}, dHeld' = dHeld \ {elem[last].data},
         unlinkLast
  PROVE  /\ q # << >> /\ last = q[1] /\ last \in eHeld /\ elem[last].data \in dHeld
         /\ Tail(q) \in Seq(Cells)
         /\ Threaded(Tail(q))'
         /\ Payload(Tail(q))' = Tail(Payload(q))
         /\ first' \in Ptr /\ last' \in Ptr
         /\ elem' \in [Cells -> [next : Ptr, prev : Ptr, data : Ptr]]
<1>0. q # << >> /\ last = q[1]
  BY DEF Threaded
<1>1. PICK n \in Nat : n = Len(q) /\ n # 0
  BY <1>0, EmptySeq, Zenon
<1>2. PICK r \in Seq(Cells) : r = Tail(q)
  BY <1>0, HeadTailProperties
<1>3. /\ Len(r) = n - 1
      /\ \A i \in 1 .. n - 1 : r[i] = q[i + 1] /\ i + 1 \in 1 .. n
      /\ \A i \in 1 .. n : q[i] \in Cells
      /\ 1 \in 1 .. n
  BY <1>0, <1>1, <1>2, HeadTailProperties
<1>4. /\ q \in Bijection(1 .. n, eHeld)
      /\ Payload(q) \in Bijection(1 .. n, dHeld)
      /\ \A i \in 1 .. n : /\ elem[q[i]].next = IF i = 1 THEN Null ELSE q[i - 1]
                           /\ elem[q[i]].prev = IF i = n THEN Null ELSE q[i + 1]
      /\ first = q[n]
  BY <1>0, <1>1, Zenon DEF Threaded
<1>5. elem \in [Cells -> [next : Ptr, prev : Ptr, data : Ptr]]
  BY DEF ListTypes
<1>6. PICK f : f = Payload(q) /\ f[1] = elem[last].data
  <2>1. 1 .. Len(q) = 1 .. n /\ 1 \in 1 .. n
    BY <1>1, <1>3
  <2>2. Payload(q)[1] = elem[q[1]].data
    BY <2>1 DEF Payload
  <2> QED
    BY <2>2, <1>0
<1>7. last \in eHeld /\ elem[last].data \in dHeld
  BY <1>0, <1>3, <1>4, <1>6 DEF Bijection, Injection
<1>8. elem[last].prev = IF n = 1 THEN Null ELSE q[2]
  BY <1>0, <1>3, <1>4
<1>9. r \in Bijection(1 .. n - 1, eHeld')
  <2>1. r = [i \in 1 .. n - 1 |-> r[i]]
    BY <1>3, LenProperties
  <2>2. r \in Bijection(1 .. n - 1, eHeld \ {q[1]})
    BY <2>1, <1>1, <1>3, <1>4, OneLess
  <2> QED
    BY <2>2, <1>0
<1>10. ASSUME \A i \in 1 .. n - 1 : elem'[r[i]].data = elem[q[i + 1]].data
       PROVE  Payload(r)' \in Bijection(1 .. n - 1, dHeld') /\ Payload(r)' = Tail(Payload(q))
  <2>1. PICK g : g = [i \in 1 .. n - 1 |-> elem'[r[i]].data]
    OBVIOUS
  <2>2. \A i \in 1 .. n - 1 : g[i] = f[i + 1]
    BY <2>1, <1>1, <1>3, <1>6, <1>10 DEF Payload
  <2>3. g = [i \in 1 .. n - 1 |-> g[i]]
    BY <2>1
  <2>4. g \in Bijection(1 .. n - 1, dHeld \ {f[1]})
    BY <2>2, <2>3, <1>1, <1>4, <1>6, OneLess
  <2>5. Payload(r)' = g
    BY <2>1, <1>3 DEF Payload
  <2>6. g = Tail(f)
    <3>1. f \in [1 .. n -> dHeld]
      BY <1>4, <1>6 DEF Bijection, Injection
    <3>2. f \in Seq(dHeld) /\ Len(f) = n
      BY <3>1
    <3>3. f # << >>
      BY <3>2, <1>1
    <3>4. PICK h : h = Tail(f)
      OBVIOUS
    <3>5. h \in Seq(dHeld) /\ Len(h) = n - 1 /\ \A i \in 1 .. n - 1 : h[i] = f[i + 1]
      BY <3>2, <3>3, <3>4, HeadTailProperties
    <3>6. g \in [1 .. n - 1 -> dHeld]
      BY <2>4 DEF Bijection, Injection
    <3>7. g \in Seq(dHeld) /\ Len(g) = n - 1
      BY <3>6, <1>1
    <3>8. g = h
      BY <3>5, <3>7, <2>2, SeqEqual
    <3> QED
      BY <3>4, <3>8
  <2> QED
    BY <2>4, <2>5, <2>6, <1>6
<1>11. CASE n = 1
  <2>1. last' = Null /\ first' = Null /\ elem' = elem
    BY <1>8, <1>11 DEF unlinkLast
  <2>2. r = << >> /\ 1 .. Len(r) = {} /\ 1 .. n - 1 = {}
    BY <1>3, <1>11
  <2>3. Payload(r)' \in Bijection(1 .. n - 1, dHeld') /\ Payload(r)' = Tail(Payload(q))
    BY <2>2, <1>10
  <2>4. Threaded(r)'
    BY <2>1, <2>2, <2>3, <1>3, <1>9 DEF Threaded
  <2> QED
    BY <2>1, <2>3, <2>4, <1>0, <1>2, <1>5, <1>7 DEF Ptr
<1>12. CASE n # 1
  <2>1. q[2] \in Cells /\ q[2] # Null /\ 2 \in 1 .. n
    BY <1>1, <1>3, <1>12, NullIsNoCell
  <2>2. PICK b \in [next : Ptr, prev : Ptr, data : Ptr] : b = [elem[q[2]] EXCEPT !.next = Null]
    BY <2>1, <1>5 DEF Ptr
  <2>3. elem' = [elem EXCEPT ![q[2]] = b] /\ last' = q[2] /\ first' = first
    BY <2>1, <2>2, <1>5, <1>8, <1>12 DEF unlinkLast
  <2>4. elem' \in [Cells -> [next : Ptr, prev : Ptr, data : Ptr]]
    BY <2>3, <1>5
  <2>5. elem'[q[2]] = b /\ \A k \in Cells : k # q[2] => elem'[k] = elem[k]
    BY <2>1, <2>3, <1>5
  <2>6. b.next = Null /\ b.prev = elem[q[2]].prev /\ b.data = elem[q[2]].data
    BY <2>1, <2>2, <1>5
  <2>7. \A i \in 1 .. n - 1 : /\ elem'[r[i]].data = elem[q[i + 1]].data
                              /\ elem'[r[i]].prev = elem[q[i + 1]].prev
                              /\ elem'[r[i]].next = IF i = 1 THEN Null ELSE elem[q[i + 1]].next
    <3>1. TAKE i \in 1 .. n - 1
    <3>2. CASE i = 1
      BY <3>2, <2>1, <2>5, <2>6, <1>3
    <3>3. CASE i # 1
      <4>1. i + 1 \in 1 .. n /\ i + 1 # 2 /\ r[i] = q[i + 1]
        BY <3>3, <1>3
      <4>2. q[i + 1] \in Cells /\ q[i + 1] # q[2]
        BY <4>1, <2>1, <1>3, <1>4 DEF Bijection, Injection, IsInjective
      <4> QED
        BY <3>3, <4>1, <4>2, <2>5
    <3> QED
      BY <3>2, <3>3
  <2>8. \A i \in 1 .. n - 1 : /\ elem'[r[i]].next = IF i = 1 THEN Null ELSE r[i - 1]
                              /\ elem'[r[i]].prev = IF i = n - 1 THEN Null ELSE r[i + 1]
    <3>1. TAKE i \in 1 .. n - 1
    <3>2. elem'[r[i]].next = IF i = 1 THEN Null ELSE r[i - 1]
      <4>1. i # 1 => r[i - 1] = q[(i + 1) - 1]
        BY <1>3
      <4>2. i + 1 \in 1 .. n /\ i + 1 # 1
        BY <1>3
      <4> QED
        BY <4>1, <4>2, <2>7, <1>4
    <3>3. elem'[r[i]].prev = IF i = n - 1 THEN Null ELSE r[i + 1]
      BY <2>7, <1>3, <1>4
    <3> QED
      BY <3>2, <3>3
  <2>9. Payload(r)' \in Bijection(1 .. n - 1, dHeld') /\ Payload(r)' = Tail(Payload(q))
    BY <2>7, <1>10
  <2>10. r # << >> /\ last' = r[1] /\ first' = r[n - 1]
    <3>1. 1 \in 1 .. n - 1 /\ n - 1 \in 1 .. n - 1 /\ (n - 1) + 1 = n /\ 1 + 1 = 2
      BY <1>1, <1>12
    <3>2. r[1] = q[2] /\ r[n - 1] = q[n]
      BY <3>1, <1>3
    <3>3. Len(r) # 0
      BY <3>1, <1>3
    <3> QED
      BY <3>2, <3>3, <2>3, <1>4
  <2>11. Threaded(r)'
    BY <2>8, <2>9, <2>10, <1>3, <1>9 DEF Threaded
  <2> QED
    BY <2>3, <2>4, <2>9, <2>11, <1>0, <1>2, <1>7 DEF ListTypes, Ptr
<1> QED
  BY <1>11, <1>12
-----------------------------------------------------------------------------
(* The steps.                                                              *)

LEMMA InitIInv == Init => IInv
<1> SUFFICES ASSUME Init PROVE IInv
  OBVIOUS
<1>1. dataPool!IInv /\ elemPool!IInv
  BY PoolsStart DEF Init, createFifo
<1>2. dHeld = {} /\ eHeld = {}
  BY DEF Init, createFifo, dataBuf!createPoolAllocator, fifoElemBuf!createPoolAllocator
<1>3. [next |-> Null, prev |-> Null, data |-> Null] \in [next : Ptr, prev : Ptr, data : Ptr]
  BY DEF Ptr
<1>4. ListTypes
  BY <1>2, <1>3 DEF Init, createFifo, ListTypes, Ptr
<1>5. PICK q \in Seq(Cells) : q = << >>
  BY EmptySeq
<1>6. Len(q) = 0 /\ 1 .. Len(q) = {}
  BY <1>5
<1>7. q = [i \in {} |-> q[i]] /\ Payload(q) = [i \in {} |-> elem[q[i]].data]
  BY <1>5, <1>6, LenProperties DEF Payload
<1>8. q \in Bijection({}, {}) /\ Payload(q) \in Bijection({}, {})
  BY <1>7 DEF Bijection, Injection, Surjection, IsInjective
<1>9. Threaded(q)
  BY <1>2, <1>5, <1>6, <1>8 DEF Threaded, Init, createFifo
<1> QED
  BY <1>1, <1>4, <1>9 DEF IInv, ListOK

(* fifoAdd links a fresh cell to a fresh payload, or the process dies with *)
(* both pools empty and the list as it was.                                *)
LEMMA AddCases ==
  ASSUME IInv, NEW q \in Seq(Cells), Threaded(q), NEW d, fifoAdd(d)
  PROVE  /\ dataPool!IInv' /\ elemPool!IInv'
         /\ \/ UNCHANGED <<listVars, eHeld, dHeld, result>> /\ fault' = TRUE
            \/ /\ eRet' \in Cells \ eHeld /\ eHeld' = eHeld \cup {eRet'}
               /\ dRet' \in Cells \ dHeld /\ dHeld' = dHeld \cup {dRet'}
               /\ linkFirst(eRet', dRet') /\ first' = eRet'
               /\ data' = [data EXCEPT ![dRet'] = d]
               /\ result' = Returned("fifoAdd", 1, Undefined)
               /\ fault' = fault
<1>1. dataPool!IInv' /\ Taken(dHeld, dHeld', dRet')
  BY DataTaken DEF fifoAdd, IInv
<1>2. elemPool!IInv' /\ Taken(eHeld, eHeld', eRet')
  BY ElemTaken DEF fifoAdd, IInv
<1>3. eHeld = Cells <=> dHeld = Cells
  BY BothFull DEF IInv, ListOK, ListTypes
<1>4. CASE dRet' = Null \/ eRet' = Null
  <2>1. eHeld' = eHeld /\ dHeld' = dHeld
    BY <1>1, <1>2, <1>3, <1>4, NullIsNoCell DEF Taken
  <2>2. UNCHANGED <<listVars, result>> /\ fault' = TRUE
    BY <1>4 DEF fifoAdd
  <2> QED
    BY <1>1, <1>2, <2>1, <2>2
<1>5. CASE ~ (dRet' = Null \/ eRet' = Null)
  <2>1. /\ eRet' \in Cells \ eHeld /\ eHeld' = eHeld \cup {eRet'}
        /\ dRet' \in Cells \ dHeld /\ dHeld' = dHeld \cup {dRet'}
    BY <1>1, <1>2, <1>5 DEF Taken
  <2>2. /\ data' = [data EXCEPT ![dRet'] = d]
        /\ linkFirst(eRet', dRet') /\ first' = eRet'
        /\ result' = Returned("fifoAdd", 1, Undefined)
        /\ fault' = fault
    BY <1>5 DEF fifoAdd
  <2> QED
    BY <1>1, <1>2, <2>1, <2>2
<1> QED
  BY <1>4, <1>5

LEMMA AddIInv ==
  ASSUME IInv, NEW d \in Data, fifoAdd(d)
  PROVE  IInv'
<1>1. PICK q \in Seq(Cells) : Threaded(q)
  BY DEF IInv, ListOK
<1>2. dataPool!IInv' /\ elemPool!IInv'
  BY <1>1, AddCases
<1>3. CASE UNCHANGED <<listVars, eHeld, dHeld, result>> /\ fault' = TRUE
  <2>1. ListTypes' /\ Threaded(q)'
    BY <1>1, <1>3 DEF IInv, ListOK, ListTypes, Threaded, Payload, listVars
  <2> QED
    BY <1>2, <2>1 DEF IInv, ListOK
<1>4. CASE /\ eRet' \in Cells \ eHeld /\ eHeld' = eHeld \cup {eRet'}
           /\ dRet' \in Cells \ dHeld /\ dHeld' = dHeld \cup {dRet'}
           /\ linkFirst(eRet', dRet') /\ first' = eRet'
           /\ data' = [data EXCEPT ![dRet'] = d]
           /\ fault' = fault
  <2>1. PICK e \in Cells \ eHeld : e = eRet'
    BY <1>4
  <2>2. PICK p \in Cells \ dHeld : p = dRet'
    BY <1>4
  <2>3. /\ Append(q, e) \in Seq(Cells)
        /\ Threaded(Append(q, e))'
        /\ last' \in Ptr
        /\ elem' \in [Cells -> [next : Ptr, prev : Ptr, data : Ptr]]
    BY <1>1, <1>4, <2>1, <2>2, AddAppends DEF IInv, ListOK
  <2>4. ListTypes'
    BY <1>4, <2>1, <2>2, <2>3 DEF IInv, ListOK, ListTypes, Ptr
  <2>5. PICK r \in Seq(Cells) : Threaded(r)'
    BY <2>3
  <2> QED
    BY <1>2, <2>4, <2>5 DEF IInv, ListOK
<1> QED
  BY <1>1, <1>3, <1>4, AddCases

(* What fifoRemove does to a list that is not empty.                       *)
LEMMA RemoveCase ==
  ASSUME IInv, NEW q \in Seq(Cells), Threaded(q), fifoRemove, last # Null
  PROVE  /\ IInv'
         /\ q # << >> /\ last = q[1] /\ elem[last].data \in dHeld
         /\ dHeld' = dHeld \ {elem[last].data}
         /\ Tail(q) \in Seq(Cells) /\ Threaded(Tail(q))'
         /\ Payload(Tail(q))' = Tail(Payload(q))
<1>1. /\ unlinkLast
      /\ dataBuf!poolFree(elem[last].data)
      /\ fifoElemBuf!poolFree(last)
      /\ UNCHANGED <<data, fault>>
  BY DEF fifoRemove
<1>2. elem[last].data \in dHeld /\ last \in eHeld
  BY <1>1 DEF dataBuf!poolFree, fifoElemBuf!poolFree
<1>3. dataPool!IInv' /\ dHeld' = dHeld \ {elem[last].data}
  BY <1>1, <1>2, DataFreed DEF IInv
<1>4. elemPool!IInv' /\ eHeld' = eHeld \ {last}
  BY <1>1, <1>2, ElemFreed DEF IInv
<1>5. /\ q # << >> /\ last = q[1]
      /\ Tail(q) \in Seq(Cells)
      /\ Threaded(Tail(q))'
      /\ Payload(Tail(q))' = Tail(Payload(q))
      /\ first' \in Ptr /\ last' \in Ptr
      /\ elem' \in [Cells -> [next : Ptr, prev : Ptr, data : Ptr]]
  BY <1>1, <1>3, <1>4, RemoveDropsHead DEF IInv, ListOK
<1>6. ListTypes'
  BY <1>1, <1>3, <1>4, <1>5 DEF IInv, ListOK, ListTypes
<1>7. PICK r \in Seq(Cells) : Threaded(r)'
  BY <1>5
<1>8. IInv'
  BY <1>3, <1>4, <1>6, <1>7 DEF IInv, ListOK
<1> QED
  BY <1>2, <1>3, <1>5, <1>8

(* A call that leaves the list alone; the payloads may change.             *)
LEMMA AloneIInv ==
  ASSUME IInv, UNCHANGED <<first, last, elem, dataVars, elemVars, fault>>,
         data' \in [Cells -> Data \cup {Undefined}]
  PROVE  IInv'
<1>1. dataPool!IInv' /\ elemPool!IInv'
  BY PoolsAlone DEF IInv
<1>2. PICK q \in Seq(Cells) : Threaded(q)
  BY DEF IInv, ListOK
<1>3. ListTypes' /\ Threaded(q)'
  BY <1>2 DEF IInv, ListOK, ListTypes, Threaded, Payload, dataVars, elemVars
<1> QED
  BY <1>1, <1>3 DEF IInv, ListOK

LEMMA NextIInv == IInv /\ [Next]_vars => IInv'
<1> SUFFICES ASSUME IInv, [Next]_vars PROVE IInv'
  OBVIOUS
<1>1. data \in [Cells -> Data \cup {Undefined}]
  BY DEF IInv, ListOK, ListTypes
<1>2. ASSUME NEW d \in Data, fifoAdd(d) PROVE IInv'
  BY <1>2, AddIInv
<1>3. CASE fifoRemove
  <2>1. CASE last # Null
    <3>1. PICK q \in Seq(Cells) : Threaded(q)
      BY DEF IInv, ListOK
    <3> QED
      BY <1>3, <2>1, <3>1, RemoveCase
  <2>2. CASE last = Null
    BY <1>1, <1>3, <2>2, AloneIInv DEF fifoRemove, listVars
  <2> QED
    BY <2>1, <2>2
<1>4. CASE fifoGetLast \/ fifoGetFirst
  BY <1>1, <1>4, AloneIInv DEF fifoGetLast, fifoGetFirst, listVars
<1>5. ASSUME NEW p \in dHeld, writeThrough(p) PROVE IInv'
  BY <1>1, <1>5, AloneIInv DEF writeThrough
<1>6. CASE UNCHANGED vars
  BY <1>1, <1>6, AloneIInv DEF vars, listVars
<1> QED
  BY <1>2, <1>3, <1>4, <1>5, <1>6 DEF Next

(* What the sequence of cells says of each cell.                           *)
LEMMA ThreadedIsLinked ==
  ASSUME NEW q \in Seq(Cells), Threaded(q)
  PROVE  DoublyLinked
<1>1. PICK n \in Nat : n = Len(q)
  OBVIOUS
<1>2. /\ q \in [1 .. n -> eHeld]
      /\ \A e \in eHeld : \E i \in 1 .. n : q[i] = e
      /\ \A i \in 1 .. n : q[i] \in Cells
  <2>1. \A i \in 1 .. n : q[i] \in Cells
    BY <1>1
  <2>2. q \in Bijection(1 .. n, eHeld)
    BY <1>1 DEF Threaded
  <2> QED
    BY <2>1, <2>2 DEF Bijection, Injection, Surjection
<1>3. PICK f : f = Payload(q)
  OBVIOUS
<1>4. f \in [1 .. n -> dHeld] /\ \A i \in 1 .. n : f[i] = elem[q[i]].data
  BY <1>1, <1>3 DEF Threaded, Payload, Bijection, Injection
<1>5. /\ \A i, j \in 1 .. n : f[i] = f[j] => i = j
      /\ \A p \in dHeld : \E i \in 1 .. n : f[i] = p
  BY <1>1, <1>3 DEF Threaded, Bijection, Injection, Surjection, IsInjective
<1>6. \A i \in 1 .. n : /\ elem[q[i]].next = IF i = 1 THEN Null ELSE q[i - 1]
                        /\ elem[q[i]].prev = IF i = n THEN Null ELSE q[i + 1]
  BY <1>1 DEF Threaded
<1>7. q = << >> => n = 0 /\ eHeld = {} /\ first = Null /\ last = Null
  BY <1>1, <1>2 DEF Threaded
<1>8. q # << >> => /\ 1 \in 1 .. n /\ n \in 1 .. n
                   /\ last = q[1] /\ first = q[n]
  <2> SUFFICES ASSUME q # << >> PROVE 1 \in 1 .. n /\ n \in 1 .. n /\ last = q[1] /\ first = q[n]
    OBVIOUS
  <2>1. n \in Nat \ {0}
    BY <1>1, EmptySeq
  <2> QED
    BY <1>1, <2>1 DEF Threaded
<1>9. /\ first = Null <=> last = Null
      /\ first = Null <=> eHeld = {}
      /\ first # Null => /\ {first, last} \subseteq eHeld
                         /\ elem[first].prev = Null
                         /\ elem[last].next = Null
  BY <1>2, <1>6, <1>7, <1>8, NullIsNoCell
<1>10. ASSUME NEW e \in eHeld
       PROVE  /\ e # last => elem[e].next \in eHeld /\ elem[elem[e].next].prev = e
              /\ e # first => elem[e].prev \in eHeld /\ elem[elem[e].prev].next = e
  <2>1. PICK i \in 1 .. n : q[i] = e
    BY <1>2
  <2>2. q # << >>
    BY <1>7, <2>1
  <2>3. ASSUME i # 1 PROVE elem[e].next \in eHeld /\ elem[elem[e].next].prev = e
    <3>1. i - 1 \in 1 .. n /\ i - 1 # n /\ (i - 1) + 1 = i
      BY <2>3
    <3> QED
      BY <2>1, <2>3, <3>1, <1>2, <1>6
  <2>4. ASSUME i # n PROVE elem[e].prev \in eHeld /\ elem[elem[e].prev].next = e
    <3>1. i + 1 \in 1 .. n /\ i + 1 # 1 /\ (i + 1) - 1 = i
      BY <2>4
    <3>2. elem[e].prev = q[i + 1]
      BY <2>1, <2>4, <1>6
    <3>3. elem[q[i + 1]].next = q[i] /\ q[i + 1] \in eHeld
      BY <3>1, <1>2, <1>6
    <3> QED
      BY <2>1, <3>2, <3>3
  <2>5. e # last => i # 1
    BY <2>1, <2>2, <1>8
  <2>6. e # first => i # n
    BY <2>1, <2>2, <1>8
  <2> QED
    BY <2>3, <2>4, <2>5, <2>6
<1>11. dHeld = {elem[e].data : e \in eHeld}
  BY <1>2, <1>4, <1>5
<1>12. \A e, f2 \in eHeld : elem[e].data = elem[f2].data => e = f2
  BY <1>2, <1>4, <1>5
<1> QED
  BY <1>9, <1>10, <1>11, <1>12 DEF DoublyLinked

(* Type correctness, the double threading of exactly the cells that are    *)
(* taken, and exact pools, after any sequence of calls of fifo.c.          *)
THEOREM NothingIsLost == Spec => []CellsAccountedFor
<1>1. IInv => CellsAccountedFor
  <2> SUFFICES ASSUME IInv PROVE CellsAccountedFor
    OBVIOUS
  <2>1. dataBuf!TypeOK /\ fifoElemBuf!TypeOK /\ PoolsExact
    BY PoolsAsNamed DEF IInv
  <2>2. TypeOK
    BY <2>1 DEF TypeOK, IInv, ListOK, ListTypes
  <2>3. DoublyLinked
    BY ThreadedIsLinked DEF IInv, ListOK
  <2> QED
    BY <2>1, <2>2, <2>3 DEF CellsAccountedFor
<1> QED
  BY <1>1, InitIInv, NextIInv, PTL DEF Spec
-----------------------------------------------------------------------------
(* The list as a queue.                                                    *)

(* Sequences that start alike and go on alike are the same: otherwise they *)
(* would differ first at some place.                                       *)
LEMMA OneWayAlong ==
  ASSUME NEW n \in Nat,
         NEW f, NEW g,
         1 \in 1 .. n => f[1] = g[1],
         \A i \in 1 .. n : i # 1 /\ f[i - 1] = g[i - 1] => f[i] = g[i]
  PROVE  \A i \in 1 .. n : f[i] = g[i]
<1> DEFINE differ == {i \in 1 .. n : f[i] # g[i]}
<1>1. CASE differ = {}
  BY <1>1
<1>2. CASE differ # {}
  <2>1. differ \subseteq Nat
    OBVIOUS
  <2>2. \E i \in differ : \A j \in differ : ~ (<<j, i>> \in OpToRel(<, Nat))
    BY <2>1, <1>2, NatLessThanWellFounded, WFMin, Zenon
  <2>3. PICK i \in differ : \A j \in differ : ~ (j < i)
    BY <2>1, <2>2 DEF OpToRel
  <2>4. CASE i = 1
    BY <2>3, <2>4
  <2>5. CASE i # 1
    <3>1. i - 1 \in 1 .. n /\ i - 1 < i
      BY <2>3, <2>5
    <3>2. f[i - 1] = g[i - 1]
      BY <2>3, <3>1
    <3> QED
      BY <2>3, <2>5, <3>2
  <2> QED
    BY <2>4, <2>5
<1> QED
  BY <1>1, <1>2

(* Following prev from the last cell visits the cells in their order.      *)
LEMMA PayloadsInOrder ==
  ASSUME NEW q \in Seq(Cells), Threaded(q)
  PROVE  payloads = Payload(q)
<1>1. PICK n \in Nat : n = Len(q)
  OBVIOUS
<1>2. Cardinality(eHeld) = n
  BY <1>1, ListSize
<1>3. q = [i \in 1 .. n |-> q[i]]
  BY <1>1, LenProperties
<1>4. \A i \in 1 .. n : q[i] = IF i = 1 THEN last ELSE elem[q[i - 1]].prev
  <2>1. TAKE i \in 1 .. n
  <2>2. n # 0
    OBVIOUS
  <2>3. q # << >>
    BY <1>1, <2>2, EmptySeq
  <2>4. last = q[1]
    BY <2>3 DEF Threaded
  <2>5. i # 1 => i - 1 \in 1 .. n /\ i - 1 # n /\ (i - 1) + 1 = i
    OBVIOUS
  <2>6. i # 1 => elem[q[i - 1]].prev = q[i]
    BY <1>1, <2>5 DEF Threaded
  <2> QED
    BY <2>4, <2>6
<1>5. q = [i \in 1 .. n |-> IF i = 1 THEN last ELSE elem[q[i - 1]].prev]
  BY <1>3, <1>4
<1>6. \E f : f = [i \in 1 .. n |-> IF i = 1 THEN last ELSE elem[f[i - 1]].prev]
  BY <1>5
<1>7. order = [i \in 1 .. n |-> IF i = 1 THEN last ELSE elem[order[i - 1]].prev]
  BY <1>2, <1>6 DEF order
<1>8. order = q
  <2>1. PICK f : f = order
    OBVIOUS
  <2>2. f = [i \in 1 .. n |-> IF i = 1 THEN last ELSE elem[f[i - 1]].prev]
    BY <2>1, <1>7, Zenon
  <2>3. f = [i \in 1 .. n |-> f[i]]
    BY <2>2
  <2>4. 1 \in 1 .. n => f[1] = q[1]
    BY <2>2, <1>4
  <2>5. \A i \in 1 .. n : i # 1 /\ f[i - 1] = q[i - 1] => f[i] = q[i]
    BY <2>2, <1>4
  <2>6. \A i \in 1 .. n : f[i] = q[i]
    BY <2>4, <2>5, OneWayAlong
  <2> QED
    BY <2>1, <2>3, <2>6, <1>3
<1> QED
  BY <1>1, <1>2, <1>8 DEF payloads, Payload

(* The same in the next state.                                             *)
InOrder == \A q \in Seq(Cells) : Threaded(q) => payloads = Payload(q)

LEMMA InOrderNext == InOrder /\ InOrder'
<1>1. InOrder
  BY PayloadsInOrder DEF InOrder
<1> QED
  BY <1>1, PTL

(* What a client reads off the list.                                       *)
LEMMA QueueOfList ==
  ASSUME NEW q \in Seq(Cells), Threaded(q)
  PROVE  /\ payloads \in Seq(dHeld)
         /\ Len(payloads) = Len(q)
         /\ Range(payloads) = dHeld
         /\ \A i \in 1 .. Len(q) : payloads[i] = elem[q[i]].data
<1>1. PICK n \in Nat : n = Len(q)
  OBVIOUS
<1>2. PICK f : f = payloads
  OBVIOUS
<1>3. f \in Bijection(1 .. n, dHeld) /\ f = Payload(q)
  BY <1>1, <1>2, PayloadsInOrder DEF Threaded
<1>4. /\ f \in [1 .. n -> dHeld]
      /\ \A p \in dHeld : \E i \in 1 .. n : f[i] = p
  BY <1>3 DEF Bijection, Injection, Surjection
<1>5. f \in Seq(dHeld) /\ Len(f) = n
  BY <1>4
<1>6. Range(f) = dHeld
  BY <1>4 DEF Range
<1>7. \A i \in 1 .. n : f[i] = elem[q[i]].data
  BY <1>1, <1>3 DEF Payload
<1> QED
  BY <1>1, <1>2, <1>5, <1>6, <1>7
-----------------------------------------------------------------------------
(* Every call does what BoundedQueue says of it.                           *)

(* The memory BoundedQueue sees.                                           *)
shown == [c \in Cells |-> IF c \in dHeld THEN data[c] ELSE Undefined]

LEMMA InitQueue == ASSUME Init PROVE Queue!Init
<1>1. IInv
  BY InitIInv
<1>2. PICK q \in Seq(Cells) : Threaded(q)
  BY <1>1 DEF IInv, ListOK
<1>3. eHeld = {} /\ last = Null
  BY DEF Init, createFifo, fifoElemBuf!createPoolAllocator
<1>4. q = << >>
  BY <1>2, <1>3, EmptySeq, NullIsNoCell DEF Threaded
<1>5. payloads = << >>
  BY <1>2, <1>4, QueueOfList, EmptySeq
<1>6. shown = [s \in Cells |-> Undefined]
  BY DEF shown, Init, createFifo
<1> QED
  BY <1>5, <1>6 DEF Queue!Init, Queue!Returned, Init, createFifo, Returned, shown

LEMMA AddQueue ==
  ASSUME IInv, NEW d \in Data, fifoAdd(d)
  PROVE  Queue!Add(d) \/ UNCHANGED Queue!qvars
<1>1. PICK q \in Seq(Cells) : Threaded(q)
  BY DEF IInv, ListOK
<1>2. payloads = Payload(q) /\ Range(payloads) = dHeld
  BY <1>1, PayloadsInOrder, QueueOfList
<1>3. CASE UNCHANGED <<listVars, eHeld, dHeld, result>>
  <2>1. payloads' = payloads
    <3>1. Threaded(q)' /\ Payload(q)' = Payload(q)
      BY <1>1, <1>3 DEF Threaded, Payload, listVars
    <3> QED
      BY <3>1, <1>2, InOrderNext DEF InOrder
  <2> QED
    BY <2>1, <1>3 DEF Queue!qvars, listVars
<1>4. CASE /\ eRet' \in Cells \ eHeld /\ eHeld' = eHeld \cup {eRet'}
           /\ dRet' \in Cells \ dHeld /\ dHeld' = dHeld \cup {dRet'}
           /\ linkFirst(eRet', dRet') /\ first' = eRet'
           /\ data' = [data EXCEPT ![dRet'] = d]
           /\ result' = Returned("fifoAdd", 1, Undefined)
  <2>1. PICK e \in Cells \ eHeld : e = eRet'
    BY <1>4
  <2>2. PICK p \in Cells \ dHeld : p = dRet'
    BY <1>4
  <2>3. /\ Append(q, e) \in Seq(Cells)
        /\ Threaded(Append(q, e))'
        /\ Payload(Append(q, e))' = Append(Payload(q), p)
    BY <1>1, <1>4, <2>1, <2>2, AddAppends DEF IInv, ListOK
  <2>4. payloads' = Append(payloads, p)
    BY <2>3, <1>2, InOrderNext DEF InOrder
  <2>5. shown' = [shown EXCEPT ![p] = d]
    BY <1>4, <2>2 DEF shown, IInv, ListOK, ListTypes
  <2>6. p \in Cells \ Queue!Range(payloads)
    BY <1>2 DEF Range, Queue!Range
  <2>7. Queue!Enqueue(d)
    BY <2>4, <2>5, <2>6 DEF Queue!Enqueue, shown
  <2> QED
    BY <1>4, <2>7 DEF Queue!Add, Queue!Returned, Returned
<1> QED
  BY <1>1, <1>3, <1>4, AddCases

LEMMA RemoveQueue ==
  ASSUME IInv, fifoRemove
  PROVE  Queue!RemoveOldest
<1>1. PICK q \in Seq(Cells) : Threaded(q)
  BY DEF IInv, ListOK
<1>2. /\ payloads = Payload(q) /\ payloads \in Seq(dHeld) /\ Len(payloads) = Len(q)
      /\ \A i \in 1 .. Len(q) : payloads[i] = elem[q[i]].data
  BY <1>1, PayloadsInOrder, QueueOfList
<1>3. CASE last # Null
  <2>1. /\ q # << >> /\ last = q[1] /\ elem[last].data \in dHeld
        /\ dHeld' = dHeld \ {elem[last].data}
        /\ Tail(q) \in Seq(Cells) /\ Threaded(Tail(q))'
        /\ Payload(Tail(q))' = Tail(Payload(q))
    BY <1>1, <1>3, RemoveCase
  <2>2. data' = data /\ result' = Returned("fifoRemove", 1, data[elem[last].data])
    BY <1>3 DEF fifoRemove
  <2>3. Len(q) \in Nat /\ Len(q) # 0
    BY <2>1, EmptySeq
  <2>4. payloads # << >> /\ Head(payloads) = elem[last].data
    BY <2>1, <2>3, <1>2, EmptySeq
  <2>5. payloads' = Tail(payloads)
    BY <2>1, <1>2, InOrderNext DEF InOrder
  <2>6. PICK p \in dHeld : p = elem[last].data
    BY <2>1
  <2>7. shown' = [shown EXCEPT ![p] = Undefined]
    BY <2>1, <2>2, <2>6 DEF shown
  <2>8. shown[p] = data[p]
    BY <2>6 DEF shown, IInv, ListOK, ListTypes
  <2> QED
    BY <2>2, <2>4, <2>5, <2>6, <2>7, <2>8
    DEF Queue!RemoveOldest, Queue!Dequeue, Queue!Returned, Returned, shown
<1>4. CASE last = Null
  <2>1. q = << >>
    <3>1. ASSUME q # << >> PROVE FALSE
      <4>1. Len(q) \in Nat /\ Len(q) # 0
        BY <3>1, EmptySeq
      <4>2. q[1] \in Cells
        BY <4>1
      <4> QED
        BY <4>2, <3>1, <1>1, <1>4, NullIsNoCell DEF Threaded
    <3> QED
      BY <3>1
  <2>2. payloads = << >>
    BY <2>1, <1>2, EmptySeq
  <2>3. /\ result' = Returned("fifoRemove", 0, Undefined)
        /\ UNCHANGED <<listVars, dataVars, elemVars>>
    BY <1>4 DEF fifoRemove
  <2>4. Threaded(q)' /\ Payload(q)' = Payload(q)
    BY <1>1, <2>3 DEF Threaded, Payload, listVars, dataVars, elemVars
  <2>5. payloads' = payloads
    BY <2>4, <1>2, InOrderNext DEF InOrder
  <2> QED
    BY <2>2, <2>3, <2>5 DEF Queue!RemoveOldest, Queue!Returned, Returned, listVars, dataVars
<1> QED
  BY <1>3, <1>4

(* The calls that leave the list alone.                                    *)
LEMMA PayloadsStay ==
  ASSUME IInv, UNCHANGED <<first, last, elem, eHeld, dHeld>>
  PROVE  payloads' = payloads
<1>1. PICK q \in Seq(Cells) : Threaded(q)
  BY DEF IInv, ListOK
<1>2. Threaded(q)' /\ Payload(q)' = Payload(q)
  BY <1>1 DEF Threaded, Payload
<1> QED
  BY <1>1, <1>2, PayloadsInOrder, InOrderNext DEF InOrder

LEMMA GetQueue ==
  ASSUME IInv
  PROVE  (fifoGetLast => Queue!GetLast) /\ (fifoGetFirst => Queue!GetFirst)
<1>1. PICK q \in Seq(Cells) : Threaded(q)
  BY DEF IInv, ListOK
<1>2. PICK n \in Nat : n = Len(q)
  OBVIOUS
<1>3. /\ payloads \in Seq(dHeld) /\ Len(payloads) = n
      /\ \A i \in 1 .. n : payloads[i] = elem[q[i]].data
  BY <1>1, <1>2, QueueOfList
<1>4. CASE n = 0
  <2>1. q = << >> /\ payloads = << >>
    BY <1>2, <1>3, <1>4, EmptySeq
  <2>2. last = Null /\ first = Null
    BY <1>1, <2>1 DEF Threaded
  <2>3. Queue!Oldest = Null /\ Queue!Newest = Null
    BY <2>1 DEF Queue!Oldest, Queue!Newest
  <2> QED
    BY <2>2, <2>3, PayloadsStay DEF fifoGetLast, fifoGetFirst, Queue!GetLast, Queue!GetFirst,
       Queue!Returned, Returned, listVars, dataVars, elemVars
<1>5. CASE n # 0
  <2>1. 1 \in 1 .. n /\ n \in 1 .. n /\ q # << >> /\ payloads # << >>
    BY <1>2, <1>3, <1>5
  <2>2. last = q[1] /\ first = q[n] /\ q[1] \in Cells /\ q[n] \in Cells
    BY <1>1, <1>2, <2>1 DEF Threaded
  <2>3. last # Null /\ first # Null
    BY <2>2, NullIsNoCell
  <2>4. Queue!Oldest = elem[last].data /\ Queue!Newest = elem[first].data
    BY <2>1, <2>2, <1>3 DEF Queue!Oldest, Queue!Newest, Queue!Last
  <2> QED
    BY <2>3, <2>4, PayloadsStay DEF fifoGetLast, fifoGetFirst, Queue!GetLast, Queue!GetFirst,
       Queue!Returned, Returned, listVars, dataVars, elemVars
<1> QED
  BY <1>4, <1>5

LEMMA WriteQueue ==
  ASSUME IInv, NEW p \in dHeld, writeThrough(p)
  PROVE  \E s \in Cells, d \in Data : Queue!Write(s, d)
<1>1. PICK d \in Data : data' = [data EXCEPT ![p] = d]
  BY DEF writeThrough
<1>2. payloads' = payloads
  BY PayloadsStay DEF writeThrough, dataVars, elemVars
<1>3. p \in Cells /\ p \in Queue!Range(payloads)
  <2>1. PICK q \in Seq(Cells) : Threaded(q)
    BY DEF IInv, ListOK
  <2>2. Range(payloads) = dHeld
    BY <2>1, QueueOfList
  <2> QED
    BY <2>2 DEF Range, Queue!Range, IInv, ListOK, ListTypes
<1>4. shown' = [shown EXCEPT ![p] = d]
  BY <1>1, <1>3 DEF shown, writeThrough, dataVars, IInv, ListOK, ListTypes
<1>5. Queue!Write(p, d)
  BY <1>2, <1>3, <1>4 DEF Queue!Write, writeThrough, shown
<1> QED
  BY <1>3, <1>5

LEMMA NextQueue == IInv /\ [Next]_vars => [Queue!Next]_(Queue!qvars)
<1> SUFFICES ASSUME IInv, [Next]_vars PROVE [Queue!Next]_(Queue!qvars)
  OBVIOUS
<1>1. ASSUME NEW d \in Data, fifoAdd(d) PROVE [Queue!Next]_(Queue!qvars)
  BY <1>1, AddQueue DEF Queue!Next
<1>2. CASE fifoRemove
  BY <1>2, RemoveQueue DEF Queue!Next
<1>3. CASE fifoGetLast \/ fifoGetFirst
  BY <1>3, GetQueue DEF Queue!Next
<1>4. ASSUME NEW p \in dHeld, writeThrough(p) PROVE [Queue!Next]_(Queue!qvars)
  BY <1>4, WriteQueue DEF Queue!Next
<1>5. CASE UNCHANGED vars
  BY <1>5, PayloadsStay DEF vars, listVars, dataVars, elemVars, Queue!qvars
<1> QED
  BY <1>1, <1>2, <1>3, <1>4, <1>5 DEF Next

(* fifo.c implements the bounded queue that its clients use, at every size *)
(* and with every payload.                                                 *)
THEOREM IsTheQueue == Spec => ImplementsQueue
<1>1. Init => Queue!Init
  BY InitQueue
<1> QED
  BY <1>1, InitIInv, NextIInv, NextQueue, PTL DEF Spec, ImplementsQueue, Queue!Spec
===============================================================================
