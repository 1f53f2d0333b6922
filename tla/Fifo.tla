-------------------------------- MODULE Fifo ---------------------------------
(***************************************************************************)
(* driver/fifo.c: a doubly linked list of FifoElem cells, each pointing to *)
(* a copy of the client's data; cells and data come from two pools.  New   *)
(* elements go in at "first", the oldest one is "last".                    *)
(***************************************************************************)
EXTENDS Integers, Sequences, FiniteSets

CONSTANTS
  MaxElems,                     \* f->maxElems
  Data,                         \* payloads of dataSize bytes
  Undefined                     \* contents of memory nobody has written

ASSUME MaxElemsAssumption == MaxElems \in Nat \ {0}

VARIABLES
  first, last,                  \* f->first, f->last
  elem,                         \* the FifoElem cells of fifoElemMem
  data,                         \* the payload cells of dataMem
  dFree, dNext, dHeld, dRet,    \* the pool f->dataBuf
  eFree, eNext, eHeld, eRet,    \* the pool f->fifoElemBuf
  result,                       \* what the last call returned
  fault                         \* the process died on a null pointer

dataVars == <<dFree, dNext, dHeld, dRet>>
elemVars == <<eFree, eNext, eHeld, eRet>>
listVars == <<first, last, elem, data>>
vars == <<listVars, dataVars, elemVars, result, fault>>

dataBuf == INSTANCE PoolAllocator
  WITH N <- MaxElems, nextFree <- dFree, next <- dNext, held <- dHeld, ret <- dRet
fifoElemBuf == INSTANCE PoolAllocator
  WITH N <- MaxElems, nextFree <- eFree, next <- eNext, held <- eHeld, ret <- eRet

Null  == 0
Cells == 1 .. MaxElems
Ptr   == Cells \cup {Null}

Returned(call, value, d) == [call |-> call, returns |-> value, data |-> d]

createFifo ==
  /\ first = Null /\ last = Null
  /\ elem = [c \in Cells |-> [next |-> Null, prev |-> Null, data |-> Null]]
  /\ data = [c \in Cells |-> Undefined]
  /\ dataBuf!createPoolAllocator
  /\ fifoElemBuf!createPoolAllocator
  /\ result = Returned("createFifo", 0, Undefined)
  /\ fault = FALSE

(* Bug: the payload pointer is one block too far. *)
linkNextPayload(e, p) ==
  LET cell == [next |-> first, prev |-> Null, data |-> p + 1] IN
  IF first = Null
  THEN /\ elem' = [elem EXCEPT ![e] = cell]
       /\ last' = e
  ELSE /\ elem' = [elem EXCEPT ![e] = cell, ![first].prev = e]
       /\ UNCHANGED last

(* The list with the cell e in front, holding the payload at p. *)
linkFirst(e, p) ==
  LET cell == [next |-> first, prev |-> Null, data |-> p] IN
  IF first = Null
  THEN /\ elem' = [elem EXCEPT ![e] = cell]
       /\ last' = e
  ELSE /\ elem' = [elem EXCEPT ![e] = cell, ![first].prev = e]
       /\ UNCHANGED last

(* The payload is copied before the two pointers are checked, so a call    *)
(* that finds a pool empty copies to the null pointer and never returns 0. *)
fifoAdd(d) ==
  /\ dataBuf!poolAllocate
  /\ fifoElemBuf!poolAllocate
  /\ IF dRet' = Null \/ eRet' = Null
     THEN /\ fault' = TRUE
          /\ UNCHANGED <<listVars, result>>
     ELSE /\ data' = [data EXCEPT ![dRet'] = d]
          /\ linkFirst(eRet', dRet')
          /\ first' = eRet'
          /\ result' = Returned("fifoAdd", 1, Undefined)
          /\ UNCHANGED fault

(* Bug: the new last cell keeps its pointer to the removed one. *)
unlinkKeepsNext ==
  LET newLast == elem[last].prev IN
  /\ last' = newLast
  /\ first' = IF newLast # Null THEN first ELSE Null
  /\ UNCHANGED elem

(* The list without its last cell. *)
unlinkLast ==
  LET newLast == elem[last].prev IN
  /\ last' = newLast
  /\ IF newLast # Null
     THEN /\ elem' = [elem EXCEPT ![newLast].next = Null]
          /\ UNCHANGED first
     ELSE /\ first' = Null
          /\ UNCHANGED elem

(* Bug: the removed cell is cleared after it went back to its pool. *)
removeWritesFreed ==
  /\ last # Null
  /\ unlinkLast
  /\ dataBuf!poolFree(elem[last].data)
  /\ eNext' = [eNext EXCEPT ![last] = Null]
  /\ eFree' = last
  /\ eHeld' = eHeld \ {last}
  /\ result' = Returned("fifoRemove", 1, data[elem[last].data])
  /\ UNCHANGED <<eRet, data, fault>>

fifoRemove ==
  \/ /\ last # Null
     /\ unlinkLast
     /\ dataBuf!poolFree(elem[last].data)
     /\ fifoElemBuf!poolFree(last)
     /\ result' = Returned("fifoRemove", 1, data[elem[last].data])
     /\ UNCHANGED <<data, fault>>
  \/ /\ last = Null
     /\ result' = Returned("fifoRemove", 0, Undefined)
     /\ UNCHANGED <<listVars, dataVars, elemVars, fault>>

(* Bug: the newest element instead of the oldest. *)
getLastGetsFirst ==
  /\ result' = Returned("fifoGetLast", IF first # Null THEN elem[first].data ELSE Null,
                        Undefined)
  /\ UNCHANGED <<listVars, dataVars, elemVars, fault>>

fifoGetLast ==
  /\ result' = Returned("fifoGetLast", IF last # Null THEN elem[last].data ELSE Null,
                        Undefined)
  /\ UNCHANGED <<listVars, dataVars, elemVars, fault>>

fifoGetFirst ==
  /\ result' = Returned("fifoGetFirst", IF first # Null THEN elem[first].data ELSE Null,
                        Undefined)
  /\ UNCHANGED <<listVars, dataVars, elemVars, fault>>

(* A client writes through a pointer fifoGetLast or fifoGetFirst gave it.  *)
writeThrough(p) ==
  /\ p \in dHeld
  /\ \E d \in Data : data' = [data EXCEPT ![p] = d]
  /\ UNCHANGED <<first, last, elem, dataVars, elemVars, result, fault>>

Init == createFifo

Next ==
  /\ ~fault
  /\ \/ \E d \in Data : fifoAdd(d)
     \/ fifoRemove
     \/ fifoGetLast
     \/ fifoGetFirst
     \/ \E p \in dHeld : writeThrough(p)

Spec == Init /\ [][Next]_vars

-----------------------------------------------------------------------------
TypeOK ==
  /\ first \in Ptr /\ last \in Ptr
  /\ elem \in [Cells -> [next : Ptr, prev : Ptr, data : Ptr]]
  /\ data \in [Cells -> Data \cup {Undefined}]
  /\ dataBuf!TypeOK
  /\ fifoElemBuf!TypeOK
  /\ fault \in BOOLEAN

(* The list is threaded both ways through exactly the cells taken from the *)
(* pool, and each cell has a payload of its own: removing at one end and   *)
(* adding at the other keeps both directions in step (fifo.c:47-64,        *)
(* 100-116).                                                               *)
DoublyLinked ==
  /\ first = Null <=> last = Null
  /\ first = Null <=> eHeld = {}
  /\ first # Null => /\ {first, last} \subseteq eHeld
                     /\ elem[first].prev = Null
                     /\ elem[last].next = Null
  /\ \A e \in eHeld :
       /\ e # last => elem[e].next \in eHeld /\ elem[elem[e].next].prev = e
       /\ e # first => elem[e].prev \in eHeld /\ elem[elem[e].prev].next = e
  /\ dHeld = {elem[e].data : e \in eHeld}
  /\ \A e, f \in eHeld : elem[e].data = elem[f].data => e = f

(* Both pools are used within their contract, so their free lists stay     *)
(* exact whatever sequence of calls the queue gets (fifo.c:36-37, 115-116).*)
PoolsExact == dataBuf!FreeListExact /\ fifoElemBuf!FreeListExact

(* No sequence of calls leaves a cell or a payload behind, linked twice or *)
(* free and linked at once, and every variable keeps its type              *)
(* (fifo.c:31-122).                                                        *)
CellsAccountedFor == TypeOK /\ DoublyLinked /\ PoolsExact

(* The cells from the oldest on, following prev, and the queue a client    *)
(* sees: the addresses of their payloads.                                  *)
order[i \in 1 .. Cardinality(eHeld)] == IF i = 1 THEN last ELSE elem[order[i - 1]].prev
payloads == [i \in 1 .. Cardinality(eHeld) |-> elem[order[i]].data]

Queue == INSTANCE BoundedQueue
  WITH Slots <- Cells, queue <- payloads,
       mem <- [c \in Cells |-> IF c \in dHeld THEN data[c] ELSE Undefined]

(* The list is a first-in first-out queue with stable addresses: every     *)
(* call that returns does what BoundedQueue says (fifo.c:31-122).          *)
ImplementsQueue == Queue!Spec
=============================================================================
