---------------------------- MODULE BoundedQueue -----------------------------
(***************************************************************************)
(* What driver/fifo.h promises: a bounded first-in first-out queue whose   *)
(* elements stay at the address they were copied to until they are         *)
(* removed, so that a client may keep a pointer to a queued element and    *)
(* write through it (driver/modeset.c does).                               *)
(***************************************************************************)
EXTENDS Sequences, SequencesExt, FiniteSets

CONSTANTS
  Slots,                        \* addresses of the data blocks
  Data,                         \* what a client can store in one
  Undefined,                    \* the contents of a block outside the queue
  Null                          \* the null pointer

VARIABLES
  queue,                        \* slots of the queued elements, oldest first
  mem,                          \* contents of each slot
  result                        \* what the last call returned

qvars == <<queue, mem, result>>

Returned(call, value, data) == [call |-> call, returns |-> value, data |-> data]

Init ==
  /\ queue = << >>
  /\ mem = [s \in Slots |-> Undefined]
  /\ result = Returned("createFifo", 0, Undefined)

Oldest == IF queue = << >> THEN Null ELSE Head(queue)
Newest == IF queue = << >> THEN Null ELSE Last(queue)

(* The two calls that change the queue, without the value they return. *)
Enqueue(d) ==
  \E s \in Slots \ Range(queue) :
    /\ queue' = Append(queue, s)
    /\ mem' = [mem EXCEPT ![s] = d]

Dequeue ==
  /\ queue # << >>
  /\ queue' = Tail(queue)
  /\ mem' = [mem EXCEPT ![Head(queue)] = Undefined]

Add(d) ==
  \/ Enqueue(d) /\ result' = Returned("fifoAdd", 1, Undefined)
  \/ /\ Len(queue) = Cardinality(Slots)
     /\ result' = Returned("fifoAdd", 0, Undefined)
     /\ UNCHANGED <<queue, mem>>

RemoveOldest ==
  \/ Dequeue /\ result' = Returned("fifoRemove", 1, mem[Head(queue)])
  \/ /\ queue = << >>
     /\ result' = Returned("fifoRemove", 0, Undefined)
     /\ UNCHANGED <<queue, mem>>

GetLast ==
  /\ result' = Returned("fifoGetLast", Oldest, Undefined)
  /\ UNCHANGED <<queue, mem>>

GetFirst ==
  /\ result' = Returned("fifoGetFirst", Newest, Undefined)
  /\ UNCHANGED <<queue, mem>>

(* A client writes through a pointer to a queued element. *)
Write(s, d) ==
  /\ s \in Range(queue)
  /\ mem' = [mem EXCEPT ![s] = d]
  /\ UNCHANGED <<queue, result>>

Next ==
  \/ \E d \in Data : Add(d)
  \/ RemoveOldest \/ GetLast \/ GetFirst
  \/ \E s \in Slots, d \in Data : Write(s, d)

Spec == Init /\ [][Next]_qvars
=============================================================================
