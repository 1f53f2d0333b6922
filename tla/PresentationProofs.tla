-------------------------- MODULE PresentationProofs --------------------------
(***************************************************************************)
(* Presenting frames.  First the frame loop of an application with one     *)
(* surface, for any number of swapchain images the flip queue has room     *)
(* for: what the flip thread, the kernel's events and the acquiring thread *)
(* find in the queue.  Then surfaces that come and go, any number of them: *)
(* modeset.c counts them right, each keeps the display state it saved, and *)
(* the process dies only in the cases CrashesAreKnown names.               *)
(*                                                                         *)
(* The invariants of the frame loop come in layers, each established under *)
(* those before it: FrameTypes, EntriesOK (the queue), ReadersOK (who      *)
(* looks at the oldest entry), PointersOK (page flips and their events),   *)
(* ImagesOK (who has which image) and, for an application that holds one   *)
(* image at a time, ScreenOK (what is shown).                              *)
(***************************************************************************)
EXTENDS Presentation, FiniteSetTheorems, SequenceTheorems, TLAPS

(* One surface, and no more images than the flip queue holds: wsi.c offers *)
(* two at most (wsi.c:186), the queue holds two (modeset.c:17).            *)
OneSurface == (\E s \in Surfaces : Surfaces = {s}) /\ NumImages <= FlipFifoSize

AcquireLabels == {"look", "handle", "reread", "take"}
PresentLabels == {"save", "enqueue"}
Targets == [k : 0 .. NumImages - 1, frame : 0 .. MaxFrames, seqno : 0 .. MaxSeqno]
Flips == [i : Images, frame : Nat, needs : 0 .. MaxSeqno, data : Slots \cup {Null}]

FrameTypes ==
  /\ refCount = 1 /\ sem = 1
  /\ queue \in Seq(Slots)
  /\ vsync \in [Slots -> VsyncData \cup {None}]
  /\ savedState \in [Surfaces -> 0 .. SavedSlots - 1] /\ DOMAIN saved = 0 .. SavedSlots - 1
  /\ DOMAIN ft = {"pc", "seqno", "run", "lastFinished"}
  /\ ft.seqno \in 0 .. MaxSeqno /\ ft.lastFinished \in 0 .. MaxSeqno
  /\ pc \in [Surfaces -> {"idle"} \cup AcquireLabels \cup PresentLabels]
  /\ target \in [Surfaces -> Targets]
  /\ live = Surfaces /\ presentMode \in [Surfaces -> Modes]
  /\ emitted \in 1 .. MaxSeqno /\ finished \in 0 .. emitted
  /\ flip \in Flips \cup {None} /\ events \in Seq(Slots)
  /\ frames \in 0 .. MaxFrames
  /\ crash = "none"
  /\ backbufferIdx \in [Surfaces -> 0 .. NumImages - 1]
  /\ inFlight \in [Surfaces -> SUBSET (0 .. NumImages - 1)]
  /\ held \in [Surfaces -> SUBSET (0 .. NumImages - 1)]
  /\ maxHeld \in 1 .. MaxHeld

(* The queue holds each entry once.  Only the oldest was given to the      *)
(* kernel, and then what it needs is finished.                             *)
Entry(n) == vsync[queue[n]]
EntryOK(n) ==
  /\ Entry(n).s = Entry(n).i[1]
  /\ Entry(n).seqno = 0 => n = 1 /\ Entry(n).needs <= finished
  /\ Entry(n).seqno # 0 => Entry(n).flipPending = 0 /\ Entry(n).seqno = Entry(n).needs
EntriesOK ==
  /\ \A m, n \in 1 .. Len(queue) : queue[m] = queue[n] => m = n
  /\ \A p \in Slots : vsync[p] # None <=> \E n \in 1 .. Len(queue) : p = queue[n]
  /\ \A n \in 1 .. Len(queue) : EntryOK(n)

(* While the flip thread is busy with a seqno, the oldest entry still has  *)
(* it; while a thread acquires, there is an oldest entry, and when it      *)
(* takes it, the kernel is done with it.                                   *)
ReadersOK ==
  /\ ft.lastFinished <= finished
  /\ ft.pc \in {"wait", "flip"} => queue # << >> /\ Entry(1).seqno = ft.seqno /\ ft.seqno # 0
  /\ ft.pc = "flip" => ft.seqno <= finished
  /\ \A s \in Surfaces :
       /\ pc[s] \in AcquireLabels \ {"look"} => queue # << >>
       /\ pc[s] = "take" => Entry(1).seqno = 0 /\ Entry(1).flipPending = 0
       /\ pc[s] \in PresentLabels =>
            target[s].seqno \in 1 .. emitted /\ target[s].frame # 0

(* There is one pointer at most, in a page flip or in an event; it points  *)
(* to the oldest entry, which waits for it.                                *)
Pending == flip # None /\ flip.data # Null
PointersOK ==
  /\ flip # None => flip.needs <= finished
  /\ Len(events) <= 1 /\ (Pending => events = << >>)
  /\ Pending => queue # << >> /\ flip.data = queue[1] /\ Entry(1).flipPending = 1
  /\ events # << >> => queue # << >> /\ events[1] = queue[1] /\ Entry(1).flipPending = 1

(* An image is held by the application, about to be presented or in        *)
(* flight, and in the last case it is in one entry of the queue.           *)
ImagesOK ==
  /\ \A m, n \in 1 .. Len(queue) : Entry(m).i = Entry(n).i => m = n
  /\ \A s \in Surfaces :
       /\ inFlight[s] = {Entry(n).i[2] : n \in 1 .. Len(queue)}
       /\ held[s] \cap inFlight[s] = {}
       /\ pc[s] \in PresentLabels => target[s].k \notin held[s] \cup inFlight[s]

FrameInv == OneSurface /\ FrameTypes /\ EntriesOK /\ ReadersOK /\ PointersOK /\ ImagesOK

(* One image at a time in FIFO mode: while the application has it nothing  *)
(* is queued, and what is queued was acquired last.  What was queued last  *)
(* is on the screen once the kernel is done with it.                       *)
HasOne(s) == held[s] # {} \/ pc[s] \in PresentLabels
OneAtATime(s) == maxHeld = 1 /\ presentMode[s] = "FIFO"
ScreenFor(s) ==
  /\ Len(queue) <= 1 /\ (HasOne(s) => queue = << >>)
  /\ pc[s] \in AcquireLabels \cup PresentLabels => held[s] = {}
  /\ flip # None => Pending /\ flip.i = Entry(1).i
  /\ queue # << >> => Entry(1).i = <<s, backbufferIdx[s]>>
  /\ held[s] \subseteq {backbufferIdx[s]}
  /\ pc[s] \in PresentLabels => target[s].k = backbufferIdx[s]
  /\ queue # << >> /\ Entry(1).seqno = 0 =>
       (Entry(1).flipPending = 0 \/ events # << >> => scanout.i = Entry(1).i)
  /\ queue = << >> /\ ~ HasOne(s) => scanout = Console
  /\ held[s] # {} => scanout.i # <<s, backbufferIdx[s]>>
ScreenOK == \A s \in Surfaces : OneAtATime(s) => ScreenFor(s)

-----------------------------------------------------------------------------
(* Lemmas about the helpers. *)

(* A set of numbers that is not empty has a least one, and Min finds it.   *)
LEMMA MinIsLeast ==
  ASSUME NEW S \in SUBSET Nat, S # {}
  PROVE  Min(S) \in S /\ \A n \in S : Min(S) <= n
<1>1. \E n \in S : \A m \in S : ~ (<<m, n>> \in OpToRel(<, Nat))
  BY NatLessThanWellFounded, WFMin, Zenon
<1>2. \A m, n \in S : <<m, n>> \notin OpToRel(<, Nat) => n <= m
  BY DEF OpToRel
<1>3. \E n \in S : \A m \in S : n <= m
  BY <1>1, <1>2
<1> QED
  BY <1>3 DEF Min

(* A sequence of one element. *)
LEMMA OneElement ==
  ASSUME NEW S, NEW q \in Seq(S), q # << >>, Len(q) <= 1
  PROVE  Len(q) = 1 /\ q = <<q[1]>> /\ Tail(q) = << >>
<1>1. Len(q) \in Nat /\ Len(q) # 0
  BY EmptySeq, Zenon
<1>2. Len(q) = 1
  BY <1>1
<1>3. q = <<q[1]>>
  BY <1>2
<1>4. Tail(q) = << >>
  BY <1>3
<1> QED
  BY <1>2, <1>3, <1>4

(* Counting on from one image, every image has its turn. *)
LEMMA TurnOfEach ==
  ASSUME NEW idx \in 0 .. NumImages - 1, NEW k \in 0 .. NumImages - 1
  PROVE  \E c \in 1 .. NumImages : (idx + c) % NumImages = k
<1>1. NumImages \in Nat \ {0}
  BY FlipQueueAssumption
<1>2. CASE k > idx
  <2>1. k - idx \in 1 .. NumImages /\ (idx + (k - idx)) % NumImages = k
    BY <1>1, <1>2
  <2> QED
    BY <2>1
<1>3. CASE k <= idx
  <2>1. NumImages + k - idx \in 1 .. NumImages /\ idx + (NumImages + k - idx) = NumImages + k
    BY <1>1, <1>3
  <2>2. (NumImages + k) % NumImages = k
    BY <1>1
  <2> QED
    BY <2>1, <2>2
<1> QED
  BY <1>2, <1>3, <1>1

(* The image chosen is one that is not in flight, if there is one. *)
LEMMA NextIsFree ==
  ASSUME NEW idx \in 0 .. NumImages - 1, NEW flying \in SUBSET (0 .. NumImages - 1)
  PROVE  /\ nextIdx(idx, flying) \in 0 .. NumImages - 1
         /\ (\E k \in 0 .. NumImages - 1 : k \notin flying) => nextIdx(idx, flying) \notin flying
<1> DEFINE inTurn == {c \in 1 .. NumImages : (idx + c) % NumImages \notin flying}
<1>1. NumImages \in Nat \ {0}
  BY FlipQueueAssumption
<1>2. \A c \in 1 .. NumImages : (idx + c) % NumImages \in 0 .. NumImages - 1
  BY <1>1
<1>3. CASE inTurn = {}
  <2>1. \A k \in 0 .. NumImages - 1 : k \in flying
    BY <1>3, TurnOfEach
  <2> QED
    BY <1>3, <2>1 DEF nextIdx
<1>4. CASE inTurn # {}
  <2>1. inTurn \in SUBSET Nat
    BY <1>1
  <2>2. nextIdx(idx, flying) = (idx + Min(inTurn)) % NumImages
    BY <1>4 DEF nextIdx
  <2>3. Min(inTurn) \in inTurn
    <3> HIDE DEF inTurn
    <3> QED
      BY <1>4, <2>1, MinIsLeast
  <2> QED
    BY <1>2, <2>2, <2>3
<1> QED
  BY <1>3, <1>4

(* With nothing in flight it is the next one, which is another one. *)
LEMMA NextIsNext ==
  ASSUME NEW idx \in 0 .. NumImages - 1, NumImages > 1
  PROVE  nextIdx(idx, {}) # idx
<1> DEFINE inTurn == {c \in 1 .. NumImages : (idx + c) % NumImages \notin {}}
<1>1. NumImages \in Nat \ {0}
  BY FlipQueueAssumption
<1>2. inTurn = 1 .. NumImages
  OBVIOUS
<1>3. Min(1 .. NumImages) = 1
  <2>1. PICK S \in SUBSET Nat : S = 1 .. NumImages
    BY <1>1
  <2>2. S # {}
    BY <1>1, <2>1
  <2>3. Min(S) \in S /\ \A n \in S : Min(S) <= n
    BY <2>2, MinIsLeast, Zenon
  <2> QED
    BY <1>1, <2>1, <2>3
<1>4. nextIdx(idx, {}) = (idx + 1) % NumImages
  <2>1. nextIdx(idx, {}) = IF inTurn = {} THEN idx ELSE (idx + Min(inTurn)) % NumImages
    BY DEF nextIdx
  <2> HIDE DEF inTurn
  <2> QED
    BY <1>1, <1>2, <1>3, <2>1
<1>5. CASE idx + 1 < NumImages
  BY <1>1, <1>4, <1>5
<1>6. CASE idx + 1 = NumImages
  BY <1>1, <1>4, <1>6
<1> QED
  BY <1>1, <1>5, <1>6

(* What entering and leaving the queue do to it. *)
LEMMA EnqueueAppends ==
  ASSUME queue \in Seq(Slots), NEW d, Fifo!Enqueue(d)
  PROVE  \E p \in Slots :
           /\ \A n \in 1 .. Len(queue) : queue[n] # p
           /\ queue' = Append(queue, p) /\ vsync' = [vsync EXCEPT ![p] = d]
<1>1. PICK p \in Slots \ Range(queue) : queue' = Append(queue, p) /\ vsync' = [vsync EXCEPT ![p] = d]
  <2>1. Fifo!Range(queue) = Range(queue)
    BY DEF Fifo!Range, Range
  <2> QED
    BY <2>1 DEF Fifo!Enqueue
<1>2. \A n \in 1 .. Len(queue) : queue[n] # p
  BY DEF Range
<1> QED
  BY <1>1, <1>2

LEMMA DequeueDrops ==
  ASSUME queue \in Seq(Slots), Fifo!Dequeue
  PROVE  /\ queue # << >> /\ queue' = Tail(queue) /\ vsync' = [vsync EXCEPT ![queue[1]] = None]
         /\ Fifo!Oldest = queue[1]
BY DEF Fifo!Dequeue, Fifo!Oldest

(* What the queue holds are entries, of the one surface. *)
LEMMA EntryTypes ==
  ASSUME FrameTypes, EntriesOK, NEW n \in 1 .. Len(queue)
  PROVE  /\ queue[n] \in Slots /\ Entry(n) \in VsyncData /\ Entry(n).i \in Images
         /\ Entry(n).s \in Surfaces
         /\ Entry(n).i = <<Entry(n).i[1], Entry(n).i[2]>> /\ Entry(n).i[1] = Entry(n).s
         /\ Entry(n).i[2] \in 0 .. NumImages - 1
<1>1. queue[n] \in Slots
  BY DEF FrameTypes
<1>2. Entry(n) \in VsyncData /\ EntryOK(n)
  BY <1>1 DEF FrameTypes, EntriesOK, Entry
<1>3. Entry(n).i \in Images /\ Entry(n).s \in Surfaces
  BY <1>2 DEF VsyncData
<1>4. Entry(n).i[2] \in 0 .. NumImages - 1 /\ Entry(n).i = <<Entry(n).i[1], Entry(n).i[2]>>
  BY <1>3 DEF Images
<1> QED
  BY <1>1, <1>2, <1>3, <1>4 DEF EntryOK

(* The entry the modesetting code looks at is the first of the queue. *)
LEMMA OldestIsFirst ==
  ASSUME queue \in Seq(Slots)
  PROVE  Fifo!Oldest = IF queue = << >> THEN Null ELSE queue[1]
BY DEF Fifo!Oldest

(* A presentation finds room: every queued image is another one. *)
LEMMA RoomLeft ==
  ASSUME FrameInv, NEW s \in Surfaces, pc[s] = "enqueue"
  PROVE  Len(queue) < FlipFifoSize
<1>0. FrameTypes /\ EntriesOK /\ ImagesOK /\ OneSurface /\ Surfaces = {s}
  BY DEF FrameInv, OneSurface
<1>1. NumImages \in Nat \ {0} /\ FlipFifoSize \in Nat /\ NumImages <= FlipFifoSize
  BY <1>0, FlipQueueAssumption DEF OneSurface
<1> DEFINE k == target[s].k
           T == (0 .. NumImages - 1) \ {k}
           imageOf == [n \in 1 .. Len(queue) |-> Entry(n).i[2]]
<1>2. k \in 0 .. NumImages - 1 /\ Len(queue) \in Nat
  BY <1>0 DEF FrameTypes, Targets
<1>3. IsFiniteSet(T) /\ Cardinality(T) = NumImages - 1
  <2>1. PICK N : N = NumImages - 1
    OBVIOUS
  <2>2. PICK all : all = 0 .. N
    OBVIOUS
  <2>3. IsFiniteSet(all) /\ Cardinality(all) = NumImages
    BY <1>1, <2>1, <2>2, FS_Interval, 0 \in Int
  <2>4. PICK i : i = k
    OBVIOUS
  <2> QED
    BY <1>2, <2>1, <2>2, <2>3, <2>4, FS_RemoveElement
<1>4. imageOf \in [1 .. Len(queue) -> T]
  <2>1. ASSUME NEW n \in 1 .. Len(queue) PROVE Entry(n).i[2] \in T
    BY <1>0, <2>1, EntryTypes DEF ImagesOK, PresentLabels
  <2> QED
    BY <2>1
<1>5. ASSUME NEW m \in 1 .. Len(queue), NEW n \in 1 .. Len(queue), imageOf[m] = imageOf[n]
      PROVE  m = n
  <2>1. Entry(m).i = Entry(n).i
    BY <1>0, <1>5, EntryTypes
  <2> QED
    BY <1>0, <2>1 DEF ImagesOK
<1>6. IsFiniteSet(1 .. Len(queue)) /\ Cardinality(1 .. Len(queue)) = Len(queue)
  <2>1. \A l \in Nat : IsFiniteSet(1 .. l) /\ Cardinality(1 .. l) = l
    BY FS_Interval, 1 \in Int
  <2> QED
    BY <1>2, <2>1
<1> HIDE DEF imageOf, T
<1>7. ~ NumImages - 1 < Len(queue)
  BY <1>3, <1>4, <1>5, <1>6, FS_PigeonHole
<1> QED
  BY <1>1, <1>2, <1>7

-----------------------------------------------------------------------------
(* The first states. *)
LEMMA FrameInit == OneSurface /\ FrameStart => FrameInv /\ ScreenOK
<1> SUFFICES ASSUME OneSurface, FrameStart PROVE FrameInv /\ ScreenOK
  OBVIOUS
<1> USE FlipQueueAssumption DEF FrameStart, SwapStart
<1>1. FrameTypes
  <2>1. refCount = 1
    BY FS_Singleton DEF OneSurface
  <2>2. /\ queue \in Seq(Slots) /\ events \in Seq(Slots)
        /\ vsync \in [Slots -> VsyncData \cup {None}]
        /\ savedState \in [Surfaces -> 0 .. SavedSlots - 1] /\ DOMAIN saved = 0 .. SavedSlots - 1
    OBVIOUS
  <2>3. /\ DOMAIN ft = {"pc", "seqno", "run", "lastFinished"}
        /\ ft.pc = "look" /\ ft.seqno = 0 /\ ft.lastFinished = 0
    BY DEF NoThread
  <2>4. /\ pc \in [Surfaces -> {"idle"} \cup AcquireLabels \cup PresentLabels]
        /\ target \in [Surfaces -> Targets]
    BY DEF Targets, NoTarget
  <2>5. /\ backbufferIdx \in [Surfaces -> 0 .. NumImages - 1]
        /\ inFlight \in [Surfaces -> SUBSET (0 .. NumImages - 1)]
        /\ held \in [Surfaces -> SUBSET (0 .. NumImages - 1)]
    OBVIOUS
  <2>6. maxHeld \in 1 .. MaxHeld /\ presentMode \in [Surfaces -> Modes]
    OBVIOUS
  <2>7. 0 \in 0 .. MaxSeqno /\ emitted \in 1 .. MaxSeqno /\ finished \in 0 .. emitted /\ frames \in 0 .. MaxFrames
    OBVIOUS
  <2>8. sem = 1 /\ live = Surfaces /\ flip = None /\ crash = "none"
    OBVIOUS
  <2> HIDE FlipQueueAssumption DEF FrameStart, SwapStart
  <2> QED
    BY <2>1, <2>2, <2>3, <2>4, <2>5, <2>6, <2>7, <2>8 DEF FrameTypes
<1>2. Len(queue) = 0 /\ 1 .. Len(queue) = {}
  OBVIOUS
<1>3. EntriesOK
  BY <1>2 DEF EntriesOK
<1>4. ReadersOK
  BY DEF ReadersOK, NoThread, AcquireLabels, PresentLabels
<1>5. PointersOK
  BY DEF PointersOK, Pending
<1>6. ImagesOK
  BY <1>2 DEF ImagesOK, PresentLabels
<1>7. ScreenOK
  BY DEF ScreenOK, ScreenFor, HasOne, AcquireLabels, PresentLabels
<1> QED
  BY <1>1, <1>3, <1>4, <1>5, <1>6, <1>7 DEF FrameInv

-----------------------------------------------------------------------------
(* What a part of the invariant depends on. *)

(* The queue's part: on the queue, its entries and what the GPU finished. *)
LEMMA EntriesKept ==
  ASSUME FrameTypes, EntriesOK, UNCHANGED <<queue, vsync>>,
         finished' \in Nat, finished <= finished'
  PROVE  EntriesOK'
<1>1. ASSUME NEW n \in 1 .. Len(queue) PROVE EntryOK(n)'
  <2>1. EntryOK(n) /\ Entry(n) \in VsyncData
    BY EntryTypes DEF EntriesOK
  <2>2. Entry(n)' = Entry(n)
    BY DEF Entry
  <2> QED
    BY <2>1, <2>2 DEF EntryOK, VsyncData, FrameTypes
<1> QED
  BY <1>1 DEF EntriesOK

(* The readers' part, for a step that leaves threads and queue alone. *)
LEMMA ReadersKept ==
  ASSUME FrameTypes, ReadersOK, UNCHANGED <<queue, vsync, ft, pc, target>>,
         finished' \in Nat, finished <= finished', emitted' \in Nat, emitted <= emitted'
  PROVE  ReadersOK'
BY DEF ReadersOK, FrameTypes, Entry, Targets

(* The pointers' part. *)
LEMMA PointersKept ==
  ASSUME FrameTypes, PointersOK, UNCHANGED <<queue, vsync, flip, events>>,
         finished' \in Nat, finished <= finished'
  PROVE  PointersOK'
BY DEF PointersOK, Pending, FrameTypes, Entry, Flips

(* The images' part. *)
LEMMA ImagesKept ==
  ASSUME FrameTypes, ImagesOK, UNCHANGED <<queue, vsync, inFlight, held, target>>,
         \A s \in Surfaces : pc'[s] \in PresentLabels => pc[s] \in PresentLabels
  PROVE  ImagesOK'
BY DEF ImagesOK, Entry

(* An entry is not what stands for no entry. *)
LEMMA EntriesAreNotNone == None \notin VsyncData
<1>1. \A d \in VsyncData : "s" \in DOMAIN d
  BY DEF VsyncData
<1>2. DOMAIN None = {}
  BY DEF None
<1> QED
  BY <1>1, <1>2

(* A new content of the oldest entry, of the same image. *)
LEMMA OldestChanges ==
  ASSUME FrameTypes, EntriesOK, queue # << >>, UNCHANGED <<queue, finished>>,
         NEW d \in VsyncData, vsync' = [vsync EXCEPT ![queue[1]] = d],
         d.i = Entry(1).i, d.s = Entry(1).s, d.needs = Entry(1).needs, d.seqno \in {0, Entry(1).seqno},
         d.seqno = 0 => Entry(1).needs <= finished,
         d.seqno # 0 => d.flipPending = 0
  PROVE  /\ EntriesOK'
         /\ vsync' \in [Slots -> VsyncData \cup {None}]
         /\ \A n \in 1 .. Len(queue) : Entry(n)' = IF n = 1 THEN d ELSE Entry(n)
<1> DEFINE p == queue[1]
<1>0. 1 \in 1 .. Len(queue) /\ p \in Slots
  BY DEF FrameTypes
<1>1. vsync' \in [Slots -> VsyncData \cup {None}]
  BY <1>0 DEF FrameTypes
<1>2. \A n \in 1 .. Len(queue) : Entry(n)' = IF n = 1 THEN d ELSE Entry(n)
  <2>1. \A n \in 1 .. Len(queue) : queue[n] = p <=> n = 1
    BY <1>0 DEF EntriesOK
  <2>2. \A n \in 1 .. Len(queue) : queue[n] \in Slots
    BY EntryTypes
  <2> QED
    BY <2>1, <2>2 DEF Entry, FrameTypes
<1>3. \A q \in Slots : vsync'[q] # None <=> vsync[q] # None
  <2>1. vsync[p] # None
    BY <1>0 DEF EntriesOK
  <2> QED
    BY <1>0, <1>1, <2>1, EntriesAreNotNone DEF FrameTypes
<1>4. ASSUME NEW n \in 1 .. Len(queue) PROVE EntryOK(n)'
  <2>1. EntryOK(n) /\ EntryOK(1)
    BY <1>0 DEF EntriesOK
  <2>2. CASE n = 1
    BY <1>0, <1>2, <2>1, <2>2 DEF EntryOK
  <2>3. CASE n # 1
    BY <1>2, <2>1, <2>3 DEF EntryOK
  <2> QED
    BY <2>2, <2>3
<1>5. EntriesOK'
  BY <1>3, <1>4 DEF EntriesOK
<1> QED
  BY <1>1, <1>2, <1>5

-----------------------------------------------------------------------------
(* The GPU, the display and the flip thread. *)

(* A submission hands out a seqno. *)
LEMMA SubmitKeeps ==
  ASSUME FrameInv, submit, UNCHANGED <<swapVars, choices>>
  PROVE  FrameInv'
<1> USE DEF FrameInv, submit, swapVars, choices, modesetVars, appVars, kernelVars, countVars
<1>1. FrameTypes'
  <2>1. emitted' \in 1 .. MaxSeqno /\ finished' \in 0 .. emitted'
    BY FlipQueueAssumption DEF FrameTypes
  <2> QED
    BY <2>1 DEF FrameTypes
<1>2. /\ finished' \in Nat /\ finished <= finished' /\ emitted' \in Nat /\ emitted <= emitted'
      /\ FrameTypes
  BY <1>1 DEF FrameTypes
<1>3. EntriesOK' /\ PointersOK'
  BY <1>2, EntriesKept, PointersKept
<1>4. ReadersOK' /\ ImagesOK'
  BY <1>2, ReadersKept, ImagesKept
<1> QED
  BY <1>1, <1>3, <1>4 DEF OneSurface

(* The GPU finishes one. *)
LEMMA GpuFinishKeeps ==
  ASSUME FrameInv, gpuFinish, UNCHANGED <<swapVars, choices>>
  PROVE  FrameInv'
<1> USE DEF FrameInv, gpuFinish, swapVars, choices, modesetVars, appVars, kernelVars, countVars
<1>1. FrameTypes'
  BY DEF FrameTypes
<1>2. /\ finished' \in Nat /\ finished <= finished' /\ emitted' \in Nat /\ emitted <= emitted'
      /\ FrameTypes
  BY <1>1 DEF FrameTypes
<1>3. EntriesOK' /\ PointersOK'
  BY <1>2, EntriesKept, PointersKept
<1>4. ReadersOK' /\ ImagesOK'
  BY <1>2, ReadersKept, ImagesKept
<1> QED
  BY <1>1, <1>3, <1>4 DEF OneSurface

(* At the vertical blank the pointer of the flip becomes an event. *)
LEMMA VblankKeeps ==
  ASSUME FrameInv, vblank, UNCHANGED <<swapVars, choices>>
  PROVE  FrameInv'
<1> USE DEF FrameInv, vblank, swapVars, choices, modesetVars, appVars, gpuVars, countVars
<1>1. FrameTypes'
  <2>1. flip.data # Null => flip.data \in Slots
    BY DEF FrameTypes, Flips
  <2>2. events' \in Seq(Slots)
    BY <2>1 DEF FrameTypes
  <2> QED
    BY <2>2 DEF FrameTypes
<1>2. PointersOK'
  <2>1. CASE flip.data = Null
    BY <2>1 DEF PointersOK, Pending, Entry
  <2>2. CASE flip.data # Null
    <3>1. events = << >>
      BY <2>2 DEF PointersOK, Pending
    <3>2. events' = Append(events, flip.data)
      BY <2>2
    <3>3. events' = <<flip.data>>
      BY <3>1, <3>2
    <3> QED
      BY <2>2, <3>1, <3>3 DEF PointersOK, Pending, Entry
  <2> QED
    BY <2>1, <2>2
<1> QED
  BY <1>1, <1>2, EntriesKept, ReadersKept, ImagesKept DEF FrameTypes, OneSurface

(* The flip thread looks at the oldest entry, sleeps or waits: only what   *)
(* it knows changes.                                                       *)
LEMMA WaitingKeeps ==
  ASSUME FrameInv, ftLook \/ ftSleep \/ ftWake \/ ftWait, UNCHANGED <<swapVars, choices>>
  PROVE  FrameInv'
<1>0. /\ OneSurface /\ FrameTypes /\ EntriesOK /\ ReadersOK /\ PointersOK /\ ImagesOK
      /\ UNCHANGED <<refCount, sem, queue, vsync, saved, savedState, pc, target, live, emitted,
                     finished, flip, events, scanout, frames, faults, crash, backbufferIdx,
                     inFlight, held, maxHeld, presentMode>>
  BY DEF FrameInv, ftLook, ftSleep, ftWake, ftWait, swapVars, choices, modesetVars, appVars,
         gpuVars, kernelVars, countVars
<1>1. /\ DOMAIN ft' = {"pc", "seqno", "run", "lastFinished"}
      /\ ft'.seqno \in 0 .. MaxSeqno /\ ft'.lastFinished \in 0 .. finished
      /\ ft'.pc \in {"wait", "flip"} =>
           queue # << >> /\ Entry(1).seqno = ft'.seqno /\ ft'.seqno # 0
      /\ ft'.pc = "flip" => ft'.seqno <= finished
  <2>0. /\ DOMAIN ft = {"pc", "seqno", "run", "lastFinished"} /\ sem = 1
        /\ ft.seqno \in 0 .. MaxSeqno /\ ft.lastFinished \in 0 .. finished
        /\ ft.pc \in {"wait", "flip"} => queue # << >> /\ Entry(1).seqno = ft.seqno /\ ft.seqno # 0
        /\ ft.pc = "flip" => ft.seqno <= finished
        /\ MaxSeqno \in Nat /\ finished \in Nat
    BY <1>0, FlipQueueAssumption DEF FrameTypes, ReadersOK
  <2>1. CASE ftLook
    <3>1. PICK x, run : /\ ft' = [ft EXCEPT !.seqno = x, !.run = run,
                                           !.pc = IF x > 0 THEN "wait" ELSE loopOn(run)]
                        /\ x = IF Fifo!Oldest = Null THEN 0 ELSE vsync[Fifo!Oldest].seqno
      BY <2>1 DEF ftLook
    <3>2. x \in 0 .. MaxSeqno /\ (x # 0 => queue # << >> /\ x = Entry(1).seqno)
      <4>1. CASE queue = << >>
        BY <1>0, <2>0, <3>1, <4>1, OldestIsFirst
      <4>2. CASE queue # << >>
        <5>1. 1 \in 1 .. Len(queue) /\ queue[1] \in Slots
          BY <1>0, <4>2 DEF FrameTypes
        <5>2. Entry(1) \in VsyncData
          BY <1>0, <5>1, EntryTypes
        <5> QED
          BY <1>0, <3>1, <4>2, <5>1, <5>2, OldestIsFirst DEF FrameTypes, Entry, VsyncData, Slots, Null
      <4> QED
        BY <4>1, <4>2
    <3>3. /\ DOMAIN ft' = DOMAIN ft /\ ft'.seqno = x /\ ft'.lastFinished = ft.lastFinished
          /\ ft'.pc = IF x > 0 THEN "wait" ELSE loopOn(run)
      BY <2>0, <3>1
    <3>4. ft'.pc # "flip" /\ (ft'.pc = "wait" => x # 0)
      BY <2>0, <3>2, <3>3 DEF loopOn
    <3> QED
      BY <2>0, <3>2, <3>3, <3>4
  <2>2. CASE ftSleep \/ ftWake
    <3>1. ft' = [ft EXCEPT !.pc = "look"]
      BY <2>0, <2>2 DEF ftSleep, ftWake
    <3>2. DOMAIN ft' = DOMAIN ft /\ ft'.pc = "look" /\ ft'.seqno = ft.seqno
          /\ ft'.lastFinished = ft.lastFinished
      BY <2>0, <3>1
    <3> QED
      BY <2>0, <3>2
  <2>3. CASE ftWait
    <3>1. ft.pc = "wait"
      BY <2>3 DEF ftWait
    <3>2. CASE ft.lastFinished >= ft.seqno \/ finished >= ft.seqno
      <4>1. PICK l : /\ ft' = [ft EXCEPT !.pc = "flip", !.lastFinished = l]
                     /\ l = IF ft.lastFinished >= ft.seqno THEN ft.lastFinished ELSE ft.seqno
        <5>1. ~ (ft.lastFinished < ft.seqno /\ finished < ft.seqno)
          BY <2>0, <3>2
        <5>2. ft' = [ft EXCEPT !.pc = "flip", !.lastFinished =
                       IF ft.lastFinished >= ft.seqno THEN ft.lastFinished ELSE ft.seqno]
          BY <2>3, <5>1, Zenon DEF ftWait
        <5> QED
          BY <5>2, Zenon
      <4>2. l \in 0 .. finished /\ ft.seqno <= finished
        BY <2>0, <3>2, <4>1
      <4>3. DOMAIN ft' = DOMAIN ft /\ ft'.pc = "flip" /\ ft'.seqno = ft.seqno /\ ft'.lastFinished = l
        BY <2>0, <4>1
      <4> QED
        BY <2>0, <3>1, <4>2, <4>3
    <3>3. CASE ft.lastFinished < ft.seqno /\ finished < ft.seqno
      <4>1. ft' = [ft EXCEPT !.pc = loopOn(ft.run)]
        BY <2>0, <2>3, <3>3 DEF ftWait
      <4>2. DOMAIN ft' = DOMAIN ft /\ ft'.pc \in {"look", "exited"} /\ ft'.seqno = ft.seqno
            /\ ft'.lastFinished = ft.lastFinished
        BY <2>0, <4>1 DEF loopOn
      <4> QED
        BY <2>0, <4>2
    <3> QED
      BY <2>0, <3>2, <3>3
  <2> QED
    BY <2>1, <2>2, <2>3
<1>2. FrameTypes'
  <2>1. ft'.lastFinished \in 0 .. MaxSeqno
    BY <1>0, <1>1, FlipQueueAssumption DEF FrameTypes
  <2> QED
    BY <1>0, <1>1, <2>1 DEF FrameTypes
<1>3. ReadersOK'
  BY <1>0, <1>1 DEF ReadersOK, FrameTypes, Entry
<1>4. EntriesOK' /\ PointersOK' /\ ImagesOK'
  <2>1. finished' \in Nat /\ finished <= finished'
    BY <1>0 DEF FrameTypes
  <2> QED
    BY <1>0, <2>1, EntriesKept, PointersKept, ImagesKept
<1> QED
  BY <1>0, <1>2, <1>3, <1>4 DEF FrameInv, OneSurface

(* The flip thread asks for a page flip of the entry it waited for: the    *)
(* entry is still there, and no pointer was made for it before.            *)
LEMMA FlipsTheOldest ==
  ASSUME FrameInv, ftFlip
  PROVE  /\ queue # << >> /\ 1 \in 1 .. Len(queue) /\ queue[1] \in Slots /\ queue[1] # Null
         /\ Entry(1) \in VsyncData /\ Entry(1).seqno # 0 /\ Entry(1).needs <= finished
         /\ events = << >> /\ ~ Pending
         /\ UNCHANGED crash
         /\ ft' = [ft EXCEPT !.pc = loopOn(ft.run)]
         /\ \E b \in 0 .. 1, data \in {queue[1], Null} :
              /\ vsync' = [vsync EXCEPT ![queue[1]] = [Entry(1) EXCEPT !.seqno = 0, !.flipPending = b]]
              /\ data # Null => b = 1
              /\ presentMode[Entry(1).s] = "FIFO" => data = queue[1]
              /\ drmModePageFlip(Entry(1), data)
<1>0. FrameTypes /\ EntriesOK /\ ReadersOK /\ PointersOK
  BY DEF FrameInv
<1> DEFINE p == queue[1]
           e == Entry(1)
<1>1. queue # << >> /\ 1 \in 1 .. Len(queue) /\ e.seqno # 0 /\ e.needs <= finished
  <2>1. queue # << >> /\ e.seqno = ft.seqno /\ ft.seqno # 0 /\ ft.seqno <= finished
    BY DEF FrameInv, ReadersOK, ftFlip
  <2>2. 1 \in 1 .. Len(queue)
    BY <1>0, <2>1 DEF FrameTypes
  <2> QED
    BY <1>0, <2>1, <2>2 DEF EntriesOK, EntryOK
<1>2. p \in Slots /\ e \in VsyncData /\ e.flipPending = 0
  BY <1>0, <1>1, EntryTypes DEF EntriesOK, EntryOK
<1>3. events = << >> /\ ~ Pending
  BY <1>0, <1>1, <1>2 DEF PointersOK
<1>4. Fifo!Oldest = p /\ p # Null /\ vsync[p].s \in live /\ vsync[p] = e
  <2>1. Fifo!Oldest = p /\ e.s \in Surfaces
    BY <1>0, <1>1, <1>2, EntryTypes, OldestIsFirst DEF FrameTypes
  <2> QED
    BY <1>0, <1>2, <2>1 DEF FrameTypes, Slots, Null, Entry
<1>5. /\ UNCHANGED crash
      /\ ft' = [ft EXCEPT !.pc = loopOn(ft.run)]
      /\ \E b \in 0 .. 1, data \in {p, Null} :
           /\ vsync' = [vsync EXCEPT ![p] = [e EXCEPT !.seqno = 0, !.flipPending = b]]
           /\ data # Null => b = 1
           /\ presentMode[e.s] = "FIFO" => data = p
           /\ drmModePageFlip(e, data)
  <2>1. [e EXCEPT !.seqno = 0] = [e EXCEPT !.seqno = 0, !.flipPending = 0]
    BY <1>2 DEF VsyncData
  <2>2. /\ UNCHANGED crash
        /\ ft' = [ft EXCEPT !.pc = loopOn(ft.run)]
    BY <1>4 DEF ftFlip
  <2>3. 0 \in 0 .. 1 /\ 1 \in 0 .. 1 /\ p \in {p, Null} /\ Null \in {p, Null}
    OBVIOUS
  <2>4. CASE presentMode[vsync[p].s] = "FIFO"
    <3>1. /\ vsync' = [vsync EXCEPT ![p].seqno = 0, ![p].flipPending = 1]
          /\ drmModePageFlip(e, p)
      BY <1>4, <2>4 DEF ftFlip
    <3>2. vsync' = [vsync EXCEPT ![p] = [e EXCEPT !.seqno = 0, !.flipPending = 1]]
      BY <1>0, <1>2, <1>4, <3>1 DEF FrameTypes
    <3> QED
      BY <1>4, <2>2, <2>3, <2>4, <3>1, <3>2, Zenon
  <2>5. CASE presentMode[vsync[p].s] # "FIFO"
    <3>1. /\ vsync' = [vsync EXCEPT ![p] = [e EXCEPT !.seqno = 0, !.flipPending = 0]]
          /\ drmModePageFlip(e, Null)
      BY <1>0, <1>2, <1>4, <2>1, <2>5 DEF ftFlip, FrameTypes
    <3> QED
      BY <1>4, <2>2, <2>3, <2>5, <3>1, Zenon
  <2> QED
    BY <2>4, <2>5
<1> QED
  BY <1>1, <1>2, <1>3, <1>4, <1>5

(* A page flip asked for keeps the invariant.                              *)
LEMMA FlippingKeeps ==
  ASSUME FrameInv, ftFlip, UNCHANGED <<swapVars, choices>>
  PROVE  FrameInv'
<1>0. /\ OneSurface /\ FrameTypes /\ EntriesOK /\ ReadersOK /\ PointersOK /\ ImagesOK
      /\ UNCHANGED <<refCount, sem, queue, saved, savedState, pc, target, live, emitted, finished,
                     events, scanout, frames, backbufferIdx, inFlight, held, maxHeld, presentMode>>
  BY DEF FrameInv, ftFlip, swapVars, choices, appVars, gpuVars
<1> DEFINE p == queue[1]
           e == Entry(1)
<1>1. queue # << >> /\ 1 \in 1 .. Len(queue) /\ e.seqno # 0 /\ e.needs <= finished
  BY FlipsTheOldest
<1>2. p \in Slots /\ e \in VsyncData
  BY FlipsTheOldest
<1>3. events = << >> /\ ~ Pending
  BY FlipsTheOldest
<1>5. UNCHANGED crash /\ ft' = [ft EXCEPT !.pc = loopOn(ft.run)]
  BY FlipsTheOldest
<1>6. PICK b \in 0 .. 1, data \in {p, Null} :
        /\ vsync' = [vsync EXCEPT ![p] = [e EXCEPT !.seqno = 0, !.flipPending = b]]
        /\ data # Null => b = 1
        /\ drmModePageFlip(e, data)
  BY FlipsTheOldest
<1> HIDE DEF p, e
<1>7. PICK d : d = [e EXCEPT !.seqno = 0, !.flipPending = b]
  OBVIOUS
<1>8. /\ d \in VsyncData /\ d.i = e.i /\ d.s = e.s /\ d.seqno = 0 /\ d.flipPending = b
      /\ d.needs = e.needs
  <2>1. 0 \in 0 .. MaxSeqno
    BY FlipQueueAssumption
  <2> QED
    BY <1>2, <1>7, <2>1 DEF VsyncData
<1>9. /\ EntriesOK'
      /\ vsync' \in [Slots -> VsyncData \cup {None}]
      /\ \A n \in 1 .. Len(queue) : Entry(n)' = IF n = 1 THEN d ELSE Entry(n)
  <2>1. vsync' = [vsync EXCEPT ![queue[1]] = d]
    BY <1>6, <1>7 DEF p
  <2> QED
    BY <1>0, <1>1, <1>8, <2>1, OldestChanges DEF e
<1>10. FrameTypes'
  <2>1. flip' \in Flips \cup {None}
    <3>1. e.i \in Images /\ e.frame \in Nat /\ e.needs \in 0 .. MaxSeqno
      BY <1>2, FlipQueueAssumption DEF VsyncData
    <3> QED
      BY <1>0, <1>2, <1>6, <3>1 DEF FrameTypes, drmModePageFlip, Flips
  <2>2. DOMAIN ft' = DOMAIN ft /\ ft'.seqno = ft.seqno /\ ft'.lastFinished = ft.lastFinished
    BY <1>0, <1>5 DEF FrameTypes
  <2> QED
    BY <1>0, <1>5, <1>9, <2>1, <2>2 DEF FrameTypes
<1>11. ReadersOK'
  <2>1. ft'.pc \notin {"wait", "flip"} /\ ft'.lastFinished = ft.lastFinished
    BY <1>0, <1>5 DEF loopOn, FrameTypes
  <2>2. \A s \in Surfaces : pc[s] # "take"
    BY <1>0, <1>1 DEF ReadersOK, e
  <2> QED
    BY <1>0, <2>1, <2>2 DEF ReadersOK
<1>12. PointersOK'
  <2>1. flip' # None => flip'.needs <= finished
    BY <1>0, <1>1, <1>6 DEF PointersOK, drmModePageFlip
  <2>2. Pending' => flip'.data = p /\ b = 1
    BY <1>3, <1>6 DEF Pending, drmModePageFlip
  <2> QED
    BY <1>0, <1>1, <1>3, <1>8, <1>9, <2>1, <2>2 DEF PointersOK, p
<1>13. ImagesOK'
  <2>1. \A n \in 1 .. Len(queue) : Entry(n)'.i = Entry(n).i
    BY <1>8, <1>9 DEF e
  <2> QED
    BY <1>0, <2>1 DEF ImagesOK
<1> QED
  BY <1>0, <1>9, <1>10, <1>11, <1>12, <1>13 DEF FrameInv, OneSurface

-----------------------------------------------------------------------------
(* The thread that acquires and presents. *)

(* Where a thread is sent, for the steps that send it there and change no  *)
(* more: a call, a look at the oldest entry, a second look.                *)
LEMMA LookingKeeps ==
  ASSUME FrameInv, NEW s \in Surfaces, UNCHANGED <<swapVars, choices>>,
         acquireCall(s) \/ acquireLook(s) \/ acquireReread(s)
  PROVE  FrameInv'
<1>0. /\ OneSurface /\ FrameTypes /\ EntriesOK /\ ReadersOK /\ PointersOK /\ ImagesOK
      /\ UNCHANGED <<refCount, sem, queue, vsync, saved, savedState, ft, target, live, emitted,
                     finished, flip, events, scanout, frames, faults, backbufferIdx,
                     inFlight, held, maxHeld, presentMode>>
  BY DEF FrameInv, acquireCall, acquireLook, acquireReread, swapVars, choices, modesetVars,
         gpuVars, kernelVars, countVars
<1>1. PICK label :
        /\ UNCHANGED crash /\ pc' = [pc EXCEPT ![s] = label]
        /\ label \in AcquireLabels
        /\ label # "look" => queue # << >>
        /\ label = "take" => Entry(1).seqno = 0 /\ Entry(1).flipPending = 0
  <2>1. CASE acquireCall(s)
    <3>1. UNCHANGED crash /\ pc' = [pc EXCEPT ![s] = "look"]
      BY <2>1 DEF acquireCall, Goto
    <3>2. "look" \in AcquireLabels /\ "look" # "take"
      BY DEF AcquireLabels
    <3> QED
      BY <3>1, <3>2, Zenon
  <2>2. CASE acquireLook(s) \/ acquireReread(s)
    <3>1. queue # << >>
      BY <1>0, <2>2 DEF acquireLook, acquireReread, ReadersOK, AcquireLabels
    <3>2. 1 \in 1 .. Len(queue) /\ Entry(1) = vsync[Fifo!Oldest]
      BY <1>0, <3>1, OldestIsFirst DEF FrameTypes, Entry
    <3>3. UNCHANGED crash /\ pc' = [pc EXCEPT ![s] = acquireNext(Entry(1))]
      BY <2>2, <3>1, <3>2 DEF acquireLook, acquireReread, Goto
    <3>4. Entry(1).seqno \in 0 .. MaxSeqno /\ Entry(1).flipPending \in 0 .. 1
      BY <1>0, <3>2, EntryTypes DEF VsyncData
    <3>5. /\ acquireNext(Entry(1)) \in AcquireLabels
          /\ acquireNext(Entry(1)) = "take" => Entry(1).seqno = 0 /\ Entry(1).flipPending = 0
      BY <3>4, FlipQueueAssumption DEF acquireNext, AcquireLabels
    <3> QED
      BY <3>1, <3>3, <3>5
  <2> QED
    BY <2>1, <2>2
<1>2. \A t \in Surfaces : pc'[t] = IF t = s THEN label ELSE pc[t]
  BY <1>0, <1>1 DEF FrameTypes
<1>3. FrameTypes'
  BY <1>0, <1>1 DEF FrameTypes
<1>4. EntriesOK' /\ PointersOK'
  BY <1>0, EntriesKept, PointersKept DEF FrameTypes
<1>5. label \notin PresentLabels
  BY <1>1 DEF AcquireLabels, PresentLabels
<1>6. ReadersOK'
  BY <1>0, <1>1, <1>2, <1>5 DEF ReadersOK, Entry
<1>7. ImagesOK'
  BY <1>0, <1>2, <1>5, ImagesKept
<1> QED
  BY <1>0, <1>3, <1>4, <1>6, <1>7 DEF FrameInv, OneSurface

(* Reading the event clears the pending flag of the oldest entry.          *)
LEMMA HandlesTheOldest ==
  ASSUME FrameInv, NEW s \in Surfaces, acquireHandle(s)
  PROVE  /\ queue # << >> /\ events # << >> /\ events' = << >> /\ ~ Pending
         /\ 1 \in 1 .. Len(queue) /\ queue[1] \in Slots /\ Entry(1) \in VsyncData
         /\ vsync' = [vsync EXCEPT ![queue[1]] = [Entry(1) EXCEPT !.flipPending = 0]]
<1>0. FrameTypes /\ EntriesOK /\ ReadersOK /\ PointersOK
  BY DEF FrameInv
<1>1. queue # << >> /\ events = <<queue[1]>> /\ Len(events) = 1 /\ ~ Pending
  <2>1. events # << >> /\ events \in Seq(Slots) /\ Len(events) <= 1
    BY <1>0 DEF acquireHandle, FrameTypes, PointersOK
  <2>2. Len(events) = 1 /\ events = <<events[1]>>
    <3>1. PICK q \in Seq(Slots) : q = events
      BY <2>1
    <3> QED
      BY <2>1, <3>1, OneElement
  <2>3. events[1] = queue[1] /\ queue # << >> /\ ~ Pending
    BY <1>0, <2>1, Zenon DEF PointersOK
  <2> QED
    BY <2>2, <2>3
<1>2. Range(events) = {queue[1]}
  BY <1>1 DEF Range
<1>3. 1 \in 1 .. Len(queue) /\ queue[1] \in Slots /\ Entry(1) \in VsyncData
  BY <1>0, <1>1, EntryTypes DEF FrameTypes
<1>4. vsync[queue[1]] # None
  BY <1>3, EntriesAreNotNone DEF Entry
<1>5. vsync' = [vsync EXCEPT ![queue[1]] = [Entry(1) EXCEPT !.flipPending = 0]]
  BY <1>0, <1>2, <1>3, <1>4 DEF acquireHandle, modeset_page_flip_event, FrameTypes, Entry
<1> QED
  BY <1>1, <1>3, <1>5 DEF acquireHandle

(* Reading events keeps the invariant.                                     *)
LEMMA HandlingKeeps ==
  ASSUME FrameInv, NEW s \in Surfaces, UNCHANGED <<swapVars, choices>>, acquireHandle(s)
  PROVE  FrameInv'
<1>0. /\ OneSurface /\ FrameTypes /\ EntriesOK /\ ReadersOK /\ PointersOK /\ ImagesOK
      /\ UNCHANGED <<refCount, sem, queue, saved, savedState, ft, target, live, emitted,
                     finished, flip, scanout, frames, faults, crash, backbufferIdx,
                     inFlight, held, maxHeld, presentMode>>
  BY DEF FrameInv, acquireHandle, swapVars, choices, gpuVars, countVars
<1>1. queue # << >> /\ ~ Pending
  BY HandlesTheOldest
<1>3. 1 \in 1 .. Len(queue) /\ queue[1] \in Slots /\ Entry(1) \in VsyncData
  BY HandlesTheOldest
<1>5. PICK d : d = [Entry(1) EXCEPT !.flipPending = 0]
  OBVIOUS
<1>6. /\ d \in VsyncData /\ d.i = Entry(1).i /\ d.s = Entry(1).s /\ d.needs = Entry(1).needs
      /\ d.seqno = Entry(1).seqno /\ d.flipPending = 0
  BY <1>3, <1>5 DEF VsyncData
<1>7. vsync' = [vsync EXCEPT ![queue[1]] = d]
  BY <1>5, HandlesTheOldest
<1>8. /\ EntriesOK'
      /\ vsync' \in [Slots -> VsyncData \cup {None}]
      /\ \A n \in 1 .. Len(queue) : Entry(n)' = IF n = 1 THEN d ELSE Entry(n)
  <2>1. EntryOK(1)
    BY <1>0, <1>3 DEF EntriesOK
  <2> QED
    BY <1>0, <1>1, <1>6, <1>7, <2>1, OldestChanges DEF EntryOK
<1>9. events' = << >> /\ pc' = [pc EXCEPT ![s] = "reread"]
  BY DEF acquireHandle, Goto
<1>10. \A t \in Surfaces : pc'[t] = IF t = s THEN "reread" ELSE pc[t]
  BY <1>0, <1>9 DEF FrameTypes
<1>11. FrameTypes'
  BY <1>0, <1>8, <1>9 DEF FrameTypes, AcquireLabels
<1>12. ReadersOK'
  BY <1>0, <1>1, <1>3, <1>6, <1>8, <1>10 DEF ReadersOK, AcquireLabels, PresentLabels
<1>13. PointersOK'
  BY <1>0, <1>1, <1>9 DEF PointersOK, Pending
<1>14. ImagesOK'
  <2>1. \A n \in 1 .. Len(queue) : Entry(n)'.i = Entry(n).i
    BY <1>6, <1>8
  <2> QED
    BY <1>0, <1>10, <2>1 DEF ImagesOK, PresentLabels
<1> QED
  BY <1>0, <1>8, <1>11, <1>12, <1>13, <1>14 DEF FrameInv, OneSurface

(* What stays in flight when image i comes back. *)
StillFlying(s, i) == inFlight[s] \ {c \in 0 .. NumImages - 1 : i = <<s, c>>}

SwapTypes ==
  /\ backbufferIdx \in [Surfaces -> 0 .. NumImages - 1]
  /\ inFlight \in [Surfaces -> SUBSET (0 .. NumImages - 1)]
  /\ held \in [Surfaces -> SUBSET (0 .. NumImages - 1)]

(* What choosing an image does. *)
LEMMA ChoosingDoes ==
  ASSUME SwapTypes, NEW s \in Surfaces, NEW i, chooseImage(s, i)
  PROVE  /\ SwapTypes'
         /\ inFlight'[s] = StillFlying(s, i)
         /\ backbufferIdx'[s] = nextIdx(backbufferIdx[s], StillFlying(s, i))
         /\ held' = [held EXCEPT ![s] = held[s] \cup {backbufferIdx'[s]}]
         /\ held'[s] = held[s] \cup {backbufferIdx'[s]}
<1>1. PICK flying : flying = StillFlying(s, i)
  OBVIOUS
<1>2. /\ backbufferIdx[s] \in 0 .. NumImages - 1 /\ flying \in SUBSET (0 .. NumImages - 1)
      /\ held[s] \in SUBSET (0 .. NumImages - 1)
  BY <1>1 DEF SwapTypes, StillFlying
<1>3. PICK idx : idx = nextIdx(backbufferIdx[s], flying)
  OBVIOUS
<1>4. idx \in 0 .. NumImages - 1
  BY <1>1, <1>2, <1>3, NextIsFree
<1>5. /\ inFlight' = [inFlight EXCEPT ![s] = flying]
      /\ backbufferIdx' = [backbufferIdx EXCEPT ![s] = idx]
      /\ held' = [held EXCEPT ![s] = held[s] \cup {idx}]
  BY <1>1, <1>3 DEF chooseImage, StillFlying
<1>6. /\ inFlight'[s] = flying /\ backbufferIdx'[s] = idx /\ held'[s] = held[s] \cup {idx}
  BY <1>5 DEF SwapTypes
<1>7. SwapTypes'
  BY <1>2, <1>4, <1>5 DEF SwapTypes
<1> QED
  BY <1>1, <1>3, <1>5, <1>6, <1>7

(* The image chosen when one came back, or when nothing is in flight.      *)
LEMMA ChosenIsFree ==
  ASSUME FrameInv, NEW s \in Surfaces, NEW i, chooseImage(s, i),
         \E k \in 0 .. NumImages - 1 : k \notin StillFlying(s, i)
  PROVE  /\ SwapTypes'
         /\ inFlight'[s] = StillFlying(s, i)
         /\ backbufferIdx'[s] = nextIdx(backbufferIdx[s], StillFlying(s, i))
         /\ held'[s] = held[s] \cup {backbufferIdx'[s]}
         /\ held'[s] \cap StillFlying(s, i) = {}
<1>1. SwapTypes /\ ImagesOK
  BY DEF FrameInv, FrameTypes, SwapTypes
<1>2. /\ SwapTypes'
      /\ inFlight'[s] = StillFlying(s, i)
      /\ backbufferIdx'[s] = nextIdx(backbufferIdx[s], StillFlying(s, i))
      /\ held'[s] = held[s] \cup {backbufferIdx'[s]}
  BY <1>1, ChoosingDoes
<1>3. PICK flying \in SUBSET (0 .. NumImages - 1) : flying = StillFlying(s, i)
  BY <1>1 DEF SwapTypes, StillFlying
<1>4. backbufferIdx[s] \in 0 .. NumImages - 1 /\ held[s] \cap flying = {}
  BY <1>1, <1>3 DEF SwapTypes, ImagesOK, StillFlying
<1>5. nextIdx(backbufferIdx[s], flying) \notin flying
  BY <1>3, <1>4, NextIsFree
<1> QED
  BY <1>2, <1>3, <1>4, <1>5

(* Acquiring from an empty queue. *)
LEMMA EmptyKeeps ==
  ASSUME FrameInv, NEW s \in Surfaces, UNCHANGED choices,
         acquireEmpty(s), chooseImage(s, None)
  PROVE  FrameInv'
<1>0. /\ OneSurface /\ Surfaces = {s}
      /\ FrameTypes /\ EntriesOK /\ ReadersOK /\ PointersOK /\ ImagesOK
      /\ UNCHANGED <<refCount, sem, queue, vsync, saved, savedState, ft, target, live, emitted,
                     finished, flip, events, scanout, frames, faults, crash, maxHeld, presentMode>>
      /\ queue = << >> /\ pc' = [pc EXCEPT ![s] = "idle"]
  BY DEF FrameInv, OneSurface, acquireEmpty, choices, modesetVars, gpuVars, kernelVars, countVars, Goto
<1>1. 1 .. Len(queue) = {} /\ inFlight[s] = {}
  BY <1>0 DEF ImagesOK
<1>2. StillFlying(s, None) = {} /\ \E k \in 0 .. NumImages - 1 : k \notin StillFlying(s, None)
  BY <1>1, FlipQueueAssumption DEF StillFlying
<1>3. SwapTypes' /\ inFlight'[s] = {}
  BY <1>2, ChosenIsFree
<1>4. pc'[s] = "idle"
  BY <1>0 DEF FrameTypes
<1>5. FrameTypes'
  BY <1>0, <1>3 DEF FrameTypes, SwapTypes
<1>6. EntriesOK' /\ PointersOK'
  BY <1>0, EntriesKept, PointersKept DEF FrameTypes
<1>7. ReadersOK'
  BY <1>0, <1>4 DEF ReadersOK, AcquireLabels, PresentLabels, Entry
<1>8. ImagesOK'
  BY <1>0, <1>1, <1>3, <1>4 DEF ImagesOK, PresentLabels
<1> QED
  BY <1>0, <1>5, <1>6, <1>7, <1>8 DEF FrameInv, OneSurface

(* Acquiring takes the oldest entry, which the kernel is done with.        *)
LEMMA TakesTheOldest ==
  ASSUME FrameInv, NEW s \in Surfaces, NEW i, acquireTake(s, i)
  PROVE  /\ queue # << >> /\ Entry(1).seqno = 0 /\ Entry(1).flipPending = 0
         /\ 1 \in 1 .. Len(queue)
         /\ queue' = Tail(queue) /\ vsync' = [vsync EXCEPT ![queue[1]] = None]
         /\ i = Entry(1).i
         /\ ~ Pending /\ events = << >> /\ ft.pc \notin {"wait", "flip"}
         /\ StillFlying(s, i) = inFlight[s] \ {Entry(1).i[2]}
<1>0. OneSurface /\ Surfaces = {s} /\ FrameTypes /\ EntriesOK /\ ReadersOK /\ PointersOK /\ pc[s] = "take"
  BY DEF FrameInv, OneSurface, acquireTake
<1>1. /\ queue # << >> /\ Entry(1).seqno = 0 /\ Entry(1).flipPending = 0
      /\ 1 \in 1 .. Len(queue)
  BY <1>0 DEF ReadersOK, AcquireLabels, FrameTypes
<1>2. /\ queue' = Tail(queue) /\ vsync' = [vsync EXCEPT ![queue[1]] = None]
      /\ i = Entry(1).i
  <2>1. Fifo!Dequeue /\ i = vsync[Fifo!Oldest].i
    BY <1>1 DEF acquireTake
  <2> QED
    BY <1>0, <2>1, DequeueDrops DEF FrameTypes, Entry
<1>3. ~ Pending /\ events = << >> /\ ft.pc \notin {"wait", "flip"}
  BY <1>0, <1>1 DEF PointersOK, ReadersOK
<1>4. Entry(1).i = <<s, Entry(1).i[2]>> /\ Entry(1).i[2] \in 0 .. NumImages - 1
  BY <1>0, <1>1, EntryTypes
<1>5. StillFlying(s, i) = inFlight[s] \ {Entry(1).i[2]}
  <2>1. \A c \in 0 .. NumImages - 1 : i = <<s, c>> <=> c = Entry(1).i[2]
    BY <1>1, <1>2, <1>4
  <2> QED
    BY <1>0, <1>1, <1>4, <2>1 DEF StillFlying, FrameTypes
<1> QED
  BY <1>1, <1>2, <1>3, <1>5

(* Acquiring frees an image and chooses one.                               *)
LEMMA TakingKeeps ==
  ASSUME FrameInv, NEW s \in Surfaces, UNCHANGED choices, NEW i,
         acquireTake(s, i), chooseImage(s, i)
  PROVE  FrameInv'
<1>0. /\ OneSurface /\ Surfaces = {s}
      /\ FrameTypes /\ EntriesOK /\ ReadersOK /\ PointersOK /\ ImagesOK
      /\ UNCHANGED <<refCount, sem, saved, savedState, ft, target, live, emitted,
                     finished, flip, events, scanout, frames, faults, crash, maxHeld, presentMode>>
      /\ pc[s] = "take" /\ pc' = [pc EXCEPT ![s] = "idle"]
  BY DEF FrameInv, OneSurface, acquireTake, choices, gpuVars, kernelVars, countVars, Goto
<1>1. /\ queue # << >> /\ Entry(1).seqno = 0 /\ Entry(1).flipPending = 0
      /\ 1 \in 1 .. Len(queue)
  BY TakesTheOldest
<1>2. /\ queue' = Tail(queue) /\ vsync' = [vsync EXCEPT ![queue[1]] = None]
      /\ i = Entry(1).i
  BY TakesTheOldest
<1>3. ~ Pending /\ events = << >> /\ ft.pc \notin {"wait", "flip"}
  BY TakesTheOldest
<1>4. /\ queue' \in Seq(Slots) /\ Len(queue') = Len(queue) - 1
      /\ \A n \in 1 .. Len(queue') : n + 1 \in 1 .. Len(queue) /\ queue'[n] = queue[n + 1]
      /\ queue[1] \in Slots
  BY <1>0, <1>1, <1>2 DEF FrameTypes
<1>5. vsync' \in [Slots -> VsyncData \cup {None}]
  BY <1>0, <1>2 DEF FrameTypes
<1>6. \A n \in 1 .. Len(queue') : Entry(n)' = Entry(n + 1)
  <2>1. ASSUME NEW n \in 1 .. Len(queue') PROVE Entry(n)' = Entry(n + 1)
    <3>1. queue'[n] = queue[n + 1] /\ n + 1 \in 1 .. Len(queue) /\ n + 1 # 1
      BY <1>4
    <3>2. queue[n + 1] # queue[1] /\ queue[n + 1] \in Slots
      BY <1>0, <1>1, <3>1, EntryTypes DEF EntriesOK
    <3> QED
      BY <1>0, <1>2, <3>1, <3>2 DEF Entry, FrameTypes
  <2> QED
    BY <2>1
<1> DEFINE flying == StillFlying(s, i)
<1>7. /\ \A n \in 1 .. Len(queue) : Entry(n).i = <<s, Entry(n).i[2]>>
      /\ \A n \in 1 .. Len(queue) : Entry(n).i[2] \in 0 .. NumImages - 1
  BY <1>0, EntryTypes
<1>8. flying = inFlight[s] \ {Entry(1).i[2]}
  BY TakesTheOldest
<1>9. /\ SwapTypes'
      /\ inFlight'[s] = flying
      /\ held'[s] \cap flying = {}
  <2>1. \E k \in 0 .. NumImages - 1 : k \notin flying
    BY <1>1, <1>7, <1>8
  <2> QED
    BY <2>1, ChosenIsFree
<1>10. pc'[s] = "idle"
  BY <1>0 DEF FrameTypes
<1>11. FrameTypes'
  BY <1>0, <1>4, <1>5, <1>9 DEF FrameTypes, SwapTypes
<1>12. EntriesOK'
  <2>1. \A m, n \in 1 .. Len(queue') : queue'[m] = queue'[n] => m = n
    BY <1>0, <1>4 DEF EntriesOK
  <2>2. ASSUME NEW q \in Slots PROVE vsync'[q] # None <=> \E n \in 1 .. Len(queue') : q = queue'[n]
    <3>1. CASE q = queue[1]
      <4>1. vsync'[q] = None
        BY <1>0, <1>2, <3>1 DEF FrameTypes
      <4>2. \A n \in 1 .. Len(queue') : q # queue'[n]
        BY <1>0, <1>1, <1>4, <3>1 DEF EntriesOK
      <4> QED
        BY <4>1, <4>2
    <3>2. CASE q # queue[1]
      <4>1. vsync'[q] = vsync[q]
        BY <1>0, <1>2, <3>2 DEF FrameTypes
      <4>2. ASSUME NEW n \in 1 .. Len(queue), q = queue[n]
            PROVE  \E m \in 1 .. Len(queue') : q = queue'[m]
        <5>1. n # 1 /\ Len(queue) \in Nat
          BY <1>0, <3>2, <4>2 DEF FrameTypes
        <5>2. n - 1 \in 1 .. Len(queue') /\ (n - 1) + 1 = n
          BY <1>4, <5>1
        <5>3. queue'[n - 1] = queue[(n - 1) + 1]
          BY <1>4, <5>2
        <5> QED
          BY <4>2, <5>2, <5>3
      <4> QED
        BY <1>0, <1>4, <4>1, <4>2 DEF EntriesOK
    <3> QED
      BY <3>1, <3>2
  <2>3. ASSUME NEW n \in 1 .. Len(queue') PROVE EntryOK(n)'
    <3>1. EntryOK(n + 1) /\ Entry(n)' = Entry(n + 1) /\ n + 1 # 1
      BY <1>0, <1>4, <1>6 DEF EntriesOK
    <3> QED
      BY <1>0, <3>1 DEF EntryOK
  <2> QED
    BY <2>1, <2>2, <2>3 DEF EntriesOK
<1>13. ReadersOK'
  BY <1>0, <1>3, <1>10 DEF ReadersOK, AcquireLabels, PresentLabels
<1>14. PointersOK'
  BY <1>0, <1>3 DEF PointersOK, Pending
<1>15. ImagesOK'
  <2>1. \A m, n \in 1 .. Len(queue') : Entry(m)'.i = Entry(n)'.i => m = n
    BY <1>0, <1>4, <1>6 DEF ImagesOK
  <2>2. flying = {Entry(n)'.i[2] : n \in 1 .. Len(queue')}
    <3>1. ASSUME NEW n \in 1 .. Len(queue') PROVE Entry(n)'.i[2] \in flying
      <4>1. n + 1 \in 1 .. Len(queue) /\ n + 1 # 1 /\ Entry(n)' = Entry(n + 1)
        BY <1>4, <1>6
      <4>2. Entry(n + 1).i[2] # Entry(1).i[2]
        BY <1>0, <1>1, <1>7, <4>1 DEF ImagesOK
      <4> QED
        BY <1>0, <1>8, <4>1, <4>2 DEF ImagesOK
    <3>2. ASSUME NEW c \in flying PROVE \E n \in 1 .. Len(queue') : c = Entry(n)'.i[2]
      <4>1. PICK m \in 1 .. Len(queue) : c = Entry(m).i[2]
        BY <1>0, <1>8, <3>2 DEF ImagesOK
      <4>2. m # 1 /\ Len(queue) \in Nat
        BY <1>0, <1>8, <3>2, <4>1 DEF FrameTypes
      <4>3. m - 1 \in 1 .. Len(queue') /\ (m - 1) + 1 = m
        BY <1>4, <4>2
      <4> QED
        BY <1>6, <4>1, <4>3
    <3> HIDE DEF flying
    <3> QED
      BY <3>1, <3>2
  <2> HIDE DEF flying
  <2> QED
    BY <1>0, <1>9, <1>10, <2>1, <2>2 DEF ImagesOK, PresentLabels
<1> QED
  BY <1>0, <1>11, <1>12, <1>13, <1>14, <1>15 DEF FrameInv, OneSurface

(* The application gives an image it holds to vkQueuePresentKHR.           *)
LEMMA PresentingKeeps ==
  ASSUME FrameInv, NEW s \in Surfaces, UNCHANGED choices, NEW k \in held[s],
         presentCall(s, k), held' = [held EXCEPT ![s] = @ \ {k}],
         UNCHANGED <<backbufferIdx, inFlight>>
  PROVE  FrameInv'
<1>0. /\ OneSurface /\ Surfaces = {s}
      /\ FrameTypes /\ EntriesOK /\ ReadersOK /\ PointersOK /\ ImagesOK
      /\ UNCHANGED <<refCount, sem, queue, vsync, saved, savedState, ft, live, emitted,
                     finished, flip, events, scanout, faults, crash, maxHeld, presentMode>>
      /\ frames < MaxFrames /\ frames' = frames + 1
  BY DEF FrameInv, OneSurface, presentCall, choices, modesetVars, gpuVars, kernelVars
<1>1. PICK g : g = [k |-> k, frame |-> frames + 1, seqno |-> emitted]
  OBVIOUS
<1>2. target' = [target EXCEPT ![s] = g]
  BY <1>1 DEF presentCall
<1>3. /\ g \in Targets /\ g.k = k /\ g.frame # 0 /\ g.seqno \in 1 .. emitted
      /\ frames' \in 0 .. MaxFrames
  <2>1. k \in 0 .. NumImages - 1 /\ frames + 1 \in 1 .. MaxFrames /\ emitted \in 1 .. MaxSeqno
    BY <1>0, FlipQueueAssumption DEF FrameTypes
  <2>2. frames + 1 \in 0 .. MaxFrames /\ emitted \in 0 .. MaxSeqno
        /\ emitted \in 1 .. emitted /\ frames + 1 # 0
    BY <2>1, FlipQueueAssumption
  <2> QED
    BY <1>0, <1>1, <2>1, <2>2 DEF Targets
<1>4. target' \in [Surfaces -> Targets] /\ target'[s] = g
  BY <1>0, <1>2, <1>3 DEF FrameTypes
<1>5. PICK label \in PresentLabels : pc' = [pc EXCEPT ![s] = label]
  BY DEF presentCall, Goto, PresentLabels
<1>6. pc'[s] = label /\ pc' \in [Surfaces -> {"idle"} \cup AcquireLabels \cup PresentLabels]
  BY <1>0, <1>5 DEF FrameTypes
<1>7. /\ held' \in [Surfaces -> SUBSET (0 .. NumImages - 1)]
      /\ held'[s] = held[s] \ {k}
  BY <1>0 DEF FrameTypes
<1>8. FrameTypes'
  BY <1>0, <1>3, <1>4, <1>6, <1>7 DEF FrameTypes
<1>9. EntriesOK' /\ PointersOK'
  BY <1>0, EntriesKept, PointersKept DEF FrameTypes
<1>10. ReadersOK'
  BY <1>0, <1>3, <1>4, <1>6 DEF ReadersOK, AcquireLabels, PresentLabels, Entry
<1>11. ImagesOK'
  BY <1>0, <1>3, <1>4, <1>6, <1>7 DEF ImagesOK, Entry
<1> QED
  BY <1>0, <1>8, <1>9, <1>10, <1>11 DEF FrameInv, OneSurface

(* The first presentation of a surface saves what the screen showed.       *)
LEMMA SavingKeeps ==
  ASSUME FrameInv, NEW s \in Surfaces, UNCHANGED <<swapVars, choices>>, presentSave(s)
  PROVE  FrameInv'
<1>0. /\ OneSurface /\ Surfaces = {s}
      /\ FrameTypes /\ EntriesOK /\ ReadersOK /\ PointersOK /\ ImagesOK
      /\ UNCHANGED <<refCount, sem, queue, vsync, ft, target, live, emitted, finished, flip, events,
                     frames, faults, crash, backbufferIdx, inFlight, held, maxHeld, presentMode>>
      /\ pc[s] = "save" /\ pc' = [pc EXCEPT ![s] = "enqueue"]
  BY DEF FrameInv, OneSurface, presentSave, choices, swapVars, gpuVars, countVars, Goto
<1>1. pc'[s] = "enqueue" /\ pc' \in [Surfaces -> {"idle"} \cup AcquireLabels \cup PresentLabels]
  BY <1>0 DEF FrameTypes, PresentLabels
<1>2. /\ savedState' \in [Surfaces -> 0 .. SavedSlots - 1]
      /\ DOMAIN saved' = 0 .. SavedSlots - 1
  <2> DEFINE unused == {c \in DOMAIN saved : saved[c].state # "used"}
  <2>1. CASE unused = {}
    BY <1>0, <2>1 DEF presentSave, FrameTypes
  <2>2. CASE unused # {}
    <3>1. PICK c : c = Min(unused)
      OBVIOUS
    <3>2. /\ saved' = [saved EXCEPT ![c] = [state |-> "used", fb |-> scanout]]
          /\ savedState' = [savedState EXCEPT ![s] = c]
      BY <2>2, <3>1 DEF presentSave, Min
    <3>3. unused \in SUBSET (0 .. SavedSlots - 1) /\ unused \in SUBSET Nat
      <4>1. DOMAIN saved = 0 .. SavedSlots - 1 /\ SavedSlots - 1 \in Nat
        BY <1>0, FlipQueueAssumption DEF FrameTypes
      <4>2. 0 .. SavedSlots - 1 \subseteq Nat
        BY <4>1
      <4> QED
        BY <4>1, <4>2
    <3>4. c \in 0 .. SavedSlots - 1
      <4> HIDE DEF unused
      <4> QED
        BY <2>2, <3>1, <3>3, MinIsLeast
    <3> HIDE DEF unused
    <3> QED
      BY <1>0, <3>2, <3>4 DEF FrameTypes
  <2> QED
    BY <2>1, <2>2
<1>3. FrameTypes'
  BY <1>0, <1>1, <1>2 DEF FrameTypes
<1>4. EntriesOK' /\ PointersOK'
  BY <1>0, EntriesKept, PointersKept DEF FrameTypes
<1>5. ReadersOK'
  BY <1>0, <1>1 DEF ReadersOK, AcquireLabels, PresentLabels, Entry
<1>6. ImagesOK'
  BY <1>0, <1>1 DEF ImagesOK, Entry, PresentLabels
<1> QED
  BY <1>0, <1>3, <1>4, <1>5, <1>6 DEF FrameInv, OneSurface

(* A presentation ends in the queue, which has room for it.                *)
LEMMA EnqueuesEntry ==
  ASSUME FrameInv, NEW s \in Surfaces, presentEnqueue(s)
  PROVE  /\ UNCHANGED crash /\ pc' = [pc EXCEPT ![s] = "idle"]
         /\ \E d \in VsyncData :
              /\ Fifo!Enqueue(d)
              /\ d.s = s /\ d.i = <<s, target[s].k>>
              /\ d.flipPending = 0 /\ d.seqno = d.needs /\ d.seqno # 0
<1>0. FrameTypes /\ ReadersOK /\ pc[s] = "enqueue"
  BY DEF FrameInv, presentEnqueue
<1>1. PICK d : d = [i |-> <<s, target[s].k>>, s |-> s, flipPending |-> 0,
                    seqno |-> target[s].seqno, frame |-> target[s].frame,
                    needs |-> target[s].seqno]
  OBVIOUS
<1>2. Fifo!Enqueue(d) /\ UNCHANGED crash /\ pc' = [pc EXCEPT ![s] = "idle"]
  <2>1. Len(queue) # FlipFifoSize
    BY <1>0, RoomLeft, FlipQueueAssumption DEF FrameTypes
  <2> QED
    BY <1>1, <2>1 DEF presentEnqueue, Goto
<1>3. /\ target[s].k \in 0 .. NumImages - 1
      /\ target[s].seqno \in 1 .. MaxSeqno /\ target[s].seqno \in 0 .. MaxSeqno
      /\ target[s].frame \in 1 .. MaxFrames
  <2>1. target[s] \in Targets /\ pc[s] \in PresentLabels
    BY <1>0 DEF FrameTypes, PresentLabels
  <2> QED
    <3>1. target[s].seqno \in 1 .. emitted /\ target[s].frame # 0 /\ emitted \in 1 .. MaxSeqno
      BY <1>0, <2>1 DEF ReadersOK, FrameTypes
    <3>2. target[s].k \in 0 .. NumImages - 1 /\ target[s].frame \in 0 .. MaxFrames
      BY <2>1 DEF Targets
    <3> QED
      BY <3>1, <3>2, FlipQueueAssumption
<1>4. /\ d \in VsyncData /\ d.s = s /\ d.i = <<s, target[s].k>>
      /\ d.flipPending = 0 /\ d.seqno = d.needs /\ d.seqno # 0
  BY <1>0, <1>1, <1>3 DEF VsyncData, Images
<1> QED
  BY <1>2, <1>4

(* A presentation put in the queue keeps the invariant.                    *)
LEMMA EnqueuingKeeps ==
  ASSUME FrameInv, NEW s \in Surfaces, UNCHANGED <<choices, backbufferIdx, held>>, presentEnqueue(s),
         inFlight' = [inFlight EXCEPT ![s] = @ \cup {target[s].k}]
  PROVE  FrameInv'
<1>0. /\ OneSurface /\ Surfaces = {s}
      /\ FrameTypes /\ EntriesOK /\ ReadersOK /\ PointersOK /\ ImagesOK
      /\ UNCHANGED <<refCount, sem, saved, savedState, ft, target, live, emitted, finished, flip,
                     events, scanout, frames, faults, backbufferIdx, held, maxHeld, presentMode>>
      /\ pc[s] = "enqueue"
  BY DEF FrameInv, OneSurface, presentEnqueue, choices, gpuVars, kernelVars, countVars
<1>l. PICK l \in Nat : l = Len(queue)
  BY <1>0 DEF FrameTypes
<1>1. PICK d \in VsyncData :
        /\ Fifo!Enqueue(d)
        /\ d.s = s /\ d.i = <<s, target[s].k>>
        /\ d.flipPending = 0 /\ d.seqno = d.needs /\ d.seqno # 0
  BY EnqueuesEntry
<1>2. Fifo!Enqueue(d) /\ UNCHANGED crash /\ pc' = [pc EXCEPT ![s] = "idle"]
  BY <1>1, EnqueuesEntry
<1>3. PICK p \in Slots : /\ \A n \in 1 .. l : queue[n] # p
                        /\ queue' = Append(queue, p) /\ vsync' = [vsync EXCEPT ![p] = d]
  BY <1>l, <1>0, <1>2, EnqueueAppends DEF FrameTypes
<1>4. target[s].k \in 0 .. NumImages - 1 /\ target[s].k \notin held[s] \cup inFlight[s]
  <2>1. target[s] \in Targets /\ pc[s] \in PresentLabels
    BY <1>0 DEF FrameTypes, PresentLabels
  <2> QED
    BY <1>0, <2>1 DEF Targets, ImagesOK
<1>5. /\ d \in VsyncData /\ d.s = s /\ d.i = <<s, target[s].k>> /\ d.i[1] = s /\ d.i[2] = target[s].k
      /\ d.flipPending = 0 /\ d.seqno = d.needs /\ d.seqno # 0
  BY <1>1
<1>6. /\ queue' \in Seq(Slots) /\ Len(queue') = l + 1 /\ queue'[l + 1] = p
      /\ \A n \in 1 .. l : queue'[n] = queue[n]
      /\ queue' # << >>
  BY <1>l, <1>0, <1>3 DEF FrameTypes
<1>7. vsync' \in [Slots -> VsyncData \cup {None}]
  BY <1>l, <1>0, <1>3, <1>5 DEF FrameTypes
<1>8. /\ \A n \in 1 .. l : Entry(n)' = Entry(n)
      /\ Entry(l + 1)' = d
  <2>1. \A n \in 1 .. l : queue[n] \in Slots
    BY <1>l, <1>0, EntryTypes
  <2> QED
    BY <1>l, <1>0, <1>3, <1>6, <2>1 DEF Entry, FrameTypes
<1>9. \A n \in 1 .. Len(queue') : n \in 1 .. l \/ n = l + 1
  BY <1>l, <1>0, <1>6
<1>10. pc'[s] = "idle" /\ pc' \in [Surfaces -> {"idle"} \cup AcquireLabels \cup PresentLabels]
  BY <1>l, <1>0, <1>2 DEF FrameTypes
<1>11. /\ inFlight' \in [Surfaces -> SUBSET (0 .. NumImages - 1)]
       /\ inFlight'[s] = inFlight[s] \cup {target[s].k}
  BY <1>l, <1>0, <1>4 DEF FrameTypes
<1>12. FrameTypes'
  BY <1>l, <1>0, <1>2, <1>6, <1>7, <1>10, <1>11 DEF FrameTypes
<1>13. EntriesOK'
  <2>1. \A m, n \in 1 .. Len(queue') : queue'[m] = queue'[n] => m = n
    BY <1>l, <1>0, <1>3, <1>6, <1>9 DEF EntriesOK
  <2>2. ASSUME NEW q \in Slots PROVE vsync'[q] # None <=> \E n \in 1 .. Len(queue') : q = queue'[n]
    <3>0. /\ l + 1 \in 1 .. Len(queue')
          /\ \A n \in 1 .. l : n \in 1 .. Len(queue')
      BY <1>l, <1>0, <1>6
    <3>1. CASE q = p
      <4>1. vsync'[q] = d /\ d # None
        BY <1>l, <1>0, <1>3, <1>5, <3>1, EntriesAreNotNone DEF FrameTypes
      <4> QED
        BY <1>6, <3>0, <3>1, <4>1
    <3>2. CASE q # p
      <4>1. vsync'[q] = vsync[q]
        BY <1>l, <1>0, <1>3, <3>2 DEF FrameTypes
      <4>2. (\E n \in 1 .. Len(queue') : q = queue'[n]) <=> \E n \in 1 .. l : q = queue[n]
        BY <1>6, <1>9, <3>0, <3>2
      <4> QED
        BY <1>l, <1>0, <4>1, <4>2 DEF EntriesOK
    <3> QED
      BY <3>1, <3>2
  <2>3. ASSUME NEW n \in 1 .. Len(queue') PROVE EntryOK(n)'
    <3>1. CASE n \in 1 .. l
      BY <1>l, <1>0, <1>8, <3>1 DEF EntriesOK, EntryOK
    <3>2. CASE n = l + 1
      BY <1>l, <1>0, <1>5, <1>8, <3>2 DEF EntryOK
    <3> QED
      BY <1>9, <3>1, <3>2
  <2> QED
    BY <2>1, <2>2, <2>3 DEF EntriesOK
<1>14. queue # << >> => Entry(1)' = Entry(1) /\ queue'[1] = queue[1]
  <2>1. queue # << >> => 1 \in 1 .. l
    BY <1>l, <1>0 DEF FrameTypes
  <2> QED
    BY <1>6, <1>8, <2>1
<1>15. ReadersOK'
  BY <1>l, <1>0, <1>6, <1>10, <1>14 DEF ReadersOK, AcquireLabels, PresentLabels
<1>16. PointersOK'
  BY <1>l, <1>0, <1>6, <1>14 DEF PointersOK, Pending
<1>17. ImagesOK'
  <2>1. \A n \in 1 .. l : Entry(n).i[2] # target[s].k
    BY <1>l, <1>0, <1>4 DEF ImagesOK
  <2>2. \A m, n \in 1 .. Len(queue') : Entry(m)'.i = Entry(n)'.i => m = n
    BY <1>l, <1>0, <1>5, <1>8, <1>9, <2>1 DEF ImagesOK
  <2>3. {Entry(n)'.i[2] : n \in 1 .. Len(queue')}
          = {Entry(n).i[2] : n \in 1 .. l} \cup {target[s].k}
    <3>1. /\ l + 1 \in 1 .. Len(queue')
          /\ \A n \in 1 .. l : n \in 1 .. Len(queue')
      BY <1>l, <1>0, <1>6
    <3> QED
      BY <1>5, <1>8, <1>9, <3>1
  <2> QED
    <3>1. inFlight'[s] = {Entry(n)'.i[2] : n \in 1 .. Len(queue')}
      BY <1>l, <1>0, <1>11, <2>3 DEF ImagesOK
    <3>2. held'[s] \cap inFlight'[s] = {}
      BY <1>0, <1>4, <1>11 DEF ImagesOK
    <3> QED
      BY <1>0, <1>10, <2>2, <3>1, <3>2 DEF ImagesOK, PresentLabels
<1> QED
  BY <1>l, <1>0, <1>12, <1>13, <1>15, <1>16, <1>17 DEF FrameInv, OneSurface

-----------------------------------------------------------------------------
(* Every step of the frame loop keeps the invariant. *)
LEMMA FrameStepKeeps ==
  ASSUME FrameInv, [Running(Frames)]_vars
  PROVE  FrameInv'
<1>1. CASE UNCHANGED vars
  BY <1>1 DEF vars, fqVars, modesetVars, appVars, gpuVars, kernelVars, countVars, swapVars, FrameInv,
              OneSurface, FrameTypes, EntriesOK, EntryOK, ReadersOK, PointersOK, ImagesOK, Pending, Entry
<1>2. CASE Running(Frames)
  <2>1. Frames /\ UNCHANGED choices
    BY <1>2 DEF Running
  <2>2. CASE (submit \/ gpuFinish \/ vblank \/ flipQueueThread) /\ UNCHANGED swapVars
    BY <2>1, <2>2, SubmitKeeps, GpuFinishKeeps, VblankKeeps, WaitingKeeps, FlippingKeeps
       DEF flipQueueThread
  <2>3. ASSUME NEW s \in Surfaces, vkAcquireNextImageKHR(s) PROVE FrameInv'
    BY <2>1, <2>3, LookingKeeps, EmptyKeeps, HandlingKeeps, TakingKeeps DEF vkAcquireNextImageKHR
  <2>4. ASSUME NEW s \in Surfaces, vkQueuePresentKHR(s) PROVE FrameInv'
    BY <2>1, <2>4, PresentingKeeps, SavingKeeps, EnqueuingKeeps DEF vkQueuePresentKHR
  <2> QED
    BY <2>1, <2>2, <2>3, <2>4 DEF Frames
<1> QED
  BY <1>1, <1>2

(* With one surface, the frame loop keeps FrameInv.                        *)
THEOREM FrameInvariance == OneSurface /\ FrameSpec => []FrameInv
<1>1. OneSurface /\ FrameStart => FrameInv
  BY FrameInit
<1>2. FrameInv /\ [Running(Frames)]_vars => FrameInv'
  BY FrameStepKeeps
<1> QED
  BY <1>1, <1>2, PTL DEF FrameSpec

(* With one surface, whoever looks at the oldest entry twice finds one     *)
(* both times, and the flip thread the one it waited for; nothing dies on  *)
(* the queue (modeset.c:42-63, 404-411, 481).                              *)
THEOREM OldestEntryStays == OneSurface /\ FrameSpec => []OldestStays
<1>1. FrameInv => OldestStays
  <2> SUFFICES ASSUME FrameInv PROVE OldestStays
    OBVIOUS
  <2>0. FrameTypes /\ EntriesOK /\ ReadersOK
    BY DEF FrameInv
  <2>1. \A p \in Slots : vsync[p] # None <=> p \in Range(queue)
    BY <2>0, SMTT(40) DEF EntriesOK, FrameTypes, Range
  <2>2. TypeOK
    BY <2>0, <2>1 DEF FrameTypes, TypeOK
  <2>3. FlipsWhatItWaitedFor
    BY <2>0 DEF ReadersOK, FlipsWhatItWaitedFor, Entry
  <2> QED
    BY <2>0, <2>2, <2>3 DEF OldestStays, NoCrash, FrameTypes
<1> QED
  BY <1>1, FrameInvariance, PTL

(* With one surface, no image reaches the kernel before the GPU has        *)
(* finished what it needs (modeset.c:458-463).                             *)
THEOREM FlipsFollowRendering == OneSurface /\ FrameSpec => []FlipAfterRender
<1>1. FrameInv => FlipAfterRender
  BY DEF FrameInv, PointersOK, FlipAfterRender
<1> QED
  BY <1>1, FrameInvariance, PTL

(* With one surface, the pointer a page flip carries points to the oldest  *)
(* entry until its event is handled (modeset.c:68, 346-363).               *)
THEOREM EventsFindTheirEntry == OneSurface /\ FrameSpec => []EventFindsItsEntry
<1>1. FrameInv => EventFindsItsEntry
  <2> SUFFICES ASSUME FrameInv PROVE EventFindsItsEntry
    OBVIOUS
  <2>0. FrameTypes /\ EntriesOK /\ PointersOK
    BY DEF FrameInv
  <2> DEFINE pending == IF flip # None /\ flip.data # Null THEN <<flip.data>> ELSE << >>
             pointers == events \o pending
  <2>1. Len(pointers) <= 1 /\ Range(pointers) \subseteq {queue[1]}
        /\ (Range(pointers) # {} => queue # << >> /\ Entry(1).flipPending = 1)
    <3>1. CASE Pending
      <4>1. events = << >> /\ pending = <<flip.data>>
        BY <2>0, <3>1 DEF PointersOK, Pending
      <4>2. pointers = <<flip.data>>
        BY <4>1
      <4> HIDE DEF pointers
      <4>3. Len(pointers) = 1 /\ Range(pointers) = {flip.data}
        BY <4>2 DEF Range
      <4> QED
        BY <2>0, <3>1, <4>3 DEF PointersOK
    <3>2. CASE ~ Pending
      <4>1. pointers = events /\ events \in Seq(Slots) /\ Len(events) <= 1
        BY <2>0, <3>2 DEF Pending, FrameTypes, PointersOK
      <4> HIDE DEF pointers
      <4>2. Range(events) \subseteq {events[1]} /\ (Range(events) # {} => events # << >>)
        BY <4>1 DEF Range
      <4> QED
        BY <2>0, <4>1, <4>2 DEF PointersOK
    <3> QED
      BY <3>1, <3>2
  <2>2. queue # << >> => Fifo!Oldest = queue[1]
    BY <2>0, OldestIsFirst DEF FrameTypes
  <2> HIDE DEF pointers
  <2>3. \A p \in Range(pointers) : p = Fifo!Oldest /\ vsync[p].flipPending = 1
    BY <2>1, <2>2 DEF Entry
  <2> QED
    BY <2>1, <2>3 DEF EventFindsItsEntry, pointers
<1> QED
  BY <1>1, FrameInvariance, PTL

(* With one surface, wsi.c and modeset.c agree on which images are queued  *)
(* (wsi.c:491-501, 569).                                                   *)
THEOREM QueuedIsInFlight == OneSurface /\ FrameSpec => []InFlightIsQueued
<1>1. FrameInv => InFlightIsQueued
  <2> SUFFICES ASSUME FrameInv, NEW s \in Surfaces
               PROVE  inFlight[s] = {k \in 0 .. NumImages - 1 :
                                       \E p \in Range(queue) : vsync[p].i = <<s, k>>}
    BY DEF InFlightIsQueued
  <2>0. FrameTypes /\ EntriesOK /\ ImagesOK /\ Surfaces = {s}
    BY DEF FrameInv, OneSurface
  <2>1. \A n \in 1 .. Len(queue) : /\ Entry(n).i = <<s, Entry(n).i[2]>>
                                  /\ Entry(n).i[2] \in 0 .. NumImages - 1
    BY <2>0, EntryTypes
  <2>2. ASSUME NEW k \in 0 .. NumImages - 1
        PROVE  (\E p \in Range(queue) : vsync[p].i = <<s, k>>)
                 <=> \E n \in 1 .. Len(queue) : Entry(n).i[2] = k
    <3>1. (\E p \in Range(queue) : vsync[p].i = <<s, k>>)
            <=> \E n \in 1 .. Len(queue) : Entry(n).i = <<s, k>>
      <4>1. Range(queue) = {queue[n] : n \in 1 .. Len(queue)}
        BY <2>0 DEF Range, FrameTypes
      <4> QED
        BY <4>1 DEF Entry
    <3> QED
      BY <2>1, <3>1
  <2>3. inFlight[s] = {Entry(n).i[2] : n \in 1 .. Len(queue)}
    BY <2>0 DEF ImagesOK
  <2>4. \A k : k \in inFlight[s] <=> /\ k \in 0 .. NumImages - 1
                                    /\ \E n \in 1 .. Len(queue) : Entry(n).i[2] = k
    BY <2>1, <2>3
  <2> QED
    BY <2>2, <2>4
<1> QED
  BY <1>1, FrameInvariance, PTL

-----------------------------------------------------------------------------
(* What is on the screen, for an application that holds one image at a     *)
(* time in FIFO mode.                                                      *)

(* A step that changes nothing of the part about the screen. *)
LEMMA ScreenKept ==
  ASSUME NEW s \in Surfaces, ScreenFor(s),
         UNCHANGED <<queue, vsync, held, pc, target, flip, scanout, events, backbufferIdx>>
  PROVE  ScreenFor(s)'
BY DEF ScreenFor, HasOne, Pending, Entry

(* The display shows the image of the flip, which is the one queued.       *)
LEMMA VblankShows ==
  ASSUME FrameInv, vblank, UNCHANGED swapVars, NEW s \in Surfaces, ScreenFor(s)
  PROVE  ScreenFor(s)'
<1>1. UNCHANGED <<queue, vsync, held, pc, target, backbufferIdx>>
  BY DEF vblank, modesetVars, appVars, swapVars
<1>2. queue # << >> /\ flip.i = Entry(1).i /\ ~ HasOne(s)
  BY DEF vblank, FrameInv, PointersOK, ScreenFor
<1>3. flip' = None /\ scanout'.i = Entry(1).i
  BY <1>2 DEF vblank
<1> QED
  BY <1>1, <1>2, <1>3 DEF ScreenFor, HasOne, Pending, Entry

(* A page flip asked for is one of the entry queued.                       *)
LEMMA FlipShows ==
  ASSUME FrameInv, ftFlip, UNCHANGED swapVars, NEW s \in Surfaces, OneAtATime(s), ScreenFor(s)
  PROVE  ScreenFor(s)'
<1>1. /\ UNCHANGED <<queue, held, pc, target, scanout, events, backbufferIdx>>
      /\ Surfaces = {s} /\ FrameTypes /\ EntriesOK
  BY DEF ftFlip, appVars, swapVars, FrameInv, OneSurface
<1>2. /\ queue # << >> /\ 1 \in 1 .. Len(queue) /\ queue[1] \in Slots /\ queue[1] # Null
      /\ Entry(1) \in VsyncData
      /\ events = << >> /\ ~ Pending
  BY FlipsTheOldest
<1>3. presentMode[Entry(1).s] = "FIFO"
  BY <1>1, <1>2, EntryTypes DEF OneAtATime
<1>4. /\ vsync' = [vsync EXCEPT ![queue[1]] = [Entry(1) EXCEPT !.seqno = 0, !.flipPending = 1]]
      /\ drmModePageFlip(Entry(1), queue[1])
  BY <1>2, <1>3, FlipsTheOldest
<1>5. Entry(1)'.i = Entry(1).i /\ Entry(1)'.flipPending = 1
  BY <1>1, <1>2, <1>4 DEF Entry, FrameTypes, VsyncData
<1>6. flip = None
  BY <1>2 DEF ScreenFor
<1>7. flip' # None => Pending' /\ flip'.i = Entry(1).i
  BY <1>2, <1>4, <1>6 DEF drmModePageFlip, Pending
<1> QED
  BY <1>1, <1>2, <1>5, <1>7 DEF ScreenFor, HasOne

(* An application that acquires holds nothing. *)
LEMMA LookingShows ==
  ASSUME FrameInv, NEW s \in Surfaces, OneAtATime(s), ScreenFor(s), UNCHANGED swapVars,
         \/ Cardinality(held[s]) < maxHeld /\ acquireCall(s)
         \/ acquireLook(s) \/ acquireReread(s)
  PROVE  ScreenFor(s)'
<1>1. UNCHANGED <<queue, vsync, held, target, flip, scanout, events, backbufferIdx>>
  BY DEF acquireCall, acquireLook, acquireReread, swapVars, modesetVars, kernelVars
<1>2. FrameTypes
  BY DEF FrameInv
<1>3. held[s] = {}
  <2>1. CASE Cardinality(held[s]) < maxHeld
    <3>1. IsFiniteSet(held[s])
      <4>1. PICK N \in Int : N = NumImages - 1
        BY FlipQueueAssumption
      <4>2. IsFiniteSet(0 .. N) /\ held[s] \subseteq 0 .. N
        BY <1>2, <4>1, FS_Interval, 0 \in Int DEF FrameTypes
      <4> QED
        BY <4>2, FS_Subset
    <3>2. Cardinality(held[s]) \in Nat
      BY <3>1, FS_CardinalityType
    <3>3. Cardinality(held[s]) = 0
      BY <2>1, <3>2 DEF OneAtATime
    <3> QED
      BY <3>1, <3>3, FS_EmptySet
  <2>2. CASE acquireLook(s) \/ acquireReread(s)
    BY <2>2 DEF acquireLook, acquireReread, ScreenFor, AcquireLabels
  <2> QED
    BY <2>1, <2>2
<1>4. pc'[s] \notin PresentLabels /\ pc[s] \notin PresentLabels
  <2>1. PICK label : pc' = [pc EXCEPT ![s] = label] /\ label \notin PresentLabels
    <3>1. CASE acquireCall(s)
      <4>1. pc' = [pc EXCEPT ![s] = "look"]
        BY <3>1 DEF acquireCall, Goto
      <4>2. "look" \notin PresentLabels
        BY DEF PresentLabels
      <4> QED
        BY <4>1, <4>2, Zenon
    <3>2. CASE acquireLook(s) \/ acquireReread(s)
      <4>1. queue # << >>
        BY <3>2 DEF acquireLook, acquireReread, FrameInv, ReadersOK, AcquireLabels
      <4>2. pc' = [pc EXCEPT ![s] = acquireNext(vsync[Fifo!Oldest])]
        BY <3>2, <4>1 DEF acquireLook, acquireReread, Goto
      <4>3. acquireNext(vsync[Fifo!Oldest]) \notin PresentLabels
        BY DEF acquireNext, PresentLabels
      <4> QED
        BY <4>2, <4>3, Zenon
    <3> QED
      BY <3>1, <3>2
  <2>2. pc[s] \notin PresentLabels
    BY DEF acquireCall, acquireLook, acquireReread, PresentLabels
  <2> QED
    BY <1>2, <2>1, <2>2 DEF FrameTypes
<1> QED
  BY <1>1, <1>3, <1>4 DEF ScreenFor, HasOne, Pending, Entry

(* Reading the event says that the image queued is shown. *)
LEMMA HandlingShows ==
  ASSUME FrameInv, NEW s \in Surfaces, ScreenFor(s), UNCHANGED swapVars, acquireHandle(s)
  PROVE  ScreenFor(s)'
<1>1. /\ UNCHANGED <<queue, held, target, flip, scanout, backbufferIdx>>
      /\ FrameTypes /\ pc[s] = "handle" /\ pc' = [pc EXCEPT ![s] = "reread"]
  BY DEF acquireHandle, swapVars, FrameInv, Goto
<1>2. /\ queue # << >> /\ events # << >> /\ events' = << >> /\ ~ Pending
      /\ queue[1] \in Slots /\ Entry(1) \in VsyncData
      /\ vsync' = [vsync EXCEPT ![queue[1]] = [Entry(1) EXCEPT !.flipPending = 0]]
  BY HandlesTheOldest
<1>3. Entry(1)'.i = Entry(1).i /\ Entry(1)'.seqno = Entry(1).seqno
  BY <1>1, <1>2 DEF Entry, FrameTypes, VsyncData
<1>4. pc'[s] = "reread" /\ held[s] = {} /\ flip = None
  BY <1>1, <1>2 DEF FrameTypes, ScreenFor, AcquireLabels
<1> QED
  BY <1>1, <1>2, <1>3, <1>4 DEF ScreenFor, HasOne, PresentLabels

(* The first image acquired is not shown: nothing of the driver is.        *)
LEMMA EmptyShows ==
  ASSUME FrameInv, NEW s \in Surfaces, ScreenFor(s), acquireEmpty(s), chooseImage(s, None)
  PROVE  ScreenFor(s)'
<1>1. /\ UNCHANGED <<queue, vsync, target, flip, scanout, events>>
      /\ FrameTypes /\ ImagesOK /\ pc[s] = "look" /\ pc' = [pc EXCEPT ![s] = "idle"]
      /\ queue = << >>
  BY DEF acquireEmpty, FrameInv, Goto, modesetVars, kernelVars
<1>2. /\ StillFlying(s, None) = {}
      /\ \E k \in 0 .. NumImages - 1 : k \notin StillFlying(s, None)
  <2>1. inFlight[s] = {}
    BY <1>1 DEF ImagesOK
  <2> QED
    BY <2>1, FlipQueueAssumption DEF StillFlying
<1>3. held[s] = {} /\ ~ HasOne(s) /\ flip = None /\ scanout = Console
  <2>1. held[s] = {} /\ ~ HasOne(s)
    BY <1>1 DEF ScreenFor, HasOne, AcquireLabels, PresentLabels
  <2>2. ~ Pending
    BY <1>1 DEF FrameInv, PointersOK
  <2> QED
    BY <1>1, <2>1, <2>2 DEF ScreenFor
<1>4. held'[s] = {backbufferIdx'[s]}
  BY <1>2, <1>3, ChosenIsFree
<1>5. pc'[s] = "idle" /\ Console.i # <<s, backbufferIdx'[s]>>
  BY <1>1 DEF FrameTypes, Console, None
<1> QED
  BY <1>1, <1>3, <1>4, <1>5 DEF ScreenFor, HasOne, AcquireLabels, PresentLabels

(* The image acquired is another one than the image given back, which is   *)
(* the one shown.                                                          *)
LEMMA TakingShows ==
  ASSUME FrameInv, NumImages > 1, NEW s \in Surfaces, ScreenFor(s), NEW i,
         acquireTake(s, i), chooseImage(s, i)
  PROVE  ScreenFor(s)'
<1>1. /\ UNCHANGED <<target, flip, scanout, events>>
      /\ FrameTypes /\ ImagesOK /\ pc[s] = "take" /\ pc' = [pc EXCEPT ![s] = "idle"]
      /\ backbufferIdx[s] \in 0 .. NumImages - 1
  BY DEF acquireTake, FrameInv, FrameTypes, Goto, kernelVars
<1>2. /\ queue # << >> /\ Entry(1).seqno = 0 /\ Entry(1).flipPending = 0
      /\ queue' = Tail(queue) /\ ~ Pending
      /\ StillFlying(s, i) = inFlight[s] \ {Entry(1).i[2]}
  BY TakesTheOldest
<1>3. /\ held[s] = {} /\ flip = None /\ scanout.i = <<s, backbufferIdx[s]>>
      /\ Len(queue) <= 1
  BY <1>1, <1>2 DEF ScreenFor, AcquireLabels
<1>4. Len(queue) = 1 /\ queue' = << >>
  <2>1. PICK q \in Seq(Slots) : q = queue
    BY <1>1 DEF FrameTypes
  <2> QED
    BY <1>2, <1>3, <2>1, OneElement
<1>5. StillFlying(s, i) = {}
  <2>1. inFlight[s] = {Entry(n).i[2] : n \in {1}}
    BY <1>1, <1>4 DEF ImagesOK
  <2> QED
    BY <1>2, <2>1
<1>6. \E k \in 0 .. NumImages - 1 : k \notin StillFlying(s, i)
  BY <1>1, <1>5
<1>7. held'[s] = {backbufferIdx'[s]} /\ backbufferIdx'[s] = nextIdx(backbufferIdx[s], {})
  BY <1>3, <1>5, <1>6, ChosenIsFree
<1>8. backbufferIdx'[s] # backbufferIdx[s]
  BY <1>1, <1>7, NextIsNext
<1>9. pc'[s] = "idle"
  BY <1>1 DEF FrameTypes
<1> QED
  BY <1>1, <1>3, <1>4, <1>7, <1>8, <1>9 DEF ScreenFor, HasOne, AcquireLabels, PresentLabels

(* The image presented is the one held. *)
LEMMA PresentingShows ==
  ASSUME FrameInv, NEW s \in Surfaces, ScreenFor(s), NEW k \in held[s],
         presentCall(s, k), held' = [held EXCEPT ![s] = @ \ {k}], UNCHANGED <<backbufferIdx, inFlight>>
  PROVE  ScreenFor(s)'
<1>1. /\ UNCHANGED <<queue, vsync, flip, scanout, events>> /\ FrameTypes
      /\ target' = [target EXCEPT ![s] = [k |-> k, frame |-> frames + 1, seqno |-> emitted]]
  BY DEF presentCall, modesetVars, kernelVars, FrameInv
<1>2. target'[s].k = k /\ held'[s] = held[s] \ {k}
  BY <1>1 DEF FrameTypes
<1>3. k = backbufferIdx[s] /\ held'[s] = {} /\ queue = << >> /\ flip = None
  <2>1. held[s] \subseteq {backbufferIdx[s]} /\ HasOne(s)
    BY DEF ScreenFor, HasOne
  <2>2. queue = << >> /\ (flip # None => Pending)
    BY <2>1 DEF ScreenFor
  <2> QED
    BY <1>2, <2>1, <2>2 DEF FrameInv, PointersOK
<1>4. pc'[s] \in PresentLabels
  BY <1>1 DEF presentCall, Goto, PresentLabels, FrameTypes
<1> QED
  BY <1>1, <1>2, <1>3, <1>4 DEF ScreenFor, HasOne

(* The first image presented is shown before it is queued. *)
LEMMA SavingShows ==
  ASSUME FrameInv, NEW s \in Surfaces, ScreenFor(s), presentSave(s), UNCHANGED swapVars
  PROVE  ScreenFor(s)'
<1>1. /\ UNCHANGED <<queue, vsync, held, target, flip, events, backbufferIdx>> /\ FrameTypes
      /\ pc[s] = "save" /\ pc' = [pc EXCEPT ![s] = "enqueue"] /\ flip = None
  BY DEF presentSave, swapVars, FrameInv, Goto
<1>2. pc[s] \in PresentLabels /\ pc'[s] \in PresentLabels
  BY <1>1 DEF PresentLabels, FrameTypes
<1>3. queue = << >> /\ held[s] = {} /\ target[s].k = backbufferIdx[s]
  BY <1>2 DEF ScreenFor, HasOne
<1> QED
  BY <1>1, <1>2, <1>3 DEF ScreenFor, HasOne

(* The image queued is the one acquired last. *)
LEMMA EnqueuingShows ==
  ASSUME FrameInv, NEW s \in Surfaces, ScreenFor(s), presentEnqueue(s),
         UNCHANGED <<backbufferIdx, held>>
  PROVE  ScreenFor(s)'
<1>1. /\ UNCHANGED <<target, flip, scanout, events>> /\ FrameTypes /\ pc[s] = "enqueue"
  BY DEF presentEnqueue, kernelVars, FrameInv
<1>2. pc[s] \in PresentLabels
  BY <1>1 DEF PresentLabels
<1>3. /\ queue = << >> /\ held[s] = {} /\ target[s].k = backbufferIdx[s]
      /\ (flip # None => Pending)
  BY <1>2 DEF ScreenFor, HasOne
<1>4. flip = None
  BY <1>3 DEF FrameInv, PointersOK
<1>5. PICK d \in VsyncData : Fifo!Enqueue(d) /\ d.i = <<s, target[s].k>> /\ d.seqno # 0
  BY EnqueuesEntry
<1>6. PICK p \in Slots : queue' = Append(queue, p) /\ vsync' = [vsync EXCEPT ![p] = d]
  BY <1>1, <1>5, EnqueueAppends DEF FrameTypes
<1>7. queue' = <<p>>
  BY <1>3, <1>6
<1>8. Len(queue') = 1 /\ queue' # << >> /\ Entry(1)' = d
  BY <1>1, <1>6, <1>7 DEF Entry, FrameTypes
<1>9. pc'[s] = "idle"
  BY <1>1, EnqueuesEntry DEF FrameTypes
<1> QED
  BY <1>1, <1>3, <1>4, <1>5, <1>8, <1>9 DEF ScreenFor, HasOne, AcquireLabels, PresentLabels

(* Every step keeps the part about the screen. *)
LEMMA ScreenStepShows ==
  ASSUME FrameInv, NumImages > 1, NEW s \in Surfaces, OneAtATime(s), ScreenFor(s), Running(Frames)
  PROVE  ScreenFor(s)'
<1>1. Frames /\ Surfaces = {s}
  BY DEF Running, FrameInv, OneSurface
<1>2. CASE (submit \/ gpuFinish \/ ftLook \/ ftSleep \/ ftWake \/ ftWait) /\ UNCHANGED swapVars
  BY <1>2, ScreenKept DEF submit, gpuFinish, ftLook, ftSleep, ftWake, ftWait, swapVars, modesetVars,
                         appVars, kernelVars
<1>3. CASE (vblank \/ ftFlip) /\ UNCHANGED swapVars
  BY <1>3, VblankShows, FlipShows
<1>4. CASE vkAcquireNextImageKHR(s)
  BY <1>4, LookingShows, EmptyShows, HandlingShows, TakingShows DEF vkAcquireNextImageKHR
<1>5. CASE vkQueuePresentKHR(s)
  BY <1>5, PresentingShows, SavingShows, EnqueuingShows DEF vkQueuePresentKHR
<1> QED
  BY <1>1, <1>2, <1>3, <1>4, <1>5 DEF Frames, flipQueueThread

(* An application with one surface and two images or more, which presents  *)
(* in FIFO mode each image before it acquires the next, is never given one *)
(* that is on the screen or about to be (wsi.c:503-515).                   *)
THEOREM AcquiredIsNotShown ==
  OneSurface /\ NumImages > 1 /\ FrameSpec => []AcquiredNotShown
<1>1. OneSurface /\ FrameStart => FrameInv /\ ScreenOK
  BY FrameInit
<1>2. FrameInv /\ NumImages > 1 /\ ScreenOK /\ [Running(Frames)]_vars => FrameInv' /\ ScreenOK'
  <2> SUFFICES ASSUME FrameInv, NumImages > 1, ScreenOK, [Running(Frames)]_vars,
                      NEW s \in Surfaces, OneAtATime(s)'
               PROVE  ScreenFor(s)'
    BY FrameStepKeeps DEF ScreenOK
  <2>1. OneAtATime(s) /\ ScreenFor(s)
    BY DEF OneAtATime, ScreenOK, Running, choices, vars, fqVars
  <2>2. CASE UNCHANGED vars
    BY <2>1, <2>2, ScreenKept DEF vars, fqVars, modesetVars, appVars, kernelVars, swapVars
  <2>3. CASE Running(Frames)
    BY <2>1, <2>3, ScreenStepShows
  <2> QED
    BY <2>2, <2>3
<1>3. FrameInv /\ ScreenOK => AcquiredNotShown
  <2> SUFFICES ASSUME FrameInv, ScreenOK, NEW s \in Surfaces, NEW k \in held[s], OneAtATime(s)
               PROVE  scanout.i # <<s, k>> /\ flip = None
    BY DEF AcquiredNotShown, OneAtATime
  <2>1. ScreenFor(s) /\ HasOne(s)
    BY DEF ScreenOK, HasOne
  <2>2. k = backbufferIdx[s] /\ queue = << >> /\ scanout.i # <<s, backbufferIdx[s]>>
    BY <2>1 DEF ScreenFor
  <2>3. ~ Pending
    BY <2>2 DEF FrameInv, PointersOK
  <2> QED
    BY <2>1, <2>2, <2>3 DEF ScreenFor
<1> DEFINE Inv == FrameInv /\ ScreenOK
           Many == NumImages > 1
<1>4. Many /\ Inv /\ [Running(Frames)]_vars => Inv'
  BY <1>2
<1>5. Inv => AcquiredNotShown
  BY <1>3
<1>6. OneSurface /\ FrameStart => Inv
  BY <1>1
<1> HIDE DEF Inv, Many
<1>7. OneSurface /\ Many /\ FrameSpec => []Inv
  <2>1. CASE Many
    <3>1. Inv /\ [Running(Frames)]_vars => Inv'
      BY <1>4, <2>1
    <3> QED
      BY <1>6, <3>1, PTL DEF FrameSpec
  <2>2. CASE ~ Many
    BY <2>2
  <2> QED
    BY <2>1, <2>2
<1>8. OneSurface /\ Many /\ FrameSpec => []AcquiredNotShown
  BY <1>5, <1>7, PTL
<1> QED
  BY <1>8 DEF Many

-----------------------------------------------------------------------------
(* Surfaces that come and go.                                             *)

LiveLabels == {"idle"} \cup AcquireLabels \cup PresentLabels
EndedLabels == {"closing", "destroyFifo", "join", "gone"}
ChangingLabels == {"semInit", "count", "destroyFifo", "join"}
CountedLabels == {"noSwapchain", "closing"} \cup LiveLabels
Labels == {"none", "noSwapchain"} \cup LiveLabels \cup EndedLabels \cup ChangingLabels

(* Surfaces that have or had a swapchain, or are gone. *)
known == live \cup ended

LifeTypes ==
  /\ queue \in Seq(Slots)
  /\ vsync \in [Slots -> VsyncData \cup {None}]
  /\ savedState \in [Surfaces -> 0 .. SavedSlots - 1] /\ DOMAIN saved = 0 .. SavedSlots - 1
  /\ DOMAIN ft = {"pc", "seqno", "run", "lastFinished"}
  /\ pc \in [Surfaces -> Labels]
  /\ IsFiniteSet({s \in Surfaces : pc[s] # "none"})
  /\ target \in [Surfaces -> Targets]
  /\ live = {s \in Surfaces : pc[s] \in LiveLabels}
  /\ emitted \in 0 .. MaxSeqno /\ frames \in 0 .. MaxFrames
  /\ backbufferIdx \in [Surfaces -> 0 .. NumImages - 1]
  /\ inFlight \in [Surfaces -> SUBSET (0 .. NumImages - 1)]
  /\ held \in [Surfaces -> SUBSET (0 .. NumImages - 1)]
  /\ \A s \in Surfaces : pc[s] \in PresentLabels => target[s].frame # 0

(* One surface is created or destroyed at a time, and without surfaces     *)
(* there is no flip thread.                                                *)
CountOK ==
  /\ refCount = Cardinality(counted)
  /\ \A s, t \in changing : s = t
  /\ counted = {} /\ changing = {} => ft.pc = "none"

(* The queue holds entries, each once, of surfaces that had a swapchain.   *)
QueueOK ==
  /\ \A m, n \in 1 .. Len(queue) : queue[m] = queue[n] => m = n
  /\ \A n \in 1 .. Len(queue) : Entry(n) \in VsyncData /\ Entry(n).s \in known

(* What a thread found in the queue is still there, unless another surface *)
(* took it or a surface is ended.                                          *)
Alone(s) == known = {s}
StillThere ==
  /\ ft.pc \in {"wait", "flip"} =>
       \/ queue # << >> /\ Entry(1).seqno = ft.seqno /\ ft.seqno # 0
       \/ ended # {} \/ \E s, t \in live : s # t
  /\ \A s \in Surfaces :
       /\ pc[s] \in AcquireLabels \ {"look"} /\ Alone(s) => queue # << >>
       /\ pc[s] = "take" /\ Alone(s) => Entry(1).seqno = 0

(* The images the application has or is about to queue; with those queued  *)
(* they are no more than the surfaces' images.                             *)
Out == {x \in Images : \/ x[2] \in held[x[1]]
                       \/ pc[x[1]] \in PresentLabels /\ x[2] = target[x[1]].k}
RoomOK ==
  /\ \A s \in Surfaces : /\ held[s] # {} => s \in known
                         /\ pc[s] \in PresentLabels => target[s].k \notin held[s]
  /\ Len(queue) + Cardinality(Out) <= NumImages * Cardinality(known)

LifeInv == LifeTypes /\ CountOK /\ SavedStatesDistinct /\ QueueOK /\ StillThere /\ RoomOK

(* What the steps of a frame leave alone.                                  *)
Unmoved == counted' = counted /\ changing' = changing /\ ended' = ended /\ live' = live

(* What surfaces that come and go leave behind.                            *)
Grown == known \subseteq known' /\ ended \subseteq ended' /\ (live \subseteq live' \/ ended' # {})

-----------------------------------------------------------------------------
(* Lemmas about the sets of surfaces.                                      *)

(* The sets are finite, the surfaces being created by one thread.          *)
LEMMA SetsAreFinite ==
  ASSUME LifeTypes
  PROVE  IsFiniteSet(counted) /\ IsFiniteSet(known) /\ known \subseteq Surfaces
<1>1. /\ counted \in SUBSET {s \in Surfaces : pc[s] # "none"}
      /\ known \in SUBSET {s \in Surfaces : pc[s] # "none"}
  BY DEF LifeTypes, counted, known, ended, LiveLabels, AcquireLabels, PresentLabels
<1> QED
  BY <1>1, FS_Subset DEF LifeTypes

(* The set counted, by the labels it has.                                  *)
LEMMA CountedByLabel ==
  ASSUME pc \in [Surfaces -> Labels]
  PROVE  counted = {s \in Surfaces : pc[s] \in CountedLabels}
BY DEF counted, CountedLabels, Labels, LiveLabels, EndedLabels, ChangingLabels, AcquireLabels,
       PresentLabels

(* A thread that goes from one label to another.                           *)
LEMMA LabelMoves ==
  ASSUME LifeTypes, NEW s \in Surfaces, NEW l \in Labels, pc' = [pc EXCEPT ![s] = l]
  PROVE  /\ pc' \in [Surfaces -> Labels] /\ pc'[s] = l
         /\ \A t \in Surfaces : t # s => pc'[t] = pc[t]
         /\ IsFiniteSet({t \in Surfaces : pc'[t] # "none"})
<1>1. /\ pc' \in [Surfaces -> Labels] /\ pc'[s] = l
      /\ \A t \in Surfaces : t # s => pc'[t] = pc[t]
  BY DEF LifeTypes
<1>2. IsFiniteSet({t \in Surfaces : pc[t] # "none"} \cup {s})
  BY FS_AddElement DEF LifeTypes
<1>3. {t \in Surfaces : pc'[t] # "none"} \in SUBSET ({t \in Surfaces : pc[t] # "none"} \cup {s})
  BY <1>1
<1> QED
  BY <1>1, <1>2, <1>3, FS_Subset

(* Within a frame no surface comes or goes.                                *)
LEMMA LabelsKept ==
  ASSUME LifeTypes, NEW s \in Surfaces, NEW l \in LiveLabels, pc[s] \in LiveLabels,
         pc' = [pc EXCEPT ![s] = l], UNCHANGED live
  PROVE  /\ Unmoved /\ live' = {t \in Surfaces : pc'[t] \in LiveLabels}
         /\ pc' \in [Surfaces -> Labels] /\ pc'[s] = l
         /\ \A t \in Surfaces : t # s => pc'[t] = pc[t]
         /\ IsFiniteSet({t \in Surfaces : pc'[t] # "none"})
<1>1. l \in Labels
  BY DEF Labels
<1>2. /\ pc' \in [Surfaces -> Labels] /\ pc'[s] = l
      /\ \A t \in Surfaces : t # s => pc'[t] = pc[t]
      /\ IsFiniteSet({t \in Surfaces : pc'[t] # "none"})
  BY <1>1, LabelMoves
<1>3. live' = {t \in Surfaces : pc'[t] \in LiveLabels}
  BY <1>2 DEF LifeTypes
<1>4. l \notin ChangingLabels /\ pc[s] \notin ChangingLabels
      /\ l \notin EndedLabels /\ pc[s] \notin EndedLabels
  BY DEF LiveLabels, ChangingLabels, EndedLabels, AcquireLabels, PresentLabels
<1>5. changing' = changing /\ ended' = ended
  BY <1>2, <1>4 DEF changing, ended, ChangingLabels, EndedLabels
<1>6. counted' = counted
  <2>1. l \notin {"none", "semInit", "count", "destroyFifo", "join", "gone"}
        /\ pc[s] \notin {"none", "semInit", "count", "destroyFifo", "join", "gone"}
    BY DEF LiveLabels, AcquireLabels, PresentLabels
  <2> QED
    BY <1>2, <2>1 DEF counted
<1> QED
  BY <1>2, <1>3, <1>5, <1>6 DEF Unmoved

-----------------------------------------------------------------------------
(* What each part of the invariant depends on.                             *)

(* The count and the saved states, within a frame.                         *)
LEMMA CountKept ==
  ASSUME CountOK, SavedStatesDistinct, Unmoved, UNCHANGED <<refCount, saved, savedState>>,
         ft.pc = "none" => ft'.pc = "none"
  PROVE  CountOK' /\ SavedStatesDistinct'
BY DEF CountOK, SavedStatesDistinct, Unmoved

(* The queue: on the surfaces its entries are of.                          *)
LEMMA QueueKept ==
  ASSUME QueueOK, UNCHANGED queue, known \subseteq known',
         \A n \in 1 .. Len(queue) : Entry(n)' \in VsyncData /\ Entry(n)'.s = Entry(n).s
  PROVE  QueueOK'
BY DEF QueueOK

(* A surface that is alone was alone before.                               *)
LEMMA AloneBefore ==
  ASSUME Grown, NEW s \in known, Alone(s)'
  PROVE  Alone(s)
BY DEF Grown, Alone

(* What is still there, when the queue stays the same.                     *)
LEMMA StillKept ==
  ASSUME LifeTypes, StillThere, UNCHANGED <<queue, vsync>>, Grown,
         ft' = ft \/ ft'.pc \notin {"wait", "flip"},
         \A s \in Surfaces : pc'[s] \in AcquireLabels \ {"look"} => pc'[s] = pc[s]
  PROVE  StillThere'
<1>1. ASSUME NEW s \in Surfaces, pc'[s] \in AcquireLabels \ {"look"}, Alone(s)'
      PROVE  pc'[s] = pc[s] /\ Alone(s)
  <2>1. pc'[s] = pc[s] /\ s \in known
    BY <1>1 DEF LifeTypes, known, LiveLabels
  <2> QED
    BY <1>1, <2>1, AloneBefore
<1>2. Entry(1)' = Entry(1)
  BY DEF Entry
<1>3. (ft.pc \in {"wait", "flip"} =>
        \/ queue # << >> /\ Entry(1).seqno = ft.seqno /\ ft.seqno # 0
        \/ ended # {} \/ \E s, t \in live : s # t)'
  BY <1>2 DEF StillThere, Grown
<1>4. (\A s \in Surfaces :
        /\ pc[s] \in AcquireLabels \ {"look"} /\ Alone(s) => queue # << >>
        /\ pc[s] = "take" /\ Alone(s) => Entry(1).seqno = 0)'
  <2>1. "take" \in AcquireLabels \ {"look"}
    BY DEF AcquireLabels
  <2> QED
    BY <1>1, <1>2, <2>1 DEF StillThere
<1> QED
  BY <1>3, <1>4 DEF StillThere

(* Images of known surfaces are finitely many.                             *)
LEMMA OutsAreImages ==
  ASSUME LifeTypes, NEW S, S \subseteq known \X (0 .. NumImages - 1)
  PROVE  /\ IsFiniteSet(S) /\ Cardinality(S) \in Nat /\ Cardinality(known) \in Nat
         /\ Cardinality(S) <= NumImages * Cardinality(known)
<1>1. NumImages \in Nat \ {0} /\ IsFiniteSet(known) /\ Cardinality(known) \in Nat
  BY FlipQueueAssumption, SetsAreFinite, FS_CardinalityType
<1>2. IsFiniteSet(0 .. NumImages - 1) /\ Cardinality(0 .. NumImages - 1) = NumImages
  <2>1. PICK n \in Int : n = NumImages - 1
    BY <1>1
  <2>2. IsFiniteSet(0 .. n) /\ Cardinality(0 .. n) = IF 0 > n THEN 0 ELSE n - 0 + 1
    BY FS_Interval, 0 \in Int
  <2> QED
    BY <1>1, <2>1, <2>2
<1>3. PICK all : all = known \X (0 .. NumImages - 1)
  OBVIOUS
<1>4. IsFiniteSet(all) /\ Cardinality(all) = Cardinality(known) * NumImages
  BY <1>1, <1>2, <1>3, FS_Product
<1>5. IsFiniteSet(S) /\ Cardinality(S) <= Cardinality(all) /\ Cardinality(S) \in Nat
  BY <1>3, <1>4, FS_Subset, FS_CardinalityType
<1> QED
  BY <1>1, <1>4, <1>5

(* The images that are out are images of surfaces that are known.          *)
LEMMA OutIsFinite ==
  ASSUME LifeTypes, RoomOK
  PROVE  /\ IsFiniteSet(Out) /\ Cardinality(Out) \in Nat /\ Cardinality(known) \in Nat
<1>1. ASSUME NEW x \in Out PROVE x \in known \X (0 .. NumImages - 1)
  <2>1. x[1] \in Surfaces /\ x[2] \in 0 .. NumImages - 1 /\ x = <<x[1], x[2]>>
    BY DEF Out, Images
  <2>2. x[1] \in known
    <3>1. CASE x[2] \in held[x[1]]
      BY <2>1, <3>1 DEF RoomOK
    <3>2. CASE pc[x[1]] \in PresentLabels
      BY <2>1, <3>2 DEF LifeTypes, LiveLabels, known
    <3> QED
      BY <1>1, <3>1, <3>2 DEF Out
  <2> QED
    BY <2>1, <2>2
<1> QED
  BY <1>1, OutsAreImages

(* With more surfaces known there are no fewer images.                     *)
LEMMA MoreImages ==
  ASSUME NEW S, NEW T, S \subseteq T, IsFiniteSet(T)
  PROVE  NumImages * Cardinality(S) <= NumImages * Cardinality(T)
<1>1. Cardinality(S) <= Cardinality(T) /\ Cardinality(S) \in Nat /\ Cardinality(T) \in Nat
  BY FS_Subset, FS_CardinalityType
<1>2. PICK a \in Nat, b \in Nat : a = Cardinality(S) /\ b = Cardinality(T)
  BY <1>1
<1>3. NumImages \in Nat /\ b - a \in Nat
  BY <1>1, <1>2, FlipQueueAssumption
<1>4. NumImages * b = NumImages * a + NumImages * (b - a) /\ NumImages * (b - a) \in Nat
  BY <1>3
<1> QED
  BY <1>2, <1>3, <1>4

(* The room in the queue, when no image changes hands.                     *)
LEMMA RoomKept ==
  ASSUME LifeTypes, RoomOK, UNCHANGED <<held, target>>, queue' \in Seq(Slots),
         Len(queue') <= Len(queue), known \subseteq known', IsFiniteSet(known'),
         \A s \in Surfaces : pc'[s] \in PresentLabels <=> pc[s] \in PresentLabels
  PROVE  RoomOK'
<1>1. Out' = Out
  BY DEF Out, Images
<1>2. \A s \in Surfaces : /\ held'[s] # {} => s \in known'
                          /\ pc'[s] \in PresentLabels => target'[s].k \notin held'[s]
  BY DEF RoomOK
<1>3. PICK a \in Int, b \in Int : a = NumImages * Cardinality(known) /\ b = NumImages * Cardinality(known')
  <2>1. Cardinality(known) \in Nat /\ Cardinality(known') \in Nat
    BY OutIsFinite, FS_CardinalityType
  <2> QED
    BY <2>1, FlipQueueAssumption
<1>4. a <= b
  BY <1>3, MoreImages
<1>5. Len(queue) + Cardinality(Out) <= a /\ Cardinality(Out) \in Nat
  BY <1>3, OutIsFinite DEF RoomOK
<1>6. Len(queue) \in Nat /\ Len(queue') \in Nat
  BY DEF LifeTypes
<1>7. Len(queue') + Cardinality(Out') <= b
  BY <1>1, <1>4, <1>5, <1>6
<1> QED
  BY <1>2, <1>3, <1>7 DEF RoomOK

(* No thread of the application moves.                                     *)
LEMMA NobodyMoves ==
  ASSUME UNCHANGED <<pc, live>>
  PROVE  Unmoved /\ Grown /\ known' = known
BY DEF Unmoved, Grown, counted, changing, ended, known

-----------------------------------------------------------------------------
(* The GPU, the display and the flip thread.                               *)

(* Work is submitted or finished, or the screen changes.                   *)
LEMMA OutsideKeeps ==
  ASSUME LifeInv, submit \/ gpuFinish \/ vblank, UNCHANGED swapVars
  PROVE  LifeInv' /\ UNCHANGED crash
<1>0. /\ LifeTypes /\ CountOK /\ SavedStatesDistinct /\ QueueOK /\ StillThere /\ RoomOK
      /\ UNCHANGED <<refCount, queue, vsync, saved, savedState, pc, target, live, ft, frames, crash,
                     backbufferIdx, inFlight, held>>
      /\ emitted' = emitted \/ (emitted < MaxSeqno /\ emitted' = emitted + 1)
  BY DEF LifeInv, submit, gpuFinish, vblank, swapVars, modesetVars, appVars, gpuVars, kernelVars,
         countVars
<1>1. Unmoved /\ Grown /\ known' = known
  BY <1>0, NobodyMoves
<1>2. LifeTypes'
  <2>1. emitted' \in 0 .. MaxSeqno
    BY <1>0, FlipQueueAssumption DEF LifeTypes
  <2> QED
    BY <1>0, <2>1 DEF LifeTypes
<1>3. CountOK' /\ SavedStatesDistinct'
  BY <1>0, <1>1, CountKept
<1>4. QueueOK'
  BY <1>0, <1>1 DEF QueueOK, Entry
<1>5. StillThere'
  BY <1>0, <1>1, StillKept
<1>6. RoomOK'
  BY <1>0, <1>1, SetsAreFinite, RoomKept DEF LifeTypes
<1> QED
  BY <1>0, <1>2, <1>3, <1>4, <1>5, <1>6 DEF LifeInv

(* The flip thread looks, sleeps or waits.                                 *)
LEMMA ThreadKeeps ==
  ASSUME LifeInv, ftLook \/ ftSleep \/ ftWake \/ ftWait, UNCHANGED swapVars
  PROVE  LifeInv' /\ UNCHANGED crash
<1>0. /\ LifeTypes /\ CountOK /\ SavedStatesDistinct /\ QueueOK /\ StillThere /\ RoomOK
      /\ UNCHANGED <<refCount, queue, vsync, saved, savedState, pc, target, live, emitted, frames, crash,
                     backbufferIdx, inFlight, held>>
  BY DEF LifeInv, ftLook, ftSleep, ftWake, ftWait, swapVars, modesetVars, appVars, gpuVars, kernelVars,
         countVars
<1>1. Unmoved /\ Grown /\ known' = known /\ Entry(1)' = Entry(1)
  BY <1>0, NobodyMoves DEF Entry
<1>2. DOMAIN ft = {"pc", "seqno", "run", "lastFinished"}
  BY <1>0 DEF LifeTypes
<1>3. /\ DOMAIN ft' = DOMAIN ft /\ ft.pc # "none"
      /\ \/ ft'.pc \notin {"wait", "flip"}
         \/ queue # << >> /\ Entry(1).seqno = ft'.seqno /\ ft'.seqno # 0
         \/ ft.pc = "wait" /\ ft'.seqno = ft.seqno
  <2>1. CASE ftLook
    <3>1. PICK x, run : /\ ft' = [ft EXCEPT !.seqno = x, !.run = run,
                                           !.pc = IF x > 0 THEN "wait" ELSE loopOn(run)]
                        /\ x = IF Fifo!Oldest = Null THEN 0 ELSE vsync[Fifo!Oldest].seqno
      BY <2>1 DEF ftLook
    <3>2. /\ DOMAIN ft' = DOMAIN ft /\ ft'.seqno = x
          /\ ft'.pc = IF x > 0 THEN "wait" ELSE loopOn(run)
      BY <1>2, <3>1
    <3>3. x > 0 => x # 0
      OBVIOUS
    <3>4. x > 0 => queue # << >> /\ Entry(1).seqno = x
      <4>1. Fifo!Oldest = IF queue = << >> THEN Null ELSE queue[1]
        BY <1>0, OldestIsFirst DEF LifeTypes
      <4> QED
        BY <3>1, <4>1 DEF Entry
    <3>5. ft.pc # "none"
      BY <2>1 DEF ftLook
    <3> QED
      BY <3>2, <3>3, <3>4, <3>5 DEF loopOn
  <2>2. CASE ftSleep \/ ftWake
    <3>1. ft' = [ft EXCEPT !.pc = "asleep"] \/ ft' = [ft EXCEPT !.pc = "look"]
      BY <2>2 DEF ftSleep, ftWake
    <3>2. DOMAIN ft' = DOMAIN ft /\ ft'.pc \notin {"wait", "flip"}
      BY <1>2, <3>1
    <3> QED
      BY <2>2, <3>2 DEF ftSleep, ftWake
  <2>3. CASE ftWait
    <3>1. \/ ft' = [ft EXCEPT !.pc = "flip",
                            !.lastFinished = IF @ >= ft.seqno THEN @ ELSE ft.seqno]
          \/ ft' = [ft EXCEPT !.pc = loopOn(ft.run)]
      BY <2>3 DEF ftWait
    <3>2. DOMAIN ft' = DOMAIN ft /\ ft'.seqno = ft.seqno
      BY <1>2, <3>1
    <3> QED
      BY <2>3, <3>2 DEF ftWait
  <2> QED
    BY <2>1, <2>2, <2>3
<1>4. LifeTypes'
  BY <1>0, <1>3 DEF LifeTypes
<1>5. CountOK' /\ SavedStatesDistinct'
  BY <1>0, <1>1, <1>3, CountKept
<1>6. QueueOK'
  BY <1>0, <1>1 DEF QueueOK, Entry
<1>7. StillThere'
  BY <1>0, <1>1, <1>3 DEF StillThere, Unmoved, Alone
<1>8. RoomOK'
  BY <1>0, <1>1, SetsAreFinite, RoomKept DEF LifeTypes
<1> QED
  BY <1>0, <1>4, <1>5, <1>6, <1>7, <1>8 DEF LifeInv

(* Two surfaces are more than one.                                         *)
LEMMA TwoAreMore ==
  ASSUME NEW S, IsFiniteSet(S), NEW s \in S, NEW u \in S, s # u
  PROVE  Cardinality(S) > 1
<1>1. Cardinality(S) \in Nat /\ Cardinality(S) # 0 /\ Cardinality(S) # 1
  BY FS_CardinalityType, FS_EmptySet, FS_Singleton
<1> QED
  BY <1>1

(* What the invariant reads; a call that dies changes none of it.          *)
LifeVars == <<refCount, queue, vsync, saved, savedState, pc, target, live, ft, emitted, frames,
              backbufferIdx, held>>

LEMMA DyingKeeps ==
  ASSUME LifeInv, UNCHANGED LifeVars,
         inFlight' = inFlight \/ inFlight' \in [Surfaces -> SUBSET (0 .. NumImages - 1)]
  PROVE  LifeInv'
<1>0. /\ LifeTypes /\ CountOK /\ SavedStatesDistinct /\ QueueOK /\ StillThere /\ RoomOK
      /\ UNCHANGED <<refCount, queue, vsync, saved, savedState, pc, target, live, ft, emitted, frames,
                     backbufferIdx, held>>
  BY DEF LifeInv, LifeVars
<1>1. Unmoved /\ Grown /\ known' = known
  BY <1>0, NobodyMoves
<1>2. LifeTypes'
  BY <1>0 DEF LifeTypes
<1>3. CountOK' /\ SavedStatesDistinct'
  BY <1>0, <1>1, CountKept
<1>4. QueueOK'
  BY <1>0, <1>1 DEF QueueOK, Entry
<1>5. StillThere'
  BY <1>0, <1>1, StillKept
<1>6. RoomOK'
  BY <1>0, <1>1, SetsAreFinite, RoomKept DEF LifeTypes
<1> QED
  BY <1>2, <1>3, <1>4, <1>5, <1>6 DEF LifeInv

(* An entry of the queue.                                                  *)
LEMMA FirstEntry ==
  ASSUME LifeTypes, QueueOK, queue # << >>
  PROVE  /\ 1 \in 1 .. Len(queue) /\ queue[1] \in Slots /\ Fifo!Oldest = queue[1] /\ queue[1] # Null
         /\ Entry(1) \in VsyncData /\ Entry(1) = vsync[queue[1]] /\ Entry(1).s \in known
<1>1. 1 \in 1 .. Len(queue) /\ queue[1] \in Slots
  BY DEF LifeTypes
<1>2. Fifo!Oldest = queue[1]
  BY OldestIsFirst DEF LifeTypes
<1>3. Entry(1) \in VsyncData /\ Entry(1).s \in known
  BY <1>1 DEF QueueOK
<1> QED
  BY <1>1, <1>2, <1>3 DEF Slots, Null, Entry

(* The flip thread asks for a page flip, or dies.                          *)
LEMMA FlipKeeps ==
  ASSUME LifeInv, ftFlip, UNCHANGED swapVars, crash = "none"
  PROVE  LifeInv' /\ CrashesAreKnown'
<1>0. /\ LifeTypes /\ CountOK /\ SavedStatesDistinct /\ QueueOK /\ StillThere /\ RoomOK
      /\ UNCHANGED <<refCount, queue, saved, savedState, pc, target, live, emitted, frames,
                     backbufferIdx, inFlight, held>>
      /\ ft.pc = "flip"
  BY DEF LifeInv, ftFlip, swapVars, appVars, gpuVars
<1>1. Unmoved /\ Grown /\ known' = known
  BY <1>0, NobodyMoves
<1>2. CASE Fifo!Oldest = Null
  <2>1. queue = << >>
    BY <1>0, <1>2, FirstEntry
  <2>2. Cardinality(live) > 1 \/ ended # {}
    <3>1. CASE ended # {}
      BY <3>1
    <3>2. CASE \E s, t \in live : s # t
      <4>1. IsFiniteSet(live)
        BY <1>0, SetsAreFinite, FS_Subset DEF known
      <4> QED
        BY <3>2, <4>1, TwoAreMore
    <3> QED
      BY <1>0, <2>1, <3>1, <3>2 DEF StillThere
  <2>3. crash' = "flip thread: empty queue" /\ UNCHANGED <<vsync, ft>>
    BY <1>2 DEF ftFlip
  <2>4. CrashesAreKnown'
    BY <1>1, <2>2, <2>3 DEF CrashesAreKnown, Unmoved
  <2>5. UNCHANGED LifeVars
    BY <1>0, <2>3 DEF LifeVars
  <2> QED
    BY <1>0, <2>4, <2>5, DyingKeeps
<1>3. CASE Fifo!Oldest # Null
  <2>0. queue # << >>
    BY <1>0, <1>3, OldestIsFirst DEF LifeTypes
  <2>1. PICK p, e : p = queue[1] /\ e = Entry(1)
    OBVIOUS
  <2>2. /\ p \in Slots /\ Fifo!Oldest = p /\ p # Null /\ e \in VsyncData /\ vsync[p] = e
        /\ e.s \in known
    BY <1>0, <2>0, <2>1, FirstEntry
  <2>3. CASE vsync[p].s \notin live
    <3>1. crash' = "flip thread: freed image" /\ UNCHANGED <<vsync, ft>>
      BY <2>2, <2>3 DEF ftFlip
    <3>2. CrashesAreKnown'
      BY <1>1, <2>2, <2>3, <3>1 DEF CrashesAreKnown, Unmoved, known
    <3>3. UNCHANGED LifeVars
      BY <1>0, <3>1 DEF LifeVars
    <3> QED
      BY <1>0, <3>2, <3>3, DyingKeeps
  <2>4. CASE vsync[p].s \in live
    <3>1. /\ UNCHANGED crash /\ ft' = [ft EXCEPT !.pc = loopOn(ft.run)]
          /\ \E d \in VsyncData : d.s = e.s /\ d.seqno = 0 /\ vsync' = [vsync EXCEPT ![p] = d]
      <4>1. UNCHANGED crash /\ ft' = [ft EXCEPT !.pc = loopOn(ft.run)]
        BY <2>2, <2>4 DEF ftFlip
      <4>2. \/ vsync' = [vsync EXCEPT ![p].seqno = 0, ![p].flipPending = 1]
            \/ vsync' = [vsync EXCEPT ![p].seqno = 0]
        BY <2>2, <2>4 DEF ftFlip
      <4>3. \/ vsync' = [vsync EXCEPT ![p] = [e EXCEPT !.seqno = 0, !.flipPending = 1]]
            \/ vsync' = [vsync EXCEPT ![p] = [e EXCEPT !.seqno = 0]]
        BY <1>0, <2>2, <4>2 DEF LifeTypes
      <4>4. MaxSeqno \in Nat
        BY FlipQueueAssumption
      <4>5. 0 \in 0 .. MaxSeqno /\ 1 \in 0 .. 1
        BY <4>4
      <4>6. PICK d : d = [e EXCEPT !.seqno = 0, !.flipPending = 1]
        OBVIOUS
      <4>7. d \in VsyncData /\ d.s = e.s /\ d.seqno = 0
        BY <2>2, <4>5, <4>6 DEF VsyncData
      <4>8. PICK f : f = [e EXCEPT !.seqno = 0]
        OBVIOUS
      <4>9. f \in VsyncData /\ f.s = e.s /\ f.seqno = 0
        BY <2>2, <4>5, <4>8 DEF VsyncData
      <4> QED
        BY <4>1, <4>3, <4>6, <4>7, <4>8, <4>9, Zenon
    <3>2. PICK d \in VsyncData : d.s = e.s /\ d.seqno = 0 /\ vsync' = [vsync EXCEPT ![p] = d]
      BY <3>1
    <3>3. DOMAIN ft' = DOMAIN ft /\ ft'.pc \in {"look", "exited"}
      BY <1>0, <3>1 DEF LifeTypes, loopOn
    <3>4. vsync' \in [Slots -> VsyncData \cup {None}]
      BY <1>0, <2>2, <3>2 DEF LifeTypes
    <3>5. \A n \in 1 .. Len(queue) : Entry(n)' = IF n = 1 THEN d ELSE Entry(n)
      <4>1. ASSUME NEW n \in 1 .. Len(queue) PROVE Entry(n)' = IF n = 1 THEN d ELSE Entry(n)
        <5>1. queue[n] \in Slots /\ (n # 1 => queue[n] # p) /\ queue' = queue
          BY <1>0, <2>0, <2>1, FirstEntry DEF LifeTypes, QueueOK
        <5> QED
          BY <1>0, <2>1, <2>2, <3>2, <5>1 DEF LifeTypes, Entry
      <4> QED
        BY <4>1
    <3>6. LifeTypes'
      BY <1>0, <3>3, <3>4 DEF LifeTypes
    <3>7. CountOK' /\ SavedStatesDistinct'
      BY <1>0, <1>1, CountKept
    <3>8. QueueOK'
      BY <1>0, <1>1, <2>1, <3>2, <3>5 DEF QueueOK
    <3>9. StillThere'
      <4>1. Entry(1)'.seqno = 0
        BY <1>0, <2>0, <3>2, <3>5, FirstEntry
      <4>2. ft'.pc \notin {"wait", "flip"}
        BY <3>3
      <4>3. \A s \in Surfaces :
              /\ pc[s] \in AcquireLabels \ {"look"} /\ Alone(s) => queue # << >>
              /\ pc[s] = "take" /\ Alone(s) => Entry(1)'.seqno = 0
        BY <1>0, <4>1 DEF StillThere
      <4> QED
        BY <1>0, <1>1, <4>2, <4>3 DEF StillThere, Alone
    <3>10. RoomOK'
      BY <1>0, <1>1, SetsAreFinite, RoomKept DEF LifeTypes
    <3> QED
      BY <3>1, <3>6, <3>7, <3>8, <3>9, <3>10 DEF LifeInv, CrashesAreKnown
  <2> QED
    BY <2>3, <2>4
<1> QED
  BY <1>2, <1>3

-----------------------------------------------------------------------------
(* Acquiring an image.                                                     *)

(* A thread goes on within its acquire.                                    *)
LEMMA MovingKeeps ==
  ASSUME LifeInv, NEW s \in Surfaces, NEW l \in {"idle"} \cup AcquireLabels,
         pc[s] \in {"idle"} \cup AcquireLabels, pc' = [pc EXCEPT ![s] = l],
         UNCHANGED <<refCount, queue, vsync, saved, savedState, target, live, ft, emitted, frames,
                     backbufferIdx, inFlight, held>>,
         l \in AcquireLabels \ {"look"} => queue # << >>,
         l = "take" => Entry(1).seqno = 0
  PROVE  LifeInv'
<1>0. LifeTypes /\ CountOK /\ SavedStatesDistinct /\ QueueOK /\ StillThere /\ RoomOK
  BY DEF LifeInv
<1>1. l \in LiveLabels /\ pc[s] \in LiveLabels /\ l \notin PresentLabels /\ pc[s] \notin PresentLabels
  BY DEF LiveLabels, AcquireLabels, PresentLabels
<1>2. /\ Unmoved /\ live' = {t \in Surfaces : pc'[t] \in LiveLabels}
      /\ pc' \in [Surfaces -> Labels] /\ pc'[s] = l
      /\ \A t \in Surfaces : t # s => pc'[t] = pc[t]
      /\ IsFiniteSet({t \in Surfaces : pc'[t] # "none"})
  BY <1>0, <1>1, LabelsKept
<1>3. known' = known /\ Entry(1)' = Entry(1)
  BY <1>2 DEF Unmoved, known, Entry
<1>4. LifeTypes'
  <2>1. \A t \in Surfaces : pc'[t] \in PresentLabels => target'[t].frame # 0
    BY <1>0, <1>1, <1>2 DEF LifeTypes
  <2> QED
    BY <1>0, <1>2, <2>1 DEF LifeTypes
<1>5. CountOK' /\ SavedStatesDistinct'
  BY <1>0, <1>2, CountKept
<1>6. QueueOK'
  BY <1>0, <1>3 DEF QueueOK, Entry
<1>7. StillThere'
  <2>1. \A t \in Surfaces :
          /\ pc'[t] \in AcquireLabels \ {"look"} /\ Alone(t) => queue # << >>
          /\ pc'[t] = "take" /\ Alone(t) => Entry(1).seqno = 0
    BY <1>0, <1>2 DEF StillThere
  <2> QED
    BY <1>0, <1>2, <1>3, <2>1 DEF StillThere, Alone, Unmoved
<1>8. RoomOK'
  <2>1. \A t \in Surfaces : pc'[t] \in PresentLabels <=> pc[t] \in PresentLabels
    BY <1>1, <1>2
  <2> QED
    BY <1>0, <1>3, <2>1, SetsAreFinite, RoomKept DEF LifeTypes
<1> QED
  BY <1>4, <1>5, <1>6, <1>7, <1>8 DEF LifeInv

(* A thread begins to acquire, or looks at the oldest entry, again or for  *)
(* the first time; it dies when there is none any more.                    *)
LEMMA ReadingKeeps ==
  ASSUME LifeInv, NEW s \in Surfaces, acquireCall(s) \/ acquireLook(s) \/ acquireReread(s),
         UNCHANGED swapVars, crash = "none"
  PROVE  LifeInv' /\ CrashesAreKnown'
<1>0. /\ LifeTypes /\ QueueOK /\ StillThere
      /\ UNCHANGED <<refCount, queue, vsync, saved, savedState, target, live, ft, emitted, frames,
                     backbufferIdx, inFlight, held>>
      /\ pc[s] \in {"idle"} \cup AcquireLabels
  BY DEF LifeInv, acquireCall, acquireLook, acquireReread, swapVars, modesetVars, gpuVars, kernelVars,
         countVars, AcquireLabels
<1>1. CASE acquireCall(s)
  <2>1. pc' = [pc EXCEPT ![s] = "look"] /\ UNCHANGED crash
    BY <1>1 DEF acquireCall, Goto
  <2>2. "look" \in {"idle"} \cup AcquireLabels /\ "look" \notin AcquireLabels \ {"look"}
    BY DEF AcquireLabels
  <2> QED
    BY <1>0, <2>1, <2>2, MovingKeeps DEF CrashesAreKnown
<1>2. CASE (acquireLook(s) \/ acquireReread(s)) /\ queue # << >>
  <2>1. PICK e : e = Entry(1)
    OBVIOUS
  <2>2. e \in VsyncData /\ vsync[Fifo!Oldest] = e
    BY <1>0, <1>2, <2>1, FirstEntry
  <2>3. pc' = [pc EXCEPT ![s] = acquireNext(e)] /\ UNCHANGED crash
    BY <1>2, <2>2 DEF acquireLook, acquireReread, Goto
  <2>4. acquireNext(e) \in {"idle"} \cup AcquireLabels /\ (acquireNext(e) = "take" => e.seqno = 0)
    BY <2>2, FlipQueueAssumption DEF acquireNext, AcquireLabels, VsyncData
  <2> QED
    BY <1>0, <1>2, <2>1, <2>3, <2>4, MovingKeeps DEF CrashesAreKnown
<1>3. CASE acquireReread(s) /\ queue = << >>
  <2>1. crash' = "acquire: empty queue" /\ UNCHANGED pc /\ pc[s] = "reread"
    BY <1>3 DEF acquireReread
  <2>2. s \in known /\ ~ Alone(s)
    BY <1>0, <1>3, <2>1 DEF StillThere, AcquireLabels, LifeTypes, LiveLabels, known
  <2>3. PICK t \in known : t # s
    BY <2>2 DEF Alone
  <2>4. Cardinality(known) > 1
    BY <1>0, <2>2, <2>3, SetsAreFinite, TwoAreMore
  <2>5. live' \cup ended' = known
    BY <1>0, <2>1 DEF known, ended
  <2>6. CrashesAreKnown'
    BY <2>1, <2>4, <2>5 DEF CrashesAreKnown
  <2>7. UNCHANGED LifeVars
    BY <1>0, <2>1 DEF LifeVars
  <2> QED
    BY <1>0, <2>6, <2>7, DyingKeeps
<1>4. ~ (acquireLook(s) /\ queue = << >>)
  BY DEF acquireLook
<1> QED
  BY <1>1, <1>2, <1>3, <1>4

(* A thread handles the kernel's events.                                   *)
LEMMA EventsKeep ==
  ASSUME LifeInv, NEW s \in Surfaces, acquireHandle(s), UNCHANGED swapVars
  PROVE  LifeInv' /\ UNCHANGED crash
<1>0. /\ LifeTypes /\ CountOK /\ SavedStatesDistinct /\ QueueOK /\ StillThere /\ RoomOK
      /\ UNCHANGED <<refCount, queue, saved, savedState, target, live, ft, emitted, frames, crash,
                     backbufferIdx, inFlight, held>>
      /\ pc[s] = "handle" /\ pc' = [pc EXCEPT ![s] = "reread"]
  BY DEF LifeInv, acquireHandle, swapVars, gpuVars, countVars, Goto
<1>1. /\ pc[s] \in LiveLabels /\ "reread" \in LiveLabels
      /\ pc[s] \notin PresentLabels /\ "reread" \notin PresentLabels
      /\ pc[s] \in AcquireLabels \ {"look"}
  BY <1>0 DEF LiveLabels, AcquireLabels, PresentLabels
<1>2. /\ Unmoved /\ live' = {t \in Surfaces : pc'[t] \in LiveLabels}
      /\ pc' \in [Surfaces -> Labels] /\ pc'[s] = "reread"
      /\ \A t \in Surfaces : t # s => pc'[t] = pc[t]
      /\ IsFiniteSet({t \in Surfaces : pc'[t] # "none"})
  BY <1>0, <1>1, LabelsKept
<1>3. known' = known
  BY <1>2 DEF Unmoved, known
<1>4. /\ vsync' \in [Slots -> VsyncData \cup {None}]
      /\ \A p \in Slots : vsync[p] \in VsyncData =>
           vsync'[p] \in VsyncData /\ vsync'[p].s = vsync[p].s /\ vsync'[p].seqno = vsync[p].seqno
  <2>1. PICK pointers : vsync' = [p \in Slots |-> IF p \in pointers /\ vsync[p] # None
                                                 THEN [vsync[p] EXCEPT !.flipPending = 0]
                                                 ELSE vsync[p]]
    BY DEF acquireHandle, modeset_page_flip_event
  <2>2. ASSUME NEW p \in Slots, vsync[p] \in VsyncData
        PROVE  vsync'[p] \in VsyncData /\ vsync'[p].s = vsync[p].s /\ vsync'[p].seqno = vsync[p].seqno
    <3>1. PICK e \in VsyncData : e = vsync[p]
      BY <2>2
    <3>2. PICK d : d = [e EXCEPT !.flipPending = 0]
      OBVIOUS
    <3>3. d \in VsyncData /\ d.s = e.s /\ d.seqno = e.seqno
      BY <3>2 DEF VsyncData
    <3>4. vsync'[p] = d \/ vsync'[p] = e
      BY <2>1, <3>1, <3>2
    <3> QED
      BY <3>1, <3>3, <3>4
  <2>3. ASSUME NEW p \in Slots PROVE vsync'[p] \in VsyncData \cup {None}
    <3>1. vsync[p] \in VsyncData \/ vsync[p] = None
      BY <1>0 DEF LifeTypes
    <3>2. vsync[p] = None => vsync'[p] = None
      BY <2>1
    <3> QED
      BY <2>2, <3>1, <3>2
  <2>4. DOMAIN vsync' = Slots /\ vsync' = [p \in Slots |-> vsync'[p]]
    BY <2>1, Zenon
  <2>5. vsync' \in [Slots -> VsyncData \cup {None}]
    BY <2>3, <2>4, Zenon
  <2> QED
    BY <2>2, <2>5
<1>5. \A n \in 1 .. Len(queue) :
        Entry(n)' \in VsyncData /\ Entry(n)'.s = Entry(n).s /\ Entry(n)'.seqno = Entry(n).seqno
  BY <1>0, <1>4 DEF Entry, LifeTypes, QueueOK
<1>6. LifeTypes'
  <2>1. \A t \in Surfaces : pc'[t] \in PresentLabels => target'[t].frame # 0
    BY <1>0, <1>1, <1>2 DEF LifeTypes
  <2> QED
    BY <1>0, <1>2, <1>4, <2>1 DEF LifeTypes
<1>7. CountOK' /\ SavedStatesDistinct'
  BY <1>0, <1>2, CountKept
<1>8. QueueOK'
  BY <1>0, <1>3, <1>5, QueueKept
<1>9. StillThere'
  <2>1. queue # << >> => Entry(1)'.seqno = Entry(1).seqno
    BY <1>0, <1>5, FirstEntry
  <2>2. \A t \in Surfaces :
          /\ pc'[t] \in AcquireLabels \ {"look"} /\ Alone(t) => queue # << >>
          /\ pc'[t] = "take" /\ Alone(t) => queue # << >> /\ Entry(1).seqno = 0
    <3>1. "take" \in AcquireLabels \ {"look"}
      BY DEF AcquireLabels
    <3> QED
      BY <1>0, <1>1, <1>2, <3>1 DEF StillThere
  <2> QED
    BY <1>0, <1>2, <1>3, <2>1, <2>2 DEF StillThere, Alone, Unmoved
<1>10. RoomOK'
  <2>1. \A t \in Surfaces : pc'[t] \in PresentLabels <=> pc[t] \in PresentLabels
    BY <1>1, <1>2
  <2> QED
    BY <1>0, <1>3, <2>1, SetsAreFinite, RoomKept DEF LifeTypes
<1> QED
  BY <1>0, <1>6, <1>7, <1>8, <1>9, <1>10 DEF LifeInv

(* What taking the oldest entry leaves in the queue.                       *)
LEMMA QueueAfterTaking ==
  ASSUME LifeTypes, QueueOK, Fifo!Dequeue, known' = known
  PROVE  /\ queue # << >> /\ queue' \in Seq(Slots) /\ Len(queue') = Len(queue) - 1
         /\ vsync' \in [Slots -> VsyncData \cup {None}]
         /\ QueueOK'
<1>1. queue # << >> /\ queue' = Tail(queue) /\ vsync' = [vsync EXCEPT ![queue[1]] = None]
  BY DequeueDrops DEF LifeTypes
<1>2. queue[1] \in Slots /\ 1 \in 1 .. Len(queue)
  BY <1>1, FirstEntry
<1>3. queue \in Seq(Slots)
  BY DEF LifeTypes
<1>4. /\ queue' \in Seq(Slots) /\ Len(queue') = Len(queue) - 1
      /\ \A n \in 1 .. Len(queue') : n + 1 \in 1 .. Len(queue) /\ queue'[n] = queue[n + 1]
  BY <1>1, <1>3
<1>5. vsync' \in [Slots -> VsyncData \cup {None}]
  BY <1>1, <1>2 DEF LifeTypes
<1>6. ASSUME NEW n \in 1 .. Len(queue') PROVE Entry(n)' \in VsyncData /\ Entry(n)'.s \in known
  <2>1. PICK m : m = n + 1
    OBVIOUS
  <2>2. m \in 1 .. Len(queue) /\ queue'[n] = queue[m] /\ m # 1
    BY <1>4, <1>6, <2>1
  <2>3. queue[m] # queue[1] /\ queue[m] \in Slots
    BY <1>2, <1>3, <2>2 DEF QueueOK
  <2>4. Entry(n)' = Entry(m)
    BY <1>1, <2>2, <2>3 DEF Entry, LifeTypes
  <2> QED
    BY <2>2, <2>4 DEF QueueOK
<1>7. ASSUME NEW m \in 1 .. Len(queue'), NEW n \in 1 .. Len(queue'), queue'[m] = queue'[n]
      PROVE  m = n
  <2>1. m + 1 = n + 1
    BY <1>4, <1>7 DEF QueueOK
  <2> QED
    BY <2>1
<1> QED
  BY <1>1, <1>4, <1>5, <1>6, <1>7 DEF QueueOK

(* An image more is out.                                                   *)
LEMMA OneMoreOut ==
  ASSUME LifeTypes, RoomOK, NEW s \in Surfaces, NEW b \in 0 .. NumImages - 1,
         held' = [held EXCEPT ![s] = held[s] \cup {b}], UNCHANGED target,
         \A u \in Surfaces : pc'[u] \in PresentLabels <=> pc[u] \in PresentLabels
  PROVE  IsFiniteSet(Out') /\ Cardinality(Out') \in Nat /\ Cardinality(Out') <= Cardinality(Out) + 1
<1>1. PICK x : x = <<s, b>>
  OBVIOUS
<1>2. Out' \subseteq Out \cup {x}
  <2>1. ASSUME NEW y \in Out' PROVE y \in Out \cup {x}
    <3>1. /\ y \in Images /\ y[1] \in Surfaces /\ y = <<y[1], y[2]>>
          /\ y[2] \in held'[y[1]] \/ (pc'[y[1]] \in PresentLabels /\ y[2] = target[y[1]].k)
      BY DEF Out, Images
    <3>2. y[2] \in held'[y[1]] => y[2] \in held[y[1]] \/ y = x
      BY <1>1, <3>1 DEF LifeTypes
    <3> QED
      BY <3>1, <3>2 DEF Out
  <2> QED
    BY <2>1
<1>3. IsFiniteSet(Out) /\ Cardinality(Out) \in Nat
  BY OutIsFinite
<1>4. /\ IsFiniteSet(Out \cup {x})
      /\ Cardinality(Out \cup {x}) = IF x \in Out THEN Cardinality(Out) ELSE Cardinality(Out) + 1
  BY <1>3, FS_AddElement
<1>5. IsFiniteSet(Out') /\ Cardinality(Out') <= Cardinality(Out \cup {x})
  <2>1. PICK T : T = Out'
    OBVIOUS
  <2>2. T \in SUBSET (Out \cup {x})
    BY <1>2, <2>1
  <2> QED
    BY <1>4, <2>1, <2>2, FS_Subset
<1>6. Cardinality(Out') \in Nat
  BY <1>5, FS_CardinalityType
<1> QED
  BY <1>3, <1>4, <1>5, <1>6

(* An image is acquired: the one that comes back from the queue makes room *)
(* for it, or the queue is empty.                                          *)
LEMMA AcquiringKeeps ==
  ASSUME LifeInv, NEW s \in Surfaces, NEW i,
         acquireEmpty(s) \/ acquireTake(s, i), chooseImage(s, i)
  PROVE  LifeInv' /\ UNCHANGED crash
<1>0. /\ LifeTypes /\ CountOK /\ SavedStatesDistinct /\ QueueOK /\ StillThere /\ RoomOK
      /\ UNCHANGED <<refCount, saved, savedState, target, live, ft, emitted, frames, crash>>
      /\ pc[s] \in {"look", "take"} /\ pc' = [pc EXCEPT ![s] = "idle"]
      /\ \/ queue = << >> /\ UNCHANGED <<queue, vsync>>
         \/ Fifo!Dequeue /\ pc[s] = "take"
  BY DEF LifeInv, acquireEmpty, acquireTake, modesetVars, gpuVars, kernelVars, countVars, Goto
<1>1. /\ pc[s] \in LiveLabels /\ "idle" \in LiveLabels
      /\ pc[s] \notin PresentLabels /\ "idle" \notin PresentLabels
      /\ "idle" \notin AcquireLabels
      /\ "take" \in AcquireLabels \ {"look"}
  BY <1>0 DEF LiveLabels, AcquireLabels, PresentLabels
<1>2. /\ Unmoved /\ live' = {t \in Surfaces : pc'[t] \in LiveLabels}
      /\ pc' \in [Surfaces -> Labels] /\ pc'[s] = "idle"
      /\ \A t \in Surfaces : t # s => pc'[t] = pc[t]
      /\ IsFiniteSet({t \in Surfaces : pc'[t] # "none"})
  BY <1>0, <1>1, LabelsKept
<1>3. known' = known /\ s \in live /\ s \in known /\ Grown
  BY <1>0, <1>1, <1>2 DEF Unmoved, known, LifeTypes, Grown
<1>4. /\ queue' \in Seq(Slots) /\ QueueOK'
      /\ vsync' \in [Slots -> VsyncData \cup {None}]
      /\ \/ queue = << >> /\ UNCHANGED <<queue, vsync>>
         \/ queue # << >> /\ pc[s] = "take" /\ Len(queue') = Len(queue) - 1
  <2>1. CASE queue = << >> /\ UNCHANGED <<queue, vsync>>
    BY <1>0, <1>3, <2>1 DEF LifeTypes, QueueOK, Entry
  <2>2. CASE Fifo!Dequeue /\ pc[s] = "take"
    BY <1>0, <1>3, <2>2, QueueAfterTaking
  <2> QED
    BY <1>0, <2>1, <2>2
<1>5. PICK b \in 0 .. NumImages - 1 :
        /\ held' = [held EXCEPT ![s] = held[s] \cup {b}]
        /\ backbufferIdx' \in [Surfaces -> 0 .. NumImages - 1]
        /\ inFlight' \in [Surfaces -> SUBSET (0 .. NumImages - 1)]
        /\ held' \in [Surfaces -> SUBSET (0 .. NumImages - 1)]
  <2>1. SwapTypes
    BY <1>0 DEF LifeTypes, SwapTypes
  <2>2. SwapTypes' /\ held' = [held EXCEPT ![s] = held[s] \cup {backbufferIdx'[s]}]
    BY <2>1, ChoosingDoes
  <2> QED
    BY <2>2 DEF SwapTypes
<1>6. LifeTypes'
  <2>1. \A t \in Surfaces : pc'[t] \in PresentLabels => target'[t].frame # 0
    BY <1>0, <1>1, <1>2 DEF LifeTypes
  <2> QED
    BY <1>0, <1>2, <1>4, <1>5, <2>1 DEF LifeTypes
<1>7. CountOK' /\ SavedStatesDistinct'
  BY <1>0, <1>2, CountKept
<1>8. StillThere'
  <2>1. CASE queue = << >> /\ UNCHANGED <<queue, vsync>>
    <3>1. \A t \in Surfaces : pc'[t] \in AcquireLabels \ {"look"} => pc'[t] = pc[t]
      BY <1>1, <1>2
    <3> QED
      BY <1>0, <1>3, <2>1, <3>1, StillKept
  <2>2. CASE queue # << >> /\ pc[s] = "take"
    <3>1. ft.pc \in {"wait", "flip"} => ended # {} \/ \E u, t \in live : u # t
      <4>1. SUFFICES ASSUME ft.pc \in {"wait", "flip"}, ended = {}, \A u, t \in live : u = t
                     PROVE  FALSE
        OBVIOUS
      <4>2. Alone(s)
        BY <1>3, <4>1 DEF Alone, known
      <4>3. Entry(1).seqno = 0
        BY <1>0, <2>2, <4>2 DEF StillThere
      <4> QED
        BY <1>0, <4>1, <4>3 DEF StillThere
    <3>2. \A t \in Surfaces : pc'[t] \in AcquireLabels \ {"look"} => ~ Alone(t)
      <4>1. ASSUME NEW t \in Surfaces, pc'[t] \in AcquireLabels \ {"look"} PROVE t # s
        BY <1>1, <1>2, <4>1
      <4> QED
        BY <1>3, <4>1 DEF Alone
    <3> QED
      BY <1>0, <1>1, <1>2, <1>3, <3>1, <3>2 DEF StillThere, Alone, Unmoved
  <2> QED
    BY <1>4, <2>1, <2>2
<1>9. RoomOK'
  <2>1. \A t \in Surfaces : pc'[t] \in PresentLabels <=> pc[t] \in PresentLabels
    BY <1>1, <1>2
  <2>2. \A u \in Surfaces : /\ held'[u] # {} => u \in known'
                            /\ pc'[u] \in PresentLabels => target'[u].k \notin held'[u]
    BY <1>0, <1>1, <1>2, <1>3, <1>5, <2>1 DEF RoomOK, LifeTypes
  <2>3. Len(queue') + Cardinality(Out') <= NumImages * Cardinality(known)
    <3>1. PICK a \in Int : a = NumImages * Cardinality(known)
      <4>1. Cardinality(known) \in Nat
        BY <1>0, OutIsFinite
      <4> QED
        BY <4>1, FlipQueueAssumption
    <3>2. CASE queue = << >> /\ UNCHANGED <<queue, vsync>>
      <4>1. LifeTypes' /\ Out' \subseteq known \X (0 .. NumImages - 1)
        <5>1. ASSUME NEW x \in Out' PROVE x \in known \X (0 .. NumImages - 1)
          <6>1. /\ x[1] \in Surfaces /\ x[2] \in 0 .. NumImages - 1 /\ x = <<x[1], x[2]>>
                /\ x[2] \in held'[x[1]] \/ pc'[x[1]] \in PresentLabels
            BY DEF Out, Images
          <6>2. PICK u \in Surfaces : u = x[1]
            BY <6>1
          <6>3. pc'[u] \in PresentLabels => u \in known
            BY <1>0, <2>1 DEF LifeTypes, known, LiveLabels
          <6>4. held'[u] # {} => u \in known
            BY <1>3, <2>2
          <6>5. u \in known
            BY <6>1, <6>2, <6>3, <6>4
          <6> QED
            BY <6>1, <6>2, <6>5
        <5> QED
          BY <1>6, <5>1
      <4>2. Cardinality(Out') <= a /\ Cardinality(Out') \in Nat
        BY <1>0, <1>1, <2>1, <3>1, <4>1, OutsAreImages
      <4>3. Len(queue') = 0
        BY <3>2
      <4> QED
        BY <3>1, <4>2, <4>3
    <3>3. CASE queue # << >> /\ Len(queue') = Len(queue) - 1
      <4>1. Cardinality(Out') \in Nat /\ Cardinality(Out') <= Cardinality(Out) + 1
        BY <1>0, <1>5, <2>1, OneMoreOut
      <4>2. Len(queue) + Cardinality(Out) <= a /\ Cardinality(Out) \in Nat
        BY <1>0, <3>1, OutIsFinite DEF RoomOK
      <4>3. Len(queue) \in Nat
        BY <1>0 DEF LifeTypes
      <4> QED
        BY <3>1, <3>3, <4>1, <4>2, <4>3
    <3> QED
      BY <1>4, <3>2, <3>3
  <2>4. Len(queue') + Cardinality(Out') <= NumImages * Cardinality(known')
    BY <1>3, <2>3
  <2> QED
    BY <2>2, <2>4 DEF RoomOK
<1> QED
  BY <1>0, <1>4, <1>6, <1>7, <1>8, <1>9 DEF LifeInv

-----------------------------------------------------------------------------
(* Presenting an image.                                                    *)

(* The application presents an image it has: it stays out.                 *)
LEMMA HandingOverKeeps ==
  ASSUME LifeInv, NEW s \in Surfaces, NEW k \in held[s], presentCall(s, k),
         held' = [held EXCEPT ![s] = @ \ {k}], UNCHANGED <<backbufferIdx, inFlight>>
  PROVE  LifeInv' /\ UNCHANGED crash
<1>0. /\ LifeTypes /\ CountOK /\ SavedStatesDistinct /\ QueueOK /\ StillThere /\ RoomOK
      /\ UNCHANGED <<refCount, queue, vsync, saved, savedState, live, ft, emitted, crash>>
      /\ pc[s] = "idle" /\ k \in 0 .. NumImages - 1
  BY DEF LifeInv, presentCall, modesetVars, gpuVars, kernelVars, LifeTypes
<1>1. PICK l \in PresentLabels : pc' = [pc EXCEPT ![s] = l]
  BY DEF presentCall, Goto, PresentLabels
<1>2. PICK d : /\ d = [k |-> k, frame |-> frames + 1, seqno |-> emitted]
               /\ target' = [target EXCEPT ![s] = d]
  BY DEF presentCall
<1>3. /\ d \in Targets /\ d.k = k /\ d.frame # 0 /\ frames' \in 0 .. MaxFrames
  BY <1>0, <1>2, FlipQueueAssumption DEF presentCall, Targets, LifeTypes
<1>4. /\ pc[s] \in LiveLabels /\ l \in LiveLabels /\ pc[s] \notin PresentLabels
      /\ l \notin AcquireLabels
  BY <1>0 DEF LiveLabels, AcquireLabels, PresentLabels
<1>5. /\ Unmoved /\ live' = {t \in Surfaces : pc'[t] \in LiveLabels}
      /\ pc' \in [Surfaces -> Labels] /\ pc'[s] = l
      /\ \A t \in Surfaces : t # s => pc'[t] = pc[t]
      /\ IsFiniteSet({t \in Surfaces : pc'[t] # "none"})
  BY <1>0, <1>1, <1>4, LabelsKept
<1>6. known' = known /\ s \in known /\ Grown
  BY <1>0, <1>4, <1>5 DEF Unmoved, known, LifeTypes, Grown
<1>7. /\ target' \in [Surfaces -> Targets] /\ target'[s] = d
      /\ \A t \in Surfaces : t # s => target'[t] = target[t] /\ held'[t] = held[t]
      /\ held' \in [Surfaces -> SUBSET (0 .. NumImages - 1)]
      /\ held'[s] = held[s] \ {k}
  BY <1>0, <1>2, <1>3 DEF LifeTypes
<1>8. LifeTypes'
  <2>1. \A t \in Surfaces : pc'[t] \in PresentLabels => target'[t].frame # 0
    BY <1>0, <1>3, <1>5, <1>7 DEF LifeTypes
  <2> QED
    BY <1>0, <1>3, <1>5, <1>7, <2>1 DEF LifeTypes
<1>9. CountOK' /\ SavedStatesDistinct'
  BY <1>0, <1>5, CountKept
<1>10. QueueOK'
  BY <1>0, <1>6 DEF QueueOK, Entry
<1>11. StillThere'
  <2>1. \A t \in Surfaces : pc'[t] \in AcquireLabels \ {"look"} => pc'[t] = pc[t]
    BY <1>4, <1>5
  <2> QED
    BY <1>0, <1>6, <2>1, StillKept
<1>12. RoomOK'
  <2>1. \A u \in Surfaces : held'[u] # {} => u \in known'
    BY <1>0, <1>6, <1>7 DEF RoomOK
  <2>2. \A u \in Surfaces : pc'[u] \in PresentLabels => target'[u].k \notin held'[u]
    BY <1>0, <1>3, <1>5, <1>7 DEF RoomOK
  <2>3. Out' = Out
    <3>1. ASSUME NEW x \in Images
          PROVE  (x \in Out)' <=> x \in Out
      <4>1. PICK u \in Surfaces : u = x[1]
        BY DEF Images
      <4>2. CASE u = s
        <5>1. x \in Out <=> x[2] \in held[s]
          BY <1>4, <4>1, <4>2 DEF Out
        <5>2. (x \in Out)' <=> x[2] \in held[s] \ {k} \/ x[2] = k
          BY <1>3, <1>5, <1>7, <4>1, <4>2 DEF Out
        <5> QED
          BY <5>1, <5>2
      <4>3. CASE u # s
        BY <1>5, <1>7, <4>1, <4>3 DEF Out
      <4> QED
        BY <4>2, <4>3
    <3> QED
      BY <3>1 DEF Out
  <2>4. Len(queue') + Cardinality(Out') <= NumImages * Cardinality(known')
    BY <1>0, <1>6, <2>3 DEF RoomOK
  <2> QED
    BY <2>1, <2>2, <2>4 DEF RoomOK
<1> QED
  BY <1>0, <1>8, <1>9, <1>10, <1>11, <1>12 DEF LifeInv

(* The display state is saved in a slot nobody uses.                       *)
LEMMA FirstShowKeeps ==
  ASSUME LifeInv, NEW s \in Surfaces, presentSave(s), UNCHANGED swapVars
  PROVE  LifeInv' /\ UNCHANGED crash
<1>0. /\ LifeTypes /\ CountOK /\ SavedStatesDistinct /\ QueueOK /\ StillThere /\ RoomOK
      /\ UNCHANGED <<refCount, queue, vsync, target, live, ft, emitted, frames, crash,
                     backbufferIdx, inFlight, held>>
      /\ pc[s] = "save" /\ pc' = [pc EXCEPT ![s] = "enqueue"]
  BY DEF LifeInv, presentSave, swapVars, gpuVars, countVars, Goto
<1>1. /\ pc[s] \in LiveLabels /\ "enqueue" \in LiveLabels
      /\ pc[s] \in PresentLabels /\ "enqueue" \in PresentLabels
      /\ "enqueue" \notin AcquireLabels
  BY <1>0 DEF LiveLabels, AcquireLabels, PresentLabels
<1>2. /\ Unmoved /\ live' = {t \in Surfaces : pc'[t] \in LiveLabels}
      /\ pc' \in [Surfaces -> Labels] /\ pc'[s] = "enqueue"
      /\ \A t \in Surfaces : t # s => pc'[t] = pc[t]
      /\ IsFiniteSet({t \in Surfaces : pc'[t] # "none"})
  BY <1>0, <1>1, LabelsKept
<1>3. known' = known /\ Grown
  BY <1>2 DEF Unmoved, known, Grown
<1>4. \/ UNCHANGED <<saved, savedState>>
      \/ \E c \in 0 .. SavedSlots - 1 : \E v :
           /\ saved[c].state # "used" /\ v.state = "used"
           /\ saved' = [saved EXCEPT ![c] = v]
           /\ savedState' = [savedState EXCEPT ![s] = c]
  <2>1. PICK unused : unused = {c \in DOMAIN saved : saved[c].state # "used"}
    OBVIOUS
  <2>2. unused \in SUBSET Nat /\ unused \subseteq 0 .. SavedSlots - 1
    BY <1>0, <2>1, FlipQueueAssumption DEF LifeTypes
  <2>3. CASE unused = {}
    BY <2>1, <2>3 DEF presentSave
  <2>4. CASE unused # {}
    <3>1. PICK c, v : /\ c = Min(unused) /\ v = [state |-> "used", fb |-> scanout]
                      /\ saved' = [saved EXCEPT ![c] = v]
                      /\ savedState' = [savedState EXCEPT ![s] = c]
      BY <2>1, <2>4 DEF presentSave, Min
    <3>2. c \in unused
      BY <2>2, <2>4, <3>1, MinIsLeast
    <3>3. v.state = "used"
      BY <3>1
    <3> QED
      BY <2>1, <2>2, <3>1, <3>2, <3>3, Zenon
  <2> QED
    BY <2>3, <2>4
<1>5. /\ savedState' \in [Surfaces -> 0 .. SavedSlots - 1] /\ DOMAIN saved' = 0 .. SavedSlots - 1
      /\ SavedStatesDistinct'
  <2>1. counted' = counted
    BY <1>2 DEF Unmoved
  <2>2. CASE UNCHANGED <<saved, savedState>>
    BY <1>0, <2>1, <2>2 DEF LifeTypes, SavedStatesDistinct
  <2>3. ASSUME NEW c \in 0 .. SavedSlots - 1, NEW v, saved[c].state # "used", v.state = "used",
               saved' = [saved EXCEPT ![c] = v], savedState' = [savedState EXCEPT ![s] = c]
        PROVE  /\ savedState' \in [Surfaces -> 0 .. SavedSlots - 1] /\ DOMAIN saved' = 0 .. SavedSlots - 1
               /\ SavedStatesDistinct'
    <3>1. savedState' \in [Surfaces -> 0 .. SavedSlots - 1] /\ DOMAIN saved' = 0 .. SavedSlots - 1
      BY <1>0, <2>3 DEF LifeTypes
    <3>2. /\ savedState'[s] = c /\ \A t \in Surfaces : t # s => savedState'[t] = savedState[t]
          /\ saved'[c].state = "used"
          /\ \A e \in 0 .. SavedSlots - 1 : e # c => saved'[e] = saved[e]
      BY <1>0, <2>3 DEF LifeTypes
    <3>3. \A t \in counted : t # s /\ savedState[t] > 0 => savedState[t] # c
      BY <1>0, <2>3 DEF SavedStatesDistinct
    <3>4. \A t \in counted : t \in Surfaces /\ savedState[t] \in 0 .. SavedSlots - 1
      BY <1>0 DEF LifeTypes, counted
    <3>5. ASSUME NEW t \in counted, savedState'[t] > 0
          PROVE  /\ saved'[savedState'[t]].state = "used"
                 /\ \A u \in counted \ {t} : savedState'[u] # savedState'[t]
      <4>1. CASE t = s
        BY <3>2, <3>3, <3>4, <3>5, <4>1
      <4>2. CASE t # s
        <5>1. savedState'[t] = savedState[t] /\ savedState[t] # c /\ savedState[t] \in 0 .. SavedSlots - 1
          BY <3>2, <3>3, <3>4, <3>5, <4>2
        <5>2. saved[savedState[t]].state = "used" /\ \A u \in counted \ {t} : savedState[u] # savedState[t]
          BY <1>0, <3>5, <5>1 DEF SavedStatesDistinct
        <5> QED
          BY <3>2, <3>4, <4>2, <5>1, <5>2
      <4> QED
        BY <4>1, <4>2
    <3> QED
      BY <2>1, <3>1, <3>5 DEF SavedStatesDistinct
  <2> QED
    BY <1>4, <2>2, <2>3, Zenon
<1>6. LifeTypes'
  <2>1. \A t \in Surfaces : pc'[t] \in PresentLabels => target'[t].frame # 0
    BY <1>0, <1>1, <1>2 DEF LifeTypes
  <2> QED
    BY <1>0, <1>2, <1>5, <2>1 DEF LifeTypes
<1>7. CountOK'
  BY <1>0, <1>2 DEF CountOK, Unmoved
<1>8. QueueOK'
  BY <1>0, <1>3 DEF QueueOK, Entry
<1>9. StillThere'
  <2>1. \A t \in Surfaces : pc'[t] \in AcquireLabels \ {"look"} => pc'[t] = pc[t]
    BY <1>1, <1>2
  <2> QED
    BY <1>0, <1>3, <2>1, StillKept
<1>10. RoomOK'
  <2>1. \A t \in Surfaces : pc'[t] \in PresentLabels <=> pc[t] \in PresentLabels
    BY <1>1, <1>2
  <2> QED
    BY <1>0, <1>3, <2>1, SetsAreFinite, RoomKept DEF LifeTypes
<1> QED
  BY <1>0, <1>5, <1>6, <1>7, <1>8, <1>9, <1>10 DEF LifeInv

(* The entry made for a presentation.                                      *)
EntryFor(s) == [i |-> <<s, target[s].k>>, s |-> s, flipPending |-> 0,
                seqno |-> target[s].seqno, frame |-> target[s].frame,
                needs |-> target[s].seqno]

LEMMA EntryIsEntry ==
  ASSUME LifeTypes, NEW s \in Surfaces, pc[s] \in PresentLabels
  PROVE  EntryFor(s) \in VsyncData /\ EntryFor(s).s = s
<1>1. target[s] \in Targets /\ target[s].frame # 0
  BY DEF LifeTypes
<1>2. PICK k \in 0 .. NumImages - 1, f \in 1 .. MaxFrames, q \in 0 .. MaxSeqno :
        k = target[s].k /\ f = target[s].frame /\ q = target[s].seqno
  BY <1>1, FlipQueueAssumption DEF Targets
<1>3. PICK x : x = <<s, k>>
  OBVIOUS
<1>4. x \in Images
  BY <1>3 DEF Images
<1>5. EntryFor(s) = [i |-> x, s |-> s, flipPending |-> 0, seqno |-> q, frame |-> f, needs |-> q]
  BY <1>2, <1>3 DEF EntryFor
<1> QED
  BY <1>4, <1>5 DEF VsyncData

(* What the new entry leaves of the queue.                                 *)
LEMMA QueueAfterAdding ==
  ASSUME LifeTypes, QueueOK, known' = known, NEW d \in VsyncData, d.s \in known, Fifo!Enqueue(d)
  PROVE  /\ queue' \in Seq(Slots) /\ Len(queue') = Len(queue) + 1
         /\ vsync' \in [Slots -> VsyncData \cup {None}]
         /\ queue # << >> => Entry(1)' = Entry(1)
         /\ QueueOK'
<1>1. PICK p \in Slots : /\ \A n \in 1 .. Len(queue) : queue[n] # p
                        /\ queue' = Append(queue, p) /\ vsync' = [vsync EXCEPT ![p] = d]
  BY EnqueueAppends DEF LifeTypes
<1>2. queue \in Seq(Slots)
  BY DEF LifeTypes
<1>3. PICK l \in Nat : l = Len(queue)
  BY <1>2
<1>4. /\ queue' \in Seq(Slots) /\ Len(queue') = l + 1 /\ queue'[l + 1] = p
      /\ \A n \in 1 .. l : queue'[n] = queue[n] /\ queue[n] \in Slots
  BY <1>1, <1>2, <1>3
<1>5. vsync' \in [Slots -> VsyncData \cup {None}] /\ vsync'[p] = d
      /\ \A q \in Slots : q # p => vsync'[q] = vsync[q]
  BY <1>1 DEF LifeTypes
<1>6. \A n \in 1 .. l : Entry(n)' = Entry(n)
  BY <1>1, <1>3, <1>4, <1>5 DEF Entry
<1>7. ASSUME NEW n \in 1 .. l + 1 PROVE Entry(n)' \in VsyncData /\ Entry(n)'.s \in known
  <2>1. CASE n = l + 1
    BY <1>4, <1>5, <2>1 DEF Entry
  <2>2. CASE n \in 1 .. l
    BY <1>3, <1>6, <2>2 DEF QueueOK
  <2> QED
    BY <1>7, <2>1, <2>2
<1>8. ASSUME NEW m \in 1 .. l + 1, NEW n \in 1 .. l + 1, queue'[m] = queue'[n]
      PROVE  m = n
  BY <1>1, <1>3, <1>4, <1>8 DEF QueueOK
<1>9. queue # << >> => Entry(1)' = Entry(1)
  <2>1. queue # << >> => 1 \in 1 .. l
    BY <1>2, <1>3
  <2> QED
    BY <1>6, <2>1
<1> QED
  BY <1>3, <1>4, <1>5, <1>7, <1>8, <1>9 DEF QueueOK

(* An image enters the queue, or the call dies because it is full.         *)
LEMMA AddingKeeps ==
  ASSUME LifeInv, NEW s \in Surfaces, presentEnqueue(s), crash = "none",
         inFlight' = [inFlight EXCEPT ![s] = @ \cup {target[s].k}],
         UNCHANGED <<backbufferIdx, held>>
  PROVE  LifeInv' /\ CrashesAreKnown'
<1>0. /\ LifeTypes /\ CountOK /\ SavedStatesDistinct /\ QueueOK /\ StillThere /\ RoomOK
      /\ UNCHANGED <<refCount, saved, savedState, target, live, ft, emitted, frames>>
      /\ pc[s] = "enqueue"
  BY DEF LifeInv, presentEnqueue, gpuVars, kernelVars, countVars
<1>1. /\ pc[s] \in LiveLabels /\ "idle" \in LiveLabels
      /\ pc[s] \in PresentLabels /\ "idle" \notin PresentLabels
      /\ "idle" \notin AcquireLabels
  BY <1>0 DEF LiveLabels, AcquireLabels, PresentLabels
<1>2. PICK x : x = <<s, target[s].k>>
  OBVIOUS
<1>3. x \in Out /\ target[s].k \in 0 .. NumImages - 1 /\ x \in Images
      /\ target[s].k \notin held[s] /\ s \in known
  <2>1. target[s].k \in 0 .. NumImages - 1
    BY <1>0 DEF LifeTypes, Targets
  <2>2. x \in Images /\ x[1] = s /\ x[2] = target[s].k
    BY <1>2, <2>1 DEF Images
  <2> QED
    BY <1>0, <1>1, <2>1, <2>2 DEF Out, RoomOK, known, LifeTypes
<1>4. PICK a \in Int, o \in Nat, l \in Nat :
        /\ a = NumImages * Cardinality(known) /\ o = Cardinality(Out) /\ l = Len(queue)
  BY <1>0, OutIsFinite, FlipQueueAssumption, SMTT(40) DEF LifeTypes
<1>5. o # 0 /\ l + o <= a
  BY <1>0, <1>3, <1>4, OutIsFinite, FS_EmptySet DEF RoomOK
<1>i. inFlight' \in [Surfaces -> SUBSET (0 .. NumImages - 1)]
  BY <1>0, <1>3 DEF LifeTypes
<1>6. CASE crash' = "fifoAdd: full queue" /\ Len(queue) = FlipFifoSize /\ UNCHANGED <<queue, vsync, pc>>
  <2>1. live' \cup ended' = known
    BY <1>0, <1>6 DEF known, ended
  <2>2. a > FlipFifoSize
    <3>1. l = FlipFifoSize
      BY <1>4, <1>6
    <3> QED
      BY <1>5, <3>1
  <2>3. CrashesAreKnown'
    BY <1>4, <1>6, <2>1, <2>2 DEF CrashesAreKnown
  <2>4. UNCHANGED LifeVars
    BY <1>0, <1>6 DEF LifeVars
  <2> QED
    BY <1>i, <2>3, <2>4, DyingKeeps
<1>7. CASE Fifo!Enqueue(EntryFor(s)) /\ UNCHANGED crash /\ pc' = [pc EXCEPT ![s] = "idle"]
  <2>1. /\ Unmoved /\ live' = {t \in Surfaces : pc'[t] \in LiveLabels}
        /\ pc' \in [Surfaces -> Labels] /\ pc'[s] = "idle"
        /\ \A t \in Surfaces : t # s => pc'[t] = pc[t]
        /\ IsFiniteSet({t \in Surfaces : pc'[t] # "none"})
    BY <1>0, <1>1, <1>7, LabelsKept
  <2>2. known' = known
    BY <2>1 DEF Unmoved, known
  <2>3. /\ queue' \in Seq(Slots) /\ Len(queue') = Len(queue) + 1
        /\ vsync' \in [Slots -> VsyncData \cup {None}]
        /\ queue # << >> => Entry(1)' = Entry(1)
        /\ QueueOK'
    <3>1. PICK d \in VsyncData : d = EntryFor(s) /\ d.s = s
      BY <1>0, <1>1, EntryIsEntry
    <3> QED
      BY <1>0, <1>3, <1>7, <2>2, <3>1, QueueAfterAdding
  <2>5. LifeTypes'
    <3>1. \A t \in Surfaces : pc'[t] \in PresentLabels => target'[t].frame # 0
      BY <1>0, <1>1, <2>1 DEF LifeTypes
    <3> QED
      BY <1>0, <1>i, <2>1, <2>3, <3>1 DEF LifeTypes
  <2>6. CountOK' /\ SavedStatesDistinct'
    BY <1>0, <2>1, CountKept
  <2>7. StillThere'
    <3>1. queue # << >> => queue' # << >> /\ Entry(1)' = Entry(1)
      BY <1>0, <1>4, <2>3
    <3>2. \A t \in Surfaces :
            /\ pc'[t] \in AcquireLabels \ {"look"} /\ Alone(t) => queue' # << >>
            /\ pc'[t] = "take" /\ Alone(t) => Entry(1)'.seqno = 0
      <4>1. ASSUME NEW t \in Surfaces, pc'[t] \in AcquireLabels \ {"look"}, Alone(t)
            PROVE  queue' # << >> /\ (pc'[t] = "take" => Entry(1)'.seqno = 0)
        <5>1. pc'[t] = pc[t]
          BY <1>1, <2>1, <4>1
        <5> QED
          BY <1>0, <3>1, <4>1, <5>1 DEF StillThere
      <4>2. "take" \in AcquireLabels \ {"look"}
        BY DEF AcquireLabels
      <4> QED
        BY <4>1, <4>2
    <3> QED
      BY <1>0, <2>1, <2>2, <3>1, <3>2 DEF StillThere, Alone, Unmoved
  <2>8. RoomOK'
    <3>1. \A u \in Surfaces : held'[u] # {} => u \in known'
      BY <1>0, <2>2 DEF RoomOK
    <3>2. \A u \in Surfaces : pc'[u] \in PresentLabels => target'[u].k \notin held'[u]
      BY <1>0, <1>1, <2>1 DEF RoomOK
    <3>3. Out' \subseteq Out \ {x}
      <4>1. ASSUME NEW y \in Out' PROVE y \in Out \ {x}
        <5>1. PICK u \in Surfaces, b \in 0 .. NumImages - 1 :
                u = y[1] /\ b = y[2] /\ y = <<u, b>> /\ y \in Images
          BY DEF Out, Images
        <5>2. b \in held[u] \/ (pc'[u] \in PresentLabels /\ b = target[u].k)
          BY <1>0, <5>1 DEF Out
        <5>3. CASE u = s
          <6>1. b \in held[s] /\ b # target[s].k
            BY <1>1, <1>3, <2>1, <5>2, <5>3
          <6> QED
            BY <1>2, <5>1, <5>3, <6>1 DEF Out
        <5>4. CASE u # s
          BY <1>2, <2>1, <5>1, <5>2, <5>4 DEF Out
        <5> QED
          BY <5>3, <5>4
      <4> QED
        BY <4>1
    <3>4. Cardinality(Out') \in Nat /\ Cardinality(Out') <= o - 1
      <4>1. IsFiniteSet(Out \ {x}) /\ Cardinality(Out \ {x}) = o - 1
        BY <1>0, <1>3, <1>4, OutIsFinite, FS_RemoveElement
      <4>2. PICK T : T = Out'
        OBVIOUS
      <4>3. T \in SUBSET (Out \ {x})
        BY <3>3, <4>2
      <4>4. IsFiniteSet(T) /\ Cardinality(T) <= Cardinality(Out \ {x}) /\ Cardinality(T) \in Nat
        BY <4>1, <4>3, FS_Subset, FS_CardinalityType
      <4> QED
        BY <4>1, <4>2, <4>4
    <3>5. Len(queue') + Cardinality(Out') <= NumImages * Cardinality(known')
      BY <1>4, <1>5, <2>2, <2>3, <3>4
    <3> QED
      BY <3>1, <3>2, <3>5 DEF RoomOK
  <2> QED
    BY <1>7, <2>3, <2>5, <2>6, <2>7, <2>8 DEF LifeInv, CrashesAreKnown
<1> QED
  BY <1>6, <1>7 DEF presentEnqueue, EntryFor, Goto

-----------------------------------------------------------------------------
(* Surfaces that come and go.                                              *)

(* The set S with s in it, or without it.                                  *)
With(S, s, in) == IF in THEN S \cup {s} ELSE S \ {s}

LEMMA SetsMove ==
  ASSUME LifeTypes, NEW s \in Surfaces, NEW l \in Labels, pc' = [pc EXCEPT ![s] = l],
         live' = With(live, s, l \in LiveLabels)
  PROVE  /\ counted' = With(counted, s, l \in CountedLabels)
         /\ changing' = With(changing, s, l \in ChangingLabels)
         /\ ended' = With(ended, s, l \in EndedLabels)
         /\ live' = {t \in Surfaces : pc'[t] \in LiveLabels}
         /\ pc' \in [Surfaces -> Labels] /\ pc'[s] = l
         /\ \A t \in Surfaces : t # s => pc'[t] = pc[t]
         /\ IsFiniteSet({t \in Surfaces : pc'[t] # "none"})
         /\ IsFiniteSet(known') /\ IsFiniteSet(counted')
<1>1. /\ pc' \in [Surfaces -> Labels] /\ pc'[s] = l
      /\ \A t \in Surfaces : t # s => pc'[t] = pc[t]
      /\ IsFiniteSet({t \in Surfaces : pc'[t] # "none"})
  BY LabelMoves
<1>2. pc \in [Surfaces -> Labels] /\ live = {t \in Surfaces : pc[t] \in LiveLabels}
  BY DEF LifeTypes
<1>3. /\ counted = {t \in Surfaces : pc[t] \in CountedLabels}
      /\ counted' = {t \in Surfaces : pc'[t] \in CountedLabels}
  BY <1>1, <1>2 DEF counted, CountedLabels, Labels, LiveLabels, EndedLabels, ChangingLabels,
                    AcquireLabels, PresentLabels
<1>4. counted' = With(counted, s, l \in CountedLabels)
  BY <1>1, <1>3 DEF With
<1>5. changing' = With(changing, s, l \in ChangingLabels)
  BY <1>1 DEF With, changing, ChangingLabels
<1>6. ended' = With(ended, s, l \in EndedLabels)
  BY <1>1 DEF With, ended, EndedLabels
<1>7. live' = {t \in Surfaces : pc'[t] \in LiveLabels}
  BY <1>1, <1>2 DEF With
<1>8. /\ counted' \in SUBSET {t \in Surfaces : pc'[t] # "none"}
      /\ known' \in SUBSET {t \in Surfaces : pc'[t] # "none"}
  BY <1>1, <1>7 DEF counted, known, ended, LiveLabels, AcquireLabels, PresentLabels
<1>9. IsFiniteSet(known') /\ IsFiniteSet(counted')
  <2>1. PICK S, T : S = known' /\ T = counted'
    OBVIOUS
  <2>2. IsFiniteSet(S) /\ IsFiniteSet(T)
    BY <1>1, <1>8, <2>1, FS_Subset
  <2> QED
    BY <2>1, <2>2
<1> QED
  BY <1>1, <1>4, <1>5, <1>6, <1>7, <1>9

(* The queue is made or destroyed while nobody relies on what is in it.    *)
Emptied ==
  /\ queue' = << >> /\ vsync' = [p \in Slots |-> None]
  /\ ft'.pc \in {"wait", "flip"} => ended' # {}
  /\ \A t \in Surfaces : pc'[t] \in AcquireLabels \ {"look"} => known' # {t}

(* A surface that is not in a frame moves.                                 *)
LEMMA ComingKeeps ==
  ASSUME LifeInv, NEW s \in Surfaces, NEW l \in Labels, pc' = [pc EXCEPT ![s] = l],
         pc[s] \notin AcquireLabels \cup PresentLabels, l \notin AcquireLabels \cup PresentLabels,
         live' = With(live, s, l \in LiveLabels),
         pc[s] \in EndedLabels => l \in EndedLabels,
         pc[s] \in LiveLabels => l \in LiveLabels \cup EndedLabels,
         UNCHANGED <<queue, vsync>> \/ Emptied, UNCHANGED <<target, emitted, frames, held>>,
         savedState' \in [Surfaces -> 0 .. SavedSlots - 1], DOMAIN saved' = DOMAIN saved,
         DOMAIN ft' = DOMAIN ft, ft' = ft \/ ft'.pc \notin {"wait", "flip"},
         backbufferIdx' \in [Surfaces -> 0 .. NumImages - 1],
         inFlight' \in [Surfaces -> SUBSET (0 .. NumImages - 1)]
  PROVE  LifeTypes' /\ QueueOK' /\ StillThere' /\ RoomOK'
<1>0. LifeTypes /\ QueueOK /\ StillThere /\ RoomOK
  BY DEF LifeInv
<1>1. /\ ended' = With(ended, s, l \in EndedLabels)
      /\ live' = {t \in Surfaces : pc'[t] \in LiveLabels}
      /\ pc' \in [Surfaces -> Labels] /\ pc'[s] = l
      /\ \A t \in Surfaces : t # s => pc'[t] = pc[t]
      /\ IsFiniteSet({t \in Surfaces : pc'[t] # "none"})
      /\ IsFiniteSet(known')
  BY <1>0, SetsMove
<1>2. ended \subseteq ended'
  <2>1. s \in ended <=> pc[s] \in EndedLabels
    BY DEF ended, EndedLabels
  <2> QED
    BY <1>1, <2>1 DEF With
<1>3. live \subseteq live' \/ s \in ended'
  <2>1. s \in live <=> pc[s] \in LiveLabels
    BY <1>0 DEF LifeTypes
  <2> QED
    BY <1>1, <2>1 DEF With
<1>4. Grown
  <2>1. \A t \in live : t # s => t \in live'
    BY DEF With
  <2> QED
    BY <1>2, <1>3, <2>1 DEF Grown, known
<1>q. /\ queue' \in Seq(Slots) /\ Len(queue') <= Len(queue)
      /\ vsync' \in [Slots -> VsyncData \cup {None}]
  <2>1. CASE UNCHANGED <<queue, vsync>>
    BY <1>0, <2>1 DEF LifeTypes
  <2>2. CASE Emptied
    <3>1. queue' = << >> /\ vsync' = [p \in Slots |-> None]
      BY <2>2 DEF Emptied
    <3> QED
      BY <1>0, <3>1 DEF LifeTypes
  <2> QED
    BY <2>1, <2>2
<1>5. LifeTypes'
  <2>1. \A t \in Surfaces : pc'[t] \in PresentLabels => target'[t].frame # 0
    BY <1>0, <1>1 DEF LifeTypes
  <2> QED
    BY <1>0, <1>1, <1>q, <2>1 DEF LifeTypes
<1>6. QueueOK'
  <2>1. CASE UNCHANGED <<queue, vsync>>
    BY <1>0, <1>4, <2>1 DEF QueueOK, Entry, Grown
  <2>2. CASE Emptied
    <3>1. 1 .. Len(queue') = {}
      BY <2>2 DEF Emptied
    <3> QED
      BY <3>1 DEF QueueOK
  <2> QED
    BY <2>1, <2>2
<1>7. StillThere'
  <2>1. CASE UNCHANGED <<queue, vsync>>
    <3>1. \A t \in Surfaces : pc'[t] \in AcquireLabels \ {"look"} => pc'[t] = pc[t]
      BY <1>1
    <3> QED
      BY <1>0, <1>4, <2>1, <3>1, StillKept
  <2>2. CASE Emptied
    <3>1. "take" \in AcquireLabels \ {"look"}
      BY DEF AcquireLabels
    <3> QED
      BY <2>2, <3>1 DEF StillThere, Emptied, Alone
  <2> QED
    BY <2>1, <2>2
<1>8. RoomOK'
  <2>1. \A t \in Surfaces : pc'[t] \in PresentLabels <=> pc[t] \in PresentLabels
    BY <1>1
  <2> QED
    BY <1>0, <1>1, <1>4, <1>q, <2>1, RoomKept DEF Grown
<1> QED
  BY <1>5, <1>6, <1>7, <1>8

(* The count and the saved states, when one surface moves.                 *)
LEMMA CountedOnce ==
  ASSUME LifeTypes
  PROVE  /\ IsFiniteSet(counted) /\ Cardinality(counted) \in Nat /\ Cardinality({}) = 0
         /\ (Cardinality(counted) = 0 <=> counted = {})
BY SetsAreFinite, FS_CardinalityType, FS_EmptySet

(* A surface is created, the first one with the queue and the thread.      *)
LEMMA CreatingKeeps ==
  ASSUME LifeInv, NEW s \in Surfaces, createSurface(s), UNCHANGED swapVars
  PROVE  LifeInv' /\ UNCHANGED crash
<1>0. /\ LifeTypes /\ CountOK /\ SavedStatesDistinct
      /\ UNCHANGED <<refCount, saved, savedState, target, live, emitted, frames, crash,
                     backbufferIdx, inFlight, held>>
      /\ pc[s] = "none" /\ changing = {}
  BY DEF LifeInv, createSurface, swapVars, gpuVars, countVars
<1>1. PICK l \in {"semInit", "count"} : pc' = [pc EXCEPT ![s] = l]
  BY DEF createSurface, Goto
<1>2. /\ l \in Labels /\ l \in ChangingLabels /\ l \notin LiveLabels \cup EndedLabels
      /\ l \notin CountedLabels
      /\ pc[s] \notin AcquireLabels \cup PresentLabels \cup LiveLabels \cup EndedLabels
      /\ l \notin AcquireLabels \cup PresentLabels
      /\ s \notin live /\ s \notin counted
  BY <1>0 DEF Labels, ChangingLabels, LiveLabels, EndedLabels, CountedLabels, AcquireLabels, PresentLabels,
              LifeTypes, counted
<1>3. live' = With(live, s, l \in LiveLabels)
  BY <1>0, <1>2 DEF With
<1>4. /\ counted' = counted /\ changing' = {s} /\ pc' \in [Surfaces -> Labels]
  <2>1. /\ counted' = With(counted, s, l \in CountedLabels)
        /\ changing' = With(changing, s, l \in ChangingLabels)
        /\ pc' \in [Surfaces -> Labels]
    BY <1>0, <1>1, <1>2, <1>3, SetsMove
  <2> QED
    BY <1>0, <1>2, <2>1 DEF With
<1>5. CountOK' /\ SavedStatesDistinct'
  BY <1>0, <1>4 DEF CountOK, SavedStatesDistinct
<1>6. /\ UNCHANGED <<queue, vsync>> \/ Emptied
      /\ DOMAIN ft' = DOMAIN ft /\ (ft' = ft \/ ft'.pc \notin {"wait", "flip"})
  <2>1. CASE refCount = 0
    <3>1. counted = {}
      BY <1>0, <2>1, CountedOnce DEF CountOK
    <3>2. \A t \in Surfaces : pc'[t] \notin AcquireLabels
      BY <1>4, <3>1 DEF counted, AcquireLabels
    <3>3. /\ queue' = << >> /\ vsync' = [p \in Slots |-> None]
          /\ ft' = [NoThread EXCEPT !.pc = "look", !.run = TRUE]
      BY <2>1 DEF createSurface
    <3>4. DOMAIN ft' = {"pc", "seqno", "run", "lastFinished"} /\ ft'.pc = "look"
      BY <3>3 DEF NoThread
    <3> QED
      BY <1>0, <3>2, <3>3, <3>4 DEF Emptied, LifeTypes
  <2>2. CASE refCount # 0
    BY <2>2 DEF createSurface
  <2> QED
    BY <2>1, <2>2
<1>7. LifeTypes' /\ QueueOK' /\ StillThere' /\ RoomOK'
  BY <1>0, <1>1, <1>2, <1>3, <1>6, ComingKeeps DEF LifeTypes
<1> QED
  BY <1>0, <1>5, <1>7 DEF LifeInv

(* The semaphore is initialised and the surface counted.                   *)
LEMMA CountingKeeps ==
  ASSUME LifeInv, NEW s \in Surfaces, createSem(s) \/ createCount(s), UNCHANGED swapVars
  PROVE  LifeInv' /\ UNCHANGED crash
<1>0. /\ LifeTypes /\ CountOK /\ SavedStatesDistinct
      /\ UNCHANGED <<queue, vsync, ft, saved, target, live, emitted, frames, crash,
                     backbufferIdx, inFlight, held>>
  BY DEF LifeInv, createSem, createCount, swapVars, gpuVars, countVars
<1>1. CASE createSem(s)
  <2>1. /\ pc[s] = "semInit" /\ pc' = [pc EXCEPT ![s] = "count"]
        /\ UNCHANGED <<refCount, savedState, crash>>
    BY <1>1 DEF createSem, Goto
  <2>2. /\ "count" \in Labels /\ "count" \in ChangingLabels /\ "count" \notin LiveLabels \cup EndedLabels
        /\ "count" \notin CountedLabels
        /\ pc[s] \notin AcquireLabels \cup PresentLabels \cup LiveLabels \cup EndedLabels
        /\ "count" \notin AcquireLabels \cup PresentLabels
        /\ s \notin live /\ s \notin counted /\ s \in changing
    BY <1>0, <2>1 DEF Labels, ChangingLabels, LiveLabels, EndedLabels, CountedLabels, AcquireLabels,
                      PresentLabels, LifeTypes, counted, changing
  <2>3. live' = With(live, s, "count" \in LiveLabels)
    BY <1>0, <2>2 DEF With
  <2>4. counted' = counted /\ changing' = changing
    <3>1. /\ counted' = With(counted, s, "count" \in CountedLabels)
          /\ changing' = With(changing, s, "count" \in ChangingLabels)
      BY <1>0, <2>1, <2>2, <2>3, SetsMove
    <3> QED
      BY <2>2, <3>1 DEF With
  <2>5. CountOK' /\ SavedStatesDistinct'
    BY <1>0, <2>1, <2>4 DEF CountOK, SavedStatesDistinct
  <2>6. LifeTypes' /\ QueueOK' /\ StillThere' /\ RoomOK'
    BY <1>0, <2>1, <2>2, <2>3, ComingKeeps DEF LifeTypes
  <2> QED
    BY <2>1, <2>5, <2>6 DEF LifeInv
<1>2. CASE createCount(s)
  <2>1. /\ pc[s] = "count" /\ pc' = [pc EXCEPT ![s] = "noSwapchain"]
        /\ refCount' = refCount + 1 /\ savedState' = [savedState EXCEPT ![s] = 0]
        /\ UNCHANGED crash
    BY <1>2 DEF createCount, Goto
  <2>2. /\ "noSwapchain" \in Labels /\ "noSwapchain" \notin ChangingLabels
        /\ "noSwapchain" \notin LiveLabels \cup EndedLabels
        /\ "noSwapchain" \in CountedLabels
        /\ pc[s] \notin AcquireLabels \cup PresentLabels \cup LiveLabels \cup EndedLabels
        /\ "noSwapchain" \notin AcquireLabels \cup PresentLabels
        /\ s \notin live /\ s \notin counted
    BY <1>0, <2>1 DEF Labels, ChangingLabels, LiveLabels, EndedLabels, CountedLabels, AcquireLabels,
                      PresentLabels, LifeTypes, counted
  <2>3. live' = With(live, s, "noSwapchain" \in LiveLabels)
    BY <1>0, <2>2 DEF With
  <2>4. counted' = counted \cup {s} /\ changing' = changing \ {s}
    <3>1. /\ counted' = With(counted, s, "noSwapchain" \in CountedLabels)
          /\ changing' = With(changing, s, "noSwapchain" \in ChangingLabels)
      BY <1>0, <2>1, <2>2, <2>3, SetsMove
    <3> QED
      BY <2>2, <3>1 DEF With
  <2>5. savedState' \in [Surfaces -> 0 .. SavedSlots - 1] /\ savedState'[s] = 0
        /\ \A t \in Surfaces : t # s => savedState'[t] = savedState[t]
    BY <1>0, <2>1, FlipQueueAssumption DEF LifeTypes
  <2>6. CountOK'
    <3>1. refCount' = Cardinality(counted')
      BY <1>0, <2>1, <2>2, <2>4, CountedOnce, FS_AddElement DEF CountOK
    <3> QED
      BY <1>0, <2>4, <3>1 DEF CountOK
  <2>7. SavedStatesDistinct'
    <3>1. counted \subseteq Surfaces
      BY DEF counted
    <3> QED
      BY <1>0, <2>2, <2>4, <2>5, <3>1 DEF SavedStatesDistinct
  <2>8. LifeTypes' /\ QueueOK' /\ StillThere' /\ RoomOK'
    BY <1>0, <2>1, <2>2, <2>3, <2>5, ComingKeeps DEF LifeTypes
  <2> QED
    BY <2>1, <2>6, <2>7, <2>8 DEF LifeInv
<1> QED
  BY <1>1, <1>2

(* A swapchain is created or destroyed.                                    *)
LEMMA SwapchainKeeps ==
  ASSUME LifeInv, NEW s \in Surfaces, vkCreateSwapchainKHR(s) \/ vkDestroySwapchainKHR(s)
  PROVE  LifeInv' /\ UNCHANGED crash
<1>0. /\ LifeTypes /\ CountOK /\ SavedStatesDistinct
      /\ UNCHANGED <<refCount, queue, vsync, ft, saved, savedState, target, emitted, frames, crash, held>>
  BY DEF LifeInv, vkCreateSwapchainKHR, vkDestroySwapchainKHR, swapVars, modesetVars, gpuVars, countVars
<1>1. PICK l \in {"idle", "closing"} :
        /\ pc' = [pc EXCEPT ![s] = l] /\ live' = With(live, s, l = "idle")
        /\ pc[s] = IF l = "idle" THEN "noSwapchain" ELSE "idle"
        /\ backbufferIdx' \in [Surfaces -> 0 .. NumImages - 1]
        /\ inFlight' \in [Surfaces -> SUBSET (0 .. NumImages - 1)]
  <2>1. CASE vkCreateSwapchainKHR(s)
    <3>1. /\ pc' = [pc EXCEPT ![s] = "idle"] /\ live' = live \cup {s} /\ pc[s] = "noSwapchain"
          /\ backbufferIdx' = [backbufferIdx EXCEPT ![s] = 0]
          /\ inFlight' = [inFlight EXCEPT ![s] = {}]
      BY <2>1 DEF vkCreateSwapchainKHR, Goto
    <3> QED
      BY <1>0, <3>1, FlipQueueAssumption DEF LifeTypes, With
  <2>2. CASE vkDestroySwapchainKHR(s)
    <3>1. /\ pc' = [pc EXCEPT ![s] = "closing"] /\ live' = live \ {s} /\ pc[s] = "idle"
          /\ UNCHANGED <<backbufferIdx, inFlight>>
      BY <2>2 DEF vkDestroySwapchainKHR, Goto, swapVars
    <3> QED
      BY <1>0, <3>1 DEF LifeTypes, With
  <2> QED
    BY <2>1, <2>2
<1>2. /\ l \in Labels /\ l \notin ChangingLabels /\ l \in CountedLabels
      /\ (l \in LiveLabels <=> l = "idle") /\ l \in LiveLabels \cup EndedLabels
      /\ pc[s] \notin AcquireLabels \cup PresentLabels \cup EndedLabels
      /\ l \notin AcquireLabels \cup PresentLabels
      /\ s \in counted /\ s \notin changing
  BY <1>0, <1>1 DEF Labels, ChangingLabels, LiveLabels, EndedLabels, CountedLabels, AcquireLabels,
                    PresentLabels, LifeTypes, counted, changing
<1>3. live' = With(live, s, l \in LiveLabels)
  BY <1>1, <1>2 DEF With
<1>4. counted' = counted /\ changing' = changing
  <2>1. /\ counted' = With(counted, s, l \in CountedLabels)
        /\ changing' = With(changing, s, l \in ChangingLabels)
    BY <1>0, <1>1, <1>2, <1>3, SetsMove
  <2> QED
    BY <1>2, <2>1 DEF With
<1>5. CountOK' /\ SavedStatesDistinct'
  BY <1>0, <1>4 DEF CountOK, SavedStatesDistinct
<1>6. LifeTypes' /\ QueueOK' /\ StillThere' /\ RoomOK'
  BY <1>0, <1>1, <1>2, <1>3, ComingKeeps DEF LifeTypes
<1> QED
  BY <1>0, <1>5, <1>6 DEF LifeInv

(* A surface is destroyed: its saved state is given up, or there is none.  *)
LEMMA DestroyingKeeps ==
  ASSUME LifeInv, NEW s \in Surfaces, destroySurface(s), UNCHANGED swapVars, crash = "none"
  PROVE  LifeInv' /\ CrashesAreKnown'
<1>0. /\ LifeTypes /\ CountOK /\ SavedStatesDistinct
      /\ UNCHANGED <<queue, vsync, ft, savedState, target, live, emitted, frames,
                     backbufferIdx, inFlight, held>>
      /\ pc[s] \in {"noSwapchain", "closing"} /\ changing = {}
  BY DEF LifeInv, destroySurface, swapVars, gpuVars, countVars
<1>1. PICK c \in 0 .. SavedSlots - 1 : c = savedState[s]
  BY <1>0 DEF LifeTypes
<1>2. s \in counted
  BY <1>0 DEF counted
<1>3. CASE saved[c].state # "used"
  <2>1. crash' = "destroy: no saved state" /\ UNCHANGED <<saved, refCount, pc>>
    BY <1>1, <1>3 DEF destroySurface
  <2>2. savedState[s] = 0
    BY <1>0, <1>1, <1>2, <1>3 DEF SavedStatesDistinct
  <2>3. counted' = counted
    BY <2>1 DEF counted
  <2>4. CrashesAreKnown'
    BY <1>0, <1>2, <2>1, <2>2, <2>3 DEF CrashesAreKnown
  <2>5. UNCHANGED LifeVars
    BY <1>0, <2>1 DEF LifeVars
  <2> QED
    BY <1>0, <2>4, <2>5, DyingKeeps
<1>4. CASE saved[c].state = "used"
  <2>1. PICK l \in {"destroyFifo", "gone"} :
          /\ pc' = [pc EXCEPT ![s] = l] /\ (refCount = 1 => l = "destroyFifo")
          /\ (refCount # 1 => l = "gone")
          /\ saved' = [saved EXCEPT ![c].state = "freed"]
          /\ refCount' = refCount - 1 /\ UNCHANGED crash
    BY <1>1, <1>4 DEF destroySurface, Goto
  <2>2. /\ l \in Labels /\ (l \in ChangingLabels <=> l = "destroyFifo")
        /\ l \in EndedLabels /\ l \notin LiveLabels /\ l \notin CountedLabels
        /\ pc[s] \notin AcquireLabels \cup PresentLabels \cup LiveLabels
        /\ l \notin AcquireLabels \cup PresentLabels /\ s \notin live
    BY <1>0, <2>1 DEF Labels, ChangingLabels, LiveLabels, EndedLabels, CountedLabels, AcquireLabels,
                      PresentLabels, LifeTypes
  <2>3. live' = With(live, s, l \in LiveLabels)
    BY <1>0, <2>2 DEF With
  <2>4. counted' = counted \ {s} /\ changing' = IF refCount = 1 THEN {s} ELSE {}
    <3>1. /\ counted' = With(counted, s, l \in CountedLabels)
          /\ changing' = With(changing, s, l \in ChangingLabels)
      BY <1>0, <2>1, <2>2, <2>3, SetsMove
    <3> QED
      BY <1>0, <2>1, <2>2, <3>1 DEF With
  <2>5. CountOK'
    <3>1. refCount' = Cardinality(counted')
      <4>1. /\ IsFiniteSet(counted)
            /\ Cardinality(counted \ {s}) = Cardinality(counted) - 1
        BY <1>0, <1>2, CountedOnce, FS_RemoveElement
      <4> QED
        BY <1>0, <2>1, <2>4, <4>1 DEF CountOK
    <3>2. counted' = {} => refCount = 1
      <4>1. counted' = {} => refCount' = 0 /\ refCount \in Int
        BY <1>0, <3>1, CountedOnce DEF CountOK
      <4> QED
        BY <2>1, <4>1
    <3> QED
      BY <2>4, <3>1, <3>2 DEF CountOK
  <2>6. DOMAIN saved' = DOMAIN saved /\ \A e \in DOMAIN saved : e # c => saved'[e] = saved[e]
    BY <2>1
  <2>7. SavedStatesDistinct'
    <3>1. ASSUME NEW t \in counted \ {s}, savedState[t] > 0
          PROVE  saved'[savedState[t]].state = "used" /\ \A u \in counted \ {s, t} : savedState[u] # savedState[t]
      <4>1. /\ saved[savedState[t]].state = "used"
            /\ \A u \in counted \ {t} : savedState[u] # savedState[t]
        BY <1>0, <3>1 DEF SavedStatesDistinct
      <4>2. savedState[t] # c /\ savedState[t] \in DOMAIN saved
        BY <1>0, <1>1, <1>2, <3>1, <4>1 DEF LifeTypes, counted
      <4> QED
        BY <2>6, <4>1, <4>2
    <3> QED
      BY <1>0, <2>4, <3>1 DEF SavedStatesDistinct
  <2>8. LifeTypes' /\ QueueOK' /\ StillThere' /\ RoomOK'
    BY <1>0, <2>1, <2>2, <2>3, <2>6, ComingKeeps DEF LifeTypes
  <2> QED
    BY <2>1, <2>5, <2>7, <2>8 DEF LifeInv, CrashesAreKnown
<1> QED
  BY <1>3, <1>4

(* With the last surface the queue goes, and then the thread.              *)
LEMMA EndingKeeps ==
  ASSUME LifeInv, NEW s \in Surfaces, destroyQueue(s) \/ joinThread(s), UNCHANGED swapVars
  PROVE  LifeInv' /\ UNCHANGED crash
<1>0. /\ LifeTypes /\ CountOK /\ SavedStatesDistinct
      /\ UNCHANGED <<refCount, saved, savedState, target, live, emitted, frames, crash,
                     backbufferIdx, inFlight, held>>
  BY DEF LifeInv, destroyQueue, joinThread, swapVars, modesetVars, gpuVars, countVars
<1>1. PICK l \in {"join", "gone"} :
        /\ pc' = [pc EXCEPT ![s] = l]
        /\ pc[s] = IF l = "join" THEN "destroyFifo" ELSE "join"
        /\ IF l = "join"
           THEN queue' = << >> /\ vsync' = [p \in Slots |-> None] /\ UNCHANGED ft
           ELSE UNCHANGED <<queue, vsync>> /\ ft' = NoThread
  <2>1. CASE destroyQueue(s)
    BY <2>1 DEF destroyQueue, Goto
  <2>2. CASE joinThread(s)
    BY <2>2 DEF joinThread, Goto, modesetVars
  <2> QED
    BY <2>1, <2>2
<1>2. /\ l \in Labels /\ (l \in ChangingLabels <=> l = "join")
      /\ l \in EndedLabels /\ l \notin LiveLabels /\ l \notin CountedLabels
      /\ pc[s] \notin AcquireLabels \cup PresentLabels \cup LiveLabels
      /\ l \notin AcquireLabels \cup PresentLabels /\ s \notin live
      /\ s \notin counted /\ s \in changing /\ s \in ended
  BY <1>0, <1>1 DEF Labels, ChangingLabels, LiveLabels, EndedLabels, CountedLabels, AcquireLabels,
                    PresentLabels, LifeTypes, counted, changing, ended
<1>3. live' = With(live, s, l \in LiveLabels)
  BY <1>0, <1>2 DEF With
<1>4. counted' = counted /\ changing' = (IF l = "join" THEN changing ELSE changing \ {s})
      /\ s \in ended' /\ pc'[s] = l /\ pc' \in [Surfaces -> Labels]
  <2>1. /\ counted' = With(counted, s, l \in CountedLabels)
        /\ changing' = With(changing, s, l \in ChangingLabels)
        /\ ended' = With(ended, s, l \in EndedLabels)
        /\ pc'[s] = l /\ pc' \in [Surfaces -> Labels]
    BY <1>0, <1>1, <1>2, <1>3, SetsMove
  <2> QED
    BY <1>2, <2>1 DEF With
<1>5. DOMAIN ft' = DOMAIN ft /\ (ft' = ft \/ (ft'.pc = "none" /\ l = "gone"))
  <2>1. DOMAIN NoThread = {"pc", "seqno", "run", "lastFinished"} /\ NoThread.pc = "none"
    BY DEF NoThread
  <2> QED
    BY <1>0, <1>1, <2>1 DEF LifeTypes
<1>6. CountOK' /\ SavedStatesDistinct'
  <2>1. l = "gone" => ft'.pc = "none"
    BY <1>1 DEF NoThread
  <2> QED
    BY <1>0, <1>1, <1>2, <1>4, <2>1 DEF CountOK, SavedStatesDistinct
<1>7. UNCHANGED <<queue, vsync>> \/ Emptied
  <2>1. CASE l = "join"
    <3>1. ASSUME NEW t \in Surfaces, pc'[t] \in AcquireLabels \ {"look"} PROVE known' # {t}
      <4>1. t # s
        BY <1>2, <1>4, <3>1
      <4> QED
        BY <1>4, <4>1 DEF known
    <3> QED
      BY <1>1, <1>4, <2>1, <3>1 DEF Emptied
  <2>2. CASE l # "join"
    BY <1>1, <2>2
  <2> QED
    BY <2>1, <2>2
<1>8. LifeTypes' /\ QueueOK' /\ StillThere' /\ RoomOK'
  <2>1. ft' = ft \/ ft'.pc \notin {"wait", "flip"}
    BY <1>5
  <2> QED
    BY <1>0, <1>1, <1>2, <1>3, <1>5, <1>7, <2>1, ComingKeeps DEF LifeTypes
<1> QED
  BY <1>0, <1>6, <1>8 DEF LifeInv

-----------------------------------------------------------------------------
(* The first state, any step, and what follows.                            *)

LEMMA LifeStart == FirstStart => LifeInv /\ CrashesAreKnown
<1> SUFFICES ASSUME FirstStart PROVE LifeInv /\ CrashesAreKnown
  OBVIOUS
<1>0. /\ refCount = 0 /\ queue = << >> /\ vsync = [p \in Slots |-> None]
      /\ saved = [c \in 0 .. SavedSlots - 1 |-> Empty]
      /\ savedState = [s \in Surfaces |-> 0] /\ ft = NoThread
      /\ pc = [s \in Surfaces |-> "none"] /\ target = [s \in Surfaces |-> NoTarget]
      /\ live = {} /\ emitted = 0 /\ frames = 0 /\ crash = "none"
      /\ backbufferIdx = [s \in Surfaces |-> 0] /\ inFlight = [s \in Surfaces |-> {}]
      /\ held = [s \in Surfaces |-> {}]
  BY DEF FirstStart, ProcessStart, SwapStart
<1>1. /\ NumImages \in Nat \ {0} /\ SavedSlots \in Nat \ {0} /\ MaxSeqno \in Nat /\ MaxFrames \in Nat
      /\ 0 \in 0 .. NumImages - 1 /\ 0 \in 0 .. SavedSlots - 1 /\ 0 \in 0 .. MaxSeqno /\ 0 \in 0 .. MaxFrames
  BY FlipQueueAssumption
<1>2. /\ \A s \in Surfaces : pc[s] = "none"
      /\ "none" \notin LiveLabels /\ "none" \in Labels /\ "none" \notin PresentLabels
      /\ "none" \notin AcquireLabels
  BY <1>0 DEF LiveLabels, Labels, PresentLabels, AcquireLabels
<1>3. counted = {} /\ changing = {} /\ ended = {} /\ known = {} /\ Out = {}
  <2>1. counted = {} /\ changing = {} /\ ended = {}
    BY <1>2 DEF counted, changing, ended
  <2>2. Out = {}
    BY <1>0, <1>2 DEF Out, Images
  <2> QED
    BY <1>0, <2>1, <2>2 DEF known
<1>4. LifeTypes
  <2>1. DOMAIN ft = {"pc", "seqno", "run", "lastFinished"}
    BY <1>0 DEF NoThread
  <2>2. IsFiniteSet({s \in Surfaces : pc[s] # "none"})
    <3>1. {s \in Surfaces : pc[s] # "none"} = {}
      BY <1>2
    <3> QED
      BY <3>1, FS_EmptySet
  <2>3. target \in [Surfaces -> Targets]
    BY <1>0, <1>1 DEF NoTarget, Targets
  <2>4. live = {s \in Surfaces : pc[s] \in LiveLabels}
    BY <1>0, <1>2
  <2>5. vsync \in [Slots -> VsyncData \cup {None}] /\ queue \in Seq(Slots)
    BY <1>0
  <2>6. /\ savedState \in [Surfaces -> 0 .. SavedSlots - 1] /\ DOMAIN saved = 0 .. SavedSlots - 1
        /\ pc \in [Surfaces -> Labels]
        /\ backbufferIdx \in [Surfaces -> 0 .. NumImages - 1]
        /\ inFlight \in [Surfaces -> SUBSET (0 .. NumImages - 1)]
        /\ held \in [Surfaces -> SUBSET (0 .. NumImages - 1)]
    BY <1>0, <1>1, <1>2
  <2> QED
    BY <1>0, <1>1, <1>2, <2>1, <2>2, <2>3, <2>4, <2>5, <2>6 DEF LifeTypes
<1>5. CountOK /\ SavedStatesDistinct
  BY <1>0, <1>3, FS_EmptySet DEF CountOK, SavedStatesDistinct, NoThread
<1>6. QueueOK
  <2>1. 1 .. Len(queue) = {}
    BY <1>0
  <2> QED
    BY <2>1 DEF QueueOK
<1>7. StillThere
  <2>1. ft.pc = "none" /\ "take" \in AcquireLabels
    BY <1>0 DEF NoThread, AcquireLabels
  <2> QED
    BY <1>2, <2>1 DEF StillThere
<1>8. RoomOK
  <2>1. Len(queue) = 0 /\ Cardinality(Out) = 0 /\ Cardinality(known) = 0
    BY <1>0, <1>3, FS_EmptySet
  <2>2. Len(queue) + Cardinality(Out) <= NumImages * Cardinality(known)
    BY <1>1, <2>1
  <2> QED
    BY <1>0, <1>2, <2>2 DEF RoomOK
<1> QED
  BY <1>0, <1>4, <1>5, <1>6, <1>7, <1>8 DEF LifeInv, CrashesAreKnown

LEMMA LifeStepKeeps ==
  ASSUME LifeInv, CrashesAreKnown, Running(Frames \/ Startup \/ Shutdown)
  PROVE  LifeInv' /\ CrashesAreKnown'
<1>0. crash = "none" /\ (Frames \/ Startup \/ Shutdown)
  BY DEF Running
<1>1. UNCHANGED crash => CrashesAreKnown'
  BY <1>0 DEF CrashesAreKnown
<1>2. CASE (submit \/ gpuFinish \/ vblank \/ flipQueueThread) /\ UNCHANGED swapVars
  BY <1>0, <1>1, <1>2, OutsideKeeps, ThreadKeeps, FlipKeeps DEF flipQueueThread
<1>3. ASSUME NEW s \in Surfaces, vkAcquireNextImageKHR(s) PROVE LifeInv' /\ CrashesAreKnown'
  BY <1>0, <1>1, <1>3, ReadingKeeps, EventsKeep, AcquiringKeeps DEF vkAcquireNextImageKHR
<1>4. ASSUME NEW s \in Surfaces, vkQueuePresentKHR(s) PROVE LifeInv' /\ CrashesAreKnown'
  BY <1>0, <1>1, <1>4, HandingOverKeeps, FirstShowKeeps, AddingKeeps DEF vkQueuePresentKHR
<1>5. ASSUME NEW s \in Surfaces, vkCreateSurface(s) PROVE LifeInv' /\ CrashesAreKnown'
  BY <1>1, <1>5, CreatingKeeps, CountingKeeps DEF vkCreateSurface
<1>6. ASSUME NEW s \in Surfaces, vkCreateSwapchainKHR(s) \/ vkDestroySwapchainKHR(s)
      PROVE  LifeInv' /\ CrashesAreKnown'
  BY <1>1, <1>6, SwapchainKeeps
<1>7. ASSUME NEW s \in Surfaces, vkDestroySurfaceKHR(s) PROVE LifeInv' /\ CrashesAreKnown'
  BY <1>0, <1>1, <1>7, DestroyingKeeps, EndingKeeps DEF vkDestroySurfaceKHR
<1>8. CASE Frames
  BY <1>2, <1>3, <1>4, <1>8 DEF Frames
<1>9. CASE Startup
  BY <1>5, <1>6, <1>9 DEF Startup
<1>10. CASE Shutdown
  BY <1>6, <1>7, <1>10 DEF Shutdown
<1> QED
  BY <1>0, <1>8, <1>9, <1>10

(* However surfaces come and go, whatever the constants are.               *)
THEOREM LifeInvariance == LifeSpec => [](LifeInv /\ CrashesAreKnown)
<1>1. LifeInv /\ CrashesAreKnown /\ UNCHANGED vars => LifeInv' /\ CrashesAreKnown'
  <2> SUFFICES ASSUME LifeInv, CrashesAreKnown, UNCHANGED vars PROVE LifeInv' /\ CrashesAreKnown'
    OBVIOUS
  <2>1. UNCHANGED LifeVars /\ UNCHANGED <<inFlight, pc, live, savedState, crash>>
    BY DEF vars, fqVars, modesetVars, appVars, gpuVars, kernelVars, countVars, swapVars, LifeVars
  <2>2. LifeInv'
    BY <2>1, DyingKeeps
  <2>3. UNCHANGED <<live, ended, counted, savedState, crash>>
    BY <2>1 DEF ended, counted
  <2> QED
    BY <2>2, <2>3 DEF CrashesAreKnown
<1> QED
  BY <1>1, LifeStart, LifeStepKeeps, PTL DEF LifeSpec

(* The process dies only in the known cases.                               *)
THEOREM DeathsAreKnown == LifeSpec => []CrashesAreKnown
BY LifeInvariance, PTL

(* modeset.c counts the surfaces there are, its thread goes with the last  *)
(* of them, and each keeps the display state it saved.                     *)
THEOREM EachKeepsItsOwn == LifeSpec => []SurfacesKeepTheirOwn
<1>1. LifeInv => SurfacesKeepTheirOwn
  <2> SUFFICES ASSUME LifeInv PROVE SurfacesKeepTheirOwn
    OBVIOUS
  <2>1. LifeTypes /\ CountOK /\ SavedStatesDistinct
    BY DEF LifeInv
  <2>2. refCount = 0 => counted = {}
    BY <2>1, CountedOnce DEF CountOK
  <2> QED
    BY <2>1, <2>2 DEF CountOK, SurfacesKeepTheirOwn, ThreadGoesWithSurfaces
<1> QED
  BY <1>1, LifeInvariance, PTL
==============================================================================
