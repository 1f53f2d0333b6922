---------------------------- MODULE Presentation -----------------------------
(***************************************************************************)
(* driver/wsi.c on top of FlipQueue: swapchains, which image is acquired   *)
(* next, and the frame loop of an application that presents only images    *)
(* it has acquired.                                                        *)
(***************************************************************************)
EXTENDS FlipQueue, FiniteSetsExt

CONSTANT MaxHeld                \* bound: images an application acquires before it presents one

ASSUME PresentationAssumption == MaxHeld \in 1 .. NumImages

VARIABLES
  backbufferIdx, inFlight,      \* fields of the _swapchain; inFlight as a set
  held,                         \* images the application acquired and did not present
  maxHeld                       \* how many that may be; never changes

swapVars == <<backbufferIdx, inFlight, held>>
choices == <<presentMode, maxHeld>>
vars == <<fqVars, swapVars, maxHeld>>

(* Bug: the index is not wrapped around. *)
nextIdxPastEnd(idx, flying) ==
  LET inTurn == {c \in 1 .. NumImages : (idx + c) % NumImages \notin flying} IN
  IF inTurn = {} THEN idx ELSE idx + Min(inTurn)

(* The image vkAcquireNextImageKHR chooses: the next one in turn that is   *)
(* not in flight, and the same one again if all are.                       *)
nextIdx(idx, flying) ==
  LET inTurn == {c \in 1 .. NumImages : (idx + c) % NumImages \notin flying} IN
  IF inTurn = {} THEN idx ELSE (idx + Min(inTurn)) % NumImages

(* Bug: the image that came back stays in flight. *)
chooseKeepsInFlight(s, i) ==
  LET idx == nextIdx(backbufferIdx[s], inFlight[s]) IN
  /\ i \in Images \cup {None}
  /\ backbufferIdx' = [backbufferIdx EXCEPT ![s] = idx]
  /\ held' = [held EXCEPT ![s] = @ \cup {idx}]
  /\ UNCHANGED inFlight

(* The rest of vkAcquireNextImageKHR once modeset_acquire_image returned i.*)
chooseImage(s, i) ==
  LET flying == inFlight[s] \ {c \in 0 .. NumImages - 1 : i = <<s, c>>}
      idx == nextIdx(backbufferIdx[s], flying)
  IN  /\ inFlight' = [inFlight EXCEPT ![s] = flying]
      /\ backbufferIdx' = [backbufferIdx EXCEPT ![s] = idx]
      /\ held' = [held EXCEPT ![s] = @ \cup {idx}]

vkAcquireNextImageKHR(s) ==
  \/ /\ Cardinality(held[s]) < maxHeld
     /\ acquireCall(s)
     /\ UNCHANGED swapVars
  \/ acquireEmpty(s) /\ chooseImage(s, None)
  \/ acquireLook(s) /\ UNCHANGED swapVars
  \/ acquireHandle(s) /\ UNCHANGED swapVars
  \/ acquireReread(s) /\ UNCHANGED swapVars
  \/ \E i \in Images \cup {None} : acquireTake(s, i) /\ chooseImage(s, i)

vkQueuePresentKHR(s) ==
  \/ \E k \in held[s] :
       /\ presentCall(s, k)
       /\ held' = [held EXCEPT ![s] = @ \ {k}]
       /\ UNCHANGED <<backbufferIdx, inFlight>>
  \/ presentSave(s) /\ UNCHANGED swapVars
  \/ /\ presentEnqueue(s)
     /\ inFlight' = [inFlight EXCEPT ![s] = @ \cup {target[s].k}]
     /\ UNCHANGED <<backbufferIdx, held>>

vkCreateSwapchainKHR(s) ==
  /\ pc[s] = "noSwapchain"
  /\ live' = live \cup {s}
  /\ backbufferIdx' = [backbufferIdx EXCEPT ![s] = 0]
  /\ inFlight' = [inFlight EXCEPT ![s] = {}]
  /\ Goto(s, "idle")
  /\ UNCHANGED <<modesetVars, ft, target, held, gpuVars, kernelVars, countVars, crash>>

(* The application waited for the device before it destroys the swapchain. *)
(* Removing the framebuffer on the screen turns the screen off.            *)
vkDestroySwapchainKHR(s) ==
  /\ pc[s] = "idle" /\ finished = emitted
  /\ live' = live \ {s}
  /\ scanout' = IF scanout.i # None /\ scanout.i[1] = s THEN Off ELSE scanout
  /\ Goto(s, "closing")
  /\ UNCHANGED <<modesetVars, ft, target, gpuVars, flip, events, countVars, crash, swapVars>>

vkCreateSurface(s) ==
  (createSurface(s) \/ createSem(s) \/ createCount(s)) /\ UNCHANGED swapVars

vkDestroySurfaceKHR(s) ==
  (destroySurface(s) \/ destroyQueue(s) \/ joinThread(s)) /\ UNCHANGED swapVars

-----------------------------------------------------------------------------
SwapStart ==
  /\ backbufferIdx = [s \in Surfaces |-> 0]
  /\ inFlight = [s \in Surfaces |-> {}]
  /\ held = [s \in Surfaces |-> {}]
  /\ maxHeld \in 1 .. MaxHeld

Frames ==
  \/ (submit \/ gpuFinish \/ vblank \/ flipQueueThread) /\ UNCHANGED swapVars
  \/ \E s \in Surfaces : vkAcquireNextImageKHR(s) \/ vkQueuePresentKHR(s)

Startup ==
  \E s \in Surfaces : vkCreateSurface(s) \/ vkCreateSwapchainKHR(s)

Shutdown ==
  \E s \in Surfaces : vkDestroySwapchainKHR(s) \/ vkDestroySurfaceKHR(s)

(* The flip thread, the GPU and the display make progress, and a thread    *)
(* inside an acquire or a present keeps running.  A flip thread that       *)
(* sleeps on the semaphore is woken by a post.  Nothing is assumed about   *)
(* when the application calls.                                             *)
Fairness ==
  /\ WF_vars(gpuFinish /\ UNCHANGED <<swapVars, choices>>)
  /\ WF_vars(vblank /\ UNCHANGED <<swapVars, choices>>)
  /\ WF_vars(flipQueueThread /\ UNCHANGED <<swapVars, choices>>)
  /\ \A s \in Surfaces :
       /\ WF_vars(pc[s] # "idle" /\ vkAcquireNextImageKHR(s) /\ UNCHANGED choices)
       /\ WF_vars(pc[s] # "idle" /\ vkQueuePresentKHR(s) /\ UNCHANGED choices)
       /\ WF_vars(pc[s] \in {"semInit", "count"} /\ vkCreateSurface(s) /\ UNCHANGED choices)

(* The frame loop: all surfaces exist, the thread got going, and the       *)
(* application has submitted work (an upload) before its first frame.      *)
FrameStart ==
  /\ refCount = Cardinality(Surfaces) /\ sem = 1
  /\ queue = << >> /\ vsync = [p \in Slots |-> None]
  /\ saved = [c \in 0 .. SavedSlots - 1 |-> Empty]
  /\ savedState = [s \in Surfaces |-> 0]
  /\ ft = [NoThread EXCEPT !.pc = "look", !.run = TRUE]
  /\ pc = [s \in Surfaces |-> "idle"]
  /\ target = [s \in Surfaces |-> NoTarget]
  /\ live = Surfaces /\ presentMode \in [Surfaces -> Modes]
  /\ emitted = 1 /\ finished = 0
  /\ flip = None /\ events = << >> /\ scanout = Console
  /\ frames = 0 /\ faults = 0 /\ crash = "none"
  /\ SwapStart

Running(A) == crash = "none" /\ A /\ UNCHANGED choices

FrameSpec == FrameStart /\ [][Running(Frames)]_vars /\ Fairness

FirstStart == ProcessStart /\ SwapStart

(* From the start of the process; surfaces come but do not go. *)
StartupSpec == FirstStart /\ [][Running(Frames \/ Startup)]_vars /\ Fairness

(* From the start of the process to its end. *)
LifeSpec ==
  FirstStart /\ [][Running(Frames \/ Startup \/ Shutdown)]_vars

-----------------------------------------------------------------------------
TypeOK ==
  /\ refCount \in Nat /\ sem \in 0 .. 1
  /\ queue \in Seq(Slots)
  /\ vsync \in [Slots -> VsyncData \cup {None}]
  /\ savedState \in [Surfaces -> 0 .. SavedSlots - 1]
  /\ \A p \in Slots : vsync[p] # None <=> p \in Range(queue)
  /\ ft.seqno \in 0 .. MaxSeqno /\ ft.lastFinished \in 0 .. MaxSeqno
  /\ finished \in 0 .. emitted
  /\ backbufferIdx \in [Surfaces -> 0 .. NumImages - 1]
  /\ inFlight \in [Surfaces -> SUBSET (0 .. NumImages - 1)]
  /\ held \in [Surfaces -> SUBSET (0 .. NumImages - 1)]

(* No image reaches the kernel before the GPU has finished the submissions *)
(* that were made when it was presented (modeset.c:458-463).               *)
FlipAfterRender == flip # None => flip.needs <= finished

(* The flip thread reads the oldest entry, waits for it without the lock,  *)
(* and reads the oldest entry again: it is still the same one              *)
(* (modeset.c:42, 55, 61).                                                 *)
FlipsWhatItWaitedFor ==
  ft.pc = "flip" => queue # << >> /\ vsync[Head(queue)].seqno = ft.seqno

(* The pointer a page flip carries through the kernel still points to the  *)
(* entry it was made for when the event is handled, and at most one flip   *)
(* is under way (modeset.c:68, 346-363).                                   *)
EventFindsItsEntry ==
  LET pending == IF flip # None /\ flip.data # Null THEN <<flip.data>> ELSE << >>
      pointers == events \o pending
  IN  /\ Len(pointers) <= 1
      /\ \A p \in Range(pointers) : p = Fifo!Oldest /\ vsync[p].flipPending = 1

(* No call dies on the queue: fifoAdd finds room, the flip thread and the  *)
(* acquire loop find an entry (modeset.c:61-63, 404-411, 481).             *)
NoCrash == crash = "none"

(* In the frame loop, whoever looks at the oldest entry twice finds one    *)
(* both times, and the flip thread the same one; every variable keeps its  *)
(* type (modeset.c:42-63, 404-411).                                        *)
OldestStays == TypeOK /\ NoCrash /\ FlipsWhatItWaitedFor

(* Between calls, the images the swapchain calls in flight are those in    *)
(* the flip queue: wsi.c and modeset.c agree on what may be reused         *)
(* (wsi.c:491-501, 569).                                                   *)
InFlightIsQueued ==
  \A s \in Surfaces :
    pc[s] = "idle" =>
      inFlight[s] = {k \in 0 .. NumImages - 1 :
                       \E p \in Range(queue) : vsync[p].i = <<s, k>>}

(* An application that presents each image before it acquires the next is  *)
(* never given one that is on the screen or about to be (wsi.c:503-515).   *)
AcquiredNotShown ==
  \A s \in Surfaces : \A k \in held[s] :
    maxHeld = 1 /\ presentMode[s] = "FIFO" =>
      scanout.i # <<s, k>> /\ (flip # None => flip.i # <<s, k>>)

(* The surfaces modeset.c counts. *)
counted == {s \in Surfaces :
  pc[s] \notin {"none", "semInit", "count", "destroyFifo", "join", "gone"}}

(* With no surface left there is no flip thread, so creating the first     *)
(* surface again never leaves two threads on one queue (modeset.c:246-257, *)
(* 511-515).                                                               *)
ThreadGoesWithSurfaces ==
  /\ refCount = Cardinality(counted)
  /\ refCount = 0 /\ changing = {} => ft.pc = "none"

(* Two surfaces never share a saved display state, and the state a surface *)
(* points to stays allocated: slot 0 aside, which every surface that never *)
(* presented points to as well (modeset.c:430-456, 503-509).               *)
SavedStatesDistinct ==
  \A s \in counted :
    savedState[s] > 0 => /\ saved[savedState[s]].state = "used"
                         /\ \A t \in counted \ {s} : savedState[t] # savedState[s]

(* Surfaces whose swapchain was destroyed. *)
ended == {s \in Surfaces : pc[s] \in {"closing", "destroyFifo", "join", "gone"}}

(* From the start of the process a call or the flip thread dies only in    *)
(* the known cases: two surfaces present to the one queue, a swapchain was *)
(* destroyed with its images queued, a surface that never presented is     *)
(* destroyed while slot 0 is unused, or the surfaces have more images than *)
(* the queue holds (modeset.c:61-63, 404-411, 481, 503-513, wsi.c:600).    *)
CrashesAreKnown ==
  \/ crash = "none"
  \/ crash = "destroy: no saved state" /\ \E s \in counted : savedState[s] = 0
  \/ crash = "acquire: empty queue" /\ Cardinality(live \cup ended) > 1
  \/ crash = "flip thread: empty queue" /\ (Cardinality(live) > 1 \/ ended # {})
  \/ crash = "flip thread: freed image" /\ ended # {}
  \/ /\ crash = "fifoAdd: full queue"
     /\ NumImages * Cardinality(live \cup ended) > FlipFifoSize

(* However surfaces come and go, each keeps what it saved, and the thread  *)
(* stays as long as one of them does (modeset.c:246-257, 501-515).         *)
SurfacesKeepTheirOwn == ThreadGoesWithSurfaces /\ SavedStatesDistinct

(* An image whose page flip was refused in FIFO mode is pending for ever.  *)
flipLost(s) == presentMode[s] = "FIFO" /\ faults > 0

(* Acquiring an image comes to an end, unless the kernel refused a flip    *)
(* (modeset.c:391-414).                                                    *)
AcquireReturns ==
  \A s \in Surfaces :
    pc[s] \in {"look", "handle", "reread", "take"} ~> pc[s] = "idle" \/ flipLost(s)

becameOldest(f) ==
  queue # << >> /\ vsync[Head(queue)].frame = f /\ vsync[Head(queue)].seqno > 0
wasShown(f) ==
  \/ /\ scanout.frame = f /\ flip = None
     /\ \A p \in Range(queue) : vsync[p].frame = f => vsync[p].seqno = 0
  \/ \E s \in Surfaces : flipLost(s) \/ presentMode[s] = "IMMEDIATE"

(* In FIFO mode a frame that becomes the oldest of the queue is flipped to *)
(* the screen, whether or not the application calls again                  *)
(* (modeset.c:461-463).                                                    *)
OldestReachesScreen == \A f \in 1 .. MaxFrames : becameOldest(f) ~> wasShown(f)
=============================================================================
