------------------------------ MODULE FlipQueue ------------------------------
(***************************************************************************)
(* driver/modeset.c: putting rendered images on the screen.                *)
(*                                                                         *)
(* Presenting an image appends a vsyncData to a queue all surfaces share.  *)
(* A thread of the driver polls the oldest entry: when the GPU has         *)
(* finished the entry's seqno it asks the kernel for a page flip.  The     *)
(* kernel flips at the next vertical blank and reports it as an event that *)
(* whoever acquires the next image reads; acquiring removes the oldest     *)
(* entry once it is flipped.                                               *)
(*                                                                         *)
(* Every access to the queue happens inside flipQueueSem, except that      *)
(* creating and destroying the queue take no lock.  A critical section is  *)
(* one step: it does nothing another thread could see half of, and what    *)
(* matters of the unlocked accesses is whether they come before or after   *)
(* fifoGetLast in it.                                                      *)
(***************************************************************************)
EXTENDS Integers, Sequences, SequencesExt

CONSTANTS
  Surfaces,                     \* one application thread drives each
  NumImages,                    \* images of a surface's swapchain
  Modes,                        \* present modes to choose from
  FlipFifoSize,                 \* FLIP_FIFO_SIZE
  SavedSlots,                   \* length of modeset_saved_states
  MaxSeqno,                     \* bound: submissions to the GPU
  MaxFrames,                    \* bound: presentations
  MaxFaults                     \* bound: page flips the kernel refuses

ASSUME FlipQueueAssumption ==
  /\ {NumImages, FlipFifoSize, SavedSlots, MaxSeqno} \subseteq Nat \ {0}
  /\ {MaxFrames, MaxFaults} \subseteq Nat
  /\ Modes \subseteq {"FIFO", "IMMEDIATE"}

Null   == 0
Slots  == 1 .. FlipFifoSize     \* addresses of the vsyncData blocks
Images == Surfaces \X (0 .. NumImages - 1)
None   == << >>                 \* no image, no page flip, contents unknown

VARIABLES
  refCount,                     \* surfaces counted by modeset.c
  sem,                          \* flipQueueSem, as seen between critical sections
  queue, vsync,                 \* flipQueueFifo and the vsyncData it holds
  saved,                        \* modeset_saved_states
  savedState,                   \* surface->savedState
  ft,                           \* the flip queue thread
  pc,                           \* where the thread driving a surface is
  target,                       \* the presentation it is in
  live,                         \* surfaces whose swapchain images exist
  presentMode,                  \* of each surface's images; never changes
  emitted, finished,            \* seqnos handed out and completed by the GPU
  flip, events, scanout,        \* kernel: pending flip, unread events, screen
  frames, faults,               \* presentations and refused flips so far
  crash                         \* what killed the process, if anything did

modesetVars == <<refCount, sem, queue, vsync, saved, savedState>>
appVars     == <<pc, target, live>>
gpuVars     == <<emitted, finished>>
kernelVars  == <<flip, events, scanout>>
countVars   == <<frames, faults>>
fqVars == <<modesetVars, ft, appVars, gpuVars, kernelVars, countVars, crash, presentMode>>

(* frame and needs are the presentation's number and seqno; the code keeps *)
(* neither once the entry's seqno is cleared.                              *)
VsyncData == [i : Images, s : Surfaces, flipPending : 0 .. 1,
              seqno : 0 .. MaxSeqno, frame : 1 .. MaxFrames, needs : 0 .. MaxSeqno]

Fifo == INSTANCE BoundedQueue
  WITH Data <- VsyncData, Undefined <- None, mem <- vsync, result <- Null

Console == [i |-> None, frame |-> 0]   \* what the screen shows before the driver
Off     == [i |-> None, frame |-> -1]  \* the framebuffer shown was removed
Empty   == [state |-> "empty", fb |-> Console]
NoTarget == [k |-> 0, frame |-> 0, seqno |-> 0]
NoThread == [pc |-> "none", seqno |-> 0, run |-> FALSE, lastFinished |-> 0]

Goto(s, label) == pc' = [pc EXCEPT ![s] = label]

(* What the process and the machine look like before the first surface. *)
ProcessStart ==
  /\ refCount = 0 /\ sem = 0
  /\ queue = << >> /\ vsync = [p \in Slots |-> None]
  /\ saved = [c \in 0 .. SavedSlots - 1 |-> Empty]
  /\ savedState = [s \in Surfaces |-> 0]
  /\ ft = NoThread
  /\ pc = [s \in Surfaces |-> "none"]
  /\ target = [s \in Surfaces |-> NoTarget]
  /\ live = {} /\ presentMode \in [Surfaces -> Modes]
  /\ emitted = 0 /\ finished = 0
  /\ flip = None /\ events = << >> /\ scanout = Console
  /\ frames = 0 /\ faults = 0
  /\ crash = "none"

-----------------------------------------------------------------------------
(* The GPU and the kernel's display driver.                                *)

submit ==
  /\ emitted < MaxSeqno
  /\ emitted' = emitted + 1
  /\ UNCHANGED <<modesetVars, ft, appVars, finished, kernelVars, countVars, crash>>

gpuFinish ==
  /\ finished < emitted
  /\ finished' = finished + 1
  /\ UNCHANGED <<modesetVars, ft, appVars, emitted, kernelVars, countVars, crash>>

vblank ==
  /\ flip # None
  /\ scanout' = [i |-> flip.i, frame |-> flip.frame]
  /\ flip' = None
  /\ events' = IF flip.data = Null THEN events ELSE Append(events, flip.data)
  /\ UNCHANGED <<modesetVars, ft, appVars, gpuVars, countVars, crash>>

(* drmModePageFlip: refused while a flip is pending on the CRTC, or for    *)
(* any other reason (at most MaxFaults times); modeset.c ignores that.     *)
drmModePageFlip(d, data) ==
  \/ /\ flip = None
     /\ flip' = [i |-> d.i, frame |-> d.frame, needs |-> d.needs, data |-> data]
     /\ UNCHANGED faults
  \/ /\ flip # None
     /\ UNCHANGED <<flip, faults>>
  \/ /\ flip = None /\ faults < MaxFaults
     /\ faults' = faults + 1
     /\ UNCHANGED flip

-----------------------------------------------------------------------------
(* flipQueueThreadFunction                                                 *)

loopOn(run) == IF run THEN "look" ELSE "exited"

(* Bug: an entry with a seqno known to be finished is skipped. *)
lookSkipsFinished ==
  /\ ft.pc = "look" /\ sem = 1
  /\ LET d == Fifo!Oldest
         seqno == IF d = Null THEN 0 ELSE vsync[d].seqno
         run == refCount > 0
     IN  ft' = [ft EXCEPT !.seqno = seqno, !.run = run,
                          !.pc = IF seqno > ft.lastFinished THEN "wait" ELSE loopOn(run)]
  /\ UNCHANGED <<modesetVars, appVars, gpuVars, kernelVars, countVars, crash>>

(* The first critical section. *)
ftLook ==
  /\ ft.pc = "look" /\ sem = 1
  /\ LET d == Fifo!Oldest
         seqno == IF d = Null THEN 0 ELSE vsync[d].seqno
         run == refCount > 0
     IN  ft' = [ft EXCEPT !.seqno = seqno, !.run = run,
                          !.pc = IF seqno > 0 THEN "wait" ELSE loopOn(run)]
  /\ UNCHANGED <<modesetVars, appVars, gpuVars, kernelVars, countVars, crash>>

(* sem_wait before sem_init: the thread sleeps until the semaphore is up.  *)
ftSleep ==
  /\ ft.pc = "look" /\ sem = 0
  /\ ft' = [ft EXCEPT !.pc = "asleep"]
  /\ UNCHANGED <<modesetVars, appVars, gpuVars, kernelVars, countVars, crash>>

ftWake ==
  /\ ft.pc = "asleep" /\ sem = 1
  /\ ft' = [ft EXCEPT !.pc = "look"]
  /\ UNCHANGED <<modesetVars, appVars, gpuVars, kernelVars, countVars, crash>>

(* Bug: a timeout is taken for success. *)
waitTimeoutIsDone ==
  /\ ft.pc = "wait"
  /\ ft' = [ft EXCEPT !.pc = "flip", !.lastFinished = ft.seqno]
  /\ UNCHANGED <<modesetVars, appVars, gpuVars, kernelVars, countVars, crash>>

(* vc4_seqno_wait outside the lock: the seqno is known to be finished, or  *)
(* finishes within the millisecond, or the call times out.                 *)
ftWait ==
  /\ ft.pc = "wait"
  /\ \/ /\ ft.lastFinished >= ft.seqno \/ finished >= ft.seqno
        /\ ft' = [ft EXCEPT !.pc = "flip",
                            !.lastFinished = IF @ >= ft.seqno THEN @ ELSE ft.seqno]
     \/ /\ ft.lastFinished < ft.seqno /\ finished < ft.seqno
        /\ ft' = [ft EXCEPT !.pc = loopOn(ft.run)]
  /\ UNCHANGED <<modesetVars, appVars, gpuVars, kernelVars, countVars, crash>>

(* The second critical section trusts that the queue still has an oldest   *)
(* entry and that the entry's image still exists.                          *)
ftFlip ==
  /\ ft.pc = "flip" /\ sem = 1
  /\ LET p == Fifo!Oldest IN
     \/ /\ p = Null
        /\ crash' = "flip thread: empty queue"
        /\ UNCHANGED <<vsync, ft, flip, faults>>
     \/ /\ p # Null /\ vsync[p].s \notin live
        /\ crash' = "flip thread: freed image"
        /\ UNCHANGED <<vsync, ft, flip, faults>>
     \/ /\ p # Null /\ vsync[p].s \in live
        /\ IF presentMode[vsync[p].s] = "FIFO"
           THEN /\ vsync' = [vsync EXCEPT ![p].seqno = 0, ![p].flipPending = 1]
                /\ drmModePageFlip(vsync[p], p)
           ELSE /\ vsync' = [vsync EXCEPT ![p].seqno = 0]
                /\ drmModePageFlip(vsync[p], Null)
        /\ ft' = [ft EXCEPT !.pc = loopOn(ft.run)]
        /\ UNCHANGED crash
  /\ UNCHANGED <<refCount, sem, queue, saved, savedState, appVars, gpuVars,
                 events, scanout, frames>>

flipQueueThread == ftLook \/ ftSleep \/ ftWake \/ ftWait \/ ftFlip

-----------------------------------------------------------------------------
(* modeset_acquire_image, called by the thread that drives surface s.      *)

acquireCall(s) ==
  /\ pc[s] = "idle"
  /\ Goto(s, "look")
  /\ UNCHANGED <<modesetVars, ft, target, live, gpuVars, kernelVars, countVars, crash>>

(* Bugs: an entry is taken before the flip thread saw it, or while its     *)
(* flip is under way.                                                      *)
takeUnrendered(d) == IF d.flipPending = 1 THEN "handle" ELSE "take"
takePending(d) == IF d.seqno > 0 THEN "reread" ELSE "take"

(* Where the loop goes after an entry was read under the lock. *)
acquireNext(d) ==
  IF d.flipPending = 1 THEN "handle" ELSE IF d.seqno > 0 THEN "reread" ELSE "take"

acquireEmpty(s) ==
  /\ pc[s] = "look" /\ sem = 1
  /\ queue = << >>
  /\ Goto(s, "idle")
  /\ UNCHANGED <<modesetVars, ft, target, live, gpuVars, kernelVars, countVars, crash>>

acquireLook(s) ==
  /\ pc[s] = "look" /\ sem = 1
  /\ queue # << >>
  /\ Goto(s, acquireNext(vsync[Fifo!Oldest]))
  /\ UNCHANGED <<modesetVars, ft, target, live, gpuVars, kernelVars, countVars, crash>>

(* Bug: the event handler leaves the entry as it is. *)
eventIgnored(pointers) == pointers # {} /\ UNCHANGED vsync

(* drmHandleEvent blocks until there are events, then calls                *)
(* modeset_page_flip_event with the pointer each of them carries.          *)
modeset_page_flip_event(pointers) ==
  vsync' = [p \in Slots |-> IF p \in pointers /\ vsync[p] # None
                            THEN [vsync[p] EXCEPT !.flipPending = 0]
                            ELSE vsync[p]]

acquireHandle(s) ==
  /\ pc[s] = "handle" /\ sem = 1
  /\ events # << >>
  /\ modeset_page_flip_event(Range(events))
  /\ events' = << >>
  /\ Goto(s, "reread")
  /\ UNCHANGED <<refCount, sem, queue, saved, savedState, ft, target, live, gpuVars,
                 flip, scanout, countVars, crash>>

acquireReread(s) ==
  /\ pc[s] = "reread" /\ sem = 1
  /\ \/ /\ queue # << >>
        /\ Goto(s, acquireNext(vsync[Fifo!Oldest]))
        /\ UNCHANGED crash
     \/ /\ queue = << >>
        /\ crash' = "acquire: empty queue"
        /\ UNCHANGED pc
  /\ UNCHANGED <<modesetVars, ft, target, live, gpuVars, kernelVars, countVars>>

(* fifoRemove into a local variable.  If another thread emptied the queue  *)
(* the variable keeps whatever the stack held: any image or none.          *)
acquireTake(s, taken) ==
  /\ pc[s] = "take" /\ sem = 1
  /\ \/ /\ Fifo!Dequeue
        /\ taken = vsync[Fifo!Oldest].i
     \/ /\ queue = << >>
        /\ taken \in Images \cup {None}
        /\ UNCHANGED <<queue, vsync>>
  /\ Goto(s, "idle")
  /\ UNCHANGED <<refCount, sem, saved, savedState, ft, target, live, gpuVars, kernelVars,
                 countVars, crash>>

-----------------------------------------------------------------------------
(* modeset_present: image k of surface s, whose rendering the last seqno   *)
(* the queue emitted completes.                                            *)

presentCall(s, k) ==
  /\ pc[s] = "idle" /\ frames < MaxFrames
  /\ target' = [target EXCEPT ![s] = [k |-> k, frame |-> frames + 1, seqno |-> emitted]]
  /\ frames' = frames + 1
  /\ Goto(s, IF savedState[s] = 0 THEN "save" ELSE "enqueue")
  /\ UNCHANGED <<modesetVars, ft, live, gpuVars, kernelVars, faults, crash>>

(* Bug: slot 1 is taken whether or not it is in use. *)
saveTakesSlotOne(s) ==
  /\ pc[s] = "save" /\ flip = None
  /\ saved' = [saved EXCEPT ![1] = [state |-> "used", fb |-> scanout]]
  /\ savedState' = [savedState EXCEPT ![s] = 1]
  /\ scanout' = [i |-> <<s, target[s].k>>, frame |-> target[s].frame]
  /\ Goto(s, "enqueue")
  /\ UNCHANGED <<refCount, sem, queue, vsync, ft, target, live, gpuVars, flip, events,
                 countVars, crash>>

(* Under savedStateSem: remember what the CRTC shows in the first unused   *)
(* slot, then show the new image.  SetCrtc waits for a pending flip.       *)
presentSave(s) ==
  /\ pc[s] = "save" /\ flip = None
  /\ LET unused == {c \in DOMAIN saved : saved[c].state # "used"}
         c == CHOOSE c \in unused : \A d \in unused : c <= d
     IN  IF unused = {}
         THEN UNCHANGED <<saved, savedState>>
         ELSE /\ saved' = [saved EXCEPT ![c] = [state |-> "used", fb |-> scanout]]
              /\ savedState' = [savedState EXCEPT ![s] = c]
  /\ scanout' = [i |-> <<s, target[s].k>>, frame |-> target[s].frame]
  /\ Goto(s, "enqueue")
  /\ UNCHANGED <<refCount, sem, queue, vsync, ft, target, live, gpuVars, flip, events,
                 countVars, crash>>

(* The loop around fifoAdd: with room in the queue one round is enough,    *)
(* without room the first round dies in fifoAdd (module Fifo).             *)
presentEnqueue(s) ==
  /\ pc[s] = "enqueue" /\ sem = 1
  /\ LET d == [i |-> <<s, target[s].k>>, s |-> s, flipPending |-> 0,
               seqno |-> target[s].seqno, frame |-> target[s].frame,
               needs |-> target[s].seqno]
     IN  \/ /\ Fifo!Enqueue(d)
            /\ Goto(s, "idle")
            /\ UNCHANGED crash
         \/ /\ Len(queue) = FlipFifoSize
            /\ crash' = "fifoAdd: full queue"
            /\ UNCHANGED <<queue, vsync, pc>>
  /\ UNCHANGED <<refCount, sem, saved, savedState, ft, target, live, gpuVars, kernelVars,
                 countVars>>

-----------------------------------------------------------------------------
(* modeset_create_surface_for_mode and modeset_destroy_surface.  The       *)
(* application creates and destroys one surface at a time.                 *)

changing == {t \in Surfaces : pc[t] \in {"semInit", "count", "destroyFifo", "join"}}

(* The first surface makes the queue and starts the thread, and only then  *)
(* initialises the semaphore and counts the surface.                       *)
createSurface(s) ==
  /\ pc[s] = "none" /\ changing = {}
  /\ IF refCount = 0
     THEN /\ queue' = << >> /\ vsync' = [p \in Slots |-> None]
          /\ ft' = [NoThread EXCEPT !.pc = "look", !.run = TRUE]
          /\ Goto(s, "semInit")
     ELSE /\ Goto(s, "count")
          /\ UNCHANGED <<queue, vsync, ft>>
  /\ UNCHANGED <<refCount, sem, saved, savedState, target, live, gpuVars, kernelVars,
                 countVars, crash>>

createSem(s) ==
  /\ pc[s] = "semInit"
  /\ sem' = 1
  /\ Goto(s, "count")
  /\ UNCHANGED <<refCount, queue, vsync, saved, savedState, ft, target, live, gpuVars,
                 kernelVars, countVars, crash>>

createCount(s) ==
  /\ pc[s] = "count"
  /\ refCount' = refCount + 1
  /\ savedState' = [savedState EXCEPT ![s] = 0]
  /\ Goto(s, "noSwapchain")
  /\ UNCHANGED <<sem, queue, vsync, saved, ft, target, live, gpuVars, kernelVars,
                 countVars, crash>>

(* drmModeSetCrtc back to what slot c holds; it fails, unnoticed, when the *)
(* framebuffer is gone.                                                    *)
restoreScreen(c) ==
  LET fb == saved[c].fb IN
  scanout' = IF fb.i = None \/ fb.i[1] \in live THEN fb ELSE scanout

destroySurface(s) ==
  /\ pc[s] \in {"noSwapchain", "closing"} /\ changing = {} /\ flip = None
  /\ LET c == savedState[s] IN
     \/ /\ saved[c].state = "used"
        /\ restoreScreen(c)
        /\ saved' = [saved EXCEPT ![c].state = "freed"]
        /\ refCount' = refCount - 1
        /\ Goto(s, IF refCount = 1 THEN "destroyFifo" ELSE "gone")
        /\ UNCHANGED crash
     \/ /\ saved[c].state # "used"
        /\ crash' = "destroy: no saved state"
        /\ UNCHANGED <<scanout, saved, refCount, pc>>
  /\ UNCHANGED <<sem, queue, vsync, savedState, ft, target, live, gpuVars, flip, events,
                 countVars>>

(* destroyFifo, with no lock held. *)
destroyQueue(s) ==
  /\ pc[s] = "destroyFifo"
  /\ queue' = << >> /\ vsync' = [p \in Slots |-> None]
  /\ Goto(s, "join")
  /\ UNCHANGED <<refCount, sem, saved, savedState, ft, target, live, gpuVars, kernelVars,
                 countVars, crash>>

(* Bug: the thread is not joined. *)
leaveThread(s) ==
  /\ pc[s] = "join"
  /\ Goto(s, "gone")
  /\ UNCHANGED <<modesetVars, ft, target, live, gpuVars, kernelVars, countVars, crash>>

joinThread(s) ==
  /\ pc[s] = "join" /\ ft.pc = "exited"
  /\ ft' = NoThread
  /\ Goto(s, "gone")
  /\ UNCHANGED <<modesetVars, target, live, gpuVars, kernelVars, countVars, crash>>
=============================================================================
