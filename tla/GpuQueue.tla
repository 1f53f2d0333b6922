------------------------------- MODULE GpuQueue -------------------------------
(***************************************************************************)
(* driver/sync.c, vkQueueSubmit of driver/command.c and the two ioctls of  *)
(* driver/kernelInterface.c: handing work to the GPU and waiting for it.   *)
(*                                                                         *)
(* The kernel numbers the submissions of all its clients (seqno) and       *)
(* finishes them in that order.  A queue remembers the last seqno it was   *)
(* given and one it knows to be finished; a fence remembers the seqno it   *)
(* stands for; a semaphore is a POSIX semaphore of the process.            *)
(***************************************************************************)
EXTENDS Integers, Sequences, SequencesExt, FiniteSets, Functions

CONSTANTS
  Threads,                      \* application threads
  Fences, Semaphores,
  None,                         \* no fence, no thread
  Window,                       \* submissions that may be unfinished: 5
  MaxBatches, MaxJobs,          \* bounds: batches of a submit, jobs of a batch
  MaxGap,                       \* bound: seqnos other clients get between two of ours
  MaxSeqno,                     \* bound: submissions to the GPU
  SubmitFaults, WaitFaults      \* bounds: ioctls that fail

ASSUME GpuQueueAssumption ==
  /\ {Window, MaxBatches, MaxJobs} \subseteq Nat \ {0}
  /\ {MaxGap, MaxSeqno, SubmitFaults, WaitFaults} \subseteq Nat
  /\ None \notin Threads \cup Fences
  /\ IsFiniteSet(Fences)

VARIABLES
  emitted, finished,            \* kernel: last seqno given out, last one completed
  lastEmitSeqno, lastFinishedSeqno,  \* the _queue
  semaphore,                    \* value of each semaphore
  fence,                        \* each _fence
  owner,                        \* thread that uses the queue: the application's lock
  pc, call,                     \* where each thread is, and in which call
  submitFaults, waitFaults,     \* ioctls that failed so far
  covers                        \* history: the seqno each fence stands for

kernelVars == <<emitted, finished>>
queueVars  == <<lastEmitSeqno, lastFinishedSeqno>>
syncVars   == <<semaphore, fence, covers>>
faultVars  == <<submitFaults, waitFaults>>
vars == <<kernelVars, queueVars, syncVars, owner, pc, call, faultVars>>

(* covers[f] once f is given to a submit is the seqno it must wait for.    *)
Unused  == -1                   \* reset, and not given to a submit since
Granted == 0                    \* signaled when created, or by vkAcquireNextImageKHR

NoCall  == [op |-> "none"]
Batch   == [wait : SUBSET Semaphores, jobs : 1 .. MaxJobs, signal : SUBSET Semaphores]
FenceLists == {list \in BoundedSeq(Fences, Cardinality(Fences)) :
                 list # << >> /\ IsInjective(list)}

Init ==
  /\ emitted = 0 /\ finished = 0
  /\ lastEmitSeqno = 0 /\ lastFinishedSeqno = 0
  /\ semaphore = [s \in Semaphores |-> 0]
  /\ fence \in [Fences -> [seqno : {0}, signaled : BOOLEAN]]
  /\ covers = [f \in Fences |-> IF fence[f].signaled THEN Granted ELSE Unused]
  /\ owner = None
  /\ pc = [t \in Threads |-> "idle"] /\ call = [t \in Threads |-> NoCall]
  /\ submitFaults = 0 /\ waitFaults = 0

Goto(t, label, c) == pc' = [pc EXCEPT ![t] = label] /\ call' = [call EXCEPT ![t] = c]

(* The call of t ends.  It is kept until the thread goes on.               *)
Return(t, result) == Goto(t, "returned", [call[t] EXCEPT !.result = result])

goOn(t) ==
  /\ pc[t] = "returned"
  /\ Goto(t, "idle", NoCall)
  /\ UNCHANGED <<kernelVars, queueVars, syncVars, owner, faultVars>>

-----------------------------------------------------------------------------
(* The kernel.                                                             *)

gpuFinish ==
  /\ finished < emitted
  /\ finished' = finished + 1
  /\ UNCHANGED <<emitted, queueVars, syncVars, owner, pc, call, faultVars>>

(* vc4_seqno_wait(seqno), called where the caller knows lastKnown to be    *)
(* finished, returned ret: 1 done, -1 timed out, 0 any other error.        *)
vc4_seqno_wait(lastKnown, seqno, timeout, ret) ==
  \/ /\ seqno = 0 \/ lastKnown >= seqno \/ finished >= seqno
     /\ ret = 1
     /\ UNCHANGED faultVars
  \/ /\ seqno > lastKnown /\ finished < seqno /\ timeout = "finite"
     /\ ret = -1
     /\ UNCHANGED faultVars
  \/ /\ seqno > lastKnown /\ waitFaults < WaitFaults
     /\ ret = 0
     /\ waitFaults' = waitFaults + 1
     /\ UNCHANGED submitFaults

-----------------------------------------------------------------------------
(* vkQueueSubmit                                                           *)

(* Is s up before batch b of the submit, if each wait is passed?           *)
level(batches, b, s) ==
  semaphore[s] + Cardinality({c \in 1 .. b - 1 : s \in batches[c].signal})
               - Cardinality({c \in 1 .. b - 1 : s \in batches[c].wait})

(* What Vulkan asks of the application: a batch waits for a semaphore only *)
(* when the signal was submitted before, signals only one that is down,    *)
(* and a fence is given to a submit reset.                                 *)
validSubmit(batches, f) ==
  /\ \A b \in DOMAIN batches :
       /\ \A s \in batches[b].wait : level(batches, b, s) = 1
       /\ \A s \in batches[b].signal \ batches[b].wait : level(batches, b, s) = 0
  /\ f # None => covers[f] = Unused

submitCall(t, batches, f) ==
  /\ pc[t] = "idle" /\ owner = None
  /\ validSubmit(batches, f)
  /\ owner' = t
  /\ Goto(t, "semWait", [op |-> "submit", batches |-> batches, fence |-> f, jobs |-> 0,
                         result |-> "none"])
  /\ UNCHANGED <<kernelVars, queueVars, syncVars, faultVars>>

(* Bug: waiting leaves the semaphore up. *)
semWaitLeavesUp(t) ==
  LET batch == Head(call[t].batches) IN
  /\ pc[t] = "semWait"
  /\ \A s \in batch.wait : semaphore[s] > 0
  /\ Goto(t, "ioctl", [call[t] EXCEPT !.jobs = batch.jobs])
  /\ UNCHANGED <<kernelVars, queueVars, syncVars, owner, faultVars>>

submitSemWait(t) ==
  LET batch == Head(call[t].batches) IN
  /\ pc[t] = "semWait"
  /\ \A s \in batch.wait : semaphore[s] > 0
  /\ semaphore' = [s \in Semaphores |-> semaphore[s] - (IF s \in batch.wait THEN 1 ELSE 0)]
  /\ Goto(t, "ioctl", [call[t] EXCEPT !.jobs = batch.jobs])
  /\ UNCHANGED <<kernelVars, queueVars, fence, covers, owner, faultVars>>

(* Where the marker loop goes after a job. *)
nextJob(t, c) == Goto(t, IF c.jobs > 1 THEN "ioctl" ELSE "post", [c EXCEPT !.jobs = @ - 1])

(* The submit ioctl in vc4_cl_submit and its check on the distance.  A     *)
(* failing submit is dropped.                                              *)
vc4_cl_submit(t) ==
  /\ pc[t] = "ioctl"
  /\ \/ /\ \E gap \in 0 .. MaxGap : emitted' = emitted + gap + 1
        /\ lastEmitSeqno' = emitted'
        /\ UNCHANGED faultVars
     \/ /\ submitFaults < SubmitFaults
        /\ submitFaults' = submitFaults + 1
        /\ UNCHANGED <<emitted, lastEmitSeqno, waitFaults>>
  /\ IF lastEmitSeqno' - lastFinishedSeqno > Window
     THEN Goto(t, "throttle", call[t])
     ELSE nextJob(t, call[t])
  /\ UNCHANGED <<finished, lastFinishedSeqno, syncVars, owner>>

(* Bug: one submission too few is waited for. *)
targetTooLow ==
  IF lastFinishedSeqno > 0 THEN lastEmitSeqno - Window - 1 ELSE lastEmitSeqno

throttleTarget ==
  IF lastFinishedSeqno > 0 THEN lastEmitSeqno - Window ELSE lastEmitSeqno

(* Bug: everything emitted is taken to be finished after the wait. *)
throttleForgetsTarget(t) ==
  /\ pc[t] = "throttle"
  /\ \E ret \in {0, 1} :
       /\ vc4_seqno_wait(lastFinishedSeqno, throttleTarget, "infinite", ret)
       /\ lastFinishedSeqno' = IF ret = 1 THEN lastEmitSeqno ELSE lastFinishedSeqno
  /\ nextJob(t, call[t])
  /\ UNCHANGED <<kernelVars, lastEmitSeqno, syncVars, owner>>

throttle(t) ==
  /\ pc[t] = "throttle"
  /\ \E ret \in {0, 1} :
       /\ vc4_seqno_wait(lastFinishedSeqno, throttleTarget, "infinite", ret)
       /\ lastFinishedSeqno' = IF ret = 1 THEN throttleTarget ELSE lastFinishedSeqno
  /\ nextJob(t, call[t])
  /\ UNCHANGED <<kernelVars, lastEmitSeqno, syncVars, owner>>

(* The semaphores go up as soon as the batch is with the kernel.           *)
submitPost(t) ==
  LET batch == Head(call[t].batches)
      rest  == Tail(call[t].batches)
  IN  /\ pc[t] = "post"
      /\ semaphore' = [s \in Semaphores |->
                         semaphore[s] + (IF s \in batch.signal THEN 1 ELSE 0)]
      /\ Goto(t, IF rest = << >> THEN "setFence" ELSE "semWait",
              [call[t] EXCEPT !.batches = rest])
      /\ UNCHANGED <<kernelVars, queueVars, fence, covers, owner, faultVars>>

submitFence(t) ==
  LET f == call[t].fence IN
  /\ pc[t] = "setFence"
  /\ fence' = IF f = None THEN fence ELSE [fence EXCEPT ![f].seqno = lastEmitSeqno]
  /\ covers' = IF f = None THEN covers ELSE [covers EXCEPT ![f] = lastEmitSeqno]
  /\ owner' = None
  /\ Return(t, "VK_SUCCESS")
  /\ UNCHANGED <<kernelVars, queueVars, semaphore, faultVars>>

vkQueueSubmit(t) ==
  \/ \E batches \in BoundedSeq(Batch, MaxBatches), f \in Fences \cup {None} :
       /\ batches # << >>
       /\ emitted + Len(batches) * MaxJobs * (MaxGap + 1) <= MaxSeqno
       /\ submitCall(t, batches, f)
  \/ submitSemWait(t) \/ vc4_cl_submit(t) \/ throttle(t) \/ submitPost(t) \/ submitFence(t)

-----------------------------------------------------------------------------
(* Semaphores outside submits: vkAcquireNextImageKHR signals one, and      *)
(* possibly a fence, when the image is there; vkQueuePresentKHR waits.     *)

usedBySubmit(s) ==
  \E t \in Threads : /\ call[t].op = "submit"
                     /\ \E b \in Range(call[t].batches) : s \in b.wait \cup b.signal

inUse(f) ==
  \E t \in Threads : \/ call[t].op = "submit" /\ call[t].fence = f
                     \/ call[t].op = "wait" /\ f \in Range(call[t].list)

acquireSignal(t) ==
  /\ pc[t] = "idle"
  /\ \E s \in Semaphores, f \in Fences \cup {None} :
       /\ semaphore[s] = 0 /\ ~usedBySubmit(s)
       /\ f # None => covers[f] = Unused /\ ~inUse(f)
       /\ semaphore' = [semaphore EXCEPT ![s] = @ + 1]
       /\ fence' = IF f = None THEN fence ELSE [fence EXCEPT ![f].signaled = TRUE]
       /\ covers' = IF f = None THEN covers ELSE [covers EXCEPT ![f] = Granted]
  /\ UNCHANGED <<kernelVars, queueVars, owner, pc, call, faultVars>>

presentWait(t) ==
  /\ pc[t] = "idle" /\ owner = None
  /\ \E s \in Semaphores :
       /\ semaphore[s] > 0
       /\ semaphore' = [semaphore EXCEPT ![s] = @ - 1]
  /\ UNCHANGED <<kernelVars, queueVars, fence, covers, owner, pc, call, faultVars>>

-----------------------------------------------------------------------------
(* Fences                                                                  *)

vkGetFenceStatus(f) == IF fence[f].signaled THEN "VK_SUCCESS" ELSE "VK_NOT_READY"

(* An application resets a fence nobody uses and whose work is done.       *)
vkResetFences(t) ==
  /\ pc[t] = "idle"
  /\ \E f \in Fences :
       /\ ~inUse(f) /\ covers[f] \in 0 .. finished
       /\ fence' = [fence EXCEPT ![f] = [seqno |-> 0, signaled |-> FALSE]]
       /\ covers' = [covers EXCEPT ![f] = Unused]
  /\ UNCHANGED <<kernelVars, queueVars, semaphore, owner, pc, call, faultVars>>

(* A poll, with timeout 0, looks at the first fence only.                  *)
waitPoll(t, list, all) ==
  /\ Goto(t, "returned",
          [op |-> "wait", list |-> list, all |-> all, timeout |-> "zero", at |-> 1, seqno |-> 0,
           result |-> IF fence[Head(list)].signaled THEN "VK_SUCCESS" ELSE "VK_TIMEOUT"])
  /\ UNCHANGED <<kernelVars, queueVars, syncVars, owner, faultVars>>

waitBlock(t, list, all, timeout) ==
  /\ Goto(t, "check",
          [op |-> "wait", list |-> list, all |-> all, timeout |-> timeout, at |-> 1, seqno |-> 0,
           result |-> "none"])
  /\ UNCHANGED <<kernelVars, queueVars, syncVars, owner, faultVars>>

(* The application waits for fences it has given to a submit or an acquire;*)
(* for others the code would return at once.                               *)
waitCall(t) ==
  /\ pc[t] = "idle"
  /\ \E list \in FenceLists, all \in BOOLEAN :
       /\ \A f \in Range(list) : covers[f] # Unused
       /\ \/ waitPoll(t, list, all)
          \/ \E timeout \in {"finite", "infinite"} : waitBlock(t, list, all, timeout)

(* Bug: the loop stays at the fence it is done with. *)
sameFence(t, c) ==
  IF c.at < Len(c.list)
  THEN Goto(t, "check", c)
  ELSE Goto(t, "returned",
            [c EXCEPT !.result = IF c.all THEN "VK_SUCCESS" ELSE "VK_TIMEOUT"])

(* The loop is done with the fence it is at: go to the next, or return     *)
(* what vkWaitForFences returns after the last one.                        *)
nextFence(t, c) ==
  IF c.at < Len(c.list)
  THEN Goto(t, "check", [c EXCEPT !.at = @ + 1])
  ELSE Goto(t, "returned",
            [c EXCEPT !.result = IF c.all THEN "VK_SUCCESS" ELSE "VK_TIMEOUT"])

(* Bug: the first signaled fence ends a wait for all of them. *)
passIgnoresAll(t) == Return(t, "VK_SUCCESS")

(* The fence is signaled: done with it, or with the call.                  *)
passFence(t) == IF call[t].all THEN nextFence(t, call[t]) ELSE Return(t, "VK_SUCCESS")

waitCheck(t) ==
  LET f == call[t].list[call[t].at] IN
  /\ pc[t] = "check"
  /\ IF fence[f].signaled
     THEN passFence(t)
     ELSE Goto(t, "seqnoWait", [call[t] EXCEPT !.seqno = fence[f].seqno])
  /\ UNCHANGED <<kernelVars, queueVars, syncVars, owner, faultVars>>

(* Bug: any nonzero result of the wait is taken for success. *)
waitTimeoutIsDone(t) ==
  /\ pc[t] = "seqnoWait"
  /\ \E ret \in {-1, 0, 1} :
       /\ vc4_seqno_wait(0, call[t].seqno, call[t].timeout, ret)
       /\ \/ ret # 0 /\ Goto(t, "signal", call[t])
          \/ ret = 0 /\ Return(t, "VK_TIMEOUT")
  /\ UNCHANGED <<kernelVars, queueVars, syncVars, owner>>

(* Only a timeout counts as a failure, and it leaves an infinite timeout   *)
(* for the fences that follow.                                             *)
waitSeqno(t) ==
  /\ pc[t] = "seqnoWait"
  /\ \E ret \in {-1, 0, 1} :
       /\ vc4_seqno_wait(0, call[t].seqno, call[t].timeout, ret)
       /\ \/ ret >= 0 /\ Goto(t, "signal", call[t])
          \/ ret < 0 /\ call[t].all /\ Return(t, "VK_TIMEOUT")
          \/ ret < 0 /\ ~call[t].all /\ nextFence(t, [call[t] EXCEPT !.timeout = "infinite"])
  /\ UNCHANGED <<kernelVars, queueVars, syncVars, owner>>

waitSignal(t) ==
  /\ pc[t] = "signal"
  /\ fence' = [fence EXCEPT ![call[t].list[call[t].at]] = [seqno |-> 0, signaled |-> TRUE]]
  /\ passFence(t)
  /\ UNCHANGED <<kernelVars, queueVars, semaphore, covers, owner, faultVars>>

vkWaitForFences(t) == waitCall(t) \/ waitCheck(t) \/ waitSeqno(t) \/ waitSignal(t)

(* vkQueueWaitIdle, and vkDeviceWaitIdle for the device's only queue.      *)
(* What the call believes to be finished is an uninitialized variable: it  *)
(* may or may not reach the seqno to wait for.                             *)
idleCall(t) ==
  /\ pc[t] = "idle" /\ owner = None
  /\ owner' = t
  /\ \E garbage \in {0, lastEmitSeqno} :
       Goto(t, "idleWait", [op |-> "idle", known |-> garbage, seqno |-> lastEmitSeqno,
                            result |-> "none"])
  /\ UNCHANGED <<kernelVars, queueVars, syncVars, faultVars>>

idleWait(t) ==
  /\ pc[t] = "idleWait"
  /\ \E ret \in {0, 1} : vc4_seqno_wait(call[t].known, call[t].seqno, "infinite", ret)
  /\ owner' = None
  /\ Return(t, "VK_SUCCESS")
  /\ UNCHANGED <<kernelVars, queueVars, syncVars>>

vkQueueWaitIdle(t) == idleCall(t) \/ idleWait(t)

-----------------------------------------------------------------------------
Running(t) ==
  \/ submitSemWait(t) \/ vc4_cl_submit(t) \/ throttle(t) \/ submitPost(t) \/ submitFence(t)
  \/ waitCheck(t) \/ waitSeqno(t) \/ waitSignal(t) \/ idleWait(t) \/ goOn(t)

Next ==
  \/ gpuFinish
  \/ \E t \in Threads :
       \/ vkQueueSubmit(t) \/ vkWaitForFences(t) \/ vkQueueWaitIdle(t)
       \/ vkResetFences(t) \/ acquireSignal(t) \/ presentWait(t) \/ goOn(t)

(* The GPU finishes what it was given, and a thread inside a call keeps    *)
(* running.  Nothing makes the application call.                           *)
Fairness == WF_vars(gpuFinish) /\ \A t \in Threads : WF_vars(Running(t))

Spec == Init /\ [][Next]_vars /\ Fairness

-----------------------------------------------------------------------------
Labels == {"idle", "semWait", "ioctl", "throttle", "post", "setFence", "check", "seqnoWait",
           "signal", "idleWait", "returned"}

TypeOK ==
  /\ {emitted, finished, lastEmitSeqno, lastFinishedSeqno} \subseteq Nat
  /\ {submitFaults, waitFaults} \subseteq Nat
  /\ semaphore \in [Semaphores -> 0 .. 1]
  /\ fence \in [Fences -> [seqno : Nat, signaled : BOOLEAN]]
  /\ covers \in [Fences -> Nat \cup {Unused}]
  /\ owner \in Threads \cup {None}
  /\ pc \in [Threads -> Labels]

(* The queue's two seqnos bracket the GPU's progress, so their difference, *)
(* an unsigned subtraction in the code, never wraps, and no wait is for a  *)
(* seqno the kernel never gave out (kernelInterface.c:557, 560-565).       *)
SeqnosOrdered ==
  /\ lastFinishedSeqno <= finished /\ finished <= emitted
  /\ lastFinishedSeqno <= lastEmitSeqno /\ lastEmitSeqno <= emitted

(* However submits, their failures and other clients interleave, a thread  *)
(* that is not being throttled is never more than Window submissions ahead *)
(* of the GPU (kernelInterface.c:560-570).                                 *)
Throttled ==
  waitFaults = 0 /\ (\A t \in Threads : pc[t] # "throttle")
    => lastEmitSeqno - finished <= Window

(* A fence that reports success was given to a submit, or signaled when    *)
(* created or by an acquire, and the GPU has finished all that was         *)
(* submitted (sync.c:329-345, 406-424, 444-461).                           *)
FenceMeansFinished ==
  \A f \in Fences :
    vkGetFenceStatus(f) = "VK_SUCCESS" => covers[f] \in 0 .. finished

Answered(t, result) ==
  pc[t] = "returned" /\ call[t].op = "wait" /\ call[t].result = result

(* vkWaitForFences with a timeout: success for all means that every fence  *)
(* is done, success for any that one is (sync.c:406-424, 444-472).         *)
SuccessMeansFinished ==
  \A t \in Threads :
    Answered(t, "VK_SUCCESS") /\ call[t].timeout # "zero" =>
      LET done == {f \in Range(call[t].list) : covers[f] \in 0 .. finished}
      IN  IF call[t].all THEN done = Range(call[t].list) ELSE done # {}

(* Every call comes back: a submit passes its semaphores and the throttle, *)
(* a wait gets its seqno, even while others use the same fences            *)
(* (command.c:328-331, 753-756, kernelInterface.c:560-570).                *)
CallsReturn == \A t \in Threads : pc[t] # "idle" ~> pc[t] = "idle"

(* When vkQueueWaitIdle returns, the GPU has finished what was submitted   *)
(* to the queue, if the uninitialized variable it compares with happened   *)
(* to be too small (sync.c:211, 245, test/query/query.cpp:819-823).        *)
IdleMeansFinished ==
  \A t \in Threads :
    pc[t] = "returned" /\ call[t].op = "idle" /\ call[t].known < call[t].seqno
      => finished >= call[t].seqno

(* Whatever tells the application that work is done tells the truth: a     *)
(* fence that is polled, a wait for fences, and a wait for the queue; every*)
(* variable keeps its type (sync.c:211-477).                               *)
AnswersMeanFinished == TypeOK /\ FenceMeansFinished /\ SuccessMeansFinished /\ IdleMeansFinished
=============================================================================
