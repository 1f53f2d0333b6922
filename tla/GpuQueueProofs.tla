--------------------------- MODULE GpuQueueProofs ----------------------------
(***************************************************************************)
(* The throttle of vkQueueSubmit, for every number of threads, fences and  *)
(* semaphores, every window and every pattern of failing ioctls; and that  *)
(* what a fence, a wait for fences and a wait for the queue tell the       *)
(* application is true, as long as no wait of the kernel failed.           *)
(*                                                                         *)
(* The invariants come in layers, each established under those before it:  *)
(* IInv (the seqnos, and who uses the queue), CallsOK (what a thread       *)
(* inside a call knows), SemaphoresOK (a submit finds the semaphores as    *)
(* the application promised), FencesOK (what a fence stands for) and       *)
(* AnswersOK (what is known to be finished).                               *)
(***************************************************************************)
EXTENDS GpuQueue, FiniteSetTheorems, TLAPS

SubmitLabels == {"semWait", "ioctl", "throttle", "post", "setFence"}

(* The part of the state the throttle rests on: the four seqnos, and that  *)
(* only the owner of the queue is inside a submit or idle wait.            *)
QueueTypeOK ==
  /\ emitted \in Nat /\ finished \in Nat
  /\ lastEmitSeqno \in Nat /\ lastFinishedSeqno \in Nat
  /\ waitFaults \in Nat
  /\ pc \in [Threads -> Labels]

OwnerOnly ==
  \A t \in Threads : pc[t] \in SubmitLabels \cup {"idleWait"} => owner = t

(* Once a failing wait has let a submit through, nothing bounds the        *)
(* distance.  Until then the distance of the two seqnos the queue keeps is *)
(* bounded outside the throttle, and inside it there is something to wait  *)
(* for.                                                                    *)
Distance ==
  /\ (\A t \in Threads : pc[t] # "throttle")
       => waitFaults > 0 \/ lastEmitSeqno - lastFinishedSeqno <= Window
  /\ \A t \in Threads :
       pc[t] = "throttle" => lastEmitSeqno - lastFinishedSeqno > Window

IInv == QueueTypeOK /\ OwnerOnly /\ SeqnosOrdered /\ Distance

LEMMA WindowPositive == Window \in Nat /\ Window > 0
  BY GpuQueueAssumption

(* What the throttle waits for lies between what is known to be finished   *)
(* and what was emitted, and reaching it restores the window.              *)
LEMMA TargetInRange ==
  ASSUME lastEmitSeqno \in Nat, lastFinishedSeqno \in Nat,
         lastEmitSeqno - lastFinishedSeqno > Window
  PROVE  /\ throttleTarget \in Nat
         /\ throttleTarget > 0
         /\ throttleTarget > lastFinishedSeqno
         /\ throttleTarget <= lastEmitSeqno
         /\ lastEmitSeqno - throttleTarget <= Window
  BY WindowPositive DEF throttleTarget

LEMMA InitEstablishes == Init => IInv
  BY WindowPositive
  DEF Init, IInv, QueueTypeOK, OwnerOnly, SeqnosOrdered, Distance, Labels, SubmitLabels

(* A step that leaves the seqnos alone and moves one thread between labels *)
(* other than "throttle" keeps the invariant, if the thread has the queue  *)
(* wherever a submit or idle wait is.                                      *)
LEMMA QuietStep ==
  ASSUME IInv, NEW t \in Threads, NEW label \in Labels,
         pc' = [pc EXCEPT ![t] = label],
         UNCHANGED <<kernelVars, queueVars>>,
         waitFaults' \in Nat, waitFaults' >= waitFaults,
         pc[t] # "throttle", label # "throttle",
         \/ owner' = owner /\ (label \in SubmitLabels \cup {"idleWait"} => owner = t)
         \/ owner = None /\ owner' = t
         \/ owner = t /\ owner' = None /\ label \notin SubmitLabels \cup {"idleWait"}
  PROVE  IInv'
<1>1. QueueTypeOK'
  BY DEF IInv, QueueTypeOK, kernelVars, queueVars
<1>2. OwnerOnly'
  BY GpuQueueAssumption DEF IInv, QueueTypeOK, OwnerOnly
<1>3. SeqnosOrdered'
  BY DEF IInv, SeqnosOrdered, kernelVars, queueVars
<1>4. Distance'
  <2>1. \A u \in Threads : pc'[u] = "throttle" <=> pc[u] = "throttle"
    BY DEF IInv, QueueTypeOK
  <2>2. waitFaults > 0 => waitFaults' > 0
    BY DEF IInv, QueueTypeOK
  <2> QED
    BY <2>1, <2>2 DEF IInv, Distance, queueVars
<1> QED
  BY <1>1, <1>2, <1>3, <1>4 DEF IInv

LEMMA StepPreserves == IInv /\ [Next]_vars => IInv'
<1> SUFFICES ASSUME IInv, [Next]_vars PROVE IInv'
  OBVIOUS
<1> USE GpuQueueAssumption
<1>1. CASE UNCHANGED vars
  BY <1>1 DEF vars, kernelVars, queueVars, faultVars, IInv, QueueTypeOK, OwnerOnly,
              SeqnosOrdered, Distance
<1>2. CASE gpuFinish
  BY <1>2 DEF gpuFinish, queueVars, faultVars, IInv, QueueTypeOK, OwnerOnly, SeqnosOrdered,
              Distance
<1>3. ASSUME NEW t \in Threads, vc4_cl_submit(t) PROVE IInv'
  <2>1. pc[t] = "ioctl" /\ owner = t
    BY <1>3 DEF vc4_cl_submit, IInv, OwnerOnly, SubmitLabels
  <2>2. \A u \in Threads : pc[u] # "throttle"
    BY <2>1 DEF IInv, OwnerOnly, SubmitLabels
  <2>3. /\ emitted' \in Nat /\ lastEmitSeqno' \in Nat /\ emitted' >= emitted
        /\ lastEmitSeqno' <= emitted' /\ lastEmitSeqno' >= lastEmitSeqno
        /\ finished' = finished /\ lastFinishedSeqno' = lastFinishedSeqno
        /\ waitFaults' = waitFaults /\ owner' = owner
    BY <1>3 DEF vc4_cl_submit, faultVars, IInv, QueueTypeOK, SeqnosOrdered
  <2>4. \/ /\ lastEmitSeqno' - lastFinishedSeqno > Window
           /\ pc' = [pc EXCEPT ![t] = "throttle"]
        \/ /\ lastEmitSeqno' - lastFinishedSeqno <= Window
           /\ \/ pc' = [pc EXCEPT ![t] = "ioctl"]
              \/ pc' = [pc EXCEPT ![t] = "post"]
    <3>1. CASE lastEmitSeqno' - lastFinishedSeqno > Window
      BY <1>3, <3>1 DEF vc4_cl_submit, Goto
    <3>2. CASE ~(lastEmitSeqno' - lastFinishedSeqno > Window)
      BY <1>3, <3>2, <2>3, WindowPositive DEF vc4_cl_submit, Goto, nextJob, IInv, QueueTypeOK
    <3> QED
      BY <3>1, <3>2
  <2>5. QueueTypeOK'
    BY <2>3, <2>4 DEF IInv, QueueTypeOK, Labels
  <2>6. OwnerOnly'
    BY <2>1, <2>3, <2>4 DEF IInv, QueueTypeOK, OwnerOnly, SubmitLabels
  <2>7. SeqnosOrdered'
    BY <2>3 DEF IInv, QueueTypeOK, SeqnosOrdered
  <2>8. Distance'
    BY <2>2, <2>3, <2>4 DEF IInv, QueueTypeOK, Distance
  <2> QED
    BY <2>5, <2>6, <2>7, <2>8 DEF IInv
<1>4. ASSUME NEW t \in Threads, throttle(t) PROVE IInv'
  <2>1. pc[t] = "throttle" /\ owner = t
    BY <1>4 DEF throttle, IInv, OwnerOnly, SubmitLabels
  <2>2. \A u \in Threads \ {t} : pc[u] # "throttle"
    BY <2>1 DEF IInv, OwnerOnly, SubmitLabels
  <2>3. /\ throttleTarget \in Nat
        /\ throttleTarget > 0
        /\ throttleTarget > lastFinishedSeqno
        /\ throttleTarget <= lastEmitSeqno
        /\ lastEmitSeqno - throttleTarget <= Window
    BY <2>1, TargetInRange DEF IInv, QueueTypeOK, Distance
  <2>4. /\ emitted' = emitted /\ finished' = finished /\ lastEmitSeqno' = lastEmitSeqno
        /\ owner' = owner
        /\ \/ pc' = [pc EXCEPT ![t] = "ioctl"]
           \/ pc' = [pc EXCEPT ![t] = "post"]
    BY <1>4 DEF throttle, kernelVars, nextJob, Goto
  <2>5. \/ /\ lastFinishedSeqno' = throttleTarget /\ throttleTarget <= finished
           /\ waitFaults' = waitFaults
        \/ /\ lastFinishedSeqno' = lastFinishedSeqno
           /\ waitFaults' = waitFaults + 1
    BY <1>4, <2>3 DEF throttle, vc4_seqno_wait, faultVars, IInv, QueueTypeOK
  <2>6. QueueTypeOK'
    BY <2>3, <2>4, <2>5 DEF IInv, QueueTypeOK, Labels
  <2>7. OwnerOnly'
    BY <2>1, <2>4 DEF IInv, QueueTypeOK, OwnerOnly, SubmitLabels
  <2>8. SeqnosOrdered'
    BY <2>3, <2>4, <2>5 DEF IInv, QueueTypeOK, SeqnosOrdered
  <2>9. Distance'
    <3>1. \A u \in Threads : pc'[u] # "throttle"
      BY <2>2, <2>4 DEF IInv, QueueTypeOK
    <3>2. waitFaults' > 0 \/ lastEmitSeqno' - lastFinishedSeqno' <= Window
      BY <2>3, <2>4, <2>5 DEF IInv, QueueTypeOK
    <3> QED
      BY <3>1, <3>2 DEF Distance
  <2> QED
    BY <2>6, <2>7, <2>8, <2>9 DEF IInv
<1>5. ASSUME NEW t \in Threads, NEW batches, NEW f, submitCall(t, batches, f) PROVE IInv'
  <2>1. "semWait" \in Labels
    BY DEF Labels
  <2>2. /\ pc' = [pc EXCEPT ![t] = "semWait"] /\ pc[t] # "throttle"
        /\ UNCHANGED <<kernelVars, queueVars>>
        /\ waitFaults' = waitFaults
        /\ owner = None /\ owner' = t
    BY <1>5 DEF submitCall, Goto, faultVars
  <2>3. waitFaults' \in Nat /\ waitFaults' >= waitFaults
    BY <2>2 DEF IInv, QueueTypeOK
  <2> QED
    BY <2>1, <2>2, <2>3, QuietStep
<1>6. ASSUME NEW t \in Threads,
             \/ submitSemWait(t) \/ submitPost(t) \/ submitFence(t)
             \/ waitCall(t) \/ waitCheck(t) \/ waitSeqno(t) \/ waitSignal(t)
             \/ idleCall(t) \/ idleWait(t) \/ goOn(t)
      PROVE  IInv'
  <2> DEFINE Quiet(label) ==
        /\ label \in Labels
        /\ pc' = [pc EXCEPT ![t] = label]
        /\ UNCHANGED <<kernelVars, queueVars>>
        /\ waitFaults' \in Nat /\ waitFaults' >= waitFaults
        /\ pc[t] # "throttle" /\ label # "throttle"
        /\ \/ owner' = owner /\ (label \in SubmitLabels \cup {"idleWait"} => owner = t)
           \/ owner = None /\ owner' = t
           \/ owner = t /\ owner' = None /\ label \notin SubmitLabels \cup {"idleWait"}
  <2> SUFFICES \E label : Quiet(label)
    BY QuietStep
  <2>0. waitFaults \in Nat
    BY DEF IInv, QueueTypeOK
  <2>1. CASE submitSemWait(t)
    <3>1. owner = t
      BY <2>1 DEF submitSemWait, IInv, OwnerOnly, SubmitLabels
    <3>2. Quiet("ioctl")
      BY <2>0, <2>1, <3>1 DEF submitSemWait, Goto, queueVars, faultVars, Labels
    <3> QED
      BY <3>2
  <2>2. CASE submitPost(t)
    <3>1. owner = t
      BY <2>2 DEF submitPost, IInv, OwnerOnly, SubmitLabels
    <3>2. \/ pc' = [pc EXCEPT ![t] = "semWait"]
          \/ pc' = [pc EXCEPT ![t] = "setFence"]
      BY <2>2, Zenon DEF submitPost, Goto
    <3>3. pc[t] = "post" /\ owner' = owner /\ UNCHANGED <<kernelVars, queueVars, waitFaults>>
      BY <2>2 DEF submitPost, faultVars
    <3>4. Quiet("semWait") \/ Quiet("setFence")
      BY <2>0, <3>1, <3>2, <3>3 DEF queueVars, Labels
    <3> QED
      BY <3>4
  <2>3. CASE submitFence(t)
    <3>1. owner = t
      BY <2>3 DEF submitFence, IInv, OwnerOnly, SubmitLabels
    <3>2. Quiet("returned")
      BY <2>0, <2>3, <3>1
      DEF submitFence, Return, Goto, queueVars, faultVars, Labels, SubmitLabels
    <3> QED
      BY <3>2
  <2>4. CASE waitCall(t)
    <3>1. Quiet("returned") \/ Quiet("check")
      BY <2>0, <2>4
      DEF waitCall, waitPoll, waitBlock, Goto, queueVars, faultVars, Labels, SubmitLabels
    <3> QED
      BY <3>1
  <2>5. CASE waitCheck(t)
    <3>1. Quiet("returned") \/ Quiet("check") \/ Quiet("seqnoWait")
      BY <2>0, <2>5
      DEF waitCheck, passFence, nextFence, Return, Goto, queueVars, faultVars, Labels,
          SubmitLabels
    <3> QED
      BY <3>1
  <2>6. CASE waitSeqno(t)
    <3>1. waitFaults' \in Nat /\ waitFaults' >= waitFaults
      BY <2>0, <2>6 DEF waitSeqno, vc4_seqno_wait, faultVars
    <3>2. Quiet("returned") \/ Quiet("check") \/ Quiet("signal")
      BY <2>6, <3>1
      DEF waitSeqno, nextFence, Return, Goto, queueVars, Labels, SubmitLabels
    <3> QED
      BY <3>2
  <2>7. CASE waitSignal(t)
    <3>1. Quiet("returned") \/ Quiet("check")
      BY <2>0, <2>7
      DEF waitSignal, passFence, nextFence, Return, Goto, queueVars, faultVars, Labels,
          SubmitLabels
    <3> QED
      BY <3>1
  <2>8. CASE idleCall(t)
    <3>1. Quiet("idleWait")
      BY <2>0, <2>8 DEF idleCall, Goto, queueVars, faultVars, Labels
    <3> QED
      BY <3>1
  <2>9. CASE idleWait(t)
    <3>1. owner = t
      BY <2>9 DEF idleWait, IInv, OwnerOnly
    <3>2. waitFaults' \in Nat /\ waitFaults' >= waitFaults
      BY <2>0, <2>9 DEF idleWait, vc4_seqno_wait, faultVars
    <3>3. Quiet("returned")
      BY <2>9, <3>1, <3>2 DEF idleWait, Return, Goto, queueVars, Labels, SubmitLabels
    <3> QED
      BY <3>3
  <2>10. CASE goOn(t)
    <3>1. Quiet("idle")
      BY <2>0, <2>10 DEF goOn, Goto, queueVars, faultVars, Labels, SubmitLabels
    <3> QED
      BY <3>1
  <2> QED
    BY <1>6, <2>1, <2>2, <2>3, <2>4, <2>5, <2>6, <2>7, <2>8, <2>9, <2>10
<1>7. ASSUME NEW t \in Threads, vkResetFences(t) \/ acquireSignal(t) \/ presentWait(t)
      PROVE  IInv'
  BY <1>7 DEF vkResetFences, acquireSignal, presentWait, kernelVars, queueVars, faultVars,
              IInv, QueueTypeOK, OwnerOnly, SeqnosOrdered, Distance
<1> QED
  BY <1>1, <1>2, <1>3, <1>4, <1>5, <1>6, <1>7
  DEF Next, vkQueueSubmit, vkWaitForFences, vkQueueWaitIdle

THEOREM Invariance == Spec => []IInv
  BY InitEstablishes, StepPreserves, PTL DEF Spec

(* The unsigned distance of vc4_cl_submit never wraps, and no thread waits *)
(* for a seqno that was never given out (kernelInterface.c:557, 560-565).  *)
THEOREM SeqnosStayOrdered == Spec => []SeqnosOrdered
<1>1. IInv => SeqnosOrdered
  BY DEF IInv
<1> QED
  BY <1>1, Invariance, PTL

(* No interleaving of submits, failing submits and other clients gets a    *)
(* thread more than Window submissions ahead of the GPU                    *)
(* (kernelInterface.c:560-570).                                            *)
THEOREM ThrottleHolds == Spec => []Throttled
<1>1. IInv => Throttled
  BY WindowPositive DEF IInv, QueueTypeOK, SeqnosOrdered, Distance, Throttled
<1> QED
  BY <1>1, Invariance, PTL

-----------------------------------------------------------------------------

WaitLabels == {"check", "seqnoWait", "signal"}

SubmitCalls ==
  [op : {"submit"}, batches : Seq(Batch), fence : Fences \cup {None}, jobs : Int,
   result : {"none", "VK_SUCCESS"}]
WaitCalls ==
  [op : {"wait"}, list : Seq(Fences), all : BOOLEAN, timeout : {"zero", "finite", "infinite"},
   at : Nat, seqno : Nat, result : {"none", "VK_SUCCESS", "VK_TIMEOUT"}]
IdleCalls ==
  [op : {"idle"}, known : Nat, seqno : Nat, result : {"none", "VK_SUCCESS"}]

(* A thread inside a call is in a call of that kind, and a wait is at one  *)
(* of its fences.                                                          *)
CallOK(t) ==
  /\ call[t] \in {NoCall} \cup SubmitCalls \cup WaitCalls \cup IdleCalls
  /\ pc[t] = "idle" => call[t] = NoCall
  /\ pc[t] \in SubmitLabels => call[t] \in SubmitCalls
  /\ pc[t] \in SubmitLabels \ {"setFence"} => call[t].batches # << >>
  /\ pc[t] \in WaitLabels => call[t] \in WaitCalls /\ call[t].at \in 1 .. Len(call[t].list)
  /\ pc[t] = "idleWait" => call[t] \in IdleCalls

FenceTypeOK == fence \in [Fences -> [seqno : Nat, signaled : BOOLEAN]]

CallsOK ==
  /\ FenceTypeOK
  /\ DOMAIN call = Threads
  /\ call = [t \in Threads |-> call[t]]
  /\ \A t \in Threads : CallOK(t)

(* The lists a wait takes are sequences of fences.                         *)
LEMMA FenceListsType ==
  \A list \in FenceLists : list \in Seq(Fences) /\ list # << >> /\ 1 \in 1 .. Len(list)
<1>1. Cardinality(Fences) \in Nat
  BY GpuQueueAssumption, FS_CardinalityType
<1> SUFFICES ASSUME NEW list \in FenceLists
             PROVE  list \in Seq(Fences) /\ list # << >> /\ 1 \in 1 .. Len(list)
  OBVIOUS
<1>2. PICK n \in 0 .. Cardinality(Fences) : list \in [1 .. n -> Fences]
  BY DEF FenceLists, BoundedSeq, SeqOf
<1>3. list \in Seq(Fences) /\ list # << >>
  BY <1>1, <1>2 DEF FenceLists
<1> QED
  BY <1>3

(* A step of thread t that ends in a sound call of t, and leaves the calls *)
(* of the others alone, keeps CallsOK.                                     *)
LEMMA CallStep ==
  ASSUME CallsOK, QueueTypeOK, NEW t \in Threads, NEW label, NEW c,
         Goto(t, label, c),
         FenceTypeOK',
         c \in {NoCall} \cup SubmitCalls \cup WaitCalls \cup IdleCalls,
         label = "idle" => c = NoCall,
         label \in SubmitLabels => c \in SubmitCalls,
         label \in SubmitLabels \ {"setFence"} => c.batches # << >>,
         label \in WaitLabels => c \in WaitCalls /\ c.at \in 1 .. Len(c.list),
         label = "idleWait" => c \in IdleCalls
  PROVE  CallsOK'
<1>1. pc' = [pc EXCEPT ![t] = label] /\ call' = [call EXCEPT ![t] = c]
  BY DEF Goto
<1>2. pc'[t] = label /\ call'[t] = c
  BY <1>1 DEF CallsOK, QueueTypeOK
<1>3. \A u \in Threads \ {t} : pc'[u] = pc[u] /\ call'[u] = call[u]
  BY <1>1 DEF CallsOK, QueueTypeOK
<1>4. CallOK(t)'
  BY <1>2 DEF CallOK
<1>5. \A u \in Threads \ {t} : CallOK(u)'
  BY <1>3 DEF CallsOK, CallOK
<1>6. DOMAIN call' = Threads /\ call' = [u \in Threads |-> call'[u]]
  BY <1>1 DEF CallsOK
<1> QED
  BY <1>4, <1>5, <1>6 DEF CallsOK

LEMMA InitCalls == Init => CallsOK
  BY DEF Init, CallsOK, FenceTypeOK, CallOK, SubmitLabels, WaitLabels

(* Where the loop of a wait goes from a fence it is done with.             *)
LEMMA NextFenceCalls ==
  ASSUME CallsOK, QueueTypeOK, FenceTypeOK', NEW t \in Threads, NEW c \in WaitCalls,
         c.at \in 1 .. Len(c.list), nextFence(t, c)
  PROVE  CallsOK'
<1> USE DEF SubmitLabels, WaitLabels
<1>1. c.list \in Seq(Fences) /\ Len(c.list) \in Nat
  BY DEF WaitCalls
<1>2. CASE c.at < Len(c.list)
  <2> DEFINE d == [c EXCEPT !.at = @ + 1]
  <2>1. Goto(t, "check", d)
    BY <1>2 DEF nextFence
  <2>2. d \in WaitCalls /\ d.at \in 1 .. Len(d.list)
    BY <1>1, <1>2 DEF WaitCalls
  <2> QED
    BY <2>1, <2>2, CallStep
<1>3. CASE ~(c.at < Len(c.list))
  <2> DEFINE d == [c EXCEPT !.result = IF c.all THEN "VK_SUCCESS" ELSE "VK_TIMEOUT"]
  <2>1. Goto(t, "returned", d)
    BY <1>3 DEF nextFence
  <2>2. d \in WaitCalls
    BY DEF WaitCalls
  <2> QED
    BY <2>1, <2>2, CallStep
<1> QED
  BY <1>2, <1>3

LEMMA WaitReturnCalls ==
  ASSUME CallsOK, QueueTypeOK, FenceTypeOK', NEW t \in Threads, call[t] \in WaitCalls,
         NEW result \in {"VK_SUCCESS", "VK_TIMEOUT"}, Return(t, result)
  PROVE  CallsOK'
<1> DEFINE d == [call[t] EXCEPT !.result = result]
<1>1. Goto(t, "returned", d)
  BY DEF Return
<1>2. d \in WaitCalls
  BY DEF WaitCalls
<1> QED
  BY <1>1, <1>2, CallStep DEF SubmitLabels, WaitLabels

LEMMA PassFenceCalls ==
  ASSUME CallsOK, QueueTypeOK, FenceTypeOK', NEW t \in Threads, call[t] \in WaitCalls,
         call[t].at \in 1 .. Len(call[t].list), passFence(t)
  PROVE  CallsOK'
<1>1. CASE call[t].all
  BY <1>1, NextFenceCalls DEF passFence
<1>2. CASE ~call[t].all
  BY <1>2, WaitReturnCalls DEF passFence
<1> QED
  BY <1>1, <1>2

LEMMA StepCalls == CallsOK /\ IInv /\ [Next]_vars => CallsOK'
<1> SUFFICES ASSUME CallsOK, IInv, [Next]_vars PROVE CallsOK'
  OBVIOUS
<1> USE DEF SubmitLabels, WaitLabels
<1>0. QueueTypeOK /\ FenceTypeOK
  BY DEF IInv, CallsOK
<1>1. CASE UNCHANGED vars
  BY <1>1 DEF vars, syncVars, CallsOK, FenceTypeOK, CallOK
<1>2. CASE gpuFinish
  BY <1>2 DEF gpuFinish, syncVars, CallsOK, FenceTypeOK, CallOK
<1>3. ASSUME NEW t \in Threads, vkResetFences(t) \/ acquireSignal(t) \/ presentWait(t)
      PROVE  CallsOK'
  <2>1. FenceTypeOK'
    <3>1. CASE vkResetFences(t)
      BY <1>0, <3>1 DEF vkResetFences, FenceTypeOK
    <3>2. CASE acquireSignal(t)
      <4>1. PICK f \in Fences \cup {None} :
              fence' = IF f = None THEN fence ELSE [fence EXCEPT ![f].signaled = TRUE]
        BY <3>2 DEF acquireSignal
      <4> QED
        BY <1>0, <4>1 DEF FenceTypeOK
    <3>3. CASE presentWait(t)
      BY <1>0, <3>3 DEF presentWait, FenceTypeOK
    <3> QED
      BY <1>3, <3>1, <3>2, <3>3
  <2> QED
    BY <1>3, <2>1 DEF vkResetFences, acquireSignal, presentWait, CallsOK, CallOK
<1>4. ASSUME NEW t \in Threads, NEW batches \in BoundedSeq(Batch, MaxBatches),
             NEW f \in Fences \cup {None}, batches # << >>, submitCall(t, batches, f)
      PROVE  CallsOK'
  <2> DEFINE c == [op |-> "submit", batches |-> batches, fence |-> f, jobs |-> 0,
                   result |-> "none"]
  <2>1. batches \in Seq(Batch)
    BY GpuQueueAssumption DEF BoundedSeq, SeqOf
  <2>2. c \in SubmitCalls
    BY <2>1 DEF SubmitCalls
  <2>3. Goto(t, "semWait", c) /\ FenceTypeOK'
    BY <1>0, <1>4 DEF submitCall, syncVars, FenceTypeOK
  <2> QED
    BY <1>0, <1>4, <2>2, <2>3, CallStep
<1>5. ASSUME NEW t \in Threads, submitSemWait(t) PROVE CallsOK'
  <2> DEFINE c == [call[t] EXCEPT !.jobs = Head(call[t].batches).jobs]
  <2>1. call[t] \in SubmitCalls /\ call[t].batches # << >>
    BY <1>5 DEF submitSemWait, CallsOK, CallOK
  <2>2. Head(call[t].batches) \in Batch
    BY <2>1 DEF SubmitCalls
  <2>5. Head(call[t].batches).jobs \in Int
    BY <2>2, WindowPositive, GpuQueueAssumption DEF Batch
  <2>3. c \in SubmitCalls /\ c.batches # << >>
    BY <2>1, <2>5 DEF SubmitCalls
  <2>4. Goto(t, "ioctl", c) /\ FenceTypeOK'
    BY <1>0, <1>5 DEF submitSemWait, FenceTypeOK
  <2> QED
    BY <1>0, <2>3, <2>4, CallStep
<1>6. ASSUME NEW t \in Threads, vc4_cl_submit(t) \/ throttle(t) PROVE CallsOK'
  <2> DEFINE c == [call[t] EXCEPT !.jobs = @ - 1]
  <2>1. call[t] \in SubmitCalls /\ call[t].batches # << >>
    BY <1>6 DEF vc4_cl_submit, throttle, CallsOK, CallOK
  <2>2. c \in SubmitCalls /\ c.batches # << >>
    BY <2>1 DEF SubmitCalls
  <2>3. \/ Goto(t, "throttle", call[t])
        \/ Goto(t, "ioctl", c)
        \/ Goto(t, "post", c)
    BY <1>6 DEF vc4_cl_submit, throttle, nextJob
  <2>4. FenceTypeOK'
    BY <1>0, <1>6 DEF vc4_cl_submit, throttle, syncVars, FenceTypeOK
  <2>5. CASE Goto(t, "throttle", call[t])
    BY <1>0, <2>1, <2>4, <2>5, CallStep
  <2>6. CASE Goto(t, "ioctl", c)
    BY <1>0, <2>2, <2>4, <2>6, CallStep
  <2>7. CASE Goto(t, "post", c)
    BY <1>0, <2>2, <2>4, <2>7, CallStep
  <2> QED
    BY <2>3, <2>5, <2>6, <2>7
<1>7. ASSUME NEW t \in Threads, submitPost(t) PROVE CallsOK'
  <2> DEFINE rest == Tail(call[t].batches)
             c == [call[t] EXCEPT !.batches = rest]
  <2>1. call[t] \in SubmitCalls /\ call[t].batches # << >>
    BY <1>7 DEF submitPost, CallsOK, CallOK
  <2>2. rest \in Seq(Batch)
    BY <2>1 DEF SubmitCalls
  <2>3. c \in SubmitCalls /\ c.batches = rest
    BY <2>1, <2>2 DEF SubmitCalls
  <2>4. /\ \/ rest # << >> /\ Goto(t, "semWait", c)
           \/ rest = << >> /\ Goto(t, "setFence", c)
        /\ FenceTypeOK'
    BY <1>0, <1>7 DEF submitPost, FenceTypeOK
  <2>5. CASE rest # << >> /\ Goto(t, "semWait", c)
    BY <1>0, <2>3, <2>4, <2>5, CallStep
  <2>6. CASE rest = << >> /\ Goto(t, "setFence", c)
    BY <1>0, <2>3, <2>4, <2>6, CallStep
  <2> QED
    BY <2>4, <2>5, <2>6
<1>8. ASSUME NEW t \in Threads, submitFence(t) PROVE CallsOK'
  <2> DEFINE c == [call[t] EXCEPT !.result = "VK_SUCCESS"]
  <2>1. call[t] \in SubmitCalls
    BY <1>8 DEF submitFence, CallsOK, CallOK
  <2>2. c \in SubmitCalls
    BY <2>1 DEF SubmitCalls
  <2>3. Goto(t, "returned", c)
    BY <1>8 DEF submitFence, Return
  <2>4. FenceTypeOK'
    BY <1>0, <1>8 DEF submitFence, FenceTypeOK, QueueTypeOK
  <2> QED
    BY <1>0, <2>2, <2>3, <2>4, CallStep
<1>9. ASSUME NEW t \in Threads, waitCall(t) PROVE CallsOK'
  <2>1. PICK list \in FenceLists, all \in BOOLEAN, timeout \in {"zero", "finite", "infinite"},
             label \in {"returned", "check"}, result \in {"none", "VK_SUCCESS", "VK_TIMEOUT"} :
          Goto(t, label, [op |-> "wait", list |-> list, all |-> all, timeout |-> timeout,
                          at |-> 1, seqno |-> 0, result |-> result])
    BY <1>9 DEF waitCall, waitPoll, waitBlock
  <2> DEFINE c == [op |-> "wait", list |-> list, all |-> all, timeout |-> timeout, at |-> 1,
                   seqno |-> 0, result |-> result]
  <2>2. list \in Seq(Fences) /\ 1 \in 1 .. Len(list)
    BY FenceListsType
  <2>3. c \in WaitCalls /\ c.at \in 1 .. Len(c.list)
    BY <2>2 DEF WaitCalls
  <2>4. FenceTypeOK'
    BY <1>0, <1>9 DEF waitCall, waitPoll, waitBlock, syncVars, FenceTypeOK
  <2>5. Goto(t, label, c)
    BY <2>1
  <2> QED
    BY <1>0, <2>3, <2>4, <2>5, CallStep
<1>10. ASSUME NEW t \in Threads, waitCheck(t) \/ waitSeqno(t) \/ waitSignal(t) PROVE CallsOK'
  <2>1. call[t] \in WaitCalls /\ call[t].at \in 1 .. Len(call[t].list)
    BY <1>10 DEF waitCheck, waitSeqno, waitSignal, CallsOK, CallOK
  <2>2. call[t].list[call[t].at] \in Fences
    BY <2>1 DEF WaitCalls
  <2>3. FenceTypeOK'
    <3>1. \/ fence' = fence
          \/ fence' = [fence EXCEPT ![call[t].list[call[t].at]] = [seqno |-> 0, signaled |-> TRUE]]
      BY <1>10 DEF waitCheck, waitSeqno, waitSignal, syncVars
    <3>2. [seqno |-> 0, signaled |-> TRUE] \in [seqno : Nat, signaled : BOOLEAN]
      OBVIOUS
    <3>3. PICK f \in Fences : \/ fence' = fence
                             \/ fence' = [fence EXCEPT ![f] = [seqno |-> 0, signaled |-> TRUE]]
      BY <2>2, <3>1
    <3> QED
      BY <1>0, <3>2, <3>3 DEF FenceTypeOK
  <2>4. CASE waitCheck(t)
    <3> DEFINE f == call[t].list[call[t].at]
               c == [call[t] EXCEPT !.seqno = fence[f].seqno]
    <3>1. passFence(t) \/ Goto(t, "seqnoWait", c)
      BY <2>4 DEF waitCheck
    <3>2. c \in WaitCalls /\ c.at \in 1 .. Len(c.list)
      BY <1>0, <2>1, <2>2 DEF WaitCalls, FenceTypeOK
    <3>3. CASE passFence(t)
      BY <1>0, <2>1, <2>3, <3>3, PassFenceCalls
    <3>4. CASE Goto(t, "seqnoWait", c)
      BY <1>0, <2>3, <3>2, <3>4, CallStep
    <3> QED
      BY <3>1, <3>3, <3>4
  <2>5. CASE waitSeqno(t)
    <3> DEFINE c == [call[t] EXCEPT !.timeout = "infinite"]
    <3>1. \/ Goto(t, "signal", call[t]) \/ Return(t, "VK_TIMEOUT") \/ nextFence(t, c)
      BY <2>5 DEF waitSeqno
    <3>2. c \in WaitCalls /\ c.at \in 1 .. Len(c.list)
      BY <2>1 DEF WaitCalls
    <3>3. CASE Goto(t, "signal", call[t])
      BY <1>0, <2>1, <2>3, <3>3, CallStep
    <3>4. CASE Return(t, "VK_TIMEOUT")
      BY <1>0, <2>1, <2>3, <3>4, WaitReturnCalls
    <3>5. CASE nextFence(t, c)
      BY <1>0, <2>3, <3>2, <3>5, NextFenceCalls
    <3> QED
      BY <3>1, <3>3, <3>4, <3>5
  <2>6. CASE waitSignal(t)
    BY <1>0, <2>1, <2>3, <2>6, PassFenceCalls DEF waitSignal
  <2> QED
    BY <1>10, <2>4, <2>5, <2>6
<1>11. ASSUME NEW t \in Threads, idleCall(t) PROVE CallsOK'
  <2>1. PICK garbage \in {0, lastEmitSeqno} :
          Goto(t, "idleWait", [op |-> "idle", known |-> garbage, seqno |-> lastEmitSeqno,
                               result |-> "none"])
    BY <1>11 DEF idleCall
  <2> DEFINE c == [op |-> "idle", known |-> garbage, seqno |-> lastEmitSeqno, result |-> "none"]
  <2>2. c \in IdleCalls
    BY <1>0 DEF IdleCalls, QueueTypeOK
  <2>3. FenceTypeOK'
    BY <1>0, <1>11 DEF idleCall, syncVars, FenceTypeOK
  <2> QED
    BY <1>0, <2>1, <2>2, <2>3, CallStep
<1>12. ASSUME NEW t \in Threads, idleWait(t) PROVE CallsOK'
  <2> DEFINE c == [call[t] EXCEPT !.result = "VK_SUCCESS"]
  <2>1. call[t] \in IdleCalls
    BY <1>12 DEF idleWait, CallsOK, CallOK
  <2>2. c \in IdleCalls /\ Goto(t, "returned", c)
    BY <1>12, <2>1 DEF IdleCalls, idleWait, Return
  <2>3. FenceTypeOK'
    BY <1>0, <1>12 DEF idleWait, syncVars, FenceTypeOK
  <2> QED
    BY <1>0, <2>2, <2>3, CallStep
<1>13. ASSUME NEW t \in Threads, goOn(t) PROVE CallsOK'
  <2>1. FenceTypeOK' /\ Goto(t, "idle", NoCall)
    BY <1>0, <1>13 DEF goOn, syncVars, FenceTypeOK
  <2> QED
    BY <1>0, <2>1, CallStep
<1> QED
  BY <1>1, <1>2, <1>3, <1>4, <1>5, <1>6, <1>7, <1>8, <1>9, <1>10, <1>11, <1>12, <1>13
  DEF Next, vkQueueSubmit, vkWaitForFences, vkQueueWaitIdle

-----------------------------------------------------------------------------
(* Semaphores: whatever a submit has left to wait for and to signal, the   *)
(* levels it was promised still hold, counting a wait it has passed and    *)
(* whose batch is not posted.                                              *)
Posting == {"ioctl", "throttle", "post"}

passed(t, s) == IF pc[t] \in Posting /\ s \in Head(call[t].batches).wait THEN 1 ELSE 0

LevelsKept(t) ==
  \A b \in DOMAIN call[t].batches, s \in Semaphores :
    /\ s \in call[t].batches[b].wait => level(call[t].batches, b, s) + passed(t, s) = 1
    /\ s \in call[t].batches[b].signal \ call[t].batches[b].wait
         => level(call[t].batches, b, s) + passed(t, s) = 0

SemaphoresOK ==
  /\ semaphore \in [Semaphores -> 0 .. 1]
  /\ \A t \in Threads : pc[t] \in Posting \cup {"semWait"} => LevelsKept(t)

(* How many of the first n indices are in a set, counted from the second.  *)
LEMMA CountFromSecond ==
  ASSUME NEW n \in Nat \ {0}, NEW S
  PROVE  /\ Cardinality({c \in 1 .. n : c \in S}) \in Nat
         /\ Cardinality({c \in 1 .. n - 1 : c + 1 \in S}) \in Nat
         /\ Cardinality({c \in 1 .. n : c \in S}) =
              (IF 1 \in S THEN 1 ELSE 0) + Cardinality({c \in 1 .. n - 1 : c + 1 \in S})
<1> DEFINE All == {c \in 1 .. n : c \in S}
           T   == {c \in 2 .. n : c \in S}
           U   == {c \in 1 .. n - 1 : c + 1 \in S}
           f   == [c \in U |-> c + 1]
<1>1. IsFiniteSet(U) /\ IsFiniteSet(All) /\ IsFiniteSet(T)
  <2>1. IsFiniteSet(1 .. n) /\ IsFiniteSet(1 .. n - 1) /\ IsFiniteSet(2 .. n)
    BY FS_Interval
  <2> QED
    BY <2>1, FS_Subset
<1>2. f \in Bijection(U, T)
  <2>1. f \in [U -> T] /\ \A a, b \in U : f[a] = f[b] => a = b
    OBVIOUS
  <2>2. \A b \in T : \E a \in U : f[a] = b
    <3> SUFFICES ASSUME NEW b \in T PROVE b - 1 \in U /\ f[b - 1] = b
      OBVIOUS
    <3> QED
      OBVIOUS
  <2> QED
    BY <2>1, <2>2 DEF Bijection, Injection, Surjection, IsInjective
<1>3. Cardinality(T) = Cardinality(U)
  BY <1>1, <1>2, FS_Bijection DEF ExistsBijection
<1>4. Cardinality(All) \in Nat /\ Cardinality(U) \in Nat /\ Cardinality(T) \in Nat
  BY <1>1, FS_CardinalityType
<1>5. CASE 1 \in S
  <2>1. All = T \cup {1} /\ 1 \notin T
    BY <1>5
  <2> QED
    BY <1>1, <1>3, <1>4, <1>5, <2>1, FS_AddElement
<1>6. CASE 1 \notin S
  <2>1. All = T
    BY <1>6
  <2> QED
    BY <1>3, <1>4, <1>6, <2>1
<1> QED
  BY <1>4, <1>5, <1>6

signals(batches, b, s) == Cardinality({c \in 1 .. b - 1 : s \in batches[c].signal})
waits(batches, b, s)   == Cardinality({c \in 1 .. b - 1 : s \in batches[c].wait})

LEMMA CountsAreNat ==
  ASSUME NEW batches, NEW b \in Nat, NEW s
  PROVE  signals(batches, b, s) \in Nat /\ waits(batches, b, s) \in Nat
<1>1. IsFiniteSet(1 .. b - 1)
  BY FS_Interval
<1>2. /\ IsFiniteSet({c \in 1 .. b - 1 : s \in batches[c].signal})
      /\ IsFiniteSet({c \in 1 .. b - 1 : s \in batches[c].wait})
  BY <1>1, FS_Subset
<1> QED
  BY <1>2, FS_CardinalityType DEF signals, waits

(* The batches before one, counted without the first.                      *)
LEMMA CountsOfRest ==
  ASSUME NEW batches \in Seq(Batch), batches # << >>, NEW b \in DOMAIN Tail(batches), NEW s
  PROVE  /\ Tail(batches)[b] = batches[b + 1] /\ b + 1 \in DOMAIN batches
         /\ signals(batches, b + 1, s) = signals(Tail(batches), b, s)
                                         + (IF s \in Head(batches).signal THEN 1 ELSE 0)
         /\ waits(batches, b + 1, s) = waits(Tail(batches), b, s)
                                       + (IF s \in Head(batches).wait THEN 1 ELSE 0)
<1> DEFINE rest == Tail(batches)
           S == {c \in 1 .. Len(batches) : s \in batches[c].signal}
           W == {c \in 1 .. Len(batches) : s \in batches[c].wait}
<1>1. /\ Len(batches) \in Nat \ {0} /\ Len(rest) = Len(batches) - 1
      /\ DOMAIN batches = 1 .. Len(batches) /\ DOMAIN rest = 1 .. Len(batches) - 1
      /\ Head(batches) = batches[1]
      /\ \A c \in 1 .. Len(batches) - 1 : rest[c] = batches[c + 1]
  OBVIOUS
<1>2. b \in Nat \ {0} /\ b + 1 <= Len(batches)
  BY <1>1
<1>3. /\ {c \in 1 .. (b + 1) - 1 : s \in batches[c].signal} = {c \in 1 .. b : c \in S}
      /\ {c \in 1 .. b - 1 : s \in rest[c].signal} = {c \in 1 .. b - 1 : c + 1 \in S}
      /\ 1 \in S <=> s \in Head(batches).signal
  BY <1>1, <1>2
<1>4. /\ {c \in 1 .. (b + 1) - 1 : s \in batches[c].wait} = {c \in 1 .. b : c \in W}
      /\ {c \in 1 .. b - 1 : s \in rest[c].wait} = {c \in 1 .. b - 1 : c + 1 \in W}
      /\ 1 \in W <=> s \in Head(batches).wait
  BY <1>1, <1>2
<1> HIDE DEF S, W
<1>5. /\ Cardinality({c \in 1 .. b : c \in S}) =
           (IF 1 \in S THEN 1 ELSE 0) + Cardinality({c \in 1 .. b - 1 : c + 1 \in S})
      /\ Cardinality({c \in 1 .. b - 1 : c + 1 \in S}) \in Nat
  BY <1>2, CountFromSecond
<1>6. /\ Cardinality({c \in 1 .. b : c \in W}) =
           (IF 1 \in W THEN 1 ELSE 0) + Cardinality({c \in 1 .. b - 1 : c + 1 \in W})
      /\ Cardinality({c \in 1 .. b - 1 : c + 1 \in W}) \in Nat
  BY <1>2, CountFromSecond
<1>7. signals(batches, b + 1, s) = signals(rest, b, s)
                                   + (IF s \in Head(batches).signal THEN 1 ELSE 0)
  <2>1. signals(batches, b + 1, s) = Cardinality({c \in 1 .. b : c \in S})
    BY <1>3, Zenon DEF signals
  <2>2. signals(rest, b, s) = Cardinality({c \in 1 .. b - 1 : c + 1 \in S})
    BY <1>3, Zenon DEF signals
  <2>3. (1 \in S) <=> (s \in Head(batches).signal)
    BY <1>3
  <2> QED
    BY <1>5, <2>1, <2>2, <2>3
<1>8. waits(batches, b + 1, s) = waits(rest, b, s)
                                 + (IF s \in Head(batches).wait THEN 1 ELSE 0)
  <2>1. waits(batches, b + 1, s) = Cardinality({c \in 1 .. b : c \in W})
    BY <1>4, Zenon DEF waits
  <2>2. waits(rest, b, s) = Cardinality({c \in 1 .. b - 1 : c + 1 \in W})
    BY <1>4, Zenon DEF waits
  <2>3. (1 \in W) <=> (s \in Head(batches).wait)
    BY <1>4
  <2> QED
    BY <1>6, <2>1, <2>2, <2>3
<1> QED
  BY <1>1, <1>2, <1>7, <1>8

LEMMA LevelCounts ==
  \A batches, b, s : level(batches, b, s) = semaphore[s] + signals(batches, b, s)
                                            - waits(batches, b, s)
  BY DEF level, signals, waits

LEMMA FirstLevel ==
  ASSUME NEW batches, NEW s
  PROVE  signals(batches, 1, s) = 0 /\ waits(batches, 1, s) = 0
<1>1. /\ {c \in 1 .. 1 - 1 : s \in batches[c].signal} = {}
      /\ {c \in 1 .. 1 - 1 : s \in batches[c].wait} = {}
  OBVIOUS
<1> QED
  BY <1>1, FS_EmptySet DEF signals, waits

LEMMA InitSemaphores == Init => SemaphoresOK
  BY DEF Init, SemaphoresOK, Posting

(* The head of what a submit has left finds its semaphores as promised.    *)
LEMMA HeadLevels ==
  ASSUME NEW t \in Threads, call[t] \in SubmitCalls, call[t].batches # << >>, LevelsKept(t),
         semaphore \in [Semaphores -> 0 .. 1], NEW s \in Semaphores
  PROVE  LET batch == Head(call[t].batches) IN
         /\ s \in batch.wait => semaphore[s] + passed(t, s) = 1
         /\ s \in batch.signal \ batch.wait => semaphore[s] + passed(t, s) = 0
         /\ batch.wait \in SUBSET Semaphores /\ batch.signal \in SUBSET Semaphores
<1> DEFINE batches == call[t].batches
<1>1. batches \in Seq(Batch)
  BY DEF SubmitCalls
<1>2. 1 \in DOMAIN batches /\ Head(batches) = batches[1] /\ batches[1] \in Batch
  BY <1>1
<1>3. level(batches, 1, s) = semaphore[s]
  BY LevelCounts, FirstLevel
<1> QED
  BY <1>2, <1>3 DEF LevelsKept, Batch

(* What was promised still holds where the semaphores a submit has left to *)
(* use keep their value, a wait it passes counted.                         *)
LEMMA LevelsCarry ==
  ASSUME NEW t \in Threads, call[t] \in SubmitCalls, LevelsKept(t),
         semaphore \in [Semaphores -> 0 .. 1], semaphore' \in [Semaphores -> 0 .. 1],
         call'[t].batches = call[t].batches,
         \A b \in DOMAIN call[t].batches, s \in Semaphores :
           s \in call[t].batches[b].wait \cup call[t].batches[b].signal
             => semaphore'[s] + passed(t, s)' = semaphore[s] + passed(t, s)
  PROVE  LevelsKept(t)'
<1> DEFINE batches == call[t].batches
<1> SUFFICES ASSUME NEW b \in DOMAIN batches, NEW s \in Semaphores,
                    s \in batches[b].wait \cup batches[b].signal
             PROVE  level(batches, b, s)' + passed(t, s)' = level(batches, b, s) + passed(t, s)
  BY DEF LevelsKept
<1>1. b \in Nat
  BY DEF SubmitCalls
<1>2. signals(batches, b, s) \in Nat /\ waits(batches, b, s) \in Nat
  BY <1>1, CountsAreNat
<1>3. level(batches, b, s) = semaphore[s] + signals(batches, b, s) - waits(batches, b, s)
  BY LevelCounts
<1>4. level(batches, b, s)' = semaphore'[s] + signals(batches, b, s) - waits(batches, b, s)
  <2>1. level(batches, b, s)' = semaphore'[s] + signals(batches', b, s) - waits(batches', b, s)
    BY DEF level, signals, waits
  <2> QED
    BY <2>1
<1>5. semaphore[s] \in Int /\ semaphore'[s] \in Int /\ passed(t, s) \in Int /\ passed(t, s)' \in Int
  BY DEF passed
<1>6. semaphore'[s] + passed(t, s)' = semaphore[s] + passed(t, s)
  OBVIOUS
<1> QED
  BY <1>2, <1>3, <1>4, <1>5, <1>6

(* A step that leaves the semaphores, and what the submits have left, as   *)
(* they are.                                                               *)
LEMMA SameSemaphores ==
  ASSUME SemaphoresOK, CallsOK, semaphore' = semaphore,
         \A t \in Threads : pc'[t] \in Posting \cup {"semWait"} =>
           /\ pc[t] \in Posting \cup {"semWait"}
           /\ pc'[t] \in Posting <=> pc[t] \in Posting
           /\ call'[t].batches = call[t].batches
  PROVE  SemaphoresOK'
<1> SUFFICES ASSUME NEW t \in Threads, pc'[t] \in Posting \cup {"semWait"} PROVE LevelsKept(t)'
  BY DEF SemaphoresOK
<1>1. call[t] \in SubmitCalls /\ LevelsKept(t)
  BY DEF CallsOK, CallOK, SubmitLabels, Posting, SemaphoresOK
<1>2. \A s : passed(t, s)' = passed(t, s)
  BY DEF passed
<1> QED
  BY <1>1, <1>2, LevelsCarry DEF SemaphoresOK

LEMMA StepSemaphores == SemaphoresOK /\ CallsOK /\ IInv /\ [Next]_vars => SemaphoresOK'
<1> SUFFICES ASSUME SemaphoresOK, CallsOK, IInv, [Next]_vars PROVE SemaphoresOK'
  OBVIOUS
<1>0. QueueTypeOK /\ semaphore \in [Semaphores -> 0 .. 1]
  BY DEF IInv, SemaphoresOK
<1>a. CallsOK'
  BY StepCalls
<1>1. CASE UNCHANGED vars
  BY <1>1, SameSemaphores DEF vars, syncVars
<1>2. CASE gpuFinish
  BY <1>2, SameSemaphores DEF gpuFinish, syncVars
<1>3. ASSUME NEW t \in Threads, vkResetFences(t) PROVE SemaphoresOK'
  BY <1>3, SameSemaphores DEF vkResetFences
<1>4. ASSUME NEW t \in Threads, vc4_cl_submit(t) \/ throttle(t) PROVE SemaphoresOK'
  <2>1. call[t] \in SubmitCalls /\ pc[t] \in Posting
    BY <1>4 DEF vc4_cl_submit, throttle, CallsOK, CallOK, SubmitLabels, Posting
  <2>2. PICK label, c :
          /\ label \in Posting
          /\ Goto(t, label, c) /\ c.batches = call[t].batches
    BY <1>4, <2>1 DEF vc4_cl_submit, throttle, nextJob, Posting, SubmitCalls
  <2>3. /\ pc'[t] = label /\ call'[t] = c
        /\ \A u \in Threads \ {t} : pc'[u] = pc[u] /\ call'[u] = call[u]
    BY <1>0, <2>2 DEF Goto, QueueTypeOK, CallsOK
  <2>4. semaphore' = semaphore
    BY <1>4 DEF vc4_cl_submit, throttle, syncVars
  <2> QED
    BY <2>1, <2>2, <2>3, <2>4, SameSemaphores
<1>5. ASSUME NEW t \in Threads,
             \/ submitFence(t) \/ waitCall(t) \/ waitCheck(t) \/ waitSeqno(t) \/ waitSignal(t)
             \/ idleCall(t) \/ idleWait(t) \/ goOn(t)
      PROVE  SemaphoresOK'
  <2>1. PICK label, c :
          label \in Labels \ (Posting \cup {"semWait"}) /\ Goto(t, label, c)
    BY <1>5
    DEF submitFence, waitCall, waitPoll, waitBlock, waitCheck, waitSeqno, waitSignal, passFence,
        nextFence, idleCall, idleWait, goOn, Return, Posting, Labels
  <2>2. semaphore' = semaphore
    BY <1>5
    DEF submitFence, waitCall, waitPoll, waitBlock, waitCheck, waitSeqno, waitSignal,
        idleCall, idleWait, goOn, syncVars
  <2>3. /\ pc'[t] = label /\ call'[t] = c
        /\ \A u \in Threads \ {t} : pc'[u] = pc[u] /\ call'[u] = call[u]
    BY <1>0, <2>1 DEF Goto, QueueTypeOK, CallsOK
  <2> QED
    BY <2>1, <2>2, <2>3, SameSemaphores
<1>6. ASSUME NEW t \in Threads, presentWait(t) PROVE SemaphoresOK'
  <2>1. \A u \in Threads : pc'[u] \notin Posting \cup {"semWait"}
    BY <1>6, GpuQueueAssumption DEF presentWait, IInv, OwnerOnly, SubmitLabels, Posting
  <2>2. semaphore' \in [Semaphores -> 0 .. 1]
    BY <1>0, <1>6 DEF presentWait
  <2> QED
    BY <2>1, <2>2 DEF SemaphoresOK
<1>7. ASSUME NEW t \in Threads, acquireSignal(t) PROVE SemaphoresOK'
  <2>1. PICK s \in Semaphores : /\ semaphore[s] = 0 /\ ~usedBySubmit(s)
                                /\ semaphore' = [semaphore EXCEPT ![s] = @ + 1]
    BY <1>7 DEF acquireSignal
  <2>2. semaphore' \in [Semaphores -> 0 .. 1]
    BY <1>0, <2>1
  <2>3. ASSUME NEW u \in Threads, pc'[u] \in Posting \cup {"semWait"} PROVE LevelsKept(u)'
    <3>1. pc' = pc /\ call' = call
      BY <1>7 DEF acquireSignal
    <3>2. call[u] \in SubmitCalls /\ LevelsKept(u)
      BY <2>3, <3>1 DEF CallsOK, CallOK, SubmitLabels, Posting, SemaphoresOK
    <3>3. ASSUME NEW b \in DOMAIN call[u].batches, NEW r \in Semaphores,
                 r \in call[u].batches[b].wait \cup call[u].batches[b].signal
          PROVE  semaphore'[r] = semaphore[r]
      <4>1. call[u].op = "submit" /\ call[u].batches[b] \in Range(call[u].batches)
        BY <3>2 DEF SubmitCalls, Range
      <4>2. r # s
        BY <2>1, <3>3, <4>1 DEF usedBySubmit
      <4> QED
        BY <1>0, <2>1, <4>2
    <3>4. \A r : passed(u, r)' = passed(u, r)
      BY <3>1 DEF passed
    <3> QED
      BY <1>0, <2>2, <3>1, <3>2, <3>3, <3>4, LevelsCarry
  <2> QED
    BY <2>2, <2>3 DEF SemaphoresOK

<1>8. ASSUME NEW t \in Threads, NEW batches \in BoundedSeq(Batch, MaxBatches),
             NEW f \in Fences \cup {None}, submitCall(t, batches, f)
      PROVE  SemaphoresOK'
  <2>1. /\ semaphore' = semaphore
        /\ pc' = [pc EXCEPT ![t] = "semWait"]
        /\ call' = [call EXCEPT ![t] = [op |-> "submit", batches |-> batches, fence |-> f,
                                       jobs |-> 0, result |-> "none"]]
        /\ validSubmit(batches, f) /\ owner = None
    BY <1>8 DEF submitCall, Goto, syncVars
  <2>2. pc'[t] = "semWait" /\ call'[t].batches = batches
    BY <1>0, <2>1 DEF QueueTypeOK, CallsOK
  <2>3. \A u \in Threads \ {t} : pc'[u] \notin Posting \cup {"semWait"}
    BY <1>0, <2>1, GpuQueueAssumption DEF IInv, OwnerOnly, SubmitLabels, Posting, QueueTypeOK
  <2>4. LevelsKept(t)'
    <3> SUFFICES ASSUME NEW b \in DOMAIN batches, NEW s \in Semaphores
                 PROVE  /\ s \in batches[b].wait
                             => level(call[t].batches, b, s)' + passed(t, s)' = 1
                        /\ s \in batches[b].signal \ batches[b].wait
                             => level(call[t].batches, b, s)' + passed(t, s)' = 0
      BY <2>2 DEF LevelsKept
    <3>1. passed(t, s)' = 0
      BY <2>2 DEF passed, Posting
    <3>2. level(call[t].batches, b, s)' = level(batches, b, s)
      <4>1. level(call[t].batches, b, s)' =
              semaphore'[s] + signals(call'[t].batches, b, s) - waits(call'[t].batches, b, s)
        BY DEF level, signals, waits
      <4> QED
        BY <2>1, <2>2, <4>1, LevelCounts
    <3>3. level(batches, b, s) = 1 \/ level(batches, b, s) = 0
             => level(batches, b, s) + 0 = level(batches, b, s)
      OBVIOUS
    <3>4. /\ s \in batches[b].wait => level(batches, b, s) = 1
          /\ s \in batches[b].signal \ batches[b].wait => level(batches, b, s) = 0
      BY <2>1 DEF validSubmit
    <3> QED
      BY <3>1, <3>2, <3>3, <3>4
  <2> QED
    BY <1>0, <2>1, <2>3, <2>4 DEF SemaphoresOK
<1>9. ASSUME NEW t \in Threads, submitSemWait(t) PROVE SemaphoresOK'
  <2> DEFINE batches == call[t].batches
             batch == Head(batches)
             c == [call[t] EXCEPT !.jobs = batch.jobs]
  <2>1. /\ pc[t] = "semWait" /\ call[t] \in SubmitCalls /\ batches # << >> /\ LevelsKept(t)
        /\ owner = t
    BY <1>9 DEF submitSemWait, CallsOK, CallOK, SubmitLabels, SemaphoresOK, IInv, OwnerOnly
  <2>2. /\ pc' = [pc EXCEPT ![t] = "ioctl"] /\ call' = [call EXCEPT ![t] = c]
        /\ semaphore' = [s \in Semaphores |->
                            semaphore[s] - (IF s \in batch.wait THEN 1 ELSE 0)]
    BY <1>9 DEF submitSemWait, Goto
  <2>3. c.batches = batches
    BY <2>1 DEF SubmitCalls
  <2>4. pc'[t] = "ioctl" /\ call'[t].batches = batches
    BY <1>0, <2>2, <2>3 DEF QueueTypeOK, CallsOK
  <2>5. \A u \in Threads \ {t} : pc'[u] \notin Posting \cup {"semWait"}
    BY <1>0, <2>1, <2>2 DEF IInv, OwnerOnly, SubmitLabels, Posting, QueueTypeOK
  <2>6. \A s : passed(t, s) = 0 /\ passed(t, s)' = IF s \in batch.wait THEN 1 ELSE 0
    BY <2>1, <2>4 DEF passed, Posting
  <2>7. \A s \in Semaphores : s \in batch.wait => semaphore[s] = 1
    BY <1>0, <2>1, <2>6, HeadLevels
  <2>8. semaphore' \in [Semaphores -> 0 .. 1]
    BY <1>0, <2>2, <2>7
  <2>9. \A s \in Semaphores : semaphore'[s] + passed(t, s)' = semaphore[s] + passed(t, s)
    BY <1>0, <2>2, <2>6
  <2>10. LevelsKept(t)'
    BY <1>0, <2>1, <2>4, <2>8, <2>9, LevelsCarry
  <2> QED
    BY <2>5, <2>8, <2>10 DEF SemaphoresOK
<1>10. ASSUME NEW t \in Threads, submitPost(t) PROVE SemaphoresOK'
  <2> DEFINE batches == call[t].batches
             batch == Head(batches)
             rest == Tail(batches)
             c == [call[t] EXCEPT !.batches = rest]
  <2>1. /\ pc[t] = "post" /\ call[t] \in SubmitCalls /\ batches # << >> /\ LevelsKept(t)
        /\ owner = t
    BY <1>10 DEF submitPost, CallsOK, CallOK, SubmitLabels, SemaphoresOK, IInv, OwnerOnly, Posting
  <2>2. /\ pc' = [pc EXCEPT ![t] = IF rest = << >> THEN "setFence" ELSE "semWait"]
        /\ call' = [call EXCEPT ![t] = c]
        /\ semaphore' = [s \in Semaphores |->
                            semaphore[s] + (IF s \in batch.signal THEN 1 ELSE 0)]
    BY <1>10 DEF submitPost, Goto
  <2>3. /\ batches \in Seq(Batch) /\ c.batches = rest
        /\ \A b \in DOMAIN rest : b \in Nat
    BY <2>1 DEF SubmitCalls
  <2>4. pc'[t] \in {"setFence", "semWait"} /\ call'[t].batches = rest
    BY <1>0, <2>2, <2>3 DEF QueueTypeOK, CallsOK
  <2>5. \A u \in Threads \ {t} : pc'[u] \notin Posting \cup {"semWait"}
    BY <1>0, <2>1, <2>2 DEF IInv, OwnerOnly, SubmitLabels, Posting, QueueTypeOK
  <2>6. \A s : passed(t, s)' = 0 /\ passed(t, s) = IF s \in batch.wait THEN 1 ELSE 0
    BY <2>1, <2>4 DEF passed, Posting
  <2>7. \A s \in Semaphores : s \in batch.signal => semaphore[s] = 0
    BY <1>0, <2>1, <2>6, HeadLevels
  <2>8. semaphore' \in [Semaphores -> 0 .. 1]
    BY <1>0, <2>2, <2>7
  <2>9. ASSUME NEW b \in DOMAIN rest, NEW s \in Semaphores
        PROVE  /\ level(batches, b + 1, s) + passed(t, s) = level(call[t].batches, b, s)'
               /\ level(batches, b + 1, s) + passed(t, s) \in Int
               /\ passed(t, s)' = 0 /\ b + 1 \in DOMAIN batches /\ rest[b] = batches[b + 1]
    <3>1. level(call[t].batches, b, s)' = semaphore'[s] + signals(rest, b, s) - waits(rest, b, s)
      <4>1. level(call[t].batches, b, s)' =
              semaphore'[s] + signals(call'[t].batches, b, s) - waits(call'[t].batches, b, s)
        BY DEF level, signals, waits
      <4> QED
        BY <2>4, <4>1
    <3>2. level(batches, b + 1, s) = semaphore[s] + signals(batches, b + 1, s)
                                     - waits(batches, b + 1, s)
      BY LevelCounts
    <3>3. /\ rest[b] = batches[b + 1] /\ b + 1 \in DOMAIN batches
          /\ signals(batches, b + 1, s) = signals(rest, b, s)
                                          + (IF s \in batch.signal THEN 1 ELSE 0)
          /\ waits(batches, b + 1, s) = waits(rest, b, s)
                                        + (IF s \in batch.wait THEN 1 ELSE 0)
      BY <2>1, <2>3, CountsOfRest
    <3>4. signals(rest, b, s) \in Nat /\ waits(rest, b, s) \in Nat
      BY <2>3, CountsAreNat
    <3>5. semaphore'[s] = semaphore[s] + (IF s \in batch.signal THEN 1 ELSE 0)
      BY <2>2
    <3>6. semaphore[s] \in Int
      BY <1>0
    <3> HIDE DEF batches, rest, batch
    <3> QED
      BY <2>6, <3>1, <3>2, <3>3, <3>4, <3>5, <3>6
  <2>10. ASSUME pc'[t] = "semWait" PROVE LevelsKept(t)'
    <3> SUFFICES ASSUME NEW b \in DOMAIN rest, NEW s \in Semaphores
                 PROVE  /\ s \in rest[b].wait
                             => level(call[t].batches, b, s)' + passed(t, s)' = 1
                        /\ s \in rest[b].signal \ rest[b].wait
                             => level(call[t].batches, b, s)' + passed(t, s)' = 0
      BY <2>4 DEF LevelsKept
    <3>1. /\ s \in batches[b + 1].wait => level(batches, b + 1, s) + passed(t, s) = 1
          /\ s \in batches[b + 1].signal \ batches[b + 1].wait
               => level(batches, b + 1, s) + passed(t, s) = 0
      BY <2>1, <2>9 DEF LevelsKept
    <3>2. /\ level(batches, b + 1, s) + passed(t, s) = level(call[t].batches, b, s)'
          /\ level(batches, b + 1, s) + passed(t, s) \in Int
          /\ passed(t, s)' = 0 /\ rest[b] = batches[b + 1]
      BY <2>9
    <3>3. level(call[t].batches, b, s)' + passed(t, s)' = level(batches, b + 1, s) + passed(t, s)
      <4>1. \A n \in Int : n + 0 = n
        OBVIOUS
      <4> QED
        BY <3>2, <4>1, Zenon
    <3> QED
      BY <3>1, <3>2, <3>3, Zenon
  <2> QED
    BY <2>4, <2>5, <2>8, <2>10 DEF SemaphoresOK, Posting

<1> QED
  BY <1>1, <1>2, <1>3, <1>4, <1>5, <1>6, <1>7, <1>8, <1>9, <1>10
  DEF Next, vkQueueSubmit, vkWaitForFences, vkQueueWaitIdle

-----------------------------------------------------------------------------
(* What a fence stands for.  A fence that is not signaled keeps the seqno  *)
(* it was given; nobody gives a fence to a submit, or waits for one, that  *)
(* somebody else is about to change.                                       *)
FenceOK(f) ==
  /\ covers[f] \in Nat \cup {Unused}
  /\ fence[f].signaled => covers[f] # Unused
  /\ ~fence[f].signaled /\ covers[f] # Unused => fence[f].seqno = covers[f]

FenceKnown(t) ==
  /\ pc[t] \in SubmitLabels /\ call[t].fence # None => covers[call[t].fence] = Unused
  /\ call[t].op = "wait" => \A f \in Range(call[t].list) : covers[f] # Unused
  /\ pc[t] = "seqnoWait" => call[t].seqno = covers[call[t].list[call[t].at]]

FencesOK ==
  /\ submitFaults \in Nat /\ owner \in Threads \cup {None}
  /\ DOMAIN covers = Fences /\ covers = [f \in Fences |-> covers[f]]
  /\ \A f \in Fences : FenceOK(f)
  /\ \A t \in Threads : FenceKnown(t)

LEMMA InitFences == Init => FencesOK
  BY DEF Init, FencesOK, FenceOK, FenceKnown, SubmitLabels, NoCall, Unused, Granted

(* The threads other than the one that moves keep what they know, if the   *)
(* step leaves the fences they use alone.                                  *)
LEMMA FenceStep ==
  ASSUME FencesOK, CallsOK, IInv, NEW t \in Threads, NEW label, NEW c, Goto(t, label, c),
         fence' = fence, covers' = covers,
         submitFaults' \in Nat, owner' \in {owner, t, None},
         label \in SubmitLabels /\ c.fence # None => covers[c.fence] = Unused,
         c.op = "wait" => \A f \in Range(c.list) : covers[f] # Unused,
         label = "seqnoWait" => c.seqno = covers[c.list[c.at]]
  PROVE  FencesOK'
<1>1. /\ pc'[t] = label /\ call'[t] = c
      /\ \A u \in Threads \ {t} : pc'[u] = pc[u] /\ call'[u] = call[u]
  BY DEF Goto, IInv, QueueTypeOK, CallsOK
<1>2. \A f \in Fences : FenceOK(f)'
  BY DEF FencesOK, FenceOK
<1>3. FenceKnown(t)'
  BY <1>1 DEF FenceKnown
<1>4. \A u \in Threads \ {t} : FenceKnown(u)'
  BY <1>1 DEF FencesOK, FenceKnown
<1> QED
  BY <1>2, <1>3, <1>4 DEF FencesOK

(* A step that changes fence g only is not in the way of the threads that  *)
(* do not move and do not count on g.                                      *)
LEMMA OtherFenceStep ==
  ASSUME FencesOK, CallsOK, IInv, NEW g \in Fences, NEW t \in Threads,
         fence' = [fence EXCEPT ![g] = fence'[g]], covers' = [covers EXCEPT ![g] = covers'[g]],
         submitFaults' = submitFaults, owner' \in Threads \cup {None},
         FenceOK(g)', FenceKnown(t)',
         \A u \in Threads \ {t} :
           /\ pc'[u] = pc[u] /\ call'[u] = call[u]
           /\ pc[u] \in SubmitLabels => call[u].fence # g
           /\ call[u].op = "wait" /\ g \in Range(call[u].list) => covers'[g] = covers[g]
  PROVE  FencesOK'
<1>1. \A f \in Fences \ {g} : FenceOK(f)'
  <2>1. \A f \in Fences \ {g} : fence'[f] = fence[f] /\ covers'[f] = covers[f]
    BY DEF FencesOK, CallsOK, FenceTypeOK
  <2> QED
    BY <2>1 DEF FencesOK, FenceOK
<1>2. ASSUME NEW u \in Threads \ {t} PROVE FenceKnown(u)'
  <2>1. FenceKnown(u)
    BY DEF FencesOK
  <2>2. \A f \in Fences : f # g => covers'[f] = covers[f]
    BY DEF FencesOK
  <2>4. pc[u] \in SubmitLabels /\ call[u].fence # None => covers'[call[u].fence] = Unused
    <3>1. pc[u] \in SubmitLabels => call[u].fence \in Fences \cup {None}
      BY DEF CallsOK, CallOK, SubmitCalls
    <3> QED
      BY <2>1, <2>2, <3>1 DEF FenceKnown
  <2>5. call[u].op = "wait" => \A f \in Range(call[u].list) : covers'[f] = covers[f]
    <3>1. call[u].op = "wait" => call[u] \in WaitCalls
      BY DEF CallsOK, CallOK, NoCall, SubmitCalls, IdleCalls
    <3>2. call[u].op = "wait" => Range(call[u].list) \subseteq Fences
      BY <3>1 DEF WaitCalls, Range
    <3> QED
      BY <2>2, <3>2
  <2>6. pc[u] = "seqnoWait" => /\ call[u].op = "wait"
                              /\ call[u].list[call[u].at] \in Range(call[u].list)
    BY DEF CallsOK, CallOK, WaitLabels, WaitCalls, Range
  <2> QED
    BY <2>1, <2>4, <2>5, <2>6 DEF FenceKnown
<1>3. DOMAIN covers' = Fences /\ covers' = [f \in Fences |-> covers'[f]]
  BY DEF FencesOK
<1> QED
  BY <1>1, <1>2, <1>3 DEF FencesOK

LEMMA StepFences == FencesOK /\ CallsOK /\ IInv /\ [Next]_vars => FencesOK'
<1> SUFFICES ASSUME FencesOK, CallsOK, IInv, [Next]_vars PROVE FencesOK'
  OBVIOUS
<1>0. QueueTypeOK /\ FenceTypeOK /\ submitFaults \in Nat /\ owner \in Threads \cup {None}
  BY DEF IInv, CallsOK, FencesOK
<1>1. CASE UNCHANGED vars
  BY <1>1 DEF vars, syncVars, faultVars, FencesOK, FenceOK, FenceKnown
<1>2. CASE gpuFinish
  BY <1>2 DEF gpuFinish, syncVars, faultVars, FencesOK, FenceOK, FenceKnown
<1>3. ASSUME NEW t \in Threads, presentWait(t) PROVE FencesOK'
  BY <1>3 DEF presentWait, faultVars, FencesOK, FenceOK, FenceKnown
<1>4. ASSUME NEW t \in Threads, acquireSignal(t) PROVE FencesOK'
  <2>1. PICK f \in Fences \cup {None} :
          /\ f # None => covers[f] = Unused /\ ~inUse(f)
          /\ fence' = IF f = None THEN fence ELSE [fence EXCEPT ![f].signaled = TRUE]
          /\ covers' = IF f = None THEN covers ELSE [covers EXCEPT ![f] = Granted]
    BY <1>4 DEF acquireSignal
  <2>2. UNCHANGED <<owner, pc, call, submitFaults>>
    BY <1>4 DEF acquireSignal, faultVars
  <2>3. CASE f = None
    BY <2>1, <2>2, <2>3 DEF FencesOK, FenceOK, FenceKnown
  <2>4. CASE f # None
    <3>1. f \in Fences /\ ~inUse(f)
      BY <2>1, <2>4
    <3>2. /\ fence' = [fence EXCEPT ![f].signaled = TRUE] /\ fence'[f].signaled
          /\ covers' = [covers EXCEPT ![f] = Granted] /\ covers'[f] = Granted
      BY <1>0, <2>1, <2>4, <3>1 DEF FenceTypeOK, FencesOK
    <3>3. FenceOK(f)'
      BY <3>2 DEF FenceOK, Granted, Unused
    <3>5. /\ fence' = [fence EXCEPT ![f] = fence'[f]]
          /\ covers' = [covers EXCEPT ![f] = covers'[f]]
      BY <1>0, <3>1, <3>2 DEF FenceTypeOK, FencesOK
    <3>6. FenceKnown(t)'
      BY <1>4, <2>2 DEF acquireSignal, FenceKnown, SubmitLabels, CallsOK, CallOK, NoCall
    <3>4. ASSUME NEW u \in Threads
          PROVE  /\ pc[u] \in SubmitLabels => call[u].fence # f
                 /\ call[u].op = "wait" => f \notin Range(call[u].list)
      BY <3>1 DEF inUse, CallsOK, CallOK, SubmitCalls
    <3> QED
      BY <1>0, <2>2, <3>1, <3>3, <3>4, <3>5, <3>6, OtherFenceStep
  <2> QED
    BY <2>3, <2>4
<1>5. ASSUME NEW t \in Threads, vkResetFences(t) PROVE FencesOK'
  <2> DEFINE value == [seqno |-> 0, signaled |-> FALSE]
  <2>1. PICK f \in Fences : /\ ~inUse(f)
                            /\ fence' = [fence EXCEPT ![f] = value]
                            /\ covers' = [covers EXCEPT ![f] = Unused]
    BY <1>5 DEF vkResetFences
  <2>2. UNCHANGED <<owner, pc, call, submitFaults>>
    BY <1>5 DEF vkResetFences, faultVars
  <2>3. FenceOK(f)'
    BY <1>0, <2>1 DEF FenceOK, FenceTypeOK, FencesOK, Unused
  <2>4. ASSUME NEW u \in Threads
        PROVE  /\ pc[u] \in SubmitLabels => call[u].fence # f
               /\ call[u].op = "wait" => f \notin Range(call[u].list)
    BY <2>1 DEF inUse, CallsOK, CallOK, SubmitCalls
  <2>5. fence' = [fence EXCEPT ![f] = fence'[f]] /\ covers' = [covers EXCEPT ![f] = covers'[f]]
    BY <1>0, <2>1 DEF FenceTypeOK, FencesOK
  <2>6. FenceKnown(t)'
    BY <1>5, <2>2 DEF vkResetFences, FenceKnown, SubmitLabels, CallsOK, CallOK, NoCall
  <2> QED
    BY <1>0, <2>1, <2>2, <2>3, <2>4, <2>5, <2>6, OtherFenceStep
<1>6. ASSUME NEW t \in Threads, NEW batches, NEW f \in Fences \cup {None},
             submitCall(t, batches, f)
      PROVE  FencesOK'
  <2> DEFINE c == [op |-> "submit", batches |-> batches, fence |-> f, jobs |-> 0,
                   result |-> "none"]
  <2>1. /\ Goto(t, "semWait", c)
        /\ f # None => covers[f] = Unused
        /\ fence' = fence /\ covers' = covers /\ submitFaults' = submitFaults /\ owner' = t
    BY <1>6 DEF submitCall, validSubmit, syncVars, faultVars
  <2>2. c.op # "wait" /\ c.fence = f
    OBVIOUS
  <2> HIDE DEF c
  <2>3. /\ c.fence # None => covers[c.fence] = Unused
        /\ submitFaults' \in Nat /\ owner' \in {owner, t, None}
    BY <1>0, <2>1, <2>2
  <2>4. \A label : label = "semWait" => label # "seqnoWait"
    OBVIOUS
  <2> QED
    BY <2>1, <2>2, <2>3, <2>4, FenceStep
<1>7. ASSUME NEW t \in Threads,
             submitSemWait(t) \/ vc4_cl_submit(t) \/ throttle(t) \/ submitPost(t)
      PROVE  FencesOK'
  <2>1. call[t] \in SubmitCalls /\ pc[t] \in SubmitLabels
    BY <1>7 DEF submitSemWait, vc4_cl_submit, throttle, submitPost, CallsOK, CallOK, SubmitLabels
  <2>2. PICK label, c :
          /\ label \in SubmitLabels
          /\ Goto(t, label, c) /\ c.fence = call[t].fence /\ c.op = "submit"
    <3>1. CASE submitSemWait(t)
      BY <2>1, <3>1 DEF submitSemWait, SubmitLabels, SubmitCalls
    <3>2. CASE vc4_cl_submit(t) \/ throttle(t)
      <4>1. Goto(t, "throttle", call[t]) \/ nextJob(t, call[t])
        BY <3>2 DEF vc4_cl_submit, throttle
      <4> QED
        BY <2>1, <4>1 DEF nextJob, SubmitLabels, SubmitCalls
    <3>3. CASE submitPost(t)
      <4>1. PICK label \in {"setFence", "semWait"} :
              Goto(t, label, [call[t] EXCEPT !.batches = Tail(call[t].batches)])
        BY <3>3 DEF submitPost
      <4> QED
        BY <2>1, <4>1 DEF SubmitLabels, SubmitCalls
    <3> QED
      BY <1>7, <3>1, <3>2, <3>3
  <2>3. covers' = covers /\ fence' = fence /\ owner' = owner
    BY <1>7 DEF submitSemWait, vc4_cl_submit, throttle, submitPost, syncVars
  <2>4. submitFaults' \in Nat
    BY <1>0, <1>7
    DEF submitSemWait, vc4_cl_submit, throttle, submitPost, faultVars, vc4_seqno_wait
  <2>5. call[t].fence # None => covers[call[t].fence] = Unused
    BY <2>1 DEF FencesOK, FenceKnown
  <2>6. label # "seqnoWait"
    BY <2>2 DEF SubmitLabels
  <2> QED
    BY <1>0, <2>2, <2>3, <2>4, <2>5, <2>6, FenceStep
<1>8. ASSUME NEW t \in Threads, submitFence(t) PROVE FencesOK'
  <2> DEFINE c == [call[t] EXCEPT !.result = "VK_SUCCESS"]
  <2>1. call[t] \in SubmitCalls /\ pc[t] = "setFence" /\ owner = t
    BY <1>8 DEF submitFence, CallsOK, CallOK, SubmitLabels, IInv, OwnerOnly
  <2>2. PICK f \in Fences \cup {None} :
          /\ f = call[t].fence
          /\ fence' = IF f = None THEN fence ELSE [fence EXCEPT ![f].seqno = lastEmitSeqno]
          /\ covers' = IF f = None THEN covers ELSE [covers EXCEPT ![f] = lastEmitSeqno]
    BY <1>8, <2>1 DEF submitFence, SubmitCalls
  <2>3. Goto(t, "returned", c) /\ owner' = None /\ submitFaults' = submitFaults
    BY <1>8 DEF submitFence, Return, faultVars
  <2>4. c.op = "submit"
    BY <2>1 DEF SubmitCalls
  <2>5. /\ pc'[t] = "returned" /\ call'[t] = c
        /\ \A u \in Threads \ {t} : pc'[u] = pc[u] /\ call'[u] = call[u]
    BY <1>0, <2>3 DEF Goto, QueueTypeOK, CallsOK
  <2>6. CASE f = None
    BY <1>0, <2>2, <2>3, <2>4, <2>6, FenceStep DEF SubmitLabels
  <2>7. CASE f # None
    <3>1. f \in Fences /\ covers[f] = Unused
      BY <2>1, <2>2, <2>7 DEF FencesOK, FenceKnown, SubmitLabels
    <3>2. /\ fence' = [fence EXCEPT ![f] = fence'[f]] /\ fence'[f].seqno = lastEmitSeqno
          /\ covers' = [covers EXCEPT ![f] = covers'[f]] /\ covers'[f] = lastEmitSeqno
      BY <1>0, <2>2, <2>7, <3>1 DEF FenceTypeOK, FencesOK
    <3>3. FenceOK(f)'
      BY <1>0, <3>2 DEF FenceOK, Unused, QueueTypeOK
    <3>4. ASSUME NEW u \in Threads \ {t}
          PROVE  /\ pc[u] \in SubmitLabels => call[u].fence # f
                 /\ call[u].op = "wait" => f \notin Range(call[u].list)
      <4>1. pc[u] \notin SubmitLabels
        BY <2>1 DEF IInv, OwnerOnly
      <4>2. call[u].op = "wait" => f \notin Range(call[u].list)
        BY <3>1 DEF FencesOK, FenceKnown
      <4> QED
        BY <4>1, <4>2
    <3>5. FenceKnown(t)'
      BY <2>4, <2>5 DEF FenceKnown, SubmitLabels
    <3> HIDE DEF c
    <3> QED
      BY <1>0, <2>3, <2>5, <3>1, <3>2, <3>3, <3>4, <3>5, OtherFenceStep
  <2> QED
    BY <2>6, <2>7
<1>9. ASSUME NEW t \in Threads, waitCall(t) PROVE FencesOK'
  <2>1. PICK label, c :
          /\ label \in {"returned", "check"}
          /\ Goto(t, label, c) /\ \A f \in Range(c.list) : covers[f] # Unused
    BY <1>9 DEF waitCall, waitPoll, waitBlock
  <2>2. UNCHANGED <<fence, covers, owner, submitFaults>>
    BY <1>9 DEF waitCall, waitPoll, waitBlock, syncVars, faultVars
  <2> QED
    BY <1>0, <2>1, <2>2, FenceStep DEF SubmitLabels
<1>10. ASSUME NEW t \in Threads, waitCheck(t) PROVE FencesOK'
  <2> DEFINE f == call[t].list[call[t].at]
             c == [call[t] EXCEPT !.seqno = fence[f].seqno]
  <2>1. /\ call[t] \in WaitCalls /\ f \in Range(call[t].list) /\ f \in Fences
        /\ pc[t] = "check"
    BY <1>10 DEF waitCheck, CallsOK, CallOK, WaitLabels, WaitCalls, Range
  <2>2. UNCHANGED <<fence, covers, owner, submitFaults>>
    BY <1>10 DEF waitCheck, syncVars, faultVars
  <2>3. \A g \in Range(call[t].list) : covers[g] # Unused
    BY <2>1 DEF FencesOK, FenceKnown, WaitCalls
  <2>4. CASE fence[f].signaled
    <3>1. PICK label, d :
            label \in {"returned", "check"} /\ Goto(t, label, d) /\ d.list = call[t].list
      BY <1>10, <2>1, <2>4 DEF waitCheck, passFence, nextFence, Return, WaitCalls
    <3> QED
      BY <1>0, <2>2, <2>3, <3>1, FenceStep DEF SubmitLabels
  <2>5. CASE ~fence[f].signaled
    <3>1. Goto(t, "seqnoWait", c)
      BY <1>10, <2>5 DEF waitCheck
    <3>2. c.list = call[t].list /\ c.at = call[t].at /\ c.seqno = fence[f].seqno
      BY <2>1 DEF WaitCalls
    <3>3. fence[f].seqno = covers[f]
      BY <2>1, <2>3, <2>5 DEF FencesOK, FenceOK
    <3> HIDE DEF c
    <3> QED
      BY <1>0, <2>2, <2>3, <3>1, <3>2, <3>3, FenceStep DEF SubmitLabels
  <2> QED
    BY <2>4, <2>5
<1>11. ASSUME NEW t \in Threads, waitSeqno(t) PROVE FencesOK'
  <2>1. call[t] \in WaitCalls
    BY <1>11 DEF waitSeqno, CallsOK, CallOK, WaitLabels
  <2>2. UNCHANGED <<fence, covers, owner>> /\ submitFaults' = submitFaults
    BY <1>11 DEF waitSeqno, syncVars, faultVars, vc4_seqno_wait
  <2>3. \A g \in Range(call[t].list) : covers[g] # Unused
    BY <2>1 DEF FencesOK, FenceKnown, WaitCalls
  <2>4. PICK label, d :
          /\ label \in {"returned", "check", "signal"}
          /\ Goto(t, label, d) /\ d.list = call[t].list
    <3> DEFINE e == [call[t] EXCEPT !.timeout = "infinite"]
    <3>1. e.list = call[t].list /\ e \in WaitCalls
      BY <2>1 DEF WaitCalls
    <3>2. \/ Goto(t, "signal", call[t]) \/ Return(t, "VK_TIMEOUT") \/ nextFence(t, e)
      BY <1>11 DEF waitSeqno
    <3>3. ASSUME nextFence(t, e)
          PROVE  \E label, d :
                   label \in {"returned", "check"} /\ Goto(t, label, d) /\ d.list = e.list
      <4> HIDE DEF e
      <4> QED
        BY <3>1, <3>3 DEF nextFence, WaitCalls
    <3>4. ASSUME Return(t, "VK_TIMEOUT")
          PROVE  \E d : Goto(t, "returned", d) /\ d.list = call[t].list
      BY <2>1, <3>4 DEF Return, WaitCalls
    <3> HIDE DEF e
    <3> QED
      BY <3>1, <3>2, <3>3, <3>4
  <2> QED
    BY <1>0, <2>2, <2>3, <2>4, FenceStep DEF SubmitLabels
<1>12. ASSUME NEW t \in Threads, waitSignal(t) PROVE FencesOK'
  <2>1. call[t] \in WaitCalls /\ call[t].at \in DOMAIN call[t].list
    BY <1>12 DEF waitSignal, CallsOK, CallOK, WaitLabels, WaitCalls
  <2>2. PICK f \in Fences :
          /\ f \in Range(call[t].list)
          /\ fence' = [fence EXCEPT ![f] = [seqno |-> 0, signaled |-> TRUE]]
    <3> DEFINE f == call[t].list[call[t].at]
    <3>1. f \in Fences /\ f \in Range(call[t].list)
      BY <2>1 DEF WaitCalls, Range
    <3>2. fence' = [fence EXCEPT ![f] = [seqno |-> 0, signaled |-> TRUE]]
      BY <1>12 DEF waitSignal
    <3> HIDE DEF f
    <3> QED
      BY <3>1, <3>2
  <2>3. covers' = covers /\ UNCHANGED <<owner, submitFaults>>
    BY <1>12 DEF waitSignal, faultVars
  <2>4. \A g \in Range(call[t].list) : covers[g] # Unused
    BY <2>1 DEF FencesOK, FenceKnown, WaitCalls
  <2>5. PICK label, d :
          label \in {"returned", "check"} /\ Goto(t, label, d) /\ d.list = call[t].list
    BY <1>12, <2>1 DEF waitSignal, passFence, nextFence, Return, WaitCalls
  <2>6. /\ pc'[t] = label /\ call'[t] = d
        /\ \A u \in Threads \ {t} : pc'[u] = pc[u] /\ call'[u] = call[u]
    BY <1>0, <2>5 DEF Goto, QueueTypeOK, CallsOK
  <2>7. /\ fence' = [fence EXCEPT ![f] = fence'[f]] /\ fence'[f].signaled
        /\ covers' = [covers EXCEPT ![f] = covers'[f]] /\ covers'[f] = covers[f]
    BY <1>0, <2>2, <2>3 DEF FenceTypeOK, FencesOK
  <2>8. FenceOK(f)'
    BY <2>2, <2>4, <2>7 DEF FenceOK, FencesOK
  <2>9. ASSUME NEW u \in Threads \ {t} PROVE pc[u] \in SubmitLabels => call[u].fence # f
    BY <2>2, <2>4, GpuQueueAssumption DEF FencesOK, FenceKnown
  <2>10. FenceKnown(t)'
    BY <2>3, <2>4, <2>5, <2>6 DEF FenceKnown, SubmitLabels
  <2> QED
    BY <1>0, <2>3, <2>6, <2>7, <2>8, <2>9, <2>10, OtherFenceStep
<1>13. ASSUME NEW t \in Threads, idleCall(t) \/ idleWait(t) \/ goOn(t) PROVE FencesOK'
  <2>1. PICK label, c :
          label \in {"idleWait", "returned", "idle"} /\ Goto(t, label, c) /\ c.op # "wait"
    BY <1>13
    DEF idleCall, idleWait, goOn, Return, CallsOK, CallOK, IdleCalls, NoCall
  <2>2. /\ UNCHANGED <<fence, covers>> /\ submitFaults' = submitFaults
        /\ owner' \in {owner, t, None}
    BY <1>13 DEF idleCall, idleWait, goOn, syncVars, faultVars, vc4_seqno_wait
  <2> QED
    BY <1>0, <2>1, <2>2, FenceStep DEF SubmitLabels
<1> QED
  BY <1>1, <1>2, <1>3, <1>4, <1>5, <1>6, <1>7, <1>8, <1>9, <1>10, <1>11, <1>12, <1>13
  DEF Next, vkQueueSubmit, vkWaitForFences, vkQueueWaitIdle

-----------------------------------------------------------------------------
(* What is known to be finished, as long as no wait of the kernel failed.  *)
Done(f) == covers[f] \in 0 .. finished

AnswerKnown(t) ==
  /\ pc[t] = "signal" => Done(call[t].list[call[t].at])
  /\ pc[t] \in WaitLabels /\ call[t].all => \A i \in 1 .. call[t].at - 1 : Done(call[t].list[i])
  /\ Answered(t, "VK_SUCCESS") /\ call[t].timeout # "zero" =>
       IF call[t].all THEN \A f \in Range(call[t].list) : Done(f)
                      ELSE \E f \in Range(call[t].list) : Done(f)
  /\ pc[t] = "returned" /\ call[t].op = "idle" /\ call[t].known < call[t].seqno
       => finished >= call[t].seqno

AnswersOK ==
  waitFaults = 0 =>
    /\ \A f \in Fences : fence[f].signaled => Done(f)
    /\ \A t \in Threads : AnswerKnown(t)

LEMMA InitAnswers == Init => AnswersOK
  BY DEF Init, AnswersOK, AnswerKnown, Answered, Done, WaitLabels, Granted

LEMMA FinishedGrows ==
  IInv /\ [Next]_vars => finished' \in Nat /\ finished' >= finished
<1> SUFFICES ASSUME IInv, [Next]_vars PROVE finished' \in Nat /\ finished' >= finished
  OBVIOUS
<1>1. finished \in Nat
  BY DEF IInv, QueueTypeOK
<1>2. finished' = finished \/ finished' = finished + 1
  <2>1. CASE UNCHANGED vars
    BY <2>1 DEF vars, kernelVars
  <2>2. CASE gpuFinish
    BY <2>2 DEF gpuFinish
  <2>3. ASSUME NEW t \in Threads, vkQueueSubmit(t) PROVE finished' = finished
    BY <2>3
    DEF vkQueueSubmit, submitCall, submitSemWait, vc4_cl_submit, throttle, submitPost, submitFence,
        kernelVars
  <2>4. ASSUME NEW t \in Threads, vkWaitForFences(t) \/ vkQueueWaitIdle(t) PROVE finished' = finished
    BY <2>4
    DEF vkWaitForFences, vkQueueWaitIdle, waitCall, waitPoll, waitBlock, waitCheck, waitSeqno,
        waitSignal, idleCall, idleWait, kernelVars
  <2>5. ASSUME NEW t \in Threads, vkResetFences(t) \/ acquireSignal(t) \/ presentWait(t) \/ goOn(t)
        PROVE  finished' = finished
    BY <2>5 DEF vkResetFences, acquireSignal, presentWait, goOn, kernelVars
  <2> QED
    BY <2>1, <2>2, <2>3, <2>4, <2>5 DEF Next
<1> QED
  BY <1>1, <1>2

(* A fence that is waited for, or signaled and left so, stands for what it *)
(* stood for.                                                              *)
LEMMA DoneStays ==
  ASSUME CallsOK, FencesOK, IInv, [Next]_vars, NEW f \in Fences, Done(f), covers'[f] = covers[f]
  PROVE  Done(f)'
<1>1. finished \in Nat /\ finished' \in Nat /\ finished' >= finished
  BY FinishedGrows DEF IInv, QueueTypeOK
<1>2. covers[f] \in Int
  BY DEF FencesOK, FenceOK, Unused
<1> QED
  BY <1>1, <1>2 DEF Done

LEMMA WaitedCoversStay ==
  ASSUME CallsOK, FencesOK, IInv, [Next]_vars, NEW u \in Threads, call[u].op = "wait"
  PROVE  \A f \in Range(call[u].list) : f \in Fences /\ covers'[f] = covers[f]
<1>0. call[u] \in WaitCalls
  BY DEF CallsOK, CallOK, NoCall, SubmitCalls, IdleCalls
<1>1. \A f \in Range(call[u].list) : f \in Fences /\ covers[f] # Unused
  <2>1. \A f \in Range(call[u].list) : f \in Fences
    BY <1>0 DEF WaitCalls, Range
  <2>2. \A f \in Range(call[u].list) : covers[f] # Unused
    BY DEF FencesOK, FenceKnown
  <2> QED
    BY <2>1, <2>2
<1>2. CASE covers' = covers
  BY <1>1, <1>2
<1>3. ASSUME NEW t \in Threads, acquireSignal(t)
      PROVE  \A f \in Range(call[u].list) : covers'[f] = covers[f]
  <2>1. PICK g \in Fences \cup {None} :
          /\ g # None => covers[g] = Unused
          /\ covers' = IF g = None THEN covers ELSE [covers EXCEPT ![g] = Granted]
    BY <1>3 DEF acquireSignal
  <2> QED
    BY <1>1, <2>1 DEF FencesOK
<1>4. ASSUME NEW t \in Threads, vkResetFences(t)
      PROVE  \A f \in Range(call[u].list) : covers'[f] = covers[f]
  <2>1. PICK g \in Fences : ~inUse(g) /\ covers' = [covers EXCEPT ![g] = Unused]
    BY <1>4 DEF vkResetFences
  <2>2. g \notin Range(call[u].list)
    BY <2>1 DEF inUse
  <2> QED
    BY <1>1, <2>1, <2>2 DEF FencesOK
<1>5. ASSUME NEW t \in Threads, submitFence(t)
      PROVE  \A f \in Range(call[u].list) : covers'[f] = covers[f]
  <2>1. call[t].fence # None => covers[call[t].fence] = Unused
    BY <1>5 DEF submitFence, FencesOK, FenceKnown, SubmitLabels
  <2>2. covers' = covers \/ (call[t].fence # None /\ covers' = [covers EXCEPT ![call[t].fence] = lastEmitSeqno])
    BY <1>5 DEF submitFence
  <2> QED
    BY <1>1, <2>1, <2>2 DEF FencesOK
<1>6. \/ covers' = covers
      \/ \E t \in Threads : acquireSignal(t) \/ vkResetFences(t) \/ submitFence(t)
  <2>1. CASE UNCHANGED vars
    BY <2>1 DEF vars, syncVars
  <2>2. CASE gpuFinish
    BY <2>2 DEF gpuFinish, syncVars
  <2>3. ASSUME NEW t \in Threads, vkQueueSubmit(t) PROVE covers' = covers \/ submitFence(t)
    BY <2>3
    DEF vkQueueSubmit, submitCall, submitSemWait, vc4_cl_submit, throttle, submitPost, syncVars
  <2>4. ASSUME NEW t \in Threads, vkWaitForFences(t) \/ vkQueueWaitIdle(t) PROVE covers' = covers
    BY <2>4
    DEF vkWaitForFences, vkQueueWaitIdle, waitCall, waitPoll, waitBlock, waitCheck, waitSeqno,
        waitSignal, idleCall, idleWait, syncVars
  <2>5. ASSUME NEW t \in Threads, presentWait(t) \/ goOn(t) PROVE covers' = covers
    BY <2>5 DEF presentWait, goOn, syncVars
  <2> QED
    BY <2>1, <2>2, <2>3, <2>4, <2>5 DEF Next
<1> QED
  BY <1>1, <1>2, <1>3, <1>4, <1>5, <1>6

(* A thread that does not move knows what it knew.                         *)
LEMMA AnswerStays ==
  ASSUME CallsOK, FencesOK, IInv, [Next]_vars, NEW u \in Threads, AnswerKnown(u),
         pc'[u] = pc[u], call'[u] = call[u]
  PROVE  AnswerKnown(u)'
<1>1. /\ call[u].op = "wait" => call[u] \in WaitCalls
      /\ call[u].op = "idle" => call[u] \in IdleCalls
  BY DEF CallsOK, CallOK, NoCall, SubmitCalls, IdleCalls, WaitCalls
<1>2. /\ pc[u] \in WaitLabels => /\ call[u].op = "wait"
                                /\ call[u].at \in 1 .. Len(call[u].list)
      /\ pc[u] = "signal" => pc[u] \in WaitLabels
  BY DEF CallsOK, CallOK, WaitCalls, WaitLabels
<1>3. call[u].op = "wait" =>
        \A f \in Range(call[u].list) : Done(f) => Done(f)'
  BY WaitedCoversStay, DoneStays
<1>4. call[u].op = "wait" =>
        \A i \in 1 .. Len(call[u].list) : call[u].list[i] \in Range(call[u].list)
  BY <1>1 DEF WaitCalls, Range
<1>5. pc[u] = "signal" => Done(call[u].list[call[u].at])'
  BY <1>2, <1>3, <1>4 DEF AnswerKnown, Done
<1>6. pc[u] \in WaitLabels /\ call[u].all
        => \A i \in 1 .. call[u].at - 1 : Done(call[u].list[i])'
  BY <1>1, <1>2, <1>3, <1>4 DEF AnswerKnown, Done, WaitCalls
<1>7. Answered(u, "VK_SUCCESS") /\ call[u].timeout # "zero" =>
        IF call[u].all THEN \A f \in Range(call[u].list) : Done(f)'
                       ELSE \E f \in Range(call[u].list) : Done(f)'
  BY <1>3 DEF AnswerKnown, Answered
<1>8. pc[u] = "returned" /\ call[u].op = "idle" /\ call[u].known < call[u].seqno
        => finished' >= call[u].seqno
  BY <1>1, FinishedGrows DEF AnswerKnown, IInv, QueueTypeOK, IdleCalls
<1> QED
  BY <1>5, <1>6, <1>7, <1>8 DEF AnswerKnown, Answered, Done

LEMMA SignaledIsDone ==
  ASSUME CallsOK, FencesOK, AnswersOK, IInv, [Next]_vars, waitFaults = 0,
         NEW f \in Fences, fence'[f].signaled
  PROVE  Done(f)'
<1>0. /\ finished \in Nat /\ finished' \in Nat
      /\ FenceTypeOK /\ FenceOK(f)
  BY FinishedGrows DEF IInv, QueueTypeOK, CallsOK, FencesOK
<1>1. CASE fence'[f].signaled = fence[f].signaled /\ covers'[f] = covers[f]
  BY <1>1, DoneStays DEF AnswersOK
<1>2. ASSUME NEW t \in Threads, acquireSignal(t) PROVE Done(f)'
  <2>1. PICK g \in Fences \cup {None} :
          /\ fence' = IF g = None THEN fence ELSE [fence EXCEPT ![g].signaled = TRUE]
          /\ covers' = IF g = None THEN covers ELSE [covers EXCEPT ![g] = Granted]
    BY <1>2 DEF acquireSignal
  <2>2. CASE g = f
    BY <1>0, <2>1, <2>2, GpuQueueAssumption DEF FencesOK, Done, Granted
  <2>3. CASE g # f
    BY <1>0, <1>1, <2>1, <2>3 DEF FencesOK, FenceTypeOK
  <2> QED
    BY <2>2, <2>3
<1>3. ASSUME NEW t \in Threads, vkResetFences(t) PROVE Done(f)'
  <2>1. PICK g \in Fences : /\ fence' = [fence EXCEPT ![g] = [seqno |-> 0, signaled |-> FALSE]]
                            /\ covers' = [covers EXCEPT ![g] = Unused]
    BY <1>3 DEF vkResetFences
  <2> QED
    BY <1>0, <1>1, <2>1 DEF FencesOK, FenceTypeOK
<1>4. ASSUME NEW t \in Threads, submitFence(t) PROVE Done(f)'
  <2>1. PICK g :
          /\ g # None => covers[g] = Unused
          /\ fence' = IF g = None THEN fence ELSE [fence EXCEPT ![g].seqno = lastEmitSeqno]
          /\ covers' = IF g = None THEN covers ELSE [covers EXCEPT ![g] = lastEmitSeqno]
    BY <1>4 DEF submitFence, FencesOK, FenceKnown, SubmitLabels
  <2>2. fence'[f].signaled = fence[f].signaled
    BY <1>0, <2>1 DEF FenceTypeOK
  <2>3. CASE g = f
    BY <1>0, <2>1, <2>2, <2>3, GpuQueueAssumption DEF FenceOK
  <2>4. CASE g # f
    BY <1>1, <2>1, <2>2, <2>4 DEF FencesOK
  <2> QED
    BY <2>3, <2>4
<1>5. ASSUME NEW t \in Threads, waitSignal(t) PROVE Done(f)'
  <2>1. /\ Done(call[t].list[call[t].at]) /\ covers' = covers
        /\ fence' = [fence EXCEPT ![call[t].list[call[t].at]] = [seqno |-> 0, signaled |-> TRUE]]
    BY <1>5 DEF waitSignal, AnswersOK, AnswerKnown
  <2>2. CASE f = call[t].list[call[t].at]
    BY <2>1, <2>2, DoneStays
  <2>3. CASE f # call[t].list[call[t].at]
    BY <1>0, <1>1, <2>1, <2>3 DEF FenceTypeOK
  <2> QED
    BY <2>2, <2>3
<1>6. \/ fence' = fence /\ covers' = covers
      \/ \E t \in Threads : acquireSignal(t) \/ vkResetFences(t) \/ submitFence(t) \/ waitSignal(t)
  <2>1. CASE UNCHANGED vars
    BY <2>1 DEF vars, syncVars
  <2>2. CASE gpuFinish
    BY <2>2 DEF gpuFinish, syncVars
  <2>3. ASSUME NEW t \in Threads, vkQueueSubmit(t)
        PROVE  (fence' = fence /\ covers' = covers) \/ submitFence(t)
    BY <2>3
    DEF vkQueueSubmit, submitCall, submitSemWait, vc4_cl_submit, throttle, submitPost, syncVars
  <2>4. ASSUME NEW t \in Threads, vkWaitForFences(t) \/ vkQueueWaitIdle(t)
        PROVE  (fence' = fence /\ covers' = covers) \/ waitSignal(t)
    BY <2>4
    DEF vkWaitForFences, vkQueueWaitIdle, waitCall, waitPoll, waitBlock, waitCheck, waitSeqno,
        idleCall, idleWait, syncVars
  <2>5. ASSUME NEW t \in Threads, presentWait(t) \/ goOn(t) PROVE fence' = fence /\ covers' = covers
    BY <2>5 DEF presentWait, goOn, syncVars
  <2> QED
    BY <2>1, <2>2, <2>3, <2>4, <2>5 DEF Next
<1> QED
  BY <1>1, <1>2, <1>3, <1>4, <1>5, <1>6

LEMMA StepAnswers == AnswersOK /\ FencesOK /\ CallsOK /\ IInv /\ [Next]_vars => AnswersOK'
<1> SUFFICES ASSUME AnswersOK, FencesOK, CallsOK, IInv, [Next]_vars, waitFaults' = 0
             PROVE  /\ \A f \in Fences : fence'[f].signaled => Done(f)'
                    /\ \A u \in Threads : AnswerKnown(u)'
  BY DEF AnswersOK
<1> USE DEF WaitLabels
<1>0. QueueTypeOK /\ FenceTypeOK
  BY DEF IInv, CallsOK
<1>a. waitFaults = 0
  <2>1. waitFaults' = waitFaults \/ waitFaults' = waitFaults + 1
    <3>1. CASE UNCHANGED vars
      BY <3>1 DEF vars, faultVars
    <3>2. CASE gpuFinish
      BY <3>2 DEF gpuFinish, faultVars
    <3>3. ASSUME NEW t \in Threads, vkQueueSubmit(t)
          PROVE  waitFaults' = waitFaults \/ waitFaults' = waitFaults + 1
      BY <3>3
      DEF vkQueueSubmit, submitCall, submitSemWait, vc4_cl_submit, throttle, submitPost,
          submitFence, faultVars, vc4_seqno_wait
    <3>4. ASSUME NEW t \in Threads, vkWaitForFences(t) \/ vkQueueWaitIdle(t)
          PROVE  waitFaults' = waitFaults \/ waitFaults' = waitFaults + 1
      BY <3>4
      DEF vkWaitForFences, vkQueueWaitIdle, waitCall, waitPoll, waitBlock, waitCheck, waitSeqno,
          waitSignal, idleCall, idleWait, faultVars, vc4_seqno_wait
    <3>5. ASSUME NEW t \in Threads,
                 vkResetFences(t) \/ acquireSignal(t) \/ presentWait(t) \/ goOn(t)
          PROVE  waitFaults' = waitFaults
      BY <3>5 DEF vkResetFences, acquireSignal, presentWait, goOn, faultVars
    <3> QED
      BY <3>1, <3>2, <3>3, <3>4, <3>5 DEF Next
  <2> QED
    BY <1>0, <2>1 DEF QueueTypeOK
<1>b. \A f \in Fences : fence'[f].signaled => Done(f)'
  BY <1>a, SignaledIsDone
<1>c. /\ \A f \in Fences : fence[f].signaled => Done(f)
      /\ \A u \in Threads : AnswerKnown(u)
  BY <1>a DEF AnswersOK
<1>d. ASSUME NEW t \in Threads, NEW label, NEW c, Goto(t, label, c)
      PROVE  /\ pc'[t] = label /\ call'[t] = c
             /\ \A u \in Threads \ {t} : AnswerKnown(u)'
  <2>1. /\ pc'[t] = label /\ call'[t] = c
        /\ \A u \in Threads \ {t} : pc'[u] = pc[u] /\ call'[u] = call[u]
    BY <1>0, <1>d DEF Goto, QueueTypeOK, CallsOK
  <2> QED
    BY <1>c, <2>1, AnswerStays
<1> SUFFICES \A u \in Threads : AnswerKnown(u)'
  BY <1>b
<1>1. CASE pc' = pc /\ call' = call
  BY <1>c, <1>1, AnswerStays
<1>2. ASSUME NEW t \in Threads, NEW batches, NEW f, submitCall(t, batches, f)
      PROVE  \A u \in Threads : AnswerKnown(u)'
  <2>1. PICK c : Goto(t, "semWait", c)
    BY <1>2 DEF submitCall
  <2>2. AnswerKnown(t)'
    BY <1>d, <2>1 DEF AnswerKnown, Answered
  <2> QED
    BY <1>d, <2>1, <2>2
<1>3. ASSUME NEW t \in Threads,
             submitSemWait(t) \/ vc4_cl_submit(t) \/ throttle(t) \/ submitPost(t)
      PROVE  \A u \in Threads : AnswerKnown(u)'
  <2>1. PICK label, c :
          label \in SubmitLabels /\ Goto(t, label, c)
    BY <1>3 DEF submitSemWait, vc4_cl_submit, throttle, submitPost, nextJob, SubmitLabels
  <2>2. AnswerKnown(t)'
    BY <1>d, <2>1 DEF AnswerKnown, Answered, SubmitLabels
  <2> QED
    BY <1>d, <2>1, <2>2
<1>4. ASSUME NEW t \in Threads, submitFence(t) \/ goOn(t) \/ idleCall(t)
      PROVE  \A u \in Threads : AnswerKnown(u)'
  <2>1. submitFence(t) => call[t] \in SubmitCalls
    BY DEF submitFence, CallsOK, CallOK, SubmitLabels
  <2>2. PICK label, c :
          /\ label \in {"returned", "idle", "idleWait"}
          /\ Goto(t, label, c) /\ (label = "returned" => c.op = "submit")
    BY <1>4, <2>1 DEF submitFence, goOn, idleCall, Return, SubmitCalls
  <2>3. AnswerKnown(t)'
    BY <1>d, <2>2 DEF AnswerKnown, Answered
  <2> QED
    BY <1>d, <2>2, <2>3
<1>5. ASSUME NEW t \in Threads, idleWait(t) PROVE \A u \in Threads : AnswerKnown(u)'
  <2> DEFINE c == [call[t] EXCEPT !.result = "VK_SUCCESS"]
  <2>1. call[t] \in IdleCalls
    BY <1>5 DEF idleWait, CallsOK, CallOK
  <2>2. /\ Goto(t, "returned", c) /\ finished' = finished
        /\ call[t].known < call[t].seqno => finished >= call[t].seqno
    BY <1>0, <1>5, <1>a, <2>1
    DEF idleWait, Return, kernelVars, vc4_seqno_wait, IdleCalls, QueueTypeOK
  <2>3. c.op = "idle" /\ c.known = call[t].known /\ c.seqno = call[t].seqno
    BY <2>1 DEF IdleCalls
  <2> HIDE DEF c
  <2>4. AnswerKnown(t)'
    BY <1>d, <2>2, <2>3 DEF AnswerKnown, Answered
  <2> QED
    BY <1>d, <2>2, <2>4
<1>6. ASSUME NEW t \in Threads, waitCall(t) PROVE \A u \in Threads : AnswerKnown(u)'
  <2>1. PICK label, c :
          /\ label \in {"returned", "check"}
          /\ Goto(t, label, c) /\ c.op = "wait" /\ c.at = 1
          /\ label = "returned" => c.timeout = "zero"
    BY <1>6 DEF waitCall, waitPoll, waitBlock
  <2>2. AnswerKnown(t)'
    BY <1>d, <2>1 DEF AnswerKnown, Answered
  <2> QED
    BY <1>d, <2>1, <2>2
<1>7. ASSUME NEW t \in Threads, call[t] \in WaitCalls, call[t].at \in 1 .. Len(call[t].list)
      PROVE  /\ \A i \in 1 .. Len(call[t].list) :
                  /\ call[t].list[i] \in Range(call[t].list)
                  /\ Done(call[t].list[i]) => call[t].list[i] \in Fences
                       /\ covers'[call[t].list[i]] \in 0 .. finished'
             /\ Range(call[t].list) = {call[t].list[i] : i \in 1 .. Len(call[t].list)}
             /\ Len(call[t].list) \in Nat /\ call[t].op = "wait"
  <2>1. /\ \A i \in 1 .. Len(call[t].list) : call[t].list[i] \in Range(call[t].list)
        /\ Range(call[t].list) = {call[t].list[i] : i \in 1 .. Len(call[t].list)}
        /\ Len(call[t].list) \in Nat /\ call[t].op = "wait"
    BY <1>7 DEF WaitCalls, Range
  <2>2. \A f \in Range(call[t].list) : f \in Fences /\ (Done(f) => Done(f)')
    BY <2>1, WaitedCoversStay, DoneStays
  <2> QED
    BY <2>1, <2>2 DEF Done
<1>8. ASSUME NEW t \in Threads, call[t] \in WaitCalls, call[t].at \in 1 .. Len(call[t].list),
             Done(call[t].list[call[t].at]), passFence(t),
             call[t].all => \A i \in 1 .. call[t].at - 1 : Done(call[t].list[i])
      PROVE  \A u \in Threads : AnswerKnown(u)'
  <2> DEFINE list == call[t].list
  <2>1. /\ \A i \in 1 .. Len(list) : Done(list[i]) => covers'[list[i]] \in 0 .. finished'
        /\ Range(list) = {list[i] : i \in 1 .. Len(list)} /\ Len(list) \in Nat
        /\ call[t].op = "wait"
    BY <1>7, <1>8
  <2>2. CASE ~call[t].all
    <3> DEFINE c == [call[t] EXCEPT !.result = "VK_SUCCESS"]
    <3>1. Goto(t, "returned", c)
      BY <1>8, <2>2 DEF passFence, Return
    <3>2. c.op = "wait" /\ ~c.all /\ c.list = list
      BY <1>8, <2>2 DEF WaitCalls
    <3>3. \E f \in Range(list) : covers'[f] \in 0 .. finished'
      BY <1>8, <2>1
    <3> HIDE DEF c
    <3>4. AnswerKnown(t)'
      BY <1>d, <3>1, <3>2, <3>3 DEF AnswerKnown, Answered, Done
    <3> QED
      BY <1>d, <3>1, <3>4
  <2>3. CASE call[t].all /\ call[t].at < Len(list)
    <3> DEFINE c == [call[t] EXCEPT !.at = @ + 1]
    <3>1. Goto(t, "check", c)
      BY <1>8, <2>3 DEF passFence, nextFence
    <3>2. c.op = "wait" /\ c.list = list /\ c.at = call[t].at + 1
      BY <1>8 DEF WaitCalls
    <3>3. \A i \in 1 .. c.at - 1 : covers'[list[i]] \in 0 .. finished'
      BY <1>8, <2>1, <2>3, <3>2
    <3> HIDE DEF c
    <3>4. AnswerKnown(t)'
      BY <1>d, <3>1, <3>2, <3>3 DEF AnswerKnown, Answered, Done
    <3> QED
      BY <1>d, <3>1, <3>4
  <2>4. CASE call[t].all /\ ~(call[t].at < Len(list))
    <3> DEFINE c == [call[t] EXCEPT !.result = "VK_SUCCESS"]
    <3>1. Goto(t, "returned", c)
      BY <1>8, <2>4 DEF passFence, nextFence
    <3>2. c.op = "wait" /\ c.list = list /\ c.all
      BY <1>8, <2>4 DEF WaitCalls
    <3>3. \A f \in Range(list) : covers'[f] \in 0 .. finished'
      <4>1. call[t].at = Len(list)
        BY <1>8, <2>1, <2>4
      <4>2. \A i \in 1 .. Len(list) : Done(list[i])
        BY <1>8, <2>1, <2>4, <4>1
      <4> QED
        BY <2>1, <4>2
    <3> HIDE DEF c
    <3>4. AnswerKnown(t)'
      BY <1>d, <3>1, <3>2, <3>3 DEF AnswerKnown, Answered, Done
    <3> QED
      BY <1>d, <3>1, <3>4
  <2> QED
    BY <2>2, <2>3, <2>4
<1>9. ASSUME NEW t \in Threads, waitCheck(t) PROVE \A u \in Threads : AnswerKnown(u)'
  <2> DEFINE f == call[t].list[call[t].at]
             c == [call[t] EXCEPT !.seqno = fence[f].seqno]
  <2>1. /\ call[t] \in WaitCalls /\ call[t].at \in 1 .. Len(call[t].list) /\ f \in Fences
        /\ call[t].all => \A i \in 1 .. call[t].at - 1 : Done(call[t].list[i])
    <3>1. /\ pc[t] = "check" /\ call[t] \in WaitCalls
          /\ call[t].at \in 1 .. Len(call[t].list)
      BY <1>9 DEF waitCheck, CallsOK, CallOK
    <3> QED
      BY <1>c, <3>1 DEF AnswerKnown, WaitCalls
  <2>2. CASE fence[f].signaled
    <3>1. passFence(t) /\ Done(f)
      BY <1>9, <1>c, <2>1, <2>2 DEF waitCheck
    <3> QED
      BY <1>8, <2>1, <3>1
  <2>3. CASE ~fence[f].signaled
    <3>1. Goto(t, "seqnoWait", c)
      BY <1>9, <2>3 DEF waitCheck
    <3>2. c.list = call[t].list /\ c.at = call[t].at /\ c.all = call[t].all
      BY <2>1 DEF WaitCalls
    <3>3. call[t].all => \A i \in 1 .. call[t].at - 1 : covers'[call[t].list[i]] \in 0 .. finished'
      BY <1>7, <2>1 DEF WaitCalls
    <3> HIDE DEF c
    <3>4. AnswerKnown(t)'
      BY <1>d, <3>1, <3>2, <3>3 DEF AnswerKnown, Answered, Done
    <3> QED
      BY <1>d, <3>1, <3>4
  <2> QED
    BY <2>2, <2>3
<1>10. ASSUME NEW t \in Threads, waitSeqno(t) PROVE \A u \in Threads : AnswerKnown(u)'
  <2> DEFINE f == call[t].list[call[t].at]
             e == [call[t] EXCEPT !.timeout = "infinite"]
  <2>1. /\ call[t] \in WaitCalls /\ call[t].at \in 1 .. Len(call[t].list)
        /\ pc[t] = "seqnoWait" /\ f \in Fences
    BY <1>10 DEF waitSeqno, CallsOK, CallOK, WaitCalls
  <2>2. /\ call[t].all => \A i \in 1 .. call[t].at - 1 : covers'[call[t].list[i]] \in 0 .. finished'
        /\ call[t].seqno = covers[f] /\ covers[f] \in Nat
    <3>1. call[t].all => \A i \in 1 .. call[t].at - 1 : Done(call[t].list[i])
      BY <1>c, <2>1 DEF AnswerKnown
    <3>2. call[t].seqno = covers[f] /\ covers[f] \in Nat \cup {Unused} /\ call[t].seqno \in Nat
      BY <2>1 DEF FencesOK, FenceOK, FenceKnown, WaitCalls
    <3> QED
      BY <1>7, <2>1, <3>1, <3>2 DEF WaitCalls, Unused
  <2>3. CASE Goto(t, "signal", call[t]) /\ finished >= call[t].seqno
    <3>1. Done(f)
      BY <1>0, <2>2, <2>3 DEF Done, QueueTypeOK
    <3>2. covers'[f] \in 0 .. finished'
      BY <1>7, <2>1, <3>1
    <3>3. AnswerKnown(t)'
      BY <1>d, <2>2, <2>3, <3>2 DEF AnswerKnown, Answered, Done
    <3> QED
      BY <1>d, <2>3, <3>3
  <2>4. CASE Return(t, "VK_TIMEOUT")
    <3> DEFINE c == [call[t] EXCEPT !.result = "VK_TIMEOUT"]
    <3>1. Goto(t, "returned", c) /\ c.result = "VK_TIMEOUT" /\ c.op = "wait"
      BY <2>1, <2>4 DEF Return, WaitCalls
    <3> HIDE DEF c
    <3>2. AnswerKnown(t)'
      BY <1>d, <3>1 DEF AnswerKnown, Answered
    <3> QED
      BY <1>d, <3>1, <3>2
  <2>5. CASE ~call[t].all /\ nextFence(t, e)
    <3>1. e \in WaitCalls /\ ~e.all
      BY <2>1, <2>5 DEF WaitCalls
    <3> HIDE DEF e
    <3>2. PICK label, c :
            /\ label \in {"check", "returned"}
            /\ Goto(t, label, c) /\ ~c.all /\ c.op = "wait"
            /\ label = "returned" => c.result = "VK_TIMEOUT"
      BY <2>5, <3>1 DEF nextFence, WaitCalls
    <3>3. AnswerKnown(t)'
      BY <1>d, <3>2 DEF AnswerKnown, Answered
    <3> QED
      BY <1>d, <3>2, <3>3
  <2>6. \/ Goto(t, "signal", call[t]) /\ finished >= call[t].seqno
        \/ Return(t, "VK_TIMEOUT")
        \/ ~call[t].all /\ nextFence(t, e)
    <3>1. PICK ret \in {-1, 0, 1} :
            /\ vc4_seqno_wait(0, call[t].seqno, call[t].timeout, ret)
            /\ \/ ret >= 0 /\ Goto(t, "signal", call[t])
               \/ ret < 0 /\ call[t].all /\ Return(t, "VK_TIMEOUT")
               \/ ret < 0 /\ ~call[t].all /\ nextFence(t, e)
      BY <1>10 DEF waitSeqno
    <3>2. ret # 0
      BY <1>a, <3>1 DEF vc4_seqno_wait
    <3>3. ret = 1 => finished >= call[t].seqno
      BY <1>0, <2>2, <3>1 DEF vc4_seqno_wait, QueueTypeOK
    <3> QED
      BY <3>1, <3>2, <3>3
  <2> QED
    BY <2>3, <2>4, <2>5, <2>6
<1>11. ASSUME NEW t \in Threads, waitSignal(t) PROVE \A u \in Threads : AnswerKnown(u)'
  <2>1. /\ call[t] \in WaitCalls /\ call[t].at \in 1 .. Len(call[t].list)
        /\ pc[t] = "signal" /\ passFence(t)
    BY <1>11 DEF waitSignal, CallsOK, CallOK
  <2>2. /\ Done(call[t].list[call[t].at])
        /\ call[t].all => \A i \in 1 .. call[t].at - 1 : Done(call[t].list[i])
    BY <1>c, <2>1 DEF AnswerKnown
  <2> QED
    BY <1>8, <2>1, <2>2
<1>12. \/ pc' = pc /\ call' = call
       \/ \E t \in Threads :
            vkQueueSubmit(t) \/ vkWaitForFences(t) \/ vkQueueWaitIdle(t) \/ goOn(t)
  <2>1. ASSUME NEW t \in Threads, vkResetFences(t) \/ acquireSignal(t) \/ presentWait(t)
        PROVE  pc' = pc /\ call' = call
    BY <2>1 DEF vkResetFences, acquireSignal, presentWait
  <2> QED
    BY <2>1 DEF Next, vars, gpuFinish
<1> QED
  BY <1>1, <1>2, <1>3, <1>4, <1>5, <1>6, <1>9, <1>10, <1>11, <1>12
  DEF vkQueueSubmit, vkWaitForFences, vkQueueWaitIdle

(* Everything together: the layers hold in every reachable state.          *)
THEOREM FencesInvariance ==
  Spec => [](IInv /\ CallsOK /\ SemaphoresOK /\ FencesOK /\ AnswersOK)
<1> DEFINE Layers == IInv /\ CallsOK /\ SemaphoresOK /\ FencesOK /\ AnswersOK
<1>1. Init => Layers
  BY InitEstablishes, InitCalls, InitSemaphores, InitFences, InitAnswers
<1>2. Layers /\ [Next]_vars => Layers'
  BY StepPreserves, StepCalls, StepSemaphores, StepFences, StepAnswers
<1> QED
  BY <1>1, <1>2, PTL DEF Spec

(* Whatever is told, the state keeps its types: in particular a semaphore  *)
(* is never posted twice (command.c:328-331, 753-756).                     *)
THEOREM TypesStay == Spec => []TypeOK
<1>1. IInv /\ CallsOK /\ SemaphoresOK /\ FencesOK => TypeOK
  BY DEF IInv, QueueTypeOK, CallsOK, FenceTypeOK, SemaphoresOK, FencesOK, FenceOK, TypeOK
<1> QED
  BY <1>1, FencesInvariance, PTL

(* As long as the kernel failed no wait, a fence that is polled, a wait    *)
(* for fences and a wait for the queue tell the truth, whatever the        *)
(* threads, the submits that fail and the GPU do (sync.c:211-477).  A      *)
(* failing wait counts as done in the code, so after one nothing is known. *)
THEOREM AnswersStayTrue == Spec => [](waitFaults = 0 => AnswersMeanFinished)
<1>1. IInv /\ CallsOK /\ SemaphoresOK /\ FencesOK => TypeOK
  BY DEF IInv, QueueTypeOK, CallsOK, FenceTypeOK, SemaphoresOK, FencesOK, FenceOK, TypeOK
<1>2. AnswersOK /\ waitFaults = 0 => FenceMeansFinished /\ SuccessMeansFinished /\ IdleMeansFinished
  <2> SUFFICES ASSUME AnswersOK, waitFaults = 0
               PROVE  FenceMeansFinished /\ SuccessMeansFinished /\ IdleMeansFinished
    OBVIOUS
  <2>1. FenceMeansFinished
    BY DEF AnswersOK, FenceMeansFinished, vkGetFenceStatus, Done
  <2>2. SuccessMeansFinished
    BY DEF AnswersOK, AnswerKnown, SuccessMeansFinished, Done
  <2>3. IdleMeansFinished
    BY DEF AnswersOK, AnswerKnown, IdleMeansFinished
  <2> QED
    BY <2>1, <2>2, <2>3
<1>3. IInv /\ CallsOK /\ SemaphoresOK /\ FencesOK /\ AnswersOK
        => (waitFaults = 0 => AnswersMeanFinished)
  BY <1>1, <1>2 DEF AnswersMeanFinished
<1> QED
  BY <1>3, FencesInvariance, PTL
=============================================================================
