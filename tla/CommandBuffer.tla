---------------------------- MODULE CommandBuffer ----------------------------
(***************************************************************************)
(* One primary command buffer (driver/command.c) and the control lists it  *)
(* records into (driver/ControlListUtil.c).  A marker in the bin list      *)
(* opens each job of the GPU: a render pass or a clear.  The marker says   *)
(* where the job's slice of the handle list and of the shader records      *)
(* starts, and, once it is closed, where they end.  A submit sends one job *)
(* per marker.                                                             *)
(*                                                                         *)
(* Lists grow without moving here: offsets in markers are relative to the  *)
(* list, and ConsecutivePool models growing.                               *)
(***************************************************************************)
EXTENDS Integers, SequencesExt, TLC

CONSTANTS
  Images,                       \* render targets, each with its buffer object
  Buffers,                      \* other buffer objects draws refer to
  MaxPasses, MaxDraws,          \* bounds: jobs and draws in the lists
  MaxHandles                    \* bound: handles when a submit starts
ASSUME HandlesAssumption == Images \cap Buffers = {}

Handle == Images \cup Buffers
ImageSymmetry == Permutations(Images)
States == {"INITIAL", "RECORDING", "EXECUTABLE", "INVALID"}

VARIABLES
  state,                        \* state; PENDING never outlives a submit
  resetAble,                    \* cp->resetAble
  oneTime,                      \* usageFlags has ONE_TIME_SUBMIT
  bin,                          \* commands in binCl behind the last marker
  markers,                      \* the chain of markers in binCl
  handles,                      \* handlesCl
  recs,                         \* shaderRecCl: the buffer each record reads
  shaderRecCount,               \* cb->shaderRecCount
  inPass,                       \* the application is inside a render pass
  recorded,                     \* history: jobs recorded since vkBegin
  sent,                         \* jobs of the last vkQueueSubmit
  stale                         \* history: vkBegin kept earlier jobs

lists == <<bin, markers, handles, recs, shaderRecCount>>
vars == <<state, resetAble, oneTime, lists, inPass, recorded, sent, stale>>

Marker(target, ms, hOff, rOff, count) ==
  [target |-> target, ms |-> ms, size |-> 0, count |-> count,
   hOff |-> hOff, hSize |-> 0, rOff |-> rOff, rSize |-> 0]
Job(target, ms) == [target |-> target, ms |-> ms, draws |-> <<>>]

slice(list, from, len) == SubSeq(list, from + 1, from + len)

-----------------------------------------------------------------------------
(* Bug: the handles of earlier jobs are counted as well. *)
closedFromStart(ms) ==
  LET m == Last(ms) IN
  [ms EXCEPT ![Len(ms)] =
    [m EXCEPT !.size = bin,
              !.hSize = Len(handles),
              !.rSize = Len(recs) - m.rOff,
              !.count = shaderRecCount - m.count]]

(* Bug: the records of all earlier jobs are taken off. *)
closedTakesTwice(ms) ==
  LET m == Last(ms) IN
  [ms EXCEPT ![Len(ms)] =
    [m EXCEPT !.size = bin,
              !.hSize = Len(handles) - m.hOff,
              !.rSize = Len(recs) - m.rOff,
              !.count = shaderRecCount - m.rOff - m.count]]

(* clCloseCurrentMarker on the chain ms of markers: sizes are what the     *)
(* lists hold beyond the marker's offsets.                                 *)
closed(ms) ==
  LET m == Last(ms) IN
  [ms EXCEPT ![Len(ms)] =
    [m EXCEPT !.size = bin,
              !.hSize = Len(handles) - m.hOff,
              !.rSize = Len(recs) - m.rOff,
              !.count = shaderRecCount - m.count]]

closeIfOpen(ms) ==
  IF ms # <<>> /\ Last(ms).size = 0 THEN closed(ms) ELSE ms

(* Bug: the new job starts at the beginning of the lists. *)
newMarkerAtStart(target, multi) ==
  markers' = Append(closeIfOpen(markers), Marker(target, multi, 0, 0, 0))

(* clInsertNewCLMarker: the new job starts where the previous one ends.    *)
clInsertNewCLMarker(target, multi) ==
  LET ms == closeIfOpen(markers)
      m  == IF ms = <<>> THEN Marker(target, multi, 0, 0, 0)
            ELSE Marker(target, multi, Last(ms).hOff + Last(ms).hSize,
                        Last(ms).rOff + Last(ms).rSize, Last(ms).count)
  IN  markers' = Append(ms, m)

(* Bug: a handle that is anywhere in the list is not added again. *)
withHandleAnywhere(hs, m, bo) == IF Contains(hs, bo) THEN hs ELSE Append(hs, bo)

(* clGetHandleIndex looks in the slice of an open (size 0) or closed       *)
(* marker; positions count from 0.                                         *)
searched(hs, off, size) == slice(hs, off, IF size # 0 THEN size ELSE Len(hs) - off)
holds(hs, m, bo) == \E i \in DOMAIN searched(hs, m.hOff, m.hSize) :
                      searched(hs, m.hOff, m.hSize)[i] = bo

withHandle(hs, m, bo) == IF holds(hs, m, bo) THEN hs ELSE Append(hs, bo)

handleIndex(hs, m, bo) ==
  IF holds(hs, m, bo)
  THEN SelectInSeq(searched(hs, m.hOff, m.hSize), LAMBDA h : h = bo) - 1
  ELSE Len(searched(hs, m.hOff, m.hSize))

-----------------------------------------------------------------------------
emptyLists ==
  /\ bin' = 0 /\ markers' = <<>> /\ handles' = <<>> /\ recs' = <<>>
  /\ shaderRecCount' = 0

(* vkResetCommandBuffer; the application calls it on resetable pools.      *)
vkResetCommandBuffer ==
  /\ resetAble
  /\ state' = IF state \in {"RECORDING", "EXECUTABLE"} THEN "INVALID" ELSE "INITIAL"
  /\ emptyLists
  /\ inPass' = FALSE
  /\ recorded' = <<>> /\ sent' = <<>> /\ stale' = FALSE
  /\ UNCHANGED <<resetAble, oneTime>>

(* Bug: a used buffer is not reset. *)
beginKeepsLists ==
  /\ \/ state = "INITIAL"
     \/ state \in {"INVALID", "EXECUTABLE"} /\ resetAble
  /\ oneTime' \in BOOLEAN
  /\ state' = "RECORDING"
  /\ recorded' = <<>> /\ sent' = <<>>
  /\ stale' = (state = "INITIAL" /\ markers # <<>>)
  /\ UNCHANGED <<lists, inPass, resetAble>>

(* vkBeginCommandBuffer resets a used buffer of a resetable pool.          *)
vkBeginCommandBuffer ==
  /\ \/ state = "INITIAL"
     \/ state \in {"INVALID", "EXECUTABLE"} /\ resetAble
  /\ oneTime' \in BOOLEAN
  /\ state' = "RECORDING"
  /\ recorded' = <<>> /\ sent' = <<>>
  /\ IF state # "INITIAL"
     THEN emptyLists /\ inPass' = FALSE /\ stale' = FALSE
     ELSE stale' = (markers # <<>>) /\ UNCHANGED <<lists, inPass>>
  /\ UNCHANGED resetAble

(* vkCmdBeginRenderPass: a marker, the target's handle, binning set up.    *)
vkCmdBeginRenderPass(target, multi) ==
  /\ state = "RECORDING" /\ ~ inPass /\ Len(markers) < MaxPasses
  /\ clInsertNewCLMarker(target, multi)
  /\ handles' = withHandle(handles, Last(markers'), target)
  /\ bin' = 1
  /\ inPass' = TRUE
  /\ recorded' = Append(recorded, Job(target, multi))
  /\ UNCHANGED <<state, resetAble, oneTime, recs, shaderRecCount, sent, stale>>

(* drawCommon: one more shader record, and the handle of the buffer it     *)
(* reads.                                                                  *)
drawCommon(buffer) ==
  /\ shaderRecCount' = shaderRecCount + 1
  /\ recs' = Append(recs, buffer)
  /\ handles' = withHandle(handles, Last(markers), buffer)

vkCmdDraw(buffer) ==
  /\ state = "RECORDING" /\ inPass /\ Len(recs) < MaxDraws
  /\ drawCommon(buffer)
  /\ bin' = bin + 1
  /\ recorded' = [recorded EXCEPT ![Len(recorded)].draws = Append(@, buffer)]
  /\ UNCHANGED <<state, resetAble, oneTime, markers, inPass, sent, stale>>

vkCmdEndRenderPass ==
  /\ state = "RECORDING" /\ inPass
  /\ bin' = bin + 1
  /\ inPass' = FALSE
  /\ UNCHANGED <<state, resetAble, oneTime, markers, handles, recs, shaderRecCount,
                 recorded, sent, stale>>

(* vkCmdClearColorImage: a job without draws. *)
vkCmdClearColorImage(target) ==
  /\ state = "RECORDING" /\ ~ inPass /\ Len(markers) < MaxPasses
  /\ clInsertNewCLMarker(target, FALSE)
  /\ handles' = withHandle(handles, Last(markers'), target)
  /\ bin' = 2
  /\ recorded' = Append(recorded, Job(target, FALSE))
  /\ UNCHANGED <<state, resetAble, oneTime, recs, shaderRecCount, inPass, sent, stale>>

vkEndCommandBuffer ==
  /\ state = "RECORDING" /\ ~ inPass
  /\ state' = "EXECUTABLE"
  /\ UNCHANGED <<resetAble, oneTime, lists, inPass, recorded, sent, stale>>

(* vkResetCommandPool sets the state of the buffer and nothing else.       *)
vkResetCommandPool ==
  /\ state' = "INITIAL"
  /\ inPass' = FALSE
  /\ recorded' = <<>> /\ sent' = <<>>
  /\ UNCHANGED <<resetAble, oneTime, lists, stale>>

-----------------------------------------------------------------------------
(* What the kernel is told about the job of marker m: the surface it       *)
(* writes, and the job's slices of the lists.                              *)
SentJob(hs, m, index) ==
  [target |-> m.target, ms |-> m.ms, index |-> index, count |-> m.count,
   handles |-> slice(hs, m.hOff, m.hSize), draws |-> slice(recs, m.rOff, m.rSize)]

(* Handles after the targets of the first n markers are looked up.  The    *)
(* lookup of a multisampled target has its offset and size swapped         *)
(* (command.c:389): it searches other lists of the pool, and if the value  *)
(* is not there by chance it appends the handle.                           *)
lookedUpAt(hs, i, strays) ==
  CASE ~ markers[i].ms -> withHandle(hs, markers[i], markers[i].target)
    [] markers[i].ms /\ i \in strays -> hs
    [] OTHER -> Append(hs, markers[i].target)

lookedUp(strays) ==
  LET after[n \in 0 .. Len(markers)] ==
        IF n = 0 THEN handles ELSE lookedUpAt(after[n - 1], n, strays)
  IN  after[Len(markers)]

(* vkQueueSubmit closes the last marker if it is open and walks the chain. *)
(* The set strays holds the jobs whose swapped lookup found the value.     *)
vkQueueSubmit ==
  /\ state = "EXECUTABLE" /\ Len(handles) <= MaxHandles
  /\ \E strays \in SUBSET {i \in DOMAIN markers : markers[i].ms} :
       LET hs == lookedUp(strays)
           lm == Last(markers)
           ms == IF markers = <<>> \/ lm.size # 0 THEN markers
                 ELSE [closed(markers) EXCEPT ![Len(markers)].hSize = Len(hs) - lm.hOff]
       IN  /\ handles' = hs
           /\ markers' = ms
           /\ sent' = [i \in DOMAIN ms |->
                SentJob(hs, ms[i],
                        IF ms[i].ms THEN MaxHandles
                        ELSE handleIndex(hs, markers[i], ms[i].target))]
  /\ state' = IF oneTime THEN "INVALID" ELSE "EXECUTABLE"
  /\ UNCHANGED <<resetAble, oneTime, bin, recs, shaderRecCount, inPass, recorded, stale>>

Init ==
  /\ state = "INITIAL" /\ resetAble \in BOOLEAN /\ oneTime = FALSE
  /\ bin = 0 /\ markers = <<>> /\ handles = <<>> /\ recs = <<>>
  /\ shaderRecCount = 0 /\ inPass = FALSE
  /\ recorded = <<>> /\ sent = <<>> /\ stale = FALSE

Next ==
  \/ vkBeginCommandBuffer \/ vkEndCommandBuffer \/ vkResetCommandBuffer
  \/ vkResetCommandPool \/ vkQueueSubmit \/ vkCmdEndRenderPass
  \/ \E i \in Images, multi \in BOOLEAN : vkCmdBeginRenderPass(i, multi)
  \/ \E b \in Buffers : vkCmdDraw(b)
  \/ \E i \in Images : vkCmdClearColorImage(i)

Spec == Init /\ [][Next]_vars

-----------------------------------------------------------------------------
TypeOK ==
  /\ state \in States /\ resetAble \in BOOLEAN /\ oneTime \in BOOLEAN
  /\ bin \in Nat /\ shaderRecCount \in Nat
  /\ handles \in Seq(Handle) /\ recs \in Seq(Buffers)
  /\ \A i \in DOMAIN markers :
       /\ markers[i].target \in Images
       /\ markers[i].hOff + markers[i].hSize \in 0 .. Len(handles)
       /\ markers[i].rOff + markers[i].rSize \in 0 .. Len(recs)
  /\ inPass \in BOOLEAN /\ stale \in BOOLEAN

(* What the kernel gets for a job is what was recorded for it: the target, *)
(* the job's own draws, and a handle for every buffer object they use.     *)
sentAs(s, job) ==
  /\ s.target = job.target /\ s.ms = job.ms /\ s.draws = job.draws
  /\ {job.target} \cup ToSet(job.draws) \subseteq ToSet(s.handles)

(* However jobs were recorded, closed by the next job or by an earlier     *)
(* submit, and submitted before, a submit ends with the jobs recorded      *)
(* since vkBeginCommandBuffer, each with its own draws and handles         *)
(* (ControlListUtil.c:45-100, command.c:352-733).                          *)
RecordedJobsSent ==
  sent # <<>> =>
    /\ Len(sent) >= Len(recorded)
    /\ \A i \in DOMAIN recorded :
         sentAs(sent[Len(sent) - Len(recorded) + i], recorded[i])

(* Beginning a used command buffer forgets its earlier jobs                *)
(* (command.c:251-255, 936-957), but for one made initial by               *)
(* vkResetCommandPool, which leaves the lists alone (command.c:886-891).   *)
NothingElseSent == sent # <<>> /\ ~ stale => Len(sent) = Len(recorded)

(* A submit sends what was recorded, all of it and nothing else, and every *)
(* variable keeps its type (command.c:251-733, ControlListUtil.c:45-100).  *)
SentIsRecorded == TypeOK /\ RecordedJobsSent /\ NothingElseSent

(* The index a job names its target by is the target's place among the     *)
(* job's own handles, also when the same image is the target of several    *)
(* jobs; not claimed of multisampled targets (command.c:389).              *)
IndexNamesTarget ==
  \A i \in DOMAIN sent :
    ~ sent[i].ms => /\ sent[i].index < Len(sent[i].handles)
                    /\ sent[i].handles[sent[i].index + 1] = sent[i].target

(* The kernel is told of at least as many shader records as the job has,   *)
(* or it would refuse the job.  It may be told of more: from the third job *)
(* on the count taken over from the marker before (ControlListUtil.c:75)   *)
(* is not the count of all earlier jobs.                                   *)
CountCoversRecords ==
  \A i \in DOMAIN sent : sent[i].count >= Len(sent[i].draws)

(* What a job names, by index or by count, is there (command.c:380-391,    *)
(* 586-589).                                                               *)
NamesAreThere == IndexNamesTarget /\ CountCoversRecords
=============================================================================
