------------------------------- MODULE Queries -------------------------------
(***************************************************************************)
(* Performance queries (driver/query.c): counters are counted by monitors  *)
(* of the kernel that hold only a few each, so a query has several, and    *)
(* its command buffer is submitted once for each.  Which one counts a job  *)
(* is known from the marker of the job and the index of the pass.          *)
(*                                                                         *)
(* A monitor counts the jobs it is submitted with, from its creation on;   *)
(* reading it does not wait for them, so results are asked for when the    *)
(* queue is idle (kernelInterface.c:625-633).                              *)
(***************************************************************************)
EXTENDS Integers, SequencesExt, FiniteSetsExt

CONSTANTS
  NumEvents,                    \* VC4_PERFCNT_NUM_EVENTS, 30 in the driver
  PerMonitor,                   \* DRM_VC4_MAX_PERF_COUNTERS, 16
  Selections,                   \* sequences of events the application asks for
  Uninitialised, Refused,       \* memory as malloc gave it; the id 0
  None,                         \* no pool, no query, nothing counted
  MaxJobs                       \* bound: render passes recorded, and counted jobs of a query

VARIABLES
  pool,                         \* None, or the counters of every query of the pool
  perfmonIDs,                   \* of each query: which of its monitors it knows
  monitors,                     \* of the kernel: events counted, and how many jobs
  perfmonID,                    \* of the command buffer: the query begun, or None
  inPass,
  markers,                      \* of the recorded jobs: the query each is counted for, or None
  active,                       \* history: the query the application has begun and not ended
  wanted,                       \* history: the query active when each job was recorded
  ran,                          \* history: jobs that should be counted, by query and pass
  spoiled                       \* history: queries whose counts are not their own any longer
vars == <<pool, perfmonIDs, monitors, perfmonID, inPass, markers, active, wanted, ran, spoiled>>

Queries == {0, 1}               \* a pool of two
Passes == {0, 1}                \* perfmonIDs has room for two

Monitors(counters) == (Len(counters) + PerMonitor - 1) \div PerMonitor
(* vkGetPhysicalDeviceQueueFamilyPerformanceQueryPassesKHR *)
numPasses(counters) == Len(counters) \div PerMonitor + 1

(* enabledCounters[i]: behind the array lies counterValues, zero by then.  *)
enabledCounter(counters, i) ==
  IF i < Len(counters) THEN counters[i + 1] ELSE IF i < NumEvents THEN Uninitialised ELSE 0

(* Bug: every monitor starts with the first counter. *)
EventsOfFirst(counters, d) ==
  [k \in 0 .. Min({Len(counters), PerMonitor}) - 1 |-> enabledCounter(counters, k)]

(* The events monitor d is created with: as many as a monitor has when the *)
(* query needs two, also for the second one.                               *)
EventsOf(counters, d) ==
  [k \in 0 .. Min({Len(counters), PerMonitor}) - 1 |-> enabledCounter(counters, d * PerMonitor + k)]

(* vc4_create_perfmon.  An event that was never written may be none.       *)
vc4_create_perfmon(events, id) ==
  IF Uninitialised \in {events[k] : k \in DOMAIN events} THEN {id, Refused} ELSE {id}

vkCreateQueryPool(counters) ==
  /\ pool = None
  /\ pool' = counters
  /\ monitors' = [m \in Queries \X Passes |-> [events |-> EventsOf(counters, m[2]), jobs |-> 0]]
  /\ \E ids \in [Queries \X Passes -> {Uninitialised, Refused} \cup (Queries \X Passes)] :
       /\ perfmonIDs' = ids
       /\ \A m \in Queries \X Passes :
            ids[m] \in IF m[2] < Monitors(counters)
                       THEN vc4_create_perfmon(EventsOf(counters, m[2]), m) ELSE {Uninitialised}
  /\ ran' = [m \in Queries \X Passes |-> 0]
  /\ spoiled' = {}
  /\ UNCHANGED <<perfmonID, inPass, markers, active, wanted>>

(* A pool in use is not destroyed: markers point into it. *)
vkDestroyQueryPool ==
  /\ pool # None /\ active = None /\ \A j \in DOMAIN wanted : wanted[j] = None
  /\ pool' = None
  /\ monitors' = << >> /\ perfmonIDs' = << >>
  /\ ran' = << >> /\ spoiled' = {}
  /\ UNCHANGED <<perfmonID, inPass, markers, active, wanted>>

(* Does nothing, so the counts go on from what was counted before. *)
vkCmdResetQueryPool(q) ==
  /\ pool # None /\ ~inPass /\ active = None
  /\ spoiled' = IF \E p \in Passes : ran[<<q, p>>] > 0 THEN spoiled \cup {q} ELSE spoiled
  /\ UNCHANGED <<pool, perfmonIDs, monitors, perfmonID, inPass, markers, active, wanted, ran>>

(* The counters are of the scope of a render pass, so a query begins and   *)
(* ends outside of one.                                                    *)
vkCmdBeginQuery(q) ==
  /\ pool # None /\ active = None /\ ~inPass
  /\ perfmonID' = q /\ active' = q
  /\ UNCHANGED <<pool, perfmonIDs, monitors, inPass, markers, wanted, ran, spoiled>>
(* Bug: jobs are counted on. *)
endQueryKeeps ==
  /\ active # None /\ ~inPass
  /\ active' = None
  /\ UNCHANGED <<pool, perfmonIDs, monitors, perfmonID, inPass, markers, wanted, ran, spoiled>>
vkCmdEndQuery ==
  /\ active # None /\ ~inPass
  /\ perfmonID' = None /\ active' = None
  /\ UNCHANGED <<pool, perfmonIDs, monitors, inPass, markers, wanted, ran, spoiled>>

(* A new marker takes the query over. *)
vkCmdBeginRenderPass ==
  /\ ~inPass /\ Len(markers) < MaxJobs
  /\ inPass' = TRUE
  /\ markers' = Append(markers, perfmonID) /\ wanted' = Append(wanted, active)
  /\ UNCHANGED <<pool, perfmonIDs, monitors, perfmonID, active, ran, spoiled>>
vkCmdEndRenderPass ==
  /\ inPass /\ inPass' = FALSE
  /\ UNCHANGED <<pool, perfmonIDs, monitors, perfmonID, markers, active, wanted, ran, spoiled>>
vkResetCommandBuffer ==
  /\ perfmonID' = None /\ inPass' = FALSE /\ markers' = << >>
  /\ active' = None /\ wanted' = << >>
  /\ UNCHANGED <<pool, perfmonIDs, monitors, ran, spoiled>>

JobsFor(jobs, q) == Cardinality({j \in DOMAIN jobs : jobs[j] = q})

(* The recorded jobs, submitted with a counterPassIndex.  An id that was   *)
(* never written may be that of any monitor, or of none.                   *)
vkQueueSubmit(p) ==
  /\ pool # None /\ ~inPass /\ active = None
  /\ p < numPasses(pool)
  /\ \A q \in Queries : ran[<<q, p>>] + JobsFor(wanted, q) <= MaxJobs
  /\ \E hit \in {None} \cup (Queries \X Passes) :
       LET counted(q) == IF perfmonIDs[<<q, p>>] = Uninitialised THEN hit ELSE perfmonIDs[<<q, p>>]
           adds(q, m) == IF counted(q) = m THEN JobsFor(markers, q) ELSE 0
           added(m) == adds(0, m) + adds(1, m)
           stray == \E q \in Queries : JobsFor(markers, q) > 0 /\ perfmonIDs[<<q, p>>] = Uninitialised
       IN  /\ hit # None => stray /\ perfmonIDs[hit] = hit
           /\ monitors' = [m \in DOMAIN monitors |-> [monitors[m] EXCEPT !.jobs = @ + added(m)]]
           /\ spoiled' = IF hit = None THEN spoiled ELSE spoiled \cup {hit[1]}
  /\ ran' = [m \in DOMAIN ran |-> ran[m] + IF m[2] = p THEN JobsFor(wanted, m[1]) ELSE 0]
  /\ UNCHANGED <<pool, perfmonIDs, perfmonID, inPass, markers, active, wanted>>

(* counterValues[d][k] of a query, after reading its monitors. *)
counterValue(q, d, k) ==
  IF perfmonIDs[<<q, d>>] = Refused \/ k \notin DOMAIN monitors[<<q, d>>].events THEN None
  ELSE [event |-> monitors[<<q, d>>].events[k], jobs |-> monitors[<<q, d>>].jobs]

(* vkGetQueryPoolResults: what is written to the data.  The loop ends at   *)
(* queryCount instead of firstQuery + queryCount, and every query writes   *)
(* to the beginning of the data, so the last one stays.                    *)
results(firstQuery, queryCount) ==
  IF firstQuery >= queryCount THEN << >>
  ELSE [k \in DOMAIN pool |->
          counterValue(queryCount - 1, (k - 1) \div PerMonitor, (k - 1) % PerMonitor)]

Init ==
  /\ pool = None /\ perfmonIDs = << >> /\ monitors = << >>
  /\ perfmonID = None /\ inPass = FALSE /\ markers = << >>
  /\ active = None /\ wanted = << >>
  /\ ran = << >> /\ spoiled = {}
Next ==
  \/ \E counters \in Selections : vkCreateQueryPool(counters)
  \/ vkDestroyQueryPool
  \/ \E q \in Queries : vkCmdResetQueryPool(q) \/ vkCmdBeginQuery(q)
  \/ vkCmdEndQuery \/ vkCmdBeginRenderPass \/ vkCmdEndRenderPass \/ vkResetCommandBuffer
  \/ \E p \in Passes : vkQueueSubmit(p)
Spec == Init /\ [][Next]_vars

-----------------------------------------------------------------------------
(* Whenever the first query is read on its own, each value is of the       *)
(* counter asked for at that place, over the jobs recorded between the     *)
(* query's begin and its end and submitted with the pass of the counter.   *)
(* Not claimed of a query that was reset after counting, of a monitor that *)
(* jobs were counted in under an id that was never written, of a second    *)
(* monitor that was refused for an event that was never written, and of    *)
(* other queries or several at once (query.c:27-218, device.c:234).        *)
ResultsAreOfTheQuery ==
  pool # None /\ 0 \notin spoiled =>
    \A k \in DOMAIN pool :
      LET d == (k - 1) \div PerMonitor
      IN  \/ results(0, 1)[k] = [event |-> pool[k], jobs |-> ran[<<0, d>>]]
          \/ d = 1 /\ Len(pool) < NumEvents /\ perfmonIDs[<<0, 1>>] = Refused
==============================================================================
