------------------------- MODULE CommandBufferProofs -------------------------
(***************************************************************************)
(* What vkQueueSubmit tells the kernel, for any number of jobs, draws,     *)
(* images and handles: every job recorded since vkBeginCommandBuffer, with *)
(* its own draws, and the handles its names refer to.                      *)
(*                                                                         *)
(* The markers cut the lists into slices by offsets and sizes remembered   *)
(* at different times.  ChainOK says that each slice lies in its list and  *)
(* that only the last marker is open, its slices being what the lists hold *)
(* behind its offsets; RecordedOK that the last markers are those of the   *)
(* recorded jobs; PhaseOK when a command buffer can have which of them;    *)
(* SentOK what was told at the last submit.                                *)
(***************************************************************************)
EXTENDS CommandBuffer, SequenceTheorems, NaturalsInduction, WellFoundedInduction, TLAPS

MarkerRec ==
  [target : Images, ms : BOOLEAN, size : Nat, count : Nat,
   hOff : Nat, hSize : Nat, rOff : Nat, rSize : Nat]
JobRec == [target : Images, ms : BOOLEAN, draws : Seq(Buffers)]

(* Where the slices of marker m end; an open one has all that follows.     *)
handlesEnd(m, hs) == IF m.size = 0 THEN Len(hs) ELSE m.hOff + m.hSize
recsEnd(m, rs) == IF m.size = 0 THEN Len(rs) ELSE m.rOff + m.rSize
Named(m, hs) == {hs[i] : i \in m.hOff + 1 .. handlesEnd(m, hs)}

MarkerOK(m, hs, rs) ==
  /\ m \in MarkerRec
  /\ m.hOff + m.hSize <= Len(hs) /\ m.rOff + m.rSize <= Len(rs)
  /\ m.size = 0 => m.hSize = 0 /\ m.rSize = 0 /\ m.count <= m.rOff
  /\ m.size # 0 => m.hSize # 0 /\ m.rSize <= m.count /\ m.count <= m.rOff + m.rSize
  /\ m.target \in Named(m, hs)

ChainOK(ms, hs, rs) ==
  /\ ms \in Seq(MarkerRec)
  /\ \A i \in 1 .. Len(ms) : MarkerOK(ms[i], hs, rs) /\ (i # Len(ms) => ms[i].size # 0)
  /\ Len(rs) = IF ms = <<>> THEN 0 ELSE recsEnd(Last(ms), rs)

JobOK(m, job, hs, rs) ==
  /\ job.target = m.target /\ job.ms = m.ms
  /\ Len(job.draws) = recsEnd(m, rs) - m.rOff
  /\ \A i \in 1 .. Len(job.draws) :
       job.draws[i] = rs[m.rOff + i] /\ job.draws[i] \in Named(m, hs)

RecordedOK(rec, ms, hs, rs) ==
  /\ rec \in Seq(JobRec) /\ Len(rec) <= Len(ms)
  /\ \A k \in 1 .. Len(rec) : JobOK(ms[Len(ms) - Len(rec) + k], rec[k], hs, rs)

ListTypes ==
  /\ state \in States /\ resetAble \in BOOLEAN /\ oneTime \in BOOLEAN
  /\ inPass \in BOOLEAN /\ stale \in BOOLEAN
  /\ handles \in Seq(Handle) /\ recs \in Seq(Buffers)
  /\ bin \in Nat /\ shaderRecCount = Len(recs)
  /\ markers # <<>> => bin # 0

PhaseOK ==
  /\ inPass => state = "RECORDING" /\ recorded # <<>> /\ Last(markers).size = 0
  /\ state \in {"INITIAL", "RECORDING"} => sent = <<>>
  /\ state # "INITIAL" /\ ~ stale => Len(markers) = Len(recorded)

SentOK == RecordedJobsSent /\ NothingElseSent /\ NamesAreThere

BufferInv ==
  /\ ListTypes
  /\ ChainOK(markers, handles, recs) /\ RecordedOK(recorded, markers, handles, recs)
  /\ PhaseOK /\ SentOK

-----------------------------------------------------------------------------
(* Slices, and lists that only grow at their end.                          *)
Extends(xs, ys) == Len(xs) <= Len(ys) /\ \A i \in 1 .. Len(xs) : ys[i] = xs[i]

(* A slice that lies in its list holds what the list has there.            *)
LEMMA SliceIs ==
  ASSUME NEW S, NEW list \in Seq(S), NEW from \in Nat, NEW len \in Nat, from + len <= Len(list)
  PROVE  /\ slice(list, from, len) \in Seq(S) /\ Len(slice(list, from, len)) = len
         /\ \A i \in 1 .. len : slice(list, from, len)[i] = list[from + i]
<1>1. Len(list) \in Nat /\ list \in [1 .. Len(list) -> S]
  BY LenProperties
<1>2. \A i \in from + 1 .. from + len : list[i] \in S
  BY <1>1
<1> QED
  BY <1>2, SubSeqProperties DEF slice

(* Appending leaves what is there.                                         *)
LEMMA AppendExtends ==
  ASSUME NEW S, NEW list \in Seq(S), NEW x \in S
  PROVE  Append(list, x) \in Seq(S) /\ Extends(list, Append(list, x))
BY AppendProperties DEF Extends

(* The lookup of clGetHandleIndex finds exactly what the marker's slice    *)
(* of the handle list holds.                                               *)
LEMMA HoldsIs ==
  ASSUME NEW hs \in Seq(Handle), NEW m \in MarkerRec, NEW bo,
         m.hOff + m.hSize <= Len(hs), m.size = 0 <=> m.hSize = 0
  PROVE  /\ searched(hs, m.hOff, m.hSize) = slice(hs, m.hOff, handlesEnd(m, hs) - m.hOff)
         /\ holds(hs, m, bo) <=> bo \in Named(m, hs)
<1> DEFINE n == handlesEnd(m, hs) - m.hOff
<1>1. m.hOff \in Nat /\ m.hSize \in Nat /\ Len(hs) \in Nat
  BY DEF MarkerRec
<1>2. n \in Nat /\ m.hOff + n <= Len(hs) /\ handlesEnd(m, hs) = m.hOff + n
  BY <1>1 DEF handlesEnd
<1>3. searched(hs, m.hOff, m.hSize) = slice(hs, m.hOff, n)
  BY <1>1 DEF searched, handlesEnd
<1>4. /\ slice(hs, m.hOff, n) \in Seq(Handle) /\ Len(slice(hs, m.hOff, n)) = n
      /\ \A i \in 1 .. n : slice(hs, m.hOff, n)[i] = hs[m.hOff + i]
  BY <1>1, <1>2, SliceIs
<1>5. DOMAIN slice(hs, m.hOff, n) = 1 .. n
  BY <1>4, LenProperties
<1>6. holds(hs, m, bo) <=> \E i \in 1 .. n : hs[m.hOff + i] = bo
  BY <1>3, <1>4, <1>5 DEF holds
<1>7. ASSUME \E i \in 1 .. n : hs[m.hOff + i] = bo  PROVE  bo \in Named(m, hs)
  <2>1. PICK i \in 1 .. n : hs[m.hOff + i] = bo
    BY <1>7
  <2>2. m.hOff + i \in m.hOff + 1 .. handlesEnd(m, hs)
    BY <1>1, <1>2
  <2> QED
    BY <2>1, <2>2 DEF Named
<1>8. ASSUME bo \in Named(m, hs)  PROVE  \E i \in 1 .. n : hs[m.hOff + i] = bo
  <2>1. PICK i \in m.hOff + 1 .. handlesEnd(m, hs) : hs[i] = bo
    BY <1>8 DEF Named
  <2>2. i - m.hOff \in 1 .. n /\ m.hOff + (i - m.hOff) = i
    BY <1>1, <1>2
  <2> QED
    BY <2>1, <2>2
<1> QED
  BY <1>3, <1>6, <1>7, <1>8

(* More handles take no name away.                                         *)
LEMMA NamedGrows ==
  ASSUME NEW hs \in Seq(Handle), NEW hs2 \in Seq(Handle), Extends(hs, hs2),
         NEW m \in MarkerRec, m.hOff + m.hSize <= Len(hs)
  PROVE  Named(m, hs) \subseteq Named(m, hs2)
<1>1. m.hOff \in Nat /\ m.hSize \in Nat /\ Len(hs) \in Nat /\ Len(hs2) \in Nat
  BY DEF MarkerRec
<1>2. \A i \in m.hOff + 1 .. handlesEnd(m, hs) :
        i \in m.hOff + 1 .. handlesEnd(m, hs2) /\ hs2[i] = hs[i]
  BY <1>1 DEF handlesEnd, Extends
<1> QED
  BY <1>2 DEF Named

LEMMA MarkerKept ==
  ASSUME NEW hs \in Seq(Handle), NEW hs2 \in Seq(Handle), Extends(hs, hs2),
         NEW rs \in Seq(Buffers), NEW m, MarkerOK(m, hs, rs)
  PROVE  /\ MarkerOK(m, hs2, rs)
         /\ \A job : JobOK(m, job, hs, rs) => JobOK(m, job, hs2, rs)
<1>1. m \in MarkerRec /\ m.hOff + m.hSize <= Len(hs)
  BY DEF MarkerOK
<1>2. Named(m, hs) \subseteq Named(m, hs2)
  BY <1>1, NamedGrows
<1>3. m.hOff \in Nat /\ m.hSize \in Nat /\ Len(hs) \in Nat /\ Len(hs2) \in Nat
  BY <1>1 DEF MarkerRec
<1>4. m.hOff + m.hSize <= Len(hs2)
  BY <1>1, <1>3 DEF Extends
<1>5. MarkerOK(m, hs2, rs)
  BY <1>2, <1>4 DEF MarkerOK
<1>6. ASSUME NEW job, JobOK(m, job, hs, rs)  PROVE  JobOK(m, job, hs2, rs)
  BY <1>2, <1>6 DEF JobOK
<1> QED
  BY <1>5, <1>6

(* A closed marker keeps its slice of the shader records as well.          *)
LEMMA ClosedKept ==
  ASSUME NEW hs \in Seq(Handle), NEW rs \in Seq(Buffers), NEW rs2 \in Seq(Buffers),
         Extends(rs, rs2), NEW m, MarkerOK(m, hs, rs), m.size # 0
  PROVE  /\ MarkerOK(m, hs, rs2)
         /\ \A job : JobOK(m, job, hs, rs) => JobOK(m, job, hs, rs2)
<1>1. m \in MarkerRec /\ m.rOff + m.rSize <= Len(rs)
  BY DEF MarkerOK
<1>2. m.rOff \in Nat /\ m.rSize \in Nat /\ Len(rs) \in Nat /\ Len(rs2) \in Nat
  BY <1>1 DEF MarkerRec
<1>3. MarkerOK(m, hs, rs2)
  BY <1>1, <1>2 DEF MarkerOK, Extends
<1>4. ASSUME NEW job, JobOK(m, job, hs, rs)  PROVE  JobOK(m, job, hs, rs2)
  <2>1. recsEnd(m, rs) = m.rOff + m.rSize /\ recsEnd(m, rs2) = m.rOff + m.rSize
    BY DEF recsEnd
  <2>2. Len(job.draws) = m.rSize
    BY <1>2, <1>4, <2>1 DEF JobOK
  <2>3. \A i \in 1 .. Len(job.draws) : m.rOff + i \in 1 .. Len(rs)
    BY <1>1, <1>2, <2>2
  <2> QED
    BY <1>2, <1>4, <2>1, <2>2, <2>3 DEF JobOK, Extends
<1> QED
  BY <1>3, <1>4

(* Adding a handle to the slice of an open marker names it there; a handle *)
(* that is named already is not added again.                               *)
LEMMA WithHandleIs ==
  ASSUME NEW hs \in Seq(Handle), NEW m \in MarkerRec, NEW bo \in Handle,
         m.hOff + m.hSize <= Len(hs), m.size = 0 <=> m.hSize = 0
  PROVE  /\ withHandle(hs, m, bo) \in Seq(Handle) /\ Extends(hs, withHandle(hs, m, bo))
         /\ m.size = 0 => bo \in Named(m, withHandle(hs, m, bo))
         /\ bo \in Named(m, hs) => withHandle(hs, m, bo) = hs
<1>1. holds(hs, m, bo) <=> bo \in Named(m, hs)
  BY HoldsIs
<1>2. CASE holds(hs, m, bo)
  BY <1>1, <1>2 DEF withHandle, Extends
<1>3. CASE ~ holds(hs, m, bo)
  <2>1. withHandle(hs, m, bo) = Append(hs, bo)
    BY <1>3 DEF withHandle
  <2>2. m.hOff \in Nat /\ m.hSize \in Nat /\ Len(hs) \in Nat
    BY DEF MarkerRec
  <2>3. ASSUME m.size = 0  PROVE  bo \in Named(m, Append(hs, bo))
    <3>1. Len(hs) + 1 \in m.hOff + 1 .. handlesEnd(m, Append(hs, bo))
      BY <2>2, <2>3, AppendProperties DEF handlesEnd
    <3> QED
      BY <3>1, AppendProperties DEF Named
  <2> QED
    BY <1>1, <1>3, <2>1, <2>3, AppendExtends
<1> QED
  BY <1>2, <1>3


-----------------------------------------------------------------------------
(* Closing a marker, and opening the next one.                             *)
closedAt(m, hs, rs, size) ==
  [m EXCEPT !.size = size, !.hSize = Len(hs) - m.hOff,
            !.rSize = Len(rs) - m.rOff, !.count = Len(rs) - m.count]

(* A marker that is closed keeps its slices, which end with the lists.     *)
LEMMA ClosingKeeps ==
  ASSUME NEW hs \in Seq(Handle), NEW rs \in Seq(Buffers), NEW size \in Nat \ {0},
         NEW m, MarkerOK(m, hs, rs), m.size = 0
  PROVE  LET c == closedAt(m, hs, rs, size) IN
         /\ MarkerOK(c, hs, rs) /\ c.size # 0
         /\ c.hOff + c.hSize = Len(hs) /\ c.rOff + c.rSize = Len(rs)
         /\ \A job : JobOK(m, job, hs, rs) => JobOK(c, job, hs, rs)
<1> DEFINE c == closedAt(m, hs, rs, size)
<1>1. m \in MarkerRec /\ m.hOff <= Len(hs) /\ m.rOff <= Len(rs) /\ m.count <= m.rOff
  BY DEF MarkerOK, MarkerRec
<1>2. m.hOff \in Nat /\ m.rOff \in Nat /\ m.count \in Nat /\ Len(hs) \in Nat /\ Len(rs) \in Nat
  BY <1>1 DEF MarkerRec
<1>3. /\ c.target = m.target /\ c.ms = m.ms /\ c.size = size /\ c.hOff = m.hOff
      /\ c.rOff = m.rOff /\ c.hSize = Len(hs) - m.hOff /\ c.rSize = Len(rs) - m.rOff
      /\ c.count = Len(rs) - m.count
  BY <1>1 DEF closedAt, MarkerRec
<1>4. c \in MarkerRec
  <2>1. Len(hs) - m.hOff \in Nat /\ Len(rs) - m.rOff \in Nat /\ Len(rs) - m.count \in Nat
    BY <1>1, <1>2
  <2> QED
    BY <1>1, <2>1 DEF closedAt, MarkerRec
<1>5. /\ handlesEnd(c, hs) = Len(hs) /\ handlesEnd(m, hs) = Len(hs)
      /\ recsEnd(c, rs) = Len(rs) /\ recsEnd(m, rs) = Len(rs)
  BY <1>2, <1>3 DEF handlesEnd, recsEnd
<1>6. Named(c, hs) = Named(m, hs)
  BY <1>3, <1>5 DEF Named
<1>7. c.hSize # 0
  <2>1. PICK i \in m.hOff + 1 .. Len(hs) : TRUE
    BY <1>5 DEF MarkerOK, Named
  <2> QED
    BY <1>2, <1>3, <2>1
<1>8. MarkerOK(c, hs, rs)
  BY <1>1, <1>2, <1>3, <1>4, <1>6, <1>7 DEF MarkerOK
<1>9. ASSUME NEW job, JobOK(m, job, hs, rs)  PROVE  JobOK(c, job, hs, rs)
  BY <1>3, <1>5, <1>6, <1>9 DEF JobOK
<1> QED
  BY <1>2, <1>3, <1>8, <1>9

(* A chain whose last marker, if any, is closed.                           *)
AllClosed(ms) == \A i \in 1 .. Len(ms) : ms[i].size # 0

(* The same as a change of the chain: closing its last marker.             *)
chainClosed(ms, hs, rs, size) ==
  [ms EXCEPT ![Len(ms)] = closedAt(Last(ms), hs, rs, size)]

LEMMA ChainCloses ==
  ASSUME NEW hs \in Seq(Handle), NEW rs \in Seq(Buffers), NEW size \in Nat \ {0},
         NEW ms, ChainOK(ms, hs, rs), ms # <<>>, Last(ms).size = 0
  PROVE  LET cs == chainClosed(ms, hs, rs, size) IN
         /\ ChainOK(cs, hs, rs) /\ AllClosed(cs) /\ Len(cs) = Len(ms)
         /\ Last(cs).hOff + Last(cs).hSize = Len(hs)
         /\ Last(cs).rOff + Last(cs).rSize = Len(rs)
         /\ \A rec : RecordedOK(rec, ms, hs, rs) => RecordedOK(rec, cs, hs, rs)
<1> DEFINE n == Len(ms)
           c == closedAt(Last(ms), hs, rs, size)
           cs == chainClosed(ms, hs, rs, size)
<1>1. ms \in Seq(MarkerRec) /\ n \in Nat \ {0} /\ n \in 1 .. n
  BY EmptySeq DEF ChainOK
<1>2. MarkerOK(Last(ms), hs, rs)
  BY <1>1 DEF ChainOK, Last
<1>3. /\ MarkerOK(c, hs, rs) /\ c.size # 0
      /\ c.hOff + c.hSize = Len(hs) /\ c.rOff + c.rSize = Len(rs)
      /\ \A job : JobOK(Last(ms), job, hs, rs) => JobOK(c, job, hs, rs)
  BY <1>2, ClosingKeeps
<1>4. c \in MarkerRec
  BY <1>3 DEF MarkerOK
<1>5. /\ cs \in Seq(MarkerRec) /\ Len(cs) = n
      /\ \A i \in 1 .. n : cs[i] = IF i = n THEN c ELSE ms[i]
  BY <1>1, <1>4, ExceptSeq DEF chainClosed
<1>6. Last(cs) = c
  BY <1>1, <1>5 DEF Last
<1>7. ChainOK(cs, hs, rs) /\ AllClosed(cs)
  <2>1. cs # <<>>
    BY <1>1, <1>5, EmptySeq
  <2>2. recsEnd(Last(cs), rs) = Len(rs)
    BY <1>3, <1>6 DEF recsEnd
  <2> QED
    BY <1>1, <1>3, <1>5, <2>1, <2>2 DEF ChainOK, AllClosed
<1>8. ASSUME NEW rec, RecordedOK(rec, ms, hs, rs)  PROVE  RecordedOK(rec, cs, hs, rs)
  <2>1. Len(rec) \in Nat
    BY <1>8 DEF RecordedOK
  <2>2. ASSUME NEW k \in 1 .. Len(rec)  PROVE  JobOK(cs[n - Len(rec) + k], rec[k], hs, rs)
    <3>1. n - Len(rec) + k \in 1 .. n
      BY <1>1, <1>8, <2>1 DEF RecordedOK
    <3>2. JobOK(ms[n - Len(rec) + k], rec[k], hs, rs)
      BY <1>8 DEF RecordedOK
    <3> QED
      BY <1>3, <1>5, <3>1, <3>2 DEF Last
  <2> QED
    BY <1>5, <1>8, <2>2 DEF RecordedOK
<1> QED
  BY <1>3, <1>5, <1>6, <1>7, <1>8

(* clInsertNewCLMarker first closes what is open.                          *)
LEMMA CloseIfOpen ==
  ASSUME ListTypes, ChainOK(markers, handles, recs),
         RecordedOK(recorded, markers, handles, recs)
  PROVE  LET cs == closeIfOpen(markers) IN
         /\ ChainOK(cs, handles, recs) /\ AllClosed(cs) /\ Len(cs) = Len(markers)
         /\ RecordedOK(recorded, cs, handles, recs)
<1> DEFINE cs == closeIfOpen(markers)
<1>1. markers \in Seq(MarkerRec) /\ handles \in Seq(Handle) /\ recs \in Seq(Buffers)
  BY DEF ChainOK, ListTypes
<1>2. CASE markers = <<>>
  BY <1>2, EmptySeq DEF closeIfOpen, AllClosed
<1>3. CASE markers # <<>> /\ Last(markers).size # 0
  <2>1. Len(markers) \in Nat \ {0}
    BY <1>1, <1>3, EmptySeq
  <2>2. cs = markers
    BY <1>3 DEF closeIfOpen
  <2> QED
    BY <1>3, <2>1, <2>2 DEF ChainOK, AllClosed, Last
<1>4. CASE markers # <<>> /\ Last(markers).size = 0
  <2>1. bin \in Nat \ {0}
    BY <1>4 DEF ListTypes
  <2>2. cs = chainClosed(markers, handles, recs, bin)
    BY <1>4 DEF closeIfOpen, closed, closedAt, chainClosed, ListTypes
  <2> DEFINE es == chainClosed(markers, handles, recs, bin)
  <2>3. /\ ChainOK(es, handles, recs) /\ AllClosed(es) /\ Len(es) = Len(markers)
        /\ \A rec : RecordedOK(rec, markers, handles, recs) => RecordedOK(rec, es, handles, recs)
    BY <1>1, <1>4, <2>1, ChainCloses
  <2> QED
    BY <2>2, <2>3
<1> QED
  BY <1>2, <1>3, <1>4

(* A new job: the chain gets an open marker with empty slices and the      *)
(* handle of the job's target, and the records of earlier jobs stay theirs. *)
LEMMA NewJob ==
  ASSUME ListTypes, ChainOK(markers, handles, recs),
         RecordedOK(recorded, markers, handles, recs),
         NEW target \in Images, NEW multi \in BOOLEAN,
         clInsertNewCLMarker(target, multi),
         handles' = withHandle(handles, Last(markers'), target),
         recorded' = Append(recorded, Job(target, multi)), recs' = recs
  PROVE  /\ ChainOK(markers', handles', recs')
         /\ RecordedOK(recorded', markers', handles', recs')
         /\ handles' \in Seq(Handle) /\ Last(markers').size = 0
         /\ Len(markers') = Len(markers) + 1 /\ Len(recorded') = Len(recorded) + 1
<1> DEFINE cs == closeIfOpen(markers)
           n == Len(cs)
           new == IF cs = <<>> THEN Marker(target, multi, 0, 0, 0)
                  ELSE Marker(target, multi, Last(cs).hOff + Last(cs).hSize,
                              Last(cs).rOff + Last(cs).rSize, Last(cs).count)
<1>1. handles \in Seq(Handle) /\ recs \in Seq(Buffers)
  BY DEF ListTypes
<1>2. /\ ChainOK(cs, handles, recs) /\ AllClosed(cs) /\ n = Len(markers)
      /\ RecordedOK(recorded, cs, handles, recs)
  BY CloseIfOpen
<1>3. cs \in Seq(MarkerRec) /\ n \in Nat
  BY <1>2 DEF ChainOK
<1>4. markers' = Append(cs, new)
  BY DEF clInsertNewCLMarker
<1>5. /\ new \in MarkerRec /\ new.target = target /\ new.ms = multi /\ new.size = 0
      /\ new.hSize = 0 /\ new.rSize = 0 /\ new.count <= new.rOff
      /\ new.hOff <= Len(handles) /\ new.rOff <= Len(recs)
  <2>1. CASE cs = <<>>
    BY <1>1, <2>1 DEF Marker, MarkerRec
  <2>2. CASE cs # <<>>
    <3>1. n \in 1 .. n
      BY <1>3, <2>2, EmptySeq
    <3>2. MarkerOK(Last(cs), handles, recs) /\ Last(cs).size # 0
      BY <1>2, <3>1 DEF ChainOK, AllClosed, Last
    <3> DEFINE m == Last(cs)
    <3>3. m \in MarkerRec
      BY <3>2 DEF MarkerOK
    <3>4. /\ m.hOff + m.hSize \in Nat /\ m.rOff + m.rSize \in Nat /\ m.count \in Nat
          /\ m.hOff + m.hSize <= Len(handles) /\ m.rOff + m.rSize <= Len(recs)
          /\ m.count <= m.rOff + m.rSize
      BY <3>2, <3>3 DEF MarkerOK, MarkerRec
    <3>5. new = Marker(target, multi, m.hOff + m.hSize, m.rOff + m.rSize, m.count)
      BY <2>2
    <3> HIDE DEF m, new
    <3> QED
      BY <3>4, <3>5 DEF Marker, MarkerRec
  <2> QED
    BY <2>1, <2>2
<1> HIDE DEF new, cs
<1>6. /\ markers' \in Seq(MarkerRec) /\ Len(markers') = n + 1 /\ Last(markers') = new
      /\ \A i \in 1 .. n : markers'[i] = cs[i]
      /\ markers'[n + 1] = new
  BY <1>3, <1>4, <1>5, AppendProperties DEF Last
<1>7. target \in Handle
  BY DEF Handle
<1>8. new.hOff \in Nat /\ new.rOff \in Nat /\ Len(recs) \in Nat
  BY <1>1, <1>5 DEF MarkerRec
<1>9. /\ handles' \in Seq(Handle) /\ Extends(handles, handles')
      /\ target \in Named(new, handles')
  <2>1. new.hOff + new.hSize <= Len(handles)
    BY <1>5, <1>8
  <2> QED
    BY <1>1, <1>5, <1>6, <1>7, <2>1, WithHandleIs
<1>10. MarkerOK(new, handles', recs)
  <2>1. Len(handles) \in Nat /\ Len(handles') \in Nat
    BY <1>1, <1>9
  <2> QED
    BY <1>5, <1>8, <1>9, <2>1 DEF MarkerOK, Extends
<1>11. ASSUME NEW i \in 1 .. n
       PROVE  /\ MarkerOK(markers'[i], handles', recs) /\ markers'[i].size # 0
              /\ \A job : JobOK(cs[i], job, handles, recs) => JobOK(markers'[i], job, handles', recs)
  <2>1. MarkerOK(cs[i], handles, recs) /\ cs[i].size # 0
    BY <1>2 DEF ChainOK, AllClosed
  <2> QED
    BY <1>1, <1>6, <1>9, <2>1, MarkerKept
<1>12. ChainOK(markers', handles', recs')
  <2>1. markers' # <<>> /\ Len(recs') = recsEnd(Last(markers'), recs')
    BY <1>3, <1>4, <1>5, <1>6, AppendProperties DEF recsEnd
  <2> QED
    BY <1>3, <1>6, <1>10, <1>11, <2>1 DEF ChainOK
<1>13. JobOK(new, Job(target, multi), handles', recs)
  <2>1. recsEnd(new, recs) = Len(recs)
    BY <1>5 DEF recsEnd
  <2>2. new.rOff = Len(recs)
    <3>1. CASE cs = <<>>
      BY <1>2, <3>1 DEF ChainOK, new, Marker
    <3>2. CASE cs # <<>>
      <4>1. n \in 1 .. n
        BY <1>3, <3>2, EmptySeq
      <4>2. Last(cs).size # 0
        BY <1>2, <4>1 DEF AllClosed, Last
      <4>3. new.rOff = Last(cs).rOff + Last(cs).rSize
        BY <3>2 DEF new, Marker
      <4> QED
        BY <1>2, <3>2, <4>2, <4>3 DEF ChainOK, recsEnd
    <3> QED
      BY <3>1, <3>2
  <2> QED
    BY <1>5, <1>8, <2>1, <2>2, EmptySeq DEF JobOK, Job
<1>14. RecordedOK(recorded', markers', handles', recs')
  <2> DEFINE r == Len(recorded)
             job == Job(target, multi)
  <2>1. recorded \in Seq(JobRec) /\ r \in Nat /\ r <= n
    BY <1>2 DEF RecordedOK
  <2>2. job \in JobRec
    BY DEF Job, JobRec
  <2> HIDE DEF job
  <2>3. /\ recorded' \in Seq(JobRec) /\ Len(recorded') = r + 1
        /\ \A k \in 1 .. r : recorded'[k] = recorded[k]
        /\ recorded'[r + 1] = job
    BY <2>1, <2>2, AppendProperties DEF job
  <2>4. ASSUME NEW k \in 1 .. r + 1
        PROVE  JobOK(markers'[n + 1 - (r + 1) + k], recorded'[k], handles', recs)
    <3>1. CASE k = r + 1
      <4>1. n + 1 - (r + 1) + k = n + 1
        BY <1>3, <2>1, <3>1
      <4> QED
        BY <1>6, <1>13, <2>3, <3>1, <4>1 DEF job
    <3>2. CASE k # r + 1
      <4>1. k \in 1 .. r /\ n + 1 - (r + 1) + k = n - r + k /\ n - r + k \in 1 .. n
        BY <1>3, <2>1, <3>2
      <4>2. JobOK(cs[n - r + k], recorded[k], handles, recs)
        BY <1>2, <4>1 DEF RecordedOK
      <4> QED
        BY <1>11, <2>3, <4>1, <4>2
    <3> QED
      BY <3>1, <3>2
  <2>5. \A k \in 1 .. Len(recorded') :
          JobOK(markers'[Len(markers') - Len(recorded') + k], recorded'[k], handles', recs')
    BY <1>6, <2>3, <2>4
  <2>6. Len(recorded') <= Len(markers')
    BY <1>3, <1>6, <2>1, <2>3
  <2> QED
    BY <2>3, <2>5, <2>6 DEF RecordedOK
<1>15. Len(recorded') = Len(recorded) + 1
  <2>1. recorded \in Seq(JobRec) /\ Job(target, multi) \in JobRec
    BY DEF RecordedOK, Job, JobRec
  <2> QED
    BY <2>1, AppendProperties
<1> QED
  BY <1>2, <1>5, <1>6, <1>9, <1>12, <1>14, <1>15

-----------------------------------------------------------------------------
(* A draw adds to the slices of the open marker, and to its job.           *)
LEMMA Draws ==
  ASSUME ListTypes, ChainOK(markers, handles, recs),
         RecordedOK(recorded, markers, handles, recs), NEW buffer \in Buffers,
         recorded # <<>>, Last(markers).size = 0, drawCommon(buffer),
         recorded' = [recorded EXCEPT ![Len(recorded)].draws = Append(@, buffer)],
         markers' = markers
  PROVE  /\ ChainOK(markers', handles', recs')
         /\ RecordedOK(recorded', markers', handles', recs')
         /\ handles' \in Seq(Handle) /\ recs' \in Seq(Buffers) /\ shaderRecCount' = Len(recs')
         /\ Len(recorded') = Len(recorded)
<1> DEFINE n == Len(markers)
           m == Last(markers)
           r == Len(recorded)
           job == [recorded[r] EXCEPT !.draws = Append(@, buffer)]
<1>1. /\ handles \in Seq(Handle) /\ recs \in Seq(Buffers) /\ Len(recs) \in Nat
      /\ markers \in Seq(MarkerRec) /\ n \in Nat /\ recorded \in Seq(JobRec) /\ r \in Nat
      /\ r <= n
  BY DEF ListTypes, ChainOK, RecordedOK
<1>2. r \in 1 .. r /\ n \in 1 .. n /\ markers # <<>>
  BY <1>1, EmptySeq
<1>3. recs' \in Seq(Buffers) /\ Len(recs') = Len(recs) + 1 /\ Extends(recs, recs')
      /\ recs'[Len(recs) + 1] = buffer /\ shaderRecCount' = Len(recs')
  BY <1>1, AppendProperties, AppendExtends DEF drawCommon, ListTypes
<1>4. MarkerOK(m, handles, recs) /\ m.size = 0
  BY <1>2 DEF ChainOK, Last
<1>5. /\ m \in MarkerRec /\ m.hOff + m.hSize <= Len(handles) /\ m.hSize = 0
      /\ m.rOff \in Nat /\ m.rSize = 0 /\ m.rOff <= Len(recs)
  BY <1>4 DEF MarkerOK, MarkerRec
<1> HIDE DEF m
<1>6. /\ handles' \in Seq(Handle) /\ Extends(handles, handles')
      /\ buffer \in Named(m, handles')
  <2>1. buffer \in Handle /\ handles' = withHandle(handles, m, buffer)
    BY DEF Handle, drawCommon, m
  <2> QED
    BY <1>1, <1>4, <1>5, <2>1, WithHandleIs
<1>7. MarkerOK(m, handles', recs)
  BY <1>1, <1>4, <1>6, MarkerKept
<1>8. MarkerOK(m, handles', recs')
  BY <1>1, <1>3, <1>5, <1>7 DEF MarkerOK
<1>9. ASSUME NEW i \in 1 .. n, i # n
      PROVE  /\ MarkerOK(markers[i], handles', recs')
             /\ \A j : JobOK(markers[i], j, handles, recs) => JobOK(markers[i], j, handles', recs')
  <2>1. MarkerOK(markers[i], handles, recs) /\ markers[i].size # 0
    BY <1>9 DEF ChainOK
  <2>2. /\ MarkerOK(markers[i], handles', recs)
        /\ \A j : JobOK(markers[i], j, handles, recs) => JobOK(markers[i], j, handles', recs)
    BY <1>1, <1>6, <2>1, MarkerKept
  <2> QED
    BY <1>1, <1>3, <1>6, <2>1, <2>2, ClosedKept
<1>10. ChainOK(markers', handles', recs')
  <2>1. Len(recs') = recsEnd(Last(markers'), recs')
    BY <1>4 DEF recsEnd, m
  <2>2. \A i \in 1 .. Len(markers') : MarkerOK(markers'[i], handles', recs')
    BY <1>8, <1>9 DEF m, Last
  <2> QED
    BY <1>2, <2>1, <2>2 DEF ChainOK
<1>11. JobOK(m, recorded[r], handles, recs)
  <2>1. n - r + r = n
    BY <1>1
  <2> QED
    BY <1>2, <2>1 DEF RecordedOK, m, Last
<1>12. recorded[r] \in JobRec
  BY <1>1, <1>2, ElementOfSeq
<1>13. /\ job \in JobRec /\ job.target = recorded[r].target /\ job.ms = recorded[r].ms
       /\ job.draws = Append(recorded[r].draws, buffer)
  <2>1. Append(recorded[r].draws, buffer) \in Seq(Buffers)
    BY <1>12, AppendProperties DEF JobRec
  <2> QED
    BY <1>12, <2>1 DEF JobRec
<1>14. /\ recorded' \in Seq(JobRec) /\ Len(recorded') = r
       /\ \A k \in 1 .. r : recorded'[k] = IF k = r THEN job ELSE recorded[k]
  <2>1. recorded' = [recorded EXCEPT ![r] = job]
    OBVIOUS
  <2> QED
    BY <1>1, <1>2, <1>13, <2>1, ExceptSeq
<1>15. JobOK(m, job, handles', recs')
  <2> DEFINE ds == recorded[r].draws
             d  == Len(ds)
  <2>1. recsEnd(m, recs) = Len(recs) /\ recsEnd(m, recs') = Len(recs) + 1
    BY <1>3, <1>4 DEF recsEnd
  <2>2. ds \in Seq(Buffers) /\ d = Len(recs) - m.rOff /\ d \in Nat
    BY <1>1, <1>5, <1>11, <1>12, <2>1 DEF JobOK, JobRec
  <2>3. /\ Len(job.draws) = d + 1 /\ job.draws[d + 1] = buffer
        /\ \A i \in 1 .. d : job.draws[i] = ds[i]
    BY <1>13, <2>2, AppendProperties
  <2>4. Named(m, handles) \subseteq Named(m, handles')
    BY <1>1, <1>5, <1>6, NamedGrows
  <2> HIDE DEF job, ds, d
  <2>5. ASSUME NEW i \in 1 .. d + 1
        PROVE  job.draws[i] = recs'[m.rOff + i] /\ job.draws[i] \in Named(m, handles')
    <3>1. CASE i = d + 1
      <4>1. m.rOff + i = Len(recs) + 1
        BY <1>1, <1>5, <2>2, <3>1
      <4> QED
        BY <1>3, <1>6, <2>3, <3>1, <4>1
    <3>2. CASE i # d + 1
      <4>1. i \in 1 .. d /\ m.rOff + i \in 1 .. Len(recs)
        BY <1>1, <1>5, <2>2, <3>2, SMTT(40)
      <4>2. ds[i] = recs[m.rOff + i] /\ ds[i] \in Named(m, handles)
        BY <1>11, <4>1 DEF JobOK, ds, d
      <4> QED
        BY <1>3, <2>3, <2>4, <4>1, <4>2 DEF Extends
    <3> QED
      BY <3>1, <3>2
  <2>6. Len(job.draws) = recsEnd(m, recs') - m.rOff
    <3>1. Len(job.draws) = (Len(recs) - m.rOff) + 1
      BY <2>2, <2>3
    <3>2. (Len(recs) - m.rOff) + 1 = Len(recs) + 1 - m.rOff
      BY <1>1, <1>5
    <3>3. recsEnd(m, recs') = Len(recs')
      BY <1>4 DEF recsEnd
    <3> QED
      BY <1>1, <1>3, <1>5, <3>1, <3>2, <3>3, SMTT(40)
  <2> QED
    BY <1>11, <1>13, <2>3, <2>5, <2>6 DEF JobOK
<1>16. RecordedOK(recorded', markers', handles', recs')
  <2> HIDE DEF job
  <2>1. ASSUME NEW k \in 1 .. r  PROVE  JobOK(markers[n - r + k], recorded'[k], handles', recs')
    <3>1. CASE k = r
      <4>1. n - r + k = n
        BY <1>1, <3>1
      <4> QED
        BY <1>14, <1>15, <3>1, <4>1 DEF m, Last
    <3>2. CASE k # r
      <4>1. n - r + k \in 1 .. n /\ n - r + k # n
        BY <1>1, <3>2
      <4>2. JobOK(markers[n - r + k], recorded[k], handles, recs)
        BY DEF RecordedOK
      <4> QED
        BY <1>9, <1>14, <3>2, <4>1, <4>2
    <3> QED
      BY <3>1, <3>2
  <2> QED
    BY <1>1, <1>14, <2>1 DEF RecordedOK
<1> QED
  BY <1>3, <1>6, <1>10, <1>14, <1>16

-----------------------------------------------------------------------------
(* The lookup of all targets, one after the other, at a submit.            *)
LEMMA Upward ==
  ASSUME NEW T, 0 \in T, \A n \in Nat : n \in T => n + 1 \in T
  PROVE  Nat \subseteq T
<1> SUFFICES ASSUME Nat \ T # {}  PROVE  FALSE
  OBVIOUS
<1>1. PICK x \in Nat \ T : \A y \in Nat \ T : ~ (<<y, x>> \in OpToRel(<, Nat))
  BY NatLessThanWellFounded, WFMin, Zenon
<1>2. \A y \in Nat \ T : ~ (y < x)
  BY <1>1 DEF OpToRel
<1>3. x - 1 \in Nat /\ x - 1 \notin Nat \ T
  BY <1>2
<1>4. x - 1 + 1 \in T
  BY <1>3
<1> QED
  BY <1>4

(* A function that is given for 0 and step by step exists.                 *)
Stepwise(f, S, a, G, m) ==
  f \in [0 .. m -> S] /\ f[0] = a /\ \A n \in 1 .. m : f[n] = G[<<f[n - 1], n>>]

LEMMA StepByStep ==
  ASSUME NEW S, NEW a \in S, NEW G \in [S \X Nat -> S], NEW m \in Nat
  PROVE  \E f : Stepwise(f, S, a, G, m)
<1> DEFINE Steps(k, f) == f[0] = a /\ \A n \in 1 .. k : f[n] = G[<<f[n - 1], n>>]
           T == {k \in Nat : \E f \in [0 .. k -> S] : Steps(k, f)}
<1>1. 0 \in T
  <2>1. [i \in 0 .. 0 |-> a] \in [0 .. 0 -> S] /\ Steps(0, [i \in 0 .. 0 |-> a])
    OBVIOUS
  <2> QED
    BY <2>1
<1>2. ASSUME NEW k \in Nat, k \in T  PROVE  k + 1 \in T
  <2>1. PICK f \in [0 .. k -> S] : Steps(k, f)
    BY <1>2
  <2>2. f[k] \in S /\ <<f[k], k + 1>> \in S \X Nat
    OBVIOUS
  <2>3. PICK v \in S : v = G[<<f[k], k + 1>>]
    BY <2>2
  <2>4. PICK g \in [0 .. k + 1 -> S] : g = [i \in 0 .. k + 1 |-> IF i = k + 1 THEN v ELSE f[i]]
    <3>1. \A i \in 0 .. k + 1 : (IF i = k + 1 THEN v ELSE f[i]) \in S
      OBVIOUS
    <3> QED
      BY <3>1
  <2>5. g[k + 1] = v /\ \A i \in 0 .. k : g[i] = f[i]
    BY <2>4
  <2>6. Steps(k + 1, g)
    <3>1. g[0] = a
      BY <2>1, <2>5
    <3>2. ASSUME NEW n \in 1 .. k + 1  PROVE  g[n] = G[<<g[n - 1], n>>]
      <4>1. CASE n = k + 1
        BY <2>3, <2>5, <4>1
      <4>2. CASE n # k + 1
        <5>1. n \in 1 .. k /\ n \in 0 .. k /\ n - 1 \in 0 .. k
          BY <4>2
        <5> QED
          BY <2>1, <2>5, <5>1
      <4> QED
        BY <4>1, <4>2
    <3> QED
      BY <3>1, <3>2
  <2> QED
    BY <2>6
<1>3. Nat \subseteq T
  <2> HIDE DEF T
  <2> QED
    BY <1>1, <1>2, Upward
<1>4. PICK f \in [0 .. m -> S] : Steps(m, f)
  BY <1>3
<1> QED
  BY <1>4 DEF Stepwise

LEMMA LookupExtends ==
  ASSUME handles \in Seq(Handle), ChainOK(markers, handles, recs), NEW strays
  PROVE  lookedUp(strays) \in Seq(Handle) /\ Extends(handles, lookedUp(strays))
<1> DEFINE m == Len(markers)
           S == {hs \in Seq(Handle) : Extends(handles, hs)}
           Fits(f) == f = [n \in 0 .. m |-> IF n = 0 THEN handles ELSE lookedUpAt(f[n - 1], n, strays)]
<1>1. markers \in Seq(MarkerRec) /\ m \in Nat
  BY DEF ChainOK
<1>2. handles \in S
  BY DEF Extends
<1>3. ASSUME NEW hs \in S, NEW n \in 1 .. m  PROVE  lookedUpAt(hs, n, strays) \in S
  <2>1. /\ hs \in Seq(Handle) /\ Extends(handles, hs)
        /\ Len(handles) \in Nat /\ Len(hs) \in Nat /\ Len(handles) <= Len(hs)
    BY DEF Extends
  <2> DEFINE mk == markers[n]
  <2>2. MarkerOK(mk, handles, recs)
    BY DEF ChainOK
  <2>3. mk \in MarkerRec /\ mk.hOff + mk.hSize <= Len(handles) /\ (mk.size = 0 <=> mk.hSize = 0)
    BY <2>2 DEF MarkerOK
  <2>4. mk.target \in Handle /\ mk.hOff \in Nat /\ mk.hSize \in Nat
    BY <2>3 DEF MarkerRec, Handle
  <2> HIDE DEF mk
  <2>5. mk.hOff + mk.hSize <= Len(hs)
    BY <2>1, <2>3, <2>4
  <2>6. /\ withHandle(hs, mk, mk.target) \in Seq(Handle)
        /\ Extends(hs, withHandle(hs, mk, mk.target))
    BY <2>1, <2>3, <2>4, <2>5, WithHandleIs
  <2>7. /\ Append(hs, mk.target) \in Seq(Handle) /\ Extends(hs, Append(hs, mk.target))
    BY <2>1, <2>4, AppendExtends
  <2>8. /\ lookedUpAt(hs, n, strays) \in {hs, withHandle(hs, mk, mk.target), Append(hs, mk.target)}
    BY DEF lookedUpAt, mk
  <2>9. ASSUME NEW h2 \in Seq(Handle), Extends(hs, h2)  PROVE  h2 \in S
    <3>1. Len(h2) \in Nat
      OBVIOUS
    <3> QED
      BY <2>1, <2>9, <3>1 DEF Extends
  <2> QED
    BY <2>6, <2>7, <2>8, <2>9
<1> HIDE DEF S
<1>4. \E f : Fits(f)
  <2> DEFINE G == [x \in S \X Nat |-> IF x[2] \in 1 .. m THEN lookedUpAt(x[1], x[2], strays) ELSE x[1]]
  <2>1. G \in [S \X Nat -> S]
    BY <1>3
  <2>2. PICK f : Stepwise(f, S, handles, G, m)
    <3> HIDE DEF G
    <3> QED
      BY <1>1, <1>2, <2>1, StepByStep, Zenon
  <2>3. ASSUME NEW n \in 0 .. m
        PROVE  f[n] = IF n = 0 THEN handles ELSE lookedUpAt(f[n - 1], n, strays)
    <3>1. CASE n = 0
      BY <2>2, <3>1 DEF Stepwise
    <3>2. CASE n # 0
      <4>1. n \in 1 .. m /\ n - 1 \in 0 .. m
        BY <1>1, <3>2
      <4>2. <<f[n - 1], n>> \in S \X Nat
        BY <2>2, <4>1 DEF Stepwise
      <4>3. G[<<f[n - 1], n>>] = lookedUpAt(f[n - 1], n, strays)
        BY <4>1, <4>2
      <4> QED
        BY <2>2, <3>2, <4>1, <4>3 DEF Stepwise
    <3> QED
      BY <3>1, <3>2
  <2> HIDE DEF G
  <2>4. Fits(f)
    BY <2>2, <2>3 DEF Stepwise
  <2> QED
    BY <2>4
<1>5. PICK f : f = CHOOSE g : Fits(g)
  OBVIOUS
<1>6. Fits(f)
  BY <1>4, <1>5
<1>7. lookedUp(strays) = f[m]
  BY <1>5 DEF lookedUp
<1> DEFINE T == {n \in Nat : n \in 0 .. m => f[n] \in S}
<1> HIDE DEF Fits
<1>8. 0 \in T
  BY <1>1, <1>2, <1>6 DEF Fits
<1>9. ASSUME NEW n \in Nat, n \in T  PROVE  n + 1 \in T
  <2>1. ASSUME n + 1 \in 0 .. m  PROVE  f[n + 1] \in S
    <3>1. n + 1 \in 1 .. m /\ n + 1 - 1 = n /\ n \in 0 .. m
      BY <1>1, <2>1
    <3>2. f[n + 1] = lookedUpAt(f[n], n + 1, strays)
      BY <1>6, <3>1 DEF Fits
    <3> QED
      BY <1>3, <1>9, <3>1, <3>2
  <2> QED
    BY <2>1
<1>10. f[m] \in S
  <2> HIDE DEF T
  <2>1. m \in T
    BY <1>1, <1>8, <1>9, Upward
  <2> QED
    BY <1>1, <2>1 DEF T
<1> QED
  BY <1>7, <1>10 DEF S

(* The place of a name in a list is a place that has it.                   *)
LEMMA PlaceOfName ==
  ASSUME NEW S, NEW list \in Seq(S), NEW x, \E i \in 1 .. Len(list) : list[i] = x
  PROVE  LET at == SelectInSeq(list, LAMBDA h : h = x)
         IN  at \in 1 .. Len(list) /\ list[at] = x
<1> DEFINE I == {i \in 1 .. Len(list) : list[i] = x}
<1>1. I \subseteq Nat /\ I # {}
  OBVIOUS
<1>2. PICK i \in I : \A j \in I : ~ (<<j, i>> \in OpToRel(<, Nat))
  <2> HIDE DEF I
  <2> QED
    BY <1>1, NatLessThanWellFounded, WFMin, Zenon
<1>3. \A j \in I : i <= j
  <2>1. \A j \in I : ~ (j < i)
    BY <1>1, <1>2 DEF OpToRel
  <2> QED
    BY <1>1, <2>1
<1>4. Min(I) \in I
  <2> HIDE DEF I
  <2> QED
    BY <1>2, <1>3 DEF Min
<1>5. SelectInSeq(list, LAMBDA h : h = x) = Min(I)
  BY <1>1 DEF SelectInSeq
<1> QED
  BY <1>4, <1>5

(* What the kernel is told of marker m's job: m's slices, and a name for   *)
(* the job's target that is its place in the slice of the handles.         *)
ToldRight(s, m, hs) ==
  /\ s.target = m.target /\ s.ms = m.ms /\ s.count = m.count
  /\ s.handles \in Seq(Handle) /\ ToSet(s.handles) = Named(m, hs)
  /\ s.draws \in Seq(Buffers) /\ Len(s.draws) = m.rSize
  /\ \A j \in 1 .. m.rSize : s.draws[j] = recs[m.rOff + j]
  /\ ~ s.ms => /\ s.index < Len(s.handles)
               /\ s.handles[s.index + 1] = s.target

LEMMA JobIsTold ==
  ASSUME NEW hs \in Seq(Handle), recs \in Seq(Buffers), NEW m, NEW old,
         MarkerOK(m, hs, recs), MarkerOK(old, hs, recs), m.size # 0,
         m.target = old.target, m.hOff = old.hOff,
         handlesEnd(old, hs) = m.hOff + m.hSize
  PROVE  ToldRight(SentJob(hs, m, IF m.ms THEN MaxHandles ELSE handleIndex(hs, old, m.target)),
                   m, hs)
<1> DEFINE index == IF m.ms THEN MaxHandles ELSE handleIndex(hs, old, m.target)
           s == SentJob(hs, m, index)
<1>1. /\ m \in MarkerRec /\ m.hOff \in Nat /\ m.hSize \in Nat /\ m.rOff \in Nat /\ m.rSize \in Nat
      /\ m.hOff + m.hSize <= Len(hs) /\ m.rOff + m.rSize <= Len(recs)
  BY DEF MarkerOK, MarkerRec
<1>2. /\ s.handles = slice(hs, m.hOff, m.hSize) /\ s.draws = slice(recs, m.rOff, m.rSize)
      /\ s.count = m.count /\ s.target = m.target /\ s.ms = m.ms /\ s.index = index
  BY DEF SentJob
<1> HIDE DEF s, index
<1>3. /\ s.handles \in Seq(Handle) /\ Len(s.handles) = m.hSize
      /\ \A j \in 1 .. m.hSize : s.handles[j] = hs[m.hOff + j]
  <2>1. /\ slice(hs, m.hOff, m.hSize) \in Seq(Handle) /\ Len(slice(hs, m.hOff, m.hSize)) = m.hSize
        /\ \A j \in 1 .. m.hSize : slice(hs, m.hOff, m.hSize)[j] = hs[m.hOff + j]
    BY <1>1, SliceIs
  <2> QED
    BY <1>2, <2>1
<1>4. /\ s.draws \in Seq(Buffers) /\ Len(s.draws) = m.rSize
      /\ \A j \in 1 .. m.rSize : s.draws[j] = recs[m.rOff + j]
  <2>1. /\ slice(recs, m.rOff, m.rSize) \in Seq(Buffers) /\ Len(slice(recs, m.rOff, m.rSize)) = m.rSize
        /\ \A j \in 1 .. m.rSize : slice(recs, m.rOff, m.rSize)[j] = recs[m.rOff + j]
    <3>1. recs \in Seq(Buffers) /\ m.rOff \in Nat /\ m.rSize \in Nat /\ m.rOff + m.rSize <= Len(recs)
      BY <1>1
    <3>2. slice(recs, m.rOff, m.rSize) \in Seq(Buffers)
      BY <3>1, SliceIs
    <3>3. Len(slice(recs, m.rOff, m.rSize)) = m.rSize
      BY <3>1, SliceIs
    <3>4. \A j \in 1 .. m.rSize : slice(recs, m.rOff, m.rSize)[j] = recs[m.rOff + j]
      BY <3>1, SliceIs
    <3> QED
      BY <3>2, <3>3, <3>4
  <2> QED
    BY <1>2, <2>1
<1>5. ToSet(s.handles) = Named(m, hs)
  <2>1. handlesEnd(m, hs) = m.hOff + m.hSize
    BY DEF handlesEnd
  <2>2. \A j \in 1 .. m.hSize : m.hOff + j \in m.hOff + 1 .. m.hOff + m.hSize
    BY <1>1
  <2>3. \A j \in m.hOff + 1 .. m.hOff + m.hSize :
          j - m.hOff \in 1 .. m.hSize /\ m.hOff + (j - m.hOff) = j
    BY <1>1
  <2>4. \A j \in 1 .. m.hSize : s.handles[j] \in Named(m, hs)
    BY <1>3, <2>1, <2>2 DEF Named
  <2>5. \A j \in m.hOff + 1 .. m.hOff + m.hSize :
          \E k \in 1 .. m.hSize : hs[j] = s.handles[k]
    BY <1>3, <2>3
  <2>6. DOMAIN s.handles = 1 .. m.hSize
    BY <1>3, LenProperties
  <2> QED
    BY <2>1, <2>4, <2>5, <2>6 DEF Named, ToSet
<1>6. ASSUME ~ s.ms  PROVE  s.index < Len(s.handles) /\ s.handles[s.index + 1] = s.target
  <2>1. /\ old \in MarkerRec /\ old.hOff + old.hSize <= Len(hs)
        /\ (old.size = 0 <=> old.hSize = 0) /\ old.target \in Named(old, hs)
    BY DEF MarkerOK
  <2>2. /\ searched(hs, old.hOff, old.hSize) = slice(hs, old.hOff, handlesEnd(old, hs) - old.hOff)
        /\ holds(hs, old, m.target)
    BY <2>1, HoldsIs
  <2>3. searched(hs, old.hOff, old.hSize) = s.handles
    <3>1. handlesEnd(old, hs) - old.hOff = m.hSize
      BY <1>1
    <3> QED
      BY <1>2, <2>2, <3>1
  <2> DEFINE at == SelectInSeq(s.handles, LAMBDA h : h = m.target)
  <2>4. handleIndex(hs, old, m.target) = at - 1
    BY <2>2, <2>3 DEF handleIndex
  <2>5. \E j \in 1 .. Len(s.handles) : s.handles[j] = m.target
    <3>1. DOMAIN s.handles = 1 .. Len(s.handles)
      BY <1>3, LenProperties
    <3> QED
      BY <1>5, <3>1 DEF MarkerOK, ToSet
  <2>6. at \in 1 .. Len(s.handles) /\ s.handles[at] = m.target
    BY <1>3, <2>5, PlaceOfName
  <2>7. s.index = at - 1
    BY <1>2, <1>6, <2>4 DEF index
  <2> HIDE DEF at
  <2> QED
    BY <1>1, <1>2, <1>3, <2>6, <2>7
<1>7. ToldRight(s, m, hs)
  BY <1>2, <1>3, <1>4, <1>5, <1>6 DEF ToldRight
<1> QED
  BY <1>7 DEF s, index

LEMMA ChainExtends ==
  ASSUME NEW hs \in Seq(Handle), handles \in Seq(Handle), recs \in Seq(Buffers),
         Extends(handles, hs), ChainOK(markers, handles, recs),
         RecordedOK(recorded, markers, handles, recs)
  PROVE  ChainOK(markers, hs, recs) /\ RecordedOK(recorded, markers, hs, recs)
<1>1. ASSUME NEW i \in 1 .. Len(markers)
      PROVE  /\ MarkerOK(markers[i], hs, recs)
             /\ \A job : JobOK(markers[i], job, handles, recs) => JobOK(markers[i], job, hs, recs)
  <2>1. MarkerOK(markers[i], handles, recs)
    BY DEF ChainOK
  <2> QED
    BY <2>1, MarkerKept
<1>2. ChainOK(markers, hs, recs)
  BY <1>1 DEF ChainOK
<1>3. ASSUME NEW k \in 1 .. Len(recorded)
      PROVE  JobOK(markers[Len(markers) - Len(recorded) + k], recorded[k], hs, recs)
  <2>1. Len(markers) - Len(recorded) + k \in 1 .. Len(markers)
    <3>1. Len(markers) \in Nat /\ Len(recorded) \in Nat /\ Len(recorded) <= Len(markers)
      BY DEF RecordedOK, ChainOK
    <3> QED
      BY <3>1
  <2> QED
    BY <1>1, <2>1 DEF RecordedOK
<1>4. RecordedOK(recorded, markers, hs, recs)
  BY <1>3 DEF RecordedOK
<1> QED
  BY <1>2, <1>4

-----------------------------------------------------------------------------
(* A submit closes the last marker and tells each job by its slices.       *)
LEMMA Submits ==
  ASSUME ListTypes, ChainOK(markers, handles, recs),
         RecordedOK(recorded, markers, handles, recs),
         ~ stale => Len(markers) = Len(recorded), vkQueueSubmit
  PROVE  /\ handles' \in Seq(Handle) /\ ChainOK(markers', handles', recs)
         /\ RecordedOK(recorded, markers', handles', recs)
         /\ Len(markers') = Len(markers) /\ SentOK'
<1> DEFINE n == Len(markers)
           lm == Last(markers)
<1>1. PICK strays :
        LET hs == lookedUp(strays)
            ms == IF markers = <<>> \/ lm.size # 0 THEN markers
                  ELSE [closed(markers) EXCEPT ![n].hSize = Len(hs) - lm.hOff]
        IN  /\ handles' = hs
            /\ markers' = ms
            /\ sent' = [i \in DOMAIN ms |->
                 SentJob(hs, ms[i], IF ms[i].ms THEN MaxHandles
                                    ELSE handleIndex(hs, markers[i], ms[i].target))]
  BY DEF vkQueueSubmit
<1>2. recs' = recs /\ recorded' = recorded /\ stale' = stale
  BY DEF vkQueueSubmit
<1>3. /\ handles \in Seq(Handle) /\ recs \in Seq(Buffers) /\ Len(recs) \in Nat
      /\ markers \in Seq(MarkerRec) /\ n \in Nat /\ DOMAIN markers = 1 .. n
  BY LenProperties DEF ListTypes, ChainOK
<1>4. handles' \in Seq(Handle) /\ Extends(handles, handles') /\ Len(handles') \in Nat
  BY <1>1, <1>3, LookupExtends
<1>5. ChainOK(markers, handles', recs) /\ RecordedOK(recorded, markers, handles', recs)
  BY <1>3, <1>4, ChainExtends
<1>6. /\ ChainOK(markers', handles', recs) /\ RecordedOK(recorded, markers', handles', recs)
      /\ Len(markers') = n
      /\ \A i \in 1 .. n :
           /\ markers'[i].size # 0 /\ markers'[i].target = markers[i].target
           /\ markers'[i].hOff = markers[i].hOff
           /\ handlesEnd(markers[i], handles') = markers'[i].hOff + markers'[i].hSize
  <2>1. CASE markers = <<>> \/ lm.size # 0
    <3>1. markers' = markers
      BY <1>1, <2>1
    <3>2. \A i \in 1 .. n : markers[i].size # 0
      <4>1. CASE markers = <<>>
        BY <4>1, EmptySeq
      <4>2. CASE lm.size # 0
        BY <1>5, <4>2 DEF ChainOK, Last
      <4> QED
        BY <2>1, <4>1, <4>2
    <3> QED
      BY <1>5, <3>1, <3>2 DEF handlesEnd
  <2>2. CASE markers # <<>> /\ lm.size = 0
    <3> DEFINE cs == chainClosed(markers, handles', recs, bin)
    <3>1. bin \in Nat \ {0} /\ n \in 1 .. n
      BY <1>3, <2>2, EmptySeq DEF ListTypes
    <3>2. lm \in MarkerRec
      BY <1>3, <3>1, ElementOfSeq DEF Last
    <3>3. markers' = cs
      <4> DEFINE c0 == [lm EXCEPT !.size = bin, !.hSize = Len(handles) - lm.hOff,
                                  !.rSize = Len(recs) - lm.rOff, !.count = shaderRecCount - lm.count]
      <4>1. closed(markers) = [markers EXCEPT ![n] = c0]
        BY DEF closed
      <4>2. markers' = [[markers EXCEPT ![n] = c0] EXCEPT ![n].hSize = Len(handles') - lm.hOff]
        BY <1>1, <2>2, <4>1
      <4>3. [c0 EXCEPT !.hSize = Len(handles') - lm.hOff] = closedAt(lm, handles', recs, bin)
        BY <3>2 DEF closedAt, ListTypes, MarkerRec
      <4> HIDE DEF c0, lm
      <4>4. markers' = [markers EXCEPT ![n] = [c0 EXCEPT !.hSize = Len(handles') - lm.hOff]]
        BY <1>3, <3>1, <4>2
      <4> QED
        BY <4>3, <4>4 DEF chainClosed, lm
    <3>4. /\ ChainOK(cs, handles', recs) /\ AllClosed(cs) /\ Len(cs) = n
          /\ Last(cs).hOff + Last(cs).hSize = Len(handles')
          /\ \A rec : RecordedOK(rec, markers, handles', recs) => RecordedOK(rec, cs, handles', recs)
      <4>1. PICK hs : hs = handles'
        OBVIOUS
      <4>2. /\ hs \in Seq(Handle) /\ recs \in Seq(Buffers) /\ bin \in Nat \ {0}
            /\ ChainOK(markers, hs, recs) /\ markers # <<>> /\ Last(markers).size = 0
        BY <1>3, <1>4, <1>5, <2>2, <3>1, <4>1
      <4> DEFINE es == chainClosed(markers, hs, recs, bin)
      <4>3. /\ ChainOK(es, hs, recs) /\ AllClosed(es) /\ Len(es) = Len(markers)
            /\ Last(es).hOff + Last(es).hSize = Len(hs)
            /\ \A rec : RecordedOK(rec, markers, hs, recs) => RecordedOK(rec, es, hs, recs)
        BY <4>2, ChainCloses
      <4> QED
        BY <4>1, <4>3
    <3>5. ASSUME NEW i \in 1 .. n
          PROVE  /\ cs[i].size # 0 /\ cs[i].target = markers[i].target
                 /\ cs[i].hOff = markers[i].hOff
                 /\ handlesEnd(markers[i], handles') = cs[i].hOff + cs[i].hSize
      <4>1. cs[i].size # 0
        BY <3>4, <3>5 DEF AllClosed
      <4>2. CASE i = n
        <5>1. cs[i] = closedAt(lm, handles', recs, bin)
          BY <1>3, <4>2 DEF chainClosed
        <5>2. cs[i].target = lm.target /\ cs[i].hOff = lm.hOff
          BY <3>2, <5>1 DEF closedAt, MarkerRec
        <5> QED
          BY <2>2, <3>4, <4>1, <4>2, <5>2 DEF Last, handlesEnd
      <4>3. CASE i # n
        <5>1. cs[i] = markers[i]
          BY <1>3, <4>3 DEF chainClosed
        <5> QED
          BY <4>1, <5>1 DEF handlesEnd
      <4> QED
        BY <4>2, <4>3
    <3> QED
      BY <1>5, <3>3, <3>4, <3>5
  <2> QED
    BY <2>1, <2>2
<1>7. markers' \in Seq(MarkerRec) /\ DOMAIN markers' = 1 .. n
  BY <1>6, LenProperties DEF ChainOK
<1>8. /\ Len(sent') = n /\ DOMAIN sent' = 1 .. n
      /\ \A i \in 1 .. n :
           sent'[i] = SentJob(handles', markers'[i],
                              IF markers'[i].ms THEN MaxHandles
                              ELSE handleIndex(handles', markers[i], markers'[i].target))
  BY <1>1, <1>3, <1>7
<1>9. ASSUME NEW i \in 1 .. n
      PROVE  ToldRight(sent'[i], markers'[i], handles')
  <2>1. MarkerOK(markers'[i], handles', recs) /\ MarkerOK(markers[i], handles', recs)
    BY <1>5, <1>6 DEF ChainOK
  <2> QED
    BY <1>3, <1>4, <1>6, <1>8, <2>1, JobIsTold
<1>10. ASSUME NEW k \in 1 .. Len(recorded)
       PROVE  sentAs(sent'[n - Len(recorded) + k], recorded[k])
  <2> DEFINE i == n - Len(recorded) + k
             m == markers'[i]
             s == sent'[i]
             job == recorded[k]
  <2>1. i \in 1 .. n
    BY <1>3, <1>5 DEF RecordedOK
  <2>2. JobOK(m, job, handles', recs) /\ job \in JobRec
    BY <1>6, ElementOfSeq DEF RecordedOK
  <2>3. /\ ToldRight(s, m, handles') /\ m.size # 0 /\ m \in MarkerRec
        /\ m.target \in Named(m, handles')
    BY <1>6, <1>9, <2>1 DEF ChainOK, MarkerOK
  <2> HIDE DEF i, m, s, job
  <2>4. Len(job.draws) = m.rSize
    <3>1. m.rOff \in Nat /\ m.rSize \in Nat /\ recsEnd(m, recs) = m.rOff + m.rSize
      BY <2>3 DEF MarkerRec, recsEnd
    <3> QED
      BY <2>2, <3>1 DEF JobOK
  <2>5. s.draws = job.draws
    <3>1. s.draws \in Seq(Buffers) /\ job.draws \in Seq(Buffers) /\ Len(s.draws) = Len(job.draws)
      BY <2>2, <2>3, <2>4 DEF JobRec, ToldRight
    <3>2. \A j \in 1 .. Len(s.draws) : s.draws[j] = job.draws[j]
      BY <2>2, <2>3, <2>4 DEF JobOK, ToldRight
    <3> QED
      BY <3>1, <3>2, SeqEqual
  <2>6. {job.target} \cup ToSet(job.draws) \subseteq ToSet(s.handles)
    <3>1. DOMAIN job.draws = 1 .. Len(job.draws)
      BY <2>2, LenProperties DEF JobRec
    <3>2. ToSet(job.draws) \subseteq Named(m, handles')
      BY <2>2, <3>1 DEF JobOK, ToSet
    <3> QED
      BY <2>2, <2>3, <3>2 DEF JobOK, ToldRight
  <2>7. sentAs(s, job)
    BY <2>2, <2>3, <2>5, <2>6 DEF JobOK, ToldRight, sentAs
  <2> QED
    BY <2>7 DEF i, s, job
<1>11. RecordedJobsSent'
  <2>1. DOMAIN recorded' = 1 .. Len(recorded) /\ Len(recorded) <= n
    BY <1>2, <1>5, LenProperties DEF RecordedOK
  <2> QED
    BY <1>2, <1>8, <1>10, <2>1 DEF RecordedJobsSent
<1>12. NothingElseSent'
  BY <1>2, <1>8 DEF NothingElseSent
<1>13. NamesAreThere'
  <2>1. ASSUME NEW i \in 1 .. n
        PROVE  /\ ~ sent'[i].ms => /\ sent'[i].index < Len(sent'[i].handles)
                                   /\ sent'[i].handles[sent'[i].index + 1] = sent'[i].target
               /\ sent'[i].count >= Len(sent'[i].draws)
    <3>1. ToldRight(sent'[i], markers'[i], handles')
      BY <1>9
    <3>2. markers'[i].count >= markers'[i].rSize
      BY <1>6 DEF ChainOK, MarkerOK, MarkerRec
    <3> QED
      BY <3>1, <3>2 DEF ToldRight
  <2> QED
    BY <1>8, <2>1 DEF NamesAreThere, IndexNamesTarget, CountCoversRecords
<1> QED
  BY <1>4, <1>6, <1>11, <1>12, <1>13 DEF SentOK

-----------------------------------------------------------------------------
(* Empty lists hold no jobs, and an empty answer is right.                 *)
LEMMA NothingRecorded ==
  ASSUME NEW ms, NEW hs, NEW rs, ChainOK(ms, hs, rs)
  PROVE  RecordedOK(<<>>, ms, hs, rs)
<1>1. Len(ms) \in Nat
  BY DEF ChainOK
<1> QED
  BY <1>1, EmptySeq DEF RecordedOK

LEMMA EmptyChain == ChainOK(<<>>, <<>>, <<>>)
BY EmptySeq DEF ChainOK

LEMMA NothingSent ==
  ASSUME sent = <<>>
  PROVE  SentOK
BY EmptySeq DEF SentOK, RecordedJobsSent, NothingElseSent, NamesAreThere,
     IndexNamesTarget, CountCoversRecords

LEMMA InitBuffer == Init => BufferInv
<1> SUFFICES ASSUME Init  PROVE  BufferInv
  OBVIOUS
<1>1. ListTypes /\ PhaseOK
  BY EmptySeq DEF Init, ListTypes, PhaseOK, States
<1>2. ChainOK(markers, handles, recs) /\ RecordedOK(recorded, markers, handles, recs)
  BY EmptyChain, NothingRecorded DEF Init
<1>3. SentOK
  BY NothingSent DEF Init
<1> QED
  BY <1>1, <1>2, <1>3 DEF BufferInv

LEMMA BeginKeeps == BufferInv /\ vkBeginCommandBuffer => BufferInv'
<1> SUFFICES ASSUME BufferInv, vkBeginCommandBuffer  PROVE  BufferInv'
  OBVIOUS
<1> USE DEF BufferInv
<1>1. SentOK'
  <2>1. sent' = <<>>
    BY DEF vkBeginCommandBuffer
  <2> QED
    BY <2>1, EmptySeq DEF SentOK, RecordedJobsSent, NothingElseSent, NamesAreThere,
         IndexNamesTarget, CountCoversRecords
<1>2. recorded' = <<>> /\ state' = "RECORDING" /\ sent' = <<>>
  BY DEF vkBeginCommandBuffer
<1>3. CASE state # "INITIAL"
  <2>1. /\ markers' = <<>> /\ handles' = <<>> /\ recs' = <<>> /\ inPass' = FALSE
        /\ bin' = 0 /\ shaderRecCount' = 0
    BY <1>3 DEF vkBeginCommandBuffer, emptyLists
  <2>2. ChainOK(markers, handles, recs)' /\ RecordedOK(recorded, markers, handles, recs)'
    BY <1>2, <2>1, EmptyChain, NothingRecorded
  <2>3. ListTypes'
    BY <1>3, <2>1, EmptySeq DEF vkBeginCommandBuffer, ListTypes, States
  <2>4. PhaseOK'
    BY <1>2, <2>1 DEF PhaseOK
  <2> QED
    BY <1>1, <2>2, <2>3, <2>4
<1>4. CASE state = "INITIAL"
  <2>1. UNCHANGED <<lists, inPass>> /\ stale' = (markers # <<>>)
    BY <1>4 DEF vkBeginCommandBuffer
  <2>2. ChainOK(markers, handles, recs)' /\ RecordedOK(recorded, markers, handles, recs)'
    BY <1>2, <2>1, NothingRecorded DEF lists
  <2>3. ListTypes'
    BY <1>2, <2>1 DEF vkBeginCommandBuffer, ListTypes, States, lists
  <2>4. PhaseOK'
    BY <1>2, <1>4, <2>1, EmptySeq DEF PhaseOK, lists
  <2> QED
    BY <1>1, <2>2, <2>3, <2>4
<1> QED
  BY <1>3, <1>4

LEMMA ResetKeeps == BufferInv /\ vkResetCommandBuffer => BufferInv'
<1> SUFFICES ASSUME BufferInv, vkResetCommandBuffer  PROVE  BufferInv'
  OBVIOUS
<1>1. /\ markers' = <<>> /\ handles' = <<>> /\ recs' = <<>> /\ inPass' = FALSE
      /\ bin' = 0 /\ shaderRecCount' = 0 /\ recorded' = <<>> /\ sent' = <<>>
  BY DEF vkResetCommandBuffer, emptyLists
<1>2. ChainOK(markers, handles, recs)' /\ RecordedOK(recorded, markers, handles, recs)'
  BY <1>1, EmptyChain, NothingRecorded
<1>3. ListTypes'
  BY <1>1, EmptySeq DEF BufferInv, vkResetCommandBuffer, ListTypes, States
<1>4. PhaseOK'
  BY <1>1 DEF PhaseOK
<1>5. SentOK'
  BY <1>1, EmptySeq DEF SentOK, RecordedJobsSent, NothingElseSent, NamesAreThere,
       IndexNamesTarget, CountCoversRecords
<1> QED
  BY <1>2, <1>3, <1>4, <1>5 DEF BufferInv

LEMMA ResetPoolKeeps == BufferInv /\ vkResetCommandPool => BufferInv'
<1> SUFFICES ASSUME BufferInv, vkResetCommandPool  PROVE  BufferInv'
  OBVIOUS
<1>1. /\ UNCHANGED lists /\ inPass' = FALSE /\ recorded' = <<>> /\ sent' = <<>>
      /\ state' = "INITIAL"
  BY DEF vkResetCommandPool
<1>2. ChainOK(markers, handles, recs)' /\ RecordedOK(recorded, markers, handles, recs)'
  BY <1>1, NothingRecorded DEF BufferInv, lists
<1>3. ListTypes'
  BY <1>1 DEF BufferInv, vkResetCommandPool, ListTypes, States, lists
<1>4. PhaseOK'
  BY <1>1 DEF PhaseOK
<1>5. SentOK'
  BY <1>1, EmptySeq DEF SentOK, RecordedJobsSent, NothingElseSent, NamesAreThere,
       IndexNamesTarget, CountCoversRecords
<1> QED
  BY <1>2, <1>3, <1>4, <1>5 DEF BufferInv

(* What BeginRenderPass and ClearColorImage share: one more job.           *)
OneMoreJob(target, multi) ==
  /\ clInsertNewCLMarker(target, multi)
  /\ handles' = withHandle(handles, Last(markers'), target)
  /\ recorded' = Append(recorded, Job(target, multi))
  /\ state = "RECORDING" /\ bin' \in Nat \ {0} /\ inPass' \in BOOLEAN
  /\ UNCHANGED <<state, resetAble, oneTime, recs, shaderRecCount, sent, stale>>

LEMMA JobKeeps ==
  ASSUME NEW target \in Images, NEW multi \in BOOLEAN, BufferInv, OneMoreJob(target, multi)
  PROVE  BufferInv'
<1>1. /\ ChainOK(markers', handles', recs') /\ RecordedOK(recorded', markers', handles', recs')
      /\ handles' \in Seq(Handle) /\ Last(markers').size = 0
      /\ Len(markers') = Len(markers) + 1 /\ Len(recorded') = Len(recorded) + 1
  BY NewJob DEF BufferInv, OneMoreJob
<1>2. ListTypes'
  BY <1>1 DEF BufferInv, OneMoreJob, ListTypes
<1>3. PhaseOK'
  <2>1. recorded' # <<>>
    <3>1. Len(recorded) \in Nat
      BY DEF BufferInv, RecordedOK
    <3> QED
      BY <1>1, <3>1, EmptySeq
  <2> QED
    BY <1>1, <2>1 DEF BufferInv, OneMoreJob, PhaseOK
<1>4. SentOK'
  <2>1. sent' = <<>>
    BY DEF BufferInv, OneMoreJob, PhaseOK
  <2> QED
    BY <2>1, EmptySeq DEF SentOK, RecordedJobsSent, NothingElseSent, NamesAreThere,
         IndexNamesTarget, CountCoversRecords
<1> QED
  BY <1>1, <1>2, <1>3, <1>4 DEF BufferInv

LEMMA DrawKeeps ==
  ASSUME NEW buffer \in Buffers, BufferInv, vkCmdDraw(buffer)
  PROVE  BufferInv'
<1>1. /\ recorded # <<>> /\ Last(markers).size = 0 /\ state = "RECORDING" /\ sent = <<>>
      /\ bin \in Nat
  BY DEF BufferInv, vkCmdDraw, PhaseOK, ListTypes
<1>2. /\ ChainOK(markers', handles', recs') /\ RecordedOK(recorded', markers', handles', recs')
      /\ handles' \in Seq(Handle) /\ recs' \in Seq(Buffers) /\ shaderRecCount' = Len(recs')
      /\ Len(recorded') = Len(recorded)
  BY <1>1, Draws DEF BufferInv, vkCmdDraw
<1>3. ListTypes'
  BY <1>1, <1>2 DEF BufferInv, vkCmdDraw, ListTypes
<1>4. PhaseOK'
  <2>1. recorded' # <<>>
    <3>1. recorded \in Seq(JobRec) /\ Len(recorded) # 0
      BY <1>1, EmptySeq DEF BufferInv, RecordedOK
    <3> QED
      BY <1>2, <3>1, EmptySeq
  <2> QED
    BY <1>1, <1>2, <2>1 DEF BufferInv, vkCmdDraw, PhaseOK
<1>5. SentOK'
  <2>1. sent' = <<>>
    BY <1>1 DEF vkCmdDraw
  <2> QED
    BY <2>1, EmptySeq DEF SentOK, RecordedJobsSent, NothingElseSent, NamesAreThere,
         IndexNamesTarget, CountCoversRecords
<1> QED
  BY <1>2, <1>3, <1>4, <1>5 DEF BufferInv

LEMMA SubmitKeeps == BufferInv /\ vkQueueSubmit => BufferInv'
<1> SUFFICES ASSUME BufferInv, vkQueueSubmit  PROVE  BufferInv'
  OBVIOUS
<1>1. /\ state = "EXECUTABLE" /\ ~ inPass
      /\ state' \in {"INVALID", "EXECUTABLE"}
      /\ UNCHANGED <<resetAble, oneTime, bin, recs, shaderRecCount, inPass, recorded, stale>>
  BY DEF BufferInv, PhaseOK, vkQueueSubmit
<1>2. ~ stale => Len(markers) = Len(recorded)
  BY <1>1 DEF BufferInv, PhaseOK
<1>3. /\ handles' \in Seq(Handle) /\ ChainOK(markers', handles', recs)
      /\ RecordedOK(recorded, markers', handles', recs)
      /\ Len(markers') = Len(markers) /\ SentOK'
  BY <1>2, Submits DEF BufferInv
<1>4. ListTypes'
  <2>1. markers' # <<>> => markers # <<>>
    BY <1>3, EmptySeq DEF ChainOK, BufferInv
  <2> QED
    BY <1>1, <1>3, <2>1 DEF BufferInv, ListTypes, States
<1>5. PhaseOK'
  BY <1>1, <1>2, <1>3 DEF PhaseOK
<1> QED
  BY <1>1, <1>3, <1>4, <1>5 DEF BufferInv

LEMMA BufferSteps == BufferInv /\ [Next]_vars => BufferInv'
<1> SUFFICES ASSUME BufferInv, [Next]_vars  PROVE  BufferInv'
  OBVIOUS
<1>1. CASE vkBeginCommandBuffer
  BY <1>1, BeginKeeps
<1>2. CASE vkEndCommandBuffer \/ vkCmdEndRenderPass
  <2>1. /\ UNCHANGED <<resetAble, oneTime, markers, handles, recs, shaderRecCount,
                       recorded, sent, stale>>
        /\ state = "RECORDING" /\ state' \in {"RECORDING", "EXECUTABLE"}
        /\ inPass' = FALSE /\ bin' \in {bin, bin + 1}
    BY <1>2 DEF vkEndCommandBuffer, vkCmdEndRenderPass, lists, BufferInv, ListTypes
  <2>2. ListTypes'
    <3>1. bin' \in Nat /\ (bin # 0 => bin' # 0) /\ state' \in States
      BY <2>1 DEF BufferInv, ListTypes, States
    <3>2. inPass' \in BOOLEAN
      BY <2>1
    <3> QED
      BY <2>1, <3>1, <3>2, Zenon DEF BufferInv, ListTypes
  <2>3. PhaseOK'
    BY <2>1 DEF BufferInv, PhaseOK
  <2>4. SentOK'
    BY <2>1 DEF BufferInv, SentOK, RecordedJobsSent, NothingElseSent, NamesAreThere,
         IndexNamesTarget, CountCoversRecords
  <2> QED
    BY <2>1, <2>2, <2>3, <2>4 DEF BufferInv
<1>3. CASE vkResetCommandBuffer
  BY <1>3, ResetKeeps
<1>4. CASE vkResetCommandPool
  BY <1>4, ResetPoolKeeps
<1>5. CASE vkQueueSubmit
  BY <1>5, SubmitKeeps
<1>6. ASSUME NEW i \in Images, NEW multi \in BOOLEAN, vkCmdBeginRenderPass(i, multi)
      PROVE  BufferInv'
  <2>1. OneMoreJob(i, multi)
    BY <1>6 DEF vkCmdBeginRenderPass, OneMoreJob
  <2> QED
    BY <2>1, JobKeeps
<1>7. ASSUME NEW b \in Buffers, vkCmdDraw(b)  PROVE  BufferInv'
  BY <1>7, DrawKeeps
<1>8. ASSUME NEW i \in Images, vkCmdClearColorImage(i)  PROVE  BufferInv'
  <2>1. inPass' = inPass /\ inPass \in BOOLEAN /\ bin' = 2
    BY <1>8 DEF vkCmdClearColorImage, BufferInv, ListTypes
  <2>2. inPass' \in BOOLEAN /\ bin' \in Nat \ {0}
    <3>1. inPass' \in BOOLEAN
      BY <2>1, Zenon
    <3> QED
      BY <2>1, <3>1
  <2>3. OneMoreJob(i, FALSE)
    BY <1>8, <2>2, Zenon DEF vkCmdClearColorImage, OneMoreJob
  <2> QED
    BY <2>3, JobKeeps
<1>9. CASE UNCHANGED vars
  BY <1>9 DEF vars, lists, BufferInv, ListTypes, PhaseOK, SentOK, RecordedJobsSent,
       NothingElseSent, NamesAreThere, IndexNamesTarget, CountCoversRecords
<1> QED
  BY <1>1, <1>2, <1>3, <1>4, <1>5, <1>6, <1>7, <1>8, <1>9 DEF Next

LEMMA BufferAlways == Spec => []BufferInv
BY InitBuffer, BufferSteps, PTL DEF Spec

(* For any number of jobs, draws and submits, a submit sends the jobs      *)
(* recorded since vkBeginCommandBuffer, each with its own target, draws    *)
(* and handles and in their order, and nothing else unless                 *)
(* vkResetCommandPool left earlier jobs in the lists; and every variable   *)
(* keeps its type (driver/command.c, driver/ControlListUtil.c).            *)
THEOREM JobsAreSentAsRecorded == Spec => []SentIsRecorded
<1>1. BufferInv => SentIsRecorded
  <2> SUFFICES ASSUME BufferInv  PROVE  SentIsRecorded
    OBVIOUS
  <2>1. DOMAIN markers = 1 .. Len(markers)
    BY LenProperties DEF BufferInv, ChainOK
  <2>2. ASSUME NEW i \in DOMAIN markers
        PROVE  /\ markers[i].target \in Images
               /\ markers[i].hOff + markers[i].hSize \in 0 .. Len(handles)
               /\ markers[i].rOff + markers[i].rSize \in 0 .. Len(recs)
    <3>1. MarkerOK(markers[i], handles, recs)
      BY <2>1 DEF BufferInv, ChainOK
    <3>2. Len(handles) \in Nat /\ Len(recs) \in Nat
      BY DEF BufferInv, ListTypes
    <3> QED
      BY <3>1, <3>2 DEF MarkerOK, MarkerRec
  <2>3. Len(recs) \in Nat
    BY DEF BufferInv, ListTypes
  <2>4. TypeOK
    BY <2>2, <2>3 DEF BufferInv, ListTypes, TypeOK
  <2> QED
    BY <2>4 DEF BufferInv, SentOK, SentIsRecorded
<1> QED
  BY <1>1, BufferAlways, PTL

(* What a job names is there: a target's index is its place among the      *)
(* handles of the job, for every target that is not multisampled, and the  *)
(* count of shader records covers those of the job (command.c:380-391,     *)
(* 586-589), however long the chain of jobs is.                            *)
THEOREM NamesAreAlwaysThere == Spec => []NamesAreThere
<1>1. BufferInv => NamesAreThere
  BY DEF BufferInv, SentOK
<1> QED
  BY <1>1, BufferAlways, PTL
=============================================================================
