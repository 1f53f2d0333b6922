------------------------------ MODULE Recording ------------------------------
(***************************************************************************)
(* The bytes that recording writes into the seven control lists of one     *)
(* command buffer (driver/draw.c, driver/renderpass.c,                     *)
(* driver/stateChange.c, driver/ControlListUtil.c).  A list is a run of    *)
(* blocks; clFit makes room before a packet is written, and nothing checks *)
(* that the packet is as long as the room that was asked for.              *)
(*                                                                         *)
(* A secondary buffer also notes where it wrote indices into its handle    *)
(* list, because vkCmdExecuteCommands has to translate them (module        *)
(* CommandPool).                                                           *)
(***************************************************************************)
EXTENDS Integers, Sequences, SequencesExt, FiniteSets

CONSTANTS
  BlockSize,                    \* bytes of a block; 4096 in the driver
  Shaders,                      \* programs an application draws with
  Passes,                       \* render passes with their attachments
  Images,                       \* images that are cleared
  None,                         \* no image
  IndexBuffers,                 \* buffer objects of index buffers
  MaxJobs, MaxDraws             \* bounds: markers, and draws in them
ASSUME BlockSizeAssumption == BlockSize \in Nat \ {0}

(* A fragment, a vertex and a coordinate program, and no more attributes   *)
(* than the driver's maxVertexInputAttributes.                             *)
ASSUME ShadersAssumption ==
  \A s \in Shaders :
    /\ \A q \in {s.programs, s.attributes, s.descriptors} : q \in Seq(ToSet(q))
    /\ Len(s.programs) = 3 /\ Len(s.attributes) <= 8
    /\ s.samples \in Seq({"1D", "2D", "CUBE"}) /\ s.noAutoLod \in BOOLEAN
    /\ s.constants \in Nat

Lists == {"bin", "handles", "shaderRec", "uniforms",
          "uniformReloc", "gemReloc", "shaderRecReloc"}

VARIABLES
  level,                        \* "PRIMARY" or "SECONDARY"
  cl,                           \* the lists, see Empty
  known,                        \* handles in the slice of the current marker
  inPass,                       \* currRenderPass # 0
  jobs, draws,                  \* counted for the bounds
  indexed                       \* history: vkCmdDrawIndexed was recorded
vars == <<level, cl, known, inPass, jobs, draws, indexed>>

(* clInit: one block and nothing in it.  "over" is the history of how far  *)
(* writes went past the blocks, "words" of where handle indices are, and   *)
(* "relocs" is what the relocation lists say of that.                      *)
Empty == [used |-> [l \in Lists |-> 0], blocks |-> [l \in Lists |-> 1],
          over |-> [l \in Lists |-> 0], words |-> {}, relocs |-> {}]

-----------------------------------------------------------------------------
(* clHasEnoughSpace *)
HasEnoughSpace(c, l, n) == c.used[l] + n <= c.blocks[l] * BlockSize

(* Bug: the list grows by what is missing, and no further. *)
FitShort(c, l, n) ==
  IF HasEnoughSpace(c, l, n) THEN c
  ELSE [c EXCEPT !.blocks[l] = (c.used[l] + n) \div (2 * BlockSize) + 1]

(* clFit: when there is not enough room the list gets one block more than  *)
(* whole blocks need.                                                      *)
Fit(c, l, n) ==
  IF HasEnoughSpace(c, l, n) THEN c
  ELSE [c EXCEPT !.blocks[l] = (c.used[l] + n) \div BlockSize + 1]

(* A write of n bytes whose last memcpy reaches "reach" bytes.             *)
Write(c, l, n, reach) ==
  LET past == c.used[l] + reach - c.blocks[l] * BlockSize IN
  [c EXCEPT !.used[l] = @ + n, !.over[l] = IF past > @ THEN past ELSE @]

Put(c, l, n) == Write(c, l, n, n)                 \* clInsertData and others
Emit(c, l, n) == Put(Fit(c, l, n), l, n)

(* Steps 1 to m, one after the other. *)
Each(step(_, _), c, m) ==
  LET after[n \in 0 .. m] == IF n = 0 THEN c ELSE step(after[n - 1], n) IN after[m]

Done(c, steps) == Each(LAMBDA d, n : Emit(d, steps[n][1], steps[n][2]), c, Len(steps))

(* Packets of the bin list with the room asked for. *)
LineWidth == <<"bin", 5>>
ClipWindow == <<"bin", 9>>
ClipperXYScaling == <<"bin", 9>>
ViewportOffset == <<"bin", 5>>
DepthOffset == <<"bin", 5>>
ClipperZScaleOffset == <<"bin", 9>>
PointSize == <<"bin", 5>>
FlatShadeFlags == <<"bin", 5>>
ShaderState == <<"bin", 5>>
TileBinningModeConfiguration == <<"bin", 16>>
StartTileBinning == <<"bin", 1>>
IncrementSemaphore == <<"bin", 1>>
Flush == <<"bin", 1>>
VertexArrayPrimitives == <<"bin", 10>>
MarkerSize == 164               \* sizeof(CLMarker) on 32-bit ARM

(* Four bytes of room; the last memcpy writes a byte behind them. *)
ConfigurationBits(c) == Write(Fit(c, "bin", 4), "bin", 4, 5)

(* The state packets in front of each draw. *)
StatePackets(c) ==
  Done(ConfigurationBits(Done(c, <<LineWidth, ClipWindow, ClipperXYScaling,
                                   ViewportOffset>>)),
       <<DepthOffset, ClipperZScaleOffset, PointSize, FlatShadeFlags, ShaderState>>)

-----------------------------------------------------------------------------
(* clGetHandleIndex with the handles hs the marker has already. *)
GetHandleIndex(c, hs, bo) == IF bo \in hs THEN c ELSE Put(c, "handles", 4)
Handle(c, hs, bo) == GetHandleIndex(Fit(c, "handles", 4), hs, bo)

(* The handles there are when it is the turn of entry n of bos. *)
before(hs, bos, n) == hs \cup {bos[i] : i \in 1 .. n - 1}

(* Handles of a sequence of buffer objects, room made for each. *)
Handles(c, hs, bos) ==
  Each(LAMBDA d, n : IF bos[n] = None THEN d ELSE Handle(d, before(hs, bos, n), bos[n]),
       c, Len(bos))

(* Bug: offsets of index words count from behind the word. *)
NotedBehind(c, l, r, ats) ==
  LET d == [c EXCEPT !.words = @ \cup {<<l, at>> : at \in ToSet(ats)}] IN
  IF level = "SECONDARY"
  THEN [Emit(d, r, 4 * Len(ats)) EXCEPT !.relocs = @ \cup {<<l, at + 4>> : at \in ToSet(ats)}]
  ELSE d

(* Handle indices are at the offsets "ats" of list l; a secondary buffer   *)
(* notes them in list r.                                                   *)
Noted(c, l, r, ats) ==
  LET d == [c EXCEPT !.words = @ \cup {<<l, at>> : at \in ToSet(ats)}] IN
  IF level = "SECONDARY"
  THEN [Emit(d, r, 4 * Len(ats)) EXCEPT !.relocs = @ \cup {<<l, at>> : at \in ToSet(ats)}]
  ELSE d

(* The shader record of a draw: one index for each of the three programs   *)
(* and each attribute, then the record and its attributes.  Room is made   *)
(* once, for the most a record may take.                                   *)
ShaderRecord(c, hs, s) ==
  LET at == c.used["shaderRec"]
      n  == Len(s.attributes)
      room == Fit(c, "shaderRec", 12 * 4 + 104 + 8 * 32)
      programs == Noted(room, "shaderRec", "shaderRecReloc", <<at, at + 4, at + 8>>)
      listed == Noted(programs, "shaderRec", "shaderRecReloc",
                      [k \in 1 .. n |-> at + 12 + 4 * (k - 1)])
      slots == Put(listed, "shaderRec", (3 + n) * 4)
      bos == s.programs \o s.attributes
      named == Each(LAMBDA d, k : GetHandleIndex(d, before(hs, bos, k), bos[k]),
                    Fit(slots, "handles", (3 + 8) * 4), Len(bos))
  IN  Put(named, "shaderRec", 36 + 8 * n)

(* A descriptor's index goes into the uniforms, whatever its type. *)
DescriptorIndex(c, hs, bo) ==
  LET d == Emit(Handle(c, hs, bo), "uniforms", 4) IN
  Noted(d, "uniforms", "uniformReloc", <<d.used["uniforms"] - 4>>)

DescriptorIndices(c, hs, bos) ==
  Each(LAMBDA d, n : DescriptorIndex(d, before(hs, bos, n), bos[n]), c, Len(bos))

(* Bytes of the parameters of a sampled image. *)
ParameterBytes(view, noAutoLod) ==
  (CASE view = "1D" -> 4 [] view = "2D" -> 8 [] view = "CUBE" -> 12)
    + (IF view # "CUBE" /\ noAutoLod THEN 4 ELSE 0)

(* Uniforms behind the indices, in the order the programs read them. *)
Uniforms(c, s) ==
  LET sampled == [i \in DOMAIN s.samples |->
                    <<"uniforms", ParameterBytes(s.samples[i], s.noAutoLod)>>]
      pushed  == [i \in 1 .. s.constants |-> <<"uniforms", 4>>]
  IN  Done(c, sampled \o pushed)

(* drawCommon *)
handlesOf(s) == ToSet(s.programs) \cup ToSet(s.attributes) \cup ToSet(s.descriptors)

drawCommon(c, s) ==
  LET rec == ShaderRecord(StatePackets(c), known, s)
      hs  == known \cup ToSet(s.programs) \cup ToSet(s.attributes)
  IN  Uniforms(DescriptorIndices(rec, hs, s.descriptors), s)

vkCmdDraw(s) ==
  /\ inPass /\ draws < MaxDraws
  /\ cl' = Done(drawCommon(cl, s), <<VertexArrayPrimitives>>)
  /\ known' = known \cup handlesOf(s)
  /\ draws' = draws + 1
  /\ UNCHANGED <<level, inPass, jobs, indexed>>

(* The relocation of the index buffer is written without making room, and  *)
(* the list of indexed primitives with room for a shorter packet.          *)
vkCmdDrawIndexed(s, buffer) ==
  /\ inPass /\ draws < MaxDraws
  /\ LET hs  == known \cup handlesOf(s)
         gem == Put(Handle(drawCommon(cl, s), hs, buffer), "bin", 9)
         noted == Noted(gem, "bin", "gemReloc", <<gem.used["bin"] - 8>>)
     IN  /\ cl' = Put(Fit(noted, "bin", 10), "bin", 14)
         /\ known' = hs \cup {buffer}
  /\ draws' = draws + 1 /\ indexed' = TRUE
  /\ UNCHANGED <<level, inPass, jobs>>

-----------------------------------------------------------------------------
(* clInsertNewCLMarker; the slice of handles of the new marker is empty. *)
NewMarker(c) == Emit(c, "bin", MarkerSize)

(* The bin list set up for the targets; each has a handle. *)
Binning(c, targets) ==
  Done(Handles(c, {}, targets), <<TileBinningModeConfiguration, StartTileBinning>>)

(* The images of the first subpass that the job writes or reads, in the   *)
(* order their handles are added, None for those there are not; a pass     *)
(* that resolves writes the resolved image.                                *)
ImageIf(cond, attachment) == IF cond THEN attachment.image ELSE None

ImagesOf(pass) ==
  LET c == pass.color
      r == pass.resolve
      d == pass.depth
      writeImage == IF r.store THEN r.image ELSE ImageIf(c.store /\ ~ c.multi, c)
  IN  <<writeImage, ImageIf(c.load, c),
        ImageIf(d.store /\ ~ d.multi, d), ImageIf(d.load, d),
        ImageIf(c.store /\ c.multi, c), ImageIf(d.store /\ d.multi, d)>>

vkCmdBeginRenderPass(pass) ==
  /\ level = "PRIMARY" /\ ~ inPass /\ jobs < MaxJobs
  /\ cl' = Binning(NewMarker(cl), ImagesOf(pass))
  /\ known' = ToSet(ImagesOf(pass)) \ {None}
  /\ inPass' = TRUE /\ jobs' = jobs + 1
  /\ UNCHANGED <<level, draws, indexed>>

(* A secondary buffer is begun inside its render pass. *)
vkBeginCommandBuffer ==
  /\ level = "SECONDARY" /\ ~ inPass /\ jobs < MaxJobs
  /\ cl' = NewMarker(cl)
  /\ known' = {}
  /\ inPass' = TRUE /\ jobs' = jobs + 1
  /\ UNCHANGED <<level, draws, indexed>>

vkCmdEndRenderPass ==
  /\ level = "PRIMARY" /\ inPass
  /\ cl' = Done(cl, <<IncrementSemaphore, Flush>>)
  /\ inPass' = FALSE
  /\ UNCHANGED <<level, known, jobs, draws, indexed>>

(* A clear is a job of its own, with one target. *)
vkCmdClearImage(target) ==
  /\ level = "PRIMARY" /\ ~ inPass /\ jobs < MaxJobs
  /\ cl' = Done(Binning(NewMarker(cl), <<target>>), <<IncrementSemaphore, Flush>>)
  /\ known' = {target}
  /\ jobs' = jobs + 1
  /\ UNCHANGED <<level, inPass, draws, indexed>>
vkCmdClearColorImage(target) == vkCmdClearImage(target)
vkCmdClearDepthStencilImage(target) == vkCmdClearImage(target)

Init ==
  /\ level \in {"PRIMARY", "SECONDARY"}
  /\ cl = Empty /\ known = {} /\ inPass = FALSE
  /\ jobs = 0 /\ draws = 0 /\ indexed = FALSE

Next ==
  \/ vkBeginCommandBuffer \/ vkCmdEndRenderPass
  \/ \E s \in Shaders : vkCmdDraw(s)
  \/ \E s \in Shaders, b \in IndexBuffers : vkCmdDrawIndexed(s, b)
  \/ \E p \in Passes : vkCmdBeginRenderPass(p)
  \/ \E i \in Images : vkCmdClearColorImage(i) \/ vkCmdClearDepthStencilImage(i)

Spec == Init /\ [][Next]_vars

-----------------------------------------------------------------------------
TypeOK ==
  /\ level \in {"PRIMARY", "SECONDARY"} /\ inPass \in BOOLEAN /\ indexed \in BOOLEAN
  /\ DOMAIN cl.used = Lists /\ DOMAIN cl.blocks = Lists /\ DOMAIN cl.over = Lists
  /\ \A l \in Lists : cl.used[l] \in Nat /\ cl.blocks[l] \in Nat \ {0} /\ cl.over[l] \in Nat

(* Whatever is drawn, and wherever the blocks end, no list is written      *)
(* beyond its blocks, but for one byte of the bin list by the              *)
(* configuration bits (ControlListUtil.c:311) and, once an indexed draw is *)
(* recorded, up to 9 bytes of it by a relocation written without room      *)
(* (draw.c:670, 680).                                                      *)
WritesStayInBlocks ==
  \A l \in Lists :
    cl.over[l] <= (IF l # "bin" THEN 0 ELSE IF indexed THEN 9 ELSE 1)

(* The relocation lists of a secondary buffer name every word that holds a *)
(* handle index, and no other word, however its lists have grown; the      *)
(* words do not overlap and are inside their lists (draw.c:238-256,        *)
(* 395-400, 421-426, 445-450, 672-677).                                    *)
RelocationsNameIndexWords ==
  /\ cl.relocs = IF level = "SECONDARY" THEN cl.words ELSE {}
  /\ \A w \in cl.words :
       /\ w[2] + 4 <= cl.used[w[1]]
       /\ \A v \in cl.words : w # v /\ w[1] = v[1] => w[2] + 4 <= v[2] \/ v[2] + 4 <= w[2]
=============================================================================
