------------------------------ MODULE Emulation ------------------------------
(***************************************************************************)
(* Copies, blits and clears that the driver emulates by drawing a full     *)
(* screen quad (driver/copy.c, driver/stateChange.c).  They record their   *)
(* draws into the command buffer of the application, with temporary        *)
(* objects, and so use the very state that the application's own draws     *)
(* read: pipeline, viewport, vertex buffers and push constants.  Clears    *)
(* put that state back, copies and blits do not.                           *)
(*                                                                         *)
(* Descriptor sets are bound to the pipeline layout and not to the command *)
(* buffer, so buffers recorded in turn share them (descriptorSet.c).       *)
(***************************************************************************)
EXTENDS Integers, SequencesExt, FiniteSetsExt, TLC

CONSTANTS
  CommandBuffers,
  Layouts, Pipelines,           \* pipelines are records, see below
  Sets, Viewports, VertexBuffers, Values, \* what the application binds
  Ranges,                       \* <<offset, size>> of its push constants, in words
  Bindings, Words,              \* vertex buffer slots and push constant words:
                                \* 0 .. 7 and 0 .. 63 in the driver
  None, Destroyed,              \* never bound; a pipeline that no longer exists
  MaxRegions,                   \* bound: regions, attachments or rectangles
  MaxCommands                   \* bound: commands in all buffers
EmulationSymmetry == Permutations(CommandBuffers) \cup Permutations(Sets)
ASSUME BoundsAssumption == MaxRegions \in Nat /\ MaxCommands \in Nat
ASSUME PipelinesAreRecords ==
  Pipelines \subseteq [layout : Layouts, dynamic : SUBSET {"viewport", "depthBias"}]

VARIABLES
  have,                         \* state of each command buffer, by item
  sets,                         \* descriptorSetBindingMap of each layout
  inPass,                       \* currRenderPass is set
  draws,                        \* the draws recorded by the last command
  left,                         \* temporary objects never destroyed, by kind
  wanted,                       \* history: what the application bound last
  touched,                      \* history: items a copy, a blit or another buffer changed since
  commands                      \* how many were recorded
vars == <<have, sets, inPass, draws, left, wanted, touched, commands>>

Pipeline == <<"pipeline", 0>>
Viewport == <<"viewport", 0>>
DepthBias == <<"depthBias", 0>>
VertexBuffer(i) == <<"vertexBuffer", i>>
Word(stage, w) == <<stage, w>>
DescriptorSet(l) == <<"set", l>>
WordItems == {Word(stage, w) : stage \in {"vertex", "fragment"}, w \in Words}
Items == {Pipeline, Viewport, DepthBias} \cup {VertexBuffer(i) : i \in Bindings} \cup WordItems
SetItems == {DescriptorSet(l) : l \in Layouts}

(* One item, and items on top of a state. *)
Only(item, v) == [i \in {item} |-> v]
On(items, h) ==
  [i \in DOMAIN items \cup DOMAIN h |-> IF i \in DOMAIN items THEN items[i] ELSE h[i]]

(* vkCmdPushConstants: words from an offset on, of one stage. *)
Pushed(stage, offset, words) ==
  [item \in {Word(stage, offset + k - 1) : k \in DOMAIN words} |-> words[item[2] - offset + 1]]

-----------------------------------------------------------------------------
(* The programs of the emulated draws: where drawCommon finds the uniforms *)
(* of each stage, and what the program text takes them for, in the order   *)
(* it takes them.  A word is known by its meaning.                         *)

Push(offset) == <<"push", offset>>
TexelBuffer == <<"descriptor", "texelBuffer">>
Image == <<"descriptor", "image">>

QuadScale == <<"w", "xScale", "yScale", "zScale">>
CopyConstants == <<"width", "bitsPerPixel", "lastTexel", "bufferOffset">>
BlitConstants == <<"level", "uScale", "vScale", "uOffset", "vOffset">>
ClearConstants == <<"color", "stencil", "depth">>

(* Bug: the word for the level of detail is never written. *)
TextureWordsShort(disableAutoLod) == <<"texture", "sampler">>

(* With automatic level of detail off, the sampler takes a third word. *)
TextureWords(disableAutoLod) == <<"texture", "sampler">> \o IF disableAutoLod THEN <<"lod">> ELSE <<>>

BufferToTexture ==
  [vertex   |-> <<Push(0), Push(4), Push(8), Push(12)>>,
   fragment |-> <<TexelBuffer, Push(0), Push(4), Push(8), Push(12)>>,
   takes    |-> <<"width", "bitsPerPixel", "lastTexel", "bufferOffset">>, handles |-> 1]
TextureToTexture ==
  [vertex   |-> <<Push(0), Push(4), Push(8), Push(12)>>,
   fragment |-> <<Push(0), Push(4), Push(8), Push(12), Push(16), Image>>,
   takes    |-> <<"level", "uScale", "vScale", "uOffset", "vOffset", "texture", "sampler", "lod">>,
   handles  |-> 1]
Clear ==
  [vertex   |-> <<Push(0), Push(4), Push(8), Push(12)>>,
   fragment |-> <<Push(0), Push(4), Push(8)>>,
   takes    |-> <<"color", "stencil", "depth">>, handles |-> 0]
QuadTakes == <<"w", "xScale", "yScale", "zScale">>

(* Places of the descriptors among the mappings of a program. *)
Descriptors(mappings) == {k \in DOMAIN mappings : mappings[k][1] = "descriptor"}

(* The words drawCommon writes for a mapping: of a push constant the word  *)
(* at its offset, of an image its parameters, of a texel buffer none.      *)
WordsOf(mapping, stage, h) ==
  CASE mapping[1] = "push" -> <<h[Word(stage, mapping[2] \div 4)]>>
    [] mapping = Image -> LET t == TextureWords(TRUE)
                          IN  [k \in DOMAIN t |-> <<t[k], h[Pipeline]>>]
    [] OTHER -> <<>>
Uniforms(mappings, stage, h) ==
  FlattenSeq([k \in DOMAIN mappings |-> WordsOf(mappings[k], stage, h)])

FullscreenQuad == "quad"
(* What the only binding of each descriptor set layout holds. *)
EmulBufferDsl == {TexelBuffer}
EmulTextureDsl == {Image}
EmulClearDsl == {}

(* A draw of an emulated command with a set of the given layout; n tells   *)
(* its regions and rectangles apart.  The coordinate program uses the      *)
(* mappings of the vertex program.                                         *)
EmulatedDraw(program, dsl, h, n) ==
  [kind |-> "emulated", n |-> n, program |-> program, buffer |-> h[VertexBuffer(0)],
   viewport |-> h[Viewport], dsl |-> dsl,
   handles |-> Cardinality(Descriptors(program.fragment)),
   fragment |-> Uniforms(program.fragment, "fragment", h),
   vertex |-> Uniforms(program.vertex, "vertex", h)]

-----------------------------------------------------------------------------
(* The objects a region of a copy or of a blit needs, and the ones         *)
(* destroyed at its end.                                                   *)

RenderTarget == <<"imageView", "renderPass", "framebuffer">>
PipelineObjects == <<"pipelineLayout", "pipeline">>
CopyCreates == <<"bufferView", "descriptorSet">> \o RenderTarget \o PipelineObjects
CopyDestroys == <<"pipelineLayout", "pipeline", "descriptorSet", "imageView", "renderPass", "framebuffer">>
BlitCreates == <<"sampler", "imageView", "descriptorSet">> \o RenderTarget \o PipelineObjects
(* Bug: one of the two image views is forgotten. *)
BlitDestroysOne ==
  <<"sampler", "pipelineLayout", "pipeline", "descriptorSet", "imageView", "renderPass", "framebuffer">>
BlitDestroys ==
  <<"sampler", "pipelineLayout", "pipeline", "descriptorSet", "imageView", "imageView",
    "renderPass", "framebuffer">>
ClearCreates == PipelineObjects
ClearDestroys == <<"pipelineLayout", "pipeline">>
Kinds == Range(CopyCreates) \cup Range(BlitCreates)
Count(objects, kind) == Cardinality({k \in DOMAIN objects : objects[k] = kind})
(* What n times of creating and destroying leaves behind. *)
LeftBy(n, creates, destroys) ==
  [kind \in Kinds |-> left[kind] + n * (Count(creates, kind) - Count(destroys, kind))]

Tagged(words, n) == [k \in DOMAIN words |-> <<words[k], n>>]
(* What a quad is drawn with, on top of the state h. *)
QuadState(h, constants, vertexTag, tag) ==
  On(Pushed("vertex", 0, Tagged(QuadScale, vertexTag)),
     On(Pushed("fragment", 0, Tagged(constants, tag)),
        On(Only(Pipeline, tag),
           On(Only(Viewport, <<"quad", vertexTag>>), On(Only(VertexBuffer(0), FullscreenQuad), h)))))

(* Quad by quad, each on top of what the one before it left; a quad's tags *)
(* say which region or rectangle it is of.                                 *)
AfterQuad(h, constants, tags) ==
  LET after[k \in 0 .. Len(tags)] ==
        IF k = 0 THEN h ELSE QuadState(after[k - 1], constants, tags[k][1], tags[k][2])
  IN  after

-----------------------------------------------------------------------------
Recorded == commands < MaxCommands /\ commands' = commands + 1

(* The application binds the given items, a function, in b. *)
Binds(b, items) ==
  /\ Recorded
  /\ have' = [have EXCEPT ![b] = On(items, @)]
  /\ wanted' = [wanted EXCEPT ![b] = On(items, @)]
  /\ touched' = [touched EXCEPT ![b] = @ \ DOMAIN items]
  /\ draws' = {}
  /\ UNCHANGED <<sets, inPass, left>>

vkCmdBindPipeline(b, p) == Binds(b, Only(Pipeline, p))
vkCmdSetViewport(b, v) == Binds(b, Only(Viewport, v))
vkCmdSetDepthBias(b, v) == Binds(b, Only(DepthBias, v))
vkCmdBindVertexBuffers(b, first, buffers) ==
  /\ \A k \in DOMAIN buffers : first + k - 1 \in Bindings
  /\ Binds(b, [item \in {VertexBuffer(first + k - 1) : k \in DOMAIN buffers} |->
                 buffers[item[2] - first + 1]])
vkCmdPushConstants(b, stages, range, v) ==
  /\ stages # {}
  /\ LET words == [k \in 1 .. range[2] |-> v] IN
     Binds(b, IF stages = {"vertex", "fragment"}
              THEN On(Pushed("vertex", range[1], words), Pushed("fragment", range[1], words))
              ELSE Pushed(CHOOSE s \in stages : TRUE, range[1], words))

(* The sets of a layout are shared by all command buffers. *)
vkCmdBindDescriptorSets(b, l, s) ==
  /\ Recorded
  /\ sets' = [sets EXCEPT ![l] = s]
  /\ wanted' = [wanted EXCEPT ![b] = On(Only(DescriptorSet(l), s), @)]
  /\ touched' = [c \in CommandBuffers |-> IF c = b THEN touched[c] \ {DescriptorSet(l)}
                                          ELSE touched[c] \cup {DescriptorSet(l)}]
  /\ draws' = {}
  /\ UNCHANGED <<have, inPass, left>>

(* vkCmdBeginRenderPass and vkCmdEndRenderPass *)
vkCmdBeginRenderPass(b) ==
  /\ b \notin inPass /\ inPass' = inPass \cup {b} /\ draws' = {} /\ Recorded
  /\ UNCHANGED <<have, sets, left, wanted, touched>>
vkCmdEndRenderPass(b) ==
  /\ b \in inPass /\ inPass' = inPass \ {b} /\ draws' = {}
  /\ UNCHANGED <<have, sets, left, wanted, touched, commands>>

(* Recording starts over: vkResetCommandBuffer, which vkBeginCommandBuffer *)
(* calls too.  Only the pipeline is cleared, and nothing the application   *)
(* bound before counts any longer.                                         *)
vkResetCommandBuffer(b) ==
  /\ Recorded
  /\ have' = [have EXCEPT ![b][Pipeline] = None]
  /\ inPass' = inPass \ {b}
  /\ wanted' = [wanted EXCEPT ![b] = [item \in Items \cup SetItems |-> None]]
  /\ touched' = [touched EXCEPT ![b] = {}]
  /\ draws' = {}
  /\ UNCHANGED <<sets, left>>

(* What a draw of the application reads, state h and pipeline p given. *)
DrawState(h, p) ==
  [item \in (Items \cup {DescriptorSet(p.layout)}) |->
     CASE item = Viewport -> IF "viewport" \in p.dynamic THEN h[Viewport] ELSE p
       [] item = DepthBias -> IF "depthBias" \in p.dynamic THEN h[DepthBias] ELSE p
       [] item \in SetItems -> sets[p.layout]
       [] OTHER -> h[item]]

vkCmdDraw(b) ==
  /\ b \in inPass /\ wanted[b][Pipeline] # None
  /\ Recorded
  /\ draws' = {[kind |-> "application", buffer |-> b,
                reads |-> IF have[b][Pipeline] = Destroyed THEN Only(Pipeline, Destroyed)
                          ELSE DrawState(have[b], have[b][Pipeline])]}
  /\ UNCHANGED <<have, sets, inPass, left, wanted, touched>>

(* The items a copy or a blit leaves changed. *)
Disturbs(constants) ==
  {Pipeline, Viewport, VertexBuffer(0)}
    \cup DOMAIN Pushed("vertex", 0, QuadScale) \cup DOMAIN Pushed("fragment", 0, constants)

(* n regions copied or blitted.  The pipeline of the last one is still     *)
(* bound when it is destroyed.                                             *)
Emulated(b, n, program, dsl, constants, creates, destroys) ==
  LET after == AfterQuad(have[b], constants, [r \in 1 .. n |-> <<r, r>>])
  IN  /\ b \notin inPass
      /\ Recorded
      /\ draws' = {EmulatedDraw(program, dsl, after[r], r) : r \in 1 .. n}
      /\ have' = [have EXCEPT ![b] = On(Only(Pipeline, Destroyed), after[n])]
      /\ left' = LeftBy(n, creates, destroys)
      /\ touched' = [touched EXCEPT ![b] = @ \cup Disturbs(constants)]
      /\ UNCHANGED <<sets, inPass, wanted>>

vkCmdCopyBufferToImage(b, n) ==
  Emulated(b, n, BufferToTexture, EmulBufferDsl, CopyConstants, CopyCreates, CopyDestroys)
(* vkCmdCopyImage is a blit too. *)
vkCmdBlitImage(b, n) ==
  Emulated(b, n, TextureToTexture, EmulTextureDsl, BlitConstants, BlitCreates, BlitDestroys)

(* Bug: as many words as the fragment program reads. *)
SavedThree == {Pipeline, Viewport} \cup {VertexBuffer(i) : i \in Bindings}
           \cup {Word(stage, w) : stage \in {"vertex", "fragment"}, w \in 0 .. 2}

(* What vkCmdClearAttachments saves: of the push constants ten words. *)
SavedWords == 0 .. 9
Saved == {Pipeline, Viewport} \cup {VertexBuffer(i) : i \in Bindings}
           \cup {Word(stage, w) : stage \in {"vertex", "fragment"}, w \in SavedWords \cap Words}

(* vkCmdClearAttachments: a draw for each rectangle of each attachment.    *)
(* Outside a render pass it does nothing.                                  *)
AfterRectangle(h, a, rects) ==
  AfterQuad(h, ClearConstants, [r \in 1 .. rects |-> <<<<a, r>>, a>>])

AfterAttachment(h, attachments, rects) ==
  LET after[a \in 0 .. attachments] ==
        IF a = 0 THEN h ELSE AfterRectangle(after[a - 1], a, rects)[rects]
  IN  after

vkCmdClearAttachments(b, attachments, rects) ==
  LET after == AfterAttachment(have[b], attachments, rects)
      end == after[attachments]
  IN  /\ Recorded
      /\ IF b \in inPass
         THEN /\ draws' = {EmulatedDraw(Clear, EmulClearDsl,
                                        AfterRectangle(after[a - 1], a, rects)[r], <<a, r>>) :
                            a \in 1 .. attachments, r \in 1 .. rects}
              /\ left' = LeftBy(attachments, ClearCreates, ClearDestroys)
              /\ have' = [have EXCEPT ![b] = [i \in Items |-> IF i \in Saved THEN @[i] ELSE end[i]]]
         ELSE draws' = {} /\ UNCHANGED <<have, left>>
      /\ UNCHANGED <<sets, inPass, wanted, touched>>

Init ==
  /\ have = [b \in CommandBuffers |-> [item \in Items |-> None]]
  /\ sets = [l \in Layouts |-> None]
  /\ inPass = {}
  /\ draws = {}
  /\ left = [kind \in Kinds |-> 0]
  /\ wanted = [b \in CommandBuffers |-> [item \in Items \cup SetItems |-> None]]
  /\ touched = [b \in CommandBuffers |-> {}]
  /\ commands = 0

Next == \E b \in CommandBuffers :
  \/ \E p \in Pipelines : vkCmdBindPipeline(b, p)
  \/ \E v \in Viewports : vkCmdSetViewport(b, v)
  \/ \E v \in Values : vkCmdSetDepthBias(b, v)
  \/ \E first \in Bindings, buffers \in SeqOf(VertexBuffers, 2) \ {<<>>} :
       vkCmdBindVertexBuffers(b, first, buffers)
  \/ \E stages \in SUBSET {"vertex", "fragment"}, range \in Ranges, v \in Values :
       vkCmdPushConstants(b, stages, range, v)
  \/ \E l \in Layouts, s \in Sets : vkCmdBindDescriptorSets(b, l, s)
  \/ vkCmdBeginRenderPass(b)
  \/ vkCmdEndRenderPass(b)
  \/ vkCmdDraw(b)
  \/ \E n \in 1 .. MaxRegions : vkCmdCopyBufferToImage(b, n)
  \/ \E n \in 1 .. MaxRegions : vkCmdBlitImage(b, n)
  \/ \E attachments, rects \in 1 .. MaxRegions : vkCmdClearAttachments(b, attachments, rects)
  \/ vkResetCommandBuffer(b)
Spec == Init /\ [][Next]_vars

-----------------------------------------------------------------------------
(* What a draw of the application reads is what it bound last in that      *)
(* buffer, whatever was cleared in between, except for what a copy or a    *)
(* blit in the same buffer used, and for sets of a layout that another     *)
(* command buffer has bound since.                                         *)
DrawsUseWhatWasBound ==
  \A d \in draws : d.kind = "application" =>
    LET want == wanted[d.buffer]
        p == want[Pipeline]
        Expected(item) ==
          CASE item = Viewport /\ "viewport" \notin p.dynamic -> p
            [] item = DepthBias /\ "depthBias" \notin p.dynamic -> p
            [] OTHER -> want[item]
    IN  \/ Pipeline \in touched[d.buffer]
        \/ \A item \in DOMAIN d.reads :
             \/ item \in touched[d.buffer] \/ want[item] = None
             \/ d.reads[item] = Expected(item)

(* An emulated draw gives its program the words it takes, in the order it  *)
(* takes them, all of its own region or rectangle and none that an earlier *)
(* push left behind, as many handles as the program samples textures, and  *)
(* descriptors of the type its mappings name.                              *)
ProgramsGetTheirWords ==
  \A d \in draws : d.kind = "emulated" =>
    /\ d.buffer = FullscreenQuad /\ d.viewport = <<"quad", d.n>>
    /\ {d.program.fragment[k] : k \in Descriptors(d.program.fragment)} = d.dsl
    /\ d.handles = d.program.handles
    /\ [k \in DOMAIN d.fragment |-> d.fragment[k][1]] = d.program.takes
    /\ \A k \in DOMAIN d.fragment : d.fragment[k][2] = IF d.program = Clear THEN d.n[1] ELSE d.n
    /\ d.vertex = Tagged(QuadTakes, d.n)

(* Copies and blits destroy what they create, except for the buffer view   *)
(* of each copied region.                                                  *)
OnlyBufferViewsStay ==
  \A kind \in Kinds : left[kind] = 0 \/ (kind = "bufferView" /\ left[kind] > 0)
===============================================================================
