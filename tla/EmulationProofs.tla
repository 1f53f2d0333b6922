--------------------------- MODULE EmulationProofs ---------------------------
(***************************************************************************)
(* Copies, blits and clears drawn as quads, for every number of command    *)
(* buffers, regions, attachments, rectangles and vertex buffer slots:      *)
(*  - blits and clears destroy all they create, copies all but the buffer  *)
(*    views (an invariant of its own, by counting the objects);            *)
(*  - what a draw of the application reads is what it bound, which needs   *)
(*    BoundOK: in every command buffer each item that nothing touched      *)
(*    since is what was wanted.  Clears keep it because what they save     *)
(*    covers what their quads disturb (SavedIsEnough);                     *)
(*  - the words of every emulated draw are the ones its program takes, by  *)
(*    what each quad leaves in the state (QuadPuts) and how the words of   *)
(*    the mappings join into one sequence (Flattened).                     *)
(* Series of quads are recursive functions; that they have a value is      *)
(* proved from below (Upward).                                             *)
(***************************************************************************)
EXTENDS Emulation, FiniteSetTheorems, SequenceTheorems, WellFoundedInduction, NaturalsInduction, TLAPS

(* Induction over a set of numbers.                                        *)
LEMMA Upward ==
  ASSUME NEW T, 0 \in T, \A n \in Nat : n \in T => n + 1 \in T
  PROVE  Nat \subseteq T
<1> SUFFICES ASSUME Nat \ T # {}  PROVE  FALSE
  OBVIOUS
<1>1. PICK x \in Nat \ T : \A y \in Nat \ T : ~ (<<y, x>> \in OpToRel(<, Nat))
  BY NatLessThanWellFounded, WFMin, Zenon
<1>2. \A y \in Nat \ T : ~ (y < x)
  BY <1>1 DEF OpToRel
<1>3. x - 1 \in Nat /\ x - 1 \notin Nat \ T
  BY <1>2
<1>4. x - 1 + 1 \in T
  BY <1>3
<1> QED
  BY <1>4

(* Items on top of a state.                                                *)
IsOn(r, f, g) ==
  /\ DOMAIN r = DOMAIN f \cup DOMAIN g
  /\ \A x \in DOMAIN f : r[x] = f[x]
  /\ \A x \in DOMAIN g : x \notin DOMAIN f => r[x] = g[x]

LEMMA OnTop == ASSUME NEW f, NEW g  PROVE IsOn(On(f, g), f, g)
BY DEF On, IsOn

HasItem(r, x, v, g) ==
  /\ DOMAIN r = DOMAIN g \cup {x} /\ r[x] = v
  /\ \A y \in DOMAIN g : y # x => r[y] = g[y]

LEMMA ItemOnTop ==
  ASSUME NEW x, NEW v, NEW g
  PROVE  HasItem(On(Only(x, v), g), x, v, g)
BY DEF On, Only, HasItem

-----------------------------------------------------------------------------
(* What copies, blits and clears leave behind: their objects counted.      *)
IsJoin(c, S, a, b, m, n) ==
  /\ c \in Seq(S) /\ Len(c) = m + n
  /\ \A i \in 1 .. m + n : c[i] = IF i <= m THEN a[i] ELSE b[i - m]

LEMMA Joined ==
  ASSUME NEW S, NEW a \in Seq(S), NEW b \in Seq(S), NEW m \in Nat, NEW n \in Nat,
         Len(a) = m, Len(b) = n
  PROVE  IsJoin(a \o b, S, a, b, m, n)
BY ConcatProperties DEF IsJoin

LEMMA CopiesCreate ==
  /\ DOMAIN CopyCreates = 1 .. 7
  /\ CopyCreates[1] = "bufferView" /\ CopyCreates[2] = "descriptorSet"
  /\ CopyCreates[3] = "imageView" /\ CopyCreates[4] = "renderPass"
  /\ CopyCreates[5] = "framebuffer" /\ CopyCreates[6] = "pipelineLayout"
  /\ CopyCreates[7] = "pipeline"
<1>1. PICK a : a = <<"bufferView", "descriptorSet">>
  OBVIOUS
<1>2. PICK b : b = <<"imageView", "renderPass", "framebuffer">>
  OBVIOUS
<1>3. PICK c : c = <<"pipelineLayout", "pipeline">>
  OBVIOUS
<1>4. PICK ab : ab = a \o b
  OBVIOUS
<1>14. PICK S : S = {"bufferView", "descriptorSet", "imageView", "renderPass", "framebuffer",
                     "pipelineLayout", "pipeline", "sampler"}
  OBVIOUS
<1>13. /\ a \in Seq(S) /\ Len(a) = 2 /\ b \in Seq(S) /\ Len(b) = 3
       /\ c \in Seq(S) /\ Len(c) = 2
  BY <1>1, <1>2, <1>3, <1>14
<1>5. /\ ab \in Seq(S) /\ Len(ab) = 5
      /\ \A i \in 1 .. 5 : ab[i] = IF i <= 2 THEN a[i] ELSE b[i - 2]
  <2>1. 2 \in Nat /\ 3 \in Nat
    OBVIOUS
  <2>2. IsJoin(ab, S, a, b, 2, 3)
    BY <1>4, <1>13, <2>1, Joined, Zenon
  <2> QED
    BY <2>2 DEF IsJoin
<1>6. PICK abc : abc = ab \o c
  OBVIOUS
<1>7. /\ abc \in Seq(S) /\ Len(abc) = 7
      /\ \A i \in 1 .. 7 : abc[i] = IF i <= 5 THEN ab[i] ELSE c[i - 5]
  <2>1. 5 \in Nat /\ 2 \in Nat
    OBVIOUS
  <2>2. IsJoin(abc, S, ab, c, 5, 2)
    BY <1>5, <1>6, <1>13, <2>1, Joined, Zenon
  <2> QED
    BY <2>2 DEF IsJoin
<1>8. CopyCreates = abc
  BY <1>1, <1>2, <1>3, <1>4, <1>6 DEF CopyCreates, RenderTarget, PipelineObjects
<1>9. DOMAIN abc = 1 .. 7
  BY <1>7
<1>10. abc[1] = "bufferView" /\ abc[2] = "descriptorSet"
  BY <1>1, <1>5, <1>7
<1>11. abc[3] = "imageView" /\ abc[4] = "renderPass" /\ abc[5] = "framebuffer"
  BY <1>2, <1>5, <1>7
<1>12. abc[6] = "pipelineLayout" /\ abc[7] = "pipeline"
  BY <1>3, <1>7
<1> QED
  BY <1>8, <1>9, <1>10, <1>11, <1>12

LEMMA BlitsCreate ==
  /\ DOMAIN BlitCreates = 1 .. 8
  /\ BlitCreates[1] = "sampler" /\ BlitCreates[2] = "imageView"
  /\ BlitCreates[3] = "descriptorSet" /\ BlitCreates[4] = "imageView"
  /\ BlitCreates[5] = "renderPass" /\ BlitCreates[6] = "framebuffer"
  /\ BlitCreates[7] = "pipelineLayout" /\ BlitCreates[8] = "pipeline"
<1>1. PICK a : a = <<"sampler", "imageView", "descriptorSet">>
  OBVIOUS
<1>2. PICK b : b = <<"imageView", "renderPass", "framebuffer">>
  OBVIOUS
<1>3. PICK c : c = <<"pipelineLayout", "pipeline">>
  OBVIOUS
<1>4. PICK ab : ab = a \o b
  OBVIOUS
<1>14. PICK S : S = {"bufferView", "descriptorSet", "imageView", "renderPass", "framebuffer",
                     "pipelineLayout", "pipeline", "sampler"}
  OBVIOUS
<1>13. /\ a \in Seq(S) /\ Len(a) = 3 /\ b \in Seq(S) /\ Len(b) = 3
       /\ c \in Seq(S) /\ Len(c) = 2
  BY <1>1, <1>2, <1>3, <1>14
<1>5. /\ ab \in Seq(S) /\ Len(ab) = 6
      /\ \A i \in 1 .. 6 : ab[i] = IF i <= 3 THEN a[i] ELSE b[i - 3]
  <2>1. 3 \in Nat /\ 3 \in Nat
    OBVIOUS
  <2>2. IsJoin(ab, S, a, b, 3, 3)
    BY <1>4, <1>13, <2>1, Joined, Zenon
  <2> QED
    BY <2>2 DEF IsJoin
<1>6. PICK abc : abc = ab \o c
  OBVIOUS
<1>7. /\ abc \in Seq(S) /\ Len(abc) = 8
      /\ \A i \in 1 .. 8 : abc[i] = IF i <= 6 THEN ab[i] ELSE c[i - 6]
  <2>1. 6 \in Nat /\ 2 \in Nat
    OBVIOUS
  <2>2. IsJoin(abc, S, ab, c, 6, 2)
    BY <1>5, <1>6, <1>13, <2>1, Joined, Zenon
  <2> QED
    BY <2>2 DEF IsJoin
<1>8. BlitCreates = abc
  BY <1>1, <1>2, <1>3, <1>4, <1>6 DEF BlitCreates, RenderTarget, PipelineObjects
<1>9. DOMAIN abc = 1 .. 8
  BY <1>7
<1>10. abc[1] = "sampler" /\ abc[2] = "imageView" /\ abc[3] = "descriptorSet"
  BY <1>1, <1>5, <1>7
<1>11. abc[4] = "imageView" /\ abc[5] = "renderPass" /\ abc[6] = "framebuffer"
  BY <1>2, <1>5, <1>7
<1>12. abc[7] = "pipelineLayout" /\ abc[8] = "pipeline"
  BY <1>3, <1>7
<1> QED
  BY <1>8, <1>9, <1>10, <1>11, <1>12

LEMMA KindNames ==
  Kinds = {"bufferView", "descriptorSet", "imageView", "renderPass", "framebuffer",
           "pipelineLayout", "pipeline", "sampler"}
<1>1. 1 .. 7 = {1, 2, 3, 4, 5, 6, 7} /\ 1 .. 8 = {1, 2, 3, 4, 5, 6, 7, 8}
  OBVIOUS
<1>2. Range(CopyCreates) = {"bufferView", "descriptorSet", "imageView", "renderPass", "framebuffer",
                            "pipelineLayout", "pipeline"}
  BY <1>1, CopiesCreate DEF Range
<1>3. Range(BlitCreates) = {"sampler", "imageView", "descriptorSet", "renderPass",
                            "framebuffer", "pipelineLayout", "pipeline"}
  BY <1>1, BlitsCreate DEF Range
<1> QED
  BY <1>2, <1>3 DEF Kinds

(* No object, one object, two objects of a kind.                           *)
LEMMA CountNone ==
  ASSUME NEW objects, NEW kind, \A k \in DOMAIN objects : objects[k] # kind
  PROVE  Count(objects, kind) = 0
<1>1. {k \in DOMAIN objects : objects[k] = kind} = {}
  OBVIOUS
<1> QED
  BY <1>1, FS_EmptySet DEF Count

LEMMA CountOne ==
  ASSUME NEW objects, NEW kind, NEW i \in DOMAIN objects, objects[i] = kind,
         \A k \in DOMAIN objects : k # i => objects[k] # kind
  PROVE  Count(objects, kind) = 1
<1>1. {k \in DOMAIN objects : objects[k] = kind} = {i}
  OBVIOUS
<1>2. Cardinality({i}) = 1
  BY FS_Singleton
<1> QED
  BY <1>1, <1>2 DEF Count

LEMMA CountTwo ==
  ASSUME NEW objects, NEW kind, NEW i \in DOMAIN objects, NEW j \in DOMAIN objects, i # j,
         objects[i] = kind, objects[j] = kind,
         \A k \in DOMAIN objects : k # i /\ k # j => objects[k] # kind
  PROVE  Count(objects, kind) = 2
<1>1. {k \in DOMAIN objects : objects[k] = kind} = {i} \cup {j}
  OBVIOUS
<1>2. IsFiniteSet({i}) /\ Cardinality({i}) = 1 /\ j \notin {i}
  BY FS_Singleton
<1>3. Cardinality({i} \cup {j}) = 1 + 1
  BY <1>2, FS_AddElement
<1> QED
  BY <1>1, <1>3 DEF Count

Once(objects, kind) ==
  \E i \in DOMAIN objects : objects[i] = kind /\ \A k \in DOMAIN objects : k # i => objects[k] # kind
Never(objects, kind) == \A k \in DOMAIN objects : objects[k] # kind

LEMMA Counted ==
  ASSUME NEW objects, NEW kind
  PROVE  /\ Once(objects, kind) => Count(objects, kind) = 1
         /\ Never(objects, kind) => Count(objects, kind) = 0
BY CountOne, CountNone DEF Once, Never

(* A region of a copy leaves a buffer view, a region of a blit and an      *)
(* attachment of a clear leave nothing.                                    *)
LEMMA CopiesLeave ==
  ASSUME NEW kind \in Kinds
  PROVE  Count(CopyCreates, kind) - Count(CopyDestroys, kind) = IF kind = "bufferView" THEN 1 ELSE 0
<1>1. 1 .. 7 = {1, 2, 3, 4, 5, 6, 7}
  OBVIOUS
<1>2. /\ DOMAIN CopyDestroys = {1, 2, 3, 4, 5, 6}
      /\ CopyDestroys[1] = "pipelineLayout" /\ CopyDestroys[2] = "pipeline"
      /\ CopyDestroys[3] = "descriptorSet" /\ CopyDestroys[4] = "imageView"
      /\ CopyDestroys[5] = "renderPass" /\ CopyDestroys[6] = "framebuffer"
  BY DEF CopyDestroys
<1>3. CASE kind = "bufferView"
  <2>1. Once(CopyCreates, kind) /\ Never(CopyDestroys, kind)
    BY <1>1, <1>2, <1>3, CopiesCreate DEF Once, Never
  <2> QED
    BY <1>3, <2>1, Counted
<1>4. CASE kind = "sampler"
  <2>1. Never(CopyCreates, kind) /\ Never(CopyDestroys, kind)
    BY <1>1, <1>2, <1>4, CopiesCreate DEF Never
  <2> QED
    BY <1>4, <2>1, Counted
<1>5. CASE kind \notin {"bufferView", "sampler"}
  <2>1. Once(CopyCreates, kind)
    BY <1>1, <1>5, KindNames, CopiesCreate DEF Once
  <2>2. Once(CopyDestroys, kind)
    BY <1>2, <1>5, KindNames DEF Once
  <2> QED
    BY <1>5, <2>1, <2>2, Counted
<1> QED
  BY <1>3, <1>4, <1>5

LEMMA BlitsLeave ==
  ASSUME NEW kind \in Kinds
  PROVE  Count(BlitCreates, kind) - Count(BlitDestroys, kind) = 0
<1>1. 1 .. 8 = {1, 2, 3, 4, 5, 6, 7, 8}
  OBVIOUS
<1>2. /\ DOMAIN BlitDestroys = {1, 2, 3, 4, 5, 6, 7, 8}
      /\ BlitDestroys[1] = "sampler" /\ BlitDestroys[2] = "pipelineLayout"
      /\ BlitDestroys[3] = "pipeline" /\ BlitDestroys[4] = "descriptorSet"
      /\ BlitDestroys[5] = "imageView" /\ BlitDestroys[6] = "imageView"
      /\ BlitDestroys[7] = "renderPass" /\ BlitDestroys[8] = "framebuffer"
  BY DEF BlitDestroys
<1>3. CASE kind = "bufferView"
  <2>1. Never(BlitCreates, kind) /\ Never(BlitDestroys, kind)
    BY <1>1, <1>2, <1>3, BlitsCreate DEF Never
  <2> QED
    BY <2>1, Counted
<1>4. CASE kind = "imageView"
  <2>1. Count(BlitCreates, kind) = 2
    <3>1. /\ 2 \in DOMAIN BlitCreates /\ 4 \in DOMAIN BlitCreates /\ 2 # 4
          /\ BlitCreates[2] = kind /\ BlitCreates[4] = kind
          /\ \A k \in DOMAIN BlitCreates : k # 2 /\ k # 4 => BlitCreates[k] # kind
      BY <1>1, <1>4, BlitsCreate
    <3> QED
      BY <3>1, CountTwo, Zenon
  <2>2. Count(BlitDestroys, kind) = 2
    <3>1. /\ 5 \in DOMAIN BlitDestroys /\ 6 \in DOMAIN BlitDestroys /\ 5 # 6
          /\ BlitDestroys[5] = kind /\ BlitDestroys[6] = kind
          /\ \A k \in DOMAIN BlitDestroys : k # 5 /\ k # 6 => BlitDestroys[k] # kind
      BY <1>2, <1>4
    <3> QED
      BY <3>1, CountTwo, Zenon
  <2> QED
    BY <2>1, <2>2
<1>5. CASE kind \notin {"bufferView", "imageView"}
  <2>1. Once(BlitCreates, kind)
    BY <1>1, <1>5, KindNames, BlitsCreate DEF Once
  <2>2. Once(BlitDestroys, kind)
    BY <1>2, <1>5, KindNames DEF Once
  <2> QED
    BY <2>1, <2>2, Counted
<1> QED
  BY <1>3, <1>4, <1>5

LEMMA ClearsLeave ==
  ASSUME NEW kind \in Kinds
  PROVE  Count(ClearCreates, kind) - Count(ClearDestroys, kind) = 0
<1>1. /\ DOMAIN ClearCreates = {1, 2} /\ DOMAIN ClearDestroys = {1, 2}
      /\ ClearCreates[1] = "pipelineLayout" /\ ClearCreates[2] = "pipeline"
      /\ ClearDestroys[1] = "pipelineLayout" /\ ClearDestroys[2] = "pipeline"
  BY DEF ClearCreates, PipelineObjects, ClearDestroys
<1>2. CASE kind \in {"pipelineLayout", "pipeline"}
  <2>1. Once(ClearCreates, kind) /\ Once(ClearDestroys, kind)
    BY <1>1, <1>2 DEF Once
  <2> QED
    BY <2>1, Counted
<1>3. CASE kind \notin {"pipelineLayout", "pipeline"}
  <2>1. Never(ClearCreates, kind) /\ Never(ClearDestroys, kind)
    BY <1>1, <1>3 DEF Never
  <2> QED
    BY <2>1, Counted
<1> QED
  BY <1>2, <1>3

LeftOK == left \in [Kinds -> Nat] /\ \A kind \in Kinds : kind # "bufferView" => left[kind] = 0

LEMMA LeftStep == LeftOK /\ [Next]_vars => LeftOK'
<1> SUFFICES ASSUME LeftOK, [Next]_vars  PROVE  LeftOK'
  OBVIOUS
<1>1. ASSUME NEW n \in Nat, NEW creates, NEW destroys, NEW e \in Nat, left' = LeftBy(n, creates, destroys),
             \A kind \in Kinds :
               Count(creates, kind) - Count(destroys, kind) = IF kind = "bufferView" THEN e ELSE 0
      PROVE  LeftOK'
  <2>1. left' = [kind \in Kinds |-> left[kind] + n * (Count(creates, kind) - Count(destroys, kind))]
    BY <1>1 DEF LeftBy
  <2>2. left' = [kind \in Kinds |-> left[kind] + n * (IF kind = "bufferView" THEN e ELSE 0)]
    BY <1>1, <2>1
  <2>3. \A kind \in Kinds : left'[kind] = left[kind] + n * (IF kind = "bufferView" THEN e ELSE 0)
    BY <2>2
  <2>4. n * 0 = 0 /\ n * e \in Nat
    OBVIOUS
  <2>5. \A kind \in Kinds : left'[kind] \in Nat /\ (kind # "bufferView" => left'[kind] = 0)
    BY <2>3, <2>4 DEF LeftOK
  <2> QED
    BY <2>2, <2>5 DEF LeftOK
<1>2. ASSUME NEW b \in CommandBuffers, NEW n \in 1 .. MaxRegions, vkCmdCopyBufferToImage(b, n)
      PROVE  LeftOK'
  <2>1. left' = LeftBy(n, CopyCreates, CopyDestroys) /\ n \in Nat
    BY <1>2, BoundsAssumption DEF vkCmdCopyBufferToImage, Emulated
  <2> QED
    BY <1>1, <2>1, CopiesLeave
<1>3. ASSUME NEW b \in CommandBuffers, NEW n \in 1 .. MaxRegions, vkCmdBlitImage(b, n)
      PROVE  LeftOK'
  <2>1. left' = LeftBy(n, BlitCreates, BlitDestroys) /\ n \in Nat
    BY <1>3, BoundsAssumption DEF vkCmdBlitImage, Emulated
  <2>2. \A kind \in Kinds :
          Count(BlitCreates, kind) - Count(BlitDestroys, kind) = IF kind = "bufferView" THEN 0 ELSE 0
    BY BlitsLeave
  <2> QED
    BY <1>1, <2>1, <2>2
<1>4. ASSUME NEW b \in CommandBuffers, NEW m \in 1 .. MaxRegions, NEW rects,
             vkCmdClearAttachments(b, m, rects)
      PROVE  LeftOK'
  <2>1. m \in Nat /\ (left' = left \/ left' = LeftBy(m, ClearCreates, ClearDestroys))
    BY <1>4, BoundsAssumption DEF vkCmdClearAttachments
  <2>2. \A kind \in Kinds :
          Count(ClearCreates, kind) - Count(ClearDestroys, kind) = IF kind = "bufferView" THEN 0 ELSE 0
    BY ClearsLeave
  <2> QED
    BY <1>1, <2>1, <2>2 DEF LeftOK
<1>5. left' = left => LeftOK'
  BY DEF LeftOK
<1>6. ASSUME NEW b, NEW items, Binds(b, items)  PROVE  left' = left
  BY <1>6 DEF Binds
<1>7. ASSUME NEW b,
             \/ \E p \in Pipelines : vkCmdBindPipeline(b, p)
             \/ \E v \in Viewports : vkCmdSetViewport(b, v)
             \/ \E v \in Values : vkCmdSetDepthBias(b, v)
             \/ \E first \in Bindings, buffers \in SeqOf(VertexBuffers, 2) \ {<<>>} :
                  vkCmdBindVertexBuffers(b, first, buffers)
      PROVE  left' = left
  BY <1>6, <1>7 DEF vkCmdBindPipeline, vkCmdSetViewport, vkCmdSetDepthBias, vkCmdBindVertexBuffers
<1>8. ASSUME NEW b, NEW stages, NEW range, NEW v, vkCmdPushConstants(b, stages, range, v)
      PROVE  left' = left
  BY <1>6, <1>8, Zenon DEF vkCmdPushConstants
<1>9. ASSUME NEW b,
             \/ \E l \in Layouts, s \in Sets : vkCmdBindDescriptorSets(b, l, s)
             \/ vkCmdBeginRenderPass(b) \/ vkCmdEndRenderPass(b)
             \/ vkCmdDraw(b) \/ vkResetCommandBuffer(b)
      PROVE  left' = left
  BY <1>9 DEF vkCmdBindDescriptorSets, vkCmdBeginRenderPass, vkCmdEndRenderPass, vkCmdDraw,
              vkResetCommandBuffer
<1>10. UNCHANGED vars => left' = left
  BY DEF vars
<1> QED
  BY <1>2, <1>3, <1>4, <1>5, <1>7, <1>8, <1>9, <1>10, Zenon DEF Next

(* However often copies, blits and clears are recorded, and with however   *)
(* many regions, they leave buffer views of copies and nothing else        *)
(* (copy.c:1094-1099, 1269-1276; stateChange.c:778-779).                   *)
THEOREM BlitsAndClearsCleanUp == Spec => []OnlyBufferViewsStay
<1>1. Init => LeftOK
  BY DEF Init, LeftOK
<1>2. LeftOK => OnlyBufferViewsStay
  BY DEF LeftOK, OnlyBufferViewsStay
<1> QED
  BY <1>1, <1>2, LeftStep, PTL DEF Spec

-----------------------------------------------------------------------------
(* Quads, each on top of what the one before it left.                      *)
ArePushed(f, stage, words, last, tag) ==
  /\ DOMAIN Pushed(stage, 0, words) = {<<stage, j>> : j \in 0 .. last}
  /\ DOMAIN f = {<<stage, j>> : j \in 0 .. last}
  /\ \A j \in 0 .. last : f[<<stage, j>>] = <<words[j + 1], tag>>

LEMMA PushedWords ==
  ASSUME NEW stage, NEW n \in Nat, NEW words, DOMAIN words = 1 .. n, NEW tag
  PROVE  ArePushed(Pushed(stage, 0, Tagged(words, tag)), stage, words, n - 1, tag)
<1> DEFINE D == {<<stage, j>> : j \in 0 .. n - 1}
           ws == Tagged(words, tag)
<1>1. DOMAIN ws = 1 .. n /\ \A k \in 1 .. n : ws[k] = <<words[k], tag>>
  BY DEF Tagged
<1> HIDE DEF ws
<1>2. {Word(stage, 0 + k - 1) : k \in 1 .. n} = D
  <2>1. ASSUME NEW k \in 1 .. n  PROVE  Word(stage, 0 + k - 1) \in D
    <3>1. k - 1 \in 0 .. n - 1 /\ 0 + k - 1 = k - 1
      OBVIOUS
    <3> QED
      BY <3>1 DEF Word
  <2>2. ASSUME NEW j \in 0 .. n - 1  PROVE  \E k \in 1 .. n : <<stage, j>> = Word(stage, 0 + k - 1)
    <3>1. j + 1 \in 1 .. n /\ 0 + (j + 1) - 1 = j
      OBVIOUS
    <3> QED
      BY <3>1 DEF Word
  <2> QED
    BY <2>1, <2>2
<1>3. DOMAIN Pushed(stage, 0, words) = D
  BY <1>2 DEF Pushed
<1>4. Pushed(stage, 0, ws) = [item \in D |-> ws[item[2] - 0 + 1]]
  BY <1>1, <1>2 DEF Pushed
<1>5. ASSUME NEW j \in 0 .. n - 1  PROVE  Pushed(stage, 0, ws)[<<stage, j>>] = <<words[j + 1], tag>>
  <2>1. <<stage, j>> \in D
    OBVIOUS
  <2>2. Pushed(stage, 0, ws)[<<stage, j>>] = ws[j - 0 + 1]
    BY <1>4, <2>1
  <2>3. j - 0 + 1 = j + 1 /\ j + 1 \in 1 .. n
    OBVIOUS
  <2> QED
    BY <1>1, <2>2, <2>3
<1> QED
  BY <1>3, <1>4, <1>5 DEF ws, ArePushed

(* What a quad needs, and what it leaves alone.                            *)
QuadPut(q, h, constants, n, vertexTag, tag) ==
  /\ DOMAIN h \subseteq DOMAIN q
  /\ \A i \in DOMAIN h : i \notin Disturbs(constants) => q[i] = h[i]
  /\ q[Pipeline] = tag /\ q[Viewport] = <<"quad", vertexTag>> /\ q[VertexBuffer(0)] = FullscreenQuad
  /\ \A j \in 0 .. 3 : q[Word("vertex", j)] = <<QuadScale[j + 1], vertexTag>>
  /\ \A j \in 0 .. n - 1 : q[Word("fragment", j)] = <<constants[j + 1], tag>>

LEMMA QuadPuts ==
  ASSUME NEW h, NEW constants, NEW n \in Nat, DOMAIN constants = 1 .. n, NEW vertexTag, NEW tag
  PROVE  QuadPut(QuadState(h, constants, vertexTag, tag), h, constants, n, vertexTag, tag)
<1>1. PICK a : a = On(Only(VertexBuffer(0), FullscreenQuad), h)
  OBVIOUS
<1>2. PICK b : b = On(Only(Viewport, <<"quad", vertexTag>>), a)
  OBVIOUS
<1>3. PICK c : c = On(Only(Pipeline, tag), b)
  OBVIOUS
<1>4. PICK fs : fs = Pushed("fragment", 0, Tagged(constants, tag))
  OBVIOUS
<1>5. PICK d : d = On(fs, c)
  OBVIOUS
<1>6. PICK vs : vs = Pushed("vertex", 0, Tagged(QuadScale, vertexTag))
  OBVIOUS
<1>7. PICK q : q = On(vs, d)
  OBVIOUS
<1>8. QuadState(h, constants, vertexTag, tag) = q
  BY <1>1, <1>2, <1>3, <1>4, <1>5, <1>6, <1>7 DEF QuadState
<1> DEFINE F == {<<"fragment", j>> : j \in 0 .. n - 1}
           V == {<<"vertex", j>> : j \in 0 .. 3}
<1>9. /\ DOMAIN fs = F /\ DOMAIN Pushed("fragment", 0, constants) = F
      /\ \A j \in 0 .. n - 1 : fs[<<"fragment", j>>] = <<constants[j + 1], tag>>
  <2>1. ArePushed(fs, "fragment", constants, n - 1, tag)
    BY <1>4, PushedWords, Zenon
  <2> QED
    BY <2>1 DEF ArePushed
<1>10. /\ DOMAIN vs = V /\ DOMAIN Pushed("vertex", 0, QuadScale) = V
       /\ \A j \in 0 .. 3 : vs[<<"vertex", j>>] = <<QuadScale[j + 1], vertexTag>>
  <2>1. DOMAIN QuadScale = 1 .. 4 /\ 4 \in Nat /\ 4 - 1 = 3
    BY DEF QuadScale
  <2>2. ArePushed(vs, "vertex", QuadScale, 4 - 1, vertexTag)
    BY <1>6, <2>1, PushedWords, Zenon
  <2> QED
    BY <2>1, <2>2 DEF ArePushed
<1> HIDE DEF F, V
<1>11. /\ DOMAIN a = DOMAIN h \cup {VertexBuffer(0)} /\ a[VertexBuffer(0)] = FullscreenQuad
       /\ \A i \in DOMAIN h : i # VertexBuffer(0) => a[i] = h[i]
  <2>1. HasItem(a, VertexBuffer(0), FullscreenQuad, h)
    BY <1>1, ItemOnTop, Zenon
  <2> QED
    BY <2>1 DEF HasItem
<1>12. /\ DOMAIN b = DOMAIN a \cup {Viewport} /\ b[Viewport] = <<"quad", vertexTag>>
       /\ \A i \in DOMAIN a : i # Viewport => b[i] = a[i]
  <2>1. HasItem(b, Viewport, <<"quad", vertexTag>>, a)
    BY <1>2, ItemOnTop, Zenon
  <2> QED
    BY <2>1 DEF HasItem
<1>13. /\ DOMAIN c = DOMAIN b \cup {Pipeline} /\ c[Pipeline] = tag
       /\ \A i \in DOMAIN b : i # Pipeline => c[i] = b[i]
  <2>1. HasItem(c, Pipeline, tag, b)
    BY <1>3, ItemOnTop, Zenon
  <2> QED
    BY <2>1 DEF HasItem
<1>14. /\ DOMAIN d = DOMAIN c \cup F /\ \A i \in F : d[i] = fs[i]
       /\ \A i \in DOMAIN c : i \notin F => d[i] = c[i]
  <2>1. IsOn(d, fs, c)
    BY <1>5, OnTop, Zenon
  <2> QED
    BY <1>9, <2>1 DEF IsOn
<1>15. /\ DOMAIN q = DOMAIN d \cup V /\ \A i \in V : q[i] = vs[i]
       /\ \A i \in DOMAIN d : i \notin V => q[i] = d[i]
  <2>1. IsOn(q, vs, d)
    BY <1>7, OnTop, Zenon
  <2> QED
    BY <1>10, <2>1 DEF IsOn
<1>16. Disturbs(constants) = {Pipeline, Viewport, VertexBuffer(0)} \cup V \cup F
  BY <1>9, <1>10 DEF Disturbs
<1>17. /\ Pipeline \notin F \cup V /\ Viewport \notin F \cup V /\ VertexBuffer(0) \notin F \cup V
       /\ Pipeline # Viewport /\ Pipeline # VertexBuffer(0) /\ Viewport # VertexBuffer(0)
       /\ F \cap V = {}
  BY DEF F, V, Pipeline, Viewport, VertexBuffer
<1>18. DOMAIN h \subseteq DOMAIN q
  BY <1>11, <1>12, <1>13, <1>14, <1>15
<1>19. ASSUME NEW i \in DOMAIN h, i \notin Disturbs(constants)  PROVE  q[i] = h[i]
  <2>1. i # Pipeline /\ i # Viewport /\ i # VertexBuffer(0) /\ i \notin V /\ i \notin F
    BY <1>16, <1>19
  <2> QED
    BY <2>1, <1>11, <1>12, <1>13, <1>14, <1>15
<1>20. q[Pipeline] = tag /\ q[Viewport] = <<"quad", vertexTag>> /\ q[VertexBuffer(0)] = FullscreenQuad
  BY <1>11, <1>12, <1>13, <1>14, <1>15, <1>17
<1>21. ASSUME NEW j \in 0 .. 3  PROVE  q[Word("vertex", j)] = <<QuadScale[j + 1], vertexTag>>
  BY <1>10, <1>15 DEF Word, V
<1>22. ASSUME NEW j \in 0 .. n - 1  PROVE  q[Word("fragment", j)] = <<constants[j + 1], tag>>
  <2>1. <<"fragment", j>> \in F /\ <<"fragment", j>> \notin V
    BY DEF F, V
  <2> QED
    BY <1>9, <1>14, <1>15, <2>1 DEF Word
<1> QED
  BY <1>8, <1>18, <1>19, <1>20, <1>21, <1>22 DEF QuadPut

IsQuads(after, h, constants, tags, m) ==
  /\ after[0] = h
  /\ \A k \in 1 .. m : after[k] = QuadState(after[k - 1], constants, tags[k][1], tags[k][2])

LEMMA QuadsExist ==
  ASSUME NEW h, NEW constants, NEW tags, NEW m \in Nat, Len(tags) = m
  PROVE  IsQuads(AfterQuad(h, constants, tags), h, constants, tags, m)
<1> DEFINE next(g, k) == QuadState(g, constants, tags[k][1], tags[k][2])
           Quads(k, f) == f[0] = h /\ \A n \in 1 .. k : f[n] = next(f[n - 1], n)
           T == {k \in Nat : \E f : Quads(k, f)}
           Fits(f) == f = [k \in 0 .. m |-> IF k = 0 THEN h ELSE next(f[k - 1], k)]
<1> HIDE DEF next
<1>1. 0 \in T
  <2>1. Quads(0, [i \in {0} |-> h])
    OBVIOUS
  <2> QED
    BY <2>1
<1>2. ASSUME NEW k \in Nat, k \in T  PROVE  k + 1 \in T
  <2>1. PICK f : Quads(k, f)
    BY <1>2
  <2>2. PICK v : v = next(f[k], k + 1)
    OBVIOUS
  <2>3. PICK g : g = [i \in 0 .. k + 1 |-> IF i = k + 1 THEN v ELSE f[i]]
    OBVIOUS
  <2>4. g[k + 1] = v /\ \A i \in 0 .. k : g[i] = f[i]
    BY <2>3
  <2>5. g[0] = h
    BY <2>1, <2>4
  <2>6. ASSUME NEW n \in 1 .. k + 1  PROVE  g[n] = next(g[n - 1], n)
    <3>1. CASE n = k + 1
      <4>1. n - 1 = k /\ k \in 0 .. k
        BY <3>1
      <4> QED
        BY <2>2, <2>4, <3>1, <4>1
    <3>2. CASE n # k + 1
      <4>1. n \in 1 .. k /\ n \in 0 .. k /\ n - 1 \in 0 .. k
        BY <3>2
      <4> QED
        BY <2>1, <2>4, <4>1
    <3> QED
      BY <3>1, <3>2
  <2>7. Quads(k + 1, g)
    BY <2>5, <2>6
  <2> QED
    BY <2>7
<1>3. m \in T
  <2> HIDE DEF T
  <2> QED
    BY <1>1, <1>2, Upward
<1>4. PICK f : Quads(m, f)
  BY <1>3
<1>5. PICK g : g = [i \in 0 .. m |-> f[i]]
  OBVIOUS
<1>6. Fits(g)
  <2>1. ASSUME NEW k \in 0 .. m  PROVE  g[k] = IF k = 0 THEN h ELSE next(g[k - 1], k)
    <3>1. CASE k = 0
      BY <1>4, <1>5, <3>1
    <3>2. CASE k # 0
      <4>1. k \in 1 .. m /\ k - 1 \in 0 .. m
        BY <3>2
      <4> QED
        BY <1>4, <1>5, <3>2, <4>1
    <3> QED
      BY <3>1, <3>2
  <2>2. g = [k \in 0 .. m |-> g[k]]
    BY <1>5
  <2> QED
    BY <2>1, <2>2
<1>7. PICK a : a = CHOOSE x : Fits(x)
  OBVIOUS
<1>8. Fits(a)
  BY <1>6, <1>7
<1>9. AfterQuad(h, constants, tags) = a
  BY <1>7 DEF AfterQuad, next
<1>10. Quads(m, a)
  <2>1. \A k \in 0 .. m : a[k] = IF k = 0 THEN h ELSE next(a[k - 1], k)
    BY <1>8
  <2> HIDE DEF Fits
  <2> QED
    BY <2>1
<1> QED
  BY <1>9, <1>10 DEF IsQuads, next

(* Quads leave alone what they do not draw with.                           *)
Keeps(g, h, constants) ==
  DOMAIN h \subseteq DOMAIN g /\ \A i \in DOMAIN h : i \notin Disturbs(constants) => g[i] = h[i]

LEMMA QuadsKeep ==
  ASSUME NEW after, NEW h, NEW constants, NEW tags, NEW m \in Nat, NEW n \in Nat,
         IsQuads(after, h, constants, tags, m), DOMAIN constants = 1 .. n
  PROVE  \A k \in 0 .. m : Keeps(after[k], h, constants)
<1> DEFINE T == {k \in Nat : k \in 0 .. m => Keeps(after[k], h, constants)}
<1>1. 0 \in T
  BY DEF IsQuads, Keeps
<1>2. ASSUME NEW j \in Nat, j \in T  PROVE  j + 1 \in T
  <2> SUFFICES ASSUME j + 1 \in 0 .. m  PROVE  Keeps(after[j + 1], h, constants)
    OBVIOUS
  <2>1. PICK k \in 1 .. m : k = j + 1 /\ k - 1 = j
    OBVIOUS
  <2>2. Keeps(after[j], h, constants)
    BY <1>2, <2>1
  <2>3. after[k] = QuadState(after[j], constants, tags[k][1], tags[k][2])
    BY <2>1 DEF IsQuads
  <2>4. QuadPut(after[k], after[j], constants, n, tags[k][1], tags[k][2])
    BY <2>3, QuadPuts, Zenon
  <2>5. Keeps(after[k], h, constants)
    BY <2>2, <2>4 DEF QuadPut, Keeps
  <2> QED
    BY <2>1, <2>5
<1>3. Nat \subseteq T
  <2> HIDE DEF T
  <2> QED
    BY <1>1, <1>2, Upward
<1> QED
  BY <1>3

LEMMA ConstantsLength ==
  /\ DOMAIN CopyConstants = 1 .. 4 /\ DOMAIN BlitConstants = 1 .. 5 /\ DOMAIN ClearConstants = 1 .. 3
  /\ 3 \in Nat /\ 4 \in Nat /\ 5 \in Nat
BY DEF CopyConstants, BlitConstants, ClearConstants

(* The quads of the attachments of a clear, attachment by attachment.      *)
AreCleared(after, h, rects, m) ==
  after[0] = h /\ \A a \in 1 .. m : after[a] = AfterRectangle(after[a - 1], a, rects)[rects]

LEMMA ClearedExist ==
  ASSUME NEW h, NEW rects, NEW m \in Nat
  PROVE  AreCleared(AfterAttachment(h, m, rects), h, rects, m)
<1> DEFINE next(g, k) == AfterRectangle(g, k, rects)[rects]
           Cleared(k, f) == f[0] = h /\ \A n \in 1 .. k : f[n] = next(f[n - 1], n)
           T == {k \in Nat : \E f : Cleared(k, f)}
           Fits(f) == f = [k \in 0 .. m |-> IF k = 0 THEN h ELSE next(f[k - 1], k)]
<1> HIDE DEF next
<1>1. 0 \in T
  <2>1. Cleared(0, [i \in {0} |-> h])
    OBVIOUS
  <2> QED
    BY <2>1
<1>2. ASSUME NEW k \in Nat, k \in T  PROVE  k + 1 \in T
  <2>1. PICK f : Cleared(k, f)
    BY <1>2
  <2>2. PICK v : v = next(f[k], k + 1)
    OBVIOUS
  <2>3. PICK g : g = [i \in 0 .. k + 1 |-> IF i = k + 1 THEN v ELSE f[i]]
    OBVIOUS
  <2>4. g[k + 1] = v /\ \A i \in 0 .. k : g[i] = f[i]
    BY <2>3
  <2>5. g[0] = h
    BY <2>1, <2>4
  <2>6. ASSUME NEW n \in 1 .. k + 1  PROVE  g[n] = next(g[n - 1], n)
    <3>1. CASE n = k + 1
      <4>1. n - 1 = k /\ k \in 0 .. k
        BY <3>1
      <4> QED
        BY <2>2, <2>4, <3>1, <4>1
    <3>2. CASE n # k + 1
      <4>1. n \in 1 .. k /\ n \in 0 .. k /\ n - 1 \in 0 .. k
        BY <3>2
      <4> QED
        BY <2>1, <2>4, <4>1
    <3> QED
      BY <3>1, <3>2
  <2>7. Cleared(k + 1, g)
    BY <2>5, <2>6
  <2> QED
    BY <2>7
<1>3. m \in T
  <2> HIDE DEF T
  <2> QED
    BY <1>1, <1>2, Upward
<1>4. PICK f : Cleared(m, f)
  BY <1>3
<1>5. PICK g : g = [i \in 0 .. m |-> f[i]]
  OBVIOUS
<1>6. Fits(g)
  <2>1. ASSUME NEW k \in 0 .. m  PROVE  g[k] = IF k = 0 THEN h ELSE next(g[k - 1], k)
    <3>1. CASE k = 0
      BY <1>4, <1>5, <3>1
    <3>2. CASE k # 0
      <4>1. k \in 1 .. m /\ k - 1 \in 0 .. m
        BY <3>2
      <4> QED
        BY <1>4, <1>5, <3>2, <4>1
    <3> QED
      BY <3>1, <3>2
  <2>2. g = [k \in 0 .. m |-> g[k]]
    BY <1>5
  <2> QED
    BY <2>1, <2>2
<1>7. PICK a : a = CHOOSE x : Fits(x)
  OBVIOUS
<1>8. Fits(a)
  BY <1>6, <1>7
<1>9. Cleared(m, a)
  <2>1. \A k \in 0 .. m : a[k] = IF k = 0 THEN h ELSE next(a[k - 1], k)
    BY <1>8
  <2> HIDE DEF Fits
  <2> QED
    BY <2>1
<1>10. AreCleared(a, h, rects, m)
  BY <1>9 DEF AreCleared, next
<1>11. AfterAttachment(h, m, rects) = a
  BY <1>7 DEF AfterAttachment, next
<1> QED
  BY <1>10, <1>11

LEMMA RectanglesAre ==
  ASSUME NEW h, NEW a, NEW rects \in Nat, NEW tags, tags = [r \in 1 .. rects |-> <<<<a, r>>, a>>]
  PROVE  IsQuads(AfterRectangle(h, a, rects), h, ClearConstants, tags, rects)
<1>1. Len(tags) = rects
  OBVIOUS
<1> QED
  BY <1>1, QuadsExist, Zenon DEF AfterRectangle

LEMMA ClearedKeep ==
  ASSUME NEW after, NEW h, NEW rects \in Nat, NEW m \in Nat, AreCleared(after, h, rects, m)
  PROVE  \A a \in 0 .. m : Keeps(after[a], h, ClearConstants)
<1> DEFINE T == {k \in Nat : k \in 0 .. m => Keeps(after[k], h, ClearConstants)}
<1>1. 0 \in T
  BY DEF AreCleared, Keeps
<1>2. ASSUME NEW j \in Nat, j \in T  PROVE  j + 1 \in T
  <2> SUFFICES ASSUME j + 1 \in 0 .. m  PROVE  Keeps(after[j + 1], h, ClearConstants)
    OBVIOUS
  <2>1. PICK k \in 1 .. m : k = j + 1 /\ k - 1 = j
    OBVIOUS
  <2>2. Keeps(after[j], h, ClearConstants)
    BY <1>2, <2>1
  <2>3. after[k] = AfterRectangle(after[j], k, rects)[rects]
    BY <2>1 DEF AreCleared
  <2>4. PICK tags : tags = [r \in 1 .. rects |-> <<<<k, r>>, k>>]
    OBVIOUS
  <2>5. IsQuads(AfterRectangle(after[j], k, rects), after[j], ClearConstants, tags, rects)
    BY <2>4, RectanglesAre, Zenon
  <2>6. \A i \in 0 .. rects : Keeps(AfterRectangle(after[j], k, rects)[i], after[j], ClearConstants)
    BY <2>5, ConstantsLength, QuadsKeep, Zenon
  <2>7. Keeps(after[k], after[j], ClearConstants)
    BY <2>3, <2>6
  <2>8. Keeps(after[k], h, ClearConstants)
    BY <2>2, <2>7 DEF Keeps
  <2> QED
    BY <2>1, <2>8
<1>3. Nat \subseteq T
  <2> HIDE DEF T
  <2> QED
    BY <1>1, <1>2, Upward
<1> QED
  BY <1>3

(* A clear puts back all that its quads draw with.                         *)
LEMMA SavedIsEnough == Items \cap Disturbs(ClearConstants) \subseteq Saved
<1>1. ArePushed(Pushed("vertex", 0, Tagged(QuadScale, 0)), "vertex", QuadScale, 4 - 1, 0)
  <2>1. DOMAIN QuadScale = 1 .. 4 /\ 4 \in Nat
    BY DEF QuadScale
  <2> QED
    BY <2>1, PushedWords, Zenon
<1>2. ArePushed(Pushed("fragment", 0, Tagged(ClearConstants, 0)), "fragment", ClearConstants, 3 - 1, 0)
  BY ConstantsLength, PushedWords, Zenon
<1>3. /\ DOMAIN Pushed("vertex", 0, QuadScale) = {<<"vertex", j>> : j \in 0 .. 3}
      /\ DOMAIN Pushed("fragment", 0, ClearConstants) = {<<"fragment", j>> : j \in 0 .. 2}
  BY <1>1, <1>2 DEF ArePushed
<1>4. ASSUME NEW i \in Items, i \in Disturbs(ClearConstants)  PROVE  i \in Saved
  <2>1. CASE i \in {Pipeline, Viewport}
    BY <2>1 DEF Saved
  <2>2. CASE i = VertexBuffer(0)
    <3>1. 0 \in Bindings
      BY <2>2 DEF Items, WordItems, VertexBuffer, Pipeline, Viewport, DepthBias, Word
    <3> QED
      BY <2>2, <3>1 DEF Saved
  <2>3. ASSUME NEW stage \in {"vertex", "fragment"}, NEW j \in 0 .. 3, i = <<stage, j>>
        PROVE  i \in Saved
    <3>1. j \in Words
      BY <2>3 DEF Items, WordItems, VertexBuffer, Pipeline, Viewport, DepthBias, Word
    <3>2. j \in SavedWords
      BY DEF SavedWords
    <3> QED
      BY <2>3, <3>1, <3>2 DEF Saved, Word
  <2>4. \/ i \in {Pipeline, Viewport} \/ i = VertexBuffer(0)
        \/ \E j \in 0 .. 3 : i = <<"vertex", j>>
        \/ \E j \in 0 .. 2 : i = <<"fragment", j>>
    BY <1>3, <1>4 DEF Disturbs
  <2> QED
    BY <2>1, <2>2, <2>3, <2>4
<1> QED
  BY <1>4

-----------------------------------------------------------------------------
(* A state is what was bound last, but for what was touched since.         *)
Agree(h, w, t) == \A i \in Items : i \in t \/ w[i] = None \/ h[i] = w[i]
SetsAgree(s, w, t) ==
  \A l \in Layouts : LET i == DescriptorSet(l) IN i \in t \/ w[i] = None \/ s[l] = w[i]

BoundOK ==
  /\ have = [b \in CommandBuffers |-> have[b]] /\ wanted = [b \in CommandBuffers |-> wanted[b]]
  /\ touched = [b \in CommandBuffers |-> touched[b]] /\ sets = [l \in Layouts |-> sets[l]]
  /\ \A b \in CommandBuffers :
       /\ Items \subseteq DOMAIN have[b] /\ Items \cup SetItems \subseteq DOMAIN wanted[b]
       /\ wanted[b][Pipeline] \in Pipelines \cup {None}
       /\ Agree(have[b], wanted[b], touched[b])
       /\ SetsAgree(sets, wanted[b], touched[b])

LEMMA ItemKinds ==
  /\ Pipeline \in Items /\ Viewport \in Items /\ DepthBias \in Items
  /\ Items \cap SetItems = {}
  /\ Pipeline # Viewport /\ Pipeline # DepthBias /\ Viewport # DepthBias
  /\ \A l, k : DescriptorSet(l) = DescriptorSet(k) => l = k
BY DEF Items, SetItems, WordItems, VertexBuffer, Pipeline, Viewport, DepthBias, Word, DescriptorSet

(* What the application binds is there, and is what it wants.              *)
LEMMA BindsKeep ==
  ASSUME BoundOK, NEW b \in CommandBuffers, NEW items, Binds(b, items),
         DOMAIN items \cap SetItems = {}, Pipeline \in DOMAIN items => items[Pipeline] \in Pipelines
  PROVE  BoundOK'
<1>1. PICK h : h = On(items, have[b])
  OBVIOUS
<1>2. PICK w : w = On(items, wanted[b])
  OBVIOUS
<1>3. PICK t : t = touched[b] \ DOMAIN items
  OBVIOUS
<1>4. have' = [have EXCEPT ![b] = h] /\ wanted' = [wanted EXCEPT ![b] = w]
      /\ touched' = [touched EXCEPT ![b] = t] /\ sets' = sets
  BY <1>1, <1>2, <1>3 DEF Binds
<1>5. /\ have'[b] = h /\ wanted'[b] = w /\ touched'[b] = t
      /\ \A c \in CommandBuffers : c # b =>
           have'[c] = have[c] /\ wanted'[c] = wanted[c] /\ touched'[c] = touched[c]
      /\ have' = [c \in CommandBuffers |-> have'[c]] /\ wanted' = [c \in CommandBuffers |-> wanted'[c]]
      /\ touched' = [c \in CommandBuffers |-> touched'[c]]
  <2>1. DOMAIN have = CommandBuffers /\ DOMAIN wanted = CommandBuffers /\ DOMAIN touched = CommandBuffers
    BY DEF BoundOK
  <2> QED
    BY <1>4, <2>1
<1>6. IsOn(h, items, have[b]) /\ IsOn(w, items, wanted[b])
  BY <1>1, <1>2, OnTop, Zenon
<1>7. /\ Items \subseteq DOMAIN have[b] /\ Items \cup SetItems \subseteq DOMAIN wanted[b]
      /\ wanted[b][Pipeline] \in Pipelines \cup {None}
      /\ Agree(have[b], wanted[b], touched[b]) /\ SetsAgree(sets, wanted[b], touched[b])
  BY DEF BoundOK
<1>8. Items \subseteq DOMAIN h /\ Items \cup SetItems \subseteq DOMAIN w
  BY <1>6, <1>7 DEF IsOn
<1>9. w[Pipeline] \in Pipelines \cup {None}
  BY <1>6, <1>7, ItemKinds DEF IsOn
<1>10. Agree(h, w, t)
  <2> SUFFICES ASSUME NEW i \in Items  PROVE  i \in t \/ w[i] = None \/ h[i] = w[i]
    BY DEF Agree
  <2>1. CASE i \in DOMAIN items
    BY <1>6, <2>1 DEF IsOn
  <2>2. CASE i \notin DOMAIN items
    <3>1. h[i] = have[b][i] /\ w[i] = wanted[b][i]
      BY <1>6, <1>7, <2>2 DEF IsOn
    <3> QED
      BY <1>3, <1>7, <2>2, <3>1 DEF Agree
  <2> QED
    BY <2>1, <2>2
<1>11. SetsAgree(sets', w, t)
  <2> SUFFICES ASSUME NEW l \in Layouts, NEW i, i = DescriptorSet(l)
               PROVE  i \in t \/ w[i] = None \/ sets[l] = w[i]
    BY <1>4 DEF SetsAgree
  <2>1. i \in SetItems
    BY DEF SetItems
  <2>2. i \notin DOMAIN items /\ w[i] = wanted[b][i]
    BY <1>6, <1>7, <2>1 DEF IsOn
  <2> QED
    BY <1>3, <1>7, <2>2 DEF SetsAgree
<1>12. ASSUME NEW c \in CommandBuffers
       PROVE  /\ Items \subseteq DOMAIN have'[c] /\ Items \cup SetItems \subseteq DOMAIN wanted'[c]
              /\ wanted'[c][Pipeline] \in Pipelines \cup {None}
              /\ Agree(have'[c], wanted'[c], touched'[c])
              /\ SetsAgree(sets', wanted'[c], touched'[c])
  <2>1. CASE c = b
    BY <1>5, <1>8, <1>9, <1>10, <1>11, <2>1
  <2>2. CASE c # b
    <3>1. have'[c] = have[c] /\ wanted'[c] = wanted[c] /\ touched'[c] = touched[c] /\ sets' = sets
      BY <1>4, <1>5, <2>2
    <3> QED
      BY <3>1 DEF BoundOK
  <2> QED
    BY <2>1, <2>2
<1>13. sets' = [l \in Layouts |-> sets'[l]]
  BY <1>4 DEF BoundOK
<1> QED
  BY <1>5, <1>12, <1>13 DEF BoundOK, Agree, SetsAgree

(* Changes of one state, with what changed noted.                          *)
LEMMA ChangesKeep ==
  ASSUME BoundOK, NEW b \in CommandBuffers, NEW h, NEW t,
         have' = [have EXCEPT ![b] = h], touched' = [touched EXCEPT ![b] = t],
         wanted' = wanted, sets' = sets,
         Items \subseteq DOMAIN h, touched[b] \subseteq t,
         \A i \in Items : i \in t \/ h[i] = have[b][i]
  PROVE  BoundOK'
<1>1. /\ have'[b] = h /\ touched'[b] = t
      /\ \A c \in CommandBuffers : c # b => have'[c] = have[c] /\ touched'[c] = touched[c]
      /\ have' = [c \in CommandBuffers |-> have'[c]]
      /\ touched' = [c \in CommandBuffers |-> touched'[c]]
  <2>1. DOMAIN have = CommandBuffers /\ DOMAIN touched = CommandBuffers
    BY DEF BoundOK
  <2> QED
    BY <2>1
<1>2. /\ Agree(have[b], wanted[b], touched[b]) /\ SetsAgree(sets, wanted[b], touched[b])
  BY DEF BoundOK
<1>3. Agree(h, wanted[b], t)
  BY <1>2 DEF Agree
<1>4. SetsAgree(sets, wanted[b], t)
  BY <1>2 DEF SetsAgree
<1>5. ASSUME NEW c \in CommandBuffers
      PROVE  /\ Items \subseteq DOMAIN have'[c] /\ Items \cup SetItems \subseteq DOMAIN wanted'[c]
             /\ wanted'[c][Pipeline] \in Pipelines \cup {None}
             /\ Agree(have'[c], wanted'[c], touched'[c])
             /\ SetsAgree(sets', wanted'[c], touched'[c])
  <2>1. /\ Items \subseteq DOMAIN have[c] /\ Items \cup SetItems \subseteq DOMAIN wanted[c]
        /\ wanted[c][Pipeline] \in Pipelines \cup {None}
        /\ Agree(have[c], wanted[c], touched[c])
        /\ SetsAgree(sets, wanted[c], touched[c])
    BY DEF BoundOK
  <2>2. CASE c = b
    BY <1>1, <1>3, <1>4, <2>1, <2>2
  <2>3. CASE c # b
    <3>1. have'[c] = have[c] /\ wanted' = wanted /\ touched'[c] = touched[c] /\ sets' = sets
      BY <1>1, <2>3
    <3> QED
      BY <2>1, <3>1
  <2> QED
    BY <2>2, <2>3
<1>6. /\ sets' = [l \in Layouts |-> sets'[l]] /\ wanted' = [c \in CommandBuffers |-> wanted'[c]]
  BY DEF BoundOK
<1> QED
  BY <1>1, <1>5, <1>6 DEF BoundOK, Agree, SetsAgree

LEMMA EmulatedKeeps ==
  ASSUME BoundOK, NEW b \in CommandBuffers, NEW n \in Nat, NEW program, NEW dsl, NEW constants,
         NEW c \in Nat, DOMAIN constants = 1 .. c, NEW creates, NEW destroys,
         Emulated(b, n, program, dsl, constants, creates, destroys)
  PROVE  BoundOK'
<1>1. PICK tags : tags = [r \in 1 .. n |-> <<r, r>>]
  OBVIOUS
<1>2. Len(tags) = n
  BY <1>1
<1>3. PICK after : after = AfterQuad(have[b], constants, tags)
  OBVIOUS
<1>4. IsQuads(after, have[b], constants, tags, n)
  BY <1>2, <1>3, QuadsExist, Zenon
<1>5. \A k \in 0 .. n : Keeps(after[k], have[b], constants)
  BY <1>4, QuadsKeep, Zenon
<1>6. Keeps(after[n], have[b], constants)
  BY <1>5
<1>7. PICK h : h = On(Only(Pipeline, Destroyed), after[n])
  OBVIOUS
<1>8. PICK t : t = touched[b] \cup Disturbs(constants)
  OBVIOUS
<1>9. /\ have' = [have EXCEPT ![b] = h] /\ touched' = [touched EXCEPT ![b] = t]
      /\ wanted' = wanted /\ sets' = sets
  BY <1>1, <1>3, <1>7, <1>8 DEF Emulated
<1>10. HasItem(h, Pipeline, Destroyed, after[n])
  BY <1>7, ItemOnTop, Zenon
<1>11. Items \subseteq DOMAIN have[b]
  BY DEF BoundOK
<1>12. Items \subseteq DOMAIN h
  BY <1>6, <1>10, <1>11 DEF Keeps, HasItem
<1>13. \A i \in Items : i \in t \/ h[i] = have[b][i]
  <2> SUFFICES ASSUME NEW i \in Items, i \notin t  PROVE  h[i] = have[b][i]
    OBVIOUS
  <2>1. i \notin Disturbs(constants) /\ i # Pipeline
    BY <1>8 DEF Disturbs
  <2> QED
    BY <1>6, <1>10, <1>11, <2>1 DEF Keeps, HasItem
<1>14. touched[b] \subseteq t
  BY <1>8
<1>15. have' = [have EXCEPT ![b] = h]
  BY <1>9
<1>16. touched' = [touched EXCEPT ![b] = t]
  BY <1>9
<1>17. wanted' = wanted
  BY <1>9
<1>18. sets' = sets
  BY <1>9
<1> QED
  BY <1>12, <1>13, <1>14, <1>15, <1>16, <1>17, <1>18, ChangesKeep, Zenon

LEMMA ClearKeeps ==
  ASSUME BoundOK, NEW b \in CommandBuffers, NEW m \in Nat, NEW rects \in Nat,
         vkCmdClearAttachments(b, m, rects)
  PROVE  BoundOK'
<1>1. CASE b \notin inPass
  <2>1. have' = have /\ touched' = touched /\ wanted' = wanted /\ sets' = sets
    BY <1>1 DEF vkCmdClearAttachments
  <2> QED
    BY <2>1 DEF BoundOK, Agree, SetsAgree
<1>2. CASE b \in inPass
  <2>1. PICK after : after = AfterAttachment(have[b], m, rects)
    OBVIOUS
  <2>2. AreCleared(after, have[b], rects, m)
    BY <2>1, ClearedExist, Zenon
  <2>3. \A a \in 0 .. m : Keeps(after[a], have[b], ClearConstants)
    BY <2>2, ClearedKeep, Zenon
  <2>4. Keeps(after[m], have[b], ClearConstants)
    BY <2>3
  <2>5. PICK h : h = [i \in Items |-> IF i \in Saved THEN have[b][i] ELSE after[m][i]]
    OBVIOUS
  <2>6. /\ have' = [have EXCEPT ![b] = h] /\ touched' = touched /\ wanted' = wanted /\ sets' = sets
    BY <1>2, <2>1, <2>5 DEF vkCmdClearAttachments
  <2>7. touched' = [touched EXCEPT ![b] = touched[b]]
    BY <2>6 DEF BoundOK
  <2>8. Items \subseteq DOMAIN h /\ Items \subseteq DOMAIN have[b]
    BY <2>5 DEF BoundOK
  <2>9. ASSUME NEW i \in Items  PROVE  h[i] = have[b][i]
    <3>1. CASE i \in Saved
      BY <2>5, <3>1
    <3>2. CASE i \notin Saved
      <4>1. i \notin Disturbs(ClearConstants)
        BY <3>2, SavedIsEnough
      <4> QED
        BY <2>4, <2>5, <2>8, <3>2, <4>1 DEF Keeps
    <3> QED
      BY <3>1, <3>2
  <2> QED
    BY <2>6, <2>7, <2>8, <2>9, ChangesKeep
<1> QED
  BY <1>1, <1>2

LEMMA SetsKeep ==
  ASSUME BoundOK, NEW b \in CommandBuffers, NEW l \in Layouts, NEW s,
         vkCmdBindDescriptorSets(b, l, s)
  PROVE  BoundOK'
<1>1. PICK i : i = DescriptorSet(l)
  OBVIOUS
<1>2. PICK w : w = On(Only(i, s), wanted[b])
  OBVIOUS
<1>3. HasItem(w, i, s, wanted[b])
  BY <1>2, ItemOnTop, Zenon
<1>4. /\ wanted' = [wanted EXCEPT ![b] = w] /\ sets' = [sets EXCEPT ![l] = s] /\ have' = have
      /\ touched' = [c \in CommandBuffers |-> IF c = b THEN touched[c] \ {i} ELSE touched[c] \cup {i}]
  BY <1>1, <1>2 DEF vkCmdBindDescriptorSets
<1>5. /\ wanted'[b] = w /\ \A c \in CommandBuffers : c # b => wanted'[c] = wanted[c]
      /\ wanted' = [c \in CommandBuffers |-> wanted'[c]]
      /\ sets'[l] = s /\ \A k \in Layouts : k # l => sets'[k] = sets[k]
      /\ sets' = [k \in Layouts |-> sets'[k]]
      /\ touched' = [c \in CommandBuffers |-> touched'[c]]
  <2>1. DOMAIN wanted = CommandBuffers /\ DOMAIN sets = Layouts
    BY DEF BoundOK
  <2> QED
    BY <1>4, <2>1
<1>6. i \in SetItems /\ i \notin Items
  BY <1>1, ItemKinds DEF SetItems
<1>7. ASSUME NEW c \in CommandBuffers
      PROVE  /\ Items \subseteq DOMAIN have'[c] /\ Items \cup SetItems \subseteq DOMAIN wanted'[c]
             /\ wanted'[c][Pipeline] \in Pipelines \cup {None}
             /\ Agree(have'[c], wanted'[c], touched'[c])
             /\ SetsAgree(sets', wanted'[c], touched'[c])
  <2>1. /\ Items \subseteq DOMAIN have[c] /\ Items \cup SetItems \subseteq DOMAIN wanted[c]
        /\ wanted[c][Pipeline] \in Pipelines \cup {None}
        /\ Agree(have[c], wanted[c], touched[c])
        /\ SetsAgree(sets, wanted[c], touched[c])
    BY DEF BoundOK
  <2>2. CASE c = b
    <3>1. touched'[c] = touched[c] \ {i} /\ wanted'[c] = w /\ have'[c] = have[c]
      BY <1>4, <1>5, <2>2
    <3>2. Items \cup SetItems \subseteq DOMAIN w
      BY <1>3, <2>1, <2>2 DEF HasItem
    <3>3. \A j \in Items : w[j] = wanted[c][j]
      BY <1>3, <1>6, <2>1, <2>2 DEF HasItem
    <3>4. Agree(have'[c], w, touched[c] \ {i})
      BY <1>6, <2>1, <3>1, <3>3 DEF Agree
    <3>5. ASSUME NEW k \in Layouts, NEW j, j = DescriptorSet(k)
          PROVE  j \in touched[c] \ {i} \/ w[j] = None \/ sets'[k] = w[j]
      <4>1. CASE k = l
        BY <1>1, <1>3, <1>5, <3>5, <4>1 DEF HasItem
      <4>2. CASE k # l
        <5>1. j # i
          BY <1>1, <3>5, <4>2, ItemKinds
        <5>2. w[j] = wanted[c][j] /\ sets'[k] = sets[k]
          BY <1>3, <1>5, <2>1, <2>2, <3>5, <4>2, <5>1 DEF HasItem, SetItems
        <5> QED
          BY <2>1, <3>5, <5>1, <5>2 DEF SetsAgree
      <4> QED
        BY <4>1, <4>2
    <3>6. SetsAgree(sets', w, touched[c] \ {i})
      BY <3>5 DEF SetsAgree
    <3>7. w[Pipeline] \in Pipelines \cup {None}
      BY <2>1, <3>3, ItemKinds
    <3> QED
      BY <2>1, <3>1, <3>2, <3>4, <3>6, <3>7
  <2>3. CASE c # b
    <3>1. touched'[c] = touched[c] \cup {i} /\ wanted'[c] = wanted[c] /\ have'[c] = have[c]
      BY <1>4, <1>5, <2>3
    <3>2. Agree(have'[c], wanted'[c], touched'[c])
      BY <2>1, <3>1 DEF Agree
    <3>3. ASSUME NEW k \in Layouts, NEW j, j = DescriptorSet(k)
          PROVE  j \in touched'[c] \/ wanted'[c][j] = None \/ sets'[k] = wanted'[c][j]
      <4>1. CASE k = l
        BY <1>1, <3>1, <3>3, <4>1
      <4>2. CASE k # l
        BY <1>5, <2>1, <3>1, <3>3, <4>2 DEF SetsAgree
      <4> QED
        BY <4>1, <4>2
    <3>4. SetsAgree(sets', wanted'[c], touched'[c])
      BY <3>3 DEF SetsAgree
    <3> QED
      BY <2>1, <3>1, <3>2, <3>4
  <2> QED
    BY <2>2, <2>3
<1>8. have' = [c \in CommandBuffers |-> have'[c]]
  BY <1>4 DEF BoundOK
<1> QED
  BY <1>5, <1>7, <1>8 DEF BoundOK, Agree, SetsAgree

LEMMA ResetKeeps ==
  ASSUME BoundOK, NEW b \in CommandBuffers, vkResetCommandBuffer(b)
  PROVE  BoundOK'
<1>1. PICK w : w = [item \in Items \cup SetItems |-> None]
  OBVIOUS
<1>2. /\ have' = [have EXCEPT ![b][Pipeline] = None] /\ sets' = sets
      /\ wanted' = [wanted EXCEPT ![b] = w] /\ touched' = [touched EXCEPT ![b] = {}]
  BY <1>1 DEF vkResetCommandBuffer
<1>3. PICK h : h = [have[b] EXCEPT ![Pipeline] = None]
  OBVIOUS
<1>4. have' = [have EXCEPT ![b] = h]
  BY <1>2, <1>3
<1>5. /\ have'[b] = h /\ wanted'[b] = w /\ touched'[b] = {}
      /\ \A c \in CommandBuffers : c # b =>
           have'[c] = have[c] /\ wanted'[c] = wanted[c] /\ touched'[c] = touched[c]
      /\ have' = [c \in CommandBuffers |-> have'[c]] /\ wanted' = [c \in CommandBuffers |-> wanted'[c]]
      /\ touched' = [c \in CommandBuffers |-> touched'[c]]
  <2>1. DOMAIN have = CommandBuffers /\ DOMAIN wanted = CommandBuffers /\ DOMAIN touched = CommandBuffers
    BY DEF BoundOK
  <2> QED
    BY <1>2, <1>4, <2>1
<1>6. ASSUME NEW c \in CommandBuffers
      PROVE  /\ Items \subseteq DOMAIN have'[c] /\ Items \cup SetItems \subseteq DOMAIN wanted'[c]
             /\ wanted'[c][Pipeline] \in Pipelines \cup {None}
             /\ Agree(have'[c], wanted'[c], touched'[c])
             /\ SetsAgree(sets', wanted'[c], touched'[c])
  <2>1. CASE c = b
    <3>1. Items \subseteq DOMAIN h
      BY <1>3 DEF BoundOK
    <3>2. \A i \in Items \cup SetItems : w[i] = None
      BY <1>1
    <3>3. Agree(h, w, {}) /\ SetsAgree(sets', w, {})
      BY <3>2 DEF Agree, SetsAgree, SetItems
    <3> QED
      BY <1>1, <1>5, <2>1, <3>1, <3>2, <3>3, ItemKinds
  <2>2. CASE c # b
    <3>1. have'[c] = have[c] /\ wanted'[c] = wanted[c] /\ touched'[c] = touched[c] /\ sets' = sets
      BY <1>2, <1>5, <2>2
    <3> QED
      BY <3>1 DEF BoundOK
  <2> QED
    BY <2>1, <2>2
<1>7. sets' = [l \in Layouts |-> sets'[l]]
  BY <1>2 DEF BoundOK
<1> QED
  BY <1>5, <1>6, <1>7 DEF BoundOK, Agree, SetsAgree

(* What the application binds one by one is no descriptor set.             *)
LEMMA BoundItems ==
  /\ \A p, v : DOMAIN Only(Pipeline, p) \cap SetItems = {} /\ DOMAIN Only(Viewport, v) \cap SetItems = {}
               /\ DOMAIN Only(DepthBias, v) \cap SetItems = {}
  /\ \A p : Only(Pipeline, p)[Pipeline] = p
  /\ \A v : Pipeline \notin DOMAIN Only(Viewport, v) /\ Pipeline \notin DOMAIN Only(DepthBias, v)
BY DEF Only, Pipeline, Viewport, DepthBias, SetItems, DescriptorSet

LEMMA PushedItems ==
  ASSUME NEW stage \in {"vertex", "fragment"}, NEW offset, NEW words
  PROVE  DOMAIN Pushed(stage, offset, words) \cap SetItems = {}
         /\ Pipeline \notin DOMAIN Pushed(stage, offset, words)
BY DEF Pushed, Word, Pipeline, SetItems, DescriptorSet

LEMMA PushesKeep ==
  ASSUME BoundOK, NEW b \in CommandBuffers, NEW stages \in SUBSET {"vertex", "fragment"},
         NEW range, NEW v, vkCmdPushConstants(b, stages, range, v)
  PROVE  BoundOK'
<1>1. PICK words : words = [k \in 1 .. range[2] |-> v]
  OBVIOUS
<1>2. CASE stages = {"vertex", "fragment"}
  <2>1. PICK pv : pv = Pushed("vertex", range[1], words)
    OBVIOUS
  <2>2. PICK pf : pf = Pushed("fragment", range[1], words)
    OBVIOUS
  <2>3. PICK items : items = On(pv, pf)
    OBVIOUS
  <2>4. Binds(b, items)
    BY <1>1, <1>2, <2>1, <2>2, <2>3 DEF vkCmdPushConstants
  <2>5. IsOn(items, pv, pf)
    BY <2>3, OnTop, Zenon
  <2>6. /\ DOMAIN pv \cap SetItems = {} /\ Pipeline \notin DOMAIN pv
        /\ DOMAIN pf \cap SetItems = {} /\ Pipeline \notin DOMAIN pf
    BY <2>1, <2>2, PushedItems
  <2>7. DOMAIN items \cap SetItems = {} /\ Pipeline \notin DOMAIN items
    BY <2>5, <2>6 DEF IsOn
  <2> QED
    BY <2>4, <2>7, BindsKeep
<1>3. CASE stages # {"vertex", "fragment"}
  <2>1. PICK s : s = CHOOSE x \in stages : TRUE
    OBVIOUS
  <2>2. s \in {"vertex", "fragment"}
    <3>1. \E x \in stages : TRUE
      BY DEF vkCmdPushConstants
    <3> QED
      BY <2>1, <3>1
  <2>3. PICK items : items = Pushed(s, range[1], words)
    OBVIOUS
  <2>4. Binds(b, items)
    BY <1>1, <1>3, <2>1, <2>3 DEF vkCmdPushConstants
  <2>5. DOMAIN items \cap SetItems = {} /\ Pipeline \notin DOMAIN items
    BY <2>2, <2>3, PushedItems
  <2> QED
    BY <2>4, <2>5, BindsKeep
<1> QED
  BY <1>2, <1>3

LEMMA BuffersKeep ==
  ASSUME BoundOK, NEW b \in CommandBuffers, NEW first, NEW buffers,
         vkCmdBindVertexBuffers(b, first, buffers)
  PROVE  BoundOK'
<1>1. PICK items : items = [item \in {VertexBuffer(first + k - 1) : k \in DOMAIN buffers} |->
                              buffers[item[2] - first + 1]]
  OBVIOUS
<1>2. Binds(b, items)
  BY <1>1 DEF vkCmdBindVertexBuffers
<1>3. DOMAIN items \cap SetItems = {} /\ Pipeline \notin DOMAIN items
  BY <1>1 DEF VertexBuffer, Pipeline, SetItems, DescriptorSet
<1> QED
  BY <1>2, <1>3, BindsKeep

LEMMA StillBound ==
  ASSUME BoundOK, UNCHANGED <<have, sets, wanted, touched>>
  PROVE  BoundOK'
BY DEF BoundOK, Agree, SetsAgree

LEMMA BoundStep ==
  ASSUME BoundOK, [Next]_vars
  PROVE  BoundOK'
<1>1. CASE UNCHANGED vars
  BY <1>1, StillBound DEF vars
<1>2. ASSUME NEW b \in CommandBuffers, NEW p \in Pipelines, vkCmdBindPipeline(b, p)  PROVE  BoundOK'
  <2>1. PICK items : items = Only(Pipeline, p)
    OBVIOUS
  <2>2. Binds(b, items)
    BY <1>2, <2>1 DEF vkCmdBindPipeline
  <2>3. DOMAIN items \cap SetItems = {} /\ items[Pipeline] = p
    BY <2>1, BoundItems
  <2> QED
    BY <2>2, <2>3, BindsKeep
<1>3. ASSUME NEW b \in CommandBuffers, NEW v, vkCmdSetViewport(b, v)  PROVE  BoundOK'
  <2>1. PICK items : items = Only(Viewport, v)
    OBVIOUS
  <2>2. Binds(b, items)
    BY <1>3, <2>1 DEF vkCmdSetViewport
  <2>3. DOMAIN items \cap SetItems = {} /\ Pipeline \notin DOMAIN items
    BY <2>1, BoundItems
  <2> QED
    BY <2>2, <2>3, BindsKeep
<1>4. ASSUME NEW b \in CommandBuffers, NEW v, vkCmdSetDepthBias(b, v)  PROVE  BoundOK'
  <2>1. PICK items : items = Only(DepthBias, v)
    OBVIOUS
  <2>2. Binds(b, items)
    BY <1>4, <2>1 DEF vkCmdSetDepthBias
  <2>3. DOMAIN items \cap SetItems = {} /\ Pipeline \notin DOMAIN items
    BY <2>1, BoundItems
  <2> QED
    BY <2>2, <2>3, BindsKeep
<1>5. ASSUME NEW b \in CommandBuffers,
             vkCmdBeginRenderPass(b) \/ vkCmdEndRenderPass(b) \/ vkCmdDraw(b)
      PROVE  BoundOK'
  BY <1>5, StillBound DEF vkCmdBeginRenderPass, vkCmdEndRenderPass, vkCmdDraw
<1>6. ASSUME NEW b \in CommandBuffers, NEW n \in Nat, vkCmdCopyBufferToImage(b, n)  PROVE  BoundOK'
  BY <1>6, ConstantsLength, EmulatedKeeps, Zenon DEF vkCmdCopyBufferToImage
<1>7. ASSUME NEW b \in CommandBuffers, NEW n \in Nat, vkCmdBlitImage(b, n)  PROVE  BoundOK'
  BY <1>7, ConstantsLength, EmulatedKeeps, Zenon DEF vkCmdBlitImage
<1>8. 1 .. MaxRegions \subseteq Nat
  BY BoundsAssumption
<1> QED
  BY <1>1, <1>2, <1>3, <1>4, <1>5, <1>6, <1>7, <1>8, BuffersKeep, PushesKeep, SetsKeep, ClearKeeps,
     ResetKeeps, Zenon DEF Next

-----------------------------------------------------------------------------
(* The state a draw of the application reads.                              *)
LEMMA DrawReads ==
  ASSUME NEW h, NEW p, NEW item \in DOMAIN DrawState(h, p)
  PROVE  /\ item \in Items \cup {DescriptorSet(p.layout)}
         /\ item = Viewport /\ "viewport" \notin p.dynamic => DrawState(h, p)[item] = p
         /\ item = DepthBias /\ "depthBias" \notin p.dynamic => DrawState(h, p)[item] = p
         /\ item = DescriptorSet(p.layout) /\ p.layout \in Layouts
              => DrawState(h, p)[item] = sets[p.layout]
         /\ item \in Items /\ (item = Viewport => "viewport" \in p.dynamic)
              /\ (item = DepthBias => "depthBias" \in p.dynamic)
              => DrawState(h, p)[item] = h[item]
<1>1. item \in Items \cup {DescriptorSet(p.layout)}
  BY DEF DrawState
<1>2. DrawState(h, p)[item] =
        CASE item = Viewport -> IF "viewport" \in p.dynamic THEN h[Viewport] ELSE p
          [] item = DepthBias -> IF "depthBias" \in p.dynamic THEN h[DepthBias] ELSE p
          [] item \in SetItems -> sets[p.layout]
          [] OTHER -> h[item]
  BY <1>1 DEF DrawState
<1>3. CASE item = Viewport
  BY <1>1, <1>2, <1>3, ItemKinds DEF SetItems
<1>4. CASE item = DepthBias
  BY <1>1, <1>2, <1>4, ItemKinds DEF SetItems
<1>5. CASE item # Viewport /\ item # DepthBias
  BY <1>1, <1>2, <1>5, ItemKinds DEF SetItems
<1> QED
  BY <1>3, <1>4, <1>5

(* The one draw of an application reads what was bound.                    *)
ReadsWhatIsWanted(reads, want, t) ==
  \/ Pipeline \in t
  \/ \A item \in DOMAIN reads :
       \/ item \in t \/ want[item] = None
       \/ reads[item] = CASE item = Viewport /\ "viewport" \notin want[Pipeline].dynamic -> want[Pipeline]
                          [] item = DepthBias /\ "depthBias" \notin want[Pipeline].dynamic -> want[Pipeline]
                          [] OTHER -> want[item]

LEMMA DrawsRead ==
  ASSUME BoundOK, NEW b \in CommandBuffers, wanted[b][Pipeline] # None,
         NEW reads, reads = IF have[b][Pipeline] = Destroyed THEN Only(Pipeline, Destroyed)
                            ELSE DrawState(have[b], have[b][Pipeline])
  PROVE  ReadsWhatIsWanted(reads, wanted[b], touched[b])
<1> SUFFICES ASSUME Pipeline \notin touched[b], NEW item \in DOMAIN reads, item \notin touched[b],
                    wanted[b][item] # None
             PROVE  reads[item] =
                      CASE item = Viewport /\ "viewport" \notin wanted[b][Pipeline].dynamic -> wanted[b][Pipeline]
                        [] item = DepthBias /\ "depthBias" \notin wanted[b][Pipeline].dynamic -> wanted[b][Pipeline]
                        [] OTHER -> wanted[b][item]
  BY DEF ReadsWhatIsWanted
<1>1. PICK p : p = wanted[b][Pipeline]
  OBVIOUS
<1>2. /\ p \in Pipelines /\ p.layout \in Layouts
      /\ Agree(have[b], wanted[b], touched[b]) /\ SetsAgree(sets, wanted[b], touched[b])
  BY <1>1, PipelinesAreRecords DEF BoundOK
<1>3. have[b][Pipeline] = p
  BY <1>1, <1>2, ItemKinds DEF Agree
<1>4. CASE p = Destroyed
  <2>1. item = Pipeline /\ reads[item] = p
    BY <1>3, <1>4 DEF Only
  <2> QED
    BY <1>1, <2>1, ItemKinds
<1>5. CASE p # Destroyed
  <2>1. reads = DrawState(have[b], p)
    BY <1>3, <1>5
  <2>2. /\ item \in Items \cup {DescriptorSet(p.layout)}
        /\ item = Viewport /\ "viewport" \notin p.dynamic => reads[item] = p
        /\ item = DepthBias /\ "depthBias" \notin p.dynamic => reads[item] = p
        /\ item = DescriptorSet(p.layout) /\ p.layout \in Layouts => reads[item] = sets[p.layout]
        /\ item \in Items /\ (item = Viewport => "viewport" \in p.dynamic)
             /\ (item = DepthBias => "depthBias" \in p.dynamic) => reads[item] = have[b][item]
    BY <2>1, DrawReads
  <2>3. CASE item = DescriptorSet(p.layout)
    <3>1. reads[item] = wanted[b][item]
      BY <1>2, <2>2, <2>3 DEF SetsAgree
    <3>2. item # Viewport /\ item # DepthBias
      BY <2>3 DEF DescriptorSet, Viewport, DepthBias
    <3> QED
      BY <3>1, <3>2
  <2>4. CASE item \in Items
    <3>1. have[b][item] = wanted[b][item]
      BY <1>2, <2>4 DEF Agree
    <3>2. CASE item = Viewport
      BY <1>1, <2>2, <2>4, <3>1, <3>2, ItemKinds
    <3>3. CASE item = DepthBias
      BY <1>1, <2>2, <2>4, <3>1, <3>3, ItemKinds
    <3>4. CASE item # Viewport /\ item # DepthBias
      BY <2>2, <2>4, <3>1, <3>4
    <3> QED
      BY <3>2, <3>3, <3>4
  <2> QED
    BY <2>2, <2>3, <2>4
<1> QED
  BY <1>4, <1>5

LEMMA DrawsUseStep ==
  ASSUME BoundOK, DrawsUseWhatWasBound, [Next]_vars
  PROVE  DrawsUseWhatWasBound'
<1>1. CASE UNCHANGED vars
  BY <1>1 DEF vars, DrawsUseWhatWasBound
<1>2. CASE draws' = {}
  BY <1>2 DEF DrawsUseWhatWasBound
<1>3. ASSUME NEW b \in CommandBuffers, vkCmdDraw(b)  PROVE  DrawsUseWhatWasBound'
  <2>1. PICK reads : reads = IF have[b][Pipeline] = Destroyed THEN Only(Pipeline, Destroyed)
                             ELSE DrawState(have[b], have[b][Pipeline])
    OBVIOUS
  <2>2. /\ draws' = {[kind |-> "application", buffer |-> b, reads |-> reads]}
        /\ wanted' = wanted /\ touched' = touched /\ wanted[b][Pipeline] # None
    BY <1>3, <2>1 DEF vkCmdDraw
  <2>3. ReadsWhatIsWanted(reads, wanted[b], touched[b])
    BY <2>1, <2>2, DrawsRead
  <2>4. ASSUME NEW d \in draws'  PROVE  d.buffer = b /\ d.reads = reads
    BY <2>2
  <2> QED
    BY <2>2, <2>3, <2>4 DEF DrawsUseWhatWasBound, ReadsWhatIsWanted
<1>4. ASSUME \A d \in draws' : d.kind = "emulated"  PROVE  DrawsUseWhatWasBound'
  BY <1>4 DEF DrawsUseWhatWasBound
<1>5. ASSUME NEW b \in CommandBuffers, NEW n,
             vkCmdCopyBufferToImage(b, n) \/ vkCmdBlitImage(b, n)
      PROVE  \A d \in draws' : d.kind = "emulated"
  BY <1>5 DEF vkCmdCopyBufferToImage, vkCmdBlitImage, Emulated, EmulatedDraw
<1>6. ASSUME NEW b \in CommandBuffers, NEW m, NEW rects, vkCmdClearAttachments(b, m, rects)
      PROVE  \A d \in draws' : d.kind = "emulated"
  BY <1>6 DEF vkCmdClearAttachments, EmulatedDraw
<1>7. ASSUME NEW b \in CommandBuffers, NEW p, NEW stages, NEW range,
             \/ vkCmdBindPipeline(b, p) \/ vkCmdSetViewport(b, p) \/ vkCmdSetDepthBias(b, p)
             \/ vkCmdBindVertexBuffers(b, p, range) \/ vkCmdPushConstants(b, stages, range, p)
             \/ vkCmdBindDescriptorSets(b, p, stages) \/ vkCmdBeginRenderPass(b)
             \/ vkCmdEndRenderPass(b) \/ vkResetCommandBuffer(b)
      PROVE  draws' = {}
  BY <1>7 DEF vkCmdBindPipeline, vkCmdSetViewport, vkCmdSetDepthBias, vkCmdBindVertexBuffers,
              vkCmdPushConstants, vkCmdBindDescriptorSets, vkCmdBeginRenderPass, vkCmdEndRenderPass,
              vkResetCommandBuffer, Binds
<1> QED
  BY <1>1, <1>2, <1>3, <1>4, <1>5, <1>6, <1>7, Zenon DEF Next

(* What a draw of the application reads is what it bound last in that      *)
(* command buffer, but for what a copy or a blit there used and for the    *)
(* sets another buffer bound since: clears put back all they draw with,    *)
(* for every number of attachments, rectangles, bindings and words.        *)
THEOREM DrawsReadWhatWasBound == Spec => []DrawsUseWhatWasBound
<1>1. Init => BoundOK /\ DrawsUseWhatWasBound
  <2> SUFFICES ASSUME Init  PROVE  BoundOK /\ DrawsUseWhatWasBound
    OBVIOUS
  <2>1. BoundOK
    <3>1. \A b \in CommandBuffers :
             /\ have[b] = [item \in Items |-> None] /\ wanted[b] = [item \in Items \cup SetItems |-> None]
             /\ touched[b] = {}
      BY DEF Init
    <3>2. \A b \in CommandBuffers : Agree(have[b], wanted[b], touched[b])
                                    /\ SetsAgree(sets, wanted[b], touched[b])
      BY <3>1, ZenonT(60) DEF Agree, SetsAgree, SetItems
    <3>3. \A b \in CommandBuffers :
            /\ Items \subseteq DOMAIN have[b] /\ Items \cup SetItems \subseteq DOMAIN wanted[b]
            /\ wanted[b][Pipeline] \in Pipelines \cup {None}
      BY <3>1, ItemKinds
    <3>4. /\ have = [b \in CommandBuffers |-> have[b]] /\ wanted = [b \in CommandBuffers |-> wanted[b]]
          /\ touched = [b \in CommandBuffers |-> touched[b]] /\ sets = [l \in Layouts |-> sets[l]]
      BY DEF Init
    <3> QED
      BY <3>2, <3>3, <3>4 DEF BoundOK
  <2>2. DrawsUseWhatWasBound
    BY DEF Init, DrawsUseWhatWasBound
  <2> QED
    BY <2>1, <2>2
<1>2. BoundOK /\ DrawsUseWhatWasBound /\ [Next]_vars => (BoundOK /\ DrawsUseWhatWasBound)'
  BY BoundStep, DrawsUseStep
<1> QED
  BY <1>1, <1>2, PTL DEF Spec

-----------------------------------------------------------------------------
(* Sequences flattened, part by part.                                      *)
Joins(f, parts, m) == f[1] = parts[1] /\ \A i \in 2 .. m : f[i] = f[i - 1] \o parts[i]

LEMMA FlattenJoins ==
  ASSUME NEW parts, NEW m \in Nat, Len(parts) = m, m > 0
  PROVE  \E f : Joins(f, parts, m) /\ FlattenSeq(parts) = f[m]
<1> DEFINE T == {k \in Nat : \E f : Joins(f, parts, k + 1)}
           Fits(f) == f = [i \in 1 .. Len(parts) |-> IF i = 1 THEN parts[i] ELSE f[i - 1] \o parts[i]]
<1>1. 0 \in T
  <2>1. Joins([i \in {1} |-> parts[1]], parts, 0 + 1)
    BY DEF Joins
  <2> QED
    BY <2>1
<1>2. ASSUME NEW k \in Nat, k \in T  PROVE  k + 1 \in T
  <2>1. PICK f : Joins(f, parts, k + 1)
    BY <1>2
  <2>2. PICK v : v = f[k + 1] \o parts[k + 2]
    OBVIOUS
  <2>3. PICK g : g = [i \in 1 .. k + 2 |-> IF i = k + 2 THEN v ELSE f[i]]
    OBVIOUS
  <2>4. g[k + 2] = v /\ \A i \in 1 .. k + 1 : g[i] = f[i]
    BY <2>3
  <2>5. g[1] = parts[1]
    BY <2>1, <2>4 DEF Joins
  <2>6. ASSUME NEW n \in 2 .. k + 2  PROVE  g[n] = g[n - 1] \o parts[n]
    <3>1. CASE n = k + 2
      <4>1. n - 1 = k + 1 /\ k + 1 \in 1 .. k + 1
        BY <3>1
      <4> QED
        BY <2>2, <2>4, <3>1, <4>1
    <3>2. CASE n # k + 2
      <4>1. n \in 2 .. k + 1 /\ n \in 1 .. k + 1 /\ n - 1 \in 1 .. k + 1
        BY <3>2
      <4> QED
        BY <2>1, <2>4, <4>1 DEF Joins
    <3> QED
      BY <3>1, <3>2
  <2>7. k + 2 = k + 1 + 1
    OBVIOUS
  <2>8. Joins(g, parts, k + 1 + 1)
    BY <2>5, <2>6, <2>7 DEF Joins
  <2> QED
    BY <2>8
<1>3. m - 1 \in T
  <2> HIDE DEF T
  <2> QED
    BY <1>1, <1>2, Upward
<1>4. PICK f : Joins(f, parts, m)
  <2>1. m - 1 + 1 = m
    OBVIOUS
  <2> QED
    BY <1>3, <2>1
<1>5. PICK g : g = [i \in 1 .. m |-> f[i]]
  OBVIOUS
<1>6. Fits(g)
  <2>1. ASSUME NEW i \in 1 .. m  PROVE  g[i] = IF i = 1 THEN parts[i] ELSE g[i - 1] \o parts[i]
    <3>1. CASE i = 1
      BY <1>4, <1>5, <3>1 DEF Joins
    <3>2. CASE i # 1
      <4>1. i \in 2 .. m /\ i - 1 \in 1 .. m
        BY <3>2
      <4> QED
        BY <1>4, <1>5, <3>2, <4>1 DEF Joins
    <3> QED
      BY <3>1, <3>2
  <2>2. g = [i \in 1 .. m |-> g[i]]
    BY <1>5
  <2> QED
    BY <2>1, <2>2
<1>7. PICK a : a = CHOOSE x : Fits(x)
  OBVIOUS
<1>8. Fits(a)
  BY <1>6, <1>7
<1>9. FlattenSeq(parts) = a[m]
  BY <1>7 DEF FlattenSeq
<1>10. Joins(a, parts, m)
  <2>1. ASSUME NEW i \in 1 .. m  PROVE  a[i] = IF i = 1 THEN parts[i] ELSE a[i - 1] \o parts[i]
    BY <1>8
  <2> HIDE DEF Fits
  <2>2. a[1] = parts[1]
    <3>1. 1 \in 1 .. m
      OBVIOUS
    <3> QED
      BY <2>1, <3>1
  <2>3. ASSUME NEW i \in 2 .. m  PROVE  a[i] = a[i - 1] \o parts[i]
    <3>1. i \in 1 .. m /\ i # 1
      OBVIOUS
    <3> QED
      BY <2>1, <3>1
  <2> QED
    BY <2>2, <2>3, Zenon DEF Joins
<1> QED
  BY <1>9, <1>10

(* Where the part with number i starts: after ends[i - 1].                 *)
IsFlat(r, S, parts, ends, m) ==
  /\ r \in Seq(S) /\ Len(r) = ends[m]
  /\ \A i \in 1 .. m : \A j \in 1 .. Len(parts[i]) :
       ends[i - 1] + j \in 1 .. ends[m] /\ r[ends[i - 1] + j] = parts[i][j]

Ends(ends, parts, m) ==
  /\ ends[0] = 0
  /\ \A i \in 0 .. m : ends[i] \in Nat
  /\ \A i \in 1 .. m : ends[i] = ends[i - 1] + Len(parts[i])

LEMMA Flattened ==
  ASSUME NEW S, NEW parts, NEW m \in Nat, NEW ends, Len(parts) = m, m > 0,
         \A i \in 1 .. m : parts[i] \in Seq(S), Ends(ends, parts, m)
  PROVE  IsFlat(FlattenSeq(parts), S, parts, ends, m)
<1>1. PICK f : Joins(f, parts, m) /\ FlattenSeq(parts) = f[m]
  BY FlattenJoins
<1> DEFINE T == {k \in Nat : k + 1 \in 1 .. m => IsFlat(f[k + 1], S, parts, ends, k + 1)}
<1>2. 0 \in T
  <2>1. f[1] = parts[1] /\ ends[0] = 0 /\ 1 \in 1 .. m /\ parts[1] \in Seq(S)
    BY <1>1 DEF Joins, Ends
  <2>2. ends[1] = Len(parts[1]) /\ Len(parts[1]) \in Nat
    <3>1. Len(parts[1]) \in Nat /\ 1 - 1 = 0
      BY <2>1
    <3>2. ends[1] = ends[1 - 1] + Len(parts[1])
      BY <2>1 DEF Ends
    <3> QED
      BY <2>1, <3>1, <3>2
  <2>3. IsFlat(f[1], S, parts, ends, 1)
    <3>1. \A i \in 1 .. 1 : i = 1 /\ i - 1 = 0
      OBVIOUS
    <3> QED
      BY <2>1, <2>2, <3>1 DEF IsFlat
  <2> QED
    BY <2>3
<1>3. ASSUME NEW k \in Nat, k \in T  PROVE  k + 1 \in T
  <2> SUFFICES ASSUME k + 1 + 1 \in 1 .. m
               PROVE  IsFlat(f[k + 1 + 1], S, parts, ends, k + 1 + 1)
    OBVIOUS
  <2>1. PICK n \in 2 .. m : n = k + 1 + 1 /\ n - 1 = k + 1 /\ n - 1 \in 1 .. m /\ n \in 1 .. m
    OBVIOUS
  <2>2. IsFlat(f[n - 1], S, parts, ends, n - 1)
    BY <1>3, <2>1
  <2>3. PICK r : r = f[n]
    OBVIOUS
  <2>4. PICK q : q = f[n - 1]
    OBVIOUS
  <2>5. PICK p \in Seq(S) : p = parts[n]
    BY <2>1
  <2>6. PICK e : e = ends[n - 1] /\ e \in Nat
    BY <2>1 DEF Ends
  <2>7. PICK l : l = Len(p) /\ l \in Nat
    BY <2>5
  <2>8. ends[n] = e + l
    BY <2>1, <2>5, <2>6, <2>7 DEF Ends
  <2>9. q \in Seq(S) /\ Len(q) = e
    BY <2>2, <2>4, <2>6 DEF IsFlat
  <2>10. r = q \o p
    BY <1>1, <2>1, <2>3, <2>4, <2>5 DEF Joins
  <2>11. IsJoin(r, S, q, p, e, l)
    BY <2>5, <2>6, <2>7, <2>9, <2>10, Joined, Zenon
  <2>12. ASSUME NEW i \in 1 .. n, NEW j \in 1 .. Len(parts[i])
         PROVE  ends[i - 1] + j \in 1 .. ends[n] /\ r[ends[i - 1] + j] = parts[i][j]
    <3>1. CASE i = n
      <4>1. j \in 1 .. l /\ ends[i - 1] = e /\ parts[i] = p
        BY <2>5, <2>6, <2>7, <3>1
      <4>2. PICK x : x = e + j
        OBVIOUS
      <4>3. x \in 1 .. e + l /\ ~ (x <= e) /\ x - e = j
        BY <2>6, <2>7, <4>1, <4>2, SMTT(40)
      <4>4. r[x] = p[j]
        BY <2>11, <4>3 DEF IsJoin
      <4> QED
        BY <2>8, <4>1, <4>2, <4>3, <4>4
    <3>2. CASE i # n
      <4>1. i \in 1 .. n - 1
        BY <2>1, <3>2
      <4>2. PICK x : x = ends[i - 1] + j
        OBVIOUS
      <4>3. x \in 1 .. e /\ q[x] = parts[i][j]
        BY <2>2, <2>4, <2>6, <4>1, <4>2 DEF IsFlat
      <4>4. x \in 1 .. e + l /\ x <= e
        BY <2>6, <2>7, <4>3
      <4>5. r[x] = q[x]
        BY <2>11, <4>4 DEF IsJoin
      <4> QED
        BY <2>8, <4>2, <4>3, <4>4, <4>5
    <3> QED
      BY <3>1, <3>2
  <2>13. r \in Seq(S) /\ Len(r) = ends[n]
    BY <2>8, <2>11 DEF IsJoin
  <2>14. IsFlat(r, S, parts, ends, n)
    BY <2>12, <2>13, Zenon DEF IsFlat
  <2> QED
    BY <2>1, <2>3, <2>14
<1>4. m - 1 \in T
  <2> HIDE DEF T
  <2>1. Nat \subseteq T
    BY <1>2, <1>3, Upward, Zenon
  <2>2. m - 1 \in Nat
    OBVIOUS
  <2> QED
    BY <2>1, <2>2
<1>5. m - 1 + 1 = m /\ m \in 1 .. m
  OBVIOUS
<1> QED
  BY <1>1, <1>4, <1>5

-----------------------------------------------------------------------------
(* What a mapping of each kind is read as.                                 *)
ReadsAs(mapping, stage, q, v) == WordsOf(mapping, stage, q) = <<v>>

LEMMA PushRead ==
  ASSUME NEW o, NEW w, o \div 4 = w, NEW stage, NEW q, NEW v, q[Word(stage, w)] = v
  PROVE  ReadsAs(Push(o), stage, q, v)
BY DEF ReadsAs, WordsOf, Push, Image

LEMMA TexelBufferRead ==
  ASSUME NEW stage, NEW q
  PROVE  WordsOf(TexelBuffer, stage, q) = <<>>
BY DEF WordsOf, TexelBuffer, Image

LEMMA TextureWordsAre ==
  /\ DOMAIN TextureWords(TRUE) = 1 .. 3
  /\ TextureWords(TRUE)[1] = "texture" /\ TextureWords(TRUE)[2] = "sampler" /\ TextureWords(TRUE)[3] = "lod"
<1>1. PICK a : a = <<"texture", "sampler">>
  OBVIOUS
<1>2. PICK c : c = <<"lod">>
  OBVIOUS
<1>3. PICK S : S = {"texture", "sampler", "lod"}
  OBVIOUS
<1>4. a \in Seq(S) /\ Len(a) = 2 /\ c \in Seq(S) /\ Len(c) = 1 /\ 2 \in Nat /\ 1 \in Nat
  BY <1>1, <1>2, <1>3
<1>5. PICK t : t = a \o c
  OBVIOUS
<1>6. IsJoin(t, S, a, c, 2, 1)
  BY <1>4, <1>5, Joined, Zenon
<1>7. t \in Seq(S) /\ Len(t) = 3 /\ t[1] = a[1] /\ t[2] = a[2] /\ t[3] = c[1]
  BY <1>6 DEF IsJoin
<1>8. TextureWords(TRUE) = t
  BY <1>1, <1>2, <1>5 DEF TextureWords
<1>9. DOMAIN t = 1 .. 3
  BY <1>7
<1> QED
  BY <1>1, <1>2, <1>7, <1>8, <1>9

LEMMA ImageRead ==
  ASSUME NEW stage, NEW q, NEW tag, q[Pipeline] = tag
  PROVE  WordsOf(Image, stage, q) = <<<<"texture", tag>>, <<"sampler", tag>>, <<"lod", tag>>>>
<1>1. PICK t : t = TextureWords(TRUE)
  OBVIOUS
<1>2. DOMAIN t = 1 .. 3 /\ t[1] = "texture" /\ t[2] = "sampler" /\ t[3] = "lod"
  BY <1>1, TextureWordsAre
<1>3. WordsOf(Image, stage, q) = [k \in DOMAIN t |-> <<t[k], q[Pipeline]>>]
  BY <1>1 DEF WordsOf, Image
<1>4. WordsOf(Image, stage, q) = [k \in 1 .. 3 |-> <<t[k], tag>>]
  BY <1>2, <1>3
<1> QED
  BY <1>2, <1>4

(* The words of a stage of which every part is one push constant.          *)
AreTagged(r, words, m, tag) == r = [k \in 1 .. m |-> <<words[k], tag>>]

LEMMA OnePushEach ==
  ASSUME NEW parts, NEW m \in Nat, m > 0, Len(parts) = m, NEW words, NEW tag,
         \A k \in 1 .. m : parts[k] = <<<<words[k], tag>>>>
  PROVE  AreTagged(FlattenSeq(parts), words, m, tag)
<1>1. PICK S : S = {<<words[k], tag>> : k \in 1 .. m}
  OBVIOUS
<1>2. PICK ends : ends = [i \in 0 .. m |-> i]
  OBVIOUS
<1>3. ASSUME NEW k \in 1 .. m
      PROVE  parts[k] \in Seq(S) /\ Len(parts[k]) = 1 /\ parts[k][1] = <<words[k], tag>>
  <2>1. PICK w : w = <<words[k], tag>>
    OBVIOUS
  <2>2. w \in S /\ parts[k] = <<w>>
    BY <1>1, <2>1
  <2> QED
    BY <2>1, <2>2
<1>4. Ends(ends, parts, m)
  BY <1>2, <1>3 DEF Ends
<1>5. PICK r : r = FlattenSeq(parts)
  OBVIOUS
<1>6. IsFlat(r, S, parts, ends, m)
  BY <1>3, <1>4, <1>5, Flattened
<1>7. ends[m] = m
  BY <1>2
<1>8. r \in Seq(S) /\ Len(r) = m
  BY <1>6, <1>7 DEF IsFlat
<1>9. ASSUME NEW k \in 1 .. m  PROVE  r[k] = <<words[k], tag>>
  <2>1. 1 \in 1 .. Len(parts[k]) /\ ends[k - 1] = k - 1 /\ k - 1 + 1 = k
    BY <1>2, <1>3
  <2> QED
    BY <1>3, <1>6, <2>1 DEF IsFlat
<1>10. r = [k \in 1 .. m |-> r[k]]
  BY <1>8
<1> QED
  BY <1>5, <1>9, <1>10 DEF AreTagged

(* What an emulated draw is to be, see ProgramsGetTheirWords.              *)
Served(d) ==
  /\ d.buffer = FullscreenQuad /\ d.viewport = <<"quad", d.n>>
  /\ {d.program.fragment[k] : k \in Descriptors(d.program.fragment)} = d.dsl
  /\ d.handles = d.program.handles
  /\ [k \in DOMAIN d.fragment |-> d.fragment[k][1]] = d.program.takes
  /\ \A k \in DOMAIN d.fragment : d.fragment[k][2] = IF d.program = Clear THEN d.n[1] ELSE d.n
  /\ d.vertex = Tagged(QuadTakes, d.n)

LEMMA VertexWords ==
  ASSUME NEW q, NEW h, NEW constants, NEW n, NEW vertexTag, NEW tag,
         QuadPut(q, h, constants, n, vertexTag, tag)
  PROVE  Uniforms(<<Push(0), Push(4), Push(8), Push(12)>>, "vertex", q) = Tagged(QuadTakes, vertexTag)
<1>1. PICK m : m = <<Push(0), Push(4), Push(8), Push(12)>>
  OBVIOUS
<1>2. PICK parts : parts = [k \in DOMAIN m |-> WordsOf(m[k], "vertex", q)]
  OBVIOUS
<1>3. DOMAIN m = 1 .. 4 /\ Len(parts) = 4 /\ 4 \in Nat /\ 4 > 0
  BY <1>1, <1>2
<1>4. /\ q[Word("vertex", 0)] = <<QuadScale[1], vertexTag>>
      /\ q[Word("vertex", 1)] = <<QuadScale[2], vertexTag>>
      /\ q[Word("vertex", 2)] = <<QuadScale[3], vertexTag>>
      /\ q[Word("vertex", 3)] = <<QuadScale[4], vertexTag>>
  <2>1. 0 \in 0 .. 3 /\ 0 + 1 = 1 /\ 1 \in 0 .. 3 /\ 1 + 1 = 2 /\ 2 \in 0 .. 3 /\ 2 + 1 = 3 /\ 3 \in 0 .. 3 /\ 3 + 1 = 4
    OBVIOUS
  <2> QED
    BY <2>1 DEF QuadPut
<1>5. parts[1] = <<<<QuadScale[1], vertexTag>>>>
  <2>1. parts[1] = WordsOf(Push(0), "vertex", q) /\ 0 \div 4 = 0
    BY <1>1, <1>2
  <2>2. ReadsAs(Push(0), "vertex", q, <<QuadScale[1], vertexTag>>)
    BY <1>4, <2>1, PushRead, Zenon
  <2> QED
    BY <2>1, <2>2 DEF ReadsAs
<1>6. parts[2] = <<<<QuadScale[2], vertexTag>>>>
  <2>1. parts[2] = WordsOf(Push(4), "vertex", q) /\ 4 \div 4 = 1
    BY <1>1, <1>2
  <2>2. ReadsAs(Push(4), "vertex", q, <<QuadScale[2], vertexTag>>)
    BY <1>4, <2>1, PushRead, Zenon
  <2> QED
    BY <2>1, <2>2 DEF ReadsAs
<1>7. parts[3] = <<<<QuadScale[3], vertexTag>>>>
  <2>1. parts[3] = WordsOf(Push(8), "vertex", q) /\ 8 \div 4 = 2
    BY <1>1, <1>2
  <2>2. ReadsAs(Push(8), "vertex", q, <<QuadScale[3], vertexTag>>)
    BY <1>4, <2>1, PushRead, Zenon
  <2> QED
    BY <2>1, <2>2 DEF ReadsAs
<1>8. parts[4] = <<<<QuadScale[4], vertexTag>>>>
  <2>1. parts[4] = WordsOf(Push(12), "vertex", q) /\ 12 \div 4 = 3
    BY <1>1, <1>2
  <2>2. ReadsAs(Push(12), "vertex", q, <<QuadScale[4], vertexTag>>)
    BY <1>4, <2>1, PushRead, Zenon
  <2> QED
    BY <2>1, <2>2 DEF ReadsAs
<1>9. \A k \in 1 .. 4 : parts[k] = <<<<QuadScale[k], vertexTag>>>>
  BY <1>5, <1>6, <1>7, <1>8
<1>10. AreTagged(FlattenSeq(parts), QuadScale, 4, vertexTag)
  BY <1>3, <1>9, OnePushEach, Zenon
<1>11. QuadTakes = QuadScale /\ DOMAIN QuadTakes = 1 .. 4
  BY DEF QuadTakes, QuadScale
<1>12. Uniforms(m, "vertex", q) = FlattenSeq(parts)
  BY <1>2 DEF Uniforms
<1> QED
  BY <1>1, <1>10, <1>11, <1>12 DEF Tagged, AreTagged

LEMMA ClearWords ==
  ASSUME NEW q, NEW h, NEW vertexTag, NEW tag, QuadPut(q, h, ClearConstants, 3, vertexTag, tag)
  PROVE  Uniforms(Clear.fragment, "fragment", q) = [k \in 1 .. 3 |-> <<ClearConstants[k], tag>>]
<1>1. PICK m : m = <<Push(0), Push(4), Push(8)>>
  OBVIOUS
<1>2. PICK parts : parts = [k \in DOMAIN m |-> WordsOf(m[k], "fragment", q)]
  OBVIOUS
<1>3. DOMAIN m = 1 .. 3 /\ Len(parts) = 3 /\ 3 \in Nat /\ 3 > 0
  BY <1>1, <1>2
<1>4. /\ q[Word("fragment", 0)] = <<ClearConstants[1], tag>>
      /\ q[Word("fragment", 1)] = <<ClearConstants[2], tag>>
      /\ q[Word("fragment", 2)] = <<ClearConstants[3], tag>>
  <2>1. 0 \in 0 .. 3 - 1 /\ 0 + 1 = 1 /\ 1 \in 0 .. 3 - 1 /\ 1 + 1 = 2 /\ 2 \in 0 .. 3 - 1 /\ 2 + 1 = 3
    OBVIOUS
  <2> QED
    BY <2>1 DEF QuadPut
<1>5. parts[1] = <<<<ClearConstants[1], tag>>>>
  <2>1. parts[1] = WordsOf(Push(0), "fragment", q) /\ 0 \div 4 = 0
    BY <1>1, <1>2
  <2>2. ReadsAs(Push(0), "fragment", q, <<ClearConstants[1], tag>>)
    BY <1>4, <2>1, PushRead, Zenon
  <2> QED
    BY <2>1, <2>2 DEF ReadsAs
<1>6. parts[2] = <<<<ClearConstants[2], tag>>>>
  <2>1. parts[2] = WordsOf(Push(4), "fragment", q) /\ 4 \div 4 = 1
    BY <1>1, <1>2
  <2>2. ReadsAs(Push(4), "fragment", q, <<ClearConstants[2], tag>>)
    BY <1>4, <2>1, PushRead, Zenon
  <2> QED
    BY <2>1, <2>2 DEF ReadsAs
<1>7. parts[3] = <<<<ClearConstants[3], tag>>>>
  <2>1. parts[3] = WordsOf(Push(8), "fragment", q) /\ 8 \div 4 = 2
    BY <1>1, <1>2
  <2>2. ReadsAs(Push(8), "fragment", q, <<ClearConstants[3], tag>>)
    BY <1>4, <2>1, PushRead, Zenon
  <2> QED
    BY <2>1, <2>2 DEF ReadsAs
<1>8. \A k \in 1 .. 3 : parts[k] = <<<<ClearConstants[k], tag>>>>
  BY <1>5, <1>6, <1>7
<1>9. AreTagged(FlattenSeq(parts), ClearConstants, 3, tag)
  BY <1>3, <1>8, OnePushEach, Zenon
<1>10. Clear.fragment = m
  BY <1>1 DEF Clear
<1>11. Uniforms(m, "fragment", q) = FlattenSeq(parts)
  BY <1>2 DEF Uniforms
<1> QED
  BY <1>9, <1>10, <1>11 DEF AreTagged

(* A texel buffer takes no word, a texture takes three.                    *)
LEMMA FirstIsEmpty ==
  ASSUME NEW parts, NEW m \in Nat, m > 0, Len(parts) = m + 1, NEW words, NEW tag,
         parts[1] = <<>>, \A k \in 1 .. m : parts[k + 1] = <<<<words[k], tag>>>>
  PROVE  AreTagged(FlattenSeq(parts), words, m, tag)
<1>1. PICK S : S = {<<words[k], tag>> : k \in 1 .. m}
  OBVIOUS
<1>2. PICK ends : ends = [i \in 0 .. m + 1 |-> IF i = 0 THEN 0 ELSE i - 1]
  OBVIOUS
<1>3. parts[1] \in Seq(S) /\ Len(parts[1]) = 0
  OBVIOUS
<1>4. ASSUME NEW k \in 1 .. m
      PROVE  parts[k + 1] \in Seq(S) /\ Len(parts[k + 1]) = 1 /\ parts[k + 1][1] = <<words[k], tag>>
  <2>1. PICK w : w = <<words[k], tag>>
    OBVIOUS
  <2>2. w \in S /\ parts[k + 1] = <<w>>
    BY <1>1, <2>1
  <2> QED
    BY <2>1, <2>2
<1>5. ASSUME NEW i \in 1 .. m + 1  PROVE  parts[i] \in Seq(S) /\ ends[i] = ends[i - 1] + Len(parts[i])
  <2>1. CASE i = 1
    <3>1. ends[i] = 0 /\ ends[i - 1] = 0
      BY <1>2, <2>1
    <3>2. parts[i] \in Seq(S) /\ Len(parts[i]) = 0
      BY <1>3, <2>1, Zenon
    <3>3. 0 = 0 + 0
      OBVIOUS
    <3> QED
      BY <3>1, <3>2, <3>3, Zenon
  <2>2. CASE i # 1
    <3>1. PICK k \in 1 .. m : i = k + 1
      <4>1. i - 1 \in 1 .. m /\ i = i - 1 + 1
        BY <2>2
      <4> QED
        BY <4>1
    <3>2. parts[i] \in Seq(S) /\ Len(parts[i]) = 1
      BY <1>4, <3>1
    <3>3. ends[i] = k /\ ends[i - 1] = k - 1
      <4>1. i \in 0 .. m + 1 /\ i # 0 /\ i - 1 \in 0 .. m + 1 /\ i - 1 # 0 /\ i - 1 = k
        BY <3>1
      <4> QED
        BY <1>2, <4>1
    <3> QED
      BY <3>2, <3>3
  <2> QED
    BY <2>1, <2>2
<1>6. ends[0] = 0 /\ \A i \in 0 .. m + 1 : ends[i] \in Nat
  BY <1>2
<1>7. Ends(ends, parts, m + 1)
  BY <1>5, <1>6, Zenon DEF Ends
<1>8. PICK r : r = FlattenSeq(parts)
  OBVIOUS
<1>9. IsFlat(r, S, parts, ends, m + 1)
  <2>1. m + 1 \in Nat /\ m + 1 > 0
    OBVIOUS
  <2>2. \A i \in 1 .. m + 1 : parts[i] \in Seq(S)
    BY <1>5
  <2> QED
    BY <1>7, <1>8, <2>1, <2>2, Flattened, Zenon
<1>10. r \in Seq(S) /\ Len(r) = m
  BY <1>2, <1>9 DEF IsFlat
<1>11. ASSUME NEW k \in 1 .. m  PROVE  r[k] = <<words[k], tag>>
  <2>1. k + 1 \in 1 .. m + 1 /\ k + 1 - 1 = k /\ ends[k] = k - 1 /\ k - 1 + 1 = k
    BY <1>2
  <2>2. 1 \in 1 .. Len(parts[k + 1])
    <3>1. Len(parts[k + 1]) = 1
      BY <1>4, Zenon
    <3>2. 1 \in 1 .. 1
      OBVIOUS
    <3> QED
      BY <3>1, <3>2, Zenon
  <2>3. r[ends[k + 1 - 1] + 1] = parts[k + 1][1]
    BY <1>9, <2>1, <2>2 DEF IsFlat
  <2> QED
    BY <1>4, <2>1, <2>3
<1>12. r = [k \in 1 .. m |-> r[k]]
  BY <1>10
<1> QED
  BY <1>8, <1>11, <1>12 DEF AreTagged

LEMMA LastIsTriple ==
  ASSUME NEW parts, NEW m \in Nat, Len(parts) = m + 1, NEW words, NEW tag,
         \A k \in 1 .. m : parts[k] = <<<<words[k], tag>>>>,
         parts[m + 1] = <<<<words[m + 1], tag>>, <<words[m + 2], tag>>, <<words[m + 3], tag>>>>
  PROVE  AreTagged(FlattenSeq(parts), words, m + 3, tag)
<1>1. PICK S : S = {<<words[k], tag>> : k \in 1 .. m + 3}
  OBVIOUS
<1>2. PICK ends : ends = [i \in 0 .. m + 1 |-> IF i = m + 1 THEN m + 3 ELSE i]
  OBVIOUS
<1>3. PICK last : last = parts[m + 1]
  OBVIOUS
<1>4. /\ last \in Seq(S) /\ Len(last) = 3
      /\ last[1] = <<words[m + 1], tag>> /\ last[2] = <<words[m + 2], tag>> /\ last[3] = <<words[m + 3], tag>>
  <2>1. PICK u : u = <<words[m + 1], tag>>
    OBVIOUS
  <2>2. PICK v : v = <<words[m + 2], tag>>
    OBVIOUS
  <2>3. PICK w : w = <<words[m + 3], tag>>
    OBVIOUS
  <2>4. m + 1 \in 1 .. m + 3 /\ m + 2 \in 1 .. m + 3 /\ m + 3 \in 1 .. m + 3
    OBVIOUS
  <2>5. u \in S /\ v \in S /\ w \in S
    BY <1>1, <2>1, <2>2, <2>3, <2>4
  <2>6. last = <<u, v, w>>
    BY <1>3, <2>1, <2>2, <2>3
  <2> QED
    BY <2>1, <2>2, <2>3, <2>5, <2>6
<1>5. ASSUME NEW k \in 1 .. m
      PROVE  parts[k] \in Seq(S) /\ Len(parts[k]) = 1 /\ parts[k][1] = <<words[k], tag>>
  <2>1. PICK w : w = <<words[k], tag>>
    OBVIOUS
  <2>2. w \in S /\ parts[k] = <<w>>
    BY <1>1, <2>1
  <2> QED
    BY <2>1, <2>2
<1>6. ASSUME NEW i \in 1 .. m + 1  PROVE  parts[i] \in Seq(S) /\ ends[i] = ends[i - 1] + Len(parts[i])
  <2>1. CASE i = m + 1
    <3>1. ends[i] = m + 3 /\ ends[i - 1] = m
      BY <1>2, <2>1
    <3> QED
      BY <1>3, <1>4, <2>1, <3>1
  <2>2. CASE i # m + 1
    <3>1. i \in 1 .. m
      BY <2>2
    <3>2. ends[i] = i /\ ends[i - 1] = i - 1
      BY <1>2, <3>1
    <3>3. parts[i] \in Seq(S) /\ Len(parts[i]) = 1
      BY <1>5, <3>1, Zenon
    <3>4. i = i - 1 + 1
      OBVIOUS
    <3> QED
      BY <3>2, <3>3, <3>4, Zenon
  <2> QED
    BY <2>1, <2>2
<1>7. ends[0] = 0 /\ \A i \in 0 .. m + 1 : ends[i] \in Nat
  BY <1>2
<1>8. Ends(ends, parts, m + 1)
  BY <1>6, <1>7, Zenon DEF Ends
<1>9. PICK r : r = FlattenSeq(parts)
  OBVIOUS
<1>10. IsFlat(r, S, parts, ends, m + 1)
  <2>1. m + 1 \in Nat /\ m + 1 > 0
    OBVIOUS
  <2>2. \A i \in 1 .. m + 1 : parts[i] \in Seq(S)
    BY <1>6
  <2> QED
    BY <1>8, <1>9, <2>1, <2>2, Flattened, Zenon
<1>11. r \in Seq(S) /\ Len(r) = m + 3
  BY <1>2, <1>10 DEF IsFlat
<1>12. ASSUME NEW k \in 1 .. m  PROVE  r[k] = <<words[k], tag>>
  <2>1. k \in 1 .. m + 1 /\ ends[k - 1] = k - 1 /\ k - 1 + 1 = k
    BY <1>2
  <2>2. 1 \in 1 .. Len(parts[k])
    BY <1>5
  <2>3. r[ends[k - 1] + 1] = parts[k][1]
    BY <1>10, <2>1, <2>2 DEF IsFlat
  <2> QED
    BY <1>5, <2>1, <2>3
<1>13. ASSUME NEW j \in 1 .. 3  PROVE  r[m + j] = <<words[m + j], tag>>
  <2>1. m + 1 \in 1 .. m + 1 /\ m + 1 - 1 = m /\ ends[m] = m
    BY <1>2
  <2>2. j \in 1 .. Len(parts[m + 1])
    BY <1>3, <1>4
  <2>3. r[m + j] = last[j]
    <3>1. PICK i : i = m + 1
      OBVIOUS
    <3>2. i \in 1 .. m + 1 /\ parts[i] = last /\ i - 1 = m
      BY <1>3, <3>1
    <3>3. j \in 1 .. Len(parts[i])
      BY <2>2, <3>1, Zenon
    <3>4. r[ends[i - 1] + j] = parts[i][j]
      BY <1>10, <3>2, <3>3, Zenon DEF IsFlat
    <3> QED
      BY <2>1, <3>2, <3>4
  <2>4. last[j] = <<words[m + j], tag>>
    <3>1. j = 1 \/ j = 2 \/ j = 3
      OBVIOUS
    <3> QED
      BY <1>4, <3>1
  <2> QED
    BY <2>3, <2>4
<1>14. ASSUME NEW k \in 1 .. m + 3  PROVE  r[k] = <<words[k], tag>>
  <2>1. CASE k \in 1 .. m
    BY <1>12, <2>1
  <2>2. CASE k \notin 1 .. m
    <3>1. PICK j \in 1 .. 3 : k = m + j
      <4>1. k - m \in 1 .. 3 /\ k = m + (k - m)
        BY <2>2
      <4> QED
        BY <4>1
    <3> QED
      BY <1>13, <3>1
  <2> QED
    BY <2>1, <2>2
<1>15. r = [k \in 1 .. m + 3 |-> r[k]]
  BY <1>11
<1> QED
  BY <1>9, <1>14, <1>15 DEF AreTagged

BlitTakes == <<"level", "uScale", "vScale", "uOffset", "vOffset", "texture", "sampler", "lod">>

LEMMA CopyWords ==
  ASSUME NEW q, NEW h, NEW vertexTag, NEW tag, QuadPut(q, h, CopyConstants, 4, vertexTag, tag)
  PROVE  AreTagged(Uniforms(BufferToTexture.fragment, "fragment", q), CopyConstants, 4, tag)
<1>1. PICK m : m = <<TexelBuffer, Push(0), Push(4), Push(8), Push(12)>>
  OBVIOUS
<1>2. PICK parts : parts = [k \in DOMAIN m |-> WordsOf(m[k], "fragment", q)]
  OBVIOUS
<1>3. DOMAIN m = 1 .. 5 /\ Len(parts) = 4 + 1 /\ 4 \in Nat /\ 4 > 0
  BY <1>1, <1>2
<1>4. /\ q[Word("fragment", 0)] = <<CopyConstants[1], tag>>
      /\ q[Word("fragment", 1)] = <<CopyConstants[2], tag>>
      /\ q[Word("fragment", 2)] = <<CopyConstants[3], tag>>
      /\ q[Word("fragment", 3)] = <<CopyConstants[4], tag>>
  <2>1. /\ 0 \in 0 .. 4 - 1 /\ 0 + 1 = 1 /\ 1 \in 0 .. 4 - 1 /\ 1 + 1 = 2
        /\ 2 \in 0 .. 4 - 1 /\ 2 + 1 = 3 /\ 3 \in 0 .. 4 - 1 /\ 3 + 1 = 4
    OBVIOUS
  <2> QED
    BY <2>1 DEF QuadPut
<1>5. parts[2] = <<<<CopyConstants[1], tag>>>>
  <2>1. parts[2] = WordsOf(Push(0), "fragment", q) /\ 0 \div 4 = 0
    BY <1>1, <1>2
  <2>2. ReadsAs(Push(0), "fragment", q, <<CopyConstants[1], tag>>)
    BY <1>4, <2>1, PushRead, Zenon
  <2> QED
    BY <2>1, <2>2 DEF ReadsAs
<1>6. parts[3] = <<<<CopyConstants[2], tag>>>>
  <2>1. parts[3] = WordsOf(Push(4), "fragment", q) /\ 4 \div 4 = 1
    BY <1>1, <1>2
  <2>2. ReadsAs(Push(4), "fragment", q, <<CopyConstants[2], tag>>)
    BY <1>4, <2>1, PushRead, Zenon
  <2> QED
    BY <2>1, <2>2 DEF ReadsAs
<1>7. parts[4] = <<<<CopyConstants[3], tag>>>>
  <2>1. parts[4] = WordsOf(Push(8), "fragment", q) /\ 8 \div 4 = 2
    BY <1>1, <1>2
  <2>2. ReadsAs(Push(8), "fragment", q, <<CopyConstants[3], tag>>)
    BY <1>4, <2>1, PushRead, Zenon
  <2> QED
    BY <2>1, <2>2 DEF ReadsAs
<1>8. parts[5] = <<<<CopyConstants[4], tag>>>>
  <2>1. parts[5] = WordsOf(Push(12), "fragment", q) /\ 12 \div 4 = 3
    BY <1>1, <1>2
  <2>2. ReadsAs(Push(12), "fragment", q, <<CopyConstants[4], tag>>)
    BY <1>4, <2>1, PushRead, Zenon
  <2> QED
    BY <2>1, <2>2 DEF ReadsAs
<1>9. parts[1] = <<>>
  <2>1. parts[1] = WordsOf(TexelBuffer, "fragment", q)
    BY <1>1, <1>2
  <2> QED
    BY <2>1, TexelBufferRead
<1>10. \A k \in 1 .. 4 : parts[k + 1] = <<<<CopyConstants[k], tag>>>>
  <2>1. 1 + 1 = 2 /\ 2 + 1 = 3 /\ 3 + 1 = 4 /\ 4 + 1 = 5 /\ \A k \in 1 .. 4 : k = 1 \/ k = 2 \/ k = 3 \/ k = 4
    OBVIOUS
  <2> QED
    BY <1>5, <1>6, <1>7, <1>8, <2>1, Zenon
<1>11. AreTagged(FlattenSeq(parts), CopyConstants, 4, tag)
  BY <1>3, <1>9, <1>10, FirstIsEmpty, Zenon
<1>12. BufferToTexture.fragment = m
  BY <1>1 DEF BufferToTexture
<1>13. Uniforms(m, "fragment", q) = FlattenSeq(parts)
  BY <1>2 DEF Uniforms
<1> QED
  BY <1>11, <1>12, <1>13

LEMMA BlitWords ==
  ASSUME NEW q, NEW h, NEW vertexTag, NEW tag, QuadPut(q, h, BlitConstants, 5, vertexTag, tag)
  PROVE  AreTagged(Uniforms(TextureToTexture.fragment, "fragment", q), BlitTakes, 8, tag)
<1>1. PICK m : m = <<Push(0), Push(4), Push(8), Push(12), Push(16), Image>>
  OBVIOUS
<1>2. PICK parts : parts = [k \in DOMAIN m |-> WordsOf(m[k], "fragment", q)]
  OBVIOUS
<1>3. DOMAIN m = 1 .. 6 /\ Len(parts) = 5 + 1 /\ 5 \in Nat
  BY <1>1, <1>2
<1>4. /\ q[Word("fragment", 0)] = <<BlitTakes[1], tag>>
      /\ q[Word("fragment", 1)] = <<BlitTakes[2], tag>>
      /\ q[Word("fragment", 2)] = <<BlitTakes[3], tag>>
      /\ q[Word("fragment", 3)] = <<BlitTakes[4], tag>>
      /\ q[Word("fragment", 4)] = <<BlitTakes[5], tag>>
  <2>1. /\ 0 \in 0 .. 5 - 1 /\ 0 + 1 = 1 /\ 1 \in 0 .. 5 - 1 /\ 1 + 1 = 2
        /\ 2 \in 0 .. 5 - 1 /\ 2 + 1 = 3 /\ 3 \in 0 .. 5 - 1 /\ 3 + 1 = 4 /\ 4 \in 0 .. 5 - 1 /\ 4 + 1 = 5
    OBVIOUS
  <2>2. /\ BlitTakes[1] = BlitConstants[1] /\ BlitTakes[2] = BlitConstants[2]
        /\ BlitTakes[3] = BlitConstants[3] /\ BlitTakes[4] = BlitConstants[4]
        /\ BlitTakes[5] = BlitConstants[5]
    BY DEF BlitTakes, BlitConstants
  <2> QED
    BY <2>1, <2>2 DEF QuadPut
<1>5. parts[1] = <<<<BlitTakes[1], tag>>>>
  <2>1. parts[1] = WordsOf(Push(0), "fragment", q) /\ 0 \div 4 = 0
    BY <1>1, <1>2
  <2>2. ReadsAs(Push(0), "fragment", q, <<BlitTakes[1], tag>>)
    BY <1>4, <2>1, PushRead, Zenon
  <2> QED
    BY <2>1, <2>2 DEF ReadsAs
<1>6. parts[2] = <<<<BlitTakes[2], tag>>>>
  <2>1. parts[2] = WordsOf(Push(4), "fragment", q) /\ 4 \div 4 = 1
    BY <1>1, <1>2
  <2>2. ReadsAs(Push(4), "fragment", q, <<BlitTakes[2], tag>>)
    BY <1>4, <2>1, PushRead, Zenon
  <2> QED
    BY <2>1, <2>2 DEF ReadsAs
<1>7. parts[3] = <<<<BlitTakes[3], tag>>>>
  <2>1. parts[3] = WordsOf(Push(8), "fragment", q) /\ 8 \div 4 = 2
    BY <1>1, <1>2
  <2>2. ReadsAs(Push(8), "fragment", q, <<BlitTakes[3], tag>>)
    BY <1>4, <2>1, PushRead, Zenon
  <2> QED
    BY <2>1, <2>2 DEF ReadsAs
<1>8. parts[4] = <<<<BlitTakes[4], tag>>>>
  <2>1. parts[4] = WordsOf(Push(12), "fragment", q) /\ 12 \div 4 = 3
    BY <1>1, <1>2
  <2>2. ReadsAs(Push(12), "fragment", q, <<BlitTakes[4], tag>>)
    BY <1>4, <2>1, PushRead, Zenon
  <2> QED
    BY <2>1, <2>2 DEF ReadsAs
<1>9. parts[5] = <<<<BlitTakes[5], tag>>>>
  <2>1. parts[5] = WordsOf(Push(16), "fragment", q) /\ 16 \div 4 = 4
    BY <1>1, <1>2
  <2>2. ReadsAs(Push(16), "fragment", q, <<BlitTakes[5], tag>>)
    BY <1>4, <2>1, PushRead, Zenon
  <2> QED
    BY <2>1, <2>2 DEF ReadsAs
<1>10. parts[5 + 1] = <<<<BlitTakes[5 + 1], tag>>, <<BlitTakes[5 + 2], tag>>, <<BlitTakes[5 + 3], tag>>>>
  <2>1. parts[6] = WordsOf(Image, "fragment", q)
    BY <1>1, <1>2
  <2>2. q[Pipeline] = tag
    BY DEF QuadPut
  <2>3. parts[6] = <<<<"texture", tag>>, <<"sampler", tag>>, <<"lod", tag>>>>
    BY <2>1, <2>2, ImageRead
  <2>4. 5 + 1 = 6 /\ 5 + 2 = 7 /\ 5 + 3 = 8
    OBVIOUS
  <2>5. BlitTakes[6] = "texture" /\ BlitTakes[7] = "sampler" /\ BlitTakes[8] = "lod"
    BY DEF BlitTakes
  <2> QED
    BY <2>3, <2>4, <2>5, Zenon
<1>11. \A k \in 1 .. 5 : parts[k] = <<<<BlitTakes[k], tag>>>>
  <2>1. \A k \in 1 .. 5 : k = 1 \/ k = 2 \/ k = 3 \/ k = 4 \/ k = 5
    OBVIOUS
  <2> QED
    BY <1>5, <1>6, <1>7, <1>8, <1>9, <2>1, Zenon
<1>12. AreTagged(FlattenSeq(parts), BlitTakes, 5 + 3, tag)
  BY <1>3, <1>10, <1>11, LastIsTriple, Zenon
<1>13. 5 + 3 = 8
  OBVIOUS
<1>14. TextureToTexture.fragment = m
  BY <1>1 DEF TextureToTexture
<1>15. Uniforms(m, "fragment", q) = FlattenSeq(parts)
  BY <1>2 DEF Uniforms
<1> QED
  BY <1>12, <1>13, <1>14, <1>15, Zenon

(* Words in their places make an emulated draw what it is to be.           *)
FitsProgram(program, dsl, words, m, vertexTag, tag) ==
  /\ program.vertex = <<Push(0), Push(4), Push(8), Push(12)>>
  /\ words = program.takes /\ words = [k \in 1 .. m |-> words[k]]
  /\ {program.fragment[k] : k \in Descriptors(program.fragment)} = dsl
  /\ Cardinality(Descriptors(program.fragment)) = program.handles
  /\ tag = IF program = Clear THEN vertexTag[1] ELSE vertexTag

LEMMA WordsServe ==
  ASSUME NEW program, NEW dsl, NEW q, NEW h, NEW constants, NEW n, NEW vertexTag, NEW tag,
         QuadPut(q, h, constants, n, vertexTag, tag),
         NEW words, NEW m, FitsProgram(program, dsl, words, m, vertexTag, tag),
         AreTagged(Uniforms(program.fragment, "fragment", q), words, m, tag)
  PROVE  Served(EmulatedDraw(program, dsl, q, vertexTag))
<1>1. PICK d : d = EmulatedDraw(program, dsl, q, vertexTag)
  OBVIOUS
<1>2. PICK f : f = Uniforms(program.fragment, "fragment", q)
  OBVIOUS
<1>3. PICK v : v = Uniforms(program.vertex, "vertex", q)
  OBVIOUS
<1>4. /\ d.n = vertexTag /\ d.program = program /\ d.buffer = q[VertexBuffer(0)]
      /\ d.viewport = q[Viewport] /\ d.dsl = dsl
      /\ d.handles = Cardinality(Descriptors(program.fragment))
      /\ d.fragment = f /\ d.vertex = v
  BY <1>1, <1>2, <1>3 DEF EmulatedDraw
<1>5. q[Viewport] = <<"quad", vertexTag>> /\ q[VertexBuffer(0)] = FullscreenQuad
  BY DEF QuadPut
<1>6. v = Tagged(QuadTakes, vertexTag)
  BY <1>3, VertexWords DEF FitsProgram
<1>7. f = [k \in 1 .. m |-> <<words[k], tag>>]
  BY <1>2 DEF AreTagged
<1>8. DOMAIN f = 1 .. m /\ \A k \in 1 .. m : f[k][1] = words[k] /\ f[k][2] = tag
  BY <1>7
<1>9. [k \in DOMAIN f |-> f[k][1]] = words
  <2>1. [k \in DOMAIN f |-> f[k][1]] = [k \in 1 .. m |-> words[k]]
    BY <1>8
  <2> QED
    BY <2>1 DEF FitsProgram
<1>10. \A k \in DOMAIN d.fragment : d.fragment[k][2] = IF d.program = Clear THEN d.n[1] ELSE d.n
  BY <1>4, <1>8 DEF FitsProgram
<1>11. {d.program.fragment[k] : k \in Descriptors(d.program.fragment)} = d.dsl
  BY <1>4 DEF FitsProgram
<1>12. d.handles = d.program.handles
  BY <1>4 DEF FitsProgram
<1>13. [k \in DOMAIN d.fragment |-> d.fragment[k][1]] = d.program.takes
  BY <1>4, <1>9 DEF FitsProgram
<1>14. d.buffer = FullscreenQuad /\ d.viewport = <<"quad", d.n>> /\ d.vertex = Tagged(QuadTakes, d.n)
  BY <1>4, <1>5, <1>6
<1>15. Served(d)
  BY <1>10, <1>11, <1>12, <1>13, <1>14, Zenon DEF Served
<1> QED
  BY <1>1, <1>15

LEMMA CopyServed ==
  ASSUME NEW q, NEW h, NEW n, QuadPut(q, h, CopyConstants, 4, n, n)
  PROVE  Served(EmulatedDraw(BufferToTexture, EmulBufferDsl, q, n))
<1>1. PICK program : program = BufferToTexture
  OBVIOUS
<1>2. program.vertex = <<Push(0), Push(4), Push(8), Push(12)>>
  BY <1>1 DEF BufferToTexture
<1>3. /\ DOMAIN CopyConstants = 1 .. 4 /\ 4 \in Nat /\ CopyConstants = program.takes
      /\ CopyConstants = [k \in 1 .. 4 |-> CopyConstants[k]]
  BY <1>1 DEF BufferToTexture, CopyConstants
<1>4. AreTagged(Uniforms(program.fragment, "fragment", q), CopyConstants, 4, n)
  BY <1>1, CopyWords
<1>5. PICK m : m = <<TexelBuffer, Push(0), Push(4), Push(8), Push(12)>>
  OBVIOUS
<1>6. program.fragment = m
  BY <1>1, <1>5 DEF BufferToTexture
<1>7. Descriptors(m) = {1}
  BY <1>5 DEF Descriptors, TexelBuffer, Push
<1>8. m[1] = TexelBuffer
  BY <1>5
<1>9. {program.fragment[k] : k \in Descriptors(program.fragment)} = EmulBufferDsl
  BY <1>6, <1>7, <1>8 DEF EmulBufferDsl
<1>10. Cardinality(Descriptors(program.fragment)) = program.handles
  <2>1. program.handles = 1
    BY <1>1 DEF BufferToTexture
  <2> QED
    BY <1>6, <1>7, <2>1, FS_Singleton
<1>11. program # Clear
  <2>1. program.handles = 1 /\ Clear.handles = 0
    BY <1>1 DEF BufferToTexture, Clear
  <2> QED
    BY <2>1
<1>12. FitsProgram(program, EmulBufferDsl, CopyConstants, 4, n, n)
  BY <1>2, <1>3, <1>9, <1>10, <1>11 DEF FitsProgram
<1>13. Served(EmulatedDraw(program, EmulBufferDsl, q, n))
  BY <1>4, <1>12, WordsServe, Zenon
<1> QED
  BY <1>1, <1>13

LEMMA BlitServed ==
  ASSUME NEW q, NEW h, NEW n, QuadPut(q, h, BlitConstants, 5, n, n)
  PROVE  Served(EmulatedDraw(TextureToTexture, EmulTextureDsl, q, n))
<1>1. PICK program : program = TextureToTexture
  OBVIOUS
<1>2. program.vertex = <<Push(0), Push(4), Push(8), Push(12)>>
  BY <1>1 DEF TextureToTexture
<1>3. /\ DOMAIN BlitTakes = 1 .. 8 /\ 8 \in Nat /\ BlitTakes = program.takes
      /\ BlitTakes = [k \in 1 .. 8 |-> BlitTakes[k]]
  BY <1>1 DEF TextureToTexture, BlitTakes
<1>4. AreTagged(Uniforms(program.fragment, "fragment", q), BlitTakes, 8, n)
  BY <1>1, BlitWords
<1>5. PICK m : m = <<Push(0), Push(4), Push(8), Push(12), Push(16), Image>>
  OBVIOUS
<1>6. program.fragment = m
  BY <1>1, <1>5 DEF TextureToTexture
<1>7. Descriptors(m) = {6}
  BY <1>5 DEF Descriptors, Image, Push
<1>8. m[6] = Image
  BY <1>5
<1>9. {program.fragment[k] : k \in Descriptors(program.fragment)} = EmulTextureDsl
  BY <1>6, <1>7, <1>8 DEF EmulTextureDsl
<1>10. Cardinality(Descriptors(program.fragment)) = program.handles
  <2>1. program.handles = 1
    BY <1>1 DEF TextureToTexture
  <2> QED
    BY <1>6, <1>7, <2>1, FS_Singleton
<1>11. program # Clear
  <2>1. program.handles = 1 /\ Clear.handles = 0
    BY <1>1 DEF TextureToTexture, Clear
  <2> QED
    BY <2>1
<1>12. FitsProgram(program, EmulTextureDsl, BlitTakes, 8, n, n)
  BY <1>2, <1>3, <1>9, <1>10, <1>11 DEF FitsProgram
<1>13. Served(EmulatedDraw(program, EmulTextureDsl, q, n))
  BY <1>4, <1>12, WordsServe, Zenon
<1> QED
  BY <1>1, <1>13

LEMMA ClearServed ==
  ASSUME NEW q, NEW h, NEW a, NEW r, QuadPut(q, h, ClearConstants, 3, <<a, r>>, a)
  PROVE  Served(EmulatedDraw(Clear, EmulClearDsl, q, <<a, r>>))
<1>1. PICK program : program = Clear
  OBVIOUS
<1>2. program.vertex = <<Push(0), Push(4), Push(8), Push(12)>>
  BY <1>1 DEF Clear
<1>3. /\ DOMAIN ClearConstants = 1 .. 3 /\ 3 \in Nat /\ ClearConstants = program.takes
      /\ ClearConstants = [k \in 1 .. 3 |-> ClearConstants[k]]
  BY <1>1 DEF Clear, ClearConstants
<1>4. AreTagged(Uniforms(program.fragment, "fragment", q), ClearConstants, 3, a)
  <2>1. Uniforms(Clear.fragment, "fragment", q) = [k \in 1 .. 3 |-> <<ClearConstants[k], a>>]
    BY ClearWords
  <2> QED
    BY <1>1, <2>1 DEF AreTagged
<1>5. PICK m : m = <<Push(0), Push(4), Push(8)>>
  OBVIOUS
<1>6. program.fragment = m
  BY <1>1, <1>5 DEF Clear
<1>7. Descriptors(m) = {}
  BY <1>5 DEF Descriptors, Push
<1>8. {program.fragment[k] : k \in Descriptors(program.fragment)} = EmulClearDsl
  BY <1>6, <1>7 DEF EmulClearDsl
<1>9. Cardinality(Descriptors(program.fragment)) = program.handles
  <2>1. program.handles = 0
    BY <1>1 DEF Clear
  <2> QED
    BY <1>6, <1>7, <2>1, FS_EmptySet
<1>10. PICK n : n = <<a, r>>
  OBVIOUS
<1>11. (program = Clear => a = n[1]) /\ (program # Clear => a = n)
  BY <1>1, <1>10
<1>12. QuadPut(q, h, ClearConstants, 3, n, a)
  BY <1>10
<1>13. FitsProgram(program, EmulClearDsl, ClearConstants, 3, n, a)
  BY <1>2, <1>3, <1>8, <1>9, <1>11 DEF FitsProgram
<1>14. Served(EmulatedDraw(program, EmulClearDsl, q, n))
  BY <1>12, <1>4, <1>13, WordsServe, Zenon
<1> QED
  BY <1>1, <1>10, <1>14

-----------------------------------------------------------------------------
(* Every quad of a series is drawn with its own words.                     *)
LEMMA QuadsArePut ==
  ASSUME NEW after, NEW h, NEW constants, NEW tags, NEW m \in Nat, NEW n \in Nat,
         DOMAIN constants = 1 .. n, IsQuads(after, h, constants, tags, m), NEW k \in 1 .. m
  PROVE  QuadPut(after[k], after[k - 1], constants, n, tags[k][1], tags[k][2])
<1>1. after[k] = QuadState(after[k - 1], constants, tags[k][1], tags[k][2])
  BY DEF IsQuads
<1>2. QuadPut(QuadState(after[k - 1], constants, tags[k][1], tags[k][2]), after[k - 1], constants, n,
              tags[k][1], tags[k][2])
  BY QuadPuts, Zenon
<1> QED
  BY <1>1, <1>2

LEMMA RegionsArePut ==
  ASSUME NEW h, NEW constants, NEW c \in Nat, DOMAIN constants = 1 .. c, NEW n \in Nat, NEW r \in 1 .. n,
         NEW tags, tags = [i \in 1 .. n |-> <<i, i>>]
  PROVE  \E g : QuadPut(AfterQuad(h, constants, tags)[r], g, constants, c, r, r)
<1>1. Len(tags) = n /\ tags[r][1] = r /\ tags[r][2] = r
  OBVIOUS
<1>2. PICK after : after = AfterQuad(h, constants, tags)
  OBVIOUS
<1>3. IsQuads(after, h, constants, tags, n)
  BY <1>1, <1>2, QuadsExist, Zenon
<1>4. QuadPut(after[r], after[r - 1], constants, c, tags[r][1], tags[r][2])
  BY <1>3, QuadsArePut, Zenon
<1>5. QuadPut(after[r], after[r - 1], constants, c, r, r)
  BY <1>1, <1>4
<1> QED
  BY <1>2, <1>5

LEMMA RectanglesArePut ==
  ASSUME NEW h, NEW a, NEW rects \in Nat, NEW r \in 1 .. rects
  PROVE  \E g : QuadPut(AfterRectangle(h, a, rects)[r], g, ClearConstants, 3, <<a, r>>, a)
<1>1. PICK tags : tags = [i \in 1 .. rects |-> <<<<a, i>>, a>>]
  OBVIOUS
<1>2. tags[r][1] = <<a, r>> /\ tags[r][2] = a
  BY <1>1
<1>3. PICK after : after = AfterRectangle(h, a, rects)
  OBVIOUS
<1>4. IsQuads(after, h, ClearConstants, tags, rects)
  BY <1>1, <1>3, RectanglesAre, Zenon
<1>5. QuadPut(after[r], after[r - 1], ClearConstants, 3, tags[r][1], tags[r][2])
  BY <1>4, ConstantsLength, QuadsArePut, Zenon
<1>6. QuadPut(after[r], after[r - 1], ClearConstants, 3, <<a, r>>, a)
  BY <1>2, <1>5
<1> QED
  BY <1>3, <1>6

LEMMA WordsStep ==
  ASSUME ProgramsGetTheirWords, [Next]_vars
  PROVE  ProgramsGetTheirWords'
<1>1. CASE UNCHANGED vars
  BY <1>1 DEF vars, ProgramsGetTheirWords
<1>2. ASSUME \A d \in draws' : d.kind = "application"  PROVE  ProgramsGetTheirWords'
  BY <1>2 DEF ProgramsGetTheirWords
<1>3. ASSUME \A d \in draws' : Served(d)  PROVE  ProgramsGetTheirWords'
  BY <1>3 DEF ProgramsGetTheirWords, Served
<1>4. ASSUME NEW b \in CommandBuffers, NEW n \in Nat, vkCmdCopyBufferToImage(b, n), NEW d \in draws'
      PROVE  Served(d)
  <2>1. PICK tags : tags = [i \in 1 .. n |-> <<i, i>>]
    OBVIOUS
  <2>2. PICK after : after = AfterQuad(have[b], CopyConstants, tags)
    OBVIOUS
  <2>3. draws' = {EmulatedDraw(BufferToTexture, EmulBufferDsl, after[r], r) : r \in 1 .. n}
    BY <1>4, <2>1, <2>2 DEF vkCmdCopyBufferToImage, Emulated
  <2>4. PICK r \in 1 .. n : d = EmulatedDraw(BufferToTexture, EmulBufferDsl, after[r], r)
    BY <1>4, <2>3
  <2>5. PICK g : QuadPut(after[r], g, CopyConstants, 4, r, r)
    BY <2>1, <2>2, ConstantsLength, RegionsArePut, Zenon
  <2> QED
    BY <2>4, <2>5, CopyServed, Zenon
<1>5. ASSUME NEW b \in CommandBuffers, NEW n \in Nat, vkCmdBlitImage(b, n), NEW d \in draws'
      PROVE  Served(d)
  <2>1. PICK tags : tags = [i \in 1 .. n |-> <<i, i>>]
    OBVIOUS
  <2>2. PICK after : after = AfterQuad(have[b], BlitConstants, tags)
    OBVIOUS
  <2>3. draws' = {EmulatedDraw(TextureToTexture, EmulTextureDsl, after[r], r) : r \in 1 .. n}
    BY <1>5, <2>1, <2>2 DEF vkCmdBlitImage, Emulated
  <2>4. PICK r \in 1 .. n : d = EmulatedDraw(TextureToTexture, EmulTextureDsl, after[r], r)
    BY <1>5, <2>3
  <2>5. PICK g : QuadPut(after[r], g, BlitConstants, 5, r, r)
    BY <2>1, <2>2, ConstantsLength, RegionsArePut, Zenon
  <2> QED
    BY <2>4, <2>5, BlitServed, Zenon
<1>6. ASSUME NEW b \in CommandBuffers, NEW m \in Nat, NEW rects \in Nat,
             vkCmdClearAttachments(b, m, rects), NEW d \in draws'
      PROVE  Served(d)
  <2>1. b \in inPass
    BY <1>6 DEF vkCmdClearAttachments
  <2>2. PICK after : after = AfterAttachment(have[b], m, rects)
    OBVIOUS
  <2>3. draws' = {EmulatedDraw(Clear, EmulClearDsl, AfterRectangle(after[a - 1], a, rects)[r], <<a, r>>) :
                    a \in 1 .. m, r \in 1 .. rects}
    BY <1>6, <2>1, <2>2, SMTT(40) DEF vkCmdClearAttachments
  <2>4. PICK a \in 1 .. m, r \in 1 .. rects :
          d = EmulatedDraw(Clear, EmulClearDsl, AfterRectangle(after[a - 1], a, rects)[r], <<a, r>>)
    BY <1>6, <2>3
  <2>5. PICK q : q = AfterRectangle(after[a - 1], a, rects)[r]
    OBVIOUS
  <2>6. PICK g : QuadPut(q, g, ClearConstants, 3, <<a, r>>, a)
    BY <2>5, RectanglesArePut, Zenon
  <2>7. Served(EmulatedDraw(Clear, EmulClearDsl, q, <<a, r>>))
    BY <2>6, ClearServed, Zenon
  <2> QED
    BY <2>4, <2>5, <2>7
<1>7. ASSUME NEW b \in CommandBuffers, vkCmdDraw(b)
      PROVE  \A d \in draws' : d.kind = "application"
  BY <1>7 DEF vkCmdDraw
<1>8. ASSUME NEW b \in CommandBuffers, NEW p, NEW stages, NEW range,
             \/ vkCmdBindPipeline(b, p) \/ vkCmdSetViewport(b, p) \/ vkCmdSetDepthBias(b, p)
             \/ vkCmdBindVertexBuffers(b, p, range) \/ vkCmdPushConstants(b, stages, range, p)
             \/ vkCmdBindDescriptorSets(b, p, stages) \/ vkCmdBeginRenderPass(b)
             \/ vkCmdEndRenderPass(b) \/ vkResetCommandBuffer(b)
      PROVE  \A d \in draws' : Served(d)
  <2>1. draws' = {}
    BY <1>8 DEF vkCmdBindPipeline, vkCmdSetViewport, vkCmdSetDepthBias, vkCmdBindVertexBuffers,
                vkCmdPushConstants, vkCmdBindDescriptorSets, vkCmdBeginRenderPass, vkCmdEndRenderPass,
                vkResetCommandBuffer, Binds
  <2> QED
    BY <2>1
<1>9. 1 .. MaxRegions \subseteq Nat
  BY BoundsAssumption
<1> QED
  BY <1>1, <1>2, <1>3, <1>4, <1>5, <1>6, <1>7, <1>8, <1>9, Zenon DEF Next

(* Every emulated draw gives its program the words it takes, in the order  *)
(* it takes them and of its own region or rectangle, for every number of   *)
(* regions, attachments and rectangles and whatever the application bound. *)
THEOREM ProgramsAreServed == Spec => []ProgramsGetTheirWords
<1>1. Init => ProgramsGetTheirWords
  BY DEF Init, ProgramsGetTheirWords
<1> QED
  BY <1>1, WordsStep, PTL DEF Spec
=============================================================================
