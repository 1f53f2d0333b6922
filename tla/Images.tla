-------------------------------- MODULE Images --------------------------------
(***************************************************************************)
(* Where the texels of an image are (driver/resource.c, common.c), and     *)
(* where the render pass commands (renderpass.c, command.c) and the draw   *)
(* commands (draw.c) tell the hardware that they are.  The three places    *)
(* work it out on their own and have to agree.                             *)
(*                                                                         *)
(* Offsets are unsigned words of WordBits bits, 32 in the driver.  `last`  *)
(* is what the driver worked out last: a marker with the attachments of a  *)
(* render pass, the surfaces of the job submitted for it, or the words     *)
(* that describe a texture.                                                *)
(***************************************************************************)
EXTENDS Integers, FiniteSetsExt, TLC

CONSTANTS Infos,        \* for each image, what it may be created with
          WordBits,
          MemorySize,   \* of the memory object that all images share
          Offsets,      \* where an application may place an image in it
          None

ASSUME ImagesAssumption ==
  /\ WordBits \in Nat /\ MemorySize \in Nat /\ Offsets \subseteq Nat
  /\ MemorySize < 2^WordBits

VARIABLES image,        \* image[n]: image n, or None
          boTiling,     \* the tiling the kernel was last told for the memory
          last

vars == <<image, boTiling, last>>

Word(n) == n % 2^WordBits
Larger(a, b) == Max({a, b})

-----------------------------------------------------------------------------
(* Formats.                                                                *)

ETC2 == "ETC2_R8G8B8"
DepthFormats == {"X8_D24", "D24_S8"}
TextureOnly == {"R8G8B8", "R5G5B5A1", "R4G4B4A4", "R8G8", "R16_SFLOAT", "R16_SINT", "R8", "R8_SINT",
                ETC2, "G8B8G8R8_422"}
RenderTargets == {"R16G16B16A16_SFLOAT", "R8G8B8A8", "B5G6R5"}

getFormatBpp(format) ==
  CASE format = "R16G16B16A16_SFLOAT" -> 64
    [] format \in {"R8G8B8A8", "B8G8R8A8"} \cup DepthFormats -> 32
    [] format = "R8G8B8" -> 24
    [] format \in {"R5G5B5A1", "R4G4B4A4", "R5G6B5", "B5G6R5", "R8G8", "R16_SFLOAT", "R16_SINT"} -> 16
    [] format \in {"R8", "R8_SINT", "G8B8G8R8_422"} -> 8
    [] format = ETC2 -> 4

(* The type is five bits wide; 0 stands for two layouts of 32 bits. *)
getTextureDataType ==
  [R16G16B16A16_SFLOAT |-> 15, R8G8B8 |-> 1, R8G8B8A8 |-> 0, R5G5B5A1 |-> 3, R4G4B4A4 |-> 2,
   B5G6R5 |-> 4, R8G8 |-> 7, R16_SFLOAT |-> 9, R16_SINT |-> 11, R8 |-> 5, R8_SINT |-> 10,
   ETC2_R8G8B8 |-> 8, G8B8G8R8_422 |-> 17, X8_D24 |-> 0, D24_S8 |-> 0]

(* Bug: the formats of 16 bits were not added. *)
RenderTargetFormats32 ==
  [R16G16B16A16_SFLOAT |-> "RGBA8888", R8G8B8A8 |-> "RGBA8888", B8G8R8A8 |-> "RGBA8888",
   X8_D24 |-> "RGBA8888", ETC2_R8G8B8 |-> "RGBA8888", D24_S8 |-> "RGBA8888"]

(* Any other format stops the program.                                     *)
getRenderTargetFormatVC4 ==
  [R16G16B16A16_SFLOAT |-> "RGBA8888", R8G8B8A8 |-> "RGBA8888", B8G8R8A8 |-> "RGBA8888",
   X8_D24 |-> "RGBA8888", ETC2_R8G8B8 |-> "RGBA8888", D24_S8 |-> "RGBA8888",
   B5G6R5 |-> "BGR565", R5G6B5 |-> "BGR565"]

(* vkGetPhysicalDeviceFormatProperties, as far as images are concerned. *)
Features(format, linear) ==
  CASE linear -> IF format \in DepthFormats THEN {"SOURCE", "DEPTH"}
                 ELSE IF format \in TextureOnly \cup RenderTargets THEN {"SOURCE"} ELSE {}
    [] format \in DepthFormats -> {"SAMPLED", "SOURCE", "DESTINATION", "DEPTH"}
    [] format \in TextureOnly -> {"SAMPLED", "SOURCE", "DESTINATION"}
    [] format \in RenderTargets -> {"SAMPLED", "SOURCE", "DESTINATION", "COLOR"}
    [] OTHER -> {}

-----------------------------------------------------------------------------
(* Sizes.                                                                  *)

Utile ==
  (256 :> <<1, 2>>) @@ (128 :> <<2, 2>>) @@ (64 :> <<2, 4>>) @@ (32 :> <<4, 4>>) @@ (24 :> <<4, 4>>) @@
  (16 :> <<8, 4>>) @@ (8 :> <<8, 8>>) @@ (4 :> <<16, 8>>) @@ (1 :> <<32, 16>>)

isLTformat(bpp, width, height) == width <= 4 * Utile[bpp][1] \/ height <= 4 * Utile[bpp][2]

roundUp(n, multiple) == ((n + multiple - 1) \div multiple) * multiple
getPow2Pad(n) == Min({p \in {2^k : k \in 0 .. 16} : p >= n})
Page == 4096

-----------------------------------------------------------------------------
(* The images.                                                             *)

Init ==
  /\ image = [n \in DOMAIN Infos |-> None]
  /\ boTiling = "LINEAR"
  /\ last = None

(* Level tilings start as 0, which means linear. *)
vkCreateImage(n) ==
  /\ image[n] = None
  /\ \E info \in Infos[n] :
       image' = [image EXCEPT ![n] =
         [info |-> info, levelOffsets |-> [c \in 0 .. 11 |-> 0],
          levelTiling |-> [c \in 0 .. 11 |-> "LINEAR"], size |-> 0, bound |-> None,
          tiling |-> CASE info.linear -> "LINEAR"
                       [] isLTformat(getFormatBpp(info.format), info.width, info.height) -> "LT"
                       [] OTHER -> "T"]]
  /\ UNCHANGED <<boTiling, last>>

(* The size of a level before it is padded.  All levels but the first      *)
(* shrink from the next powers of two.                                     *)
Extent(i, c) ==
  LET blocks(n) == IF i.info.format = ETC2 THEN (n + 3) \div 4 ELSE n
      at(n) == IF c = 0 THEN blocks(n) ELSE Larger(getPow2Pad(blocks(n)) \div 2^c, 1)
  IN  <<at(i.info.width), at(i.info.height)>>

TilingOf(i, c) ==
  IF i.tiling # "LINEAR" /\ isLTformat(getFormatBpp(i.info.format), Extent(i, c)[1], Extent(i, c)[2])
  THEN "LT" ELSE i.tiling

(* Bug: large images are not padded to whole tiles. *)
PaddingToUtiles(bpp, tiling, samples) == IF tiling = "LINEAR" THEN <<Utile[bpp][1], 1>> ELSE Utile[bpp]

Padding(bpp, tiling, samples) ==
  CASE tiling = "LINEAR" -> IF samples > 1 THEN <<32, 32>> ELSE <<Utile[bpp][1], 1>>
    [] tiling = "LT" -> Utile[bpp]
    [] tiling = "T" -> <<Utile[bpp][1] * 8, Utile[bpp][2] * 8>>

PaddedExtent(i, c) ==
  LET padding == Padding(getFormatBpp(i.info.format), TilingOf(i, c), i.info.samples)
  IN  <<roundUp(Extent(i, c)[1], padding[1]), roundUp(Extent(i, c)[2], padding[2])>>

LevelSize(i, c) ==
  PaddedExtent(i, c)[2] *
  ((PaddedExtent(i, c)[1] * getFormatBpp(i.info.format) * Larger(i.info.samples, 1)) \div 8)

(* Bug: only the first level is moved to the start of a page. *)
OffsetsOfFirstMoved(i, levels) ==
  LET before(c) == MapThenSumSet(LAMBDA d : LevelSize(i, d), levels \ (0 .. c))
  IN  [c \in levels |-> IF c = 0 THEN roundUp(before(0), Page) ELSE before(c)]

(* From the smallest level to the largest; then all are moved, so that the *)
(* largest begins a page.                                                  *)
OffsetsOf(i, levels) ==
  LET before(c) == MapThenSumSet(LAMBDA d : LevelSize(i, d), levels \ (0 .. c))
  IN  [c \in levels |-> before(c) + roundUp(before(0), Page) - before(0)]

(* The layout is worked out when the application asks for the size. *)
vkGetImageMemoryRequirements(n) ==
  LET i == image[n]
      levels == 0 .. i.info.miplevels - 1
  IN  /\ i # None
      /\ image' = [image EXCEPT
           ![n].levelOffsets = OffsetsOf(i, levels) @@ @,
           ![n].levelTiling = [c \in levels |-> TilingOf(i, c)] @@ @,
           ![n].size = Word(i.info.layers * roundUp(LevelSize(i, 0) + OffsetsOf(i, levels)[0], Page))]
      /\ UNCHANGED <<boTiling, last>>

(* The kernel knows of no LT. *)
vc4_bo_set_tiling(tiling) == boTiling' = IF tiling = "LINEAR" THEN "LINEAR" ELSE "T"

(* The application has asked for the size before.  The assertions of the   *)
(* driver are what it has to respect.                                      *)
vkBindImageMemory(n) ==
  /\ image[n] # None /\ image[n].size > 0 /\ image[n].bound = None
  /\ \E offset \in Offsets :
       /\ offset < MemorySize /\ offset % Page = 0 /\ image[n].size <= MemorySize - offset
       /\ image' = [image EXCEPT ![n].bound = offset]
  /\ vc4_bo_set_tiling(image[n].tiling)
  /\ UNCHANGED last

-----------------------------------------------------------------------------
(* Render passes.  A view is an image, a level and a layer of it.          *)

Views(n) ==
  IF image[n] = None \/ image[n].bound = None THEN {}
  ELSE [image : {n}, level : 0 .. image[n].info.miplevels - 1, layer : 0 .. image[n].info.layers - 1]

SizeAt(v) ==
  LET info == image[v.image].info
  IN  <<Larger(info.width \div 2^v.level, 1), Larger(info.height \div 2^v.level, 1)>>

Multi(v) == image[v.image].info.samples > 1
Can(v, uses) == Features(image[v.image].info.format, image[v.image].info.linear) \cap uses # {}

(* Where a layer begins: the size and the number of layers are those of    *)
(* the images that the code names, which are not always the view's.        *)
LayerOffset(layer, sized, layered) ==
  Word(layer * image[sized.image].size) \div image[layered.image].info.layers
LevelOffset(v) == image[v.image].levelOffsets[v.level]

ColorOffset(v) == Word(LevelOffset(v) + LayerOffset(v.layer, v, v))
ResolveOffset(v, color) == Word(LevelOffset(v) + LayerOffset(color.layer, color, color))
DepthOffset(v, color) == Word(LevelOffset(v) + LayerOffset(v.layer, color, v))

(* The surfaces that are loaded, stored or both; loads use the offsets of  *)
(* the stores.                                                             *)
SurfacesOf(pass) ==
  LET surface(v, role, offset) ==
        [view |-> v, role |-> role, full |-> Multi(v), offset |-> offset]
  IN  UNION {
        IF pass.resolve = None \/ pass.stored
        THEN {surface(pass.color, "color", ColorOffset(pass.color))} ELSE {},
        IF pass.resolve # None
        THEN {surface(pass.resolve, "resolve", ResolveOffset(pass.resolve, pass.color))} ELSE {},
        IF pass.depth # None
        THEN {surface(pass.depth, "depth", DepthOffset(pass.depth, pass.color))} ELSE {}}

AttachmentsOf(pass) == {pass.color, pass.resolve, pass.depth} \ {None}

(* The marker keeps the largest level of all attachments for all of them.  *)
(* (The views themselves are kept for the properties only.)                *)
vkCmdBeginRenderPass(pass) ==
  LET attachments == AttachmentsOf(pass) IN
  last' = [kind |-> "pass", surfaces |-> SurfacesOf(pass), attachments |-> attachments,
           resolves |-> pass.resolve # None,
           width |-> Min({SizeAt(v)[1] : v \in attachments}),
           height |-> Min({SizeAt(v)[2] : v \in attachments}),
           mipLevel |-> Max({v.level : v \in attachments})]

BeginRenderPass ==
  /\ \E n \in DOMAIN Infos, m \in DOMAIN Infos \cup {None}, stored \in BOOLEAN :
       \E color \in Views(n), other \in IF m = None THEN {None} ELSE Views(m) :
         LET isDepth == other # None /\ Can(other, {"DEPTH"})
             isTarget == other # None /\ ~isDepth
         IN  /\ Can(color, {"COLOR", "DESTINATION"}) /\ n # m
             /\ other # None => SizeAt(color)[1] <= SizeAt(other)[1]
             /\ isDepth => Multi(other) = Multi(color)
             /\ isTarget => Can(other, {"COLOR"}) /\ Multi(color) /\ ~Multi(other)
                            /\ image[m].info.format = image[n].info.format
             /\ vkCmdBeginRenderPass([color |-> color, stored |-> stored,
                                      resolve |-> IF isTarget THEN other ELSE None,
                                      depth |-> IF isDepth THEN other ELSE None])
  /\ UNCHANGED <<image, boTiling>>

(* Bug: the level of the attachments is not looked at. *)
SurfaceTilingAtZero(s, mipLevel) == image[s.view.image].tiling

SurfaceTiling(s, mipLevel) ==
  IF mipLevel > 0 THEN image[s.view.image].levelTiling[mipLevel] ELSE image[s.view.image].tiling

(* Only the color surfaces have a format; an unknown one stops the program.*)
FormatsKnown(surfaces) ==
  \A s \in surfaces : s.role # "depth" =>
    image[s.view.image].info.format \in DOMAIN getRenderTargetFormatVC4

vkQueueSubmit ==
  /\ last # None /\ last.kind = "pass"
  /\ LET written == {s \in last.surfaces : s.role # "depth"}
         deep == \E s \in written : getFormatBpp(image[s.view.image].info.format) = 64
         multi == last.resolves \/ \E s \in last.surfaces : s.full
         tileW == IF multi THEN 32 ELSE 64
         tileH == (64 \div (IF deep THEN 2 ELSE 1)) \div (IF multi THEN 2 ELSE 1)
     IN  last' =
           IF ~FormatsKnown(last.surfaces) THEN [kind |-> "stopped", surfaces |-> last.surfaces]
           ELSE [kind |-> "job", attachments |-> last.attachments,
                 surfaces |-> {[view |-> s.view, role |-> s.role, full |-> s.full,
                                offset |-> s.offset + image[s.view.image].bound,
                                tiling |-> SurfaceTiling(s, last.mipLevel)] : s \in last.surfaces},
                 frame |-> <<last.width, last.height>>,
                 width |-> IF last.mipLevel > 0 THEN Larger(getPow2Pad(last.width), 4) ELSE last.width,
                 tiles |-> <<(last.width + tileW - 1) \div tileW, (last.height + tileH - 1) \div tileH>>]
  /\ UNCHANGED <<image, boTiling>>

-----------------------------------------------------------------------------
(* Textures.                                                               *)

(* The fields of the words as they are packed: the type is in two places.  *)
encodeTextureUniform(type, levels, cube, stride, base, height, width) ==
  [typeLow |-> type % 16, typeHigh |-> (type \div 16) % 2, levels |-> levels % 16, cube |-> cube,
   base |-> base % 2^20, stride |-> stride % 2^18, height |-> height % 2048, width |-> width % 2048]

(* The base level of the view is left out; copies rely on it, and choose   *)
(* the level in the program.                                               *)
drawCommon(v, cube, levelCount) ==
  LET i == image[v.image]
      cubemapStride == i.size \div 6
  IN  last' =
        [kind |-> "texture", view |-> v,
         words |-> encodeTextureUniform(
           getTextureDataType[i.info.format], Min({levelCount, i.info.miplevels}) - 1, cube,
           cubemapStride \div Page,
           (v.layer * cubemapStride + i.levelOffsets[0] + i.bound) \div Page,
           i.info.height, i.info.width)]

Draw ==
  /\ \E n \in DOMAIN Infos, cube \in BOOLEAN : \E v \in Views(n) :
       \E levelCount \in 1 .. image[n].info.miplevels - v.level :
         /\ Can(v, {"SAMPLED", "SOURCE"}) /\ ~Multi(v)
         /\ cube => v.layer + 6 <= image[n].info.layers
         /\ drawCommon(v, cube, levelCount)
  /\ UNCHANGED <<image, boTiling>>

Next ==
  \/ \E n \in DOMAIN Infos :
       vkCreateImage(n) \/ vkGetImageMemoryRequirements(n) \/ vkBindImageMemory(n)
  \/ BeginRenderPass
  \/ vkQueueSubmit
  \/ Draw

Spec == Init /\ [][Next]_vars

-----------------------------------------------------------------------------
(* What the hardware makes of it, and the properties.                      *)

Laid(v, layer, level) ==
  LET i == image[v.image]
  IN  i.bound + layer * (i.size \div i.info.layers) + i.levelOffsets[level]

(* Texels per row of a surface, from the width of the job. *)
RowLength(s, width) ==
  roundUp(width, Padding(getFormatBpp(image[s.view.image].info.format), s.tiling, 1)[1])

Misplaced(s, attachments) ==
  \/ s.role \in {"depth", "resolve"} /\ \E v \in attachments : v.layer > 0
  \/ s.view.layer * image[s.view.image].size >= 2^WordBits

Misshapen(s, job) ==
  LET i == image[s.view.image] IN
  \/ i.info.format = ETC2
  \/ \E v \in job.attachments : v.level # s.view.level
  \/ job.frame[1] # SizeAt(s.view)[1]
  \/ s.view.level > 0 /\ getPow2Pad(job.frame[1]) # Extent(i, s.view.level)[1]
  \/ s.view.level > 0 /\ getFormatBpp(i.info.format) = 64 /\ job.frame[1] <= 2

(* A format that is advertised as an attachment or as the destination of   *)
(* copies has a render target format (device.c:577, common.c:917), but for *)
(* the formats known for textures only, to which nothing can be copied.    *)
StopsOnlyForTextures ==
  last # None /\ last.kind = "stopped" =>
    \E s \in last.surfaces : image[s.view.image].info.format \in TextureOnly \ {ETC2}

(* A job stores each attachment where the layout of its image has the      *)
(* level and the layer, with the tiling of the level and rows as long as   *)
(* its rows, whatever the format, the size and the other attachments       *)
(* (renderpass.c:57, command.c:398).  The code does not, and the named     *)
(* cases say so: layers of depth and resolve attachments, which use sizes  *)
(* and layers of the color attachment; a product that leaves its word;     *)
(* attachments of different levels or widths; levels whose width is not    *)
(* half of a power of two; narrow levels of 64 bit texels; ETC2 blocks.    *)
RenderedWhereLaidOut ==
  /\ StopsOnlyForTextures
  /\ last # None /\ last.kind = "job" =>
       \A s \in last.surfaces :
         /\ s.offset = Laid(s.view, s.view.layer, s.view.level) \/ Misplaced(s, last.attachments)
         /\ \/ /\ s.tiling = image[s.view.image].levelTiling[s.view.level]
               /\ RowLength(s, last.width) = PaddedExtent(image[s.view.image], s.view.level)[1]
            \/ Multi(s.view)
            \/ Misshapen(s, last)

(* Samples of a tile of the tile buffer are stored one after the other.    *)
TileBytes == 32 * 32 * 4 * 4

Short(i) ==
  i.info.samples > 1 /\ (i.tiling = "LT" \/ getFormatBpp(i.info.format) # 32)

(* The bytes that a job may store are in the image, also when all samples  *)
(* are stored and whole tiles with them; so no other image that shares the *)
(* memory is overwritten, and the kernel accepts the job.  Known not to:   *)
(* the misplaced attachments, and multisampled images too small for LT     *)
(* tiles or with texels of other than 32 bits (resource.c:378).            *)
StoresStayInImage ==
  last # None /\ last.kind = "job" =>
    \A s \in last.surfaces :
      LET i == image[s.view.image]
          stored == IF s.full THEN last.tiles[1] * last.tiles[2] * TileBytes
                    ELSE LevelSize(i, s.view.level)
      IN  s.offset + stored <= i.bound + i.size \/ Misplaced(s, last.attachments) \/ Short(i)

(* External: bits of a texel, or of a block, of each texture type. *)
TexelBits(type) ==
  CASE type \in {0, 1} -> 32 [] type \in {2, 3, 4, 7, 9, 11, 17} -> 16
    [] type \in {5, 10} -> 8 [] type \in {8, 15} -> 64

(* External: where the texture unit finds a level, below the first one,    *)
(* and the tiling that it assumes.                                         *)
TextureLevel(words, level) ==
  LET type == words.typeLow + 16 * words.typeHigh
      bpp == TexelBits(type)
      whole(n) == IF n = 0 THEN 2048 ELSE n
      texture == [info |-> [format |-> IF type = 8 THEN ETC2 ELSE "", width |-> whole(words.width),
                            height |-> whole(words.height)]]
      extent(c) == Extent(texture, c)
      tiling(c) == IF isLTformat(bpp, extent(c)[1], extent(c)[2]) THEN "LT" ELSE "T"
      padded(c, k) == roundUp(extent(c)[k], Padding(bpp, tiling(c), 1)[k])
      size(c) == (padded(c, 1) * padded(c, 2) * bpp) \div 8
  IN  [address |-> words.base * Page - MapThenSumSet(size, 1 .. level), tiling |-> tiling(level)]

OtherTexels == {"R8G8B8", ETC2, "G8B8G8R8_422"}

Unsampled(v, words) ==
  LET i == image[v.image] IN
  \/ v.level > 0 \/ i.info.linear
  \/ i.info.format \in OtherTexels
  \/ i.info.layers # 6 /\ (v.layer > 0 \/ words.cube)

(* The words of a texture lead the texture unit to the levels and faces of *)
(* the view where the layout of the image has them (draw.c:480).  Known    *)
(* not to: views that start below the first level, linear images, layers   *)
(* of images that have not six, and formats whose texels getFormatBpp      *)
(* counts otherwise than the texture unit (common.c:100).                  *)
SampledWhereLaidOut ==
  last # None /\ last.kind = "texture" =>
    \/ Unsampled(last.view, last.words)
    \/ \A c \in 0 .. last.words.levels, face \in IF last.words.cube THEN 0 .. 5 ELSE {0} :
         LET found == TextureLevel(last.words, c) IN
         /\ found.address + face * last.words.stride * Page
              = Laid(last.view, last.view.layer + face, c)
         /\ found.tiling = image[last.view.image].levelTiling[c]
==============================================================================
