---------------------------- MODULE StencilState ----------------------------
(***************************************************************************)
(* The stencil state of both faces in the words that a fragment program    *)
(* writes to tlb_stencil_setup: encodeStencilValue (driver/common.c) and   *)
(* its use by vkCmdClearAttachments (driver/stateChange.c).                *)
(***************************************************************************)
EXTENDS Integers, SequencesExt, TLC

Numbers(names) == [name \in Range(names) |-> CHOOSE c \in 0 .. Len(names) - 1 : names[c + 1] = name]
(* V3D_COMPARE_FUNC_NEVER .. V3D_COMPARE_FUNC_ALWAYS *)
getCompareOp ==
  Numbers(<<"NEVER", "LESS", "EQUAL", "LESS_OR_EQUAL", "GREATER", "NOT_EQUAL", "GREATER_OR_EQUAL", "ALWAYS">>)
getStencilOp ==
  Numbers(<<"ZERO", "KEEP", "REPLACE", "INCREMENT_AND_CLAMP", "DECREMENT_AND_CLAMP", "INVERT",
            "INCREMENT_AND_WRAP", "DECREMENT_AND_WRAP">>)

FrontFace == 1
BackFace == 2
BothFaces == 3
(* The write masks that have a code of two bits. *)
ShortMask == (1 :> 0) @@ (3 :> 1) @@ (15 :> 2) @@ (255 :> 3)

StencilWord(face, faces, maskCode) ==
  [faces |-> faces, mask |-> maskCode,
   compareMask |-> face.compareMask % 256, reference |-> face.reference % 256,
   compareOp |-> getCompareOp[face.compareOp], failOp |-> getStencilOp[face.failOp],
   passOp |-> getStencilOp[face.passOp], depthFailOp |-> getStencilOp[face.depthFailOp]]
(* Neither face: the two write masks in full. *)
MaskWord(front, back) == [faces |-> 0, front |-> front.writeMask % 256, back |-> back.writeMask % 256]

(* Bug: the masks are written in full only if neither has a code. *)
BothLong(front, back) == front.writeMask \notin DOMAIN ShortMask /\ back.writeMask \notin DOMAIN ShortMask

(* Whether the write masks need a word of their own. *)
LongMasks(front, back) == ~({front.writeMask, back.writeMask} \subseteq DOMAIN ShortMask)
Code2(face, long) ==
  IF ~long /\ face.writeMask \in DOMAIN ShortMask THEN ShortMask[face.writeMask] ELSE 0

(* A test that is not enabled always passes, but keeps its operations.     *)
encodeStencilValue(front, back, stencilTestEnable) ==
  LET Tested(face) == IF stencilTestEnable THEN face ELSE [face EXCEPT !.compareOp = "ALWAYS"]
      f == Tested(front)
      b == Tested(back)
      long == LongMasks(f, b)
  IN  (IF f = b THEN <<StencilWord(f, BothFaces, Code2(f, long))>>
       ELSE <<StencilWord(f, FrontFace, Code2(f, long)), StencilWord(b, BackFace, Code2(b, long))>>)
      \o IF long THEN <<MaskWord(f, b)>> ELSE << >>

(* vkCmdClearAttachments pushes one word, whatever the aspects.            *)
ClearState(value) ==
  [compareMask |-> 255, writeMask |-> 255, reference |-> value, compareOp |-> "NEVER",
   depthFailOp |-> "REPLACE", failOp |-> "REPLACE", passOp |-> "REPLACE"]
stencilSetup(aspects, value) ==
  <<encodeStencilValue(ClearState(value), ClearState(value), "stencil" \in aspects)[1]>>

-----------------------------------------------------------------------------
(* How the tile buffer takes the words: each sets the faces it names, and  *)
(* a word that names none sets the write masks.                            *)
FaceOf(words, face) ==
  LET own == SelectSeq(words, LAMBDA w : w.faces \in {face, BothFaces})
      long == SelectSeq(words, LAMBDA w : w.faces = 0)
      mask == IF long = << >> THEN CHOOSE m \in DOMAIN ShortMask : ShortMask[m] = Last(own).mask
              ELSE IF face = FrontFace THEN Last(long).front ELSE Last(long).back
      w == Last(own)
  IN  [compareMask |-> w.compareMask, reference |-> w.reference, writeMask |-> mask,
       compareOp |-> w.compareOp, failOp |-> w.failOp, passOp |-> w.passOp, depthFailOp |-> w.depthFailOp]
===============================================================================
