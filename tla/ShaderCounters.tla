---------------------------- MODULE ShaderCounters ----------------------------
(***************************************************************************)
(* What vkCreateShaderModule (driver/shader.c) counts in the words of a    *)
(* program, for the shader record and for the assertions of the draw       *)
(* commands (draw.c:235, 364, 461, 574).                                   *)
(***************************************************************************)
EXTENDS Assembler

SFU == {52, 53, 54, 55}         \* QPU_W_SFU_RECIP .. QPU_W_SFU_LOG
TMU == 56 .. 63                 \* QPU_W_TMU0_S .. QPU_W_TMU1_B
VPM == 48                       \* QPU_W_VPM and QPU_R_VPM
UNIF == 32
VARY == 35
LoadImm == 14
Branch == 15

sig_bits(word) == Value(word, 4, 60)
Waddrs(word) == <<Value(word, 6, 38), Value(word, 6, 32)>>
IsSem(word) == Value(word, 7, 57) = 7 * 16 + 4
IsALU(word) == ~IsSem(word) /\ sig_bits(word) \notin {LoadImm, Branch}
Writes(word, registers) == Len(SelectSeq(Waddrs(word), LAMBDA w : w \in registers))

(* Bug: a small immediate with the code of the register counts as a read. *)
ReadsAnything(word, register) ==
  IF IsALU(word)
  THEN Len(SelectSeq(<<Value(word, 6, 18), Value(word, 6, 12)>>, LAMBDA r : r = register))
  ELSE 0

(* raddr_b holds a small immediate under signal 13. *)
Reads(word, register) ==
  LET raddrs == <<Value(word, 6, 18)>> \o (IF sig_bits(word) = 13 THEN << >> ELSE <<Value(word, 6, 12)>>)
  IN  IF IsALU(word) THEN Len(SelectSeq(raddrs, LAMBDA r : r = register)) ELSE 0

Total(program, count(_)) == FoldLeft(LAMBDA sum, word : sum + count(word), 0, program)
One(condition) == IF condition THEN 1 ELSE 0

Cycles(program) ==
  [ALUcycles |-> Total(program, LAMBDA w : One(IsALU(w))),
   emptyALU |-> Total(program, LAMBDA w : IF IsALU(w) THEN Writes(w, {NOP}) ELSE 0),
   branches |-> Total(program, LAMBDA w : One(~IsSem(w) /\ sig_bits(w) = Branch)),
   SFUoperations |-> Total(program, LAMBDA w : Writes(w, SFU))]

(* The writes to the texture unit read uniforms, if there are several.     *)
FragmentCounters(program) ==
  LET samples == Total(program, LAMBDA w : One(~IsSem(w) /\ sig_bits(w) \in {10, 11}))
      numTMUwrites == Total(program, LAMBDA w : Writes(w, TMU))
  IN  [hasThreadSwitch |-> \E k \in DOMAIN program : sig_bits(program[k]) \in {2, 6},
       numTextureSamples |-> samples,
       numVaryings |-> Total(program, LAMBDA w : Reads(w, VARY)),
       uniformReads |-> Total(program, LAMBDA w : Reads(w, UNIF)) + samples
                        + (IF numTMUwrites > 1 THEN numTMUwrites ELSE 0)]

(* The same for vertex and for coordinate programs. *)
VertexCounters(program) ==
  [uniformReads |-> Total(program, LAMBDA w : Reads(w, UNIF)),
   VPMreads |-> Total(program, LAMBDA w : Reads(w, VPM)),
   VPMwrites |-> Total(program, LAMBDA w : One(VPM \in Range(Waddrs(w))))]

Counters(program, type) ==
  Cycles(program) @@
  (IF type = "FRAGMENT" THEN FragmentCounters(program) ELSE VertexCounters(program))
==============================================================================
