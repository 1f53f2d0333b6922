------------------------------ MODULE MCFormats ------------------------------
(* Three things to check in one run: images to lay out, render to and      *)
(* sample, instructions to assemble and print, and stencil states.         *)
EXTENDS Images, ShaderCounters, StencilState

VARIABLES printed,  \* an instruction as the disassembler writes it, or None
          text,     \* the same as a programmer writes it
          word,     \* assembled
          shader,   \* made from this and another word
          stencil,  \* front, back and stencilTestEnable, or what to clear, or None
          words     \* the same encoded
textVars == <<printed, text, word, shader>>

-----------------------------------------------------------------------------
Info(format, width, height, miplevels, samples, layers, linear) ==
  [format |-> format, width |-> width, height |-> height, miplevels |-> miplevels,
   samples |-> samples, layers |-> layers, linear |-> linear]
Colors ==
  {Info(f, s[1], s[2], 3, 1, 1, FALSE) :
     f \in {"R16G16B16A16_SFLOAT", "R8G8B8A8", "B5G6R5"},
     s \in {<<8, 8>>, <<17, 5>>, <<64, 64>>, <<96, 40>>, <<200, 130>>}}
  \cup {Info(f, 40, 40, 2, 1, 1, b) : f \in TextureOnly \cup DepthFormats, b \in BOOLEAN}
  \cup {Info("R8G8B8A8", 96, 64, 2, 1, l, FALSE) : l \in {2, 6, 7}}
  \cup {Info(f, s[1], s[2], 1, 4, l, FALSE) :
         f \in {"R8G8B8A8", "B5G6R5"}, s \in {<<16, 16>>, <<72, 40>>}, l \in {1, 2}}
Others ==
  {Info("D24_S8", s[1], s[2], 2, 1, 2, FALSE) : s \in {<<64, 64>>, <<200, 130>>}}
  \cup {Info("D24_S8", 72, 40, 1, 4, 1, FALSE), Info("R8G8B8A8", 72, 40, 1, 1, 2, FALSE)}
MCInfos == [color |-> Colors, other |-> Others]
MCOffsets == {0, 4096}

-----------------------------------------------------------------------------
Flags == SUBSET {"ws", "pm", "sf"}
First(flags, cond) ==
  If("ws" \in flags, "ws") \o If("pm" \in flags, "pm") \o <<cond>> \o If("sf" \in flags, "sf")

Immediates == {"15", "-16", "0x3f800000", "0x41000000", "0x3b800000"}
Arguments(sig, b) ==
  IF sig = "sig_small_imm" THEN {<<"r0", "b", "ra3", i>> : i \in Immediates}
  ELSE {<<"a", "b", "uni", "rb0">>, <<"r4", "a", "pay_zw", "y_pix">>, <<"a", "r5", "vary", "uni">>,
        <<"b", "b", "ms_flags", "vpm_st_wait">>, <<"r3", "a", "vpm_read", b>>}

(* The MUL unit writes the other file. *)
Targets(ws) ==
  {<<"rx7", "nop">>, <<"tmu0_t", "sfu_exp">>, IF ws THEN <<"vpm", "quad_x">> ELSE <<"quad_x", "vpm">>}

AluTexts ==
  {[sig |-> sig,
    add |-> Half(dst[1], IF "pm" \in flags THEN Omitted ELSE pack, op[1],
                 First(flags, op[2]) \o <<op[3]>>, args, << >>),
    mul |-> Half(dst[2], IF "pm" \in flags THEN pack ELSE Omitted, mul[1], <<mul[2]>>,
                 <<mul[3], mul[4]>>, << >>)] :
     <<sig, flags, pack, op, args, mul, dst>> \in
       UNION {{s} \X {f} \X (IF "pm" \in f THEN {"8888", "8d"} ELSE {"nop", "16b"})
              \X {<<"fadd", "always", "nop">>, <<"v8subs", "cc", "8d">>, <<"nop", "never", "16a">>}
              \X Arguments(s, "vary") \X {<<"nop", "never", "r0", "r1">>, <<"v8subs", "zs", "b", "a">>}
              \X Targets("ws" \in f) : s \in {"sig_none", "sig_small_imm", "sig_load_tmu1"}, f \in Flags}}

Ends == {{}, {0, 31}, {3, 4, 15, 16, 26}}

LoadTexts ==
  {[sig |-> "sig_load_imm",
    add |-> Half(IF "ws" \in flags THEN "vw_setup" ELSE "vr_setup", IF flags \cap {"ws", "pm"} = {} THEN "16a" ELSE Omitted, op,
                 First(flags, "zc") \o If(op = "load16" /\ signed, "signed"), << >>,
                 IF op = "load32" THEN <<bits>> ELSE <<bits \cap 0 .. 15, {0, 15}>>),
    mul |-> Half("r1", IF "pm" \in flags THEN "8a" ELSE Omitted, op, <<"ns">>, << >>, << >>)] :
     op \in {"load32", "load16"}, flags \in Flags, signed \in BOOLEAN, bits \in Ends}

SemTexts ==
  {[sig |-> "sig_load_imm",
    add |-> Half("rx2", IF flags \cap {"ws", "pm"} = {} THEN "8a" ELSE Omitted, op,
                 First(flags, "nc"), << >>, <<bits \cap 0 .. 3, bits \cap 0 .. 26>>),
    mul |-> Half("nop", IF "pm" \in flags THEN "8c" ELSE Omitted, op, <<"cs">>, << >>, << >>)] :
     op \in {"sem_inc", "sem_dec"}, flags \in Flags, bits \in Ends}

BranchTexts ==
  {[sig |-> "sig_branch",
    add |-> Half("r0", Omitted, "branch", flags, args, <<bits>>),
    mul |-> Half("rx31", Omitted, "branch", << >>, << >>, << >>)] :
     flags \in {<< >>, <<"ws">>, <<"rel">>, <<"ws", "rel", "reg">>}, bits \in Ends,
     args \in {<<"always", "ra7">>, <<"all_zs", "ra0">>, <<"any_cc", "ra31">>}}

(* Another name of the same register, and modifiers in another order.      *)
Alias(name) ==
  CASE name = "ms_flags" -> "rev_flag" [] name = "x_pix" -> "y_pix" [] name = "y_pix" -> "x_pix"
    [] name = "vpm_st_wait" -> "vpm_ld_wait" [] OTHER -> name
Rewritten(t) ==
  {[t EXCEPT !.add.modifiers = Reverse(@)],
   [t EXCEPT !.add.modifiers = SelectSeq(@, LAMBDA m : m # "never")],
   [t EXCEPT !.add.args = [k \in DOMAIN @ |-> IF k = 4 THEN Alias(@[k]) ELSE @[k]]]}

TextInit ==
  /\ printed \in AluTexts \cup LoadTexts \cup SemTexts \cup BranchTexts
  /\ text = printed
  /\ word = None /\ shader = None
Rewrite ==
  /\ printed # None /\ word = None /\ text = printed
  /\ text' \in Rewritten(text)
  /\ UNCHANGED <<printed, word, shader>>
assemble_qpu_asm ==
  /\ printed # None /\ word = None
  /\ word' = Assemble(text)
  /\ UNCHANGED <<printed, text, shader>>

(* Programs of two instructions: the second one samples, or reads and      *)
(* writes the vertex pipe memory.                                          *)
Sampling ==
  [sig |-> "sig_last_thread_switch",
   add |-> Half("tmu1_s", "nop", "nop", <<"never", "nop">>, <<"r0", "r0", "uni", "vary">>, << >>),
   mul |-> Half("nop", Omitted, "nop", <<"never">>, <<"r0", "r0">>, << >>)]
Plumbing ==
  [sig |-> "sig_none",
   add |-> Half("vpm", "nop", "fadd", <<"never", "nop">>, <<"a", "b", "vpm_read", "uni">>, << >>),
   mul |-> Half("sfu_log", Omitted, "nop", <<"never">>, <<"r0", "r0">>, << >>)]

vkCreateShaderModule ==
  /\ word # None /\ shader = None /\ text = printed
  /\ \E other \in {Sampling, Plumbing}, type \in {"FRAGMENT", "VERTEX"} :
       shader' = [type |-> type, texts |-> <<text, other>>,
                  counters |-> Counters(<<word, Assemble(other)>>, type)]
  /\ UNCHANGED <<printed, text, word>>

-----------------------------------------------------------------------------
Ops == {<<"KEEP", "ZERO", "INVERT">>, <<"REPLACE", "KEEP", "DECREMENT_AND_WRAP">>}
Face == {[compareMask |-> 255, reference |-> r, writeMask |-> m, compareOp |-> c,
          failOp |-> ops[1], passOp |-> ops[2], depthFailOp |-> ops[3]] :
           r \in {0, 300}, m \in {1, 3, 15, 255, 0, 16, 65535}, c \in {"LESS", "ALWAYS"}, ops \in Ops}
Given == [front : Face, back : Face, enable : BOOLEAN]
ClearValues == [aspects : SUBSET {"color", "depth", "stencil"} \ {{}}, value : {0, 7, 300}]

encode ==
  /\ stencil # None /\ words = None
  /\ words' = IF stencil \in ClearValues THEN stencilSetup(stencil.aspects, stencil.value)
              ELSE encodeStencilValue(stencil.front, stencil.back, stencil.enable)
  /\ UNCHANGED stencil

-----------------------------------------------------------------------------
NoText == printed = None /\ text = None /\ word = None /\ shader = None
NoStencil == stencil = None
FormatsInit ==
  /\ Init /\ words = None
  /\ \/ TextInit /\ NoStencil
     \/ NoText /\ NoStencil
     \/ NoText /\ stencil \in Given \cup ClearValues
FormatsNext ==
  \/ NoText /\ NoStencil /\ Next /\ UNCHANGED <<textVars, stencil, words>>
  \/ (Rewrite \/ assemble_qpu_asm \/ vkCreateShaderModule) /\ UNCHANGED <<vars, stencil, words>>
  \/ encode /\ UNCHANGED <<vars, textVars>>
FormatsSpec == FormatsInit /\ [][FormatsNext]_<<vars, textVars, stencil, words>>

(* A pack mode of the MUL half of an immediate load is printed behind the  *)
(* operation, where the parser does not look for one.                      *)
Lost == IF Value(word, 4, 60) = 14 /\ Value(word, 7, 57) # 116 /\ Pm(word) THEN 52 .. 55 ELSE {}

(* What the assembler makes of an instruction is printed as it was         *)
(* written, in whatever order the modifiers were and whichever of its      *)
(* names a register had, and assembles to the same word again; but for the *)
(* pack mode of the MUL half of immediate loads (qpu_assembler.c:1240).    *)
PrintingIsInverse ==
  word # None =>
    /\ Assemble(disassemble_qpu_asm(word)) = word \ Lost
    /\ Lost = {} => disassemble_qpu_asm(word) = printed

(* What is counted in the words of a program is what its text names: reads *)
(* of uniforms, varyings and vertex data, writes, samples and empty        *)
(* halves, also where an immediate has the code of a register or a word is *)
(* no ALU instruction (shader.c:75).                                       *)
CountersAreOfTheText ==
  shader # None =>
    LET Sum(count(_)) == FoldLeft(LAMBDA sum, t : sum + count(t), 0, shader.texts)
        alu(t) == t.add.op \notin {"sem_inc", "sem_dec", "branch", "load32", "load16"}
        to(t, names) == One(t.add.dst \in names) + One(t.mul.dst \in names)
        from(t, name) == IF alu(t) THEN One(t.add.args[3] = name) + One(t.add.args[4] = name) ELSE 0
        tmu == {"tmu0_t", "tmu1_s"}
        tmuWrites == Sum(LAMBDA t : to(t, tmu))
        samples == Sum(LAMBDA t : One(t.sig = "sig_load_tmu1"))
        c == shader.counters
    IN  /\ c.ALUcycles = Sum(LAMBDA t : One(alu(t)))
        /\ c.emptyALU = Sum(LAMBDA t : IF alu(t) THEN to(t, {"nop"}) ELSE 0)
        /\ c.branches = Sum(LAMBDA t : One(t.add.op = "branch"))
        /\ c.SFUoperations = Sum(LAMBDA t : to(t, {"sfu_exp", "sfu_log"}))
        /\ shader.type = "VERTEX" =>
             /\ c.uniformReads = Sum(LAMBDA t : from(t, "uni"))
             /\ c.VPMreads = Sum(LAMBDA t : from(t, "vpm_read"))
             /\ c.VPMwrites = Sum(LAMBDA t : to(t, {"vpm"}))
        /\ shader.type = "FRAGMENT" =>
             /\ c.numVaryings = Sum(LAMBDA t : from(t, "vary"))
             /\ c.numTextureSamples = samples
             /\ c.hasThreadSwitch = (shader.texts[2] = Sampling)
             /\ c.uniformReads = Sum(LAMBDA t : from(t, "uni")) + samples
                                 + (IF tmuWrites > 1 THEN tmuWrites ELSE 0)

(* The words of a program say what its text does, in both directions       *)
(* (qpu_assembler.c:940-1463, shader.c:72-352).                            *)
WordsAreOfTheText == PrintingIsInverse /\ CountersAreOfTheText

(* The words of a stencil state, however many they are, set both faces to  *)
(* what was given, and a disabled test to one that passes (common.c:677).  *)
(* The one word pushed to clear the stencil alone replaces it with the     *)
(* value, and of the other aspects it lets every fragment pass             *)
(* (stateChange.c:718-739).  Not claimed: that the stencil stays when it   *)
(* is not cleared, and that depth and color are when it is.                *)
StencilWordsSayTheState ==
  words # None =>
    IF stencil \in ClearValues
    THEN LET f == FaceOf(words, FrontFace)
         IN  /\ f = FaceOf(words, BackFace)
             /\ stencil.aspects = {"stencil"} =>
                  /\ {f.failOp, f.passOp, f.depthFailOp} = {getStencilOp["REPLACE"]}
                  /\ f.reference = stencil.value % 256 /\ f.writeMask = 255
             /\ "stencil" \notin stencil.aspects => f.compareOp = getCompareOp["ALWAYS"]
    ELSE \A face \in {FrontFace, BackFace} :
           LET given == IF face = FrontFace THEN stencil.front ELSE stencil.back
           IN  FaceOf(words, face) =
                 [compareMask |-> given.compareMask % 256, reference |-> given.reference % 256,
                  writeMask |-> given.writeMask % 256,
                  compareOp |-> getCompareOp[IF stencil.enable THEN given.compareOp ELSE "ALWAYS"],
                  failOp |-> getStencilOp[given.failOp], passOp |-> getStencilOp[given.passOp],
                  depthFailOp |-> getStencilOp[given.depthFailOp]]
=============================================================================
