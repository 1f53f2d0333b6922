------------------------------ MODULE Assembler ------------------------------
(***************************************************************************)
(* QPUassembler/qpu_assembler.c and the tables of vc4_qpu_defines.h: from  *)
(* the text of an instruction to its 64 bit word, and back.  A word is the *)
(* set of its bits, and so is a number too wide for a small field.         *)
(*                                                                         *)
(* A text has a signal and two halves, for the ADD and the MUL unit, each  *)
(* with a destination, a pack mode or Omitted, an operation, modifiers,    *)
(* names as arguments and numbers as arguments.                            *)
(***************************************************************************)
EXTENDS Integers, SequencesExt, FiniteSetsExt, TLC

-----------------------------------------------------------------------------
(* The tables, from code to name.                                          *)

From(first, names) == [c \in first .. first + Len(names) - 1 |-> names[c - first + 1]]
Numbered(prefix, codes) == [c \in codes |-> prefix \o ToString(c)]

qpu_cond_str == From(0, <<"never", "always", "zs", "zc", "ns", "nc", "cs", "cc">>)
qpu_mux_str == From(0, <<"r0", "r1", "r2", "r3", "r4", "r5", "a", "b">>)
qpu_sig_bits_str ==
  From(0, <<"sig_brk", "sig_none", "sig_thread_switch", "sig_end", "sig_wait_score",
            "sig_unlock_score", "sig_last_thread_switch", "sig_coverage_load",
            "sig_color_load", "sig_color_load_end", "sig_load_tmu0", "sig_load_tmu1",
            "sig_alpha_mask_load", "sig_small_imm", "sig_load_imm", "sig_branch">>)
qpu_unpack_str == From(0, <<"nop", "16a", "16b", "8d_rep", "8a", "8b", "8c", "8d">>)
qpu_pack_a_str ==
  From(0, <<"nop", "16a", "16b", "8888", "8a", "8b", "8c", "8d", "sat", "16a.sat", "16b.sat",
            "8888.sat", "8a.sat", "8b.sat", "8c.sat", "8d.sat">>)
qpu_pack_mul_str == (0 :> "nop") @@ From(3, <<"8888", "8a", "8b", "8c", "8d">>)
qpu_branch_cond_str ==
  (15 :> "always") @@
  From(0, <<"all_zs", "all_zc", "any_zs", "any_zc", "all_ns", "all_nc", "any_ns", "any_nc",
            "all_cs", "all_cc", "any_cs", "any_cc">>)
qpu_op_add_str ==
  From(0, <<"nop", "fadd", "fsub", "fmin", "fmax", "fminabs", "fmaxabs", "ftoi", "itof">>) @@
  From(12, <<"add", "sub", "shr", "asr", "ror", "shl", "min", "max", "and", "or", "xor", "not",
             "clz">>) @@
  From(30, <<"v8adds", "v8subs">>)
qpu_op_mul_str ==
  From(0, <<"nop", "fmul", "mul24", "v8muld", "v8min", "v8max", "v8adds", "v8subs">>)

(* Registers 0 .. 31 have no entry in the two tables of names.             *)
qpu_raddr_str ==
  LET both == (15 :> "pay_zw") @@ (32 :> "uni") @@ (35 :> "vary") @@ (38 :> "elem") @@
              (39 :> "nop") @@ (48 :> "vpm_read") @@ (51 :> "mutex_acq")
  IN  [A |-> both @@ (41 :> "x_pix") @@ (42 :> "ms_flags") @@ From(49, <<"vpm_ld_busy", "vpm_ld_wait">>),
       B |-> both @@ (41 :> "y_pix") @@ (42 :> "rev_flag") @@ From(49, <<"vpm_st_busy", "vpm_st_wait">>)]

qpu_waddr_str ==
  LET both == From(32, <<"r0", "r1", "r2", "r3", "tmu_noswap", "r5", "host_int", "nop",
                         "uniforms_addr">>) @@
              From(43, <<"tlb_stencil_setup", "tlb_z", "tlb_color_ms", "tlb_color_all">>) @@
              (48 :> "vpm") @@
              From(51, <<"mutex_release", "sfu_recip", "sfu_recipsqrt", "sfu_exp", "sfu_log",
                         "tmu0_s", "tmu0_t", "tmu0_r", "tmu0_b",
                         "tmu1_s", "tmu1_t", "tmu1_r", "tmu1_b">>)
  IN  [A |-> both @@ From(41, <<"quad_x", "ms_flags">>) @@ From(49, <<"vr_setup", "vr_addr">>),
       B |-> both @@ From(41, <<"quad_y", "rev_flags">>) @@ From(49, <<"vw_setup", "vw_addr">>)]

(* The immediates that fit into raddr_b, as the disassembler writes them:  *)
(* 0 .. 15, -16 .. -1, 2^0 .. 2^7 and 2^-8 .. 2^-1 as floats.              *)
SmallImmediates ==
  Numbered("", 0 .. 15) @@ From(16, [k \in 1 .. 16 |-> ToString(k - 17)]) @@
  From(32, <<"0x3f800000", "0x40000000", "0x40800000", "0x41000000", "0x41800000", "0x42000000",
             "0x42800000", "0x43000000", "0x3b800000", "0x3c000000", "0x3c800000", "0x3d000000",
             "0x3d800000", "0x3e000000", "0x3e800000", "0x3f000000">>)

(* The code of a name; what the register had before, if the table lacks it.*)
Code(table, name, before) ==
  LET codes == {c \in DOMAIN table : table[c] = name} IN
  IF codes = {} THEN before ELSE Min(codes)

Name(table, c) == IF c \in DOMAIN table THEN table[c] ELSE "(null)"

(* The second table is searched when the first gave nothing, or code 0.    *)
CodeInEither(table1, table2, name) == Code(table1, name, Code(table2, name, 0))

(* Bug: any number is taken as it is. *)
AnyImmediate(name) == Code(Numbered("", 0 .. 63), name, 255)

qpu_encode_small_immediate(name) == Code(SmallImmediates, name, 255)

-----------------------------------------------------------------------------
(* The parser.  Its registers are set up anew for each instruction.        *)

Omitted == "omitted"
NOP == 39                       \* QPU_R_NOP and QPU_W_NOP

Registers ==
  [sig |-> 1, type |-> "ALU", load |-> "load32", inc |-> 0, op_add |-> 0, op_mul |-> 0,
   add_a |-> 0, add_b |-> 0, mul_a |-> 0, mul_b |-> 0, cond_add |-> 0, cond_mul |-> 0,
   waddr_add |-> NOP, waddr_mul |-> NOP, raddr_a |-> NOP, raddr_b |-> NOP,
   pm |-> 0, ws |-> 0, rel |-> 0, reg |-> 0, sf |-> 0, signed |-> 0, pack |-> 0, unpack |-> 0,
   branch_cond |-> 15, sem |-> {}, imm |-> {}, ms |-> {}, ls |-> {}]

(* Of the two destinations only the one of the ADD half may set the pack   *)
(* mode, unless pm selects the MUL unit's.                                 *)
parse_dst(r, half, isAdd) ==
  LET waddr == CodeInEither(qpu_waddr_str.A, qpu_waddr_str.B @@ Numbered("rx", 0 .. 31), half.dst)
      written == [r EXCEPT ![IF isAdd THEN "waddr_add" ELSE "waddr_mul"] = waddr]
  IN  IF isAdd \/ r.pm = 1
      THEN [written EXCEPT !.pack = CodeInEither(qpu_pack_a_str, qpu_pack_mul_str, half.pack)]
      ELSE written

(* The operation decides the type: that of the MUL half has the last word. *)
parse_op(r, half, isAdd) ==
  CASE half.op \in {"sem_inc", "sem_dec"} ->
         [r EXCEPT !.type = "SEM", !.inc = IF half.op = "sem_inc" THEN 1 ELSE 0]
    [] half.op = "branch" -> [r EXCEPT !.type = "BRANCH"]
    [] half.op \in {"load32", "load16"} -> [r EXCEPT !.type = "LOAD_IMM", !.load = half.op]
    [] OTHER -> IF isAdd
                THEN [r EXCEPT !.type = "ALU", !.op_add = Code(qpu_op_add_str, half.op, @)]
                ELSE [r EXCEPT !.type = "ALU", !.op_mul = Code(qpu_op_mul_str, half.op, @)]

Modified(r, modifier, isAdd) ==
  CASE isAdd /\ modifier \in {"pm", "ws", "rel", "reg", "sf", "signed"} ->
         [r EXCEPT ![modifier] = 1]
    [] modifier \in Range(qpu_cond_str) ->
         [r EXCEPT ![IF isAdd THEN "cond_add" ELSE "cond_mul"] = Code(qpu_cond_str, modifier, 0)]
    [] OTHER -> IF isAdd THEN [r EXCEPT !.unpack = Code(qpu_unpack_str, modifier, @)] ELSE r

(* At most five modifiers. *)
parse_op_modifiers(r, half, isAdd) ==
  FoldLeft(LAMBDA regs, modifier : Modified(regs, modifier, isAdd), r,
           SubSeq(half.modifiers, 1, Min({5, Len(half.modifiers)})))

(* Bug: the names of file B are not looked at. *)
RaddrOnlyA(prefix, name) == CodeInEither(qpu_raddr_str.A, Numbered(prefix, 0 .. 31), name)

(* For raddr_b and for branches, both files' names are looked at.          *)
Raddr(prefix, name) ==
  Code(qpu_raddr_str.A, name, CodeInEither(qpu_raddr_str.B, Numbered(prefix, 0 .. 31), name))

parse_args_alu(r, args, isAdd) ==
  LET n == Len(args)
      in_a == IF isAdd THEN "add_a" ELSE "mul_a"
      in_b == IF isAdd THEN "add_b" ELSE "mul_b"
      muxes == [r EXCEPT ![in_a] = IF n >= 1 THEN Code(qpu_mux_str, args[1], @) ELSE @,
                         ![in_b] = IF n >= 2 THEN Code(qpu_mux_str, args[2], @) ELSE @]
  IN  [muxes EXCEPT
         !.raddr_a = IF n >= 3 THEN CodeInEither(qpu_raddr_str.A, Numbered("ra", 0 .. 31), args[3])
                               ELSE @,
         !.raddr_b = CASE n < 4 -> @
                       [] r.sig = 13 -> qpu_encode_small_immediate(args[4])
                       [] OTHER -> Raddr("rb", args[4])]

(* strtoul into an integer of this many bits. *)
Number(half, k, width, before) ==
  IF k <= Len(half.numbers) THEN half.numbers[k] \cap (0 .. width - 1) ELSE before

parse_args_sem(r, half) ==
  [r EXCEPT !.sem = Number(half, 1, 8, @), !.imm = Number(half, 2, 32, @)]

parse_args_branch(r, half) ==
  LET n == Len(half.args) IN
  [r EXCEPT !.imm = Number(half, 1, 32, @),
            !.branch_cond = IF n >= 1 THEN Code(qpu_branch_cond_str, half.args[1], @) ELSE @,
            !.raddr_a = IF n >= 2 THEN Raddr("ra", half.args[2]) ELSE @]

parse_args_load(r, half) ==
  IF r.load = "load32"
  THEN [r EXCEPT !.imm = Number(half, 1, 32, @)]
  ELSE [r EXCEPT !.ms = Number(half, 1, 16, @), !.ls = Number(half, 2, 16, @)]

ParseArgs(r, half, isAdd) ==
  CASE r.type = "ALU" -> parse_args_alu(r, half.args, isAdd)
    [] r.type = "SEM" -> IF isAdd THEN parse_args_sem(r, half) ELSE r
    [] r.type = "BRANCH" -> IF isAdd THEN parse_args_branch(r, half) ELSE r
    [] r.type = "LOAD_IMM" -> IF isAdd THEN parse_args_load(r, half) ELSE r

ParseHalf(r, half, isAdd) ==
  ParseArgs(parse_op_modifiers(parse_op(parse_dst(r, half, isAdd), half, isAdd), half, isAdd),
            half, isAdd)

(* A signal nobody knows becomes -1, and nobody notices.                   *)
Parse(text) ==
  LET signalled == [Registers EXCEPT !.sig = Code(qpu_sig_bits_str, text.sig, 15)] IN
  ParseHalf(ParseHalf(signalled, text.add, TRUE), text.mul, FALSE)

-----------------------------------------------------------------------------
(* The encoders.                                                           *)

(* The low bits of a value, moved to their place in the word. *)
Field(value, width, place) ==
  {place + i : i \in {i \in 0 .. width - 1 : (value \div 2^i) % 2 = 1}}
Moved(bits, width, place) == {place + i : i \in bits \cap (0 .. width - 1)}

Conditions(r) == Field(r.cond_add, 3, 49) \cup Field(r.cond_mul, 3, 46)
Destinations(r) ==
  Field(r.ws, 1, 44) \cup Field(r.waddr_add, 6, 38) \cup Field(r.waddr_mul, 6, 32)
PackAndFlags(r) == Field(r.pm, 1, 56) \cup Field(r.pack, 4, 52) \cup Field(r.sf, 1, 45)

(* encode_alu_small_imm is encode_alu with the signal 13, which r has. *)
encode_alu(r) ==
  UNION {Field(r.sig, 4, 60), Field(r.unpack, 3, 57), PackAndFlags(r), Conditions(r),
         Destinations(r), Field(r.op_mul, 3, 29), Field(r.op_add, 5, 24),
         Field(r.raddr_a, 6, 18), Field(r.raddr_b, 6, 12),
         Field(r.add_a, 3, 9), Field(r.add_b, 3, 6), Field(r.mul_a, 3, 3), Field(r.mul_b, 3, 0)}

(* The register added to the target has five bits, so that nop is 7. *)
encode_branch(r) ==
  UNION {Field(15, 4, 60), Field(r.branch_cond, 4, 52), Field(r.rel, 1, 51), Field(r.reg, 1, 50),
         Field(r.raddr_a, 5, 45), Destinations(r), r.imm}

encode_semaphore(r) ==
  UNION {Field(7 * 16 + 4, 7, 57), PackAndFlags(r), Conditions(r), Destinations(r),
         Moved(r.imm, 27, 5), Field(r.inc, 1, 4), Moved(r.sem, 4, 0)}

encode_load_imm(r) ==
  UNION {Field(16 * 7, 7, 57), PackAndFlags(r), Conditions(r), Destinations(r), r.imm}

encode_load_imm_per_elem(r) ==
  UNION {Field(16 * 7 + 1 + 2 * (1 - r.signed), 7, 57), PackAndFlags(r), Conditions(r),
         Destinations(r), Moved(r.ms, 16, 16), r.ls}

(* One round of assemble_qpu_asm. *)
Assemble(text) ==
  LET r == Parse(text) IN
  CASE r.type = "ALU" -> encode_alu(r)
    [] r.type = "SEM" -> encode_semaphore(r)
    [] r.type = "BRANCH" -> encode_branch(r)
    [] r.type = "LOAD_IMM" -> IF r.load = "load32" THEN encode_load_imm(r)
                                                   ELSE encode_load_imm_per_elem(r)

-----------------------------------------------------------------------------
(* The disassembler.                                                       *)

Bits(word, width, place) == {i \in 0 .. width - 1 : place + i \in word}
Value(word, width, place) == SumSet({2^i : i \in Bits(word, width, place)})
Has(word, bit) == bit \in word
If(condition, name) == IF condition THEN <<name>> ELSE << >>

Ws(word) == Has(word, 44)
Pm(word) == Has(word, 56)
Cond(word, place) == Name(qpu_cond_str, Value(word, 3, place))

(* The registers of both files are written rx. *)
Destination(word, place, file) ==
  LET waddr == Value(word, 6, place) IN
  IF waddr <= 31 THEN Numbered("rx", 0 .. 31)[waddr] ELSE Name(qpu_waddr_str[file], waddr)
AddDestination(word) == Destination(word, 38, IF Ws(word) THEN "B" ELSE "A")
MulDestination(word) == Destination(word, 32, IF Ws(word) THEN "A" ELSE "B")

ReadRegister(raddr, file, prefix) ==
  IF raddr <= 31 /\ raddr # 15
  THEN Numbered(prefix, 0 .. 31)[raddr] ELSE Name(qpu_raddr_str[file], raddr)

PackA(word) == Name(qpu_pack_a_str, Value(word, 4, 52))
PackMul(word) == Name(qpu_pack_mul_str, Value(word, 4, 52))

Half(dst, pack, op, modifiers, args, numbers) ==
  [dst |-> dst, pack |-> pack, op |-> op, modifiers |-> modifiers, args |-> args,
   numbers |-> numbers]

FirstModifiers(word) ==
  If(Ws(word), "ws") \o If(Pm(word), "pm") \o <<Cond(word, 49)>> \o If(Has(word, 45), "sf")

DisassembleSem(word) ==
  LET op == IF Has(word, 4) THEN "sem_inc" ELSE "sem_dec" IN
  [sig |-> Name(qpu_sig_bits_str, Value(word, 4, 60)),
   add |-> Half(AddDestination(word), IF Ws(word) \/ Pm(word) THEN Omitted ELSE PackA(word), op,
                FirstModifiers(word), << >>, <<Bits(word, 4, 0), Bits(word, 27, 5)>>),
   mul |-> Half(MulDestination(word), IF Pm(word) THEN PackMul(word) ELSE Omitted, op,
                <<Cond(word, 46)>>, << >>, << >>)]

(* The pack mode of the MUL half follows the operation, not the destination.*)
DisassembleLoad(word) ==
  LET wide == Value(word, 7, 57) = 16 * 7
      op == IF wide THEN "load32" ELSE "load16"
  IN  [sig |-> Name(qpu_sig_bits_str, Value(word, 4, 60)),
       add |-> Half(AddDestination(word), IF Ws(word) \/ Pm(word) THEN Omitted ELSE PackA(word), op,
                    FirstModifiers(word) \o If(~wide /\ ~Has(word, 58), "signed"), << >>,
                    IF wide THEN <<Bits(word, 32, 0)>> ELSE <<Bits(word, 16, 16), Bits(word, 16, 0)>>),
       mul |-> Half(MulDestination(word), Omitted, op,
                    If(Pm(word), PackMul(word)) \o <<Cond(word, 46)>>, << >>, << >>)]

DisassembleBranch(word) ==
  [sig |-> Name(qpu_sig_bits_str, Value(word, 4, 60)),
   add |-> Half(AddDestination(word), Omitted, "branch",
                If(Ws(word), "ws") \o If(Has(word, 51), "rel") \o If(Has(word, 50), "reg"),
                <<Name(qpu_branch_cond_str, Value(word, 4, 52)),
                  ReadRegister(Value(word, 5, 45), "A", "ra")>>, <<Bits(word, 32, 0)>>),
   mul |-> Half(MulDestination(word), Omitted, "branch", << >>, << >>, << >>)]

DisassembleAlu(word) ==
  LET raddr_b == Value(word, 6, 12) IN
  [sig |-> Name(qpu_sig_bits_str, Value(word, 4, 60)),
   add |-> Half(AddDestination(word), IF Pm(word) THEN Omitted ELSE PackA(word),
                Name(qpu_op_add_str, Value(word, 5, 24)),
                FirstModifiers(word) \o <<Name(qpu_unpack_str, Value(word, 3, 57))>>,
                <<qpu_mux_str[Value(word, 3, 9)], qpu_mux_str[Value(word, 3, 6)],
                  ReadRegister(Value(word, 6, 18), "A", "ra"),
                  IF Value(word, 4, 60) = 13 THEN Name(SmallImmediates, raddr_b)
                                             ELSE ReadRegister(raddr_b, "B", "rb")>>, << >>),
   mul |-> Half(MulDestination(word), IF Pm(word) THEN PackMul(word) ELSE Omitted,
                Name(qpu_op_mul_str, Value(word, 3, 29)), <<Cond(word, 46)>>,
                <<qpu_mux_str[Value(word, 3, 3)], qpu_mux_str[Value(word, 3, 0)]>>, << >>)]

disassemble_qpu_asm(word) ==
  CASE Value(word, 7, 57) = 16 * 7 + 4 -> DisassembleSem(word)
    [] Value(word, 4, 60) = 14 /\ Value(word, 7, 57) # 16 * 7 + 4 -> DisassembleLoad(word)
    [] Value(word, 4, 60) = 15 -> DisassembleBranch(word)
    [] OTHER -> DisassembleAlu(word)
=============================================================================
