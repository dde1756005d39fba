---------------------------- MODULE ArmAssembler ----------------------------
(***************************************************************************)
(* The bits that the assemblers of A64, A32 and Thumb code emit, and the   *)
(* pc-relative offsets that linking writes into instructions.  A word is   *)
(* the set of the numbers of its bits that are 1, so that the code's | is  *)
(* union.  A call c of a method names it (kind) and its arguments: the     *)
(* registers rd (or rt), rn (or the base) and rm (or rt2), the type ty of  *)
(* the registers, the immediate or offset imm and the addressing mode.     *)
(***************************************************************************)
EXTENDS Integers, Sequences

\* LeftShift(a, b, c): the lowest b bits of a, from bit c on.
LeftShift(a, b, c) == {c + i : i \in {j \in 0..(b - 1) : (a \div 2^j) % 2 = 1}}

\* A number of 32 bits.
Word(a) == LeftShift(a, 31, 0) \cup (IF a < 0 THEN {31} ELSE {})

\* bits(w, lo, hi), as a number.
Bits(w, lo, hi) ==
  LET sum[i \in (lo - 1)..hi] ==
        IF i < lo THEN 0 ELSE sum[i - 1] + (IF i \in w THEN 2^(i - lo) ELSE 0)
  IN sum[hi]

SignExtend(x, m) == IF x >= 2^(m - 1) THEN x - 2^m ELSE x

\* set_bits(w, lo, hi, v): v is not cut to the width of the field.
SetBits(w, lo, hi, v) == (w \ (lo..hi)) \cup LeftShift(v, 31 - lo, lo)

------------------------------------------------------------------------------
(* A64.                                                                     *)

Top(x) == LeftShift(x, 8, 24)

Rd(c) == LeftShift(c.rd, 5, 0)
Rn(c) == LeftShift(c.rn, 5, 5)
Rm(c) == LeftShift(c.rm, 5, 16)
Rt2(c) == LeftShift(c.rm, 5, 10)

\* OpEncode::sf and V
sf(c) == IF c.ty = "x" THEN {31} ELSE {}
V(c) == IF c.ty \in {"s", "d", "q"} THEN {26} ELSE {}

\* The bits of the enums of constants-arm64.h.
ADD == {}
SUB == {30}
AddSubImmediateFixed == Top(17)

\* add and sub; ADD_w_imm, ADD_x_imm, SUB_w_imm or SUB_x_imm
AddSubImmediate(c, op) ==
  AddSubImmediateFixed \cup sf(c) \cup op \cup LeftShift(c.imm, 12, 10) \cup Rn(c) \cup Rd(c)

ADRP == Top(144)

adrp(c) ==
  LET page == c.imm \div 4096
  IN ADRP \cup Rd(c) \cup LeftShift(page, 2, 29) \cup LeftShift(page \div 4, 19, 5)

\* LDR_w_literal, LDR_x_literal, LDR_s_literal, LDR_d_literal and LDR_q_literal
LoadRegLiteralOp(c) ==
  Top(24) \cup LeftShift([w |-> 0, x |-> 1, s |-> 0, d |-> 1, q |-> 2][c.ty], 2, 30) \cup V(c)

\* The offset is not divided by 4, and 26 bits of it are kept.
EmitLoadRegLiteral(c) == LoadRegLiteralOp(c) \cup LeftShift(c.imm, 26, 5) \cup Rd(c)

\* LDR_x and STR_x
LoadStoreOp(load) == LeftShift(3, 2, 30) \cup load

LoadStoreUnsignedOffsetFixed == Top(57)

\* OpEncode::scale
Scale(op) == 2^Bits(op, 30, 31)

\* ldr and str, always of an X register.
LoadStore(c, load) ==
  LET op == LoadStoreUnsignedOffsetFixed \cup LoadStoreOp(load)
  IN op \cup LeftShift(c.imm \div Scale(op), 12, 10) \cup Rn(c) \cup Rd(c)

\* LDP_x, STP_x, LDP_q and STP_q
LoadStorePairOp(c, load) == LeftShift(2, 2, 30) \cup V(c) \cup load

LoadStorePairFixed(mode) ==
  [offset |-> Top(41), pre |-> Top(41) \cup {23}, post |-> Top(40) \cup {23}][mode]

\* OpEncode::LoadStorePair: bit 1 of opc, or all of it for a V register, is the scale.
PairOffset(c) == LeftShift(c.imm \div (IF c.ty = "q" THEN 16 ELSE 8), 7, 15)

\* ldp and stp of X or Q registers
LoadStorePair(c, load) ==
  LoadStorePairOp(c, load) \cup LoadStorePairFixed(c.mode) \cup PairOffset(c)
  \cup Rt2(c) \cup Rn(c) \cup Rd(c)

MoveWideImmediateFixed == Top(18) \cup {23}

MoveWide(op, ty, rd, imm, shift) ==
  MoveWideImmediateFixed \cup op \cup (IF ty = "x" THEN {31} ELSE {})
  \cup LeftShift(IF shift > 0 THEN shift \div 16 ELSE 0, 2, 21) \cup LeftShift(imm, 16, 5)
  \cup LeftShift(rd, 5, 0)

MOVN == {}
MOVZ == {30}
MOVK == {29, 30}

ORR == {29}
LogicalShiftedFixed == Top(10)

\* orr with an operand that is an immediate: N and the fixed bits of the class are
\* not set.
LogicalImmediate(c) ==
  ORR \cup sf(c) \cup LeftShift(c.imm, 6, 16) \cup LeftShift(c.imm \div 64, 6, 10) \cup Rd(c) \cup Rn(c)

LogicalShift(c) == ORR \cup LogicalShiftedFixed \cup sf(c) \cup Rm(c) \cup Rn(c) \cup Rd(c)

\* Operand::IsImmediate: the invalid register has number 0, like x0.
IsImmediate(reg) == reg = 0

\* mov between registers; 31 is SP.
mov(c) ==
  LET d == [c EXCEPT !.rn = 31, !.rm = c.rn, !.imm = 0]
  IN IF 31 \in {c.rd, c.rn} THEN AddSubImmediate([c EXCEPT !.imm = 0], {})
     ELSE IF IsImmediate(c.rn) THEN LogicalImmediate(d) ELSE LogicalShift(d)

\* TurboAssembler::Mov of the 64 bit number with halfwords h.
Mov(rd, h) ==
  <<MoveWide(MOVZ, "x", rd, h[1], 0), MoveWide(MOVK, "x", rd, h[2], 16),
    MoveWide(MOVK, "x", rd, h[3], 32), MoveWide(MOVK, "x", rd, h[4], 48)>>

AdrpAdd(c) ==
  LET page(a) == a - (a % 4096)
  IN <<adrp([c EXCEPT !.imm = page(c.imm) - page(c.from)]),
       AddSubImmediate([c EXCEPT !.rn = c.rd, !.imm = c.imm % 4096], {})>>

B == Top(20)
BR == LeftShift(54815, 16, 16)
BLR == LeftShift(54847, 16, 16)

CallFunction(c) == Mov(17, c.h) \o <<BLR \cup Rn([c EXCEPT !.rn = 17])>>

\* TurboAssembler::Ldr of the literal that is bound at imm, from the offset from.
LdrBound(c) == EmitLoadRegLiteral([c EXCEPT !.imm = c.imm - c.from])

\* The methods of Assembler and TurboAssembler.
A64Emit(c) ==
  CASE c.kind = "adrp"    -> <<adrp(c)>>
    [] c.kind = "add"     -> <<AddSubImmediate(c, ADD)>>
    [] c.kind = "sub"     -> <<AddSubImmediate(c, SUB)>>
    [] c.kind = "b"       -> <<B \cup LeftShift(c.imm \div 4, 26, 0)>>
    [] c.kind = "br"      -> <<BR \cup Rn(c)>>
    [] c.kind = "blr"     -> <<BLR \cup Rn(c)>>
    [] c.kind = "ldr_lit" -> <<EmitLoadRegLiteral(c)>>
    [] c.kind = "Ldr"     -> <<LdrBound(c)>>
    [] c.kind = "ldr"     -> <<LoadStore(c, {22})>>
    [] c.kind = "str"     -> <<LoadStore(c, {})>>
    [] c.kind = "ldp"     -> <<LoadStorePair(c, {22})>>
    [] c.kind = "stp"     -> <<LoadStorePair(c, {})>>
    [] c.kind = "mov"     -> <<mov(c)>>
    [] c.kind = "movn"    -> <<MoveWide(MOVN, c.ty, c.rd, c.imm, c.shift)>>
    [] c.kind = "movz"    -> <<MoveWide(MOVZ, c.ty, c.rd, c.imm, c.shift)>>
    [] c.kind = "movk"    -> <<MoveWide(MOVK, c.ty, c.rd, c.imm, c.shift)>>
    [] c.kind = "Mov"     -> Mov(c.rd, c.h)
    [] c.kind = "AdrpAdd" -> AdrpAdd(c)
    [] c.kind = "CallFunction" -> CallFunction(c)

\* ldr and str without an immediate offset, pairs of other registers.
A64Unreachable(c) ==
  \/ c.kind \in {"ldr", "str"} /\ c.mode # "offset"
  \/ c.kind \in {"ldp", "stp"} /\ c.ty \notin {"x", "q"}

------------------------------------------------------------------------------
(* A64 offsets: inst_decode_encode_kit.h.                                   *)

\* encode_imm14_offset, encode_imm19_offset, encode_imm26_offset and
\* encode_immhi_immlo_offset
EncodeOffset(kind, w, off) ==
  CASE kind = "imm14" -> SetBits(w, 5, 18, (off \div 4) % 2^14)
    [] kind = "imm19" -> SetBits(w, 5, 23, (off \div 4) % 2^19)
    [] kind = "imm26" -> SetBits(w, 0, 25, (off \div 4) % 2^26)
    [] OTHER -> (w \ (5..23 \cup 29..30)) \cup LeftShift(off, 2, 29) \cup LeftShift(off \div 4, 19, 5)

\* decode_imm14_offset, decode_imm19_offset, decode_imm26_offset and
\* decode_immhi_immlo_offset
DecodeOffset(kind, w) ==
  CASE kind = "imm14" -> SignExtend(4 * Bits(w, 5, 18), 16)
    [] kind = "imm19" -> SignExtend(4 * Bits(w, 5, 23), 21)
    [] kind = "imm26" -> SignExtend(4 * Bits(w, 0, 25), 28)
    [] OTHER -> SignExtend(Bits(w, 29, 30) + 4 * Bits(w, 5, 23), 21)

------------------------------------------------------------------------------
(* A32.                                                                     *)

AL == {29, 30, 31}

Cond(c) == LeftShift(c.cond, 4, 28)

\* Registers of A32.
ARd(c) == LeftShift(c.rd, 4, 12)
ARn(c) == LeftShift(c.rn, 4, 16)

\* add_sub: the immediate is not encoded as a rotated byte.
add_sub(c, op) == {25} \cup op \cup AL \cup Word(c.imm) \cup ARd(c) \cup ARn(c)

\* OpEncode::MemOperand
AMemOperand(c) ==
  (IF c.imm >= 0 THEN {23} ELSE {})
  \cup LeftShift(IF c.imm >= 0 THEN c.imm ELSE -c.imm, 12, 0)
  \cup [offset |-> {24}, post |-> {}, pre |-> {21, 24}][c.mode] \cup ARn(c)

load_store(c, op) == {26} \cup op \cup AL \cup ARd(c) \cup AMemOperand(c)

Branch(c, op) == op \cup {25, 27} \cup Cond(c) \cup LeftShift(c.imm \div 4, 24, 0)

\* mov, of the register rn or of an immediate.
AMov(c, operand) == LeftShift(26, 8, 20) \cup Cond(c) \cup ARd(c) \cup operand

\* OpEncode::Operand, of a register or of an immediate that is not encoded.
AOperand(c) == IF c.kind = "mov" THEN LeftShift(c.rn, 4, 0) ELSE Word(c.imm)

\* TurboAssembler::CallFunction: bl over a b to a ldr of pc from the word behind it.
ACallFunction(c) ==
  LET al(k) == [c EXCEPT !.cond = 14, !.rd = 15, !.rn = 15, !.mode = "offset", !.imm = k]
  IN <<Branch(al(0), {24}), Branch(al(4), {}), load_store(al(-4), {20}), Word(c.imm)>>

\* TurboAssembler::Ldr of the literal that is bound at imm, from the offset from.
ALdrBound(c) == load_store([c EXCEPT !.rn = 15, !.imm = c.imm - c.from, !.mode = "offset"], {20})

\* link_confused_instructions: the offset d of a ldr from its pc.
LinkArm(w, d) ==
  SetBits(IF d > 0 THEN w \cup {23} ELSE w \ {23}, 0, 11, IF d > 0 THEN d ELSE -d)

ArmEmit(c) ==
  CASE c.kind = "add"   -> <<add_sub(c, {23})>>
    [] c.kind = "sub"   -> <<add_sub(c, {22})>>
    [] c.kind = "ldr"   -> <<load_store(c, {20})>>
    [] c.kind = "str"   -> <<load_store(c, {})>>
    [] c.kind = "mov"   -> <<AMov(c, AOperand(c))>>
    [] c.kind = "mov_i" -> <<AMov(c, AOperand(c))>>
    [] c.kind = "Ldr"   -> <<ALdrBound(c)>>
    [] c.kind = "CallFunction" -> ACallFunction(c)
    [] c.kind = "b"     -> <<Branch(c, {})>>
    [] c.kind = "bl"    -> <<Branch(c, {24})>>
    [] c.kind = "link"  -> <<LinkArm(load_store([c EXCEPT !.rn = 15, !.imm = 0, !.mode = "offset"], {20}), c.imm)>>

\* arm_shift_c: a word shifted by k places. The sign that asr adds is above bit 31 of a
\* number of 32 bits, and the carry is lost.
arm_shift_c(w, type, k) ==
  CASE k = 0                -> w
    [] type = "lsl"         -> {b + k : b \in w} \cap 0..31
    [] type \in {"lsr", "asr"} -> {b - k : b \in w} \cap 0..31
    [] type = "ror"         -> {(b - k) % 32 : b \in w}
    [] type = "rrx"         -> {b - 1 : b \in w \ {0}}

A32ExpandImm(imm12) ==
  arm_shift_c(LeftShift(Bits(imm12, 0, 7), 8, 0), "ror", 2 * Bits(imm12, 8, 11))

------------------------------------------------------------------------------
(* Thumb.                                                                   *)

Half(x) == LeftShift(x, 16, 0)

\* Mutant: J1 and J2 are the bits themselves.
EmitThumb2Branch_PlainJ(c, link) ==
  LET o == c.imm \div 2
      s == IF c.imm < 0 THEN 1 ELSE 0
      i(k) == (o \div 2^k) % 2
  IN <<Half(61440) \cup LeftShift(s, 1, 10) \cup LeftShift(o \div 2048, 10, 0),
       Half(36864) \cup LeftShift(i(22), 1, 13) \cup LeftShift(i(21), 1, 11)
       \cup LeftShift(o, 11, 0) \cup link>>

EmitThumb2Branch(c, link) ==
  LET o == c.imm \div 2
      s == IF c.imm < 0 THEN 1 ELSE 0
      i(k) == (o \div 2^k) % 2
      j(k) == IF i(k) = s THEN 1 ELSE 0
  IN <<Half(61440) \cup LeftShift(s, 1, 10) \cup LeftShift(o \div 2048, 10, 0),
       Half(36864) \cup LeftShift(j(22), 1, 13) \cup LeftShift(j(21), 1, 11)
       \cup LeftShift(o, 11, 0) \cup link>>

EmitThumb2LoadLiteral(c) ==
  <<Half(63583) \cup (IF c.imm > 0 THEN {7} ELSE {}),
    LeftShift(c.rd, 4, 12) \cup Half(IF c.imm > 0 THEN c.imm ELSE -c.imm)>>

\* The other addressing modes; bit 9, up, is set when the offset is not positive.
EmitThumb2LoadStore(c) ==
  IF c.rn = 15 THEN EmitThumb2LoadLiteral(c)
  ELSE IF c.mode = "offset" /\ c.imm >= 0
       THEN <<Half(63696) \cup LeftShift(c.rn, 4, 0), LeftShift(c.rd, 4, 12) \cup Half(c.imm)>>
       ELSE <<Half(63568) \cup LeftShift(c.rn, 4, 0),
              {11} \cup LeftShift(c.rd, 4, 12) \cup Half(IF c.imm > 0 THEN c.imm ELSE -c.imm)
              \cup (IF c.imm > 0 THEN {} ELSE {9})
              \cup [offset |-> {}, post |-> {8}, pre |-> {8, 10}][c.mode]>>

\* ThumbPseudoLabel::link_confused_instructions
LinkThumb(ws, d) ==
  <<IF d > 0 THEN ws[1] \cup {7} ELSE ws[1] \ {7}, SetBits(ws[2], 0, 11, IF d > 0 THEN d ELSE -d) \cap 0..15>>

\* ThumbTurboAssembler::T2_Ldr of the literal that is bound at imm, from the offset from.
T2LdrBound(c) == EmitThumb2LoadLiteral([c EXCEPT !.imm = c.imm - c.from])

ThumbEmit(c) ==
  CASE c.kind = "t1_b"   -> <<Half(57344) \cup LeftShift(c.imm \div 2, 11, 0)>>
    [] c.kind = "t2_b"   -> EmitThumb2Branch(c, {})
    [] c.kind = "t2_bl"  -> EmitThumb2Branch(c, {14})
    [] c.kind = "T2_Ldr" -> T2LdrBound(c)
    [] c.kind = "t2_ldr" -> EmitThumb2LoadStore(c)
    [] c.kind = "link"   -> LinkThumb(EmitThumb2LoadLiteral([c EXCEPT !.imm = 0]), c.imm)

------------------------------------------------------------------------------
(* The offsets that the relocation reads from A32 and Thumb instructions.   *)

is_thumb2(h) == Bits(h, 13, 15) = 7 /\ Bits(h, 11, 12) # 0

\* SignExtend of InstructionRelocationARM.cc: x may have bits from m on.
ASignExtend(x, m) == IF (x \div 2^(m - 1)) % 2 = 1 THEN (x % 2^m) - 2^m ELSE x

\* S, J1 and J2 of the branches of Thumb-2 as the bits 24, 23 and 22 of the offset.
BranchTop(ws) ==
  LET S == Bits(ws[1], 10, 10)
      i(j) == IF Bits(ws[2], j, j) = S THEN 1 ELSE 0
  IN S * 2^24 + i(13) * 2^23 + i(11) * 2^22 + Bits(ws[1], 0, 9) * 2^12

ARMOffset(kind, ws) ==
  LET w == ws[1]
  IN CASE kind = "b"   -> ASignExtend(4 * Bits(w, 0, 23), 26)
       [] kind = "ldr" -> IF 23 \in w THEN Bits(w, 0, 11) ELSE -Bits(w, 0, 11)
       [] kind = "adr" -> IF 23 \in w THEN Bits(A32ExpandImm(w), 0, 30)
                          ELSE -Bits(A32ExpandImm(w), 0, 30)

Thumb1Offset(kind, ws) ==
  LET h == ws[1]
  IN CASE kind = "ldr"    -> 4 * Bits(h, 0, 7)
       [] kind = "adr"    -> 4 * Bits(h, 0, 7)
       [] kind = "b_cond" -> ASignExtend(2 * Bits(h, 0, 7), 9)
       [] kind = "cbz"    -> 64 * Bits(h, 9, 9) + 2 * Bits(h, 3, 7)
       [] kind = "b"      -> ASignExtend(2 * Bits(h, 0, 10), 12)

\* The offset of blx is extended from one bit too low.
Thumb2Offset(kind, ws) ==
  LET a == ws[1]
      b == ws[2]
  IN CASE kind = "b_cond" ->
            ASignExtend(Bits(a, 10, 10) * 2^20 + Bits(b, 11, 11) * 2^19 + Bits(b, 13, 13) * 2^18
                        + Bits(a, 0, 5) * 2^12 + 2 * Bits(b, 0, 10), 21)
       [] kind \in {"b", "bl"} -> ASignExtend(BranchTop(ws) + 2 * Bits(b, 0, 10), 25)
       [] kind = "blx"    -> ASignExtend(BranchTop(ws) + 4 * Bits(b, 1, 10), 24)
       [] kind = "adr"    -> LET imm == 2^11 * Bits(a, 10, 10) + 2^8 * Bits(b, 12, 14) + Bits(b, 0, 7)
                             IN IF 7 \in a THEN -imm ELSE imm
       [] kind = "ldr"    -> IF 7 \in a THEN Bits(b, 0, 11) ELSE -Bits(b, 0, 11)

\* The offset of an instruction of A32, or of Thumb by its first halfword.
ReadOffset(isa, kind, ws) ==
  CASE isa = "arm" -> ARMOffset(kind, ws)
    [] is_thumb2(ws[1]) -> Thumb2Offset(kind, ws)
    [] OTHER -> Thumb1Offset(kind, ws)
=============================================================================
