----------------------------- MODULE X86Decode -----------------------------
(***************************************************************************)
(* InstructionRelocation/x86/x86_insn_decode: the decoder that tells the   *)
(* relocation of x86 code how long an instruction is, where its            *)
(* displacement and its immediate are and whether it is relative to the    *)
(* instruction pointer.  Its input is a sequence of bytes.                 *)
(***************************************************************************)
EXTENDS Integers, Sequences, FiniteSets

------------------------------------------------------------------------------
(* The opcode maps.  Of the operands of an entry only these matter: whether *)
(* one of them needs a ModRM byte (G, E, M, R) and the type of the first    *)
(* that is an immediate (J, I, O).                                          *)

\* x86_opcode_map_one_byte: 0x00 to 0x3f, eight operations with the same operands.
ArithModRM == {o \in 0..63 : o % 8 < 4}

OneByteModRM ==
  ArithModRM \cup {98, 99, 105, 107} \cup 128..143
  \cup {192, 193, 196, 197, 198, 199} \cup 208..211 \cup {254}

OneByteImmB ==
  {o \in 0..63 : o % 8 = 4} \cup {106, 107} \cup 112..127 \cup {128, 130, 131}
  \cup {160, 162, 168} \cup 176..183 \cup {192, 193, 198, 205} \cup 224..231 \cup {235}

OneByteImmW == {194, 200, 202}

OneByteImmZ == {o \in 0..63 : o % 8 = 5} \cup {104, 105, 129, 169, 199, 232, 233}

OneByteImmV == {161, 163} \cup 184..191

\* X86_INSN_SPEC_DEFAULT_64_BIT
OneByteDefault64 == {7, 14} \cup 80..95 \cup {104, 106, 232, 233}

\* x86_opcode_map_two_byte, without the SSE groups
TwoByteModRM ==
  {2, 3} \cup 32..35 \cup 64..79 \cup 144..159 \cup {163, 164, 165, 171, 172, 173, 175}
  \cup 176..183 \cup 186..193 \cup {195, 199}

TwoByteImmB == {164, 172, 186}

TwoByteImmZ == 128..143

\* The entries with a flag of an SSE group, of the lower and the upper half.
TwoByteSSELow == 16..23 \cup 40..47 \cup 80..112 \cup 116..127
TwoByteSSEHigh == {194, 196, 197, 198} \cup 208..255

TwoByteSSE == TwoByteSSELow \cup TwoByteSSEHigh

\* Opcodes whose entry is a group indexed by the reg field of the ModRM byte. The
\* instruction of the group gives the name and the flags, not the operands.
OneByteGroups == 128..131 \cup {143, 192, 193, 198, 199} \cup 208..211 \cup {246, 247, 254, 255}

TwoByteGroups == {0, 1, 13, 24, 113, 114, 115, 174, 185, 186, 199}

\* The instructions of the groups that are 64 bit by default: pop of group 1a,
\* call, jmp and push of group 5.
GroupDefault64(op, reg) == \/ op = 143 /\ reg = 0
                           \/ op = 255 /\ reg \in {2, 4, 6}

\* An entry of the maps.
InsnSpec(two, op, modrm) ==
  LET reg == (modrm \div 8) % 8
  IN [modrm |-> IF two THEN op \in TwoByteModRM ELSE op \in OneByteModRM,
      imm   |-> CASE  two /\ op \in TwoByteImmB -> "b"
                  []  two /\ op \in TwoByteImmZ -> "z"
                  [] ~two /\ op \in OneByteImmB -> "b"
                  [] ~two /\ op \in OneByteImmW -> "w"
                  [] ~two /\ op \in OneByteImmZ -> "z"
                  [] ~two /\ op \in OneByteImmV -> "v"
                  [] OTHER -> "none",
      def64 |-> IF two THEN FALSE
                ELSE IF op \in OneByteGroups THEN GroupDefault64(op, reg)
                ELSE op \in OneByteDefault64,
      sse   |-> two /\ op \in TwoByteSSE]

------------------------------------------------------------------------------
(* The reader.                                                              *)

\* Bytes behind the 15 the reader copies hold its debug token.
ByteAt(bytes, p) == IF p < Len(bytes) THEN bytes[p + 1] ELSE 204

\* How far the reader moves over a number; read_qword moves 4 bytes.
NumberLen(bits) == IF bits = 64 THEN 4 ELSE bits \div 8

SignedByte(b) == IF b < 128 THEN b ELSE b - 256

\* The number at p as the signed number of its width that the relocation takes it for.
Number(bytes, p, bits) ==
  CASE bits = 8  -> SignedByte(ByteAt(bytes, p))
    [] bits = 16 -> ByteAt(bytes, p) + 256 * SignedByte(ByteAt(bytes, p + 1))
    [] OTHER     -> ByteAt(bytes, p) + 256 * ByteAt(bytes, p + 1)
                    + 65536 * ByteAt(bytes, p + 2)
                    + 16777216 * SignedByte(ByteAt(bytes, p + 3))

------------------------------------------------------------------------------
(* x86_insn_decode.                                                         *)

LegacyPrefixes == {240, 242, 243, 46, 54, 62, 38, 100, 101, 102, 103}

IsRex(b) == b \in 64..79

\* x86_insn_decode_prefix: legacy prefixes, then at most one REX prefix if the mode
\* is 64 bit.
LegacyEnd(bytes) ==
  CHOOSE k \in 0..14 : /\ \A i \in 0..(k - 1) : ByteAt(bytes, i) \in LegacyPrefixes
                       /\ ByteAt(bytes, k) \notin LegacyPrefixes

PrefixesTo(bytes, mode, k) ==
  LET rex == IF mode = 64 /\ IsRex(ByteAt(bytes, k)) THEN ByteAt(bytes, k) ELSE 0
      has(b) == \E i \in 0..(k - 1) : ByteAt(bytes, i) = b
  IN [end |-> IF rex # 0 THEN k + 1 ELSE k, rex |-> rex,
      opsize |-> has(102), addrsize |-> has(103)]

DecodePrefix(bytes, mode) == PrefixesTo(bytes, mode, LegacyEnd(bytes))

\* x86_insn_decode_opcode
DecodeOpcode(bytes, p) ==
  LET two == ByteAt(bytes, p) = 15
      q   == IF two THEN p + 1 ELSE p
  IN [end |-> q + 1, op |-> ByteAt(bytes, q), two |-> two,
      spec |-> InsnSpec(two, ByteAt(bytes, q), ByteAt(bytes, q + 1))]

\* RBP and R13 of x86_ia32e_register_t, whose order is not that of the encoding.
RBP == 7
R13 == 14

\* Mutant: the address without a base register has no displacement.
DispBits_NoAbsolute(mod, rm, base, addrbits) ==
  CASE mod = 1 -> 8 [] mod = 2 -> 32 [] OTHER -> 0

\* The width of the displacement that follows ModRM and SIB.
DispBits(mod, rm, base, addrbits) ==
  LET plain == IF mod = 0 /\ rm = 5 THEN 32 ELSE CASE mod = 1 -> 8 [] mod = 2 -> 32
                                                   [] OTHER -> 0
      odd   == {RBP} \cup (IF addrbits = 64 THEN {R13} ELSE {})
  IN IF rm = 4 /\ base \in odd THEN (IF mod = 1 THEN 8 ELSE 32) ELSE plain

\* The displacement of the given width at q.
Displacement(bytes, q, bits, ip) ==
  [end |-> q + NumberLen(bits), ip |-> ip,
   dispoff |-> IF bits = 0 THEN 0 ELSE q,
   disp |-> IF bits = 0 THEN 0 ELSE Number(bytes, q, bits)]

\* x86_insn_decode_modrm_sib, at p
DecodeModrmSib(bytes, p, pre) ==
  LET modrm == ByteAt(bytes, p)
      mod   == modrm \div 64
      rm    == modrm % 8
      sib   == rm = 4 /\ mod # 3
      q     == IF sib THEN p + 2 ELSE p + 1
      base  == (ByteAt(bytes, p + 1) % 8) + 8 * (pre.rex % 2)
      bits  == IF mod = 3 THEN 0
               ELSE DispBits(mod, rm, base, IF pre.addrsize THEN 32 ELSE 64)
  IN Displacement(bytes, q, bits, mod = 0 /\ rm = 5)

\* x86_insn_imm_bits and the effective operand size. A displacement relative to the
\* instruction pointer has overwritten the flag that a REX.W prefix sets.
ImmBits(spec, pre, ip, mode) ==
  LET rexw    == (pre.rex \div 8) % 2 = 1 /\ ~ip
      operand == IF rexw \/ (mode = 64 /\ spec.def64) THEN 64
                 ELSE IF pre.opsize THEN 16 ELSE 32
  IN CASE spec.imm = "b" -> 8
       [] spec.imm = "w" -> 16
       [] spec.imm = "z" -> IF operand = 64 THEN 32 ELSE operand
       [] spec.imm = "v" -> operand
       [] OTHER -> 0

\* x86_insn_decode_immediate, behind the operand in memory. An instruction of an SSE
\* group is UNIMPLEMENTED.
DecodeImmediate(bytes, opc, mem, bits) ==
  [aborts |-> opc.spec.sse, op |-> opc.op, two |-> opc.two, ip |-> mem.ip,
   dispoff |-> mem.dispoff, disp |-> mem.disp,
   immoff |-> IF bits = 0 THEN 0 ELSE mem.end,
   imm |-> IF bits = 0 THEN 0 ELSE Number(bytes, mem.end, bits),
   length |-> mem.end + NumberLen(bits)]

\* The operand in memory, if the opcode has one.
DecodeMemory(bytes, pre, opc) ==
  IF opc.spec.modrm THEN DecodeModrmSib(bytes, opc.end, pre)
  ELSE [end |-> opc.end, ip |-> FALSE, dispoff |-> 0, disp |-> 0]

\* x86_insn_decode: the prefixes, the opcode, the operand in memory, the immediate.
DecodeOperands(bytes, mode, pre, opc, mem) ==
  DecodeImmediate(bytes, opc, mem, ImmBits(opc.spec, pre, mem.ip, mode))

DecodeBehindOpcode(bytes, mode, pre, opc) ==
  DecodeOperands(bytes, mode, pre, opc, DecodeMemory(bytes, pre, opc))

DecodeBehindPrefix(bytes, mode, pre) ==
  DecodeBehindOpcode(bytes, mode, pre, DecodeOpcode(bytes, pre.end))

Decode(bytes, mode) == DecodeBehindPrefix(bytes, mode, DecodePrefix(bytes, mode))
=============================================================================
