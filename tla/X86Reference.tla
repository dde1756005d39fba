---------------------------- MODULE X86Reference ----------------------------
(***************************************************************************)
(* How an x86 processor reads an instruction, in 64 or in 32 bit mode, and *)
(* the instructions that the decoder and the assemblers get wrong.         *)
(***************************************************************************)
EXTENDS X86Decode, X86Assembler

\* One byte opcodes that a 64 bit processor gives a ModRM byte.
ArchModRM == ArithModRM \cup {99, 105, 107} \cup 128..143 \cup {192, 193, 198, 199}
             \cup 208..211 \cup 216..223 \cup {246, 247, 254, 255}

\* Two byte opcodes it gives none.
ArchTwoByteBare == {5, 6, 7, 8, 9, 11} \cup 48..53 \cup {55, 119} \cup 128..143
                   \cup {160, 161, 162, 168, 169, 170} \cup 200..207

\* The bytes of the immediate or the moffs.
ArchImm(two, op, reg, opsize, rexw, addrsize) ==
  LET z == IF opsize /\ ~rexw THEN 2 ELSE 4
  IN IF two THEN CASE op \in 128..143 -> 4
                   [] op \in 112..115 \cup {164, 172, 186, 194, 196, 197, 198} -> 1
                   [] OTHER -> 0
     ELSE CASE op < 64 /\ op % 8 = 4 -> 1
            [] op < 64 /\ op % 8 = 5 -> z
            [] op \in {104, 105, 129, 169, 199} -> z
            [] op \in {232, 233} -> 4
            [] op \in {106, 107} \cup 112..128 \cup {131, 168} \cup 176..183 -> 1
            [] op \in {192, 193, 198, 205} \cup 224..231 \cup {235} -> 1
            [] op \in 160..163 -> IF addrsize THEN 4 ELSE 8
            [] op \in 184..191 -> IF rexw THEN 8 ELSE z
            [] op \in {194, 202} -> 2
            [] op = 200 -> 3
            [] op = 246 /\ reg < 2 -> 1
            [] op = 247 /\ reg < 2 -> z
            [] OTHER -> 0

\* The fields of an instruction with its displacement of disp bytes at q and an
\* immediate of imm bytes behind it. index and base are without their REX bits.
ArchFields(bytes, pre, two, op, modrm, sib, sibByte, base, q, disp, imm) ==
  LET mod    == modrm \div 64
      scaled == ((sibByte \div 8) % 8) + 8 * ((pre.rex \div 2) % 2)
  IN [length |-> q + disp + imm, op |-> op, two |-> two, mod |-> mod,
      rexw |-> (pre.rex \div 8) % 2 = 1, opsize |-> pre.opsize, addrsize |-> pre.addrsize,
      rm |-> modrm % 8, reg |-> ((modrm \div 8) % 8) + 8 * ((pre.rex \div 4) % 2),
      base |-> IF sib /\ mod = 0 /\ base = 5 THEN NoReg ELSE base + 8 * (pre.rex % 2),
      index |-> IF sib /\ scaled # 4 THEN scaled ELSE NoReg,
      scale |-> IF sib THEN sibByte \div 64 ELSE 0,
      low |-> (op % 8) + 8 * (pre.rex % 2),
      disp |-> IF disp = 0 THEN 0 ELSE Number(bytes, q, 8 * disp),
      imm |-> IF imm = 0 THEN 0 ELSE Number(bytes, q + disp, 8 * imm)]

\* The bytes of the displacement.
ArchDisp(has, mod, base) ==
  CASE ~has \/ mod = 3 -> 0
    [] mod = 1 -> 1
    [] mod = 2 \/ base = 5 -> 4
    [] OTHER -> 0

\* has: the instruction has a ModRM byte, behind the opcode at p.
ArchModrm(bytes, pre, two, p, op, has, modrm) ==
  LET sib  == has /\ modrm \div 64 # 3 /\ modrm % 8 = 4
      base == IF sib THEN ByteAt(bytes, p + 2) % 8 ELSE modrm % 8
  IN ArchFields(bytes, pre, two, op, modrm, sib, ByteAt(bytes, p + 2), base,
                p + 1 + (IF has THEN 1 ELSE 0) + (IF sib THEN 1 ELSE 0),
                ArchDisp(has, modrm \div 64, base),
                ArchImm(two, op, (modrm \div 8) % 8, pre.opsize,
                        (pre.rex \div 8) % 2 = 1, pre.addrsize))

ArchOpcode(bytes, pre, two, p, op) ==
  ArchModrm(bytes, pre, two, p, op,
            IF two THEN op \notin ArchTwoByteBare ELSE op \in ArchModRM,
            ByteAt(bytes, p + 1))

ArchBehindPrefix(bytes, pre) ==
  IF ByteAt(bytes, pre.end) = 15
  THEN ArchOpcode(bytes, pre, TRUE, pre.end + 1, ByteAt(bytes, pre.end + 1))
  ELSE ArchOpcode(bytes, pre, FALSE, pre.end, ByteAt(bytes, pre.end))

\* How the processor reads an instruction.
Arch(bytes, bits) == ArchBehindPrefix(bytes, DecodePrefix(bytes, bits))

------------------------------------------------------------------------------
(* Where the code disagrees.                                                *)

\* The instructions the decoder gets wrong: those the tables give no ModRM byte, a
\* SIB byte with a base the code compares with the wrong register number, 64 bit
\* immediates, addresses and ENTER, and operand sizes that a prefix changes.
Misread(a) ==
  LET sib == a.rm = 4 /\ a.mod = 0
      inModRM == IF a.two THEN a.op \in TwoByteModRM ELSE a.op \in OneByteModRM
      ip  == inModRM /\ a.mod = 0 /\ ~sib /\ a.base % 8 = 5
  IN \/ ~a.two /\ a.op \in 216..223 \cup {246, 247, 255}
     \/ a.two /\ a.op \in {0, 1, 13} \cup 24..31 \cup {113, 114, 115, 174, 184, 185}
     \/ inModRM /\ sib /\ (a.base \in {5, 13, NoReg} \/ a.base = 7 \/ (a.base = 14 /\ ~a.addrsize))
     \/ ~a.two /\ a.op \in 160..163 \cup {200}
     \/ ~a.two /\ a.op \in 184..191 /\ a.rexw
     \/ a.opsize /\ ~a.rexw /\ a.two /\ a.op \in 128..143
     \/ a.opsize /\ ~a.rexw /\ ~a.two /\ a.op = 104
     \/ a.opsize /\ a.rexw /\ ip /\ ~a.two /\ a.op \in {105, 129, 199}

\* Calls of the assembler whose bytes mean something else: an immediate shorter than
\* the opcode's, a base or index register above 7 in a load, registers above 7 in ModRM.rm.
X86Misencoded(c, bits) ==
  \/ c.kind \in {"sub_ri", "add_ri"} /\ (c.size # 32 \/ c.reg > 7)
  \/ c.kind \in {"mov_mi", "call_i"} /\ c.size # 32
  \/ c.kind = "mov_ri" /\ (c.size # bits \/ c.reg > 7)
  \/ c.kind = "mov_rm" /\ (c.base \in 8..15 \/ c.index \in 8..15)
  \/ c.kind = "mov_rr" /\ c.base > 7
  \/ c.kind = "call_r" /\ c.reg > 7

\* The code of CallFunction: a nop, a call of the next instruction, a pop of its address
\* and a call through the word at that address and a displacement.
IsCallFunction(bytes, c, bits) ==
  LET rest(k) == SubSeq(bytes, k + 1, Len(bytes))
  IN \E push \in {Arch(rest(1), bits)}, pop \in {Arch(rest(6), bits)} :
     \E call \in {Arch(rest(6 + pop.length), bits)} :
       LET end == 6 + pop.length + call.length
       IN /\ bytes[1] = 144 /\ push.op = 232 /\ push.imm = 0 /\ push.length = 5
          /\ pop.op \in 88..95 /\ call.op = 255 /\ call.reg % 8 = 2 /\ call.mod = 2
          /\ call.base = pop.low /\ call.index = NoReg /\ 6 + call.disp = end + c.imm
          /\ Len(bytes) = end + 1 /\ bytes[end + 1] = 144

\* The instruction of len bytes, as the processor reads it, is what the call asks for.
InsnMeans(a, len, c, bits) ==
  LET mem == /\ a.base = c.base /\ a.index = c.index /\ (c.index # NoReg => a.scale = c.scale)
             /\ a.disp = c.disp /\ a.mod # 3
      w   == a.rexw = (bits = 64)
  IN /\ a.length = len
     /\ CASE c.kind = "sub_ri" -> a.op = 129 /\ a.mod = 3 /\ a.reg = 5 /\ a.base = c.reg
                                  /\ a.imm = c.imm /\ w
          [] c.kind = "add_ri" -> a.op = 129 /\ a.mod = 3 /\ a.reg = 0 /\ a.base = c.reg
                                  /\ a.imm = c.imm /\ w
          [] c.kind = "mov_ri" -> a.op \in 184..191 /\ a.low = c.reg /\ a.imm = c.imm /\ w
          [] c.kind = "mov_mi" -> a.op = 199 /\ a.reg = 0 /\ mem /\ a.imm = c.imm
          [] c.kind = "mov_rm" -> a.op = 139 /\ a.reg = c.reg /\ mem /\ w
          [] c.kind = "mov_mr" -> a.op = 137 /\ a.reg = c.reg /\ mem /\ w
          [] c.kind = "mov_rr" -> a.op = 139 /\ a.mod = 3 /\ a.reg = c.reg
                                  /\ a.base = c.base /\ w
          [] c.kind = "call_m" -> a.op = 255 /\ a.reg % 8 = 2 /\ mem
          [] c.kind = "call_r" -> a.op = 255 /\ a.mod = 3 /\ a.reg = 2 /\ a.base = c.reg
          [] c.kind \in {"call_i", "jmp_i"} -> a.op \in {232, 233} /\ a.imm = c.imm
          [] c.kind = "push"   -> a.op \in 80..87 /\ a.low = c.reg
          [] c.kind = "pop"    -> a.op \in 88..95 /\ a.low = c.reg
          [] OTHER -> TRUE

\* What the processor would execute is what the caller asked for.
X86Means(bytes, c, bits) ==
  IF c.kind = "CallFunction" THEN IsCallFunction(bytes, c, bits)
  ELSE InsnMeans(Arch(bytes, bits), Len(bytes), c, bits)
=============================================================================
