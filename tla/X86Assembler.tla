---------------------------- MODULE X86Assembler ----------------------------
(***************************************************************************)
(* core/assembler/assembler-x64.h and assembler-ia32.h: the bytes that the *)
(* methods of the x64 and the IA32 Assembler emit.  Registers are numbers  *)
(* 0 to 15, as in the encoding; bits is 64 or 32.                          *)
(***************************************************************************)
EXTENDS Integers, Sequences

EAX == 0
RSP == 4
RegBP == 5

Byte(x) == <<x % 256>>

Bytes32(x) == <<x % 256, (x \div 256) % 256, (x \div 65536) % 256, (x \div 16777216) % 256>>

------------------------------------------------------------------------------
(* Immediate and Address.                                                   *)

\* The size of an Immediate made without one. The x64 assembler takes 16 bit values
\* for 8 bit ones.
ImmediateSizeX64(v) == IF v \in -32768..32767 THEN 8 ELSE 32

ImmediateSizeIA32(v) ==
  IF v \in -128..127 THEN 8 ELSE IF v \in -32768..32767 THEN 16 ELSE 32

\* EmitImmediate of x64; a size of 16 is UNREACHABLE.
EmitImmediate(v, size) ==
  CASE size = 8  -> Byte(v)
    [] size = 64 -> Bytes32(v) \o Bytes32(IF v < 0 THEN -1 ELSE 0)
    [] OTHER     -> Bytes32(v)

\* An index or base register that is not there.
NoReg == 16

\* Operand: the REX bits, mod, the rm field and what follows the ModRM byte. SetModRM
\* leaves REX.B of r12 to SetSIB.
Operand(mod, rm, sib, disp) ==
  LET isB(r) == IF r > 7 THEN 1 ELSE 0
  IN [rex  |-> IF sib = <<>> THEN isB(rm) ELSE isB(sib[3]) + 2 * isB(sib[2]),
      mod  |-> mod, rm |-> rm % 8,
      rest |-> (IF sib = <<>> THEN <<>> ELSE <<64 * sib[1] + 8 * (sib[2] % 8) + (sib[3] % 8)>>) \o disp]

\* The displacement of an Address and its mod.
Mod(base, disp) == IF disp = 0 /\ base % 8 # RegBP THEN 0 ELSE IF disp \in -128..127 THEN 1 ELSE 2

Disp(mod, disp) == CASE mod = 0 -> <<>> [] mod = 1 -> Byte(disp) [] OTHER -> Bytes32(disp)

\* Address(base, disp), Address(index, scale, disp) and Address(base, index, scale, disp)
Address(base, index, scale, disp) ==
  LET mod == Mod(base, disp)
  IN IF base = NoReg THEN Operand(0, RSP, <<scale, index, RegBP>>, Bytes32(disp))
     ELSE IF index # NoReg THEN Operand(mod, RSP, <<scale, index, base>>, Disp(mod, disp))
     ELSE Operand(mod, base, IF base % 8 = RSP THEN <<0, RSP, base>> ELSE <<>>, Disp(mod, disp))

------------------------------------------------------------------------------
(* Prefixes and ModRM bytes.                                                *)

\* EmitOptionalRex with W, for registers are of 64 bits: R when r is a high register, B
\* when b is.
EmitOptionalRex(r, b) == 72 + (IF r > 7 THEN 4 ELSE 0) + (IF b > 7 THEN 1 ELSE 0)

\* EmitREX_Register, EmitREX_ExtraRegister and EmitREX_Register_Operand
RexRegister(r) == <<EmitOptionalRex(r, 0)>>
RexExtraRegister(r) == <<EmitOptionalRex(r, r)>>
RexRegisterOperand(r, m) == <<EmitOptionalRex(r, 0) + m.rex>>

\* EmitREX_Operand
RexOperand(m) == <<64 + m.rex>>

\* Bitwise or of mod << 6, reg << 3 and rm, of which reg and rm may be 8 or more.
OrBits(a, b) ==
  LET bit(x, i) == (x \div 2^i) % 2
      or(i) == IF bit(a, i) = 1 \/ bit(b, i) = 1 THEN 2^i ELSE 0
  IN or(0) + or(1) + or(2) + or(3) + or(4) + or(5) + or(6) + or(7)

EmitModRM(mod, reg, rm) == <<OrBits(OrBits(mod * 64, (reg * 8) % 256), rm)>>

\* EmitModRM_Update_Register, EmitModRM_Update_ExtraOpcode and what follows.
MemOperand(reg, m) == EmitModRM(m.mod, reg % 8, m.rm) \o m.rest

------------------------------------------------------------------------------
(* The instructions, c.kind names the method.                               *)

EmitX64(c) ==
  LET r   == c.reg
      m   == Address(c.base, c.index, c.scale, c.disp)
      imm == EmitImmediate(c.imm, c.size)
  IN CASE c.kind = "sub_ri"  -> RexRegister(r) \o <<129>> \o EmitModRM(3, 5, r) \o imm
       [] c.kind = "add_ri"  -> RexRegister(r) \o <<129>> \o EmitModRM(3, 0, r) \o imm
       [] c.kind = "mov_ri"  -> RexRegister(r) \o <<184 + (r % 8)>> \o imm
       [] c.kind = "mov_mi"  -> RexOperand(m) \o <<199>> \o MemOperand(0, m) \o imm
       [] c.kind = "mov_rm"  -> RexRegister(r) \o <<139>> \o MemOperand(r, m)
       [] c.kind = "mov_mr"  -> RexRegisterOperand(r, m) \o <<137>> \o MemOperand(r, m)
       [] c.kind = "mov_rr"  -> RexRegister(r) \o <<139>> \o EmitModRM(3, r, c.base)
       [] c.kind = "call_m"  -> RexOperand(m) \o <<255>> \o MemOperand(2, m)
       [] c.kind = "call_i"  -> <<232>> \o imm
       [] c.kind = "call_r"  -> RexRegister(r) \o <<255>> \o EmitModRM(3, 2, r)
       [] c.kind = "jmp_i"   -> <<233>> \o Bytes32(c.imm)
       [] c.kind = "push"    -> RexExtraRegister(r) \o <<80 + (r % 8)>>
       [] c.kind = "pop"     -> RexExtraRegister(r) \o <<88 + (r % 8)>>
       [] OTHER -> [pushfq |-> <<156>>, ret |-> <<195>>, nop |-> <<144>>][c.kind]

\* TurboAssembler::CallFunction through r11, of the literal that is bound c.imm bytes
\* behind the call: the displacement counts from the pop, 9 bytes before its end.
CallFunctionX64(c) ==
  LET via  == [c EXCEPT !.reg = 11, !.base = 11, !.index = NoReg, !.disp = 2147483647, !.imm = 0, !.size = 32]
      call == EmitX64([via EXCEPT !.kind = "call_m"])
  IN <<144>> \o EmitX64([via EXCEPT !.kind = "call_i"]) \o EmitX64([via EXCEPT !.kind = "pop"])
     \o SubSeq(call, 1, Len(call) - 4) \o Bytes32(c.imm + 9) \o <<144>>

------------------------------------------------------------------------------
(* IA32: no prefixes, and no registers above 7.                             *)

EmitImmediateIA32(v, size) == IF size = 8 THEN Byte(v) ELSE Bytes32(v)

OperandIA32(mod, rm, sib, disp) ==
  [mod |-> mod, rm |-> rm, rest |-> (IF sib = <<>> THEN <<>> ELSE <<64 * sib[1] + 8 * sib[2] + sib[3]>>) \o disp]

AddressIA32(base, index, scale, disp) ==
  LET mod == Mod(base, disp)
  IN IF base = NoReg THEN OperandIA32(0, RSP, <<scale, index, RegBP>>, Bytes32(disp))
     ELSE IF index # NoReg THEN OperandIA32(mod, RSP, <<scale, index, base>>, Disp(mod, disp))
     ELSE OperandIA32(mod, base, IF base = RSP THEN <<0, RSP, base>> ELSE <<>>, Disp(mod, disp))

EmitModRMIA32(mod, reg, rm) == <<64 * mod + 8 * reg + rm>>

MemOperandIA32(reg, m) == EmitModRMIA32(m.mod, reg, m.rm) \o m.rest

EmitIA32(c) ==
  LET r   == c.reg
      m   == AddressIA32(c.base, c.index, c.scale, c.disp)
      imm == EmitImmediateIA32(c.imm, c.size)
  IN CASE c.kind = "sub_ri"  -> <<129>> \o EmitModRMIA32(3, 5, r) \o imm
       [] c.kind = "add_ri"  -> <<129>> \o EmitModRMIA32(3, 0, r) \o imm
       [] c.kind = "mov_ri"  -> <<184 + r>> \o imm
       [] c.kind = "mov_mi"  -> <<199>> \o MemOperandIA32(0, m) \o imm
       [] c.kind = "mov_rm"  -> <<139>> \o MemOperandIA32(r, m)
       [] c.kind = "mov_mr"  -> <<137>> \o MemOperandIA32(r, m)
       [] c.kind = "mov_rr"  -> <<139>> \o EmitModRMIA32(3, r, c.base)
       [] c.kind = "call_m"  -> <<255>> \o MemOperandIA32(2, m)
       [] c.kind = "call_i"  -> <<232>> \o imm
       [] c.kind = "call_r"  -> <<255>> \o EmitModRMIA32(3, 2, r)
       [] c.kind = "jmp_i"   -> <<233>> \o Bytes32(c.imm)
       [] c.kind = "push"    -> <<80 + r>>
       [] c.kind = "pop"     -> <<88 + r>>
       [] OTHER -> [pushfq |-> <<156>>, ret |-> <<195>>, nop |-> <<144>>][c.kind]

\* CallFunction through VOLATILE_REGISTER; its pop and its call are 7 bytes.
CallFunctionIA32(c) ==
  LET via  == [c EXCEPT !.reg = EAX, !.base = EAX, !.index = NoReg, !.disp = 2147483647, !.imm = 0, !.size = 32]
      call == EmitIA32([via EXCEPT !.kind = "call_m"])
  IN <<144>> \o EmitIA32([via EXCEPT !.kind = "call_i"]) \o EmitIA32([via EXCEPT !.kind = "pop"])
     \o SubSeq(call, 1, Len(call) - 4) \o Bytes32(c.imm + 7) \o <<144>>
=============================================================================
