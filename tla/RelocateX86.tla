---------------------------- MODULE RelocateX86 ----------------------------
(***************************************************************************)
(* InstructionRelocation/x86 and x64: the relocation of x86 code.  The     *)
(* instructions are the bytes of prog.bytes, read by x86_insn_decode in 64 *)
(* bit mode on both architectures; prog.insns says what they do.  Code of  *)
(* near memory is kept among the items at offsets from NearPos on.         *)
(***************************************************************************)
EXTENDS Relocate, X86Decode

X86Pending == Pending /\ prog.arch \in {"x64", "x86"}

X64 == prog.arch = "x64"

\* The decoder on every instruction of the programs.
AllBytes == UNION {{p.bytes[i] : i \in DOMAIN p.bytes} : p \in Programs}
Decoded == [b \in AllBytes |-> Decode(b, 64)]

\* An instruction has an opcode behind its prefixes, and the near memory of x64 code
\* is apart from the block: the longest sequence is that of jcc, 18 bytes, and the jump
\* to the rest of the function takes 14.
ASSUME X86Assumption ==
  /\ \A b \in AllBytes : \E k \in 0..14 :
       /\ \A i \in 0..(k - 1) : ByteAt(b, i) \in LegacyPrefixes
       /\ ByteAt(b, k) \notin LegacyPrefixes
  /\ \A p \in Programs : p.arch = "x64" => NearPos >= 18 * Len(p.insns) + 14

Insn == Decoded[prog.bytes[n]]

\* The address behind the instruction, and the one behind its copy of l bytes.
OrigIp == At + Insn.length
ReloIp(l) == Relocated + size + l

\* codegen_x64_jmp_absolute_addr: jmp *(rip) and the target.
JmpAbsolute(p, dst) == {Ldr(p, 6, "pc", 0), Data(p + 6, 8, dst)}

\* The cursor moves by the length of the decoder; if that is not the length of the
\* instruction, the next one is read from the middle of this one or of a later one,
\* and what follows is not modelled.
X86Emitted(items, end) ==
  /\ IF Insn.length = Ins.len
     THEN Emitted(items, end, <<>>) /\ phase' = "insns"
     ELSE /\ phase' = "derailed"
          /\ UNCHANGED <<n, cur, code, size, labels, offs>>
  /\ UNCHANGED <<prog, changed, cap>>

X86Decoded == X86Pending /\ ~Insn.aborts

\* The opcode of an SSE group: UNIMPLEMENTED.
X86Sse ==
  /\ X86Pending /\ Insn.aborts
  /\ Abort

IsJcc8 == Insn.op \in 112..127

\* jcc rel8: on x64 over a branch to an absolute jump, on IA32 with a long offset.
X86Jcc8 ==
  /\ X86Decoded /\ IsJcc8
  /\ LET dst == OrigIp + Insn.imm
     IN IF X64
        THEN X86Emitted({B(size, 2, Ins.cond, 2, FALSE), B(size + 2, 2, "al", 14, FALSE)}
                        \cup JmpAbsolute(size + 4, dst), size + 18)
        ELSE X86Emitted({B(size, 6, Ins.cond, dst - ReloIp(6), FALSE)}, size + 6)

IsRip == ~IsJcc8 /\ Insn.ip

\* An operand relative to rip, on IA32 any operand that is a plain address: the copy
\* jumps to near memory, where the instruction stands with a new displacement. On
\* IA32 the encoding of that jump, relative to rip, is a jump through address 0.
X86Rip ==
  /\ X86Decoded /\ IsRip
  /\ LET dst  == OrigIp + Insn.disp
         near == NearPos + 64 * n
         rip  == [Copy(near, Ins) EXCEPT !.off = dst - (Relocated + near + Insn.length)]
     IN IF X64
        THEN X86Emitted(JmpAbsolute(size, Relocated + near) \cup {rip}
                        \cup JmpAbsolute(near + Insn.length, ReloIp(14)), size + 14)
        ELSE X86Emitted({Item(size, 14, "undef")}, size + 14)

\* Without near memory the sequence is written to address 0.
X86RipNoMemory ==
  /\ X86Decoded /\ IsRip
  /\ Abort

IsJmp8 == ~IsJcc8 /\ ~Insn.ip /\ Insn.op = 235

X86Jmp8 ==
  /\ X86Decoded /\ IsJmp8
  /\ LET dst == OrigIp + Insn.imm
     IN IF X64 THEN X86Emitted(JmpAbsolute(size, dst), size + 14)
        ELSE X86Emitted({B(size, 5, "al", dst - ReloIp(5), FALSE)}, size + 5)

IsCallJmp32 == ~IsJcc8 /\ ~Insn.ip /\ Insn.op \in {232, 233}

\* call or jmp rel32: on x64 through the target behind it, on IA32 with a new offset
\* behind the bytes before the immediate.
X86CallJmp32 ==
  /\ X86Decoded /\ IsCallJmp32
  /\ LET dst == OrigIp + Insn.imm
         l   == Insn.immoff + 4
     IN CASE X64 /\ Insn.op = 232 ->
               X86Emitted({[Ldr(size, 6, "pc", 2) EXCEPT !.link = TRUE],
                           B(size + 6, 2, "al", 8, FALSE), Data(size + 8, 8, dst)}, size + 16)
          [] X64 /\ Insn.op = 233 -> X86Emitted(JmpAbsolute(size, dst), size + 14)
          [] OTHER -> X86Emitted({B(size, l, "al", dst - ReloIp(l), Insn.op = 232)}, size + l)

\* A prefix before it fails the assertion, in a build with assertions.
X86CallAssert ==
  /\ X86Decoded /\ IsCallJmp32 /\ Insn.immoff # 1
  /\ Abort

\* LOOP, LOOPcc and JCXZ: UNIMPLEMENTED.
X86Loop ==
  /\ X86Decoded /\ ~Insn.ip /\ Insn.op \in 224..227
  /\ Abort

X86Copy ==
  /\ X86Decoded /\ ~Insn.ip /\ Insn.op \notin 112..127 \cup {235, 232, 233} \cup 224..227
  /\ X86Emitted({Copy(size, Ins)}, size + Insn.length)

X86Insn ==
  \/ X86Sse \/ X86Jcc8 \/ X86Rip \/ X86RipNoMemory \/ X86Jmp8 \/ X86CallJmp32
  \/ X86CallAssert \/ X86Loop \/ X86Copy

\* The jump to the rest of the function, through the address behind it on x64. The
\* block is too small: GenRelocateCodeFixed fails. origin has the new length by then.
X86BranchBack ==
  /\ phase = "branch" /\ prog.arch \in {"x64", "x86"}
  /\ LET end == IF X64 THEN size + 14 ELSE size + 5
     IN /\ code' = code \cup (IF X64 THEN JmpAbsolute(size, Source + cur)
                              ELSE {B(size, 5, "al", Source + cur - ReloIp(5), FALSE)})
        /\ size' = end
        /\ phase' = IF end > cap THEN "retry" ELSE "done"
  /\ prog' = [prog EXCEPT !.want = cur]
  /\ UNCHANGED <<n, cur, labels, offs, changed, cap>>

\* Mutant: the next block is smaller.
X86TryAgain_Shrinks ==
  /\ phase = "retry"
  /\ n' = 1 /\ cur' = 0 /\ code' = {} /\ size' = 0 /\ labels' = <<>> /\ offs' = <<>>
  /\ cap' = cap - 16
  /\ phase' = "insns"
  /\ UNCHANGED <<prog, changed>>

\* Mutant: the next block is as large as the last.
X86TryAgain_SameSize ==
  /\ phase = "retry"
  /\ n' = 1 /\ cur' = 0 /\ code' = {} /\ size' = 0 /\ labels' = <<>> /\ offs' = <<>>
  /\ phase' = "insns"
  /\ UNCHANGED <<prog, changed, cap>>

\* x86_try_again: a block that is 16 bytes larger, and everything once more.
X86TryAgain ==
  /\ phase = "retry"
  /\ n' = 1 /\ cur' = 0 /\ code' = {} /\ size' = 0 /\ labels' = <<>> /\ offs' = <<>>
  /\ cap' = cap + 16
  /\ phase' = "insns"
  /\ UNCHANGED <<prog, changed>>

\* No block: GenRelocateCode returns and *relocated keeps its null address.
X86NoBlock ==
  /\ phase \in {"insns", "retry"} /\ prog.arch \in {"x64", "x86"}
  /\ phase = "insns" => n = 1 /\ cap = 32
  /\ phase' = "failed"
  /\ UNCHANGED <<prog, n, cur, code, size, labels, offs, changed, cap>>

X86Next == X86Insn \/ X86BranchBack \/ X86TryAgain \/ X86NoBlock
=============================================================================
