--------------------------- MODULE RelocateARM64 ---------------------------
(***************************************************************************)
(* InstructionRelocation/arm64: the relocation of A64 code.  All items are *)
(* 4 bytes long but the four moves of TurboAssembler::Mov, which are one   *)
(* item of 16 bytes, and the 8 bytes of a label.  The pc an instruction    *)
(* reads is its own address.                                               *)
(***************************************************************************)
EXTENDS Relocate

A64Pending == Pending /\ prog.arch = "a64"

A64Emitted(items, end, ls) ==
  /\ Emitted(items, end, ls)
  /\ UNCHANGED <<prog, changed, cap, phase>>

A64NewLabel == Len(labels) + 1

\* Ldr(TMP_REG_0, label) and br or blr: a jump to any address.
A64Jump(p, lk) ==
  {LdrLabel(p, 4, "ip", A64NewLabel),
   [Item(p + 4, 4, "bx") EXCEPT !.rn = "ip", !.link = lk]}

\* b, bl
A64BBl ==
  /\ A64Pending /\ Ins.op = "b" /\ Ins.cond = "al" /\ Ins.val = 0
  /\ A64Emitted(A64Jump(size, Ins.link), size + 8, <<At + Ins.off>>)

\* ldr (literal): the address is moved to a register and loaded from, always 8 bytes
\* into a general register. ldrsw and prfm are not implemented.
A64LdrLiteral ==
  /\ A64Pending /\ Ins.op = "ldr" /\ Ins.w # 0
  /\ A64Emitted({Mov(size, 16, "ip", At + Ins.off), Ldm(size + 16, 4, "r0", "ip", 8)},
                size + 20, <<>>)

A64LdrOther ==
  /\ A64Pending /\ Ins.op = "ldr" /\ Ins.w = 0
  /\ Abort

A64Adr ==
  /\ A64Pending /\ Ins.op = "adr"
  /\ A64Emitted({Mov(size, 16, Ins.rt, At + Ins.off)}, size + 16, <<>>)

A64Adrp ==
  /\ A64Pending /\ Ins.op = "adrp"
  /\ A64Emitted({Mov(size, 16, Ins.rt, AlignFloor(At + Ins.off, 4096))}, size + 16, <<>>)

\* What a condition becomes. The one of b.al becomes nv, which is always taken as well.
Inverted(c) == CASE c = "cc" -> "nc" [] c = "nc" -> "cc" [] OTHER -> c

\* Mutant: the inverted branch skips the load only.
A64CondItems_Short ==
  {[Copy(size, Ins) EXCEPT !.cond = Inverted(@), !.off = 8]}
  \cup A64Jump(size + 4, FALSE)

\* The branch with its condition inverted, over the jump that follows it.
A64CondItems ==
  {[Copy(size, Ins) EXCEPT !.cond = Inverted(@), !.off = 12]}
  \cup A64Jump(size + 4, FALSE)

\* b.cond: the low bit of the condition is flipped. val is 1 in b.al and b.nv.
A64BCond ==
  /\ A64Pending /\ Ins.op = "b" /\ Ins.rn = "none" /\ (Ins.cond # "al" \/ Ins.val # 0)
  /\ A64Emitted(A64CondItems, size + 12, <<At + Ins.off>>)

\* cbz, cbnz: the op bit is flipped.
A64CompareB ==
  /\ A64Pending /\ Ins.op = "b" /\ Ins.cond # "al" /\ Ins.rn = "r0" /\ Ins.val = 0
  /\ A64Emitted(A64CondItems, size + 12, <<At + Ins.off>>)

\* tbz, tbnz: val is the number of the bit, plus 1; the op bit is flipped.
A64TestB ==
  /\ A64Pending /\ Ins.op = "b" /\ Ins.cond # "al" /\ Ins.rn = "r0" /\ Ins.val # 0
  /\ A64Emitted(A64CondItems, size + 12, <<At + Ins.off>>)

A64Copy ==
  /\ A64Pending /\ Ins.op \notin {"b", "ldr", "adr", "adrp"}
  /\ A64Emitted({Copy(size, Ins)}, size + 4, <<>>)

A64Insn ==
  \/ A64BBl \/ A64LdrLiteral \/ A64LdrOther \/ A64Adr \/ A64Adrp \/ A64BCond
  \/ A64CompareB \/ A64TestB \/ A64Copy

\* LiteralLdrBranch to the rest of the function.
A64BranchBack ==
  /\ phase = "branch" /\ prog.arch = "a64"
  /\ code' = code \cup A64Jump(size, FALSE)
  /\ size' = size + 8
  /\ labels' = Append(labels, Source + cur)
  /\ phase' = "bind"
  /\ UNCHANGED <<prog, n, cur, offs, changed, cap>>

A64RelocBind ==
  /\ phase = "bind" /\ prog.arch = "a64"
  /\ Bound(8, 0)

\* FinalizeFromTurboAssembler; its null result is dereferenced.
A64Finalize ==
  /\ phase = "finalize" /\ prog.arch = "a64"
  /\ Finalized("done") \/ Finalized("aborted")

A64Next == A64Insn \/ A64BranchBack \/ A64RelocBind \/ A64Finalize
=============================================================================
