---------------------------- MODULE RelocateARM ----------------------------
(***************************************************************************)
(* InstructionRelocation/arm: the relocation of A32, Thumb and Thumb-2     *)
(* code.  One action per instruction the code treats apart; what it does   *)
(* not recognise is copied.  ARM items are 4 bytes long; a Thumb item is 2 *)
(* or 4 bytes long.                                                        *)
(***************************************************************************)
EXTENDS Relocate

\* relo_cur_src_vmaddr: the pc the instruction under the cursor reads.
CurPc == IF prog.arch = "arm" THEN At + 8 ELSE At + 4

NewLabel == Len(labels) + 1

------------------------------------------------------------------------------
(* A32.                                                                     *)

ARMPending == Pending /\ prog.arch = "arm"

ARMEmitted(items, end, ls) ==
  /\ Emitted(items, end, ls)
  /\ UNCHANGED <<prog, changed, cap, phase>>

\* LDR and LDRB (literal): the address becomes a label, loaded and then used. The
\* condition and the width of the instruction are not looked at.
ARMLdrLiteral ==
  /\ ARMPending /\ Ins.op = "ldr"
  /\ LET r == IF Ins.rt = "pc" THEN "ip" ELSE Ins.rt
     IN ARMEmitted({LdrLabel(size, 4, r, NewLabel), Ldm(size + 4, 4, Ins.rt, r, 4)},
                   size + 8, <<CurPc + Ins.off>>)

\* ADR: the address is loaded from a label.
ARMAdr ==
  /\ ARMPending /\ Ins.op = "adr"
  /\ ARMEmitted({LdrLabel(size, 4, Ins.rt, NewLabel)}, size + 4, <<CurPc + Ins.off>>)

\* The sequence for B, BL and BLX: branch over a branch to a load of the target.
ARMBranchItems(c, lk, dst) ==
  {B(size, 4, c, 0, lk), B(size + 4, 4, "al", 4, FALSE), Ldr(size + 8, 4, "pc", -4),
   Data(size + 12, 4, dst), Nop(size + 16, 4)}

\* Mutant: the nop behind the target is not counted.
ARMBranch_NoNop ==
  /\ ARMPending /\ Ins.op = "b"
  /\ ARMEmitted(ARMBranchItems(Ins.cond, Ins.link, CurPc + Ins.off), size + 16, <<>>)

ARMBranch ==
  /\ ARMPending /\ Ins.op = "b"
  /\ ARMEmitted(ARMBranchItems(Ins.cond, Ins.link, CurPc + Ins.off), size + 20, <<>>)

\* BLX (immediate): the target is rounded to a word, the H bit is dropped.
ARMBlx ==
  /\ ARMPending /\ Ins.op = "blx"
  /\ ARMEmitted(ARMBranchItems("al", TRUE, CurPc + AlignFloor(Ins.off, 4) + 1),
                size + 20, <<>>)

ARMCopy ==
  /\ ARMPending /\ Ins.op \notin {"ldr", "adr", "b", "blx"}
  /\ ARMEmitted({Copy(size, Ins)}, size + 4, <<>>)

ARMInsn == ARMLdrLiteral \/ ARMAdr \/ ARMBranch \/ ARMBlx \/ ARMCopy

------------------------------------------------------------------------------
(* Thumb.  Every instruction is preceded by a nop and by a second one if    *)
(* that is needed to start its code at a multiple of 4 (AlignThumbNop).     *)

ThumbPending == Pending /\ prog.arch = "thumb"

\* Where AlignThumbNop leaves the end of a buffer that ends at offset s.
AlignThumb(s) == s + (s % 4)

\* Mutant: the buffer is not aligned behind the nop.
Start_Unaligned == size + 2

Start == AlignThumb(size + 2)

Padding == {Nop(size, 2)} \cup {Nop(p, 2) : p \in {size + 2} \cap {Start - 2}}

check_execute_state_changed(a, ch) == a \in changed \cup ch

\* The copy is emitted behind the padding. When ARM code was announced at the
\* address the cursor moves to, the loop is interrupted.
ThumbEmitted(items, end, ls, ch) ==
  /\ Emitted(Padding \cup items, end, ls)
  /\ changed' = changed \cup ch
  /\ phase' = IF check_execute_state_changed(At + Ins.len, ch) /\ cur + Ins.len < prog.want
              THEN "interrupted" ELSE "insns"
  /\ UNCHANGED <<prog, cap>>

\* add, cmp and mov (two high registers) of the pc: the pc is loaded to a volatile
\* register that takes its place.
Thumb1HighRegister ==
  /\ ThumbPending /\ Ins.len = 2 /\ Ins.op = "alu" /\ Ins.rn = "pc"
  /\ ThumbEmitted({LdrLabel(Start, 4, "ip", NewLabel),
                   [Copy(Start + 4, Ins) EXCEPT !.rn = "ip"]},
                  Start + 6, <<CurPc>>, {})

\* bx pc
Thumb1BxPc ==
  /\ ThumbPending /\ Ins.len = 2 /\ Ins.op = "bx" /\ Ins.rn = "pc" /\ ~Ins.link
  /\ ThumbEmitted({LdrLabel(Start, 4, "pc", NewLabel)}, Start + 4, <<CurPc>>, {CurPc})

\* blx pc
Thumb1BlxPc ==
  /\ ThumbPending /\ Ins.len = 2 /\ Ins.op = "bx" /\ Ins.rn = "pc" /\ Ins.link
  /\ ThumbEmitted({B(Start, 4, "al", 4, TRUE), B(Start + 4, 4, "al", 4, FALSE),
                   LdrLabel(Start + 8, 4, "pc", NewLabel)},
                  Start + 12, <<CurPc>>, {CurPc})

\* ldr literal
Thumb1LdrLiteral ==
  /\ ThumbPending /\ Ins.len = 2 /\ Ins.op = "ldr"
  /\ ThumbEmitted({LdrLabel(Start, 4, Ins.rt, NewLabel),
                   Ldm(Start + 4, 4, Ins.rt, Ins.rt, 4)},
                  Start + 8, <<AlignFloor(CurPc + Ins.off, 4)>>, {})

\* adr: the pc is not rounded to a word.
Thumb1Adr ==
  /\ ThumbPending /\ Ins.len = 2 /\ Ins.op = "adr"
  /\ ThumbEmitted({LdrLabel(Start, 4, Ins.rt, NewLabel)}, Start + 4,
                  <<CurPc + Ins.off>>, {})

\* The instruction a conditional branch is rewritten to: condition number c goes to
\* bits 8 to 11 of 0xe000, the encoding of an unconditional branch, where it is a
\* part of the offset; with bit 11 set it is the first half of a 32 bit instruction.
CondBranchItem(p, c) ==
  IF c >= 8 THEN Item(p, 2, "undef")
  ELSE B(p, 2, "al", 4 + 512 * (IF c >= 4 THEN c - 8 ELSE c), FALSE)

\* b.cond; conditions 14 and 15 (udf, svc) are UNREACHABLE.
Thumb1BCond ==
  /\ ThumbPending /\ Ins.len = 2 /\ Ins.op = "b" /\ Ins.cond = "cc" /\ Ins.rn = "none"
  /\ ThumbEmitted({CondBranchItem(Start, Ins.val), Nop(Start + 2, 2),
                   B(Start + 4, 4, "al", 4, FALSE), LdrLabel(Start + 8, 4, "pc", NewLabel)},
                  Start + 12, <<CurPc + Ins.off + 1>>, {})

Thumb1Svc ==
  /\ ThumbPending /\ Ins.len = 2 /\ Ins.op = "svc"
  /\ Abort

\* cbz, cbnz: a branch that reads a register keeps its test, with offset 4.
Thumb1Cbz ==
  /\ ThumbPending /\ Ins.len = 2 /\ Ins.op = "b" /\ Ins.cond # "al" /\ Ins.rn = "r0"
  /\ ThumbEmitted({[Copy(Start, Ins) EXCEPT !.off = 4], Nop(Start + 2, 2),
                   B(Start + 4, 4, "al", 4, FALSE), LdrLabel(Start + 8, 4, "pc", NewLabel)},
                  Start + 12, <<CurPc + Ins.off + 1>>, {})

\* b
Thumb1B ==
  /\ ThumbPending /\ Ins.len = 2 /\ Ins.op = "b" /\ Ins.cond = "al"
  /\ ThumbEmitted({LdrLabel(Start, 4, "pc", NewLabel)}, Start + 4,
                  <<CurPc + Ins.off + 1>>, {})

Thumb1Copy ==
  /\ ThumbPending /\ Ins.len = 2
  /\ Ins.op \in {"other", "nop"} \/ (Ins.op \in {"alu", "bx"} /\ Ins.rn # "pc")
  /\ ThumbEmitted({Copy(Start, Ins)}, Start + 2, <<>>, {})

\* b.cond.w (T3): the same rewritten branch, the target behind the code.
Thumb2BCond ==
  /\ ThumbPending /\ Ins.len = 4 /\ Ins.op = "b" /\ Ins.cond = "cc"
  /\ ThumbEmitted({CondBranchItem(Start, Ins.val), Nop(Start + 2, 2),
                   B(Start + 4, 4, "al", 8, FALSE), Ldr(Start + 8, 4, "pc", 0),
                   Data(Start + 12, 4, CurPc + Ins.off + 1)},
                  Start + 16, <<>>, {})

\* b.w (T4)
Thumb2B ==
  /\ ThumbPending /\ Ins.len = 4 /\ Ins.op = "b" /\ Ins.cond = "al" /\ ~Ins.link
  /\ ThumbEmitted({Ldr(Start, 4, "pc", 0), Data(Start + 4, 4, CurPc + Ins.off + 1)},
                  Start + 8, <<>>, {})

\* The sequence for bl and blx: a call of a load of the target.
Thumb2CallItems(dst) ==
  {B(Start, 4, "al", 4, TRUE), B(Start + 4, 4, "al", 8, FALSE),
   Ldr(Start + 8, 4, "pc", 0), Data(Start + 12, 4, dst)}

\* bl
Thumb2Bl ==
  /\ ThumbPending /\ Ins.len = 4 /\ Ins.op = "b" /\ Ins.cond = "al" /\ Ins.link
  /\ ThumbEmitted(Thumb2CallItems(CurPc + Ins.off + 1), Start + 16, <<>>, {})

\* The offset of blx has 25 bits, of which the sign is extended from the 24th.
BlxOffset(d) ==
  CASE d >= 2^23   -> d - 2^24
    [] d < -(2^23) -> d + 2^25
    [] OTHER       -> d

\* blx: to ARM code, from the pc rounded to a word.
Thumb2Blx ==
  /\ ThumbPending /\ Ins.len = 4 /\ Ins.op = "blx"
  /\ ThumbEmitted(Thumb2CallItems(AlignFloor(CurPc, 4) + BlxOffset(Ins.off)), Start + 16, <<>>, {})

\* adr.w: the pc is not rounded, and the branch after the load leads to the data.
Thumb2Adr ==
  /\ ThumbPending /\ Ins.len = 4 /\ Ins.op = "adr"
  /\ ThumbEmitted({Ldr(Start, 4, Ins.rt, 4), B(Start + 4, 4, "al", 0, FALSE),
                   Data(Start + 8, 4, CurPc + Ins.off)},
                  Start + 12, <<>>, {})

\* ldr.w literal: the pc is not rounded, and rt is loaded twice even if it is the pc.
Thumb2LdrLiteral ==
  /\ ThumbPending /\ Ins.len = 4 /\ Ins.op = "ldr"
  /\ ThumbEmitted({Ldr(Start, 4, Ins.rt, 8), Ldm(Start + 4, 4, Ins.rt, Ins.rt, 4),
                   B(Start + 8, 4, "al", 4, FALSE), Data(Start + 12, 4, CurPc + Ins.off)},
                  Start + 16, <<>>, {})

Thumb2Copy ==
  /\ ThumbPending /\ Ins.len = 4 /\ Ins.op \in {"other", "nop"}
  /\ ThumbEmitted({Copy(Start, Ins)}, Start + 4, <<>>, {})

ThumbInsn ==
  \/ Thumb1HighRegister \/ Thumb1BxPc \/ Thumb1BlxPc \/ Thumb1LdrLiteral
  \/ Thumb1Adr \/ Thumb1BCond \/ Thumb1Svc \/ Thumb1Cbz \/ Thumb1B \/ Thumb1Copy
  \/ Thumb2BCond \/ Thumb2B \/ Thumb2Bl \/ Thumb2Blx \/ Thumb2Adr
  \/ Thumb2LdrLiteral \/ Thumb2Copy

\* The loop was interrupted where ARM code starts: the buffer is aligned and the loop
\* is entered again. curr_state is still Thumb, so that it is the Thumb loop.
RelocateRemain ==
  /\ phase = "interrupted"
  /\ code' = code \cup (IF size % 4 # 0 THEN {Nop(size, 2)} ELSE {})
  /\ size' = IF size % 4 # 0 THEN size + 2 ELSE size
  /\ phase' = "insns"
  /\ UNCHANGED <<prog, n, cur, labels, offs, changed, cap>>

------------------------------------------------------------------------------
(* The end of GenRelocateCode.                                              *)

\* The branch to the rest of the function, in the state it was entered in.
ARMBranchBack ==
  /\ phase = "branch" /\ prog.arch = "arm"
  /\ code' = code \cup {Ldr(size, 4, "pc", -4), Data(size + 4, 4, Source + cur)}
  /\ size' = size + 8
  /\ phase' = "fixup"
  /\ UNCHANGED <<prog, n, cur, labels, offs, changed, cap>>

\* Mutant: the address has no Thumb bit.
ThumbBranchBack_ArmAddress ==
  /\ phase = "branch" /\ prog.arch = "thumb"
  /\ LET s == AlignThumb(size)
     IN /\ code' = code \cup {Ldr(s, 4, "pc", 0), Data(s + 4, 4, Source + cur)}
                        \cup {Nop(p, 2) : p \in {size} \ {s}}
        /\ size' = s + 8
  /\ phase' = "fixup"
  /\ UNCHANGED <<prog, n, cur, labels, offs, changed, cap>>

ThumbBranchBack ==
  /\ phase = "branch" /\ prog.arch = "thumb"
  /\ LET s == AlignThumb(size)
     IN /\ code' = code \cup {Ldr(s, 4, "pc", 0), Data(s + 4, 4, Source + cur + 1)}
                        \cup {Nop(p, 2) : p \in {size} \ {s}}
        /\ size' = s + 8
  /\ phase' = "fixup"
  /\ UNCHANGED <<prog, n, cur, labels, offs, changed, cap>>

\* RelocLabelFixup: a label whose data is a key of relocated_offset_map gets the
\* relocated offset. The keys are offsets into the function, the data addresses.
RelocLabelFixup ==
  /\ phase = "fixup"
  /\ LET hit(v) == {i \in DOMAIN offs : offs[i][1] = v}
     IN labels' = [k \in DOMAIN labels |->
                     IF hit(labels[k]) = {} THEN labels[k]
                     ELSE offs[CHOOSE i \in hit(labels[k]) : TRUE][2]]
  /\ phase' = "bind"
  /\ UNCHANGED <<prog, n, cur, code, size, offs, changed, cap>>

ARMRelocBind ==
  /\ phase = "bind" /\ prog.arch = "arm"
  /\ Bound(4, 8)

ThumbRelocBind ==
  /\ phase = "bind" /\ prog.arch = "thumb"
  /\ Bound(4, 4)

\* A block is allocated and the code is copied there; without one GenRelocateCode
\* returns and *relocated keeps its null address.
ARMFinalize ==
  /\ phase = "finalize" /\ prog.arch \in {"arm", "thumb"}
  /\ Finalized("done") \/ Finalized("failed")

ARMNext ==
  \/ ARMInsn \/ ThumbInsn \/ RelocateRemain \/ ARMBranchBack \/ ThumbBranchBack
  \/ RelocLabelFixup \/ ARMRelocBind \/ ThumbRelocBind \/ ARMFinalize
=============================================================================
