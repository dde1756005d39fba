-------------------------- MODULE RelocationProofs --------------------------
(***************************************************************************)
(* Proofs about Relocation for every set of programs, every address of the *)
(* function, of the block and of the near memory.                          *)
(***************************************************************************)
EXTENDS RelocationEffect, SequenceTheorems, FiniteSetTheorems, WellFoundedInduction, TLAPS

\* What is relocated is one of the programs; only the number of bytes wanted changes,
\* when origin is reset.
KnownProgram ==
  \E p \in Programs : prog.arch = p.arch /\ prog.insns = p.insns /\ prog.bytes = p.bytes

Shape ==
  /\ prog \in ProgramSet /\ KnownProgram
  /\ n \in Nat \ {0} /\ cur \in Nat /\ size \in Nat /\ cap \in Nat
  /\ labels \in Seq(Int)
  /\ offs \in Seq(Nat \X Nat)
  /\ changed \subseteq Nat
  /\ phase \in Phases

\* Which architectures come to a phase, and that x86 code has no labels.
Stage ==
  /\ phase = "interrupted" => prog.arch = "thumb"
  /\ phase = "fixup" => prog.arch \in {"arm", "thumb"}
  /\ phase \in {"bind", "finalize"} => prog.arch \in {"arm", "thumb", "a64"}
  /\ phase = "retry" => prog.arch \in {"x64", "x86"}
  /\ prog.arch \in {"x64", "x86"} => labels = <<>>

ItemsApart(c) == \A a, b \in c : a # b => a.pos + a.len <= b.pos \/ b.pos + b.len <= a.pos

\* The buffer ends at s, k labels are appended, and near memory, which x64 code has, is
\* used by the instructions before the m-th: 64 bytes each.
Layout(x64, c, s, m, k) ==
  /\ c \subseteq ItemSet
  /\ \A it \in c : /\ it.lab <= k /\ it.len > 0
                   /\ \/ it.pos + it.len <= s
                      \/ x64 /\ NearPos <= it.pos /\ it.pos + it.len <= NearPos + 64 * m
  /\ ItemsApart(c)

Aligned(it) == it.op = "data" \/ (it.op = "ldr" /\ it.len = 4) => it.pos % 4 = 0

\* The buffer of Thumb code ends on a halfword, and on a word once the branch back is
\* there: the labels follow.
ThumbAligned ==
  prog.arch = "thumb" =>
    /\ size % 2 = 0
    /\ phase \in {"fixup", "bind"} => size % 4 = 0
    /\ \A it \in code : Aligned(it)

\* The buffer of x64 code ends before the near memory.
NearRoom ==
  prog.arch = "x64" /\ phase \in {"insns", "branch"} =>
    size <= 18 * (n - 1) /\ n <= Len(prog.insns) + 1

Linked ==
  phase \in {"finalize", "done"} =>
    \A it \in code : it.lab # 0 =>
      \E d \in code : d.op = "data" /\ d.pos = it.pos + Bias + it.off /\ d.val = labels[it.lab]

IndInv ==
  /\ Shape /\ Stage /\ ThumbAligned /\ NearRoom /\ Linked
  /\ Layout(X64, code, size, n, Len(labels))

-----------------------------------------------------------------------------
(***************************************************************************)
(* Items.                                                                  *)
(***************************************************************************)
\* What the layout of the buffer is about: where an item stands, its length and label.
Piece(it, p, l, o, k) ==
  it \in ItemSet /\ it.pos = p /\ it.len = l /\ it.op = o /\ it.lab = k

LEMMA ItemPiece ==
  ASSUME NEW p \in Nat, NEW l \in Nat, NEW o \in Ops
  PROVE  Piece(Item(p, l, o), p, l, o, 0)
  BY DEF Piece, Item, ItemSet, Conds, Regs

\* The items the assemblers emit.
LEMMA BPiece ==
  ASSUME NEW p \in Nat, NEW l \in Nat, NEW c \in Conds, NEW d \in Int, NEW lk \in BOOLEAN
  PROVE  Piece(B(p, l, c, d, lk), p, l, "b", 0)
<1> DEFINE it == Item(p, l, "b")
<1>1. it \in ItemSet /\ it.pos = p /\ it.len = l /\ it.op = "b" /\ it.lab = 0
  BY ItemPiece DEF Piece, Ops
<1> HIDE DEF it
<1>2. Piece([it EXCEPT !.cond = c, !.off = d, !.link = lk], it.pos, it.len, it.op, it.lab)
  BY <1>1 DEF Piece, ItemSet
<1> QED
  BY <1>1, <1>2 DEF B, it

LEMMA LdrPiece ==
  ASSUME NEW p \in Nat, NEW l \in Nat, NEW r \in Regs, NEW d \in Int
  PROVE  Piece(Ldr(p, l, r, d), p, l, "ldr", 0)
<1> DEFINE it == Item(p, l, "ldr")
<1>1. it \in ItemSet /\ it.pos = p /\ it.len = l /\ it.op = "ldr" /\ it.lab = 0
  BY ItemPiece DEF Piece, Ops
<1> HIDE DEF it
<1>2. Piece([it EXCEPT !.rt = r, !.off = d], it.pos, it.len, it.op, it.lab)
  BY <1>1 DEF Piece, ItemSet
<1> QED
  BY <1>1, <1>2 DEF Ldr, it

LEMMA LabelPiece ==
  ASSUME NEW p \in Nat, NEW l \in Nat, NEW r \in Regs, NEW k \in Nat
  PROVE  Piece(LdrLabel(p, l, r, k), p, l, "ldr", k)
<1> DEFINE it == Item(p, l, "ldr")
<1>1. it \in ItemSet /\ it.pos = p /\ it.len = l /\ it.op = "ldr" /\ it.lab = 0
  BY ItemPiece DEF Piece, Ops
<1> HIDE DEF it
<1>2. Piece([it EXCEPT !.rt = r, !.lab = k], it.pos, it.len, it.op, k)
  BY <1>1 DEF Piece, ItemSet
<1> QED
  BY <1>1, <1>2 DEF LdrLabel, it

LEMMA LdmPiece ==
  ASSUME NEW p \in Nat, NEW l \in Nat, NEW r \in Regs, NEW r2 \in Regs, NEW w \in Nat
  PROVE  Piece(Ldm(p, l, r, r2, w), p, l, "ldm", 0)
<1> DEFINE it == Item(p, l, "ldm")
<1>1. it \in ItemSet /\ it.pos = p /\ it.len = l /\ it.op = "ldm" /\ it.lab = 0
  BY ItemPiece DEF Piece, Ops
<1> HIDE DEF it
<1>2. Piece([it EXCEPT !.rt = r, !.rn = r2, !.w = w], it.pos, it.len, it.op, it.lab)
  BY <1>1 DEF Piece, ItemSet
<1> QED
  BY <1>1, <1>2 DEF Ldm, it

LEMMA MovPiece ==
  ASSUME NEW p \in Nat, NEW l \in Nat, NEW r \in Regs, NEW v \in Int
  PROVE  Piece(Mov(p, l, r, v), p, l, "mov", 0)
<1> DEFINE it == Item(p, l, "mov")
<1>1. it \in ItemSet /\ it.pos = p /\ it.len = l /\ it.op = "mov" /\ it.lab = 0
  BY ItemPiece DEF Piece, Ops
<1> HIDE DEF it
<1>2. Piece([it EXCEPT !.rt = r, !.val = v], it.pos, it.len, it.op, it.lab)
  BY <1>1 DEF Piece, ItemSet
<1> QED
  BY <1>1, <1>2 DEF Mov, it

LEMMA DataPiece ==
  ASSUME NEW p \in Nat, NEW l \in Nat, NEW v \in Int
  PROVE  Piece(Data(p, l, v), p, l, "data", 0) /\ Data(p, l, v).val = v
<1> DEFINE it == Item(p, l, "data")
<1>1. it \in ItemSet /\ it.pos = p /\ it.len = l /\ it.op = "data" /\ it.lab = 0
  BY ItemPiece DEF Piece, Ops
<1> HIDE DEF it
<1>2. Piece([it EXCEPT !.val = v], it.pos, it.len, it.op, it.lab) /\ [it EXCEPT !.val = v].val = v
  BY <1>1 DEF Piece, ItemSet
<1> QED
  BY <1>1, <1>2 DEF Data, it

LEMMA NopPiece ==
  ASSUME NEW p \in Nat, NEW l \in Nat
  PROVE  Piece(Nop(p, l), p, l, "nop", 0)
  BY ItemPiece DEF Nop, Ops

LEMMA CopyPiece ==
  ASSUME NEW p \in Nat, NEW ins \in ItemSet
  PROVE  Piece(Copy(p, ins), p, ins.len, ins.op, ins.lab)
  BY DEF Piece, Copy, ItemSet

\* A copy with another condition and offset.
LEMMA TurnedPiece ==
  ASSUME NEW it \in ItemSet, NEW c \in Conds, NEW d \in Int
  PROVE  Piece([it EXCEPT !.cond = c, !.off = d], it.pos, it.len, it.op, it.lab)
  BY DEF Piece, ItemSet

\* The items fill the buffer from s to e without touching each other.
Fits(items, s, e, k) ==
  /\ items \subseteq ItemSet
  /\ \A it \in items : s <= it.pos /\ it.pos + it.len <= e /\ it.lab <= k /\ it.len > 0
  /\ ItemsApart(items)

LEMMA FitsOne ==
  ASSUME NEW a, NEW s \in Nat, NEW l \in Nat \ {0}, NEW o, NEW k \in Nat, NEW k2 \in Nat, k <= k2,
         Piece(a, s, l, o, k)
  PROVE  Fits({a}, s, s + l, k2)
  BY DEF Fits, Piece, ItemsApart

\* One sequence behind another.
LEMMA FitsTwo ==
  ASSUME NEW a, NEW b, NEW s \in Nat, NEW m \in Nat, NEW e \in Nat, NEW k \in Nat,
         s <= m, m <= e, Fits(a, s, m, k), Fits(b, m, e, k)
  PROVE  Fits(a \cup b, s, e, k)
<1>1. a \cup b \subseteq ItemSet
  BY DEF Fits
<1>2. ASSUME NEW it \in a \cup b
      PROVE  s <= it.pos /\ it.pos + it.len <= e /\ it.lab <= k /\ it.len > 0
  BY <1>1 DEF Fits, ItemSet
<1>3. ASSUME NEW x \in a \cup b, NEW y \in a \cup b, x # y
      PROVE  x.pos + x.len <= y.pos \/ y.pos + y.len <= x.pos
  BY <1>1, <1>3 DEF Fits, ItemSet, ItemsApart
<1> QED
  BY <1>1, <1>2, <1>3 DEF Fits, ItemsApart

\* A sequence at the end of the buffer keeps the layout.
LEMMA Grow ==
  ASSUME NEW x64 \in BOOLEAN, NEW c, NEW s \in Nat, NEW m \in Nat, NEW k \in Nat,
         NEW items, NEW e \in Nat, NEW m2 \in Nat, NEW k2 \in Nat,
         Layout(x64, c, s, m, k), Fits(items, s, e, k2), s <= e, m <= m2, k <= k2,
         x64 => e <= NearPos
  PROVE  Layout(x64, c \cup items, e, m2, k2)
<1>1. c \cup items \subseteq ItemSet /\ NearPos \in Nat
  BY RelocateAssumption DEF Layout, Fits
<1>2. ASSUME NEW it \in c \cup items
      PROVE  /\ it.lab <= k2 /\ it.len > 0
             /\ \/ it.pos + it.len <= e
                \/ x64 /\ NearPos <= it.pos /\ it.pos + it.len <= NearPos + 64 * m2
  BY <1>1 DEF Layout, Fits, ItemSet
<1>3. ASSUME NEW a \in c \cup items, NEW b \in c \cup items, a # b
      PROVE  a.pos + a.len <= b.pos \/ b.pos + b.len <= a.pos
  BY <1>1, <1>3 DEF Layout, Fits, ItemSet, ItemsApart
<1> QED
  BY <1>1, <1>2, <1>3 DEF Layout, ItemsApart

-----------------------------------------------------------------------------
(***************************************************************************)
(* Steps.                                                                  *)
(***************************************************************************)
\* The instruction under the cursor.
LEMMA InsFacts ==
  ASSUME Shape, Pending
  PROVE  /\ Ins \in ItemSet /\ Ins.len \in LengthsOf(prog.arch) /\ Ins.lab = 0
         /\ Ins.len \in Nat /\ At \in Nat
<1>1. PICK p \in Programs : prog.arch = p.arch /\ prog.insns = p.insns
  BY DEF Shape, KnownProgram
<1>2. p \in ProgramSet
  BY RelocateAssumption
<1>3. n \in DOMAIN p.insns /\ p.insns \in Seq(ItemSet)
  BY <1>1, <1>2 DEF Shape, Pending, ProgramSet
<1>4. Ins \in ItemSet /\ Ins.len \in LengthsOf(prog.arch) /\ Ins.lab = 0
  BY <1>1, <1>3, RelocateAssumption, ElementOfSeq DEF Ins
<1>5. Ins.len \in Nat
  BY <1>4 DEF ItemSet
<1>6. At \in Nat
  BY RelocateAssumption DEF At, Shape
<1> QED
  BY <1>4, <1>5, <1>6

\* One iteration of a loop, given what it emits.
LEMMA EmitStep ==
  ASSUME IndInv, Pending, NEW items, NEW end \in Nat, NEW ls \in Seq(Int),
         Emitted(items, end, ls), prog' = prog, cap' = cap, changed' \subseteq Nat,
         phase' \in {"insns", "interrupted"}, phase' = "interrupted" => prog.arch = "thumb",
         prog.arch \in {"x64", "x86"} => ls = <<>>,
         Layout(X64, code \cup items, end, n + 1, Len(labels) + Len(ls)),
         X64 => end <= size + 18,
         prog.arch = "thumb" => end % 2 = 0 /\ \A it \in items : Aligned(it)
  PROVE  IndInv'
<1>1. Ins.len \in Nat /\ n \in Nat \ {0} /\ cur \in Nat /\ size \in Nat /\ labels \in Seq(Int)
  BY InsFacts DEF IndInv, Shape
<1>2. labels' \in Seq(Int) /\ Len(labels') = Len(labels) + Len(ls)
  BY <1>1, ConcatProperties DEF Emitted
<1>3. offs' \in Seq(Nat \X Nat)
  <2>1. <<cur, size>> \in Nat \X Nat /\ offs \in Seq(Nat \X Nat)
    BY <1>1 DEF IndInv, Shape
  <2> QED
    BY <2>1, AppendProperties DEF Emitted
<1>4. Shape'
  <2>1. (prog \in ProgramSet /\ KnownProgram)'
    BY DEF IndInv, Shape, KnownProgram
  <2>2. n' = n + 1 /\ cur' = cur + Ins.len /\ size' = end
    BY DEF Emitted
  <2>3. n' \in Nat \ {0} /\ cur' \in Nat /\ size' \in Nat
    BY <1>1, <2>2
  <2>4. cap' \in Nat
    BY DEF IndInv, Shape
  <2>5. phase' \in Phases
    BY DEF Phases
  <2> QED
    BY <1>2, <1>3, <2>1, <2>3, <2>4, <2>5 DEF Shape
<1>5. Stage'
  <2>1. prog.arch \in {"x64", "x86"} => labels' = <<>>
    BY <1>1, EmptySeq, ConcatEmptySeq DEF Emitted, IndInv, Stage
  <2> QED
    BY <2>1 DEF Stage
<1>6. ThumbAligned'
  BY DEF ThumbAligned, Emitted, IndInv
<1>7. NearRoom'
  <2>1. prog.arch = "x64" => size <= 18 * (n - 1) /\ n <= Len(prog.insns)
    BY DEF IndInv, NearRoom, Pending
  <2>2. Len(prog.insns) \in Nat
    BY DEF IndInv, Shape, ProgramSet
  <2> QED
    BY <1>1, <2>1, <2>2 DEF NearRoom, Emitted, X64
<1>8. Linked'
  BY DEF Linked
<1>9. Layout(X64, code, size, n, Len(labels))'
  BY <1>2 DEF Emitted, X64, Layout
<1> QED
  BY <1>4, <1>5, <1>6, <1>7, <1>8, <1>9 DEF IndInv

\* The same for a sequence that starts at the end of the buffer.
LEMMA AppendStep ==
  ASSUME IndInv, Pending, prog.arch # "x64", NEW items, NEW end \in Nat, NEW ls \in Seq(Int),
         Emitted(items, end, ls), prog' = prog, cap' = cap, changed' \subseteq Nat,
         phase' \in {"insns", "interrupted"}, phase' = "interrupted" => prog.arch = "thumb",
         prog.arch = "x86" => ls = <<>>,
         size <= end, Fits(items, size, end, Len(labels) + Len(ls)),
         prog.arch = "thumb" => end % 2 = 0 /\ \A it \in items : Aligned(it)
  PROVE  IndInv'
<1>1. /\ size \in Nat /\ n \in Nat /\ n + 1 \in Nat /\ Len(labels) \in Nat /\ Len(ls) \in Nat
      /\ Len(labels) + Len(ls) \in Nat
  BY DEF IndInv, Shape
<1>2. ~X64 /\ Layout(X64, code, size, n, Len(labels))
  BY DEF IndInv, X64
<1>3. n <= n + 1 /\ Len(labels) <= Len(labels) + Len(ls)
  BY <1>1
<1>4. Layout(X64, code \cup items, end, n + 1, Len(labels) + Len(ls))
  BY <1>1, <1>2, <1>3, Grow DEF X64
<1> QED
  BY <1>2, <1>4, EmitStep DEF X64

\* A change of the phase alone.
LEMMA PhaseStep ==
  ASSUME IndInv, phase' \in {"aborted", "branch", "failed", "done", "derailed"},
         phase' = "branch" => phase = "insns",
         phase' = "done" => phase = "finalize",
         UNCHANGED <<prog, n, cur, code, size, labels, offs, changed, cap>>
  PROVE  IndInv'
<1>1. Shape'
  BY DEF IndInv, Shape, KnownProgram, Phases
<1>2. Stage'
  BY DEF IndInv, Stage
<1>3. ThumbAligned'
  BY DEF IndInv, ThumbAligned
<1>4. NearRoom'
  BY DEF IndInv, NearRoom
<1>5. Linked'
  BY DEF IndInv, Linked, Bias
<1>6. Layout(X64, code, size, n, Len(labels))'
  BY DEF IndInv, X64, Layout
<1> QED
  BY <1>1, <1>2, <1>3, <1>4, <1>5, <1>6 DEF IndInv

LEMMA AbortHolds ==
  ASSUME IndInv, Abort
  PROVE  IndInv'
  BY PhaseStep DEF Abort

-----------------------------------------------------------------------------
(***************************************************************************)
(* ARM.                                                                    *)
(***************************************************************************)
LEMMA ARMStep ==
  ASSUME IndInv, ARMPending, NEW items, NEW end \in Nat, NEW ls \in Seq(Int),
         ARMEmitted(items, end, ls), size <= end, Fits(items, size, end, Len(labels) + Len(ls))
  PROVE  IndInv'
<1>1. prog.arch = "arm" /\ Pending /\ phase = "insns"
  BY DEF ARMPending, Pending
<1>2. changed \subseteq Nat
  BY DEF IndInv, Shape
<1> QED
  BY <1>1, <1>2, AppendStep DEF ARMEmitted

\* Every iteration of the ARM loop emits what it counts.
LEMMA ARMInsnHolds ==
  ASSUME IndInv, ARMInsn
  PROVE  IndInv'
<1>1. ARMPending /\ Shape /\ Pending /\ prog.arch = "arm"
  BY DEF ARMInsn, ARMLdrLiteral, ARMAdr, ARMBranch, ARMBlx, ARMCopy, ARMPending, IndInv
<1>2. Ins \in ItemSet /\ Ins.len = 4 /\ Ins.lab = 0 /\ At \in Nat
  BY <1>1, InsFacts DEF LengthsOf
<1>3. /\ Ins.rt \in Regs /\ Ins.off \in Int /\ Ins.cond \in Conds /\ Ins.link \in BOOLEAN
      /\ CurPc \in Nat
  BY <1>1, <1>2 DEF ItemSet, CurPc
<1>4. /\ size \in Nat /\ size + 4 \in Nat /\ size + 8 \in Nat /\ size + 12 \in Nat
      /\ size + 16 \in Nat /\ size + 20 \in Nat /\ NewLabel \in Nat /\ Len(labels) \in Nat
      /\ NewLabel = Len(labels) + 1
  BY <1>1 DEF Shape, NewLabel
<1>5. /\ "al" \in Conds /\ "ip" \in Regs /\ "pc" \in Regs /\ TRUE \in BOOLEAN /\ FALSE \in BOOLEAN
      /\ 0 \in Int /\ 4 \in Int /\ -4 \in Int /\ 4 \in Nat
  BY DEF Conds, Regs
<1>6. ASSUME NEW c \in Conds, NEW lk \in BOOLEAN, NEW dst \in Int
      PROVE  Fits(ARMBranchItems(c, lk, dst), size, size + 20, Len(labels) + Len(<<>>))
  <2> DEFINE a == B(size, 4, c, 0, lk)
             b == B(size + 4, 4, "al", 4, FALSE)
             l == Ldr(size + 8, 4, "pc", -4)
             d == Data(size + 12, 4, dst)
             z == Nop(size + 16, 4)
  <2>1. Piece(a, size, 4, "b", 0) /\ Piece(b, size + 4, 4, "b", 0)
    BY <1>4, <1>5, BPiece
  <2>2. Piece(l, size + 8, 4, "ldr", 0) /\ Piece(d, size + 12, 4, "data", 0)
    BY <1>4, <1>5, LdrPiece, DataPiece
  <2>3. Piece(z, size + 16, 4, "nop", 0)
    BY <1>4, <1>5, NopPiece
  <2>4. ARMBranchItems(c, lk, dst) = {a, b, l, d, z}
    BY DEF ARMBranchItems
  <2> HIDE DEF a, b, l, d, z
  <2> QED
    BY <1>4, <2>1, <2>2, <2>3, <2>4 DEF Fits, Piece, ItemsApart
<1>7. CASE ARMLdrLiteral
  <2> DEFINE r == IF Ins.rt = "pc" THEN "ip" ELSE Ins.rt
             a == LdrLabel(size, 4, r, NewLabel)
             b == Ldm(size + 4, 4, Ins.rt, r, 4)
  <2>1. r \in Regs
    BY <1>3, <1>5
  <2>2. Piece(a, size, 4, "ldr", NewLabel) /\ Piece(b, size + 4, 4, "ldm", 0)
    BY <1>3, <1>4, <1>5, <2>1, LabelPiece, LdmPiece
  <2>3. ARMEmitted({a, b}, size + 8, <<CurPc + Ins.off>>)
    BY <1>7 DEF ARMLdrLiteral
  <2> HIDE DEF a, b
  <2>4. <<CurPc + Ins.off>> \in Seq(Int) /\ Len(<<CurPc + Ins.off>>) = 1
    BY <1>3
  <2>5. Fits({a, b}, size, size + 8, Len(labels) + 1) /\ size <= size + 8
    BY <1>4, <2>2 DEF Fits, Piece, ItemsApart
  <2> QED
    BY <1>1, <1>4, <2>3, <2>4, <2>5, ARMStep
<1>8. CASE ARMAdr
  <2> DEFINE a == LdrLabel(size, 4, Ins.rt, NewLabel)
  <2>1. Piece(a, size, 4, "ldr", NewLabel)
    BY <1>3, <1>4, <1>5, LabelPiece
  <2>2. ARMEmitted({a}, size + 4, <<CurPc + Ins.off>>)
    BY <1>8 DEF ARMAdr
  <2> HIDE DEF a
  <2>3. <<CurPc + Ins.off>> \in Seq(Int) /\ Len(<<CurPc + Ins.off>>) = 1
    BY <1>3
  <2>4. Fits({a}, size, size + 4, Len(labels) + 1) /\ size <= size + 4
    BY <1>4, <2>1 DEF Fits, Piece, ItemsApart
  <2> QED
    BY <1>1, <1>4, <2>2, <2>3, <2>4, ARMStep
<1>9. CASE ARMBranch
  <2>1. CurPc + Ins.off \in Int
    BY <1>3
  <2>2. ARMEmitted(ARMBranchItems(Ins.cond, Ins.link, CurPc + Ins.off), size + 20, <<>>)
    BY <1>9 DEF ARMBranch
  <2>3. <<>> \in Seq(Int) /\ size <= size + 20
    BY <1>4
  <2> QED
    BY <1>1, <1>3, <1>4, <1>6, <2>1, <2>2, <2>3, ARMStep
<1>10. CASE ARMBlx
  <2>1. CurPc + AlignFloor(Ins.off, 4) + 1 \in Int
    BY <1>3 DEF AlignFloor
  <2>2. ARMEmitted(ARMBranchItems("al", TRUE, CurPc + AlignFloor(Ins.off, 4) + 1), size + 20, <<>>)
    BY <1>10 DEF ARMBlx
  <2>3. <<>> \in Seq(Int) /\ size <= size + 20
    BY <1>4
  <2> QED
    BY <1>1, <1>4, <1>5, <1>6, <2>1, <2>2, <2>3, ARMStep
<1>11. CASE ARMCopy
  <2> DEFINE a == Copy(size, Ins)
  <2>1. Piece(a, size, 4, Ins.op, 0)
    BY <1>2, <1>4, CopyPiece
  <2>2. ARMEmitted({a}, size + 4, <<>>)
    BY <1>11 DEF ARMCopy
  <2> HIDE DEF a
  <2>3. Fits({a}, size, size + 4, Len(labels) + Len(<<>>))
    BY <1>4, <2>1 DEF Fits, Piece, ItemsApart
  <2>4. <<>> \in Seq(Int) /\ size <= size + 4
    BY <1>4
  <2> QED
    BY <1>1, <1>4, <2>2, <2>3, <2>4, ARMStep
<1> QED
  BY <1>7, <1>8, <1>9, <1>10, <1>11 DEF ARMInsn

-----------------------------------------------------------------------------
(***************************************************************************)
(* ARM64.                                                                  *)
(***************************************************************************)
LEMMA A64Step ==
  ASSUME IndInv, A64Pending, NEW items, NEW end \in Nat, NEW ls \in Seq(Int),
         A64Emitted(items, end, ls), size <= end, Fits(items, size, end, Len(labels) + Len(ls))
  PROVE  IndInv'
<1>1. prog.arch = "a64" /\ Pending /\ phase = "insns"
  BY DEF A64Pending, Pending
<1>2. changed \subseteq Nat
  BY DEF IndInv, Shape
<1> QED
  BY <1>1, <1>2, AppendStep DEF A64Emitted

\* The load of a label and the branch to what it holds.
LEMMA A64JumpFits ==
  ASSUME NEW p \in Nat, NEW lk \in BOOLEAN, labels \in Seq(Int)
  PROVE  Fits(A64Jump(p, lk), p, p + 8, Len(labels) + 1)
<1> DEFINE a  == LdrLabel(p, 4, "ip", A64NewLabel)
           it == Item(p + 4, 4, "bx")
           b  == [it EXCEPT !.rn = "ip", !.link = lk]
<1>1. A64NewLabel = Len(labels) + 1 /\ A64NewLabel \in Nat /\ 4 \in Nat /\ p + 4 \in Nat /\ "ip" \in Regs
      /\ "bx" \in Ops
  BY DEF A64NewLabel, Regs, Ops
<1>2. Piece(a, p, 4, "ldr", A64NewLabel)
  BY <1>1, LabelPiece
<1>3. it \in ItemSet /\ it.pos = p + 4 /\ it.len = 4 /\ it.lab = 0
  BY <1>1, ItemPiece DEF Piece
<1>4. A64Jump(p, lk) = {a, b}
  BY DEF A64Jump
<1> HIDE DEF a, it
<1>5. b \in ItemSet /\ b.pos = p + 4 /\ b.len = 4 /\ b.lab = 0
  BY <1>1, <1>3 DEF ItemSet
<1> HIDE DEF b
<1> QED
  BY <1>1, <1>2, <1>4, <1>5 DEF Fits, Piece, ItemsApart

\* Every iteration of the ARM64 loop emits what it counts.
LEMMA A64InsnHolds ==
  ASSUME IndInv, A64Insn
  PROVE  IndInv'
<1>1. A64Pending /\ Shape /\ Pending /\ prog.arch = "a64"
  BY DEF A64Insn, A64BBl, A64LdrLiteral, A64LdrOther, A64Adr, A64Adrp, A64BCond, A64CompareB,
         A64TestB, A64Copy, A64Pending, IndInv
<1>2. Ins \in ItemSet /\ Ins.len = 4 /\ Ins.lab = 0 /\ At \in Nat
  BY <1>1, InsFacts DEF LengthsOf
<1>3. /\ Ins.rt \in Regs /\ Ins.off \in Int /\ Ins.link \in BOOLEAN
      /\ At + Ins.off \in Int /\ AlignFloor(At + Ins.off, 4096) \in Int
  BY <1>1, <1>2 DEF ItemSet, AlignFloor
<1>4. /\ size \in Nat /\ size + 4 \in Nat /\ size + 8 \in Nat /\ size + 12 \in Nat
      /\ size + 16 \in Nat /\ size + 20 \in Nat /\ Len(labels) \in Nat /\ labels \in Seq(Int)
      /\ size <= size + 4 /\ size <= size + 8 /\ size <= size + 12 /\ size + 4 <= size + 12
      /\ size <= size + 16 /\ size <= size + 20 /\ (size + 4) + 8 = size + 12
      /\ Len(labels) + 1 \in Nat
  BY <1>1 DEF Shape
<1>5. "ip" \in Regs /\ "r0" \in Regs /\ FALSE \in BOOLEAN /\ 4 \in Nat /\ 16 \in Nat /\ 8 \in Nat
  BY DEF Regs
<1>6. <<At + Ins.off>> \in Seq(Int) /\ Len(<<At + Ins.off>>) = 1 /\ <<>> \in Seq(Int)
  BY <1>3
<1>7. CASE A64BBl
  <2>1. Fits(A64Jump(size, Ins.link), size, size + 8, Len(labels) + 1)
    BY <1>3, <1>4, A64JumpFits
  <2>2. A64Emitted(A64Jump(size, Ins.link), size + 8, <<At + Ins.off>>)
    BY <1>7 DEF A64BBl
  <2> QED
    BY <1>1, <1>4, <1>6, <2>1, <2>2, A64Step
<1>8. CASE A64LdrLiteral
  <2> DEFINE a == Mov(size, 16, "ip", At + Ins.off)
             b == Ldm(size + 16, 4, "r0", "ip", 8)
  <2>1. Piece(a, size, 16, "mov", 0) /\ Piece(b, size + 16, 4, "ldm", 0)
    BY <1>3, <1>4, <1>5, MovPiece, LdmPiece
  <2>2. A64Emitted({a, b}, size + 20, <<>>)
    BY <1>8 DEF A64LdrLiteral
  <2> HIDE DEF a, b
  <2>3. Fits({a, b}, size, size + 20, Len(labels) + Len(<<>>))
    BY <1>4, <2>1 DEF Fits, Piece, ItemsApart
  <2> QED
    BY <1>1, <1>4, <1>6, <2>2, <2>3, A64Step
<1>9. ASSUME NEW v \in Int, A64Emitted({Mov(size, 16, Ins.rt, v)}, size + 16, <<>>)
      PROVE  IndInv'
  <2> DEFINE a == Mov(size, 16, Ins.rt, v)
  <2>1. Piece(a, size, 16, "mov", 0)
    BY <1>3, <1>4, <1>5, MovPiece
  <2>2. A64Emitted({a}, size + 16, <<>>)
    BY <1>9
  <2> HIDE DEF a
  <2>3. Fits({a}, size, size + 16, Len(labels) + Len(<<>>))
    BY <1>4, <2>1 DEF Fits, Piece, ItemsApart
  <2> QED
    BY <1>1, <1>4, <1>6, <2>2, <2>3, A64Step
<1>10. CASE A64Adr
  BY <1>3, <1>9, <1>10 DEF A64Adr
<1>11. CASE A64Adrp
  BY <1>3, <1>9, <1>11 DEF A64Adrp
<1>12. CASE A64BCond \/ A64CompareB \/ A64TestB
  <2> DEFINE it == Copy(size, Ins)
             c  == Inverted(it.cond)
             a  == [it EXCEPT !.cond = c, !.off = 12]
  <2>1. Piece(it, size, 4, Ins.op, 0)
    BY <1>2, <1>4, CopyPiece
  <2>2. A64Emitted({a} \cup A64Jump(size + 4, FALSE), size + 12, <<At + Ins.off>>)
    BY <1>12 DEF A64BCond, A64CompareB, A64TestB, A64CondItems
  <2>3. Fits(A64Jump(size + 4, FALSE), size + 4, size + 12, Len(labels) + 1)
    BY <1>4, <1>5, A64JumpFits
  <2> HIDE DEF it
  <2>4. c \in Conds
    BY <2>1 DEF Piece, ItemSet, Conds, Inverted
  <2> HIDE DEF c
  <2>5. it \in ItemSet /\ it.pos = size /\ it.len = 4 /\ it.op = Ins.op /\ it.lab = 0 /\ 12 \in Int
    BY <2>1 DEF Piece
  <2>6. Piece(a, it.pos, it.len, it.op, it.lab)
    BY <2>4, <2>5, TurnedPiece
  <2> HIDE DEF a
  <2>7. Fits({a}, size, size + 4, Len(labels) + 1)
    BY <1>4, <2>5, <2>6 DEF Fits, Piece, ItemsApart
  <2>8. Fits({a} \cup A64Jump(size + 4, FALSE), size, size + 12, Len(labels) + 1)
    BY <1>4, <2>3, <2>7, FitsTwo
  <2> QED
    BY <1>1, <1>4, <1>6, <2>2, <2>8, A64Step
<1>13. CASE A64Copy
  <2> DEFINE a == Copy(size, Ins)
  <2>1. Piece(a, size, 4, Ins.op, 0)
    BY <1>2, <1>4, CopyPiece
  <2>2. A64Emitted({a}, size + 4, <<>>)
    BY <1>13 DEF A64Copy
  <2> HIDE DEF a
  <2>3. Fits({a}, size, size + 4, Len(labels) + Len(<<>>))
    BY <1>4, <2>1 DEF Fits, Piece, ItemsApart
  <2> QED
    BY <1>1, <1>4, <1>6, <2>2, <2>3, A64Step
<1>14. CASE A64LdrOther
  BY <1>14, AbortHolds DEF A64LdrOther
<1> QED
  BY <1>7, <1>8, <1>10, <1>11, <1>12, <1>13, <1>14 DEF A64Insn

-----------------------------------------------------------------------------
(***************************************************************************)
(* Thumb.                                                                  *)
(***************************************************************************)
\* AlignThumbNop fills the buffer to a multiple of 4.
LEMMA PaddingFits ==
  ASSUME size \in Nat, size % 2 = 0, NEW k \in Nat
  PROVE  /\ Start \in Nat /\ Start % 4 = 0 /\ size <= Start
         /\ Fits(Padding, size, Start, k)
         /\ \A it \in Padding : Aligned(it)
<1> DEFINE a == Nop(size, 2)
           b == Nop(size + 2, 2)
<1>1. Piece(a, size, 2, "nop", 0) /\ Piece(b, size + 2, 2, "nop", 0)
  BY NopPiece
<1>2. \/ size % 4 = 0 /\ Start = size + 4
      \/ size % 4 = 2 /\ Start = size + 2
  BY DEF Start, AlignThumb
<1>3. Start \in Nat /\ Start % 4 = 0 /\ size <= Start
  BY <1>2
<1>4. Padding = IF Start = size + 4 THEN {a, b} ELSE {a}
  <2>1. CASE Start = size + 4
    <3>1. Start - 2 = size + 2
      BY <2>1
    <3> QED
      BY <2>1, <3>1 DEF Padding
  <2>2. CASE Start = size + 2
    <3>1. Start - 2 # size + 2 /\ Start # size + 4
      BY <2>2
    <3> QED
      BY <3>1 DEF Padding
  <2> QED
    BY <1>2, <2>1, <2>2
<1> HIDE DEF a, b
<1>5. Fits(Padding, size, Start, k)
  BY <1>1, <1>2, <1>4 DEF Fits, Piece, ItemsApart
<1>6. \A it \in Padding : Aligned(it)
  BY <1>1, <1>4 DEF Aligned, Piece
<1> QED
  BY <1>3, <1>5, <1>6

\* What a sequence of Thumb code behind the padding must be.
ThumbFits(items, end, ls) ==
  /\ end \in Nat /\ Start <= end /\ end % 2 = 0 /\ ls \in Seq(Int)
  /\ Fits(items, Start, end, Len(labels) + Len(ls))
  /\ \A it \in items : Aligned(it)

LEMMA ThumbStep ==
  ASSUME IndInv, ThumbPending, NEW items, NEW end, NEW ls, NEW ch, ch \subseteq Nat,
         ThumbEmitted(items, end, ls, ch), ThumbFits(items, end, ls)
  PROVE  IndInv'
<1>1. /\ end \in Nat /\ Start <= end /\ end % 2 = 0 /\ ls \in Seq(Int)
      /\ Fits(items, Start, end, Len(labels) + Len(ls))
      /\ \A it \in items : Aligned(it)
  BY DEF ThumbFits
<1>2. prog.arch = "thumb" /\ Pending /\ size \in Nat /\ size % 2 = 0 /\ changed \subseteq Nat
  BY DEF ThumbPending, IndInv, ThumbAligned, Shape
<1>3. Len(labels) + Len(ls) \in Nat
  BY <1>1 DEF IndInv, Shape
<1>4. /\ Start \in Nat /\ size <= Start
      /\ Fits(Padding, size, Start, Len(labels) + Len(ls))
      /\ \A it \in Padding : Aligned(it)
  BY <1>2, <1>3, PaddingFits
<1>5. size <= end
  BY <1>1, <1>2, <1>4
<1>6. Fits(Padding \cup items, size, end, Len(labels) + Len(ls))
  BY <1>1, <1>2, <1>3, <1>4, FitsTwo
<1>7. \A it \in Padding \cup items : Aligned(it)
  BY <1>1, <1>4
<1>8. Emitted(Padding \cup items, end, ls) /\ prog' = prog /\ cap' = cap
  BY DEF ThumbEmitted
<1>9. changed' \subseteq Nat /\ phase' \in {"insns", "interrupted"}
  BY <1>2 DEF ThumbEmitted
<1> QED
  BY <1>1, <1>2, <1>5, <1>7, <1>8, <1>9, <1>6, AppendStep

\* Every iteration of the Thumb loop emits what it counts, with loads and data on words.
LEMMA ThumbInsnHolds ==
  ASSUME IndInv, ThumbInsn
  PROVE  IndInv'
<1>1. ThumbPending /\ Shape /\ Pending /\ prog.arch = "thumb"
  BY DEF ThumbInsn, Thumb1HighRegister, Thumb1BxPc, Thumb1BlxPc, Thumb1LdrLiteral, Thumb1Adr,
         Thumb1BCond, Thumb1Svc, Thumb1Cbz, Thumb1B, Thumb1Copy, Thumb2BCond, Thumb2B, Thumb2Bl,
         Thumb2Blx, Thumb2Adr, Thumb2LdrLiteral, Thumb2Copy, ThumbPending, IndInv
<1>2. Ins \in ItemSet /\ Ins.lab = 0 /\ At \in Nat
  BY <1>1, InsFacts
<1>3. /\ Ins.rt \in Regs /\ Ins.off \in Int /\ Ins.val \in Int /\ Ins.len \in Nat
      /\ CurPc \in Nat /\ CurPc + Ins.off \in Int /\ CurPc + Ins.off + 1 \in Int
      /\ CurPc \in Int /\ {CurPc} \subseteq Nat /\ {} \subseteq Nat
  BY <1>1, <1>2 DEF ItemSet, CurPc
<1>4. AlignFloor(CurPc + Ins.off, 4) \in Int /\ AlignFloor(CurPc, 4) \in Int
  BY <1>3 DEF AlignFloor
<1>5. AlignFloor(CurPc, 4) + BlxOffset(Ins.off) \in Int
  BY <1>3, <1>4 DEF BlxOffset
<1>6. size \in Nat /\ size % 2 = 0 /\ Len(labels) \in Nat
  BY <1>1 DEF Shape, IndInv, ThumbAligned
<1>7. Start \in Nat /\ Start % 4 = 0
  BY <1>6, PaddingFits
<1>8. /\ Start + 2 \in Nat /\ Start + 4 \in Nat /\ Start + 6 \in Nat /\ Start + 8 \in Nat
      /\ Start + 12 \in Nat /\ Start + 16 \in Nat /\ NewLabel \in Nat
      /\ NewLabel = Len(labels) + 1
  BY <1>6, <1>7 DEF NewLabel
<1>9. /\ "al" \in Conds /\ "ip" \in Regs /\ "pc" \in Regs /\ TRUE \in BOOLEAN /\ FALSE \in BOOLEAN
      /\ 0 \in Int /\ 4 \in Int /\ 8 \in Int /\ 4 \in Nat /\ 2 \in Nat
  BY DEF Conds, Regs
<1>10. <<>> \in Seq(Int) 
  OBVIOUS
<1>11. Piece(CondBranchItem(Start, Ins.val), Start, 2, IF Ins.val >= 8 THEN "undef" ELSE "b", 0)
  <2>1. CASE Ins.val >= 8
    <3>1. "undef" \in Ops
      BY DEF Ops
    <3> QED
      BY <1>7, <1>9, <2>1, <3>1, ItemPiece DEF CondBranchItem
  <2>2. CASE ~(Ins.val >= 8)
    <3> DEFINE d == 4 + 512 * (IF Ins.val >= 4 THEN Ins.val - 8 ELSE Ins.val)
    <3>1. d \in Int
      BY <1>3
    <3>2. CondBranchItem(Start, Ins.val) = B(Start, 2, "al", d, FALSE)
      BY <2>2 DEF CondBranchItem
    <3> HIDE DEF d
    <3> QED
      BY <1>7, <1>9, <2>2, <3>1, <3>2, BPiece
  <2> QED
    BY <2>1, <2>2
<1>12. CASE Thumb1HighRegister
  <2> DEFINE a == LdrLabel(Start, 4, "ip", NewLabel)
             b == [Copy(Start + 4, Ins) EXCEPT !.rn = "ip"]
  <2>1. Piece(a, Start, 4, "ldr", NewLabel)
    BY <1>2, <1>3, <1>4, <1>5, <1>7, <1>8, <1>9, LabelPiece
  <2>2. Piece(b, Start + 4, 2, "alu", 0)
    <3> DEFINE it == Copy(Start + 4, Ins)
    <3>1. it \in ItemSet /\ it.pos = Start + 4 /\ it.len = 2 /\ it.op = "alu" /\ it.lab = 0
      BY <1>2, <1>7, <1>8, <1>12, CopyPiece DEF Thumb1HighRegister, Piece
    <3> HIDE DEF it
    <3>2. Piece([it EXCEPT !.rn = "ip"], it.pos, it.len, it.op, it.lab)
      BY <1>9, <3>1 DEF Piece, ItemSet
    <3> QED
      BY <3>1, <3>2 DEF it
  <2>3. ThumbEmitted({a, b}, Start + 6, <<CurPc>>, {})
    BY <1>12 DEF Thumb1HighRegister
  <2> HIDE DEF a, b
  <2>4. Fits({a, b}, Start, Start + 6, Len(labels) + 1)
    BY <1>6, <1>7, <1>8, <2>1, <2>2 DEF Fits, Piece, ItemsApart
  <2>5. \A it \in {a, b} : Aligned(it)
    BY <1>3, <1>7, <2>1, <2>2 DEF Aligned, Piece
  <2>6. Start <= Start + 6 /\ (Start + 6) % 2 = 0 /\ Start + 6 \in Nat
    BY <1>7
  <2>7. <<CurPc>> \in Seq(Int) /\ Len(<<CurPc>>) = 1
    BY <1>3, <1>4
  <2>8. ThumbFits({a, b}, Start + 6, <<CurPc>>)
    BY <2>7, <2>4, <2>5, <2>6 DEF ThumbFits
  <2> QED
    BY <1>1, <1>3, <2>3, <2>8, ThumbStep
<1>13. CASE Thumb1BxPc
  <2> DEFINE a == LdrLabel(Start, 4, "pc", NewLabel)
  <2>1. Piece(a, Start, 4, "ldr", NewLabel)
    BY <1>2, <1>3, <1>4, <1>5, <1>7, <1>8, <1>9, LabelPiece
  <2>2. ThumbEmitted({a}, Start + 4, <<CurPc>>, {CurPc})
    BY <1>13 DEF Thumb1BxPc
  <2> HIDE DEF a
  <2>3. Fits({a}, Start, Start + 4, Len(labels) + 1)
    BY <1>6, <1>7, <1>8, <2>1 DEF Fits, Piece, ItemsApart
  <2>4. \A it \in {a} : Aligned(it)
    BY <1>3, <1>7, <2>1 DEF Aligned, Piece
  <2>5. Start <= Start + 4 /\ (Start + 4) % 2 = 0 /\ Start + 4 \in Nat
    BY <1>7
  <2>6. <<CurPc>> \in Seq(Int) /\ Len(<<CurPc>>) = 1
    BY <1>3, <1>4
  <2>7. ThumbFits({a}, Start + 4, <<CurPc>>)
    BY <2>6, <2>3, <2>4, <2>5 DEF ThumbFits
  <2> QED
    BY <1>1, <1>3, <2>2, <2>7, ThumbStep
<1>14. CASE Thumb1BlxPc
  <2> DEFINE a == B(Start, 4, "al", 4, TRUE)
             b == B(Start + 4, 4, "al", 4, FALSE)
             c == LdrLabel(Start + 8, 4, "pc", NewLabel)
  <2>1. Piece(a, Start, 4, "b", 0)
    BY <1>2, <1>3, <1>4, <1>5, <1>7, <1>8, <1>9, BPiece
  <2>2. Piece(b, Start + 4, 4, "b", 0)
    BY <1>2, <1>3, <1>4, <1>5, <1>7, <1>8, <1>9, BPiece
  <2>3. Piece(c, Start + 8, 4, "ldr", NewLabel)
    BY <1>2, <1>3, <1>4, <1>5, <1>7, <1>8, <1>9, LabelPiece
  <2>4. ThumbEmitted({a, b, c}, Start + 12, <<CurPc>>, {CurPc})
    BY <1>14 DEF Thumb1BlxPc
  <2> HIDE DEF a, b, c
  <2>5. Fits({a, b, c}, Start, Start + 12, Len(labels) + 1)
    BY <1>6, <1>7, <1>8, <2>1, <2>2, <2>3 DEF Fits, Piece, ItemsApart
  <2>6. \A it \in {a, b, c} : Aligned(it)
    BY <1>3, <1>7, <2>1, <2>2, <2>3 DEF Aligned, Piece
  <2>7. Start <= Start + 12 /\ (Start + 12) % 2 = 0 /\ Start + 12 \in Nat
    BY <1>7
  <2>8. <<CurPc>> \in Seq(Int) /\ Len(<<CurPc>>) = 1
    BY <1>3, <1>4
  <2>9. ThumbFits({a, b, c}, Start + 12, <<CurPc>>)
    BY <2>8, <2>5, <2>6, <2>7 DEF ThumbFits
  <2> QED
    BY <1>1, <1>3, <2>4, <2>9, ThumbStep
<1>15. CASE Thumb1LdrLiteral
  <2> DEFINE a == LdrLabel(Start, 4, Ins.rt, NewLabel)
             b == Ldm(Start + 4, 4, Ins.rt, Ins.rt, 4)
  <2>1. Piece(a, Start, 4, "ldr", NewLabel)
    BY <1>2, <1>3, <1>4, <1>5, <1>7, <1>8, <1>9, LabelPiece
  <2>2. Piece(b, Start + 4, 4, "ldm", 0)
    BY <1>2, <1>3, <1>4, <1>5, <1>7, <1>8, <1>9, LdmPiece
  <2>3. ThumbEmitted({a, b}, Start + 8, <<AlignFloor(CurPc + Ins.off, 4)>>, {})
    BY <1>15 DEF Thumb1LdrLiteral
  <2> HIDE DEF a, b
  <2>4. Fits({a, b}, Start, Start + 8, Len(labels) + 1)
    BY <1>6, <1>7, <1>8, <2>1, <2>2 DEF Fits, Piece, ItemsApart
  <2>5. \A it \in {a, b} : Aligned(it)
    BY <1>3, <1>7, <2>1, <2>2 DEF Aligned, Piece
  <2>6. Start <= Start + 8 /\ (Start + 8) % 2 = 0 /\ Start + 8 \in Nat
    BY <1>7
  <2>7. <<AlignFloor(CurPc + Ins.off, 4)>> \in Seq(Int) /\ Len(<<AlignFloor(CurPc + Ins.off, 4)>>) = 1
    BY <1>3, <1>4
  <2>8. ThumbFits({a, b}, Start + 8, <<AlignFloor(CurPc + Ins.off, 4)>>)
    BY <2>7, <2>4, <2>5, <2>6 DEF ThumbFits
  <2> QED
    BY <1>1, <1>3, <2>3, <2>8, ThumbStep
<1>16. CASE Thumb1Adr
  <2> DEFINE a == LdrLabel(Start, 4, Ins.rt, NewLabel)
  <2>1. Piece(a, Start, 4, "ldr", NewLabel)
    BY <1>2, <1>3, <1>4, <1>5, <1>7, <1>8, <1>9, LabelPiece
  <2>2. ThumbEmitted({a}, Start + 4, <<CurPc + Ins.off>>, {})
    BY <1>16 DEF Thumb1Adr
  <2> HIDE DEF a
  <2>3. Fits({a}, Start, Start + 4, Len(labels) + 1)
    BY <1>6, <1>7, <1>8, <2>1 DEF Fits, Piece, ItemsApart
  <2>4. \A it \in {a} : Aligned(it)
    BY <1>3, <1>7, <2>1 DEF Aligned, Piece
  <2>5. Start <= Start + 4 /\ (Start + 4) % 2 = 0 /\ Start + 4 \in Nat
    BY <1>7
  <2>6. <<CurPc + Ins.off>> \in Seq(Int) /\ Len(<<CurPc + Ins.off>>) = 1
    BY <1>3, <1>4
  <2>7. ThumbFits({a}, Start + 4, <<CurPc + Ins.off>>)
    BY <2>6, <2>3, <2>4, <2>5 DEF ThumbFits
  <2> QED
    BY <1>1, <1>3, <2>2, <2>7, ThumbStep
<1>17. CASE Thumb1BCond
  <2> DEFINE a == CondBranchItem(Start, Ins.val)
             b == Nop(Start + 2, 2)
             c == B(Start + 4, 4, "al", 4, FALSE)
             d == LdrLabel(Start + 8, 4, "pc", NewLabel)
  <2>1. Piece(a, Start, 2, IF Ins.val >= 8 THEN "undef" ELSE "b", 0)
    BY <1>11
  <2>2. Piece(b, Start + 2, 2, "nop", 0)
    BY <1>2, <1>3, <1>4, <1>5, <1>7, <1>8, <1>9, NopPiece
  <2>3. Piece(c, Start + 4, 4, "b", 0)
    BY <1>2, <1>3, <1>4, <1>5, <1>7, <1>8, <1>9, BPiece
  <2>4. Piece(d, Start + 8, 4, "ldr", NewLabel)
    BY <1>2, <1>3, <1>4, <1>5, <1>7, <1>8, <1>9, LabelPiece
  <2>5. ThumbEmitted({a, b, c, d}, Start + 12, <<CurPc + Ins.off + 1>>, {})
    BY <1>17 DEF Thumb1BCond
  <2> HIDE DEF a, b, c, d
  <2>6. Fits({a, b, c, d}, Start, Start + 12, Len(labels) + 1)
    BY <1>6, <1>7, <1>8, <2>1, <2>2, <2>3, <2>4 DEF Fits, Piece, ItemsApart
  <2>7. \A it \in {a, b, c, d} : Aligned(it)
    BY <1>3, <1>7, <2>1, <2>2, <2>3, <2>4 DEF Aligned, Piece
  <2>8. Start <= Start + 12 /\ (Start + 12) % 2 = 0 /\ Start + 12 \in Nat
    BY <1>7
  <2>9. <<CurPc + Ins.off + 1>> \in Seq(Int) /\ Len(<<CurPc + Ins.off + 1>>) = 1
    BY <1>3, <1>4
  <2>10. ThumbFits({a, b, c, d}, Start + 12, <<CurPc + Ins.off + 1>>)
    BY <2>9, <2>6, <2>7, <2>8 DEF ThumbFits
  <2> QED
    BY <1>1, <1>3, <2>5, <2>10, ThumbStep
<1>18. CASE Thumb1Cbz
  <2> DEFINE a == [Copy(Start, Ins) EXCEPT !.off = 4]
             b == Nop(Start + 2, 2)
             c == B(Start + 4, 4, "al", 4, FALSE)
             d == LdrLabel(Start + 8, 4, "pc", NewLabel)
  <2>1. Piece(a, Start, 2, "b", 0)
    <3> DEFINE it == Copy(Start, Ins)
    <3>1. it \in ItemSet /\ it.pos = Start /\ it.len = 2 /\ it.op = "b" /\ it.lab = 0
      BY <1>2, <1>7, <1>8, <1>18, CopyPiece DEF Thumb1Cbz, Piece
    <3> HIDE DEF it
    <3>2. Piece([it EXCEPT !.off = 4], it.pos, it.len, it.op, it.lab)
      BY <1>9, <3>1 DEF Piece, ItemSet
    <3> QED
      BY <3>1, <3>2 DEF it
  <2>2. Piece(b, Start + 2, 2, "nop", 0)
    BY <1>2, <1>3, <1>4, <1>5, <1>7, <1>8, <1>9, NopPiece
  <2>3. Piece(c, Start + 4, 4, "b", 0)
    BY <1>2, <1>3, <1>4, <1>5, <1>7, <1>8, <1>9, BPiece
  <2>4. Piece(d, Start + 8, 4, "ldr", NewLabel)
    BY <1>2, <1>3, <1>4, <1>5, <1>7, <1>8, <1>9, LabelPiece
  <2>5. ThumbEmitted({a, b, c, d}, Start + 12, <<CurPc + Ins.off + 1>>, {})
    BY <1>18 DEF Thumb1Cbz
  <2> HIDE DEF a, b, c, d
  <2>6. Fits({a, b, c, d}, Start, Start + 12, Len(labels) + 1)
    BY <1>6, <1>7, <1>8, <2>1, <2>2, <2>3, <2>4 DEF Fits, Piece, ItemsApart
  <2>7. \A it \in {a, b, c, d} : Aligned(it)
    BY <1>3, <1>7, <2>1, <2>2, <2>3, <2>4 DEF Aligned, Piece
  <2>8. Start <= Start + 12 /\ (Start + 12) % 2 = 0 /\ Start + 12 \in Nat
    BY <1>7
  <2>9. <<CurPc + Ins.off + 1>> \in Seq(Int) /\ Len(<<CurPc + Ins.off + 1>>) = 1
    BY <1>3, <1>4
  <2>10. ThumbFits({a, b, c, d}, Start + 12, <<CurPc + Ins.off + 1>>)
    BY <2>9, <2>6, <2>7, <2>8 DEF ThumbFits
  <2> QED
    BY <1>1, <1>3, <2>5, <2>10, ThumbStep
<1>19. CASE Thumb1B
  <2> DEFINE a == LdrLabel(Start, 4, "pc", NewLabel)
  <2>1. Piece(a, Start, 4, "ldr", NewLabel)
    BY <1>2, <1>3, <1>4, <1>5, <1>7, <1>8, <1>9, LabelPiece
  <2>2. ThumbEmitted({a}, Start + 4, <<CurPc + Ins.off + 1>>, {})
    BY <1>19 DEF Thumb1B
  <2> HIDE DEF a
  <2>3. Fits({a}, Start, Start + 4, Len(labels) + 1)
    BY <1>6, <1>7, <1>8, <2>1 DEF Fits, Piece, ItemsApart
  <2>4. \A it \in {a} : Aligned(it)
    BY <1>3, <1>7, <2>1 DEF Aligned, Piece
  <2>5. Start <= Start + 4 /\ (Start + 4) % 2 = 0 /\ Start + 4 \in Nat
    BY <1>7
  <2>6. <<CurPc + Ins.off + 1>> \in Seq(Int) /\ Len(<<CurPc + Ins.off + 1>>) = 1
    BY <1>3, <1>4
  <2>7. ThumbFits({a}, Start + 4, <<CurPc + Ins.off + 1>>)
    BY <2>6, <2>3, <2>4, <2>5 DEF ThumbFits
  <2> QED
    BY <1>1, <1>3, <2>2, <2>7, ThumbStep
<1>20. CASE Thumb1Copy
  <2> DEFINE a == Copy(Start, Ins)
  <2>1. Piece(a, Start, 2, Ins.op, 0)
    BY <1>2, <1>7, <1>8, <1>20, CopyPiece DEF Thumb1Copy
  <2>2. ThumbEmitted({a}, Start + 2, <<>>, {})
    BY <1>20 DEF Thumb1Copy
  <2> HIDE DEF a
  <2>3. Fits({a}, Start, Start + 2, Len(labels) + Len(<<>>))
    BY <1>6, <1>7, <1>8, <2>1 DEF Fits, Piece, ItemsApart
  <2>4. \A it \in {a} : Aligned(it)
    BY <1>3, <1>7, <2>1, <1>20 DEF Aligned, Piece, Thumb1Copy
  <2>5. Start <= Start + 2 /\ (Start + 2) % 2 = 0 /\ Start + 2 \in Nat
    BY <1>7
  <2>6. ThumbFits({a}, Start + 2, <<>>)
    BY <1>10, <2>3, <2>4, <2>5 DEF ThumbFits
  <2> QED
    BY <1>1, <1>3, <2>2, <2>6, ThumbStep
<1>21. CASE Thumb2BCond
  <2> DEFINE a == CondBranchItem(Start, Ins.val)
             b == Nop(Start + 2, 2)
             c == B(Start + 4, 4, "al", 8, FALSE)
             d == Ldr(Start + 8, 4, "pc", 0)
             e == Data(Start + 12, 4, CurPc + Ins.off + 1)
  <2>1. Piece(a, Start, 2, IF Ins.val >= 8 THEN "undef" ELSE "b", 0)
    BY <1>11
  <2>2. Piece(b, Start + 2, 2, "nop", 0)
    BY <1>2, <1>3, <1>4, <1>5, <1>7, <1>8, <1>9, NopPiece
  <2>3. Piece(c, Start + 4, 4, "b", 0)
    BY <1>2, <1>3, <1>4, <1>5, <1>7, <1>8, <1>9, BPiece
  <2>4. Piece(d, Start + 8, 4, "ldr", 0)
    BY <1>2, <1>3, <1>4, <1>5, <1>7, <1>8, <1>9, LdrPiece
  <2>5. Piece(e, Start + 12, 4, "data", 0)
    BY <1>2, <1>3, <1>4, <1>5, <1>7, <1>8, <1>9, DataPiece
  <2>6. ThumbEmitted({a, b, c, d, e}, Start + 16, <<>>, {})
    BY <1>21 DEF Thumb2BCond
  <2> HIDE DEF a, b, c, d, e
  <2>7. Fits({a, b, c, d, e}, Start, Start + 16, Len(labels) + Len(<<>>))
    BY <1>6, <1>7, <1>8, <2>1, <2>2, <2>3, <2>4, <2>5 DEF Fits, Piece, ItemsApart
  <2>8. \A it \in {a, b, c, d, e} : Aligned(it)
    BY <1>3, <1>7, <2>1, <2>2, <2>3, <2>4, <2>5 DEF Aligned, Piece
  <2>9. Start <= Start + 16 /\ (Start + 16) % 2 = 0 /\ Start + 16 \in Nat
    BY <1>7
  <2>10. ThumbFits({a, b, c, d, e}, Start + 16, <<>>)
    BY <1>10, <2>7, <2>8, <2>9 DEF ThumbFits
  <2> QED
    BY <1>1, <1>3, <2>6, <2>10, ThumbStep
<1>22. CASE Thumb2B
  <2> DEFINE a == Ldr(Start, 4, "pc", 0)
             b == Data(Start + 4, 4, CurPc + Ins.off + 1)
  <2>1. Piece(a, Start, 4, "ldr", 0)
    BY <1>2, <1>3, <1>4, <1>5, <1>7, <1>8, <1>9, LdrPiece
  <2>2. Piece(b, Start + 4, 4, "data", 0)
    BY <1>2, <1>3, <1>4, <1>5, <1>7, <1>8, <1>9, DataPiece
  <2>3. ThumbEmitted({a, b}, Start + 8, <<>>, {})
    BY <1>22 DEF Thumb2B
  <2> HIDE DEF a, b
  <2>4. Fits({a, b}, Start, Start + 8, Len(labels) + Len(<<>>))
    BY <1>6, <1>7, <1>8, <2>1, <2>2 DEF Fits, Piece, ItemsApart
  <2>5. \A it \in {a, b} : Aligned(it)
    BY <1>3, <1>7, <2>1, <2>2 DEF Aligned, Piece
  <2>6. Start <= Start + 8 /\ (Start + 8) % 2 = 0 /\ Start + 8 \in Nat
    BY <1>7
  <2>7. ThumbFits({a, b}, Start + 8, <<>>)
    BY <1>10, <2>4, <2>5, <2>6 DEF ThumbFits
  <2> QED
    BY <1>1, <1>3, <2>3, <2>7, ThumbStep
<1>23. CASE Thumb2Bl
  <2> DEFINE a == B(Start, 4, "al", 4, TRUE)
             b == B(Start + 4, 4, "al", 8, FALSE)
             c == Ldr(Start + 8, 4, "pc", 0)
             d == Data(Start + 12, 4, CurPc + Ins.off + 1)
  <2>1. Piece(a, Start, 4, "b", 0)
    BY <1>2, <1>3, <1>4, <1>5, <1>7, <1>8, <1>9, BPiece
  <2>2. Piece(b, Start + 4, 4, "b", 0)
    BY <1>2, <1>3, <1>4, <1>5, <1>7, <1>8, <1>9, BPiece
  <2>3. Piece(c, Start + 8, 4, "ldr", 0)
    BY <1>2, <1>3, <1>4, <1>5, <1>7, <1>8, <1>9, LdrPiece
  <2>4. Piece(d, Start + 12, 4, "data", 0)
    BY <1>2, <1>3, <1>4, <1>5, <1>7, <1>8, <1>9, DataPiece
  <2>5. ThumbEmitted({a, b, c, d}, Start + 16, <<>>, {})
    BY <1>23 DEF Thumb2Bl, Thumb2CallItems
  <2> HIDE DEF a, b, c, d
  <2>6. Fits({a, b, c, d}, Start, Start + 16, Len(labels) + Len(<<>>))
    BY <1>6, <1>7, <1>8, <2>1, <2>2, <2>3, <2>4 DEF Fits, Piece, ItemsApart
  <2>7. \A it \in {a, b, c, d} : Aligned(it)
    BY <1>3, <1>7, <2>1, <2>2, <2>3, <2>4 DEF Aligned, Piece
  <2>8. Start <= Start + 16 /\ (Start + 16) % 2 = 0 /\ Start + 16 \in Nat
    BY <1>7
  <2>9. ThumbFits({a, b, c, d}, Start + 16, <<>>)
    BY <1>10, <2>6, <2>7, <2>8 DEF ThumbFits
  <2> QED
    BY <1>1, <1>3, <2>5, <2>9, ThumbStep
<1>24. CASE Thumb2Blx
  <2> DEFINE a == B(Start, 4, "al", 4, TRUE)
             b == B(Start + 4, 4, "al", 8, FALSE)
             c == Ldr(Start + 8, 4, "pc", 0)
             d == Data(Start + 12, 4, AlignFloor(CurPc, 4) + BlxOffset(Ins.off))
  <2>1. Piece(a, Start, 4, "b", 0)
    BY <1>2, <1>3, <1>4, <1>5, <1>7, <1>8, <1>9, BPiece
  <2>2. Piece(b, Start + 4, 4, "b", 0)
    BY <1>2, <1>3, <1>4, <1>5, <1>7, <1>8, <1>9, BPiece
  <2>3. Piece(c, Start + 8, 4, "ldr", 0)
    BY <1>2, <1>3, <1>4, <1>5, <1>7, <1>8, <1>9, LdrPiece
  <2>4. Piece(d, Start + 12, 4, "data", 0)
    BY <1>2, <1>3, <1>4, <1>5, <1>7, <1>8, <1>9, DataPiece
  <2>5. ThumbEmitted({a, b, c, d}, Start + 16, <<>>, {})
    BY <1>24 DEF Thumb2Blx, Thumb2CallItems
  <2> HIDE DEF a, b, c, d
  <2>6. Fits({a, b, c, d}, Start, Start + 16, Len(labels) + Len(<<>>))
    BY <1>6, <1>7, <1>8, <2>1, <2>2, <2>3, <2>4 DEF Fits, Piece, ItemsApart
  <2>7. \A it \in {a, b, c, d} : Aligned(it)
    BY <1>3, <1>7, <2>1, <2>2, <2>3, <2>4 DEF Aligned, Piece
  <2>8. Start <= Start + 16 /\ (Start + 16) % 2 = 0 /\ Start + 16 \in Nat
    BY <1>7
  <2>9. ThumbFits({a, b, c, d}, Start + 16, <<>>)
    BY <1>10, <2>6, <2>7, <2>8 DEF ThumbFits
  <2> QED
    BY <1>1, <1>3, <2>5, <2>9, ThumbStep
<1>25. CASE Thumb2Adr
  <2> DEFINE a == Ldr(Start, 4, Ins.rt, 4)
             b == B(Start + 4, 4, "al", 0, FALSE)
             c == Data(Start + 8, 4, CurPc + Ins.off)
  <2>1. Piece(a, Start, 4, "ldr", 0)
    BY <1>2, <1>3, <1>4, <1>5, <1>7, <1>8, <1>9, LdrPiece
  <2>2. Piece(b, Start + 4, 4, "b", 0)
    BY <1>2, <1>3, <1>4, <1>5, <1>7, <1>8, <1>9, BPiece
  <2>3. Piece(c, Start + 8, 4, "data", 0)
    BY <1>2, <1>3, <1>4, <1>5, <1>7, <1>8, <1>9, DataPiece
  <2>4. ThumbEmitted({a, b, c}, Start + 12, <<>>, {})
    BY <1>25 DEF Thumb2Adr
  <2> HIDE DEF a, b, c
  <2>5. Fits({a, b, c}, Start, Start + 12, Len(labels) + Len(<<>>))
    BY <1>6, <1>7, <1>8, <2>1, <2>2, <2>3 DEF Fits, Piece, ItemsApart
  <2>6. \A it \in {a, b, c} : Aligned(it)
    BY <1>3, <1>7, <2>1, <2>2, <2>3 DEF Aligned, Piece
  <2>7. Start <= Start + 12 /\ (Start + 12) % 2 = 0 /\ Start + 12 \in Nat
    BY <1>7
  <2>8. ThumbFits({a, b, c}, Start + 12, <<>>)
    BY <1>10, <2>5, <2>6, <2>7 DEF ThumbFits
  <2> QED
    BY <1>1, <1>3, <2>4, <2>8, ThumbStep
<1>26. CASE Thumb2LdrLiteral
  <2> DEFINE a == Ldr(Start, 4, Ins.rt, 8)
             b == Ldm(Start + 4, 4, Ins.rt, Ins.rt, 4)
             c == B(Start + 8, 4, "al", 4, FALSE)
             d == Data(Start + 12, 4, CurPc + Ins.off)
  <2>1. Piece(a, Start, 4, "ldr", 0)
    BY <1>2, <1>3, <1>4, <1>5, <1>7, <1>8, <1>9, LdrPiece
  <2>2. Piece(b, Start + 4, 4, "ldm", 0)
    BY <1>2, <1>3, <1>4, <1>5, <1>7, <1>8, <1>9, LdmPiece
  <2>3. Piece(c, Start + 8, 4, "b", 0)
    BY <1>2, <1>3, <1>4, <1>5, <1>7, <1>8, <1>9, BPiece
  <2>4. Piece(d, Start + 12, 4, "data", 0)
    BY <1>2, <1>3, <1>4, <1>5, <1>7, <1>8, <1>9, DataPiece
  <2>5. ThumbEmitted({a, b, c, d}, Start + 16, <<>>, {})
    BY <1>26 DEF Thumb2LdrLiteral
  <2> HIDE DEF a, b, c, d
  <2>6. Fits({a, b, c, d}, Start, Start + 16, Len(labels) + Len(<<>>))
    BY <1>6, <1>7, <1>8, <2>1, <2>2, <2>3, <2>4 DEF Fits, Piece, ItemsApart
  <2>7. \A it \in {a, b, c, d} : Aligned(it)
    BY <1>3, <1>7, <2>1, <2>2, <2>3, <2>4 DEF Aligned, Piece
  <2>8. Start <= Start + 16 /\ (Start + 16) % 2 = 0 /\ Start + 16 \in Nat
    BY <1>7
  <2>9. ThumbFits({a, b, c, d}, Start + 16, <<>>)
    BY <1>10, <2>6, <2>7, <2>8 DEF ThumbFits
  <2> QED
    BY <1>1, <1>3, <2>5, <2>9, ThumbStep
<1>27. CASE Thumb2Copy
  <2> DEFINE a == Copy(Start, Ins)
  <2>1. Piece(a, Start, 4, Ins.op, 0)
    BY <1>2, <1>7, <1>8, <1>27, CopyPiece DEF Thumb2Copy
  <2>2. ThumbEmitted({a}, Start + 4, <<>>, {})
    BY <1>27 DEF Thumb2Copy
  <2> HIDE DEF a
  <2>3. Fits({a}, Start, Start + 4, Len(labels) + Len(<<>>))
    BY <1>6, <1>7, <1>8, <2>1 DEF Fits, Piece, ItemsApart
  <2>4. \A it \in {a} : Aligned(it)
    BY <1>3, <1>7, <2>1, <1>27 DEF Aligned, Piece, Thumb2Copy
  <2>5. Start <= Start + 4 /\ (Start + 4) % 2 = 0 /\ Start + 4 \in Nat
    BY <1>7
  <2>6. ThumbFits({a}, Start + 4, <<>>)
    BY <1>10, <2>3, <2>4, <2>5 DEF ThumbFits
  <2> QED
    BY <1>1, <1>3, <2>2, <2>6, ThumbStep
<1>28. CASE Thumb1Svc
  BY <1>28, AbortHolds DEF Thumb1Svc
<1> QED
  BY <1>12, <1>13, <1>14, <1>15, <1>16, <1>17, <1>18, <1>19, <1>20, <1>21, <1>22, <1>23, <1>24, <1>25, <1>26, <1>27, <1>28 DEF ThumbInsn

-----------------------------------------------------------------------------
(***************************************************************************)
(* x86.  What the decoder makes of any bytes with an opcode among them.    *)
(***************************************************************************)
LEMMA ByteAtType ==
  ASSUME NEW b \in Seq(0..255), NEW p \in Nat
  PROVE  ByteAt(b, p) \in 0..255
<1>1. CASE p < Len(b)
  <2>1. p + 1 \in 1..Len(b)
    BY <1>1
  <2>2. b[p + 1] \in 0..255
    BY <2>1, ElementOfSeq
  <2> QED
    BY <1>1, <2>2 DEF ByteAt
<1>2. CASE ~(p < Len(b))
  BY <1>2 DEF ByteAt
<1> QED
  BY <1>1, <1>2

LEMMA NumberType ==
  ASSUME NEW b \in Seq(0..255), NEW p \in Nat, NEW bits \in Int
  PROVE  Number(b, p, bits) \in Int
<1>1. \A q \in Nat : ByteAt(b, q) \in 0..255
  BY ByteAtType
<1>2. /\ ByteAt(b, p) \in 0..255 /\ ByteAt(b, p + 1) \in 0..255
      /\ ByteAt(b, p + 2) \in 0..255 /\ ByteAt(b, p + 3) \in 0..255
  BY <1>1
<1> HIDE <1>1
<1>3. \A x \in 0..255 : SignedByte(x) \in Int
  BY DEF SignedByte
<1>4. SignedByte(ByteAt(b, p)) \in Int /\ SignedByte(ByteAt(b, p + 1)) \in Int
      /\ SignedByte(ByteAt(b, p + 3)) \in Int
  BY <1>2, <1>3
<1> DEFINE x0 == ByteAt(b, p)
           x1 == ByteAt(b, p + 1)
           x2 == ByteAt(b, p + 2)
           s0 == SignedByte(ByteAt(b, p))
           s1 == SignedByte(ByteAt(b, p + 1))
           s3 == SignedByte(ByteAt(b, p + 3))
<1>5. x0 \in Int /\ x1 \in Int /\ x2 \in Int /\ s0 \in Int /\ s1 \in Int /\ s3 \in Int
  <2>1. \A x \in 0..255 : x \in Int
    OBVIOUS
  <2> QED
    BY <1>2, <1>4, <2>1, Zenon
<1>6. Number(b, p, bits) = CASE bits = 8  -> s0
                             [] bits = 16 -> x0 + 256 * s1
                             [] OTHER     -> x0 + 256 * x1 + 65536 * x2 + 16777216 * s3
  BY DEF Number
<1> HIDE DEF x0, x1, x2, s0, s1, s3
<1>7. x0 + 256 * s1 \in Int /\ x0 + 256 * x1 + 65536 * x2 + 16777216 * s3 \in Int
  BY <1>5
<1> QED
  BY <1>5, <1>6, <1>7

\* The widths of displacements and immediates, and how far the reader moves over one.
Widths == {0, 8, 16, 32, 64}

LEMMA NumberLenType ==
  ASSUME NEW bits \in Widths
  PROVE  NumberLen(bits) \in Nat
  BY DEF Widths, NumberLen

LEMMA PrefixType ==
  ASSUME NEW b \in AllBytes
  PROVE  DecodePrefix(b, 64).end \in Nat
<1>1. PICK k \in 0..14 : /\ \A i \in 0..(k - 1) : ByteAt(b, i) \in LegacyPrefixes
                         /\ ByteAt(b, k) \notin LegacyPrefixes
  BY X86Assumption
<1>2. LegacyEnd(b) \in 0..14
  BY <1>1 DEF LegacyEnd
<1> DEFINE e == LegacyEnd(b)
<1> HIDE DEF e
<1>3. e \in Nat
  BY <1>2 DEF e
<1>4. DecodePrefix(b, 64) = PrefixesTo(b, 64, e)
  BY DEF DecodePrefix, e
<1>5. PrefixesTo(b, 64, e).end \in {e, e + 1}
  BY DEF PrefixesTo
<1> QED
  BY <1>3, <1>4, <1>5

LEMMA DisplacementType ==
  ASSUME NEW b \in Seq(0..255), NEW q \in Nat, NEW bits \in Widths, NEW ip
  PROVE  LET d == Displacement(b, q, bits, ip) IN d.end \in Nat /\ d.disp \in Int
<1>1. NumberLen(bits) \in Nat /\ bits \in Int
  BY NumberLenType DEF Widths
<1>2. Number(b, q, bits) \in Int
  BY <1>1, NumberType
<1> QED
  BY <1>1, <1>2 DEF Displacement

LEMMA ModrmSibType ==
  ASSUME NEW b \in Seq(0..255), NEW p \in Nat, NEW pre
  PROVE  LET d == DecodeModrmSib(b, p, pre) IN d.end \in Nat /\ d.disp \in Int
<1>1. ASSUME NEW mod, NEW rm, NEW base, NEW addrbits
      PROVE  DispBits(mod, rm, base, addrbits) \in Widths
  BY DEF DispBits, Widths
<1> DEFINE mod  == ByteAt(b, p) \div 64
           rm   == ByteAt(b, p) % 8
           q    == IF rm = 4 /\ mod # 3 THEN p + 2 ELSE p + 1
           base == (ByteAt(b, p + 1) % 8) + 8 * (pre.rex % 2)
           bits == IF mod = 3 THEN 0
                   ELSE DispBits(mod, rm, base, IF pre.addrsize THEN 32 ELSE 64)
           ip   == mod = 0 /\ rm = 5
<1>2. DecodeModrmSib(b, p, pre) = Displacement(b, q, bits, ip)
  BY DEF DecodeModrmSib
<1>3. bits \in Widths
  BY <1>1 DEF Widths
<1>4. q \in Nat
  OBVIOUS
<1> HIDE DEF q, bits, ip
<1> QED
  BY <1>2, <1>3, <1>4, DisplacementType

LEMMA ImmBitsType ==
  ASSUME NEW spec, NEW pre, NEW ip, NEW mode
  PROVE  ImmBits(spec, pre, ip, mode) \in Widths
  BY DEF ImmBits, Widths

\* What the relocation uses of a decoded instruction.
LEMMA DecodeTypes ==
  ASSUME NEW b \in AllBytes, b \in Seq(0..255)
  PROVE  LET d == Decode(b, 64)
         IN d.length \in Nat /\ d.immoff \in Nat /\ d.imm \in Int /\ d.disp \in Int
<1> DEFINE pre == DecodePrefix(b, 64)
           opc == DecodeOpcode(b, pre.end)
           mem == DecodeMemory(b, pre, opc)
           bits == ImmBits(opc.spec, pre, mem.ip, 64)
<1>1. pre.end \in Nat
  BY PrefixType
<1>2. Decode(b, 64) = DecodeImmediate(b, opc, mem, bits)
  BY DEF Decode, DecodeBehindPrefix, DecodeBehindOpcode, DecodeOperands
<1>3. bits \in Widths
  BY ImmBitsType
<1> HIDE DEF pre
<1>4. opc.end \in Nat
  BY <1>1 DEF DecodeOpcode
<1> HIDE DEF opc
<1>5. mem.end \in Nat /\ mem.disp \in Int
  BY <1>4, ModrmSibType DEF DecodeMemory
<1> HIDE DEF mem, bits
<1>6. NumberLen(bits) \in Nat /\ bits \in Int
  BY <1>3, NumberLenType DEF Widths
<1>7. Number(b, mem.end, bits) \in Int
  BY <1>5, <1>6, NumberType
<1> QED
  BY <1>2, <1>5, <1>6, <1>7 DEF DecodeImmediate

\* The decoded instruction under the cursor.
LEMMA InsnFacts ==
  ASSUME Shape, X86Pending
  PROVE  Insn.length \in Nat /\ Insn.immoff \in Nat /\ Insn.imm \in Int /\ Insn.disp \in Int
<1>1. PICK p \in Programs : prog.arch = p.arch /\ prog.insns = p.insns /\ prog.bytes = p.bytes
  BY DEF Shape, KnownProgram
<1>2. p \in ProgramSet /\ Len(p.bytes) = Len(p.insns)
  BY <1>1, RelocateAssumption DEF X86Pending
<1>3. p.bytes \in Seq(Seq(0..255)) /\ n \in 1..Len(p.bytes)
  BY <1>1, <1>2 DEF Shape, X86Pending, Pending, ProgramSet
<1>4. p.bytes[n] \in Seq(0..255)
  BY <1>3, ElementOfSeq
<1>5. p.bytes[n] \in AllBytes
  <2>1. n \in DOMAIN p.bytes
    BY <1>3
  <2> QED
    BY <2>1 DEF AllBytes
<1>6. Insn = Decode(p.bytes[n], 64)
  BY <1>1, <1>5 DEF Insn, Decoded
<1> QED
  BY <1>4, <1>5, <1>6, DecodeTypes

\* An iteration of the x86 loop: the decoder is right about the length, or the
\* behaviour ends.
LEMMA X86Step ==
  ASSUME IndInv, X86Pending, NEW items, NEW end \in Nat, X86Emitted(items, end),
         Insn.length = Ins.len => Layout(X64, code \cup items, end, n + 1, Len(labels)),
         X64 => end <= size + 18
  PROVE  IndInv'
<1>1. Pending /\ prog.arch \in {"x64", "x86"} /\ labels \in Seq(Int) /\ changed \subseteq Nat
  BY DEF X86Pending, IndInv, Shape
<1>2. CASE Insn.length = Ins.len
  <2>1. <<>> \in Seq(Int) /\ Len(labels) + Len(<<>>) = Len(labels)
    BY <1>1
  <2>2. /\ Emitted(items, end, <<>>) /\ phase' = "insns" /\ prog' = prog /\ cap' = cap
        /\ changed' \subseteq Nat
    BY <1>1, <1>2 DEF X86Emitted
  <2> QED
    BY <1>1, <1>2, <2>1, <2>2, EmitStep
<1>3. CASE Insn.length # Ins.len
  BY <1>3, PhaseStep DEF X86Emitted
<1> QED
  BY <1>2, <1>3

\* The near memory is behind what the loop and the branch back can emit.
LEMMA NearBehind ==
  ASSUME IndInv, X64, phase \in {"insns", "branch"}
  PROVE  /\ size + 14 <= NearPos
         /\ Pending => size + 18 <= NearPos
<1>1. PICK p \in Programs : prog.arch = p.arch /\ prog.insns = p.insns
  BY DEF IndInv, Shape, KnownProgram
<1>2. NearPos >= 18 * Len(prog.insns) + 14 /\ NearPos \in Nat
  BY <1>1, RelocateAssumption, X86Assumption DEF X64
<1>3. size \in Nat /\ n \in Nat /\ Len(prog.insns) \in Nat
  BY DEF IndInv, Shape, ProgramSet
<1>4. size <= 18 * (n - 1) /\ n <= Len(prog.insns) + 1
  BY DEF IndInv, NearRoom, X64
<1> QED
  BY <1>2, <1>3, <1>4 DEF Pending

LEMMA X86AppendStep ==
  ASSUME IndInv, X86Pending, NEW items, NEW end \in Nat, X86Emitted(items, end),
         Insn.length = Ins.len => Fits(items, size, end, Len(labels)) /\ size <= end,
         X64 => end <= size + 18
  PROVE  IndInv'
<1>1. /\ size \in Nat /\ n \in Nat /\ n + 1 \in Nat /\ n <= n + 1 /\ Len(labels) \in Nat
      /\ Len(labels) <= Len(labels) /\ X64 \in BOOLEAN /\ NearPos \in Nat
  BY RelocateAssumption DEF IndInv, Shape, X64
<1>2. Layout(X64, code, size, n, Len(labels))
  BY DEF IndInv
<1>3. X64 => end <= NearPos
  <2>1. X64 => size + 18 <= NearPos
    BY NearBehind DEF X86Pending, Pending
  <2> QED
    BY <1>1, <2>1
<1>4. CASE Insn.length = Ins.len
  <2>1. Layout(X64, code \cup items, end, n + 1, Len(labels))
    BY <1>1, <1>2, <1>3, <1>4, Grow
  <2> QED
    BY <2>1, X86Step
<1>5. CASE Insn.length # Ins.len
  BY <1>5, X86Step
<1> QED
  BY <1>4, <1>5

LEMMA JmpAbsoluteFits ==
  ASSUME NEW p \in Nat, NEW dst \in Int, NEW k \in Nat
  PROVE  Fits(JmpAbsolute(p, dst), p, p + 14, k)
<1> DEFINE a == Ldr(p, 6, "pc", 0)
           b == Data(p + 6, 8, dst)
<1>1. "pc" \in Regs /\ 0 \in Int /\ 6 \in Nat /\ 8 \in Nat /\ p + 6 \in Nat
  BY DEF Regs
<1>2. Piece(a, p, 6, "ldr", 0) /\ Piece(b, p + 6, 8, "data", 0)
  BY <1>1, LdrPiece, DataPiece
<1>3. JmpAbsolute(p, dst) = {a, b}
  BY DEF JmpAbsolute
<1> HIDE DEF a, b
<1> QED
  BY <1>2, <1>3 DEF Fits, Piece, ItemsApart

\* Code in the part of the near memory that belongs to the m-th instruction.
LEMMA GrowNear ==
  ASSUME NEW c, NEW s \in Nat, NEW m \in Nat, NEW k \in Nat, NEW items,
         Layout(TRUE, c, s, m, k), s <= NearPos,
         Fits(items, NearPos + 64 * m, NearPos + 64 * (m + 1), k)
  PROVE  Layout(TRUE, c \cup items, s, m + 1, k)
<1>1. c \cup items \subseteq ItemSet /\ NearPos \in Nat
  BY RelocateAssumption DEF Layout, Fits
<1>2. ASSUME NEW it \in c \cup items
      PROVE  /\ it.lab <= k /\ it.len > 0
             /\ \/ it.pos + it.len <= s
                \/ NearPos <= it.pos /\ it.pos + it.len <= NearPos + 64 * (m + 1)
  BY <1>1 DEF Layout, Fits, ItemSet
<1>3. ASSUME NEW a \in c \cup items, NEW b \in c \cup items, a # b
      PROVE  a.pos + a.len <= b.pos \/ b.pos + b.len <= a.pos
  BY <1>1, <1>3 DEF Layout, Fits, ItemSet, ItemsApart
<1> QED
  BY <1>1, <1>2, <1>3 DEF Layout, ItemsApart

\* An operand relative to rip: a jump in the block, the instruction and the jump back in
\* near memory.
LEMMA X86RipHolds ==
  ASSUME IndInv, X86Rip
  PROVE  IndInv'
<1>1. X86Pending /\ Pending /\ Shape /\ prog.arch \in {"x64", "x86"}
  BY DEF X86Rip, X86Decoded, X86Pending, IndInv
<1>2. /\ Ins \in ItemSet /\ Ins.len \in 1..15 /\ Ins.lab = 0 /\ At \in Nat
      /\ Insn.length \in Nat /\ Insn.disp \in Int
  BY <1>1, InsFacts, InsnFacts DEF LengthsOf
<1>3. /\ size \in Nat /\ n \in Nat \ {0} /\ Len(labels) \in Nat /\ NearPos \in Nat /\ Relocated \in Nat
      /\ size + 14 \in Nat /\ size <= size + 14 /\ size + 14 <= size + 18
  BY <1>1, RelocateAssumption DEF Shape
<1>4. CASE X64
  <2> DEFINE near == NearPos + 64 * n
             it   == Copy(near, Ins)
             d    == (OrigIp + Insn.disp) - (Relocated + near + Insn.length)
             rip  == [it EXCEPT !.off = d]
             out  == JmpAbsolute(size, Relocated + near)
             back == JmpAbsolute(near + Insn.length, ReloIp(14))
  <2>1. near \in Nat /\ Relocated + near \in Int /\ d \in Int /\ ReloIp(14) \in Int
    <3>1. near \in Nat /\ Relocated + near \in Int /\ ReloIp(14) \in Int
      BY <1>3 DEF ReloIp
    <3>2. OrigIp \in Int
      BY <1>2 DEF OrigIp
    <3> HIDE DEF near
    <3>3. OrigIp + Insn.disp \in Int
      BY <1>2, <3>2
    <3>4. Relocated + near + Insn.length \in Int
      BY <1>2, <3>1
    <3> QED
      BY <3>1, <3>3, <3>4
  <2>2. X86Emitted(out \cup {rip} \cup back, size + 14)
    BY <1>4 DEF X86Rip
  <2>3. Piece(it, near, Ins.len, Ins.op, 0)
    BY <1>2, <2>1, CopyPiece
  <2>4. near = NearPos + 64 * n
    OBVIOUS
  <2> HIDE DEF it, d, near
  <2>5. Piece(rip, near, Ins.len, Ins.op, 0)
    <3>1. it \in ItemSet /\ it.pos = near /\ it.len = Ins.len /\ it.op = Ins.op /\ it.lab = 0
      BY <2>3 DEF Piece
    <3> QED
      BY <2>1, <3>1 DEF Piece, ItemSet
  <2> HIDE DEF rip
  <2>6. Fits(out, size, size + 14, Len(labels))
    BY <1>3, <2>1, JmpAbsoluteFits
  <2>7. CASE Insn.length = Ins.len
    <3>1. near + Ins.len \in Nat /\ near + Ins.len + 14 <= NearPos + 64 * (n + 1)
      <4>1. \A l \in 1..15 : near + l \in Nat /\ near + l + 14 <= NearPos + 64 * (n + 1)
        BY <1>3, <2>1, <2>4
      <4> QED
        BY <1>2, <4>1
    <3>2. Fits(back, near + Ins.len, near + Ins.len + 14, Len(labels))
      BY <1>3, <2>1, <2>7, <3>1, JmpAbsoluteFits
    <3>3. Fits({rip}, near, near + Ins.len, Len(labels))
      <4>1. Ins.len \in Nat \ {0} /\ 0 \in Nat /\ 0 <= Len(labels)
        BY <1>2, <1>3
      <4> QED
        BY <1>3, <2>1, <2>5, <4>1, FitsOne
    <3>4. near + Ins.len + 14 \in Nat /\ near <= near + Ins.len /\ near + Ins.len <= near + Ins.len + 14
      BY <1>2, <2>1
    <3> HIDE DEF out, back
    <3>5. Fits({rip} \cup back, near, near + Ins.len + 14, Len(labels))
      BY <1>3, <2>1, <3>1, <3>2, <3>3, <3>4, FitsTwo
    <3>6. Fits({rip} \cup back, NearPos + 64 * n, NearPos + 64 * (n + 1), Len(labels))
      <4>1. ASSUME NEW x \in {rip} \cup back
            PROVE  x.pos + x.len <= NearPos + 64 * (n + 1)
        BY <1>3, <3>1, <3>4, <3>5 DEF Fits, ItemSet
      <4> QED
        BY <2>4, <3>5, <4>1 DEF Fits
    <3>7. size + 14 <= NearPos
      BY <1>1, <1>4, NearBehind DEF Pending
    <3>8. Layout(X64, code, size, n, Len(labels)) /\ X64 \in BOOLEAN
      BY DEF IndInv, X64
    <3>9. n \in Nat /\ n <= n /\ Len(labels) <= Len(labels)
      BY <1>3
    <3>10. Layout(X64, code \cup out, size + 14, n, Len(labels))
      BY <1>3, <2>6, <3>7, <3>8, <3>9, Grow
    <3>11. X64 = TRUE
      BY <1>4 DEF X64
    <3>12. Layout(X64, (code \cup out) \cup ({rip} \cup back), size + 14, n + 1, Len(labels))
      BY <1>3, <3>6, <3>7, <3>9, <3>10, <3>11, GrowNear
    <3>13. (code \cup out) \cup ({rip} \cup back) = code \cup (out \cup {rip} \cup back)
      OBVIOUS
    <3>14. Layout(X64, code \cup (out \cup {rip} \cup back), size + 14, n + 1, Len(labels))
      BY <3>12, <3>13
    <3> QED
      BY <1>1, <1>3, <2>2, <3>14, X86Step
  <2>8. CASE Insn.length # Ins.len
    BY <1>1, <1>3, <2>2, <2>8, X86Step
  <2> QED
    BY <2>7, <2>8
<1>5. CASE ~X64
  <2> DEFINE a == Item(size, 14, "undef")
  <2>1. "undef" \in Ops /\ 14 \in Nat
    BY DEF Ops
  <2>2. Piece(a, size, 14, "undef", 0)
    BY <1>3, <2>1, ItemPiece
  <2>3. X86Emitted({a}, size + 14)
    BY <1>5 DEF X86Rip
  <2> HIDE DEF a
  <2>4. Fits({a}, size, size + 14, Len(labels))
    BY <1>3, <2>2 DEF Fits, Piece, ItemsApart
  <2> QED
    BY <1>1, <1>3, <1>5, <2>3, <2>4, X86AppendStep
<1> QED
  BY <1>4, <1>5

\* Every iteration of the x86 loop emits what it counts.
LEMMA X86InsnHolds ==
  ASSUME IndInv, X86Insn
  PROVE  IndInv'
<1>1. X86Pending /\ Pending /\ Shape /\ prog.arch \in {"x64", "x86"}
  BY DEF X86Insn, X86Sse, X86Jcc8, X86Rip, X86RipNoMemory, X86Jmp8, X86CallJmp32, X86CallAssert,
         X86Loop, X86Copy, X86Decoded, X86Pending, IndInv
<1>2. /\ Ins \in ItemSet /\ Ins.lab = 0 /\ Ins.len \in 1..15 /\ Ins.cond \in Conds /\ At \in Nat
  BY <1>1, InsFacts DEF LengthsOf, ItemSet
<1>3. Insn.length \in Nat /\ Insn.immoff \in Nat /\ Insn.imm \in Int
  BY <1>1, InsnFacts
<1>4. /\ size \in Nat /\ Len(labels) \in Nat /\ Relocated \in Nat
      /\ \A l \in Nat : size + l \in Nat /\ size <= size + l
      /\ \A l \in Nat : l <= 18 => size + l <= size + 18
  BY <1>1, RelocateAssumption DEF Shape
<1>5. OrigIp + Insn.imm \in Int /\ \A l \in Nat : (OrigIp + Insn.imm) - ReloIp(l) \in Int
  BY <1>2, <1>3, <1>4 DEF OrigIp, ReloIp
<1>6. /\ "al" \in Conds /\ "pc" \in Regs /\ TRUE \in BOOLEAN /\ FALSE \in BOOLEAN
      /\ 2 \in Int /\ 8 \in Int /\ 14 \in Int
      /\ 2 \in Nat /\ 4 \in Nat /\ 5 \in Nat \ {0} /\ 6 \in Nat \ {0} /\ 8 \in Nat
  BY DEF Conds, Regs
<1> DEFINE dst == OrigIp + Insn.imm
<1>7. /\ dst \in Int /\ dst = OrigIp + Insn.imm
      /\ \A l \in Nat : dst - ReloIp(l) \in Int
  BY <1>5
<1> HIDE DEF dst
<1>8. ASSUME X86Emitted(JmpAbsolute(size, dst), size + 14)
      PROVE  IndInv'
  <2>1. Fits(JmpAbsolute(size, dst), size, size + 14, Len(labels))
    BY <1>4, <1>7, JmpAbsoluteFits
  <2>2. size + 14 \in Nat /\ size <= size + 14 /\ size + 14 <= size + 18
    BY <1>4
  <2> QED
    BY <1>1, <1>8, <2>1, <2>2, X86AppendStep
<1>9. ASSUME ~X64, NEW l \in Nat \ {0}, NEW c \in Conds, NEW lk \in BOOLEAN,
             X86Emitted({B(size, l, c, dst - ReloIp(l), lk)}, size + l)
      PROVE  IndInv'
  <2> DEFINE d == dst - ReloIp(l)
             a == B(size, l, c, d, lk)
  <2>1. d \in Int
    BY <1>7
  <2>2. X86Emitted({a}, size + l)
    BY <1>9
  <2> HIDE DEF d
  <2>3. Piece(a, size, l, "b", 0)
    BY <1>4, <2>1, BPiece
  <2> HIDE DEF a
  <2>4. Fits({a}, size, size + l, Len(labels)) /\ size + l \in Nat /\ size <= size + l
    BY <1>4, <2>3 DEF Fits, Piece, ItemsApart
  <2> QED
    BY <1>1, <1>9, <2>2, <2>4, X86AppendStep
<1>10. CASE X86Jcc8
  <2>1. CASE X64
    <3> DEFINE a == B(size, 2, Ins.cond, 2, FALSE)
               b == B(size + 2, 2, "al", 14, FALSE)
    <3>1. /\ size + 2 \in Nat /\ size + 4 \in Nat /\ size + 18 \in Nat /\ size <= size + 4
          /\ size + 4 <= size + 18 /\ size + 18 <= size + 18 /\ size <= size + 18
          /\ (size + 4) + 14 = size + 18
      BY <1>4
    <3>2. Piece(a, size, 2, "b", 0) /\ Piece(b, size + 2, 2, "b", 0)
      BY <1>2, <1>4, <1>6, <3>1, BPiece
    <3>3. X86Emitted({a, b} \cup JmpAbsolute(size + 4, dst), size + 18)
      BY <1>7, <1>10, <2>1 DEF X86Jcc8
    <3> HIDE DEF a, b
    <3>4. Fits({a, b}, size, size + 4, Len(labels))
      BY <1>4, <3>2 DEF Fits, Piece, ItemsApart
    <3>5. Fits(JmpAbsolute(size + 4, dst), size + 4, size + 18, Len(labels))
      BY <1>4, <1>7, <3>1, JmpAbsoluteFits
    <3>6. Fits({a, b} \cup JmpAbsolute(size + 4, dst), size, size + 18, Len(labels))
      BY <1>4, <3>1, <3>4, <3>5, FitsTwo
    <3> QED
      BY <1>1, <3>1, <3>3, <3>6, X86AppendStep
  <2>2. CASE ~X64
    <3>1. X86Emitted({B(size, 6, Ins.cond, dst - ReloIp(6), FALSE)}, size + 6)
      BY <1>7, <1>10, <2>2 DEF X86Jcc8
    <3> QED
      BY <1>2, <1>6, <1>9, <2>2, <3>1
  <2> QED
    BY <2>1, <2>2
<1>11. CASE X86Jmp8
  <2>1. CASE X64
    BY <1>7, <1>8, <1>11, <2>1 DEF X86Jmp8
  <2>2. CASE ~X64
    <3>1. X86Emitted({B(size, 5, "al", dst - ReloIp(5), FALSE)}, size + 5)
      BY <1>7, <1>11, <2>2 DEF X86Jmp8
    <3> QED
      BY <1>6, <1>9, <2>2, <3>1
  <2> QED
    BY <2>1, <2>2
<1>12. CASE X86CallJmp32
  <2>1. CASE X64 /\ Insn.op = 232
    <3> DEFINE i0 == Ldr(size, 6, "pc", 2)
               a  == [i0 EXCEPT !.link = TRUE]
               b  == B(size + 6, 2, "al", 8, FALSE)
               d  == Data(size + 8, 8, dst)
    <3>1. /\ size + 6 \in Nat /\ size + 8 \in Nat /\ size + 16 \in Nat /\ size <= size + 16
          /\ size + 16 <= size + 18
      BY <1>4
    <3>2. Piece(i0, size, 6, "ldr", 0)
      BY <1>4, <1>6, LdrPiece
    <3>3. Piece(b, size + 6, 2, "b", 0) /\ Piece(d, size + 8, 8, "data", 0)
      BY <1>6, <1>7, <3>1, BPiece, DataPiece
    <3>4. X86Emitted({a, b, d}, size + 16)
      BY <1>7, <1>12, <2>1 DEF X86CallJmp32
    <3> HIDE DEF i0
    <3>5. i0 \in ItemSet /\ i0.pos = size /\ i0.len = 6 /\ i0.op = "ldr" /\ i0.lab = 0
      BY <3>2 DEF Piece
    <3>6. Piece(a, size, 6, "ldr", 0)
      BY <3>5 DEF Piece, ItemSet
    <3> HIDE DEF a, b, d
    <3>7. Fits({a, b, d}, size, size + 16, Len(labels))
      BY <1>4, <3>3, <3>6 DEF Fits, Piece, ItemsApart
    <3> QED
      BY <1>1, <3>1, <3>4, <3>7, X86AppendStep
  <2>2. CASE X64 /\ Insn.op = 233
    <3>1. X86Emitted(JmpAbsolute(size, dst), size + 14)
      BY <1>7, <1>12, <2>2 DEF X86CallJmp32
    <3> QED
      BY <1>8, <3>1
  <2>3. CASE ~X64
    <3> DEFINE l == Insn.immoff + 4
    <3>1. l \in Nat \ {0} /\ (Insn.op = 232) \in BOOLEAN
      BY <1>3
    <3>2. X86Emitted({B(size, l, "al", dst - ReloIp(l), Insn.op = 232)}, size + l)
      BY <1>7, <1>12, <2>3 DEF X86CallJmp32
    <3> HIDE DEF l
    <3> QED
      BY <1>6, <1>9, <2>3, <3>1, <3>2
  <2> QED
    BY <1>12, <2>1, <2>2, <2>3 DEF X86CallJmp32, IsCallJmp32
<1>13. CASE X86Copy
  <2> DEFINE a == Copy(size, Ins)
  <2>1. Piece(a, size, Ins.len, Ins.op, 0)
    BY <1>2, <1>4, CopyPiece
  <2>2. X86Emitted({a}, size + Insn.length)
    BY <1>13 DEF X86Copy
  <2> HIDE DEF a
  <2>3. size + Insn.length \in Nat /\ size <= size + Insn.length
    BY <1>3, <1>4
  <2>4. CASE Insn.length = Ins.len
    <3>1. Fits({a}, size, size + Insn.length, Len(labels))
      <4>1. Ins.len > 0
        BY <1>2
      <4> QED
        BY <1>2, <1>4, <2>1, <2>4, <4>1 DEF Fits, Piece, ItemsApart
    <3>2. size + Insn.length <= size + 18
      BY <1>2, <1>4, <2>4
    <3> QED
      BY <1>1, <2>2, <2>3, <3>1, <3>2, X86AppendStep
  <2>5. CASE Insn.length # Ins.len
    BY <2>2, <2>5, PhaseStep DEF X86Emitted
  <2> QED
    BY <2>4, <2>5
<1>14. CASE X86Sse \/ X86RipNoMemory \/ X86CallAssert \/ X86Loop
  BY <1>14, AbortHolds DEF X86Sse, X86RipNoMemory, X86CallAssert, X86Loop
<1> QED
  BY <1>10, <1>11, <1>12, <1>13, <1>14, X86RipHolds DEF X86Insn

-----------------------------------------------------------------------------
(***************************************************************************)
(* The end of GenRelocateCode.                                             *)
(***************************************************************************)
\* A step that appends code outside the loop, on ARM, Thumb and ARM64.
LEMMA TailStep ==
  ASSUME IndInv, prog.arch \in {"arm", "thumb", "a64"}, NEW items, NEW end \in Nat,
         code' = code \cup items, size' = end, labels' \in Seq(Int), Len(labels) <= Len(labels'),
         UNCHANGED <<prog, n, cur, offs, changed, cap>>,
         phase' \in {"insns", "fixup", "bind"}, phase' = "fixup" => prog.arch # "a64",
         size <= end, Fits(items, size, end, Len(labels')),
         prog.arch = "thumb" => /\ end % 2 = 0 /\ \A it \in items : Aligned(it)
                                /\ phase' # "insns" => end % 4 = 0
  PROVE  IndInv'
<1>1. Shape'
  BY DEF IndInv, Shape, KnownProgram, Phases
<1>2. Stage'
  BY DEF Stage
<1>3. ThumbAligned'
  BY DEF IndInv, ThumbAligned
<1>4. NearRoom' /\ Linked'
  BY DEF NearRoom, Linked
<1>5. Layout(X64, code, size, n, Len(labels))'
  <2>1. /\ size \in Nat /\ n \in Nat /\ n <= n /\ Len(labels) \in Nat /\ Len(labels') \in Nat
        /\ X64 \in BOOLEAN /\ ~X64
    BY DEF IndInv, Shape, X64
  <2>2. Layout(X64, code, size, n, Len(labels))
    BY DEF IndInv
  <2>3. Layout(X64, code \cup items, end, n, Len(labels'))
    BY <2>1, <2>2, Grow
  <2> QED
    BY <2>3 DEF X64, Layout
<1> QED
  BY <1>1, <1>2, <1>3, <1>4, <1>5 DEF IndInv

\* The second entry into the Thumb loop.
LEMMA RemainHolds ==
  ASSUME IndInv, RelocateRemain
  PROVE  IndInv'
<1>1. prog.arch = "thumb" /\ size \in Nat /\ size % 2 = 0 /\ labels \in Seq(Int) /\ Len(labels) \in Nat
  BY DEF IndInv, Stage, ThumbAligned, Shape, RelocateRemain
<1> DEFINE a == Nop(size, 2)
<1>2. Piece(a, size, 2, "nop", 0)
  BY <1>1, NopPiece
<1>3. CASE size % 4 # 0
  <2>1. code' = code \cup {a} /\ size' = size + 2
    BY <1>3 DEF RelocateRemain
  <2> HIDE DEF a
  <2>2. /\ Fits({a}, size, size + 2, Len(labels)) /\ Aligned(a) /\ size + 2 \in Nat
        /\ size <= size + 2 /\ (size + 2) % 2 = 0
    BY <1>1, <1>2 DEF Fits, Piece, ItemsApart, Aligned
  <2>3. \A it \in {a} : Aligned(it)
    BY <2>2
  <2>4. labels' = labels /\ Len(labels) <= Len(labels')
    BY <1>1 DEF RelocateRemain
  <2> QED
    BY <1>1, <2>1, <2>2, <2>3, <2>4, TailStep DEF RelocateRemain
<1>4. CASE size % 4 = 0
  <2>1. code' = code \cup {} /\ size' = size
    BY <1>4 DEF RelocateRemain
  <2>2. Fits({}, size, size, Len(labels)) /\ size <= size
    BY <1>1 DEF Fits, ItemsApart
  <2>3. labels' = labels /\ Len(labels) <= Len(labels')
    BY <1>1 DEF RelocateRemain
  <2> QED
    BY <1>1, <2>1, <2>2, <2>3, TailStep DEF RelocateRemain
<1> QED
  BY <1>3, <1>4

\* The branch back to the function.
LEMMA ARMBackHolds ==
  ASSUME IndInv, ARMBranchBack
  PROVE  IndInv'
<1>1. /\ prog.arch = "arm" /\ size \in Nat /\ labels \in Seq(Int) /\ Len(labels) \in Nat
      /\ Source + cur \in Int
  BY RelocateAssumption DEF IndInv, Shape, ARMBranchBack
<1> DEFINE a == Ldr(size, 4, "pc", -4)
           b == Data(size + 4, 4, Source + cur)
<1>2. size + 4 \in Nat /\ size + 8 \in Nat /\ size <= size + 8 /\ "pc" \in Regs /\ -4 \in Int /\ 4 \in Nat
  BY <1>1 DEF Regs
<1>3. Piece(a, size, 4, "ldr", 0) /\ Piece(b, size + 4, 4, "data", 0)
  BY <1>1, <1>2, LdrPiece, DataPiece
<1>4. code' = code \cup {a, b} /\ size' = size + 8 /\ labels' = labels
  BY DEF ARMBranchBack
<1> HIDE DEF a, b
<1>5. Fits({a, b}, size, size + 8, Len(labels')) /\ Len(labels) <= Len(labels')
  BY <1>1, <1>3, <1>4 DEF Fits, Piece, ItemsApart
<1> QED
  BY <1>1, <1>2, <1>4, <1>5, TailStep DEF ARMBranchBack

LEMMA ThumbBackHolds ==
  ASSUME IndInv, ThumbBranchBack
  PROVE  IndInv'
<1>1. /\ prog.arch = "thumb" /\ size \in Nat /\ labels \in Seq(Int) /\ Len(labels) \in Nat
      /\ Source + cur + 1 \in Int /\ size % 2 = 0
  BY RelocateAssumption DEF IndInv, Shape, ThumbAligned, ThumbBranchBack
<1> DEFINE s == AlignThumb(size)
           a == Ldr(s, 4, "pc", 0)
           b == Data(s + 4, 4, Source + cur + 1)
           z == Nop(size, 2)
           pad == {Nop(p, 2) : p \in {size} \ {s}}
<1>2. s \in Nat /\ s % 4 = 0 /\ (s = size \/ s = size + 2)
  BY <1>1 DEF AlignThumb
<1>3. code' = code \cup ({a, b} \cup pad) /\ size' = s + 8 /\ labels' = labels
  BY DEF ThumbBranchBack
<1> HIDE DEF s
<1>4. /\ s + 4 \in Nat /\ s + 8 \in Nat /\ size <= s + 8 /\ (s + 8) % 4 = 0 /\ (s + 8) % 2 = 0
      /\ (s + 4) % 4 = 0 /\ "pc" \in Regs /\ 0 \in Int /\ 4 \in Nat
  BY <1>1, <1>2 DEF Regs
<1>5. Piece(a, s, 4, "ldr", 0) /\ Piece(b, s + 4, 4, "data", 0) /\ Piece(z, size, 2, "nop", 0)
  BY <1>1, <1>2, <1>4, LdrPiece, DataPiece, NopPiece
<1>6. pad = IF s = size THEN {} ELSE {z}
  OBVIOUS
<1> HIDE DEF a, b, z, pad
<1>7. Fits({a, b} \cup pad, size, s + 8, Len(labels')) /\ Len(labels) <= Len(labels')
  <2>1. Fits(pad, size, s, Len(labels)) /\ size <= s /\ s <= s + 8
    BY <1>1, <1>2, <1>5, <1>6 DEF Fits, Piece, ItemsApart
  <2>2. Fits({a, b}, s, s + 8, Len(labels))
    BY <1>1, <1>2, <1>5 DEF Fits, Piece, ItemsApart
  <2>3. Fits(pad \cup {a, b}, size, s + 8, Len(labels))
    BY <1>1, <1>2, <1>4, <2>1, <2>2, FitsTwo
  <2>4. pad \cup {a, b} = {a, b} \cup pad
    OBVIOUS
  <2>5. Len(labels) <= Len(labels')
    BY <1>1, <1>3
  <2> QED
    BY <1>3, <2>3, <2>4, <2>5
<1>8. \A it \in {a, b} \cup pad : Aligned(it)
  BY <1>2, <1>4, <1>5, <1>6 DEF Aligned, Piece
<1> QED
  BY <1>1, <1>3, <1>4, <1>7, <1>8, TailStep DEF ThumbBranchBack

LEMMA A64BackHolds ==
  ASSUME IndInv, A64BranchBack
  PROVE  IndInv'
<1>1. /\ prog.arch = "a64" /\ size \in Nat /\ labels \in Seq(Int) /\ Len(labels) \in Nat
      /\ Source + cur \in Int /\ size + 8 \in Nat /\ size <= size + 8
  BY RelocateAssumption DEF IndInv, Shape, A64BranchBack
<1>2. code' = code \cup A64Jump(size, FALSE) /\ size' = size + 8 /\ labels' = Append(labels, Source + cur)
  BY DEF A64BranchBack
<1>3. labels' \in Seq(Int) /\ Len(labels') = Len(labels) + 1
  BY <1>1, <1>2, AppendProperties
<1>4. Fits(A64Jump(size, FALSE), size, size + 8, Len(labels')) /\ Len(labels) <= Len(labels')
  <2>1. Fits(A64Jump(size, FALSE), size, size + 8, Len(labels) + 1)
    BY <1>1, A64JumpFits
  <2>2. Len(labels) <= Len(labels')
    BY <1>1, <1>3
  <2> QED
    BY <1>3, <2>1, <2>2
<1> QED
  BY <1>1, <1>2, <1>3, <1>4, TailStep DEF A64BranchBack

\* The fixup changes the data of labels, not their number.
LEMMA FixupHolds ==
  ASSUME IndInv, RelocLabelFixup
  PROVE  IndInv'
<1>1. /\ prog.arch \in {"arm", "thumb"} /\ size \in Nat /\ labels \in Seq(Int)
      /\ offs \in Seq(Nat \X Nat)
  BY DEF IndInv, Shape, Stage, RelocLabelFixup
<1> DEFINE hit(v) == {i \in DOMAIN offs : offs[i][1] = v}
           new(k) == IF hit(labels[k]) = {} THEN labels[k]
                     ELSE offs[CHOOSE i \in hit(labels[k]) : TRUE][2]
<1>2. labels' = [k \in DOMAIN labels |-> new(k)]
  BY DEF RelocLabelFixup
<1>3. ASSUME NEW k \in DOMAIN labels
      PROVE  new(k) \in Int
  <2>1. labels[k] \in Int
    BY <1>1, <1>3
  <2>2. CASE hit(labels[k]) # {}
    <3>1. (CHOOSE i \in hit(labels[k]) : TRUE) \in DOMAIN offs
      BY <2>2
    <3>2. \A i \in DOMAIN offs : offs[i][2] \in Int
      BY <1>1
    <3> QED
      BY <2>1, <3>1, <3>2
  <2> QED
    BY <2>1, <2>2
<1> HIDE DEF new
<1>4. labels' \in Seq(Int) /\ Len(labels') = Len(labels)
  <2>1. DOMAIN labels = 1..Len(labels) /\ Len(labels) \in Nat
    BY <1>1
  <2> QED
    BY <1>2, <1>3, <2>1
<1>5. Shape'
  BY <1>4 DEF IndInv, Shape, KnownProgram, RelocLabelFixup, Phases
<1>6. Stage'
  BY <1>1 DEF Stage, RelocLabelFixup
<1>7. ThumbAligned'
  BY DEF IndInv, ThumbAligned, RelocLabelFixup
<1>8. NearRoom' /\ Linked'
  BY DEF NearRoom, Linked, RelocLabelFixup
<1>9. Layout(X64, code, size, n, Len(labels))'
  BY <1>4 DEF IndInv, RelocLabelFixup, X64, Layout
<1> QED
  BY <1>5, <1>6, <1>7, <1>8, <1>9 DEF IndInv

\* RelocBind: the labels are laid behind the code, each load gets the distance to its own.
LEMMA BindHolds ==
  ASSUME IndInv, phase = "bind", NEW bytes \in {4, 8}, Bound(bytes, Bias),
         prog.arch = "thumb" => bytes = 4
  PROVE  IndInv'
<1>1. /\ prog.arch \in {"arm", "thumb", "a64"} /\ size \in Nat /\ labels \in Seq(Int)
      /\ Len(labels) \in Nat /\ Bias \in Nat /\ code \subseteq ItemSet /\ ItemsApart(code)
      /\ DOMAIN labels = 1..Len(labels)
  BY DEF IndInv, Shape, Stage, Bias, Layout
<1>2. \A it \in code : it.pos + it.len <= size /\ it.lab <= Len(labels) /\ it.len > 0
  BY <1>1 DEF IndInv, Layout, X64
<1> DEFINE f(it) == IF it.lab = 0 THEN it
                    ELSE [it EXCEPT !.off = LabelPos(it.lab, bytes) - (it.pos + Bias)]
           d(k)  == Data(LabelPos(k, bytes), bytes, labels[k])
           end   == size + Len(labels) * bytes
<1>3. /\ code' = {f(it) : it \in code} \cup {d(k) : k \in DOMAIN labels}
      /\ size' = end /\ phase' = "finalize" /\ UNCHANGED <<prog, n, cur, labels, offs, changed, cap>>
  BY DEF Bound
<1>4. end \in Nat /\ size <= end
  BY <1>1
<1>5. ASSUME NEW k \in Nat \ {0}
      PROVE  LabelPos(k, bytes) \in Nat /\ LabelPos(k, bytes) >= size
  BY <1>1 DEF LabelPos
<1>6. ASSUME NEW k \in DOMAIN labels
      PROVE  LabelPos(k, bytes) + bytes <= end
  <2>1. k \in Nat /\ 1 <= k /\ k <= Len(labels)
    BY <1>1
  <2>2. CASE bytes = 4
    BY <1>1, <2>1, <2>2 DEF LabelPos
  <2>3. CASE bytes = 8
    BY <1>1, <2>1, <2>3 DEF LabelPos
  <2> QED
    BY <2>2, <2>3
<1>7. ASSUME NEW j \in DOMAIN labels, NEW k \in DOMAIN labels, j < k
      PROVE  LabelPos(j, bytes) + bytes <= LabelPos(k, bytes)
  <2>1. j \in Nat /\ k \in Nat
    BY <1>1
  <2>2. CASE bytes = 4
    BY <1>1, <1>7, <2>1, <2>2 DEF LabelPos
  <2>3. CASE bytes = 8
    BY <1>1, <1>7, <2>1, <2>3 DEF LabelPos
  <2> QED
    BY <2>2, <2>3
<1>8. ASSUME NEW it \in code
      PROVE  /\ f(it) \in ItemSet /\ f(it).pos = it.pos /\ f(it).len = it.len
             /\ f(it).op = it.op /\ f(it).lab = it.lab
             /\ it.lab # 0 => f(it).off = LabelPos(it.lab, bytes) - (it.pos + Bias)
  <2>1. it \in ItemSet
    BY <1>1
  <2>2. CASE it.lab = 0
    BY <2>1, <2>2
  <2>3. CASE it.lab # 0
    <3> DEFINE o == LabelPos(it.lab, bytes) - (it.pos + Bias)
    <3>1. it.lab \in Nat \ {0} /\ it.pos \in Nat
      BY <2>1, <2>3 DEF ItemSet
    <3>2. LabelPos(it.lab, bytes) \in Nat
      BY <1>5, <3>1
    <3>3. o \in Int
      BY <1>1, <3>1, <3>2
    <3>4. f(it) = [it EXCEPT !.off = o]
      BY <2>3
    <3> HIDE DEF o, f
    <3>5. /\ [it EXCEPT !.off = o] \in ItemSet /\ [it EXCEPT !.off = o].pos = it.pos
          /\ [it EXCEPT !.off = o].len = it.len /\ [it EXCEPT !.off = o].op = it.op
          /\ [it EXCEPT !.off = o].lab = it.lab /\ [it EXCEPT !.off = o].off = o
      BY <2>1, <3>3 DEF ItemSet
    <3> QED
      BY <3>4, <3>5 DEF o
  <2> QED
    BY <2>2, <2>3
<1>9. ASSUME NEW k \in DOMAIN labels
      PROVE  Piece(d(k), LabelPos(k, bytes), bytes, "data", 0) /\ d(k).val = labels[k]
  <2>1. k \in Nat \ {0} /\ labels[k] \in Int /\ bytes \in Nat
    BY <1>1
  <2> QED
    BY <1>5, <2>1, DataPiece
<1> HIDE DEF f, d, end
<1>10. code' \subseteq ItemSet
  BY <1>3, <1>8, <1>9 DEF Piece
<1>11. ASSUME NEW x \in code'
       PROVE  x.lab <= Len(labels) /\ x.pos + x.len <= end /\ x.len > 0
  <2>1. CASE \E it \in code : x = f(it)
    <3>1. PICK it \in code : x = f(it)
      BY <2>1
    <3>2. it.pos \in Nat /\ it.len \in Nat
      BY <1>1 DEF ItemSet
    <3> QED
      BY <1>1, <1>2, <1>4, <1>8, <3>1, <3>2
  <2>2. CASE \E k \in DOMAIN labels : x = d(k)
    BY <1>1, <1>6, <1>9, <2>2 DEF Piece
  <2> QED
    BY <1>3, <2>1, <2>2
<1>12. ASSUME NEW x \in code', NEW y \in code', x # y
       PROVE  x.pos + x.len <= y.pos \/ y.pos + y.len <= x.pos
  <2>1. ASSUME NEW it \in code, NEW k \in DOMAIN labels
        PROVE  f(it).pos + f(it).len <= d(k).pos
    <3>1. it.pos \in Nat /\ it.len \in Nat /\ it.pos + it.len <= size
      BY <1>1, <1>2 DEF ItemSet
    <3>2. LabelPos(k, bytes) \in Nat /\ LabelPos(k, bytes) >= size
      BY <1>1, <1>5
    <3> QED
      BY <1>1, <1>8, <1>9, <3>1, <3>2 DEF Piece
  <2>2. ASSUME NEW i \in code, NEW j \in code, f(i) # f(j)
        PROVE  f(i).pos + f(i).len <= f(j).pos \/ f(j).pos + f(j).len <= f(i).pos
    BY <1>1, <1>8, <2>2 DEF ItemsApart
  <2>3. ASSUME NEW j \in DOMAIN labels, NEW k \in DOMAIN labels, d(j) # d(k)
        PROVE  d(j).pos + d(j).len <= d(k).pos \/ d(k).pos + d(k).len <= d(j).pos
    <3>1. j # k /\ j \in Nat /\ k \in Nat
      BY <1>1, <2>3
    <3>2. j < k \/ k < j
      BY <3>1
    <3> QED
      BY <1>7, <1>9, <3>2 DEF Piece
  <2> QED
    BY <1>3, <1>12, <2>1, <2>2, <2>3
<1>13. Layout(X64, code, size, n, Len(labels))'
  BY <1>3, <1>10, <1>11, <1>12 DEF Layout, ItemsApart
<1>14. Linked'
  <2> SUFFICES ASSUME NEW x \in code', x.lab # 0
               PROVE  \E y \in code' : /\ y.op = "data" /\ y.pos = x.pos + Bias + x.off
                                       /\ y.val = labels[x.lab]
    BY <1>3 DEF Linked, Bias
  <2>1. PICK it \in code : x = f(it)
    BY <1>3, <1>9 DEF Piece
  <2>2. x.lab = it.lab /\ x.pos = it.pos /\ x.off = LabelPos(it.lab, bytes) - (it.pos + Bias)
    BY <1>8, <2>1
  <2>3. it.lab \in DOMAIN labels /\ it.lab \in Nat \ {0} /\ it.pos \in Nat
    BY <1>1, <1>2, <2>2 DEF ItemSet
  <2>4. d(it.lab) \in code'
    BY <1>3, <2>3
  <2>5. LabelPos(it.lab, bytes) = it.pos + Bias + x.off
    <3>1. \A l, a, b \in Nat : l = a + b + (l - (a + b))
      OBVIOUS
    <3>2. LabelPos(it.lab, bytes) \in Nat
      BY <1>5, <2>3
    <3> QED
      BY <1>1, <2>2, <2>3, <3>1, <3>2
  <2> QED
    BY <1>9, <2>2, <2>3, <2>4, <2>5 DEF Piece
<1>15. ThumbAligned'
  <2> SUFFICES ASSUME prog.arch = "thumb"
               PROVE  end % 2 = 0 /\ \A x \in code' : Aligned(x)
    BY <1>3 DEF ThumbAligned
  <2>1. bytes = 4 /\ size % 4 = 0
    BY DEF IndInv, ThumbAligned
  <2>2. end % 2 = 0
    BY <1>1, <2>1 DEF end
  <2>3. \A it \in code : Aligned(f(it))
    BY <1>8 DEF IndInv, ThumbAligned, Aligned
  <2>4. ASSUME NEW k \in DOMAIN labels
        PROVE  Aligned(d(k))
    <3>1. k \in Nat
      BY <1>1
    <3>2. LabelPos(k, bytes) % 4 = 0
      BY <1>1, <2>1, <3>1 DEF LabelPos
    <3> QED
      BY <1>9, <3>2 DEF Aligned, Piece
  <2> QED
    BY <1>3, <2>2, <2>3, <2>4
<1>16. Shape'
  BY <1>3, <1>4 DEF IndInv, Shape, KnownProgram, Phases
<1>17. Stage' /\ NearRoom'
  BY <1>1, <1>3 DEF IndInv, Stage, NearRoom
<1> QED
  BY <1>13, <1>14, <1>15, <1>16, <1>17 DEF IndInv

\* The jump back of x86 code; the block may turn out to be too small.
LEMMA X86BackHolds ==
  ASSUME IndInv, X86BranchBack
  PROVE  IndInv'
<1>1. /\ prog.arch \in {"x64", "x86"} /\ phase = "branch" /\ prog \in ProgramSet /\ cur \in Nat
      /\ size \in Nat /\ n \in Nat /\ n <= n /\ labels = <<>> /\ Len(labels) = 0 /\ 0 \in Nat /\ 0 <= 0
      /\ Relocated \in Nat /\ Source + cur \in Int /\ X64 \in BOOLEAN
  BY RelocateAssumption DEF IndInv, Shape, Stage, X86BranchBack, X64
<1>2. /\ prog' \in ProgramSet /\ prog'.arch = prog.arch /\ prog'.insns = prog.insns
      /\ prog'.bytes = prog.bytes
  BY <1>1 DEF X86BranchBack, ProgramSet
<1>3. /\ phase' \in {"retry", "done"}
      /\ UNCHANGED <<n, cur, labels, offs, changed, cap>>
  BY DEF X86BranchBack
<1>4. Layout(X64, code, size, n, 0)
  BY <1>1 DEF IndInv
<1>5. Layout(X64, code', size', n, 0) /\ size' \in Nat
  <2>1. CASE X64
    <3>1. code' = code \cup JmpAbsolute(size, Source + cur) /\ size' = size + 14
      BY <2>1 DEF X86BranchBack
    <3>2. Fits(JmpAbsolute(size, Source + cur), size, size + 14, 0)
      BY <1>1, JmpAbsoluteFits
    <3>3. size + 14 <= NearPos
      BY <1>1, <2>1, NearBehind
    <3>4. size + 14 \in Nat /\ size <= size + 14
      BY <1>1
    <3>5. Layout(X64, code \cup JmpAbsolute(size, Source + cur), size + 14, n, 0)
      BY <1>1, <1>4, <3>2, <3>3, <3>4, Grow
    <3> QED
      BY <3>1, <3>4, <3>5
  <2>2. CASE ~X64
    <3> DEFINE o == Source + cur - ReloIp(5)
               a == B(size, 5, "al", o, FALSE)
    <3>1. o \in Int
      BY <1>1, RelocateAssumption DEF ReloIp
    <3>2. code' = code \cup {a} /\ size' = size + 5
      BY <2>2 DEF X86BranchBack
    <3> HIDE DEF o
    <3>3. "al" \in Conds /\ FALSE \in BOOLEAN /\ 5 \in Nat
      BY DEF Conds
    <3>4. Piece(a, size, 5, "b", 0)
      BY <1>1, <3>1, <3>3, BPiece
    <3> HIDE DEF a
    <3>5. Fits({a}, size, size + 5, 0) /\ size + 5 \in Nat /\ size <= size + 5
      BY <1>1, <3>4 DEF Fits, Piece, ItemsApart
    <3>6. Layout(X64, code \cup {a}, size + 5, n, 0)
      BY <1>1, <1>4, <2>2, <3>5, Grow
    <3> QED
      BY <3>2, <3>5, <3>6
  <2> QED
    BY <2>1, <2>2
<1>6. Layout(X64, code, size, n, Len(labels))'
  BY <1>1, <1>2, <1>3, <1>5 DEF Layout, X64
<1>7. Linked'
  <2>1. \A it \in code' : it \in ItemSet /\ it.lab <= 0
    BY <1>5 DEF Layout
  <2>2. \A it \in code' : it.lab = 0
    BY <2>1 DEF ItemSet
  <2> QED
    BY <2>2 DEF Linked
<1>8. Shape'
  <2>1. KnownProgram'
    BY <1>2 DEF IndInv, Shape, KnownProgram
  <2> QED
    BY <1>2, <1>3, <1>5, <2>1 DEF IndInv, Shape, Phases
<1>9. Stage' /\ NearRoom' /\ ThumbAligned'
  BY <1>1, <1>2, <1>3 DEF Stage, NearRoom, ThumbAligned
<1> QED
  BY <1>6, <1>7, <1>8, <1>9 DEF IndInv

LEMMA TryAgainHolds ==
  ASSUME IndInv, X86TryAgain
  PROVE  IndInv'
<1>1. prog.arch \in {"x64", "x86"} /\ cap \in Nat /\ Len(prog.insns) \in Nat
  BY DEF IndInv, Shape, Stage, X86TryAgain, ProgramSet
<1>2. Shape'
  <2>1. (prog \in ProgramSet /\ KnownProgram)'
    BY DEF IndInv, Shape, KnownProgram, X86TryAgain
  <2>2. <<>> \in Seq(Int) /\ <<>> \in Seq(Nat \X Nat)
    OBVIOUS
  <2> QED
    BY <1>1, <2>1, <2>2 DEF IndInv, Shape, X86TryAgain, Phases
<1>3. Stage' /\ NearRoom' /\ ThumbAligned' /\ Linked'
  BY <1>1 DEF Stage, NearRoom, ThumbAligned, Linked, X86TryAgain
<1>4. Layout(X64, code, size, n, Len(labels))'
  BY DEF Layout, ItemsApart, X86TryAgain
<1> QED
  BY <1>2, <1>3, <1>4 DEF IndInv

-----------------------------------------------------------------------------
(***************************************************************************)
(* The invariant and the properties.                                       *)
(***************************************************************************)
LEMMA InitHolds == Init => IndInv
<1> SUFFICES ASSUME Init PROVE IndInv
  OBVIOUS
<1>1. prog \in ProgramSet /\ KnownProgram
  BY RelocateAssumption DEF Init, KnownProgram
<1>2. <<>> \in Seq(Int) /\ <<>> \in Seq(Nat \X Nat) /\ Len(prog.insns) \in Nat
  BY <1>1 DEF ProgramSet
<1>3. Shape
  BY <1>1, <1>2 DEF Init, Shape, Phases
<1>4. Stage /\ ThumbAligned /\ NearRoom /\ Linked
  BY <1>2 DEF Init, Stage, ThumbAligned, NearRoom, Linked
<1>5. Layout(X64, code, size, n, Len(labels))
  BY DEF Init, Layout, ItemsApart
<1> QED
  BY <1>3, <1>4, <1>5 DEF IndInv

LEMMA NextHolds == IndInv /\ [Next]_vars => IndInv'
<1> SUFFICES ASSUME IndInv, [Next]_vars PROVE IndInv'
  OBVIOUS
<1>1. CASE LoopEnds
  BY <1>1, PhaseStep DEF LoopEnds
<1>2. CASE ARMNext
  <2>1. CASE ARMRelocBind
    <3>1. phase = "bind" /\ Bound(4, Bias) /\ prog.arch = "arm"
      BY <2>1 DEF ARMRelocBind, Bias
    <3> QED
      BY <3>1, BindHolds
  <2>2. CASE ThumbRelocBind
    <3>1. phase = "bind" /\ Bound(4, Bias) /\ prog.arch = "thumb"
      BY <2>2 DEF ThumbRelocBind, Bias
    <3> QED
      BY <3>1, BindHolds
  <2>3. CASE ARMFinalize
    BY <2>3, PhaseStep DEF ARMFinalize, Finalized
  <2> QED
    BY <1>2, <2>1, <2>2, <2>3, ARMInsnHolds, ThumbInsnHolds, RemainHolds, ARMBackHolds,
       ThumbBackHolds, FixupHolds DEF ARMNext
<1>3. CASE A64Next
  <2>1. CASE A64RelocBind
    <3>1. phase = "bind" /\ Bound(8, Bias) /\ prog.arch = "a64"
      BY <2>1 DEF A64RelocBind, Bias
    <3> QED
      BY <3>1, BindHolds
  <2>2. CASE A64Finalize
    BY <2>2, PhaseStep DEF A64Finalize, Finalized
  <2> QED
    BY <1>3, <2>1, <2>2, A64InsnHolds, A64BackHolds DEF A64Next
<1>4. CASE X86Next
  <2>1. CASE X86NoBlock
    BY <2>1, PhaseStep DEF X86NoBlock
  <2> QED
    BY <1>4, <2>1, X86InsnHolds, X86BackHolds, TryAgainHolds DEF X86Next
<1>5. CASE UNCHANGED vars
  <2>1. Shape'
    BY <1>5 DEF IndInv, Shape, KnownProgram, vars
  <2>2. Stage' /\ ThumbAligned' /\ NearRoom'
    BY <1>5 DEF IndInv, Stage, ThumbAligned, NearRoom, vars
  <2>3. Linked'
    BY <1>5 DEF IndInv, Linked, Bias, vars
  <2>4. Layout(X64, code, size, n, Len(labels))'
    BY <1>5 DEF IndInv, Layout, X64, vars
  <2> QED
    BY <2>1, <2>2, <2>3, <2>4 DEF IndInv
<1> QED
  BY <1>1, <1>2, <1>3, <1>4, <1>5 DEF Next

LEMMA IndInvHolds == Spec => []IndInv
<1>1. IndInv /\ [Next]_vars => IndInv'
  BY NextHolds
<1> QED
  BY <1>1, InitHolds, PTL DEF Spec

\* The state of GenRelocateCode keeps its types on every architecture, whatever the
\* function starts with: what the relocators emit are instructions and data.
THEOREM TypeCorrect == Spec => []TypeOK
<1>1. IndInv => TypeOK
  BY DEF IndInv, Shape, Layout, ProgramSet, TypeOK
<1> QED
  BY <1>1, IndInvHolds, PTL

\* Loads and data of relocated Thumb code are on words, and after RelocBind every load
\* with a label reads the data of its label.
THEOREM LoadsAreLinked == Spec => []LinkAligned
<1>1. IndInv => LinkAligned
  BY DEF IndInv, ThumbAligned, Aligned, Linked, LinkAligned
<1> QED
  BY <1>1, IndInvHolds, PTL

\* No sequence of the relocators is longer than they count, and none overwrites another,
\* in the block and in near memory.
THEOREM NothingOverwritten == Spec => []CodeDisjoint
<1>1. IndInv => CodeDisjoint
  <2> SUFFICES ASSUME IndInv PROVE CodeDisjoint
    OBVIOUS
  <2>1. code \subseteq ItemSet /\ ItemsApart(code) /\ NearPos \in Nat
    BY RelocateAssumption DEF IndInv, Layout
  <2>2. ASSUME NEW it \in code, it.pos < NearPos
        PROVE  it.pos + it.len <= size
    BY <2>1, <2>2 DEF IndInv, Layout, ItemSet
  <2> QED
    BY <2>1, <2>2 DEF CodeDisjoint, ItemsApart
<1> QED
  BY <1>1, IndInvHolds, PTL
-----------------------------------------------------------------------------
(***************************************************************************)
(* The machine.                                                            *)
(***************************************************************************)
\* A set of numbers has a smallest one.
LEMMA SmallestNumber ==
  ASSUME NEW S \in SUBSET Nat, S # {}
  PROVE  \E x \in S : \A y \in S : x <= y
<1> DEFINE T == {0..i : i \in S}
<1>1. T \subseteq FiniteSubsetsOf(Nat) /\ T # {}
  <2>1. \A i \in S : IsFiniteSet(0..i) /\ 0..i \subseteq Nat
    BY FS_Interval
  <2> QED
    BY <2>1 DEF FiniteSubsetsOf
<1>2. \E x \in T : \A y \in T : ~(<<y, x>> \in StrictSubsetOrdering(Nat))
  <2> HIDE DEF T
  <2> QED
    BY <1>1, FS_StrictSubsetOrderingWellFounded, WFMin
<1>3. PICK x \in S : \A y \in S : <<0..y, 0..x>> \notin StrictSubsetOrdering(Nat)
  BY <1>2
<1>4. ASSUME NEW y \in S, y < x
      PROVE  FALSE
  <2>1. x \in 0..x /\ x \notin 0..y
    BY <1>4
  <2>2. 0..y \subseteq 0..x /\ 0..y \subseteq Nat /\ 0..x \subseteq Nat
    BY <1>4
  <2> QED
    BY <1>3, <2>1, <2>2 DEF StrictSubsetOrdering
<1> QED
  BY <1>4

\* A sequence of states in which each follows from the one before is the execution.
LEMMA RunIs ==
  ASSUME NEW c, NEW base, NEW inside, NEW m, NEW z, NEW fuel \in Nat, NEW s,
         s = [k \in 0..fuel |-> IF k = 0 THEN m ELSE Advance(c, base, inside, s[k - 1], z)]
  PROVE  Run(c, base, inside, m, z, fuel) = s[fuel]
<1> DEFINE Is(f) == f = [k \in 0..fuel |-> IF k = 0 THEN m ELSE Advance(c, base, inside, f[k - 1], z)]
           g == CHOOSE f : Is(f)
<1>1. Run(c, base, inside, m, z, fuel) = g[fuel]
  BY DEF Run
<1>2. Is(s)
  OBVIOUS
<1>3. Is(g)
  BY <1>2
<1> HIDE DEF g
<1> DEFINE Bad == {k \in 0..fuel : g[k] # s[k]}
<1>4. Bad = {}
  <2> SUFFICES ASSUME Bad # {} PROVE FALSE
    OBVIOUS
  <2>1. Bad \in SUBSET Nat
    OBVIOUS
  <2> HIDE DEF Bad
  <2>2. PICK k \in Bad : \A y \in Bad : k <= y
    BY <2>1, SmallestNumber
  <2>3. k \in 0..fuel /\ g[k] # s[k]
    BY DEF Bad
  <2>4. /\ g[k] = IF k = 0 THEN m ELSE Advance(c, base, inside, g[k - 1], z)
        /\ s[k] = IF k = 0 THEN m ELSE Advance(c, base, inside, s[k - 1], z)
    BY <1>2, <1>3, <2>3
  <2>5. k # 0 /\ g[k - 1] # s[k - 1]
    BY <2>3, <2>4
  <2>6. k - 1 \in Bad
    BY <2>3, <2>5 DEF Bad
  <2> QED
    BY <2>2, <2>3, <2>6
<1>5. fuel \in 0..fuel
  OBVIOUS
<1> QED
  BY <1>1, <1>4, <1>5

\* Three steps, or fewer if control leaves earlier.
LEMMA ThreeSteps ==
  ASSUME NEW c, NEW base, NEW inside, NEW z, NEW fuel \in Nat, NEW m0, NEW m1, NEW m2, NEW m3,
         fuel >= 3, m1 = Advance(c, base, inside, m0, z), m2 = Advance(c, base, inside, m1, z),
         m3 = Advance(c, base, inside, m2, z), m3 = Advance(c, base, inside, m3, z)
  PROVE  Run(c, base, inside, m0, z, fuel) = m3
<1> DEFINE s == [k \in 0..fuel |-> CASE k = 0 -> m0 [] k = 1 -> m1 [] k = 2 -> m2 [] OTHER -> m3]
<1>1. s[0] = m0 /\ s[1] = m1 /\ s[2] = m2 /\ \A k \in 3..fuel : s[k] = m3
  OBVIOUS
<1>2. DOMAIN s = 0..fuel /\ s = [k \in 0..fuel |-> s[k]]
  OBVIOUS
<1> HIDE DEF s
<1>3. ASSUME NEW k \in 0..fuel
      PROVE  s[k] = IF k = 0 THEN m0 ELSE Advance(c, base, inside, s[k - 1], z)
  <2>1. k \in {0, 1, 2, 3} \/ k \in 4..fuel
    OBVIOUS
  <2>2. CASE k \in {0, 1, 2, 3}
    BY <1>1, <2>2
  <2>3. CASE k \in 4..fuel
    <3>1. k \in 3..fuel /\ k - 1 \in 3..fuel /\ k # 0
      BY <2>3
    <3>2. s[k] = m3 /\ s[k - 1] = m3
      BY <1>1, <3>1
    <3> QED
      BY <3>1, <3>2
  <2> QED
    BY <2>1, <2>2, <2>3
<1>4. s = [k \in 0..fuel |-> IF k = 0 THEN m0 ELSE Advance(c, base, inside, s[k - 1], z)]
  BY <1>2, <1>3
<1>5. fuel \in 3..fuel
  OBVIOUS
<1>6. Run(c, base, inside, m0, z, fuel) = s[fuel]
  BY <1>4, RunIs
<1> QED
  BY <1>1, <1>5, <1>6

\* A state of the machine.
M(pc, st, r0, v0, ip, lr) ==
  [pc |-> pc, st |-> st, r0 |-> r0, v0 |-> v0, ip |-> ip, lr |-> lr]

\* Where no two items stand at one place.
Sole(c) == (\A x \in c : x.pos \in Int) /\ \A x, y \in c : x.pos = y.pos => x = y

\* Control is in the code.
LEMMA AdvanceAt ==
  ASSUME NEW c, NEW base \in Int, NEW inside, NEW m, NEW z, NEW a \in Int, NEW it \in c, Sole(c),
         m.pc = Addr(a), a - base \in inside, it.pos \in Int, base + it.pos = a
  PROVE  Advance(c, base, inside, m, z) = Step(c, base, m, it, a, z)
<1>1. m.pc[1] = "addr" /\ m.pc[2] = a
  BY DEF Addr
<1>2. {x \in c : base + x.pos = a} = {it}
  BY DEF Sole
<1>3. (CHOOSE x \in {it} : TRUE) = it
  OBVIOUS
<1> QED
  BY <1>1, <1>2, <1>3 DEF Advance

\* Control has left.
LEMMA AdvanceOut ==
  ASSUME NEW c, NEW base, NEW inside, NEW m, NEW z, NEW a, m.pc = Addr(a), a - base \notin inside
  PROVE  Advance(c, base, inside, m, z) = m
  BY DEF Advance, Addr

LEMMA FetchAt ==
  ASSUME NEW c, NEW base \in Int, NEW a \in Int, NEW w, NEW d \in c, Sole(c), d.op = "data",
         d.pos \in Int, base + d.pos = a
  PROVE  Fetch(c, base, a, w) = Addr(d.val)
<1>1. ASSUME NEW x \in c, base + x.pos = a
      PROVE  x = d
  <2>1. \A i, j \in Int : base + i = base + j => i = j
    OBVIOUS
  <2>2. x.pos = d.pos
    BY <1>1, <2>1 DEF Sole
  <2> QED
    BY <2>2 DEF Sole
<1>2. (CHOOSE x \in c : x.op = "data" /\ base + x.pos = a) = d
  BY <1>1
<1> QED
  BY <1>2 DEF Fetch

-----------------------------------------------------------------------------
(* What each kind of item does. *)

\* Whether an instruction with condition c is executed.
Taken(c, z) == c = "al" \/ (c = "cc" /\ z) \/ (c = "nc" /\ ~z)

LEMMA StepSkips ==
  ASSUME NEW c, NEW base, NEW it, NEW a, NEW z, NEW st, NEW r0, NEW v0, NEW ip, NEW lr,
         ~Taken(it.cond, z)
  PROVE  Step(c, base, M(Addr(a), st, r0, v0, ip, lr), it, a, z) = M(Addr(a + it.len), st, r0, v0, ip, lr)
  BY DEF Step, Taken, M

LEMMA StepPlain ==
  ASSUME NEW c, NEW base, NEW it, NEW a, NEW z, NEW st, NEW r0, NEW v0, NEW ip, NEW lr,
         it.op \in {"nop", "other", "svc"}
  PROVE  Step(c, base, M(Addr(a), st, r0, v0, ip, lr), it, a, z) = M(Addr(a + it.len), st, r0, v0, ip, lr)
  BY DEF Step, M

LEMMA StepB ==
  ASSUME NEW c, NEW base, NEW it, NEW a, NEW z, NEW st, NEW r0, NEW v0, NEW ip, NEW lr,
         it.op = "b", Taken(it.cond, z), ~it.link
  PROVE  Step(c, base, M(Addr(a), st, r0, v0, ip, lr), it, a, z) =
           M(Addr(PcRead(st, a, it.len) + it.off), st, r0, v0, ip, lr)
  BY DEF Step, Taken, M

LEMMA StepBl ==
  ASSUME NEW c, NEW base, NEW it, NEW a, NEW z, NEW st, NEW r0, NEW v0, NEW ip, NEW lr,
         it.op = "b", Taken(it.cond, z), it.link
  PROVE  Step(c, base, M(Addr(a), st, r0, v0, ip, lr), it, a, z) =
           M(Addr(PcRead(st, a, it.len) + it.off), st, r0, v0, ip, Addr(a + it.len))
  BY DEF Step, Taken, M

LEMMA StepLdr ==
  ASSUME NEW c, NEW base, NEW it, NEW a, NEW z, NEW st, NEW r0, NEW v0, NEW ip, NEW lr,
         it.op = "ldr", Taken(it.cond, z), ~it.link
  PROVE  Step(c, base, M(Addr(a), st, r0, v0, ip, lr), it, a, z) =
           SetReg(M(Addr(a + it.len), st, r0, v0, ip, lr), it.rt,
                  Fetch(c, base, PcBase(st, a, it.len) + it.off, it.w))
  BY DEF Step, Taken, M

\* What a load or a move sets.
LEMMA Sets ==
  ASSUME NEW pc, NEW st, NEW r0, NEW v0, NEW ip, NEW lr, NEW v
  PROVE  LET m == M(pc, st, r0, v0, ip, lr)
         IN /\ SetReg(m, "r0", v) = M(pc, st, v, v0, ip, lr)
            /\ SetReg(m, "v0", v) = M(pc, st, r0, v, ip, lr)
            /\ SetReg(m, "ip", v) = M(pc, st, r0, v0, v, lr)
            /\ SetReg(m, "pc", v) = Jump(m, v)
  BY DEF SetReg, M

\* A jump to an address.
LEMMA JumpTo ==
  ASSUME NEW pc, NEW st, NEW r0, NEW v0, NEW ip, NEW lr, NEW a \in Int
  PROVE  /\ st \notin {"arm", "thumb"} =>
              Jump(M(pc, st, r0, v0, ip, lr), Addr(a)) = M(Addr(a), st, r0, v0, ip, lr)
         /\ st \in {"arm", "thumb"} =>
              Jump(M(pc, st, r0, v0, ip, lr), Addr(a)) =
                M(Addr(a - (a % 2)), IF a % 2 = 1 THEN "thumb" ELSE "arm", r0, v0, ip, lr)
  BY DEF Jump, M, Addr

-----------------------------------------------------------------------------
(***************************************************************************)
(* The branch back.                                                        *)
(***************************************************************************)
LabelLen == IF prog.arch = "a64" THEN 8 ELSE 4

\* Where the branch back stands once it has been emitted.
BackAt ==
  IF prog.arch \in {"x64", "x86"} THEN size - BackLen
  ELSE IF phase \in {"finalize", "done"} THEN size - LabelLen * Len(labels) - 8
  ELSE size - 8

\* Item x loads label k to the scratch register.
LoadsLabel(x, e, k) ==
  /\ x.pos = e /\ x.len = 4 /\ x.op = "ldr" /\ x.cond = "al" /\ x.rt = "ip"
  /\ ~x.link /\ x.lab = k

\* A load or a branch that leads to the first instruction that was not moved.
Leads(e) ==
  CASE prog.arch = "arm" ->
         e % 4 = 0 /\ Ldr(e, 4, "pc", -4) \in code /\ Data(e + 4, 4, Source + cur) \in code
    [] prog.arch = "thumb" ->
         e % 4 = 0 /\ Ldr(e, 4, "pc", 0) \in code /\ Data(e + 4, 4, Source + cur + 1) \in code
    [] prog.arch = "a64" ->
         /\ \E x \in code : LoadsLabel(x, e, Len(labels))
         /\ [Item(e + 4, 4, "bx") EXCEPT !.rn = "ip", !.link = FALSE] \in code
         /\ labels # <<>> /\ labels[Len(labels)] = Source + cur
    [] prog.arch = "x64" -> Ldr(e, 6, "pc", 0) \in code /\ Data(e + 6, 8, Source + cur) \in code
    [] prog.arch = "x86" -> B(e, 5, "al", Source + cur - (Relocated + e + 5), FALSE) \in code

BackThere ==
  phase \in {"fixup", "bind", "finalize", "done"} => BackAt \in Nat /\ Leads(BackAt)

\* ARM code stands on words, Thumb code on halfwords.
Words ==
  /\ prog.arch = "arm" => cur % 4 = 0 /\ size % 4 = 0
  /\ prog.arch = "thumb" => cur % 2 = 0

\* Adding to a multiple.
LEMMA Multiples ==
  /\ \A x \in Nat : x % 4 = 0 => (x + 4) % 4 = 0 /\ (x + 8) % 4 = 0 /\ (x + 20) % 4 = 0
  /\ \A x \in Nat : x % 2 = 0 => (x + 2) % 2 = 0 /\ (x + 4) % 2 = 0
  /\ \A x, k \in Nat : x % 4 = 0 => (x + k * 4) % 4 = 0
  OBVIOUS

\* Every instruction moves the cursor by its length, and every ARM sequence is of words.
LEMMA WordsStep ==
  ASSUME IndInv, Words, Next
  PROVE  Words'
<1>1. /\ Shape /\ cur \in Nat /\ size \in Nat /\ Len(labels) \in Nat
  BY DEF IndInv, Shape
<1>2. CASE LoopEnds
  BY <1>2 DEF LoopEnds, Words
<1>3. CASE ARMNext
  <2>1. CASE ARMInsn
    <3>1. ARMPending /\ Pending /\ prog.arch = "arm"
      BY <2>1 DEF ARMInsn, ARMLdrLiteral, ARMAdr, ARMBranch, ARMBlx, ARMCopy, ARMPending
    <3>2. Ins.len = 4
      BY <1>1, <3>1, InsFacts DEF LengthsOf
    <3>3. PICK e \in {4, 8, 20} : \E items, ls : ARMEmitted(items, size + e, ls)
      BY <2>1 DEF ARMInsn, ARMLdrLiteral, ARMAdr, ARMBranch, ARMBlx, ARMCopy
    <3>4. prog' = prog /\ cur' = cur + 4 /\ size' = size + e
      BY <3>2, <3>3 DEF ARMEmitted, Emitted
    <3> QED
      BY <1>1, <3>1, <3>4, Multiples DEF Words
  <2>2. CASE ThumbInsn
    <3>1. ThumbPending /\ Pending /\ prog.arch = "thumb"
      BY <2>2 DEF ThumbInsn, Thumb1HighRegister, Thumb1BxPc, Thumb1BlxPc, Thumb1LdrLiteral,
         Thumb1Adr, Thumb1BCond, Thumb1Svc, Thumb1Cbz, Thumb1B, Thumb1Copy, Thumb2BCond, Thumb2B,
         Thumb2Bl, Thumb2Blx, Thumb2Adr, Thumb2LdrLiteral, Thumb2Copy, ThumbPending
    <3>2. Ins.len \in {2, 4}
      BY <1>1, <3>1, InsFacts DEF LengthsOf
    <3>3. Thumb1Svc \/ \E items, end, ls, ch : ThumbEmitted(items, end, ls, ch)
      BY <2>2 DEF ThumbInsn, Thumb1HighRegister, Thumb1BxPc, Thumb1BlxPc, Thumb1LdrLiteral,
         Thumb1Adr, Thumb1BCond, Thumb1Cbz, Thumb1B, Thumb1Copy, Thumb2BCond, Thumb2B,
         Thumb2Bl, Thumb2Blx, Thumb2Adr, Thumb2LdrLiteral, Thumb2Copy
    <3>4. prog' = prog /\ (cur' = cur \/ cur' = cur + Ins.len)
      BY <3>3 DEF Thumb1Svc, Abort, ThumbEmitted, Emitted
    <3> QED
      BY <1>1, <3>1, <3>2, <3>4, Multiples DEF Words
  <2>3. CASE RelocateRemain
    <3>1. prog.arch = "thumb"
      BY <2>3 DEF IndInv, Stage, RelocateRemain
    <3> QED
      BY <2>3, <3>1 DEF RelocateRemain, Words
  <2>4. CASE ARMBranchBack
    BY <1>1, <2>4, Multiples DEF ARMBranchBack, Words
  <2>5. CASE ThumbBranchBack
    BY <2>5 DEF ThumbBranchBack, Words
  <2>6. CASE RelocLabelFixup
    BY <2>6 DEF RelocLabelFixup, Words
  <2>7. CASE ARMRelocBind
    BY <1>1, <2>7, Multiples DEF ARMRelocBind, Bound, Words
  <2>8. CASE ThumbRelocBind
    BY <2>8 DEF ThumbRelocBind, Bound, Words
  <2>9. CASE ARMFinalize
    BY <2>9 DEF ARMFinalize, Finalized, Words
  <2> QED
    BY <1>3, <2>1, <2>2, <2>3, <2>4, <2>5, <2>6, <2>7, <2>8, <2>9 DEF ARMNext
<1>4. CASE A64Next
  <2>1. CASE A64Insn
    <3>1. prog.arch = "a64"
      BY <2>1 DEF A64Insn, A64BBl, A64LdrLiteral, A64LdrOther, A64Adr, A64Adrp, A64BCond,
         A64CompareB, A64TestB, A64Copy, A64Pending
    <3>2. Abort \/ \E items, end, ls : A64Emitted(items, end, ls)
      BY <2>1 DEF A64Insn, A64BBl, A64LdrLiteral, A64LdrOther, A64Adr, A64Adrp, A64BCond,
         A64CompareB, A64TestB, A64Copy
    <3>3. prog' = prog
      BY <3>2 DEF Abort, A64Emitted
    <3> QED
      BY <3>1, <3>3 DEF Words
  <2>2. CASE A64BranchBack \/ A64RelocBind \/ A64Finalize
    BY <2>2 DEF A64BranchBack, A64RelocBind, Bound, A64Finalize, Finalized, Words
  <2> QED
    BY <1>4, <2>1, <2>2 DEF A64Next
<1>5. CASE X86Next
  <2>1. prog.arch \in {"x64", "x86"}
    BY <1>5 DEF X86Next, X86Insn, X86Sse, X86Jcc8, X86Rip, X86RipNoMemory, X86Jmp8, X86CallJmp32,
       X86CallAssert, X86Loop, X86Copy, X86Decoded, X86Pending, X86BranchBack, X86TryAgain,
       X86NoBlock, IndInv, Stage
  <2>2. prog'.arch = prog.arch
    <3>1. CASE X86Insn
      BY <3>1 DEF X86Insn, X86Sse, X86Jcc8, X86Rip, X86RipNoMemory, X86Jmp8, X86CallJmp32,
         X86CallAssert, X86Loop, X86Copy, X86Emitted, Abort
    <3>2. CASE X86BranchBack
      BY <1>1, <3>2 DEF X86BranchBack, Shape, ProgramSet
    <3>3. CASE X86TryAgain \/ X86NoBlock
      BY <3>3 DEF X86TryAgain, X86NoBlock
    <3> QED
      BY <1>5, <3>1, <3>2, <3>3 DEF X86Next
  <2> QED
    BY <2>1, <2>2 DEF Words
<1> QED
  BY <1>2, <1>3, <1>4, <1>5 DEF Next

-----------------------------------------------------------------------------
\* Steps that leave the phases behind the branch back alone.
LEMMA BackElsewhere ==
  ASSUME IndInv, Next, ~ARMBranchBack, ~ThumbBranchBack, ~A64BranchBack, ~X86BranchBack,
         ~RelocLabelFixup, ~ARMRelocBind, ~ThumbRelocBind, ~A64RelocBind, ~ARMFinalize, ~A64Finalize
  PROVE  phase' \notin {"fixup", "bind", "finalize", "done"}
<1>1. CASE LoopEnds \/ RelocateRemain
  BY <1>1 DEF LoopEnds, RelocateRemain
<1>2. CASE ARMInsn
  <2>1. \E items, end, ls : ARMEmitted(items, end, ls)
    BY <1>2 DEF ARMInsn, ARMLdrLiteral, ARMAdr, ARMBranch, ARMBlx, ARMCopy
  <2>2. phase = "insns"
    BY <1>2 DEF ARMInsn, ARMLdrLiteral, ARMAdr, ARMBranch, ARMBlx, ARMCopy, ARMPending, Pending
  <2> QED
    BY <2>1, <2>2 DEF ARMEmitted
<1>3. CASE ThumbInsn
  <2>1. Thumb1Svc \/ \E items, end, ls, ch : ThumbEmitted(items, end, ls, ch)
    BY <1>3 DEF ThumbInsn, Thumb1HighRegister, Thumb1BxPc, Thumb1BlxPc, Thumb1LdrLiteral,
       Thumb1Adr, Thumb1BCond, Thumb1Cbz, Thumb1B, Thumb1Copy, Thumb2BCond, Thumb2B,
       Thumb2Bl, Thumb2Blx, Thumb2Adr, Thumb2LdrLiteral, Thumb2Copy
  <2> QED
    BY <2>1 DEF Thumb1Svc, Abort, ThumbEmitted
<1>4. CASE A64Insn
  <2>1. Abort \/ \E items, end, ls : A64Emitted(items, end, ls)
    BY <1>4 DEF A64Insn, A64BBl, A64LdrLiteral, A64LdrOther, A64Adr, A64Adrp, A64BCond,
       A64CompareB, A64TestB, A64Copy
  <2>2. phase = "insns"
    BY <1>4 DEF A64Insn, A64BBl, A64LdrLiteral, A64LdrOther, A64Adr, A64Adrp, A64BCond,
         A64CompareB, A64TestB, A64Copy, A64Pending, Pending
  <2> QED
    BY <2>1, <2>2 DEF Abort, A64Emitted
<1>5. CASE X86Insn
  <2>1. Abort \/ \E items, end : X86Emitted(items, end)
    BY <1>5 DEF X86Insn, X86Sse, X86Jcc8, X86Rip, X86RipNoMemory, X86Jmp8, X86CallJmp32,
       X86CallAssert, X86Loop, X86Copy
  <2> QED
    BY <2>1 DEF Abort, X86Emitted
<1>6. CASE X86TryAgain \/ X86NoBlock
  BY <1>6 DEF X86TryAgain, X86NoBlock
<1> QED
  BY <1>1, <1>2, <1>3, <1>4, <1>5, <1>6 DEF Next, ARMNext, A64Next, X86Next

\* The branch back is emitted at the end of the buffer and leads to the cursor.
LEMMA BackEmitted ==
  ASSUME IndInv, Words, ARMBranchBack \/ ThumbBranchBack \/ A64BranchBack \/ X86BranchBack
  PROVE  BackThere'
<1>1. /\ Shape /\ cur \in Nat /\ size \in Nat /\ Len(labels) \in Nat /\ labels \in Seq(Int)
      /\ Source \in Nat /\ Source + cur \in Int
  BY RelocateAssumption DEF IndInv, Shape
<1>2. CASE ARMBranchBack
  <2>1. prog'.arch = "arm" /\ phase' = "fixup" /\ cur' = cur /\ size' = size + 8
    BY <1>2 DEF ARMBranchBack
  <2>2. BackAt' = size
    BY <1>1, <2>1 DEF BackAt
  <2>3. size % 4 = 0
    BY <1>2 DEF ARMBranchBack, Words
  <2> QED
    BY <1>1, <1>2, <2>1, <2>2, <2>3 DEF ARMBranchBack, BackThere, Leads
<1>3. CASE ThumbBranchBack
  <2> DEFINE s == AlignThumb(size)
  <2>1. prog'.arch = "thumb" /\ phase' = "fixup" /\ cur' = cur /\ size' = s + 8
    BY <1>3 DEF ThumbBranchBack
  <2>2. s \in Nat /\ s % 4 = 0
    BY <1>1, <1>3 DEF ThumbBranchBack, IndInv, ThumbAligned, AlignThumb
  <2>3. Ldr(s, 4, "pc", 0) \in code' /\ Data(s + 4, 4, Source + cur + 1) \in code'
    BY <1>3 DEF ThumbBranchBack
  <2> HIDE DEF s
  <2>4. BackAt' = s
    BY <2>1, <2>2 DEF BackAt
  <2> QED
    BY <2>1, <2>2, <2>3, <2>4 DEF BackThere, Leads
<1>4. CASE A64BranchBack
  <2>1. /\ prog'.arch = "a64" /\ phase' = "bind" /\ cur' = cur /\ size' = size + 8
        /\ labels' = Append(labels, Source + cur) /\ code' = code \cup A64Jump(size, FALSE)
    BY <1>4 DEF A64BranchBack
  <2>2. BackAt' = size
    BY <1>1, <2>1 DEF BackAt
  <2>3. Len(labels') = A64NewLabel /\ labels' # <<>> /\ labels'[Len(labels')] = Source + cur
    BY <1>1, <2>1, AppendProperties DEF A64NewLabel
  <2>4. /\ LdrLabel(size, 4, "ip", Len(labels')) \in code'
        /\ [Item(size + 4, 4, "bx") EXCEPT !.rn = "ip", !.link = FALSE] \in code'
    BY <2>1, <2>3 DEF A64Jump
  <2>5. \A k : LoadsLabel(LdrLabel(size, 4, "ip", k), size, k)
    BY DEF LdrLabel, Item, LoadsLabel
  <2>6. \E x \in code' : LoadsLabel(x, size, Len(labels'))
    BY <2>4, <2>5
  <2> QED
    BY <1>1, <2>1, <2>2, <2>3, <2>4, <2>6 DEF BackThere, Leads
<1>5. CASE X86BranchBack
  <2>1. /\ prog.arch \in {"x64", "x86"} /\ prog'.arch = prog.arch /\ cur' = cur
        /\ size' = IF X64 THEN size + 14 ELSE size + 5
    BY <1>1, <1>5 DEF X86BranchBack, Shape, ProgramSet
  <2>2. BackAt' = size
    <3>1. CASE X64
      BY <1>1, <2>1, <3>1 DEF BackAt, BackLen, X64
    <3>2. CASE ~X64
      BY <1>1, <2>1, <3>2 DEF BackAt, BackLen, X64
    <3> QED
      BY <3>1, <3>2
  <2>3. CASE X64
    <3>1. Ldr(size, 6, "pc", 0) \in code' /\ Data(size + 6, 8, Source + cur) \in code'
      BY <1>5, <2>3 DEF X86BranchBack, JmpAbsolute
    <3> QED
      BY <1>1, <2>1, <2>2, <2>3, <3>1 DEF BackThere, Leads, X64
  <2>4. CASE ~X64
    <3>1. B(size, 5, "al", Source + cur - (Relocated + size + 5), FALSE) \in code'
      BY <1>5, <2>4 DEF X86BranchBack, ReloIp
    <3> QED
      BY <1>1, <2>1, <2>2, <2>4, <3>1 DEF BackThere, Leads, X64
  <2> QED
    BY <2>3, <2>4
<1> QED
  BY <1>2, <1>3, <1>4, <1>5

\* What follows leaves the branch back where it is; the fixup changes no label of A64 code.
LEMMA BackKept ==
  ASSUME IndInv, BackThere,
         RelocLabelFixup \/ ARMRelocBind \/ ThumbRelocBind \/ A64RelocBind \/ ARMFinalize \/ A64Finalize
  PROVE  BackThere'
<1>1. /\ Shape /\ cur \in Nat /\ size \in Nat /\ Len(labels) \in Nat /\ labels \in Seq(Int)
      /\ prog.arch \in {"arm", "thumb", "a64"} /\ phase \in {"fixup", "bind", "finalize"}
      /\ code \subseteq ItemSet /\ prog' = prog /\ cur' = cur
  BY DEF IndInv, Shape, Stage, Layout, RelocLabelFixup, ARMRelocBind, ThumbRelocBind, A64RelocBind, Bound,
         ARMFinalize, A64Finalize, Finalized
<1>2. PICK e \in Nat : e = BackAt /\ Leads(e)
  BY <1>1 DEF BackThere
<1>3. CASE RelocLabelFixup
  <2>1. prog.arch # "a64" /\ code' = code /\ size' = size /\ phase' = "bind" /\ phase = "fixup"
    BY <1>3 DEF IndInv, Stage, RelocLabelFixup
  <2>2. BackAt' = e
    BY <1>1, <1>2, <2>1 DEF BackAt
  <2> QED
    BY <1>1, <1>2, <2>1, <2>2 DEF BackThere, Leads
<1>4. CASE ARMFinalize \/ A64Finalize
  <2>1. phase = "finalize" /\ UNCHANGED <<code, size, labels>> /\ phase' \in {"done", "failed", "aborted"}
    BY <1>4 DEF ARMFinalize, A64Finalize, Finalized
  <2>2. BackAt' = e \/ phase' # "done"
    BY <1>1, <1>2, <2>1 DEF BackAt, LabelLen
  <2> QED
    BY <1>1, <1>2, <2>1, <2>2 DEF BackThere, Leads
<1>5. CASE ARMRelocBind \/ ThumbRelocBind \/ A64RelocBind
  <2>1. /\ phase = "bind" /\ phase' = "finalize" /\ labels' = labels
        /\ size' = size + Len(labels) * LabelLen /\ Bound(LabelLen, Bias)
    BY <1>5 DEF ARMRelocBind, ThumbRelocBind, A64RelocBind, Bound, LabelLen, Bias
  <2>2. LabelLen \in Nat /\ Len(labels) * LabelLen \in Nat /\ LabelLen * Len(labels) = Len(labels) * LabelLen
    BY <1>1 DEF LabelLen
  <2>3. BackAt' = size' - LabelLen * Len(labels) - 8 /\ e = size - 8
    BY <1>1, <1>2, <2>1 DEF BackAt, LabelLen
  <2>4. BackAt' = e
    BY <1>1, <2>1, <2>2, <2>3
  <2>5. ASSUME NEW it \in code, it.lab = 0
        PROVE  it \in code'
    BY <2>1, <2>5 DEF Bound
  <2>6. ASSUME NEW it \in code, it.lab # 0
        PROVE  \E o \in Int : [it EXCEPT !.off = o] \in code'
    <3> DEFINE o == LabelPos(it.lab, LabelLen) - (it.pos + Bias)
    <3>1. [it EXCEPT !.off = o] \in code'
      BY <2>1, <2>6 DEF Bound
    <3>2. it.lab \in Nat /\ it.pos \in Nat /\ Bias \in Nat
      BY <1>1 DEF ItemSet, Bias
    <3>3. o \in Int
      <4>1. LabelLen = 4 \/ LabelLen = 8
        BY DEF LabelLen
      <4>2. CASE LabelLen = 4
        BY <1>1, <3>2, <4>2 DEF LabelPos
      <4>3. CASE LabelLen = 8
        BY <1>1, <3>2, <4>3 DEF LabelPos
      <4> QED
        BY <4>1, <4>2, <4>3
    <3> HIDE DEF o
    <3> QED
      BY <3>1, <3>3
  <2>7. Leads(e)'
    <3>1. CASE prog.arch = "a64"
      <4> DEFINE b == [Item(e + 4, 4, "bx") EXCEPT !.rn = "ip", !.link = FALSE]
      <4>1. b \in code /\ labels # <<>> /\ labels[Len(labels)] = Source + cur
        BY <1>2, <3>1 DEF Leads
      <4>2. b.lab = 0
        BY DEF Item
      <4>3. b \in code'
        BY <2>5, <4>1, <4>2
      <4> HIDE DEF b
      <4>4. PICK x \in code : LoadsLabel(x, e, Len(labels))
        BY <1>2, <3>1 DEF Leads
      <4>5. x.lab # 0 /\ x \in ItemSet
        BY <1>1, <4>1, <4>4 DEF LoadsLabel
      <4>6. PICK o \in Int : [x EXCEPT !.off = o] \in code'
        BY <2>6, <4>5
      <4>7. LoadsLabel([x EXCEPT !.off = o], e, Len(labels))
        BY <4>4, <4>5 DEF LoadsLabel, ItemSet
      <4>8. \E y \in code' : LoadsLabel(y, e, Len(labels'))
        BY <2>1, <4>6, <4>7
      <4> QED
        BY <1>1, <2>1, <3>1, <4>1, <4>3, <4>8 DEF Leads, b
    <3>2. CASE prog.arch = "arm"
      <4>1. Ldr(e, 4, "pc", -4).lab = 0 /\ Data(e + 4, 4, Source + cur).lab = 0
        BY DEF Ldr, Data, Item
      <4> QED
        BY <1>1, <1>2, <2>5, <3>2, <4>1 DEF Leads
    <3>3. CASE prog.arch = "thumb"
      <4>1. Ldr(e, 4, "pc", 0).lab = 0 /\ Data(e + 4, 4, Source + cur + 1).lab = 0
        BY DEF Ldr, Data, Item
      <4> QED
        BY <1>1, <1>2, <2>5, <3>3, <4>1 DEF Leads
    <3> QED
      BY <1>1, <3>1, <3>2, <3>3
  <2> QED
    BY <1>2, <2>4, <2>7 DEF BackThere
<1> QED
  BY <1>3, <1>4, <1>5


-----------------------------------------------------------------------------
LEMMA StepBxIp ==
  ASSUME NEW c, NEW base, NEW it, NEW a, NEW z, NEW st, NEW r0, NEW v0, NEW ip, NEW lr,
         it.op = "bx", Taken(it.cond, z), ~it.link, it.rn = "ip"
  PROVE  Step(c, base, M(Addr(a), st, r0, v0, ip, lr), it, a, z) =
           Jump(M(Addr(a + it.len), st, r0, v0, ip, lr), ip)
  BY DEF Step, Taken, M, ValueOf

\* Items that do not overlap stand at different places.
LEMMA NoneShared ==
  ASSUME IndInv
  PROVE  Sole(code)
<1>1. code \subseteq ItemSet /\ ItemsApart(code) /\ \A x \in code : x.len > 0
  BY DEF IndInv, Layout
<1>2. \A x \in code : x.pos \in Nat /\ x.len \in Nat
  BY <1>1 DEF ItemSet
<1>3. ASSUME NEW x \in code, NEW y \in code, x.pos = y.pos
      PROVE  x = y
  BY <1>1, <1>2, <1>3 DEF ItemsApart
<1> QED
  BY <1>2, <1>3 DEF Sole

\* The remaining code of the function is not in the block that receives the copy.
Elsewhere == Source + cur \notin Relocated..(Relocated + size - 1)

\* The execution of a load to the pc of a data word that is known.
LEMMA LoadsPc ==
  ASSUME NEW c, NEW base \in Int, NEW inside, NEW z, NEW st, NEW r0, NEW v0, NEW ip, NEW lr,
         NEW a \in Int, NEW b \in Int, NEW x \in c, NEW y \in c, Sole(c), x.op = "ldr",
         x.rt = "pc", Taken(x.cond, z), ~x.link, x.pos \in Int, base + x.pos = a,
         a - base \in inside, PcBase(st, a, x.len) + x.off = b, y.op = "data", y.pos \in Int,
         base + y.pos = b
  PROVE  Advance(c, base, inside, M(Addr(a), st, r0, v0, ip, lr), z) =
           Jump(M(Addr(a + x.len), st, r0, v0, ip, lr), Addr(y.val))
<1> DEFINE m == M(Addr(a), st, r0, v0, ip, lr)
           n1 == M(Addr(a + x.len), st, r0, v0, ip, lr)
<1>1. m.pc = Addr(a)
  BY DEF M
<1>2. Advance(c, base, inside, m, z) = Step(c, base, m, x, a, z)
  <2> HIDE DEF m
  <2> QED
    BY <1>1, AdvanceAt
<1>3. Step(c, base, m, x, a, z) =
        SetReg(n1, x.rt, Fetch(c, base, PcBase(st, a, x.len) + x.off, x.w))
  BY StepLdr
<1>4. Fetch(c, base, b, x.w) = Addr(y.val)
  BY FetchAt
<1>5. SetReg(n1, "pc", Addr(y.val)) = Jump(n1, Addr(y.val))
  BY Sets
<1> QED
  BY <1>2, <1>3, <1>4, <1>5

\* The pc that a load reads.
LEMMA PcBases ==
  ASSUME NEW a \in Int
  PROVE  /\ a % 4 = 0 => PcBase("arm", a, 4) = a + 8 /\ PcBase("thumb", a, 4) = a + 4
         /\ PcBase("a64", a, 4) = a
         /\ PcBase("x86", a, 6) = a + 6
<1>1. /\ PcRead("arm", a, 4) = a + 8 /\ PcRead("thumb", a, 4) = a + 4 /\ PcRead("a64", a, 4) = a
      /\ PcRead("x86", a, 6) = a + 6
  BY DEF PcRead
<1>3. /\ PcBase("arm", a, 4) = AlignFloor(a + 8, 4) /\ PcBase("thumb", a, 4) = AlignFloor(a + 4, 4)
      /\ PcBase("a64", a, 4) = a /\ PcBase("x86", a, 6) = a + 6
  BY <1>1 DEF PcBase
<1>5. a % 4 = 0 => AlignFloor(a + 8, 4) = a + 8 /\ AlignFloor(a + 4, 4) = a + 4
  BY DEF AlignFloor
<1> QED
  BY <1>3, <1>5

\* The function is where its instruction set allows.
LEMMA SourceAligned ==
  ASSUME Shape
  PROVE  /\ prog.arch \in {"arm", "thumb", "a64"} => Source % 2 = 0
         /\ prog.arch \in {"arm", "a64"} => Source % 4 = 0
<1>1. PICK p \in Programs : prog.arch = p.arch
  BY DEF Shape, KnownProgram
<1>2. Source \in Nat /\ Source % Alignment(p.arch) = 0
  BY RelocateAssumption
<1>3. CASE p.arch = "thumb"
  BY <1>1, <1>2, <1>3 DEF Alignment
<1>4. CASE p.arch \in {"arm", "a64"}
  <2>1. Source % 4 = 0
    BY <1>2, <1>4 DEF Alignment
  <2>2. Source % 2 = 0
    BY <1>2, <2>1
  <2> QED
    BY <2>1, <2>2
<1> QED
  BY <1>1, <1>3, <1>4

\* The branch back, executed: what it emits leads to the cursor, in one step or two.
LEMMA BackRuns ==
  ASSUME NEW e \in Nat, NEW inside, NEW z, NEW a \in Int, NEW t \in Int, NEW r0, NEW v0, NEW ip,
         NEW lr, IndInv, Words, phase = "done", Leads(e), e \in inside,
         prog.arch = "a64" => e + 4 \in inside, a = Relocated + e, t = Source + cur
  PROVE  \/ Advance(code, Relocated, inside, M(Addr(a), State, r0, v0, ip, lr), z) =
              M(Addr(t), State, r0, v0, ip, lr)
         \/ \E m : /\ Advance(code, Relocated, inside, M(Addr(a), State, r0, v0, ip, lr), z) = m
                   /\ Advance(code, Relocated, inside, m, z) = M(Addr(t), State, r0, v0, Addr(t), lr)
<1>1. /\ cur \in Nat /\ labels \in Seq(Int) /\ Len(labels) \in Nat
      /\ Source \in Nat /\ Relocated \in Int /\ Relocated \in Nat /\ Relocated % 4 = 0
      /\ prog.arch \in {"arm", "thumb", "a64", "x64", "x86"}
  BY RelocateAssumption DEF IndInv, Shape, ProgramSet
<1>13. prog.arch \in {"arm", "thumb"} => Source % 2 = 0
  BY SourceAligned DEF IndInv
<1>2. Sole(code)
  BY NoneShared
<1> DEFINE s == M(Addr(a), State, r0, v0, ip, lr)
           One(m) == Advance(code, Relocated, inside, m, z)
<1>10. Relocated \in Int
  BY <1>1
<1>3. PICK a4 \in Int : a4 = a + 4
  OBVIOUS
<1>11. PICK e4 \in Int : e4 = e + 4
  OBVIOUS
<1>4. /\ e \in Int /\ a4 = Relocated + e4 /\ a - Relocated \in inside /\ Relocated + e = a
      /\ (e % 4 = 0 => a % 4 = 0)
  <2>1. a - Relocated = e
    BY <1>1
  <2> QED
    BY <1>1, <1>3, <1>11, <2>1
<1>5. CASE prog.arch = "arm"
  <2>1. e % 4 = 0 /\ Ldr(e, 4, "pc", -4) \in code /\ Data(e4, 4, t) \in code /\ State = "arm"
    BY <1>5, <1>11 DEF Leads, State
  <2>2. PcBase("arm", a, 4) + -4 = a4
    BY <1>3, <1>4, <2>1, PcBases
  <2>3. One(s) = Jump(M(Addr(a + 4), "arm", r0, v0, ip, lr), Addr(t))
    <3> DEFINE x == Ldr(e, 4, "pc", -4)
               y == Data(e4, 4, t)
    <3>1. /\ x.pos = e /\ x.len = 4 /\ x.op = "ldr" /\ x.cond = "al" /\ x.rt = "pc" /\ x.off = -4 /\ ~x.link
          /\ y.pos = e4 /\ y.op = "data" /\ y.val = t
      BY DEF Ldr, Data, Item
    <3>2. x \in code /\ y \in code
      BY <2>1
    <3> HIDE DEF x, y
    <3>3. /\ Taken(x.cond, z) /\ Relocated + x.pos = a /\ x.pos \in Int /\ y.pos \in Int
          /\ Relocated + y.pos = a4 /\ PcBase("arm", a, x.len) + x.off = a4
      BY <1>4, <2>2, <3>1 DEF Taken
    <3>4. Advance(code, Relocated, inside, M(Addr(a), "arm", r0, v0, ip, lr), z) =
            Jump(M(Addr(a + x.len), "arm", r0, v0, ip, lr), Addr(y.val))
      BY <1>2, <1>4, <1>10, <3>1, <3>2, <3>3, LoadsPc
    <3> QED
      BY <2>1, <3>1, <3>4
  <2>4. t % 2 = 0 /\ t - (t % 2) = t
    BY <1>1, <1>5, <1>13 DEF Words
  <2> QED
    BY <2>1, <2>3, <2>4, JumpTo
<1>6. CASE prog.arch = "thumb"
  <2>1. PICK t1 \in Int : t1 = t + 1
    OBVIOUS
  <2>2. e % 4 = 0 /\ Ldr(e, 4, "pc", 0) \in code /\ Data(e4, 4, t1) \in code /\ State = "thumb"
    BY <1>6, <1>11, <2>1 DEF Leads, State
  <2>3. PcBase("thumb", a, 4) + 0 = a4
    BY <1>3, <1>4, <2>2, PcBases
  <2>4. One(s) = Jump(M(Addr(a + 4), "thumb", r0, v0, ip, lr), Addr(t1))
    <3> DEFINE x == Ldr(e, 4, "pc", 0)
               y == Data(e4, 4, t1)
    <3>1. /\ x.pos = e /\ x.len = 4 /\ x.op = "ldr" /\ x.cond = "al" /\ x.rt = "pc" /\ x.off = 0 /\ ~x.link
          /\ y.pos = e4 /\ y.op = "data" /\ y.val = t1
      BY DEF Ldr, Data, Item
    <3>2. x \in code /\ y \in code
      BY <2>2
    <3> HIDE DEF x, y
    <3>3. /\ Taken(x.cond, z) /\ Relocated + x.pos = a /\ x.pos \in Int /\ y.pos \in Int
          /\ Relocated + y.pos = a4 /\ PcBase("thumb", a, x.len) + x.off = a4
      BY <1>4, <2>3, <3>1 DEF Taken
    <3>4. Advance(code, Relocated, inside, M(Addr(a), "thumb", r0, v0, ip, lr), z) =
            Jump(M(Addr(a + x.len), "thumb", r0, v0, ip, lr), Addr(y.val))
      BY <1>2, <1>4, <1>10, <3>1, <3>2, <3>3, LoadsPc
    <3> QED
      BY <2>2, <3>1, <3>4
  <2>5. t1 % 2 = 1 /\ t1 - (t1 % 2) = t
    BY <1>1, <1>6, <1>13, <2>1 DEF Words
  <2> QED
    BY <2>2, <2>4, <2>5, JumpTo
<1>7. CASE prog.arch = "x64"
  <2>1. PICK a6 \in Int : a6 = a + 6
    OBVIOUS
  <2>5. PICK e6 \in Int : e6 = e + 6
    OBVIOUS
  <2>2. Ldr(e, 6, "pc", 0) \in code /\ Data(e6, 8, t) \in code /\ State = "x86"
    BY <1>7, <2>5 DEF Leads, State
  <2>3. PcBase("x86", a, 6) + 0 = a6 /\ a6 = Relocated + e6
    BY <1>4, <1>10, <2>1, <2>5, PcBases
  <2>4. One(s) = Jump(M(Addr(a + 6), "x86", r0, v0, ip, lr), Addr(t))
    <3> DEFINE x == Ldr(e, 6, "pc", 0)
               y == Data(e6, 8, t)
    <3>1. /\ x.pos = e /\ x.len = 6 /\ x.op = "ldr" /\ x.cond = "al" /\ x.rt = "pc" /\ x.off = 0 /\ ~x.link
          /\ y.pos = e6 /\ y.op = "data" /\ y.val = t
      BY DEF Ldr, Data, Item
    <3>2. x \in code /\ y \in code
      BY <2>2
    <3> HIDE DEF x, y
    <3>3. /\ Taken(x.cond, z) /\ Relocated + x.pos = a /\ x.pos \in Int /\ y.pos \in Int
          /\ Relocated + y.pos = a6 /\ PcBase("x86", a, x.len) + x.off = a6
      BY <1>4, <2>3, <3>1 DEF Taken
    <3>4. Advance(code, Relocated, inside, M(Addr(a), "x86", r0, v0, ip, lr), z) =
            Jump(M(Addr(a + x.len), "x86", r0, v0, ip, lr), Addr(y.val))
      BY <1>2, <1>4, <1>10, <3>1, <3>2, <3>3, LoadsPc
    <3> QED
      BY <2>2, <3>1, <3>4
  <2> QED
    BY <2>2, <2>4, JumpTo
<1>8. CASE prog.arch = "x86"
  <2> DEFINE d == t - (a + 5)
             x == B(e, 5, "al", d, FALSE)
  <2>1. x \in code /\ State = "x86"
    <3>1. Source + cur - (Relocated + e + 5) = d
      BY <1>1
    <3> QED
      BY <1>8, <3>1 DEF Leads, State
  <2>2. x.pos = e /\ x.len = 5 /\ x.op = "b" /\ x.cond = "al" /\ x.off = d /\ ~x.link
    BY DEF B, Item
  <2> HIDE DEF x
  <2>3. s.pc = Addr(a)
    BY DEF M
  <2>4. One(s) = Step(code, Relocated, s, x, a, z)
    <3> HIDE DEF s, d
    <3>1. Relocated + x.pos = a
      BY <1>4, <2>2
    <3> QED
      BY <1>2, <1>4, <1>10, <2>1, <2>2, <2>3, <3>1, AdvanceAt
  <2>5. Taken(x.cond, z) /\ PcRead("x86", a, 5) + d = t
    BY <1>1, <2>2 DEF Taken, PcRead
  <2>6. Step(code, Relocated, s, x, a, z) = M(Addr(t), State, r0, v0, ip, lr)
    <3> HIDE DEF d
    <3>1. Step(code, Relocated, s, x, a, z) =
            M(Addr(PcRead(State, a, x.len) + x.off), State, r0, v0, ip, lr)
      BY <2>2, <2>5, StepB
    <3> QED
      BY <2>1, <2>2, <2>5, <3>1
  <2> QED
    BY <2>4, <2>6
<1>9. CASE prog.arch = "a64"
  <2> DEFINE b == [Item(e + 4, 4, "bx") EXCEPT !.rn = "ip", !.link = FALSE]
             k == Len(labels)
             m1 == M(Addr(a4), "a64", r0, v0, Addr(t), lr)
  <2>1. /\ \E x \in code : LoadsLabel(x, e, k)
        /\ b \in code /\ labels # <<>> /\ labels[k] = t /\ State = "a64"
    BY <1>9 DEF Leads, State
  <2>2. PICK x \in code : LoadsLabel(x, e, k)
    BY <2>1
  <2>3. k # 0 /\ x \in ItemSet
    BY <1>1, <2>1 DEF IndInv, Layout
  <2>4. PICK d \in code : d.op = "data" /\ d.pos = e + x.off /\ d.val = t
    <3>1. x.lab = k /\ x.lab # 0 /\ x.pos = e
      BY <2>2, <2>3 DEF LoadsLabel
    <3>2. \E d \in code : d.op = "data" /\ d.pos = x.pos + Bias + x.off /\ d.val = labels[x.lab]
      BY <3>1 DEF IndInv, Linked
    <3>3. Bias = 0 /\ x.off \in Int
      BY <1>9, <2>3 DEF Bias, ItemSet
    <3> QED
      BY <2>1, <3>1, <3>2, <3>3
  <2>5. x.pos = e /\ x.len = 4 /\ x.op = "ldr" /\ x.rt = "ip" /\ ~x.link /\ Taken(x.cond, z) /\ x.off \in Int
    BY <2>2, <2>3 DEF LoadsLabel, Taken, ItemSet
  <2>6. One(s) = m1
    <3>1. s.pc = Addr(a) /\ Relocated + x.pos = a
      BY <1>4, <2>5 DEF M
    <3>2. One(s) = Step(code, Relocated, s, x, a, z)
      <4> HIDE DEF s
      <4> QED
        BY <1>2, <1>4, <1>10, <2>5, <3>1, AdvanceAt
    <3> DEFINE g == PcBase("a64", a, 4) + x.off
    <3>3. Relocated + d.pos = g
      <4>1. PcBase("a64", a, 4) = a
        BY PcBases
      <4> QED
        BY <1>4, <1>10, <2>4, <2>5, <4>1
    <3>4. Fetch(code, Relocated, g, x.w) = Addr(t)
      <4>1. g \in Int /\ d.pos \in Int
        BY <1>2, <1>10, <3>3 DEF Sole
      <4> HIDE DEF g
      <4> QED
        BY <1>2, <1>10, <2>4, <3>3, <4>1, FetchAt
    <3> DEFINE n1 == M(Addr(a4), "a64", r0, v0, ip, lr)
    <3>5. Step(code, Relocated, s, x, a, z) =
            SetReg(M(Addr(a + x.len), "a64", r0, v0, ip, lr), x.rt,
                   Fetch(code, Relocated, PcBase("a64", a, x.len) + x.off, x.w))
      BY <2>1, <2>5, StepLdr
    <3>6. Step(code, Relocated, s, x, a, z) = SetReg(n1, "ip", Addr(t))
      <4> HIDE DEF s
      <4> QED
        BY <1>3, <2>5, <3>4, <3>5
    <3>7. SetReg(n1, "ip", Addr(t)) = m1
      BY Sets
    <3> QED
      BY <3>2, <3>6, <3>7
  <2>7. One(m1) = M(Addr(t), State, r0, v0, Addr(t), lr)
    <3>1. b.pos = e + 4 /\ b.len = 4 /\ b.op = "bx" /\ b.rn = "ip" /\ ~b.link /\ b.cond = "al"
      BY DEF Item
    <3> HIDE DEF b
    <3>2. m1.pc = Addr(a4)
      BY DEF M
    <3>3. a4 - Relocated \in inside /\ Relocated + b.pos = a4 /\ b.pos \in Int
      <4>1. a4 - Relocated = e4 /\ b.pos = e4 /\ e4 \in inside
        BY <1>4, <1>9, <1>10, <1>11, <3>1
      <4> QED
        BY <1>4, <4>1
    <3>4. One(m1) = Step(code, Relocated, m1, b, a4, z)
      <4> HIDE DEF m1
      <4> QED
        BY <1>2, <1>10, <2>1, <3>2, <3>3, AdvanceAt
    <3>5. Taken(b.cond, z)
      BY <3>1 DEF Taken
    <3>6. Step(code, Relocated, m1, b, a4, z) =
            Jump(M(Addr(a4 + b.len), "a64", r0, v0, Addr(t), lr), Addr(t))
      BY <3>1, <3>5, StepBxIp
    <3> QED
      BY <2>1, <3>4, <3>6, JumpTo
  <2> QED
    BY <2>6, <2>7
<1> QED
  BY <1>1, <1>5, <1>6, <1>7, <1>8, <1>9

LEMMA FallsThrough ==
  ASSUME IndInv, Words, BackThere, Elsewhere
  PROVE  FallThrough
<1> SUFFICES ASSUME phase = "done", NEW z \in BOOLEAN
             PROVE  LET m == Run(code, Relocated, CopyTill(Len(offs))..(size - 1),
                                 Machine(Relocated + CopyTill(Len(offs)), State), z, 4)
                    IN m.pc = Addr(Source + cur) /\ m.st = State /\ m.r0 = <<"was", "r0">>
  BY DEF FallThrough
<1>1. /\ cur \in Nat /\ size \in Nat /\ Len(labels) \in Nat /\ Len(offs) \in Nat
      /\ Source \in Nat /\ Relocated \in Nat
      /\ prog.arch \in {"arm", "thumb", "a64", "x64", "x86"}
  BY RelocateAssumption DEF IndInv, Shape, ProgramSet
<1>2. PICK e \in Nat : e = BackAt /\ Leads(e)
  BY DEF BackThere
<1>3. CopyTill(Len(offs)) = e
  BY <1>1, <1>2 DEF CopyTill, BackAt, LabelLen
<1>4. e + 5 <= size /\ (prog.arch = "a64" => e + 8 <= size)
  <2>1. CASE prog.arch = "x64"
    BY <1>1, <1>2, <2>1 DEF BackAt, BackLen
  <2>2. CASE prog.arch = "x86"
    BY <1>1, <1>2, <2>2 DEF BackAt, BackLen
  <2>3. CASE prog.arch = "a64"
    BY <1>1, <1>2, <2>3 DEF BackAt, LabelLen
  <2>4. CASE prog.arch \in {"arm", "thumb"}
    BY <1>1, <1>2, <2>4 DEF BackAt, LabelLen
  <2> QED
    BY <1>1, <2>1, <2>2, <2>3, <2>4
<1>5. PICK a \in Int : a = Relocated + e
  BY <1>1
<1>6. PICK t \in Int : t = Source + cur
  BY <1>1
<1> DEFINE inside == e..(size - 1)
           s == M(Addr(a), State, <<"was", "r0">>, <<"was", "v0">>, <<"was", "ip">>, <<"was", "lr">>)
           Back(m) == m.pc = Addr(t) /\ m.st = State /\ m.r0 = <<"was", "r0">>
           One(m) == Advance(code, Relocated, inside, m, z)
<1>7. /\ e \in inside /\ (prog.arch = "a64" => e + 4 \in inside)
      /\ t - Relocated \notin inside
  BY <1>1, <1>4, <1>6 DEF Elsewhere
<1> HIDE DEF inside
<1>8. Machine(Relocated + e, State) = s
  BY <1>5 DEF Machine, M
<1>9. ASSUME NEW m, Back(m)
      PROVE  One(m) = m
  BY <1>7, <1>9, AdvanceOut
<1>10. \A ip, lr : Back(M(Addr(t), State, <<"was", "r0">>, <<"was", "v0">>, ip, lr))
  BY DEF M
<1>11. \E m1, m2 : One(s) = m1 /\ One(m1) = m2 /\ Back(m2)
  <2>1. \/ One(s) = M(Addr(t), State, <<"was", "r0">>, <<"was", "v0">>, <<"was", "ip">>, <<"was", "lr">>)
        \/ \E m : /\ One(s) = m
                  /\ One(m) = M(Addr(t), State, <<"was", "r0">>, <<"was", "v0">>, Addr(t), <<"was", "lr">>)
    BY <1>2, <1>5, <1>6, <1>7, BackRuns
  <2> HIDE DEF One, s, Back
  <2> QED
    BY <1>9, <1>10, <2>1
<1>12. PICK m1, m2 : One(s) = m1 /\ One(m1) = m2 /\ Back(m2)
  BY <1>11
<1>13. One(m2) = m2
  BY <1>9, <1>12
<1>14. Run(code, Relocated, inside, s, z, 4) = m2
  <2> HIDE DEF s
  <2> QED
    BY <1>12, <1>13, ThreeSteps
<1> QED
  BY <1>3, <1>6, <1>8, <1>12, <1>14 DEF inside

LEMMA BackHolds == Spec => [](IndInv /\ Words /\ BackThere)
<1>1. Init => Words /\ BackThere
  BY DEF Init, Words, BackThere
<1>2. IndInv /\ Words /\ BackThere /\ [Next]_vars => Words' /\ BackThere'
  <2> SUFFICES ASSUME IndInv, Words, BackThere, [Next]_vars PROVE Words' /\ BackThere'
    OBVIOUS
  <2>1. CASE UNCHANGED vars
    BY <2>1 DEF vars, Words, BackThere, BackAt, Leads, LoadsLabel, LabelLen, BackLen
  <2>2. CASE Next
    <3>1. Words'
      BY <2>2, WordsStep
    <3>2. BackThere'
      <4>1. CASE phase' \notin {"fixup", "bind", "finalize", "done"}
        BY <4>1 DEF BackThere
      <4> QED
        BY <2>2, <4>1, BackElsewhere, BackEmitted, BackKept
    <3> QED
      BY <3>1, <3>2
  <2> QED
    BY <2>1, <2>2
<1>3. IndInv /\ [Next]_vars => IndInv'
  BY NextHolds
<1> QED
  BY <1>1, <1>2, <1>3, InitHolds, PTL DEF Spec

\* On every architecture, behind the last copy control returns to the first instruction
\* that was not moved, in the state of the function and with its registers, provided that
\* instruction is not in the block itself.
THEOREM ControlReturns == Spec => [](Elsewhere => FallThrough)
<1>1. IndInv /\ Words /\ BackThere => (Elsewhere => FallThrough)
  BY FallsThrough
<1> QED
  BY <1>1, BackHolds, PTL
-----------------------------------------------------------------------------
(***************************************************************************)
(* The copies of A32 and A64 instructions.                                 *)
(***************************************************************************)
Word == prog.arch \in {"arm", "a64"}

\* What instruction i leads to, loads or computes: its pc and its offset.
Aim(i) == From(i) + (IF prog.arch = "arm" THEN 8 ELSE 0) + prog.insns[i].off

\* The data of label k was t, or is what RelocLabelFixup takes for an offset.
IsKey(t) == \E j \in DOMAIN offs : offs[j][1] = t
LabelIs(k, t) == labels[k] = t \/ (prog.arch = "arm" /\ IsKey(t))

\* Item x loads label k to register r.
Reads(x, p, r, k) ==
  /\ x.pos = p /\ x.len = 4 /\ x.op = "ldr" /\ x.cond = "al" /\ x.rt = r
  /\ ~x.link /\ x.w = 4 /\ x.lab = k

\* An item at p loads t to register r.
Loads(p, r, t) ==
  \E k \in DOMAIN labels : LabelIs(k, t) /\ \E x \in code : Reads(x, p, r, k)

\* The sequences that are emitted at p.
BxItem(p, lk) == [Item(p, 4, "bx") EXCEPT !.rn = "ip", !.link = lk]
Turned(p, it) == [Copy(p, it) EXCEPT !.cond = Inverted(@), !.off = 12]
CallItems(p, c, lk, t) ==
  {B(p, 4, c, 0, lk), B(p + 4, 4, "al", 4, FALSE), Ldr(p + 8, 4, "pc", -4), Data(p + 12, 4, t), Nop(p + 16, 4)}
ScratchFor(r) == IF r = "pc" THEN "ip" ELSE r

Jumps(p, lk, t) == Loads(p, "ip", t) /\ BxItem(p + 4, lk) \in code

A64Kinds == {"b", "ldr", "adr", "adrp"}
ARMKinds == {"b", "blx", "ldr", "adr"}

\* A branch, or the branch over it with the condition turned around.
A64BranchAt(it, p, t) ==
  IF it.cond = "al" /\ it.val = 0 THEN Jumps(p, it.link, t) ELSE Turned(p, it) \in code /\ Jumps(p + 4, FALSE, t)

\* What adr and adrp compute.
AdrValue(it, t) == IF it.op = "adr" THEN t ELSE AlignFloor(t, 4096)

A64CopyAt(i, it, p) ==
  /\ it.op = "b" => A64BranchAt(it, p, Aim(i))
  /\ it.op = "ldr" => Mov(p, 16, "ip", Aim(i)) \in code /\ Ldm(p + 16, 4, "r0", "ip", 8) \in code
  /\ it.op \in {"adr", "adrp"} => Mov(p, 16, it.rt, AdrValue(it, Aim(i))) \in code
  /\ it.op \notin A64Kinds => Copy(p, it) \in code

ARMCopyAt(i, it, p) ==
  /\ it.op = "b" => CallItems(p, it.cond, it.link, Aim(i)) \subseteq code
  /\ it.op = "blx" => CallItems(p, "al", TRUE, From(i) + 8 + AlignFloor(it.off, 4) + 1) \subseteq code
  /\ it.op = "ldr" =>
       /\ Loads(p, ScratchFor(it.rt), Aim(i))
       /\ Ldm(p + 4, 4, it.rt, ScratchFor(it.rt), 4) \in code
  /\ it.op = "adr" => Loads(p, it.rt, Aim(i))
  /\ it.op \notin ARMKinds => Copy(p, it) \in code

CopyLen(it) ==
  IF prog.arch = "a64"
  THEN CASE it.op = "b" -> IF it.cond = "al" /\ it.val = 0 THEN 8 ELSE 12
         [] it.op = "ldr" -> 20 [] it.op \in {"adr", "adrp"} -> 16 [] OTHER -> 4
  ELSE CASE it.op \in {"b", "blx"} -> 20 [] it.op = "ldr" -> 8 [] OTHER -> 4

\* Where the last copy ends.
CodeEnd == IF phase \in {"fixup", "bind", "finalize", "done"} THEN BackAt ELSE size

\* The copy of instruction i, which is it and was at offset f, fills the bytes from p to e.
CopyOf(i, it, f, p, e) ==
  /\ prog.arch = "a64" => A64CopyAt(i, it, p)
  /\ prog.arch = "arm" => ARMCopyAt(i, it, p) /\ f % 4 = 0 /\ p % 4 = 0
  /\ p + CopyLen(it) = e /\ e <= CodeEnd

EndOf(i) == IF i = Len(offs) THEN CodeEnd ELSE offs[i + 1][2]

CopyThere(i) ==
  /\ i <= Len(prog.insns)
  /\ CopyOf(i, prog.insns[i], offs[i][1], offs[i][2], EndOf(i))

Live == phase \in {"insns", "branch", "fixup", "bind", "finalize", "done"}

Copies == Word /\ Live => n = Len(offs) + 1 /\ \A i \in DOMAIN offs : CopyThere(i)

\* What a step leaves alone, and what it adds to.
Keeps ==
  /\ prog' = prog
  /\ \A x \in code : x.lab = 0 => x \in code'
  /\ \A p, r, t : Loads(p, r, t) => Loads(p, r, t)'

LEMMA ProgFacts ==
  ASSUME Shape, NEW i \in 1..Len(prog.insns)
  PROVE  /\ prog.insns[i] \in ItemSet /\ prog.insns[i].lab = 0
         /\ prog.insns[i].len \in LengthsOf(prog.arch)
<1>1. PICK p \in Programs : prog.arch = p.arch /\ prog.insns = p.insns
  BY DEF Shape, KnownProgram
<1>2. p \in ProgramSet
  BY RelocateAssumption
<1>3. i \in DOMAIN p.insns /\ p.insns \in Seq(ItemSet)
  BY <1>1, <1>2 DEF Shape, ProgramSet
<1> QED
  BY <1>1, <1>3, RelocateAssumption, ElementOfSeq

LEMMA EmittedLabs ==
  ASSUME NEW p, NEW l, NEW c, NEW d, NEW lk, NEW r, NEW r2
  PROVE  /\ B(p, l, c, d, lk).lab = 0 /\ Ldr(p, l, r, d).lab = 0 /\ Data(p, l, d).lab = 0
         /\ Nop(p, l).lab = 0 /\ Mov(p, l, r, d).lab = 0 /\ Ldm(p, l, r, r2, d).lab = 0
         /\ BxItem(p, lk).lab = 0
  BY DEF B, Ldr, Data, Nop, Mov, Ldm, BxItem, Item

LEMMA CopiedLabs ==
  ASSUME NEW p, NEW it, it.lab = 0
  PROVE  Copy(p, it).lab = 0 /\ Turned(p, it).lab = 0
  BY DEF Copy, Turned

LEMMA CallItemsKept ==
  ASSUME Keeps, NEW p, NEW c, NEW lk, NEW t, CallItems(p, c, lk, t) \subseteq code
  PROVE  CallItems(p, c, lk, t) \subseteq code'
<1>1. /\ B(p, 4, c, 0, lk).lab = 0 /\ B(p + 4, 4, "al", 4, FALSE).lab = 0
      /\ Ldr(p + 8, 4, "pc", -4).lab = 0 /\ Data(p + 12, 4, t).lab = 0 /\ Nop(p + 16, 4).lab = 0
  BY DEF B, Ldr, Data, Nop, Item
<1>2. \A x \in CallItems(p, c, lk, t) : x.lab = 0
  BY <1>1 DEF CallItems
<1> QED
  BY <1>2 DEF Keeps

LEMMA A64BranchKept ==
  ASSUME Keeps, NEW it, NEW p, NEW t, it.lab = 0, A64BranchAt(it, p, t)
  PROVE  A64BranchAt(it, p, t)'
<1>1. ASSUME NEW q, NEW lk, BxItem(q, lk) \in code
      PROVE  BxItem(q, lk) \in code'
  BY <1>1, EmittedLabs DEF Keeps
<1>2. Turned(p, it) \in code => Turned(p, it) \in code'
  BY CopiedLabs DEF Keeps
<1>3. \A q, r, d : Loads(q, r, d) => Loads(q, r, d)'
  BY DEF Keeps
<1>4. \A q, lk, d : Jumps(q, lk, d) => Jumps(q, lk, d)'
  BY <1>1, <1>3 DEF Jumps
<1> QED
  BY <1>2, <1>4 DEF A64BranchAt

LEMMA A64CopyKept ==
  ASSUME Keeps, NEW i, NEW it, NEW p, it.lab = 0, Aim(i)' = Aim(i), A64CopyAt(i, it, p)
  PROVE  A64CopyAt(i, it, p)'
<1>1. PICK t : t = Aim(i) /\ t = Aim(i)'
  OBVIOUS
<1>2. CASE it.op = "b"
  BY <1>1, <1>2, A64BranchKept DEF A64CopyAt, A64Kinds
<1>3. CASE it.op = "ldr"
  <2>1. Mov(p, 16, "ip", t) \in code /\ Ldm(p + 16, 4, "r0", "ip", 8) \in code
    BY <1>1, <1>3 DEF A64CopyAt
  <2>2. Mov(p, 16, "ip", t).lab = 0 /\ Ldm(p + 16, 4, "r0", "ip", 8).lab = 0
    BY DEF Mov, Ldm, Item
  <2>3. Mov(p, 16, "ip", t) \in code' /\ Ldm(p + 16, 4, "r0", "ip", 8) \in code'
    BY <2>1, <2>2 DEF Keeps
  <2> QED
    BY <1>1, <1>3, <2>3 DEF A64CopyAt, A64Kinds
<1>4. CASE it.op \in {"adr", "adrp"}
  <2>1. PICK v : v = AdrValue(it, t)
    OBVIOUS
  <2>2. Mov(p, 16, it.rt, v) \in code
    BY <1>1, <1>4, <2>1 DEF A64CopyAt
  <2>3. Mov(p, 16, it.rt, v) \in code'
    BY <2>2, EmittedLabs DEF Keeps
  <2> QED
    BY <1>1, <1>4, <2>1, <2>3 DEF A64CopyAt, A64Kinds, AdrValue
<1>5. CASE it.op \notin A64Kinds
  <2>1. Copy(p, it) \in code'
    BY <1>5, CopiedLabs DEF A64CopyAt, Keeps
  <2> QED
    BY <1>5, <2>1 DEF A64CopyAt, A64Kinds
<1> QED
  BY <1>2, <1>3, <1>4, <1>5 DEF A64Kinds

LEMMA ARMCopyKept ==
  ASSUME Keeps, NEW i, NEW it, NEW p, it.lab = 0, Aim(i)' = Aim(i), From(i)' = From(i),
         ARMCopyAt(i, it, p)
  PROVE  ARMCopyAt(i, it, p)'
<1>1. PICK t : t = Aim(i) /\ t = Aim(i)'
  OBVIOUS
<1>2. PICK f : f = From(i) /\ f = From(i)'
  OBVIOUS
<1>3. CASE it.op = "b"
  BY <1>1, <1>3, CallItemsKept DEF ARMCopyAt, ARMKinds
<1>4. CASE it.op = "blx"
  BY <1>2, <1>4, CallItemsKept DEF ARMCopyAt, ARMKinds
<1>5. CASE it.op \in {"ldr", "adr"}
  <2>1. ASSUME NEW q, NEW l, NEW r, NEW r2, NEW d, Ldm(q, l, r, r2, d) \in code
        PROVE  Ldm(q, l, r, r2, d) \in code'
    BY <2>1, EmittedLabs DEF Keeps
  <2>2. \A q, r, d : Loads(q, r, d) => Loads(q, r, d)'
    BY DEF Keeps
  <2> QED
    BY <1>1, <1>5, <2>1, <2>2 DEF ARMCopyAt, ARMKinds
<1>6. CASE it.op \notin ARMKinds
  <2>1. Copy(p, it) \in code'
    BY <1>6, CopiedLabs DEF ARMCopyAt, Keeps
  <2> QED
    BY <1>6, <2>1 DEF ARMCopyAt, ARMKinds
<1> QED
  BY <1>3, <1>4, <1>5, <1>6 DEF ARMKinds

\* A label that has just been appended is loaded.
LEMMA LabelLoads ==
  ASSUME labels \in Seq(Int), NEW t \in Int, NEW p, NEW r, labels' = labels \o <<t>>,
         LdrLabel(p, 4, r, Len(labels) + 1) \in code'
  PROVE  Loads(p, r, t)'
<1>1. Len(labels) + 1 \in DOMAIN labels' /\ labels'[Len(labels) + 1] = t
  BY ConcatProperties
<1>2. \A k : Reads(LdrLabel(p, 4, r, k), p, r, k)
  BY DEF Reads, LdrLabel, Item
<1>3. \E k \in DOMAIN labels' : labels'[k] = t /\ \E x \in code' : Reads(x, p, r, k)
  BY <1>1, <1>2
<1> QED
  BY <1>3 DEF Loads, LabelIs

\* Code and labels are appended to.
LEMMA AppendKeeps ==
  ASSUME labels \in Seq(Int), NEW items, NEW ls \in Seq(Int), prog' = prog,
         code' = code \cup items, labels' = labels \o ls, \A t : IsKey(t) => IsKey(t)'
  PROVE  Keeps
<1>1. \A k \in DOMAIN labels : k \in DOMAIN labels' /\ labels'[k] = labels[k]
  BY ConcatProperties
<1>2. ASSUME NEW k \in DOMAIN labels, NEW t, LabelIs(k, t)
      PROVE  LabelIs(k, t)'
  BY <1>1, <1>2 DEF LabelIs
<1>3. ASSUME NEW p, NEW r, NEW t, Loads(p, r, t)
      PROVE  Loads(p, r, t)'
  <2>1. PICK k \in DOMAIN labels : LabelIs(k, t) /\ \E x \in code : Reads(x, p, r, k)
    BY <1>3 DEF Loads
  <2>2. k \in DOMAIN labels' /\ LabelIs(k, t)' /\ \E x \in code' : Reads(x, p, r, k)
    BY <1>1, <1>2, <2>1
  <2> QED
    BY <2>2 DEF Loads
<1> QED
  BY <1>3 DEF Keeps

\* A copy stays where it is.
LEMMA CopyOfKept ==
  ASSUME Word, Keeps, NEW i, NEW it, it.lab = 0, NEW f, NEW p, NEW e \in Int, CopyOf(i, it, f, p, e),
         From(i)' = From(i), CodeEnd \in Int, CodeEnd' \in Int, CodeEnd <= CodeEnd'
  PROVE  CopyOf(i, it, f, p, e)'
<1>1. prog' = prog
  BY DEF Keeps
<1>2. Aim(i)' = Aim(i)
  BY <1>1 DEF Aim
<1>3. prog.arch = "a64" => A64CopyAt(i, it, p)'
  BY <1>2, A64CopyKept DEF CopyOf
<1>4. prog.arch = "arm" => ARMCopyAt(i, it, p)' /\ f % 4 = 0 /\ p % 4 = 0
  BY <1>2, ARMCopyKept DEF CopyOf
<1>5. CopyLen(it)' = CopyLen(it)
  BY <1>1 DEF CopyLen
<1>6. p + CopyLen(it)' = e /\ e <= CodeEnd'
  BY <1>5 DEF CopyOf
<1> QED
  BY <1>1, <1>3, <1>4, <1>6 DEF CopyOf

LEMMA CodeEndIs ==
  ASSUME IndInv, Word, Live, BackThere
  PROVE  CodeEnd \in Nat /\ (phase \in {"insns", "branch"} => CodeEnd = size)
  BY DEF CodeEnd, Live, BackThere, IndInv, Shape

\* One iteration adds the copy of its instruction.
LEMMA EmitCopies ==
  ASSUME IndInv, Words, Copies, Word, Pending, NEW items, NEW end \in Nat, NEW ls \in Seq(Int),
         Emitted(items, end, ls), prog' = prog, phase' = "insns", NEW it, it = Ins, NEW p, p = size,
         NEW m, m = n, end = p + CopyLen(it), p <= end,
         prog.arch = "a64" => A64CopyAt(m, it, p)', prog.arch = "arm" => ARMCopyAt(m, it, p)'
  PROVE  Copies'
<1>1. /\ n \in Nat \ {0} /\ cur \in Nat /\ size \in Nat /\ offs \in Seq(Nat \X Nat)
      /\ labels \in Seq(Int) /\ Shape /\ n <= Len(prog.insns) /\ phase = "insns" /\ Live
  BY DEF IndInv, Shape, Pending, Live
<1>2. n = Len(offs) + 1 /\ \A i \in DOMAIN offs : CopyThere(i)
  BY <1>1 DEF Copies
<1>3. /\ offs' = Append(offs, <<cur, size>>) /\ size' = end /\ code' = code \cup items
      /\ labels' = labels \o ls /\ n' = n + 1
  BY DEF Emitted
<1>10. Len(offs) \in Nat /\ DOMAIN offs = 1..Len(offs) /\ m = Len(offs) + 1
  BY <1>1, <1>2
<1>11. Len(prog.insns) \in Nat
  BY <1>1 DEF Shape, ProgramSet
<1>4. /\ Len(offs') = m /\ DOMAIN offs' = 1..m /\ offs'[m] = <<cur, p>> /\ n' = Len(offs') + 1
      /\ \A j \in DOMAIN offs : offs'[j] = offs[j]
  <2>1. <<cur, size>> \in Nat \X Nat
    BY <1>1
  <2>2. /\ Len(offs') = Len(offs) + 1 /\ offs' \in Seq(Nat \X Nat) /\ offs'[Len(offs) + 1] = <<cur, size>>
        /\ \A j \in 1..Len(offs) : offs'[j] = offs[j]
    BY <1>1, <1>3, <2>1, AppendProperties
  <2>3. DOMAIN offs' = 1..Len(offs')
    BY <2>2
  <2> QED
    BY <1>3, <1>10, <2>2, <2>3
<1>5. Keeps
  <2>1. ASSUME NEW t, IsKey(t)
        PROVE  IsKey(t)'
    <3>1. PICK j \in DOMAIN offs : offs[j][1] = t
      BY <2>1 DEF IsKey
    <3>2. j \in DOMAIN offs' /\ offs'[j][1] = t
      BY <1>4, <1>10, <3>1
    <3> QED
      BY <3>2 DEF IsKey
  <2> QED
    BY <1>1, <1>3, <2>1, AppendKeeps
<1>6. CodeEnd = p /\ CodeEnd' = end
  BY <1>1, <1>3 DEF CodeEnd
<1>7. ASSUME NEW i \in DOMAIN offs
      PROVE  CopyThere(i)'
  <2>1. CopyThere(i) /\ i \in 1..Len(prog.insns)
    BY <1>2, <1>7, <1>10, <1>11 DEF CopyThere
  <2>2. PICK jt : jt = prog.insns[i]
    OBVIOUS
  <2>3. jt.lab = 0
    BY <1>1, <2>1, <2>2, ProgFacts
  <2>4. PICK f, q, e : f = offs[i][1] /\ q = offs[i][2] /\ e = EndOf(i)
    OBVIOUS
  <2>5. e \in Int
    BY <1>1, <1>2, <1>6, <2>4, ElementOfSeq DEF EndOf
  <2>6. EndOf(i)' = e
    <3>1. CASE i = Len(offs)
      <4>1. i # m /\ i + 1 = m
        <5>1. PICK k \in Nat : k = Len(offs)
          BY <1>10
        <5>2. i = k /\ m = k + 1
          BY <1>10, <3>1, <5>1
        <5> QED
          BY <5>2
      <4>2. e = p
        BY <1>6, <2>4, <3>1 DEF EndOf
      <4> QED
        BY <1>4, <4>1, <4>2 DEF EndOf
    <3>2. CASE i # Len(offs)
      <4>1. i + 1 \in DOMAIN offs /\ i # m /\ e = offs[i + 1][2]
        BY <1>7, <1>10, <2>4, <3>2 DEF EndOf
      <4> QED
        BY <1>4, <4>1 DEF EndOf
    <3> QED
      BY <3>1, <3>2
  <2>7. CopyOf(i, jt, f, q, e)
    BY <2>1, <2>2, <2>4 DEF CopyThere
  <2>8. From(i)' = From(i)
    BY <1>4 DEF From
  <2>9. CodeEnd \in Int /\ CodeEnd' \in Int /\ CodeEnd <= CodeEnd'
    BY <1>1, <1>6
  <2>10. CopyOf(i, jt, f, q, e)'
    BY <1>5, <2>3, <2>5, <2>7, <2>8, <2>9, CopyOfKept
  <2> QED
    BY <1>4, <2>1, <2>2, <2>4, <2>6, <2>10 DEF CopyThere
<1>8. CopyThere(m)'
  <2>1. PICK f : f = cur
    OBVIOUS
  <2>2. prog.arch = "arm" => f % 4 = 0 /\ p % 4 = 0
    BY <2>1 DEF Words
  <2>3. CopyLen(it)' = CopyLen(it)
    BY DEF CopyLen
  <2>4. CopyOf(m, it, f, p, end)'
    <3>1. p + CopyLen(it)' = end /\ end <= CodeEnd'
      BY <1>6, <2>3
    <3> QED
      BY <2>2, <3>1 DEF CopyOf
  <2>5. EndOf(m)' = end
    BY <1>4, <1>6 DEF EndOf
  <2>6. (prog.insns[m])' = it /\ (offs[m])' = <<f, p>> /\ m <= Len(prog'.insns)
    BY <1>1, <1>4, <2>1 DEF Ins
  <2> QED
    BY <2>4, <2>5, <2>6 DEF CopyThere
<1>9. \A i \in DOMAIN offs' : CopyThere(i)'
  <2> SUFFICES ASSUME NEW i \in 1..m PROVE CopyThere(i)'
    BY <1>4
  <2>1. i \in DOMAIN offs \/ i = m
    BY <1>1, <1>2
  <2> QED
    BY <1>7, <1>8, <2>1
<1> QED
  BY <1>4, <1>9 DEF Copies

LEMMA JumpEmitted ==
  ASSUME labels \in Seq(Int), NEW p, NEW lk, NEW t \in Int, labels' = labels \o <<t>>,
         A64Jump(p, lk) \subseteq code'
  PROVE  Jumps(p, lk, t)'
<1>1. LdrLabel(p, 4, "ip", Len(labels) + 1) \in code'
  BY DEF A64Jump, A64NewLabel
<1>2. BxItem(p + 4, lk) \in code'
  BY DEF A64Jump, BxItem
<1>3. Loads(p, "ip", t)'
  BY <1>1, LabelLoads
<1> QED
  BY <1>2, <1>3 DEF Jumps

\* The copies of A64 instructions.
LEMMA A64InsnCopies ==
  ASSUME IndInv, Words, Copies, Word, A64Insn
  PROVE  Copies'
<1>1. A64Pending /\ Shape /\ Pending /\ prog.arch = "a64" /\ phase = "insns"
  BY DEF A64Insn, A64BBl, A64LdrLiteral, A64LdrOther, A64Adr, A64Adrp, A64BCond, A64CompareB,
         A64TestB, A64Copy, A64Pending, Pending, IndInv
<1>2. PICK it : it = Ins
  OBVIOUS
<1>3. PICK p \in Nat : p = size
  BY <1>1 DEF Shape
<1>4. PICK m \in Nat : m = n
  BY <1>1 DEF Shape
<1>5. PICK t \in Int : t = At + Ins.off
  BY <1>1, InsFacts DEF ItemSet
<1>6. labels \in Seq(Int) /\ offs \in Seq(Nat \X Nat) /\ n = Len(offs) + 1
  BY <1>1 DEF Shape, Copies, Live
<1>7. ASSUME NEW items, NEW end, NEW ls, A64Emitted(items, end, ls)
      PROVE  /\ Aim(m)' = t /\ items \subseteq code' /\ labels' = labels \o ls /\ prog' = prog
             /\ phase' = "insns" /\ Emitted(items, end, ls)
  <2>1. offs' = Append(offs, <<cur, size>>) /\ prog' = prog /\ code' = code \cup items
    BY <1>7 DEF A64Emitted, Emitted
  <2>2. offs'[m] = <<cur, size>>
    BY <1>4, <1>6, <2>1
  <2>3. From(m)' = At
    BY <2>2 DEF From, At
  <2>4. At \in Nat /\ Ins.off \in Int
    BY <1>1, InsFacts DEF ItemSet
  <2>5. Aim(m)' = At + 0 + Ins.off
    BY <1>1, <1>4, <2>1, <2>3 DEF Aim, Ins
  <2>6. Aim(m)' = t
    BY <1>5, <2>4, <2>5
  <2> QED
    BY <1>1, <1>7, <2>1, <2>6 DEF A64Emitted, Emitted
<1>8. ASSUME NEW items, NEW ls \in Seq(Int), NEW l \in {4, 8, 12, 16, 20}, A64Emitted(items, p + l, ls),
             CopyLen(it) = l, A64CopyAt(m, it, p)'
      PROVE  Copies'
  <2>1. PICK end \in Nat : end = p + l /\ end = p + CopyLen(it) /\ p <= end
    BY <1>8
  <2> QED
    BY <1>1, <1>2, <1>3, <1>4, <1>7, <1>8, <2>1, EmitCopies
<1>9. <<t>> \in Seq(Int) /\ <<>> \in Seq(Int)
  OBVIOUS
<1>10. CASE A64BBl
  <2>1. it.op = "b" /\ it.cond = "al" /\ it.val = 0 /\ A64Emitted(A64Jump(p, it.link), p + 8, <<t>>)
    BY <1>2, <1>3, <1>5, <1>10 DEF A64BBl
  <2>2. CopyLen(it) = 8
    BY <1>1, <2>1 DEF CopyLen
  <2>3. Jumps(p, it.link, t)'
    BY <1>6, <1>7, <2>1, JumpEmitted
  <2>4. Aim(m)' = t
    BY <1>7, <2>1
  <2>5. A64CopyAt(m, it, p)'
    <3>1. A64BranchAt(it, p, t)'
      BY <2>1, <2>3 DEF A64BranchAt
    <3> QED
      BY <2>1, <2>4, <3>1 DEF A64CopyAt, A64Kinds
  <2> QED
    BY <1>8, <1>9, <2>1, <2>2, <2>5
<1>11. CASE A64LdrLiteral
  <2> DEFINE a == Mov(p, 16, "ip", t)
             b == Ldm(p + 16, 4, "r0", "ip", 8)
  <2>1. it.op = "ldr" /\ A64Emitted({a, b}, p + 20, <<>>)
    BY <1>2, <1>3, <1>5, <1>11 DEF A64LdrLiteral
  <2>2. CopyLen(it) = 20
    BY <1>1, <2>1 DEF CopyLen
  <2>3. Aim(m)' = t /\ {a, b} \subseteq code'
    BY <1>7, <2>1
  <2>4. A64CopyAt(m, it, p)'
    BY <2>1, <2>3 DEF A64CopyAt, A64Kinds
  <2> QED
    BY <1>8, <1>9, <2>1, <2>2, <2>4
<1>12. CASE A64Adr
  <2> DEFINE a == Mov(p, 16, it.rt, AdrValue(it, t))
  <2>1. it.op = "adr" /\ A64Emitted({a}, p + 16, <<>>)
    BY <1>2, <1>3, <1>5, <1>12 DEF A64Adr, AdrValue
  <2>2. CopyLen(it) = 16
    BY <1>1, <2>1 DEF CopyLen
  <2>3. Aim(m)' = t /\ {a} \subseteq code'
    BY <1>7, <2>1
  <2>4. A64CopyAt(m, it, p)'
    BY <2>1, <2>3 DEF A64CopyAt, A64Kinds
  <2> QED
    BY <1>8, <1>9, <2>1, <2>2, <2>4
<1>13. CASE A64Adrp
  <2> DEFINE a == Mov(p, 16, it.rt, AdrValue(it, t))
  <2>1. it.op = "adrp" /\ A64Emitted({a}, p + 16, <<>>)
    BY <1>2, <1>3, <1>5, <1>13 DEF A64Adrp, AdrValue
  <2>2. CopyLen(it) = 16
    BY <1>1, <2>1 DEF CopyLen
  <2>3. Aim(m)' = t /\ {a} \subseteq code'
    BY <1>7, <2>1
  <2>4. A64CopyAt(m, it, p)'
    BY <2>1, <2>3 DEF A64CopyAt, A64Kinds, AdrValue
  <2> HIDE DEF a
  <2> QED
    BY <1>8, <1>9, <2>1, <2>2, <2>4
<1>14. CASE A64BCond \/ A64CompareB \/ A64TestB
  <2> DEFINE a == Turned(p, it)
             b == A64Jump(p + 4, FALSE)
  <2>1. it.op = "b" /\ ~(it.cond = "al" /\ it.val = 0) /\ A64Emitted({a} \cup b, p + 12, <<t>>)
    BY <1>2, <1>3, <1>5, <1>14 DEF A64BCond, A64CompareB, A64TestB, A64CondItems, Turned
  <2>2. CopyLen(it) = 12
    BY <1>1, <2>1 DEF CopyLen
  <2>3. Aim(m)' = t /\ a \in code' /\ b \subseteq code' /\ labels' = labels \o <<t>>
    BY <1>7, <2>1
  <2>4. PICK q : q = p + 4
    OBVIOUS
  <2>5. Jumps(q, FALSE, t)'
    BY <1>6, <2>3, <2>4, JumpEmitted
  <2>6. Jumps(p + 4, FALSE, t)'
    BY <2>4, <2>5
  <2>8. it.op = "b" /\ ~(it.cond = "al" /\ it.val = 0) /\ Aim(m)' = t /\ Turned(p, it) \in code'
    BY <2>1, <2>3
  <2>9. A64BranchAt(it, p, t)'
    BY <2>6, <2>8 DEF A64BranchAt
  <2>7. A64CopyAt(m, it, p)'
    BY <2>8, <2>9 DEF A64CopyAt, A64Kinds
  <2> QED
    BY <1>8, <1>9, <2>1, <2>2, <2>7
<1>15. CASE A64Copy
  <2>1. it.op \notin A64Kinds /\ A64Emitted({Copy(p, it)}, p + 4, <<>>)
    BY <1>2, <1>3, <1>15 DEF A64Copy, A64Kinds
  <2>2. CopyLen(it) = 4
    BY <1>1, <2>1 DEF CopyLen, A64Kinds
  <2>3. Copy(p, it) \in code'
    BY <1>7, <2>1
  <2>5. it.op # "b" /\ it.op # "ldr" /\ it.op # "adr" /\ it.op # "adrp"
    BY <2>1 DEF A64Kinds
  <2>4. A64CopyAt(m, it, p)'
    BY <2>3, <2>5, Zenon DEF A64CopyAt, A64Kinds
  <2> QED
    BY <1>8, <1>9, <2>1, <2>2, <2>4
<1>16. CASE A64LdrOther
  <2>1. phase' = "aborted"
    BY <1>16 DEF A64LdrOther, Abort
  <2> QED
    BY <2>1 DEF Copies, Live
<1> QED
  BY <1>10, <1>11, <1>12, <1>13, <1>14, <1>15, <1>16 DEF A64Insn

\* The copies of A32 instructions.
LEMMA ARMInsnCopies ==
  ASSUME IndInv, Words, Copies, Word, ARMInsn
  PROVE  Copies'
<1>1. ARMPending /\ Shape /\ Pending /\ prog.arch = "arm" /\ phase = "insns"
  BY DEF ARMInsn, ARMLdrLiteral, ARMAdr, ARMBranch, ARMBlx, ARMCopy, ARMPending, Pending, IndInv
<1>2. PICK it : it = Ins
  OBVIOUS
<1>3. PICK p \in Nat : p = size
  BY <1>1 DEF Shape
<1>4. PICK m \in Nat : m = n
  BY <1>1 DEF Shape
<1>5. PICK t \in Int : t = CurPc + Ins.off
  BY <1>1, InsFacts DEF ItemSet, CurPc
<1>6. labels \in Seq(Int) /\ offs \in Seq(Nat \X Nat) /\ n = Len(offs) + 1
  BY <1>1 DEF Shape, Copies, Live
<1>7. ASSUME NEW items, NEW end, NEW ls, ARMEmitted(items, end, ls)
      PROVE  /\ Aim(m)' = t /\ items \subseteq code' /\ labels' = labels \o ls /\ prog' = prog
             /\ phase' = "insns" /\ Emitted(items, end, ls) /\ From(m)' + 8 = CurPc
  <2>1. offs' = Append(offs, <<cur, size>>) /\ prog' = prog /\ code' = code \cup items
    BY <1>7 DEF ARMEmitted, Emitted
  <2>2. offs'[m] = <<cur, size>>
    BY <1>4, <1>6, <2>1
  <2>3. From(m)' = At
    BY <2>2 DEF From, At
  <2>4. CurPc = At + 8
    BY <1>1 DEF CurPc
  <2>5. Aim(m)' = At + 8 + Ins.off
    BY <1>1, <1>4, <2>1, <2>3 DEF Aim, Ins
  <2> QED
    BY <1>1, <1>5, <1>7, <2>1, <2>3, <2>4, <2>5 DEF ARMEmitted, Emitted
<1>8. ASSUME NEW items, NEW ls \in Seq(Int), NEW l \in {4, 8, 12, 16, 20}, ARMEmitted(items, p + l, ls),
             CopyLen(it) = l, ARMCopyAt(m, it, p)'
      PROVE  Copies'
  <2>1. PICK end \in Nat : end = p + l /\ end = p + CopyLen(it) /\ p <= end
    BY <1>8
  <2> QED
    BY <1>1, <1>2, <1>3, <1>4, <1>7, <1>8, <2>1, EmitCopies
<1>9. <<t>> \in Seq(Int) /\ <<>> \in Seq(Int)
  OBVIOUS
<1>10. CASE ARMLdrLiteral
  <2>1. PICK r : r = ScratchFor(it.rt)
    OBVIOUS
  <2> DEFINE a == LdrLabel(p, 4, r, Len(labels) + 1)
             b == Ldm(p + 4, 4, it.rt, r, 4)
  <2>2. it.op = "ldr" /\ ARMEmitted({a, b}, p + 8, <<t>>)
    BY <1>2, <1>3, <1>5, <1>10, <2>1 DEF ARMLdrLiteral, ScratchFor, NewLabel
  <2>3. CopyLen(it) = 8
    BY <1>1, <2>2 DEF CopyLen
  <2>4. Aim(m)' = t /\ a \in code' /\ b \in code' /\ labels' = labels \o <<t>>
    BY <1>7, <2>2
  <2>5. Loads(p, r, t)'
    BY <1>6, <2>4, LabelLoads
  <2>6. ARMCopyAt(m, it, p)'
    BY <2>1, <2>2, <2>4, <2>5 DEF ARMCopyAt, ARMKinds
  <2> QED
    BY <1>8, <1>9, <2>2, <2>3, <2>6
<1>11. CASE ARMAdr
  <2>1. PICK r : r = it.rt
    OBVIOUS
  <2> DEFINE a == LdrLabel(p, 4, r, Len(labels) + 1)
  <2>2. it.op = "adr" /\ ARMEmitted({a}, p + 4, <<t>>)
    BY <1>2, <1>3, <1>5, <1>11, <2>1 DEF ARMAdr, NewLabel
  <2>3. CopyLen(it) = 4
    BY <1>1, <2>2 DEF CopyLen
  <2>4. Aim(m)' = t /\ a \in code' /\ labels' = labels \o <<t>>
    BY <1>7, <2>2
  <2>5. Loads(p, r, t)'
    BY <1>6, <2>4, LabelLoads
  <2>6. ARMCopyAt(m, it, p)'
    BY <2>1, <2>2, <2>4, <2>5 DEF ARMCopyAt, ARMKinds
  <2> QED
    BY <1>8, <1>9, <2>2, <2>3, <2>6
<1>12. CASE ARMBranch
  <2>1. it.op = "b" /\ ARMEmitted(CallItems(p, it.cond, it.link, t), p + 20, <<>>)
    BY <1>2, <1>3, <1>5, <1>12 DEF ARMBranch, ARMBranchItems, CallItems
  <2>2. CopyLen(it) = 20
    BY <1>1, <2>1 DEF CopyLen
  <2>3. Aim(m)' = t /\ CallItems(p, it.cond, it.link, t) \subseteq code'
    BY <1>7, <2>1
  <2>4. ARMCopyAt(m, it, p)'
    BY <2>1, <2>3 DEF ARMCopyAt, ARMKinds
  <2> QED
    BY <1>8, <1>9, <2>1, <2>2, <2>4
<1>13. CASE ARMBlx
  <2>1. PICK d : d = CurPc + AlignFloor(it.off, 4) + 1
    OBVIOUS
  <2>2. it.op = "blx" /\ ARMEmitted(CallItems(p, "al", TRUE, d), p + 20, <<>>)
    BY <1>2, <1>3, <1>13, <2>1 DEF ARMBlx, ARMBranchItems, CallItems
  <2>3. CopyLen(it) = 20
    BY <1>1, <2>2 DEF CopyLen
  <2>4. From(m)' + 8 = CurPc /\ CallItems(p, "al", TRUE, d) \subseteq code'
    BY <1>7, <2>2
  <2>5. From(m)' + 8 + AlignFloor(it.off, 4) + 1 = d
    BY <2>1, <2>4
  <2>6. ARMCopyAt(m, it, p)'
    BY <2>2, <2>4, <2>5 DEF ARMCopyAt, ARMKinds
  <2> QED
    BY <1>8, <1>9, <2>2, <2>3, <2>6
<1>14. CASE ARMCopy
  <2>1. it.op \notin ARMKinds /\ ARMEmitted({Copy(p, it)}, p + 4, <<>>)
    BY <1>2, <1>3, <1>14 DEF ARMCopy, ARMKinds
  <2>2. CopyLen(it) = 4
    BY <1>1, <2>1 DEF CopyLen, ARMKinds
  <2>3. Copy(p, it) \in code'
    BY <1>7, <2>1
  <2>4. ARMCopyAt(m, it, p)'
    BY <2>1, <2>3 DEF ARMCopyAt, ARMKinds
  <2> QED
    BY <1>8, <1>9, <2>1, <2>2, <2>4
<1> QED
  BY <1>10, <1>11, <1>12, <1>13, <1>14 DEF ARMInsn

LEMMA ArchStays ==
  ASSUME IndInv, Next
  PROVE  prog'.arch = prog.arch
<1>1. prog \in ProgramSet
  BY DEF IndInv, Shape
<1>2. CASE LoopEnds
  BY <1>2 DEF LoopEnds
<1>3. CASE ARMNext
  <2>1. CASE ARMInsn
    BY <2>1 DEF ARMInsn, ARMLdrLiteral, ARMAdr, ARMBranch, ARMBlx, ARMCopy, ARMEmitted
  <2>2. CASE ThumbInsn
    <3>1. Thumb1Svc \/ \E items, end, ls, ch : ThumbEmitted(items, end, ls, ch)
      BY <2>2 DEF ThumbInsn, Thumb1HighRegister, Thumb1BxPc, Thumb1BlxPc, Thumb1LdrLiteral,
         Thumb1Adr, Thumb1BCond, Thumb1Cbz, Thumb1B, Thumb1Copy, Thumb2BCond, Thumb2B,
         Thumb2Bl, Thumb2Blx, Thumb2Adr, Thumb2LdrLiteral, Thumb2Copy
    <3> QED
      BY <3>1 DEF Thumb1Svc, Abort, ThumbEmitted
  <2>3. CASE RelocateRemain \/ ARMBranchBack \/ ThumbBranchBack \/ RelocLabelFixup
    BY <2>3 DEF RelocateRemain, ARMBranchBack, ThumbBranchBack, RelocLabelFixup
  <2>4. CASE ARMRelocBind \/ ThumbRelocBind \/ ARMFinalize
    BY <2>4 DEF ARMRelocBind, ThumbRelocBind, Bound, ARMFinalize, Finalized
  <2> QED
    BY <1>3, <2>1, <2>2, <2>3, <2>4 DEF ARMNext
<1>4. CASE A64Next
  <2>1. CASE A64Insn
    <3>1. Abort \/ \E items, end, ls : A64Emitted(items, end, ls)
      BY <2>1 DEF A64Insn, A64BBl, A64LdrLiteral, A64LdrOther, A64Adr, A64Adrp, A64BCond,
         A64CompareB, A64TestB, A64Copy
    <3> QED
      BY <3>1 DEF Abort, A64Emitted
  <2>2. CASE A64BranchBack \/ A64RelocBind \/ A64Finalize
    BY <2>2 DEF A64BranchBack, A64RelocBind, Bound, A64Finalize, Finalized
  <2> QED
    BY <1>4, <2>1, <2>2 DEF A64Next
<1>5. CASE X86Next
  <2>1. CASE X86Insn
    BY <2>1 DEF X86Insn, X86Sse, X86Jcc8, X86Rip, X86RipNoMemory, X86Jmp8, X86CallJmp32,
       X86CallAssert, X86Loop, X86Copy, X86Emitted, Abort
  <2>2. CASE X86BranchBack
    BY <1>1, <2>2 DEF X86BranchBack, ProgramSet
  <2>3. CASE X86TryAgain \/ X86NoBlock
    BY <2>3 DEF X86TryAgain, X86NoBlock
  <2> QED
    BY <1>5, <2>1, <2>2, <2>3 DEF X86Next
<1> QED
  BY <1>2, <1>3, <1>4, <1>5 DEF Next

\* A step that moves no copy.
LEMMA StillThere ==
  ASSUME IndInv, Copies, Word, Live, Keeps, offs' = offs, n' = n, CodeEnd \in Int, CodeEnd' = CodeEnd
  PROVE  Copies'
<1>1. /\ prog' = prog /\ Shape /\ offs \in Seq(Nat \X Nat) /\ Len(prog.insns) \in Nat
      /\ n = Len(offs) + 1 /\ \A i \in DOMAIN offs : CopyThere(i)
  BY DEF Keeps, Copies, IndInv, Shape, ProgramSet
<1>2. Len(offs) \in Nat /\ DOMAIN offs = 1..Len(offs)
  BY <1>1
<1>3. ASSUME NEW i \in DOMAIN offs
      PROVE  CopyThere(i)'
  <2>1. CopyThere(i) /\ i \in 1..Len(prog.insns)
    BY <1>1, <1>2, <1>3 DEF CopyThere
  <2>2. PICK jt : jt = prog.insns[i]
    OBVIOUS
  <2>3. jt.lab = 0
    BY <1>1, <2>1, <2>2, ProgFacts
  <2>4. PICK f, q, e : f = offs[i][1] /\ q = offs[i][2] /\ e = EndOf(i)
    OBVIOUS
  <2>5. e \in Int
    <3>1. CASE i = Len(offs)
      BY <2>4, <3>1 DEF EndOf
    <3>2. CASE i # Len(offs)
      <4>1. i + 1 \in DOMAIN offs
        BY <1>2, <1>3, <3>2
      <4> QED
        BY <1>1, <2>4, <3>2, <4>1, ElementOfSeq DEF EndOf
    <3> QED
      BY <3>1, <3>2
  <2>6. EndOf(i)' = e /\ From(i)' = From(i)
    BY <2>4 DEF EndOf, From
  <2>7. CopyOf(i, jt, f, q, e)
    BY <2>1, <2>2, <2>4 DEF CopyThere
  <2>8. CopyOf(i, jt, f, q, e)'
    BY <2>3, <2>5, <2>6, <2>7, CopyOfKept
  <2> QED
    BY <1>1, <2>1, <2>2, <2>4, <2>6, <2>8 DEF CopyThere
<1> QED
  BY <1>1, <1>3 DEF Copies

LEMMA BackCopies ==
  ASSUME IndInv, Words, Copies, Word, ARMBranchBack \/ A64BranchBack
  PROVE  Copies'
<1>1. /\ phase = "branch" /\ Live /\ cur \in Nat /\ size \in Nat /\ labels \in Seq(Int)
      /\ UNCHANGED <<prog, n, offs>> /\ size' = size + 8 /\ phase' \in {"fixup", "bind"}
      /\ prog.arch \in {"arm", "a64"} /\ Source + cur \in Int
  <2>1. Shape /\ cur \in Nat /\ size \in Nat /\ labels \in Seq(Int) /\ Source + cur \in Int
    BY RelocateAssumption DEF IndInv, Shape
  <2>2. CASE ARMBranchBack
    BY <2>1, <2>2 DEF ARMBranchBack, Live
  <2>3. CASE A64BranchBack
    BY <2>1, <2>3 DEF A64BranchBack, Live
  <2> QED
    BY <2>2, <2>3
<1>2. \E items : \E ls \in Seq(Int) : code' = code \cup items /\ labels' = labels \o ls
  <2>1. CASE ARMBranchBack
    <3>1. \E items : code' = code \cup items
      BY <2>1 DEF ARMBranchBack
    <3>2. labels' = labels \o <<>> /\ <<>> \in Seq(Int)
      BY <1>1, <2>1, ConcatEmptySeq DEF ARMBranchBack
    <3> QED
      BY <3>1, <3>2
  <2>2. CASE A64BranchBack
    <3>1. \E items : code' = code \cup items
      BY <2>2 DEF A64BranchBack
    <3>2. labels' = labels \o <<Source + cur>> /\ <<Source + cur>> \in Seq(Int)
      BY <1>1, <2>2, AppendIsConcat DEF A64BranchBack
    <3> QED
      BY <3>1, <3>2
  <2> QED
    BY <2>1, <2>2
<1>3. \A t : IsKey(t) => IsKey(t)'
  BY <1>1 DEF IsKey
<1>4. Keeps
  BY <1>1, <1>2, <1>3, AppendKeeps
<1>5. BackAt' = size
  BY <1>1 DEF BackAt
<1>6. CodeEnd = size /\ CodeEnd' = size
  BY <1>1, <1>5 DEF CodeEnd
<1> QED
  BY <1>1, <1>4, <1>6, StillThere

LEMMA LaterCopies ==
  ASSUME IndInv, Copies, Word, BackThere,
         LoopEnds \/ RelocLabelFixup \/ ARMRelocBind \/ A64RelocBind \/ ARMFinalize \/ A64Finalize
  PROVE  Copies'
<1>1. /\ cur \in Nat /\ size \in Nat /\ labels \in Seq(Int) /\ Len(labels) \in Nat /\ prog' = prog
      /\ UNCHANGED <<n, offs>> /\ code \subseteq ItemSet /\ Live
  BY DEF IndInv, Shape, Layout, LoopEnds, RelocLabelFixup, ARMRelocBind, A64RelocBind, Bound,
         ARMFinalize, A64Finalize, Finalized, Live
<1>2. CodeEnd \in Int
  BY <1>1 DEF CodeEnd, BackThere
<1>3. CASE LoopEnds
  <2>1. UNCHANGED <<code, labels, size>> /\ phase = "insns" /\ phase' = "branch"
    BY <1>3 DEF LoopEnds
  <2>2. Keeps
    BY <1>1, <2>1 DEF Keeps, Loads, LabelIs, IsKey
  <2>3. CodeEnd' = CodeEnd
    BY <2>1 DEF CodeEnd
  <2> QED
    BY <1>1, <1>2, <2>2, <2>3, StillThere
<1>4. CASE RelocLabelFixup
  <2>1. UNCHANGED <<code, size>> /\ phase = "fixup" /\ phase' = "bind" /\ prog.arch = "arm"
    BY <1>4 DEF RelocLabelFixup, Word, IndInv, Stage
  <2>2. DOMAIN labels' = DOMAIN labels
    BY <1>4 DEF RelocLabelFixup
  <2>3. ASSUME NEW k \in DOMAIN labels, NEW t, LabelIs(k, t)
        PROVE  LabelIs(k, t)'
    <3>1. CASE IsKey(t)
      BY <1>1, <2>1, <3>1 DEF LabelIs, IsKey
    <3>2. CASE ~IsKey(t)
      <4>1. labels[k] = t
        BY <2>3, <3>2 DEF LabelIs
      <4>2. {i \in DOMAIN offs : offs[i][1] = labels[k]} = {}
        BY <3>2, <4>1 DEF IsKey
      <4>3. labels'[k] = labels[k]
        BY <1>4, <2>3, <4>2 DEF RelocLabelFixup
      <4> QED
        BY <4>1, <4>3 DEF LabelIs
    <3> QED
      BY <3>1, <3>2
  <2>4. ASSUME NEW p, NEW r, NEW t, Loads(p, r, t)
        PROVE  Loads(p, r, t)'
    <3>1. PICK k \in DOMAIN labels : LabelIs(k, t) /\ \E x \in code : Reads(x, p, r, k)
      BY <2>4 DEF Loads
    <3>2. k \in DOMAIN labels' /\ LabelIs(k, t)' /\ \E x \in code' : Reads(x, p, r, k)
      BY <2>1, <2>2, <2>3, <3>1
    <3> QED
      BY <3>2 DEF Loads
  <2>5. Keeps
    BY <1>1, <2>1, <2>4 DEF Keeps
  <2>6. CodeEnd' = CodeEnd
    BY <1>1, <2>1 DEF CodeEnd, BackAt
  <2> QED
    BY <1>1, <1>2, <2>5, <2>6, StillThere
<1>5. CASE ARMFinalize \/ A64Finalize
  <2>1. UNCHANGED <<code, labels, size>> /\ phase = "finalize" /\ phase' \in {"done", "failed", "aborted"}
    BY <1>5 DEF ARMFinalize, A64Finalize, Finalized
  <2>2. CASE phase' = "done"
    <3>1. Keeps
      BY <1>1, <2>1 DEF Keeps, Loads, LabelIs, IsKey
    <3>2. CodeEnd' = CodeEnd
      BY <1>1, <2>1, <2>2 DEF CodeEnd, BackAt, LabelLen, Word
    <3> QED
      BY <1>1, <1>2, <3>1, <3>2, StillThere
  <2>3. CASE phase' # "done"
    BY <2>1, <2>3 DEF Copies, Live
  <2> QED
    BY <2>2, <2>3
<1>6. CASE ARMRelocBind \/ A64RelocBind
  <2>1. /\ phase = "bind" /\ phase' = "finalize" /\ labels' = labels
        /\ size' = size + Len(labels) * LabelLen /\ Bound(LabelLen, Bias)
    BY <1>6 DEF ARMRelocBind, A64RelocBind, Bound, LabelLen, Bias
  <2>2. LabelLen \in Nat /\ Len(labels) * LabelLen \in Nat /\ LabelLen * Len(labels) = Len(labels) * LabelLen
    BY <1>1 DEF LabelLen
  <2>3. BackAt' = size' - LabelLen * Len(labels) - 8 /\ BackAt = size - 8
    BY <1>1, <2>1 DEF BackAt, LabelLen, Word
  <2>4. CodeEnd' = CodeEnd
    <3>1. BackAt' = BackAt
      BY <1>1, <2>1, <2>2, <2>3
    <3> QED
      BY <2>1, <3>1 DEF CodeEnd
  <2>5. ASSUME NEW it \in code, it.lab = 0
        PROVE  it \in code'
    BY <2>1, <2>5 DEF Bound
  <2>6. ASSUME NEW p, NEW r, NEW k, NEW x \in code, Reads(x, p, r, k)
        PROVE  \E y \in code' : Reads(y, p, r, k)
    <3>1. CASE x.lab = 0
      BY <2>5, <2>6, <3>1
    <3>2. CASE x.lab # 0
      <4> DEFINE o == LabelPos(x.lab, LabelLen) - (x.pos + Bias)
      <4>1. [x EXCEPT !.off = o] \in code'
        BY <2>1, <2>6, <3>2 DEF Bound
      <4> HIDE DEF o
      <4>2. x \in ItemSet
        BY <1>1, <2>6
      <4>3. Reads([x EXCEPT !.off = o], p, r, k)
        BY <2>6, <4>2 DEF Reads, ItemSet
      <4> QED
        BY <4>1, <4>3
    <3> QED
      BY <3>1, <3>2
  <2>7. ASSUME NEW p, NEW r, NEW t, Loads(p, r, t)
        PROVE  Loads(p, r, t)'
    <3>1. PICK k \in DOMAIN labels : LabelIs(k, t) /\ \E x \in code : Reads(x, p, r, k)
      BY <2>7 DEF Loads
    <3>2. k \in DOMAIN labels' /\ LabelIs(k, t)'
      BY <1>1, <2>1, <3>1 DEF LabelIs, IsKey
    <3>3. \E x \in code' : Reads(x, p, r, k)
      BY <2>6, <3>1
    <3> QED
      BY <3>2, <3>3 DEF Loads
  <2>8. Keeps
    BY <1>1, <2>5, <2>7 DEF Keeps
  <2> QED
    BY <1>1, <1>2, <2>4, <2>8, StillThere
<1> QED
  BY <1>3, <1>4, <1>5, <1>6

LEMMA CopiesStep ==
  ASSUME IndInv, Words, BackThere, Copies, [Next]_vars
  PROVE  Copies'
<1>1. CASE UNCHANGED vars
  <2>1. UNCHANGED <<Word, Live, n, offs>>
    BY <1>1 DEF vars, Word, Live
  <2>2. CASE Word /\ Live
    <3>1. Keeps
      BY <1>1 DEF vars, Keeps, Loads, LabelIs, IsKey
    <3>2. CodeEnd' = CodeEnd
      BY <1>1 DEF vars, CodeEnd, BackAt, BackLen, LabelLen
    <3>3. CodeEnd \in Int
      BY <2>2, CodeEndIs
    <3> QED
      BY <2>1, <2>2, <3>1, <3>2, <3>3, StillThere
  <2> QED
    BY <2>1, <2>2 DEF Copies
<1>2. CASE Next /\ Word
  <2>1. CASE LoopEnds
    BY <1>2, <2>1, LaterCopies
  <2>2. CASE ARMInsn
    BY <1>2, <2>2, ARMInsnCopies
  <2>3. CASE A64Insn
    BY <1>2, <2>3, A64InsnCopies
  <2>4. CASE ARMBranchBack \/ A64BranchBack
    BY <1>2, <2>4, BackCopies
  <2>5. CASE RelocLabelFixup \/ ARMRelocBind \/ A64RelocBind \/ ARMFinalize \/ A64Finalize
    BY <1>2, <2>5, LaterCopies
  <2>6. CASE ThumbInsn \/ RelocateRemain \/ ThumbBranchBack \/ ThumbRelocBind
    <3>1. prog.arch = "thumb"
      BY <2>6 DEF ThumbInsn, Thumb1HighRegister, Thumb1BxPc, Thumb1BlxPc, Thumb1LdrLiteral,
         Thumb1Adr, Thumb1BCond, Thumb1Svc, Thumb1Cbz, Thumb1B, Thumb1Copy, Thumb2BCond, Thumb2B,
         Thumb2Bl, Thumb2Blx, Thumb2Adr, Thumb2LdrLiteral, Thumb2Copy, ThumbPending, RelocateRemain,
         IndInv, Stage, ThumbBranchBack, ThumbRelocBind
    <3> QED
      BY <1>2, <3>1 DEF Word
  <2>7. CASE X86Next
    <3>1. prog.arch \in {"x64", "x86"}
      BY <2>7 DEF X86Next, X86Insn, X86Sse, X86Jcc8, X86Rip, X86RipNoMemory, X86Jmp8, X86CallJmp32,
         X86CallAssert, X86Loop, X86Copy, X86Decoded, X86Pending, X86BranchBack, X86TryAgain,
         X86NoBlock, IndInv, Stage
    <3> QED
      BY <1>2, <3>1 DEF Word
  <2> QED
    BY <1>2, <2>1, <2>2, <2>3, <2>4, <2>5, <2>6, <2>7 DEF Next, ARMNext, A64Next
<1>3. CASE Next /\ ~Word
  <2>1. prog'.arch = prog.arch
    BY <1>3, ArchStays
  <2> QED
    BY <1>3, <2>1 DEF Word, Copies
<1> QED
  BY <1>1, <1>2, <1>3
-----------------------------------------------------------------------------
(***************************************************************************)
(* Execution of a copy.                                                    *)
(***************************************************************************)
\* One instruction of the copy of i.
One(i, z, m) == Advance(code, Relocated, CopyInside(i), m, z)

LEMMA Runs ==
  ASSUME NEW i, NEW z, NEW m0, NEW m1, NEW m2, NEW m3, One(i, z, m0) = m1, One(i, z, m1) = m2,
         One(i, z, m2) = m3, One(i, z, m3) = m3
  PROVE  Copied(i, z, m0) = m3
<1>1. PICK inside : inside = CopyInside(i)
  OBVIOUS
<1>2. PICK fuel \in Nat : fuel = 12 /\ fuel >= 3
  OBVIOUS
<1>3. /\ m1 = Advance(code, Relocated, inside, m0, z) /\ m2 = Advance(code, Relocated, inside, m1, z)
      /\ m3 = Advance(code, Relocated, inside, m2, z) /\ m3 = Advance(code, Relocated, inside, m3, z)
  BY <1>1 DEF One
<1>4. Run(code, Relocated, inside, m0, z, fuel) = m3
  BY <1>2, <1>3, ThreeSteps
<1> QED
  BY <1>1, <1>2, <1>4 DEF Copied

LEMMA ItemStep ==
  ASSUME IndInv, NEW i, NEW z, NEW q \in Nat, NEW b \in Int, b = Relocated + q, q \in CopyInside(i),
         NEW x \in code, x.pos = q, NEW m, m.pc = Addr(b)
  PROVE  One(i, z, m) = Step(code, Relocated, m, x, b, z)
<1>1. Sole(code)
  BY NoneShared
<1>2. Relocated \in Int /\ b - Relocated = q /\ x.pos \in Int /\ Relocated + x.pos = b
  BY RelocateAssumption
<1>3. PICK inside : inside = CopyInside(i)
  OBVIOUS
<1>4. Advance(code, Relocated, inside, m, z) = Step(code, Relocated, m, x, b, z)
  BY <1>1, <1>2, <1>3, AdvanceAt
<1> QED
  BY <1>3, <1>4 DEF One

\* Control has left the copy.
LEMMA Stays ==
  ASSUME NEW i, NEW z, NEW m, NEW t, m.pc = Addr(t), t - Relocated \notin CopyInside(i)
  PROVE  One(i, z, m) = m
  BY AdvanceOut DEF One

LEMMA StaysAway ==
  ASSUME NEW i, NEW z, NEW m, m.pc[1] # "addr"
  PROVE  One(i, z, m) = m
  BY DEF One, Advance

\* What a register held at the start.
Was(r) == <<"was", r>>

Fresh(a, st) == M(Addr(a), st, Was("r0"), Was("v0"), Was("ip"), Was("lr"))

LEMMA FreshIs == \A a, st : Machine(a, st) = Fresh(a, st)
  BY DEF Machine, Fresh, M, Was

LEMMA Distinct ==
  ASSUME NEW r, NEW a
  PROVE  Was(r) # Addr(a) /\ Was(r)[1] # "addr" /\ Addr(a)[1] = "addr" /\ Addr(a)[2] = a
  BY DEF Was, Addr

\* Values from memory are no addresses, and not what registers held.
LEMMA MemIs ==
  ASSUME NEW b, NEW w, NEW r, NEW a, NEW v
  PROVE  /\ <<"mem", b, w>>[1] # "addr" /\ <<"mem", b, w>> # Addr(a) /\ <<"mem", b, w>> # Was(r)
         /\ w # v => <<"mem", b, w>> # <<"mem", b, v>>
<1>1. <<"mem", b, w>>[1] = "mem" /\ <<"mem", b, w>>[3] = w /\ <<"mem", b, v>>[3] = v
  OBVIOUS
<1>2. Addr(a)[1] = "addr" /\ Was(r)[1] = "was"
  BY DEF Addr, Was
<1> QED
  BY <1>1, <1>2

\* Where no data item of the code stands, memory is read.
NoData(c, base, b) == ~ \E d \in c : d.op = "data" /\ base + d.pos = b

LEMMA FetchMem ==
  ASSUME NEW c, NEW base, NEW b, NEW w, NoData(c, base, b)
  PROVE  Fetch(c, base, b, w) = <<"mem", b, w>>
  BY DEF NoData, Fetch

LEMMA NoCode ==
  ASSUME NEW base, NEW b
  PROVE  NoData({}, base, b)
  BY DEF NoData

-----------------------------------------------------------------------------
(* What the other kinds of item do. *)

\* A load from an address, where no data of the code stands.
LEMMA StepLdmMem ==
  ASSUME NEW c, NEW base, NEW it, NEW a, NEW z, NEW st, NEW r0, NEW v0, NEW ip, NEW lr, NEW b,
         it.op = "ldm", Taken(it.cond, z), NoData(c, base, b),
         M(Addr(a), st, r0, v0, ip, lr)[it.rn] = Addr(b)
  PROVE  Step(c, base, M(Addr(a), st, r0, v0, ip, lr), it, a, z) =
           SetReg(M(Addr(a + it.len), st, r0, v0, ip, lr), it.rt, <<"mem", b, it.w>>)
<1> DEFINE m == M(Addr(a), st, r0, v0, ip, lr)
           next == [m EXCEPT !.pc = Addr(a + it.len)]
<1>1. Addr(b)[1] = "addr" /\ Addr(b)[2] = b
  BY DEF Addr
<1>2. Fetch(c, base, b, it.w) = <<"mem", b, it.w>>
  BY FetchMem
<1>3. next = M(Addr(a + it.len), st, r0, v0, ip, lr)
  BY DEF M
<1>4. Step(c, base, m, it, a, z) =
        SetReg(next, it.rt, IF m[it.rn][1] = "addr" THEN Fetch(c, base, m[it.rn][2], it.w)
                            ELSE <<"mem", m[it.rn], it.w>>)
  BY DEF Step, Taken
<1> QED
  BY <1>1, <1>2, <1>3, <1>4

LEMMA StepMov ==
  ASSUME NEW c, NEW base, NEW it, NEW a, NEW z, NEW st, NEW r0, NEW v0, NEW ip, NEW lr,
         it.op = "mov", Taken(it.cond, z)
  PROVE  Step(c, base, M(Addr(a), st, r0, v0, ip, lr), it, a, z) =
           SetReg(M(Addr(a + it.len), st, r0, v0, ip, lr), it.rt, Addr(it.val))
  BY DEF Step, Taken, M

LEMMA StepAdr ==
  ASSUME NEW c, NEW base, NEW it, NEW a, NEW z, NEW st, NEW r0, NEW v0, NEW ip, NEW lr,
         it.op = "adr", Taken(it.cond, z)
  PROVE  Step(c, base, M(Addr(a), st, r0, v0, ip, lr), it, a, z) =
           SetReg(M(Addr(a + it.len), st, r0, v0, ip, lr), it.rt, Addr(PcBase(st, a, it.len) + it.off))
  BY DEF Step, Taken, M

LEMMA StepAdrp ==
  ASSUME NEW c, NEW base, NEW it, NEW a, NEW z, NEW st, NEW r0, NEW v0, NEW ip, NEW lr,
         it.op = "adrp", Taken(it.cond, z)
  PROVE  Step(c, base, M(Addr(a), st, r0, v0, ip, lr), it, a, z) =
           SetReg(M(Addr(a + it.len), st, r0, v0, ip, lr), it.rt,
                  Addr(AlignFloor(PcBase(st, a, it.len) + it.off, 4096)))
  BY DEF Step, Taken, M

LEMMA StepBlx ==
  ASSUME NEW c, NEW base, NEW it, NEW a, NEW z, NEW st, NEW r0, NEW v0, NEW ip, NEW lr,
         it.op = "blx", Taken(it.cond, z), it.link
  PROVE  Step(c, base, M(Addr(a), st, r0, v0, ip, lr), it, a, z) =
           M(Addr(PcBase(st, a, it.len) + it.off), IF st = "arm" THEN "thumb" ELSE "arm",
             r0, v0, ip, Addr(a + it.len))
  BY DEF Step, Taken, M

\* A branch to a register with link.
LEMMA StepBlrIp ==
  ASSUME NEW c, NEW base, NEW it, NEW a, NEW z, NEW st, NEW r0, NEW v0, NEW ip, NEW lr,
         it.op = "bx", Taken(it.cond, z), it.link, it.rn = "ip"
  PROVE  Step(c, base, M(Addr(a), st, r0, v0, ip, lr), it, a, z) =
           Jump(M(Addr(a + it.len), st, r0, v0, ip, Addr(a + it.len)), ip)
<1> DEFINE m == M(Addr(a), st, r0, v0, ip, lr)
           next == [m EXCEPT !.pc = Addr(a + it.len)]
           linked == [next EXCEPT !.lr = Addr(a + it.len)]
<1>0. next = M(Addr(a + it.len), st, r0, v0, ip, lr)
  BY DEF M
<1>1. linked = M(Addr(a + it.len), st, r0, v0, ip, Addr(a + it.len))
  <2>1. [M(Addr(a + it.len), st, r0, v0, ip, lr) EXCEPT !.lr = Addr(a + it.len)] =
          M(Addr(a + it.len), st, r0, v0, ip, Addr(a + it.len))
    BY DEF M
  <2> HIDE DEF next
  <2> QED
    BY <1>0, <2>1
<1>2. ValueOf(m, it.rn, PcRead(m.st, a, it.len)) = ip
  BY DEF ValueOf, M
<1>3. Step(c, base, m, it, a, z) = Jump(linked, ValueOf(m, it.rn, PcRead(m.st, a, it.len)))
  <2> HIDE DEF m
  <2> QED
    BY DEF Step, Taken
<1> QED
  BY <1>1, <1>2, <1>3

\* What an instruction that is copied computes at the start.
ValueFor(it) ==
  CASE it.op = "mov" -> Addr(it.val) [] it.op = "alu" -> <<"of", Was(it.rn)>>
    [] OTHER -> <<"mem", Was(it.rn), it.w>>

SetTo(pc, st, r, v) ==
  M(pc, st, IF r = "r0" THEN v ELSE Was("r0"), IF r = "v0" THEN v ELSE Was("v0"), Was("ip"), Was("lr"))

LEMMA SetToIs ==
  ASSUME NEW a, NEW st, NEW r \in {"r0", "v0"}, NEW v
  PROVE  SetReg(Fresh(a, st), r, v) = SetTo(Addr(a), st, r, v)
  BY Sets DEF Fresh, SetTo

LEMMA FreshReg ==
  ASSUME NEW a, NEW st, NEW r \in {"r0", "v0"}
  PROVE  Fresh(a, st)[r] = Was(r)
  BY DEF Fresh, M

LEMMA StepValue ==
  ASSUME NEW c, NEW base, NEW it, NEW a, NEW z, NEW st, it.op \in {"mov", "alu", "ldm"},
         Taken(it.cond, z), it.rt \in {"r0", "v0"}, it.op # "mov" => it.rn \in {"r0", "v0"}
  PROVE  Step(c, base, Fresh(a, st), it, a, z) = SetTo(Addr(a + it.len), st, it.rt, ValueFor(it))
<1> DEFINE s == Fresh(a, st)
           next == [s EXCEPT !.pc = Addr(a + it.len)]
<1>1. next = Fresh(a + it.len, st)
  BY DEF Fresh, M
<1>2. Step(c, base, s, it, a, z) = SetReg(next, it.rt, ValueFor(it))
  <2>1. CASE it.op = "mov"
    BY <2>1 DEF Step, Taken, ValueFor
  <2>2. CASE it.op = "alu"
    <3>1. ValueOf(s, it.rn, PcRead(s.st, a, it.len)) = Was(it.rn)
      BY <2>2, FreshReg DEF ValueOf
    <3>2. Step(c, base, s, it, a, z) = SetReg(next, it.rt, <<"of", ValueOf(s, it.rn, PcRead(s.st, a, it.len))>>)
      BY <2>2 DEF Step, Taken
    <3> QED
      BY <2>2, <3>1, <3>2 DEF ValueFor
  <2>3. CASE it.op = "ldm"
    <3>1. s[it.rn] = Was(it.rn) /\ Was(it.rn)[1] # "addr"
      BY <2>3, FreshReg, Distinct
    <3>2. Step(c, base, s, it, a, z) =
            SetReg(next, it.rt, IF s[it.rn][1] = "addr" THEN Fetch(c, base, s[it.rn][2], it.w)
                                ELSE <<"mem", s[it.rn], it.w>>)
      BY <2>3 DEF Step, Taken
    <3> QED
      BY <2>3, <3>1, <3>2 DEF ValueFor
  <2> QED
    BY <2>1, <2>2, <2>3
<1> QED
  BY <1>1, <1>2, SetToIs

\* A branch to a register at the start.
StateBy(st) == IF st \in {"arm", "thumb"} THEN "mem" ELSE st

LEMMA StepBx ==
  ASSUME NEW c, NEW base, NEW it, NEW a, NEW z, NEW st, it.op = "bx", Taken(it.cond, z),
         it.rn \in {"r0", "v0"}
  PROVE  Step(c, base, Fresh(a, st), it, a, z) =
           M(Was(it.rn), StateBy(st), Was("r0"), Was("v0"), Was("ip"),
             IF it.link THEN Addr(a + it.len) ELSE Was("lr"))
<1> DEFINE s == Fresh(a, st)
           linked == M(Addr(a + it.len), st, Was("r0"), Was("v0"), Was("ip"),
                       IF it.link THEN Addr(a + it.len) ELSE Was("lr"))
<1>1. Step(c, base, s, it, a, z) = Jump(linked, ValueOf(s, it.rn, PcRead(s.st, a, it.len)))
  <2> DEFINE next == [s EXCEPT !.pc = Addr(a + it.len)]
  <2>1. next = Fresh(a + it.len, st)
    BY DEF Fresh, M
  <2>2. linked = IF it.link THEN [next EXCEPT !.lr = Addr(a + it.len)] ELSE next
    BY <2>1 DEF Fresh, M
  <2> HIDE DEF s, linked
  <2> QED
    BY <2>2 DEF Step, Taken
<1>2. ValueOf(s, it.rn, PcRead(s.st, a, it.len)) = Was(it.rn) /\ Was(it.rn)[1] # "addr"
  BY FreshReg, Distinct DEF ValueOf
<1>3. Jump(linked, Was(it.rn)) =
        M(Was(it.rn), StateBy(st), Was("r0"), Was("v0"), Was("ip"),
          IF it.link THEN Addr(a + it.len) ELSE Was("lr"))
  BY <1>2 DEF Jump, M, StateBy
<1> QED
  BY <1>1, <1>2, <1>3
-----------------------------------------------------------------------------
(* The copy of an instruction and what surrounds it. *)

\* Instruction i is it; its copy, at offset p and address b, is l bytes long.
Here(i, it, p, b, l) ==
  /\ it = prog.insns[i] /\ it \in ItemSet /\ it.len = 4 /\ l = CopyLen(it) /\ l \in 4..20
  /\ p \in Nat /\ b \in Int /\ b = Relocated + p /\ p + l < size
  /\ From(i) \in Int /\ Till(i) = From(i) + 4
  /\ CopyFrom(i) = p /\ CopyInside(i) = p..(p + l - 1) /\ CopyTill(i) = p + l

CopyIs(i, it, p) ==
  /\ prog.arch = "a64" => A64CopyAt(i, it, p)
  /\ prog.arch = "arm" => ARMCopyAt(i, it, p) /\ From(i) % 4 = 0 /\ (Relocated + p) % 4 = 0

Finished == IndInv /\ Words /\ BackThere /\ Copies /\ Word /\ phase = "done"

LEMMA Frame ==
  ASSUME Finished, NEW i \in DOMAIN offs
  PROVE  \E it, p, b, l : Here(i, it, p, b, l) /\ CopyIs(i, it, p)
<1>1. /\ Shape /\ size \in Nat /\ offs \in Seq(Nat \X Nat) /\ Len(offs) \in Nat /\ Len(labels) \in Nat
      /\ Source \in Nat /\ Relocated \in Nat /\ Relocated % 4 = 0
      /\ prog.arch \in {"arm", "a64"} /\ prog.insns \in Seq(ItemSet)
  BY RelocateAssumption DEF Finished, IndInv, Shape, ProgramSet, Word
<1>21. Source % 4 = 0
  BY <1>1, SourceAligned
<1>2. CopyThere(i) /\ i \in 1..Len(offs)
  BY <1>1 DEF Finished, Copies, Live
<1>3. PICK it, f, p, e : it = prog.insns[i] /\ f = offs[i][1] /\ p = offs[i][2] /\ e = EndOf(i)
  OBVIOUS
<1>4. f \in Nat /\ p \in Nat
  BY <1>1, <1>3, ElementOfSeq
<1>5. CopyOf(i, it, f, p, e) /\ i \in 1..Len(prog.insns)
  BY <1>1, <1>2, <1>3 DEF CopyThere
<1>6. it \in ItemSet /\ it.len = 4
  BY <1>1, <1>3, <1>5, ProgFacts DEF LengthsOf
<1>7. CopyTill(i) = e /\ CodeEnd < size /\ CodeEnd \in Int
  <2>1. CodeEnd = size - LabelLen * Len(labels) - 8 /\ BackAt = CodeEnd
    BY DEF Finished, CodeEnd, BackAt, Word
  <2>2. LabelLen \in {4, 8} /\ (prog.arch = "a64" <=> LabelLen = 8)
    BY <1>1 DEF LabelLen
  <2>6. CodeEnd = IF prog.arch = "a64" THEN size - 8 * Len(labels) - 8 ELSE size - 4 * Len(labels) - 8
    BY <2>1 DEF LabelLen
  <2>5. CodeEnd < size /\ CodeEnd \in Int
    BY <1>1, <2>1, <2>2
  <2>3. CASE i = Len(offs)
    <3>1. e = CodeEnd /\ ~(i < Len(offs))
      BY <1>1, <1>3, <2>3 DEF EndOf
    <3>2. CASE prog.arch = "a64"
      BY <1>1, <1>2, <2>6, <3>1, <3>2 DEF CopyTill
    <3>3. CASE prog.arch = "arm"
      BY <1>1, <1>2, <2>6, <3>1, <3>3 DEF CopyTill
    <3> QED
      BY <1>1, <3>2, <3>3
  <2>4. CASE i # Len(offs)
    <3>1. i < Len(offs)
      BY <1>1, <1>2, <2>4
    <3>2. CopyTill(i) = offs[i + 1][2]
      BY <3>1 DEF CopyTill
    <3>3. EndOf(i) = offs[i + 1][2]
      BY <2>4 DEF EndOf
    <3> QED
      BY <1>3, <2>5, <3>2, <3>3
  <2> QED
    BY <2>3, <2>4
<1>8. PICK l : l = CopyLen(it)
  OBVIOUS
<1>9. l \in 4..20
  BY <1>8 DEF CopyLen
<1>10. p + l = e /\ e <= CodeEnd
  BY <1>5, <1>8 DEF CopyOf
<1>11. PICK b \in Int : b = Relocated + p
  BY <1>1, <1>4
<1>12. From(i) = Source + f /\ CopyFrom(i) = p /\ Till(i) = From(i) + 4
  BY <1>3, <1>6 DEF From, CopyFrom, Till
<1>13. CopyInside(i) = p..(p + l - 1)
  <2>1. CopyTill(i) = p + l /\ prog.arch # "x64"
    BY <1>1, <1>7, <1>10
  <2>2. CopyInside(i) = CopyFrom(i)..(CopyTill(i) - 1)
    BY <2>1 DEF CopyInside
  <2>3. CopyInside(i) = p..(CopyTill(i) - 1)
    BY <1>12, <2>2
  <2> QED
    BY <1>4, <1>9, <2>1, <2>3
<1>14. p + l < size
  BY <1>1, <1>4, <1>7, <1>9, <1>10
<1>20. From(i) \in Int /\ CopyTill(i) = p + l
  BY <1>1, <1>4, <1>7, <1>10, <1>12
<1>15. Here(i, it, p, b, l)
  BY <1>3, <1>4, <1>6, <1>8, <1>9, <1>11, <1>12, <1>13, <1>14, <1>20 DEF Here
<1>16. prog.arch = "arm" => f % 4 = 0 /\ p % 4 = 0 /\ ARMCopyAt(i, it, p)
  BY <1>5 DEF CopyOf
<1>17. prog.arch = "a64" => A64CopyAt(i, it, p)
  BY <1>5 DEF CopyOf
<1>18. prog.arch = "arm" => From(i) % 4 = 0 /\ (Relocated + p) % 4 = 0
  <2>1. \A x, y \in Nat : x % 4 = 0 /\ y % 4 = 0 => (x + y) % 4 = 0
    OBVIOUS
  <2> QED
    BY <1>1, <1>4, <1>12, <1>16, <1>21, <2>1
<1>19. CopyIs(i, it, p)
  BY <1>16, <1>17, <1>18 DEF CopyIs
<1> QED
  BY <1>15, <1>19

\* Outside the block there is no copy and no data of the code.
InBlock(t) == t \in Relocated..(Relocated + size - 1)

LEMMA Outside ==
  ASSUME Finished, NEW i, NEW it, NEW p, NEW b, NEW l, Here(i, it, p, b, l), NEW t \in Int, ~InBlock(t)
  PROVE  t - Relocated \notin CopyInside(i) /\ NoData(code, Relocated, t)
<1>1. /\ Relocated \in Nat /\ size \in Nat /\ p \in Nat /\ l \in 4..20 /\ p + l <= size
      /\ CopyInside(i) = p..(p + l - 1)
  BY RelocateAssumption DEF Finished, IndInv, Shape, Here
<1>2. t - Relocated \notin p..(p + l - 1)
  BY <1>1 DEF InBlock
<1>3. ASSUME NEW d \in code, Relocated + d.pos = t
      PROVE  FALSE
  <2>1. d \in ItemSet /\ d.len > 0 /\ d.pos + d.len <= size
    BY DEF Finished, Word, IndInv, Layout, X64
  <2>2. d.pos \in Nat /\ d.len \in Nat
    BY <2>1 DEF ItemSet
  <2> QED
    BY <1>1, <1>3, <2>1, <2>2 DEF InBlock
<1> QED
  BY <1>1, <1>2, <1>3 DEF NoData

\* The end of the copy is outside it.
LEMMA Behind ==
  ASSUME Finished, NEW i, NEW it, NEW p, NEW b, NEW l, Here(i, it, p, b, l), NEW e \in Int, e = b + l
  PROVE  e - Relocated \notin CopyInside(i) /\ Addr(Relocated + CopyTill(i)) = Addr(e)
<1>1. Relocated \in Nat /\ p \in Nat /\ l \in 4..20 /\ b \in Int /\ b = Relocated + p
      /\ CopyInside(i) = p..(p + l - 1) /\ CopyTill(i) = p + l
  BY RelocateAssumption DEF Here
<1>2. e - Relocated = p + l /\ Relocated + CopyTill(i) = e
  BY <1>1
<1> QED
  BY <1>1, <1>2

\* The k-th byte of the copy is in it.
LEMMA Within ==
  ASSUME NEW i, NEW it, NEW p, NEW b, NEW l, Here(i, it, p, b, l), NEW k \in Nat, k < l
  PROVE  /\ p + k \in Nat /\ b + k \in Int /\ b + k = Relocated + (p + k) /\ p + k \in CopyInside(i)
<1>1. Relocated \in Nat /\ p \in Nat /\ l \in 4..20 /\ b \in Int /\ b = Relocated + p
      /\ CopyInside(i) = p..(p + l - 1)
  BY RelocateAssumption DEF Here
<1> QED
  BY <1>1

\* A load of a label.
LEMMA LoadStep ==
  ASSUME Finished, NEW i, NEW z, NEW q \in Nat, NEW b \in Int, b = Relocated + q, q \in CopyInside(i),
         NEW r, NEW t, Loads(q, r, t), prog.arch = "arm" => ~IsKey(t) /\ b % 4 = 0
  PROVE  One(i, z, Fresh(b, State)) = SetReg(Fresh(b + 4, State), r, Addr(t))
<1>1. IndInv /\ labels \in Seq(Int) /\ Sole(code) /\ Relocated \in Int /\ phase = "done"
  BY RelocateAssumption, NoneShared DEF Finished, IndInv, Shape
<1>2. PICK k \in DOMAIN labels : LabelIs(k, t) /\ \E x \in code : Reads(x, q, r, k)
  BY DEF Loads
<1>3. labels[k] = t /\ k # 0
  BY <1>1, <1>2 DEF LabelIs, Finished, Word
<1>4. PICK x \in code : Reads(x, q, r, k)
  BY <1>2
<1>5. /\ x.pos = q /\ x.len = 4 /\ x.op = "ldr" /\ x.rt = r /\ ~x.link /\ x.lab = k /\ Taken(x.cond, z)
      /\ x.off \in Int
  BY <1>1, <1>4 DEF Reads, Taken, IndInv, Layout, ItemSet
<1>6. PICK d \in code : d.op = "data" /\ d.pos = x.pos + Bias + x.off /\ d.val = labels[x.lab]
  BY <1>1, <1>3, <1>5 DEF IndInv, Linked
<1>7. d.pos \in Int
  BY <1>1 DEF Sole
<1>8. PICK g \in Int : g = PcBase(State, b, 4) + x.off /\ Relocated + d.pos = g
  <2>1. CASE prog.arch = "arm"
    <3>1. PcBase("arm", b, 4) = b + 8 /\ State = "arm" /\ Bias = 8
      BY <2>1, PcBases DEF State, Bias
    <3>3. PICK o \in Int : o = x.off
      BY <1>5
    <3>4. d.pos = q + 8 + o
      BY <1>5, <1>6, <3>1, <3>3
    <3>5. Relocated + (q + 8 + o) = b + 8 + o
      <4>1. Relocated \in Int
        BY <1>1
      <4> QED
        BY <4>1
    <3>2. Relocated + d.pos = b + 8 + x.off
      BY <3>3, <3>4, <3>5
    <3> QED
      BY <1>5, <3>1, <3>2
  <2>2. CASE prog.arch = "a64"
    <3>1. PcBase("a64", b, 4) = b /\ State = "a64" /\ Bias = 0
      BY <2>2, PcBases DEF State, Bias
    <3>2. Relocated + d.pos = b + x.off
      BY <1>1, <1>5, <1>6, <1>7, <3>1
    <3> QED
      BY <1>5, <3>1, <3>2
  <2> QED
    BY <2>1, <2>2 DEF Finished, Word
<1>9. Fetch(code, Relocated, g, x.w) = Addr(t)
  BY <1>1, <1>3, <1>5, <1>6, <1>7, <1>8, FetchAt
<1> DEFINE m == Fresh(b, State)
<1>10. One(i, z, m) = Step(code, Relocated, m, x, b, z)
  <2>1. m.pc = Addr(b)
    BY DEF Fresh, M
  <2> HIDE DEF m
  <2> QED
    BY <1>1, <1>5, <2>1, ItemStep
<1>11. Step(code, Relocated, m, x, b, z) =
         SetReg(Fresh(b + x.len, State), x.rt, Fetch(code, Relocated, PcBase(State, b, x.len) + x.off, x.w))
  BY <1>5, StepLdr DEF Fresh
<1> QED
  BY <1>5, <1>8, <1>9, <1>10, <1>11
-----------------------------------------------------------------------------
(* Where both executions begin, and when their effects agree. *)
LEMMA Starts ==
  ASSUME NEW i, NEW it, NEW p, NEW b, NEW l, Here(i, it, p, b, l), NEW z
  PROVE  /\ Original(i, z) = Step({}, Source, Fresh(From(i), State), it, From(i), z)
         /\ CopiedFromStart(i, z) = Copied(i, z, Fresh(b, State))
<1>1. it = prog.insns[i] /\ CopyFrom(i) = p /\ b = Relocated + p
  BY DEF Here
<1> QED
  BY <1>1, FreshIs DEF Original, CopiedFromStart

\* Control goes on behind the instruction.
LEMMA SameFalls ==
  ASSUME Finished, NEW i, NEW it, NEW p, NEW b, NEW l, Here(i, it, p, b, l), NEW z,
         NEW r0, NEW v0, NEW ip, NEW ip2,
         Original(i, z) = M(Addr(Till(i)), State, r0, v0, ip, Was("lr")),
         CopiedFromStart(i, z) = M(Addr(b + l), State, r0, v0, ip2, Was("lr"))
  PROVE  SameEffect(i, z)
<1>1. PICK e \in Int : e = b + l
  BY DEF Here
<1>2. Addr(Relocated + CopyTill(i)) = Addr(e)
  BY <1>1, Behind
<1>3. PICK o, c : o = Original(i, z) /\ c = CopiedFromStart(i, z)
  OBVIOUS
<1>4. /\ o.pc = Addr(Till(i)) /\ o.st = State /\ o.r0 = r0 /\ o.v0 = v0 /\ o.lr = Was("lr")
      /\ c.pc = Addr(e) /\ c.st = State /\ c.r0 = r0 /\ c.v0 = v0 /\ c.lr = Was("lr")
  BY <1>1, <1>3 DEF M
<1>5. AtEnd(i, c) /\ o.lr # Addr(Till(i))
  BY <1>2, <1>4, Distinct DEF AtEnd
<1> QED
  BY <1>3, <1>4, <1>5 DEF SameEffect

\* Control goes elsewhere and does not come back.
LEMMA SameLeaves ==
  ASSUME NEW i, NEW z, NEW pc, NEW st, NEW r0, NEW v0, NEW ip, NEW ip2,
         ~(pc = Addr(Till(i)) /\ st = State),
         Original(i, z) = M(pc, st, r0, v0, ip, Was("lr")),
         CopiedFromStart(i, z) = M(pc, st, r0, v0, ip2, Was("lr"))
  PROVE  SameEffect(i, z)
<1>1. PICK o, c : o = Original(i, z) /\ c = CopiedFromStart(i, z)
  OBVIOUS
<1>2. /\ o.pc = pc /\ o.st = st /\ o.r0 = r0 /\ o.v0 = v0 /\ o.lr = Was("lr")
      /\ c.pc = pc /\ c.st = st /\ c.r0 = r0 /\ c.v0 = v0 /\ c.lr = Was("lr")
  BY <1>1 DEF M
<1>3. o.lr # Addr(Till(i))
  BY <1>2, Distinct
<1> QED
  BY <1>1, <1>2, <1>3 DEF SameEffect

\* Control goes elsewhere and may come back.
LEMMA SameCalls ==
  ASSUME Finished, NEW i, NEW it, NEW p, NEW b, NEW l, Here(i, it, p, b, l), NEW z,
         NEW pc, NEW st, NEW ip, NEW a, ~(pc = Addr(Till(i)) /\ st = State),
         Original(i, z) = M(pc, st, Was("r0"), Was("v0"), Was("ip"), Addr(Till(i))),
         CopiedFromStart(i, z) = M(pc, st, Was("r0"), Was("v0"), ip, Addr(a)),
         Copied(i, z, M(Addr(a), State, Was("r0"), Was("v0"), ip, Addr(a))) =
           M(Addr(b + l), State, Was("r0"), Was("v0"), ip, Addr(a))
  PROVE  SameEffect(i, z)
<1>1. PICK e \in Int : e = b + l
  BY DEF Here
<1>2. Addr(Relocated + CopyTill(i)) = Addr(e)
  BY <1>1, Behind
<1>3. PICK o, c : o = Original(i, z) /\ c = CopiedFromStart(i, z)
  OBVIOUS
<1>4. /\ o.pc = pc /\ o.st = st /\ o.r0 = Was("r0") /\ o.v0 = Was("v0") /\ o.lr = Addr(Till(i))
      /\ c.pc = pc /\ c.st = st /\ c.r0 = Was("r0") /\ c.v0 = Was("v0") /\ c.lr = Addr(a)
  BY <1>3 DEF M
<1>5. [c EXCEPT !.pc = c.lr, !.st = State] = M(Addr(a), State, Was("r0"), Was("v0"), ip, Addr(a))
  <2>1. PICK s, r, v, d : s = State /\ r = Was("r0") /\ v = Was("v0") /\ d = Addr(a)
    OBVIOUS
  <2>2. c = M(pc, st, r, v, ip, d) /\ c.lr = d
    BY <1>3, <1>4, <2>1
  <2>3. [c EXCEPT !.pc = d] = M(d, st, r, v, ip, d)
    BY <2>2 DEF M
  <2>4. [M(d, st, r, v, ip, d) EXCEPT !.st = s] = M(d, s, r, v, ip, d)
    BY DEF M
  <2>5. [c EXCEPT !.pc = d, !.st = s] = [[c EXCEPT !.pc = d] EXCEPT !.st = s]
    OBVIOUS
  <2>6. [c EXCEPT !.pc = d, !.st = s] = M(d, s, r, v, ip, d)
    BY <2>3, <2>4, <2>5
  <2> QED
    BY <2>1, <2>2, <2>6
<1>6. AtEnd(i, M(Addr(e), State, Was("r0"), Was("v0"), ip, Addr(a)))
  BY <1>2 DEF AtEnd, M
<1>7. AtEnd(i, Copied(i, z, [c EXCEPT !.pc = c.lr, !.st = State])) /\ c.lr[1] = "addr"
  BY <1>1, <1>4, <1>5, <1>6, Distinct
<1> QED
  BY <1>3, <1>4, <1>7 DEF SameEffect

\* One item of a copy.
LEMMA AtItem ==
  ASSUME Finished, NEW i, NEW it, NEW p, NEW b, NEW l, Here(i, it, p, b, l), NEW z,
         NEW k \in Nat, k < l, NEW a \in Int, a = b + k, NEW x \in code, x.pos = p + k,
         NEW m, m.pc = Addr(a)
  PROVE  One(i, z, m) = Step(code, Relocated, m, x, a, z)
<1>1. PICK q \in Nat : q = p + k /\ a = Relocated + q /\ q \in CopyInside(i)
  BY Within
<1>2. IndInv
  BY DEF Finished
<1> QED
  BY <1>1, <1>2, ItemStep

\* Behind the copy nothing more is executed of it.
LEMMA StaysBehind ==
  ASSUME Finished, NEW i, NEW it, NEW p, NEW b, NEW l, Here(i, it, p, b, l), NEW z,
         NEW m, m.pc = Addr(b + l)
  PROVE  One(i, z, m) = m /\ Copied(i, z, m) = m
<1>1. PICK e \in Int : e = b + l
  BY DEF Here
<1>2. e - Relocated \notin CopyInside(i)
  BY <1>1, Behind
<1>3. One(i, z, m) = m
  BY <1>1, <1>2, Stays
<1> QED
  BY <1>3, Runs

LEMMA StaysOutside ==
  ASSUME Finished, NEW i, NEW it, NEW p, NEW b, NEW l, Here(i, it, p, b, l), NEW z,
         NEW t \in Int, ~InBlock(t), NEW m, m.pc = Addr(t)
  PROVE  One(i, z, m) = m
<1>1. t - Relocated \notin CopyInside(i)
  BY Outside
<1> QED
  BY <1>1, Stays

\* A copy of one item.
LEMMA OnlyItem ==
  ASSUME Finished, NEW i, NEW it, NEW p, NEW b, NEW l, Here(i, it, p, b, l), NEW z,
         NEW x \in code, x.pos = p, NEW m,
         Step(code, Relocated, Fresh(b, State), x, b, z) = m, One(i, z, m) = m
  PROVE  CopiedFromStart(i, z) = m
<1>1. PICK k \in Nat : k = 0 /\ k < l /\ b \in Int /\ b = b + k /\ x.pos = p + k
  <2>1. p \in Nat /\ b \in Int /\ l \in 4..20
    BY DEF Here
  <2> QED
    BY <2>1
<1>2. Fresh(b, State).pc = Addr(b)
  BY DEF Fresh, M
<1>3. One(i, z, Fresh(b, State)) = Step(code, Relocated, Fresh(b, State), x, b, z)
  BY <1>1, <1>2, AtItem
<1>4. Copied(i, z, Fresh(b, State)) = m
  BY <1>3, Runs
<1> QED
  BY <1>4, Starts
-----------------------------------------------------------------------------
(* Instructions that are copied. *)
Values == {"mov", "alu", "ldm"}
Plain == {"other", "nop", "svc"} \cup Values \cup {"bx"}

\* It uses registers that the code leaves alone.
PlainRegs(it) ==
  /\ it.op \in Values => it.rt \in {"r0", "v0"}
  /\ it.op \in {"alu", "ldm", "bx"} => it.rn \in {"r0", "v0"}

LEMMA StepNext ==
  ASSUME NEW c, NEW base, NEW it, NEW a, NEW z, NEW st,
         ~Taken(it.cond, z) \/ it.op \in {"other", "nop", "svc"}
  PROVE  Step(c, base, Fresh(a, st), it, a, z) = Fresh(a + it.len, st)
  BY StepSkips, StepPlain DEF Fresh

\* A copy reads as the instruction does.
LEMMA CopyReads ==
  ASSUME NEW p, NEW it \in ItemSet
  PROVE  /\ Copy(p, it).pos = p /\ Copy(p, it).len = it.len /\ Copy(p, it).op = it.op
         /\ Copy(p, it).cond = it.cond /\ Copy(p, it).rt = it.rt /\ Copy(p, it).rn = it.rn
         /\ Copy(p, it).w = it.w /\ Copy(p, it).link = it.link /\ Copy(p, it).val = it.val
  BY DEF Copy, ItemSet

LEMMA CopiedKept ==
  ASSUME Finished, NEW i, NEW it, NEW p, NEW b, NEW l, Here(i, it, p, b, l), l = 4,
         Copy(p, it) \in code, it.op \in Plain, PlainRegs(it), NEW z
  PROVE  SameEffect(i, z)
<1>1. PICK f \in Int : f = From(i) /\ f + 4 = Till(i)
  BY DEF Here
<1>2. PICK st : st = State
  OBVIOUS
<1>3. PICK x \in code : x = Copy(p, it)
  OBVIOUS
<1>4. /\ x.pos = p /\ x.len = 4 /\ x.op = it.op /\ x.cond = it.cond /\ x.rt = it.rt /\ x.rn = it.rn
      /\ x.w = it.w /\ x.link = it.link /\ x.val = it.val /\ it.len = 4
  BY <1>3, CopyReads DEF Here
<1>5. Original(i, z) = Step({}, Source, Fresh(f, st), it, f, z)
  BY <1>1, <1>2, Starts
<1> DEFINE m == Step(code, Relocated, Fresh(b, st), x, b, z)
<1>6. ASSUME One(i, z, m) = m
      PROVE  CopiedFromStart(i, z) = m
  BY <1>2, <1>4, <1>6, OnlyItem
<1>7. CASE ~Taken(it.cond, z) \/ it.op \in {"other", "nop", "svc"}
  <2>1. Original(i, z) = Fresh(f + 4, st)
    BY <1>4, <1>5, <1>7, StepNext
  <2>2. m = Fresh(b + 4, st)
    BY <1>4, <1>7, StepNext
  <2>3. m.pc = Addr(b + l)
    BY <2>2 DEF Fresh, M
  <2>4. CopiedFromStart(i, z) = Fresh(b + 4, st)
    <3> HIDE DEF m
    <3> QED
      BY <1>6, <2>2, <2>3, StaysBehind
  <2> QED
    BY <1>1, <1>2, <2>1, <2>4, SameFalls DEF Fresh
<1>8. CASE Taken(it.cond, z) /\ it.op \in Values
  <2>1. PICK v : v = ValueFor(it) /\ v = ValueFor(x)
    BY <1>4 DEF ValueFor
  <2>2. it.rt \in {"r0", "v0"} /\ (it.op # "mov" => it.rn \in {"r0", "v0"})
    BY <1>8 DEF PlainRegs, Values
  <2>8. it.op \in {"mov", "alu", "ldm"} /\ x.op \in {"mov", "alu", "ldm"}
    BY <1>4, <1>8 DEF Values
  <2>9. Step({}, Source, Fresh(f, st), it, f, z) = SetTo(Addr(f + it.len), st, it.rt, ValueFor(it))
    BY <1>8, <2>2, <2>8, StepValue
  <2>3. Original(i, z) = SetTo(Addr(f + 4), st, it.rt, v)
    BY <1>4, <1>5, <2>1, <2>9
  <2>4. m = SetTo(Addr(b + 4), st, it.rt, v)
    BY <1>4, <1>8, <2>1, <2>2, StepValue DEF Values
  <2>5. m.pc = Addr(b + l)
    BY <2>4 DEF SetTo, M
  <2>6. CopiedFromStart(i, z) = SetTo(Addr(b + 4), st, it.rt, v)
    <3> HIDE DEF m
    <3> QED
      BY <1>6, <2>4, <2>5, StaysBehind
  <2>7. PICK r0, v0 : \A pc : SetTo(pc, st, it.rt, v) = M(pc, st, r0, v0, Was("ip"), Was("lr"))
    BY DEF SetTo
  <2> QED
    BY <1>1, <1>2, <2>3, <2>6, <2>7, SameFalls
<1>9. CASE Taken(it.cond, z) /\ it.op = "bx"
  <2>1. it.rn \in {"r0", "v0"}
    BY <1>9 DEF PlainRegs
  <2>2. PICK pc, s : pc = Was(it.rn) /\ s = StateBy(st) /\ pc # Addr(Till(i)) /\ pc[1] # "addr"
    BY Distinct
  <2>3. Original(i, z) = M(pc, s, Was("r0"), Was("v0"), Was("ip"), IF it.link THEN Addr(f + 4) ELSE Was("lr"))
    BY <1>4, <1>5, <1>9, <2>1, <2>2, StepBx
  <2>4. m = M(pc, s, Was("r0"), Was("v0"), Was("ip"), IF it.link THEN Addr(b + 4) ELSE Was("lr"))
    BY <1>4, <1>9, <2>1, <2>2, StepBx
  <2>5. m.pc[1] # "addr"
    BY <2>2, <2>4 DEF M
  <2>6. CopiedFromStart(i, z) = m
    <3> HIDE DEF m
    <3> QED
      BY <1>6, <2>5, StaysAway
  <2>7. CASE it.link
    <3>1. PICK a : a = b + 4
      OBVIOUS
    <3> DEFINE r == M(Addr(a), State, Was("r0"), Was("v0"), Was("ip"), Addr(a))
    <3>2. r.pc = Addr(b + l)
      BY <3>1 DEF M
    <3>3. Copied(i, z, r) = r
      <4> HIDE DEF r
      <4> QED
        BY <3>2, StaysBehind
    <3>4. Original(i, z) = M(pc, s, Was("r0"), Was("v0"), Was("ip"), Addr(Till(i)))
      BY <1>1, <2>3, <2>7
    <3>5. CopiedFromStart(i, z) = M(pc, s, Was("r0"), Was("v0"), Was("ip"), Addr(a))
      BY <2>4, <2>6, <2>7, <3>1
    <3>6. b + l = a
      BY <3>1
    <3> QED
      BY <2>2, <3>3, <3>4, <3>5, <3>6, SameCalls
  <2>8. CASE ~it.link
    BY <2>2, <2>3, <2>4, <2>6, <2>8, SameLeaves
  <2> QED
    BY <2>7, <2>8
<1> QED
  BY <1>7, <1>8, <1>9 DEF Plain, Values
-----------------------------------------------------------------------------
(* What an instruction refers to. *)
LEMMA Aims ==
  ASSUME Finished, NEW i, NEW it, NEW p, NEW b, NEW l, Here(i, it, p, b, l), CopyIs(i, it, p)
  PROVE  /\ State = prog.arch /\ Aim(i) \in Int
         /\ PcRead(State, From(i), it.len) + it.off = Aim(i)
         /\ PcBase(State, From(i), it.len) + it.off = Aim(i)
<1>1. it = prog.insns[i] /\ it.len = 4 /\ From(i) \in Int /\ it.off \in Int
  BY DEF Here, ItemSet
<1>2. PICK f \in Int, d \in Int : f = From(i) /\ d = it.off
  BY <1>1
<1>3. CASE prog.arch = "arm"
  <2>1. f % 4 = 0 /\ State = "arm"
    BY <1>2, <1>3 DEF CopyIs, State
  <2>2. PcRead("arm", f, 4) = f + 8 /\ PcBase("arm", f, 4) = f + 8
    BY <2>1, PcBases DEF PcRead
  <2>3. Aim(i) = f + 8 + d
    BY <1>1, <1>2, <1>3 DEF Aim
  <2> QED
    BY <1>1, <1>2, <1>3, <2>1, <2>2, <2>3
<1>4. CASE prog.arch = "a64"
  <2>1. State = "a64"
    BY <1>4 DEF State
  <2>2. PcRead("a64", f, 4) = f + 0 /\ PcBase("a64", f, 4) = f
    BY PcBases DEF PcRead
  <2>3. Aim(i) = f + 0 + d
    BY <1>1, <1>2, <1>4 DEF Aim
  <2> QED
    BY <1>1, <1>2, <1>4, <2>1, <2>2, <2>3
<1> QED
  BY <1>3, <1>4 DEF Finished, Word

-----------------------------------------------------------------------------
(* A64. *)

\* A jump by a label, executed.
LEMMA A64JumpRuns ==
  ASSUME Finished, prog.arch = "a64", NEW i, NEW it, NEW p, NEW b, NEW l, Here(i, it, p, b, l), NEW z,
         NEW k \in Nat, k + 8 <= l, NEW a \in Int, a = b + k, NEW lk, NEW t \in Int,
         Jumps(p + k, lk, t), ~InBlock(t)
  PROVE  \E m1, m2 : /\ m2 = M(Addr(t), State, Was("r0"), Was("v0"), Addr(t),
                               IF lk THEN Addr(a + 8) ELSE Was("lr"))
                     /\ One(i, z, Fresh(a, State)) = m1 /\ One(i, z, m1) = m2 /\ One(i, z, m2) = m2
<1>1. p \in Nat /\ b \in Int /\ l \in 4..20 /\ k < l
  <2>1. p \in Nat /\ b \in Int /\ l \in 4..20
    BY DEF Here
  <2> QED
    BY <2>1
<1>2. PICK q \in Nat : q = p + k /\ a = Relocated + q /\ q \in CopyInside(i)
  <2>1. p + k \in Nat /\ b + k = Relocated + (p + k) /\ p + k \in CopyInside(i)
    <3>1. k < l
      BY <1>1
    <3> QED
      BY <3>1, Within
  <2> QED
    BY <2>1
<1>3. PICK st : st = State /\ st = "a64"
  BY DEF State
<1>4. PICK a4 \in Int : a4 = a + 4
  OBVIOUS
<1> DEFINE m1 == M(Addr(a4), st, Was("r0"), Was("v0"), Addr(t), Was("lr"))
           m2 == M(Addr(t), st, Was("r0"), Was("v0"), Addr(t), IF lk THEN Addr(a + 8) ELSE Was("lr"))
<1>5. One(i, z, Fresh(a, st)) = m1
  <2>1. Loads(q, "ip", t)
    BY <1>2 DEF Jumps
  <2>2. One(i, z, Fresh(a, st)) = SetReg(Fresh(a4, st), "ip", Addr(t))
    BY <1>2, <1>3, <1>4, <2>1, LoadStep
  <2>3. SetReg(Fresh(a4, st), "ip", Addr(t)) = m1
    BY Sets DEF Fresh
  <2> QED
    BY <2>2, <2>3
<1>6. One(i, z, m1) = m2
  <2>1. PICK x \in code : x = BxItem(q + 4, lk)
    BY <1>2 DEF Jumps
  <2>2. x.pos = q + 4 /\ x.len = 4 /\ x.op = "bx" /\ x.rn = "ip" /\ x.link = lk /\ x.cond = "al"
    BY <2>1 DEF BxItem, Item
  <2>3. PICK j \in Nat : j = k + 4 /\ j < l /\ a4 = b + j /\ x.pos = p + j
    BY <1>1, <1>2, <1>4, <2>2
  <2>4. m1.pc = Addr(a4)
    BY DEF M
  <2>5. One(i, z, m1) = Step(code, Relocated, m1, x, a4, z)
    <3> HIDE DEF m1
    <3> QED
      BY <2>3, <2>4, AtItem
  <2>6. Taken(x.cond, z)
    BY <2>2 DEF Taken
  <2>7. a4 + x.len = a + 8
    BY <1>4, <2>2
  <2>8. PICK lr : lr = IF lk THEN Addr(a + 8) ELSE Was("lr")
    OBVIOUS
  <2>9. Step(code, Relocated, m1, x, a4, z) =
          Jump(M(Addr(a4 + x.len), st, Was("r0"), Was("v0"), Addr(t), lr), Addr(t))
    <3>1. CASE lk
      <4>1. x.link
        BY <2>2, <3>1
      <4>2. Step(code, Relocated, m1, x, a4, z) =
          Jump(M(Addr(a4 + x.len), st, Was("r0"), Was("v0"), Addr(t), Addr(a4 + x.len)), Addr(t))
        BY <2>2, <2>6, <4>1, StepBlrIp
      <4> QED
        BY <2>7, <2>8, <3>1, <4>2
    <3>2. CASE ~lk
      <4>1. ~x.link
        BY <2>2, <3>2
      <4>2. Step(code, Relocated, m1, x, a4, z) =
          Jump(M(Addr(a4 + x.len), st, Was("r0"), Was("v0"), Addr(t), Was("lr")), Addr(t))
        BY <2>2, <2>6, <4>1, StepBxIp
      <4> QED
        BY <2>8, <3>2, <4>2
    <3> QED
      BY <3>1, <3>2
  <2>10. Jump(M(Addr(a4 + x.len), st, Was("r0"), Was("v0"), Addr(t), lr), Addr(t)) =
           M(Addr(t), st, Was("r0"), Was("v0"), Addr(t), lr)
    BY <1>3, JumpTo
  <2> QED
    BY <2>5, <2>8, <2>9, <2>10
<1>7. One(i, z, m2) = m2
  <2>1. m2.pc = Addr(t)
    BY DEF M
  <2> HIDE DEF m2
  <2> QED
    BY <2>1, StaysOutside
<1> HIDE DEF m1
<1> QED
  BY <1>3, <1>5, <1>6, <1>7

\* b and bl
LEMMA A64JumpKept ==
  ASSUME Finished, prog.arch = "a64", NEW i, NEW it, NEW p, NEW b, NEW l, Here(i, it, p, b, l),
         CopyIs(i, it, p), it.op = "b", it.cond = "al", it.val = 0, ~InBlock(Aim(i)),
         Aim(i) # Till(i), NEW z
  PROVE  SameEffect(i, z)
<1>1. l = 8 /\ p \in Nat /\ b \in Int
  BY DEF Here, CopyLen
<1>2. PICK t \in Int : t = Aim(i)
  BY Aims
<1>3. Jumps(p, it.link, t)
  BY <1>2 DEF CopyIs, A64CopyAt, A64BranchAt
<1>4. PICK f \in Int : f = From(i) /\ f + it.len = Till(i) /\ t # Till(i) /\ it.link \in BOOLEAN
  BY <1>2 DEF Here, ItemSet
<1>5. PICK st : st = State
  OBVIOUS
<1>6. PcRead(st, f, it.len) + it.off = t
  BY <1>2, <1>4, <1>5, Aims
<1>7. Taken(it.cond, z)
  BY DEF Taken
<1>8. Original(i, z) = Step({}, Source, Fresh(f, st), it, f, z)
  BY <1>4, <1>5, Starts
<1>9. PICK lr : lr = IF it.link THEN Addr(b + 8) ELSE Was("lr")
  OBVIOUS
<1>10. CopiedFromStart(i, z) = M(Addr(t), st, Was("r0"), Was("v0"), Addr(t), lr)
  <2>1. PICK k \in Nat : k = 0 /\ k + 8 <= l /\ b = b + k /\ p + k = p
    BY <1>1
  <2>2. Jumps(p + k, it.link, t) /\ ~InBlock(t)
    BY <1>2, <1>3, <2>1
  <2>3. PICK m1, m2 : /\ m2 = M(Addr(t), State, Was("r0"), Was("v0"), Addr(t),
                                IF it.link THEN Addr(b + 8) ELSE Was("lr"))
                      /\ One(i, z, Fresh(b, State)) = m1 /\ One(i, z, m1) = m2 /\ One(i, z, m2) = m2
    BY <1>1, <2>1, <2>2, A64JumpRuns
  <2>4. Copied(i, z, Fresh(b, State)) = m2
    BY <2>3, Runs
  <2> QED
    BY <1>5, <1>9, <2>3, <2>4, Starts
<1>11. Addr(t) # Addr(Till(i))
  BY <1>4 DEF Addr
<1>12. CASE it.link
  <2>1. Original(i, z) = M(Addr(t), st, Was("r0"), Was("v0"), Was("ip"), Addr(Till(i)))
    <3>1. Step({}, Source, Fresh(f, st), it, f, z) =
            M(Addr(PcRead(st, f, it.len) + it.off), st, Was("r0"), Was("v0"), Was("ip"), Addr(f + it.len))
      BY <1>7, <1>12, StepBl DEF Fresh
    <3> QED
      BY <1>4, <1>6, <1>8, <3>1
  <2>2. PICK a : a = b + 8 /\ b + l = a
    BY <1>1
  <2>3. PICK r : r = M(Addr(a), State, Was("r0"), Was("v0"), Addr(t), Addr(a))
    OBVIOUS
  <2>4. Copied(i, z, r) = r
    <3>1. r.pc = Addr(b + l)
      BY <2>2, <2>3 DEF M
    <3> QED
      BY <3>1, StaysBehind
  <2>5. CopiedFromStart(i, z) = M(Addr(t), st, Was("r0"), Was("v0"), Addr(t), Addr(a))
    BY <1>9, <1>10, <1>12, <2>2
  <2> QED
    BY <1>11, <2>1, <2>2, <2>3, <2>4, <2>5, SameCalls
<1>13. CASE ~it.link
  <2>1. Original(i, z) = M(Addr(t), st, Was("r0"), Was("v0"), Was("ip"), Was("lr"))
    <3>1. Step({}, Source, Fresh(f, st), it, f, z) =
            M(Addr(PcRead(st, f, it.len) + it.off), st, Was("r0"), Was("v0"), Was("ip"), Was("lr"))
      BY <1>7, <1>13, StepB DEF Fresh
    <3> QED
      BY <1>4, <1>6, <1>8, <3>1
  <2>2. CopiedFromStart(i, z) = M(Addr(t), st, Was("r0"), Was("v0"), Addr(t), Was("lr"))
    BY <1>9, <1>10, <1>13
  <2> QED
    BY <1>11, <2>1, <2>2, SameLeaves
<1> QED
  BY <1>12, <1>13

\* The branch that is turned around is taken when the instruction is not.
LEMMA TurnedReads ==
  ASSUME NEW p, NEW it \in ItemSet, it.op = "b", it.cond # "al", NEW z
  PROVE  /\ Turned(p, it).pos = p /\ Turned(p, it).len = it.len /\ Turned(p, it).op = "b"
         /\ Turned(p, it).link = it.link /\ Turned(p, it).off = 12
         /\ Taken(Turned(p, it).cond, z) <=> ~Taken(it.cond, z)
<1>1. it.cond \in {"cc", "nc"}
  BY DEF ItemSet, Conds
<1>2. Turned(p, it).cond = Inverted(it.cond)
  BY DEF Turned, Copy, ItemSet
<1>3. Taken(Turned(p, it).cond, z) <=> ~Taken(it.cond, z)
  BY <1>1, <1>2 DEF Taken, Inverted
<1>4. /\ Turned(p, it).pos = p /\ Turned(p, it).len = it.len /\ Turned(p, it).op = "b"
      /\ Turned(p, it).link = it.link /\ Turned(p, it).off = 12
  BY DEF Turned, Copy, ItemSet
<1> QED
  BY <1>3, <1>4

\* b.cond, cbz, cbnz, tbz, tbnz
LEMMA A64CondKept ==
  ASSUME Finished, prog.arch = "a64", NEW i, NEW it, NEW p, NEW b, NEW l, Here(i, it, p, b, l),
         CopyIs(i, it, p), it.op = "b", it.cond # "al", ~it.link, ~InBlock(Aim(i)), Aim(i) # Till(i), NEW z
  PROVE  SameEffect(i, z)
<1>1. l = 12 /\ p \in Nat /\ b \in Int /\ it \in ItemSet /\ it.len = 4
  BY DEF Here, CopyLen
<1>2. PICK t \in Int : t = Aim(i)
  BY Aims
<1>3. Jumps(p + 4, FALSE, t) /\ Turned(p, it) \in code
  BY <1>2 DEF CopyIs, A64CopyAt, A64BranchAt
<1>4. PICK f \in Int : f = From(i) /\ f + 4 = Till(i) /\ t # Till(i)
  BY <1>2 DEF Here
<1>5. PICK st : st = State /\ st = "a64"
  BY DEF State
<1>6. PcRead(st, f, it.len) + it.off = t
  BY <1>2, <1>4, <1>5, Aims
<1>7. Original(i, z) = Step({}, Source, Fresh(f, st), it, f, z)
  BY <1>4, <1>5, Starts
<1>8. PICK x \in code : x = Turned(p, it)
  BY <1>3
<1>9. /\ x.pos = p /\ x.len = 4 /\ x.op = "b" /\ ~x.link /\ x.off = 12
      /\ Taken(x.cond, z) <=> ~Taken(it.cond, z)
  BY <1>1, <1>8, TurnedReads
<1>10. One(i, z, Fresh(b, st)) = Step(code, Relocated, Fresh(b, st), x, b, z)
  <2>1. PICK k \in Nat : k = 0 /\ k < l /\ b = b + k /\ x.pos = p + k
    BY <1>1, <1>9
  <2>2. Fresh(b, st).pc = Addr(b)
    BY DEF Fresh, M
  <2> QED
    BY <1>1, <2>1, <2>2, AtItem
<1>11. CASE ~Taken(it.cond, z)
  <2>1. Original(i, z) = Fresh(f + 4, st)
    BY <1>1, <1>7, <1>11, StepNext
  <2>2. PcRead(st, b, 4) + 12 = b + 12
    BY <1>1, <1>5 DEF PcRead
  <2>3. Step(code, Relocated, Fresh(b, st), x, b, z) = Fresh(b + 12, st)
    <3>1. Step(code, Relocated, Fresh(b, st), x, b, z) =
            M(Addr(PcRead(st, b, x.len) + x.off), st, Was("r0"), Was("v0"), Was("ip"), Was("lr"))
      BY <1>9, <1>11, StepB DEF Fresh
    <3> QED
      BY <1>9, <2>2, <3>1 DEF Fresh
  <2>4. CopiedFromStart(i, z) = Fresh(b + 12, st)
    <3>1. PICK m : m = Fresh(b + 12, st)
      OBVIOUS
    <3>2. m.pc = Addr(b + l)
      BY <1>1, <3>1 DEF Fresh, M
    <3>3. One(i, z, m) = m
      BY <3>2, StaysBehind
    <3> QED
      BY <1>5, <1>8, <1>9, <2>3, <3>1, <3>3, OnlyItem
  <2> QED
    BY <1>1, <1>4, <1>5, <2>1, <2>4, SameFalls DEF Fresh
<1>12. CASE Taken(it.cond, z)
  <2>1. Original(i, z) = M(Addr(t), st, Was("r0"), Was("v0"), Was("ip"), Was("lr"))
    <3>1. Step({}, Source, Fresh(f, st), it, f, z) =
            M(Addr(PcRead(st, f, it.len) + it.off), st, Was("r0"), Was("v0"), Was("ip"), Was("lr"))
      BY <1>12, StepB DEF Fresh
    <3> QED
      BY <1>6, <1>7, <3>1
  <2>2. PICK a \in Int, k \in Nat : a = b + 4 /\ k = 4 /\ k + 8 <= l /\ a = b + k
    BY <1>1
  <2>3. One(i, z, Fresh(b, st)) = Fresh(a, st)
    <3>1. Step(code, Relocated, Fresh(b, st), x, b, z) = Fresh(b + x.len, st)
      BY <1>9, <1>12, StepNext
    <3> QED
      BY <1>9, <1>10, <2>2, <3>1
  <2>9. PICK lk : ~lk /\ Jumps(p + k, lk, t)
    BY <1>3, <2>2
  <2>4. ~InBlock(t)
    BY <1>2
  <2>5. PICK m1, m2 : /\ m2 = M(Addr(t), State, Was("r0"), Was("v0"), Addr(t),
                                IF lk THEN Addr(a + 8) ELSE Was("lr"))
                      /\ One(i, z, Fresh(a, State)) = m1 /\ One(i, z, m1) = m2 /\ One(i, z, m2) = m2
    BY <2>2, <2>4, <2>9, A64JumpRuns
  <2>6. Copied(i, z, Fresh(b, st)) = m2
    BY <1>5, <2>3, <2>5, Runs
  <2>7. CopiedFromStart(i, z) = M(Addr(t), st, Was("r0"), Was("v0"), Addr(t), Was("lr"))
    BY <1>5, <2>5, <2>6, <2>9, Starts
  <2>8. Addr(t) # Addr(Till(i))
    BY <1>4 DEF Addr
  <2> QED
    BY <2>1, <2>7, <2>8, SameLeaves
<1> QED
  BY <1>11, <1>12

\* b.al and b.nv: the branch over the jump is taken too, and control falls through.
LEMMA A64AlwaysLost ==
  ASSUME Finished, prog.arch = "a64", NEW i, NEW it, NEW p, NEW b, NEW l, Here(i, it, p, b, l),
         CopyIs(i, it, p), it.op = "b", it.cond = "al", it.val # 0, ~it.link, ~InBlock(Aim(i)),
         Aim(i) # Till(i), NEW z
  PROVE  ~SameEffect(i, z)
<1>1. l = 12 /\ p \in Nat /\ b \in Int /\ b = Relocated + p /\ it \in ItemSet /\ it.len = 4
  BY DEF Here, CopyLen
<1>2. PICK t \in Int : t = Aim(i)
  BY Aims
<1>3. PICK x \in code : x = Turned(p, it)
  BY DEF CopyIs, A64CopyAt, A64BranchAt
<1>4. PICK f \in Int : f = From(i) /\ f + 4 = Till(i) /\ t # Till(i)
  BY <1>2 DEF Here
<1>5. PICK st : st = State /\ st = "a64"
  BY DEF State
<1>6. x.pos = p /\ x.len = 4 /\ x.op = "b" /\ ~x.link /\ x.off = 12 /\ Taken(x.cond, z) /\ Taken(it.cond, z)
  BY <1>1, <1>3 DEF Turned, Copy, ItemSet, Inverted, Taken
<1>7. Original(i, z) = M(Addr(t), st, Was("r0"), Was("v0"), Was("ip"), Was("lr"))
  <2>1. PcRead(st, f, it.len) + it.off = t
    BY <1>2, <1>4, <1>5, Aims
  <2>2. Original(i, z) = Step({}, Source, Fresh(f, st), it, f, z)
    BY <1>4, <1>5, Starts
  <2>3. Step({}, Source, Fresh(f, st), it, f, z) =
          M(Addr(PcRead(st, f, it.len) + it.off), st, Was("r0"), Was("v0"), Was("ip"), Was("lr"))
    BY <1>6, StepB DEF Fresh
  <2> QED
    BY <2>1, <2>2, <2>3
<1>8. PICK e \in Int : e = b + 12
  BY <1>1
<1>9. CopiedFromStart(i, z) = Fresh(e, st)
  <2>1. PcRead(st, b, 4) + 12 = e
    BY <1>1, <1>5, <1>8 DEF PcRead
  <2>2. Step(code, Relocated, Fresh(b, st), x, b, z) = Fresh(e, st)
    <3>1. Step(code, Relocated, Fresh(b, st), x, b, z) =
            M(Addr(PcRead(st, b, x.len) + x.off), st, Was("r0"), Was("v0"), Was("ip"), Was("lr"))
      BY <1>6, StepB DEF Fresh
    <3> QED
      BY <1>6, <2>1, <3>1 DEF Fresh
  <2>3. PICK m : m = Fresh(e, st)
    OBVIOUS
  <2>4. m.pc = Addr(b + l)
    BY <1>1, <1>8, <2>3 DEF Fresh, M
  <2>5. One(i, z, m) = m
    BY <2>4, StaysBehind
  <2> QED
    BY <1>5, <1>3, <1>6, <2>2, <2>3, <2>5, OnlyItem
<1>10. e # t
  <2>1. Relocated \in Nat /\ size \in Nat /\ p + 12 < size
    BY <1>1, RelocateAssumption DEF Here, Finished, IndInv, Shape
  <2>2. e \in Relocated..(Relocated + size - 1)
    BY <1>1, <1>8, <2>1
  <2>3. t \notin Relocated..(Relocated + size - 1)
    BY <1>2 DEF InBlock
  <2> QED
    BY <2>2, <2>3
<1>11. PICK o, c : o = Original(i, z) /\ c = CopiedFromStart(i, z)
  OBVIOUS
<1>12. o.pc = Addr(t) /\ c.pc = Addr(e)
  BY <1>7, <1>9, <1>11 DEF Fresh, M
<1>13. o.pc # Addr(Till(i)) /\ c.pc # o.pc
  BY <1>4, <1>10, <1>12 DEF Addr
<1> QED
  BY <1>11, <1>13 DEF SameEffect

\* ldr (literal): the copy loads 8 bytes into a general register.
LEMMA A64LdrKept ==
  ASSUME Finished, prog.arch = "a64", NEW i, NEW it, NEW p, NEW b, NEW l, Here(i, it, p, b, l),
         CopyIs(i, it, p), it.op = "ldr", it.cond = "al", ~it.link, it.rt \in {"r0", "v0"},
         ~InBlock(Aim(i)), NEW z
  PROVE  SameEffect(i, z) <=> it.w = 8 /\ it.rt = "r0"
<1>1. l = 20 /\ p \in Nat /\ b \in Int /\ it.len = 4
  BY DEF Here, CopyLen
<1>2. PICK t \in Int : t = Aim(i)
  BY Aims
<1>3. PICK f \in Int : f = From(i) /\ f + 4 = Till(i)
  BY DEF Here
<1>4. PICK st : st = State
  OBVIOUS
<1>5. PICK w, v : w = <<"mem", t, it.w>> /\ v = <<"mem", t, 8>>
  OBVIOUS
<1>6. Original(i, z) = SetTo(Addr(f + 4), st, it.rt, w)
  <2>1. Original(i, z) = Step({}, Source, Fresh(f, st), it, f, z)
    BY <1>3, <1>4, Starts
  <2>2. PcBase(st, f, it.len) + it.off = t
    BY <1>2, <1>3, <1>4, Aims
  <2>3. Taken(it.cond, z)
    BY DEF Taken
  <2>4. Step({}, Source, Fresh(f, st), it, f, z) =
          SetReg(Fresh(f + it.len, st), it.rt, Fetch({}, Source, PcBase(st, f, it.len) + it.off, it.w))
    BY <2>3, StepLdr DEF Fresh
  <2>5. Fetch({}, Source, t, it.w) = w
    BY <1>5, NoCode, FetchMem
  <2> QED
    BY <1>1, <2>1, <2>2, <2>4, <2>5, SetToIs
<1>7. \E ip : CopiedFromStart(i, z) = M(Addr(b + 20), st, v, Was("v0"), ip, Was("lr"))
  <2>1. PICK x \in code, y \in code : x = Mov(p, 16, "ip", t) /\ y = Ldm(p + 16, 4, "r0", "ip", 8)
    BY <1>2 DEF CopyIs, A64CopyAt
  <2>2. x.pos = p /\ x.len = 16 /\ x.op = "mov" /\ x.rt = "ip" /\ x.val = t /\ x.cond = "al"
    BY <2>1 DEF Mov, Item
  <2>3. /\ y.pos = p + 16 /\ y.len = 4 /\ y.op = "ldm" /\ y.rt = "r0" /\ y.rn = "ip" /\ y.w = 8
        /\ y.cond = "al"
    BY <2>1 DEF Ldm, Item
  <2>4. PICK k \in Nat, j \in Nat, a \in Int : k = 0 /\ k < l /\ b = b + k /\ p = p + k
                                           /\ j = 16 /\ j < l /\ a = b + j
    BY <1>1
  <2>5. PICK m1 : m1 = M(Addr(a), st, Was("r0"), Was("v0"), Addr(t), Was("lr"))
    OBVIOUS
  <2>6. PICK m2 : m2 = M(Addr(b + 20), st, v, Was("v0"), Addr(t), Was("lr"))
    OBVIOUS
  <2>7. One(i, z, Fresh(b, st)) = m1
    <3>1. Fresh(b, st).pc = Addr(b) /\ x.pos = p + k
      BY <2>2, <2>4 DEF Fresh, M
    <3>2. One(i, z, Fresh(b, st)) = Step(code, Relocated, Fresh(b, st), x, b, z)
      BY <1>1, <2>4, <3>1, AtItem
    <3>3. Taken(x.cond, z)
      BY <2>2 DEF Taken
    <3>4. Step(code, Relocated, Fresh(b, st), x, b, z) = SetReg(Fresh(b + x.len, st), x.rt, Addr(x.val))
      BY <2>2, <3>3, StepMov DEF Fresh
    <3>5. SetReg(Fresh(a, st), "ip", Addr(t)) = m1
      BY <2>5, Sets DEF Fresh
    <3> QED
      BY <2>2, <2>4, <3>2, <3>4, <3>5
  <2>8. One(i, z, m1) = m2
    <3>1. m1.pc = Addr(a) /\ y.pos = p + j
      BY <2>3, <2>4, <2>5 DEF M
    <3>2. One(i, z, m1) = Step(code, Relocated, m1, y, a, z)
      BY <2>4, <3>1, AtItem
    <3>3. Taken(y.cond, z)
      BY <2>3 DEF Taken
    <3>4. NoData(code, Relocated, t)
      BY <1>2, Outside
    <3>5. m1[y.rn] = Addr(t)
      BY <2>3, <2>5 DEF M
    <3>6. Step(code, Relocated, m1, y, a, z) =
            SetReg(M(Addr(a + y.len), st, Was("r0"), Was("v0"), Addr(t), Was("lr")), y.rt, <<"mem", t, y.w>>)
      BY <2>3, <2>5, <3>3, <3>4, <3>5, StepLdmMem
    <3>7. a + y.len = b + 20
      BY <1>1, <2>3, <2>4
    <3>8. SetReg(M(Addr(b + 20), st, Was("r0"), Was("v0"), Addr(t), Was("lr")), "r0", v) = m2
      BY <2>6, Sets
    <3> QED
      BY <1>5, <2>3, <3>2, <3>6, <3>7, <3>8
  <2>9. m2.pc = Addr(b + l)
    BY <1>1, <2>6 DEF M
  <2>10. Copied(i, z, Fresh(b, st)) = m2
    BY <2>7, <2>8, <2>9, StaysBehind, Runs
  <2> QED
    BY <1>4, <2>6, <2>10, Starts
<1>8. PICK ip : CopiedFromStart(i, z) = M(Addr(b + l), st, v, Was("v0"), ip, Was("lr"))
  BY <1>1, <1>7
<1>9. CASE it.w = 8 /\ it.rt = "r0"
  <2>1. Original(i, z) = M(Addr(f + 4), st, v, Was("v0"), Was("ip"), Was("lr"))
    BY <1>5, <1>6, <1>9 DEF SetTo
  <2> QED
    BY <1>3, <1>4, <1>8, <1>9, <2>1, SameFalls
<1>10. CASE it.rt = "v0"
  <2>1. Original(i, z).r0 = Was("r0") /\ CopiedFromStart(i, z).r0 = v
    BY <1>6, <1>8, <1>10 DEF SetTo, M
  <2>2. Was("r0") # v
    BY <1>5, MemIs
  <2> QED
    BY <1>10, <2>1, <2>2 DEF SameEffect
<1>11. CASE it.rt = "r0" /\ it.w # 8
  <2>1. Original(i, z).r0 = w /\ CopiedFromStart(i, z).r0 = v
    BY <1>6, <1>8, <1>11 DEF SetTo, M
  <2>2. w # v
    BY <1>5, <1>11, MemIs
  <2> QED
    BY <1>11, <2>1, <2>2 DEF SameEffect
<1> QED
  BY <1>9, <1>10, <1>11

\* adr and adrp
LEMMA A64AdrKept ==
  ASSUME Finished, prog.arch = "a64", NEW i, NEW it, NEW p, NEW b, NEW l, Here(i, it, p, b, l),
         CopyIs(i, it, p), it.op \in {"adr", "adrp"}, it.cond = "al", it.rt \in {"r0", "v0"}, NEW z
  PROVE  SameEffect(i, z)
<1>1. l = 16 /\ p \in Nat /\ b \in Int /\ it.len = 4
  BY DEF Here, CopyLen
<1>2. PICK v : v = AdrValue(it, Aim(i))
  OBVIOUS
<1>3. PICK f \in Int : f = From(i) /\ f + 4 = Till(i)
  BY DEF Here
<1>4. PICK st : st = State
  OBVIOUS
<1>5. Original(i, z) = SetTo(Addr(f + 4), st, it.rt, Addr(v))
  <2>1. Original(i, z) = Step({}, Source, Fresh(f, st), it, f, z)
    BY <1>3, <1>4, Starts
  <2>2. PcBase(st, f, it.len) + it.off = Aim(i)
    BY <1>3, <1>4, Aims
  <2>3. Taken(it.cond, z)
    BY DEF Taken
  <2>4. Step({}, Source, Fresh(f, st), it, f, z) = SetReg(Fresh(f + it.len, st), it.rt, Addr(v))
    <3>1. CASE it.op = "adr"
      <4>1. Step({}, Source, Fresh(f, st), it, f, z) =
              SetReg(Fresh(f + it.len, st), it.rt, Addr(PcBase(st, f, it.len) + it.off))
        BY <2>3, <3>1, StepAdr DEF Fresh
      <4> QED
        BY <1>2, <2>2, <3>1, <4>1 DEF AdrValue
    <3>2. CASE it.op = "adrp"
      <4>1. Step({}, Source, Fresh(f, st), it, f, z) =
              SetReg(Fresh(f + it.len, st), it.rt, Addr(AlignFloor(PcBase(st, f, it.len) + it.off, 4096)))
        BY <2>3, <3>2, StepAdrp DEF Fresh
      <4> QED
        BY <1>2, <2>2, <3>2, <4>1 DEF AdrValue
    <3> QED
      BY <3>1, <3>2
  <2> QED
    BY <1>1, <2>1, <2>4, SetToIs
<1>6. CopiedFromStart(i, z) = SetTo(Addr(b + 16), st, it.rt, Addr(v))
  <2>1. PICK x \in code : x = Mov(p, 16, it.rt, v)
    BY <1>2 DEF CopyIs, A64CopyAt
  <2>2. x.pos = p /\ x.len = 16 /\ x.op = "mov" /\ x.rt = it.rt /\ x.val = v /\ x.cond = "al"
    BY <2>1 DEF Mov, Item
  <2>3. Taken(x.cond, z)
    BY <2>2 DEF Taken
  <2>4. Step(code, Relocated, Fresh(b, st), x, b, z) = SetReg(Fresh(b + x.len, st), x.rt, Addr(x.val))
    BY <2>2, <2>3, StepMov DEF Fresh
  <2>5. PICK m : m = SetTo(Addr(b + 16), st, it.rt, Addr(v))
    OBVIOUS
  <2>6. Step(code, Relocated, Fresh(b, st), x, b, z) = m
    BY <2>2, <2>4, <2>5, SetToIs
  <2>7. m.pc = Addr(b + l)
    BY <1>1, <2>5 DEF SetTo, M
  <2>8. One(i, z, m) = m
    BY <2>7, StaysBehind
  <2> QED
    BY <1>4, <2>2, <2>5, <2>6, <2>8, OnlyItem
<1>7. PICK r0, v0 : \A pc : SetTo(pc, st, it.rt, Addr(v)) = M(pc, st, r0, v0, Was("ip"), Was("lr"))
  BY DEF SetTo
<1>8. Original(i, z) = M(Addr(Till(i)), State, r0, v0, Was("ip"), Was("lr"))
  BY <1>3, <1>4, <1>5, <1>7
<1>9. CopiedFromStart(i, z) = M(Addr(b + l), State, r0, v0, Was("ip"), Was("lr"))
  BY <1>1, <1>4, <1>6, <1>7
<1> QED
  BY <1>8, <1>9, SameFalls
-----------------------------------------------------------------------------
(* A32. *)

\* The branches over the load of the target, executed.
LEMMA CallOver ==
  ASSUME Finished, prog.arch = "arm", NEW i, NEW it, NEW p, NEW b, NEW l, Here(i, it, p, b, l), l = 20,
         NEW z, NEW c, NEW lk, NEW t, CallItems(p, c, lk, t) \subseteq code, NEW lr
  PROVE  \E m1, m2 : /\ m2 = M(Addr(b + 20), State, Was("r0"), Was("v0"), Was("ip"), lr)
                     /\ One(i, z, M(Addr(b + 4), State, Was("r0"), Was("v0"), Was("ip"), lr)) = m1
                     /\ One(i, z, m1) = m2 /\ One(i, z, m2) = m2
<1>1. p \in Nat /\ b \in Int
  BY DEF Here
<1>2. PICK st : st = State /\ st = "arm"
  BY DEF State
<1>3. PICK a4 \in Int, a16 \in Int : a4 = b + 4 /\ a16 = b + 16
  BY <1>1
<1>4. PICK j \in Nat, k \in Nat : j = 4 /\ j < l /\ a4 = b + j /\ k = 16 /\ k < l /\ a16 = b + k
  BY <1>1, <1>3
<1>5. PICK x \in code, y \in code : x = B(p + 4, 4, "al", 4, FALSE) /\ y = Nop(p + 16, 4)
  BY DEF CallItems
<1>6. /\ x.pos = p + j /\ x.len = 4 /\ x.op = "b" /\ x.off = 4 /\ ~x.link /\ x.cond = "al"
      /\ y.pos = p + k /\ y.len = 4 /\ y.op = "nop"
  BY <1>4, <1>5 DEF B, Nop, Item
<1>7. PICK m0 : m0 = M(Addr(a4), st, Was("r0"), Was("v0"), Was("ip"), lr)
  OBVIOUS
<1>8. PICK m1 : m1 = M(Addr(a16), st, Was("r0"), Was("v0"), Was("ip"), lr)
  OBVIOUS
<1>9. PICK m2 : m2 = M(Addr(b + 20), st, Was("r0"), Was("v0"), Was("ip"), lr)
  OBVIOUS
<1>10. m0.pc = Addr(a4) /\ m1.pc = Addr(a16) /\ m2.pc = Addr(b + l)
  BY <1>7, <1>8, <1>9 DEF M
<1>11. One(i, z, m0) = m1
  <2>1. One(i, z, m0) = Step(code, Relocated, m0, x, a4, z)
    BY <1>4, <1>6, <1>10, AtItem
  <2>2. Taken(x.cond, z) /\ PcRead(st, a4, 4) + 4 = a16
    BY <1>1, <1>2, <1>3, <1>6 DEF Taken, PcRead
  <2>3. Step(code, Relocated, m0, x, a4, z) =
          M(Addr(PcRead(st, a4, x.len) + x.off), st, Was("r0"), Was("v0"), Was("ip"), lr)
    BY <1>6, <1>7, <2>2, StepB
  <2> QED
    BY <1>6, <1>8, <2>1, <2>2, <2>3
<1>12. One(i, z, m1) = m2
  <2>1. One(i, z, m1) = Step(code, Relocated, m1, y, a16, z)
    BY <1>4, <1>6, <1>10, AtItem
  <2>2. Step(code, Relocated, m1, y, a16, z) =
          M(Addr(a16 + y.len), st, Was("r0"), Was("v0"), Was("ip"), lr)
    BY <1>6, <1>8, StepPlain
  <2>3. a16 + y.len = b + 20
    BY <1>1, <1>3, <1>6
  <2> QED
    BY <1>9, <2>1, <2>2, <2>3
<1>13. One(i, z, m2) = m2
  BY <1>10, StaysBehind
<1> QED
  BY <1>2, <1>3, <1>7, <1>9, <1>11, <1>12, <1>13

\* The sequence of a branch, executed to its target.
LEMMA CallRuns ==
  ASSUME Finished, prog.arch = "arm", NEW i, NEW it, NEW p, NEW b, NEW l, Here(i, it, p, b, l), l = 20,
         b % 4 = 0, NEW z, NEW c, Taken(c, z), NEW lk, NEW t \in Int, CallItems(p, c, lk, t) \subseteq code,
         ~InBlock(t - (t % 2))
  PROVE  CopiedFromStart(i, z) =
           M(Addr(t - (t % 2)), IF t % 2 = 1 THEN "thumb" ELSE "arm", Was("r0"), Was("v0"), Was("ip"),
             IF lk THEN Addr(b + 4) ELSE Was("lr"))
<1>1. p \in Nat /\ b \in Int
  BY DEF Here
<1>2. PICK st : st = State /\ st = "arm"
  BY DEF State
<1>3. PICK a8 \in Int, a12 \in Int : a8 = b + 8 /\ a12 = b + 12 /\ a8 % 4 = 0
  BY <1>1
<1>4. PICK lr : lr = IF lk THEN Addr(b + 4) ELSE Was("lr")
  OBVIOUS
<1>5. PICK x \in code, y \in code, d \in code : x = B(p, 4, c, 0, lk) /\ y = Ldr(p + 8, 4, "pc", -4)
                                              /\ d = Data(p + 12, 4, t)
  BY DEF CallItems
<1>6. /\ x.pos = p /\ x.len = 4 /\ x.op = "b" /\ x.off = 0 /\ x.link = lk /\ x.cond = c
      /\ y.pos = p + 8 /\ y.len = 4 /\ y.op = "ldr" /\ y.rt = "pc" /\ y.off = -4 /\ ~y.link /\ y.cond = "al"
      /\ d.pos = p + 12 /\ d.op = "data" /\ d.val = t
  BY <1>5 DEF B, Ldr, Data, Item
<1>7. PICK m1 : m1 = M(Addr(a8), st, Was("r0"), Was("v0"), Was("ip"), lr)
  OBVIOUS
<1>8. PICK m2 : m2 = M(Addr(t - (t % 2)), IF t % 2 = 1 THEN "thumb" ELSE "arm", Was("r0"), Was("v0"),
                       Was("ip"), lr)
  OBVIOUS
<1>9. One(i, z, Fresh(b, st)) = m1
  <2>1. PICK k \in Nat : k = 0 /\ k < l /\ b = b + k /\ x.pos = p + k
    BY <1>1, <1>6
  <2>2. Fresh(b, st).pc = Addr(b)
    BY DEF Fresh, M
  <2>3. One(i, z, Fresh(b, st)) = Step(code, Relocated, Fresh(b, st), x, b, z)
    BY <1>1, <2>1, <2>2, AtItem
  <2>4. Taken(x.cond, z) /\ PcRead(st, b, 4) + 0 = a8
    BY <1>1, <1>2, <1>3, <1>6 DEF PcRead
  <2>5. CASE lk
    <3>1. x.link
      BY <1>6, <2>5
    <3>2. Step(code, Relocated, Fresh(b, st), x, b, z) =
            M(Addr(PcRead(st, b, x.len) + x.off), st, Was("r0"), Was("v0"), Was("ip"), Addr(b + x.len))
      BY <1>6, <2>4, <3>1, StepBl DEF Fresh
    <3> QED
      BY <1>4, <1>6, <1>7, <2>3, <2>4, <2>5, <3>2
  <2>6. CASE ~lk
    <3>1. ~x.link
      BY <1>6, <2>6
    <3>2. Step(code, Relocated, Fresh(b, st), x, b, z) =
            M(Addr(PcRead(st, b, x.len) + x.off), st, Was("r0"), Was("v0"), Was("ip"), Was("lr"))
      BY <1>6, <2>4, <3>1, StepB DEF Fresh
    <3> QED
      BY <1>4, <1>6, <1>7, <2>3, <2>4, <2>6, <3>2
  <2> QED
    BY <2>5, <2>6
<1>10. One(i, z, m1) = m2
  <2>1. PICK inside : inside = CopyInside(i)
    OBVIOUS
  <2>2. PICK k \in Nat, h \in Nat : k = 8 /\ k < l /\ h = 12 /\ h < l
    OBVIOUS
  <2>3. p + k \in Nat /\ b + k = Relocated + (p + k) /\ p + k \in CopyInside(i)
    BY <2>2, Within
  <2>4. b + h = Relocated + (p + h)
    BY <2>2, Within
  <2>5. Relocated \in Int /\ Sole(code) /\ y.pos \in Int /\ d.pos \in Int
    BY <1>1, <1>6, RelocateAssumption, NoneShared DEF Finished
  <2>6. Relocated + y.pos = a8 /\ Relocated + d.pos = a12
    BY <1>3, <1>6, <2>2, <2>3, <2>4
  <2>7. a8 - Relocated \in inside
    <3>1. a8 - Relocated = p + 8
      BY <1>1, <1>3, <2>2, <2>3, <2>5
    <3> QED
      BY <2>1, <2>2, <2>3, <3>1
  <2>8. PcBase(st, a8, y.len) + y.off = a12
    <3>1. PcBase("arm", a8, 4) = a8 + 8
      BY <1>3, PcBases
    <3> QED
      BY <1>1, <1>2, <1>3, <1>6, <3>1
  <2>9. Taken(y.cond, z)
    BY <1>6 DEF Taken
  <2>10. Advance(code, Relocated, inside, M(Addr(a8), st, Was("r0"), Was("v0"), Was("ip"), lr), z) =
           Jump(M(Addr(a8 + y.len), st, Was("r0"), Was("v0"), Was("ip"), lr), Addr(d.val))
    BY <1>6, <2>5, <2>6, <2>7, <2>8, <2>9, LoadsPc
  <2>11. Jump(M(Addr(a8 + y.len), st, Was("r0"), Was("v0"), Was("ip"), lr), Addr(t)) = m2
    BY <1>2, <1>8, JumpTo
  <2> QED
    BY <1>6, <1>7, <2>1, <2>10, <2>11 DEF One
<1>11. One(i, z, m2) = m2
  <2>1. PICK u \in Int : u = t - (t % 2)
    OBVIOUS
  <2>2. m2.pc = Addr(u)
    BY <1>8, <2>1 DEF M
  <2> QED
    BY <2>1, <2>2, StaysOutside
<1>12. Copied(i, z, Fresh(b, st)) = m2
  BY <1>9, <1>10, <1>11, Runs
<1> QED
  BY <1>2, <1>4, <1>8, <1>12, Starts

\* The link register of a call leads on behind the sequence.
LEMMA CallsKept ==
  ASSUME Finished, prog.arch = "arm", NEW i, NEW it, NEW p, NEW b, NEW l, Here(i, it, p, b, l), l = 20,
         NEW z, NEW pc, NEW s, ~(pc = Addr(Till(i)) /\ s = State),
         NEW c, NEW t, CallItems(p, c, TRUE, t) \subseteq code,
         Original(i, z) = M(pc, s, Was("r0"), Was("v0"), Was("ip"), Addr(Till(i))),
         CopiedFromStart(i, z) = M(pc, s, Was("r0"), Was("v0"), Was("ip"), Addr(b + 4))
  PROVE  SameEffect(i, z)
<1>1. PICK a : a = b + 4
  OBVIOUS
<1>2. PICK lr, lk : lr = Addr(a) /\ lk /\ lk = TRUE
  OBVIOUS
<1>3. CallItems(p, c, lk, t) \subseteq code
  BY <1>2
<1>4. PICK m1, m2 : /\ m2 = M(Addr(b + 20), State, Was("r0"), Was("v0"), Was("ip"), lr)
                    /\ One(i, z, M(Addr(b + 4), State, Was("r0"), Was("v0"), Was("ip"), lr)) = m1
                    /\ One(i, z, m1) = m2 /\ One(i, z, m2) = m2
  BY <1>3, CallOver
<1>5. Copied(i, z, M(Addr(b + 4), State, Was("r0"), Was("v0"), Was("ip"), lr)) = m2
  BY <1>4, Runs
<1>6. Copied(i, z, M(Addr(a), State, Was("r0"), Was("v0"), Was("ip"), Addr(a))) =
        M(Addr(b + l), State, Was("r0"), Was("v0"), Was("ip"), Addr(a))
  BY <1>1, <1>2, <1>4, <1>5
<1>7. CopiedFromStart(i, z) = M(pc, s, Was("r0"), Was("v0"), Was("ip"), Addr(a))
  BY <1>1
<1> QED
  BY <1>6, <1>7, SameCalls

\* b and bl
LEMMA ARMBranchKept ==
  ASSUME Finished, prog.arch = "arm", NEW i, NEW it, NEW p, NEW b, NEW l, Here(i, it, p, b, l),
         CopyIs(i, it, p), it.op = "b", it.off % 4 = 0, ~InBlock(Aim(i)), Aim(i) # Till(i), NEW z
  PROVE  SameEffect(i, z)
<1>1. l = 20 /\ p \in Nat /\ b \in Int /\ it \in ItemSet /\ it.len = 4 /\ b % 4 = 0
  BY DEF Here, CopyLen, CopyIs
<1>2. PICK t \in Int : t = Aim(i)
  BY Aims
<1>3. PICK lk : lk = it.link /\ lk \in BOOLEAN
  BY <1>1 DEF ItemSet
<1>4. CallItems(p, it.cond, lk, t) \subseteq code
  BY <1>2, <1>3 DEF CopyIs, ARMCopyAt
<1>5. PICK f \in Int : f = From(i) /\ f + 4 = Till(i) /\ t # Till(i)
  BY <1>2 DEF Here
<1>6. PICK st : st = State /\ st = "arm"
  BY DEF State
<1>7. PcRead(st, f, it.len) + it.off = t
  BY <1>2, <1>5, <1>6, Aims
<1>8. t % 2 = 0 /\ t - (t % 2) = t
  <2>1. PICK d \in Int : d = it.off /\ d % 4 = 0
    BY <1>1 DEF ItemSet
  <2>2. f % 4 = 0
    BY <1>5 DEF CopyIs
  <2>3. t = f + 8 + d
    BY <1>1, <1>6, <1>7, <2>1 DEF PcRead
  <2> QED
    BY <2>1, <2>2, <2>3
<1>9. Original(i, z) = Step({}, Source, Fresh(f, st), it, f, z)
  BY <1>5, <1>6, Starts
<1>10. CASE ~Taken(it.cond, z)
  <2>1. Original(i, z) = Fresh(f + 4, st)
    BY <1>1, <1>9, <1>10, StepNext
  <2>2. PICK x \in code : x = B(p, 4, it.cond, 0, lk)
    BY <1>4 DEF CallItems
  <2>3. x.pos = p /\ x.len = 4 /\ x.cond = it.cond
    BY <2>2 DEF B, Item
  <2>4. Step(code, Relocated, Fresh(b, st), x, b, z) = Fresh(b + 4, st)
    BY <1>10, <2>3, StepNext
  <2>5. One(i, z, Fresh(b, st)) = Fresh(b + 4, st)
    <3>4. l = 20 /\ p \in Nat /\ b \in Int
      BY <1>1
    <3>1. PICK k \in Nat : k = 0 /\ k < l /\ b = b + k /\ x.pos = p + k
      BY <2>3, <3>4
    <3>2. Fresh(b, st).pc = Addr(b)
      BY DEF Fresh, M
    <3>3. One(i, z, Fresh(b, st)) = Step(code, Relocated, Fresh(b, st), x, b, z)
      BY <1>1, <3>1, <3>2, AtItem
    <3> QED
      BY <2>4, <3>3
  <2>6. PICK m1, m2 : /\ m2 = M(Addr(b + 20), State, Was("r0"), Was("v0"), Was("ip"), Was("lr"))
                      /\ One(i, z, M(Addr(b + 4), State, Was("r0"), Was("v0"), Was("ip"), Was("lr"))) = m1
                      /\ One(i, z, m1) = m2 /\ One(i, z, m2) = m2
    BY <1>1, <1>4, CallOver
  <2>7. One(i, z, Fresh(b + 4, st)) = m1
    BY <1>6, <2>6 DEF Fresh
  <2>8. Copied(i, z, Fresh(b, st)) = m2
    BY <2>5, <2>6, <2>7, Runs
  <2>9. CopiedFromStart(i, z) = M(Addr(b + l), State, Was("r0"), Was("v0"), Was("ip"), Was("lr"))
    BY <1>1, <1>6, <2>6, <2>8, Starts
  <2>10. Original(i, z) = M(Addr(Till(i)), State, Was("r0"), Was("v0"), Was("ip"), Was("lr"))
    BY <1>5, <1>6, <2>1 DEF Fresh
  <2> QED
    BY <2>9, <2>10, SameFalls
<1>11. CASE Taken(it.cond, z)
  <2>1. CopiedFromStart(i, z) =
          M(Addr(t), st, Was("r0"), Was("v0"), Was("ip"), IF lk THEN Addr(b + 4) ELSE Was("lr"))
    <3>1. ~InBlock(t - (t % 2))
      BY <1>2, <1>8
    <3>2. CopiedFromStart(i, z) =
            M(Addr(t - (t % 2)), IF t % 2 = 1 THEN "thumb" ELSE "arm", Was("r0"), Was("v0"), Was("ip"),
              IF lk THEN Addr(b + 4) ELSE Was("lr"))
      BY <1>1, <1>4, <1>11, <3>1, CallRuns
    <3> QED
      BY <1>6, <1>8, <3>2
  <2>2. Addr(t) # Addr(Till(i))
    BY <1>5 DEF Addr
  <2>3. CASE lk
    <3>5. it.link
      BY <1>3, <2>3
    <3>1. Step({}, Source, Fresh(f, st), it, f, z) =
            M(Addr(PcRead(st, f, it.len) + it.off), st, Was("r0"), Was("v0"), Was("ip"), Addr(f + it.len))
      BY <1>11, <3>5, StepBl DEF Fresh
    <3>2. Original(i, z) = M(Addr(t), st, Was("r0"), Was("v0"), Was("ip"), Addr(Till(i)))
      BY <1>1, <1>5, <1>7, <1>9, <3>1
    <3>3. CopiedFromStart(i, z) = M(Addr(t), st, Was("r0"), Was("v0"), Was("ip"), Addr(b + 4))
      BY <2>1, <2>3
    <3>4. CallItems(p, it.cond, TRUE, t) \subseteq code
      <4>1. lk = TRUE
        BY <1>3, <2>3
      <4> QED
        BY <1>4, <4>1
    <3> QED
      BY <1>1, <2>2, <3>2, <3>3, <3>4, CallsKept
  <2>4. CASE ~lk
    <3>5. ~it.link
      BY <1>3, <2>4
    <3>1. Step({}, Source, Fresh(f, st), it, f, z) =
            M(Addr(PcRead(st, f, it.len) + it.off), st, Was("r0"), Was("v0"), Was("ip"), Was("lr"))
      BY <1>11, <3>5, StepB DEF Fresh
    <3>2. Original(i, z) = M(Addr(t), st, Was("r0"), Was("v0"), Was("ip"), Was("lr"))
      BY <1>7, <1>9, <3>1
    <3>3. CopiedFromStart(i, z) = M(Addr(t), st, Was("r0"), Was("v0"), Was("ip"), Was("lr"))
      BY <2>1, <2>4
    <3> QED
      BY <2>2, <3>2, <3>3, SameLeaves
  <2> QED
    BY <2>3, <2>4
<1> QED
  BY <1>10, <1>11

LEMMA Rounded ==
  ASSUME NEW f \in Int, NEW e \in Int, NEW r \in 0..3, f % 4 = 0, e % 4 = 0
  PROVE  (f + 8 + e + r) % 4 = r /\ (f + 8 + e + 1) % 2 = 1
<1>1. PICK j \in Int, k \in Int : f = 4 * j /\ e = 4 * k
  <2>1. f = 4 * (f \div 4) /\ e = 4 * (e \div 4)
    OBVIOUS
  <2> QED
    BY <2>1
<1>2. f + 8 + e + r = 4 * (j + 2 + k) + r /\ f + 8 + e + 1 = 2 * (2 * (j + 2 + k)) + 1
  BY <1>1
<1> QED
  BY <1>2

\* blx: the offset is rounded to a word, and the target may be the halfword behind it.
LEMMA ARMBlxKept ==
  ASSUME Finished, prog.arch = "arm", NEW i, NEW it, NEW p, NEW b, NEW l, Here(i, it, p, b, l),
         CopyIs(i, it, p), it.op = "blx", it.cond = "al", it.link, ~InBlock(AlignFloor(Aim(i), 4)), NEW z
  PROVE  SameEffect(i, z) <=> it.off % 4 = 0
<1>1. l = 20 /\ p \in Nat /\ b \in Int /\ it \in ItemSet /\ it.len = 4 /\ b % 4 = 0
  BY DEF Here, CopyLen, CopyIs
<1>2. PICK g \in Int : g = Aim(i)
  BY Aims
<1>3. PICK f \in Int, d \in Int : f = From(i) /\ f + 4 = Till(i) /\ d = it.off /\ f % 4 = 0
  BY <1>1 DEF Here, CopyIs, ItemSet
<1>4. PICK st : st = State /\ st = "arm"
  BY DEF State
<1>5. PcBase(st, f, it.len) + it.off = g /\ g = f + 8 + d
  <2>1. PcBase(st, f, it.len) + it.off = g /\ PcRead(st, f, it.len) + it.off = g
    BY <1>2, <1>3, <1>4, Aims
  <2> QED
    BY <1>1, <1>3, <1>4, <2>1 DEF PcRead
<1>6. PICK t \in Int : t = f + 8 + AlignFloor(d, 4) + 1
  BY DEF AlignFloor
<1>7. PICK u \in Int : u = t - (t % 2) /\ t % 2 = 1 /\ u = AlignFloor(g, 4) /\ (u = g <=> d % 4 = 0)
  <2>1. t % 2 = 1 /\ t - (t % 2) = AlignFloor(g, 4) /\ (AlignFloor(g, 4) = g <=> d % 4 = 0)
    <3>1. PICK r \in 0..3, e \in Int : r = d % 4 /\ e = d - r /\ e % 4 = 0
      BY <1>3
    <3>2. AlignFloor(d, 4) = e
      BY <3>1 DEF AlignFloor
    <3>6. f \in Int /\ e \in Int /\ r \in 0..3 /\ f % 4 = 0 /\ e % 4 = 0
      BY <1>3, <3>1
    <3>7. (f + 8 + e + r) % 4 = r /\ (f + 8 + e + 1) % 2 = 1
      BY <3>6, Rounded
    <3>8. g = f + 8 + e + r
      BY <1>3, <1>5, <3>1
    <3>3. g % 4 = r
      BY <3>7, <3>8
    <3>4. AlignFloor(g, 4) = f + 8 + e
      BY <1>3, <1>5, <3>1, <3>3 DEF AlignFloor
    <3>5. t = f + 8 + e + 1 /\ t % 2 = 1
      BY <1>3, <1>6, <3>2, <3>7
    <3>9. t - (t % 2) = f + 8 + e
      BY <3>5, <3>6
    <3>10. AlignFloor(g, 4) = g <=> r = 0
      BY <3>4, <3>6, <3>8
    <3> QED
      BY <3>1, <3>4, <3>5, <3>9, <3>10
  <2> QED
    BY <2>1
<1>8. PICK lk : lk = TRUE
  OBVIOUS
<1>9. CallItems(p, "al", lk, t) \subseteq code
  BY <1>3, <1>6, <1>8 DEF CopyIs, ARMCopyAt
<1>10. Original(i, z) = M(Addr(g), "thumb", Was("r0"), Was("v0"), Was("ip"), Addr(Till(i)))
  <2>1. Original(i, z) = Step({}, Source, Fresh(f, st), it, f, z)
    BY <1>3, <1>4, Starts
  <2>2. Taken(it.cond, z)
    BY DEF Taken
  <2>3. Step({}, Source, Fresh(f, st), it, f, z) =
          M(Addr(PcBase(st, f, it.len) + it.off), IF st = "arm" THEN "thumb" ELSE "arm",
            Was("r0"), Was("v0"), Was("ip"), Addr(f + it.len))
    BY <2>2, StepBlx DEF Fresh
  <2> QED
    BY <1>1, <1>3, <1>4, <1>5, <2>1, <2>3
<1>11. CopiedFromStart(i, z) = M(Addr(u), "thumb", Was("r0"), Was("v0"), Was("ip"), Addr(b + 4))
  <2>1. ~InBlock(t - (t % 2)) /\ Taken("al", z)
    BY <1>2, <1>7 DEF Taken
  <2>2. CopiedFromStart(i, z) =
          M(Addr(t - (t % 2)), IF t % 2 = 1 THEN "thumb" ELSE "arm", Was("r0"), Was("v0"), Was("ip"),
            IF lk THEN Addr(b + 4) ELSE Was("lr"))
    BY <1>1, <1>9, <2>1, CallRuns
  <2> QED
    BY <1>7, <1>8, <2>2
<1>12. CASE d % 4 = 0
  <2>1. ~(Addr(g) = Addr(Till(i)) /\ "thumb" = State)
    BY <1>4
  <2>2. CopiedFromStart(i, z) = M(Addr(g), "thumb", Was("r0"), Was("v0"), Was("ip"), Addr(b + 4))
    BY <1>7, <1>11, <1>12
  <2>3. CallItems(p, "al", TRUE, t) \subseteq code
    BY <1>8, <1>9
  <2>4. SameEffect(i, z)
    BY <1>1, <1>10, <2>1, <2>2, <2>3, CallsKept
  <2> QED
    BY <1>3, <1>12, <2>4
<1>13. CASE d % 4 # 0
  <2>1. /\ Original(i, z).pc = Addr(g) /\ Original(i, z).st = "thumb" /\ State = "arm"
        /\ CopiedFromStart(i, z).pc = Addr(u)
    BY <1>4, <1>10, <1>11 DEF M
  <2>2. Addr(g) # Addr(u)
    BY <1>7, <1>13 DEF Addr
  <2>3. ~SameEffect(i, z)
    BY <2>1, <2>2 DEF SameEffect
  <2> QED
    BY <1>3, <1>13, <2>3
<1> QED
  BY <1>12, <1>13

\* A condition that does not hold, and one that does.
LEMMA SomeTaken ==
  ASSUME NEW c \in Conds
  PROVE  /\ \E z \in BOOLEAN : Taken(c, z)
         /\ c # "al" => \E z \in BOOLEAN : ~Taken(c, z)
<1>1. Taken("al", TRUE) /\ Taken("cc", TRUE) /\ ~Taken("cc", FALSE) /\ Taken("nc", FALSE) /\ ~Taken("nc", TRUE)
  BY DEF Taken
<1> QED
  BY <1>1 DEF Conds

\* A jump to what memory holds.
LEMMA JumpMem ==
  ASSUME NEW pc, NEW r0, NEW v0, NEW ip, NEW lr, NEW v, v[1] # "addr"
  PROVE  Jump(M(pc, "arm", r0, v0, ip, lr), v) = M(v, "mem", r0, v0, ip, lr)
  BY DEF Jump, M

\* What the original does.
LEMMA ARMLdrOriginal ==
  ASSUME Finished, prog.arch = "arm", NEW i, NEW it, NEW p, NEW b, NEW l, Here(i, it, p, b, l),
         CopyIs(i, it, p), it.op = "ldr", ~it.link, it.rt \in {"r0", "v0", "pc"}, NEW z
  PROVE  /\ ~Taken(it.cond, z) => Original(i, z) = Fresh(Till(i), "arm")
         /\ Taken(it.cond, z) /\ it.rt # "pc" =>
              Original(i, z) = SetTo(Addr(Till(i)), "arm", it.rt, <<"mem", Aim(i), it.w>>)
         /\ Taken(it.cond, z) /\ it.rt = "pc" =>
              Original(i, z) =
                M(<<"mem", Aim(i), it.w>>, "mem", Was("r0"), Was("v0"), Was("ip"), Was("lr"))
<1>1. it.len = 4
  BY DEF Here
<1>2. PICK t, v : t = Aim(i) /\ v = <<"mem", t, it.w>> /\ v[1] # "addr"
  BY MemIs
<1>3. PICK f \in Int : f = From(i) /\ f + 4 = Till(i)
  BY DEF Here
<1>4. PICK st : st = State /\ st = "arm"
  BY DEF State
<1>5. Original(i, z) = Step({}, Source, Fresh(f, st), it, f, z)
  BY <1>3, <1>4, Starts
<1>6. CASE ~Taken(it.cond, z)
  BY <1>1, <1>3, <1>4, <1>5, <1>6, StepNext
<1>7. CASE Taken(it.cond, z)
  <2>1. Step({}, Source, Fresh(f, st), it, f, z) =
          SetReg(Fresh(f + it.len, st), it.rt, Fetch({}, Source, PcBase(st, f, it.len) + it.off, it.w))
    BY <1>7, StepLdr DEF Fresh
  <2>2. PcBase(st, f, it.len) + it.off = t
    BY <1>2, <1>3, <1>4, Aims
  <2>3. Fetch({}, Source, t, it.w) = v
    BY <1>2, NoCode, FetchMem
  <2>4. Original(i, z) = SetReg(Fresh(f + 4, st), it.rt, v)
    BY <1>1, <1>5, <2>1, <2>2, <2>3
  <2>5. CASE it.rt # "pc"
    BY <1>2, <1>3, <1>4, <1>7, <2>4, <2>5, SetToIs
  <2>6. CASE it.rt = "pc"
    <3>1. SetReg(Fresh(f + 4, st), "pc", v) = Jump(Fresh(f + 4, st), v)
      BY Sets DEF Fresh
    <3>2. Jump(Fresh(f + 4, st), v) = M(v, "mem", Was("r0"), Was("v0"), Was("ip"), Was("lr"))
      BY <1>2, <1>4, JumpMem DEF Fresh
    <3> QED
      BY <1>2, <1>7, <2>4, <2>6, <3>1, <3>2
  <2> QED
    BY <2>5, <2>6
<1> QED
  BY <1>6, <1>7

\* A register that was set: r is v in r0 and v0.
Holds(st, r, v, r0, v0) ==
  \A pc, w : /\ SetTo(pc, st, r, v) = M(pc, st, r0, v0, Was("ip"), Was("lr"))
             /\ M(pc, st, r0, v0, Was("ip"), Was("lr"))[r] = v
             /\ SetReg(M(pc, st, r0, v0, Was("ip"), Was("lr")), r, w) = SetTo(pc, st, r, w)

LEMMA SetAgain ==
  ASSUME NEW st, NEW r \in {"r0", "v0"}, NEW v
  PROVE  \E r0, v0 : Holds(st, r, v, r0, v0)
<1>1. CASE r = "r0"
  <2>1. ASSUME NEW pc, NEW w
        PROVE  /\ SetTo(pc, st, r, v) = M(pc, st, v, Was("v0"), Was("ip"), Was("lr"))
               /\ M(pc, st, v, Was("v0"), Was("ip"), Was("lr"))[r] = v
               /\ SetReg(M(pc, st, v, Was("v0"), Was("ip"), Was("lr")), r, w) = SetTo(pc, st, r, w)
    <3>1. SetTo(pc, st, r, v) = M(pc, st, v, Was("v0"), Was("ip"), Was("lr"))
      BY <1>1 DEF SetTo
    <3>2. M(pc, st, v, Was("v0"), Was("ip"), Was("lr"))[r] = v
      BY <1>1 DEF M
    <3>3. SetReg(M(pc, st, v, Was("v0"), Was("ip"), Was("lr")), r, w) = SetTo(pc, st, r, w)
      BY <1>1, Sets DEF SetTo
    <3> QED
      BY <3>1, <3>2, <3>3
  <2> QED
    BY <2>1 DEF Holds
<1>2. CASE r = "v0"
  <2>1. ASSUME NEW pc, NEW w
        PROVE  /\ SetTo(pc, st, r, v) = M(pc, st, Was("r0"), v, Was("ip"), Was("lr"))
               /\ M(pc, st, Was("r0"), v, Was("ip"), Was("lr"))[r] = v
               /\ SetReg(M(pc, st, Was("r0"), v, Was("ip"), Was("lr")), r, w) = SetTo(pc, st, r, w)
    <3>1. SetTo(pc, st, r, v) = M(pc, st, Was("r0"), v, Was("ip"), Was("lr"))
      BY <1>2 DEF SetTo
    <3>2. M(pc, st, Was("r0"), v, Was("ip"), Was("lr"))[r] = v
      BY <1>2 DEF M
    <3>3. SetReg(M(pc, st, Was("r0"), v, Was("ip"), Was("lr")), r, w) = SetTo(pc, st, r, w)
      BY <1>2, Sets DEF SetTo
    <3> QED
      BY <3>1, <3>2, <3>3
  <2> QED
    BY <2>1 DEF Holds
<1> QED
  BY <1>1, <1>2

\* What the copy does.
LEMMA ARMLdrCopied ==
  ASSUME Finished, prog.arch = "arm", NEW i, NEW it, NEW p, NEW b, NEW l, Here(i, it, p, b, l),
         CopyIs(i, it, p), it.op = "ldr", ~it.link, it.rt \in {"r0", "v0", "pc"},
         ~InBlock(Aim(i)), ~IsKey(Aim(i)), NEW z
  PROVE  /\ it.rt # "pc" => CopiedFromStart(i, z) = SetTo(Addr(b + l), "arm", it.rt, <<"mem", Aim(i), 4>>)
         /\ it.rt = "pc" =>
              CopiedFromStart(i, z) =
                M(<<"mem", Aim(i), 4>>, "mem", Was("r0"), Was("v0"), Addr(Aim(i)), Was("lr"))
<1>1. l = 8 /\ p \in Nat /\ b \in Int /\ it.len = 4
  BY DEF Here, CopyLen
<1>2. PICK t \in Int : t = Aim(i)
  BY Aims
<1>3. PICK v : v = <<"mem", t, 4>> /\ v[1] # "addr"
  BY MemIs
<1>4. PICK st : st = State /\ st = "arm"
  BY DEF State
<1>5. PICK s : s = ScratchFor(it.rt)
  OBVIOUS
<1>6. PICK y \in code : y = Ldm(p + 4, 4, it.rt, s, 4)
  BY <1>5 DEF CopyIs, ARMCopyAt
<1>7. /\ y.pos = p + 4 /\ y.len = 4 /\ y.op = "ldm" /\ y.rt = it.rt /\ y.rn = s /\ y.w = 4 /\ y.cond = "al"
  BY <1>6 DEF Ldm, Item
<1>8. PICK j \in Nat, a \in Int : j = 4 /\ j < l /\ a = b + j /\ y.pos = p + j
  BY <1>1, <1>7
<1>9. One(i, z, Fresh(b, st)) = SetReg(Fresh(a, st), s, Addr(t))
  <2>1. PICK k \in Nat : k = 0 /\ k < l
    BY <1>1
  <2>2. p + k \in Nat /\ b + k = Relocated + (p + k) /\ p + k \in CopyInside(i)
    BY <2>1, Within
  <2>3. p + k = p /\ b + k = b
    BY <1>1, <2>1
  <2>4. p \in Nat /\ b \in Int /\ b = Relocated + p /\ p \in CopyInside(i)
    BY <1>1, <2>2, <2>3
  <2>5. Loads(p, s, t)
    BY <1>2, <1>5 DEF CopyIs, ARMCopyAt
  <2>6. b % 4 = 0
    BY <2>4 DEF CopyIs
  <2>7. One(i, z, Fresh(b, st)) = SetReg(Fresh(b + 4, st), s, Addr(t))
    BY <1>2, <1>4, <2>4, <2>5, <2>6, LoadStep
  <2> QED
    BY <1>8, <2>7
<1>10. NoData(code, Relocated, t) /\ Taken(y.cond, z)
  BY <1>2, <1>7, Outside DEF Taken
<1>11. a + y.len = b + l
  BY <1>1, <1>7, <1>8
<1>12. CASE it.rt # "pc"
  <2>1. s = it.rt /\ s \in {"r0", "v0"}
    BY <1>5, <1>12 DEF ScratchFor
  <2>10. PICK u : u = Addr(t)
    OBVIOUS
  <2>11. PICK r0, v0 : Holds(st, s, u, r0, v0)
    BY <2>1, SetAgain
  <2>2. \A pc, w : /\ SetTo(pc, st, s, u) = M(pc, st, r0, v0, Was("ip"), Was("lr"))
                   /\ M(pc, st, r0, v0, Was("ip"), Was("lr"))[s] = u
                   /\ SetReg(M(pc, st, r0, v0, Was("ip"), Was("lr")), s, w) = SetTo(pc, st, s, w)
    BY <2>11 DEF Holds
  <2>3. SetReg(M(Addr(b + l), st, r0, v0, Was("ip"), Was("lr")), s, v) = SetTo(Addr(b + l), st, s, v)
    BY <2>2
  <2>4. PICK m1 : m1 = M(Addr(a), st, r0, v0, Was("ip"), Was("lr"))
    OBVIOUS
  <2>5. PICK m2 : m2 = SetTo(Addr(b + l), st, s, v)
    OBVIOUS
  <2>6. One(i, z, Fresh(b, st)) = m1
    BY <1>9, <2>1, <2>2, <2>4, <2>10, SetToIs
  <2>7. One(i, z, m1) = m2
    <3>1. m1.pc = Addr(a)
      BY <2>4 DEF M
    <3>2. One(i, z, m1) = Step(code, Relocated, m1, y, a, z)
      BY <1>8, <3>1, AtItem
    <3>3. Step(code, Relocated, m1, y, a, z) =
            SetReg(M(Addr(a + y.len), st, r0, v0, Was("ip"), Was("lr")), y.rt, <<"mem", t, y.w>>)
      <4>1. M(Addr(a), st, r0, v0, Was("ip"), Was("lr"))[y.rn] = Addr(t)
        BY <1>7, <2>2, <2>10
      <4> QED
        BY <1>7, <1>10, <2>4, <4>1, StepLdmMem
    <3> QED
      BY <1>3, <1>7, <1>11, <2>1, <2>3, <2>5, <3>2, <3>3
  <2>8. m2.pc = Addr(b + l)
    BY <2>5 DEF SetTo, M
  <2>9. Copied(i, z, Fresh(b, st)) = m2
    BY <2>6, <2>7, <2>8, StaysBehind, Runs
  <2> QED
    BY <1>2, <1>3, <1>4, <1>12, <2>1, <2>5, <2>9, Starts
<1>13. CASE it.rt = "pc"
  <2>1. s = "ip"
    BY <1>5, <1>13 DEF ScratchFor
  <2>2. PICK m1 : m1 = M(Addr(a), st, Was("r0"), Was("v0"), Addr(t), Was("lr"))
    OBVIOUS
  <2>3. PICK m2 : m2 = M(v, "mem", Was("r0"), Was("v0"), Addr(t), Was("lr"))
    OBVIOUS
  <2>4. One(i, z, Fresh(b, st)) = m1
    BY <1>9, <2>1, <2>2, Sets DEF Fresh
  <2>5. One(i, z, m1) = m2
    <3>1. m1.pc = Addr(a) /\ m1[y.rn] = Addr(t)
      BY <1>7, <2>1, <2>2 DEF M
    <3>2. One(i, z, m1) = Step(code, Relocated, m1, y, a, z)
      BY <1>8, <3>1, AtItem
    <3>3. Step(code, Relocated, m1, y, a, z) =
            SetReg(M(Addr(a + y.len), st, Was("r0"), Was("v0"), Addr(t), Was("lr")), y.rt, <<"mem", t, y.w>>)
      BY <1>7, <1>10, <2>2, <3>1, StepLdmMem
    <3>4. SetReg(M(Addr(a + y.len), st, Was("r0"), Was("v0"), Addr(t), Was("lr")), "pc", v) = m2
      BY <1>3, <1>4, <2>3, Sets, JumpMem
    <3> QED
      BY <1>3, <1>7, <1>13, <3>2, <3>3, <3>4
  <2>6. m2.pc[1] # "addr"
    BY <1>3, <2>3 DEF M
  <2>7. Copied(i, z, Fresh(b, st)) = m2
    BY <2>4, <2>5, <2>6, StaysAway, Runs
  <2> QED
    BY <1>2, <1>3, <1>4, <1>13, <2>3, <2>7, Starts
<1> QED
  BY <1>12, <1>13

\* ldr: the copy is executed whatever the condition says, and loads a word.
LEMMA ARMLdrKept ==
  ASSUME Finished, prog.arch = "arm", NEW i, NEW it, NEW p, NEW b, NEW l, Here(i, it, p, b, l),
         CopyIs(i, it, p), it.op = "ldr", ~it.link, it.rt \in {"r0", "v0", "pc"},
         ~InBlock(Aim(i)), ~IsKey(Aim(i))
  PROVE  (\A z \in BOOLEAN : SameEffect(i, z)) <=> it.cond = "al" /\ it.w = 4
<1>1. it.cond \in Conds /\ State = "arm"
  BY DEF Here, ItemSet, State
<1>2. PICK t : t = Aim(i)
  OBVIOUS
<1>3. PICK w, v : w = <<"mem", t, it.w>> /\ v = <<"mem", t, 4>>
  OBVIOUS
<1>4. ASSUME NEW z
      PROVE  /\ it.rt # "pc" => CopiedFromStart(i, z) = SetTo(Addr(b + l), "arm", it.rt, v)
             /\ it.rt = "pc" =>
                  CopiedFromStart(i, z) = M(v, "mem", Was("r0"), Was("v0"), Addr(t), Was("lr"))
  BY <1>2, <1>3, ARMLdrCopied
<1>5. ASSUME NEW z
      PROVE  /\ ~Taken(it.cond, z) => Original(i, z) = Fresh(Till(i), "arm")
             /\ Taken(it.cond, z) /\ it.rt # "pc" => Original(i, z) = SetTo(Addr(Till(i)), "arm", it.rt, w)
             /\ Taken(it.cond, z) /\ it.rt = "pc" =>
                  Original(i, z) = M(w, "mem", Was("r0"), Was("v0"), Was("ip"), Was("lr"))
  BY <1>2, <1>3, ARMLdrOriginal
<1>6. v # Was("r0") /\ v # Was("v0") /\ v # Addr(Till(i)) /\ v # Addr(Relocated + CopyTill(i))
  BY <1>3, MemIs
<1>7. CASE it.cond # "al"
  <2>1. PICK z \in BOOLEAN : ~Taken(it.cond, z)
    BY <1>1, <1>7, SomeTaken
  <2>2. Original(i, z) = Fresh(Till(i), "arm")
    BY <1>5, <2>1
  <2>3. CASE it.rt \in {"r0", "v0"}
    <3>1. Original(i, z)[it.rt] = Was(it.rt)
      BY <2>2, <2>3 DEF Fresh, M
    <3>2. CopiedFromStart(i, z) = SetTo(Addr(b + l), "arm", it.rt, v)
      BY <1>4, <2>3
    <3>3. CopiedFromStart(i, z)[it.rt] = v
      BY <2>3, <3>2 DEF SetTo, M
    <3>4. ~SameEffect(i, z)
      BY <1>6, <2>3, <3>1, <3>3 DEF SameEffect
    <3> QED
      BY <1>7, <3>4
  <2>4. CASE it.rt = "pc"
    <3>1. Original(i, z).pc = Addr(Till(i)) /\ Original(i, z).st = State
      BY <1>1, <2>2 DEF Fresh, M
    <3>2. CopiedFromStart(i, z).pc = v
      BY <1>4, <2>4 DEF M
    <3>3. ~AtEnd(i, CopiedFromStart(i, z))
      BY <1>6, <3>2 DEF AtEnd
    <3>4. ~SameEffect(i, z)
      BY <3>1, <3>3 DEF SameEffect
    <3> QED
      BY <1>7, <3>4
  <2> QED
    BY <2>3, <2>4
<1>8. CASE it.w # 4
  <2>1. PICK z \in BOOLEAN : Taken(it.cond, z)
    BY <1>1, SomeTaken
  <2>2. w # v
    BY <1>3, <1>8, MemIs
  <2>3. CASE it.rt \in {"r0", "v0"}
    <3>1. Original(i, z) = SetTo(Addr(Till(i)), "arm", it.rt, w)
      BY <1>5, <2>1, <2>3
    <3>2. CopiedFromStart(i, z) = SetTo(Addr(b + l), "arm", it.rt, v)
      BY <1>4, <2>3
    <3>3. Original(i, z)[it.rt] = w /\ CopiedFromStart(i, z)[it.rt] = v
      BY <2>3, <3>1, <3>2 DEF SetTo, M
    <3>4. ~SameEffect(i, z)
      BY <2>2, <2>3, <3>3 DEF SameEffect
    <3> QED
      BY <1>8, <3>4
  <2>4. CASE it.rt = "pc"
    <3>1. Original(i, z).pc = w /\ w # Addr(Till(i))
      BY <1>3, <1>5, <2>1, <2>4, MemIs DEF M
    <3>2. CopiedFromStart(i, z).pc = v
      BY <1>4, <2>4 DEF M
    <3>3. ~SameEffect(i, z)
      BY <2>2, <3>1, <3>2 DEF SameEffect
    <3> QED
      BY <1>8, <3>3
  <2> QED
    BY <2>3, <2>4
<1>9. CASE it.cond = "al" /\ it.w = 4
  <2>1. w = v
    BY <1>3, <1>9
  <2>2. ASSUME NEW z
        PROVE  SameEffect(i, z)
    <3>1. Taken(it.cond, z)
      BY <1>9 DEF Taken
    <3>2. CASE it.rt \in {"r0", "v0"}
      <4>1. Original(i, z) = SetTo(Addr(Till(i)), "arm", it.rt, v)
        BY <1>5, <2>1, <3>1, <3>2
      <4>2. CopiedFromStart(i, z) = SetTo(Addr(b + l), "arm", it.rt, v)
        BY <1>4, <3>2
      <4>3. PICK r0, v0 : \A pc : SetTo(pc, "arm", it.rt, v) = M(pc, "arm", r0, v0, Was("ip"), Was("lr"))
        BY DEF SetTo
      <4>4. Original(i, z) = M(Addr(Till(i)), State, r0, v0, Was("ip"), Was("lr"))
        BY <1>1, <4>1, <4>3
      <4>5. CopiedFromStart(i, z) = M(Addr(b + l), State, r0, v0, Was("ip"), Was("lr"))
        BY <1>1, <4>2, <4>3
      <4> QED
        BY <4>4, <4>5, SameFalls
    <3>3. CASE it.rt = "pc"
      <4>1. Original(i, z) = M(v, "mem", Was("r0"), Was("v0"), Was("ip"), Was("lr"))
        BY <1>5, <2>1, <3>1, <3>3
      <4>2. CopiedFromStart(i, z) = M(v, "mem", Was("r0"), Was("v0"), Addr(t), Was("lr"))
        BY <1>4, <3>3
      <4> QED
        BY <1>6, <4>1, <4>2, SameLeaves
    <3> QED
      BY <3>2, <3>3
  <2> QED
    BY <1>9, <2>2
<1> QED
  BY <1>7, <1>8, <1>9

\* adr: the copy is executed whatever the condition says.
LEMMA ARMAdrKept ==
  ASSUME Finished, prog.arch = "arm", NEW i, NEW it, NEW p, NEW b, NEW l, Here(i, it, p, b, l),
         CopyIs(i, it, p), it.op = "adr", it.rt \in {"r0", "v0"}, ~IsKey(Aim(i))
  PROVE  (\A z \in BOOLEAN : SameEffect(i, z)) <=> it.cond = "al"
<1>1. l = 4 /\ p \in Nat /\ b \in Int /\ it.len = 4 /\ it.cond \in Conds
  BY DEF Here, CopyLen, ItemSet
<1>2. PICK t : t = Aim(i)
  OBVIOUS
<1>3. PICK v : v = Addr(t)
  OBVIOUS
<1>4. PICK st : st = State
  OBVIOUS
<1>5. PICK f \in Int : f = From(i) /\ f + 4 = Till(i)
  BY DEF Here
<1>6. ASSUME NEW z
      PROVE  CopiedFromStart(i, z) = SetTo(Addr(b + 4), st, it.rt, v)
  <2>1. PICK k \in Nat : k = 0 /\ k < l
    BY <1>1
  <2>2. p + k \in Nat /\ b + k = Relocated + (p + k) /\ p + k \in CopyInside(i)
    BY <2>1, Within
  <2>3. p + k = p /\ b + k = b
    BY <1>1, <2>1
  <2>4. p \in Nat /\ b \in Int /\ b = Relocated + p /\ p \in CopyInside(i)
    BY <1>1, <2>2, <2>3
  <2>5. Loads(p, it.rt, t) /\ b % 4 = 0
    BY <1>2, <2>4 DEF CopyIs, ARMCopyAt
  <2>6. One(i, z, Fresh(b, State)) = SetReg(Fresh(b + 4, State), it.rt, Addr(t))
    BY <1>2, <2>4, <2>5, LoadStep
  <2>7. PICK m : m = SetTo(Addr(b + 4), st, it.rt, v)
    OBVIOUS
  <2>8. One(i, z, Fresh(b, State)) = m
    BY <1>3, <1>4, <2>6, <2>7, SetToIs
  <2>9. m.pc = Addr(b + l)
    BY <1>1, <2>7 DEF SetTo, M
  <2>10. One(i, z, m) = m
    BY <2>9, StaysBehind
  <2>11. Copied(i, z, Fresh(b, State)) = m
    BY <2>8, <2>10, Runs
  <2> QED
    BY <2>7, <2>11, Starts
<1>7. ASSUME NEW z
      PROVE  Original(i, z) = Step({}, Source, Fresh(f, st), it, f, z)
  BY <1>4, <1>5, Starts
<1>8. CASE it.cond # "al"
  <2>1. PICK z \in BOOLEAN : ~Taken(it.cond, z)
    BY <1>1, <1>8, SomeTaken
  <2>2. Original(i, z) = Fresh(f + 4, st)
    BY <1>1, <1>7, <2>1, StepNext
  <2>3. Original(i, z)[it.rt] = Was(it.rt)
    BY <2>2 DEF Fresh, M
  <2>4. CopiedFromStart(i, z)[it.rt] = v
    BY <1>6 DEF SetTo, M
  <2>5. v # Was(it.rt)
    BY <1>3, Distinct
  <2>6. ~SameEffect(i, z)
    BY <2>3, <2>4, <2>5 DEF SameEffect
  <2> QED
    BY <1>8, <2>6
<1>9. CASE it.cond = "al"
  <2>1. ASSUME NEW z
        PROVE  SameEffect(i, z)
    <3>1. Taken(it.cond, z)
      BY <1>9 DEF Taken
    <3>2. PcBase(st, f, it.len) + it.off = t
      BY <1>2, <1>4, <1>5, Aims
    <3>3. Step({}, Source, Fresh(f, st), it, f, z) =
            SetReg(Fresh(f + it.len, st), it.rt, Addr(PcBase(st, f, it.len) + it.off))
      BY <3>1, StepAdr DEF Fresh
    <3>4. Original(i, z) = SetTo(Addr(f + 4), st, it.rt, v)
      BY <1>1, <1>3, <1>7, <3>2, <3>3, SetToIs
    <3>5. PICK r0, v0 : \A pc : SetTo(pc, st, it.rt, v) = M(pc, st, r0, v0, Was("ip"), Was("lr"))
      BY DEF SetTo
    <3>6. Original(i, z) = M(Addr(Till(i)), State, r0, v0, Was("ip"), Was("lr"))
      BY <1>4, <1>5, <3>4, <3>5
    <3>7. CopiedFromStart(i, z) = M(Addr(b + l), State, r0, v0, Was("ip"), Was("lr"))
      BY <1>1, <1>4, <1>6, <3>5
    <3> QED
      BY <3>6, <3>7, SameFalls
  <2> QED
    BY <1>9, <2>1
<1> QED
  BY <1>8, <1>9
-----------------------------------------------------------------------------
(* Every A32 and A64 instruction. *)

\* The instructions the functions consist of: their operands are registers a compiler
\* keeps values in, never the scratch register; those of A64 but the branch are not
\* conditional; A32 branches to words.
PlainForm(it) == it.op \in Plain /\ PlainRegs(it)
BranchForm(it) ==
  it.op = "b" /\ (IF prog.arch = "arm" THEN it.off % 4 = 0 ELSE (it.cond = "al" /\ it.val = 0) \/ ~it.link)
BlxForm(it) == it.op = "blx" /\ prog.arch = "arm" /\ it.cond = "al" /\ it.link
LiteralForm(it) ==
  /\ it.op = "ldr" /\ ~it.link
  /\ it.rt \in (IF prog.arch = "arm" THEN {"r0", "v0", "pc"} ELSE {"r0", "v0"})
  /\ prog.arch = "a64" => it.cond = "al"
AddressForm(it) ==
  /\ it.op \in (IF prog.arch = "arm" THEN {"adr"} ELSE {"adr", "adrp"}) /\ it.rt \in {"r0", "v0"}
  /\ prog.arch = "a64" => it.cond = "al"

Ordinary(it) ==
  \/ PlainForm(it) \/ BranchForm(it) \/ BlxForm(it) \/ LiteralForm(it) \/ AddressForm(it)

\* Instruction i leads or reads nowhere in the block that was written, a branch goes farther
\* than the next instruction, and RelocLabelFixup does not take the label for an offset.
Foreign(i) ==
  LET it == prog.insns[i]
  IN /\ it.op \in {"b", "ldr"} => ~InBlock(Aim(i))
     /\ it.op = "b" => Aim(i) # Till(i)
     /\ it.op = "blx" => ~InBlock(AlignFloor(Aim(i), 4))
     /\ prog.arch = "arm" /\ it.op \in {"ldr", "adr"} => ~IsKey(Aim(i))

LEMMA EffectAt ==
  ASSUME Finished, NEW i \in DOMAIN offs, Ordinary(prog.insns[i]), Foreign(i)
  PROVE  (\A z \in BOOLEAN : SameEffect(i, z)) <=> ~Deviates(i)
<1>1. PICK it, p, b, l : Here(i, it, p, b, l) /\ CopyIs(i, it, p)
  BY Frame
<1>2. it = prog.insns[i] /\ it \in ItemSet /\ l = CopyLen(it) /\ Ordinary(it)
  BY <1>1 DEF Here
<1>3. /\ it.op \in {"b", "ldr"} => ~InBlock(Aim(i))
      /\ it.op = "b" => Aim(i) # Till(i)
      /\ it.op = "blx" => ~InBlock(AlignFloor(Aim(i), 4))
      /\ prog.arch = "arm" /\ it.op \in {"ldr", "adr"} => ~IsKey(Aim(i))
  BY <1>2 DEF Foreign
<1>4. prog.arch \in {"arm", "a64"}
  BY DEF Finished, Word
<1>5. prog.arch = "a64" =>
        (Deviates(i) <=> \/ it.op = "ldr" /\ (it.w # 8 \/ it.rt # "r0")
                         \/ it.op = "b" /\ it.cond = "al" /\ it.val # 0)
  BY <1>2 DEF Deviates
<1>6. prog.arch = "arm" =>
        (Deviates(i) <=> \/ it.op \in {"ldr", "adr"} /\ it.cond # "al"
                         \/ it.op = "ldr" /\ it.w # 4
                         \/ it.op = "blx" /\ it.off % 4 # 0)
  BY <1>2 DEF Deviates
<1>7. CASE PlainForm(it)
  <2>1. it.op \in Plain /\ PlainRegs(it) /\ it.op \notin {"b", "blx", "ldr", "adr", "adrp"}
    BY <1>7 DEF PlainForm, Plain, Values
  <2>2. l = 4
    BY <1>2, <2>1 DEF CopyLen
  <2>3. Copy(p, it) \in code
    BY <1>1, <1>4, <2>1 DEF CopyIs, A64CopyAt, ARMCopyAt, A64Kinds, ARMKinds
  <2>4. \A z \in BOOLEAN : SameEffect(i, z)
    BY <1>1, <2>1, <2>2, <2>3, CopiedKept
  <2>5. ~Deviates(i)
    BY <1>4, <1>5, <1>6, <2>1
  <2> QED
    BY <2>4, <2>5
<1>8. CASE BranchForm(it)
  <2>1. it.op = "b"
    BY <1>8 DEF BranchForm
  <2>2. Deviates(i) <=> prog.arch = "a64" /\ it.cond = "al" /\ it.val # 0
    BY <1>4, <1>5, <1>6, <2>1
  <2>3. CASE prog.arch = "arm"
    <3>1. it.off % 4 = 0
      BY <1>8, <2>3 DEF BranchForm
    <3>2. \A z \in BOOLEAN : SameEffect(i, z)
      BY <1>1, <1>3, <2>1, <2>3, <3>1, ARMBranchKept
    <3> QED
      BY <2>2, <2>3, <3>2
  <2>4. CASE prog.arch = "a64" /\ it.cond = "al" /\ it.val = 0
    <3>1. \A z \in BOOLEAN : SameEffect(i, z)
      BY <1>1, <1>3, <2>1, <2>4, A64JumpKept
    <3> QED
      BY <2>2, <2>4, <3>1
  <2>5. CASE prog.arch = "a64" /\ it.cond = "al" /\ it.val # 0
    <3>1. ~it.link
      BY <1>8, <2>5 DEF BranchForm
    <3>2. ~SameEffect(i, TRUE)
      BY <1>1, <1>3, <2>1, <2>5, <3>1, A64AlwaysLost
    <3> QED
      BY <2>2, <2>5, <3>2
  <2>6. CASE prog.arch = "a64" /\ it.cond # "al"
    <3>1. ~it.link
      BY <1>8, <2>6 DEF BranchForm
    <3>2. \A z \in BOOLEAN : SameEffect(i, z)
      BY <1>1, <1>3, <2>1, <2>6, <3>1, A64CondKept
    <3> QED
      BY <2>2, <2>6, <3>2
  <2> QED
    BY <1>4, <2>3, <2>4, <2>5, <2>6
<1>9. CASE BlxForm(it)
  <2>1. it.op = "blx" /\ prog.arch = "arm" /\ it.cond = "al" /\ it.link
    BY <1>9 DEF BlxForm
  <2>2. \A z \in BOOLEAN : SameEffect(i, z) <=> it.off % 4 = 0
    BY <1>1, <1>3, <2>1, ARMBlxKept
  <2>3. Deviates(i) <=> it.off % 4 # 0
    BY <1>6, <2>1
  <2> QED
    BY <2>2, <2>3
<1>10. CASE LiteralForm(it)
  <2>1. it.op = "ldr" /\ ~it.link
    BY <1>10 DEF LiteralForm
  <2>2. CASE prog.arch = "arm"
    <3>1. it.rt \in {"r0", "v0", "pc"}
      BY <1>10, <2>2 DEF LiteralForm
    <3>2. (\A z \in BOOLEAN : SameEffect(i, z)) <=> it.cond = "al" /\ it.w = 4
      BY <1>1, <1>3, <2>1, <2>2, <3>1, ARMLdrKept
    <3>3. Deviates(i) <=> it.cond # "al" \/ it.w # 4
      BY <1>6, <2>1, <2>2
    <3> QED
      BY <3>2, <3>3
  <2>3. CASE prog.arch = "a64"
    <3>1. it.rt \in {"r0", "v0"} /\ it.cond = "al"
      BY <1>10, <2>3 DEF LiteralForm
    <3>2. \A z \in BOOLEAN : SameEffect(i, z) <=> it.w = 8 /\ it.rt = "r0"
      BY <1>1, <1>3, <2>1, <2>3, <3>1, A64LdrKept
    <3>3. Deviates(i) <=> it.w # 8 \/ it.rt # "r0"
      BY <1>5, <2>1, <2>3
    <3> QED
      BY <3>2, <3>3
  <2> QED
    BY <1>4, <2>2, <2>3
<1>11. CASE AddressForm(it)
  <2>1. it.op \in {"adr", "adrp"} /\ it.rt \in {"r0", "v0"}
    BY <1>11 DEF AddressForm
  <2>2. CASE prog.arch = "arm"
    <3>1. it.op = "adr"
      BY <1>11, <2>2 DEF AddressForm
    <3>2. (\A z \in BOOLEAN : SameEffect(i, z)) <=> it.cond = "al"
      BY <1>1, <1>3, <2>1, <2>2, <3>1, ARMAdrKept
    <3>3. Deviates(i) <=> it.cond # "al"
      BY <1>6, <2>2, <3>1
    <3> QED
      BY <3>2, <3>3
  <2>3. CASE prog.arch = "a64"
    <3>1. it.cond = "al"
      BY <1>11, <2>3 DEF AddressForm
    <3>2. \A z \in BOOLEAN : SameEffect(i, z)
      BY <1>1, <2>1, <2>3, <3>1, A64AdrKept
    <3>3. ~Deviates(i)
      BY <1>5, <2>1, <2>3
    <3> QED
      BY <3>2, <3>3
  <2> QED
    BY <1>4, <2>2, <2>3
<1> QED
  BY <1>2, <1>7, <1>8, <1>9, <1>10, <1>11 DEF Ordinary

LEMMA CopiesHold == Spec => [](IndInv /\ Words /\ BackThere /\ Copies)
<1>1. Init => Copies
  BY DEF Init, Copies
<1>2. IndInv /\ Words /\ BackThere /\ Copies /\ [Next]_vars => Copies'
  BY CopiesStep
<1> QED
  BY <1>1, <1>2, BackHolds, PTL DEF Spec

\* Relocation keeps the effect of every A32 and A64 instruction but those of Deviates, whose
\* effect it does not keep: where a branch leads and whether it is taken, the return address
\* of a call, the literal or address a register gets and the state control goes on in.
THEOREM EffectIsKept ==
  Spec => []((Word /\ \A i \in DOMAIN offs : Ordinary(prog.insns[i]) /\ Foreign(i)) => EffectKept)
<1>1. IndInv /\ Words /\ BackThere /\ Copies =>
        ((Word /\ \A i \in DOMAIN offs : Ordinary(prog.insns[i]) /\ Foreign(i)) => EffectKept)
  <2> SUFFICES ASSUME IndInv, Words, BackThere, Copies, Word, phase = "done",
                      NEW i \in DOMAIN offs, Ordinary(prog.insns[i]), Foreign(i)
               PROVE  (\A z \in BOOLEAN : SameEffect(i, z)) <=> ~Deviates(i)
    BY DEF EffectKept
  <2>1. Finished
    BY DEF Finished
  <2> QED
    BY <2>1, EffectAt
<1> QED
  BY <1>1, CopiesHold, PTL
=============================================================================
