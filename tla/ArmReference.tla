---------------------------- MODULE ArmReference ----------------------------
(***************************************************************************)
(* How an ARM processor reads the words that the assemblers of             *)
(* ArmAssembler emit, and the calls that they encode as something else.    *)
(***************************************************************************)
EXTENDS ArmAssembler

\* The signed number in bits lo to hi.
Signed(w, lo, hi) == SignExtend(Bits(w, lo, hi), hi - lo + 1)

Is64(c) == IF c.ty = "x" THEN 1 ELSE 0

\* Add or subtract (immediate).
IsAddSub(w, c, op, rn, imm) ==
  /\ Bits(w, 31, 31) = Is64(c) /\ Bits(w, 29, 30) = op /\ Bits(w, 22, 28) = 68
  /\ Bits(w, 10, 21) = imm /\ Bits(w, 5, 9) = rn /\ Bits(w, 0, 4) = c.rd

IsMoveWide(w, sfbit, opc, rd, imm, hw) ==
  /\ Bits(w, 31, 31) = sfbit /\ Bits(w, 29, 30) = opc /\ Bits(w, 23, 28) = 37
  /\ Bits(w, 21, 22) = hw /\ Bits(w, 5, 20) = imm /\ Bits(w, 0, 4) = rd

IsBr(w, opc, rn) ==
  /\ Bits(w, 25, 31) = 107 /\ Bits(w, 21, 24) = opc /\ Bits(w, 10, 20) = 1984
  /\ Bits(w, 5, 9) = rn /\ Bits(w, 0, 4) = 0

IsMov(ws, rd, h) ==
  /\ IsMoveWide(ws[1], 1, 2, rd, h[1], 0)
  /\ \A i \in 2..4 : IsMoveWide(ws[i], 1, 3, rd, h[i], i - 1)

IsAdrp(w, rd, imm) ==
  /\ Bits(w, 31, 31) = 1 /\ Bits(w, 24, 28) = 16 /\ Bits(w, 0, 4) = rd
  /\ SignExtend(Bits(w, 29, 30) + 4 * Bits(w, 5, 23), 21) * 4096 = imm

A64Means(ws, c) ==
  LET w == ws[1]
      isV == IF c.ty \in {"s", "d", "q"} THEN 1 ELSE 0
  IN CASE c.kind = "adrp" -> IsAdrp(w, c.rd, c.imm)
       [] c.kind = "add"  -> IsAddSub(w, c, 0, c.rn, c.imm)
       [] c.kind = "sub"  -> IsAddSub(w, c, 2, c.rn, c.imm)
       [] c.kind = "b"    -> Bits(w, 26, 31) = 5 /\ 4 * Signed(w, 0, 25) = c.imm
       [] c.kind = "br"   -> IsBr(w, 0, c.rn)
       [] c.kind = "blr"  -> IsBr(w, 1, c.rn)
       [] c.kind \in {"ldr_lit", "Ldr"} ->
            /\ Bits(w, 27, 29) = 3 /\ Bits(w, 24, 25) = 0 /\ Bits(w, 26, 26) = isV
            /\ Bits(w, 30, 31) = [w |-> 0, x |-> 1, s |-> 0, d |-> 1, q |-> 2][c.ty]
            /\ 4 * Signed(w, 5, 23) + c.from = c.imm /\ Bits(w, 0, 4) = c.rd
       [] c.kind \in {"ldr", "str"} ->
            /\ Bits(w, 27, 29) = 7 /\ Bits(w, 26, 26) = isV /\ Bits(w, 24, 25) = 1
            /\ Bits(w, 30, 31) = [w |-> 2, x |-> 3, s |-> 2, d |-> 3, q |-> 0][c.ty]
            /\ Bits(w, 22, 23) = IF c.kind = "ldr" THEN 1 ELSE 0
            /\ 8 * Bits(w, 10, 21) = c.imm /\ Bits(w, 5, 9) = c.rn /\ Bits(w, 0, 4) = c.rd
       [] c.kind \in {"ldp", "stp"} ->
            /\ Bits(w, 30, 31) = 2 /\ Bits(w, 27, 29) = 5 /\ Bits(w, 26, 26) = isV
            /\ Bits(w, 23, 25) = [offset |-> 2, pre |-> 3, post |-> 1][c.mode]
            /\ Bits(w, 22, 22) = IF c.kind = "ldp" THEN 1 ELSE 0
            /\ Signed(w, 15, 21) * (IF c.ty = "q" THEN 16 ELSE 8) = c.imm
            /\ Bits(w, 10, 14) = c.rm /\ Bits(w, 5, 9) = c.rn /\ Bits(w, 0, 4) = c.rd
       [] c.kind = "mov" ->
            IF 31 \in {c.rd, c.rn} THEN IsAddSub(w, c, 0, c.rn, 0)
            ELSE /\ Bits(w, 31, 31) = Is64(c) /\ Bits(w, 21, 30) = 336 /\ Bits(w, 10, 15) = 0
                 /\ Bits(w, 16, 20) = c.rn /\ Bits(w, 5, 9) = 31 /\ Bits(w, 0, 4) = c.rd
       [] c.kind \in {"movn", "movz", "movk"} ->
            IsMoveWide(w, Is64(c), [movn |-> 0, movz |-> 2, movk |-> 3][c.kind], c.rd, c.imm,
                       c.shift \div 16)
       [] c.kind = "Mov" -> IsMov(ws, c.rd, c.h)
       [] c.kind = "AdrpAdd" ->
            \E page \in {p \in 0..65536 : p % 4096 = 0} :
              /\ IsAdrp(w, c.rd, page - (c.from - (c.from % 4096)))
              /\ IsAddSub(ws[2], c, 0, c.rd, c.imm - page)
       [] c.kind = "CallFunction" -> IsMov(ws, 17, c.h) /\ IsBr(ws[5], 1, 17)

\* The calls of the A64 assembler that are encoded as something else: literal loads
\* from a known place, loads and stores of other than X registers, a move from x0,
\* and immediates that do not fit.
A64Misencoded(c) ==
  \/ c.kind \in {"ldr_lit", "Ldr"} /\ c.imm # c.from
  \/ c.kind \in {"ldr", "str"} /\ (c.ty # "x" \/ c.imm \notin 0..32760 \/ c.imm % 8 # 0)
  \/ c.kind = "mov" /\ c.rn = 0 /\ c.rd # 31
  \/ c.kind \in {"add", "sub"} /\ c.imm \notin 0..4095
  \/ c.kind \in {"ldp", "stp"} /\ c.imm \notin (IF c.ty = "q" THEN -1024..1008 ELSE -512..504)

\* The rotated byte of an A32 data processing instruction.
Rotated(w) ==
  LET imm8 == Bits(w, 0, 7)
      f    == 4^Bits(w, 8, 11)
  IN IF imm8 % f = 0 THEN imm8 \div f ELSE -1

\* A load of rt from the pc it reads and off.
IsLdrLiteral(w, rt, off) ==
  /\ Bits(w, 28, 31) = 14 /\ Bits(w, 24, 27) = 5 /\ Bits(w, 20, 22) = 1
  /\ Bits(w, 16, 19) = 15 /\ Bits(w, 12, 15) = rt
  /\ off = IF 23 \in w THEN Bits(w, 0, 11) ELSE -Bits(w, 0, 11)

ArmMeans(ws, c) ==
  LET w == ws[1]
      regs == Bits(w, 16, 19) = c.rn /\ Bits(w, 12, 15) = c.rd
      signed == IF 23 \in w THEN Bits(w, 0, 11) ELSE -Bits(w, 0, 11)
  IN CASE c.kind \in {"add", "sub"} ->
            /\ Bits(w, 28, 31) = 14 /\ regs /\ Rotated(w) = c.imm
            /\ Bits(w, 20, 27) = IF c.kind = "add" THEN 40 ELSE 36
       [] c.kind \in {"ldr", "str"} ->
            /\ Bits(w, 28, 31) = 14 /\ Bits(w, 25, 27) = 2 /\ regs /\ signed = c.imm
            /\ Bits(w, 20, 20) = (IF c.kind = "ldr" THEN 1 ELSE 0) /\ 22 \notin w
            /\ <<24 \in w, 21 \in w>> = [offset |-> <<TRUE, FALSE>>, pre |-> <<TRUE, TRUE>>,
                                         post |-> <<FALSE, FALSE>>][c.mode]
       [] c.kind \in {"mov", "mov_i"} ->
            /\ Bits(w, 28, 31) = c.cond /\ Bits(w, 12, 15) = c.rd
            /\ IF c.kind = "mov" THEN Bits(w, 16, 27) = 416 /\ Bits(w, 0, 11) = c.rn
               ELSE Bits(w, 16, 27) = 928 /\ Rotated(w) = c.imm
       [] c.kind \in {"b", "bl"} ->
            /\ Bits(w, 28, 31) = c.cond /\ Bits(w, 24, 27) = (IF c.kind = "b" THEN 10 ELSE 11)
            /\ 4 * Signed(w, 0, 23) = c.imm
       [] c.kind = "link" -> IsLdrLiteral(w, c.rd, c.imm)
       [] c.kind = "Ldr"  -> IsLdrLiteral(w, c.rd, c.imm - (c.from + 8))
       [] c.kind = "CallFunction" ->
            /\ Bits(w, 24, 31) = 235 /\ 8 + 4 * Signed(w, 0, 23) = 8
            /\ Bits(ws[2], 24, 31) = 234 /\ 12 + 4 * Signed(ws[2], 0, 23) = 16
            /\ IsLdrLiteral(ws[3], 15, 12 - 16) /\ Bits(ws[4], 0, 30) = c.imm

\* Immediates of add and sub above a byte, moves of an immediate, offsets of more than
\* 12 bits, and loads from a label that is bound: they are 8 bytes off.
ArmMisencoded(c) ==
  \/ c.kind \in {"add", "sub"} /\ c.imm \notin 0..255
  \/ c.kind \in {"mov_i", "Ldr"}
  \/ c.kind \in {"ldr", "str", "link"} /\ c.imm \notin -4095..4095

ThumbMeans(ws, c) ==
  LET a == ws[1]
      b == ws[2]
      s == Bits(a, 10, 10)
      i(k) == IF Bits(b, k, k) = s THEN 1 ELSE 0
      target == 2 * (Bits(b, 0, 10) + 2048 * Bits(a, 0, 9) + 2^21 * i(11) + 2^22 * i(13) - s * 2^23)
      off12 == IF 7 \in a THEN Bits(b, 0, 11) ELSE -Bits(b, 0, 11)
      off8  == IF 9 \in b THEN Bits(b, 0, 7) ELSE -Bits(b, 0, 7)
  IN CASE c.kind = "t1_b" -> Bits(a, 11, 15) = 28 /\ 2 * Signed(a, 0, 10) = c.imm
       [] c.kind \in {"t2_b", "t2_bl"} ->
            /\ Bits(a, 11, 15) = 30 /\ 15 \in b /\ 12 \in b
            /\ (14 \in b) = (c.kind = "t2_bl") /\ target = c.imm
       [] c.kind \in {"link", "T2_Ldr"} \/ c.rn = 15 ->
            /\ Bits(a, 8, 15) = 248 /\ Bits(a, 0, 6) = 95 /\ Bits(b, 12, 15) = c.rd
            /\ off12 = IF c.kind = "T2_Ldr" THEN c.imm - (c.from + 4 - (c.from % 4)) ELSE c.imm
       [] OTHER ->
            /\ Bits(a, 8, 15) = 248 /\ Bits(a, 0, 3) = c.rn /\ Bits(b, 12, 15) = c.rd
            /\ \/ Bits(a, 4, 7) = 13 /\ c.mode = "offset" /\ Bits(b, 0, 11) = c.imm
               \/ /\ Bits(a, 4, 7) = 5 /\ 11 \in b /\ off8 = c.imm
                  /\ <<10 \in b, 8 \in b>> = [offset |-> <<TRUE, FALSE>>, pre |-> <<TRUE, TRUE>>,
                                              post |-> <<FALSE, TRUE>>][c.mode]

\* Offsets that do not fit, loads from a label that is bound, and all other addressing
\* modes than a positive offset unless the offset is 0: the direction bit is inverted.
ThumbMisencoded(c) ==
  \/ c.kind = "T2_Ldr"
  \/ c.kind = "t1_b" /\ c.imm \notin -2048..2046
  \/ c.kind = "link" /\ c.imm \notin -4095..4095
  \/ c.kind = "t2_ldr" /\ c.rn # 15 /\ (IF c.mode = "offset" THEN c.imm < 0 ELSE c.imm # 0)

\* The encoding of a branch or a pc-relative instruction with offset d, register 0 and
\* condition 0, by the manual.
Encoded(isa, kind, d) ==
  LET up    == d >= 0
      abs   == IF up THEN d ELSE -d
      bit(k) == (d \div 2^k) % 2
      j(k)  == IF bit(k) = bit(24) THEN 1 ELSE 0
      first == {12, 13, 14, 15} \cup LeftShift(bit(24), 1, 10) \cup LeftShift(d \div 2^12, 10, 0)
      last  == {15} \cup LeftShift(j(23), 1, 13) \cup LeftShift(j(22), 1, 11) \cup LeftShift(d \div 2, 11, 0)
  IN CASE isa = "arm" /\ kind = "b"   -> <<{25, 27} \cup LeftShift(d \div 4, 24, 0)>>
       [] isa = "arm" /\ kind = "ldr" -> <<{16, 17, 18, 19, 20, 24, 26} \cup LeftShift(abs, 12, 0) \cup (IF up THEN {23} ELSE {})>>
       [] isa = "arm" /\ kind = "adr" ->
            LET r == CHOOSE k \in 0..15 : abs % 4^k = 0 /\ abs \div 4^k < 256
            IN <<{16, 17, 18, 19, 25} \cup LeftShift((16 - r) % 16, 4, 8) \cup LeftShift(abs \div 4^r, 8, 0)
                 \cup (IF up THEN {23} ELSE {22})>>
       [] isa = "thumb1" /\ kind = "ldr"    -> <<{11, 14} \cup LeftShift(d \div 4, 8, 0)>>
       [] isa = "thumb1" /\ kind = "adr"    -> <<{13, 15} \cup LeftShift(d \div 4, 8, 0)>>
       [] isa = "thumb1" /\ kind = "b_cond" -> <<{12, 14, 15} \cup LeftShift(d \div 2, 8, 0)>>
       [] isa = "thumb1" /\ kind = "cbz"    -> <<{8, 12, 13, 15} \cup LeftShift(d \div 2, 5, 3) \cup LeftShift(d \div 64, 1, 9)>>
       [] isa = "thumb1" /\ kind = "b"      -> <<{13, 14, 15} \cup LeftShift(d \div 2, 11, 0)>>
       [] isa = "thumb2" /\ kind = "b_cond" ->
            <<{12, 13, 14, 15} \cup LeftShift(bit(20), 1, 10) \cup LeftShift(d \div 2^12, 6, 0),
              {15} \cup LeftShift(bit(18), 1, 13) \cup LeftShift(bit(19), 1, 11) \cup LeftShift(d \div 2, 11, 0)>>
       [] isa = "thumb2" /\ kind = "b"      -> <<first, last \cup {12}>>
       [] isa = "thumb2" /\ kind = "bl"     -> <<first, last \cup {12, 14}>>
       [] isa = "thumb2" /\ kind = "blx"    -> <<first, last \cup {14}>>
       [] isa = "thumb2" /\ kind = "adr"    ->
            <<{0, 1, 2, 3, 9, 12, 13, 14, 15} \cup LeftShift(abs \div 2^11, 1, 10) \cup (IF up THEN {} ELSE {5, 7}),
              LeftShift(abs \div 256, 3, 12) \cup LeftShift(abs, 8, 0)>>
       [] isa = "thumb2" /\ kind = "ldr"    ->
            <<{0, 1, 2, 3, 4, 6, 11, 12, 13, 14, 15} \cup (IF up THEN {7} ELSE {}), LeftShift(abs, 12, 0)>>

\* blx of Thumb beyond 2^23, half of its reach.
ArmMisread(isa, kind, d) == isa = "thumb2" /\ kind = "blx" /\ d \notin -(2^23)..(2^23 - 1)
=============================================================================
