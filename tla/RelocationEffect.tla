-------------------------- MODULE RelocationEffect --------------------------
(***************************************************************************)
(* What relocated code does, compared with the code it was made from.      *)
(***************************************************************************)
EXTENDS Relocation, CodeMachine

State == IF prog.arch \in {"x64", "x86"} THEN "x86" ELSE prog.arch

\* The addresses of instruction i and of what follows it; the offsets of its copy.
From(i) == Source + offs[i][1]
Till(i) == From(i) + prog.insns[i].len
CopyFrom(i) == offs[i][2]
BackLen == CASE prog.arch = "x64" -> 14 [] prog.arch = "x86" -> 5 [] OTHER -> 8
CopyTill(i) ==
  IF i < Len(offs) THEN offs[i + 1][2]
  ELSE (CASE prog.arch \in {"x64", "x86"} -> size - BackLen
          [] prog.arch = "a64" -> size - 8 * Len(labels) - 8
          [] OTHER -> size - 4 * Len(labels) - 8)

\* The offsets of the copy of i, its 64 bytes of near memory included.
CopyInside(i) ==
  (CopyFrom(i)..(CopyTill(i) - 1))
  \cup (IF prog.arch = "x64" THEN (NearPos + 64 * i)..(NearPos + 64 * i + 63) ELSE {})

\* Instruction i where it was, and its copy until control leaves it.
Original(i, z) == Step({}, Source, Machine(From(i), State), prog.insns[i], From(i), z)
Copied(i, z, m) == Run(code, Relocated, CopyInside(i), m, z, 12)
CopiedFromStart(i, z) == Copied(i, z, Machine(Relocated + CopyFrom(i), State))

\* Control leaves the copy of i at its end, and goes on with the next copy.
AtEnd(i, m) == m.pc = Addr(Relocated + CopyTill(i)) /\ m.st = State

\* The copy sets the same registers and goes to the same place, with a return address
\* that leads on behind it. The scratch register may change.
SameEffect(i, z) ==
  LET o == Original(i, z)
      c == CopiedFromStart(i, z)
  IN /\ o.r0 = c.r0 /\ o.v0 = c.v0
     /\ IF o.pc = Addr(Till(i)) /\ o.st = State THEN AtEnd(i, c)
        ELSE c.pc = o.pc /\ c.st = o.st
     /\ IF o.lr = Addr(Till(i))
        THEN c.lr[1] = "addr" /\ AtEnd(i, Copied(i, z, [c EXCEPT !.pc = c.lr, !.st = State]))
        ELSE c.lr = o.lr

\* Instructions whose copy does something else. Thumb instruction i is at a multiple
\* of 4 or not: the code forgets to round the pc.
Odd(i) == From(i) % 4 # 0

Deviates(i) ==
  LET it == prog.insns[i]
  IN CASE prog.arch = "arm" ->
            \/ it.op \in {"ldr", "adr"} /\ it.cond # "al"
            \/ it.op = "ldr" /\ it.w # 4
            \/ it.op = "blx" /\ it.off % 4 # 0
       [] prog.arch = "thumb" ->
            \/ it.op = "b" /\ it.cond = "cc" /\ it.rn = "none"
            \/ it.op = "adr" /\ (it.len = 4 \/ Odd(i))
            \/ it.op = "ldr" /\ it.len = 4 /\ (Odd(i) \/ it.rt = "pc")
            \/ it.op = "blx" /\ it.off \notin -(2^23)..(2^23 - 1)
       [] prog.arch = "a64" ->
            \/ it.op = "ldr" /\ (it.w # 8 \/ it.rt # "r0")
            \/ it.op = "b" /\ it.cond = "al" /\ it.val # 0
       [] prog.arch = "x64" -> it.op = "b" /\ it.len = 6 /\ it.cond # "al"
       [] prog.arch = "x86" -> (it.op = "b" /\ it.len = 6 /\ it.cond # "al") \/ it.val = 1

\* Relocation keeps the effect of every instruction but those of Deviates: the branch
\* of a condition, link register, literal and page address included.
EffectKept ==
  phase = "done" =>
    \A i \in DOMAIN offs :
      (\A z \in BOOLEAN : SameEffect(i, z)) <=> ~Deviates(i)

\* Behind the last copy control returns to the first instruction that was not moved,
\* in the state of the function.
FallThrough ==
  phase = "done" =>
    \A z \in BOOLEAN :
      LET m == Run(code, Relocated, CopyTill(Len(offs))..(size - 1),
                   Machine(Relocated + CopyTill(Len(offs)), State), z, 4)
      IN m.pc = Addr(Source + cur) /\ m.st = State /\ m.r0 = <<"was", "r0">>
=============================================================================
