---------------------------- MODULE CodeMachine ----------------------------
(***************************************************************************)
(* What the items of CodeItems do when a processor executes them: the      *)
(* reference against which relocated code is compared.  A value is         *)
(* <<"addr", n>>, a known number; <<"mem", n, w>>, the w bytes of memory   *)
(* at n; or <<"was", r>>, what register r held at the start.  The states   *)
(* "arm", "thumb", "a64" and "x86" fix the pc an instruction reads.        *)
(***************************************************************************)
EXTENDS CodeItems

Addr(n) == <<"addr", n>>

\* The value of the program counter that the instruction at address a reads.
PcRead(st, a, len) ==
  a + [arm |-> 8, thumb |-> 4, a64 |-> 0, x86 |-> len][st]

\* Literals and ADR are relative to the pc rounded down to a word in both
\* 32 bit instruction sets.
PcBase(st, a, len) ==
  IF st \in {"arm", "thumb"} THEN AlignFloor(PcRead(st, a, len), 4)
  ELSE PcRead(st, a, len)

Machine(a, st) ==
  [pc |-> Addr(a), st |-> st, r0 |-> <<"was", "r0">>, v0 |-> <<"was", "v0">>,
   ip |-> <<"was", "ip">>, lr |-> <<"was", "lr">>]

\* A jump to a value: bit 0 selects the instruction set where there are two.
Jump(m, v) ==
  IF m.st \notin {"arm", "thumb"} THEN [m EXCEPT !.pc = v]
  ELSE IF v[1] = "addr"
       THEN [m EXCEPT !.pc = Addr(v[2] - (v[2] % 2)),
                      !.st = IF v[2] % 2 = 1 THEN "thumb" ELSE "arm"]
       ELSE [m EXCEPT !.pc = v, !.st = "mem"]

\* The w bytes at address n: a data item of the code, or the program's memory.
Fetch(code, base, n, w) ==
  IF \E d \in code : d.op = "data" /\ base + d.pos = n
  THEN Addr((CHOOSE d \in code : d.op = "data" /\ base + d.pos = n).val)
  ELSE <<"mem", n, w>>

SetReg(m, r, v) == IF r = "pc" THEN Jump(m, v) ELSE [m EXCEPT ![r] = v]

ValueOf(m, r, pc) == IF r = "pc" THEN Addr(pc) ELSE m[r]

\* One instruction it at address a; z says whether its condition holds.
Step(code, base, m, it, a, z) ==
  LET next   == [m EXCEPT !.pc = Addr(a + it.len)]
      taken  == it.cond = "al" \/ (it.cond = "cc" /\ z) \/ (it.cond = "nc" /\ ~z)
      linked == IF it.link THEN [next EXCEPT !.lr = Addr(a + it.len)] ELSE next
      pc     == PcRead(m.st, a, it.len)
      lit    == PcBase(m.st, a, it.len) + it.off
  IN IF ~taken THEN next
     ELSE CASE it.op \in {"b", "jnz8"} -> [linked EXCEPT !.pc = Addr(pc + it.off)]
            [] it.op = "blx"  -> [linked EXCEPT !.pc = Addr(lit),
                                    !.st = IF @ = "arm" THEN "thumb" ELSE "arm"]
            [] it.op = "bx"   -> Jump(linked, ValueOf(m, it.rn, pc))
            [] it.op = "ldr"  -> SetReg(linked, it.rt, Fetch(code, base, lit, it.w))
            [] it.op = "ldm"  -> LET v == m[it.rn]
                                 IN SetReg(next, it.rt,
                                      IF v[1] = "addr" THEN Fetch(code, base, v[2], it.w)
                                      ELSE <<"mem", v, it.w>>)
            [] it.op = "adr"  -> SetReg(next, it.rt, Addr(lit))
            [] it.op = "adrp" -> SetReg(next, it.rt, Addr(AlignFloor(lit, 4096)))
            [] it.op = "mov"  -> SetReg(next, it.rt, Addr(it.val))
            [] it.op = "alu"  -> SetReg(next, it.rt, <<"of", ValueOf(m, it.rn, pc)>>)
            [] it.op \in {"data", "undef"} -> [m EXCEPT !.pc = <<"stuck">>]
            [] OTHER -> next

\* Execution goes on by one instruction of the code, loaded at base, unless control has
\* left the offsets inside.
Advance(code, base, inside, m, z) ==
  LET at == {it \in code : base + it.pos = m.pc[2]}
  IN IF m.pc[1] # "addr" \/ m.pc[2] - base \notin inside THEN m
     ELSE IF at = {} THEN [m EXCEPT !.pc = <<"stuck">>]
     ELSE Step(code, base, m, CHOOSE it \in at : TRUE, m.pc[2], z)

\* Execution until control leaves inside or fuel instructions have run.
Run(code, base, inside, m, z, fuel) ==
  LET after[k \in 0..fuel] ==
        IF k = 0 THEN m ELSE Advance(code, base, inside, after[k - 1], z)
  IN after[fuel]
=============================================================================
