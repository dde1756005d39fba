---------------------------- MODULE MCRelocation ----------------------------
(* Functions that start with any two of the instructions of an architecture *)
(* that a relocator treats apart, followed by ones it copies.               *)
EXTENDS RelocationEffect

I(l, o) == Item(0, l, o)
Br(l, c, d, k) == B(0, l, c, d, k)

ArmInsns ==
  {I(4, "other"), Ldr(0, 4, "r0", 512), Ldr(0, 4, "pc", 512), [Ldr(0, 4, "r0", 512) EXCEPT !.cond = "cc"],
   [Ldr(0, 4, "r0", 512) EXCEPT !.w = 1], [I(4, "adr") EXCEPT !.rt = "r0", !.off = -64],
   [I(4, "adr") EXCEPT !.rt = "r0", !.off = 64, !.cond = "nc"],
   Br(4, "al", 400, FALSE), Br(4, "cc", 400, FALSE), Br(4, "al", -512, TRUE), Br(4, "nc", 400, TRUE),
   [I(4, "blx") EXCEPT !.off = 400, !.link = TRUE], [I(4, "blx") EXCEPT !.off = 402, !.link = TRUE]}

ThumbInsns ==
  {I(2, "other"), I(4, "other"), [I(2, "alu") EXCEPT !.rt = "r0", !.rn = "pc"],
   [I(2, "alu") EXCEPT !.rt = "r0", !.rn = "r0"],
   [I(2, "bx") EXCEPT !.rn = "pc"], [I(2, "bx") EXCEPT !.rn = "pc", !.link = TRUE],
   Ldr(0, 2, "r0", 64), [I(2, "adr") EXCEPT !.rt = "r0", !.off = 64],
   [Br(2, "cc", 64, FALSE) EXCEPT !.val = 0], [Br(2, "cc", 64, FALSE) EXCEPT !.val = 1],
   [Br(2, "cc", 64, FALSE) EXCEPT !.val = 9], I(2, "svc"), [Br(2, "cc", 64, FALSE) EXCEPT !.rn = "r0"],
   [Br(2, "nc", 64, FALSE) EXCEPT !.rn = "r0"], Br(2, "al", 64, FALSE), [Br(4, "cc", 600, FALSE) EXCEPT !.val = 5],
   Br(4, "al", 600, FALSE), Br(4, "al", -600, TRUE), [I(4, "blx") EXCEPT !.off = 600, !.link = TRUE],
   [I(4, "blx") EXCEPT !.off = 2^23, !.link = TRUE], [I(4, "blx") EXCEPT !.off = -(2^23) - 4, !.link = TRUE],
   [I(4, "adr") EXCEPT !.rt = "r0", !.off = 64], Ldr(0, 4, "r0", 64), Ldr(0, 4, "pc", 64)}

A64Insns ==
  {I(4, "other"), Br(4, "al", 400, FALSE), Br(4, "al", -400, TRUE),
   [Ldr(0, 4, "r0", 64) EXCEPT !.w = 8], Ldr(0, 4, "r0", 64), [Ldr(0, 4, "v0", 64) EXCEPT !.w = 8],
   [Ldr(0, 4, "r0", 64) EXCEPT !.w = 0], [I(4, "adr") EXCEPT !.rt = "r0", !.off = 64],
   [I(4, "adrp") EXCEPT !.rt = "r0", !.off = 8192], Br(4, "cc", 64, FALSE), Br(4, "nc", -64, FALSE),
   [Br(4, "cc", 64, FALSE) EXCEPT !.rn = "r0"], [Br(4, "nc", 64, FALSE) EXCEPT !.rn = "r0", !.val = 7],
   [Br(4, "al", 64, FALSE) EXCEPT !.val = 1]}

\* x86 instructions: what they do, and their bytes.
X(it, bytes) == [it |-> it, bytes |-> bytes]

Both ==
  {X(I(1, "other"), <<85>>), X(I(3, "other"), <<72, 137, 229>>),
   X(Br(2, "cc", 100, FALSE), <<116, 100>>), X(Br(2, "nc", -100, FALSE), <<117, 156>>),
   X(Br(2, "al", 100, FALSE), <<235, 100>>), X(Br(5, "al", 600, TRUE), <<232, 88, 2, 0, 0>>),
   X(Br(5, "al", -600, FALSE), <<233, 168, 253, 255, 255>>),
   X(Br(6, "cc", 600, FALSE), <<15, 132, 88, 2, 0, 0>>), X(Br(2, "al", 16, FALSE), <<226, 16>>),
   X(I(6, "other"), <<247, 192, 1, 0, 0, 0>>)}

X64Insns ==
  Both \cup
  {X([Ldr(0, 7, "r0", 256) EXCEPT !.w = 8], <<72, 139, 5, 0, 1, 0, 0>>),
   X([I(7, "adr") EXCEPT !.rt = "r0", !.off = -256], <<72, 141, 5, 0, 255, 255, 255>>),
   X(I(3, "other"), <<15, 16, 192>>), X(Br(6, "al", 600, TRUE), <<46, 232, 88, 2, 0, 0>>)}

X86Insns ==
  {x \in Both : x.bytes # <<72, 137, 229>>} \cup
  {X([I(6, "other") EXCEPT !.val = 1], <<139, 29, 0, 1, 0, 0>>), X(I(1, "other"), <<64>>)}

Prog(a, w, is) == [arch |-> a, want |-> w, insns |-> is, bytes |-> <<>>]
Prog86(a, w, xs) ==
  [arch |-> a, want |-> w, insns |-> [i \in DOMAIN xs |-> xs[i].it],
   bytes |-> [i \in DOMAIN xs |-> xs[i].bytes \o [k \in 1..8 |-> 144]]]

Fill(k, it) == [i \in 1..k |-> it]

MCPrograms ==
  {Prog("arm", 8, <<i, j>>) : i, j \in ArmInsns}
  \cup {Prog("thumb", 8, <<i, j>> \o Fill(2, I(2, "other"))) : i, j \in ThumbInsns}
  \cup {Prog("a64", 12, <<i, j, I(4, "other")>>) : i, j \in A64Insns}
  \cup {Prog86("x64", 14, <<i, j>> \o Fill(12, X(I(1, "other"), <<85>>))) : i, j \in X64Insns}
  \cup {Prog86("x86", 5, <<i, j>> \o Fill(3, X(I(1, "other"), <<85>>))) : i, j \in X86Insns}
=============================================================================
