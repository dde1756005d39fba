----------------------------- MODULE CodeItems -----------------------------
(***************************************************************************)
(* The instructions the relocators read and the ones their assemblers      *)
(* emit, as records.  An item is one machine instruction or one data word  *)
(* at a byte offset of a code buffer; the same record describes an         *)
(* instruction of the function that is hooked, where pos is not used.      *)
(*                                                                         *)
(*   op     what the item does (see CodeMachine):                          *)
(*          "other"  nothing that depends on its address                   *)
(*          "nop"    nothing                                               *)
(*          "b"      branch to pc + off, if cond                           *)
(*          "blx"    branch with link to pc + off in the other state       *)
(*          "bx"     branch to the address in rn                           *)
(*          "ldr"    rt := w bytes at pc + off, if cond                    *)
(*          "ldm"    rt := w bytes at the address in rn                    *)
(*          "adr"    rt := pc + off;  "adrp" its page                      *)
(*          "mov"    rt := val                                             *)
(*          "alu"    rt := a function of rn                                *)
(*          "jnz8"   an instruction with a branch of its own that reaches  *)
(*                   no farther than its short offset (LOOP, JCXZ)         *)
(*          "svc"    a supervisor call                                     *)
(*          "data"   the word val                                          *)
(*          "undef"  bits that are no such instruction                     *)
(*   lab    the number of the RelocLabel the item is to be linked to, or 0 *)
(***************************************************************************)
EXTENDS Integers, Sequences, FiniteSets

Conds == {"al", "cc", "nc"}

Regs == {"none", "r0", "v0", "ip", "pc"}

Ops == {"other", "nop", "b", "blx", "bx", "ldr", "ldm", "adr", "adrp", "mov",
        "alu", "jnz8", "svc", "data", "undef"}

\* An item with the fields that most instructions do not use at their defaults.
Item(p, l, o) ==
  [pos |-> p, len |-> l, op |-> o, cond |-> "al", rt |-> "none", rn |-> "none",
   off |-> 0, w |-> 4, link |-> FALSE, val |-> 0, lab |-> 0]

\* A branch by d from the pc the item reads.
B(p, l, c, d, lk) == [Item(p, l, "b") EXCEPT !.cond = c, !.off = d, !.link = lk]

\* A load of register r from pc + d.
Ldr(p, l, r, d) == [Item(p, l, "ldr") EXCEPT !.rt = r, !.off = d]

\* A load of register r that RelocBind links to label k.
LdrLabel(p, l, r, k) == [Item(p, l, "ldr") EXCEPT !.rt = r, !.lab = k]

\* A load of w bytes into r from the address in register n.
Ldm(p, l, r, n, bytes) == [Item(p, l, "ldm") EXCEPT !.rt = r, !.rn = n, !.w = bytes]

Mov(p, l, r, v) == [Item(p, l, "mov") EXCEPT !.rt = r, !.val = v]

Data(p, l, v) == [Item(p, l, "data") EXCEPT !.val = v]

Nop(p, l) == Item(p, l, "nop")

\* The bits of instruction ins, written again at offset p.
Copy(p, ins) == [ins EXCEPT !.pos = p]

\* x rounded down to a multiple of m.
AlignFloor(x, m) == x - (x % m)

ItemSet ==
  [pos : Nat, len : Nat, op : Ops, cond : Conds, rt : Regs, rn : Regs,
   off : Int, w : Nat, link : BOOLEAN, val : Int, lab : Nat]
=============================================================================
