------------------------------ MODULE Relocate ------------------------------
(***************************************************************************)
(* The state GenRelocateCode works on, on every architecture: the          *)
(* instructions of the hooked function, the cursor over them, the code     *)
(* buffer the assembler fills, the RelocLabels it has appended and the map *)
(* from instructions to the offsets of their copies.                       *)
(***************************************************************************)
EXTENDS CodeItems

CONSTANTS Programs,   \* the instruction sequences a function may start with
          Source,     \* the address of the function
          Relocated,  \* the address of the block that receives the copy
          NearPos     \* the offset from Relocated of the near memory x64 code gets

\* What a function may start with: the instructions, and for x86 their bytes.
ProgramSet ==
  [arch : {"arm", "thumb", "a64", "x64", "x86"}, want : Nat, insns : Seq(ItemSet),
   bytes : Seq(Seq(0..255))]

\* The lengths instructions have, of which none belongs to a label.
LengthsOf(arch) ==
  CASE arch = "thumb"          -> {2, 4}
    [] arch \in {"arm", "a64"} -> {4}
    [] OTHER                   -> 1..15

\* Where an instruction may be.
Alignment(arch) == CASE arch = "thumb" -> 2 [] arch \in {"arm", "a64"} -> 4 [] OTHER -> 1

\* A function is where its instruction set allows; a block is aligned to a word.
ASSUME RelocateAssumption ==
  /\ Source \in Nat /\ Relocated \in Nat /\ NearPos \in Nat
  /\ Relocated % 4 = 0
  /\ Programs \subseteq ProgramSet
  /\ \A p \in Programs :
       /\ Source % Alignment(p.arch) = 0
       /\ \A i \in DOMAIN p.insns : p.insns[i].len \in LengthsOf(p.arch) /\ p.insns[i].lab = 0
       /\ p.arch \in {"x64", "x86"} => Len(p.bytes) = Len(p.insns)

VARIABLES prog,     \* what is relocated: architecture, instructions, bytes wanted
          n,        \* the instruction under buffer_cursor
          cur,      \* buffer_cursor - buffer
          code,     \* the items of the code buffer
          size,     \* GetBufferSize()
          labels,   \* the data of the labels appended, in order
          offs,     \* relocated_offset_map: <<offset, relocated offset>> pairs
          changed,  \* execute_state_map: where ARM code follows Thumb code
          cap,      \* the size of the block an x86 relocation was given
          phase

vars == <<prog, n, cur, code, size, labels, offs, changed, cap, phase>>

Phases == {"insns", "interrupted", "branch", "fixup", "bind", "finalize", "done",
           "retry", "failed", "aborted", "derailed"}

Init ==
  /\ prog \in Programs
  /\ n = 1 /\ cur = 0 /\ size = 0
  /\ code = {} /\ labels = <<>> /\ offs = <<>> /\ changed = {}
  /\ cap = 32
  /\ phase = "insns"

\* The loop goes on while the cursor is inside the bytes to relocate; prog has an
\* instruction for each of them.
Pending == phase = "insns" /\ cur < prog.want /\ n <= Len(prog.insns)

Ins == prog.insns[n]

\* The address of the instruction under the cursor.
At == Source + cur

\* One iteration of the loop: its items are emitted, its labels appended, the
\* cursor moves past the instruction.
Emitted(items, end, ls) ==
  /\ code' = code \cup items
  /\ size' = end
  /\ labels' = labels \o ls
  /\ offs' = Append(offs, <<cur, size>>)
  /\ cur' = cur + Ins.len
  /\ n' = n + 1

\* UNREACHABLE and UNIMPLEMENTED end the process.
Abort ==
  /\ phase' = "aborted"
  /\ UNCHANGED <<prog, n, cur, code, size, labels, offs, changed, cap>>

\* The loop is left: origin->reset(origin->addr, cursor - buffer).
LoopEnds ==
  /\ phase = "insns" /\ cur >= prog.want
  /\ phase' = "branch"
  /\ UNCHANGED <<prog, n, cur, code, size, labels, offs, changed, cap>>

\* The offset at which label k is bound: labels are emitted one after the other
\* behind the code, bytes long each.
LabelPos(k, bytes) == size + (k - 1) * bytes

\* PseudoBind and link_confused_instructions for every label, then its data: the
\* offset of each recorded ldr becomes label - (ldr + bias).
Bound(bytes, bias) ==
  /\ code' =
       {IF it.lab = 0 THEN it
        ELSE [it EXCEPT !.off = LabelPos(it.lab, bytes) - (it.pos + bias)] : it \in code}
       \cup {Data(LabelPos(k, bytes), bytes, labels[k]) : k \in DOMAIN labels}
  /\ size' = size + Len(labels) * bytes
  /\ phase' = "finalize"
  /\ UNCHANGED <<prog, n, cur, labels, offs, changed, cap>>

\* The code is copied to its block and *relocated is set, or what remains of the
\* relocation when no block could be had is next.
Finalized(next) ==
  /\ phase' = next
  /\ UNCHANGED <<prog, n, cur, code, size, labels, offs, changed, cap>>
=============================================================================
