----------------------------- MODULE Relocation -----------------------------
(***************************************************************************)
(* GenRelocateCode on every architecture: one behaviour relocates one      *)
(* function of Programs.                                                   *)
(***************************************************************************)
EXTENDS RelocateARM, RelocateARM64, RelocateX86

Over == {"done", "failed", "aborted", "derailed"}

Next == LoopEnds \/ ARMNext \/ A64Next \/ X86Next

\* GenRelocateCode runs to its end in the thread that called DobbyHook.
Spec == Init /\ [][Next]_vars /\ WF_vars(Next)

\* Types of the state of the relocation.
TypeOK ==
  /\ prog.arch \in {"arm", "thumb", "a64", "x64", "x86"}
  /\ prog.insns \in Seq(ItemSet)
  /\ n \in Nat \ {0} /\ cur \in Nat /\ size \in Nat /\ cap \in Nat
  /\ code \subseteq ItemSet
  /\ labels \in Seq(Int)
  /\ offs \in Seq(Nat \X Nat)
  /\ changed \subseteq Nat
  /\ phase \in Phases

\* The distance from a load to the pc it reads.
Bias == CASE prog.arch = "arm" -> 8 [] prog.arch = "thumb" -> 4 [] OTHER -> 0

\* A literal load of Thumb code reads from its pc rounded to a word, which is what
\* RelocBind and the fixed offsets of the sequences take for granted: every such load
\* stands at a multiple of 4, and so does every data word (the assert of
\* ThumbPseudoLabel::link_confused_instructions). Once RelocBind is over, a load that was
\* recorded with a label reads the data of that label and of no other.
LinkAligned ==
  /\ prog.arch = "thumb" =>
       \A it \in code : it.op = "data" \/ (it.op = "ldr" /\ it.len = 4) => it.pos % 4 = 0
  /\ phase \in {"finalize", "done"} =>
       \A it \in code : it.lab # 0 =>
         \E d \in code : d.op = "data" /\ d.pos = it.pos + Bias + it.off /\ d.val = labels[it.lab]

\* What has been emitted lies inside the buffer and no item overwrites another: the
\* sizes that the sequences count with are the sizes that they emit.
CodeDisjoint ==
  /\ \A it \in code : it.pos < NearPos => it.pos + it.len <= size
  /\ \A a, b \in code : a # b => a.pos + a.len <= b.pos \/ b.pos + b.len <= a.pos

\* GenRelocateCode returns or ends the process: the retries with larger blocks end.
RelocationEnds == <>(phase \in Over)
=============================================================================
