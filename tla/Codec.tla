------------------------------- MODULE Codec -------------------------------
(***************************************************************************)
(* The instruction decoder and the assemblers against the processors'      *)
(* manuals.  A job is bytes for the x86 decoder, a call of a method of an  *)
(* assembler, an offset to be linked into an A64 instruction or to be read *)
(* from one of A32 or Thumb, or a trampoline, which Trampolines generates. *)
(***************************************************************************)
EXTENDS X86Reference, ArmReference, Trampolines

CONSTANT Jobs     \* jobs: [isa, kind, ...]

VARIABLES job,    \* the job
          out,    \* the bytes, words or halfwords it is about
          len,    \* the length the x86 decoder reports, or the offset that was read
          state

vars == <<job, out, len, state>>

Init ==
  /\ job \in Jobs /\ out = <<>> /\ len = 0 /\ state = "start"
  /\ TrampolineInit

\* x86_insn_decode of the bytes of the job. Both relocators pass mode 64.
DecodeInsn ==
  /\ state = "start" /\ job.kind = "decode"
  /\ \E d \in {Decode(job.bytes, 64)} :
       /\ len' = d.length
       /\ state' = IF d.aborts THEN "aborted" ELSE "decoded"
  /\ out' = job.bytes
  /\ UNCHANGED job

\* Calls that end in UNREACHABLE: an x86 immediate of 16 bits, A64 addressing modes
\* and register types that are not there.
Unreachable(c) ==
  \/ c.isa \in {"x64", "ia32"} /\ c.size = 16
  \/ c.isa = "a64" /\ A64Unreachable(c)

\* A method of an assembler.
EmitInsn ==
  /\ state = "start" /\ job.kind \notin {"decode", "trampoline", "read"} /\ ~Unreachable(job)
  /\ out' = CASE job.isa = "x64"    -> IF job.kind = "CallFunction" THEN CallFunctionX64(job) ELSE EmitX64(job)
              [] job.isa = "ia32"   -> IF job.kind = "CallFunction" THEN CallFunctionIA32(job) ELSE EmitIA32(job)
              [] job.isa = "a64"    -> A64Emit(job)
              [] job.isa = "arm"    -> ArmEmit(job)
              [] job.isa = "thumb"  -> ThumbEmit(job)
              [] job.isa = "offset" -> <<EncodeOffset(job.kind, job.word, job.imm)>>
  /\ state' = "emitted"
  /\ UNCHANGED <<job, len>>

EmitUnreachable ==
  /\ state = "start" /\ job.kind \notin {"decode", "trampoline", "read"} /\ Unreachable(job)
  /\ state' = "aborted"
  /\ UNCHANGED <<job, out, len>>

\* The relocation reads the offset of an instruction of A32 or Thumb.
DecodeArmOffset ==
  /\ state = "start" /\ job.kind = "read"
  /\ out' = Encoded(job.isa, job.insn, job.imm)
  /\ len' = ReadOffset(job.isa, job.insn, out')
  /\ state' = "read"
  /\ UNCHANGED job

\* What the x64 assembler emitted is read back by the decoder.
DecodeEmitted ==
  /\ state = "emitted" /\ job.isa = "x64"
  /\ len' = Decode(out, 64).length
  /\ state' = "reread"
  /\ UNCHANGED <<job, out>>

CodecNext == DecodeInsn \/ EmitInsn \/ EmitUnreachable \/ DecodeArmOffset \/ DecodeEmitted

Next ==
  \/ CodecNext /\ UNCHANGED tvars
  \/ job.kind = "trampoline" /\ TrampolineNext /\ UNCHANGED vars

Spec == Init /\ [][Next]_<<vars, tvars>>

------------------------------------------------------------------------------
(* Properties.                                                              *)

\* The length x86_insn_decode reports, by which the relocation loop moves its cursor,
\* is the processor's for every instruction but those of Misread, of the program and
\* of the assembler's own output.
DecodedLength ==
  state \in {"decoded", "reread"} =>
    \A a \in {Arch(out, 64)} : (len = a.length) <=> ~Misread(a)

\* The assemblers encode what they are asked to but for the calls of Misencoded, none
\* of which the closure bridges, the trampolines and the relocators make; an offset is
\* read back from an A64 instruction as it was linked into it, with the other bits as
\* they were; and the offsets of A32 and Thumb instructions are read as the processor
\* reads them, but for ArmMisread.
EncodedAsMeant ==
  /\ state = "emitted" =>
       CASE job.isa = "x64"   -> X86Means(out, job, 64) <=> ~X86Misencoded(job, 64)
         [] job.isa = "ia32"  -> X86Means(out, job, 32) <=> ~X86Misencoded(job, 32)
         [] job.isa = "a64"   -> A64Means(out, job) <=> ~A64Misencoded(job)
         [] job.isa = "arm"   -> ArmMeans(out, job) <=> ~ArmMisencoded(job)
         [] job.isa = "thumb" -> ThumbMeans(out, job) <=> ~ThumbMisencoded(job)
         [] job.isa = "offset" ->
              /\ DecodeOffset(job.kind, out[1]) = job.imm
              /\ EncodeOffset(job.kind, out[1], DecodeOffset(job.kind, job.word)) = job.word
  /\ state = "read" => ((len = job.imm) <=> ~ArmMisread(job.isa, job.insn, job.imm))
=============================================================================
