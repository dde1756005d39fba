---------------------------- MODULE Trampolines ----------------------------
(***************************************************************************)
(* The trampoline that is written over the start of a hooked function:     *)
(* InterceptRouting::GenerateTrampolineBuffer, the normal trampolines of   *)
(* the four architectures, and the near branch plugin with the forward     *)
(* trampolines it puts in near memory.  Enabling and disabling the plugin  *)
(* interleaves with the generation of a trampoline.                        *)
(***************************************************************************)
EXTENDS Integers, Sequences, FiniteSets

CONSTANTS Sites,      \* hooks: [arch, src, dst], src with the Thumb bit
          PageSize,   \* of adrp, 4096
          BRange,     \* of b, 2^27
          AdrpRange,  \* of adrp, 2^32
          JmpRange,   \* of a 32 bit displacement, 2^31
          NearStep,   \* distance of the places near memory may be at
          MaxPlugins  \* bound: calls of dobby_enable_near_branch_trampoline

ASSUME RangeAssumption ==
  /\ {PageSize, BRange, AdrpRange, JmpRange, NearStep} \subseteq Nat \ {0}
  /\ AdrpRange % PageSize = 0 /\ MaxPlugins \in Nat

Archs == {"arm", "thumb", "a64", "x64", "ia32"}

\* Thumb addresses are odd, and the addresses of a 32 bit process are below 2^32.
ASSUME SiteAssumption ==
  /\ Sites \subseteq [arch : Archs, src : Nat, dst : Nat]
  /\ \A s \in Sites :
       /\ s.arch = "thumb" => s.src % 2 = 1
       /\ s.arch = "ia32" => s.dst < 2 * JmpRange

VARIABLES plugin,     \* near_branch_trampoline: the number of a plugin, or 0
          plugins,    \* RoutingPluginManager::plugins
          deleted,    \* plugins that were deleted
          site,       \* the hook whose trampoline is being made
          called,     \* the plugin that is called, or 0
          buffer,     \* trampoline_buffer_
          forward,    \* the forward trampoline
          block,      \* the near memory that was allocated: [addr, size]
          stub,       \* the near data memory that holds the target: [addr, val]
          step

tvars == <<plugin, plugins, deleted, site, called, buffer, forward, block, stub, step>>

------------------------------------------------------------------------------
(***************************************************************************)
(* Code that ends in a jump.  op tells how the jump gets its target, at is *)
(* its address, pos and off the position and the displacement of the       *)
(* instruction that is relative to the pc, add the immediate of an add,    *)
(* lit the position of the literal and val its value.                      *)
(***************************************************************************)
Code(o, a, n) == [op |-> o, at |-> a, pos |-> 0, off |-> 0, add |-> 0, lit |-> 0, val |-> 0, size |-> n]

NoCode == Code("none", 0, 0)

PageOf(a) == a - (a % PageSize)

\* A displacement as the signed field of an instruction holds it.
Field(d, range) == ((d + range) % (2 * range)) - range

Distance(a, b) == IF a > b THEN a - b ELSE b - a

\* AdrpAdd(TMP_REG_0, from, to); br(TMP_REG_0)
AdrpBranch(from, to) ==
  [Code("adrp", from, 12) EXCEPT !.off = Field(PageOf(to) - PageOf(from), AdrpRange), !.add = to % PageSize]

\* Mov(TMP_REG_0, to); br(TMP_REG_0)
MovBranch(from, to) == [Code("mov", from, 20) EXCEPT !.val = to]

\* CodeGen::LiteralLdrBranch of arm64; RelocBind puts the label behind the code.
LiteralLdrBranch64(from, to) == [Code("ldr", from, 16) EXCEPT !.off = 8, !.lit = 8, !.val = to]

\* CodeGen::LiteralLdrBranch of arm
LiteralLdrBranch(from, to) == [Code("ldr", from, 8) EXCEPT !.off = -4, !.lit = 4, !.val = to]

\* AlignThumbNop: the size of the nop it emits.
AlignThumbNop(pc) == IF pc % 4 # 0 THEN 2 ELSE 0

generate_thumb_trampoline(from, to) ==
  LET nop == AlignThumbNop(from)
  IN [Code("ldr", from, nop + 8) EXCEPT !.pos = nop, !.lit = nop + 4, !.val = to]

\* CodeGen::JmpNearIndirect
JmpNearIndirect(from, forward_stub) ==
  [Code("jmp_mem", from, 6) EXCEPT !.off = Field(forward_stub - (from + 6), JmpRange)]

\* CodeGen::JmpNear
JmpNear(from, to) == [Code("jmp", from, 5) EXCEPT !.off = Field(to - (from + 5), JmpRange)]

\* allocateNearExecMemory and allocateNearDataMemory: n bytes in the reach of pos.
NearMemory(n, pos, range) ==
  {a \in {pos - range + k * NearStep : k \in 0..((2 * range) \div NearStep)} : a > 0 /\ a + n <= pos + range}

------------------------------------------------------------------------------
NoSite == [arch |-> "arm", src |-> 0, dst |-> 0]

NoBlock == [addr |-> 0, size |-> 0]

NoStubYet == [addr |-> 0, val |-> 0]

TrampolineInit ==
  /\ plugin = 0 /\ plugins = <<>> /\ deleted = {} /\ called = 0
  /\ site = NoSite /\ buffer = NoCode /\ forward = NoCode
  /\ block = NoBlock /\ stub = NoStubYet /\ step = "idle"

\* A new routing, with no trampoline yet.
InterceptRouting(s) ==
  /\ step \in {"idle", "done"}
  /\ site' = s /\ called' = 0 /\ buffer' = NoCode /\ forward' = NoCode
  /\ block' = NoBlock /\ stub' = NoStubYet /\ step' = "start"
  /\ UNCHANGED <<plugin, plugins, deleted>>

dobby_enable_near_branch_trampoline ==
  /\ Len(plugins) < MaxPlugins
  /\ plugins' = Append(plugins, Len(plugins) + 1)
  /\ plugin' = Len(plugins) + 1
  /\ UNCHANGED <<deleted, site, called, buffer, forward, block, stub, step>>

\* The plugin stays in plugins; the ones enabled before it are never deleted.
dobby_disable_near_branch_trampoline ==
  /\ deleted' = deleted \cup ({plugin} \ {0})
  /\ plugin' = 0
  /\ UNCHANGED <<plugins, site, called, buffer, forward, block, stub, step>>

\* GenerateTrampolineBuffer tests near_branch_trampoline ...
ReadPlugin ==
  /\ step = "start"
  /\ step' = IF plugin # 0 THEN "read" ELSE "normal"
  /\ UNCHANGED <<plugin, plugins, deleted, site, called, buffer, forward, block, stub>>

\* ... and reads it again for the call, which is one of nullptr when it is disabled between.
ReadPluginAgain ==
  /\ step = "read"
  /\ called' = plugin
  /\ step' = IF plugin # 0 THEN "call" ELSE "faulted"
  /\ UNCHANGED <<plugin, plugins, deleted, site, buffer, forward, block, stub>>

\* The virtual call on a plugin that another thread has deleted since faults, or finds the
\* freed memory as it was and goes on like any other.
CallDeleted ==
  /\ step = "call" /\ called \in deleted
  /\ step' = "faulted"
  /\ UNCHANGED <<plugin, plugins, deleted, site, called, buffer, forward, block, stub>>

\* Mutant: the range is not looked at.
InBranchRange_Always(src, dst) == TRUE

InBranchRange(src, dst) == Distance(dst, src) < BRange

\* The plugin has no trampoline but on arm64.
NearNull ==
  /\ step = "call" /\ site.arch # "a64"
  /\ step' = "normal"
  /\ UNCHANGED <<plugin, plugins, deleted, site, called, buffer, forward, block, stub>>

NearBranch(from, to) == [Code("b", from, 4) EXCEPT !.off = Field(to - from, BRange)]

\* GenerateNearTrampolineBuffer with a target that b reaches.
NearDirect ==
  /\ step = "call" /\ site.arch = "a64" /\ InBranchRange(site.src, site.dst)
  /\ buffer' = NearBranch(site.src, site.dst)
  /\ step' = "done"
  /\ UNCHANGED <<plugin, plugins, deleted, site, called, forward, block, stub>>

InAdrpRange(a, b) == Distance(a, b) < AdrpRange

\* GenerateFastForwardTrampoline: near memory for adrp, add and br.
ForwardMemory ==
  /\ step = "call" /\ site.arch = "a64" /\ ~InBranchRange(site.src, site.dst)
  /\ \E a \in NearMemory(12, site.src, BRange) :
       /\ block' = [addr |-> a, size |-> 12]
       /\ step' = IF InAdrpRange(a, site.dst) THEN "adrp" ELSE "mov"
  /\ UNCHANGED <<plugin, plugins, deleted, site, called, buffer, forward, stub>>

\* The target is out of the reach of adrp: memory once more, for mov and br.
ForwardMemoryAgain ==
  /\ step = "mov"
  /\ \E a \in NearMemory(20, site.src, BRange) : block' = [addr |-> a, size |-> 20]
  /\ step' = "mov2"
  /\ UNCHANGED <<plugin, plugins, deleted, site, called, buffer, forward, stub>>

\* Without near memory the normal trampoline is used.
ForwardNull ==
  /\ \/ step = "call" /\ site.arch = "a64" /\ ~InBranchRange(site.src, site.dst)
     \/ step = "mov"
  /\ step' = "normal"
  /\ UNCHANGED <<plugin, plugins, deleted, site, called, buffer, forward, block, stub>>

\* FinalizeFromTurboAssembler, and the branch to what it wrote.
ForwardWritten ==
  /\ step \in {"adrp", "mov2"}
  /\ forward' = IF step = "adrp" THEN AdrpBranch(block.addr, site.dst) ELSE MovBranch(block.addr, site.dst)
  /\ buffer' = NearBranch(site.src, block.addr)
  /\ step' = "done"
  /\ UNCHANGED <<plugin, plugins, deleted, site, called, block, stub>>

\* GenerateNormalTrampolineBuffer of arm, arm64 and x86
NormalBuffer(s) ==
  CASE s.arch = "arm"   -> LiteralLdrBranch(s.src, s.dst)
    [] s.arch = "thumb" -> generate_thumb_trampoline(s.src - 1, s.dst)
    [] s.arch = "a64"   -> IF InAdrpRange(s.src, s.dst) THEN AdrpBranch(s.src, s.dst)
                           ELSE LiteralLdrBranch64(s.src, s.dst)
    [] s.arch = "ia32"  -> JmpNear(s.src, s.dst)

Normal ==
  /\ step = "normal" /\ site.arch # "x64"
  /\ buffer' = NormalBuffer(site)
  /\ step' = "done"
  /\ UNCHANGED <<plugin, plugins, deleted, site, called, forward, block, stub>>

\* GenerateNormalTrampolineBuffer of x64: the target is put in a stub near the jump.
NormalX64 ==
  /\ step = "normal" /\ site.arch = "x64"
  /\ \E a \in NearMemory(8, site.src + 6, JmpRange) :
       /\ stub' = [addr |-> a, val |-> site.dst]
       /\ buffer' = JmpNearIndirect(site.src, a)
  /\ step' = "done"
  /\ UNCHANGED <<plugin, plugins, deleted, site, called, forward, block>>

\* Without a stub there is no trampoline, and the routing goes on with nullptr.
NoStub ==
  /\ step = "normal" /\ site.arch = "x64"
  /\ step' = "faulted"
  /\ UNCHANGED <<plugin, plugins, deleted, site, called, buffer, forward, block, stub>>

Generate ==
  \/ ReadPlugin \/ ReadPluginAgain \/ CallDeleted \/ NearNull \/ NearDirect \/ ForwardMemory
  \/ ForwardMemoryAgain \/ ForwardNull \/ ForwardWritten \/ Normal \/ NormalX64 \/ NoStub

TrampolineNext ==
  \/ dobby_enable_near_branch_trampoline \/ dobby_disable_near_branch_trampoline
  \/ \E s \in Sites : InterceptRouting(s)
  \/ Generate

TrampolineSpec == TrampolineInit /\ [][TrampolineNext]_tvars

------------------------------------------------------------------------------
(* Where a processor goes that executes the trampoline.                     *)

\* The address a pc-relative load reads from; nowhere a program can be.
LoadAddress(arch, c) ==
  LET a == c.at + c.pos
  IN c.off + (CASE arch = "arm" -> a + 8 [] arch = "thumb" -> (a + 4) - ((a + 4) % 4) [] OTHER -> a)

Nowhere == -1

\* The target of a jump that has one in its own code.
Target(arch, c) ==
  CASE c.op = "b"       -> c.at + c.off
    [] c.op = "adrp"    -> PageOf(c.at) + c.off + c.add
    [] c.op = "mov"     -> c.val
    [] c.op = "ldr"     -> IF LoadAddress(arch, c) = c.at + c.lit THEN c.val ELSE Nowhere
    [] c.op = "jmp"     -> (c.at + 5 + c.off) % (2 * JmpRange)
    [] c.op = "jmp_mem" -> IF c.at + 6 + c.off = stub.addr THEN stub.val ELSE Nowhere
    [] OTHER            -> Nowhere

Reached ==
  LET t == Target(site.arch, buffer)
  IN IF forward # NoCode /\ t = forward.at THEN Target(site.arch, forward) ELSE t

\* adrp counts pages: a target less than AdrpRange above may be AdrpRange away in
\* pages, one more than the field holds.
PastLastPage ==
  LET c == IF forward # NoCode THEN forward ELSE buffer
  IN c.op = "adrp" /\ PageOf(site.dst) - PageOf(c.at) = AdrpRange

(***************************************************************************)
(* The trampoline leads to the target of the hook, whatever the plugin,    *)
(* the near memory and the distance, but for PastLastPage, where it goes   *)
(* to a place 2 * AdrpRange below; and a forward trampoline fits in the    *)
(* near memory it was given.                                               *)
(***************************************************************************)
TrampolineReaches ==
  step = "done" =>
    /\ (Reached = site.dst) <=> ~PastLastPage
    /\ forward # NoCode => forward.at = block.addr /\ forward.size <= block.size
=============================================================================
