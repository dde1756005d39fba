--------------------------- MODULE ClosureBridge ---------------------------
(***************************************************************************)
(* What runs when an instrumented instruction is reached: the closure      *)
(* trampoline, the closure bridge that builds a DobbyRegisterContext on    *)
(* the stack, common_closure_bridge_handler with the handler of the user,  *)
(* the way back through the bridge and the jump to the relocated code.     *)
(*                                                                         *)
(* Memory and offsets are counted in words of the processor (4 bytes for   *)
(* ARM and IA32, 8 for ARM64 and x64).  A register is a number: r0-r12,    *)
(* sp, lr of ARM; x0-x30 and SP of ARM64; the order of                     *)
(* DobbyRegisterContext.general for the x86s.  From 32 on there are the    *)
(* floating-point and vector registers: d0-d31 of ARM, the halves of       *)
(* q0-q31 of ARM64, xmm0-xmm7 and xmm0-xmm15, and after them st0-st7, of   *)
(* the x86s.                                                               *)
(***************************************************************************)
EXTENDS Integers, Sequences

CONSTANTS Stacks,   \* pairs <<isa, sp>>: where instrumented code may be interrupted
          Touches   \* for each isa the sets of context fields the user's handler may write

VARIABLES isa,      \* "arm", "arm64", "ia32" or "x64"
          regs,     \* the registers
          mem,      \* the stack
          sp0,      \* the stack pointer at the instrumented instruction
          pc,       \* the next step of the trampoline and the bridge
          touched,  \* the fields the handler wrote
          next      \* where control went, Nowhere while in the trampoline or the bridge

bridgeVars == <<isa, regs, mem, sp0, pc, touched, next>>

\* Values. Natural numbers are stack addresses.
Junk         == -1
Nowhere      == -2
TrampEntry   == -3     \* the ClosureTrampolineEntry
Bridge       == -4     \* get_closure_bridge()
AfterBlr     == -5     \* the instruction after blr in the trampoline of ARM64
Relocated    == -6     \* entry->relocated_addr
Orig(r)      == -(1000 + r)   \* the register at the instrumented instruction
Written(r)   == -(2000 + r)   \* what the handler writes to a field
Caller(a)    == -(3000 + a)   \* the word of the caller's stack

------------------------------------------------------------------------------
(* Registers.                                                               *)

SP(i)    == CASE i = "arm" -> 13 [] i = "arm64" -> 31 [] OTHER -> 5
Flags(i) == IF i = "arm64" THEN 96 ELSE 16
Q(n)     == 32 + 2 * n          \* the lower half of q<n>; the upper one follows
IsX86(i) == i \in {"ia32", "x64"}

Vectors(i) ==
  CASE i = "arm"   -> 32..63
    [] i = "arm64" -> 32..95
    [] i = "ia32"  -> 32..47
    [] i = "x64"   -> 32..55

Registers(i) ==
  Vectors(i) \cup
  CASE i = "arm"   -> (0..14) \cup {16}
    [] i = "arm64" -> (0..31) \cup {96}
    [] i = "ia32"  -> (0..7) \cup {16}
    [] i = "x64"   -> 0..16

------------------------------------------------------------------------------
(* DobbyRegisterContext: the offset of the field of a register.  The field  *)
(* sp, of its own, is at SpField.                                           *)

SpField(i) == IF i = "arm" THEN 3 ELSE 1

Fields(i) ==
  CASE i = "arm"   -> (0..12) \cup {14}
    [] i = "arm64" -> (0..30) \cup (Q(0)..Q(7) + 1)
    [] i = "ia32"  -> (0..7) \cup {16}
    [] i = "x64"   -> 0..16

Offset(i, r) ==
  CASE i = "arm"   -> IF r = 14 THEN 17 ELSE 4 + r
    [] i = "arm64" -> IF r <= 30 THEN 3 + r ELSE 34 + (r - 32)
    [] i = "ia32"  -> IF r = 16 THEN 3 ELSE 4 + r
    [] i = "x64"   -> IF r = 16 THEN 19 ELSE 2 + r

Isas == {"arm", "arm64", "ia32", "x64"}

\* The stack has room, and ARM64 keeps its stack pointer on 16 bytes.
ASSUME StacksAssumption ==
  \A s \in Stacks : /\ s \in Isas \X Nat /\ s[2] >= 70
                    /\ s[1] = "arm64" => s[2] % 2 = 0
\* A handler writes fields, -1 being the field sp.
ASSUME TouchesAssumption ==
  \A i \in Isas : Touches[i] \subseteq SUBSET (Fields(i) \cup {-1})

------------------------------------------------------------------------------
(* The instructions of the trampolines and the bridges.                     *)

Add(d, s, n)  == [op |-> "add", d |-> d, s |-> s, n |-> n]     \* d = s + n
Mov(d, s)     == [op |-> "mov", d |-> d, s |-> s, n |-> 0]     \* d = s
St(rs, n)     == [op |-> "st", d |-> rs, s |-> 0, n |-> n]     \* registers rs at sp + n
Ld(rs, n)     == [op |-> "ld", d |-> rs, s |-> 0, n |-> n]     \* registers rs from sp + n
Pop(rs)       == [op |-> "pop", d |-> rs, s |-> 0, n |-> 0]    \* ... and sp moves past them
Lit(r, v)     == [op |-> "lit", d |-> r, s |-> 0, n |-> v]     \* r = a literal
StLit(v)      == [op |-> "stlit", d |-> 0, s |-> 0, n |-> v]   \* the word at sp = a literal
PushLit(v)    == [op |-> "pushlit", d |-> 0, s |-> 0, n |-> v]
PushF         == [op |-> "pushf", d |-> 0, s |-> 0, n |-> 0]
JumpIfOdd(n)  == [op |-> "jodd", d |-> 0, s |-> 0, n |-> n]    \* n steps on if sp is not aligned
Jump(n)       == [op |-> "jump", d |-> 0, s |-> 0, n |-> n]
Call          == [op |-> "call", d |-> 0, s |-> 0, n |-> 0]    \* CallFunction of the handler
Leave(r)      == [op |-> "leave", d |-> r, s |-> 0, n |-> 0]   \* to the address in r
Ret           == [op |-> "ret", d |-> 0, s |-> 0, n |-> 0]     \* to the address at sp

\* CreateClosureTrampoline for ARM.
TrampolineARM == <<Lit(12, TrampEntry)>>

\* get_closure_bridge for ARM.
BridgeARM ==
  <<Add(13, 13, -14)>>
  \o <<St(<<14>>, 13)>> \o [i \in 1..13 |-> St(<<13 - i>>, 13 - i)]
  \o <<Add(0, 13, 14), Add(13, 13, -2), St(<<0>>, 1),
       Add(13, 13, -2), Mov(0, 13), Mov(1, 12), Call,
       Add(13, 13, 2), Add(13, 13, 2)>>
  \o [i \in 1..13 |-> Pop(<<i - 1>>)] \o <<Pop(<<14>>)>>
  \o <<Leave(12)>>

\* CreateClosureTrampoline for ARM64, before and after the bridge.
TrampolineARM64 ==
  <<Add(31, 31, -2), St(<<30>>, 1), Lit(17, TrampEntry), St(<<17>>, 0),
    Lit(17, Bridge), Lit(30, AfterBlr)>>

\* Mutants: the branch is forgotten; lr is loaded from the stack that is already free.
EpilogueARM64_NoBranch == <<Ld(<<30>>, 1), Add(31, 31, 2)>>
EpilogueARM64_LateLoad == <<Add(31, 31, 2), Ld(<<30>>, -1), Leave(17)>>
EpilogueARM64 == <<Ld(<<30>>, 1), Add(31, 31, 2), Leave(17)>>

\* stp and ldp of q registers move four words.
QPair(n) == <<Q(n), Q(n) + 1, Q(n + 1), Q(n + 1) + 1>>

\* get_closure_bridge for ARM64, without FULL_FLOATING_POINT_REGISTER_PACK.
BridgeARM64 ==
  <<Add(31, 31, -16)>>
  \o [i \in 1..4 |-> St(QPair(8 - 2 * i), 16 - 4 * i)]
  \o <<Add(31, 31, -30)>>
  \o [i \in 1..15 |-> St(<<31 - 2 * i, 32 - 2 * i>>, 30 - 2 * i)]
  \o <<Add(31, 31, -2), St(<<0>>, 1),
       Add(17, 31, 2), Add(17, 17, 2 + 30 + 16),
       Add(31, 31, -2), St(<<17>>, 1),
       Mov(0, 31), Ld(<<1>>, 34 + 16), Call,
       Add(31, 31, 2), Ld(<<0>>, 1), Add(31, 31, 2)>>
  \o [i \in 1..15 |-> Pop(<<2 * i - 1, 2 * i>>)]
  \o [i \in 1..4 |-> Pop(QPair(2 * i - 2))]
  \o <<Leave(30)>>

\* CreateClosureTrampoline for IA32 and x64.
TrampolineIA32 == <<Add(5, 5, -1), StLit(TrampEntry)>>
TrampolineX64  == <<PushLit(TrampEntry)>>

\* get_closure_bridge for IA32.
BridgeIA32 ==
  <<Add(5, 5, -8)>> \o [i \in 1..8 |-> St(<<i - 1>>, i - 1)]
  \o <<PushF, Pop(<<0>>), Add(5, 5, -2), St(<<0>>, 1),
       Mov(0, 5), Add(0, 0, 8 + 2 + 1), Add(5, 5, -2), St(<<0>>, 1),
       Add(5, 5, -2), Ld(<<0>>, 8 + 2 + 2 + 2), St(<<0>>, 1),
       Mov(0, 5), Add(0, 0, 2), St(<<0>>, 0), Call,
       Add(5, 5, 2), Add(5, 5, 2), Add(5, 5, 1), Pop(<<16>>)>>
  \o [i \in 1..5 |-> Pop(<<i - 1>>)] \o <<Add(5, 5, 1), Pop(<<6>>), Pop(<<7>>), Ret>>

\* Mutant: the alignment is not counted.
EntrySlotX64_NoPadding == 1 + 16 + 2
EntrySlotX64 == 1 + 1 + 16 + 2

\* get_closure_bridge for x64.
BridgeX64 ==
  <<PushF, Add(5, 5, -1), Add(5, 5, -16)>> \o [i \in 1..16 |-> St(<<i - 1>>, i - 1)]
  \o <<Mov(0, 5), Add(0, 0, 1 + 1 + 1 + 16), Add(5, 5, -2), St(<<0>>, 1),
       Mov(6, 5), Ld(<<7>>, EntrySlotX64),
       JumpIfOdd(3), Call, Jump(5),
       Add(5, 5, -1), St(<<0>>, 0), Call, Pop(<<0>>),
       Add(5, 5, 2)>>
  \o [i \in 1..5 |-> Pop(<<i - 1>>)] \o <<Add(5, 5, 1)>>
  \o [i \in 1..10 |-> Pop(<<i + 5>>)]
  \o <<Add(5, 5, 1), Pop(<<16>>), Ret>>

Program(i) ==
  CASE i = "arm"   -> TrampolineARM \o BridgeARM
    [] i = "arm64" -> TrampolineARM64 \o BridgeARM64 \o EpilogueARM64
    [] i = "ia32"  -> TrampolineIA32 \o BridgeIA32
    [] i = "x64"   -> TrampolineX64 \o BridgeX64

------------------------------------------------------------------------------
(* The machine.                                                             *)

BridgeInit ==
  /\ \E s \in Stacks : isa = s[1] /\ sp0 = s[2]
  /\ regs = [r \in Registers(isa) |-> IF r = SP(isa) THEN sp0 ELSE Orig(r)]
  /\ mem = [a \in (sp0 - 70)..(sp0 + 2) |-> IF a < sp0 THEN Junk ELSE Caller(a)]
  /\ pc = 1
  /\ touched = {}
  /\ next = Nowhere

Insn == Program(isa)[pc]
sp   == regs[SP(isa)]

\* Registers rs take the words from address a on; sp becomes s.
Loaded(rs, a, s) ==
  [r \in Registers(isa) |->
     CASE \E k \in DOMAIN rs : rs[k] = r -> mem[a + (CHOOSE k \in DOMAIN rs : rs[k] = r) - 1]
       [] r = SP(isa) -> s
       [] OTHER -> regs[r]]

Stored(vs, a) == [b \in DOMAIN mem |-> IF b \in a..(a + Len(vs) - 1) THEN vs[b - a + 1] ELSE mem[b]]

\* add and sub change the flags on the x86s and not on the ARMs.
Arithmetic(f) == IF IsX86(isa) THEN [f EXCEPT ![16] = Junk] ELSE f

Running(op) == next = Nowhere /\ Insn.op = op
Step(n)     == pc' = pc + n
Stay        == UNCHANGED <<isa, sp0, touched>>

DoAdd ==
  /\ Running("add")
  /\ regs' = [Arithmetic(regs) EXCEPT ![Insn.d] = regs[Insn.s] + Insn.n]
  /\ Step(1) /\ Stay /\ UNCHANGED <<mem, next>>

DoMov ==
  /\ Running("mov")
  /\ regs' = [regs EXCEPT ![Insn.d] = regs[Insn.s]]
  /\ Step(1) /\ Stay /\ UNCHANGED <<mem, next>>

DoStore ==
  /\ Running("st")
  /\ mem' = Stored([k \in DOMAIN Insn.d |-> regs[Insn.d[k]]], sp + Insn.n)
  /\ Step(1) /\ Stay /\ UNCHANGED <<regs, next>>

DoLoad ==
  /\ Running("ld")
  /\ regs' = Loaded(Insn.d, sp + Insn.n, sp)
  /\ Step(1) /\ Stay /\ UNCHANGED <<mem, next>>

DoPop ==
  /\ Running("pop")
  /\ regs' = Loaded(Insn.d, sp, sp + Len(Insn.d))
  /\ Step(1) /\ Stay /\ UNCHANGED <<mem, next>>

DoLit ==
  /\ Running("lit")
  /\ regs' = [regs EXCEPT ![Insn.d] = Insn.n]
  /\ Step(1) /\ Stay /\ UNCHANGED <<mem, next>>

DoStoreLit ==
  /\ Running("stlit")
  /\ mem' = Stored(<<Insn.n>>, sp)
  /\ Step(1) /\ Stay /\ UNCHANGED <<regs, next>>

DoPush ==
  /\ Running("pushlit") \/ Running("pushf")
  /\ regs' = [regs EXCEPT ![SP(isa)] = sp - 1]
  /\ mem' = Stored(<<IF Insn.op = "pushf" THEN regs[16] ELSE Insn.n>>, sp - 1)
  /\ Step(1) /\ Stay /\ UNCHANGED next

\* mov rax, rsp; and rax, 0xF; cmp rax, 0; jnz.
DoJumpIfOdd ==
  /\ Running("jodd")
  /\ regs' = [regs EXCEPT ![0] = sp % 2, ![16] = Junk]
  /\ Step(IF sp % 2 = 0 THEN 1 ELSE Insn.n) /\ Stay /\ UNCHANGED <<mem, next>>

DoJump ==
  /\ Running("jump")
  /\ Step(Insn.n) /\ Stay /\ UNCHANGED <<regs, mem, next>>

\* mov pc, r12; br; ret of ARM64, which goes on in the trampoline when x30 still says so.
DoLeave ==
  /\ Running("leave")
  /\ IF regs[Insn.d] = AfterBlr
     THEN Step(1) /\ UNCHANGED next
     ELSE next' = regs[Insn.d] /\ UNCHANGED pc
  /\ Stay /\ UNCHANGED <<regs, mem>>

DoRet ==
  /\ Running("ret")
  /\ next' = mem[sp]
  /\ regs' = [regs EXCEPT ![SP(isa)] = sp + 1]
  /\ Stay /\ UNCHANGED <<mem, pc>>

------------------------------------------------------------------------------
(* The handler.                                                             *)

\* The arguments of common_closure_bridge_handler, by the calling convention.
ArgContext == CASE isa \in {"arm", "arm64"} -> regs[0] [] isa = "x64" -> regs[6]
                [] isa = "ia32" -> mem[sp]
ArgEntry   == CASE isa \in {"arm", "arm64"} -> regs[1] [] isa = "x64" -> regs[7]
                [] isa = "ia32" -> mem[sp + 1]

\* What a C function need not keep: r0-r3, r12, lr and all but d8-d15; x0-x18, x30 and all
\* but the lower halves of q8-q15; eax, ecx, edx; rax, rcx, rdx, rdi, rsi, r8-r11; and
\* every vector register of the x86s.
Volatile(i) ==
  CASE i = "arm"   -> {0, 1, 2, 3, 12, 14, 16} \cup (32..39) \cup (48..63)
    [] i = "arm64" -> (0..18) \cup {30, 96} \cup ((32..95) \ {Q(n) : n \in 8..15})
    [] i = "ia32"  -> {0, 2, 3, 16} \cup (32..47)
    [] i = "x64"   -> {0, 2, 3, 6, 7, 8, 9, 10, 11, 16} \cup (32..55)

\* The word of the field f of the context c, f = -1 for the field sp.
Word(c, f) == c + (IF f = -1 THEN SpField(isa) ELSE Offset(isa, f))

\* set_routing_bridge_next_hop, in memory m: the field of r12 or x17, or the word below the
\* address in the field sp, where the trampoline keeps the entry.
NextHopARM(c, m)   == [m EXCEPT ![Word(c, 12)] = Relocated]
NextHopARM64(c, m) == [m EXCEPT ![Word(c, 17)] = Relocated]
NextHopIA32(c, m)  == [m EXCEPT ![m[Word(c, -1)] - 1] = Relocated]
NextHopX64(c, m)   == [m EXCEPT ![m[Word(c, -1)] - 1] = Relocated]

set_routing_bridge_next_hop(c, m) ==
  CASE isa = "arm"   -> NextHopARM(c, m)
    [] isa = "arm64" -> NextHopARM64(c, m)
    [] isa = "ia32"  -> NextHopIA32(c, m)
    [] isa = "x64"   -> NextHopX64(c, m)

\* The handler of the user writes the fields of t; a field sp that is written holds an
\* address of the caller's stack.
PreHandler(c, t) ==
  [a \in DOMAIN mem |->
     IF \E f \in t : a = Word(c, f)
     THEN LET f == CHOOSE g \in t : a = Word(c, g)
          IN IF f = -1 THEN sp0 + 2 ELSE Written(f)
     ELSE mem[a]]

\* The memory after instrument_forward_handler; t = {} is also the entry without a handler.
instrument_forward_handler(c, t) == set_routing_bridge_next_hop(c, PreHandler(c, t))

\* common_closure_bridge_handler, which finds the handler in the entry it is given.
CallHandler ==
  /\ Running("call")
  /\ \E t \in Touches[isa] :
       /\ touched' = t
       /\ mem' = [a \in DOMAIN mem |->
                    IF a < sp THEN Junk ELSE instrument_forward_handler(ArgContext, t)[a]]
  /\ regs' = [r \in Registers(isa) |-> IF r \in Volatile(isa) THEN Junk ELSE regs[r]]
  /\ Step(1) /\ UNCHANGED <<isa, sp0, next>>

\* A signal is delivered and its handler uses the stack below sp, and below the red zone
\* of 128 bytes on x64.
Signal ==
  LET top == IF isa = "x64" THEN sp - 16 ELSE sp
  IN /\ next = Nowhere
     /\ mem' = [a \in DOMAIN mem |-> IF a < top THEN Junk ELSE mem[a]]
     /\ mem' # mem
     /\ UNCHANGED <<isa, regs, sp0, pc, touched, next>>

BridgeNext ==
  \/ DoAdd \/ DoMov \/ DoStore \/ DoLoad \/ DoPop \/ DoLit \/ DoStoreLit \/ DoPush
  \/ DoJumpIfOdd \/ DoJump \/ DoLeave \/ DoRet \/ CallHandler \/ Signal

BridgeSpec == BridgeInit /\ [][BridgeNext]_bridgeVars

------------------------------------------------------------------------------
(* Properties.                                                              *)

\* The machine stays inside the trampoline and the bridge until it leaves them, and inside
\* the part of the stack the bridges use: no load or store of them goes beyond it.
BridgeTypeOK ==
  /\ <<isa, sp0>> \in Stacks
  /\ regs \in [Registers(isa) -> Int]
  /\ mem \in [(sp0 - 70)..(sp0 + 2) -> Int]
  /\ pc \in 1..Len(Program(isa))
  /\ touched \in {{}} \cup Touches[isa]
  /\ next \in Int

\* Registers whose field does not show the value of the instrumented code: the scratch
\* registers of the trampolines, lr of ARM64, which blr has overwritten, the stack pointer
\* in general.regs, and the flags of IA32, saved after `sub esp`.
NotShown(i) ==
  CASE i = "arm" -> {12} [] i = "arm64" -> {17, 30} [] i = "ia32" -> {5, 16} [] i = "x64" -> {5}

\* The stack at the call is aligned as the calling convention asks: always on x64, which
\* checks it, and on ARM64, where it always is; on the others when the instrumented code
\* was itself at the entry of a function.
AlignedCall ==
  CASE isa = "arm"  -> sp % 2 = 0 <=> sp0 % 2 = 0
    [] isa = "ia32" -> sp % 4 = 0 <=> sp0 % 4 = 3
    [] OTHER        -> sp % 2 = 0

\* When the handler is called, its arguments are the trampoline's entry and a context that
\* shows the registers and the stack pointer of the instrumented code, all but NotShown.
ContextShown ==
  Running("call") =>
    /\ ArgEntry = TrampEntry
    /\ ArgContext \in DOMAIN mem
    /\ mem[Word(ArgContext, -1)] = sp0
    /\ \A r \in Fields(isa) : mem[Word(ArgContext, r)] = Orig(r) <=> r \notin NotShown(isa)
    /\ AlignedCall

\* What the instrumented code loses: the scratch registers of ARM and ARM64, the flags of
\* all but x64 -- which IA32 saves after `sub esp` and changes again after popfd -- and the
\* vector registers that a C function need not keep and the bridges do not save: all such
\* of ARM and the x86s, d0-d7 and d16-d31, xmm and st, and those but q0-q7 of ARM64.
Lost(i) ==
  ((Vectors(i) \cap Volatile(i)) \ Fields(i)) \cup
  CASE i = "arm"   -> {12, 16}
    [] i = "arm64" -> {17, 96}
    [] i = "ia32"  -> {16}
    [] i = "x64"   -> {}

\* A handler that leaves alone what steers the bridge itself: the field sp of the x86s, by
\* which the next hop is found, and lr of ARM64, by which the bridge returns.
Steers(i) == CASE IsX86(i) -> {-1} [] i = "arm64" -> {30} [] OTHER -> {}

\* The bridge hands control to the relocated code, exactly when the handler leaves the
\* fields that steer it alone; the stack pointer and the caller's stack are then as they
\* were, every register but those of Lost has the value the handler wrote to its field, or
\* its own, and those of Lost do not have their own.
HopsWithContext ==
  next # Nowhere =>
    /\ next = Relocated <=> touched \cap Steers(isa) = {}
    /\ next = Relocated =>
         /\ sp = sp0
         /\ \A a \in sp0..(sp0 + 2) : mem[a] = Caller(a)
         /\ \A r \in Registers(isa) \ (Lost(isa) \cup {SP(isa)}) :
              regs[r] = IF r \in touched THEN Written(r) ELSE Orig(r)
         /\ \A r \in Lost(isa) : regs[r] # Orig(r)

=============================================================================
