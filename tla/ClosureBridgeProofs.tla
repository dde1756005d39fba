------------------------ MODULE ClosureBridgeProofs ------------------------
(***************************************************************************)
(* Proofs of the properties of ClosureBridge, for every stack pointer and  *)
(* every set of fields that a handler may write, with signals between any  *)
(* two instructions.                                                       *)
(*                                                                         *)
(* The invariant says what every register and every word the bridge has    *)
(* written hold before each instruction; the words below the stack pointer *)
(* are anything.  A lemma for each kind of instruction reduces a step to   *)
(* an equation between two lines of that table.                            *)
(***************************************************************************)
EXTENDS ClosureBridge, TLAPS

------------------------------------------------------------------------------
(* Lists, and the programs as lists.                                        *)

IsList(s) == s \in Seq({s[i] : i \in 1..Len(s)})

\* A sequence is one of its own elements.
LEMMA OwnValues ==
  ASSUME NEW S, NEW w \in Seq(S)
  PROVE  IsList(w)
<1> DEFINE T == {w[i] : i \in 1..Len(w)}
<1>1. w \in [1..Len(w) -> S] /\ Len(w) \in Nat
  OBVIOUS
<1>2. \A i \in 1..Len(w) : w[i] \in T
  OBVIOUS
<1> HIDE DEF T
<1>3. w \in [1..Len(w) -> T]
  BY <1>1, <1>2
<1>4. w \in Seq(T)
  BY <1>1, <1>3
<1> QED
  BY <1>4 DEF T, IsList

\* The elements of two lists, one after the other.
LEMMA Joined ==
  ASSUME NEW s, NEW t, IsList(s), IsList(t)
  PROVE  /\ IsList(s \o t)
         /\ Len(s) \in Nat /\ Len(t) \in Nat /\ Len(s \o t) = Len(s) + Len(t)
         /\ \A k \in 1..(Len(s) + Len(t)) :
              (s \o t)[k] = IF k <= Len(s) THEN s[k] ELSE t[k - Len(s)]
<1> DEFINE S == {s[i] : i \in 1..Len(s)} \cup {t[i] : i \in 1..Len(t)}
<1>1. s \in Seq(S) /\ t \in Seq(S)
  BY DEF IsList
<1> HIDE DEF S
<1>2. /\ s \o t \in Seq(S) /\ Len(s \o t) = Len(s) + Len(t)
      /\ Len(s) \in Nat /\ Len(t) \in Nat
      /\ \A k \in 1..(Len(s) + Len(t)) :
              (s \o t)[k] = IF k <= Len(s) THEN s[k] ELSE t[k - Len(s)]
  BY <1>1
<1>3. IsList(s \o t)
  BY <1>2, OwnValues
<1> QED
  BY <1>2, <1>3

\* A list given by a function of the position.
LEMMA Loop ==
  ASSUME NEW n \in Nat, NEW f, f = [i \in 1..n |-> f[i]]
  PROVE  IsList(f) /\ Len(f) = n
  BY DEF IsList

------------------------------------------------------------------------------
(* What each instruction does.                                              *)

\* A step is a signal or the instruction at pc.
LEMMA OneOp ==
  BridgeNext =>
    \/ Signal
    \/ Insn.op = "add" /\ DoAdd
    \/ Insn.op = "mov" /\ DoMov
    \/ Insn.op = "st" /\ DoStore
    \/ Insn.op = "ld" /\ DoLoad
    \/ Insn.op = "pop" /\ DoPop
    \/ Insn.op = "lit" /\ DoLit
    \/ Insn.op = "stlit" /\ DoStoreLit
    \/ (Insn.op = "pushlit" \/ Insn.op = "pushf") /\ DoPush
    \/ Insn.op = "jodd" /\ DoJumpIfOdd
    \/ Insn.op = "jump" /\ DoJump
    \/ Insn.op = "leave" /\ DoLeave
    \/ Insn.op = "ret" /\ DoRet
    \/ Insn.op = "call" /\ CallHandler
  BY DEF BridgeNext, DoAdd, DoMov, DoStore, DoLoad, DoPop, DoLit, DoStoreLit, DoPush, DoJumpIfOdd,
         DoJump, DoLeave, DoRet, CallHandler, Running

\* d = s + n.
LEMMA AddStep ==
  ASSUME BridgeNext, ~Signal, NEW d, NEW s, NEW n, Insn = Add(d, s, n)
  PROVE  /\ regs' = [Arithmetic(regs) EXCEPT ![d] = regs[s] + n]
         /\ pc' = pc + 1 /\ UNCHANGED <<isa, sp0, touched, mem, next>> /\ next = Nowhere
<1>1. Insn.op = "add" /\ Insn.d = d /\ Insn.s = s /\ Insn.n = n
  BY DEF Add
<1> QED
  BY <1>1, OneOp DEF DoAdd, Running, Step, Stay

\* d = s.
LEMMA MovStep ==
  ASSUME BridgeNext, ~Signal, NEW d, NEW s, Insn = Mov(d, s)
  PROVE  /\ regs' = [regs EXCEPT ![d] = regs[s]]
         /\ pc' = pc + 1 /\ UNCHANGED <<isa, sp0, touched, mem, next>> /\ next = Nowhere
<1>1. Insn.op = "mov" /\ Insn.d = d /\ Insn.s = s
  BY DEF Mov
<1> QED
  BY <1>1, OneOp DEF DoMov, Running, Step, Stay

\* A literal into a register.
LEMMA LitStep ==
  ASSUME BridgeNext, ~Signal, NEW r, NEW v, Insn = Lit(r, v)
  PROVE  /\ regs' = [regs EXCEPT ![r] = v]
         /\ pc' = pc + 1 /\ UNCHANGED <<isa, sp0, touched, mem, next>> /\ next = Nowhere
<1>1. Insn.op = "lit" /\ Insn.d = r /\ Insn.n = v
  BY DEF Lit
<1> QED
  BY <1>1, OneOp DEF DoLit, Running, Step, Stay

\* The values vs, one for each word from a on.
LEMMA StoredWords ==
  ASSUME NEW vs, NEW m \in Nat, NEW a \in Int, vs = [j \in 1..m |-> vs[j]]
  PROVE  Stored(vs, a) = [c \in DOMAIN mem |-> IF c \in a..(a + m - 1) THEN vs[c - a + 1] ELSE mem[c]]
<1>1. Len(vs) = m
  OBVIOUS
<1> QED
  BY <1>1 DEF Stored

\* Registers stored at sp + n.
LEMMA StoreStep ==
  ASSUME BridgeNext, ~Signal, NEW rs, NEW m \in Nat, NEW n, Insn = St(rs, n), DOMAIN rs = 1..m,
         NEW w \in Int, w = sp + n
  PROVE  /\ mem' = [c \in DOMAIN mem |-> IF c \in w..(w + m - 1) THEN regs[rs[c - w + 1]] ELSE mem[c]]
         /\ pc' = pc + 1 /\ UNCHANGED <<isa, sp0, touched, regs, next>> /\ next = Nowhere
<1>1. Insn.op = "st" /\ Insn.d = rs /\ Insn.n = n
  BY DEF St
<1>2. DoStore
  BY <1>1, OneOp
<1> DEFINE vs == [j \in 1..m |-> regs[rs[j]]]
<1>3. mem' = Stored(vs, w)
  BY <1>1, <1>2 DEF DoStore
<1>4. vs = [j \in 1..m |-> vs[j]] /\ \A j \in 1..m : vs[j] = regs[rs[j]]
  OBVIOUS
<1> HIDE DEF vs
<1>5. Stored(vs, w) = [c \in DOMAIN mem |-> IF c \in w..(w + m - 1) THEN vs[c - w + 1] ELSE mem[c]]
  BY <1>4, StoredWords
<1>6. \A c \in Int : c \in w..(w + m - 1) => vs[c - w + 1] = regs[rs[c - w + 1]]
  BY <1>4
<1>7. mem' = [c \in DOMAIN mem |-> IF c \in w..(w + m - 1) THEN regs[rs[c - w + 1]] ELSE mem[c]]
  BY <1>3, <1>5, <1>6
<1> QED
  BY <1>2, <1>7 DEF DoStore, Running, Step, Stay

\* The registers rs take the words from a on, and sp becomes s.
LEMMA LoadedRegisters ==
  ASSUME NEW rs, NEW m \in Nat, DOMAIN rs = 1..m, NEW a \in Int, NEW s,
         \A i, j \in 1..m : rs[i] = rs[j] => i = j, \A j \in 1..m : rs[j] # SP(isa)
  PROVE  /\ Loaded(rs, a, s) = [r \in Registers(isa) |-> Loaded(rs, a, s)[r]]
         /\ \A j \in 1..m : rs[j] \in Registers(isa) => Loaded(rs, a, s)[rs[j]] = mem[a + j - 1]
         /\ \A r \in Registers(isa) : (\A j \in 1..m : rs[j] # r) =>
              Loaded(rs, a, s)[r] = IF r = SP(isa) THEN s ELSE regs[r]
<1>1. Loaded(rs, a, s) = [r \in Registers(isa) |-> Loaded(rs, a, s)[r]]
  BY DEF Loaded
<1>2. ASSUME NEW j \in 1..m, rs[j] \in Registers(isa)
      PROVE  Loaded(rs, a, s)[rs[j]] = mem[a + j - 1]
  <2>1. \E k \in DOMAIN rs : rs[k] = rs[j]
    OBVIOUS
  <2>2. (CHOOSE k \in DOMAIN rs : rs[k] = rs[j]) = j
    OBVIOUS
  <2>3. rs[j] # SP(isa)
    OBVIOUS
  <2> QED
    BY <1>2, <2>1, <2>2, <2>3 DEF Loaded
<1>3. ASSUME NEW r \in Registers(isa), \A j \in 1..m : rs[j] # r
      PROVE  Loaded(rs, a, s)[r] = IF r = SP(isa) THEN s ELSE regs[r]
  BY <1>3 DEF Loaded
<1> QED
  BY <1>1, <1>2, <1>3

\* Registers loaded from sp + n.
LEMMA LoadStep ==
  ASSUME BridgeNext, ~Signal, NEW rs, NEW n, Insn = Ld(rs, n)
  PROVE  /\ regs' = Loaded(rs, sp + n, sp)
         /\ pc' = pc + 1 /\ UNCHANGED <<isa, sp0, touched, mem, next>> /\ next = Nowhere
<1>1. Insn.op = "ld" /\ Insn.d = rs /\ Insn.n = n
  BY DEF Ld
<1> QED
  BY <1>1, OneOp DEF DoLoad, Running, Step, Stay

\* Registers popped.
LEMMA PopStep ==
  ASSUME BridgeNext, ~Signal, NEW rs, Insn = Pop(rs)
  PROVE  /\ regs' = Loaded(rs, sp, sp + Len(rs))
         /\ pc' = pc + 1 /\ UNCHANGED <<isa, sp0, touched, mem, next>> /\ next = Nowhere
<1>1. Insn.op = "pop" /\ Insn.d = rs
  BY DEF Pop
<1> QED
  BY <1>1, OneOp DEF DoPop, Running, Step, Stay

\* A literal stored at sp.
LEMMA StoreLitStep ==
  ASSUME BridgeNext, ~Signal, NEW v, Insn = StLit(v), sp \in Int
  PROVE  /\ mem' = [c \in DOMAIN mem |-> IF c = sp THEN v ELSE mem[c]]
         /\ pc' = pc + 1 /\ UNCHANGED <<isa, sp0, touched, regs, next>> /\ next = Nowhere
<1>1. Insn.op = "stlit" /\ Insn.n = v
  BY DEF StLit
<1>2. DoStoreLit
  BY <1>1, OneOp
<1>3. mem' = Stored(<<v>>, sp)
  BY <1>1, <1>2 DEF DoStoreLit
<1>4. mem' = [c \in DOMAIN mem |-> IF c = sp THEN v ELSE mem[c]]
  <2>1. Len(<<v>>) = 1 /\ <<v>>[1] = v
    OBVIOUS
  <2> DEFINE w == sp
  <2>2. w \in Int
    OBVIOUS
  <2>3. mem' = Stored(<<v>>, w)
    BY <1>3
  <2> HIDE DEF w
  <2>4. mem' = [c \in DOMAIN mem |-> IF c = w THEN v ELSE mem[c]]
    BY <2>1, <2>2, <2>3 DEF Stored
  <2> QED
    BY <2>4 DEF w
<1> QED
  BY <1>2, <1>4 DEF DoStoreLit, Running, Step, Stay

\* A literal or the flags pushed.
LEMMA PushStep ==
  ASSUME BridgeNext, ~Signal, NEW v, sp \in Int,
         \/ Insn = PushLit(v)
         \/ Insn = PushF /\ v = regs[16]
  PROVE  /\ mem' = [c \in DOMAIN mem |-> IF c = sp - 1 THEN v ELSE mem[c]]
         /\ regs' = [regs EXCEPT ![SP(isa)] = sp - 1]
         /\ pc' = pc + 1 /\ UNCHANGED <<isa, sp0, touched, next>> /\ next = Nowhere
<1>1. \/ Insn.op = "pushlit" /\ Insn.n = v
      \/ Insn.op = "pushf" /\ v = regs[16]
  BY DEF PushLit, PushF
<1>2. DoPush
  BY <1>1, OneOp
<1>3. (IF Insn.op = "pushf" THEN regs[16] ELSE Insn.n) = v
  BY <1>1
<1> DEFINE u == IF Insn.op = "pushf" THEN regs[16] ELSE Insn.n
<1>4. mem' = Stored(<<u>>, sp - 1)
  BY <1>2 DEF DoPush
<1>5. mem' = Stored(<<v>>, sp - 1)
  BY <1>3, <1>4
<1>6. mem' = [c \in DOMAIN mem |-> IF c = sp - 1 THEN v ELSE mem[c]]
  <2>1. Len(<<v>>) = 1 /\ <<v>>[1] = v
    OBVIOUS
  <2> DEFINE w == sp - 1
  <2>2. w \in Int
    OBVIOUS
  <2>3. mem' = Stored(<<v>>, w)
    BY <1>5
  <2> HIDE DEF w
  <2>4. mem' = [c \in DOMAIN mem |-> IF c = w THEN v ELSE mem[c]]
    BY <2>1, <2>2, <2>3 DEF Stored
  <2> QED
    BY <2>4 DEF w
<1> QED
  BY <1>2, <1>6 DEF DoPush, Running, Step, Stay

\* The test of the alignment of x64.
LEMMA JumpIfOddStep ==
  ASSUME BridgeNext, ~Signal, NEW n, Insn = JumpIfOdd(n)
  PROVE  /\ regs' = [regs EXCEPT ![0] = sp % 2, ![16] = Junk]
         /\ pc' = pc + (IF sp % 2 = 0 THEN 1 ELSE n)
         /\ UNCHANGED <<isa, sp0, touched, mem, next>> /\ next = Nowhere
<1>1. Insn.op = "jodd" /\ Insn.n = n
  BY DEF JumpIfOdd
<1> QED
  BY <1>1, OneOp DEF DoJumpIfOdd, Running, Step, Stay

\* A jump inside the bridge.
LEMMA JumpStep ==
  ASSUME BridgeNext, ~Signal, NEW n, Insn = Jump(n)
  PROVE  /\ pc' = pc + n
         /\ UNCHANGED <<isa, sp0, touched, regs, mem, next>> /\ next = Nowhere
<1>1. Insn.op = "jump" /\ Insn.n = n
  BY DEF Jump
<1> QED
  BY <1>1, OneOp DEF DoJump, Running, Step, Stay

\* A branch by a register: out of the bridge, or to the literal after blr.
LEMMA LeaveStep ==
  ASSUME BridgeNext, ~Signal, NEW r, Insn = Leave(r)
  PROVE  /\ IF regs[r] = AfterBlr THEN pc' = pc + 1 /\ next' = next
                                  ELSE next' = regs[r] /\ pc' = pc
         /\ UNCHANGED <<isa, sp0, touched, regs, mem>> /\ next = Nowhere
<1>1. Insn.op = "leave" /\ Insn.d = r
  BY DEF Leave
<1> QED
  BY <1>1, OneOp DEF DoLeave, Running, Step, Stay

\* A return through the word at sp.
LEMMA RetStep ==
  ASSUME BridgeNext, ~Signal, Insn = Ret
  PROVE  /\ next' = mem[sp] /\ regs' = [regs EXCEPT ![SP(isa)] = sp + 1]
         /\ UNCHANGED <<isa, sp0, touched, mem, pc>> /\ next = Nowhere
<1>1. Insn.op = "ret"
  BY DEF Ret
<1> QED
  BY <1>1, OneOp DEF DoRet, Running, Stay

\* The call of the handler.
LEMMA CallStep ==
  ASSUME BridgeNext, ~Signal, Insn = Call
  PROVE  CallHandler
  BY OneOp DEF Call

------------------------------------------------------------------------------
(* The state before each step.  b is the stack pointer at the instrumented  *)
(* instruction, k the step, t the fields the handler has written.           *)

\* A register the bridge has restored.
Result(t, r) == IF r \in t THEN Written(r) ELSE Orig(r)

(* 32-bit ARM.                                                              *)

DepthARM(k) ==
  IF k <= 2 THEN 0 ELSE IF k <= 18 THEN 14 ELSE IF k <= 20 THEN 16
  ELSE IF k <= 24 THEN 18 ELSE IF k = 25 THEN 16 ELSE IF k <= 39 THEN 40 - k ELSE 0

ResultARM(t, r) == IF r = 12 THEN Relocated ELSE Result(t, r)

\* The register r.
RegARM(b, k, t, r) ==
  IF r = 13 THEN b - DepthARM(k)
  ELSE IF k <= 23 THEN
    CASE r = 12 -> IF k = 1 THEN Orig(12) ELSE TrampEntry
      [] r = 0  -> IF k <= 17 THEN Orig(0) ELSE IF k <= 21 THEN b ELSE b - 18
      [] r = 1  -> IF k <= 22 THEN Orig(1) ELSE TrampEntry
      [] OTHER  -> Orig(r)
  ELSE IF (r \in 0..12 /\ k > 26 + r) \/ (r = 14 /\ k >= 40) THEN ResultARM(t, r)
  ELSE IF r \in (4..11) \cup (40..47) THEN Orig(r) ELSE Junk

\* The lowest word of the stack that is known, and the words from there on.
LowARM(b, k) ==
  IF k <= 3 THEN b ELSE IF k <= 17 THEN b + 3 - k ELSE IF k <= 19 THEN b - 14
  ELSE IF k <= 23 THEN b - 15 ELSE IF k <= 25 THEN b - 14 ELSE b - DepthARM(k)

KnownARM(b, k, a) == a >= LowARM(b, k)

FieldARM(b, a) == IF a = b - 1 THEN 14 ELSE a - (b - 14)

WordARM(b, k, t, a) ==
  IF a >= b THEN Caller(a)
  ELSE IF a = b - 15 THEN b
  ELSE IF k > 23 THEN ResultARM(t, FieldARM(b, a))
  ELSE IF a = b - 2 THEN TrampEntry ELSE Orig(FieldARM(b, a))

(* ARM64.                                                                   *)

DepthARM64(k) ==
  IF k = 1 THEN 0 ELSE IF k <= 7 THEN 2 ELSE IF k <= 12 THEN 18 ELSE IF k <= 28 THEN 48
  ELSE IF k <= 32 THEN 50 ELSE IF k <= 37 THEN 52 ELSE IF k <= 39 THEN 50
  ELSE IF k <= 54 THEN 128 - 2 * k ELSE IF k <= 59 THEN 238 - 4 * k
  ELSE IF k <= 61 THEN 2 ELSE 0

ResultARM64(t, r) ==
  IF r = 17 THEN Relocated ELSE IF r = 30 /\ 30 \notin t THEN AfterBlr ELSE Result(t, r)

RegARM64(b, k, t, r) ==
  IF r = 31 THEN b - DepthARM64(k)
  ELSE IF k <= 36 THEN
    CASE r = 17 -> IF k <= 3 THEN Orig(17) ELSE IF k <= 5 THEN TrampEntry
                   ELSE IF k <= 30 THEN Bridge ELSE IF k = 31 THEN b - 48 ELSE b
      [] r = 30 -> IF k <= 6 THEN Orig(30) ELSE AfterBlr
      [] r = 0  -> IF k <= 34 THEN Orig(0) ELSE b - 52
      [] r = 1  -> IF k <= 35 THEN Orig(1) ELSE TrampEntry
      [] OTHER  -> Orig(r)
  ELSE IF r = 30 /\ k >= 61 THEN Orig(30)
  ELSE IF \/ r = 0 /\ k >= 39
          \/ r \in 1..30 /\ r <= 2 * (k - 40)
          \/ r \in 32..47 /\ r - 32 < 4 * (k - 55)
       THEN ResultARM64(t, r)
  ELSE IF r \in Volatile("arm64") THEN Junk ELSE Orig(r)

LowARM64(b, k) ==
  IF k <= 2 THEN b ELSE IF k <= 4 THEN b - 1 ELSE IF k <= 7 THEN b - 2
  ELSE IF k <= 12 THEN b + 30 - 4 * k ELSE IF k <= 28 THEN b + 8 - 2 * k
  ELSE IF k = 29 THEN b - 48 ELSE IF k <= 38 THEN b - 49 ELSE IF k = 39 THEN b - 48
  ELSE b - DepthARM64(k)

KnownARM64(b, k, a) == a >= LowARM64(b, k) \/ (a = b - 51 /\ k \in 34..36)

FieldARM64(b, a) == IF a < b - 18 THEN a - (b - 49) ELSE a - (b - 50)

WordARM64(b, k, t, a) ==
  IF a >= b THEN Caller(a)
  ELSE IF a = b - 1 THEN Orig(30)
  ELSE IF a = b - 2 THEN TrampEntry
  ELSE IF a = b - 51 THEN b
  ELSE IF k > 36 THEN ResultARM64(t, FieldARM64(b, a))
  ELSE IF a = b - 32 THEN Bridge ELSE IF a = b - 19 THEN AfterBlr ELSE Orig(FieldARM64(b, a))

(* The x86s: where the next hop goes, and what is then in the word below    *)
(* the instrumented code's stack pointer.                                   *)

HopX86(t) == IF -1 \in t THEN TrampEntry ELSE Relocated
CallerX86(b, t, a) == IF a = b + 1 /\ -1 \in t THEN Relocated ELSE Caller(a)

(* IA32.                                                                    *)

DepthIA32(k) ==
  IF k = 1 THEN 0 ELSE IF k <= 3 THEN 1 ELSE IF k <= 12 THEN 9 ELSE IF k = 13 THEN 10
  ELSE IF k = 14 THEN 9 ELSE IF k <= 18 THEN 11 ELSE IF k <= 20 THEN 13
  ELSE IF k <= 27 THEN 15 ELSE IF k = 28 THEN 13 ELSE IF k = 29 THEN 11 ELSE 40 - k

ResultIA32(t, r) == IF r = 16 /\ 16 \notin t THEN Junk ELSE Result(t, r)

RegIA32(b, k, t, r) ==
  IF r = 5 THEN b - DepthIA32(k)
  ELSE IF k <= 26 THEN
    CASE r = 0  -> IF k <= 13 THEN Orig(0) ELSE IF k <= 16 THEN Junk ELSE IF k = 17 THEN b - 11
                   ELSE IF k <= 21 THEN b ELSE IF k <= 23 THEN TrampEntry
                   ELSE IF k = 24 THEN b - 15 ELSE b - 13
      [] r = 16 -> IF k = 1 THEN Orig(16) ELSE Junk
      [] OTHER  -> Orig(r)
  ELSE IF r = 16 THEN IF k \in 31..36 THEN ResultIA32(t, 16) ELSE Junk
  ELSE IF k > 31 + r THEN Result(t, r)
  ELSE IF r \in {1, 4, 6, 7} THEN Orig(r) ELSE Junk

KnownIA32(b, k, a) ==
  IF a >= b THEN TRUE
  ELSE IF k <= 26 THEN
    \/ a = b - 1 /\ k >= 3
    \/ a \in (b - 9)..(b - 2) /\ k > 4 + (a - (b - 9))
    \/ a = b - 10 /\ (k = 13 \/ k >= 16)
    \/ a = b - 12 /\ k >= 20
    \/ a = b - 14 /\ k >= 23
    \/ a = b - 15 /\ k = 26
  ELSE
    \/ a = b - 1 /\ k <= 39
    \/ a \in (b - 9)..(b - 2) /\ a # b - 4 /\ k <= 31 + (a - (b - 9))
    \/ a = b - 10 /\ k <= 30

WordIA32(b, k, t, a) ==
  IF k <= 26 THEN
    CASE a >= b     -> Caller(a)
      [] a = b - 1  -> TrampEntry
      [] a = b - 4  -> b - 9
      [] a = b - 10 -> Junk
      [] a = b - 12 -> b
      [] a = b - 14 -> TrampEntry
      [] a = b - 15 -> b - 13
      [] OTHER      -> Orig(a - (b - 9))
  ELSE
    CASE a >= b     -> CallerX86(b, t, a)
      [] a = b - 1  -> HopX86(t)
      [] a = b - 10 -> ResultIA32(t, 16)
      [] OTHER      -> Result(t, a - (b - 9))

(* x64.  Steps 28, 29 are taken when the stack is aligned, 30 to 33 when it *)
(* is not.                                                                  *)

DepthX64(k) ==
  IF k <= 4 THEN k - 1 ELSE IF k <= 23 THEN 19 ELSE IF k <= 30 THEN 21
  ELSE IF k <= 33 THEN 22 ELSE IF k = 34 THEN 21 ELSE 54 - k

CalledX64(k) == k = 29 \/ k >= 33
OddX64(b)    == (b - 21) % 2

RegX64(b, k, t, r) ==
  IF r = 5 THEN b - DepthX64(k)
  ELSE IF ~CalledX64(k) THEN
    CASE r = 0  -> IF k <= 21 THEN Orig(0) ELSE IF k = 22 THEN b - 19
                   ELSE IF k <= 27 THEN b ELSE OddX64(b)
      [] r = 6  -> IF k <= 25 THEN Orig(6) ELSE b - 21
      [] r = 7  -> IF k <= 26 THEN Orig(7) ELSE TrampEntry
      [] r = 16 -> IF k <= 3 THEN Orig(16) ELSE Junk
      [] OTHER  -> Orig(r)
  ELSE IF r = 16 THEN IF k >= 53 THEN Result(t, 16) ELSE Junk
  ELSE IF k > 35 + r THEN Result(t, r)
  ELSE IF r = 0 /\ k >= 34 /\ OddX64(b) = 1 THEN 1
  ELSE IF r \in {1, 4, 12, 13, 14, 15} THEN Orig(r) ELSE Junk

KnownX64(b, k, a) ==
  IF a >= b THEN TRUE
  ELSE IF ~CalledX64(k) THEN
    \/ a = b - 1 /\ k >= 2
    \/ a = b - 2 /\ k >= 3
    \/ a \in (b - 19)..(b - 4) /\ k > 5 + (a - (b - 19))
    \/ a = b - 20 /\ k >= 25
    \/ a = b - 22 /\ k = 32
  ELSE
    \/ a = b - 1 /\ k <= 53
    \/ a = b - 2 /\ k <= 52
    \/ a \in (b - 19)..(b - 4) /\ a # b - 14 /\ k <= 35 + (a - (b - 19))
    \/ a = b - 22 /\ k = 33

WordX64(b, k, t, a) ==
  IF a = b - 22 THEN OddX64(b)
  ELSE IF ~CalledX64(k) THEN
    CASE a >= b     -> Caller(a)
      [] a = b - 1  -> TrampEntry
      [] a = b - 2  -> Orig(16)
      [] a = b - 14 -> b - 19
      [] a = b - 20 -> b
      [] OTHER      -> Orig(a - (b - 19))
  ELSE
    CASE a >= b     -> CallerX86(b, t, a)
      [] a = b - 1  -> HopX86(t)
      [] a = b - 2  -> Result(t, 16)
      [] OTHER      -> Result(t, a - (b - 19))

------------------------------------------------------------------------------
(* The inductive invariant.                                                 *)

\* The steps of the trampoline and the bridge.
Length(i) == CASE i = "arm" -> 40 [] i = "arm64" -> 62 [] i = "ia32" -> 39 [] i = "x64" -> 53

\* Register r before step k.
Reg(i, b, k, t, r) ==
  CASE i = "arm"  -> RegARM(b, k, t, r)  [] i = "arm64" -> RegARM64(b, k, t, r)
    [] i = "ia32" -> RegIA32(b, k, t, r) [] i = "x64"   -> RegX64(b, k, t, r)

\* The words that the bridge relies on before step k.
Known(i, b, k) ==
  {a \in (b - 70)..(b + 2) :
     CASE i = "arm"   -> KnownARM(b, k, a)
       [] i = "arm64" -> KnownARM64(b, k, a)
       [] i = "ia32"  -> KnownIA32(b, k, a)
       [] i = "x64"   -> KnownX64(b, k, a)}

\* What such a word holds.
Kept(i, b, k, t, a) ==
  CASE i = "arm"  -> WordARM(b, k, t, a)  [] i = "arm64" -> WordARM64(b, k, t, a)
    [] i = "ia32" -> WordIA32(b, k, t, a) [] i = "x64"   -> WordX64(b, k, t, a)

\* How the bridge decides where to go on.
Path(i, b, k, t) ==
  /\ i = "x64" /\ k \in {28, 29} => OddX64(b) = 0
  /\ i = "x64" /\ k \in 30..33 => OddX64(b) = 1
  /\ i = "arm64" /\ k >= 60 => 30 \notin t

\* Where control may go from step k.
Exits(i, k, t) ==
  CASE i = "arm"   -> IF k = 40 THEN {Relocated} ELSE {}
    [] i = "arm64" -> IF k = 62 THEN {Relocated} ELSE IF k = 59 /\ 30 \in t THEN {Written(30)} ELSE {}
    [] i = "ia32"  -> IF k = 39 THEN {HopX86(t)} ELSE {}
    [] i = "x64"   -> IF k = 53 THEN {HopX86(t)} ELSE {}

\* The step whose registers and words these are: one more once control has gone.
Stage == IF next = Nowhere THEN pc ELSE pc + 1

\* The parts of the invariant.
Place ==
  /\ isa \in Isas /\ <<isa, sp0>> \in Stacks /\ sp0 \in Nat /\ sp0 >= 70
  /\ isa = "arm64" => sp0 % 2 = 0
Progress ==
  /\ pc \in 1..Length(isa) /\ Path(isa, sp0, pc, touched)
  /\ next = Nowhere \/ next \in Exits(isa, pc, touched)
Writes  == touched = {} \/ touched \in Touches[isa]
RegsAre ==
  /\ regs \in [Registers(isa) -> Int]
  /\ \A r \in Registers(isa) : regs[r] = Reg(isa, sp0, Stage, touched, r)
MemIs   == mem \in [(sp0 - 70)..(sp0 + 2) -> Int]
WordsAre == \A a \in Known(isa, sp0, Stage) : mem[a] = Kept(isa, sp0, Stage, touched, a)

\* The inductive invariant.
BridgeInv == Place /\ Progress /\ Writes /\ RegsAre /\ MemIs /\ WordsAre

------------------------------------------------------------------------------
(* What has to hold of two lines of the table for an instruction to lead    *)
(* from the one to the other.                                               *)

\* A word known at step j is known, and the same, at step k.
SameWords(i, b, k, j, t) ==
  \A a \in Known(i, b, j) : a \in Known(i, b, k) /\ Kept(i, b, j, t, a) = Kept(i, b, k, t, a)

\* The registers before steps k and j.
SameRegs(i, b, k, j, t) == \A r \in Registers(i) : Reg(i, b, j, t, r) = Reg(i, b, k, t, r)

\* d = s + n.
AddFits(i, b, k, t, d, s, n) ==
  /\ d \in Registers(i) /\ s \in Registers(i) /\ n \in Int
  /\ \A r \in Registers(i) :
       Reg(i, b, k + 1, t, r) = IF r = d THEN Reg(i, b, k, t, s) + n
                                ELSE IF IsX86(i) /\ r = 16 THEN Junk ELSE Reg(i, b, k, t, r)
  /\ SameWords(i, b, k, k + 1, t)

\* d = v, where v is a literal or another register.
SetFits(i, b, k, t, d, v) ==
  /\ d \in Registers(i) /\ v \in Int
  /\ \A r \in Registers(i) : Reg(i, b, k + 1, t, r) = IF r = d THEN v ELSE Reg(i, b, k, t, r)
  /\ SameWords(i, b, k, k + 1, t)

\* The m registers from x on are stored at sp + n.
StoreFits(i, b, k, t, x, m, n) ==
  LET w == Reg(i, b, k, t, SP(i)) + n
  IN  /\ n \in Int /\ m \in Nat /\ x \in Int /\ x..(x + m - 1) \subseteq Registers(i)
      /\ SameRegs(i, b, k, k + 1, t)
      /\ w \in Int /\ w >= b - 70 /\ w + m - 1 <= b + 2
      /\ \A a \in Known(i, b, k + 1) :
           \/ a \in w..(w + m - 1) /\ Kept(i, b, k + 1, t, a) = Reg(i, b, k, t, x + (a - w))
           \/ /\ a \notin w..(w + m - 1) /\ a \in Known(i, b, k)
              /\ Kept(i, b, k + 1, t, a) = Kept(i, b, k, t, a)

\* The m registers from x on are loaded from sp + n, and sp moves by d.
LoadFits(i, b, k, t, x, m, n, d) ==
  LET w == Reg(i, b, k, t, SP(i)) + n
  IN  /\ n \in Int /\ m \in Nat /\ x \in Int /\ d \in Int
      /\ SP(i) \in Registers(i) /\ SP(i) \notin x..(x + m - 1)
      /\ \A a \in w..(w + m - 1) : a \in Known(i, b, k)
      /\ \A r \in Registers(i) :
           Reg(i, b, k + 1, t, r) = IF r \in x..(x + m - 1) THEN Kept(i, b, k, t, w + (r - x))
                                    ELSE IF r = SP(i) THEN Reg(i, b, k, t, SP(i)) + d
                                    ELSE Reg(i, b, k, t, r)
      /\ SameWords(i, b, k, k + 1, t)

\* The value v is stored at sp + n, and sp moves by n.
PushFits(i, b, k, t, v, n) ==
  LET w == Reg(i, b, k, t, SP(i)) + n
  IN  /\ n \in Int /\ v \in Int /\ w \in Int /\ w >= b - 70 /\ w <= b + 2
      /\ \A r \in Registers(i) : Reg(i, b, k + 1, t, r) = IF r = SP(i) THEN w ELSE Reg(i, b, k, t, r)
      /\ \A a \in Known(i, b, k + 1) :
           \/ a = w /\ Kept(i, b, k + 1, t, a) = v
           \/ a # w /\ a \in Known(i, b, k) /\ Kept(i, b, k + 1, t, a) = Kept(i, b, k, t, a)

\* StoreFits for one register.
LEMMA OneWord ==
  ASSUME NEW i, NEW b, NEW k, NEW j, j = k + 1, NEW t, NEW x \in Int, x \in Registers(i), NEW n \in Int,
         NEW w \in Int, w = Reg(i, b, k, t, SP(i)) + n, w >= b - 70, w <= b + 2, SameRegs(i, b, k, j, t),
         \A a \in Known(i, b, j) :
           \/ a = w /\ Kept(i, b, j, t, a) = Reg(i, b, k, t, x)
           \/ /\ a # w /\ a \in Known(i, b, k)
              /\ Kept(i, b, j, t, a) = Kept(i, b, k, t, a)
  PROVE  StoreFits(i, b, k, t, x, 1, n)
<1>1. \A a : a \in w..(w + 1 - 1) <=> a = w
  OBVIOUS
<1>2. x + (w - w) = x /\ w + 1 - 1 = w /\ x..(x + 1 - 1) = {x}
  OBVIOUS
<1> QED
  BY <1>1, <1>2 DEF StoreFits

\* LoadFits for one register.
LEMMA OnePop ==
  ASSUME NEW i, NEW b, NEW k \in Int, NEW j, j = k + 1, NEW t, NEW x \in Int, NEW w \in Int,
         w = Reg(i, b, k, t, SP(i)), w \in Known(i, b, k), SameWords(i, b, k, j, t),
         SP(i) \in Registers(i), SP(i) # x,
         \A r \in Registers(i) : Reg(i, b, j, t, r) = IF r = x THEN Kept(i, b, k, t, w)
                                            ELSE IF r = SP(i) THEN w + 1 ELSE Reg(i, b, k, t, r)
  PROVE  LoadFits(i, b, k, t, x, 1, 0, 1)
<1>1. \A a \in Int : a \in (w + 0)..((w + 0) + 1 - 1) <=> a = w
  OBVIOUS
<1>2. x..(x + 1 - 1) = {x} /\ w + 0 = w /\ (w + 0) + (x - x) = w
  OBVIOUS
<1>3. SP(i) \notin x..(x + 1 - 1) /\ SameWords(i, b, k, k + 1, t)
  BY <1>2
<1>4. \A a \in (w + 0)..((w + 0) + 1 - 1) : a \in Known(i, b, k)
  BY <1>1
<1>5. \A r \in Registers(i) :
        Reg(i, b, k + 1, t, r) = IF r \in x..(x + 1 - 1) THEN Kept(i, b, k, t, (w + 0) + (r - x))
                                 ELSE IF r = SP(i) THEN w + 1 ELSE Reg(i, b, k, t, r)
  <2> TAKE r \in Registers(i)
  <2>1. Reg(i, b, k + 1, t, r) = IF r = x THEN Kept(i, b, k, t, w)
                                 ELSE IF r = SP(i) THEN w + 1 ELSE Reg(i, b, k, t, r)
    OBVIOUS
  <2>2. r \in x..(x + 1 - 1) <=> r = x
    BY <1>2
  <2>3. r = x => Kept(i, b, k, t, (w + 0) + (r - x)) = Kept(i, b, k, t, w)
    BY <1>2
  <2> QED
    BY <2>1, <2>2, <2>3
<1>6. 0 \in Int /\ 1 \in Nat /\ 1 \in Int
  OBVIOUS
<1> QED
  BY <1>3, <1>4, <1>5, <1>6, Zenon DEF LoadFits

------------------------------------------------------------------------------
(* A step that fits keeps the invariant.                                    *)

\* The next step, j, is still in the bridge.
Stays(j) == j \in 1..Length(isa) /\ Path(isa, sp0, j, touched)

\* The next state is a line of the table: the invariant holds of it.
LEMMA Established ==
  ASSUME Place, UNCHANGED <<isa, sp0>>, NEW k, k \in 1..Length(isa), pc' = k, next' = Nowhere,
         NEW t, touched' = t, t = {} \/ t \in Touches[isa], Path(isa, sp0, k, t),
         regs' \in [Registers(isa) -> Int],
         \A r \in Registers(isa) : regs'[r] = Reg(isa, sp0, k, t, r),
         mem' \in [(sp0 - 70)..(sp0 + 2) -> Int],
         \A a \in Known(isa, sp0, k) : mem'[a] = Kept(isa, sp0, k, t, a)
  PROVE  BridgeInv'
<1>1. isa' = isa /\ sp0' = sp0 /\ Stage' = k
  BY DEF Stage
<1>2. Place'
  BY <1>1 DEF Place
<1>3. Progress'
  BY <1>1 DEF Progress
<1>4. Writes'
  BY <1>1 DEF Writes
<1>5. RegsAre'
  BY <1>1 DEF RegsAre
<1>6. MemIs'
  BY <1>1 DEF MemIs
<1>7. WordsAre'
  BY <1>1 DEF WordsAre
<1> QED
  BY <1>2, <1>3, <1>4, <1>5, <1>6, <1>7 DEF BridgeInv

\* Control has left the bridge from step k.
LEMMA EstablishedOut ==
  ASSUME Place, UNCHANGED <<isa, sp0>>, NEW k, k \in 1..Length(isa), pc' = k,
         NEW t, touched' = t, t = {} \/ t \in Touches[isa], Path(isa, sp0, k, t),
         next' \in Exits(isa, k, t), next' # Nowhere,
         regs' \in [Registers(isa) -> Int],
         \A r \in Registers(isa) : regs'[r] = Reg(isa, sp0, k + 1, t, r),
         mem' \in [(sp0 - 70)..(sp0 + 2) -> Int],
         \A a \in Known(isa, sp0, k + 1) : mem'[a] = Kept(isa, sp0, k + 1, t, a)
  PROVE  BridgeInv'
<1>1. isa' = isa /\ sp0' = sp0 /\ Stage' = k + 1
  BY DEF Stage
<1>2. Place'
  BY <1>1 DEF Place
<1>3. Progress'
  BY <1>1 DEF Progress
<1>4. Writes'
  BY <1>1 DEF Writes
<1>5. RegsAre'
  BY <1>1 DEF RegsAre
<1>6. MemIs'
  BY <1>1 DEF MemIs
<1>7. WordsAre'
  BY <1>1 DEF WordsAre
<1> QED
  BY <1>2, <1>3, <1>4, <1>5, <1>6, <1>7 DEF BridgeInv

\* The invariant inside the bridge.
LEMMA Inside ==
  ASSUME BridgeInv, next = Nowhere
  PROVE  /\ Place /\ pc \in 1..Length(isa) /\ Path(isa, sp0, pc, touched) /\ pc \in Nat
         /\ touched = {} \/ touched \in Touches[isa]
         /\ regs \in [Registers(isa) -> Int]
         /\ \A r \in Registers(isa) : regs[r] = Reg(isa, sp0, pc, touched, r)
         /\ mem \in [(sp0 - 70)..(sp0 + 2) -> Int]
         /\ \A a \in Known(isa, sp0, pc) : mem[a] = Kept(isa, sp0, pc, touched, a)
         /\ sp = Reg(isa, sp0, pc, touched, SP(isa)) /\ sp \in Int /\ SP(isa) \in Registers(isa)
         /\ sp0 \in Nat /\ sp0 >= 70
<1>1. Stage = pc
  BY DEF Stage
<1>2. Place /\ Progress /\ Writes /\ RegsAre /\ MemIs /\ WordsAre
  BY DEF BridgeInv
<1>3. pc \in 1..Length(isa) /\ Length(isa) \in Nat /\ pc \in Nat
  BY <1>2 DEF Progress, Place, Isas, Length
<1>4. /\ regs \in [Registers(isa) -> Int]
      /\ \A r \in Registers(isa) : regs[r] = Reg(isa, sp0, pc, touched, r)
  BY <1>1, <1>2 DEF RegsAre
<1>5. SP(isa) \in Registers(isa)
  BY <1>2 DEF Place, Isas, SP, Registers
<1>6. sp = Reg(isa, sp0, pc, touched, SP(isa)) /\ sp \in Int
  BY <1>4, <1>5 DEF sp
<1>7. \A a \in Known(isa, sp0, pc) : mem[a] = Kept(isa, sp0, pc, touched, a)
  BY <1>1, <1>2 DEF WordsAre
<1>8. sp0 \in Nat /\ sp0 >= 70
  BY <1>2 DEF Place
<1> QED
  BY <1>2, <1>3, <1>4, <1>5, <1>6, <1>7, <1>8 DEF Progress, Writes, MemIs

\* A step that leaves the stack alone.
LEMMA RegsKeep ==
  ASSUME BridgeInv, next = Nowhere, NEW j, pc' = j, Stays(j),
         UNCHANGED <<isa, sp0, touched, mem, next>>,
         regs' \in [Registers(isa) -> Int],
         \A r \in Registers(isa) : regs'[r] = Reg(isa, sp0, j, touched, r),
         SameWords(isa, sp0, pc, j, touched)
  PROVE  BridgeInv'
<1>1. \A a \in Known(isa, sp0, j) : mem'[a] = Kept(isa, sp0, j, touched, a)
  BY Inside DEF SameWords
<1>2. mem' \in [(sp0 - 70)..(sp0 + 2) -> Int] /\ Place /\ (touched = {} \/ touched \in Touches[isa])
  BY Inside
<1>3. j \in 1..Length(isa) /\ Path(isa, sp0, j, touched) /\ isa' = isa /\ sp0' = sp0
  BY DEF Stays
<1> QED
  BY <1>1, <1>2, <1>3, Established

\* An addition that fits.
LEMMA AddKeeps ==
  ASSUME BridgeInv, BridgeNext, ~Signal, NEW d, NEW s, NEW n, Insn = Add(d, s, n),
         AddFits(isa, sp0, pc, touched, d, s, n), Stays(pc + 1)
  PROVE  BridgeInv'
<1>1. /\ regs' = [Arithmetic(regs) EXCEPT ![d] = regs[s] + n]
      /\ pc' = pc + 1 /\ UNCHANGED <<isa, sp0, touched, mem, next>> /\ next = Nowhere
  BY AddStep
<1>2. /\ regs \in [Registers(isa) -> Int]
      /\ \A r \in Registers(isa) : regs[r] = Reg(isa, sp0, pc, touched, r)
  BY <1>1, Inside
<1>3. /\ d \in Registers(isa) /\ s \in Registers(isa) /\ n \in Int
      /\ \A r \in Registers(isa) :
           Reg(isa, sp0, pc + 1, touched, r)
             = IF r = d THEN Reg(isa, sp0, pc, touched, s) + n
               ELSE IF IsX86(isa) /\ r = 16 THEN Junk ELSE Reg(isa, sp0, pc, touched, r)
      /\ SameWords(isa, sp0, pc, pc + 1, touched)
  BY DEF AddFits
<1>4. /\ Arithmetic(regs) \in [Registers(isa) -> Int]
      /\ \A r \in Registers(isa) : Arithmetic(regs)[r] = IF IsX86(isa) /\ r = 16 THEN Junk ELSE regs[r]
  <2>1. CASE IsX86(isa)
    <3>1. Arithmetic(regs) = [regs EXCEPT ![16] = Junk] /\ Junk \in Int
      BY <2>1 DEF Arithmetic, Junk
    <3> QED
      BY <1>2, <2>1, <3>1
  <2>2. CASE ~IsX86(isa)
    BY <1>2, <2>2 DEF Arithmetic
  <2> QED
    BY <2>1, <2>2
<1>5. /\ regs' \in [Registers(isa) -> Int]
      /\ \A r \in Registers(isa) : regs'[r] = IF r = d THEN regs[s] + n ELSE Arithmetic(regs)[r]
  BY <1>1, <1>2, <1>3, <1>4
<1>6. \A r \in Registers(isa) : regs'[r] = Reg(isa, sp0, pc + 1, touched, r)
  BY <1>2, <1>3, <1>4, <1>5
<1> QED
  BY <1>1, <1>3, <1>5, <1>6, RegsKeep

\* A register takes a value.
LEMMA SetKeeps ==
  ASSUME BridgeInv, BridgeNext, ~Signal, NEW d, NEW v, SetFits(isa, sp0, pc, touched, d, v), Stays(pc + 1),
         \/ Insn = Lit(d, v)
         \/ \E s \in Registers(isa) : Insn = Mov(d, s) /\ Reg(isa, sp0, pc, touched, s) = v
  PROVE  BridgeInv'
<1>1. /\ pc' = pc + 1 /\ UNCHANGED <<isa, sp0, touched, mem, next>> /\ next = Nowhere
      /\ regs' = [regs EXCEPT ![d] = v]
  <2>1. CASE Insn = Lit(d, v)
    BY <2>1, LitStep
  <2>2. ASSUME NEW s \in Registers(isa), Insn = Mov(d, s), Reg(isa, sp0, pc, touched, s) = v
        PROVE  /\ pc' = pc + 1 /\ UNCHANGED <<isa, sp0, touched, mem, next>> /\ next = Nowhere
               /\ regs' = [regs EXCEPT ![d] = v]
    <3>1. /\ pc' = pc + 1 /\ UNCHANGED <<isa, sp0, touched, mem, next>> /\ next = Nowhere
          /\ regs' = [regs EXCEPT ![d] = regs[s]]
      BY <2>2, MovStep
    <3>2. regs[s] = v
      BY <2>2, <3>1, Inside
    <3> QED
      BY <3>1, <3>2
  <2> QED
    BY <2>1, <2>2
<1>2. /\ regs \in [Registers(isa) -> Int]
      /\ \A r \in Registers(isa) : regs[r] = Reg(isa, sp0, pc, touched, r)
  BY <1>1, Inside
<1>3. /\ d \in Registers(isa) /\ v \in Int
      /\ \A r \in Registers(isa) :
           Reg(isa, sp0, pc + 1, touched, r) = IF r = d THEN v ELSE Reg(isa, sp0, pc, touched, r)
      /\ SameWords(isa, sp0, pc, pc + 1, touched)
  BY DEF SetFits
<1>4. /\ regs' \in [Registers(isa) -> Int]
      /\ \A r \in Registers(isa) : regs'[r] = Reg(isa, sp0, pc + 1, touched, r)
  BY <1>1, <1>2, <1>3
<1> QED
  BY <1>1, <1>3, <1>4, RegsKeep

\* The m registers rs, from x on.
Run(rs, x, m) == DOMAIN rs = 1..m /\ Len(rs) = m /\ \A j \in 1..m : rs[j] = x + j - 1

\* A store that fits.
LEMMA StoreKeeps ==
  ASSUME BridgeInv, BridgeNext, ~Signal, NEW rs, NEW x, NEW m, NEW n, Insn = St(rs, n), Run(rs, x, m),
         StoreFits(isa, sp0, pc, touched, x, m, n), Stays(pc + 1)
  PROVE  BridgeInv'
<1> DEFINE w == sp + n
<1>1. next = Nowhere
  BY Inside, OneOp DEF St, DoStore, Running
<1>2. /\ regs \in [Registers(isa) -> Int] /\ mem \in [(sp0 - 70)..(sp0 + 2) -> Int]
      /\ \A r \in Registers(isa) : regs[r] = Reg(isa, sp0, pc, touched, r)
      /\ \A a \in Known(isa, sp0, pc) : mem[a] = Kept(isa, sp0, pc, touched, a)
      /\ sp0 \in Nat /\ Place /\ (touched = {} \/ touched \in Touches[isa])
      /\ sp = Reg(isa, sp0, pc, touched, SP(isa))
  BY <1>1, Inside
<1>3. /\ n \in Int /\ m \in Nat /\ x \in Int /\ x..(x + m - 1) \subseteq Registers(isa)
      /\ SameRegs(isa, sp0, pc, pc + 1, touched)
      /\ w \in Int /\ w >= sp0 - 70 /\ w + m - 1 <= sp0 + 2
      /\ \A a \in Known(isa, sp0, pc + 1) :
           \/ a \in w..(w + m - 1) /\ Kept(isa, sp0, pc + 1, touched, a) = Reg(isa, sp0, pc, touched, x + (a - w))
           \/ /\ a \notin w..(w + m - 1) /\ a \in Known(isa, sp0, pc)
              /\ Kept(isa, sp0, pc + 1, touched, a) = Kept(isa, sp0, pc, touched, a)
  BY <1>2 DEF StoreFits
<1>4. w = sp + n
  OBVIOUS
<1> HIDE DEF w
<1>5. /\ mem' = [c \in DOMAIN mem |-> IF c \in w..(w + m - 1) THEN regs[rs[c - w + 1]] ELSE mem[c]]
      /\ pc' = pc + 1 /\ UNCHANGED <<isa, sp0, touched, regs, next>> /\ next = Nowhere
  <2>1. w \in Int /\ m \in Nat /\ DOMAIN rs = 1..m
    BY <1>3 DEF Run
  <2>2. mem' = [c \in DOMAIN mem |-> IF c \in w..(w + m - 1) THEN regs[rs[c - w + 1]] ELSE mem[c]]
    BY <1>4, <2>1, StoreStep
  <2>3. pc' = pc + 1 /\ UNCHANGED <<isa, sp0, touched, regs, next>> /\ next = Nowhere
    BY <1>4, <2>1, StoreStep
  <2> QED
    BY <2>2, <2>3
<1>6. \A c \in Int : c \in w..(w + m - 1) =>
        /\ x + (c - w) \in Registers(isa) /\ rs[c - w + 1] = x + (c - w)
  <2> TAKE c \in Int
  <2> HAVE c \in w..(w + m - 1)
  <2>1. c - w + 1 \in 1..m /\ x + (c - w) \in x..(x + m - 1)
    BY <1>3
  <2>2. rs[c - w + 1] = x + (c - w + 1) - 1
    BY <2>1 DEF Run
  <2> QED
    BY <1>3, <2>1, <2>2
<1>7. \A c \in DOMAIN mem : c \in Int
  BY <1>2
<1>8. \A c \in DOMAIN mem : mem'[c] = IF c \in w..(w + m - 1) THEN regs[x + (c - w)] ELSE mem[c]
  BY <1>5, <1>6, <1>7
<1>9. mem' \in [(sp0 - 70)..(sp0 + 2) -> Int]
  BY <1>2, <1>5, <1>6, <1>7
<1>10. \A a \in Known(isa, sp0, pc + 1) : mem'[a] = Kept(isa, sp0, pc + 1, touched, a)
  <2> TAKE a \in Known(isa, sp0, pc + 1)
  <2>1. a \in DOMAIN mem /\ a \in Int
    BY <1>2 DEF Known
  <2>2. mem'[a] = IF a \in w..(w + m - 1) THEN regs[x + (a - w)] ELSE mem[a]
    BY <1>8, <2>1
  <2>3. CASE a \in w..(w + m - 1)
    <3>1. regs[x + (a - w)] = Reg(isa, sp0, pc, touched, x + (a - w))
      BY <1>2, <1>6, <2>1, <2>3
    <3> QED
      BY <1>3, <2>2, <2>3, <3>1
  <2>4. CASE a \notin w..(w + m - 1)
    BY <1>2, <1>3, <2>2, <2>4
  <2> QED
    BY <2>3, <2>4
<1>11. \A r \in Registers(isa) : regs'[r] = Reg(isa, sp0, pc + 1, touched, r)
  BY <1>2, <1>3, <1>5 DEF SameRegs
<1> QED
  BY <1>2, <1>5, <1>9, <1>10, <1>11, Established DEF Stays

\* A load or a pop that fits.
LEMMA LoadKeeps ==
  ASSUME BridgeInv, BridgeNext, ~Signal, NEW rs, NEW x, NEW m, NEW n, NEW d, Run(rs, x, m),
         \/ Insn = Ld(rs, n) /\ d = 0
         \/ Insn = Pop(rs) /\ d = m /\ n = 0,
         LoadFits(isa, sp0, pc, touched, x, m, n, d), Stays(pc + 1)
  PROVE  BridgeInv'
<1> DEFINE w == sp + n
<1>1. next = Nowhere
  BY OneOp DEF Ld, Pop, DoLoad, DoPop, Running
<1>2. /\ regs \in [Registers(isa) -> Int] /\ mem \in [(sp0 - 70)..(sp0 + 2) -> Int]
      /\ \A r \in Registers(isa) : regs[r] = Reg(isa, sp0, pc, touched, r)
      /\ \A a \in Known(isa, sp0, pc) : mem[a] = Kept(isa, sp0, pc, touched, a)
      /\ sp0 \in Nat /\ sp = Reg(isa, sp0, pc, touched, SP(isa)) /\ sp \in Int
  BY <1>1, Inside
<1>3. /\ n \in Int /\ m \in Nat /\ x \in Int /\ d \in Int
      /\ SP(isa) \in Registers(isa) /\ SP(isa) \notin x..(x + m - 1)
      /\ \A a \in w..(w + m - 1) : a \in Known(isa, sp0, pc)
      /\ \A r \in Registers(isa) :
           Reg(isa, sp0, pc + 1, touched, r)
             = IF r \in x..(x + m - 1) THEN Kept(isa, sp0, pc, touched, w + (r - x))
               ELSE IF r = SP(isa) THEN sp + d ELSE Reg(isa, sp0, pc, touched, r)
      /\ SameWords(isa, sp0, pc, pc + 1, touched)
  BY <1>2 DEF LoadFits
<1>4. w = sp + n /\ w \in Int
  BY <1>2, <1>3
<1> HIDE DEF w
<1>5. /\ regs' = Loaded(rs, w, sp + d)
      /\ pc' = pc + 1 /\ UNCHANGED <<isa, sp0, touched, mem, next>>
  <2>1. CASE Insn = Ld(rs, n) /\ d = 0
    BY <1>2, <1>4, <2>1, LoadStep
  <2>2. CASE Insn = Pop(rs) /\ d = m /\ n = 0
    BY <1>2, <1>4, <2>2, PopStep DEF Run
  <2> QED
    BY <2>1, <2>2
<1>6. DOMAIN rs = 1..m /\ \A j \in 1..m : rs[j] = x + j - 1
  BY DEF Run
<1>7. \A i, j \in 1..m : rs[i] = rs[j] => i = j
  BY <1>3, <1>6
<1>8. \A j \in 1..m : rs[j] # SP(isa)
  BY <1>3, <1>6
<1>9. /\ Loaded(rs, w, sp + d) = [r \in Registers(isa) |-> Loaded(rs, w, sp + d)[r]]
      /\ \A j \in 1..m : rs[j] \in Registers(isa) => Loaded(rs, w, sp + d)[rs[j]] = mem[w + j - 1]
      /\ \A r \in Registers(isa) : (\A j \in 1..m : rs[j] # r) =>
           Loaded(rs, w, sp + d)[r] = IF r = SP(isa) THEN sp + d ELSE regs[r]
  <2>1. w \in Int /\ m \in Nat
    BY <1>3, <1>4
  <2>2. DOMAIN rs = 1..m
    BY <1>6
  <2> QED
    BY <1>7, <1>8, <2>1, <2>2, LoadedRegisters
<1>10. ASSUME NEW r \in Registers(isa)
       PROVE  regs'[r] = Reg(isa, sp0, pc + 1, touched, r) /\ regs'[r] \in Int
  <2>1. CASE r \in x..(x + m - 1)
    <3> DEFINE j == r - x + 1
    <3>1. j \in 1..m /\ r = x + j - 1 /\ w + j - 1 = w + (r - x) /\ w + (r - x) \in w..(w + m - 1)
      BY <1>3, <1>4, <2>1
    <3> HIDE DEF j
    <3>2. rs[j] = r
      BY <1>6, <3>1
    <3>3. regs'[r] = mem[w + j - 1]
      BY <1>5, <1>9, <3>1, <3>2
    <3>4. regs'[r] = mem[w + (r - x)]
      BY <3>1, <3>3
    <3>5. w + (r - x) \in Known(isa, sp0, pc)
      BY <1>3, <3>1
    <3>6. mem[w + (r - x)] = Kept(isa, sp0, pc, touched, w + (r - x)) /\ mem[w + (r - x)] \in Int
      BY <1>2, <3>5 DEF Known
    <3> QED
      BY <1>3, <2>1, <3>4, <3>6
  <2>2. CASE r \notin x..(x + m - 1)
    <3>1. \A j \in 1..m : rs[j] # r
      BY <1>3, <1>6, <2>2
    <3>2. regs'[r] = IF r = SP(isa) THEN sp + d ELSE regs[r]
      BY <1>5, <1>9, <3>1
    <3> QED
      BY <1>2, <1>3, <2>2, <3>2
  <2> QED
    BY <2>1, <2>2
<1>11. regs' \in [Registers(isa) -> Int]
  BY <1>5, <1>9, <1>10
<1> QED
  BY <1>1, <1>3, <1>5, <1>10, <1>11, RegsKeep

\* A literal or the flags go to the stack: push, and the store at sp of IA32's trampoline.
LEMMA PushKeeps ==
  ASSUME BridgeInv, BridgeNext, ~Signal, NEW v, NEW n, PushFits(isa, sp0, pc, touched, v, n), Stays(pc + 1),
         \/ Insn = StLit(v) /\ n = 0
         \/ Insn = PushLit(v) /\ n = -1
         \/ Insn = PushF /\ n = -1 /\ 16 \in Registers(isa) /\ v = Reg(isa, sp0, pc, touched, 16)
  PROVE  BridgeInv'
<1> DEFINE w == sp + n
<1>1. next = Nowhere
  BY OneOp DEF StLit, PushLit, PushF, DoStoreLit, DoPush, Running
<1>2. /\ regs \in [Registers(isa) -> Int] /\ mem \in [(sp0 - 70)..(sp0 + 2) -> Int]
      /\ \A r \in Registers(isa) : regs[r] = Reg(isa, sp0, pc, touched, r)
      /\ \A a \in Known(isa, sp0, pc) : mem[a] = Kept(isa, sp0, pc, touched, a)
      /\ sp0 \in Nat /\ Place /\ (touched = {} \/ touched \in Touches[isa])
      /\ sp = Reg(isa, sp0, pc, touched, SP(isa)) /\ sp \in Int /\ SP(isa) \in Registers(isa)
      /\ sp = regs[SP(isa)]
  BY <1>1, Inside DEF sp
<1>3. /\ n \in Int /\ v \in Int /\ w \in Int /\ w >= sp0 - 70 /\ w <= sp0 + 2
      /\ \A r \in Registers(isa) :
           Reg(isa, sp0, pc + 1, touched, r) = IF r = SP(isa) THEN w ELSE Reg(isa, sp0, pc, touched, r)
      /\ \A a \in Known(isa, sp0, pc + 1) :
           \/ a = w /\ Kept(isa, sp0, pc + 1, touched, a) = v
           \/ /\ a # w /\ a \in Known(isa, sp0, pc)
              /\ Kept(isa, sp0, pc + 1, touched, a) = Kept(isa, sp0, pc, touched, a)
  BY <1>2 DEF PushFits
<1>4. /\ mem' = [c \in DOMAIN mem |-> IF c = w THEN v ELSE mem[c]]
      /\ regs' = [regs EXCEPT ![SP(isa)] = w]
      /\ pc' = pc + 1 /\ UNCHANGED <<isa, sp0, touched, next>>
  <2>1. CASE Insn = StLit(v) /\ n = 0
    <3>1. w = sp
      BY <1>2, <2>1
    <3>2. /\ mem' = [c \in DOMAIN mem |-> IF c = sp THEN v ELSE mem[c]]
          /\ pc' = pc + 1 /\ UNCHANGED <<isa, sp0, touched, regs, next>>
      BY <1>2, <2>1, StoreLitStep
    <3> HIDE DEF w
    <3>3. regs' = [regs EXCEPT ![SP(isa)] = w]
      BY <1>2, <3>1, <3>2
    <3> QED
      BY <3>1, <3>2, <3>3
  <2>2. CASE n = -1 /\ (Insn = PushLit(v) \/ (Insn = PushF /\ v = regs[16]))
    <3>1. w = sp - 1
      BY <1>2, <2>2
    <3> HIDE DEF w
    <3> QED
      BY <1>2, <2>2, <3>1, PushStep
  <2>3. 16 \in Registers(isa) => regs[16] = Reg(isa, sp0, pc, touched, 16)
    BY <1>2
  <2> QED
    BY <2>1, <2>2, <2>3
<1> HIDE DEF w
<1>5. regs' \in [Registers(isa) -> Int] /\ mem' \in [(sp0 - 70)..(sp0 + 2) -> Int]
  BY <1>2, <1>3, <1>4
<1>6. \A r \in Registers(isa) : regs'[r] = Reg(isa, sp0, pc + 1, touched, r)
  BY <1>2, <1>3, <1>4
<1>7. \A a \in Known(isa, sp0, pc + 1) : mem'[a] = Kept(isa, sp0, pc + 1, touched, a)
  <2> TAKE a \in Known(isa, sp0, pc + 1)
  <2>1. a \in DOMAIN mem
    BY <1>2 DEF Known
  <2>2. mem'[a] = IF a = w THEN v ELSE mem[a]
    BY <1>4, <2>1
  <2> QED
    BY <1>2, <1>3, <2>2
<1> QED
  BY <1>1, <1>2, <1>4, <1>5, <1>6, <1>7, Established DEF Stays

\* Control leaves by a register.
LEMMA LeaveKeeps ==
  ASSUME BridgeInv, BridgeNext, ~Signal, NEW r \in Registers(isa), Insn = Leave(r),
         NEW v, Reg(isa, sp0, pc, touched, r) = v, v # AfterBlr, v # Nowhere,
         v \in Exits(isa, pc, touched),
         SameRegs(isa, sp0, pc, pc + 1, touched), SameWords(isa, sp0, pc, pc + 1, touched)
  PROVE  BridgeInv'
<1>1. next = Nowhere
  BY LeaveStep
<1>2. /\ Place /\ pc \in 1..Length(isa) /\ Path(isa, sp0, pc, touched)
      /\ touched = {} \/ touched \in Touches[isa]
      /\ regs \in [Registers(isa) -> Int] /\ mem \in [(sp0 - 70)..(sp0 + 2) -> Int]
      /\ \A q \in Registers(isa) : regs[q] = Reg(isa, sp0, pc, touched, q)
      /\ \A a \in Known(isa, sp0, pc) : mem[a] = Kept(isa, sp0, pc, touched, a)
  BY <1>1, Inside
<1>3. regs[r] = v
  BY <1>2
<1>4. next' = v /\ UNCHANGED <<isa, sp0, touched, regs, mem, pc>>
  BY <1>3, LeaveStep
<1>5. \A q \in Registers(isa) : regs'[q] = Reg(isa, sp0, pc + 1, touched, q)
  BY <1>2, <1>4 DEF SameRegs
<1>6. \A a \in Known(isa, sp0, pc + 1) : mem'[a] = Kept(isa, sp0, pc + 1, touched, a)
  BY <1>2, <1>4 DEF SameWords
<1>7. regs' \in [Registers(isa) -> Int] /\ mem' \in [(sp0 - 70)..(sp0 + 2) -> Int]
  BY <1>2, <1>4
<1> QED
  BY <1>2, <1>4, <1>5, <1>6, <1>7, EstablishedOut

\* Control leaves to the address at sp.
LEMMA RetKeeps ==
  ASSUME BridgeInv, BridgeNext, ~Signal, Insn = Ret,
         NEW w \in Known(isa, sp0, pc), w = Reg(isa, sp0, pc, touched, SP(isa)),
         NEW v, Kept(isa, sp0, pc, touched, w) = v, v # Nowhere, v \in Exits(isa, pc, touched),
         \A r \in Registers(isa) :
           Reg(isa, sp0, pc + 1, touched, r) = IF r = SP(isa) THEN w + 1 ELSE Reg(isa, sp0, pc, touched, r),
         SameWords(isa, sp0, pc, pc + 1, touched)
  PROVE  BridgeInv'
<1>1. next = Nowhere
  BY RetStep
<1>2. /\ Place /\ pc \in 1..Length(isa) /\ Path(isa, sp0, pc, touched)
      /\ touched = {} \/ touched \in Touches[isa]
      /\ regs \in [Registers(isa) -> Int] /\ mem \in [(sp0 - 70)..(sp0 + 2) -> Int]
      /\ \A q \in Registers(isa) : regs[q] = Reg(isa, sp0, pc, touched, q)
      /\ \A a \in Known(isa, sp0, pc) : mem[a] = Kept(isa, sp0, pc, touched, a)
      /\ sp = w /\ sp \in Int
  BY <1>1, Inside
<1>3. mem[sp] = v
  BY <1>2
<1>4. next' = v /\ regs' = [regs EXCEPT ![SP(isa)] = w + 1] /\ UNCHANGED <<isa, sp0, touched, mem, pc>>
  BY <1>2, <1>3, RetStep
<1>5. \A q \in Registers(isa) : regs'[q] = Reg(isa, sp0, pc + 1, touched, q)
  BY <1>2, <1>4
<1>6. \A a \in Known(isa, sp0, pc + 1) : mem'[a] = Kept(isa, sp0, pc + 1, touched, a)
  BY <1>2, <1>4 DEF SameWords
<1>7. regs' \in [Registers(isa) -> Int] /\ mem' \in [(sp0 - 70)..(sp0 + 2) -> Int]
  <2>1. w + 1 \in Int
    BY <1>2
  <2>2. mem' = mem /\ \A q \in Registers(isa) : regs'[q] \in Int
    BY <1>2, <1>4, <2>1
  <2> QED
    BY <1>2, <1>4, <2>2
<1> QED
  BY <1>2, <1>4, <1>5, <1>6, <1>7, EstablishedOut

\* A signal writes only words that no line of the table knows.
LEMMA SignalKeeps ==
  ASSUME BridgeInv, Signal, \A a \in Known(isa, sp0, pc) : a >= Reg(isa, sp0, pc, touched, SP(isa))
  PROVE  BridgeInv'
<1>1. next = Nowhere
  BY DEF Signal
<1>2. /\ Place /\ pc \in 1..Length(isa) /\ Path(isa, sp0, pc, touched)
      /\ touched = {} \/ touched \in Touches[isa]
      /\ regs \in [Registers(isa) -> Int] /\ mem \in [(sp0 - 70)..(sp0 + 2) -> Int]
      /\ \A q \in Registers(isa) : regs[q] = Reg(isa, sp0, pc, touched, q)
      /\ \A a \in Known(isa, sp0, pc) : mem[a] = Kept(isa, sp0, pc, touched, a)
      /\ sp = Reg(isa, sp0, pc, touched, SP(isa)) /\ sp \in Int /\ sp0 \in Nat
  BY <1>1, Inside
<1>3. PICK top \in Int : top <= sp /\ mem' = [a \in DOMAIN mem |-> IF a < top THEN Junk ELSE mem[a]]
  <2>1. CASE isa = "x64"
    <3>1. mem' = [a \in DOMAIN mem |-> IF a < sp - 16 THEN Junk ELSE mem[a]]
      BY <2>1 DEF Signal
    <3>2. sp - 16 \in Int /\ sp - 16 <= sp
      BY <1>2
    <3> QED
      BY <3>1, <3>2
  <2>2. CASE isa # "x64"
    <3>1. mem' = [a \in DOMAIN mem |-> IF a < sp THEN Junk ELSE mem[a]]
      BY <2>2 DEF Signal
    <3> QED
      BY <1>2, <3>1
  <2> QED
    BY <2>1, <2>2
<1>4. UNCHANGED <<isa, regs, sp0, pc, touched, next>>
  BY DEF Signal
<1>5. mem' \in [(sp0 - 70)..(sp0 + 2) -> Int]
  BY <1>2, <1>3 DEF Junk
<1>6. \A a \in Known(isa, sp0, pc) : mem'[a] = Kept(isa, sp0, pc, touched, a)
  <2> TAKE a \in Known(isa, sp0, pc)
  <2>1. a \in DOMAIN mem /\ a \in Int
    BY <1>2 DEF Known
  <2>2. a >= sp
    BY <1>2
  <2>3. ~(a < top)
    BY <1>2, <1>3, <2>1, <2>2
  <2> QED
    BY <1>2, <1>3, <2>1, <2>3
<1>7. regs' \in [Registers(isa) -> Int] /\ \A q \in Registers(isa) : regs'[q] = Reg(isa, sp0, pc, touched, q)
  BY <1>2, <1>4
<1> QED
  BY <1>1, <1>2, <1>4, <1>5, <1>6, <1>7, Established

\* A stutter.
LEMMA StutterKeeps ==
  ASSUME BridgeInv, UNCHANGED bridgeVars
  PROVE  BridgeInv'
<1>1. UNCHANGED <<isa, regs, mem, sp0, pc, touched, next>> /\ Stage' = Stage
  BY DEF bridgeVars, Stage
<1>2. Place' /\ Progress' /\ Writes' /\ MemIs'
  BY <1>1 DEF BridgeInv, Place, Progress, Writes, MemIs
<1>3. RegsAre' /\ WordsAre'
  BY <1>1 DEF BridgeInv, RegsAre, WordsAre
<1> QED
  BY <1>2, <1>3 DEF BridgeInv

------------------------------------------------------------------------------
(* The call of the handler.                                                 *)

\* Word(c, f), for instruction set i.
WordOf(i, c, f) == c + (IF f = -1 THEN SpField(i) ELSE Offset(i, f))

\* The word that set_routing_bridge_next_hop writes after a handler that wrote the fields t.
HopWord(i, b, c, t) ==
  CASE i = "arm" -> WordOf(i, c, 12) [] i = "arm64" -> WordOf(i, c, 17)
    [] OTHER -> IF -1 \in t THEN b + 1 ELSE b - 1

\* The call of step k with the context c and the entry: u is what has been written before.
CallFits(i, b, k, u, t, c) ==
  LET h == HopWord(i, b, c, t)
  IN  /\ c \in Int /\ WordOf(i, c, -1) \in Known(i, b, k) /\ Kept(i, b, k, u, WordOf(i, c, -1)) = b
      /\ WordOf(i, c, -1) \notin Known(i, b, k + 1)
      /\ \A a \in Known(i, b, k + 1) : a >= Reg(i, b, k, u, SP(i))
      /\ h \in Known(i, b, k + 1) /\ Kept(i, b, k + 1, t, h) = Relocated
      /\ \A f \in Fields(i) :
           /\ WordOf(i, c, f) \in (b - 70)..(b + 2)
           /\ WordOf(i, c, f) \in Known(i, b, k + 1) /\ WordOf(i, c, f) # h =>
                /\ WordOf(i, c, f) \in Known(i, b, k)
                /\ Kept(i, b, k + 1, t, WordOf(i, c, f))
                     = IF f \in t THEN Written(f) ELSE Kept(i, b, k, u, WordOf(i, c, f))
      /\ \A a \in Known(i, b, k + 1) :
           a # h /\ (\A f \in Fields(i) : a # WordOf(i, c, f)) =>
             a \in Known(i, b, k) /\ Kept(i, b, k + 1, t, a) = Kept(i, b, k, u, a)
      /\ \A r \in Registers(i) :
           Reg(i, b, k + 1, t, r) = IF r \in Volatile(i) THEN Junk ELSE Reg(i, b, k, u, r)

\* Each field of the context is a word of its own.
LEMMA WordsApart ==
  ASSUME NEW i \in Isas, NEW c \in Int
  PROVE  /\ \A f \in Fields(i) \cup {-1} : WordOf(i, c, f) \in Int /\ f \in Int
         /\ \A f, g \in Fields(i) \cup {-1} : WordOf(i, c, f) = WordOf(i, c, g) => f = g
<1>1. CASE i = "arm"
  BY <1>1 DEF WordOf, Offset, SpField, Fields
<1>2. CASE i = "arm64"
  BY <1>2 DEF WordOf, Offset, SpField, Fields, Q
<1>3. CASE i = "ia32"
  BY <1>3 DEF WordOf, Offset, SpField, Fields
<1>4. CASE i = "x64"
  BY <1>4 DEF WordOf, Offset, SpField, Fields
<1> QED
  BY <1>1, <1>2, <1>3, <1>4 DEF Isas

\* The fields of the context are numbered like the registers.
LEMMA FieldsNatural ==
  ASSUME NEW i \in Isas, NEW f \in Fields(i)
  PROVE  f \in Nat
  BY DEF Isas, Fields, Q

\* The stack after the handler of the user.
LEMMA PreHandled ==
  ASSUME isa \in Isas, NEW c \in Int, NEW t \in SUBSET (Fields(isa) \cup {-1})
  PROVE  /\ DOMAIN PreHandler(c, t) = DOMAIN mem
         /\ \A f \in Fields(isa) \cup {-1} : WordOf(isa, c, f) \in DOMAIN mem =>
              PreHandler(c, t)[WordOf(isa, c, f)]
                = IF f \in t THEN IF f = -1 THEN sp0 + 2 ELSE Written(f) ELSE mem[WordOf(isa, c, f)]
         /\ \A a \in DOMAIN mem : (\A f \in Fields(isa) \cup {-1} : a # WordOf(isa, c, f)) =>
              PreHandler(c, t)[a] = mem[a]
<1>1. \A f : Word(c, f) = WordOf(isa, c, f)
  BY DEF Word, WordOf
<1>2. \A f, g \in Fields(isa) \cup {-1} : WordOf(isa, c, f) = WordOf(isa, c, g) => f = g
  BY WordsApart
<1>3. DOMAIN PreHandler(c, t) = DOMAIN mem
  BY DEF PreHandler
<1>4. ASSUME NEW a \in DOMAIN mem, \A f \in t : a # WordOf(isa, c, f)
      PROVE  PreHandler(c, t)[a] = mem[a]
  <2>1. ~\E f \in t : a = Word(c, f)
    BY <1>1, <1>4
  <2> QED
    BY <2>1 DEF PreHandler
<1>5. ASSUME NEW f \in t, WordOf(isa, c, f) \in DOMAIN mem
      PROVE  PreHandler(c, t)[WordOf(isa, c, f)] = IF f = -1 THEN sp0 + 2 ELSE Written(f)
  <2> DEFINE a == WordOf(isa, c, f)
             g == CHOOSE g \in t : a = Word(c, g)
  <2>1. a = Word(c, f)
    BY <1>1
  <2>2. g \in t /\ a = Word(c, g)
    BY <2>1
  <2>3. a = WordOf(isa, c, f) /\ a = WordOf(isa, c, g) /\ a \in DOMAIN mem
    BY <1>1, <1>5, <2>2
  <2>4. PreHandler(c, t)[a] = IF g = -1 THEN sp0 + 2 ELSE Written(g)
    BY <2>1, <2>3 DEF PreHandler
  <2> HIDE DEF a, g
  <2>5. g = f
    BY <1>2, <2>2, <2>3
  <2> QED
    BY <2>3, <2>4, <2>5
<1>6. ASSUME NEW f \in Fields(isa) \cup {-1}, f \notin t, WordOf(isa, c, f) \in DOMAIN mem
      PROVE  PreHandler(c, t)[WordOf(isa, c, f)] = mem[WordOf(isa, c, f)]
  <2>1. \A g \in t : WordOf(isa, c, f) # WordOf(isa, c, g)
    BY <1>2, <1>6
  <2> QED
    BY <1>4, <1>6, <2>1
<1> QED
  BY <1>3, <1>4, <1>5, <1>6

\* The handler leaves a table of words that CallFits describes.
LEMMA CallKeeps ==
  ASSUME BridgeInv, BridgeNext, ~Signal, Insn = Call, NEW c, ArgContext = c, Stays(pc + 1),
         \A t \in SUBSET (Fields(isa) \cup {-1}) : CallFits(isa, sp0, pc, touched, t, c),
         \A t : Path(isa, sp0, pc + 1, t)
  PROVE  BridgeInv'
<1>1. CallHandler
  BY CallStep
<1>2. next = Nowhere /\ pc' = pc + 1 /\ UNCHANGED <<isa, sp0, next>>
  BY <1>1 DEF CallHandler, Running, Step
<1>3. /\ regs \in [Registers(isa) -> Int] /\ mem \in [(sp0 - 70)..(sp0 + 2) -> Int]
      /\ \A r \in Registers(isa) : regs[r] = Reg(isa, sp0, pc, touched, r)
      /\ \A a \in Known(isa, sp0, pc) : mem[a] = Kept(isa, sp0, pc, touched, a)
      /\ sp0 \in Nat /\ Place /\ sp = Reg(isa, sp0, pc, touched, SP(isa)) /\ sp \in Int
      /\ isa \in Isas
  BY <1>2, Inside DEF Place
<1>4. PICK t \in Touches[isa] :
        /\ touched' = t
        /\ mem' = [a \in DOMAIN mem |-> IF a < sp THEN Junk ELSE instrument_forward_handler(c, t)[a]]
  BY <1>1 DEF CallHandler
<1>5. t \in SUBSET (Fields(isa) \cup {-1})
  BY <1>3, TouchesAssumption
<1> DEFINE h == HopWord(isa, sp0, c, t)
           m == PreHandler(c, t)
<1>6. /\ c \in Int /\ WordOf(isa, c, -1) \in Known(isa, sp0, pc)
      /\ Kept(isa, sp0, pc, touched, WordOf(isa, c, -1)) = sp0
      /\ WordOf(isa, c, -1) \notin Known(isa, sp0, pc + 1)
      /\ \A a \in Known(isa, sp0, pc + 1) : a >= sp
      /\ h \in Known(isa, sp0, pc + 1) /\ Kept(isa, sp0, pc + 1, t, h) = Relocated
  BY <1>3, <1>5 DEF CallFits
<1>7. \A f \in Fields(isa) :
        /\ WordOf(isa, c, f) \in (sp0 - 70)..(sp0 + 2)
        /\ WordOf(isa, c, f) \in Known(isa, sp0, pc + 1) /\ WordOf(isa, c, f) # h =>
             /\ WordOf(isa, c, f) \in Known(isa, sp0, pc)
             /\ Kept(isa, sp0, pc + 1, t, WordOf(isa, c, f))
                  = IF f \in t THEN Written(f) ELSE Kept(isa, sp0, pc, touched, WordOf(isa, c, f))
  BY <1>5 DEF CallFits
<1>8. \A a \in Known(isa, sp0, pc + 1) :
        a # h /\ (\A f \in Fields(isa) : a # WordOf(isa, c, f)) =>
          a \in Known(isa, sp0, pc) /\ Kept(isa, sp0, pc + 1, t, a) = Kept(isa, sp0, pc, touched, a)
  BY <1>5 DEF CallFits
<1>9. \A r \in Registers(isa) :
        Reg(isa, sp0, pc + 1, t, r) = IF r \in Volatile(isa) THEN Junk ELSE Reg(isa, sp0, pc, touched, r)
  BY <1>5 DEF CallFits
<1>10. DOMAIN mem = (sp0 - 70)..(sp0 + 2)
  BY <1>3
<1>11. WordOf(isa, c, -1) \in DOMAIN mem /\ mem[WordOf(isa, c, -1)] = sp0
  BY <1>3, <1>6, <1>10 DEF Known
<1>12. /\ DOMAIN m = DOMAIN mem
       /\ \A f \in Fields(isa) \cup {-1} : WordOf(isa, c, f) \in DOMAIN mem =>
            m[WordOf(isa, c, f)]
              = IF f \in t THEN IF f = -1 THEN sp0 + 2 ELSE Written(f) ELSE mem[WordOf(isa, c, f)]
       /\ \A a \in DOMAIN mem : (\A f \in Fields(isa) \cup {-1} : a # WordOf(isa, c, f)) => m[a] = mem[a]
  BY <1>3, <1>5, <1>6, PreHandled
<1>13. m[WordOf(isa, c, -1)] = IF -1 \in t THEN sp0 + 2 ELSE sp0
  BY <1>11, <1>12
<1>14. instrument_forward_handler(c, t) = [m EXCEPT ![h] = Relocated]
  <2> HIDE DEF m
  <2>1. \A f : Word(c, f) = WordOf(isa, c, f)
    BY DEF Word, WordOf
  <2>2. instrument_forward_handler(c, t) = set_routing_bridge_next_hop(c, m)
    BY DEF instrument_forward_handler, m
  <2>3. CASE isa = "arm"
    BY <2>1, <2>2, <2>3 DEF set_routing_bridge_next_hop, NextHopARM, HopWord
  <2>4. CASE isa = "arm64"
    BY <2>1, <2>2, <2>4 DEF set_routing_bridge_next_hop, NextHopARM64, HopWord
  <2>5. CASE isa \in {"ia32", "x64"}
    <3>1. h = m[WordOf(isa, c, -1)] - 1
      BY <1>3, <1>13, <2>5 DEF HopWord
    <3>2. set_routing_bridge_next_hop(c, m) = [m EXCEPT ![m[Word(c, -1)] - 1] = Relocated]
      BY <2>5 DEF set_routing_bridge_next_hop, NextHopIA32, NextHopX64
    <3> QED
      BY <2>1, <2>2, <3>1, <3>2
  <2> QED
    BY <1>3, <2>3, <2>4, <2>5 DEF Isas
<1> HIDE DEF h, m
<1>15. \A a \in DOMAIN mem : mem'[a] = IF a < sp THEN Junk ELSE IF a = h THEN Relocated ELSE m[a]
  BY <1>4, <1>12, <1>14
<1>16. mem' \in [(sp0 - 70)..(sp0 + 2) -> Int]
  <2>1. ASSUME NEW a \in DOMAIN mem
        PROVE  m[a] \in Int
    <3>1. CASE \A f \in Fields(isa) \cup {-1} : a # WordOf(isa, c, f)
      BY <1>3, <1>12, <2>1, <3>1
    <3>2. CASE \E f \in Fields(isa) \cup {-1} : a = WordOf(isa, c, f)
      <4>1. PICK f \in Fields(isa) \cup {-1} : a = WordOf(isa, c, f)
        BY <3>2
      <4>2. m[a] = IF f \in t THEN IF f = -1 THEN sp0 + 2 ELSE Written(f) ELSE mem[a]
        BY <1>12, <2>1, <4>1
      <4>3. f \in Int /\ mem[a] \in Int
        BY <1>3, <1>6, <2>1, <4>1, WordsApart
      <4>4. sp0 + 2 \in Int /\ Written(f) \in Int
        BY <1>3, <4>3 DEF Written
      <4> QED
        BY <4>2, <4>3, <4>4
    <3> QED
      BY <3>1, <3>2
  <2>2. \A a \in DOMAIN mem : mem'[a] \in Int
    BY <1>15, <2>1 DEF Junk, Relocated
  <2> QED
    BY <1>4, <1>10, <2>2
<1>17. \A a \in Known(isa, sp0, pc + 1) : mem'[a] = Kept(isa, sp0, pc + 1, t, a)
  <2> TAKE a \in Known(isa, sp0, pc + 1)
  <2>1. a \in DOMAIN mem /\ a \in Int
    BY <1>3, <1>10 DEF Known
  <2>2. ~(a < sp)
    BY <1>3, <1>6, <2>1
  <2>3. mem'[a] = IF a = h THEN Relocated ELSE m[a]
    BY <1>15, <2>1, <2>2
  <2>4. CASE a = h
    BY <1>6, <2>3, <2>4
  <2>5. CASE a # h /\ \A f \in Fields(isa) : a # WordOf(isa, c, f)
    <3>1. a \in Known(isa, sp0, pc) /\ Kept(isa, sp0, pc + 1, t, a) = Kept(isa, sp0, pc, touched, a)
      BY <1>8, <2>5
    <3>2. a # WordOf(isa, c, -1)
      BY <1>6
    <3>3. m[a] = mem[a]
      BY <1>12, <2>1, <2>5, <3>2
    <3> QED
      BY <1>3, <2>3, <2>5, <3>1, <3>3
  <2>6. CASE a # h /\ \E f \in Fields(isa) : a = WordOf(isa, c, f)
    <3>1. PICK f \in Fields(isa) : a = WordOf(isa, c, f)
      BY <2>6
    <3>2. /\ a \in Known(isa, sp0, pc)
          /\ Kept(isa, sp0, pc + 1, t, a) = IF f \in t THEN Written(f) ELSE Kept(isa, sp0, pc, touched, a)
      BY <1>7, <2>6, <3>1
    <3>3. f # -1
      <4>1. f \in Fields(isa) /\ isa \in Isas
        BY <1>3
      <4> QED
        BY <4>1, FieldsNatural
    <3>4. m[a] = IF f \in t THEN Written(f) ELSE mem[a]
      BY <1>12, <2>1, <3>1, <3>3
    <3> QED
      BY <1>3, <2>3, <2>6, <3>2, <3>4
  <2> QED
    BY <2>4, <2>5, <2>6
<1>18. regs' \in [Registers(isa) -> Int] /\ \A r \in Registers(isa) : regs'[r] = Reg(isa, sp0, pc + 1, t, r)
  <2>1. regs' = [r \in Registers(isa) |-> IF r \in Volatile(isa) THEN Junk ELSE regs[r]]
    BY <1>1 DEF CallHandler
  <2>2. Junk \in Int
    BY DEF Junk
  <2> QED
    BY <1>3, <1>9, <2>1, <2>2
<1>19. pc + 1 \in 1..Length(isa) /\ Path(isa, sp0, pc + 1, t)
  BY DEF Stays
<1> QED
  BY <1>2, <1>3, <1>4, <1>16, <1>17, <1>18, <1>19, Established

\* A list of n elements.
Sized(s, n) == IsList(s) /\ Len(s) = n

\* u is the m elements of s and the n of t.
Chain(u, s, m, t, n) == \A k \in 1..(m + n) : u[k] = IF k <= m THEN s[k] ELSE t[k - m]

\* Joined, for lists of known length.
LEMMA Joins ==
  ASSUME NEW s, NEW t, NEW m \in Nat, NEW n \in Nat, Sized(s, m), Sized(t, n)
  PROVE  Sized(s \o t, m + n) /\ Chain(s \o t, s, m, t, n)
  BY Joined DEF Sized, Chain

\* The trampoline and the bridge, step by step.
LEMMA ProgramARM ==
  LET P == Program("arm")
  IN  /\ IsList(P) /\ Len(P) = 40
      /\ P[1] = Lit(12, TrampEntry) /\ P[2] = Add(13, 13, -14) /\ P[3] = St(<<14>>, 13)
      /\ \A i \in 1..13 : P[3 + i] = St(<<13 - i>>, 13 - i)
      /\ P[17] = Add(0, 13, 14) /\ P[18] = Add(13, 13, -2) /\ P[19] = St(<<0>>, 1)
      /\ P[20] = Add(13, 13, -2) /\ P[21] = Mov(0, 13) /\ P[22] = Mov(1, 12) /\ P[23] = Call
      /\ P[24] = Add(13, 13, 2) /\ P[25] = Add(13, 13, 2)
      /\ \A i \in 1..13 : P[25 + i] = Pop(<<i - 1>>)
      /\ P[39] = Pop(<<14>>) /\ P[40] = Leave(12)
<1> DEFINE tramp == TrampolineARM
           p1 == <<Add(13, 13, -14)>>
           p2 == <<St(<<14>>, 13)>>
           p3 == [i \in 1..13 |-> St(<<13 - i>>, 13 - i)]
           p4 == <<Add(0, 13, 14), Add(13, 13, -2), St(<<0>>, 1), Add(13, 13, -2), Mov(0, 13),
                   Mov(1, 12), Call, Add(13, 13, 2), Add(13, 13, 2)>>
           p5 == [i \in 1..13 |-> Pop(<<i - 1>>)]
           p6 == <<Pop(<<14>>)>>
           p7 == <<Leave(12)>>
<1>1. /\ Sized(tramp, 1)
      /\ tramp[1] = Lit(12, TrampEntry)
  BY DEF Sized, IsList, TrampolineARM
<1>2. /\ Sized(p1, 1)
      /\ p1[1] = Add(13, 13, -14)
  BY DEF Sized, IsList
<1>3. /\ Sized(p2, 1)
      /\ p2[1] = St(<<14>>, 13)
  BY DEF Sized, IsList
<1>4. /\ Sized(p3, 13)
      /\ \A i \in 1..13 : p3[i] = St(<<13 - i>>, 13 - i)
  BY Loop DEF Sized
<1>5. /\ Sized(p4, 9)
      /\ p4[1] = Add(0, 13, 14) /\ p4[2] = Add(13, 13, -2) /\ p4[3] = St(<<0>>, 1)
      /\ p4[4] = Add(13, 13, -2) /\ p4[5] = Mov(0, 13) /\ p4[6] = Mov(1, 12) /\ p4[7] = Call
      /\ p4[8] = Add(13, 13, 2) /\ p4[9] = Add(13, 13, 2)
  BY DEF Sized, IsList
<1>6. /\ Sized(p5, 13)
      /\ \A i \in 1..13 : p5[i] = Pop(<<i - 1>>)
  BY Loop DEF Sized
<1>7. /\ Sized(p6, 1)
      /\ p6[1] = Pop(<<14>>)
  BY DEF Sized, IsList
<1>8. /\ Sized(p7, 1)
      /\ p7[1] = Leave(12)
  BY DEF Sized, IsList
<1> HIDE DEF tramp, p1, p2, p3, p4, p5, p6, p7
<1> DEFINE s2 == p1 \o p2
<1>9. Sized(s2, 2) /\ Chain(s2, p1, 1, p2, 1)
  BY <1>2, <1>3, Joins
<1> HIDE DEF s2
<1> DEFINE s3 == s2 \o p3
<1>10. Sized(s3, 15) /\ Chain(s3, s2, 2, p3, 13)
  BY <1>9, <1>4, Joins
<1> HIDE DEF s3
<1> DEFINE s4 == s3 \o p4
<1>11. Sized(s4, 24) /\ Chain(s4, s3, 15, p4, 9)
  BY <1>10, <1>5, Joins
<1> HIDE DEF s4
<1> DEFINE s5 == s4 \o p5
<1>12. Sized(s5, 37) /\ Chain(s5, s4, 24, p5, 13)
  BY <1>11, <1>6, Joins
<1> HIDE DEF s5
<1> DEFINE s6 == s5 \o p6
<1>13. Sized(s6, 38) /\ Chain(s6, s5, 37, p6, 1)
  BY <1>12, <1>7, Joins
<1> HIDE DEF s6
<1> DEFINE s7 == s6 \o p7
<1>14. Sized(s7, 39) /\ Chain(s7, s6, 38, p7, 1)
  BY <1>13, <1>8, Joins
<1> HIDE DEF s7
<1> DEFINE u == tramp \o s7
<1>15. Sized(u, 40) /\ Chain(u, tramp, 1, s7, 39)
  BY <1>1, <1>14, Joins
<1> HIDE DEF u
<1>16. Program("arm") = u
  <2>1. Program("arm") = TrampolineARM \o BridgeARM
    BY DEF Program
  <2> QED
    BY <2>1 DEF BridgeARM, tramp, p1, p2, p3, p4, p5, p6, p7, s2, s3, s4, s5, s6, s7, u
<1>17. u[1] = Lit(12, TrampEntry)
  BY <1>1, <1>15 DEF Chain
<1>18. u[2] = Add(13, 13, -14)
  BY <1>2, <1>9, <1>10, <1>11, <1>12, <1>13, <1>14, <1>15 DEF Chain
<1>19. u[3] = St(<<14>>, 13)
  BY <1>3, <1>9, <1>10, <1>11, <1>12, <1>13, <1>14, <1>15 DEF Chain
<1>20. \A i \in 1..13 : u[3 + i] = St(<<13 - i>>, 13 - i)
  BY <1>4, <1>10, <1>11, <1>12, <1>13, <1>14, <1>15 DEF Chain
<1>21. /\ u[17] = Add(0, 13, 14) /\ u[18] = Add(13, 13, -2) /\ u[19] = St(<<0>>, 1)
       /\ u[20] = Add(13, 13, -2) /\ u[21] = Mov(0, 13) /\ u[22] = Mov(1, 12) /\ u[23] = Call
       /\ u[24] = Add(13, 13, 2) /\ u[25] = Add(13, 13, 2)
  BY <1>5, <1>11, <1>12, <1>13, <1>14, <1>15 DEF Chain
<1>22. \A i \in 1..13 : u[25 + i] = Pop(<<i - 1>>)
  BY <1>6, <1>12, <1>13, <1>14, <1>15 DEF Chain
<1>23. u[39] = Pop(<<14>>)
  BY <1>7, <1>13, <1>14, <1>15 DEF Chain
<1>24. u[40] = Leave(12)
  BY <1>8, <1>14, <1>15 DEF Chain
<1> QED
  BY <1>15, <1>16, <1>17, <1>18, <1>19, <1>20, <1>21, <1>22, <1>23, <1>24 DEF Sized

\* The trampoline and the bridge, step by step.
LEMMA ProgramARM64 ==
  LET P == Program("arm64")
  IN  /\ IsList(P) /\ Len(P) = 62
      /\ P[1] = Add(31, 31, -2) /\ P[2] = St(<<30>>, 1) /\ P[3] = Lit(17, TrampEntry)
      /\ P[4] = St(<<17>>, 0) /\ P[5] = Lit(17, Bridge) /\ P[6] = Lit(30, AfterBlr)
      /\ P[7] = Add(31, 31, -16)
      /\ \A i \in 1..4 : P[7 + i] = St(QPair(8 - 2 * i), 16 - 4 * i)
      /\ P[12] = Add(31, 31, -30)
      /\ \A i \in 1..15 : P[12 + i] = St(<<31 - 2 * i, 32 - 2 * i>>, 30 - 2 * i)
      /\ P[28] = Add(31, 31, -2) /\ P[29] = St(<<0>>, 1) /\ P[30] = Add(17, 31, 2)
      /\ P[31] = Add(17, 17, 48) /\ P[32] = Add(31, 31, -2) /\ P[33] = St(<<17>>, 1)
      /\ P[34] = Mov(0, 31) /\ P[35] = Ld(<<1>>, 50) /\ P[36] = Call /\ P[37] = Add(31, 31, 2)
      /\ P[38] = Ld(<<0>>, 1) /\ P[39] = Add(31, 31, 2)
      /\ \A i \in 1..15 : P[39 + i] = Pop(<<2 * i - 1, 2 * i>>)
      /\ \A i \in 1..4 : P[54 + i] = Pop(QPair(2 * i - 2))
      /\ P[59] = Leave(30) /\ P[60] = Ld(<<30>>, 1) /\ P[61] = Add(31, 31, 2) /\ P[62] = Leave(17)
<1> DEFINE tramp == TrampolineARM64
           p1 == <<Add(31, 31, -16)>>
           p2 == [i \in 1..4 |-> St(QPair(8 - 2 * i), 16 - 4 * i)]
           p3 == <<Add(31, 31, -30)>>
           p4 == [i \in 1..15 |-> St(<<31 - 2 * i, 32 - 2 * i>>, 30 - 2 * i)]
           p5 == <<Add(31, 31, -2), St(<<0>>, 1), Add(17, 31, 2), Add(17, 17, 2 + 30 + 16),
                   Add(31, 31, -2), St(<<17>>, 1), Mov(0, 31), Ld(<<1>>, 34 + 16), Call,
                   Add(31, 31, 2), Ld(<<0>>, 1), Add(31, 31, 2)>>
           p6 == [i \in 1..15 |-> Pop(<<2 * i - 1, 2 * i>>)]
           p7 == [i \in 1..4 |-> Pop(QPair(2 * i - 2))]
           p8 == <<Leave(30)>>
           tail == EpilogueARM64
<1>1. /\ Sized(tramp, 6)
      /\ tramp[1] = Add(31, 31, -2) /\ tramp[2] = St(<<30>>, 1) /\ tramp[3] = Lit(17, TrampEntry)
      /\ tramp[4] = St(<<17>>, 0) /\ tramp[5] = Lit(17, Bridge) /\ tramp[6] = Lit(30, AfterBlr)
  BY DEF Sized, IsList, TrampolineARM64
<1>2. /\ Sized(p1, 1)
      /\ p1[1] = Add(31, 31, -16)
  BY DEF Sized, IsList
<1>3. /\ Sized(p2, 4)
      /\ \A i \in 1..4 : p2[i] = St(QPair(8 - 2 * i), 16 - 4 * i)
  BY Loop DEF Sized
<1>4. /\ Sized(p3, 1)
      /\ p3[1] = Add(31, 31, -30)
  BY DEF Sized, IsList
<1>5. /\ Sized(p4, 15)
      /\ \A i \in 1..15 : p4[i] = St(<<31 - 2 * i, 32 - 2 * i>>, 30 - 2 * i)
  <2>1. \A i \in 1..15 : p4[i] = St(<<31 - 2 * i, 32 - 2 * i>>, 30 - 2 * i)
    OBVIOUS
  <2>2. p4 = [i \in 1..15 |-> p4[i]]
    OBVIOUS
  <2> HIDE DEF p4
  <2> QED
    BY <2>1, <2>2, Loop DEF Sized
<1>6. /\ Sized(p5, 12)
      /\ p5[1] = Add(31, 31, -2) /\ p5[2] = St(<<0>>, 1) /\ p5[3] = Add(17, 31, 2)
      /\ p5[4] = Add(17, 17, 48) /\ p5[5] = Add(31, 31, -2) /\ p5[6] = St(<<17>>, 1)
      /\ p5[7] = Mov(0, 31) /\ p5[8] = Ld(<<1>>, 50) /\ p5[9] = Call /\ p5[10] = Add(31, 31, 2)
      /\ p5[11] = Ld(<<0>>, 1) /\ p5[12] = Add(31, 31, 2)
  BY DEF Sized, IsList
<1>7. /\ Sized(p6, 15)
      /\ \A i \in 1..15 : p6[i] = Pop(<<2 * i - 1, 2 * i>>)
  BY Loop DEF Sized
<1>8. /\ Sized(p7, 4)
      /\ \A i \in 1..4 : p7[i] = Pop(QPair(2 * i - 2))
  BY Loop DEF Sized
<1>9. /\ Sized(p8, 1)
      /\ p8[1] = Leave(30)
  BY DEF Sized, IsList
<1>10. /\ Sized(tail, 3)
      /\ tail[1] = Ld(<<30>>, 1) /\ tail[2] = Add(31, 31, 2) /\ tail[3] = Leave(17)
  BY DEF Sized, IsList, EpilogueARM64
<1> HIDE DEF tramp, p1, p2, p3, p4, p5, p6, p7, p8, tail
<1> DEFINE s2 == p1 \o p2
<1>11. Sized(s2, 5) /\ Chain(s2, p1, 1, p2, 4)
  BY <1>2, <1>3, Joins
<1> HIDE DEF s2
<1> DEFINE s3 == s2 \o p3
<1>12. Sized(s3, 6) /\ Chain(s3, s2, 5, p3, 1)
  BY <1>11, <1>4, Joins
<1> HIDE DEF s3
<1> DEFINE s4 == s3 \o p4
<1>13. Sized(s4, 21) /\ Chain(s4, s3, 6, p4, 15)
  BY <1>12, <1>5, Joins
<1> HIDE DEF s4
<1> DEFINE s5 == s4 \o p5
<1>14. Sized(s5, 33) /\ Chain(s5, s4, 21, p5, 12)
  BY <1>13, <1>6, Joins
<1> HIDE DEF s5
<1> DEFINE s6 == s5 \o p6
<1>15. Sized(s6, 48) /\ Chain(s6, s5, 33, p6, 15)
  BY <1>14, <1>7, Joins
<1> HIDE DEF s6
<1> DEFINE s7 == s6 \o p7
<1>16. Sized(s7, 52) /\ Chain(s7, s6, 48, p7, 4)
  BY <1>15, <1>8, Joins
<1> HIDE DEF s7
<1> DEFINE s8 == s7 \o p8
<1>17. Sized(s8, 53) /\ Chain(s8, s7, 52, p8, 1)
  BY <1>16, <1>9, Joins
<1> HIDE DEF s8
<1> DEFINE u == tramp \o s8
<1>18. Sized(u, 59) /\ Chain(u, tramp, 6, s8, 53)
  BY <1>1, <1>17, Joins
<1> HIDE DEF u
<1> DEFINE v == u \o tail
<1>19. Sized(v, 62) /\ Chain(v, u, 59, tail, 3)
  BY <1>18, <1>10, Joins
<1> HIDE DEF v
<1>20. Program("arm64") = v
  <2>1. Program("arm64") = TrampolineARM64 \o BridgeARM64 \o EpilogueARM64
    BY DEF Program
  <2> QED
    BY <2>1 DEF BridgeARM64, tramp, p1, p2, p3, p4, p5, p6, p7, p8, tail, s2, s3, s4, s5, s6, s7, s8, u, v
<1>21. /\ v[1] = Add(31, 31, -2) /\ v[2] = St(<<30>>, 1) /\ v[3] = Lit(17, TrampEntry)
       /\ v[4] = St(<<17>>, 0) /\ v[5] = Lit(17, Bridge) /\ v[6] = Lit(30, AfterBlr)
  BY <1>1, <1>18, <1>19 DEF Chain
<1>22. v[7] = Add(31, 31, -16)
  BY <1>2, <1>11, <1>12, <1>13, <1>14, <1>15, <1>16, <1>17, <1>18, <1>19 DEF Chain
<1>23. \A i \in 1..4 : v[7 + i] = St(QPair(8 - 2 * i), 16 - 4 * i)
  BY <1>3, <1>11, <1>12, <1>13, <1>14, <1>15, <1>16, <1>17, <1>18, <1>19 DEF Chain
<1>24. v[12] = Add(31, 31, -30)
  BY <1>4, <1>12, <1>13, <1>14, <1>15, <1>16, <1>17, <1>18, <1>19 DEF Chain
<1>25. \A i \in 1..15 : v[12 + i] = St(<<31 - 2 * i, 32 - 2 * i>>, 30 - 2 * i)
  BY <1>5, <1>13, <1>14, <1>15, <1>16, <1>17, <1>18, <1>19 DEF Chain
<1>26. /\ v[28] = Add(31, 31, -2) /\ v[29] = St(<<0>>, 1) /\ v[30] = Add(17, 31, 2)
       /\ v[31] = Add(17, 17, 48) /\ v[32] = Add(31, 31, -2) /\ v[33] = St(<<17>>, 1)
       /\ v[34] = Mov(0, 31) /\ v[35] = Ld(<<1>>, 50) /\ v[36] = Call /\ v[37] = Add(31, 31, 2)
       /\ v[38] = Ld(<<0>>, 1) /\ v[39] = Add(31, 31, 2)
  BY <1>6, <1>14, <1>15, <1>16, <1>17, <1>18, <1>19 DEF Chain
<1>27. \A i \in 1..15 : v[39 + i] = Pop(<<2 * i - 1, 2 * i>>)
  BY <1>7, <1>15, <1>16, <1>17, <1>18, <1>19 DEF Chain
<1>28. \A i \in 1..4 : v[54 + i] = Pop(QPair(2 * i - 2))
  BY <1>8, <1>16, <1>17, <1>18, <1>19 DEF Chain
<1>29. v[59] = Leave(30)
  BY <1>9, <1>17, <1>18, <1>19 DEF Chain
<1>30. v[60] = Ld(<<30>>, 1) /\ v[61] = Add(31, 31, 2) /\ v[62] = Leave(17)
  BY <1>10, <1>19 DEF Chain
<1> QED
  BY <1>19, <1>20, <1>21, <1>22, <1>23, <1>24, <1>25, <1>26, <1>27, <1>28, <1>29, <1>30 DEF Sized

\* The trampoline and the bridge, step by step.
LEMMA ProgramIA32 ==
  LET P == Program("ia32")
  IN  /\ IsList(P) /\ Len(P) = 39
      /\ P[1] = Add(5, 5, -1) /\ P[2] = StLit(TrampEntry) /\ P[3] = Add(5, 5, -8)
      /\ \A i \in 1..8 : P[3 + i] = St(<<i - 1>>, i - 1)
      /\ P[12] = PushF /\ P[13] = Pop(<<0>>) /\ P[14] = Add(5, 5, -2) /\ P[15] = St(<<0>>, 1)
      /\ P[16] = Mov(0, 5) /\ P[17] = Add(0, 0, 11) /\ P[18] = Add(5, 5, -2) /\ P[19] = St(<<0>>, 1)
      /\ P[20] = Add(5, 5, -2) /\ P[21] = Ld(<<0>>, 14) /\ P[22] = St(<<0>>, 1) /\ P[23] = Mov(0, 5)
      /\ P[24] = Add(0, 0, 2) /\ P[25] = St(<<0>>, 0) /\ P[26] = Call /\ P[27] = Add(5, 5, 2)
      /\ P[28] = Add(5, 5, 2) /\ P[29] = Add(5, 5, 1) /\ P[30] = Pop(<<16>>)
      /\ \A i \in 1..5 : P[30 + i] = Pop(<<i - 1>>)
      /\ P[36] = Add(5, 5, 1) /\ P[37] = Pop(<<6>>) /\ P[38] = Pop(<<7>>) /\ P[39] = Ret
<1> DEFINE tramp == TrampolineIA32
           p1 == <<Add(5, 5, -8)>>
           p2 == [i \in 1..8 |-> St(<<i - 1>>, i - 1)]
           p3 == <<PushF, Pop(<<0>>), Add(5, 5, -2), St(<<0>>, 1), Mov(0, 5),
                   Add(0, 0, 8 + 2 + 1), Add(5, 5, -2), St(<<0>>, 1), Add(5, 5, -2),
                   Ld(<<0>>, 8 + 2 + 2 + 2), St(<<0>>, 1), Mov(0, 5), Add(0, 0, 2),
                   St(<<0>>, 0), Call, Add(5, 5, 2), Add(5, 5, 2), Add(5, 5, 1), Pop(<<16>>)>>
           p4 == [i \in 1..5 |-> Pop(<<i - 1>>)]
           p5 == <<Add(5, 5, 1), Pop(<<6>>), Pop(<<7>>), Ret>>
<1>1. /\ Sized(tramp, 2)
      /\ tramp[1] = Add(5, 5, -1) /\ tramp[2] = StLit(TrampEntry)
  BY DEF Sized, IsList, TrampolineIA32
<1>2. /\ Sized(p1, 1)
      /\ p1[1] = Add(5, 5, -8)
  BY DEF Sized, IsList
<1>3. /\ Sized(p2, 8)
      /\ \A i \in 1..8 : p2[i] = St(<<i - 1>>, i - 1)
  BY Loop DEF Sized
<1>4. /\ Sized(p3, 19)
      /\ p3[1] = PushF /\ p3[2] = Pop(<<0>>) /\ p3[3] = Add(5, 5, -2) /\ p3[4] = St(<<0>>, 1)
      /\ p3[5] = Mov(0, 5) /\ p3[6] = Add(0, 0, 11) /\ p3[7] = Add(5, 5, -2)
      /\ p3[8] = St(<<0>>, 1) /\ p3[9] = Add(5, 5, -2) /\ p3[10] = Ld(<<0>>, 14)
      /\ p3[11] = St(<<0>>, 1) /\ p3[12] = Mov(0, 5) /\ p3[13] = Add(0, 0, 2)
      /\ p3[14] = St(<<0>>, 0) /\ p3[15] = Call /\ p3[16] = Add(5, 5, 2) /\ p3[17] = Add(5, 5, 2)
      /\ p3[18] = Add(5, 5, 1) /\ p3[19] = Pop(<<16>>)
  BY DEF Sized, IsList
<1>5. /\ Sized(p4, 5)
      /\ \A i \in 1..5 : p4[i] = Pop(<<i - 1>>)
  BY Loop DEF Sized
<1>6. /\ Sized(p5, 4)
      /\ p5[1] = Add(5, 5, 1) /\ p5[2] = Pop(<<6>>) /\ p5[3] = Pop(<<7>>) /\ p5[4] = Ret
  BY DEF Sized, IsList
<1> HIDE DEF tramp, p1, p2, p3, p4, p5
<1> DEFINE s2 == p1 \o p2
<1>7. Sized(s2, 9) /\ Chain(s2, p1, 1, p2, 8)
  BY <1>2, <1>3, Joins
<1> HIDE DEF s2
<1> DEFINE s3 == s2 \o p3
<1>8. Sized(s3, 28) /\ Chain(s3, s2, 9, p3, 19)
  BY <1>7, <1>4, Joins
<1> HIDE DEF s3
<1> DEFINE s4 == s3 \o p4
<1>9. Sized(s4, 33) /\ Chain(s4, s3, 28, p4, 5)
  BY <1>8, <1>5, Joins
<1> HIDE DEF s4
<1> DEFINE s5 == s4 \o p5
<1>10. Sized(s5, 37) /\ Chain(s5, s4, 33, p5, 4)
  BY <1>9, <1>6, Joins
<1> HIDE DEF s5
<1> DEFINE u == tramp \o s5
<1>11. Sized(u, 39) /\ Chain(u, tramp, 2, s5, 37)
  BY <1>1, <1>10, Joins
<1> HIDE DEF u
<1>12. Program("ia32") = u
  <2>1. Program("ia32") = TrampolineIA32 \o BridgeIA32
    BY DEF Program
  <2> QED
    BY <2>1 DEF BridgeIA32, tramp, p1, p2, p3, p4, p5, s2, s3, s4, s5, u
<1>13. u[1] = Add(5, 5, -1) /\ u[2] = StLit(TrampEntry)
  BY <1>1, <1>11 DEF Chain
<1>14. u[3] = Add(5, 5, -8)
  BY <1>2, <1>7, <1>8, <1>9, <1>10, <1>11 DEF Chain
<1>15. \A i \in 1..8 : u[3 + i] = St(<<i - 1>>, i - 1)
  BY <1>3, <1>7, <1>8, <1>9, <1>10, <1>11 DEF Chain
<1>16. /\ u[12] = PushF /\ u[13] = Pop(<<0>>) /\ u[14] = Add(5, 5, -2) /\ u[15] = St(<<0>>, 1)
       /\ u[16] = Mov(0, 5) /\ u[17] = Add(0, 0, 11) /\ u[18] = Add(5, 5, -2)
       /\ u[19] = St(<<0>>, 1) /\ u[20] = Add(5, 5, -2) /\ u[21] = Ld(<<0>>, 14)
       /\ u[22] = St(<<0>>, 1) /\ u[23] = Mov(0, 5) /\ u[24] = Add(0, 0, 2) /\ u[25] = St(<<0>>, 0)
       /\ u[26] = Call /\ u[27] = Add(5, 5, 2) /\ u[28] = Add(5, 5, 2) /\ u[29] = Add(5, 5, 1)
       /\ u[30] = Pop(<<16>>)
  BY <1>4, <1>8, <1>9, <1>10, <1>11 DEF Chain
<1>17. \A i \in 1..5 : u[30 + i] = Pop(<<i - 1>>)
  BY <1>5, <1>9, <1>10, <1>11 DEF Chain
<1>18. u[36] = Add(5, 5, 1) /\ u[37] = Pop(<<6>>) /\ u[38] = Pop(<<7>>) /\ u[39] = Ret
  BY <1>6, <1>10, <1>11 DEF Chain
<1> QED
  BY <1>11, <1>12, <1>13, <1>14, <1>15, <1>16, <1>17, <1>18 DEF Sized

\* The trampoline and the bridge, step by step.
LEMMA ProgramX64 ==
  LET P == Program("x64")
  IN  /\ IsList(P) /\ Len(P) = 53
      /\ P[1] = PushLit(TrampEntry) /\ P[2] = PushF /\ P[3] = Add(5, 5, -1) /\ P[4] = Add(5, 5, -16)
      /\ \A i \in 1..16 : P[4 + i] = St(<<i - 1>>, i - 1)
      /\ P[21] = Mov(0, 5) /\ P[22] = Add(0, 0, 19) /\ P[23] = Add(5, 5, -2) /\ P[24] = St(<<0>>, 1)
      /\ P[25] = Mov(6, 5) /\ P[26] = Ld(<<7>>, 20) /\ P[27] = JumpIfOdd(3) /\ P[28] = Call
      /\ P[29] = Jump(5) /\ P[30] = Add(5, 5, -1) /\ P[31] = St(<<0>>, 0) /\ P[32] = Call
      /\ P[33] = Pop(<<0>>) /\ P[34] = Add(5, 5, 2)
      /\ \A i \in 1..5 : P[34 + i] = Pop(<<i - 1>>)
      /\ P[40] = Add(5, 5, 1)
      /\ \A i \in 1..10 : P[40 + i] = Pop(<<i + 5>>)
      /\ P[51] = Add(5, 5, 1) /\ P[52] = Pop(<<16>>) /\ P[53] = Ret
<1> DEFINE tramp == TrampolineX64
           p1 == <<PushF, Add(5, 5, -1), Add(5, 5, -16)>>
           p2 == [i \in 1..16 |-> St(<<i - 1>>, i - 1)]
           p3 == <<Mov(0, 5), Add(0, 0, 1 + 1 + 1 + 16), Add(5, 5, -2), St(<<0>>, 1),
                   Mov(6, 5), Ld(<<7>>, EntrySlotX64), JumpIfOdd(3), Call, Jump(5),
                   Add(5, 5, -1), St(<<0>>, 0), Call, Pop(<<0>>), Add(5, 5, 2)>>
           p4 == [i \in 1..5 |-> Pop(<<i - 1>>)]
           p5 == <<Add(5, 5, 1)>>
           p6 == [i \in 1..10 |-> Pop(<<i + 5>>)]
           p7 == <<Add(5, 5, 1), Pop(<<16>>), Ret>>
<1>1. /\ Sized(tramp, 1)
      /\ tramp[1] = PushLit(TrampEntry)
  BY DEF Sized, IsList, TrampolineX64
<1>2. /\ Sized(p1, 3)
      /\ p1[1] = PushF /\ p1[2] = Add(5, 5, -1) /\ p1[3] = Add(5, 5, -16)
  BY DEF Sized, IsList
<1>3. /\ Sized(p2, 16)
      /\ \A i \in 1..16 : p2[i] = St(<<i - 1>>, i - 1)
  BY Loop DEF Sized
<1>4. /\ Sized(p3, 14)
      /\ p3[1] = Mov(0, 5) /\ p3[2] = Add(0, 0, 19) /\ p3[3] = Add(5, 5, -2)
      /\ p3[4] = St(<<0>>, 1) /\ p3[5] = Mov(6, 5) /\ p3[6] = Ld(<<7>>, 20) /\ p3[7] = JumpIfOdd(3)
      /\ p3[8] = Call /\ p3[9] = Jump(5) /\ p3[10] = Add(5, 5, -1) /\ p3[11] = St(<<0>>, 0)
      /\ p3[12] = Call /\ p3[13] = Pop(<<0>>) /\ p3[14] = Add(5, 5, 2)
  BY DEF Sized, IsList, EntrySlotX64
<1>5. /\ Sized(p4, 5)
      /\ \A i \in 1..5 : p4[i] = Pop(<<i - 1>>)
  BY Loop DEF Sized
<1>6. /\ Sized(p5, 1)
      /\ p5[1] = Add(5, 5, 1)
  BY DEF Sized, IsList
<1>7. /\ Sized(p6, 10)
      /\ \A i \in 1..10 : p6[i] = Pop(<<i + 5>>)
  BY Loop DEF Sized
<1>8. /\ Sized(p7, 3)
      /\ p7[1] = Add(5, 5, 1) /\ p7[2] = Pop(<<16>>) /\ p7[3] = Ret
  BY DEF Sized, IsList
<1> HIDE DEF tramp, p1, p2, p3, p4, p5, p6, p7
<1> DEFINE s2 == p1 \o p2
<1>9. Sized(s2, 19) /\ Chain(s2, p1, 3, p2, 16)
  BY <1>2, <1>3, Joins
<1> HIDE DEF s2
<1> DEFINE s3 == s2 \o p3
<1>10. Sized(s3, 33) /\ Chain(s3, s2, 19, p3, 14)
  BY <1>9, <1>4, Joins
<1> HIDE DEF s3
<1> DEFINE s4 == s3 \o p4
<1>11. Sized(s4, 38) /\ Chain(s4, s3, 33, p4, 5)
  BY <1>10, <1>5, Joins
<1> HIDE DEF s4
<1> DEFINE s5 == s4 \o p5
<1>12. Sized(s5, 39) /\ Chain(s5, s4, 38, p5, 1)
  BY <1>11, <1>6, Joins
<1> HIDE DEF s5
<1> DEFINE s6 == s5 \o p6
<1>13. Sized(s6, 49) /\ Chain(s6, s5, 39, p6, 10)
  BY <1>12, <1>7, Joins
<1> HIDE DEF s6
<1> DEFINE s7 == s6 \o p7
<1>14. Sized(s7, 52) /\ Chain(s7, s6, 49, p7, 3)
  BY <1>13, <1>8, Joins
<1> HIDE DEF s7
<1> DEFINE u == tramp \o s7
<1>15. Sized(u, 53) /\ Chain(u, tramp, 1, s7, 52)
  BY <1>1, <1>14, Joins
<1> HIDE DEF u
<1>16. Program("x64") = u
  <2>1. Program("x64") = TrampolineX64 \o BridgeX64
    BY DEF Program
  <2> QED
    BY <2>1 DEF BridgeX64, tramp, p1, p2, p3, p4, p5, p6, p7, s2, s3, s4, s5, s6, s7, u
<1>17. u[1] = PushLit(TrampEntry)
  BY <1>1, <1>15 DEF Chain
<1>18. u[2] = PushF /\ u[3] = Add(5, 5, -1) /\ u[4] = Add(5, 5, -16)
  BY <1>2, <1>9, <1>10, <1>11, <1>12, <1>13, <1>14, <1>15 DEF Chain
<1>19. \A i \in 1..16 : u[4 + i] = St(<<i - 1>>, i - 1)
  BY <1>3, <1>9, <1>10, <1>11, <1>12, <1>13, <1>14, <1>15 DEF Chain
<1>20. /\ u[21] = Mov(0, 5) /\ u[22] = Add(0, 0, 19) /\ u[23] = Add(5, 5, -2)
       /\ u[24] = St(<<0>>, 1) /\ u[25] = Mov(6, 5) /\ u[26] = Ld(<<7>>, 20) /\ u[27] = JumpIfOdd(3)
       /\ u[28] = Call /\ u[29] = Jump(5) /\ u[30] = Add(5, 5, -1) /\ u[31] = St(<<0>>, 0)
       /\ u[32] = Call /\ u[33] = Pop(<<0>>) /\ u[34] = Add(5, 5, 2)
  BY <1>4, <1>10, <1>11, <1>12, <1>13, <1>14, <1>15 DEF Chain
<1>21. \A i \in 1..5 : u[34 + i] = Pop(<<i - 1>>)
  BY <1>5, <1>11, <1>12, <1>13, <1>14, <1>15 DEF Chain
<1>22. u[40] = Add(5, 5, 1)
  BY <1>6, <1>12, <1>13, <1>14, <1>15 DEF Chain
<1>23. \A i \in 1..10 : u[40 + i] = Pop(<<i + 5>>)
  BY <1>7, <1>13, <1>14, <1>15 DEF Chain
<1>24. u[51] = Add(5, 5, 1) /\ u[52] = Pop(<<16>>) /\ u[53] = Ret
  BY <1>8, <1>14, <1>15 DEF Chain
<1> QED
  BY <1>15, <1>16, <1>17, <1>18, <1>19, <1>20, <1>21, <1>22, <1>23, <1>24 DEF Sized

------------------------------------------------------------------------------
(* The table of each instruction set.                                       *)

\* The table of this instruction set.
LEMMA ViewARM ==
  /\ \A b, k, t, r : Reg("arm", b, k, t, r) = RegARM(b, k, t, r)
  /\ \A b, k, a : a \in Known("arm", b, k) <=> a \in (b - 70)..(b + 2) /\ KnownARM(b, k, a)
  /\ \A b, k, t, a : Kept("arm", b, k, t, a) = WordARM(b, k, t, a)
  /\ SP("arm") = 13 /\ Registers("arm") = (0..14) \cup {16} \cup (32..63) /\ Length("arm") = 40 /\ ~IsX86("arm")
<1>1. /\ \A b, k, t, r : Reg("arm", b, k, t, r) = RegARM(b, k, t, r)
      /\ \A b, k, t, a : Kept("arm", b, k, t, a) = WordARM(b, k, t, a)
  BY DEF Reg, Kept
<1>2. \A b, k, a : a \in Known("arm", b, k) <=> a \in (b - 70)..(b + 2) /\ KnownARM(b, k, a)
  BY DEF Known
<1>3. Registers("arm") = (0..14) \cup {16} \cup (32..63)
  BY DEF Registers, Vectors
<1> QED
  BY <1>1, <1>2, <1>3 DEF SP, Length, IsX86

\* The table of this instruction set.
LEMMA ViewARM64 ==
  /\ \A b, k, t, r : Reg("arm64", b, k, t, r) = RegARM64(b, k, t, r)
  /\ \A b, k, a : a \in Known("arm64", b, k) <=> a \in (b - 70)..(b + 2) /\ KnownARM64(b, k, a)
  /\ \A b, k, t, a : Kept("arm64", b, k, t, a) = WordARM64(b, k, t, a)
  /\ SP("arm64") = 31 /\ Registers("arm64") = 0..96 /\ Length("arm64") = 62 /\ ~IsX86("arm64")
<1>1. /\ \A b, k, t, r : Reg("arm64", b, k, t, r) = RegARM64(b, k, t, r)
      /\ \A b, k, t, a : Kept("arm64", b, k, t, a) = WordARM64(b, k, t, a)
  BY DEF Reg, Kept
<1>2. \A b, k, a : a \in Known("arm64", b, k) <=> a \in (b - 70)..(b + 2) /\ KnownARM64(b, k, a)
  BY DEF Known
<1>3. Registers("arm64") = 0..96
  BY DEF Registers, Vectors
<1> QED
  BY <1>1, <1>2, <1>3 DEF SP, Length, IsX86

\* The table of this instruction set.
LEMMA ViewIA32 ==
  /\ \A b, k, t, r : Reg("ia32", b, k, t, r) = RegIA32(b, k, t, r)
  /\ \A b, k, a : a \in Known("ia32", b, k) <=> a \in (b - 70)..(b + 2) /\ KnownIA32(b, k, a)
  /\ \A b, k, t, a : Kept("ia32", b, k, t, a) = WordIA32(b, k, t, a)
  /\ SP("ia32") = 5 /\ Registers("ia32") = (0..7) \cup {16} \cup (32..47) /\ Length("ia32") = 39 /\ IsX86("ia32")
<1>1. /\ \A b, k, t, r : Reg("ia32", b, k, t, r) = RegIA32(b, k, t, r)
      /\ \A b, k, t, a : Kept("ia32", b, k, t, a) = WordIA32(b, k, t, a)
  BY DEF Reg, Kept
<1>2. \A b, k, a : a \in Known("ia32", b, k) <=> a \in (b - 70)..(b + 2) /\ KnownIA32(b, k, a)
  BY DEF Known
<1>3. Registers("ia32") = (0..7) \cup {16} \cup (32..47)
  BY DEF Registers, Vectors
<1> QED
  BY <1>1, <1>2, <1>3 DEF SP, Length, IsX86

\* The table of this instruction set.
LEMMA ViewX64 ==
  /\ \A b, k, t, r : Reg("x64", b, k, t, r) = RegX64(b, k, t, r)
  /\ \A b, k, a : a \in Known("x64", b, k) <=> a \in (b - 70)..(b + 2) /\ KnownX64(b, k, a)
  /\ \A b, k, t, a : Kept("x64", b, k, t, a) = WordX64(b, k, t, a)
  /\ SP("x64") = 5 /\ Registers("x64") = (0..16) \cup (32..55) /\ Length("x64") = 53 /\ IsX86("x64")
<1>1. /\ \A b, k, t, r : Reg("x64", b, k, t, r) = RegX64(b, k, t, r)
      /\ \A b, k, t, a : Kept("x64", b, k, t, a) = WordX64(b, k, t, a)
  BY DEF Reg, Kept
<1>2. \A b, k, a : a \in Known("x64", b, k) <=> a \in (b - 70)..(b + 2) /\ KnownX64(b, k, a)
  BY DEF Known
<1>3. Registers("x64") = (0..16) \cup (32..55)
  BY DEF Registers, Vectors
<1> QED
  BY <1>1, <1>2, <1>3 DEF SP, Length, IsX86

\* The register lists the bridges use.
LEMMA Runs ==
  /\ \A x \in Int : Run(<<x>>, x, 1) /\ Run(<<x, x + 1>>, x, 2)
  /\ \A n \in Int : Run(QPair(n), 32 + 2 * n, 4)
<1>1. \A x \in Int : Run(<<x>>, x, 1)
  BY DEF Run
<1>2. \A x \in Int : Run(<<x, x + 1>>, x, 2)
  BY DEF Run
<1>3. ASSUME NEW n \in Int
      PROVE  Run(QPair(n), 32 + 2 * n, 4)
  <2> DEFINE x == 32 + 2 * n
  <2>1. QPair(n) = <<x, x + 1, x + 2, x + 3>> /\ x \in Int
    BY DEF QPair, Q
  <2> HIDE DEF x
  <2>2. Run(<<x, x + 1, x + 2, x + 3>>, x, 4)
    BY <2>1 DEF Run
  <2> QED
    BY <2>1, <2>2 DEF x
<1> QED
  BY <1>1, <1>2, <1>3

\* Nothing but a stutter happens after control has left.
LEMMA Going ==
  ASSUME BridgeNext
  PROVE  next = Nowhere
  BY DEF BridgeNext, DoAdd, DoMov, DoStore, DoLoad, DoPop, DoLit, DoStoreLit, DoPush, DoJumpIfOdd,
         DoJump, DoLeave, DoRet, CallHandler, Signal, Running

\* A store of one register.
LEMMA StoreOneKeeps ==
  ASSUME BridgeInv, BridgeNext, ~Signal, NEW x, NEW n, Insn = St(<<x>>, n),
         StoreFits(isa, sp0, pc, touched, x, 1, n), Stays(pc + 1)
  PROVE  BridgeInv'
<1>1. x \in Int
  BY DEF StoreFits
<1>2. Run(<<x>>, x, 1)
  BY <1>1, Runs
<1> QED
  BY <1>2, StoreKeeps

\* A load of one register.
LEMMA LoadOneKeeps ==
  ASSUME BridgeInv, BridgeNext, ~Signal, NEW x, NEW n, NEW d,
         \/ Insn = Ld(<<x>>, n) /\ d = 0
         \/ Insn = Pop(<<x>>) /\ d = 1 /\ n = 0,
         LoadFits(isa, sp0, pc, touched, x, 1, n, d), Stays(pc + 1)
  PROVE  BridgeInv'
<1>1. x \in Int
  BY DEF LoadFits
<1>2. Run(<<x>>, x, 1)
  BY <1>1, Runs
<1> QED
  BY <1>2, LoadKeeps

\* Every instruction but the jumps and the call leads from its line of the table to the next.
TableARM(b, t) ==
  /\ SetFits("arm", b, 1, t, 12, TrampEntry)
  /\ AddFits("arm", b, 2, t, 13, 13, -14)
  /\ StoreFits("arm", b, 3, t, 14, 1, 13)
  /\ \A i \in 1..13 : StoreFits("arm", b, 3 + i, t, 13 - i, 1, 13 - i)
  /\ AddFits("arm", b, 17, t, 0, 13, 14)
  /\ AddFits("arm", b, 18, t, 13, 13, -2)
  /\ StoreFits("arm", b, 19, t, 0, 1, 1)
  /\ AddFits("arm", b, 20, t, 13, 13, -2)
  /\ SetFits("arm", b, 21, t, 0, b - 18)
  /\ SetFits("arm", b, 22, t, 1, TrampEntry)
  /\ AddFits("arm", b, 24, t, 13, 13, 2)
  /\ AddFits("arm", b, 25, t, 13, 13, 2)
  /\ \A i \in 1..13 : LoadFits("arm", b, 25 + i, t, i - 1, 1, 0, 1)
  /\ LoadFits("arm", b, 39, t, 14, 1, 0, 1)

\* It does, for every stack pointer.
LEMMA FitsARM ==
  ASSUME NEW b \in Nat, b >= 70, NEW t
  PROVE  TableARM(b, t)
<1> USE ViewARM DEF RegARM, DepthARM, ResultARM, LowARM, KnownARM, FieldARM, WordARM, TrampEntry, Junk, Orig
<1>1. SetFits("arm", b, 1, t, 12, TrampEntry)
  BY DEF SetFits, SameWords
<1>2. AddFits("arm", b, 2, t, 13, 13, -14)
  BY DEF AddFits, SameWords
<1>3. StoreFits("arm", b, 3, t, 14, 1, 13)
  BY DEF StoreFits, SameRegs
<1>4. \A i \in 1..13 : StoreFits("arm", b, 3 + i, t, 13 - i, 1, 13 - i)
  BY DEF StoreFits, SameRegs
<1>5. AddFits("arm", b, 17, t, 0, 13, 14)
  BY DEF AddFits, SameWords
<1>6. AddFits("arm", b, 18, t, 13, 13, -2)
  BY DEF AddFits, SameWords
<1>7. StoreFits("arm", b, 19, t, 0, 1, 1)
  BY DEF StoreFits, SameRegs
<1>8. AddFits("arm", b, 20, t, 13, 13, -2)
  BY DEF AddFits, SameWords
<1>9. SetFits("arm", b, 21, t, 0, b - 18)
  BY DEF SetFits, SameWords
<1>10. SetFits("arm", b, 22, t, 1, TrampEntry)
  BY DEF SetFits, SameWords
<1>11. AddFits("arm", b, 24, t, 13, 13, 2)
  BY DEF AddFits, SameWords
<1>12. AddFits("arm", b, 25, t, 13, 13, 2)
  BY DEF AddFits, SameWords
<1>13. ASSUME NEW i \in 1..13
      PROVE  LoadFits("arm", b, 25 + i, t, i - 1, 1, 0, 1)
  <2> DEFINE k == 25 + i
             j == k + 1
             x == i - 1
             w == Reg("arm", b, k, t, SP("arm"))
  <2>1. k \in Int /\ j = k + 1 /\ x \in Int /\ x \notin 32..63 /\ SP("arm") # x
    OBVIOUS
  <2>2. w \in Int /\ w \in Known("arm", b, k)
    OBVIOUS
  <2>3. SameWords("arm", b, k, j, t)
    BY DEF SameWords
  <2>4. \A r \in (0..14) \cup {16} :
          Reg("arm", b, j, t, r) = IF r = x THEN Kept("arm", b, k, t, w)
                                   ELSE IF r = SP("arm") THEN w + 1 ELSE Reg("arm", b, k, t, r)
    OBVIOUS
  <2>5. \A r \in 32..63 : Reg("arm", b, j, t, r) = Reg("arm", b, k, t, r)
    OBVIOUS
  <2>6. /\ Registers("arm") = ((0..14) \cup {16}) \cup (32..63)
        /\ SP("arm") \in (0..14) \cup {16} /\ SP("arm") \notin 32..63
    OBVIOUS
  <2>7. w = Reg("arm", b, k, t, SP("arm"))
    OBVIOUS
  <2>9. \A r \in Registers("arm") :
          Reg("arm", b, j, t, r) = IF r = x THEN Kept("arm", b, k, t, w)
                                   ELSE IF r = SP("arm") THEN w + 1 ELSE Reg("arm", b, k, t, r)
    <3> HIDE DEF k, j, x, w, RegARM, KnownARM, WordARM
    <3> QED
      BY <2>1, <2>4, <2>5, <2>6
  <2>10. SP("arm") \in Registers("arm")
    OBVIOUS
  <2> HIDE ViewARM DEF k, j, x, w, RegARM, KnownARM, WordARM
  <2>8. LoadFits("arm", b, k, t, x, 1, 0, 1)
    BY <2>1, <2>2, <2>3, <2>7, <2>9, <2>10, OnePop
  <2> QED
    BY <2>8 DEF k, x
<1>14. LoadFits("arm", b, 39, t, 14, 1, 0, 1)
  BY DEF LoadFits, SameWords
<1> QED
  BY <1>1, <1>2, <1>3, <1>4, <1>5, <1>6, <1>7, <1>8, <1>9, <1>10, <1>11, <1>12, <1>13, <1>14 DEF TableARM

\* Where the fields of the context lie on the stack.
LEMMA ContextARM ==
  ASSUME NEW b \in Nat, b >= 70, NEW t
  PROVE  /\ Fields("arm") = (0..12) \cup {14} /\ WordOf("arm", b - 18, -1) = b - 15
         /\ \A f \in Fields("arm") : WordOf("arm", b - 18, f) = IF f = 14 THEN b - 1 ELSE b - 14 + f
         /\ HopWord("arm", b, b - 18, t) = b - 2
  BY DEF WordOf, SpField, Offset, HopWord, Fields, Q

\* The handler leads from the line before the call to the one after it.
LEMMA CallsARM ==
  ASSUME NEW b \in Nat, b >= 70, NEW u, NEW t, NEW k \in {23}
  PROVE  CallFits("arm", b, k, u, t, b - 18)
<1> DEFINE c == b - 18
           h == HopWord("arm", b, c, t)
           W(f) == WordOf("arm", c, f)
<1>1. /\ Fields("arm") = (0..12) \cup {14} /\ W(-1) = b - 15 /\ c \in Int
      /\ \A f \in Fields("arm") : W(f) = IF f = 14 THEN b - 1 ELSE b - 14 + f
      /\ h = b - 2
  BY ContextARM
<1> HIDE DEF c, h, W
<1> USE ViewARM DEF RegARM, DepthARM, ResultARM, LowARM, KnownARM, FieldARM, WordARM, TrampEntry, Junk, Orig, Relocated, Result
<1>2. W(-1) \in Known("arm", b, k) /\ Kept("arm", b, k, u, W(-1)) = b /\ W(-1) \notin Known("arm", b, k + 1)
  BY <1>1
<1>3. \A a \in Known("arm", b, k + 1) : a >= Reg("arm", b, k, u, SP("arm"))
  OBVIOUS
<1>4. h \in Known("arm", b, k + 1) /\ Kept("arm", b, k + 1, t, h) = Relocated
  BY <1>1
<1>5. ASSUME NEW f \in Fields("arm")
      PROVE  /\ W(f) \in (b - 70)..(b + 2)
             /\ W(f) \in Known("arm", b, k + 1) /\ W(f) # h =>
                  /\ W(f) \in Known("arm", b, k)
                  /\ Kept("arm", b, k + 1, t, W(f)) = IF f \in t THEN Written(f) ELSE Kept("arm", b, k, u, W(f))
  <2>1. f \in (0..12) \cup {14} /\ W(f) = IF f = 14 THEN b - 1 ELSE b - 14 + f
    BY <1>1, <1>5
  <2>2. W(f) \in (b - 70)..(b + 2)
    BY <2>1
  <2>3. W(f) \in Known("arm", b, k + 1) /\ W(f) # h => W(f) \in Known("arm", b, k)
    BY <1>1, <2>1
  <2>4. ASSUME W(f) \in Known("arm", b, k + 1), W(f) # h
        PROVE  Kept("arm", b, k + 1, t, W(f)) = IF f \in t THEN Written(f) ELSE Kept("arm", b, k, u, W(f))
    BY <1>1, <2>1, <2>4
  <2> QED
    BY <2>2, <2>3, <2>4
<1>6. ASSUME NEW a \in Known("arm", b, k + 1), a # h, \A f \in Fields("arm") : a # W(f)
      PROVE  a \in Known("arm", b, k) /\ Kept("arm", b, k + 1, t, a) = Kept("arm", b, k, u, a)
  <2>1. a \in (b - 70)..(b + 2) /\ KnownARM(b, k + 1, a)
    BY <1>6
  <2>2. ~(a < b)
    <3> SUFFICES ASSUME a < b PROVE FALSE
      OBVIOUS
    <3> DEFINE f == FieldARM(b, a)
    <3>1. f \in (0..12) \cup {14} /\ a = IF f = 14 THEN b - 1 ELSE b - 14 + f
      BY <2>1
    <3> HIDE DEF f
    <3>2. f \in Fields("arm")
      BY <1>1, <3>1
    <3>3. W(f) = IF f = 14 THEN b - 1 ELSE b - 14 + f
      BY <1>1, <3>2
    <3>4. a # W(f)
      BY <1>6, <3>2
    <3> QED
      BY <3>1, <3>3, <3>4
  <2> QED
    BY <1>1, <1>6, <2>1, <2>2
<1>7. \A r \in Registers("arm") :
        Reg("arm", b, k + 1, t, r) = IF r \in Volatile("arm") THEN Junk ELSE Reg("arm", b, k, u, r)
  BY DEF Volatile
<1> HIDE ViewARM DEF RegARM, DepthARM, ResultARM, LowARM, KnownARM, FieldARM, WordARM, TrampEntry, Junk, Orig, Relocated, Result
<1>8. CallFits("arm", b, k, u, t, c)
  BY <1>1, <1>2, <1>3, <1>4, <1>5, <1>6, <1>7 DEF CallFits, h, W
<1> QED
  BY <1>8 DEF c

\* The bridge relies on no word below the stack pointer.
LEMMA AboveARM ==
  ASSUME NEW b \in Nat, b >= 70, NEW t, NEW k \in 1..40
  PROVE  \A a \in Known("arm", b, k) : a >= Reg("arm", b, k, t, SP("arm"))
  BY ViewARM DEF RegARM, DepthARM, ResultARM, LowARM, KnownARM, FieldARM, WordARM, TrampEntry, Junk, Orig

\* What the last steps leave alone.
LEMMA OutARM ==
  ASSUME NEW b \in Nat, b >= 70, NEW t
  PROVE  /\ Reg("arm", b, 40, t, 12) = Relocated
         /\ SameRegs("arm", b, 40, 41, t)
         /\ SameWords("arm", b, 40, 41, t)
<1> USE ViewARM DEF RegARM, DepthARM, ResultARM, LowARM, KnownARM, FieldARM, WordARM, TrampEntry, Junk, Orig, Relocated, Result
<1>1. Reg("arm", b, 40, t, 12) = Relocated
  OBVIOUS
<1>2. SameRegs("arm", b, 40, 41, t)
  BY DEF SameRegs
<1>3. SameWords("arm", b, 40, 41, t)
  BY DEF SameWords
<1> QED
  BY <1>1, <1>2, <1>3

\* The arguments of the handler.
LEMMA AtARM ==
  ASSUME BridgeInv, isa = "arm", next = Nowhere, pc = 23
  PROVE  ArgContext = sp0 - 18 /\ ArgEntry = TrampEntry /\ sp = sp0 - 18
<1>1. /\ \A r \in Registers(isa) : regs[r] = RegARM(sp0, pc, touched, r)
      /\ \A a \in Known(isa, sp0, pc) : mem[a] = WordARM(sp0, pc, touched, a)
      /\ sp = RegARM(sp0, pc, touched, SP(isa)) /\ sp0 \in Nat /\ sp0 >= 70
  BY Inside, ViewARM
<1> QED
  BY <1>1, ViewARM DEF RegARM, DepthARM, ArgContext, ArgEntry

\* Every step of the program keeps the invariant.
LEMMA StepARM ==
  ASSUME BridgeInv, isa = "arm", BridgeNext, ~Signal
  PROVE  BridgeInv'
<1>1. pc \in 1..40 /\ sp0 \in Nat /\ sp0 >= 70 /\ Path(isa, sp0, pc, touched)
  BY Going, Inside, ViewARM
<1>2. Insn = Program("arm")[pc]
  BY DEF Insn
<1>3. TableARM(sp0, touched)
  BY <1>1, FitsARM
<1>4. pc # 40 => Stays(pc + 1)
  BY <1>1, ViewARM DEF Stays, Path
<1>5. CASE pc \in {2, 17, 18, 20, 24, 25}
  <2>1. PICK d, s, n : Insn = Add(d, s, n) /\ AddFits(isa, sp0, pc, touched, d, s, n)
    BY <1>2, <1>3, <1>5, ProgramARM DEF TableARM
  <2> QED
    BY <1>4, <1>5, <2>1, AddKeeps
<1>6. CASE pc = 1
  <2>1. PICK d, v : Insn = Lit(d, v) /\ SetFits(isa, sp0, pc, touched, d, v)
    BY <1>2, <1>3, <1>6, ProgramARM DEF TableARM
  <2> QED
    BY <1>4, <1>6, <2>1, SetKeeps
<1>7. CASE pc = 21
  <2>1. Insn = Mov(0, 13) /\ SetFits(isa, sp0, pc, touched, 0, sp0 - 18)
    BY <1>2, <1>3, <1>7, ProgramARM DEF TableARM
  <2>2. 13 \in Registers(isa) /\ Reg(isa, sp0, pc, touched, 13) = sp0 - 18
    BY <1>7, ViewARM DEF RegARM, DepthARM
  <2> QED
    BY <1>4, <1>7, <2>1, <2>2, SetKeeps
<1>8. CASE pc = 22
  <2>1. Insn = Mov(1, 12) /\ SetFits(isa, sp0, pc, touched, 1, TrampEntry)
    BY <1>2, <1>3, <1>8, ProgramARM DEF TableARM
  <2>2. 12 \in Registers(isa) /\ Reg(isa, sp0, pc, touched, 12) = TrampEntry
    BY <1>8, ViewARM DEF RegARM, DepthARM
  <2> QED
    BY <1>4, <1>8, <2>1, <2>2, SetKeeps
<1>9. CASE pc = 3
  <2>1. Insn = St(<<14>>, 13) /\ StoreFits(isa, sp0, pc, touched, 14, 1, 13)
    BY <1>2, <1>3, <1>9, ProgramARM DEF TableARM
  <2> QED
    BY <1>4, <1>9, <2>1, StoreOneKeeps
<1>10. CASE pc = 19
  <2>1. Insn = St(<<0>>, 1) /\ StoreFits(isa, sp0, pc, touched, 0, 1, 1)
    BY <1>2, <1>3, <1>10, ProgramARM DEF TableARM
  <2> QED
    BY <1>4, <1>10, <2>1, StoreOneKeeps
<1>11. CASE pc = 39
  <2>1. Insn = Pop(<<14>>) /\ LoadFits(isa, sp0, pc, touched, 14, 1, 0, 1)
    BY <1>2, <1>3, <1>11, ProgramARM DEF TableARM
  <2> QED
    BY <1>4, <1>11, <2>1, LoadOneKeeps
<1>12. CASE pc \in 4..16
  <2> DEFINE i == pc - 3
  <2>1. i \in 1..13 /\ pc = 3 + i
    BY <1>12
  <2> HIDE DEF i
  <2>2. Insn = St(<<13 - i>>, 13 - i)
    BY <1>2, <2>1, ProgramARM
  <2>3. StoreFits(isa, sp0, pc, touched, 13 - i, 1, 13 - i)
    BY <1>3, <2>1 DEF TableARM
  <2> QED
    BY <1>4, <1>12, <2>2, <2>3, StoreOneKeeps
<1>13. CASE pc \in 26..38
  <2> DEFINE i == pc - 25
  <2>1. i \in 1..13 /\ pc = 25 + i
    BY <1>13
  <2> HIDE DEF i
  <2>2. Insn = Pop(<<i - 1>>)
    BY <1>2, <2>1, ProgramARM
  <2>3. LoadFits(isa, sp0, pc, touched, i - 1, 1, 0, 1)
    BY <1>3, <2>1 DEF TableARM
  <2> QED
    BY <1>4, <1>13, <2>2, <2>3, LoadOneKeeps
<1>14. CASE pc = 23
  <2>1. Insn = Call
    BY <1>2, <1>14, ProgramARM
  <2>2. ArgContext = sp0 - 18
    BY <1>14, Going, AtARM
  <2>3. \A t \in SUBSET (Fields(isa) \cup {-1}) : CallFits(isa, sp0, pc, touched, t, sp0 - 18)
    BY <1>1, <1>14, CallsARM
  <2>4. \A t : Path(isa, sp0, pc + 1, t)
    BY <1>1, <1>14 DEF Path
  <2> QED
    BY <1>4, <1>14, <2>1, <2>2, <2>3, <2>4, CallKeeps
<1>15. CASE pc = 40
  <2>1. Insn = Leave(12) /\ 12 \in Registers(isa)
    BY <1>2, <1>15, ProgramARM, ViewARM
  <2>2. /\ Reg(isa, sp0, pc, touched, 12) = Relocated
        /\ SameRegs(isa, sp0, pc, pc + 1, touched) /\ SameWords(isa, sp0, pc, pc + 1, touched)
    BY <1>1, <1>15, OutARM
  <2>3. Relocated \in Exits(isa, pc, touched) /\ Relocated # AfterBlr /\ Relocated # Nowhere
    BY <1>15 DEF Exits, Relocated, AfterBlr, Nowhere
  <2> QED
    BY <2>1, <2>2, <2>3, LeaveKeeps
<1> QED
  BY <1>1, <1>5, <1>6, <1>7, <1>8, <1>9, <1>10, <1>11, <1>12, <1>13, <1>14, <1>15

\* Every instruction but the jumps and the call leads from its line of the table to the next.
TableARM64(b, t) ==
  /\ AddFits("arm64", b, 1, t, 31, 31, -2)
  /\ StoreFits("arm64", b, 2, t, 30, 1, 1)
  /\ SetFits("arm64", b, 3, t, 17, TrampEntry)
  /\ StoreFits("arm64", b, 4, t, 17, 1, 0)
  /\ SetFits("arm64", b, 5, t, 17, Bridge)
  /\ SetFits("arm64", b, 6, t, 30, AfterBlr)
  /\ AddFits("arm64", b, 7, t, 31, 31, -16)
  /\ \A i \in 1..4 : StoreFits("arm64", b, 7 + i, t, 48 - 4 * i, 4, 16 - 4 * i)
  /\ AddFits("arm64", b, 12, t, 31, 31, -30)
  /\ \A i \in 1..15 : StoreFits("arm64", b, 12 + i, t, 31 - 2 * i, 2, 30 - 2 * i)
  /\ AddFits("arm64", b, 28, t, 31, 31, -2)
  /\ StoreFits("arm64", b, 29, t, 0, 1, 1)
  /\ AddFits("arm64", b, 30, t, 17, 31, 2)
  /\ AddFits("arm64", b, 31, t, 17, 17, 48)
  /\ AddFits("arm64", b, 32, t, 31, 31, -2)
  /\ StoreFits("arm64", b, 33, t, 17, 1, 1)
  /\ SetFits("arm64", b, 34, t, 0, b - 52)
  /\ LoadFits("arm64", b, 35, t, 1, 1, 50, 0)
  /\ AddFits("arm64", b, 37, t, 31, 31, 2)
  /\ LoadFits("arm64", b, 38, t, 0, 1, 1, 0)
  /\ AddFits("arm64", b, 39, t, 31, 31, 2)
  /\ \A i \in 1..15 : LoadFits("arm64", b, 39 + i, t, 2 * i - 1, 2, 0, 2)
  /\ \A i \in 1..4 : LoadFits("arm64", b, 54 + i, t, 28 + 4 * i, 4, 0, 4)
  /\ 30 \notin t => LoadFits("arm64", b, 60, t, 30, 1, 1, 0)
  /\ AddFits("arm64", b, 61, t, 31, 31, 2)

\* It does, for every stack pointer.
LEMMA FitsARM64 ==
  ASSUME NEW b \in Nat, b >= 70, NEW t
  PROVE  TableARM64(b, t)
<1> USE ViewARM64 DEF RegARM64, DepthARM64, ResultARM64, LowARM64, KnownARM64, FieldARM64, WordARM64, TrampEntry, Bridge, AfterBlr, Junk, Orig, Volatile, Q
<1>1. AddFits("arm64", b, 1, t, 31, 31, -2)
  BY DEF AddFits, SameWords
<1>2. StoreFits("arm64", b, 2, t, 30, 1, 1)
  BY DEF StoreFits, SameRegs
<1>3. SetFits("arm64", b, 3, t, 17, TrampEntry)
  BY DEF SetFits, SameWords
<1>4. StoreFits("arm64", b, 4, t, 17, 1, 0)
  BY DEF StoreFits, SameRegs
<1>5. SetFits("arm64", b, 5, t, 17, Bridge)
  BY DEF SetFits, SameWords
<1>6. SetFits("arm64", b, 6, t, 30, AfterBlr)
  BY DEF SetFits, SameWords
<1>7. AddFits("arm64", b, 7, t, 31, 31, -16)
  BY DEF AddFits, SameWords
<1>8. \A i \in 1..4 : StoreFits("arm64", b, 7 + i, t, 48 - 4 * i, 4, 16 - 4 * i)
  BY DEF StoreFits, SameRegs
<1>9. AddFits("arm64", b, 12, t, 31, 31, -30)
  BY DEF AddFits, SameWords
<1>10. \A i \in 1..15 : StoreFits("arm64", b, 12 + i, t, 31 - 2 * i, 2, 30 - 2 * i)
  BY DEF StoreFits, SameRegs
<1>11. AddFits("arm64", b, 28, t, 31, 31, -2)
  BY DEF AddFits, SameWords
<1>12. StoreFits("arm64", b, 29, t, 0, 1, 1)
  BY DEF StoreFits, SameRegs
<1>13. AddFits("arm64", b, 30, t, 17, 31, 2)
  BY DEF AddFits, SameWords
<1>14. AddFits("arm64", b, 31, t, 17, 17, 48)
  BY DEF AddFits, SameWords
<1>15. AddFits("arm64", b, 32, t, 31, 31, -2)
  BY DEF AddFits, SameWords
<1>16. StoreFits("arm64", b, 33, t, 17, 1, 1)
  BY DEF StoreFits, SameRegs
<1>17. SetFits("arm64", b, 34, t, 0, b - 52)
  BY DEF SetFits, SameWords
<1>18. LoadFits("arm64", b, 35, t, 1, 1, 50, 0)
  BY DEF LoadFits, SameWords
<1>19. AddFits("arm64", b, 37, t, 31, 31, 2)
  BY DEF AddFits, SameWords
<1>20. LoadFits("arm64", b, 38, t, 0, 1, 1, 0)
  BY DEF LoadFits, SameWords
<1>21. AddFits("arm64", b, 39, t, 31, 31, 2)
  BY DEF AddFits, SameWords
<1>22. \A i \in 1..15 : LoadFits("arm64", b, 39 + i, t, 2 * i - 1, 2, 0, 2)
  <2> TAKE i \in 1..15
  <2>1. Reg("arm64", b, 39 + i, t, SP("arm64")) + 0 = b - 50 + 2 * i
    OBVIOUS
  <2>2. ASSUME NEW a \in (b - 50 + 2 * i)..(b - 50 + 2 * i + 2 - 1)
        PROVE  a \in Known("arm64", b, 39 + i)
    BY <2>2
  <2>3. ASSUME NEW r \in Registers("arm64")
        PROVE  Reg("arm64", b, 39 + i + 1, t, r)
                 = IF r \in (2 * i - 1)..(2 * i - 1 + 2 - 1) THEN Kept("arm64", b, 39 + i, t, b - 50 + 2 * i + (r - (2 * i - 1)))
                   ELSE IF r = SP("arm64") THEN Reg("arm64", b, 39 + i, t, SP("arm64")) + 2
                   ELSE Reg("arm64", b, 39 + i, t, r)
    <3>1. CASE r \in (2 * i - 1)..(2 * i - 1 + 2 - 1)
      <4>1. r \in 1..30 /\ r <= 2 * i /\ r # 31 /\ b - 50 + 2 * i + (r - (2 * i - 1)) = b - 49 + r
        BY <3>1
      <4> HIDE DEF ResultARM64
      <4>2. WordARM64(b, 39 + i, t, b - 49 + r) = ResultARM64(t, r)
        BY <4>1
      <4>3. RegARM64(b, 39 + i + 1, t, r) = ResultARM64(t, r)
        BY <4>1
      <4> QED
        BY <3>1, <4>1, <4>2, <4>3
    <3>2. CASE r \notin (2 * i - 1)..(2 * i - 1 + 2 - 1) /\ r = SP("arm64")
      BY <2>3, <3>2
    <3>3. CASE r \notin (2 * i - 1)..(2 * i - 1 + 2 - 1) /\ r # SP("arm64")
      BY <2>3, <3>3
    <3> QED
      BY <3>1, <3>2, <3>3
  <2>4. SameWords("arm64", b, 39 + i, 39 + i + 1, t)
    BY DEF SameWords
  <2>5. SP("arm64") \in Registers("arm64") /\ SP("arm64") \notin (2 * i - 1)..(2 * i - 1 + 2 - 1) /\ 2 * i - 1 \in Int
    OBVIOUS
  <2> QED
    BY <2>1, <2>2, <2>3, <2>4, <2>5 DEF LoadFits
<1>23. \A i \in 1..4 : LoadFits("arm64", b, 54 + i, t, 28 + 4 * i, 4, 0, 4)
  BY DEF LoadFits, SameWords
<1>24. 30 \notin t => LoadFits("arm64", b, 60, t, 30, 1, 1, 0)
  BY DEF LoadFits, SameWords
<1>25. AddFits("arm64", b, 61, t, 31, 31, 2)
  BY DEF AddFits, SameWords
<1> QED
  BY <1>1, <1>2, <1>3, <1>4, <1>5, <1>6, <1>7, <1>8, <1>9, <1>10, <1>11, <1>12, <1>13, <1>14, <1>15, <1>16, <1>17, <1>18, <1>19, <1>20, <1>21, <1>22, <1>23, <1>24, <1>25 DEF TableARM64

\* Where the fields of the context lie on the stack.
LEMMA ContextARM64 ==
  ASSUME NEW b \in Nat, b >= 70, NEW t
  PROVE  /\ Fields("arm64") = (0..30) \cup (32..47) /\ WordOf("arm64", b - 52, -1) = b - 51
         /\ \A f \in Fields("arm64") : WordOf("arm64", b - 52, f) = IF f <= 30 THEN b - 49 + f ELSE b - 50 + f
         /\ HopWord("arm64", b, b - 52, t) = b - 32
  BY DEF WordOf, SpField, Offset, HopWord, Fields, Q

\* The handler leads from the line before the call to the one after it.
LEMMA CallsARM64 ==
  ASSUME NEW b \in Nat, b >= 70, NEW u, NEW t, NEW k \in {36}
  PROVE  CallFits("arm64", b, k, u, t, b - 52)
<1> DEFINE c == b - 52
           h == HopWord("arm64", b, c, t)
           W(f) == WordOf("arm64", c, f)
<1>1. /\ Fields("arm64") = (0..30) \cup (32..47) /\ W(-1) = b - 51 /\ c \in Int
      /\ \A f \in Fields("arm64") : W(f) = IF f <= 30 THEN b - 49 + f ELSE b - 50 + f
      /\ h = b - 32
  BY ContextARM64
<1> HIDE DEF c, h, W
<1> USE ViewARM64 DEF RegARM64, DepthARM64, ResultARM64, LowARM64, KnownARM64, FieldARM64, WordARM64, TrampEntry, Bridge, AfterBlr, Junk, Orig, Volatile, Q, Relocated, Result
<1>2. W(-1) \in Known("arm64", b, k) /\ Kept("arm64", b, k, u, W(-1)) = b /\ W(-1) \notin Known("arm64", b, k + 1)
  BY <1>1
<1>3. \A a \in Known("arm64", b, k + 1) : a >= Reg("arm64", b, k, u, SP("arm64"))
  OBVIOUS
<1>4. h \in Known("arm64", b, k + 1) /\ Kept("arm64", b, k + 1, t, h) = Relocated
  BY <1>1
<1>5. ASSUME NEW f \in Fields("arm64")
      PROVE  /\ W(f) \in (b - 70)..(b + 2)
             /\ W(f) \in Known("arm64", b, k + 1) /\ W(f) # h =>
                  /\ W(f) \in Known("arm64", b, k)
                  /\ Kept("arm64", b, k + 1, t, W(f)) = IF f \in t THEN Written(f) ELSE Kept("arm64", b, k, u, W(f))
  <2>1. f \in (0..30) \cup (32..47) /\ W(f) = IF f <= 30 THEN b - 49 + f ELSE b - 50 + f
    BY <1>1, <1>5
  <2>2. W(f) \in (b - 70)..(b + 2)
    BY <2>1
  <2>3. W(f) \in Known("arm64", b, k + 1) /\ W(f) # h => W(f) \in Known("arm64", b, k)
    BY <1>1, <2>1
  <2>4. ASSUME W(f) \in Known("arm64", b, k + 1), W(f) # h
        PROVE  Kept("arm64", b, k + 1, t, W(f)) = IF f \in t THEN Written(f) ELSE Kept("arm64", b, k, u, W(f))
    BY <1>1, <2>1, <2>4
  <2> QED
    BY <2>2, <2>3, <2>4
<1>6. ASSUME NEW a \in Known("arm64", b, k + 1), a # h, \A f \in Fields("arm64") : a # W(f)
      PROVE  a \in Known("arm64", b, k) /\ Kept("arm64", b, k + 1, t, a) = Kept("arm64", b, k, u, a)
  <2>1. a \in (b - 70)..(b + 2) /\ KnownARM64(b, k + 1, a)
    BY <1>6
  <2>2. ~(a < b - 2)
    <3> SUFFICES ASSUME a < b - 2 PROVE FALSE
      OBVIOUS
    <3> DEFINE f == FieldARM64(b, a)
    <3>1. f \in (0..30) \cup (32..47) /\ a = IF f <= 30 THEN b - 49 + f ELSE b - 50 + f
      BY <2>1
    <3> HIDE DEF f
    <3>2. f \in Fields("arm64")
      BY <1>1, <3>1
    <3>3. W(f) = IF f <= 30 THEN b - 49 + f ELSE b - 50 + f
      BY <1>1, <3>2
    <3>4. a # W(f)
      BY <1>6, <3>2
    <3> QED
      BY <3>1, <3>3, <3>4
  <2> QED
    BY <1>1, <1>6, <2>1, <2>2
<1>7. \A r \in Registers("arm64") :
        Reg("arm64", b, k + 1, t, r) = IF r \in Volatile("arm64") THEN Junk ELSE Reg("arm64", b, k, u, r)
  BY DEF Volatile
<1> HIDE ViewARM64 DEF RegARM64, DepthARM64, ResultARM64, LowARM64, KnownARM64, FieldARM64, WordARM64, TrampEntry, Bridge, AfterBlr, Junk, Orig, Volatile, Q, Relocated, Result
<1>8. CallFits("arm64", b, k, u, t, c)
  BY <1>1, <1>2, <1>3, <1>4, <1>5, <1>6, <1>7 DEF CallFits, h, W
<1> QED
  BY <1>8 DEF c

\* The bridge relies on no word below the stack pointer.
LEMMA AboveARM64 ==
  ASSUME NEW b \in Nat, b >= 70, NEW t, NEW k \in 1..62
  PROVE  \A a \in Known("arm64", b, k) : a >= Reg("arm64", b, k, t, SP("arm64"))
  BY ViewARM64 DEF RegARM64, DepthARM64, ResultARM64, LowARM64, KnownARM64, FieldARM64, WordARM64, TrampEntry, Bridge, AfterBlr, Junk, Orig, Volatile, Q

\* What the last steps leave alone.
LEMMA OutARM64 ==
  ASSUME NEW b \in Nat, b >= 70, NEW t
  PROVE  /\ Reg("arm64", b, 59, t, 30) = IF 30 \in t THEN Written(30) ELSE AfterBlr
         /\ SameRegs("arm64", b, 59, 60, t)
         /\ SameWords("arm64", b, 59, 60, t)
         /\ Reg("arm64", b, 62, t, 17) = Relocated
         /\ SameRegs("arm64", b, 62, 63, t)
         /\ SameWords("arm64", b, 62, 63, t)
<1> USE ViewARM64 DEF RegARM64, DepthARM64, ResultARM64, LowARM64, KnownARM64, FieldARM64, WordARM64, TrampEntry, Bridge, AfterBlr, Junk, Orig, Volatile, Q, Relocated, Result
<1>1. Reg("arm64", b, 59, t, 30) = IF 30 \in t THEN Written(30) ELSE AfterBlr
  OBVIOUS
<1>2. SameRegs("arm64", b, 59, 60, t)
  BY DEF SameRegs
<1>3. SameWords("arm64", b, 59, 60, t)
  BY DEF SameWords
<1>4. Reg("arm64", b, 62, t, 17) = Relocated
  OBVIOUS
<1>5. SameRegs("arm64", b, 62, 63, t)
  BY DEF SameRegs
<1>6. SameWords("arm64", b, 62, 63, t)
  BY DEF SameWords
<1> QED
  BY <1>1, <1>2, <1>3, <1>4, <1>5, <1>6

\* The arguments of the handler.
LEMMA AtARM64 ==
  ASSUME BridgeInv, isa = "arm64", next = Nowhere, pc = 36
  PROVE  ArgContext = sp0 - 52 /\ ArgEntry = TrampEntry /\ sp = sp0 - 52
<1>1. /\ \A r \in Registers(isa) : regs[r] = RegARM64(sp0, pc, touched, r)
      /\ \A a \in Known(isa, sp0, pc) : mem[a] = WordARM64(sp0, pc, touched, a)
      /\ sp = RegARM64(sp0, pc, touched, SP(isa)) /\ sp0 \in Nat /\ sp0 >= 70
  BY Inside, ViewARM64
<1> QED
  BY <1>1, ViewARM64 DEF RegARM64, DepthARM64, ArgContext, ArgEntry

\* Every step of the program keeps the invariant.
LEMMA StepARM64 ==
  ASSUME BridgeInv, isa = "arm64", BridgeNext, ~Signal
  PROVE  BridgeInv'
<1>1. pc \in 1..62 /\ sp0 \in Nat /\ sp0 >= 70 /\ Path(isa, sp0, pc, touched)
  BY Going, Inside, ViewARM64
<1>2. Insn = Program("arm64")[pc]
  BY DEF Insn
<1>3. TableARM64(sp0, touched)
  BY <1>1, FitsARM64
<1>4. pc # 62 /\ pc # 59 => Stays(pc + 1)
  BY <1>1, ViewARM64 DEF Stays, Path
<1>5. CASE pc \in {1, 7, 12, 28, 30, 31, 32, 37, 39, 61}
  <2>1. PICK d, s, n : Insn = Add(d, s, n) /\ AddFits(isa, sp0, pc, touched, d, s, n)
    BY <1>2, <1>3, <1>5, ProgramARM64 DEF TableARM64
  <2> QED
    BY <1>4, <1>5, <2>1, AddKeeps
<1>6. CASE pc \in {3, 5, 6}
  <2>1. PICK d, v : Insn = Lit(d, v) /\ SetFits(isa, sp0, pc, touched, d, v)
    BY <1>2, <1>3, <1>6, ProgramARM64 DEF TableARM64
  <2> QED
    BY <1>4, <1>6, <2>1, SetKeeps
<1>7. CASE pc = 34
  <2>1. Insn = Mov(0, 31) /\ SetFits(isa, sp0, pc, touched, 0, sp0 - 52)
    BY <1>2, <1>3, <1>7, ProgramARM64 DEF TableARM64
  <2>2. 31 \in Registers(isa) /\ Reg(isa, sp0, pc, touched, 31) = sp0 - 52
    BY <1>7, ViewARM64 DEF RegARM64, DepthARM64
  <2> QED
    BY <1>4, <1>7, <2>1, <2>2, SetKeeps
<1>8. CASE pc = 2
  <2>1. Insn = St(<<30>>, 1) /\ StoreFits(isa, sp0, pc, touched, 30, 1, 1)
    BY <1>2, <1>3, <1>8, ProgramARM64 DEF TableARM64
  <2> QED
    BY <1>4, <1>8, <2>1, StoreOneKeeps
<1>9. CASE pc = 4
  <2>1. Insn = St(<<17>>, 0) /\ StoreFits(isa, sp0, pc, touched, 17, 1, 0)
    BY <1>2, <1>3, <1>9, ProgramARM64 DEF TableARM64
  <2> QED
    BY <1>4, <1>9, <2>1, StoreOneKeeps
<1>10. CASE pc = 29
  <2>1. Insn = St(<<0>>, 1) /\ StoreFits(isa, sp0, pc, touched, 0, 1, 1)
    BY <1>2, <1>3, <1>10, ProgramARM64 DEF TableARM64
  <2> QED
    BY <1>4, <1>10, <2>1, StoreOneKeeps
<1>11. CASE pc = 33
  <2>1. Insn = St(<<17>>, 1) /\ StoreFits(isa, sp0, pc, touched, 17, 1, 1)
    BY <1>2, <1>3, <1>11, ProgramARM64 DEF TableARM64
  <2> QED
    BY <1>4, <1>11, <2>1, StoreOneKeeps
<1>12. CASE pc = 35
  <2>1. Insn = Ld(<<1>>, 50) /\ LoadFits(isa, sp0, pc, touched, 1, 1, 50, 0)
    BY <1>2, <1>3, <1>12, ProgramARM64 DEF TableARM64
  <2> QED
    BY <1>4, <1>12, <2>1, LoadOneKeeps
<1>13. CASE pc = 38
  <2>1. Insn = Ld(<<0>>, 1) /\ LoadFits(isa, sp0, pc, touched, 0, 1, 1, 0)
    BY <1>2, <1>3, <1>13, ProgramARM64 DEF TableARM64
  <2> QED
    BY <1>4, <1>13, <2>1, LoadOneKeeps
<1>14. CASE pc = 60
  <2>1. Insn = Ld(<<30>>, 1) /\ LoadFits(isa, sp0, pc, touched, 30, 1, 1, 0)
    BY <1>1, <1>2, <1>3, <1>14, ProgramARM64 DEF TableARM64, Path
  <2> QED
    BY <1>4, <1>14, <2>1, LoadOneKeeps
<1>15. CASE pc \in 8..11
  <2> DEFINE i == pc - 7
  <2>1. i \in 1..4 /\ pc = 7 + i
    BY <1>15
  <2> HIDE DEF i
  <2>2. Insn = St(QPair(8 - 2 * i), 16 - 4 * i)
    BY <1>2, <2>1, ProgramARM64
  <2>3. StoreFits(isa, sp0, pc, touched, 48 - 4 * i, 4, 16 - 4 * i)
    BY <1>3, <2>1 DEF TableARM64
  <2>4. Run(QPair(8 - 2 * i), 48 - 4 * i, 4)
    <3>1. 8 - 2 * i \in Int /\ 32 + 2 * (8 - 2 * i) = 48 - 4 * i
      BY <2>1
    <3>2. Run(QPair(8 - 2 * i), 32 + 2 * (8 - 2 * i), 4)
      BY <3>1, Runs
    <3> QED
      BY <3>1, <3>2
  <2> QED
    BY <1>4, <1>15, <2>2, <2>3, <2>4, StoreKeeps
<1>16. CASE pc \in 13..27
  <2> DEFINE i == pc - 12
  <2>1. i \in 1..15 /\ pc = 12 + i
    BY <1>16
  <2> HIDE DEF i
  <2>2. Insn = St(<<31 - 2 * i, 32 - 2 * i>>, 30 - 2 * i)
    BY <1>2, <2>1, ProgramARM64
  <2>3. StoreFits(isa, sp0, pc, touched, 31 - 2 * i, 2, 30 - 2 * i)
    BY <1>3, <2>1 DEF TableARM64
  <2>4. Run(<<31 - 2 * i, 32 - 2 * i>>, 31 - 2 * i, 2)
    <3>1. 31 - 2 * i \in Int /\ 31 - 2 * i + 1 = 32 - 2 * i
      BY <2>1
    <3>2. Run(<<31 - 2 * i, 31 - 2 * i + 1>>, 31 - 2 * i, 2)
      BY <3>1, Runs
    <3> QED
      BY <3>1, <3>2
  <2> QED
    BY <1>4, <1>16, <2>2, <2>3, <2>4, StoreKeeps
<1>17. CASE pc \in 40..54
  <2> DEFINE i == pc - 39
  <2>1. i \in 1..15 /\ pc = 39 + i
    BY <1>17
  <2> HIDE DEF i
  <2>2. Insn = Pop(<<2 * i - 1, 2 * i>>)
    BY <1>2, <2>1, ProgramARM64
  <2>3. LoadFits(isa, sp0, pc, touched, 2 * i - 1, 2, 0, 2)
    BY <1>3, <2>1 DEF TableARM64
  <2>4. Run(<<2 * i - 1, 2 * i>>, 2 * i - 1, 2)
    <3>1. 2 * i - 1 \in Int /\ 2 * i - 1 + 1 = 2 * i
      BY <2>1
    <3>2. Run(<<2 * i - 1, 2 * i - 1 + 1>>, 2 * i - 1, 2)
      BY <3>1, Runs
    <3> QED
      BY <3>1, <3>2
  <2> QED
    BY <1>4, <1>17, <2>2, <2>3, <2>4, LoadKeeps
<1>18. CASE pc \in 55..58
  <2> DEFINE i == pc - 54
  <2>1. i \in 1..4 /\ pc = 54 + i
    BY <1>18
  <2> HIDE DEF i
  <2>2. Insn = Pop(QPair(2 * i - 2))
    BY <1>2, <2>1, ProgramARM64
  <2>3. LoadFits(isa, sp0, pc, touched, 28 + 4 * i, 4, 0, 4)
    BY <1>3, <2>1 DEF TableARM64
  <2>4. Run(QPair(2 * i - 2), 28 + 4 * i, 4)
    <3>1. 2 * i - 2 \in Int /\ 32 + 2 * (2 * i - 2) = 28 + 4 * i
      BY <2>1
    <3>2. Run(QPair(2 * i - 2), 32 + 2 * (2 * i - 2), 4)
      BY <3>1, Runs
    <3> QED
      BY <3>1, <3>2
  <2> QED
    BY <1>4, <1>18, <2>2, <2>3, <2>4, LoadKeeps
<1>19. CASE pc = 36
  <2>1. Insn = Call
    BY <1>2, <1>19, ProgramARM64
  <2>2. ArgContext = sp0 - 52
    BY <1>19, Going, AtARM64
  <2>3. \A t \in SUBSET (Fields(isa) \cup {-1}) : CallFits(isa, sp0, pc, touched, t, sp0 - 52)
    BY <1>1, <1>19, CallsARM64
  <2>4. \A t : Path(isa, sp0, pc + 1, t)
    BY <1>1, <1>19 DEF Path
  <2> QED
    BY <1>4, <1>19, <2>1, <2>2, <2>3, <2>4, CallKeeps
<1>20. CASE pc = 62
  <2>1. Insn = Leave(17) /\ 17 \in Registers(isa)
    BY <1>2, <1>20, ProgramARM64, ViewARM64
  <2>2. /\ Reg(isa, sp0, pc, touched, 17) = Relocated
        /\ SameRegs(isa, sp0, pc, pc + 1, touched) /\ SameWords(isa, sp0, pc, pc + 1, touched)
    BY <1>1, <1>20, OutARM64
  <2>3. Relocated \in Exits(isa, pc, touched) /\ Relocated # AfterBlr /\ Relocated # Nowhere
    BY <1>20 DEF Exits, Relocated, AfterBlr, Nowhere
  <2> QED
    BY <2>1, <2>2, <2>3, LeaveKeeps
<1>21. CASE pc = 59
  <2>1. Insn = Leave(30) /\ 30 \in Registers(isa)
    BY <1>2, <1>21, ProgramARM64, ViewARM64
  <2>2. /\ Reg(isa, sp0, pc, touched, 30) = IF 30 \in touched THEN Written(30) ELSE AfterBlr
        /\ SameRegs(isa, sp0, pc, pc + 1, touched) /\ SameWords(isa, sp0, pc, pc + 1, touched)
    BY <1>1, <1>21, OutARM64
  <2>3. CASE 30 \in touched
    <3>1. Written(30) \in Exits(isa, pc, touched) /\ Written(30) # AfterBlr /\ Written(30) # Nowhere
      BY <1>21, <2>3 DEF Exits, Written, AfterBlr, Nowhere
    <3> QED
      BY <2>1, <2>2, <2>3, <3>1, LeaveKeeps
  <2>4. CASE 30 \notin touched
    <3>1. regs[30] = AfterBlr
      BY <2>1, <2>2, <2>4, Going, Inside
    <3>2. pc' = pc + 1 /\ UNCHANGED <<isa, sp0, touched, mem, next, regs>> /\ next = Nowhere
      BY <2>1, <3>1, LeaveStep
    <3>3. Stays(pc + 1)
      BY <1>21, <2>4, ViewARM64 DEF Stays, Path
    <3>4. regs' \in [Registers(isa) -> Int] /\ \A r \in Registers(isa) : regs'[r] = Reg(isa, sp0, pc + 1, touched, r)
      BY <2>2, <3>2, Inside DEF SameRegs
    <3> QED
      BY <2>2, <3>2, <3>3, <3>4, RegsKeep
  <2> QED
    BY <2>3, <2>4
<1> QED
  BY <1>1, <1>5, <1>6, <1>7, <1>8, <1>9, <1>10, <1>11, <1>12, <1>13, <1>14, <1>15, <1>16, <1>17, <1>18, <1>19, <1>20, <1>21

\* Every instruction but the jumps and the call leads from its line of the table to the next.
TableIA32(b, t) ==
  /\ AddFits("ia32", b, 1, t, 5, 5, -1)
  /\ PushFits("ia32", b, 2, t, TrampEntry, 0)
  /\ AddFits("ia32", b, 3, t, 5, 5, -8)
  /\ \A i \in 1..8 : StoreFits("ia32", b, 3 + i, t, i - 1, 1, i - 1)
  /\ PushFits("ia32", b, 12, t, Junk, -1)
  /\ LoadFits("ia32", b, 13, t, 0, 1, 0, 1)
  /\ AddFits("ia32", b, 14, t, 5, 5, -2)
  /\ StoreFits("ia32", b, 15, t, 0, 1, 1)
  /\ SetFits("ia32", b, 16, t, 0, b - 11)
  /\ AddFits("ia32", b, 17, t, 0, 0, 11)
  /\ AddFits("ia32", b, 18, t, 5, 5, -2)
  /\ StoreFits("ia32", b, 19, t, 0, 1, 1)
  /\ AddFits("ia32", b, 20, t, 5, 5, -2)
  /\ LoadFits("ia32", b, 21, t, 0, 1, 14, 0)
  /\ StoreFits("ia32", b, 22, t, 0, 1, 1)
  /\ SetFits("ia32", b, 23, t, 0, b - 15)
  /\ AddFits("ia32", b, 24, t, 0, 0, 2)
  /\ StoreFits("ia32", b, 25, t, 0, 1, 0)
  /\ AddFits("ia32", b, 27, t, 5, 5, 2)
  /\ AddFits("ia32", b, 28, t, 5, 5, 2)
  /\ AddFits("ia32", b, 29, t, 5, 5, 1)
  /\ LoadFits("ia32", b, 30, t, 16, 1, 0, 1)
  /\ \A i \in 1..5 : LoadFits("ia32", b, 30 + i, t, i - 1, 1, 0, 1)
  /\ AddFits("ia32", b, 36, t, 5, 5, 1)
  /\ LoadFits("ia32", b, 37, t, 6, 1, 0, 1)
  /\ LoadFits("ia32", b, 38, t, 7, 1, 0, 1)

\* It does, for every stack pointer.
LEMMA FitsIA32 ==
  ASSUME NEW b \in Nat, b >= 70, NEW t
  PROVE  TableIA32(b, t)
<1> USE ViewIA32 DEF RegIA32, DepthIA32, ResultIA32, KnownIA32, WordIA32, TrampEntry, Junk, Orig
<1>1. AddFits("ia32", b, 1, t, 5, 5, -1)
  BY DEF AddFits, SameWords
<1>2. PushFits("ia32", b, 2, t, TrampEntry, 0)
  BY DEF PushFits
<1>3. AddFits("ia32", b, 3, t, 5, 5, -8)
  BY DEF AddFits, SameWords
<1>4. \A i \in 1..8 : StoreFits("ia32", b, 3 + i, t, i - 1, 1, i - 1)
  BY DEF StoreFits, SameRegs
<1>5. PushFits("ia32", b, 12, t, Junk, -1)
  BY DEF PushFits
<1>6. LoadFits("ia32", b, 13, t, 0, 1, 0, 1)
  BY DEF LoadFits, SameWords
<1>7. AddFits("ia32", b, 14, t, 5, 5, -2)
  BY DEF AddFits, SameWords
<1>8. StoreFits("ia32", b, 15, t, 0, 1, 1)
  BY DEF StoreFits, SameRegs
<1>9. SetFits("ia32", b, 16, t, 0, b - 11)
  BY DEF SetFits, SameWords
<1>10. AddFits("ia32", b, 17, t, 0, 0, 11)
  BY DEF AddFits, SameWords
<1>11. AddFits("ia32", b, 18, t, 5, 5, -2)
  BY DEF AddFits, SameWords
<1>12. StoreFits("ia32", b, 19, t, 0, 1, 1)
  <2>1. SameRegs("ia32", b, 19, 20, t)
    BY DEF SameRegs
  <2>2. ASSUME NEW a \in Known("ia32", b, 20)
        PROVE  \/ a = b - 12 /\ Kept("ia32", b, 20, t, a) = Reg("ia32", b, 19, t, 0)
               \/ /\ a # b - 12 /\ a \in Known("ia32", b, 19)
                  /\ Kept("ia32", b, 20, t, a) = Kept("ia32", b, 19, t, a)
    <3>1. a \in (b - 70)..(b + 2) /\ KnownIA32(b, 20, a)
      BY <2>2
    <3>2. a = b - 12 \/ (a # b - 12 /\ KnownIA32(b, 19, a))
      BY <3>1
    <3>3. a = b - 12 => WordIA32(b, 20, t, a) = RegIA32(b, 19, t, 0)
      BY <3>1
    <3>4. WordIA32(b, 20, t, a) = WordIA32(b, 19, t, a)
      BY <3>1
    <3> QED
      BY <3>1, <3>2, <3>3, <3>4
  <2> DEFINE w == b - 12
  <2>3. /\ w = Reg("ia32", b, 19, t, SP("ia32")) + 1 /\ w \in Int /\ w >= b - 70 /\ w <= b + 2
        /\ 0 \in Registers("ia32") /\ 0 \in Int /\ 1 \in Int /\ 20 = 19 + 1
    OBVIOUS
  <2>4. \A a \in Known("ia32", b, 20) :
           \/ a = w /\ Kept("ia32", b, 20, t, a) = Reg("ia32", b, 19, t, 0)
           \/ /\ a # w /\ a \in Known("ia32", b, 19)
              /\ Kept("ia32", b, 20, t, a) = Kept("ia32", b, 19, t, a)
    BY <2>2
  <2> HIDE DEF w
  <2> HIDE ViewIA32 DEF RegIA32, DepthIA32, ResultIA32, KnownIA32, WordIA32
  <2> QED
    BY <2>1, <2>3, <2>4, OneWord
<1>13. AddFits("ia32", b, 20, t, 5, 5, -2)
  BY DEF AddFits, SameWords
<1>14. LoadFits("ia32", b, 21, t, 0, 1, 14, 0)
  BY DEF LoadFits, SameWords
<1>15. StoreFits("ia32", b, 22, t, 0, 1, 1)
  <2>1. SameRegs("ia32", b, 22, 23, t)
    BY DEF SameRegs
  <2>2. ASSUME NEW a \in Known("ia32", b, 23)
        PROVE  \/ a = b - 14 /\ Kept("ia32", b, 23, t, a) = Reg("ia32", b, 22, t, 0)
               \/ /\ a # b - 14 /\ a \in Known("ia32", b, 22)
                  /\ Kept("ia32", b, 23, t, a) = Kept("ia32", b, 22, t, a)
    <3>1. a \in (b - 70)..(b + 2) /\ KnownIA32(b, 23, a)
      BY <2>2
    <3>2. a = b - 14 \/ (a # b - 14 /\ KnownIA32(b, 22, a))
      BY <3>1
    <3>3. a = b - 14 => WordIA32(b, 23, t, a) = RegIA32(b, 22, t, 0)
      BY <3>1
    <3>4. WordIA32(b, 23, t, a) = WordIA32(b, 22, t, a)
      BY <3>1
    <3> QED
      BY <3>1, <3>2, <3>3, <3>4
  <2> DEFINE w == b - 14
  <2>3. /\ w = Reg("ia32", b, 22, t, SP("ia32")) + 1 /\ w \in Int /\ w >= b - 70 /\ w <= b + 2
        /\ 0 \in Registers("ia32") /\ 0 \in Int /\ 1 \in Int /\ 23 = 22 + 1
    OBVIOUS
  <2>4. \A a \in Known("ia32", b, 23) :
           \/ a = w /\ Kept("ia32", b, 23, t, a) = Reg("ia32", b, 22, t, 0)
           \/ /\ a # w /\ a \in Known("ia32", b, 22)
              /\ Kept("ia32", b, 23, t, a) = Kept("ia32", b, 22, t, a)
    BY <2>2
  <2> HIDE DEF w
  <2> HIDE ViewIA32 DEF RegIA32, DepthIA32, ResultIA32, KnownIA32, WordIA32
  <2> QED
    BY <2>1, <2>3, <2>4, OneWord
<1>16. SetFits("ia32", b, 23, t, 0, b - 15)
  BY DEF SetFits, SameWords
<1>17. AddFits("ia32", b, 24, t, 0, 0, 2)
  BY DEF AddFits, SameWords
<1>18. StoreFits("ia32", b, 25, t, 0, 1, 0)
  BY DEF StoreFits, SameRegs
<1>19. AddFits("ia32", b, 27, t, 5, 5, 2)
  BY DEF AddFits, SameWords
<1>20. AddFits("ia32", b, 28, t, 5, 5, 2)
  BY DEF AddFits, SameWords
<1>21. AddFits("ia32", b, 29, t, 5, 5, 1)
  BY DEF AddFits, SameWords
<1>22. LoadFits("ia32", b, 30, t, 16, 1, 0, 1)
  BY DEF LoadFits, SameWords
<1>23. \A i \in 1..5 : LoadFits("ia32", b, 30 + i, t, i - 1, 1, 0, 1)
  <2> TAKE i \in 1..5
  <2>1. Reg("ia32", b, 30 + i, t, SP("ia32")) + 0 = b - 10 + i
    OBVIOUS
  <2>2. ASSUME NEW a \in (b - 10 + i)..(b - 10 + i + 1 - 1)
        PROVE  a \in Known("ia32", b, 30 + i)
    BY <2>2
  <2>3. ASSUME NEW r \in Registers("ia32")
        PROVE  Reg("ia32", b, 30 + i + 1, t, r)
                 = IF r \in (i - 1)..(i - 1 + 1 - 1) THEN Kept("ia32", b, 30 + i, t, b - 10 + i + (r - (i - 1)))
                   ELSE IF r = SP("ia32") THEN Reg("ia32", b, 30 + i, t, SP("ia32")) + 1
                   ELSE Reg("ia32", b, 30 + i, t, r)
    <3>1. CASE r \in (i - 1)..(i - 1 + 1 - 1)
      BY <2>3, <3>1
    <3>2. CASE r \notin (i - 1)..(i - 1 + 1 - 1) /\ r = SP("ia32")
      BY <2>3, <3>2
    <3>3. CASE r \notin (i - 1)..(i - 1 + 1 - 1) /\ r # SP("ia32")
      BY <2>3, <3>3
    <3> QED
      BY <3>1, <3>2, <3>3
  <2>4. SameWords("ia32", b, 30 + i, 30 + i + 1, t)
    BY DEF SameWords
  <2>5. SP("ia32") \in Registers("ia32") /\ SP("ia32") \notin (i - 1)..(i - 1 + 1 - 1) /\ i - 1 \in Int
    OBVIOUS
  <2> QED
    BY <2>1, <2>2, <2>3, <2>4, <2>5 DEF LoadFits
<1>24. AddFits("ia32", b, 36, t, 5, 5, 1)
  BY DEF AddFits, SameWords
<1>25. LoadFits("ia32", b, 37, t, 6, 1, 0, 1)
  BY DEF LoadFits, SameWords
<1>26. LoadFits("ia32", b, 38, t, 7, 1, 0, 1)
  BY DEF LoadFits, SameWords
<1> QED
  BY <1>1, <1>2, <1>3, <1>4, <1>5, <1>6, <1>7, <1>8, <1>9, <1>10, <1>11, <1>12, <1>13, <1>14, <1>15, <1>16, <1>17, <1>18, <1>19, <1>20, <1>21, <1>22, <1>23, <1>24, <1>25, <1>26 DEF TableIA32

\* Where the fields of the context lie on the stack.
LEMMA ContextIA32 ==
  ASSUME NEW b \in Nat, b >= 70, NEW t
  PROVE  /\ Fields("ia32") = (0..7) \cup {16} /\ WordOf("ia32", b - 13, -1) = b - 12
         /\ \A f \in Fields("ia32") : WordOf("ia32", b - 13, f) = IF f = 16 THEN b - 10 ELSE b - 9 + f
         /\ HopWord("ia32", b, b - 13, t) = IF -1 \in t THEN b + 1 ELSE b - 1
  BY DEF WordOf, SpField, Offset, HopWord, Fields, Q

\* The handler leads from the line before the call to the one after it.
LEMMA CallsIA32 ==
  ASSUME NEW b \in Nat, b >= 70, NEW u, NEW t, NEW k \in {26}
  PROVE  CallFits("ia32", b, k, u, t, b - 13)
<1> DEFINE c == b - 13
           h == HopWord("ia32", b, c, t)
           W(f) == WordOf("ia32", c, f)
<1>1. /\ Fields("ia32") = (0..7) \cup {16} /\ W(-1) = b - 12 /\ c \in Int
      /\ \A f \in Fields("ia32") : W(f) = IF f = 16 THEN b - 10 ELSE b - 9 + f
      /\ h = IF -1 \in t THEN b + 1 ELSE b - 1
  BY ContextIA32
<1> HIDE DEF c, h, W
<1> USE ViewIA32 DEF RegIA32, DepthIA32, ResultIA32, KnownIA32, WordIA32, TrampEntry, Junk, Orig, Relocated, Result, HopX86, CallerX86
<1>2. W(-1) \in Known("ia32", b, k) /\ Kept("ia32", b, k, u, W(-1)) = b /\ W(-1) \notin Known("ia32", b, k + 1)
  BY <1>1
<1>3. \A a \in Known("ia32", b, k + 1) : a >= Reg("ia32", b, k, u, SP("ia32"))
  OBVIOUS
<1>4. h \in Known("ia32", b, k + 1) /\ Kept("ia32", b, k + 1, t, h) = Relocated
  BY <1>1
<1>5. ASSUME NEW f \in Fields("ia32")
      PROVE  /\ W(f) \in (b - 70)..(b + 2)
             /\ W(f) \in Known("ia32", b, k + 1) /\ W(f) # h =>
                  /\ W(f) \in Known("ia32", b, k)
                  /\ Kept("ia32", b, k + 1, t, W(f)) = IF f \in t THEN Written(f) ELSE Kept("ia32", b, k, u, W(f))
  <2>1. f \in (0..7) \cup {16} /\ W(f) = IF f = 16 THEN b - 10 ELSE b - 9 + f
    BY <1>1, <1>5
  <2>2. W(f) \in (b - 70)..(b + 2)
    BY <2>1
  <2>3. W(f) \in Known("ia32", b, k + 1) /\ W(f) # h => W(f) \in Known("ia32", b, k)
    BY <1>1, <2>1
  <2>4. ASSUME W(f) \in Known("ia32", b, k + 1), W(f) # h
        PROVE  Kept("ia32", b, k + 1, t, W(f)) = IF f \in t THEN Written(f) ELSE Kept("ia32", b, k, u, W(f))
    BY <1>1, <2>1, <2>4
  <2> QED
    BY <2>2, <2>3, <2>4
<1>6. ASSUME NEW a \in Known("ia32", b, k + 1), a # h, \A f \in Fields("ia32") : a # W(f)
      PROVE  a \in Known("ia32", b, k) /\ Kept("ia32", b, k + 1, t, a) = Kept("ia32", b, k, u, a)
  <2>1. a \in (b - 70)..(b + 2) /\ KnownIA32(b, k + 1, a)
    BY <1>6
  <2>2. ~(a < b - 1)
    <3> SUFFICES ASSUME a < b - 1 PROVE FALSE
      OBVIOUS
    <3> DEFINE f == IF a = b - 10 THEN 16 ELSE a - (b - 9)
    <3>1. f \in (0..7) \cup {16} /\ a = IF f = 16 THEN b - 10 ELSE b - 9 + f
      BY <2>1
    <3> HIDE DEF f
    <3>2. f \in Fields("ia32")
      BY <1>1, <3>1
    <3>3. W(f) = IF f = 16 THEN b - 10 ELSE b - 9 + f
      BY <1>1, <3>2
    <3>4. a # W(f)
      BY <1>6, <3>2
    <3> QED
      BY <3>1, <3>3, <3>4
  <2> QED
    BY <1>1, <1>6, <2>1, <2>2
<1>7. \A r \in Registers("ia32") :
        Reg("ia32", b, k + 1, t, r) = IF r \in Volatile("ia32") THEN Junk ELSE Reg("ia32", b, k, u, r)
  BY DEF Volatile
<1> HIDE ViewIA32 DEF RegIA32, DepthIA32, ResultIA32, KnownIA32, WordIA32, TrampEntry, Junk, Orig, Relocated, Result, HopX86, CallerX86
<1>8. CallFits("ia32", b, k, u, t, c)
  BY <1>1, <1>2, <1>3, <1>4, <1>5, <1>6, <1>7 DEF CallFits, h, W
<1> QED
  BY <1>8 DEF c

\* The bridge relies on no word below the stack pointer.
LEMMA AboveIA32 ==
  ASSUME NEW b \in Nat, b >= 70, NEW t, NEW k \in 1..39
  PROVE  \A a \in Known("ia32", b, k) : a >= Reg("ia32", b, k, t, SP("ia32"))
  BY ViewIA32 DEF RegIA32, DepthIA32, ResultIA32, KnownIA32, WordIA32, TrampEntry, Junk, Orig

\* What the last steps leave alone.
LEMMA OutIA32 ==
  ASSUME NEW b \in Nat, b >= 70, NEW t
  PROVE  /\ b - 1 = Reg("ia32", b, 39, t, SP("ia32"))
         /\ b - 1 \in Known("ia32", b, 39)
         /\ Kept("ia32", b, 39, t, b - 1) = HopX86(t)
         /\ \A r \in Registers("ia32") : Reg("ia32", b, 40, t, r) = IF r = SP("ia32") THEN b - 1 + 1 ELSE Reg("ia32", b, 39, t, r)
         /\ SameWords("ia32", b, 39, 40, t)
<1> USE ViewIA32 DEF RegIA32, DepthIA32, ResultIA32, KnownIA32, WordIA32, TrampEntry, Junk, Orig, Relocated, Result, HopX86, CallerX86
<1>1. b - 1 = Reg("ia32", b, 39, t, SP("ia32"))
  OBVIOUS
<1>2. b - 1 \in Known("ia32", b, 39)
  OBVIOUS
<1>3. Kept("ia32", b, 39, t, b - 1) = HopX86(t)
  OBVIOUS
<1>4. \A r \in Registers("ia32") : Reg("ia32", b, 40, t, r) = IF r = SP("ia32") THEN b - 1 + 1 ELSE Reg("ia32", b, 39, t, r)
  OBVIOUS
<1>5. SameWords("ia32", b, 39, 40, t)
  BY DEF SameWords
<1> QED
  BY <1>1, <1>2, <1>3, <1>4, <1>5

\* The arguments of the handler.
LEMMA AtIA32 ==
  ASSUME BridgeInv, isa = "ia32", next = Nowhere, pc = 26
  PROVE  ArgContext = sp0 - 13 /\ ArgEntry = TrampEntry /\ sp = sp0 - 15
<1>1. /\ \A r \in Registers(isa) : regs[r] = RegIA32(sp0, pc, touched, r)
      /\ \A a \in Known(isa, sp0, pc) : mem[a] = WordIA32(sp0, pc, touched, a)
      /\ sp = RegIA32(sp0, pc, touched, SP(isa)) /\ sp0 \in Nat /\ sp0 >= 70
  BY Inside, ViewIA32
<1>2. sp = sp0 - 15 /\ sp + 1 = sp0 - 14
  BY <1>1, ViewIA32 DEF RegIA32, DepthIA32
<1>3. sp0 - 15 \in Known(isa, sp0, pc) /\ sp0 - 14 \in Known(isa, sp0, pc)
  BY <1>1, ViewIA32 DEF KnownIA32
<1>4. mem[sp0 - 15] = sp0 - 13 /\ mem[sp0 - 14] = TrampEntry
  BY <1>1, <1>3 DEF WordIA32
<1> QED
  BY <1>2, <1>4 DEF ArgContext, ArgEntry

\* Every step of the program keeps the invariant.
LEMMA StepIA32 ==
  ASSUME BridgeInv, isa = "ia32", BridgeNext, ~Signal
  PROVE  BridgeInv'
<1>1. pc \in 1..39 /\ sp0 \in Nat /\ sp0 >= 70 /\ Path(isa, sp0, pc, touched)
  BY Going, Inside, ViewIA32
<1>2. Insn = Program("ia32")[pc]
  BY DEF Insn
<1>3. TableIA32(sp0, touched)
  BY <1>1, FitsIA32
<1>4. pc # 39 => Stays(pc + 1)
  BY <1>1, ViewIA32 DEF Stays, Path
<1>5. CASE pc \in {1, 3, 14, 17, 18, 20, 24, 27, 28, 29, 36}
  <2>1. PICK d, s, n : Insn = Add(d, s, n) /\ AddFits(isa, sp0, pc, touched, d, s, n)
    BY <1>2, <1>3, <1>5, ProgramIA32 DEF TableIA32
  <2> QED
    BY <1>4, <1>5, <2>1, AddKeeps
<1>6. CASE pc = 16
  <2>1. Insn = Mov(0, 5) /\ SetFits(isa, sp0, pc, touched, 0, sp0 - 11)
    BY <1>2, <1>3, <1>6, ProgramIA32 DEF TableIA32
  <2>2. 5 \in Registers(isa) /\ Reg(isa, sp0, pc, touched, 5) = sp0 - 11
    BY <1>6, ViewIA32 DEF RegIA32, DepthIA32
  <2> QED
    BY <1>4, <1>6, <2>1, <2>2, SetKeeps
<1>7. CASE pc = 23
  <2>1. Insn = Mov(0, 5) /\ SetFits(isa, sp0, pc, touched, 0, sp0 - 15)
    BY <1>2, <1>3, <1>7, ProgramIA32 DEF TableIA32
  <2>2. 5 \in Registers(isa) /\ Reg(isa, sp0, pc, touched, 5) = sp0 - 15
    BY <1>7, ViewIA32 DEF RegIA32, DepthIA32
  <2> QED
    BY <1>4, <1>7, <2>1, <2>2, SetKeeps
<1>8. CASE pc = 2
  <2>1. Insn = StLit(TrampEntry) /\ PushFits(isa, sp0, pc, touched, TrampEntry, 0)
    BY <1>2, <1>3, <1>8, ProgramIA32 DEF TableIA32
  <2> QED
    BY <1>4, <1>8, <2>1, PushKeeps
<1>9. CASE pc = 12
  <2>1. Insn = PushF /\ PushFits(isa, sp0, pc, touched, Junk, -1)
    BY <1>2, <1>3, <1>9, ProgramIA32 DEF TableIA32
  <2>2. 16 \in Registers(isa) /\ Reg(isa, sp0, pc, touched, 16) = Junk
    BY <1>9, ViewIA32 DEF RegIA32
  <2> QED
    BY <1>4, <1>9, <2>1, <2>2, PushKeeps
<1>10. CASE pc = 13
  <2>1. Insn = Pop(<<0>>) /\ LoadFits(isa, sp0, pc, touched, 0, 1, 0, 1)
    BY <1>2, <1>3, <1>10, ProgramIA32 DEF TableIA32
  <2> QED
    BY <1>4, <1>10, <2>1, LoadOneKeeps
<1>11. CASE pc = 15
  <2>1. Insn = St(<<0>>, 1) /\ StoreFits(isa, sp0, pc, touched, 0, 1, 1)
    BY <1>2, <1>3, <1>11, ProgramIA32 DEF TableIA32
  <2> QED
    BY <1>4, <1>11, <2>1, StoreOneKeeps
<1>12. CASE pc = 19
  <2>1. Insn = St(<<0>>, 1) /\ StoreFits(isa, sp0, pc, touched, 0, 1, 1)
    BY <1>2, <1>3, <1>12, ProgramIA32 DEF TableIA32
  <2> QED
    BY <1>4, <1>12, <2>1, StoreOneKeeps
<1>13. CASE pc = 21
  <2>1. Insn = Ld(<<0>>, 14) /\ LoadFits(isa, sp0, pc, touched, 0, 1, 14, 0)
    BY <1>2, <1>3, <1>13, ProgramIA32 DEF TableIA32
  <2> QED
    BY <1>4, <1>13, <2>1, LoadOneKeeps
<1>14. CASE pc = 22
  <2>1. Insn = St(<<0>>, 1) /\ StoreFits(isa, sp0, pc, touched, 0, 1, 1)
    BY <1>2, <1>3, <1>14, ProgramIA32 DEF TableIA32
  <2> QED
    BY <1>4, <1>14, <2>1, StoreOneKeeps
<1>15. CASE pc = 25
  <2>1. Insn = St(<<0>>, 0) /\ StoreFits(isa, sp0, pc, touched, 0, 1, 0)
    BY <1>2, <1>3, <1>15, ProgramIA32 DEF TableIA32
  <2> QED
    BY <1>4, <1>15, <2>1, StoreOneKeeps
<1>16. CASE pc = 30
  <2>1. Insn = Pop(<<16>>) /\ LoadFits(isa, sp0, pc, touched, 16, 1, 0, 1)
    BY <1>2, <1>3, <1>16, ProgramIA32 DEF TableIA32
  <2> QED
    BY <1>4, <1>16, <2>1, LoadOneKeeps
<1>17. CASE pc = 37
  <2>1. Insn = Pop(<<6>>) /\ LoadFits(isa, sp0, pc, touched, 6, 1, 0, 1)
    BY <1>2, <1>3, <1>17, ProgramIA32 DEF TableIA32
  <2> QED
    BY <1>4, <1>17, <2>1, LoadOneKeeps
<1>18. CASE pc = 38
  <2>1. Insn = Pop(<<7>>) /\ LoadFits(isa, sp0, pc, touched, 7, 1, 0, 1)
    BY <1>2, <1>3, <1>18, ProgramIA32 DEF TableIA32
  <2> QED
    BY <1>4, <1>18, <2>1, LoadOneKeeps
<1>19. CASE pc \in 4..11
  <2> DEFINE i == pc - 3
  <2>1. i \in 1..8 /\ pc = 3 + i
    BY <1>19
  <2> HIDE DEF i
  <2>2. Insn = St(<<i - 1>>, i - 1)
    BY <1>2, <2>1, ProgramIA32
  <2>3. StoreFits(isa, sp0, pc, touched, i - 1, 1, i - 1)
    BY <1>3, <2>1 DEF TableIA32
  <2> QED
    BY <1>4, <1>19, <2>2, <2>3, StoreOneKeeps
<1>20. CASE pc \in 31..35
  <2> DEFINE i == pc - 30
  <2>1. i \in 1..5 /\ pc = 30 + i
    BY <1>20
  <2> HIDE DEF i
  <2>2. Insn = Pop(<<i - 1>>)
    BY <1>2, <2>1, ProgramIA32
  <2>3. LoadFits(isa, sp0, pc, touched, i - 1, 1, 0, 1)
    BY <1>3, <2>1 DEF TableIA32
  <2> QED
    BY <1>4, <1>20, <2>2, <2>3, LoadOneKeeps
<1>21. CASE pc = 26
  <2>1. Insn = Call
    BY <1>2, <1>21, ProgramIA32
  <2>2. ArgContext = sp0 - 13
    BY <1>21, Going, AtIA32
  <2>3. \A t \in SUBSET (Fields(isa) \cup {-1}) : CallFits(isa, sp0, pc, touched, t, sp0 - 13)
    BY <1>1, <1>21, CallsIA32
  <2>4. \A t : Path(isa, sp0, pc + 1, t)
    BY <1>1, <1>21 DEF Path
  <2> QED
    BY <1>4, <1>21, <2>1, <2>2, <2>3, <2>4, CallKeeps
<1>22. CASE pc = 39
  <2>1. Insn = Ret
    BY <1>2, <1>22, ProgramIA32
  <2> DEFINE w == sp0 - 1
  <2>2. /\ w \in Known(isa, sp0, pc) /\ w = Reg(isa, sp0, pc, touched, SP(isa))
        /\ Kept(isa, sp0, pc, touched, w) = HopX86(touched)
        /\ \A r \in Registers(isa) :
             Reg(isa, sp0, pc + 1, touched, r) = IF r = SP(isa) THEN w + 1 ELSE Reg(isa, sp0, pc, touched, r)
        /\ SameWords(isa, sp0, pc, pc + 1, touched)
    BY <1>1, <1>22, OutIA32
  <2>3. HopX86(touched) \in Exits(isa, pc, touched) /\ HopX86(touched) # Nowhere
    BY <1>22 DEF Exits, HopX86, TrampEntry, Relocated, Nowhere
  <2> HIDE DEF w
  <2> QED
    BY <2>1, <2>2, <2>3, RetKeeps
<1> QED
  BY <1>1, <1>5, <1>6, <1>7, <1>8, <1>9, <1>10, <1>11, <1>12, <1>13, <1>14, <1>15, <1>16, <1>17, <1>18, <1>19, <1>20, <1>21, <1>22

\* Every instruction but the jumps and the call leads from its line of the table to the next.
TableX64(b, t) ==
  /\ PushFits("x64", b, 1, t, TrampEntry, -1)
  /\ PushFits("x64", b, 2, t, Orig(16), -1)
  /\ AddFits("x64", b, 3, t, 5, 5, -1)
  /\ AddFits("x64", b, 4, t, 5, 5, -16)
  /\ \A i \in 1..16 : StoreFits("x64", b, 4 + i, t, i - 1, 1, i - 1)
  /\ SetFits("x64", b, 21, t, 0, b - 19)
  /\ AddFits("x64", b, 22, t, 0, 0, 19)
  /\ AddFits("x64", b, 23, t, 5, 5, -2)
  /\ StoreFits("x64", b, 24, t, 0, 1, 1)
  /\ SetFits("x64", b, 25, t, 6, b - 21)
  /\ LoadFits("x64", b, 26, t, 7, 1, 20, 0)
  /\ AddFits("x64", b, 30, t, 5, 5, -1)
  /\ StoreFits("x64", b, 31, t, 0, 1, 0)
  /\ OddX64(b) = 1 => LoadFits("x64", b, 33, t, 0, 1, 0, 1)
  /\ AddFits("x64", b, 34, t, 5, 5, 2)
  /\ \A i \in 1..5 : LoadFits("x64", b, 34 + i, t, i - 1, 1, 0, 1)
  /\ AddFits("x64", b, 40, t, 5, 5, 1)
  /\ \A i \in 1..10 : LoadFits("x64", b, 40 + i, t, i + 5, 1, 0, 1)
  /\ AddFits("x64", b, 51, t, 5, 5, 1)
  /\ LoadFits("x64", b, 52, t, 16, 1, 0, 1)

\* It does, for every stack pointer.
LEMMA FitsX64 ==
  ASSUME NEW b \in Nat, b >= 70, NEW t
  PROVE  TableX64(b, t)
<1> USE ViewX64 DEF RegX64, DepthX64, CalledX64, KnownX64, WordX64, OddX64, TrampEntry, Junk, Orig
<1>1. PushFits("x64", b, 1, t, TrampEntry, -1)
  BY DEF PushFits
<1>2. PushFits("x64", b, 2, t, Orig(16), -1)
  BY DEF PushFits
<1>3. AddFits("x64", b, 3, t, 5, 5, -1)
  BY DEF AddFits, SameWords
<1>4. AddFits("x64", b, 4, t, 5, 5, -16)
  BY DEF AddFits, SameWords
<1>5. \A i \in 1..16 : StoreFits("x64", b, 4 + i, t, i - 1, 1, i - 1)
  BY DEF StoreFits, SameRegs
<1>6. SetFits("x64", b, 21, t, 0, b - 19)
  BY DEF SetFits, SameWords
<1>7. AddFits("x64", b, 22, t, 0, 0, 19)
  BY DEF AddFits, SameWords
<1>8. AddFits("x64", b, 23, t, 5, 5, -2)
  BY DEF AddFits, SameWords
<1>9. StoreFits("x64", b, 24, t, 0, 1, 1)
  BY DEF StoreFits, SameRegs
<1>10. SetFits("x64", b, 25, t, 6, b - 21)
  BY DEF SetFits, SameWords
<1>11. LoadFits("x64", b, 26, t, 7, 1, 20, 0)
  BY DEF LoadFits, SameWords
<1>12. AddFits("x64", b, 30, t, 5, 5, -1)
  BY DEF AddFits, SameWords
<1>13. StoreFits("x64", b, 31, t, 0, 1, 0)
  BY DEF StoreFits, SameRegs
<1>14. OddX64(b) = 1 => LoadFits("x64", b, 33, t, 0, 1, 0, 1)
  BY DEF LoadFits, SameWords
<1>15. AddFits("x64", b, 34, t, 5, 5, 2)
  BY DEF AddFits, SameWords
<1>16. ASSUME NEW i \in 1..5
      PROVE  LoadFits("x64", b, 34 + i, t, i - 1, 1, 0, 1)
  <2> DEFINE k == 34 + i
             j == k + 1
             x == i - 1
             w == Reg("x64", b, k, t, SP("x64"))
  <2>1. k \in Int /\ j = k + 1 /\ x \in Int /\ x \notin 32..55 /\ SP("x64") # x
    OBVIOUS
  <2>2. w \in Int /\ w \in Known("x64", b, k)
    OBVIOUS
  <2>3. SameWords("x64", b, k, j, t)
    BY DEF SameWords
  <2>4. \A r \in 0..16 :
          Reg("x64", b, j, t, r) = IF r = x THEN Kept("x64", b, k, t, w)
                                   ELSE IF r = SP("x64") THEN w + 1 ELSE Reg("x64", b, k, t, r)
    OBVIOUS
  <2>5. \A r \in 32..55 : Reg("x64", b, j, t, r) = Reg("x64", b, k, t, r)
    OBVIOUS
  <2>6. /\ Registers("x64") = (0..16) \cup (32..55)
        /\ SP("x64") \in 0..16 /\ SP("x64") \notin 32..55
    OBVIOUS
  <2>7. w = Reg("x64", b, k, t, SP("x64"))
    OBVIOUS
  <2>9. \A r \in Registers("x64") :
          Reg("x64", b, j, t, r) = IF r = x THEN Kept("x64", b, k, t, w)
                                   ELSE IF r = SP("x64") THEN w + 1 ELSE Reg("x64", b, k, t, r)
    <3> HIDE DEF k, j, x, w, RegX64, KnownX64, WordX64
    <3> QED
      BY <2>1, <2>4, <2>5, <2>6
  <2>10. SP("x64") \in Registers("x64")
    OBVIOUS
  <2> HIDE ViewX64 DEF k, j, x, w, RegX64, KnownX64, WordX64
  <2>8. LoadFits("x64", b, k, t, x, 1, 0, 1)
    BY <2>1, <2>2, <2>3, <2>7, <2>9, <2>10, OnePop
  <2> QED
    BY <2>8 DEF k, x
<1>17. AddFits("x64", b, 40, t, 5, 5, 1)
  BY DEF AddFits, SameWords
<1>18. ASSUME NEW i \in 1..10
      PROVE  LoadFits("x64", b, 40 + i, t, i + 5, 1, 0, 1)
  <2> DEFINE k == 40 + i
             j == k + 1
             x == i + 5
             w == Reg("x64", b, k, t, SP("x64"))
  <2>1. k \in Int /\ j = k + 1 /\ x \in Int /\ x \notin 32..55 /\ SP("x64") # x
    OBVIOUS
  <2>2. w \in Int /\ w \in Known("x64", b, k)
    OBVIOUS
  <2>3. SameWords("x64", b, k, j, t)
    BY DEF SameWords
  <2>4. \A r \in 0..16 :
          Reg("x64", b, j, t, r) = IF r = x THEN Kept("x64", b, k, t, w)
                                   ELSE IF r = SP("x64") THEN w + 1 ELSE Reg("x64", b, k, t, r)
    OBVIOUS
  <2>5. \A r \in 32..55 : Reg("x64", b, j, t, r) = Reg("x64", b, k, t, r)
    OBVIOUS
  <2>6. /\ Registers("x64") = (0..16) \cup (32..55)
        /\ SP("x64") \in 0..16 /\ SP("x64") \notin 32..55
    OBVIOUS
  <2>7. w = Reg("x64", b, k, t, SP("x64"))
    OBVIOUS
  <2>9. \A r \in Registers("x64") :
          Reg("x64", b, j, t, r) = IF r = x THEN Kept("x64", b, k, t, w)
                                   ELSE IF r = SP("x64") THEN w + 1 ELSE Reg("x64", b, k, t, r)
    <3> HIDE DEF k, j, x, w, RegX64, KnownX64, WordX64
    <3> QED
      BY <2>1, <2>4, <2>5, <2>6
  <2>10. SP("x64") \in Registers("x64")
    OBVIOUS
  <2> HIDE ViewX64 DEF k, j, x, w, RegX64, KnownX64, WordX64
  <2>8. LoadFits("x64", b, k, t, x, 1, 0, 1)
    BY <2>1, <2>2, <2>3, <2>7, <2>9, <2>10, OnePop
  <2> QED
    BY <2>8 DEF k, x
<1>19. AddFits("x64", b, 51, t, 5, 5, 1)
  BY DEF AddFits, SameWords
<1>20. LoadFits("x64", b, 52, t, 16, 1, 0, 1)
  BY DEF LoadFits, SameWords
<1> QED
  BY <1>1, <1>2, <1>3, <1>4, <1>5, <1>6, <1>7, <1>8, <1>9, <1>10, <1>11, <1>12, <1>13, <1>14, <1>15, <1>16, <1>17, <1>18, <1>19, <1>20 DEF TableX64

\* Where the fields of the context lie on the stack.
LEMMA ContextX64 ==
  ASSUME NEW b \in Nat, b >= 70, NEW t
  PROVE  /\ Fields("x64") = 0..16 /\ WordOf("x64", b - 21, -1) = b - 20
         /\ \A f \in Fields("x64") : WordOf("x64", b - 21, f) = IF f = 16 THEN b - 2 ELSE b - 19 + f
         /\ HopWord("x64", b, b - 21, t) = IF -1 \in t THEN b + 1 ELSE b - 1
  BY DEF WordOf, SpField, Offset, HopWord, Fields, Q

\* The handler leads from the line before the call to the one after it.
LEMMA CallsX64 ==
  ASSUME NEW b \in Nat, b >= 70, NEW u, NEW t, NEW k \in {28, 32}
  PROVE  CallFits("x64", b, k, u, t, b - 21)
<1> DEFINE c == b - 21
           h == HopWord("x64", b, c, t)
           W(f) == WordOf("x64", c, f)
<1>1. /\ Fields("x64") = 0..16 /\ W(-1) = b - 20 /\ c \in Int
      /\ \A f \in Fields("x64") : W(f) = IF f = 16 THEN b - 2 ELSE b - 19 + f
      /\ h = IF -1 \in t THEN b + 1 ELSE b - 1
  BY ContextX64
<1> HIDE DEF c, h, W
<1> USE ViewX64 DEF RegX64, DepthX64, CalledX64, KnownX64, WordX64, OddX64, TrampEntry, Junk, Orig, Relocated, Result, HopX86, CallerX86
<1>2. W(-1) \in Known("x64", b, k) /\ Kept("x64", b, k, u, W(-1)) = b /\ W(-1) \notin Known("x64", b, k + 1)
  BY <1>1
<1>3. \A a \in Known("x64", b, k + 1) : a >= Reg("x64", b, k, u, SP("x64"))
  OBVIOUS
<1>4. h \in Known("x64", b, k + 1) /\ Kept("x64", b, k + 1, t, h) = Relocated
  BY <1>1
<1>5. ASSUME NEW f \in Fields("x64")
      PROVE  /\ W(f) \in (b - 70)..(b + 2)
             /\ W(f) \in Known("x64", b, k + 1) /\ W(f) # h =>
                  /\ W(f) \in Known("x64", b, k)
                  /\ Kept("x64", b, k + 1, t, W(f)) = IF f \in t THEN Written(f) ELSE Kept("x64", b, k, u, W(f))
  <2>1. f \in 0..16 /\ W(f) = IF f = 16 THEN b - 2 ELSE b - 19 + f
    BY <1>1, <1>5
  <2>2. W(f) \in (b - 70)..(b + 2)
    BY <2>1
  <2>3. W(f) \in Known("x64", b, k + 1) /\ W(f) # h => W(f) \in Known("x64", b, k)
    BY <1>1, <2>1
  <2>4. ASSUME W(f) \in Known("x64", b, k + 1), W(f) # h
        PROVE  Kept("x64", b, k + 1, t, W(f)) = IF f \in t THEN Written(f) ELSE Kept("x64", b, k, u, W(f))
    BY <1>1, <2>1, <2>4
  <2> QED
    BY <2>2, <2>3, <2>4
<1>6. ASSUME NEW a \in Known("x64", b, k + 1), a # h, \A f \in Fields("x64") : a # W(f)
      PROVE  a \in Known("x64", b, k) /\ Kept("x64", b, k + 1, t, a) = Kept("x64", b, k, u, a)
  <2>1. a \in (b - 70)..(b + 2) /\ KnownX64(b, k + 1, a)
    BY <1>6
  <2>2. ~(a < b - 1 /\ a # b - 22)
    <3> SUFFICES ASSUME a < b - 1 /\ a # b - 22 PROVE FALSE
      OBVIOUS
    <3> DEFINE f == IF a = b - 2 THEN 16 ELSE a - (b - 19)
    <3>1. f \in 0..16 /\ a = IF f = 16 THEN b - 2 ELSE b - 19 + f
      BY <2>1
    <3> HIDE DEF f
    <3>2. f \in Fields("x64")
      BY <1>1, <3>1
    <3>3. W(f) = IF f = 16 THEN b - 2 ELSE b - 19 + f
      BY <1>1, <3>2
    <3>4. a # W(f)
      BY <1>6, <3>2
    <3> QED
      BY <3>1, <3>3, <3>4
  <2> QED
    BY <1>1, <1>6, <2>1, <2>2
<1>7. \A r \in Registers("x64") :
        Reg("x64", b, k + 1, t, r) = IF r \in Volatile("x64") THEN Junk ELSE Reg("x64", b, k, u, r)
  BY DEF Volatile
<1> HIDE ViewX64 DEF RegX64, DepthX64, CalledX64, KnownX64, WordX64, OddX64, TrampEntry, Junk, Orig, Relocated, Result, HopX86, CallerX86
<1>8. CallFits("x64", b, k, u, t, c)
  BY <1>1, <1>2, <1>3, <1>4, <1>5, <1>6, <1>7 DEF CallFits, h, W
<1> QED
  BY <1>8 DEF c

\* The bridge relies on no word below the stack pointer.
LEMMA AboveX64 ==
  ASSUME NEW b \in Nat, b >= 70, NEW t, NEW k \in 1..53
  PROVE  \A a \in Known("x64", b, k) : a >= Reg("x64", b, k, t, SP("x64"))
  BY ViewX64 DEF RegX64, DepthX64, CalledX64, KnownX64, WordX64, OddX64, TrampEntry, Junk, Orig

\* What the last steps leave alone.
LEMMA OutX64 ==
  ASSUME NEW b \in Nat, b >= 70, NEW t
  PROVE  /\ b - 1 = Reg("x64", b, 53, t, SP("x64"))
         /\ b - 1 \in Known("x64", b, 53)
         /\ Kept("x64", b, 53, t, b - 1) = HopX86(t)
         /\ \A r \in Registers("x64") : Reg("x64", b, 54, t, r) = IF r = SP("x64") THEN b - 1 + 1 ELSE Reg("x64", b, 53, t, r)
         /\ SameWords("x64", b, 53, 54, t)
         /\ OddX64(b) = 0 => SameRegs("x64", b, 29, 34, t)
         /\ SameWords("x64", b, 29, 34, t)
         /\ \A j \in {28, 30} : \A r \in Registers("x64") : Reg("x64", b, j, t, r) = IF r = 0 THEN OddX64(b) ELSE IF r = 16 THEN Junk ELSE Reg("x64", b, 27, t, r)
         /\ \A j \in {28, 30} : SameWords("x64", b, 27, j, t)
<1> USE ViewX64 DEF RegX64, DepthX64, CalledX64, KnownX64, WordX64, OddX64, TrampEntry, Junk, Orig, Relocated, Result, HopX86, CallerX86
<1>1. b - 1 = Reg("x64", b, 53, t, SP("x64"))
  OBVIOUS
<1>2. b - 1 \in Known("x64", b, 53)
  OBVIOUS
<1>3. Kept("x64", b, 53, t, b - 1) = HopX86(t)
  OBVIOUS
<1>4. \A r \in Registers("x64") : Reg("x64", b, 54, t, r) = IF r = SP("x64") THEN b - 1 + 1 ELSE Reg("x64", b, 53, t, r)
  OBVIOUS
<1>5. SameWords("x64", b, 53, 54, t)
  BY DEF SameWords
<1>6. OddX64(b) = 0 => SameRegs("x64", b, 29, 34, t)
  BY DEF SameRegs
<1>7. SameWords("x64", b, 29, 34, t)
  BY DEF SameWords
<1>8. \A j \in {28, 30} : \A r \in Registers("x64") : Reg("x64", b, j, t, r) = IF r = 0 THEN OddX64(b) ELSE IF r = 16 THEN Junk ELSE Reg("x64", b, 27, t, r)
  OBVIOUS
<1>9. \A j \in {28, 30} : SameWords("x64", b, 27, j, t)
  BY DEF SameWords
<1> QED
  BY <1>1, <1>2, <1>3, <1>4, <1>5, <1>6, <1>7, <1>8, <1>9

\* The arguments of the handler.
LEMMA AtX64 ==
  ASSUME BridgeInv, isa = "x64", next = Nowhere, pc \in {28, 32}
  PROVE  ArgContext = sp0 - 21 /\ ArgEntry = TrampEntry /\ sp = sp0 - (IF pc = 28 THEN 21 ELSE 22)
<1>1. /\ \A r \in Registers(isa) : regs[r] = RegX64(sp0, pc, touched, r)
      /\ \A a \in Known(isa, sp0, pc) : mem[a] = WordX64(sp0, pc, touched, a)
      /\ sp = RegX64(sp0, pc, touched, SP(isa)) /\ sp0 \in Nat /\ sp0 >= 70
  BY Inside, ViewX64
<1> QED
  BY <1>1, ViewX64 DEF RegX64, DepthX64, CalledX64, ArgContext, ArgEntry

\* Every step of the program keeps the invariant.
LEMMA StepX64 ==
  ASSUME BridgeInv, isa = "x64", BridgeNext, ~Signal
  PROVE  BridgeInv'
<1>1. pc \in 1..53 /\ sp0 \in Nat /\ sp0 >= 70 /\ Path(isa, sp0, pc, touched)
  BY Going, Inside, ViewX64
<1>2. Insn = Program("x64")[pc]
  BY DEF Insn
<1>3. TableX64(sp0, touched)
  BY <1>1, FitsX64
<1>4. pc # 53 /\ pc \notin {27, 29} => Stays(pc + 1)
  BY <1>1, ViewX64 DEF Stays, Path
<1>5. CASE pc \in {3, 4, 22, 23, 30, 34, 40, 51}
  <2>1. PICK d, s, n : Insn = Add(d, s, n) /\ AddFits(isa, sp0, pc, touched, d, s, n)
    BY <1>2, <1>3, <1>5, ProgramX64 DEF TableX64
  <2> QED
    BY <1>4, <1>5, <2>1, AddKeeps
<1>6. CASE pc = 21
  <2>1. Insn = Mov(0, 5) /\ SetFits(isa, sp0, pc, touched, 0, sp0 - 19)
    BY <1>2, <1>3, <1>6, ProgramX64 DEF TableX64
  <2>2. 5 \in Registers(isa) /\ Reg(isa, sp0, pc, touched, 5) = sp0 - 19
    BY <1>6, ViewX64 DEF RegX64, DepthX64, CalledX64
  <2> QED
    BY <1>4, <1>6, <2>1, <2>2, SetKeeps
<1>7. CASE pc = 25
  <2>1. Insn = Mov(6, 5) /\ SetFits(isa, sp0, pc, touched, 6, sp0 - 21)
    BY <1>2, <1>3, <1>7, ProgramX64 DEF TableX64
  <2>2. 5 \in Registers(isa) /\ Reg(isa, sp0, pc, touched, 5) = sp0 - 21
    BY <1>7, ViewX64 DEF RegX64, DepthX64, CalledX64
  <2> QED
    BY <1>4, <1>7, <2>1, <2>2, SetKeeps
<1>8. CASE pc = 1
  <2>1. Insn = PushLit(TrampEntry) /\ PushFits(isa, sp0, pc, touched, TrampEntry, -1)
    BY <1>2, <1>3, <1>8, ProgramX64 DEF TableX64
  <2> QED
    BY <1>4, <1>8, <2>1, PushKeeps
<1>9. CASE pc = 2
  <2>1. Insn = PushF /\ PushFits(isa, sp0, pc, touched, Orig(16), -1)
    BY <1>2, <1>3, <1>9, ProgramX64 DEF TableX64
  <2>2. 16 \in Registers(isa) /\ Reg(isa, sp0, pc, touched, 16) = Orig(16)
    BY <1>9, ViewX64 DEF RegX64, CalledX64
  <2> QED
    BY <1>4, <1>9, <2>1, <2>2, PushKeeps
<1>10. CASE pc = 24
  <2>1. Insn = St(<<0>>, 1) /\ StoreFits(isa, sp0, pc, touched, 0, 1, 1)
    BY <1>2, <1>3, <1>10, ProgramX64 DEF TableX64
  <2> QED
    BY <1>4, <1>10, <2>1, StoreOneKeeps
<1>11. CASE pc = 26
  <2>1. Insn = Ld(<<7>>, 20) /\ LoadFits(isa, sp0, pc, touched, 7, 1, 20, 0)
    BY <1>2, <1>3, <1>11, ProgramX64 DEF TableX64
  <2> QED
    BY <1>4, <1>11, <2>1, LoadOneKeeps
<1>12. CASE pc = 31
  <2>1. Insn = St(<<0>>, 0) /\ StoreFits(isa, sp0, pc, touched, 0, 1, 0)
    BY <1>2, <1>3, <1>12, ProgramX64 DEF TableX64
  <2> QED
    BY <1>4, <1>12, <2>1, StoreOneKeeps
<1>13. CASE pc = 33
  <2>1. Insn = Pop(<<0>>) /\ LoadFits(isa, sp0, pc, touched, 0, 1, 0, 1)
    BY <1>1, <1>2, <1>3, <1>13, ProgramX64 DEF TableX64, Path
  <2> QED
    BY <1>4, <1>13, <2>1, LoadOneKeeps
<1>14. CASE pc = 52
  <2>1. Insn = Pop(<<16>>) /\ LoadFits(isa, sp0, pc, touched, 16, 1, 0, 1)
    BY <1>2, <1>3, <1>14, ProgramX64 DEF TableX64
  <2> QED
    BY <1>4, <1>14, <2>1, LoadOneKeeps
<1>15. CASE pc \in 5..20
  <2> DEFINE i == pc - 4
  <2>1. i \in 1..16 /\ pc = 4 + i
    BY <1>15
  <2> HIDE DEF i
  <2>2. Insn = St(<<i - 1>>, i - 1)
    BY <1>2, <2>1, ProgramX64
  <2>3. StoreFits(isa, sp0, pc, touched, i - 1, 1, i - 1)
    BY <1>3, <2>1 DEF TableX64
  <2> QED
    BY <1>4, <1>15, <2>2, <2>3, StoreOneKeeps
<1>16. CASE pc \in 35..39
  <2> DEFINE i == pc - 34
  <2>1. i \in 1..5 /\ pc = 34 + i
    BY <1>16
  <2> HIDE DEF i
  <2>2. Insn = Pop(<<i - 1>>)
    BY <1>2, <2>1, ProgramX64
  <2>3. LoadFits(isa, sp0, pc, touched, i - 1, 1, 0, 1)
    BY <1>3, <2>1 DEF TableX64
  <2> QED
    BY <1>4, <1>16, <2>2, <2>3, LoadOneKeeps
<1>17. CASE pc \in 41..50
  <2> DEFINE i == pc - 40
  <2>1. i \in 1..10 /\ pc = 40 + i
    BY <1>17
  <2> HIDE DEF i
  <2>2. Insn = Pop(<<i + 5>>)
    BY <1>2, <2>1, ProgramX64
  <2>3. LoadFits(isa, sp0, pc, touched, i + 5, 1, 0, 1)
    BY <1>3, <2>1 DEF TableX64
  <2> QED
    BY <1>4, <1>17, <2>2, <2>3, LoadOneKeeps
<1>18. CASE pc \in {28, 32}
  <2>1. Insn = Call
    BY <1>2, <1>18, ProgramX64
  <2>2. ArgContext = sp0 - 21
    BY <1>18, Going, AtX64
  <2>3. \A t \in SUBSET (Fields(isa) \cup {-1}) : CallFits(isa, sp0, pc, touched, t, sp0 - 21)
    BY <1>1, <1>18, CallsX64
  <2>4. \A t : Path(isa, sp0, pc + 1, t)
    BY <1>1, <1>18 DEF Path
  <2> QED
    BY <1>4, <1>18, <2>1, <2>2, <2>3, <2>4, CallKeeps
<1>19. CASE pc = 53
  <2>1. Insn = Ret
    BY <1>2, <1>19, ProgramX64
  <2> DEFINE w == sp0 - 1
  <2>2. /\ w \in Known(isa, sp0, pc) /\ w = Reg(isa, sp0, pc, touched, SP(isa))
        /\ Kept(isa, sp0, pc, touched, w) = HopX86(touched)
        /\ \A r \in Registers(isa) :
             Reg(isa, sp0, pc + 1, touched, r) = IF r = SP(isa) THEN w + 1 ELSE Reg(isa, sp0, pc, touched, r)
        /\ SameWords(isa, sp0, pc, pc + 1, touched)
    BY <1>1, <1>19, OutX64
  <2>3. HopX86(touched) \in Exits(isa, pc, touched) /\ HopX86(touched) # Nowhere
    BY <1>19 DEF Exits, HopX86, TrampEntry, Relocated, Nowhere
  <2> HIDE DEF w
  <2> QED
    BY <2>1, <2>2, <2>3, RetKeeps
<1>20. CASE pc = 29
  <2>1. Insn = Jump(5)
    BY <1>2, <1>20, ProgramX64
  <2>2. pc' = 34 /\ UNCHANGED <<isa, sp0, touched, regs, mem, next>> /\ next = Nowhere
    BY <1>20, <2>1, JumpStep
  <2>3. OddX64(sp0) = 0
    BY <1>1, <1>20 DEF Path
  <2>4. SameRegs(isa, sp0, pc, 34, touched) /\ SameWords(isa, sp0, pc, 34, touched)
    BY <1>1, <1>20, <2>3, OutX64
  <2>5. Stays(34)
    BY ViewX64 DEF Stays, Path
  <2>6. regs' \in [Registers(isa) -> Int] /\ \A r \in Registers(isa) : regs'[r] = Reg(isa, sp0, 34, touched, r)
    BY <2>2, <2>4, Inside DEF SameRegs
  <2> QED
    BY <2>2, <2>4, <2>5, <2>6, RegsKeep
<1>21. CASE pc = 27
  <2>1. Insn = JumpIfOdd(3)
    BY <1>2, <1>21, ProgramX64
  <2>2. sp = sp0 - 21 /\ next = Nowhere
    BY <1>21, Going, Inside, ViewX64 DEF RegX64, DepthX64
  <2>3. sp % 2 = OddX64(sp0) /\ OddX64(sp0) \in {0, 1}
    BY <1>1, <2>2 DEF OddX64
  <2> DEFINE j == IF OddX64(sp0) = 0 THEN 28 ELSE 30
  <2>4. /\ regs' = [regs EXCEPT ![0] = OddX64(sp0), ![16] = Junk]
        /\ pc' = j /\ UNCHANGED <<isa, sp0, touched, mem, next>>
    BY <1>21, <2>1, <2>3, JumpIfOddStep
  <2>5. Stays(j)
    BY <2>3, ViewX64 DEF Stays, Path
  <2>6. /\ \A r \in Registers(isa) :
             Reg(isa, sp0, j, touched, r)
               = IF r = 0 THEN OddX64(sp0) ELSE IF r = 16 THEN Junk ELSE Reg(isa, sp0, pc, touched, r)
        /\ SameWords(isa, sp0, pc, j, touched)
    BY <1>1, <1>21, OutX64
  <2> HIDE DEF j
  <2>7. regs' \in [Registers(isa) -> Int] /\ \A r \in Registers(isa) : regs'[r] = Reg(isa, sp0, j, touched, r)
    <3>1. /\ regs \in [Registers(isa) -> Int]
          /\ \A r \in Registers(isa) : regs[r] = Reg(isa, sp0, pc, touched, r)
      BY <2>2, Inside
    <3>2. 0 \in Registers(isa) /\ 16 \in Registers(isa) /\ OddX64(sp0) \in Int /\ Junk \in Int
      BY <2>3, ViewX64 DEF Junk
    <3> QED
      BY <2>4, <2>6, <3>1, <3>2
  <2> QED
    BY <2>2, <2>4, <2>5, <2>6, <2>7, RegsKeep
<1> QED
  BY <1>1, <1>5, <1>6, <1>7, <1>8, <1>9, <1>10, <1>11, <1>12, <1>13, <1>14, <1>15, <1>16, <1>17, <1>18, <1>19, <1>20, <1>21

------------------------------------------------------------------------------
(* The first and the last line of the table, and the context.               *)

\* The first line of the table is the initial state.
LEMMA FirstARM ==
  ASSUME NEW b \in Nat, b >= 70, NEW t
  PROVE  /\ \A r \in Registers("arm") : Reg("arm", b, 1, t, r) = IF r = SP("arm") THEN b ELSE Orig(r)
         /\ \A a \in Known("arm", b, 1) : a >= b /\ Kept("arm", b, 1, t, a) = Caller(a)
<1> USE ViewARM DEF RegARM, DepthARM, ResultARM, LowARM, KnownARM, FieldARM, WordARM, TrampEntry, Junk, Orig
<1>1. \A r \in Registers("arm") : Reg("arm", b, 1, t, r) = IF r = SP("arm") THEN b ELSE Orig(r)
  OBVIOUS
<1>2. \A a \in Known("arm", b, 1) : a >= b /\ Kept("arm", b, 1, t, a) = Caller(a)
  OBVIOUS
<1> QED
  BY <1>1, <1>2

\* The context before the call.
LEMMA ShownARM ==
  ASSUME NEW b \in Nat, b >= 70, NEW t, NEW k \in {23}, NEW f \in Fields("arm")
  PROVE  /\ WordOf("arm", b - 18, f) \in Known("arm", b, k)
         /\ Kept("arm", b, k, t, WordOf("arm", b - 18, f)) = Orig(f) <=> f \notin NotShown("arm")
<1> DEFINE w == WordOf("arm", b - 18, f)
<1>1. /\ f \in (0..12) \cup {14}
      /\ w = IF f = 14 THEN b - 1 ELSE b - 14 + f
  BY ContextARM
<1> HIDE DEF w
<1> USE ViewARM DEF RegARM, DepthARM, ResultARM, LowARM, KnownARM, FieldARM, WordARM, TrampEntry, Junk, Orig
<1>2. w \in Known("arm", b, k)
  BY <1>1
<1>3. Kept("arm", b, k, t, w) = Orig(f) <=> f \notin NotShown("arm")
  BY <1>1 DEF NotShown
<1> QED
  BY <1>2, <1>3 DEF w

\* The registers this instruction set loses.
LEMMA LostARM == Lost("arm") = {12, 16} \cup (32..39) \cup (48..63)
<1>1. Vectors("arm") \cap Volatile("arm") \cap Fields("arm") = {}
  BY DEF Vectors, Fields
<1>2. Vectors("arm") \cap Volatile("arm") = (32..39) \cup (48..63)
  BY DEF Vectors, Volatile
<1> QED
  BY <1>1, <1>2 DEF Lost

\* The state in which control leaves.
LEMMA LastARM ==
  ASSUME NEW b \in Nat, b >= 70, NEW t, t \subseteq Fields("arm") \cup {-1}
  PROVE  /\ Reg("arm", b, 41, t, SP("arm")) = b
         /\ \A a \in b..(b + 2) : a \in Known("arm", b, 41) /\ Kept("arm", b, 41, t, a) = Caller(a)
         /\ \A r \in Registers("arm") \ (Lost("arm") \cup {SP("arm")}) :
              Reg("arm", b, 41, t, r) = IF r \in t THEN Written(r) ELSE Orig(r)
         /\ \A r \in Lost("arm") : r \in Registers("arm") /\ Reg("arm", b, 41, t, r) # Orig(r)
<1> USE ViewARM DEF RegARM, DepthARM, ResultARM, LowARM, KnownARM, FieldARM, WordARM, TrampEntry, Junk, Orig, Result
<1>1. Reg("arm", b, 41, t, SP("arm")) = b
  OBVIOUS
<1>2. \A a \in b..(b + 2) : a \in Known("arm", b, 41) /\ Kept("arm", b, 41, t, a) = Caller(a)
  OBVIOUS
<1>3. \A r \in Registers("arm") \ (Lost("arm") \cup {SP("arm")}) :
        Reg("arm", b, 41, t, r) = IF r \in t THEN Written(r) ELSE Orig(r)
  <2> TAKE r \in Registers("arm") \ (Lost("arm") \cup {SP("arm")})
  <2>1. r \in (0..11) \cup {14} \/ r \in 40..47
    BY LostARM
  <2>2. CASE r \in (0..11) \cup {14}
    BY <2>2
  <2>3. CASE r \in 40..47
    <3>1. r \notin t
      BY <2>3 DEF Fields
    <3> QED
      BY <2>3, <3>1
  <2> QED
    BY <2>1, <2>2, <2>3
<1>4. \A r \in Lost("arm") : r \in Registers("arm") /\ Reg("arm", b, 41, t, r) # Orig(r)
  BY LostARM DEF Relocated
<1> QED
  BY <1>1, <1>2, <1>3, <1>4

\* The one place of the call.
LEMMA OnlyARM ==
  ASSUME isa = "arm", pc \in 1..40, Insn.op = "call"
  PROVE  pc = 23
<1>1. Insn = Program("arm")[pc]
  BY DEF Insn
<1>2. pc \notin 4..16
  <2> SUFFICES ASSUME pc \in 4..16 PROVE FALSE
    OBVIOUS
  <2> DEFINE i == pc - 3
  <2>1. i \in 1..13 /\ pc = 3 + i
    OBVIOUS
  <2> HIDE DEF i
  <2> QED
    BY <1>1, <2>1, ProgramARM DEF St, Pop
<1>3. pc \notin 26..38
  <2> SUFFICES ASSUME pc \in 26..38 PROVE FALSE
    OBVIOUS
  <2> DEFINE i == pc - 25
  <2>1. i \in 1..13 /\ pc = 25 + i
    OBVIOUS
  <2> HIDE DEF i
  <2> QED
    BY <1>1, <2>1, ProgramARM DEF St, Pop
<1>4. pc \notin {1, 2, 3, 17, 18, 19, 20, 21, 22, 24, 25, 39, 40}
  BY <1>1, ProgramARM DEF Add, Mov, St, Pop, Lit, Leave, Ld
<1> QED
  BY <1>2, <1>3, <1>4

\* The first line of the table is the initial state.
LEMMA FirstARM64 ==
  ASSUME NEW b \in Nat, b >= 70, NEW t
  PROVE  /\ \A r \in Registers("arm64") : Reg("arm64", b, 1, t, r) = IF r = SP("arm64") THEN b ELSE Orig(r)
         /\ \A a \in Known("arm64", b, 1) : a >= b /\ Kept("arm64", b, 1, t, a) = Caller(a)
<1> USE ViewARM64 DEF RegARM64, DepthARM64, ResultARM64, LowARM64, KnownARM64, FieldARM64, WordARM64, TrampEntry, Bridge, AfterBlr, Junk, Orig, Volatile, Q
<1>1. \A r \in Registers("arm64") : Reg("arm64", b, 1, t, r) = IF r = SP("arm64") THEN b ELSE Orig(r)
  OBVIOUS
<1>2. \A a \in Known("arm64", b, 1) : a >= b /\ Kept("arm64", b, 1, t, a) = Caller(a)
  OBVIOUS
<1> QED
  BY <1>1, <1>2

\* The context before the call.
LEMMA ShownARM64 ==
  ASSUME NEW b \in Nat, b >= 70, NEW t, NEW k \in {36}, NEW f \in Fields("arm64")
  PROVE  /\ WordOf("arm64", b - 52, f) \in Known("arm64", b, k)
         /\ Kept("arm64", b, k, t, WordOf("arm64", b - 52, f)) = Orig(f) <=> f \notin NotShown("arm64")
<1> DEFINE w == WordOf("arm64", b - 52, f)
<1>1. /\ f \in (0..30) \cup (32..47)
      /\ w = IF f <= 30 THEN b - 49 + f ELSE b - 50 + f
  BY ContextARM64
<1> HIDE DEF w
<1> USE ViewARM64 DEF RegARM64, DepthARM64, ResultARM64, LowARM64, KnownARM64, FieldARM64, WordARM64, TrampEntry, Bridge, AfterBlr, Junk, Orig, Volatile, Q
<1>2. w \in Known("arm64", b, k)
  BY <1>1
<1>3. Kept("arm64", b, k, t, w) = Orig(f) <=> f \notin NotShown("arm64")
  BY <1>1 DEF NotShown
<1> QED
  BY <1>2, <1>3 DEF w

\* The registers this instruction set loses.
LEMMA LostARM64 == Lost("arm64") = {17, 96} \cup ((48..95) \cap Volatile("arm64"))
<1>1. Vectors("arm64") \ Fields("arm64") = 48..95
  BY DEF Vectors, Fields, Q
<1> QED
  BY <1>1 DEF Lost

\* The state in which control leaves.
LEMMA LastARM64 ==
  ASSUME NEW b \in Nat, b >= 70, NEW t, 30 \notin t, t \subseteq Fields("arm64") \cup {-1}
  PROVE  /\ Reg("arm64", b, 63, t, SP("arm64")) = b
         /\ \A a \in b..(b + 2) : a \in Known("arm64", b, 63) /\ Kept("arm64", b, 63, t, a) = Caller(a)
         /\ \A r \in Registers("arm64") \ (Lost("arm64") \cup {SP("arm64")}) :
              Reg("arm64", b, 63, t, r) = IF r \in t THEN Written(r) ELSE Orig(r)
         /\ \A r \in Lost("arm64") : r \in Registers("arm64") /\ Reg("arm64", b, 63, t, r) # Orig(r)
<1> USE ViewARM64 DEF RegARM64, DepthARM64, ResultARM64, LowARM64, KnownARM64, FieldARM64, WordARM64, TrampEntry, Bridge, AfterBlr, Junk, Orig, Volatile, Q, Result
<1>1. Reg("arm64", b, 63, t, SP("arm64")) = b
  OBVIOUS
<1>2. \A a \in b..(b + 2) : a \in Known("arm64", b, 63) /\ Kept("arm64", b, 63, t, a) = Caller(a)
  OBVIOUS
<1>3. \A r \in Registers("arm64") \ (Lost("arm64") \cup {SP("arm64")}) :
        Reg("arm64", b, 63, t, r) = IF r \in t THEN Written(r) ELSE Orig(r)
  <2> TAKE r \in Registers("arm64") \ (Lost("arm64") \cup {SP("arm64")})
  <2>1. r \in (0..30) \ {17} \/ r \in 32..47 \/ (r \in 48..95 /\ r \notin Volatile("arm64"))
    BY LostARM64
  <2>2. CASE r \in (0..30) \ {17}
    BY <2>2
  <2>3. CASE r \in 32..47
    BY <2>3
  <2>4. CASE r \in 48..95 /\ r \notin Volatile("arm64")
    <3>1. r \notin t
      BY <2>4 DEF Fields
    <3> HIDE DEF Volatile
    <3>2. RegARM64(b, 63, t, r) = Orig(r)
      BY <2>4
    <3> QED
      BY <3>1, <3>2
  <2> QED
    BY <2>1, <2>2, <2>3, <2>4
<1>4. \A r \in Lost("arm64") : r \in Registers("arm64") /\ Reg("arm64", b, 63, t, r) # Orig(r)
  BY LostARM64 DEF Relocated
<1> QED
  BY <1>1, <1>2, <1>3, <1>4

\* The one place of the call.
LEMMA OnlyARM64 ==
  ASSUME isa = "arm64", pc \in 1..62, Insn.op = "call"
  PROVE  pc = 36
<1>1. Insn = Program("arm64")[pc]
  BY DEF Insn
<1>2. pc \notin 8..11
  <2> SUFFICES ASSUME pc \in 8..11 PROVE FALSE
    OBVIOUS
  <2> DEFINE i == pc - 7
  <2>1. i \in 1..4 /\ pc = 7 + i
    OBVIOUS
  <2> HIDE DEF i
  <2> QED
    BY <1>1, <2>1, ProgramARM64 DEF St, Pop
<1>3. pc \notin 13..27
  <2> SUFFICES ASSUME pc \in 13..27 PROVE FALSE
    OBVIOUS
  <2> DEFINE i == pc - 12
  <2>1. i \in 1..15 /\ pc = 12 + i
    OBVIOUS
  <2> HIDE DEF i
  <2> QED
    BY <1>1, <2>1, ProgramARM64 DEF St, Pop
<1>4. pc \notin 40..54
  <2> SUFFICES ASSUME pc \in 40..54 PROVE FALSE
    OBVIOUS
  <2> DEFINE i == pc - 39
  <2>1. i \in 1..15 /\ pc = 39 + i
    OBVIOUS
  <2> HIDE DEF i
  <2> QED
    BY <1>1, <2>1, ProgramARM64 DEF St, Pop
<1>5. pc \notin 55..58
  <2> SUFFICES ASSUME pc \in 55..58 PROVE FALSE
    OBVIOUS
  <2> DEFINE i == pc - 54
  <2>1. i \in 1..4 /\ pc = 54 + i
    OBVIOUS
  <2> HIDE DEF i
  <2> QED
    BY <1>1, <2>1, ProgramARM64 DEF St, Pop
<1>6. pc \notin {1, 2, 3, 4, 5, 6, 7, 12, 28, 29, 30, 31, 32, 33, 34, 35, 37, 38, 39, 59, 60, 61, 62}
  BY <1>1, ProgramARM64 DEF Add, Mov, St, Pop, Lit, Leave, Ld
<1> QED
  BY <1>2, <1>3, <1>4, <1>5, <1>6

\* The first line of the table is the initial state.
LEMMA FirstIA32 ==
  ASSUME NEW b \in Nat, b >= 70, NEW t
  PROVE  /\ \A r \in Registers("ia32") : Reg("ia32", b, 1, t, r) = IF r = SP("ia32") THEN b ELSE Orig(r)
         /\ \A a \in Known("ia32", b, 1) : a >= b /\ Kept("ia32", b, 1, t, a) = Caller(a)
<1> USE ViewIA32 DEF RegIA32, DepthIA32, ResultIA32, KnownIA32, WordIA32, TrampEntry, Junk, Orig
<1>1. \A r \in Registers("ia32") : Reg("ia32", b, 1, t, r) = IF r = SP("ia32") THEN b ELSE Orig(r)
  OBVIOUS
<1>2. \A a \in Known("ia32", b, 1) : a >= b /\ Kept("ia32", b, 1, t, a) = Caller(a)
  OBVIOUS
<1> QED
  BY <1>1, <1>2

\* The context before the call.
LEMMA ShownIA32 ==
  ASSUME NEW b \in Nat, b >= 70, NEW t, NEW k \in {26}, NEW f \in Fields("ia32")
  PROVE  /\ WordOf("ia32", b - 13, f) \in Known("ia32", b, k)
         /\ Kept("ia32", b, k, t, WordOf("ia32", b - 13, f)) = Orig(f) <=> f \notin NotShown("ia32")
<1> DEFINE w == WordOf("ia32", b - 13, f)
<1>1. /\ f \in (0..7) \cup {16}
      /\ w = IF f = 16 THEN b - 10 ELSE b - 9 + f
  BY ContextIA32
<1> HIDE DEF w
<1> USE ViewIA32 DEF RegIA32, DepthIA32, ResultIA32, KnownIA32, WordIA32, TrampEntry, Junk, Orig
<1>2. w \in Known("ia32", b, k)
  BY <1>1
<1>3. Kept("ia32", b, k, t, w) = Orig(f) <=> f \notin NotShown("ia32")
  BY <1>1 DEF NotShown
<1> QED
  BY <1>2, <1>3 DEF w

\* The registers this instruction set loses.
LEMMA LostIA32 == Lost("ia32") = {16} \cup (32..47)
<1>1. Vectors("ia32") \cap Volatile("ia32") \cap Fields("ia32") = {}
  BY DEF Vectors, Fields
<1>2. Vectors("ia32") \cap Volatile("ia32") = 32..47
  BY DEF Vectors, Volatile
<1> QED
  BY <1>1, <1>2 DEF Lost

\* The state in which control leaves.
LEMMA LastIA32 ==
  ASSUME NEW b \in Nat, b >= 70, NEW t, -1 \notin t
  PROVE  /\ Reg("ia32", b, 40, t, SP("ia32")) = b
         /\ \A a \in b..(b + 2) : a \in Known("ia32", b, 40) /\ Kept("ia32", b, 40, t, a) = Caller(a)
         /\ \A r \in Registers("ia32") \ (Lost("ia32") \cup {SP("ia32")}) :
              Reg("ia32", b, 40, t, r) = IF r \in t THEN Written(r) ELSE Orig(r)
         /\ \A r \in Lost("ia32") : r \in Registers("ia32") /\ Reg("ia32", b, 40, t, r) # Orig(r)
<1> USE ViewIA32 DEF RegIA32, DepthIA32, ResultIA32, KnownIA32, WordIA32, TrampEntry, Junk, Orig, Result, HopX86, CallerX86
<1>1. Reg("ia32", b, 40, t, SP("ia32")) = b
  OBVIOUS
<1>2. \A a \in b..(b + 2) : a \in Known("ia32", b, 40) /\ Kept("ia32", b, 40, t, a) = Caller(a)
  OBVIOUS
<1>3. \A r \in Registers("ia32") \ (Lost("ia32") \cup {SP("ia32")}) :
        Reg("ia32", b, 40, t, r) = IF r \in t THEN Written(r) ELSE Orig(r)
  BY LostIA32
<1>4. \A r \in Lost("ia32") : r \in Registers("ia32") /\ Reg("ia32", b, 40, t, r) # Orig(r)
  BY LostIA32 DEF Relocated
<1> QED
  BY <1>1, <1>2, <1>3, <1>4

\* The one place of the call.
LEMMA OnlyIA32 ==
  ASSUME isa = "ia32", pc \in 1..39, Insn.op = "call"
  PROVE  pc = 26
<1>1. Insn = Program("ia32")[pc]
  BY DEF Insn
<1>2. pc \notin 4..11
  <2> SUFFICES ASSUME pc \in 4..11 PROVE FALSE
    OBVIOUS
  <2> DEFINE i == pc - 3
  <2>1. i \in 1..8 /\ pc = 3 + i
    OBVIOUS
  <2> HIDE DEF i
  <2> QED
    BY <1>1, <2>1, ProgramIA32 DEF St, Pop
<1>3. pc \notin 31..35
  <2> SUFFICES ASSUME pc \in 31..35 PROVE FALSE
    OBVIOUS
  <2> DEFINE i == pc - 30
  <2>1. i \in 1..5 /\ pc = 30 + i
    OBVIOUS
  <2> HIDE DEF i
  <2> QED
    BY <1>1, <2>1, ProgramIA32 DEF St, Pop
<1>4. pc \notin {1, 2, 3, 12, 13, 14, 15, 16, 17, 18, 19, 20, 21, 22, 23, 24, 25, 27, 28, 29, 30, 36, 37, 38, 39}
  BY <1>1, ProgramIA32 DEF Add, Mov, St, Ld, Pop, StLit, PushLit, PushF, JumpIfOdd, Jump, Ret
<1> QED
  BY <1>2, <1>3, <1>4

\* The first line of the table is the initial state.
LEMMA FirstX64 ==
  ASSUME NEW b \in Nat, b >= 70, NEW t
  PROVE  /\ \A r \in Registers("x64") : Reg("x64", b, 1, t, r) = IF r = SP("x64") THEN b ELSE Orig(r)
         /\ \A a \in Known("x64", b, 1) : a >= b /\ Kept("x64", b, 1, t, a) = Caller(a)
<1> USE ViewX64 DEF RegX64, DepthX64, CalledX64, KnownX64, WordX64, OddX64, TrampEntry, Junk, Orig
<1>1. \A r \in Registers("x64") : Reg("x64", b, 1, t, r) = IF r = SP("x64") THEN b ELSE Orig(r)
  OBVIOUS
<1>2. \A a \in Known("x64", b, 1) : a >= b /\ Kept("x64", b, 1, t, a) = Caller(a)
  OBVIOUS
<1> QED
  BY <1>1, <1>2

\* The context before the call.
LEMMA ShownX64 ==
  ASSUME NEW b \in Nat, b >= 70, NEW t, NEW k \in {28, 32}, NEW f \in Fields("x64")
  PROVE  /\ WordOf("x64", b - 21, f) \in Known("x64", b, k)
         /\ Kept("x64", b, k, t, WordOf("x64", b - 21, f)) = Orig(f) <=> f \notin NotShown("x64")
<1> DEFINE w == WordOf("x64", b - 21, f)
<1>1. /\ f \in 0..16
      /\ w = IF f = 16 THEN b - 2 ELSE b - 19 + f
  BY ContextX64
<1> HIDE DEF w
<1> USE ViewX64 DEF RegX64, DepthX64, CalledX64, KnownX64, WordX64, OddX64, TrampEntry, Junk, Orig
<1>2. w \in Known("x64", b, k)
  BY <1>1
<1>3. Kept("x64", b, k, t, w) = Orig(f) <=> f \notin NotShown("x64")
  BY <1>1 DEF NotShown
<1> QED
  BY <1>2, <1>3 DEF w

\* The registers this instruction set loses.
LEMMA LostX64 == Lost("x64") = 32..55
<1>1. Vectors("x64") \cap Volatile("x64") \cap Fields("x64") = {}
  BY DEF Vectors, Fields
<1>2. Vectors("x64") \cap Volatile("x64") = 32..55
  BY DEF Vectors, Volatile
<1> QED
  BY <1>1, <1>2 DEF Lost

\* The state in which control leaves.
LEMMA LastX64 ==
  ASSUME NEW b \in Nat, b >= 70, NEW t, -1 \notin t
  PROVE  /\ Reg("x64", b, 54, t, SP("x64")) = b
         /\ \A a \in b..(b + 2) : a \in Known("x64", b, 54) /\ Kept("x64", b, 54, t, a) = Caller(a)
         /\ \A r \in Registers("x64") \ (Lost("x64") \cup {SP("x64")}) :
              Reg("x64", b, 54, t, r) = IF r \in t THEN Written(r) ELSE Orig(r)
         /\ \A r \in Lost("x64") : r \in Registers("x64") /\ Reg("x64", b, 54, t, r) # Orig(r)
<1> USE ViewX64 DEF RegX64, DepthX64, CalledX64, KnownX64, WordX64, OddX64, TrampEntry, Junk, Orig, Result, HopX86, CallerX86
<1>1. Reg("x64", b, 54, t, SP("x64")) = b
  OBVIOUS
<1>2. \A a \in b..(b + 2) : a \in Known("x64", b, 54) /\ Kept("x64", b, 54, t, a) = Caller(a)
  OBVIOUS
<1>3. \A r \in Registers("x64") \ (Lost("x64") \cup {SP("x64")}) :
        Reg("x64", b, 54, t, r) = IF r \in t THEN Written(r) ELSE Orig(r)
  BY LostX64
<1>4. \A r \in Lost("x64") : r \in Registers("x64") /\ Reg("x64", b, 54, t, r) # Orig(r)
  BY LostX64 DEF Relocated
<1> QED
  BY <1>1, <1>2, <1>3, <1>4

\* The two places of the call.
LEMMA OnlyX64 ==
  ASSUME isa = "x64", pc \in 1..53, Insn.op = "call"
  PROVE  pc \in {28, 32}
<1>1. Insn = Program("x64")[pc]
  BY DEF Insn
<1>2. pc \notin 5..20
  <2> SUFFICES ASSUME pc \in 5..20 PROVE FALSE
    OBVIOUS
  <2> DEFINE i == pc - 4
  <2>1. i \in 1..16 /\ pc = 4 + i
    OBVIOUS
  <2> HIDE DEF i
  <2> QED
    BY <1>1, <2>1, ProgramX64 DEF St, Pop
<1>3. pc \notin 35..39
  <2> SUFFICES ASSUME pc \in 35..39 PROVE FALSE
    OBVIOUS
  <2> DEFINE i == pc - 34
  <2>1. i \in 1..5 /\ pc = 34 + i
    OBVIOUS
  <2> HIDE DEF i
  <2> QED
    BY <1>1, <2>1, ProgramX64 DEF St, Pop
<1>4. pc \notin 41..50
  <2> SUFFICES ASSUME pc \in 41..50 PROVE FALSE
    OBVIOUS
  <2> DEFINE i == pc - 40
  <2>1. i \in 1..10 /\ pc = 40 + i
    OBVIOUS
  <2> HIDE DEF i
  <2> QED
    BY <1>1, <2>1, ProgramX64 DEF St, Pop
<1>5. pc \notin {1, 2, 3, 4, 21, 22, 23, 24, 25, 26, 27, 29, 30, 31, 33, 34, 40, 51, 52, 53}
  BY <1>1, ProgramX64 DEF Add, Mov, St, Ld, Pop, StLit, PushLit, PushF, JumpIfOdd, Jump, Ret
<1> QED
  BY <1>2, <1>3, <1>4, <1>5

------------------------------------------------------------------------------
(* The invariant is inductive.                                              *)

\* At the instrumented instruction.
LEMMA Starts == BridgeInit => BridgeInv
<1> SUFFICES ASSUME BridgeInit PROVE BridgeInv
  OBVIOUS
<1>1. PICK s \in Stacks : isa = s[1] /\ sp0 = s[2]
  BY DEF BridgeInit
<1>2. s \in Isas \X Nat /\ s[2] >= 70 /\ (s[1] = "arm64" => s[2] % 2 = 0)
  BY StacksAssumption
<1>3. s = <<isa, sp0>> /\ isa \in Isas /\ sp0 \in Nat /\ sp0 >= 70
  BY <1>1, <1>2
<1>4. Place
  BY <1>1, <1>2, <1>3 DEF Place
<1>5. pc = 1 /\ touched = {} /\ next = Nowhere /\ Stage = 1
  BY DEF BridgeInit, Stage
<1>6. 1 \in 1..Length(isa) /\ Path(isa, sp0, 1, touched)
  BY <1>3 DEF Isas, Length, Path
<1>7. /\ \A r \in Registers(isa) : Reg(isa, sp0, 1, touched, r) = IF r = SP(isa) THEN sp0 ELSE Orig(r)
      /\ \A a \in Known(isa, sp0, 1) : a >= sp0 /\ Kept(isa, sp0, 1, touched, a) = Caller(a)
  <2>1. CASE isa = "arm"
    BY <1>3, <2>1, FirstARM
  <2>2. CASE isa = "arm64"
    BY <1>3, <2>2, FirstARM64
  <2>3. CASE isa = "ia32"
    BY <1>3, <2>3, FirstIA32
  <2>4. CASE isa = "x64"
    BY <1>3, <2>4, FirstX64
  <2> QED
    BY <1>3, <2>1, <2>2, <2>3, <2>4 DEF Isas
<1>8. RegsAre
  <2>1. regs = [r \in Registers(isa) |-> IF r = SP(isa) THEN sp0 ELSE Orig(r)]
    BY DEF BridgeInit
  <2>2. \A r \in Registers(isa) : Orig(r) \in Int
    BY <1>3 DEF Isas, Registers, Vectors, Orig
  <2>3. regs \in [Registers(isa) -> Int]
    BY <1>3, <2>1, <2>2
  <2> QED
    BY <1>5, <1>7, <2>1, <2>3 DEF RegsAre
<1>9. mem = [a \in (sp0 - 70)..(sp0 + 2) |-> IF a < sp0 THEN Junk ELSE Caller(a)]
  BY DEF BridgeInit
<1>10. MemIs
  BY <1>3, <1>9 DEF MemIs, Junk, Caller
<1>11. WordsAre
  <2> SUFFICES ASSUME NEW a \in Known(isa, sp0, 1)
               PROVE  mem[a] = Kept(isa, sp0, 1, touched, a)
    BY <1>5 DEF WordsAre
  <2>1. a \in (sp0 - 70)..(sp0 + 2)
    BY DEF Known
  <2>2. ~(a < sp0)
    BY <1>3, <1>7, <2>1
  <2> QED
    BY <1>7, <1>9, <2>1, <2>2
<1> QED
  BY <1>4, <1>5, <1>6, <1>8, <1>10, <1>11 DEF BridgeInv, Progress, Writes

\* One case for each instruction set, and the signal.
LEMMA Keeps == BridgeInv /\ [BridgeNext]_bridgeVars => BridgeInv'
<1> SUFFICES ASSUME BridgeInv, [BridgeNext]_bridgeVars PROVE BridgeInv'
  OBVIOUS
<1>1. isa \in Isas
  BY DEF BridgeInv, Place
<1>2. CASE UNCHANGED bridgeVars
  BY <1>2, StutterKeeps
<1>3. CASE Signal
  <2>1. next = Nowhere
    BY <1>3 DEF Signal
  <2>2. pc \in 1..Length(isa) /\ sp0 \in Nat /\ sp0 >= 70
    BY <2>1, Inside
  <2>3. \A a \in Known(isa, sp0, pc) : a >= Reg(isa, sp0, pc, touched, SP(isa))
    <3>1. CASE isa = "arm"
      BY <2>2, <3>1, ViewARM, AboveARM
    <3>2. CASE isa = "arm64"
      BY <2>2, <3>2, ViewARM64, AboveARM64
    <3>3. CASE isa = "ia32"
      BY <2>2, <3>3, ViewIA32, AboveIA32
    <3>4. CASE isa = "x64"
      BY <2>2, <3>4, ViewX64, AboveX64
    <3> QED
      BY <1>1, <3>1, <3>2, <3>3, <3>4 DEF Isas
  <2> QED
    BY <1>3, <2>3, SignalKeeps
<1>4. CASE BridgeNext /\ ~Signal
  BY <1>1, <1>4, StepARM, StepARM64, StepIA32, StepX64 DEF Isas
<1> QED
  BY <1>2, <1>3, <1>4

------------------------------------------------------------------------------
(* What follows from it.                                                    *)

\* The table is typed.
LEMMA Typed == BridgeInv => BridgeTypeOK
<1> SUFFICES ASSUME BridgeInv PROVE BridgeTypeOK
  OBVIOUS
<1>1. /\ isa \in Isas /\ <<isa, sp0>> \in Stacks /\ pc \in 1..Length(isa)
      /\ touched \in {{}} \cup Touches[isa]
      /\ regs \in [Registers(isa) -> Int] /\ mem \in [(sp0 - 70)..(sp0 + 2) -> Int]
      /\ next = Nowhere \/ next \in Exits(isa, pc, touched)
  BY DEF BridgeInv, Place, Progress, Writes, RegsAre, MemIs
<1>2. Len(Program(isa)) = Length(isa)
  <2>1. CASE isa = "arm"
    BY <2>1, ProgramARM, ViewARM
  <2>2. CASE isa = "arm64"
    BY <2>2, ProgramARM64, ViewARM64
  <2>3. CASE isa = "ia32"
    BY <2>3, ProgramIA32, ViewIA32
  <2>4. CASE isa = "x64"
    BY <2>4, ProgramX64, ViewX64
  <2> QED
    BY <1>1, <2>1, <2>2, <2>3, <2>4 DEF Isas
<1>3. next \in Int
  BY <1>1 DEF Isas, Exits, HopX86, Nowhere, Relocated, Written, TrampEntry
<1> QED
  BY <1>1, <1>2, <1>3 DEF BridgeTypeOK

\* The line of the table before the call.
LEMMA ShowsContext == BridgeInv => ContextShown
<1> SUFFICES ASSUME BridgeInv, next = Nowhere, Insn.op = "call"
             PROVE  /\ ArgEntry = TrampEntry
                    /\ ArgContext \in DOMAIN mem
                    /\ mem[Word(ArgContext, -1)] = sp0
                    /\ \A r \in Fields(isa) : mem[Word(ArgContext, r)] = Orig(r) <=> r \notin NotShown(isa)
                    /\ AlignedCall
  BY DEF ContextShown, Running
<1>1. /\ isa \in Isas /\ pc \in 1..Length(isa) /\ sp0 \in Nat /\ sp0 >= 70
      /\ Path(isa, sp0, pc, touched) /\ (isa = "arm64" => sp0 % 2 = 0)
      /\ DOMAIN mem = (sp0 - 70)..(sp0 + 2)
      /\ \A a \in Known(isa, sp0, pc) : mem[a] = Kept(isa, sp0, pc, touched, a)
  BY Inside DEF Place
<1>2. PICK c \in Int :
        /\ ArgContext = c /\ ArgEntry = TrampEntry /\ c \in (sp0 - 70)..(sp0 + 2) /\ AlignedCall
        /\ WordOf(isa, c, -1) \in Known(isa, sp0, pc) /\ Kept(isa, sp0, pc, touched, WordOf(isa, c, -1)) = sp0
        /\ \A f \in Fields(isa) :
             /\ WordOf(isa, c, f) \in Known(isa, sp0, pc)
             /\ Kept(isa, sp0, pc, touched, WordOf(isa, c, f)) = Orig(f) <=> f \notin NotShown(isa)
  <2>1. CASE isa = "arm"
    <3>1. pc = 23
      BY <1>1, <2>1, ViewARM, OnlyARM
    <3>2. ArgContext = sp0 - 18 /\ ArgEntry = TrampEntry /\ sp = sp0 - 18
      BY <2>1, <3>1, AtARM
    <3>3. sp % 2 = 0 <=> sp0 % 2 = 0
      BY <1>1, <2>1, <3>2
    <3>4. AlignedCall
      BY <2>1, <3>3 DEF AlignedCall
    <3>5. CallFits(isa, sp0, pc, touched, {}, sp0 - 18)
      BY <1>1, <2>1, <3>1, CallsARM
    <3>6. ASSUME NEW f \in Fields(isa)
          PROVE  /\ WordOf(isa, sp0 - 18, f) \in Known(isa, sp0, pc)
                 /\ Kept(isa, sp0, pc, touched, WordOf(isa, sp0 - 18, f)) = Orig(f) <=> f \notin NotShown(isa)
      <4>1. sp0 \in Nat /\ sp0 >= 70 /\ f \in Fields("arm")
        BY <1>1, <2>1
      <4> QED
        BY <2>1, <3>1, <4>1, ShownARM
    <3>7. sp0 - 18 \in Int /\ sp0 - 18 \in (sp0 - 70)..(sp0 + 2)
      BY <1>1
    <3>8. /\ WordOf(isa, sp0 - 18, -1) \in Known(isa, sp0, pc)
          /\ Kept(isa, sp0, pc, touched, WordOf(isa, sp0 - 18, -1)) = sp0
      BY <3>5 DEF CallFits
    <3> QED
      BY <3>2, <3>4, <3>6, <3>7, <3>8
  <2>2. CASE isa = "arm64"
    <3>1. pc = 36
      BY <1>1, <2>2, ViewARM64, OnlyARM64
    <3>2. ArgContext = sp0 - 52 /\ ArgEntry = TrampEntry /\ sp = sp0 - 52
      BY <2>2, <3>1, AtARM64
    <3>3. sp % 2 = 0
      BY <1>1, <2>2, <3>2
    <3>4. AlignedCall
      BY <2>2, <3>3 DEF AlignedCall
    <3>5. CallFits(isa, sp0, pc, touched, {}, sp0 - 52)
      BY <1>1, <2>2, <3>1, CallsARM64
    <3>6. ASSUME NEW f \in Fields(isa)
          PROVE  /\ WordOf(isa, sp0 - 52, f) \in Known(isa, sp0, pc)
                 /\ Kept(isa, sp0, pc, touched, WordOf(isa, sp0 - 52, f)) = Orig(f) <=> f \notin NotShown(isa)
      <4>1. sp0 \in Nat /\ sp0 >= 70 /\ f \in Fields("arm64")
        BY <1>1, <2>2
      <4> QED
        BY <2>2, <3>1, <4>1, ShownARM64
    <3>7. sp0 - 52 \in Int /\ sp0 - 52 \in (sp0 - 70)..(sp0 + 2)
      BY <1>1
    <3>8. /\ WordOf(isa, sp0 - 52, -1) \in Known(isa, sp0, pc)
          /\ Kept(isa, sp0, pc, touched, WordOf(isa, sp0 - 52, -1)) = sp0
      BY <3>5 DEF CallFits
    <3> QED
      BY <3>2, <3>4, <3>6, <3>7, <3>8
  <2>3. CASE isa = "ia32"
    <3>1. pc = 26
      BY <1>1, <2>3, ViewIA32, OnlyIA32
    <3>2. ArgContext = sp0 - 13 /\ ArgEntry = TrampEntry /\ sp = sp0 - 15
      BY <2>3, <3>1, AtIA32
    <3>3. sp % 4 = 0 <=> sp0 % 4 = 3
      BY <1>1, <2>3, <3>2
    <3>4. AlignedCall
      BY <2>3, <3>3 DEF AlignedCall
    <3>5. CallFits(isa, sp0, pc, touched, {}, sp0 - 13)
      BY <1>1, <2>3, <3>1, CallsIA32
    <3>6. ASSUME NEW f \in Fields(isa)
          PROVE  /\ WordOf(isa, sp0 - 13, f) \in Known(isa, sp0, pc)
                 /\ Kept(isa, sp0, pc, touched, WordOf(isa, sp0 - 13, f)) = Orig(f) <=> f \notin NotShown(isa)
      <4>1. sp0 \in Nat /\ sp0 >= 70 /\ f \in Fields("ia32")
        BY <1>1, <2>3
      <4> QED
        BY <2>3, <3>1, <4>1, ShownIA32
    <3>7. sp0 - 13 \in Int /\ sp0 - 13 \in (sp0 - 70)..(sp0 + 2)
      BY <1>1
    <3>8. /\ WordOf(isa, sp0 - 13, -1) \in Known(isa, sp0, pc)
          /\ Kept(isa, sp0, pc, touched, WordOf(isa, sp0 - 13, -1)) = sp0
      BY <3>5 DEF CallFits
    <3> QED
      BY <3>2, <3>4, <3>6, <3>7, <3>8
  <2>4. CASE isa = "x64"
    <3>1. pc \in {28, 32}
      BY <1>1, <2>4, ViewX64, OnlyX64
    <3>2. ArgContext = sp0 - 21 /\ ArgEntry = TrampEntry /\ sp = sp0 - (IF pc = 28 THEN 21 ELSE 22)
      BY <2>4, <3>1, AtX64
    <3>3. sp % 2 = 0
      <4>1. pc = 28 => (sp0 - 21) % 2 = 0
        BY <1>1, <2>4 DEF Path, OddX64
      <4>2. pc = 32 => (sp0 - 21) % 2 = 1
        BY <1>1, <2>4 DEF Path, OddX64
      <4> QED
        BY <1>1, <3>1, <3>2, <4>1, <4>2
    <3>4. AlignedCall
      BY <2>4, <3>3 DEF AlignedCall
    <3>5. CallFits(isa, sp0, pc, touched, {}, sp0 - 21)
      BY <1>1, <2>4, <3>1, CallsX64
    <3>6. ASSUME NEW f \in Fields(isa)
          PROVE  /\ WordOf(isa, sp0 - 21, f) \in Known(isa, sp0, pc)
                 /\ Kept(isa, sp0, pc, touched, WordOf(isa, sp0 - 21, f)) = Orig(f) <=> f \notin NotShown(isa)
      <4>1. sp0 \in Nat /\ sp0 >= 70 /\ f \in Fields("x64")
        BY <1>1, <2>4
      <4> QED
        BY <2>4, <3>1, <4>1, ShownX64
    <3>7. sp0 - 21 \in Int /\ sp0 - 21 \in (sp0 - 70)..(sp0 + 2)
      BY <1>1
    <3>8. /\ WordOf(isa, sp0 - 21, -1) \in Known(isa, sp0, pc)
          /\ Kept(isa, sp0, pc, touched, WordOf(isa, sp0 - 21, -1)) = sp0
      BY <3>5 DEF CallFits
    <3> QED
      BY <3>2, <3>4, <3>6, <3>7, <3>8
  <2> QED
    BY <1>1, <2>1, <2>2, <2>3, <2>4 DEF Isas
<1>3. \A f : Word(c, f) = WordOf(isa, c, f)
  BY DEF Word, WordOf
<1>4. mem[Word(c, -1)] = sp0
  BY <1>1, <1>2, <1>3
<1>5. \A r \in Fields(isa) : mem[Word(c, r)] = Orig(r) <=> r \notin NotShown(isa)
  BY <1>1, <1>2, <1>3
<1> QED
  BY <1>1, <1>2, <1>4, <1>5

\* The line of the table after the last step.
LEMMA Hops == BridgeInv => HopsWithContext
<1> SUFFICES ASSUME BridgeInv, next # Nowhere
             PROVE  /\ next = Relocated <=> touched \cap Steers(isa) = {}
                    /\ next = Relocated =>
                         /\ sp = sp0
                         /\ \A a \in sp0..(sp0 + 2) : mem[a] = Caller(a)
                         /\ \A r \in Registers(isa) \ (Lost(isa) \cup {SP(isa)}) :
                              regs[r] = IF r \in touched THEN Written(r) ELSE Orig(r)
                         /\ \A r \in Lost(isa) : regs[r] # Orig(r)
  BY DEF HopsWithContext
<1>1. /\ isa \in Isas /\ sp0 \in Nat /\ sp0 >= 70 /\ pc \in 1..Length(isa)
      /\ Path(isa, sp0, pc, touched) /\ next \in Exits(isa, pc, touched) /\ Stage = pc + 1
      /\ \A r \in Registers(isa) : regs[r] = Reg(isa, sp0, Stage, touched, r)
      /\ \A a \in Known(isa, sp0, Stage) : mem[a] = Kept(isa, sp0, Stage, touched, a)
  BY DEF BridgeInv, Place, Progress, RegsAre, WordsAre, Stage
<1>2. touched \subseteq Fields(isa) \cup {-1}
  <2>1. touched = {} \/ touched \in Touches[isa]
    BY DEF BridgeInv, Writes
  <2> QED
    BY <1>1, <2>1, TouchesAssumption
<1>3. SP(isa) \in Registers(isa) /\ sp = regs[SP(isa)]
  BY <1>1 DEF Isas, SP, Registers, sp
<1>4. next = Relocated <=> touched \cap Steers(isa) = {}
  <2>1. CASE isa = "arm"
    BY <1>1, <2>1 DEF Exits, Steers, IsX86
  <2>2. CASE isa = "arm64"
    BY <1>1, <2>2 DEF Exits, Steers, IsX86, Path, Relocated, Written
  <2>3. CASE isa = "ia32"
    BY <1>1, <2>3 DEF Exits, Steers, IsX86, HopX86, Relocated, TrampEntry
  <2>4. CASE isa = "x64"
    BY <1>1, <2>4 DEF Exits, Steers, IsX86, HopX86, Relocated, TrampEntry
  <2> QED
    BY <1>1, <2>1, <2>2, <2>3, <2>4 DEF Isas
<1>5. next = Relocated =>
        /\ Reg(isa, sp0, Stage, touched, SP(isa)) = sp0
        /\ \A a \in sp0..(sp0 + 2) : a \in Known(isa, sp0, Stage) /\ Kept(isa, sp0, Stage, touched, a) = Caller(a)
        /\ \A r \in Registers(isa) \ (Lost(isa) \cup {SP(isa)}) :
             Reg(isa, sp0, Stage, touched, r) = IF r \in touched THEN Written(r) ELSE Orig(r)
        /\ \A r \in Lost(isa) : r \in Registers(isa) /\ Reg(isa, sp0, Stage, touched, r) # Orig(r)
  <2> HAVE next = Relocated
  <2>1. CASE isa = "arm"
    <3>1. Stage = 41
      BY <1>1, <2>1 DEF Exits
    <3> QED
      BY <1>1, <1>2, <2>1, <3>1, LastARM
  <2>2. CASE isa = "arm64"
    <3>1. Stage = 63 /\ 30 \notin touched
      BY <1>1, <2>2 DEF Exits, Path, Relocated, Written
    <3> QED
      BY <1>1, <1>2, <2>2, <3>1, LastARM64
  <2>3. CASE isa = "ia32"
    <3>1. Stage = 40 /\ -1 \notin touched
      BY <1>1, <2>3 DEF Exits, HopX86, Relocated, TrampEntry
    <3> QED
      BY <1>1, <2>3, <3>1, LastIA32
  <2>4. CASE isa = "x64"
    <3>1. Stage = 54 /\ -1 \notin touched
      BY <1>1, <2>4 DEF Exits, HopX86, Relocated, TrampEntry
    <3> QED
      BY <1>1, <2>4, <3>1, LastX64
  <2> QED
    BY <1>1, <2>1, <2>2, <2>3, <2>4 DEF Isas
<1> QED
  BY <1>1, <1>3, <1>4, <1>5

------------------------------------------------------------------------------

\* Whatever the stack pointer of the instrumented code, and whatever its handler writes to the
\* context, the trampoline and the bridge stay inside their code until control leaves it.
THEOREM TypeCorrect == BridgeSpec => []BridgeTypeOK
<1>1. BridgeSpec => []BridgeInv
  BY Starts, Keeps, PTL DEF BridgeSpec
<1> QED
  BY <1>1, Typed, PTL

\* common_closure_bridge_handler is always called with the entry of the trampoline and with a
\* context that shows the registers of the instrumented code, signals notwithstanding.
THEOREM ContextIsShown == BridgeSpec => []ContextShown
<1>1. BridgeSpec => []BridgeInv
  BY Starts, Keeps, PTL DEF BridgeSpec
<1> QED
  BY <1>1, ShowsContext, PTL

\* Control leaves get_closure_bridge() for the relocated code exactly when the handler left
\* alone what steers the bridge, with the context the handler made and the caller's stack intact.
THEOREM BridgeHops == BridgeSpec => []HopsWithContext
<1>1. BridgeSpec => []BridgeInv
  BY Starts, Keeps, PTL DEF BridgeSpec
<1> QED
  BY <1>1, Hops, PTL
==============================================================================
