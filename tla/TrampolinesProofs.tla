------------------------- MODULE TrampolinesProofs -------------------------
(***************************************************************************)
(* A trampoline leads to the target of its hook, for every hook, every     *)
(* range of the branches and every near memory.                            *)
(***************************************************************************)
EXTENDS Trampolines, TLAPS

------------------------------------------------------------------------------
(* Displacements. *)

LEMMA RangesPositive ==
  /\ PageSize \in Nat \ {0} /\ BRange \in Nat \ {0} /\ AdrpRange \in Nat \ {0}
  /\ JmpRange \in Nat \ {0} /\ NearStep \in Nat \ {0} /\ AdrpRange % PageSize = 0
  BY RangeAssumption

\* A field holds a displacement that is in its range; one that is just the range wraps.
LEMMA FieldHolds ==
  ASSUME NEW d \in Int, NEW range \in Nat \ {0}
  PROVE  /\ -range <= d /\ d < range => Field(d, range) = d
         /\ d = range => Field(d, range) = -range
  BY DEF Field

LEMMA FieldIsInteger ==
  ASSUME NEW d \in Int, NEW range \in Nat \ {0}
  PROVE  Field(d, range) \in Int
  BY DEF Field

LEMMA PageParts ==
  ASSUME NEW a \in Nat
  PROVE  /\ PageOf(a) \in Int /\ (a % PageSize) \in Nat
         /\ a = PageOf(a) + (a % PageSize) /\ (a % PageSize) < PageSize
  BY RangesPositive DEF PageOf

\* Multiples of a page size that differ by less than a page are equal.
LEMMA PageGap ==
  ASSUME NEW p \in Nat \ {0}, NEW k \in Int, NEW m \in Int, p * k < p * m + p
  PROVE  p * k <= p * m
<1>1. p * k < p * (m + 1)
  OBVIOUS
<1>2. CASE k >= m + 1
  <2>1. k - (m + 1) \in Nat
    BY <1>2
  <2>2. p * (k - (m + 1)) >= 0
    BY <2>1
  <2> QED
    BY <1>1, <2>2
<1>3. CASE k <= m
  <2>1. m - k \in Nat
    BY <1>3
  <2>2. p * (m - k) >= 0
    BY <2>1
  <2> QED
    BY <2>2
<1> QED
  BY <1>2, <1>3

\* Addresses closer than the range of adrp are at most that many bytes of pages apart.
LEMMA PagesInRange ==
  ASSUME NEW a \in Nat, NEW b \in Nat, InAdrpRange(a, b)
  PROVE  -AdrpRange <= PageOf(b) - PageOf(a) /\ PageOf(b) - PageOf(a) <= AdrpRange
<1> DEFINE p == PageSize
           i == a \div PageSize
           j == b \div PageSize
           m == AdrpRange \div PageSize
<1>1. p \in Nat \ {0} /\ i \in Int /\ j \in Int /\ m \in Int
  BY RangesPositive
<1>2. PageOf(a) = p * i /\ PageOf(b) = p * j /\ AdrpRange = p * m
  BY RangesPositive DEF PageOf
<1>3. p * (j - i) < p * m + p /\ p * (i - j) < p * m + p
  <2>1. PageOf(b) - PageOf(a) < AdrpRange + PageSize /\ PageOf(a) - PageOf(b) < AdrpRange + PageSize
    BY PageParts, RangesPositive DEF InAdrpRange, Distance
  <2> QED
    BY <1>1, <1>2, <2>1
<1>4. p * (j - i) <= p * m /\ p * (i - j) <= p * m
  <2> HIDE DEF p, i, j, m
  <2> QED
    BY <1>1, <1>3, PageGap
<1> QED
  BY <1>1, <1>2, <1>4

\* Near memory is in the reach it was asked for, over its whole length.
LEMMA NearInReach ==
  ASSUME NEW n \in Nat, NEW pos \in Nat, NEW range \in Nat \ {0}, NEW a \in NearMemory(n, pos, range)
  PROVE  a \in Nat /\ pos - range <= a /\ a + n <= pos + range
<1>1. PICK k \in 0..((2 * range) \div NearStep) : a = pos - range + k * NearStep
  BY DEF NearMemory
<1>2. (2 * range) \div NearStep \in Int
  BY RangesPositive
<1>3. k \in Nat /\ k * NearStep \in Nat
  BY <1>2, RangesPositive
<1>4. a > 0 /\ a + n <= pos + range
  BY DEF NearMemory
<1> QED
  BY <1>1, <1>3, <1>4

------------------------------------------------------------------------------
(* Where code goes that was made for a target. *)

\* b reaches what lies less than its range away.
LEMMA BranchFields ==
  ASSUME NEW from \in Nat, NEW to \in Nat, -BRange <= to - from, to - from < BRange
  PROVE  LET c == NearBranch(from, to)
         IN c.op = "b" /\ c.at = from /\ c.at + c.off = to
<1>1. Field(to - from, BRange) = to - from
  BY RangesPositive, FieldHolds
<1> QED
  BY <1>1 DEF NearBranch, Code

\* adrp and add reach a target in range, but for the last page.
LEMMA AdrpFields ==
  ASSUME NEW from \in Nat, NEW to \in Nat, InAdrpRange(from, to)
  PROVE  LET c == AdrpBranch(from, to)
         IN /\ c.op = "adrp" /\ c.at = from /\ c.size = 12
            /\ PageOf(c.at) + c.off + c.add = to <=> PageOf(to) - PageOf(from) # AdrpRange
<1> DEFINE d == PageOf(to) - PageOf(from)
           f == Field(d, AdrpRange)
           r == to % PageSize
<1>1. /\ AdrpRange \in Nat \ {0} /\ d \in Int /\ r \in Nat /\ PageOf(from) \in Int
      /\ PageOf(from) + d + r = to
  BY RangesPositive, PageParts
<1>2. -AdrpRange <= d /\ d <= AdrpRange
  BY PagesInRange
<1>3. f = IF d = AdrpRange THEN -AdrpRange ELSE d
  <2> HIDE DEF d
  <2> QED
    BY <1>1, <1>2, FieldHolds
<1>4. PageOf(from) + f + r = to <=> d # AdrpRange
  <2> HIDE DEF d, f, r
  <2> QED
    BY <1>1, <1>3
<1>5. LET c == AdrpBranch(from, to)
      IN c.op = "adrp" /\ c.at = from /\ c.size = 12 /\ c.off = f /\ c.add = r
  BY DEF AdrpBranch, Code
<1> QED
  BY <1>4, <1>5

\* The literals of arm, Thumb and arm64 are where the load reads them.
LEMMA LiteralFields ==
  ASSUME NEW from \in Nat, NEW to \in Nat
  PROVE  /\ LET c == LiteralLdrBranch(from, to)
            IN c.op = "ldr" /\ c.val = to /\ LoadAddress("arm", c) = c.at + c.lit
         /\ LET c == LiteralLdrBranch64(from, to)
            IN c.op = "ldr" /\ c.val = to /\ LoadAddress("a64", c) = c.at + c.lit
         /\ from % 2 = 0 =>
              LET c == generate_thumb_trampoline(from, to)
              IN c.op = "ldr" /\ c.val = to /\ LoadAddress("thumb", c) = c.at + c.lit
<1>1. LET c == LiteralLdrBranch(from, to)
      IN c.op = "ldr" /\ c.val = to /\ LoadAddress("arm", c) = c.at + c.lit
  BY DEF LiteralLdrBranch, Code, LoadAddress
<1>2. LET c == LiteralLdrBranch64(from, to)
      IN c.op = "ldr" /\ c.val = to /\ LoadAddress("a64", c) = c.at + c.lit
  BY DEF LiteralLdrBranch64, Code, LoadAddress
<1>3. ASSUME from % 2 = 0
      PROVE  LET c == generate_thumb_trampoline(from, to)
             IN c.op = "ldr" /\ c.val = to /\ LoadAddress("thumb", c) = c.at + c.lit
  <2> DEFINE c == generate_thumb_trampoline(from, to)
             nop == AlignThumbNop(from)
  <2>1. c.op = "ldr" /\ c.val = to /\ c.at = from /\ c.pos = nop /\ c.off = 0 /\ c.lit = nop + 4
    BY DEF generate_thumb_trampoline, Code
  <2>2. nop \in Nat /\ (from + nop) % 4 = 0
    BY <1>3 DEF AlignThumbNop
  <2>3. ((from + nop) + 4) % 4 = 0
    BY <2>2
  <2>4. LoadAddress("thumb", c) = from + nop + 4
    <3> HIDE DEF c, nop
    <3> QED
      BY <2>1, <2>2, <2>3 DEF LoadAddress
  <2> QED
    BY <2>1, <2>2, <2>4
<1> QED
  BY <1>1, <1>2, <1>3

\* jmp wraps around the address space of a 32 bit process.
LEMMA JmpFields ==
  ASSUME NEW from \in Nat, NEW to \in Nat, to < 2 * JmpRange
  PROVE  LET c == JmpNear(from, to)
         IN c.op = "jmp" /\ (c.at + 5 + c.off) % (2 * JmpRange) = to
<1> DEFINE w == 2 * JmpRange
           q == (to - (from + 5) + JmpRange) \div w
           f == Field(to - (from + 5), JmpRange)
<1>1. w \in Nat \ {0} /\ q \in Int /\ to < w
  BY RangesPositive
<1>2. f = to - (from + 5) - w * q
  BY RangesPositive DEF Field
<1>3. (from + 5 + f) % w = to
  <2> HIDE DEF w, q, f
  <2>1. from + 5 + f = to - w * q /\ w * q \in Int
    BY <1>1, <1>2
  <2>2. (to - w * q) % w = to
    BY <1>1
  <2> QED
    BY <2>1, <2>2
<1>4. LET c == JmpNear(from, to)
      IN c.op = "jmp" /\ c.at = from /\ c.off = f
  BY DEF JmpNear, Code
<1> QED
  BY <1>3, <1>4

\* The memory jmp_mem reads its target from is in the reach of its displacement.
LEMMA JmpMemFields ==
  ASSUME NEW from \in Nat, NEW a \in NearMemory(8, from + 6, JmpRange)
  PROVE  LET c == JmpNearIndirect(from, a)
         IN c.op = "jmp_mem" /\ c.at + 6 + c.off = a
<1>1. a \in Nat /\ -JmpRange <= a - (from + 6) /\ a - (from + 6) < JmpRange
  BY RangesPositive, NearInReach
<1>2. Field(a - (from + 6), JmpRange) = a - (from + 6)
  BY <1>1, RangesPositive, FieldHolds
<1> QED
  BY <1>1, <1>2 DEF JmpNearIndirect, Code

------------------------------------------------------------------------------
(* The steps. *)

\* Before the end there is no forward trampoline; one that is about to be written has its
\* memory in the reach of b, and its target in the reach of adrp when it uses that.
Prepared ==
  /\ step # "idle" => site \in Sites
  /\ step # "done" => forward = NoCode
  /\ step \in {"adrp", "mov", "mov2"} => site.arch = "a64"
  /\ step \in {"adrp", "mov2"} =>
       /\ block.addr \in Nat
       /\ site.src - BRange <= block.addr /\ block.addr < site.src + BRange
  /\ step = "adrp" => block.size = 12 /\ InAdrpRange(block.addr, site.dst)
  /\ step = "mov2" => block.size = 20

LEMMA SiteFields ==
  ASSUME NEW s \in Sites
  PROVE  /\ s.arch \in Archs /\ s.src \in Nat /\ s.dst \in Nat
         /\ s.arch = "thumb" => s.src % 2 = 1
         /\ s.arch = "ia32" => s.dst < 2 * JmpRange
  BY SiteAssumption

\* Near memory of the forward trampolines is in the reach of b.
LEMMA ForwardInReach ==
  ASSUME NEW s \in Sites, NEW n \in {12, 20}, NEW a \in NearMemory(n, s.src, BRange)
  PROVE  a \in Nat /\ s.src - BRange <= a /\ a < s.src + BRange
  BY SiteFields, RangesPositive, NearInReach

LEMMA StepPrepares ==
  ASSUME Prepared, TrampolineNext
  PROVE  Prepared'
<1>1. CASE dobby_enable_near_branch_trampoline \/ dobby_disable_near_branch_trampoline
  BY <1>1 DEF Prepared, dobby_enable_near_branch_trampoline, dobby_disable_near_branch_trampoline
<1>2. ASSUME NEW s \in Sites, InterceptRouting(s)
      PROVE  Prepared'
  BY <1>2 DEF InterceptRouting, Prepared
<1>3. CASE ForwardMemory
  <2>1. PICK a \in NearMemory(12, site.src, BRange) :
          /\ block' = [addr |-> a, size |-> 12]
          /\ step' = IF InAdrpRange(a, site.dst) THEN "adrp" ELSE "mov"
    BY <1>3 DEF ForwardMemory
  <2>2. site \in Sites /\ site.arch = "a64" /\ UNCHANGED <<site, forward>> /\ forward = NoCode
    BY <1>3 DEF ForwardMemory, Prepared
  <2>3. a \in Nat /\ site.src - BRange <= a /\ a < site.src + BRange
    BY <2>2, ForwardInReach
  <2> QED
    BY <2>1, <2>2, <2>3 DEF Prepared
<1>4. CASE ForwardMemoryAgain
  <2>1. PICK a \in NearMemory(20, site.src, BRange) : block' = [addr |-> a, size |-> 20]
    BY <1>4 DEF ForwardMemoryAgain
  <2>2. /\ site \in Sites /\ site.arch = "a64" /\ UNCHANGED <<site, forward>> /\ forward = NoCode
        /\ step' = "mov2"
    BY <1>4 DEF ForwardMemoryAgain, Prepared
  <2>3. a \in Nat /\ site.src - BRange <= a /\ a < site.src + BRange
    BY <2>2, ForwardInReach
  <2> QED
    BY <2>1, <2>2, <2>3 DEF Prepared
<1>5. CASE ReadPlugin \/ ReadPluginAgain \/ CallDeleted \/ NearNull \/ ForwardNull \/ NoStub
  BY <1>5 DEF ReadPlugin, ReadPluginAgain, CallDeleted, NearNull, ForwardNull, NoStub, Prepared
<1>6. CASE NearDirect \/ ForwardWritten \/ Normal \/ NormalX64
  BY <1>6 DEF NearDirect, ForwardWritten, Normal, NormalX64, Prepared
<1> QED
  BY <1>1, <1>2, <1>3, <1>4, <1>5, <1>6 DEF TrampolineNext, Generate

\* A single trampoline, without a forward one.
LEMMA Single ==
  ASSUME forward' = NoCode,
         (Target(site.arch, buffer) = site.dst <=>
            ~(buffer.op = "adrp" /\ PageOf(site.dst) - PageOf(buffer.at) = AdrpRange))'
  PROVE  TrampolineReaches'
  BY DEF TrampolineReaches, Reached, PastLastPage

LEMMA NearDirectReaches ==
  ASSUME Prepared, NearDirect
  PROVE  TrampolineReaches'
<1>1. /\ site \in Sites /\ forward' = NoCode /\ UNCHANGED site
      /\ buffer' = NearBranch(site.src, site.dst)
  BY DEF NearDirect, Prepared
<1>2. site.src \in Nat /\ site.dst \in Nat
  BY <1>1, SiteFields
<1>3. -BRange <= site.dst - site.src /\ site.dst - site.src < BRange
  BY <1>2, RangesPositive DEF NearDirect, InBranchRange, Distance
<1>4. buffer'.op = "b" /\ buffer'.at + buffer'.off = site.dst
  BY <1>1, <1>2, <1>3, BranchFields
<1>5. Target(site.arch, buffer)' = site.dst'
  BY <1>1, <1>4 DEF Target
<1> QED
  BY <1>1, <1>4, <1>5, Single

LEMMA ForwardReaches ==
  ASSUME Prepared, ForwardWritten
  PROVE  TrampolineReaches'
<1>1. /\ site \in Sites /\ UNCHANGED <<site, block>> /\ step \in {"adrp", "mov2"}
      /\ buffer' = NearBranch(site.src, block.addr)
      /\ block.addr \in Nat
      /\ site.src - BRange <= block.addr /\ block.addr < site.src + BRange
  BY DEF ForwardWritten, Prepared
<1>2. site.src \in Nat /\ site.dst \in Nat
  BY <1>1, SiteFields
<1>3. -BRange <= block.addr - site.src /\ block.addr - site.src < BRange
  BY <1>1, <1>2, RangesPositive
<1>4. buffer'.op = "b" /\ buffer'.at + buffer'.off = block.addr
  BY <1>1, <1>2, <1>3, BranchFields
<1>5. Target(site.arch, buffer)' = block.addr
  BY <1>4 DEF Target
<1>6. CASE step = "adrp"
  <2>1. forward' = AdrpBranch(block.addr, site.dst) /\ block.size = 12
    BY <1>6 DEF ForwardWritten, Prepared
  <2>2. /\ forward'.op = "adrp" /\ forward'.at = block.addr /\ forward'.size = 12
        /\ PageOf(forward'.at) + forward'.off + forward'.add = site.dst
             <=> PageOf(site.dst) - PageOf(block.addr) # AdrpRange
    BY <1>1, <1>2, <1>6, <2>1, AdrpFields DEF Prepared
  <2>3. forward' # NoCode
    BY <2>2 DEF NoCode, Code
  <2>4. Reached' = PageOf(forward'.at) + forward'.off + forward'.add
    BY <1>5, <2>2, <2>3 DEF Reached, Target
  <2>5. PastLastPage' <=> PageOf(site.dst) - PageOf(block.addr) = AdrpRange
    BY <1>1, <2>2, <2>3 DEF PastLastPage
  <2> QED
    BY <1>1, <2>1, <2>2, <2>4, <2>5 DEF TrampolineReaches
<1>7. CASE step = "mov2"
  <2>1. forward' = MovBranch(block.addr, site.dst) /\ block.size = 20
    BY <1>7 DEF ForwardWritten, Prepared
  <2>2. forward'.op = "mov" /\ forward'.at = block.addr /\ forward'.size = 20 /\ forward'.val = site.dst
    BY <2>1 DEF MovBranch, Code
  <2>3. forward' # NoCode
    BY <2>2 DEF NoCode, Code
  <2>4. Reached' = site.dst
    BY <1>5, <2>2, <2>3 DEF Reached, Target
  <2>5. ~PastLastPage'
    BY <2>2, <2>3 DEF PastLastPage
  <2> QED
    BY <1>1, <2>1, <2>2, <2>4, <2>5 DEF TrampolineReaches
<1> QED
  BY <1>1, <1>6, <1>7

LEMMA NormalReaches ==
  ASSUME Prepared, Normal
  PROVE  TrampolineReaches'
<1>1. /\ site \in Sites /\ UNCHANGED site /\ forward' = NoCode
      /\ buffer' = NormalBuffer(site) /\ site.arch # "x64"
  BY DEF Normal, Prepared
<1>2. /\ site.src \in Nat /\ site.dst \in Nat /\ site.arch \in Archs
      /\ site.arch = "thumb" => site.src % 2 = 1
      /\ site.arch = "ia32" => site.dst < 2 * JmpRange
  BY <1>1, SiteFields
<1>3. CASE site.arch = "arm"
  <2>1. buffer' = LiteralLdrBranch(site.src, site.dst)
    BY <1>1, <1>3 DEF NormalBuffer
  <2>2. /\ buffer'.op = "ldr" /\ buffer'.val = site.dst
        /\ LoadAddress("arm", buffer') = buffer'.at + buffer'.lit
    BY <1>2, <2>1, LiteralFields
  <2>3. Target(site.arch, buffer)' = site.dst'
    BY <1>1, <1>3, <2>2 DEF Target
  <2> QED
    BY <1>1, <2>2, <2>3, Single
<1>4. CASE site.arch = "thumb"
  <2>1. buffer' = generate_thumb_trampoline(site.src - 1, site.dst)
    BY <1>1, <1>4 DEF NormalBuffer
  <2>2. site.src - 1 \in Nat /\ (site.src - 1) % 2 = 0
    BY <1>2, <1>4
  <2>3. /\ buffer'.op = "ldr" /\ buffer'.val = site.dst
        /\ LoadAddress("thumb", buffer') = buffer'.at + buffer'.lit
    BY <1>2, <2>1, <2>2, LiteralFields
  <2>4. Target(site.arch, buffer)' = site.dst'
    BY <1>1, <1>4, <2>3 DEF Target
  <2> QED
    BY <1>1, <2>3, <2>4, Single
<1>5. CASE site.arch = "a64" /\ ~InAdrpRange(site.src, site.dst)
  <2>1. buffer' = LiteralLdrBranch64(site.src, site.dst)
    BY <1>1, <1>5 DEF NormalBuffer
  <2>2. /\ buffer'.op = "ldr" /\ buffer'.val = site.dst
        /\ LoadAddress("a64", buffer') = buffer'.at + buffer'.lit
    BY <1>2, <2>1, LiteralFields
  <2>3. Target(site.arch, buffer)' = site.dst'
    BY <1>1, <1>5, <2>2 DEF Target
  <2> QED
    BY <1>1, <2>2, <2>3, Single
<1>6. CASE site.arch = "a64" /\ InAdrpRange(site.src, site.dst)
  <2>1. buffer' = AdrpBranch(site.src, site.dst)
    BY <1>1, <1>6 DEF NormalBuffer
  <2>2. /\ buffer'.op = "adrp" /\ buffer'.at = site.src
        /\ PageOf(buffer'.at) + buffer'.off + buffer'.add = site.dst
             <=> PageOf(site.dst) - PageOf(site.src) # AdrpRange
    BY <1>2, <1>6, <2>1, AdrpFields
  <2>3. Target(site.arch, buffer)' = PageOf(buffer'.at) + buffer'.off + buffer'.add
    BY <2>2 DEF Target
  <2> QED
    BY <1>1, <2>2, <2>3, Single
<1>7. CASE site.arch = "ia32"
  <2>1. buffer' = JmpNear(site.src, site.dst)
    BY <1>1, <1>7 DEF NormalBuffer
  <2>2. buffer'.op = "jmp" /\ (buffer'.at + 5 + buffer'.off) % (2 * JmpRange) = site.dst
    BY <1>2, <1>7, <2>1, JmpFields
  <2>3. Target(site.arch, buffer)' = site.dst'
    BY <1>1, <2>2 DEF Target
  <2> QED
    BY <1>1, <2>2, <2>3, Single
<1> QED
  BY <1>1, <1>2, <1>3, <1>4, <1>5, <1>6, <1>7 DEF Archs

LEMMA NormalX64Reaches ==
  ASSUME Prepared, NormalX64
  PROVE  TrampolineReaches'
<1>1. site \in Sites /\ UNCHANGED site /\ forward' = NoCode
  BY DEF NormalX64, Prepared
<1>2. PICK a \in NearMemory(8, site.src + 6, JmpRange) :
        stub' = [addr |-> a, val |-> site.dst] /\ buffer' = JmpNearIndirect(site.src, a)
  BY DEF NormalX64
<1>3. buffer'.op = "jmp_mem" /\ buffer'.at + 6 + buffer'.off = a
  BY <1>1, <1>2, SiteFields, JmpMemFields
<1>4. Target(site.arch, buffer)' = site.dst'
  BY <1>1, <1>2, <1>3 DEF Target
<1> QED
  BY <1>1, <1>3, <1>4, Single

IndInv == Prepared /\ TrampolineReaches

LEMMA InitHolds == TrampolineInit => IndInv
  BY DEF TrampolineInit, IndInv, Prepared, TrampolineReaches

LEMMA NextHolds == IndInv /\ [TrampolineNext]_tvars => IndInv'
<1> SUFFICES ASSUME IndInv, [TrampolineNext]_tvars PROVE IndInv'
  OBVIOUS
<1>1. CASE UNCHANGED tvars
  BY <1>1 DEF IndInv, Prepared, TrampolineReaches, Reached, PastLastPage, Target, tvars
<1>2. ASSUME TrampolineNext
      PROVE  TrampolineReaches'
  <2>1. CASE dobby_enable_near_branch_trampoline \/ dobby_disable_near_branch_trampoline
    BY <2>1 DEF IndInv, TrampolineReaches, Reached, PastLastPage, Target,
       dobby_enable_near_branch_trampoline, dobby_disable_near_branch_trampoline
  <2>2. CASE NearDirect \/ ForwardWritten \/ Normal \/ NormalX64
    BY <2>2, NearDirectReaches, ForwardReaches, NormalReaches, NormalX64Reaches DEF IndInv
  <2>3. CASE step' # "done"
    BY <2>3 DEF TrampolineReaches
  <2>4. ASSUME Generate
        PROVE  step' # "done" \/ NearDirect \/ ForwardWritten \/ Normal \/ NormalX64
    BY <2>4 DEF Generate, ReadPlugin, ReadPluginAgain, CallDeleted, NearNull, ForwardMemory,
       ForwardMemoryAgain, ForwardNull, NoStub
  <2> QED
    BY <1>2, <2>1, <2>2, <2>3, <2>4 DEF TrampolineNext, InterceptRouting
<1> QED
  BY <1>1, <1>2, StepPrepares DEF IndInv

(***************************************************************************)
(* For every hook, range and near memory, and however the plugin is        *)
(* enabled and disabled meanwhile, a finished trampoline leads to the      *)
(* target of the hook, or the target is just one page beyond adrp.         *)
(***************************************************************************)
THEOREM TrampolinesReach == TrampolineSpec => []TrampolineReaches
<1>1. IndInv => TrampolineReaches
  BY DEF IndInv
<1> QED
  BY <1>1, InitHolds, NextHolds, PTL DEF TrampolineSpec
=============================================================================
