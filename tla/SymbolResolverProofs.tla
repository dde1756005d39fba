------------------------ MODULE SymbolResolverProofs ------------------------
(***************************************************************************)
(* Proofs about SymbolResolver for every set of libraries, addresses,      *)
(* mappings, files and symbols, while libraries are loaded and unloaded.   *)
(***************************************************************************)
EXTENDS SymbolResolver, FiniteSetTheorems, SequenceTheorems, TLAPS

\* elf_ctx_init finds the bias of every file: the one of its first PT_LOAD.
BiasFound ==
  \A l \in Libs : Files[l] # NoFile =>
    /\ FirstLoad(l) \in Int
    /\ load_bias(Files[l]) = FileMem - FirstLoad(l)

------------------------------------------------------------------------------
(* The inductive invariant.                                                 *)

Header(l, b) == [start |-> b, perm |-> "r-xp", elf |-> TRUE, path |-> l]
Data(l, b)   == [start |-> b + 1, perm |-> "rw-p", elf |-> FALSE, path |-> l]
Module(l, b) == [path |-> l, load_address |-> b]

LineSet   == Lines \cup {Header(l, b) : l \in Libs, b \in Bases}
                   \cup {Data(l, b) : l \in Libs, b \in Bases}
ModuleSet == [path : Libs, load_address : Bases]
CallSet   == [phase : {"idle", "scan", "parse", "rescan", "reparse", "search", "return", "fault"},
              image : Images \cup {NoImage}, symbol : Symbols, result : Nat, kept : SUBSET Libs]

Shape ==
  /\ loaded \in [Libs -> Bases \cup {0}]
  /\ ever \subseteq Libs \X Bases
  /\ unloads \subseteq ever
  /\ modules \in Seq(ModuleSet) /\ todo \in Seq(ModuleSet)
  /\ lines \in Seq(LineSet)
  /\ query \in CallSet

\* A library has an address of its own, which is remembered.
Loading ==
  /\ \A l \in Libs : loaded[l] # 0 => <<l, loaded[l]>> \in ever
  /\ \A k, l \in Libs : loaded[k] # 0 /\ loaded[k] = loaded[l] => k = l

\* What has been found was loaded.
Found == \A m \in Range(modules) \cup Range(todo) : <<m.path, m.load_address>> \in ever

\* A header in a line is in memory or was unloaded since the maps were read.
LinesKnown ==
  /\ ~Phase("parse") /\ ~Phase("reparse") /\ ~Phase("fault") => lines = <<>>
  /\ \A l \in Libs, b \in Bases :
       Header(l, b) \in Range(lines) =>
         <<l, b>> \in ever /\ (loaded[l] = b \/ <<l, b>> \in unloads)

\* What becomes of a library that stays loaded.
Seen ==
  \A l \in query.kept :
    /\ loaded[l] # 0
    /\ Phase("parse") \/ Phase("reparse") =>
         Header(l, loaded[l]) \in Range(lines) \/ Module(l, loaded[l]) \in Range(modules)
    /\ Phase("search") =>
         Module(l, loaded[l]) \in Range(todo) \/ Defined(l, query.symbol) = 0
    /\ Phase("return") /\ query.result = 0 => Defined(l, query.symbol) = 0

Answer ==
  IF Phase("return") THEN query.result # 0 => query.result \in Places(ever, query.symbol)
  ELSE query.result = 0

FaultExplained == Phase("fault") => lines # <<>> /\ \E u \in unloads : u[2] = Head(lines).start

IndInv == Shape /\ Loading /\ Found /\ LinesKnown /\ Seen /\ Answer /\ FaultExplained

------------------------------------------------------------------------------
(* Sets, sequences and ranks.                                               *)

LEMMA SmallestExists ==
  ASSUME NEW S \in SUBSET Nat, S # {}
  PROVE  \E x \in S : \A y \in S : x <= y
<1> DEFINE T == {0..n : n \in S}
<1>1. T \subseteq FiniteSubsetsOf(Nat) /\ T # {}
  <2>1. \A n \in S : IsFiniteSet(0..n) /\ 0..n \subseteq Nat
    BY FS_Interval
  <2> QED
    BY <2>1 DEF FiniteSubsetsOf
<1>2. \E x \in T : \A y \in T : ~(<<y, x>> \in StrictSubsetOrdering(Nat))
  <2> HIDE DEF T
  <2> QED
    BY <1>1, FS_StrictSubsetOrderingWellFounded, WFMin
<1>3. PICK x \in S : \A y \in S : <<0..y, 0..x>> \notin StrictSubsetOrdering(Nat)
  BY <1>2
<1>4. ASSUME NEW y \in S, y < x
      PROVE  FALSE
  <2>1. x \in 0..x /\ x \notin 0..y
    BY <1>4
  <2>2. 0..y \subseteq 0..x /\ 0..y \subseteq Nat /\ 0..x \subseteq Nat
    BY <1>4
  <2> QED
    BY <1>3, <2>1, <2>2 DEF StrictSubsetOrdering
<1> QED
  BY <1>4

\* The loop over the program headers: after i of them the bias is known if one of them was
\* PT_LOAD or PT_PHDR, and is that of the first PT_LOAD.
THEOREM BiasIsFound == BiasFound
<1> SUFFICES ASSUME NEW l \in Libs, Files[l] # NoFile
             PROVE  FirstLoad(l) \in Int /\ load_bias(Files[l]) = FileMem - FirstLoad(l)
  BY DEF BiasFound
<1> DEFINE f == Files[l]
           ph == f.phdrs
           n == Len(ph)
           d == FirstLoad(l)
           loads == {i \in DOMAIN ph : ph[i].type = "PT_LOAD"}
           first == Min(loads)
           Known(i) == \E j \in 1..i : ph[j].type \in {"PT_LOAD", "PT_PHDR"}
           value(i) == IF Known(i) THEN FileMem - d ELSE 0
           step(b, i) == CASE ph[i].type = "PT_LOAD" /\ b = 0 -> FileMem - (ph[i].vaddr - ph[i].offset)
                           [] ph[i].type = "PT_PHDR"          -> FileMem + f.phoff - ph[i].vaddr
                           [] OTHER                           -> b
           Loop(g) == g = [i \in 0..n |-> IF i = 0 THEN 0 ELSE step(g[i - 1], i)]
<1>1. /\ f.phoff \in Nat /\ ph \in Seq([type : STRING, vaddr : Nat, offset : Nat])
      /\ loads # {} /\ d # FileMem
      /\ \A i \in DOMAIN ph : ph[i].type = "PT_PHDR" => ph[i].vaddr - f.phoff = d
  BY HeadersAssumption
<1>2. n \in Nat /\ DOMAIN ph = 1..n /\ \A i \in 1..n : ph[i].vaddr \in Nat /\ ph[i].offset \in Nat
  <2> DEFINE R == [type : STRING, vaddr : Nat, offset : Nat]
  <2>1. \A r \in R : r.vaddr \in Nat /\ r.offset \in Nat
    OBVIOUS
  <2>2. ph \in Seq(R)
    BY <1>1
  <2> HIDE DEF R, ph
  <2>3. n \in Nat /\ DOMAIN ph = 1..n /\ \A i \in 1..n : ph[i] \in R
    BY <2>2
  <2> QED
    BY <2>1, <2>3
<1>3. first \in loads /\ \A i \in loads : first <= i
  <2>1. loads \in SUBSET Nat
    BY <1>2
  <2> HIDE DEF loads
  <2> QED
    BY <1>1, <2>1, SmallestExists DEF Min
<1>4. d = ph[first].vaddr - ph[first].offset /\ first \in 1..n /\ ph[first].type = "PT_LOAD"
  BY <1>2, <1>3 DEF FirstLoad
<1>5. d \in Int /\ FileMem \in Int
  <2> HIDE DEF d, first, n, ph
  <2>1. ph[first].vaddr \in Nat /\ ph[first].offset \in Nat
    BY <1>2, <1>4
  <2> QED
    BY <1>4, <2>1 DEF FileMem
<1>6. load_bias(f) = (CHOOSE g : Loop(g))[n]
  BY DEF load_bias
<1> HIDE DEF d, first, n
<1>7. ASSUME NEW i \in 1..n
      PROVE  step(value(i - 1), i) = value(i)
  <2>1. i - 1 \in Nat /\ 1..i = 1..(i - 1) \cup {i} /\ i \in DOMAIN ph
    BY <1>2
  <2>2. Known(i) <=> Known(i - 1) \/ ph[i].type \in {"PT_LOAD", "PT_PHDR"}
    BY <2>1
  <2>3. ph[i].type = "PT_LOAD" /\ ~Known(i - 1) => i = first
    <3> SUFFICES ASSUME ph[i].type = "PT_LOAD", ~Known(i - 1) PROVE i = first
      OBVIOUS
    <3>1. first <= i
      BY <1>3, <2>1
    <3>2. ~(first \in 1..(i - 1))
      BY <1>4
    <3> QED
      BY <1>4, <3>1, <3>2
  <2>4. ph[i].type = "PT_PHDR" => FileMem + f.phoff - ph[i].vaddr = FileMem - d
    <3>1. ph[i].vaddr \in Nat /\ f.phoff \in Nat /\ d \in Int /\ FileMem \in Int
      BY <1>1, <1>2, <1>5
    <3>2. ph[i].type = "PT_PHDR" => ph[i].vaddr - f.phoff = d
      BY <1>1, <2>1
    <3> HIDE DEF ph, f
    <3> QED
      BY <3>1, <3>2
  <2>5. value(i - 1) = 0 <=> ~Known(i - 1)
    <3>1. FileMem - d # 0
      <4>1. d # FileMem
        BY <1>1
      <4> QED
        BY <1>5, <4>1
    <3> HIDE DEF Known
    <3> QED
      BY <3>1
  <2>6. CASE Known(i - 1)
    <3>1. Known(i) /\ value(i - 1) = FileMem - d /\ value(i) = FileMem - d /\ value(i - 1) # 0
      BY <2>2, <2>5, <2>6
    <3> HIDE DEF Known, value
    <3> QED
      BY <2>4, <3>1
  <2>7. CASE ~Known(i - 1)
    <3>1. value(i - 1) = 0
      BY <2>7
    <3>2. CASE ph[i].type = "PT_LOAD"
      <4>1. step(value(i - 1), i) = FileMem - d
        BY <1>4, <2>3, <2>7, <3>1, <3>2
      <4>2. value(i) = FileMem - d
        BY <2>2, <3>2
      <4> QED
        BY <4>1, <4>2
    <3>3. CASE ph[i].type = "PT_PHDR"
      <4>1. step(value(i - 1), i) = FileMem - d
        BY <2>4, <3>3
      <4>2. value(i) = FileMem - d
        BY <2>2, <3>3
      <4> QED
        BY <4>1, <4>2
    <3>4. CASE ph[i].type \notin {"PT_LOAD", "PT_PHDR"}
      <4>1. step(value(i - 1), i) = 0
        BY <3>1, <3>4
      <4>2. value(i) = 0
        BY <2>2, <2>7, <3>4
      <4> QED
        BY <4>1, <4>2
    <3> QED
      BY <3>2, <3>3, <3>4
  <2> QED
    BY <2>6, <2>7
<1>8. value(0) = 0 /\ value(n) = FileMem - d
  BY <1>4
<1> HIDE DEF Known, value, step
<1>9. \E g : Loop(g)
  <2> DEFINE g == [i \in 0..n |-> value(i)]
  <2>1. ASSUME NEW i \in 0..n
        PROVE  value(i) = IF i = 0 THEN 0 ELSE step(g[i - 1], i)
    <3>1. CASE i = 0
      BY <1>8, <3>1
    <3>2. CASE i # 0
      <4>1. i \in 1..n /\ i - 1 \in 0..n
        BY <1>2, <3>2
      <4>2. g[i - 1] = value(i - 1)
        BY <4>1
      <4> QED
        BY <1>7, <3>2, <4>1, <4>2
    <3> QED
      BY <3>1, <3>2
  <2>2. Loop(g)
    BY <2>1
  <2> QED
    BY <2>2
<1>10. PICK g : Loop(g) /\ load_bias(f) = g[n]
  <2> HIDE DEF Loop
  <2> QED
    BY <1>6, <1>9
<1>11. g[0] = 0 /\ \A i \in 1..n : g[i] = step(g[i - 1], i)
  BY <1>2, <1>10
<1>12. g[n] = value(n)
  <2> DEFINE bad == {i \in 0..n : g[i] # value(i)}
  <2>1. CASE bad = {}
    BY <1>2, <2>1
  <2>2. CASE bad # {}
    <3>1. PICK i \in bad : \A j \in bad : i <= j
      <4>1. bad \in SUBSET Nat
        BY <1>2
      <4> HIDE DEF bad
      <4> QED
        BY <2>2, <4>1, SmallestExists
    <3>2. i \in 1..n
      BY <1>2, <1>8, <1>11, <3>1
    <3>3. i - 1 \in 0..n /\ ~(i <= i - 1)
      BY <1>2, <3>2
    <3>4. g[i - 1] = value(i - 1)
      BY <3>1, <3>3
    <3> QED
      BY <1>7, <1>11, <3>1, <3>2, <3>4
  <2> QED
    BY <2>1, <2>2
<1> QED
  BY <1>5, <1>8, <1>10, <1>12 DEF d

LEMMA HeadTail ==
  ASSUME NEW S, NEW s \in Seq(S), s # <<>>
  PROVE  /\ Head(s) \in S /\ Tail(s) \in Seq(S)
         /\ Range(s) = {Head(s)} \cup Range(Tail(s))
<1>1. Len(s) \in Nat \ {0} /\ DOMAIN s = 1..Len(s) /\ Head(s) = s[1]
  BY EmptySeq
<1>2. /\ Tail(s) \in Seq(S) /\ Len(Tail(s)) = Len(s) - 1 /\ DOMAIN Tail(s) = 1..(Len(s) - 1)
      /\ \A i \in 1..(Len(s) - 1) : Tail(s)[i] = s[i + 1]
  BY <1>1
<1>3. \A i \in 2..Len(s) : s[i] = Tail(s)[i - 1] /\ i - 1 \in 1..(Len(s) - 1)
  BY <1>1, <1>2
<1>4. ASSUME NEW x \in Range(s) PROVE x = Head(s) \/ x \in Range(Tail(s))
  <2>1. PICK i \in 1..Len(s) : x = s[i]
    BY <1>1 DEF Range
  <2>2. CASE i = 1
    BY <1>1, <2>1, <2>2
  <2>3. CASE i # 1
    <3>1. i \in 2..Len(s)
      BY <2>3
    <3> QED
      BY <1>2, <1>3, <2>1, <3>1 DEF Range
  <2> QED
    BY <2>2, <2>3
<1>5. ASSUME NEW x \in Range(Tail(s)) PROVE x \in Range(s)
  <2>1. PICK i \in 1..(Len(s) - 1) : x = s[i + 1]
    BY <1>2 DEF Range
  <2>2. i + 1 \in DOMAIN s
    BY <1>1
  <2> QED
    BY <2>1, <2>2 DEF Range
<1>6. Head(s) \in Range(s)
  BY <1>1 DEF Range
<1>7. Head(s) \in S
  BY <1>1
<1> QED
  BY <1>2, <1>4, <1>5, <1>6, <1>7

LEMMA RangeAppend ==
  ASSUME NEW S, NEW s \in Seq(S), NEW e \in S
  PROVE  Append(s, e) \in Seq(S) /\ Range(Append(s, e)) = Range(s) \cup {e}
<1>1. /\ Append(s, e) \in Seq(S) /\ DOMAIN Append(s, e) = 1..(Len(s) + 1)
      /\ DOMAIN s = 1..Len(s) /\ Len(s) \in Nat
      /\ \A i \in 1..Len(s) : Append(s, e)[i] = s[i]
      /\ Append(s, e)[Len(s) + 1] = e
  OBVIOUS
<1> QED
  BY <1>1 DEF Range

LEMMA RangeType ==
  ASSUME NEW S, NEW s \in Seq(S)
  PROVE  Range(s) \subseteq S
<1>1. \A i \in DOMAIN s : s[i] \in S
  OBVIOUS
<1> QED
  BY <1>1 DEF Range

LEMMA RangeEmpty == Range(<<>>) = {}
  BY DEF Range

------------------------------------------------------------------------------
(* The maps.                                                                *)

LEMMA MappedIs ==
  Mapped = Lines \cup {Header(l, loaded[l]) : l \in {k \in Libs : loaded[k] # 0}}
                 \cup {Data(l, loaded[l]) : l \in {k \in Libs : loaded[k] # 0}}
  BY DEF Mapped, Header, Data

\* The mappings are finitely many, and no two have one address.
LEMMA MappedFacts ==
  ASSUME Shape, Loading
  PROVE  /\ IsFiniteSet(Mapped) /\ Mapped # {} /\ Mapped \subseteq LineSet
         /\ \A m \in Mapped : m.start \in Nat
         /\ \A m, n \in Mapped : m.start = n.start => m = n
<1> DEFINE L == {k \in Libs : loaded[k] # 0}
           H == {Header(l, loaded[l]) : l \in L}
           D == {Data(l, loaded[l]) : l \in L}
<1>1. Mapped = Lines \cup H \cup D
  BY MappedIs
<1>2. IsFiniteSet(L)
  BY LibsAssumption, FS_Subset
<1>3. IsFiniteSet(H)
  <2> DEFINE f == [l \in L |-> Header(l, loaded[l])]
  <2>1. f \in Surjection(L, H)
    BY DEF Surjection
  <2> HIDE DEF f, H, L
  <2> QED
    BY <1>2, <2>1, FS_Surjection
<1>4. IsFiniteSet(D)
  <2> DEFINE f == [l \in L |-> Data(l, loaded[l])]
  <2>1. f \in Surjection(L, D)
    BY DEF Surjection
  <2> HIDE DEF f, D, L
  <2> QED
    BY <1>2, <2>1, FS_Surjection
<1>5. IsFiniteSet(Mapped)
  <2> HIDE DEF H, D
  <2>1. IsFiniteSet(Lines \cup H)
    BY <1>3, LinesAssumption, FS_Union
  <2> QED
    BY <1>1, <1>4, <2>1, FS_Union
<1>6. \A l \in L : l \in Libs /\ loaded[l] \in Bases /\ loaded[l] \in Nat
  BY LibsAssumption DEF Shape
<1>7. Mapped \subseteq LineSet
  BY <1>1, <1>6 DEF LineSet
<1>8. \A m \in H : \E l \in L : m = Header(l, loaded[l]) /\ m.start = loaded[l]
  BY DEF Header
<1>9. \A m \in D : \E l \in L : m = Data(l, loaded[l]) /\ m.start = loaded[l] + 1
  BY DEF Data
<1>10. \A k, l \in L : loaded[k] = loaded[l] => k = l
  BY DEF Loading
<1>11. \A m \in Mapped : m.start \in Nat
  <2> HIDE DEF H, D, L
  <2> QED
    BY <1>1, <1>6, <1>8, <1>9, LinesAssumption
<1>12. ASSUME NEW m \in Mapped, NEW n \in Mapped, m.start = n.start
       PROVE  m = n
  <2> HIDE DEF H, D, L
  <2>1. CASE m \in Lines /\ n \in Lines
    BY <2>1, <1>12, LinesAssumption
  <2>2. CASE m \in Lines /\ n \notin Lines
    BY <2>2, <1>1, <1>6, <1>8, <1>9, <1>12, LinesAssumption
  <2>3. CASE m \notin Lines /\ n \in Lines
    BY <2>3, <1>1, <1>6, <1>8, <1>9, <1>12, LinesAssumption
  <2>4. CASE m \in H /\ n \in H
    BY <2>4, <1>8, <1>10, <1>12
  <2>5. CASE m \in D /\ n \in D
    BY <2>5, <1>6, <1>9, <1>10, <1>12
  <2>6. CASE m \in H /\ n \in D
    BY <2>6, <1>6, <1>8, <1>9, <1>12, LinesAssumption
  <2>7. CASE m \in D /\ n \in H
    BY <2>7, <1>6, <1>8, <1>9, <1>12, LinesAssumption
  <2> QED
    BY <1>1, <2>1, <2>2, <2>3, <2>4, <2>5, <2>6, <2>7
<1>13. Mapped # {}
  BY <1>1, LinesAssumption
<1> QED
  BY <1>5, <1>7, <1>11, <1>12, <1>13

\* The k-th line is the mapping with k lower ones.
LEMMA RankFacts ==
  ASSUME NEW M, IsFiniteSet(M), M # {}, \A m \in M : m.start \in Nat,
         \A m, n \in M : m.start = n.start => m = n
  PROVE  LET rank == [m \in M |-> Cardinality({n \in M : n.start < m.start}) + 1] IN
         rank \in Bijection(M, 1..Cardinality(M))
<1> DEFINE low(m) == {n \in M : n.start < m.start}
           rank == [m \in M |-> Cardinality(low(m)) + 1]
           N == Cardinality(M)
<1>1. N \in Nat
  BY FS_CardinalityType
<1>2. ASSUME NEW m \in M
      PROVE  IsFiniteSet(low(m)) /\ Cardinality(low(m)) \in 0..(N - 1)
  <2>1. low(m) \in SUBSET M /\ m \notin low(m)
    OBVIOUS
  <2> HIDE DEF low
  <2>2. IsFiniteSet(low(m)) /\ Cardinality(low(m)) <= N /\ Cardinality(low(m)) # N
    BY <2>1, FS_Subset
  <2>3. Cardinality(low(m)) \in Nat
    BY <2>2, FS_CardinalityType
  <2> QED
    BY <1>1, <2>2, <2>3
<1>3. ASSUME NEW m \in M, NEW n \in M, m.start < n.start
      PROVE  Cardinality(low(m)) # Cardinality(low(n))
  <2>1. m.start \in Nat /\ n.start \in Nat
    OBVIOUS
  <2>2. low(m) \in SUBSET low(n)
    BY <1>3
  <2>3. m \in low(n) /\ m \notin low(m)
    BY <1>3, <2>1
  <2> HIDE DEF low
  <2> QED
    BY <1>2, <2>2, <2>3, FS_Subset
<1>4. rank \in Injection(M, 1..N)
  <2> HIDE DEF low
  <2>1. rank \in [M -> 1..N]
    BY <1>1, <1>2
  <2>2. ASSUME NEW m \in M, NEW n \in M, rank[m] = rank[n]
        PROVE  m = n
    <3>1. Cardinality(low(m)) = Cardinality(low(n))
      BY <1>2, <2>2
    <3>2. m.start \in Nat /\ n.start \in Nat
      OBVIOUS
    <3> QED
      BY <1>3, <3>1, <3>2
  <2> QED
    BY <2>1, <2>2 DEF Injection, IsInjective
<1>5. IsFiniteSet(1..N) /\ Cardinality(1..N) = N
  BY <1>1, FS_Interval
<1>6. rank \in Surjection(M, 1..N)
  <2> HIDE DEF rank
  <2> QED
    BY <1>4, <1>5, FS_Injection
<1> QED
  BY <1>4, <1>6 DEF Bijection

\* Every mapping is read.
LEMMA MapsComplete ==
  ASSUME Shape, Loading
  PROVE  MapsRead \in Seq(LineSet) /\ Range(MapsRead) = Mapped
<1> DEFINE N == Cardinality(Mapped)
           rank == [m \in Mapped |-> Cardinality({n \in Mapped : n.start < m.start}) + 1]
<1>1. /\ IsFiniteSet(Mapped) /\ Mapped # {} /\ Mapped \subseteq LineSet
      /\ \A m \in Mapped : m.start \in Nat
      /\ \A m, n \in Mapped : m.start = n.start => m = n
  BY MappedFacts
<1>2. rank \in Bijection(Mapped, 1..N)
  BY <1>1, RankFacts
<1>3. N \in Nat \ {0}
  BY <1>1, FS_CardinalityType, FS_EmptySet
<1>4. \A m \in Mapped : Cardinality({n \in Mapped : n.start < m.start}) \in Nat
  <2>1. ASSUME NEW m \in Mapped PROVE Cardinality({n \in Mapped : n.start < m.start}) \in Nat
    <3>1. {n \in Mapped : n.start < m.start} \in SUBSET Mapped
      OBVIOUS
    <3>2. IsFiniteSet({n \in Mapped : n.start < m.start})
      BY <1>1, <3>1, FS_Subset
    <3> QED
      BY <3>2, FS_CardinalityType
  <2> QED
    BY <2>1
<1>5. \A m \in Mapped, i \in 1..N :
        Cardinality({n \in Mapped : n.start < m.start}) = i - 1 <=> rank[m] = i
  BY <1>4
<1>6. \A i \in 1..N : \E m \in Mapped : rank[m] = i
  BY <1>2 DEF Bijection, Surjection
<1>7. \A m \in Mapped : rank[m] \in 1..N
  BY <1>2 DEF Bijection, Injection
<1>8. \A m, n \in Mapped : rank[m] = rank[n] => m = n
  BY <1>2 DEF Bijection, Injection, IsInjective
<1>9. Maps = [i \in 1..N |-> CHOOSE m \in Mapped :
                               Cardinality({n \in Mapped : n.start < m.start}) = i - 1]
  BY DEF Maps
<1>10. ASSUME NEW i \in 1..N
       PROVE  Maps[i] \in Mapped /\ rank[Maps[i]] = i
  <2> HIDE DEF rank, N
  <2>1. Maps[i] = CHOOSE m \in Mapped : Cardinality({n \in Mapped : n.start < m.start}) = i - 1
    BY <1>9
  <2>2. \E m \in Mapped : Cardinality({n \in Mapped : n.start < m.start}) = i - 1
    BY <1>5, <1>6
  <2>3. Maps[i] \in Mapped /\ Cardinality({n \in Mapped : n.start < Maps[i].start}) = i - 1
    BY <2>1, <2>2
  <2> QED
    BY <1>5, <2>3
<1> HIDE DEF rank
<1>11. Maps \in [1..N -> Mapped]
  <2> DEFINE g(i) == CHOOSE m \in Mapped : Cardinality({n \in Mapped : n.start < m.start}) = i - 1
  <2>2. Maps = [i \in 1..N |-> g(i)]
    BY <1>9
  <2> HIDE DEF N, g
  <2>1. DOMAIN Maps = 1..N /\ Maps = [i \in 1..N |-> Maps[i]]
    BY <2>2
  <2> QED
    BY <1>10, <2>1
<1>12. \A m \in Mapped : m = Maps[rank[m]]
  BY <1>7, <1>8, <1>10
<1> HIDE DEF N
<1>13. Maps \in Seq(Mapped) /\ Len(Maps) = N /\ DOMAIN Maps = 1..N
  BY <1>3, <1>11
<1>14. Range(Maps) = Mapped
  BY <1>7, <1>11, <1>12, <1>13 DEF Range
<1>15. Last(Maps) \in Mapped
  BY <1>3, <1>11, <1>13 DEF Last
<1>16. MapsRead = Append(Maps, Last(Maps))
  BY <1>13, <1>15, AppendIsConcat DEF MapsRead
<1>17. MapsRead \in Seq(Mapped) /\ Range(MapsRead) = Mapped
  <2>1. /\ Append(Maps, Last(Maps)) \in Seq(Mapped)
        /\ Range(Append(Maps, Last(Maps))) = Range(Maps) \cup {Last(Maps)}
    BY <1>13, <1>15, RangeAppend
  <2> QED
    BY <1>14, <1>15, <1>16, <2>1
<1>18. MapsRead \in Seq(LineSet)
  BY <1>1, <1>17
<1> QED
  BY <1>17, <1>18

------------------------------------------------------------------------------
(* Symbols.                                                                 *)

\* A module of the list is searched to the address its symbol has there.
LEMMA LookupFacts ==
  ASSUME NEW m \in ModuleSet, NEW s \in Symbols
  PROVE  /\ Lookup(m, s) \in Nat
         /\ Lookup(m, s) = 0 <=> Defined(m.path, s) = 0
         /\ Lookup(m, s) # 0 => Lookup(m, s) = TrueAddress(m.path, m.load_address, Defined(m.path, s))
<1> DEFINE f == Files[m.path]
           v == elf_ctx_iterate_symbol_table(f, s)
           b == m.load_address
<1>1. m.path \in Libs /\ b \in Bases /\ b \in Nat /\ b # 0
  BY LibsAssumption DEF ModuleSet
<1>2. CASE f = NoFile
  <2>1. Lookup(m, s) = 0 /\ Defined(m.path, s) = 0
    BY <1>2 DEF Lookup, Defined
  <2> QED
    BY <2>1
<1>3. CASE f # NoFile
  <2>1. Defined(m.path, s) = v
    BY <1>3 DEF Defined
  <2>2. CASE v = 0
    <3>1. Lookup(m, s) = 0
      BY <2>2 DEF Lookup
    <3> QED
      BY <2>1, <2>2, <3>1
  <2>3. CASE v # 0
    <3>1. v \in Nat /\ TrueAddress(m.path, b, v) \in Nat \ {0}
      BY <1>1, <1>3, <2>3, FilesAssumption
    <3>2. FirstLoad(m.path) \in Int /\ load_bias(f) = FileMem - FirstLoad(m.path)
      BY <1>1, <1>3, BiasIsFound DEF BiasFound
    <3>3. Lookup(m, s) = v + b - (FileMem - load_bias(f))
      BY <1>1, <1>3, <2>3 DEF Lookup
    <3>4. Lookup(m, s) = TrueAddress(m.path, b, v)
      <4> HIDE DEF v, f, b
      <4> QED
        BY <1>1, <3>1, <3>2, <3>3 DEF TrueAddress, FileMem
    <3> QED
      BY <2>1, <2>3, <3>1, <3>4
  <2> QED
    BY <2>2, <2>3
<1> QED
  BY <1>2, <1>3

LEMMA PlacesGrow ==
  ASSUME NEW P, NEW Q, P \subseteq Q, NEW s
  PROVE  Places(P, s) \subseteq Places(Q, s)
  BY DEF Places

LEMMA InPlaces ==
  ASSUME NEW P, NEW l, NEW b, <<l, b>> \in P, NEW s, Defined(l, s) # 0
  PROVE  TrueAddress(l, b, Defined(l, s)) \in Places(P, s)
  BY DEF Places

LEMMA SameFile ==
  ASSUME NEW m \in ModuleSet, NEW l, NEW b, m = Module(l, b)
  PROVE  m.path = l /\ m.load_address = b
  BY DEF Module

\* A step of the resolver that only moves it on.
LEMMA GotoFacts ==
  ASSUME Shape, NEW p, query' = [query EXCEPT !.phase = p]
  PROVE  /\ query'.phase = p /\ query'.image = query.image /\ query'.symbol = query.symbol
         /\ query'.result = query.result /\ query'.kept = query.kept
         /\ p \in {"idle", "scan", "parse", "rescan", "reparse", "search", "return", "fault"} =>
              query' \in CallSet
  BY DEF Shape, CallSet

------------------------------------------------------------------------------
(* The dynamic linker.                                                      *)

LEMMA DlopenStep ==
  ASSUME IndInv, NEW l \in Libs, NEW base \in Bases, dlopen(l, base)
  PROVE  IndInv'
<1>0. Shape /\ Loading /\ Found /\ LinesKnown /\ Seen /\ Answer
  BY DEF IndInv
<1>1. /\ loaded[l] = 0 /\ \A k \in Libs : loaded[k] # base
      /\ loaded' = [loaded EXCEPT ![l] = base]
      /\ ever' = ever \cup {<<l, base>>}
      /\ unloads' = unloads /\ modules' = modules /\ lines' = lines /\ todo' = todo /\ query' = query
      /\ ~Phase("fault")
  BY DEF dlopen
<1>2. loaded \in [Libs -> Bases \cup {0}] /\ base # 0 /\ base \in Nat
  BY <1>0, LibsAssumption DEF Shape
<1>3. /\ loaded'[l] = base /\ \A k \in Libs : k # l => loaded'[k] = loaded[k]
      /\ loaded' \in [Libs -> Bases \cup {0}]
  BY <1>1, <1>2
<1>4. Shape'
  BY <1>0, <1>1, <1>3 DEF Shape
<1>5. Loading'
  BY <1>0, <1>1, <1>2, <1>3 DEF Loading
<1>6. Found'
  BY <1>0, <1>1 DEF Found
<1>7. LinesKnown'
  <2>1. ASSUME NEW k \in Libs, NEW b \in Bases, Header(k, b) \in Range(lines)
        PROVE  <<k, b>> \in ever' /\ (loaded'[k] = b \/ <<k, b>> \in unloads')
    <3>1. <<k, b>> \in ever /\ (loaded[k] = b \/ <<k, b>> \in unloads) /\ b # 0
      BY <1>0, <2>1, LibsAssumption DEF LinesKnown
    <3> QED
      BY <1>1, <1>3, <3>1
  <2> QED
    BY <1>0, <1>1, <2>1 DEF LinesKnown, Phase, Header
<1>8. Seen'
  <2>1. \A k \in query.kept : k \in Libs /\ k # l /\ loaded'[k] = loaded[k]
    BY <1>0, <1>1, <1>3 DEF Seen, Shape, CallSet
  <2> QED
    BY <1>0, <1>1, <2>1 DEF Seen, Phase
<1>9. Answer'
  <2>1. Places(ever, query.symbol) \subseteq Places(ever', query.symbol)
    BY <1>1, PlacesGrow
  <2>2. query'.symbol = query.symbol
    BY <1>1
  <2>3. Places(ever', query.symbol) = Places(ever, query.symbol)'
    BY <1>1 DEF Places, Defined
  <2> QED
    BY <1>0, <1>1, <2>1, <2>3 DEF Answer, Phase
<1>10. FaultExplained'
  BY <1>1 DEF FaultExplained, Phase
<1> QED
  BY <1>4, <1>5, <1>6, <1>7, <1>8, <1>9, <1>10 DEF IndInv

LEMMA DlcloseStep ==
  ASSUME IndInv, NEW l \in Libs, dlclose(l)
  PROVE  IndInv'
<1>0. Shape /\ Loading /\ Found /\ LinesKnown /\ Seen /\ Answer
  BY DEF IndInv
<1>1. /\ loaded[l] # 0
      /\ loaded' = [loaded EXCEPT ![l] = 0]
      /\ unloads' = unloads \cup {<<l, loaded[l]>>}
      /\ ever' = ever /\ modules' = modules /\ lines' = lines /\ todo' = todo
      /\ ~Phase("fault")
  BY DEF dlclose
<1>2. /\ query'.phase = query.phase /\ query'.symbol = query.symbol /\ query'.result = query.result
      /\ query'.kept = query.kept \ {l} /\ query' \in CallSet
  BY <1>0 DEF dlclose, Shape, CallSet
<1>3. /\ loaded'[l] = 0 /\ \A k \in Libs : k # l => loaded'[k] = loaded[k]
      /\ loaded' \in [Libs -> Bases \cup {0}]
  BY <1>0, <1>1 DEF Shape
<1>4. Shape'
  BY <1>0, <1>1, <1>2, <1>3 DEF Shape, Loading
<1>5. Loading'
  BY <1>0, <1>1, <1>3 DEF Loading
<1>6. Found'
  BY <1>0, <1>1 DEF Found
<1>7. LinesKnown'
  <2>1. ASSUME NEW k \in Libs, NEW b \in Bases, Header(k, b) \in Range(lines)
        PROVE  <<k, b>> \in ever' /\ (loaded'[k] = b \/ <<k, b>> \in unloads')
    <3>1. <<k, b>> \in ever /\ (loaded[k] = b \/ <<k, b>> \in unloads)
      BY <1>0, <2>1 DEF LinesKnown
    <3> QED
      BY <1>1, <1>3, <3>1
  <2> QED
    BY <1>0, <1>1, <1>2, <2>1 DEF LinesKnown, Phase, Header
<1>8. Seen'
  <2>1. \A k \in query'.kept : k \in Libs /\ k \in query.kept /\ loaded'[k] = loaded[k]
    BY <1>0, <1>2, <1>3 DEF Shape, CallSet
  <2> QED
    BY <1>0, <1>1, <1>2, <2>1 DEF Seen, Phase, Defined
<1>9. Answer'
  BY <1>0, <1>1, <1>2 DEF Answer, Phase, Places, Defined
<1>10. FaultExplained'
  BY <1>1, <1>2 DEF FaultExplained, Phase
<1> QED
  BY <1>4, <1>5, <1>6, <1>7, <1>8, <1>9, <1>10 DEF IndInv

------------------------------------------------------------------------------
(* The resolver.                                                            *)

\* What dlsym finds is a symbol's address, and not 0.
LEMMA DlsymFacts ==
  ASSUME Shape, Loading, NEW s \in Symbols, NEW a \in dlsym(s)
  PROVE  a \in Nat \ {0} /\ a \in Places(ever, s)
<1> DEFINE d(l) == iterate_symbol_table_impl(s, Section(Files[l], "SHT_DYNSYM"))
<1>1. PICK l \in Global : /\ loaded[l] # 0 /\ Files[l] # NoFile /\ d(l) # 0
                          /\ a = TrueAddress(l, loaded[l], d(l))
  BY DEF dlsym
<1>2. l \in Libs /\ loaded[l] \in Bases
  BY <1>1, LibsAssumption DEF Shape
<1>3. d(l) = elf_ctx_iterate_symbol_table(Files[l], s)
  BY <1>1, <1>2, FilesAssumption
<1>4. Defined(l, s) = d(l)
  BY <1>1, <1>3 DEF Defined
<1>5. a \in Nat \ {0}
  BY <1>1, <1>2, <1>3, FilesAssumption
<1>6. <<l, loaded[l]>> \in ever
  BY <1>1, <1>2 DEF Loading
<1>7. a \in Places(ever, s)
  <2> HIDE DEF d
  <2> QED
    BY <1>1, <1>4, <1>6, InPlaces
<1> QED
  BY <1>5, <1>7

LEMMA IdleFacts ==
  /\ Idle \in CallSet
  /\ Idle.phase = "idle" /\ Idle.result = 0 /\ Idle.kept = {}
<1>1. PICK y \in Symbols : y = CHOOSE x \in Symbols : TRUE
  BY LibsAssumption
<1>2. Idle = [phase |-> "idle", image |-> NoImage, symbol |-> y, result |-> 0, kept |-> {}]
  BY <1>1, Zenon DEF Idle
<1> QED
  BY <1>2 DEF CallSet

LEMMA CallStep ==
  ASSUME IndInv, NEW image \in Images, NEW symbol \in Symbols, DobbySymbolResolver(image, symbol)
  PROVE  IndInv'
<1> DEFINE kept == {l \in Libs : loaded[l] # 0}
<1>0. Shape /\ Loading /\ Found /\ LinesKnown
  BY DEF IndInv
<1>1. /\ loaded' = loaded /\ ever' = ever /\ unloads' = {} /\ modules' = modules
      /\ lines' = lines /\ todo' = todo /\ Phase("idle")
  BY DEF DobbySymbolResolver
<1>2. lines = <<>>
  BY <1>0, <1>1 DEF LinesKnown, Phase
<1>3. /\ query' \in CallSet /\ query'.symbol = symbol /\ query'.kept = kept
      /\ \/ query'.phase = "return" /\ query'.result \in dlsym(symbol)
         \/ query'.phase \in {"scan", "rescan"} /\ query'.result = 0
  <2> DEFINE new == [Idle EXCEPT !.image = image, !.symbol = symbol, !.kept = kept]
  <2>0. kept \in SUBSET Libs
    OBVIOUS
  <2> HIDE DEF kept
  <2>1. new \in CallSet /\ new.symbol = symbol /\ new.kept = kept /\ new.result = 0
    BY <2>0, IdleFacts DEF CallSet
  <2> HIDE DEF new
  <2>2. CASE dlsym(symbol) # {}
    <3>1. PICK a \in dlsym(symbol) : query' = [new EXCEPT !.phase = "return", !.result = a]
      BY <2>2 DEF DobbySymbolResolver, new, kept
    <3>2. a \in Nat
      BY <1>0, DlsymFacts
    <3> QED
      BY <2>1, <3>1, <3>2 DEF CallSet
  <2>3. CASE dlsym(symbol) = {}
    <3>1. PICK p \in {"scan", "rescan"} : query' = [new EXCEPT !.phase = p]
      BY <2>3 DEF DobbySymbolResolver, new, kept
    <3> QED
      BY <2>1, <3>1 DEF CallSet
  <2> QED
    BY <2>2, <2>3
<1>4. Shape'
  BY <1>0, <1>1, <1>3 DEF Shape
<1>5. Loading' /\ Found'
  BY <1>0, <1>1 DEF Loading, Found
<1>6. LinesKnown'
  BY <1>1, <1>2, RangeEmpty DEF LinesKnown, Header
<1>7. query'.phase = "return" => query'.result # 0 /\ query'.result \in Places(ever, symbol)
  BY <1>0, <1>3, DlsymFacts
<1>8. Seen'
  BY <1>1, <1>3, <1>7 DEF Seen, Phase
<1>9. Answer'
  BY <1>1, <1>3, <1>7 DEF Answer, Phase, Places, Defined
<1>10. FaultExplained'
  BY <1>3 DEF FaultExplained, Phase
<1> QED
  BY <1>4, <1>5, <1>6, <1>8, <1>9, <1>10 DEF IndInv

\* A library that is loaded has its header in the maps.
LEMMA OpenStep ==
  ASSUME IndInv, OpenMaps
  PROVE  IndInv'
<1>0. Shape /\ Loading /\ Found /\ Seen /\ Answer
  BY DEF IndInv
<1>1. /\ loaded' = loaded /\ ever' = ever /\ unloads' = {} /\ modules' = modules
      /\ lines' = MapsRead /\ todo' = todo /\ query.phase \in {"scan", "rescan"}
  BY DEF OpenMaps, Phase
<1>2. /\ query'.phase \in {"parse", "reparse"} /\ query'.symbol = query.symbol
      /\ query'.result = query.result /\ query'.kept = query.kept /\ query' \in CallSet
  <2>1. PICK p \in {"parse", "reparse"} : query' = [query EXCEPT !.phase = p]
    BY DEF OpenMaps, Goto, Phase
  <2> QED
    BY <1>0, <2>1, GotoFacts
<1>3. MapsRead \in Seq(LineSet) /\ Range(MapsRead) = Mapped
  BY <1>0, MapsComplete
<1>4. Shape'
  BY <1>0, <1>1, <1>2, <1>3 DEF Shape
<1>5. Loading' /\ Found'
  BY <1>0, <1>1 DEF Loading, Found
<1>6. LinesKnown'
  <2>1. ASSUME NEW l \in Libs, NEW b \in Bases, Header(l, b) \in Mapped
        PROVE  <<l, b>> \in ever /\ loaded[l] = b
    <3>1. Header(l, b).path = l /\ Header(l, b).start = b /\ Header(l, b).elf
      BY DEF Header
    <3>2. Header(l, b) \notin Lines
      BY <3>1, LinesAssumption
    <3>3. \A k, c : Header(l, b) = Header(k, c) => l = k /\ b = c
      BY DEF Header
    <3>4. \A k, c : Header(l, b) # Data(k, c)
      BY DEF Header, Data
    <3>5. loaded[l] = b /\ loaded[l] # 0
      BY <2>1, <3>2, <3>3, <3>4, MappedIs
    <3> QED
      BY <1>0, <3>5 DEF Loading
  <2> QED
    BY <1>1, <1>2, <1>3, <2>1 DEF LinesKnown, Phase, Header
<1>7. Seen'
  <2>1. \A l \in query.kept : l \in Libs /\ loaded[l] # 0
    BY <1>0 DEF Seen, Shape, CallSet
  <2>2. \A l \in query.kept : Header(l, loaded[l]) \in Mapped
    BY <2>1, MappedIs
  <2> QED
    BY <1>1, <1>2, <1>3, <2>1, <2>2 DEF Seen, Phase
<1>8. Answer' /\ FaultExplained'
  BY <1>0, <1>1, <1>2 DEF Answer, FaultExplained, Phase
<1> QED
  BY <1>4, <1>5, <1>6, <1>7, <1>8 DEF IndInv

LEMMA OpenFailsStep ==
  ASSUME IndInv, OpenMapsFails
  PROVE  IndInv'
<1>0. Shape /\ Loading /\ Found /\ Answer
  BY DEF IndInv
<1>1. /\ loaded' = loaded /\ ever' = ever /\ unloads' = unloads /\ modules' = modules
      /\ lines' = <<>> /\ todo' = todo /\ query.phase \in {"scan", "rescan"}
  BY DEF OpenMapsFails, Phase
<1>2. /\ query'.phase \in {"parse", "reparse"} /\ query'.symbol = query.symbol
      /\ query'.result = query.result /\ query'.kept = {} /\ query' \in CallSet
  BY <1>0 DEF OpenMapsFails, Phase, Shape, CallSet
<1>3. Shape'
  BY <1>0, <1>1, <1>2 DEF Shape
<1>4. Loading' /\ Found'
  BY <1>0, <1>1 DEF Loading, Found
<1>5. LinesKnown'
  BY <1>1, <1>2, RangeEmpty DEF LinesKnown, Phase, Header
<1>6. Seen'
  BY <1>2 DEF Seen
<1>7. Answer' /\ FaultExplained'
  BY <1>0, <1>1, <1>2 DEF Answer, FaultExplained, Phase
<1> QED
  BY <1>3, <1>4, <1>5, <1>6, <1>7 DEF IndInv

\* The kinds of lines.
LEMMA LineKinds ==
  ASSUME NEW m \in LineSet
  PROVE  \/ m \in Lines /\ m.path \notin Libs
         \/ \E l \in Libs, b \in Bases : m = Header(l, b) /\ m.start = b /\ m.path = l
         \/ m.perm = "rw-p"
<1>1. CASE m \in Lines
  BY <1>1, LinesAssumption
<1>2. CASE \E l \in Libs, b \in Bases : m = Header(l, b)
  <2>1. PICK l \in Libs, b \in Bases : m = Header(l, b)
    BY <1>2
  <2>2. m.start = b /\ m.path = l
    BY <2>1 DEF Header
  <2> QED
    BY <2>1, <2>2
<1>3. CASE \E l \in Libs, b \in Bases : m = Data(l, b)
  BY <1>3 DEF Data
<1> QED
  BY <1>1, <1>2, <1>3 DEF LineSet

\* A line with something readable behind it: the header of a library that stays loaded is
\* added to the list.
LEMMA ParseStep ==
  ASSUME IndInv, ParseLine
  PROVE  IndInv'
<1> DEFINE l == Head(lines)
           read == l.perm \in {"r--p", "r-xp"}
<1>0. Shape /\ Loading /\ Found /\ LinesKnown /\ Seen /\ Answer /\ lines \in Seq(LineSet)
  BY DEF IndInv, Shape
<1>1. /\ loaded' = loaded /\ ever' = ever /\ unloads' = unloads /\ todo' = todo
      /\ query.phase \in {"parse", "reparse"} /\ lines # <<>>
  BY DEF ParseLine, Parsing, Phase
<1>2. /\ l \in LineSet /\ Tail(lines) \in Seq(LineSet)
      /\ Range(lines) = {l} \cup Range(Tail(lines))
  BY <1>0, <1>1, HeadTail
<1>3. Loading'
  BY <1>0, <1>1 DEF Loading
<1> HIDE DEF l
<1>4. CASE read /\ HeaderAt(l.start) = {} /\ Goto("fault") /\ UNCHANGED <<modules, lines>>
  <2>1. /\ query'.phase = "fault" /\ query'.symbol = query.symbol /\ query'.result = query.result
        /\ query'.kept = query.kept /\ query' \in CallSet
    BY <1>0, <1>4, GotoFacts DEF Goto
  <2>2. l \notin Mapped
    BY <1>4 DEF HeaderAt
  <2>3. l \notin Lines
    BY <2>2, MappedIs
  <2>4. PICK k \in Libs, b \in Bases : l = Header(k, b) /\ l.start = b
    BY <1>2, <1>4, <2>3, LineKinds
  <2>5. loaded[k] # b
    BY <2>2, <2>4, MappedIs, LibsAssumption
  <2>6. <<k, b>> \in unloads
    BY <1>0, <1>2, <2>4, <2>5 DEF LinesKnown
  <2>7. FaultExplained'
    BY <1>1, <1>4, <2>4, <2>6 DEF FaultExplained, l
  <2>8. Shape' /\ Found' /\ Answer'
    BY <1>0, <1>1, <1>4, <2>1 DEF Shape, Found, Answer, Phase
  <2>9. LinesKnown'
    BY <1>0, <1>1, <1>4, <2>1 DEF LinesKnown, Phase, Header
  <2>10. Seen'
    BY <1>0, <1>1, <1>4, <2>1 DEF Seen, Phase
  <2> QED
    BY <1>3, <2>7, <2>8, <2>9, <2>10 DEF IndInv
<1>5. CASE /\ read /\ l.path \in Libs
           /\ modules' = Append(modules, Module(l.path, l.start))
           /\ lines' = Tail(lines) /\ UNCHANGED query
  <2>1. PICK k \in Libs, b \in Bases : l = Header(k, b) /\ l.start = b /\ l.path = k
    BY <1>2, <1>5, LineKinds
  <2>2. <<k, b>> \in ever
    BY <1>0, <1>2, <2>1 DEF LinesKnown
  <2>3. Module(k, b) \in ModuleSet /\ Module(k, b).path = k /\ Module(k, b).load_address = b
    BY DEF Module, ModuleSet
  <2>4. modules' \in Seq(ModuleSet) /\ Range(modules') = Range(modules) \cup {Module(k, b)}
    BY <1>0, <1>5, <2>1, <2>3, RangeAppend DEF Shape
  <2>5. Shape'
    BY <1>0, <1>1, <1>2, <1>5, <2>4 DEF Shape
  <2>6. Found'
    BY <1>0, <1>1, <2>2, <2>3, <2>4 DEF Found
  <2>7. LinesKnown'
    BY <1>0, <1>1, <1>2, <1>5 DEF LinesKnown, Phase, Header
  <2>8. Seen'
    <3>1. ASSUME NEW n \in query.kept
          PROVE  Header(n, loaded[n]) \in Range(lines') \/ Module(n, loaded[n]) \in Range(modules')
      <4>1. CASE Header(n, loaded[n]) = l
        <5>1. n = k /\ loaded[n] = b
          BY <2>1, <4>1 DEF Header
        <5> QED
          BY <2>4, <5>1
      <4>2. CASE Header(n, loaded[n]) # l
        BY <1>0, <1>1, <1>2, <1>5, <2>4, <4>2 DEF Seen, Phase
      <4> QED
        BY <4>1, <4>2
    <3> QED
      BY <1>0, <1>1, <1>5, <3>1 DEF Seen, Phase
  <2>9. Answer' /\ FaultExplained'
    BY <1>0, <1>1, <1>5 DEF Answer, FaultExplained, Phase
  <2> QED
    BY <1>3, <2>5, <2>6, <2>7, <2>8, <2>9 DEF IndInv
<1>6. CASE /\ read => ~(TRUE \in HeaderAt(l.start) /\ l.path \in Libs)
           /\ lines' = Tail(lines) /\ UNCHANGED <<modules, query>>
  <2>1. Shape' /\ Found' /\ Answer' /\ FaultExplained'
    BY <1>0, <1>1, <1>2, <1>6 DEF Shape, Found, Answer, FaultExplained, Phase
  <2>2. LinesKnown'
    BY <1>0, <1>1, <1>2, <1>6 DEF LinesKnown, Phase, Header
  <2>3. ASSUME NEW n \in query.kept
        PROVE  Header(n, loaded[n]) # l
    <3> SUFFICES ASSUME Header(n, loaded[n]) = l PROVE FALSE
      OBVIOUS
    <3>1. n \in Libs /\ loaded[n] # 0
      BY <1>0 DEF Seen, Shape, CallSet
    <3>2. Header(n, loaded[n]) \in Mapped
      BY <3>1, MappedIs
    <3>3. l.perm = "r-xp" /\ l.start = loaded[n] /\ l.path = n /\ l.elf = TRUE
      BY DEF Header
    <3>4. TRUE \in HeaderAt(l.start)
      BY <3>2, <3>3 DEF HeaderAt
    <3> QED
      BY <1>6, <3>1, <3>3, <3>4
  <2>4. Seen'
    BY <1>0, <1>1, <1>2, <1>6, <2>3 DEF Seen, Phase
  <2> QED
    BY <1>3, <2>1, <2>2, <2>4 DEF IndInv
<1> QED
  BY <1>4, <1>5, <1>6 DEF ParseLine, Module, l

\* The index of the first module of the image.
LEMMA SelectFacts ==
  ASSUME Shape
  PROVE  SelectInSeq(modules, LAMBDA m : m.path \in Matches(query.image)) \in {0} \cup DOMAIN modules
<1> DEFINE I == {i \in 1..Len(modules) : modules[i].path \in Matches(query.image)}
<1>1. Len(modules) \in Nat /\ DOMAIN modules = 1..Len(modules)
  BY DEF Shape
<1>2. SelectInSeq(modules, LAMBDA m : m.path \in Matches(query.image)) = IF I # {} THEN Min(I) ELSE 0
  BY DEF SelectInSeq
<1>3. I \in SUBSET Nat /\ I \subseteq 1..Len(modules)
  BY <1>1
<1> HIDE DEF I
<1>4. I # {} => Min(I) \in I
  BY <1>3, SmallestExists DEF Min
<1> QED
  BY <1>1, <1>2, <1>3, <1>4

LEMMA ImageStep ==
  ASSUME IndInv, SearchImage
  PROVE  IndInv'
<1> DEFINE i == SelectInSeq(modules, LAMBDA m : m.path \in Matches(query.image))
           a == IF i = 0 THEN 0 ELSE Lookup(modules[i], query.symbol)
<1>0. Shape /\ Loading /\ Found /\ LinesKnown /\ Seen /\ query.symbol \in Symbols
  BY DEF IndInv, Shape, CallSet
<1>1. /\ loaded' = loaded /\ ever' = ever /\ unloads' = unloads /\ modules' = modules
      /\ todo' = todo /\ lines' = lines /\ lines = <<>>
      /\ query' = [query EXCEPT !.phase = IF a = 0 THEN "rescan" ELSE "return", !.result = a]
  BY DEF SearchImage
<1>2. i \in {0} \cup DOMAIN modules
  BY <1>0, SelectFacts
<1> HIDE DEF i
<1>3. a \in Nat /\ (a # 0 => a \in Places(ever, query.symbol))
  <2>1. CASE i = 0
    BY <2>1
  <2>2. CASE i # 0
    <3>1. modules[i] \in ModuleSet /\ modules[i] \in Range(modules)
      BY <1>0, <1>2, <2>2 DEF Shape, Range
    <3>2. <<modules[i].path, modules[i].load_address>> \in ever
      BY <1>0, <3>1 DEF Found
    <3> QED
      BY <1>0, <2>2, <3>1, <3>2, LookupFacts, InPlaces
  <2> QED
    BY <2>1, <2>2
<1> HIDE DEF a
<1>4. /\ query' \in CallSet /\ query'.symbol = query.symbol /\ query'.kept = query.kept
      /\ query'.result = a /\ query'.phase = IF a = 0 THEN "rescan" ELSE "return"
  BY <1>0, <1>1, <1>3 DEF Shape, CallSet
<1>5. Shape' /\ Loading' /\ Found'
  BY <1>0, <1>1, <1>4 DEF Shape, Loading, Found
<1>6. LinesKnown'
  BY <1>1, RangeEmpty DEF LinesKnown, Header
<1>7. Seen'
  BY <1>0, <1>1, <1>4 DEF Seen, Phase
<1>8. Answer' /\ FaultExplained'
  <2>1. Places(ever, query.symbol)' = Places(ever, query.symbol)
    BY <1>1, <1>4 DEF Places, Defined
  <2> QED
    BY <1>3, <1>4, <2>1 DEF Answer, FaultExplained, Phase
<1> QED
  BY <1>5, <1>6, <1>7, <1>8 DEF IndInv

LEMMA AllStep ==
  ASSUME IndInv, SearchAll
  PROVE  IndInv'
<1>0. Shape /\ Loading /\ Found /\ LinesKnown /\ Seen /\ Answer
  BY DEF IndInv
<1>1. /\ loaded' = loaded /\ ever' = ever /\ unloads' = unloads /\ modules' = modules
      /\ todo' = modules /\ lines' = lines /\ lines = <<>> /\ query.phase = "reparse"
  BY DEF SearchAll, Phase
<1>2. /\ query'.phase = "search" /\ query'.symbol = query.symbol /\ query'.result = query.result
      /\ query'.kept = query.kept /\ query' \in CallSet
  BY <1>0, GotoFacts DEF SearchAll, Goto
<1>3. Shape' /\ Loading' /\ Found'
  BY <1>0, <1>1, <1>2 DEF Shape, Loading, Found
<1>4. LinesKnown'
  BY <1>1, RangeEmpty DEF LinesKnown, Header
<1>5. Seen'
  BY <1>0, <1>1, <1>2, RangeEmpty DEF Seen, Phase
<1>6. Answer' /\ FaultExplained'
  BY <1>0, <1>1, <1>2 DEF Answer, FaultExplained, Phase
<1> QED
  BY <1>3, <1>4, <1>5, <1>6 DEF IndInv

\* One module is searched: its symbol, or it has none.
LEMMA ModuleStep ==
  ASSUME IndInv, SearchModule
  PROVE  IndInv'
<1> DEFINE m == Head(todo)
           a == Lookup(m, query.symbol)
<1>0. /\ Shape /\ Loading /\ Found /\ LinesKnown /\ Seen /\ Answer
      /\ query.symbol \in Symbols /\ todo \in Seq(ModuleSet)
  BY DEF IndInv, Shape, CallSet
<1>1. /\ loaded' = loaded /\ ever' = ever /\ unloads' = unloads /\ modules' = modules
      /\ todo' = Tail(todo) /\ lines' = lines /\ query.phase = "search" /\ todo # <<>>
      /\ query' = IF a = 0 THEN query ELSE [query EXCEPT !.phase = "return", !.result = a]
  BY DEF SearchModule, Phase
<1>2. /\ m \in ModuleSet /\ Tail(todo) \in Seq(ModuleSet)
      /\ Range(todo) = {m} \cup Range(Tail(todo))
  BY <1>0, <1>1, HeadTail
<1> HIDE DEF m
<1>3. /\ a \in Nat /\ (a = 0 <=> Defined(m.path, query.symbol) = 0)
      /\ a # 0 => a = TrueAddress(m.path, m.load_address, Defined(m.path, query.symbol))
  BY <1>0, <1>2, LookupFacts
<1>4. a # 0 => a \in Places(ever, query.symbol)
  <2>1. <<m.path, m.load_address>> \in ever
    BY <1>0, <1>2 DEF Found
  <2> QED
    BY <1>3, <2>1, InPlaces
<1>5. lines = <<>>
  BY <1>0, <1>1 DEF LinesKnown, Phase
<1> HIDE DEF a
<1>6. /\ query' \in CallSet /\ query'.symbol = query.symbol /\ query'.kept = query.kept
      /\ query'.result = IF a = 0 THEN query.result ELSE a
      /\ query'.phase = IF a = 0 THEN "search" ELSE "return"
  BY <1>0, <1>1, <1>3 DEF Shape, CallSet
<1>7. Shape' /\ Loading' /\ Found'
  BY <1>0, <1>1, <1>2, <1>6 DEF Shape, Loading, Found
<1>8. LinesKnown'
  BY <1>1, <1>5, RangeEmpty DEF LinesKnown, Header
<1>9. Seen'
  <2>1. ASSUME NEW n \in query.kept, a = 0
        PROVE  Module(n, loaded[n]) \in Range(Tail(todo)) \/ Defined(n, query.symbol) = 0
    <3>1. CASE Module(n, loaded[n]) = m
      <4>1. m.path = n
        BY <3>1 DEF Module
      <4> QED
        BY <1>3, <2>1, <4>1
    <3>2. CASE Module(n, loaded[n]) # m
      BY <1>0, <1>1, <1>2, <3>2 DEF Seen, Phase
    <3> QED
      BY <3>1, <3>2
  <2> QED
    BY <1>0, <1>1, <1>6, <2>1 DEF Seen, Phase, Defined
<1>10. Answer' /\ FaultExplained'
  <2>1. Places(ever, query.symbol)' = Places(ever, query.symbol)
    BY <1>1, <1>6 DEF Places, Defined
  <2> QED
    BY <1>0, <1>1, <1>4, <1>6, <2>1 DEF Answer, FaultExplained, Phase
<1> QED
  BY <1>7, <1>8, <1>9, <1>10 DEF IndInv

LEMMA EndsStep ==
  ASSUME IndInv, SearchEnds
  PROVE  IndInv'
<1>0. Shape /\ Loading /\ Found /\ LinesKnown /\ Seen /\ Answer
  BY DEF IndInv
<1>1. /\ loaded' = loaded /\ ever' = ever /\ unloads' = unloads /\ modules' = modules
      /\ todo' = todo /\ lines' = lines /\ query.phase = "search" /\ todo = <<>>
  BY DEF SearchEnds, Phase
<1>2. /\ query'.phase = "return" /\ query'.symbol = query.symbol /\ query'.result = query.result
      /\ query'.kept = query.kept /\ query' \in CallSet
  BY <1>0, GotoFacts DEF SearchEnds, Goto
<1>3. lines = <<>>
  BY <1>0, <1>1 DEF LinesKnown, Phase
<1>4. Shape' /\ Loading' /\ Found'
  BY <1>0, <1>1, <1>2 DEF Shape, Loading, Found
<1>5. LinesKnown'
  BY <1>1, <1>3, RangeEmpty DEF LinesKnown, Header
<1>6. Seen'
  BY <1>0, <1>1, <1>2, RangeEmpty DEF Seen, Phase, Defined
<1>7. Answer' /\ FaultExplained'
  BY <1>0, <1>1, <1>2 DEF Answer, FaultExplained, Phase
<1> QED
  BY <1>4, <1>5, <1>6, <1>7 DEF IndInv

LEMMA ReturnStep ==
  ASSUME IndInv, Return
  PROVE  IndInv'
<1>0. Shape /\ Loading /\ Found /\ LinesKnown
  BY DEF IndInv
<1>1. /\ loaded' = loaded /\ ever' = ever /\ unloads' = unloads /\ modules' = modules
      /\ todo' = <<>> /\ lines' = lines /\ query.phase = "return" /\ query' = Idle
  BY DEF Return, Phase
<1>2. query' \in CallSet /\ query'.phase = "idle" /\ query'.result = 0 /\ query'.kept = {}
  BY <1>1, IdleFacts
<1>3. lines = <<>>
  BY <1>0, <1>1 DEF LinesKnown, Phase
<1>4. Shape' /\ Loading' /\ Found'
  BY <1>0, <1>1, <1>2, RangeEmpty DEF Shape, Loading, Found
<1>5. LinesKnown'
  BY <1>1, <1>3, RangeEmpty DEF LinesKnown, Header
<1>6. Seen' /\ Answer' /\ FaultExplained'
  BY <1>2 DEF Seen, Answer, FaultExplained, Phase
<1> QED
  BY <1>4, <1>5, <1>6 DEF IndInv

------------------------------------------------------------------------------
(* The invariant holds.                                                     *)

LEMMA InitHolds == ResolverInit => IndInv
<1> SUFFICES ASSUME ResolverInit PROVE IndInv
  OBVIOUS
<1>1. query \in CallSet /\ query.phase = "idle" /\ query.result = 0 /\ query.kept = {}
  BY IdleFacts DEF ResolverInit
<1>2. Shape /\ Loading /\ Found /\ LinesKnown
  BY <1>1, RangeEmpty DEF ResolverInit, Shape, Loading, Found, LinesKnown
<1>3. Seen /\ Answer /\ FaultExplained
  BY <1>1 DEF Seen, Answer, FaultExplained, Phase
<1> QED
  BY <1>2, <1>3 DEF IndInv

LEMMA NextHolds ==
  ASSUME IndInv, [ResolverNext]_resolverVars
  PROVE  IndInv'
<1>1. CASE UNCHANGED resolverVars
  BY <1>1 DEF resolverVars, IndInv, Shape, Loading, Found, LinesKnown, Seen, Answer, FaultExplained, Phase,
     Places, Defined, Header, Module
<1>2. CASE ResolverNext
  BY <1>2, DlopenStep, DlcloseStep, CallStep, OpenStep, OpenFailsStep, ParseStep, ImageStep, AllStep,
     ModuleStep, EndsStep, ReturnStep DEF ResolverNext, Resolver
<1> QED
  BY <1>1, <1>2

LEMMA IndInvHolds == ResolverSpec => []IndInv
<1>1. IndInv /\ [ResolverNext]_resolverVars => IndInv'
  BY NextHolds
<1> QED
  BY <1>1, InitHolds, PTL DEF ResolverSpec

\* The static list of GetProcessModuleMap holds libraries and addresses of their headers
\* whatever is loaded and unloaded between and during the calls, and results are addresses.
THEOREM TypeCorrect == ResolverSpec => []ResolverTypeOK
<1>1. IndInv => ResolverTypeOK
  BY DEF IndInv, Shape, ResolverTypeOK, ModuleSet, CallSet
<1> QED
  BY <1>1, IndInvHolds, PTL

\* A result of DobbySymbolResolver is the symbol's address in a library that is or was
\* loaded there.
THEOREM ResultsAreDefined == ResolverSpec => []ResolvedDefined
<1>1. IndInv => ResolvedDefined
  BY DEF IndInv, Answer, ResolvedDefined
<1> QED
  BY <1>1, IndInvHolds, PTL

\* A symbol of a library that is loaded all through the call is found, and reading a header
\* faults only where a library was unloaded after the maps were read.
THEOREM FailuresHaveCauses == ResolverSpec => []NothingMissed
<1>1. IndInv => NothingMissed
  BY DEF IndInv, Seen, FaultExplained, NothingMissed
<1> QED
  BY <1>1, IndInvHolds, PTL
=============================================================================
