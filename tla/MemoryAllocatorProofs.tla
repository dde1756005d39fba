------------------------ MODULE MemoryAllocatorProofs ------------------------
(***************************************************************************)
(* Proofs about MemoryAllocator for every page size, address space, layout *)
(* of the process, set of requests and reach.                              *)
(***************************************************************************)
EXTENDS MemoryAllocator, SequenceTheorems, TLAPS

\* What arenas look like whether or not mmap kept its part.
Cursors ==
  \A i \in DOMAIN arenas :
    /\ arenas[i].size >= 1
    /\ arenas[i].addr <= arenas[i].cursor
    /\ arenas[i].cursor <= arenas[i].addr + arenas[i].size

\* A block lies below the cursor of its arena, which is of the right kind.
BlocksInArenas ==
  \A k \in DOMAIN blocks :
    /\ arenas[blocks[k].arena].addr <= blocks[k].addr
    /\ blocks[k].addr + blocks[k].size <= arenas[blocks[k].arena].cursor
    /\ blocks[k].want = "exec" => arenas[blocks[k].arena].kind = "code"
    /\ blocks[k].want = "data" /\ blocks[k].near => arenas[blocks[k].arena].kind = "data"

\* The search of a near call in progress found memory within reach.
CallInReach ==
  call.on => /\ Room
             /\ call.size \in Nat \ {0}
             /\ call.pos - SearchRange <= call.mem
             /\ call.mem + call.size <= call.pos + SearchRange

Access(kind) == IF kind = "code" THEN "rx" ELSE "rw"

\* Every byte of an arena is mapped with the access of its kind.
ArenasMapped ==
  Intact => \A i \in DOMAIN arenas :
              \A x \in Span(arenas[i].addr, arenas[i].size) :
                x \in Addr /\ owner[x] = Access(arenas[i].kind)

ArenasDisjoint ==
  Intact => \A i, j \in DOMAIN arenas :
              i # j => Apart(arenas[i].addr, arenas[i].size, arenas[j].addr, arenas[j].size)

ArenaSet == [kind : {"code", "data"}, addr : Addr, size : Nat, cursor : Nat]
BlockSet == [arena : Nat, addr : Nat, size : Nat \ {0},
             want : {"exec", "data"}, near : BOOLEAN, pos : Addr]

Shape    == TypeOK /\ Cursors /\ BlocksInArenas /\ CallInReach /\ NearInReach
IndInv   == Shape /\ ArenasMapped /\ ArenasDisjoint /\ BlocksDisjoint

-----------------------------------------------------------------------------
(***************************************************************************)
(* Arithmetic of pages and of the reach.                                   *)
(***************************************************************************)
\* Rounding down moves an address by less than a page.
LEMMA FloorBounds ==
  ASSUME NEW a \in Nat
  PROVE  PageFloor(a) \in Nat /\ PageFloor(a) <= a /\ a < PageFloor(a) + PageSize
  BY SpaceAssumption DEF PageFloor

\* An arena of PageCeil(n) bytes holds n bytes.
LEMMA CeilBounds ==
  ASSUME NEW n \in Nat \ {0}
  PROVE  PageCeil(n) \in Nat /\ n <= PageCeil(n)
  <1>1. n + PageSize - 1 \in Nat
    BY SpaceAssumption
  <1>2. QED BY <1>1, FloorBounds, SpaceAssumption DEF PageCeil

\* pos - SearchRange modulo the address space: exact, or above every address
\* that pos + SearchRange, which then cannot wrap, allows.
LEMMA ReachBounds ==
  ASSUME NEW pos \in Addr
  PROVE  /\ MinValid(pos) \in Nat /\ MaxValid(pos) \in Nat
         /\ MaxValid(pos) <= pos + SearchRange
         /\ MinValid(pos) < MaxValid(pos) => MinValid(pos) = pos - SearchRange
  <1> USE SpaceAssumption, RequestAssumption DEF Addr
  <1>1. CASE pos >= SearchRange
    <2>1. MinValid(pos) = pos - SearchRange
      BY <1>1 DEF MinValid
    <2>2. MaxValid(pos) \in Nat /\ MaxValid(pos) <= pos + SearchRange
      BY DEF MaxValid
    <2>3. QED BY <1>1, <2>1, <2>2
  <1>2. CASE pos < SearchRange
    <2>1. MinValid(pos) = pos - SearchRange + AddrSpace
      BY <1>2 DEF MinValid
    <2>2. MaxValid(pos) = pos + SearchRange
      BY <1>2 DEF MaxValid
    <2>3. QED BY <1>2, <2>1, <2>2
  <1>3. QED BY <1>1, <1>2

\* What the near search returns is unused memory of the given range, within
\* the reach of pos.
LEMMA NearFitsInReach ==
  ASSUME NEW lo \in Nat, NEW hi \in Nat, NEW n \in Nat \ {0}, NEW pos \in Addr,
         NearFits(lo, hi, n, pos)
  PROVE  /\ NearStart(lo, pos) \in Nat
         /\ lo <= NearStart(lo, pos)
         /\ NearStart(lo, pos) + n <= hi
         /\ pos - SearchRange <= NearStart(lo, pos)
         /\ NearStart(lo, pos) + n <= pos + SearchRange
  <1>1. MinValid(pos) < MaxValid(pos)
    BY ReachBounds DEF NearFits, NearStart, Higher, Lower
  <1>2. pos \in Nat /\ SearchRange \in Nat
    BY RequestAssumption, SpaceAssumption DEF Addr
  <1>3. QED BY <1>1, <1>2, ReachBounds DEF NearFits, NearStart, Higher, Lower

\* The fields of an arena and of a block are natural numbers.
LEMMA ArenaFields ==
  ASSUME NEW r \in ArenaSet
  PROVE  /\ r.addr \in Nat /\ r.size \in Nat /\ r.cursor \in Nat
         /\ r.addr \in Addr /\ r.kind \in {"code", "data"}
  BY SpaceAssumption DEF ArenaSet, Addr

LEMMA BlockFields ==
  ASSUME NEW b \in BlockSet
  PROVE  /\ b.arena \in Nat /\ b.addr \in Nat /\ b.size \in Nat \ {0}
         /\ b.want \in {"exec", "data"} /\ b.near \in BOOLEAN
  BY DEF BlockSet

\* Two ranges that are not apart share the higher of their starts.
LEMMA Overlap ==
  ASSUME NEW a \in Nat, NEW m \in Nat, NEW b \in Nat, NEW n \in Nat,
         m >= 1, n >= 1, ~Apart(a, m, b, n)
  PROVE  Higher(a, b) \in Span(a, m) /\ Higher(a, b) \in Span(b, n)
  BY DEF Apart, Higher, Span

\* Blocks of two arenas that are apart are apart.
LEMMA ApartInside ==
  ASSUME NEW A \in ArenaSet, NEW B \in ArenaSet, NEW c \in BlockSet, NEW d \in BlockSet,
         Apart(A.addr, A.size, B.addr, B.size),
         A.cursor <= A.addr + A.size, B.cursor <= B.addr + B.size,
         A.addr <= c.addr, c.addr + c.size <= A.cursor,
         B.addr <= d.addr, d.addr + d.size <= B.cursor
  PROVE  Apart(c.addr, c.size, d.addr, d.size) /\ Apart(d.addr, d.size, c.addr, c.size)
  <1>1. /\ A.addr \in Nat /\ A.size \in Nat /\ A.cursor \in Nat
        /\ B.addr \in Nat /\ B.size \in Nat /\ B.cursor \in Nat
    BY ArenaFields
  <1>2. c.addr \in Nat /\ c.size \in Nat /\ d.addr \in Nat /\ d.size \in Nat
    BY BlockFields
  <1>3. QED BY <1>1, <1>2 DEF Apart

\* A block that ends where the cursor stood and one that starts there.
LEMMA ApartAtCursor ==
  ASSUME NEW x \in Nat, NEW c \in BlockSet, NEW d \in BlockSet,
         c.addr + c.size <= x, x <= d.addr
  PROVE  Apart(c.addr, c.size, d.addr, d.size) /\ Apart(d.addr, d.size, c.addr, c.size)
  <1>1. c.addr \in Nat /\ c.size \in Nat /\ d.addr \in Nat /\ d.size \in Nat
    BY BlockFields
  <1>2. QED BY <1>1 DEF Apart

\* TypeOK in terms of ArenaSet and BlockSet.
LEMMA Types ==
  ASSUME TypeOK
  PROVE  /\ arenas \in Seq(ArenaSet) /\ blocks \in Seq(BlockSet)
         /\ DOMAIN arenas = 1..Len(arenas) /\ DOMAIN blocks = 1..Len(blocks)
         /\ Len(arenas) \in Nat /\ Len(blocks) \in Nat
         /\ \A j \in DOMAIN arenas : arenas[j] \in ArenaSet
         /\ \A k \in DOMAIN blocks : blocks[k] \in BlockSet /\ blocks[k].arena \in DOMAIN arenas
  <1>1. arenas \in Seq(ArenaSet) /\ blocks \in Seq(BlockSet)
    BY DEF TypeOK, ArenaSet, BlockSet
  <1>2. QED BY <1>1 DEF TypeOK

-----------------------------------------------------------------------------
(***************************************************************************)
(* Every step that makes a block keeps the arenas there are, moves no      *)
(* cursor back and puts the block into an arena, above its old cursor and  *)
(* below its new one.                                                      *)
(***************************************************************************)
ArenasKept ==
  /\ arenas' \in Seq(ArenaSet)
  /\ Len(arenas) <= Len(arenas')
  /\ \A j \in DOMAIN arenas : /\ arenas'[j].addr = arenas[j].addr
                              /\ arenas'[j].size = arenas[j].size
                              /\ arenas'[j].kind = arenas[j].kind
                              /\ arenas[j].cursor <= arenas'[j].cursor

Fits(b) ==
  /\ b.arena \in DOMAIN arenas'
  /\ b.arena \in DOMAIN arenas => arenas[b.arena].cursor <= b.addr
  /\ arenas'[b.arena].addr <= b.addr
  /\ b.addr + b.size <= arenas'[b.arena].cursor
  /\ b.want = "exec" => arenas'[b.arena].kind = "code"
  /\ b.want = "data" /\ b.near => arenas'[b.arena].kind = "data"
  /\ b.near => b.pos - SearchRange <= b.addr /\ b.addr + b.size <= b.pos + SearchRange

\* Then blocks stay below their cursors, within reach and disjoint.
LEMMA BlockAdded ==
  ASSUME TypeOK, BlocksInArenas, NearInReach, BlocksDisjoint,
         NEW b \in BlockSet, blocks' = Append(blocks, b),
         ArenasKept, Fits(b), Cursors', ArenasDisjoint', Intact' => Intact
  PROVE  /\ blocks' \in Seq(BlockSet) /\ Len(blocks') = Len(blocks) + 1
         /\ \A k \in DOMAIN blocks' : blocks'[k].arena \in DOMAIN arenas'
         /\ BlocksInArenas' /\ NearInReach' /\ BlocksDisjoint'
  <1>1. /\ Len(blocks') = Len(blocks) + 1
        /\ DOMAIN blocks' = 1..(Len(blocks) + 1)
        /\ \A k \in DOMAIN blocks : blocks'[k] = blocks[k]
        /\ blocks'[Len(blocks) + 1] = b
        /\ blocks' \in Seq(BlockSet)
    BY Types, AppendProperties
  <1>2. \A k \in DOMAIN blocks' : k \in DOMAIN blocks \/ k = Len(blocks) + 1
    BY <1>1, Types
  <1>3. /\ DOMAIN arenas' = 1..Len(arenas') /\ Len(arenas') \in Nat
        /\ \A j \in DOMAIN arenas' : arenas'[j] \in ArenaSet
    BY DEF ArenasKept
  <1>4. \A j \in DOMAIN arenas : j \in DOMAIN arenas'
    BY <1>3, Types DEF ArenasKept
  <1> HIDE DEF Intact
  <1> DEFINE below(c) == /\ arenas'[c.arena].addr <= c.addr
                         /\ c.addr + c.size <= arenas'[c.arena].cursor
                         /\ c.want = "exec" => arenas'[c.arena].kind = "code"
                         /\ c.want = "data" /\ c.near => arenas'[c.arena].kind = "data"
  <1>5. ASSUME NEW k \in DOMAIN blocks PROVE below(blocks[k])
    <2>1. blocks[k] \in BlockSet /\ blocks[k].arena \in DOMAIN arenas
      BY Types
    <2>2. /\ arenas[blocks[k].arena] \in ArenaSet /\ arenas'[blocks[k].arena] \in ArenaSet
      BY <1>3, <1>4, <2>1, Types
    <2>3. /\ blocks[k].addr \in Nat /\ blocks[k].size \in Nat
          /\ arenas[blocks[k].arena].cursor \in Nat /\ arenas'[blocks[k].arena].cursor \in Nat
      BY <2>1, <2>2, ArenaFields, BlockFields
    <2>4. QED BY <2>1, <2>3 DEF ArenasKept, BlocksInArenas
  <1>6. below(b)
    BY DEF Fits
  <1>7. BlocksInArenas'
    <2>1. SUFFICES ASSUME NEW k \in DOMAIN blocks' PROVE below(blocks'[k])
      BY Zenon DEF BlocksInArenas
    <2>2. CASE k \in DOMAIN blocks
      BY <1>1, <1>5, <2>2
    <2>3. CASE k = Len(blocks) + 1
      BY <1>1, <1>6, <2>3
    <2>4. QED BY <1>2, <2>2, <2>3
  <1>8. \A k \in DOMAIN blocks' : blocks'[k].arena \in DOMAIN arenas'
    BY <1>1, <1>2, <1>4, Types DEF Fits
  <1>9. NearInReach'
    <2> DEFINE reach(c) == c.near => /\ c.pos - SearchRange <= c.addr
                                     /\ c.addr + c.size <= c.pos + SearchRange
    <2>1. SUFFICES ASSUME NEW k \in DOMAIN blocks' PROVE reach(blocks'[k])
      BY Zenon DEF NearInReach
    <2>2. CASE k \in DOMAIN blocks
      BY <1>1, <2>2 DEF NearInReach
    <2>3. CASE k = Len(blocks) + 1
      <3>1. reach(b)
        BY DEF Fits
      <3>2. QED BY <1>1, <2>3, <3>1
    <2>4. QED BY <1>2, <2>2, <2>3
  <1>10. ASSUME Intact', NEW k \in DOMAIN blocks
         PROVE  /\ Apart(blocks[k].addr, blocks[k].size, b.addr, b.size)
                /\ Apart(b.addr, b.size, blocks[k].addr, blocks[k].size)
    <2>1. blocks[k] \in BlockSet /\ blocks[k].arena \in DOMAIN arenas
      BY Types
    <2>2. blocks[k].arena \in DOMAIN arenas' /\ b.arena \in DOMAIN arenas'
      BY <1>4, <2>1 DEF Fits
    <2>3. /\ arenas[blocks[k].arena] \in ArenaSet /\ arenas'[blocks[k].arena] \in ArenaSet
          /\ arenas'[b.arena] \in ArenaSet
      BY <1>3, <2>1, <2>2, Types
    <2>4. /\ blocks[k].addr \in Nat /\ blocks[k].size \in Nat /\ b.addr \in Nat /\ b.size \in Nat
          /\ arenas[blocks[k].arena].cursor \in Nat
          /\ arenas'[blocks[k].arena].addr \in Nat /\ arenas'[b.arena].addr \in Nat
          /\ arenas'[blocks[k].arena].size \in Nat /\ arenas'[b.arena].size \in Nat
          /\ arenas'[blocks[k].arena].cursor \in Nat /\ arenas'[b.arena].cursor \in Nat
      BY <2>1, <2>3, ArenaFields, BlockFields
    <2>5. CASE blocks[k].arena = b.arena
      <3>1. blocks[k].addr + blocks[k].size <= arenas[blocks[k].arena].cursor
        BY DEF BlocksInArenas
      <3>2. arenas[blocks[k].arena].cursor <= b.addr
        BY <2>1, <2>5 DEF Fits
      <3>3. QED BY <2>4, <3>1, <3>2 DEF Apart
    <2>6. CASE blocks[k].arena # b.arena
      <3>1. Apart(arenas'[blocks[k].arena].addr, arenas'[blocks[k].arena].size,
                  arenas'[b.arena].addr, arenas'[b.arena].size)
        BY <1>10, <2>2, <2>6 DEF ArenasDisjoint
      <3>2. /\ arenas'[blocks[k].arena].cursor <=
                 arenas'[blocks[k].arena].addr + arenas'[blocks[k].arena].size
            /\ arenas'[b.arena].cursor <= arenas'[b.arena].addr + arenas'[b.arena].size
        BY <2>2 DEF Cursors
      <3>3. /\ arenas'[blocks[k].arena].addr <= blocks[k].addr
            /\ blocks[k].addr + blocks[k].size <= arenas'[blocks[k].arena].cursor
        BY <1>5
      <3>4. /\ arenas'[b.arena].addr <= b.addr
            /\ b.addr + b.size <= arenas'[b.arena].cursor
        BY <1>6
      <3>5. QED BY <2>1, <2>3, <3>1, <3>2, <3>3, <3>4, ApartInside, Zenon
    <2>7. QED BY <2>5, <2>6
  <1>11. BlocksDisjoint'
    <2>1. SUFFICES ASSUME Intact', NEW j \in DOMAIN blocks', NEW k \in DOMAIN blocks', j # k
                   PROVE  Apart(blocks'[j].addr, blocks'[j].size, blocks'[k].addr, blocks'[k].size)
      BY Zenon DEF BlocksDisjoint, Apart
    <2>2. CASE j \in DOMAIN blocks /\ k \in DOMAIN blocks
      <3>1. Apart(blocks[j].addr, blocks[j].size, blocks[k].addr, blocks[k].size)
        BY <2>1, <2>2 DEF BlocksDisjoint
      <3>2. QED BY <1>1, <2>2, <3>1
    <2>3. CASE j = Len(blocks) + 1 /\ k \in DOMAIN blocks
      BY <1>1, <1>10, <2>1, <2>3
    <2>4. CASE j \in DOMAIN blocks /\ k = Len(blocks) + 1
      BY <1>1, <1>10, <2>1, <2>4
    <2>5. /\ j \in DOMAIN blocks \/ j = Len(blocks) + 1
          /\ k \in DOMAIN blocks \/ k = Len(blocks) + 1
      BY <1>2
    <2>6. QED BY <2>1, <2>2, <2>3, <2>4, <2>5
  <1>12. QED BY <1>1, <1>7, <1>8, <1>9, <1>11

-----------------------------------------------------------------------------
(***************************************************************************)
(* The arenas after a block is cut from one of them.                       *)
(***************************************************************************)
LEMMA Cut ==
  ASSUME IndInv,
         NEW i \in DOMAIN arenas, NEW a \in Nat, NEW n \in Nat \ {0},
         NEW want \in {"exec", "data"}, NEW near \in BOOLEAN, NEW pos \in Addr,
         arenas[i].cursor <= a, a + n <= End(i),
         arenas[i].kind = IF want = "exec" THEN "code" ELSE "data",
         near => pos - SearchRange <= a /\ a + n <= pos + SearchRange,
         Room, ~call.on,
         arenas' = [arenas EXCEPT ![i].cursor = a + n],
         blocks' = Append(blocks, Block(i, a, n, want, near, pos)),
         UNCHANGED <<owner, call, foreign, overwrote, aborted>>
  PROVE  IndInv'
  <1> DEFINE r == [arenas[i] EXCEPT !.cursor = a + n]
             b == Block(i, a, n, want, near, pos)
  <1>1. /\ TypeOK /\ Cursors /\ BlocksInArenas /\ CallInReach /\ NearInReach
        /\ ArenasMapped /\ ArenasDisjoint /\ BlocksDisjoint
    BY DEF IndInv, Shape
  <1>2. /\ arenas[i] \in ArenaSet /\ arenas \in Seq(ArenaSet)
        /\ i \in 1..Len(arenas) /\ DOMAIN arenas = 1..Len(arenas)
    BY <1>1, Types
  <1>3. /\ arenas[i].addr \in Nat /\ arenas[i].size \in Nat /\ arenas[i].cursor \in Nat
    BY <1>2, ArenaFields
  <1>4. r \in ArenaSet
    <2>1. a + n \in Nat
      OBVIOUS
    <2>2. QED BY <1>2, <2>1, Zenon DEF ArenaSet
  <1>5. /\ r.addr = arenas[i].addr /\ r.size = arenas[i].size
        /\ r.kind = arenas[i].kind /\ r.cursor = a + n
    BY <1>2 DEF ArenaSet
  <1>6. arenas' = [arenas EXCEPT ![i] = r]
    OBVIOUS
  <1> HIDE DEF r
  <1>7. /\ arenas' \in Seq(ArenaSet) /\ Len(arenas') = Len(arenas)
        /\ DOMAIN arenas' = DOMAIN arenas
        /\ \A j \in DOMAIN arenas : arenas'[j] = IF j = i THEN r ELSE arenas[j]
    <2>1. /\ arenas' \in Seq(ArenaSet) /\ Len(arenas') = Len(arenas)
          /\ \A j \in 1..Len(arenas) : arenas'[j] = IF j = i THEN r ELSE arenas[j]
      <3>1. /\ [arenas EXCEPT ![i] = r] \in Seq(ArenaSet)
            /\ Len([arenas EXCEPT ![i] = r]) = Len(arenas)
            /\ \A j \in 1..Len(arenas) : [arenas EXCEPT ![i] = r][j] = IF j = i THEN r ELSE arenas[j]
        BY <1>2, <1>4, ExceptSeq, Zenon
      <3>2. QED BY <1>6, <3>1, Zenon
    <2>2. DOMAIN arenas' = DOMAIN arenas
      BY <1>6
    <2>3. QED BY <1>2, <2>1, <2>2
  <1>8. \A j \in DOMAIN arenas :
          /\ arenas'[j].addr = arenas[j].addr
          /\ arenas'[j].size = arenas[j].size
          /\ arenas'[j].kind = arenas[j].kind
          /\ arenas'[j].cursor = IF j = i THEN a + n ELSE arenas[j].cursor
    BY <1>5, <1>7
  <1>9. \A j \in DOMAIN arenas : /\ arenas[j].addr \in Nat /\ arenas[j].size \in Nat
                                 /\ arenas[j].cursor \in Nat
    BY <1>1, Types, ArenaFields
  <1>10. ArenasKept
    <2>1. \A j \in DOMAIN arenas : arenas[j].cursor <= arenas'[j].cursor
      BY <1>3, <1>8, <1>9
    <2>2. Len(arenas) <= Len(arenas')
      BY <1>1, <1>7, Types
    <2>3. QED BY <1>7, <1>8, <2>1, <2>2 DEF ArenasKept
  <1>11. Cursors'
    BY <1>1, <1>3, <1>7, <1>8, <1>9 DEF Cursors, End
  <1>12. Intact' <=> Intact
    BY <1>7, <1>8 DEF Intact
  <1>13. ArenasDisjoint'
    BY <1>1, <1>7, <1>8, <1>12 DEF ArenasDisjoint
  <1>14. ArenasMapped'
    <2>1. SUFFICES ASSUME Intact', NEW j \in DOMAIN arenas',
                          NEW x \in Span(arenas'[j].addr, arenas'[j].size)
                   PROVE  x \in Addr /\ owner'[x] = Access(arenas'[j].kind)
      BY Zenon DEF ArenasMapped, Span, Addr, Access
    <2>2. j \in DOMAIN arenas /\ x \in Span(arenas[j].addr, arenas[j].size)
      BY <1>7, <1>8
    <2>3. x \in Addr /\ owner[x] = Access(arenas[j].kind)
      BY <1>1, <1>12, <2>1, <2>2 DEF ArenasMapped
    <2>4. QED BY <1>8, <2>2, <2>3
  <1>15. /\ b.arena = i /\ b.addr = a /\ b.size = n /\ b.want = want
         /\ b.near = near /\ b.pos = pos
    BY DEF Block
  <1>16. b \in BlockSet
    BY <1>2 DEF Block, BlockSet
  <1>17. blocks' = Append(blocks, b)
    OBVIOUS
  <1> HIDE DEF b
  <1>18. Fits(b)
    <2>1. arenas'[i].addr <= a /\ a + n <= arenas'[i].cursor
      <3>1. arenas[i].addr <= arenas[i].cursor /\ arenas'[i].addr = arenas[i].addr
        BY <1>1, <1>8 DEF Cursors
      <3>2. arenas'[i].cursor = a + n
        BY <1>8
      <3>3. QED BY <1>3, <3>1, <3>2
    <2>2. arenas'[i].kind = IF want = "exec" THEN "code" ELSE "data"
      BY <1>8
    <2>3. /\ want = "exec" => arenas'[i].kind = "code"
          /\ want = "data" => arenas'[i].kind = "data"
      BY <2>2
    <2>4. QED BY <1>7, <1>15, <2>1, <2>3, Zenon DEF Fits
  <1>19. /\ blocks' \in Seq(BlockSet) /\ Len(blocks') = Len(blocks) + 1
         /\ \A k \in DOMAIN blocks' : blocks'[k].arena \in DOMAIN arenas'
         /\ BlocksInArenas' /\ NearInReach' /\ BlocksDisjoint'
    BY <1>1, <1>10, <1>11, <1>12, <1>13, <1>16, <1>17, <1>18, BlockAdded
  <1>20. Len(blocks') <= MaxBlocks
    BY <1>1, <1>19, BoundAssumption, Types DEF Room
  <1>21. TypeOK'
    BY <1>1, <1>7, <1>19, <1>20 DEF TypeOK, ArenaSet, BlockSet
  <1>22. CallInReach'
    BY <1>1 DEF CallInReach
  <1>23. QED BY <1>11, <1>13, <1>14, <1>19, <1>21, <1>22 DEF IndInv, Shape

(***************************************************************************)
(* The arenas after a new one is mapped and a block is cut from it.  The   *)
(* bytes of the new arena were free, those of the others were not.         *)
(***************************************************************************)
LEMMA Grow ==
  ASSUME IndInv,
         NEW r \in ArenaSet, NEW b \in BlockSet,
         b.arena = Len(arenas) + 1,
         r.addr <= b.addr, b.addr + b.size = r.cursor, r.cursor <= r.addr + r.size,
         b.want = "exec" => r.kind = "code",
         b.want = "data" /\ b.near => r.kind = "data",
         b.near => b.pos - SearchRange <= b.addr /\ b.addr + b.size <= b.pos + SearchRange,
         Room,
         arenas' = Append(arenas, r), blocks' = Append(blocks, b),
         owner' \in [Addr -> {"free", "foreign", "rx", "rw"}],
         \A x \in Addr : x \notin Span(r.addr, r.size) => owner'[x] = owner[x],
         Intact' => \A x \in Span(r.addr, r.size) :
                      x \in Addr /\ owner[x] = "free" /\ owner'[x] = Access(r.kind),
         overwrote => overwrote', overwrote' \in BOOLEAN,
         call' \in [on : BOOLEAN, mem : Addr, size : Nat, pos : Addr, exec : BOOLEAN],
         ~call'.on,
         UNCHANGED <<foreign, aborted>>
  PROVE  IndInv'
  <1>1. /\ TypeOK /\ Cursors /\ BlocksInArenas /\ CallInReach /\ NearInReach
        /\ ArenasMapped /\ ArenasDisjoint /\ BlocksDisjoint
    BY DEF IndInv, Shape
  <1>2. /\ arenas' \in Seq(ArenaSet) /\ Len(arenas') = Len(arenas) + 1
        /\ DOMAIN arenas' = 1..(Len(arenas) + 1)
        /\ \A j \in DOMAIN arenas : arenas'[j] = arenas[j]
        /\ arenas'[Len(arenas) + 1] = r
    BY <1>1, Types, AppendProperties
  <1>3. \A j \in DOMAIN arenas' : j \in DOMAIN arenas \/ j = Len(arenas) + 1
    BY <1>1, <1>2, Types
  <1>4. \A j \in DOMAIN arenas : j \in DOMAIN arenas' /\ j # Len(arenas) + 1
    BY <1>1, <1>2, Types
  <1>5. /\ r.addr \in Nat /\ r.size \in Nat /\ r.cursor \in Nat
        /\ b.addr \in Nat /\ b.size \in Nat \ {0}
    BY ArenaFields, BlockFields
  <1>6. \A j \in DOMAIN arenas : /\ arenas[j].addr \in Nat /\ arenas[j].size \in Nat
                                 /\ arenas[j].cursor \in Nat
    BY <1>1, Types, ArenaFields
  <1>7. ArenasKept
    BY <1>1, <1>2, <1>6, Types DEF ArenasKept
  <1>8. r.size >= 1 /\ r.addr <= r.cursor
    BY <1>5
  <1>9. Cursors'
    <2>1. SUFFICES ASSUME NEW j \in DOMAIN arenas'
                   PROVE  /\ arenas'[j].size >= 1
                          /\ arenas'[j].addr <= arenas'[j].cursor
                          /\ arenas'[j].cursor <= arenas'[j].addr + arenas'[j].size
      BY DEF Cursors
    <2>2. CASE j \in DOMAIN arenas
      BY <1>1, <1>2, <2>2 DEF Cursors
    <2>3. CASE j = Len(arenas) + 1
      BY <1>2, <1>8, <2>3
    <2>4. QED BY <1>3, <2>2, <2>3
  <1>10. Intact' => Intact
    <2>1. SUFFICES ASSUME Intact' PROVE Intact
      OBVIOUS
    <2>2. \A j \in DOMAIN arenas : arenas[j].addr # 0
      BY <1>2, <1>4, <2>1 DEF Intact
    <2>3. ~overwrote
      BY <2>1 DEF Intact
    <2>4. QED BY <2>2, <2>3 DEF Intact
  <1>11. ASSUME Intact', NEW j \in DOMAIN arenas
         PROVE  /\ Apart(arenas[j].addr, arenas[j].size, r.addr, r.size)
                /\ Apart(r.addr, r.size, arenas[j].addr, arenas[j].size)
    <2>1. arenas[j].size >= 1
      BY <1>1 DEF Cursors
    <2>2. ASSUME ~Apart(arenas[j].addr, arenas[j].size, r.addr, r.size)
          PROVE  FALSE
      <3>0. arenas[j].addr \in Nat /\ arenas[j].size \in Nat
        BY <1>6
      <3>1. Higher(arenas[j].addr, r.addr) \in Span(arenas[j].addr, arenas[j].size)
        BY <1>5, <1>8, <2>1, <2>2, <3>0, Overlap
      <3>2. Higher(arenas[j].addr, r.addr) \in Span(r.addr, r.size)
        BY <1>5, <1>8, <2>1, <2>2, <3>0, Overlap
      <3>3. owner[Higher(arenas[j].addr, r.addr)] = Access(arenas[j].kind)
        BY <1>1, <1>10, <1>11, <3>1 DEF ArenasMapped
      <3>4. owner[Higher(arenas[j].addr, r.addr)] = "free"
        BY <1>11, <3>2
      <3>5. QED BY <3>3, <3>4 DEF Access
    <2>3. QED BY <2>2 DEF Apart
  <1>12. ArenasDisjoint'
    <2>1. SUFFICES ASSUME Intact', NEW i \in DOMAIN arenas', NEW j \in DOMAIN arenas', i # j
                   PROVE  Apart(arenas'[i].addr, arenas'[i].size, arenas'[j].addr, arenas'[j].size)
      BY Zenon DEF ArenasDisjoint, Apart
    <2>2. CASE i \in DOMAIN arenas /\ j \in DOMAIN arenas
      <3>1. Apart(arenas[i].addr, arenas[i].size, arenas[j].addr, arenas[j].size)
        BY <1>1, <1>10, <2>1, <2>2 DEF ArenasDisjoint
      <3>2. QED BY <1>2, <2>2, <3>1
    <2>3. CASE i = Len(arenas) + 1 /\ j \in DOMAIN arenas
      BY <1>2, <1>11, <2>1, <2>3
    <2>4. CASE i \in DOMAIN arenas /\ j = Len(arenas) + 1
      BY <1>2, <1>11, <2>1, <2>4
    <2>5. /\ i \in DOMAIN arenas \/ i = Len(arenas) + 1
          /\ j \in DOMAIN arenas \/ j = Len(arenas) + 1
      BY <1>3
    <2>6. QED BY <2>1, <2>2, <2>3, <2>4, <2>5
  <1>13. ArenasMapped'
    <2>1. SUFFICES ASSUME Intact', NEW j \in DOMAIN arenas',
                          NEW x \in Span(arenas'[j].addr, arenas'[j].size)
                   PROVE  x \in Addr /\ owner'[x] = Access(arenas'[j].kind)
      BY Zenon DEF ArenasMapped, Span, Addr, Access
    <2>2. CASE j \in DOMAIN arenas
      <3>1. x \in Span(arenas[j].addr, arenas[j].size) /\ arenas'[j].kind = arenas[j].kind
        BY <1>2, <2>2
      <3>2. x \in Addr /\ owner[x] = Access(arenas[j].kind)
        BY <1>1, <1>10, <2>1, <2>2, <3>1 DEF ArenasMapped
      <3>3. x \notin Span(r.addr, r.size)
        BY <2>1, <3>2 DEF Access
      <3>4. QED BY <3>1, <3>2, <3>3
    <2>3. CASE j = Len(arenas) + 1
      BY <1>2, <2>1, <2>3
    <2>4. QED BY <1>3, <2>2, <2>3
  <1>14. Fits(b)
    <2>1. b.arena \in DOMAIN arenas' /\ b.arena \notin DOMAIN arenas /\ arenas'[b.arena] = r
      BY <1>1, <1>2, <1>4, Types
    <2>2. b.addr + b.size <= r.cursor
      BY <1>5
    <2>3. QED BY <2>1, <2>2, Zenon DEF Fits
  <1>15. /\ blocks' \in Seq(BlockSet) /\ Len(blocks') = Len(blocks) + 1
         /\ \A k \in DOMAIN blocks' : blocks'[k].arena \in DOMAIN arenas'
         /\ BlocksInArenas' /\ NearInReach' /\ BlocksDisjoint'
    BY <1>1, <1>7, <1>9, <1>10, <1>12, <1>14, BlockAdded
  <1>16. Len(blocks') <= MaxBlocks
    BY <1>1, <1>15, BoundAssumption, Types DEF Room
  <1>18. TypeOK'
    BY <1>1, <1>2, <1>15, <1>16 DEF TypeOK, ArenaSet, BlockSet
  <1>19. CallInReach'
    BY DEF CallInReach
  <1>20. QED BY <1>9, <1>12, <1>13, <1>15, <1>18, <1>19 DEF IndInv, Shape

-----------------------------------------------------------------------------
(***************************************************************************)
(* The invariant, action by action.                                        *)
(***************************************************************************)
LEMMA IndInvInit == Init => IndInv
  <1> SUFFICES ASSUME Init PROVE IndInv
    OBVIOUS
  <1>1. arenas = <<>> /\ blocks = <<>> /\ DOMAIN arenas = {} /\ DOMAIN blocks = {} /\ Len(blocks) = 0
    BY DEF Init
  <1>2. NoCall \in [on : BOOLEAN, mem : Addr, size : Nat, pos : Addr, exec : BOOLEAN]
    BY SpaceAssumption DEF NoCall, Addr
  <1>3. TypeOK
    <2>1. arenas \in Seq(ArenaSet) /\ blocks \in Seq(BlockSet)
      BY <1>1, EmptySeq
    <2>2. owner \in [Addr -> {"free", "foreign", "rx", "rw"}]
      BY DEF Init
    <2>3. Len(blocks) <= MaxBlocks /\ foreign \in 0..MaxForeign
      BY <1>1, BoundAssumption DEF Init
    <2>4. /\ call \in [on : BOOLEAN, mem : Addr, size : Nat, pos : Addr, exec : BOOLEAN]
          /\ overwrote \in BOOLEAN /\ aborted \in BOOLEAN
      BY <1>2 DEF Init
    <2>5. QED BY <1>1, <2>1, <2>2, <2>3, <2>4 DEF TypeOK, ArenaSet, BlockSet
  <1>4. CallInReach
    BY DEF Init, CallInReach, NoCall
  <1>5. QED BY <1>1, <1>3, <1>4 DEF IndInv, Shape, Cursors, BlocksInArenas, NearInReach,
               ArenasMapped, ArenasDisjoint, BlocksDisjoint

\* A block at the cursor of an arena of the right kind.
LEMMA FromArena ==
  ASSUME IndInv, Room, ~call.on, NEW n \in Sizes, NEW want \in {"exec", "data"},
         NEW i \in FirstWithRoom(IF want = "exec" THEN "code" ELSE "data", n),
         arenas' = Bump(i, n),
         blocks' = Append(blocks, Block(i, arenas[i].cursor, n, want, FALSE, 0)),
         UNCHANGED <<owner, call, foreign, overwrote, aborted>>
  PROVE  IndInv'
  <1>1. /\ i \in DOMAIN arenas /\ HasRoom(i, n)
        /\ arenas[i].kind = IF want = "exec" THEN "code" ELSE "data"
    BY DEF FirstWithRoom, Kind
  <1>2. n \in Nat \ {0} /\ 0 \in Addr
    BY RequestAssumption, SpaceAssumption DEF Addr
  <1>3. arenas[i].addr \in Nat /\ arenas[i].size \in Nat /\ arenas[i].cursor \in Nat
    BY <1>1, Types, ArenaFields DEF IndInv, Shape
  <1>4. arenas[i].cursor + n <= End(i)
    BY <1>1, <1>2, <1>3 DEF HasRoom, End
  <1>5. arenas' = [arenas EXCEPT ![i].cursor = arenas[i].cursor + n]
    BY DEF Bump
  <1>6. PICK a \in Nat : a = arenas[i].cursor
    BY <1>3
  <1>7. a + n <= End(i) /\ arenas[i].cursor <= a
    BY <1>3, <1>4, <1>6
  <1>8. /\ arenas' = [arenas EXCEPT ![i].cursor = a + n]
        /\ blocks' = Append(blocks, Block(i, a, n, want, FALSE, 0))
    BY <1>5, <1>6, Zenon
  <1>9. QED BY <1>1, <1>2, <1>7, <1>8, Cut

\* A block at the start of a new code arena, mapped or at address 0.
LEMMA FromNewArena ==
  ASSUME IndInv, Room, ~call.on, NEW n \in Nat \ {0}, NEW size \in Nat, n <= size,
         NEW want \in {"exec", "data"},
         FromNewCodeArena(size, n, want),
         UNCHANGED <<call, foreign, overwrote, aborted>>
  PROVE  IndInv'
  <1>1. PICK a \in FreeRuns(size) \cup (IF CanFail THEN {0} ELSE {}) :
          /\ arenas' = Append(arenas, [Arena("code", a, size) EXCEPT !.cursor = @ + n])
          /\ owner' = IF a = 0 THEN owner ELSE Own(a, size, "rx")
          /\ blocks' = Append(blocks, Block(Len(arenas) + 1, a, n, want, FALSE, 0))
    BY DEF FromNewCodeArena
  <1>2. a \in Addr /\ a \in Nat /\ 0 \in Addr
    BY SpaceAssumption DEF FreeRuns, Addr
  <1> DEFINE r == [kind |-> "code", addr |-> a, size |-> size, cursor |-> a + n]
             b == Block(Len(arenas) + 1, a, n, want, FALSE, 0)
  <1>3. arenas' = Append(arenas, r) /\ blocks' = Append(blocks, b)
    BY <1>1 DEF Arena
  <1>4. TypeOK /\ Len(arenas) \in Nat
    BY Types DEF IndInv, Shape
  <1>5. r \in ArenaSet /\ b \in BlockSet
    BY <1>2, <1>4 DEF ArenaSet, BlockSet, Block
  <1>6. /\ r.addr = a /\ r.size = size /\ r.cursor = a + n /\ r.kind = "code"
        /\ b.arena = Len(arenas) + 1 /\ b.addr = a /\ b.size = n /\ b.want = want /\ b.near = FALSE
    BY DEF Block
  <1>7. owner' \in [Addr -> {"free", "foreign", "rx", "rw"}]
    BY <1>1, <1>4 DEF Own, TypeOK
  <1>8. \A x \in Addr : x \notin Span(a, size) => owner'[x] = owner[x]
    BY <1>1, <1>4 DEF Own, TypeOK
  <1>9. ASSUME Intact'
        PROVE  \A x \in Span(a, size) :
                 x \in Addr /\ owner[x] = "free" /\ owner'[x] = Access("code")
    <2>1. Len(arenas) + 1 \in DOMAIN arenas' /\ arenas'[Len(arenas) + 1] = r
      BY <1>3, <1>4, <1>5, Types, AppendProperties
    <2>2. a # 0
      BY <1>6, <1>9, <2>1 DEF Intact
    <2>3. a \in FreeRuns(size)
      BY <2>2
    <2>4. \A x \in Span(a, size) : x \in Addr
      BY <1>2, <2>3, SpaceAssumption DEF FreeRuns, Span, Addr
    <2>5. QED BY <1>1, <2>2, <2>3, <2>4 DEF FreeRuns, Own, Access
  <1> HIDE DEF r, b
  <1>10. /\ r.addr <= b.addr /\ b.addr + b.size = r.cursor /\ r.cursor <= r.addr + r.size
    BY <1>2, <1>6
  <1>11. overwrote' \in BOOLEAN /\ (overwrote => overwrote')
    BY <1>4 DEF TypeOK
  <1>12. call' \in [on : BOOLEAN, mem : Addr, size : Nat, pos : Addr, exec : BOOLEAN] /\ ~call'.on
    BY <1>4 DEF TypeOK
  <1>13. QED BY <1>3, <1>5, <1>6, <1>7, <1>8, <1>9, <1>10, <1>11, <1>12, Grow

LEMMA ExecStep ==
  ASSUME IndInv, NEW n \in Sizes, allocateExecBlock(n)
  PROVE  IndInv'
  <1> USE DEF allocateExecBlock
  <1>1. CASE ExecFromArena(n)
    BY <1>1, FromArena DEF ExecFromArena
  <1>2. CASE FromNewCodeArena(PageCeil(n), n, "exec")
    <2>1. n \in Nat \ {0}
      BY RequestAssumption
    <2>2. QED BY <1>2, <2>1, CeilBounds, FromNewArena
  <1>3. QED BY <1>1, <1>2

\* A step that leaves the arenas, the blocks and the map alone.
LEMMA Unmoved ==
  ASSUME IndInv, UNCHANGED <<owner, arenas, blocks, foreign, overwrote>>,
         aborted' \in BOOLEAN,
         call' \in [on : BOOLEAN, mem : Addr, size : Nat, pos : Addr, exec : BOOLEAN],
         CallInReach'
  PROVE  IndInv'
  <1>1. Intact' = Intact
    BY DEF Intact
  <1>2. TypeOK'
    BY DEF IndInv, Shape, TypeOK
  <1>3. Cursors' /\ BlocksInArenas' /\ NearInReach'
    BY DEF IndInv, Shape, Cursors, BlocksInArenas, NearInReach
  <1>4. ArenasMapped' /\ ArenasDisjoint' /\ BlocksDisjoint'
    BY <1>1, Zenon DEF IndInv, ArenasMapped, ArenasDisjoint, BlocksDisjoint
  <1>5. QED BY <1>2, <1>3, <1>4 DEF IndInv, Shape

LEMMA DataStep ==
  ASSUME IndInv, NEW n \in Sizes, allocateDataBlock(n)
  PROVE  IndInv'
  <1> USE DEF allocateDataBlock
  <1>1. CASE DataFromArena(n)
    BY <1>1, FromArena DEF DataFromArena
  <1>2. CASE aborted' = TRUE /\ UNCHANGED <<owner, arenas, blocks>>
    BY <1>2, Unmoved DEF IndInv, Shape, TypeOK, CallInReach, Room
  <1>3. CASE FromNewCodeArena(n, n, "data") /\ UNCHANGED aborted
    <2>1. n \in Nat \ {0} /\ n <= n
      BY RequestAssumption
    <2>2. QED BY <1>3, <2>1, FromNewArena
  <1>4. QED BY <1>1, <1>2, <1>3

LEMMA NearStep ==
  ASSUME IndInv, NEW n \in Sizes, NEW pos \in Positions, NEW exec \in BOOLEAN,
         allocateNearBlock(n, pos, exec)
  PROVE  IndInv'
  <1> USE DEF allocateNearBlock
  <1>1. n \in Nat \ {0} /\ pos \in Addr
    BY RequestAssumption
  <1>2. CASE NearFromDefault(n, pos, exec)
    <2>1. PICK i \in DefaultArena(exec, n, pos) :
            /\ arenas' = [arenas EXCEPT ![i].cursor = NearStart(arenas[i].cursor, pos) + n]
            /\ blocks' = Append(blocks, NearBlock(i, NearStart(arenas[i].cursor, pos), n, pos, exec))
            /\ UNCHANGED call
      BY <1>2 DEF NearFromDefault
    <2>2. /\ i \in DOMAIN arenas /\ NearInArena(i, n, pos)
          /\ arenas[i].kind = IF exec THEN "code" ELSE "data"
      BY DEF DefaultArena, Kind
    <2>3. arenas[i].addr \in Nat /\ arenas[i].size \in Nat /\ arenas[i].cursor \in Nat
      BY <2>2, Types, ArenaFields DEF IndInv, Shape
    <2>4. End(i) \in Nat
      BY <2>3 DEF End
    <2>5. /\ NearStart(arenas[i].cursor, pos) \in Nat
          /\ arenas[i].cursor <= NearStart(arenas[i].cursor, pos)
          /\ NearStart(arenas[i].cursor, pos) + n <= End(i)
          /\ pos - SearchRange <= NearStart(arenas[i].cursor, pos)
          /\ NearStart(arenas[i].cursor, pos) + n <= pos + SearchRange
      BY <1>1, <2>2, <2>3, <2>4, NearFitsInReach DEF NearInArena
    <2>6. PICK a \in Nat : a = NearStart(arenas[i].cursor, pos)
      BY <2>5
    <2>7. PICK want \in {"exec", "data"} : want = IF exec THEN "exec" ELSE "data"
      OBVIOUS
    <2>8. arenas[i].kind = IF want = "exec" THEN "code" ELSE "data"
      BY <2>2, <2>7
    <2>9. blocks' = Append(blocks, Block(i, a, n, want, TRUE, pos))
      BY <2>1, <2>6, <2>7 DEF NearBlock
    <2>10. arenas' = [arenas EXCEPT ![i].cursor = a + n]
      BY <2>1, <2>6, Zenon
    <2>11. /\ arenas[i].cursor <= a /\ a + n <= End(i)
           /\ pos - SearchRange <= a /\ a + n <= pos + SearchRange
      BY <2>5, <2>6
    <2>12. QED BY <1>1, <2>1, <2>2, <2>8, <2>9, <2>10, <2>11, Cut
  <1>3. CASE NearSearch(n, pos, exec)
    <2>1. PICK g \in Gaps :
            /\ NearFits(g[1], g[2], n, pos)
            /\ call' = [on |-> TRUE, mem |-> NearStart(g[1], pos), size |-> n,
                        pos |-> pos, exec |-> exec]
            /\ UNCHANGED <<arenas, blocks>>
      BY <1>3 DEF NearSearch, FirstGap
    <2>2. g[1] \in Nat /\ g[2] \in Nat
      BY SpaceAssumption DEF Gaps, Addr
    <2>3. /\ NearStart(g[1], pos) \in Nat /\ NearStart(g[1], pos) + n <= g[2]
          /\ pos - SearchRange <= NearStart(g[1], pos)
          /\ NearStart(g[1], pos) + n <= pos + SearchRange
      BY <1>1, <2>1, <2>2, NearFitsInReach
    <2>4. call' \in [on : BOOLEAN, mem : Addr, size : Nat, pos : Addr, exec : BOOLEAN]
      <3>1. NearStart(g[1], pos) \in Addr
        BY <1>1, <2>2, <2>3, SpaceAssumption DEF Gaps, Addr
      <3>2. QED BY <1>1, <2>1, <3>1
    <2>5. CallInReach'
      BY <1>1, <2>1, <2>3 DEF CallInReach, Room
    <2>6. QED BY <2>1, <2>4, <2>5, Unmoved DEF IndInv, Shape, TypeOK
  <1>4. QED BY <1>2, <1>3

LEMMA MapStep ==
  ASSUME IndInv, NearMap
  PROVE  IndInv'
  <1> DEFINE A == PageFloor(call.mem)
             n == NearArenaSize(call.mem, call.size)
             kind == IF call.exec THEN "code" ELSE "data"
             want == IF call.exec THEN "exec" ELSE "data"
             r == [kind |-> kind, addr |-> A, size |-> n, cursor |-> call.mem + call.size]
             b == Block(Len(arenas) + 1, call.mem, call.size, want, TRUE, call.pos)
  <1>1. TypeOK /\ CallInReach /\ call.on
    BY DEF IndInv, Shape, NearMap
  <1>2. /\ call.mem \in Nat /\ call.size \in Nat \ {0} /\ call.pos \in Addr /\ call.exec \in BOOLEAN
        /\ call.pos - SearchRange <= call.mem
        /\ call.mem + call.size <= call.pos + SearchRange
    <2>1. call.mem \in Addr /\ call.pos \in Addr /\ call.exec \in BOOLEAN
      BY <1>1 DEF TypeOK
    <2>2. call.mem \in Nat
      BY <2>1, SpaceAssumption DEF Addr
    <2>3. QED BY <1>1, <2>1, <2>2 DEF CallInReach
  <1>3. arenas' = Append(arenas, r) /\ blocks' = Append(blocks, b)
    BY DEF NearMap, Arena, NearBlock
  <1>4. /\ owner' = Own(A, n, IF call.exec THEN "rx" ELSE "rw")
        /\ overwrote' = (overwrote \/ \E x \in Span(A, n) : x \notin Addr \/ owner[x] # "free")
        /\ call' = NoCall /\ UNCHANGED <<foreign, aborted>>
    BY DEF NearMap
  <1>5. /\ A \in Nat /\ A <= call.mem /\ n \in Nat
        /\ call.mem + call.size <= A + n
    <2>1. /\ A \in Nat /\ A <= call.mem
      BY <1>2, FloorBounds
    <2>2. call.mem + call.size \in Nat
      BY <1>2
    <2>3. /\ PageFloor(call.mem + call.size) \in Nat
          /\ call.mem + call.size < PageFloor(call.mem + call.size) + PageSize
      BY <2>2, FloorBounds
    <2> HIDE DEF A
    <2>4. n = PageFloor(call.mem + call.size) - A + PageSize
      BY DEF NearArenaSize, A
    <2> HIDE DEF n
    <2>5. QED BY <1>2, <2>1, <2>2, <2>3, <2>4, SpaceAssumption
  <1>6. A \in Addr
    BY <1>1, <1>2, <1>5, SpaceAssumption DEF TypeOK, Addr
  <1>7. Len(arenas) \in Nat /\ Room
    BY <1>1, Types DEF CallInReach
  <1>8. r \in ArenaSet /\ b \in BlockSet
    BY <1>2, <1>5, <1>6, <1>7 DEF ArenaSet, BlockSet, Block
  <1>9. /\ r.addr = A /\ r.size = n /\ r.cursor = call.mem + call.size /\ r.kind = kind
        /\ b.arena = Len(arenas) + 1 /\ b.addr = call.mem /\ b.size = call.size
        /\ b.want = want /\ b.near = TRUE /\ b.pos = call.pos
    BY DEF Block
  <1>10. Access(kind) = IF call.exec THEN "rx" ELSE "rw"
    BY <1>2 DEF Access
  <1>11. (want = "exec" => kind = "code") /\ (want = "data" => kind = "data")
    BY <1>2
  <1> HIDE DEF r, b, A, n, kind, want
  <1>12. owner' \in [Addr -> {"free", "foreign", "rx", "rw"}]
    BY <1>1, <1>4 DEF Own, TypeOK
  <1>13. \A x \in Addr : x \notin Span(A, n) => owner'[x] = owner[x]
    BY <1>1, <1>4 DEF Own, TypeOK
  <1>14. ASSUME Intact'
         PROVE  \A x \in Span(A, n) :
                  x \in Addr /\ owner[x] = "free" /\ owner'[x] = Access(kind)
    <2>1. \A x \in Span(A, n) : x \in Addr /\ owner[x] = "free"
      BY <1>4, <1>14, Zenon DEF Intact
    <2>2. QED BY <1>4, <1>10, <2>1 DEF Own
  <1>15. overwrote' \in BOOLEAN /\ (overwrote => overwrote')
    BY <1>4, Zenon
  <1>16. /\ call' \in [on : BOOLEAN, mem : Addr, size : Nat, pos : Addr, exec : BOOLEAN]
         /\ ~call'.on
    BY <1>4, SpaceAssumption DEF NoCall, Addr
  <1>17. /\ r.addr <= b.addr /\ b.addr + b.size = r.cursor /\ r.cursor <= r.addr + r.size
    BY <1>5, <1>9
  <1>18. b.near => b.pos - SearchRange <= b.addr /\ b.addr + b.size <= b.pos + SearchRange
    BY <1>2, <1>9
  <1>19. QED BY <1>3, <1>4, <1>7, <1>8, <1>9, <1>11, <1>12, <1>13, <1>14, <1>15, <1>16, <1>17, <1>18, Grow

LEMMA ForeignStep ==
  ASSUME IndInv, ForeignMap
  PROVE  IndInv'
  <1>1. PICK a \in FreeRuns(PageSize) : owner' = Own(a, PageSize, "foreign")
    BY DEF ForeignMap
  <1>2. UNCHANGED <<arenas, blocks, call, overwrote, aborted>> /\ foreign' = foreign + 1
        /\ foreign < MaxForeign
    BY DEF ForeignMap
  <1>3. owner' \in [Addr -> {"free", "foreign", "rx", "rw"}]
    BY <1>1 DEF Own, IndInv, Shape, TypeOK
  <1>4. TypeOK'
    <2>1. foreign' \in 0..MaxForeign
      BY <1>2, BoundAssumption DEF IndInv, Shape, TypeOK
    <2>2. QED BY <1>2, <1>3, <2>1 DEF IndInv, Shape, TypeOK
  <1>5. Cursors' /\ BlocksInArenas' /\ NearInReach' /\ CallInReach'
    BY <1>2 DEF IndInv, Shape, Cursors, BlocksInArenas, NearInReach, CallInReach, Room
  <1>6. Intact' = Intact
    BY <1>2 DEF Intact
  <1>7. ArenasDisjoint' /\ BlocksDisjoint'
    BY <1>2, <1>6, Zenon DEF IndInv, ArenasDisjoint, BlocksDisjoint
  <1>8. ASSUME NEW x \in Addr, owner[x] # "free" PROVE owner'[x] = owner[x]
    BY <1>1, <1>8 DEF Own, FreeRuns
  <1>9. ArenasMapped'
    <2>1. SUFFICES ASSUME Intact, NEW j \in DOMAIN arenas,
                          NEW x \in Span(arenas[j].addr, arenas[j].size)
                   PROVE  x \in Addr /\ owner'[x] = Access(arenas[j].kind)
      BY <1>2, <1>6, Zenon DEF ArenasMapped
    <2>2. x \in Addr /\ owner[x] = Access(arenas[j].kind)
      BY <2>1 DEF IndInv, ArenasMapped
    <2>3. owner[x] # "free"
      BY <2>2 DEF Access
    <2>4. QED BY <1>8, <2>2, <2>3
  <1>10. QED BY <1>4, <1>5, <1>7, <1>9 DEF IndInv, Shape

\* Every step keeps the invariant.
LEMMA IndInvStep == IndInv /\ [Next]_vars => IndInv'
  <1> SUFFICES ASSUME IndInv, [Next]_vars PROVE IndInv'
    OBVIOUS
  <1>1. ASSUME NEW n \in Sizes, allocateExecBlock(n) PROVE IndInv'
    BY <1>1, ExecStep
  <1>2. ASSUME NEW n \in Sizes, allocateDataBlock(n) PROVE IndInv'
    BY <1>2, DataStep
  <1>3. ASSUME NEW n \in Sizes, NEW pos \in Positions, NEW exec \in BOOLEAN,
               allocateNearBlock(n, pos, exec)
        PROVE  IndInv'
    BY <1>3, NearStep
  <1>4. CASE NearMap
    BY <1>4, MapStep
  <1>5. CASE NearMapFails
    <2>1. /\ call' \in [on : BOOLEAN, mem : Addr, size : Nat, pos : Addr, exec : BOOLEAN]
          /\ CallInReach'
      BY <1>5, SpaceAssumption DEF NearMapFails, NoCall, CallInReach, Addr
    <2>2. QED BY <1>5, <2>1, Unmoved DEF NearMapFails, IndInv, Shape, TypeOK
  <1>6. CASE ForeignMap
    BY <1>6, ForeignStep
  <1>7. CASE UNCHANGED vars
    BY <1>7, Unmoved DEF vars, IndInv, Shape, TypeOK, CallInReach, Room
  <1>8. QED BY <1>1, <1>2, <1>3, <1>4, <1>5, <1>6, <1>7 DEF Next

-----------------------------------------------------------------------------
\* The inductive invariant holds in every behaviour of the allocators.
THEOREM IndInvHolds == Spec => []IndInv
  BY IndInvInit, IndInvStep, PTL DEF Spec

\* Type correctness of arenas, blocks and calls in progress.
THEOREM TypeCorrect == Spec => []TypeOK
  <1>1. IndInv => TypeOK
    BY DEF IndInv, Shape
  <1>2. QED BY <1>1, IndInvHolds, PTL

\* allocMemBlock, allocateExecBlock and allocateNearBlock never hand out the
\* same byte twice while every mmap succeeds on free memory.
THEOREM BlocksAreDisjoint == Spec => []BlocksDisjoint
  <1>1. IndInv => BlocksDisjoint
    BY DEF IndInv
  <1>2. QED BY <1>1, IndInvHolds, PTL

\* A block of allocateNearBlock is within SearchRange of the position, with
\* addr_t arithmetic that wraps and from whichever of its two sources.
THEOREM NearBlocksInReach == Spec => []NearInReach
  <1>1. IndInv => NearInReach
    BY DEF IndInv, Shape
  <1>2. QED BY <1>1, IndInvHolds, PTL

\* Exec blocks and near data blocks have the access they were asked with.
THEOREM BlocksHaveAccess == Spec => []AccessAsAsked
  <1>1. ASSUME IndInv, Intact, NEW k \in DOMAIN blocks,
               blocks[k].want = "exec" \/ blocks[k].near,
               NEW x \in Span(blocks[k].addr, blocks[k].size)
        PROVE  owner[x] = IF blocks[k].want = "exec" THEN "rx" ELSE "rw"
    <2>1. /\ blocks[k] \in BlockSet /\ blocks[k].arena \in DOMAIN arenas
          /\ arenas[blocks[k].arena] \in ArenaSet
      BY <1>1, Types DEF IndInv, Shape
    <2>2. PICK r \in ArenaSet, b \in BlockSet : r = arenas[blocks[k].arena] /\ b = blocks[k]
      BY <2>1
    <2>3. /\ r.addr <= b.addr /\ b.addr + b.size <= r.cursor /\ r.cursor <= r.addr + r.size
      BY <1>1, <2>1, <2>2 DEF IndInv, Shape, BlocksInArenas, Cursors
    <2>4. /\ r.addr \in Nat /\ r.size \in Nat /\ r.cursor \in Nat
          /\ b.addr \in Nat /\ b.size \in Nat /\ b.want \in {"exec", "data"}
      BY ArenaFields, BlockFields
    <2>5. x \in Span(r.addr, r.size)
      <3>1. x \in Span(b.addr, b.size)
        BY <2>2
      <3>2. QED BY <2>3, <2>4, <3>1 DEF Span
    <2>6. owner[x] = Access(r.kind)
      BY <1>1, <2>1, <2>2, <2>5 DEF IndInv, ArenasMapped
    <2>7. CASE blocks[k].want = "exec"
      <3>1. r.kind = "code"
        BY <1>1, <2>2, <2>7 DEF IndInv, Shape, BlocksInArenas
      <3>2. QED BY <2>6, <2>7, <3>1 DEF Access
    <2>8. CASE blocks[k].want = "data"
      <3>1. r.kind = "data"
        BY <1>1, <2>2, <2>8 DEF IndInv, Shape, BlocksInArenas
      <3>2. QED BY <2>6, <2>8, <3>1 DEF Access
    <2>9. QED BY <2>2, <2>4, <2>7, <2>8
  <1>2. IndInv => AccessAsAsked
    BY <1>1, Zenon DEF AccessAsAsked
  <1>3. QED BY <1>2, IndInvHolds, PTL
=============================================================================
