--------------------------- MODULE MemoryAllocator ---------------------------
(***************************************************************************)
(* Dobby's memory for generated code: the bump arenas of MemoryAllocator   *)
(* and the search of NearMemoryAllocator for memory within the reach of a  *)
(* branch, first in the arenas and then in the gaps of the process's       *)
(* memory layout.                                                          *)
(*                                                                         *)
(* Memory is a map from byte addresses to who has them.  The vectors       *)
(* code_arenas and data_arenas are one sequence of arenas tagged with      *)
(* their kind; the order inside each kind is that of the vector.  Calls of *)
(* the allocator come one at a time; other threads of the process map      *)
(* memory of their own at any moment.                                      *)
(***************************************************************************)
EXTENDS Integers, Sequences

CONSTANTS
  PageSize,     \* bytes per page
  AddrSpace,    \* number of addresses: addr_t arithmetic is modulo AddrSpace
  Foreign,      \* addresses the rest of the process has mapped at the start
  Sizes,        \* sizes asked for
  Positions,    \* addresses a near block must be reachable from
  SearchRange,  \* reach of the branch
  MaxBlocks,    \* bound on the number of blocks handed out
  MaxForeign,   \* bound on the pages other threads map meanwhile
  CanFail,      \* whether mmap may fail
  AsksForData   \* whether somebody calls allocateDataBlock

Addr == 0..(AddrSpace - 1)

ASSUME SpaceAssumption ==
  /\ PageSize \in Nat \ {0}
  /\ AddrSpace \in Nat \ {0}
  /\ Foreign \subseteq Addr
ASSUME RequestAssumption ==
  /\ Sizes \subseteq Nat \ {0}
  /\ Positions \subseteq Addr
  /\ SearchRange \in Nat
  /\ 2 * SearchRange <= AddrSpace
ASSUME BoundAssumption ==
  /\ MaxBlocks \in Nat /\ MaxForeign \in Nat
  /\ CanFail \in BOOLEAN /\ AsksForData \in BOOLEAN

VARIABLES
  owner,      \* who has each address: "free", "foreign", "rx" or "rw"
  arenas,     \* code_arenas and data_arenas
  blocks,     \* the blocks handed out, in order
  call,       \* the near call between its search and its mmap
  foreign,    \* pages other threads mapped
  overwrote,  \* some MAP_FIXED mapping replaced an existing one
  aborted     \* a CHECK failed

vars == <<owner, arenas, blocks, call, foreign, overwrote, aborted>>

-----------------------------------------------------------------------------
PageFloor(a) == a - (a % PageSize)
PageCeil(a)  == PageFloor(a + PageSize - 1)
Span(a, n)   == a..(a + n - 1)
Higher(a, b) == IF a > b THEN a ELSE b
Lower(a, b)  == IF a < b THEN a ELSE b

\* Mapping n bytes at a.
Own(a, n, p) == [x \in Addr |-> IF x \in Span(a, n) THEN p ELSE owner[x]]

\* Where mmap without an address may put n bytes.
FreeRuns(n) ==
  {a \in Addr : /\ a # 0 /\ a % PageSize = 0 /\ a + n <= AddrSpace
                /\ \A x \in Span(a, n) : owner[x] = "free"}

Arena(kind, a, n) == [kind |-> kind, addr |-> a, size |-> n, cursor |-> a]
End(i)            == arenas[i].addr + arenas[i].size
Kind(kind)        == {i \in DOMAIN arenas : arenas[i].kind = kind}

NoCall == [on |-> FALSE, mem |-> 0, size |-> 0, pos |-> 0, exec |-> TRUE]

Init ==
  /\ owner = [x \in Addr |-> IF x \in Foreign THEN "foreign" ELSE "free"]
  /\ arenas = <<>>
  /\ blocks = <<>>
  /\ call = NoCall
  /\ foreign = 0
  /\ overwrote = FALSE
  /\ aborted = FALSE

\* A block, with the arena it was cut from and what it was asked for.
Block(i, a, n, want, near, pos) ==
  [arena |-> i, addr |-> a, size |-> n,
   want |-> want, near |-> near, pos |-> pos]
Room == Len(blocks) < MaxBlocks

(***************************************************************************)
(* MemoryArena::allocMemBlock and the choice of the arena.                 *)
(***************************************************************************)
\* Mutant: the size of the arena is compared, not what is left of it.
HasRoom_WholeArena(i, n) == arenas[i].size >= n

HasRoom(i, n) == End(i) - arenas[i].cursor >= n

FirstWithRoom(kind, n) ==
  {i \in Kind(kind) : /\ HasRoom(i, n)
                      /\ \A j \in Kind(kind) : HasRoom(j, n) => i <= j}

\* Mutant: the cursor does not move.
Bump_Forgotten(i, n) == arenas

Bump(i, n) == [arenas EXCEPT ![i].cursor = @ + n]

(***************************************************************************)
(* allocateExecBlock: the first code arena with room, or a new one.  The   *)
(* result of mmap is not looked at: when it fails the arena is at 0.       *)
(***************************************************************************)
ExecFromArena(n) ==
  \E i \in FirstWithRoom("code", n) :
    /\ arenas' = Bump(i, n)
    /\ blocks' = Append(blocks, Block(i, arenas[i].cursor, n, "exec", FALSE, 0))
    /\ UNCHANGED owner

\* Mutant: the arena is not pushed to the vector.
FromNewCodeArena_NotRegistered(size, n, want) ==
  \E a \in FreeRuns(size) :
    /\ owner' = Own(a, size, "rx")
    /\ blocks' = Append(blocks, Block(Len(arenas) + 1, a, n, want, FALSE, 0))
    /\ UNCHANGED arenas

\* The new code arena of allocateCodeMemoryArena(size), and a block of n from it.
FromNewCodeArena(size, n, want) ==
  \E a \in FreeRuns(size) \cup (IF CanFail THEN {0} ELSE {}) :
    /\ arenas' = Append(arenas, [Arena("code", a, size) EXCEPT !.cursor = @ + n])
    /\ owner' = IF a = 0 THEN owner ELSE Own(a, size, "rx")
    /\ blocks' = Append(blocks, Block(Len(arenas) + 1, a, n, want, FALSE, 0))

allocateExecBlock(n) ==
  /\ ~aborted /\ ~call.on /\ Room
  /\ \/ ExecFromArena(n)
     \/ /\ FirstWithRoom("code", n) = {}
        /\ FromNewCodeArena(PageCeil(n), n, "exec")
  /\ UNCHANGED <<call, foreign, overwrote, aborted>>

(***************************************************************************)
(* allocateDataBlock searches the data arenas; its new arena is a code     *)
(* arena of the size asked for, which must pass CHECK_EQ(size % page, 0).  *)
(***************************************************************************)
DataFromArena(n) ==
  \E i \in FirstWithRoom("data", n) :
    /\ arenas' = Bump(i, n)
    /\ blocks' = Append(blocks, Block(i, arenas[i].cursor, n, "data", FALSE, 0))
    /\ UNCHANGED <<owner, aborted>>

allocateDataBlock(n) ==
  /\ AsksForData
  /\ ~aborted /\ ~call.on /\ Room
  /\ \/ DataFromArena(n)
     \/ /\ FirstWithRoom("data", n) = {}
        /\ n % PageSize # 0
        /\ aborted' = TRUE
        /\ UNCHANGED <<owner, arenas, blocks>>
     \/ /\ FirstWithRoom("data", n) = {}
        /\ n % PageSize = 0
        /\ FromNewCodeArena(n, n, "data")
        /\ UNCHANGED aborted
  /\ UNCHANGED <<call, foreign, overwrote>>

-----------------------------------------------------------------------------
(***************************************************************************)
(* The near search: the part of [lo, hi) within SearchRange of pos, if it  *)
(* holds n bytes.                                                          *)
(***************************************************************************)
MinValid(pos) == (pos - SearchRange) % AddrSpace
MaxValid(pos) == (pos + SearchRange) % AddrSpace

NearStart(lo, pos) == Higher(lo, MinValid(pos))

\* Mutant: the end of the reach is not looked at.
NearFits_Unclipped(lo, hi, n, pos) ==
  /\ hi >= MinValid(pos) /\ lo <= MaxValid(pos)
  /\ NearStart(lo, pos) < hi
  /\ hi - NearStart(lo, pos) >= n

NearFits(lo, hi, n, pos) ==
  /\ hi >= MinValid(pos) /\ lo <= MaxValid(pos)
  /\ NearStart(lo, pos) < Lower(hi, MaxValid(pos))
  /\ Lower(hi, MaxValid(pos)) - NearStart(lo, pos) >= n

NearInArena(i, n, pos) == NearFits(arenas[i].cursor, End(i), n, pos)

\* The loop over code arenas stops at the first that fits; the loop over data
\* arenas does not stop, and only the last arena counts.
DefaultArena(exec, n, pos) ==
  IF exec
  THEN {i \in Kind("code") :
          /\ NearInArena(i, n, pos)
          /\ \A j \in Kind("code") : NearInArena(j, n, pos) => i <= j}
  ELSE {i \in Kind("data") :
          /\ NearInArena(i, n, pos)
          /\ \A j \in Kind("data") : j <= i}

\* The block at a, after the placeholder that skips what is out of reach.
NearBlock(i, a, n, pos, exec) ==
  Block(i, a, n, IF exec THEN "exec" ELSE "data", TRUE, pos)

NearFromDefault(n, pos, exec) ==
  \E i \in DefaultArena(exec, n, pos) :
    /\ arenas' = [arenas EXCEPT ![i].cursor = NearStart(@, pos) + n]
    /\ blocks' = Append(blocks, NearBlock(i, NearStart(arenas[i].cursor, pos), n, pos, exec))
    /\ UNCHANGED call

\* The gaps between two mapped regions, in the order of the layout.
Gaps == {g \in Addr \X Addr :
           /\ g[1] < g[2]
           /\ g[1] # 0 /\ owner[g[1] - 1] # "free"
           /\ owner[g[2]] # "free"
           /\ \A x \in g[1]..(g[2] - 1) : owner[x] = "free"}
FirstGap(n, pos) ==
  {g \in Gaps : /\ NearFits(g[1], g[2], n, pos)
                /\ \A h \in Gaps : NearFits(h[1], h[2], n, pos) => g[1] <= h[1]}

NearSearch(n, pos, exec) ==
  \E g \in FirstGap(n, pos) :
    /\ call' = [on |-> TRUE, mem |-> NearStart(g[1], pos), size |-> n,
                pos |-> pos, exec |-> exec]
    /\ UNCHANGED <<arenas, blocks>>

\* allocateNearBlock up to the mmap; without a gap it returns nullptr.
allocateNearBlock(n, pos, exec) ==
  /\ ~aborted /\ ~call.on /\ Room
  /\ \/ NearFromDefault(n, pos, exec)
     \/ /\ DefaultArena(exec, n, pos) = {}
        /\ NearSearch(n, pos, exec)
  /\ UNCHANGED <<owner, foreign, overwrote, aborted>>

\* The pages mapped for a block of n bytes at a: up to and with the page of
\* the byte after the last one.
NearArenaSize(a, n) == PageFloor(a + n) - PageFloor(a) + PageSize

(***************************************************************************)
(* mmap(MAP_FIXED) of the pages chosen from the layout read before, which  *)
(* replaces whatever is mapped there by now; then the arena is registered  *)
(* and the block cut from it.                                              *)
(***************************************************************************)
NearMap ==
  /\ call.on
  /\ LET a == PageFloor(call.mem)
         n == NearArenaSize(call.mem, call.size)
     IN  /\ arenas' = Append(arenas,
                        [Arena(IF call.exec THEN "code" ELSE "data", a, n)
                           EXCEPT !.cursor = call.mem + call.size])
         /\ owner' = Own(a, n, IF call.exec THEN "rx" ELSE "rw")
         /\ overwrote' = (overwrote \/ \E x \in Span(a, n) : x \notin Addr \/ owner[x] # "free")
  /\ blocks' = Append(blocks, NearBlock(Len(arenas) + 1, call.mem, call.size, call.pos, call.exec))
  /\ call' = NoCall
  /\ UNCHANGED <<foreign, aborted>>

NearMapFails ==
  /\ call.on /\ CanFail
  /\ call' = NoCall
  /\ UNCHANGED <<owner, arenas, blocks, foreign, overwrote, aborted>>

\* Another thread of the process maps a page.
ForeignMap ==
  /\ ~aborted /\ foreign < MaxForeign
  /\ \E a \in FreeRuns(PageSize) : owner' = Own(a, PageSize, "foreign")
  /\ foreign' = foreign + 1
  /\ UNCHANGED <<arenas, blocks, call, overwrote, aborted>>

Next ==
  \/ \E n \in Sizes : allocateExecBlock(n) \/ allocateDataBlock(n)
  \/ \E n \in Sizes, pos \in Positions, exec \in BOOLEAN : allocateNearBlock(n, pos, exec)
  \/ NearMap
  \/ NearMapFails
  \/ ForeignMap

Spec == Init /\ [][Next]_vars

-----------------------------------------------------------------------------
TypeOK ==
  /\ owner \in [Addr -> {"free", "foreign", "rx", "rw"}]
  /\ arenas \in Seq([kind : {"code", "data"}, addr : Addr, size : Nat, cursor : Nat])
  /\ blocks \in Seq([arena : Nat, addr : Nat, size : Nat \ {0},
                     want : {"exec", "data"}, near : BOOLEAN, pos : Addr])
  /\ Len(blocks) <= MaxBlocks
  /\ \A k \in DOMAIN blocks : blocks[k].arena \in DOMAIN arenas
  /\ call \in [on : BOOLEAN, mem : Addr, size : Nat, pos : Addr, exec : BOOLEAN]
  /\ foreign \in 0..MaxForeign
  /\ overwrote \in BOOLEAN /\ aborted \in BOOLEAN

\* Every mmap so far succeeded and took only free memory.
Intact == ~overwrote /\ \A i \in DOMAIN arenas : arenas[i].addr # 0

Apart(a, m, b, n) == a + m <= b \/ b + n <= a

(***************************************************************************)
(* Two blocks handed out never share a byte, whichever of the allocators,  *)
(* arenas and searches they came from -- as long as mmap has kept its      *)
(* part: no failure taken for success, no fixed mapping over another.      *)
(***************************************************************************)
BlocksDisjoint ==
  Intact => \A j, k \in DOMAIN blocks :
              j # k => Apart(blocks[j].addr, blocks[j].size, blocks[k].addr, blocks[k].size)

(***************************************************************************)
(* A near block lies within the reach of the branch it was asked for, from *)
(* an arena as from a new mapping, also when pos - range wraps below zero. *)
(***************************************************************************)
NearInReach ==
  \A k \in DOMAIN blocks :
    blocks[k].near => /\ blocks[k].pos - SearchRange <= blocks[k].addr
                      /\ blocks[k].addr + blocks[k].size <= blocks[k].pos + SearchRange

(***************************************************************************)
(* Code written to an exec block can run and a near data block can be      *)
(* written: all their bytes have the access they were asked with.  (What   *)
(* allocateDataBlock returns comes from a code arena and is left out.)     *)
(***************************************************************************)
AccessAsAsked ==
  Intact => \A k \in DOMAIN blocks :
              blocks[k].want = "exec" \/ blocks[k].near =>
                \A x \in Span(blocks[k].addr, blocks[k].size) :
                  owner[x] = IF blocks[k].want = "exec" THEN "rx" ELSE "rw"

\* "unused memory from unused region": memory the near search maps was unused.
NeverOverwrites == ~overwrote
=============================================================================
