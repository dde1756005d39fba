------------------------------- MODULE Hooking -------------------------------
(***************************************************************************)
(* DobbyHook, DobbyInstrument and DobbyDestroy on 32-bit ARM, the ABI the  *)
(* app ships: the list of intercept entries, the routing that relocates a  *)
(* prologue and builds a trampoline, and DobbyCodePatch, which writes it   *)
(* over live code between two changes of the page permissions.             *)
(*                                                                         *)
(* Nothing in this code takes a lock, so a call is a sequence of steps and *)
(* the calls of several threads interleave.  Memory is a map from halfword *)
(* addresses to contents: <<0, a>> is the program's own code at a, <<k, i>>*)
(* the i-th halfword of the trampoline of the k-th hook.  Relocated code   *)
(* is represented by the code it re-executes.                              *)
(***************************************************************************)
EXTENDS Integers, Sequences, FiniteSets

CONSTANTS
  Callers,    \* threads that call the API
  Pages,      \* number of pages of code
  PageSize,   \* bytes per page
  InitPerm,   \* the permissions the loader gave the pages
  Targets,    \* functions passed to the API; odd addresses are Thumb functions
  Elsewhere,  \* other addresses passed to it: null, and where nothing is mapped
  JunkSizes,  \* what an uninitialised origin_insn_size may hold, in halfwords
  MaxHooks,   \* bound on the number of DobbyHook/DobbyInstrument calls
  CanFail     \* whether mmap may fail to give memory for relocated code

ASSUME PagesAssumption ==
  /\ Pages \in Nat \ {0}
  /\ PageSize \in Nat /\ PageSize % 2 = 0 /\ PageSize >= 12
  /\ InitPerm \in [0..(Pages - 1) -> {"rx", "rw"}]
\* Every target is followed by six mapped halfwords, the longest prologue.
ASSUME TargetsAssumption ==
  Targets \subseteq 2..(Pages * PageSize - 12)
ASSUME ElsewhereAssumption ==
  Elsewhere \subseteq {a \in Nat : a = 0 \/ a >= Pages * PageSize}
ASSUME BoundsAssumption ==
  JunkSizes \subseteq Nat /\ MaxHooks \in Nat /\ CanFail \in BOOLEAN

VARIABLES
  mem,        \* contents of every halfword
  perm,       \* permissions of every page
  entries,    \* Interceptor::entries
  pc, job,    \* where each caller is, and the locals of its call
  ret,        \* its last call and what that returned
  origin,     \* *origin_func of every hook
  made,       \* hooks made so far: their numbers are 1..made
  faulted     \* the process died of a write to a page it may not write

vars == <<mem, perm, entries, pc, job, ret, origin, made, faulted>>

Halfwords == {a \in 0..(Pages * PageSize - 1) : a % 2 = 0}
OrigMem   == [a \in Halfwords |-> <<0, a>>]
Junk      == <<0, -1>>
Hooks     == 1..MaxHooks

-----------------------------------------------------------------------------
(***************************************************************************)
(* Addresses, pages and blocks of halfwords.                               *)
(***************************************************************************)
\* Mutant: the Thumb bit stays in the address.
Strip_KeepsThumbBit(a) == a

Strip(a)      == IF a % 2 = 1 THEN a - 1 ELSE a
PageOf(a)     == a \div PageSize
Bytes(buf)    == 2 * Len(buf)
Read(a, n)    == [i \in 1..n |-> mem[a + 2 * (i - 1)]]
Covers(a, n)  == {h \in Halfwords : a <= h /\ h < a + 2 * n}
Patch(a, buf) == [h \in Halfwords |->
                    IF h \in Covers(a, Len(buf))
                    THEN buf[(h - a) \div 2 + 1] ELSE mem[h]]

\* mprotect of one page; that of an unmapped page fails, unnoticed.
Mprotect(p, access) ==
  perm' = [q \in 0..(Pages - 1) |-> IF q = p THEN access ELSE perm[q]]

\* The halfwords of a trampoline: ldr pc, [pc, #-4] and the address, or, in
\* Thumb, a nop when the address is not word aligned, ldr.w pc, [pc], address.
TrampSize(a, thumb) == IF thumb /\ a % 4 = 2 THEN 5 ELSE 4
Trampoline(k, n)    == [i \in 1..n |-> <<k, i>>]

\* Relocation stops at the first instruction boundary at or after the end of
\* the trampoline; a 32-bit Thumb instruction may straddle it.
OriginSizes(a, thumb) ==
  IF thumb THEN {TrampSize(a, thumb), TrampSize(a, thumb) + 1}
  ELSE {TrampSize(a, thumb)}

-----------------------------------------------------------------------------
(***************************************************************************)
(* Interceptor: a vector searched from the front.                          *)
(***************************************************************************)
Matches(a) == {i \in DOMAIN entries : entries[i].patched_addr = a}
Find(a)    == {i \in Matches(a) : \A j \in Matches(a) : i <= j}

Remove(a) ==
  IF Matches(a) = {} THEN entries
  ELSE [i \in 1..(Len(entries) - 1) |->
          IF \A j \in Matches(a) : i < j THEN entries[i] ELSE entries[i + 1]]

-----------------------------------------------------------------------------
NoEntry == [hook |-> 0, type |-> "none", patched_addr |-> 0, thumb_mode |-> FALSE,
            reloc |-> <<>>, origin_insns |-> <<>>]
NoJob   == [op |-> "none", entry |-> NoEntry, buf |-> <<>>, wants |-> FALSE, n |-> 0]

Init ==
  /\ mem = OrigMem
  /\ perm = InitPerm
  /\ entries = <<>>
  /\ pc = [t \in Callers |-> "idle"]
  /\ job = [t \in Callers |-> NoJob]
  /\ ret = [t \in Callers |-> [op |-> "none", at |-> 0, value |-> 0]]
  /\ origin = [k \in Hooks |-> "unset"]
  /\ made = 0
  /\ faulted = FALSE

Goto(t, l) == pc' = [pc EXCEPT ![t] = l]

\* The call op for the function at a returns v.
Return(t, op, a, v) ==
  /\ Goto(t, "idle")
  /\ job' = [job EXCEPT ![t] = NoJob]
  /\ ret' = [ret EXCEPT ![t] = [op |-> op, at |-> a, value |-> v]]

(***************************************************************************)
(* DobbyHook and DobbyInstrument up to the new entry.  A null address is   *)
(* refused; on Android the page of the address is made readable and        *)
(* executable, and an address where that fails is refused, as is one that  *)
(* is in the list.  The list holds stripped addresses and is searched for  *)
(* the address as given.  The entry's constructor sets thumb_mode for an   *)
(* odd address and leaves it uninitialised for an even one.                *)
(***************************************************************************)
\* Mutant: the list is not searched.
InterceptCall_NoCheck(t, type, a, wants) ==
  /\ pc[t] = "idle"
  /\ made < MaxHooks
  /\ a \in Targets
  /\ Mprotect(PageOf(a), "rx")
  /\ job' = [job EXCEPT ![t] =
               [op |-> type, wants |-> wants, n |-> 0,
                entry |-> [hook |-> made + 1, type |-> type,
                           patched_addr |-> Strip(a), thumb_mode |-> FALSE,
                           reloc |-> <<>>, origin_insns |-> <<>>],
                buf |-> Trampoline(made + 1, TrampSize(Strip(a), FALSE))]]
  /\ made' = made + 1
  /\ origin' = [origin EXCEPT ![made + 1] = IF wants THEN "unset" ELSE "unwanted"]
  /\ Goto(t, "relocate")
  /\ UNCHANGED <<mem, entries, ret, faulted>>

InterceptCall(t, type, a, wants) ==
  /\ pc[t] = "idle"
  /\ made < MaxHooks
  /\ a \in Targets
  /\ Mprotect(PageOf(a), "rx")
  /\ Matches(a) = {}
  /\ \E thumb \in (IF a % 2 = 1 THEN {TRUE} ELSE BOOLEAN) :
       job' = [job EXCEPT ![t] =
                 [op |-> type, wants |-> wants, n |-> 0,
                  entry |-> [hook |-> made + 1, type |-> type,
                             patched_addr |-> Strip(a), thumb_mode |-> thumb,
                             reloc |-> <<>>, origin_insns |-> <<>>],
                  buf |-> Trampoline(made + 1, TrampSize(Strip(a), thumb))]]
  /\ made' = made + 1
  /\ origin' = [origin EXCEPT ![made + 1] = IF wants THEN "unset" ELSE "unwanted"]
  /\ Goto(t, "relocate")
  /\ UNCHANGED <<mem, entries, ret, faulted>>

InterceptRefused(t, type, a) ==
  /\ pc[t] = "idle"
  /\ \/ a \in Elsewhere /\ UNCHANGED perm
     \/ /\ a \in Targets
        /\ Mprotect(PageOf(a), "rx")
        /\ Matches(a) # {}
  /\ Return(t, type, Strip(a), -1)
  /\ UNCHANGED <<mem, entries, origin, made, faulted>>

\* Mutant: the routing is committed before *origin_func is assigned.
AfterRouting_CommitFirst(t) == "unprotect"

\* *origin_func is assigned by DobbyHook only, and only if a pointer was given.
AfterRouting(t) == IF job[t].wants THEN "publish" ELSE "unprotect"

\* GenRelocateCodeAndBranch reads the prologue and writes its relocated copy.
Relocate(t) ==
  /\ pc[t] = "relocate"
  /\ LET e == job[t].entry IN
     \E n \in OriginSizes(e.patched_addr, e.thumb_mode) :
       job' = [job EXCEPT ![t].entry.reloc = Read(e.patched_addr, n)]
  /\ Goto(t, "save")
  /\ UNCHANGED <<mem, perm, entries, ret, origin, made, faulted>>

\* No memory: GenerateRelocatedCode returns false, which nobody looks at;
\* relocated_addr, origin_insns and its size stay as the heap left them.
RelocateFails(t) ==
  /\ pc[t] = "relocate"
  /\ CanFail
  /\ \E n \in JunkSizes :
       job' = [job EXCEPT ![t].entry.origin_insns = [i \in 1..n |-> Junk]]
  /\ Goto(t, AfterRouting(t))
  /\ UNCHANGED <<mem, perm, entries, ret, origin, made, faulted>>

\* Mutant: the original prologue is not saved.
SavePrologue_Missing(t) ==
  /\ pc[t] = "save"
  /\ Goto(t, AfterRouting(t))
  /\ UNCHANGED <<mem, perm, entries, job, ret, origin, made, faulted>>

\* "save original prologue": a second read of the same memory.
SavePrologue(t) ==
  /\ pc[t] = "save"
  /\ LET e == job[t].entry IN
     job' = [job EXCEPT ![t].entry.origin_insns = Read(e.patched_addr, Len(e.reloc))]
  /\ Goto(t, AfterRouting(t))
  /\ UNCHANGED <<mem, perm, entries, ret, origin, made, faulted>>

PublishOrigin(t) ==
  /\ pc[t] = "publish"
  /\ origin' = [origin EXCEPT ![job[t].entry.hook] =
                  IF job[t].entry.reloc = <<>> THEN "garbage" ELSE "relocated"]
  /\ Goto(t, "unprotect")
  /\ UNCHANGED <<mem, perm, entries, job, ret, made, faulted>>

(***************************************************************************)
(* DobbyCodePatch: mprotect rwx, memcpy, mprotect rx.  The pages are those *)
(* of the first byte and of the byte after the last one, changed one after *)
(* the other when they differ.                                             *)
(***************************************************************************)
FirstPage(t) == PageOf(job[t].entry.patched_addr)
EndPage(t)   == PageOf(job[t].entry.patched_addr + Bytes(job[t].buf))

\* Mutant: only the first page is made writable.
PatchUnprotect_FirstPage(t) ==
  /\ pc[t] = "unprotect"
  /\ Mprotect(FirstPage(t), "rwx")
  /\ Goto(t, "write")
  /\ UNCHANGED <<mem, entries, job, ret, origin, made, faulted>>

PatchUnprotect(t) ==
  /\ pc[t] = "unprotect"
  /\ Mprotect(FirstPage(t), "rwx")
  /\ Goto(t, IF FirstPage(t) # EndPage(t) THEN "unprotectEnd" ELSE "write")
  /\ UNCHANGED <<mem, entries, job, ret, origin, made, faulted>>

PatchUnprotectEnd(t) ==
  /\ pc[t] = "unprotectEnd"
  /\ Mprotect(EndPage(t), "rwx")
  /\ Goto(t, "write")
  /\ UNCHANGED <<mem, entries, job, ret, origin, made, faulted>>

\* The memcpy; a byte on a page that is not mapped or not writable kills the process.
PatchWrite(t) ==
  /\ pc[t] = "write"
  /\ LET a == job[t].entry.patched_addr
         b == job[t].buf
         writable == /\ a + Bytes(b) <= Pages * PageSize
                     /\ \A h \in Covers(a, Len(b)) : perm[PageOf(h)] \in {"rw", "rwx"}
     IN  \/ writable  /\ mem' = Patch(a, b) /\ UNCHANGED faulted
         \/ ~writable /\ faulted' = TRUE    /\ UNCHANGED mem
  /\ Goto(t, "protect")
  /\ UNCHANGED <<perm, entries, job, ret, origin, made>>

\* Where DobbyCodePatch returns to: DobbyDestroy, or Commit and then the caller's add.
AfterPatch(t) == IF job[t].op = "destroy" THEN "remove" ELSE "add"

\* Mutant: only the first page is made read-only again.
PatchProtect_FirstPage(t) ==
  /\ pc[t] = "protect"
  /\ Mprotect(FirstPage(t), "rx")
  /\ Goto(t, AfterPatch(t))
  /\ UNCHANGED <<mem, entries, job, ret, origin, made, faulted>>

PatchProtect(t) ==
  /\ pc[t] = "protect"
  /\ Mprotect(FirstPage(t), "rx")
  /\ Goto(t, IF FirstPage(t) # EndPage(t) THEN "protectEnd" ELSE AfterPatch(t))
  /\ UNCHANGED <<mem, entries, job, ret, origin, made, faulted>>

PatchProtectEnd(t) ==
  /\ pc[t] = "protectEnd"
  /\ Mprotect(EndPage(t), "rx")
  /\ Goto(t, AfterPatch(t))
  /\ UNCHANGED <<mem, entries, job, ret, origin, made, faulted>>

(***************************************************************************)
(* Interceptor::add: push_back reads the end of the vector and then stores *)
(* there; two threads may read the same end.                               *)
(***************************************************************************)
AddLoad(t) ==
  /\ pc[t] = "add"
  /\ job' = [job EXCEPT ![t].n = Len(entries)]
  /\ Goto(t, "store")
  /\ UNCHANGED <<mem, perm, entries, ret, origin, made, faulted>>

AddStore(t) ==
  /\ pc[t] = "store"
  /\ LET n == IF job[t].n <= Len(entries) THEN job[t].n ELSE Len(entries) IN
     entries' = SubSeq(entries, 1, n) \o <<job[t].entry>>
  /\ Return(t, job[t].op, job[t].entry.patched_addr, 0)
  /\ UNCHANGED <<mem, perm, origin, made, faulted>>

(***************************************************************************)
(* DobbyDestroy: the first entry with the stripped address is patched back *)
(* and removed.                                                            *)
(***************************************************************************)
DobbyDestroyCall(t, a) ==
  /\ pc[t] = "idle"
  /\ \/ /\ \E i \in Find(Strip(a)) :
             job' = [job EXCEPT ![t] =
                       [op |-> "destroy", entry |-> entries[i],
                        buf |-> entries[i].origin_insns, wants |-> FALSE, n |-> 0]]
        /\ Goto(t, "unprotect")
        /\ UNCHANGED ret
     \/ /\ Matches(Strip(a)) = {}
        /\ Return(t, "destroy", Strip(a), -1)
  /\ UNCHANGED <<mem, perm, entries, origin, made, faulted>>

RemoveEntry(t) ==
  /\ pc[t] = "remove"
  /\ entries' = Remove(job[t].entry.patched_addr)
  /\ Return(t, job[t].op, job[t].entry.patched_addr, 0)
  /\ UNCHANGED <<mem, perm, origin, made, faulted>>

-----------------------------------------------------------------------------
Step(t) ==
  \/ Relocate(t)
  \/ RelocateFails(t)
  \/ SavePrologue(t)
  \/ PublishOrigin(t)
  \/ PatchUnprotect(t)
  \/ PatchUnprotectEnd(t)
  \/ PatchWrite(t)
  \/ PatchProtect(t)
  \/ PatchProtectEnd(t)
  \/ AddLoad(t)
  \/ AddStore(t)
  \/ RemoveEntry(t)

Call(t, a) ==
  \/ \E wants \in BOOLEAN : InterceptCall(t, "hook", a, wants)
  \/ InterceptCall(t, "instrument", a, FALSE)
  \/ \E type \in {"hook", "instrument"} : InterceptRefused(t, type, a)
  \/ DobbyDestroyCall(t, a)

Next ==
  /\ ~faulted
  /\ \E t \in Callers : Step(t) \/ \E a \in Targets \cup Elsewhere : Call(t, a)

Spec == Init /\ [][Next]_vars

-----------------------------------------------------------------------------
PCs == {"idle", "relocate", "save", "publish", "unprotect", "unprotectEnd", "write",
        "protect", "protectEnd", "add", "store", "remove"}

TypeOK ==
  /\ DOMAIN mem = Halfwords
  /\ perm \in [0..(Pages - 1) -> {"rx", "rw", "rwx"}]
  /\ pc \in [Callers -> PCs]
  /\ \A t \in Callers :
       /\ job[t].op \in {"none", "hook", "instrument", "destroy"}
       /\ job[t].entry.patched_addr \in Halfwords
  /\ origin \in [Hooks -> {"unset", "unwanted", "relocated", "garbage"}]
  /\ made \in 0..MaxHooks
  /\ faulted \in BOOLEAN

Idle == \A t \in Callers : pc[t] = "idle"

(***************************************************************************)
(* W^X: a page is writable and executable only while some thread is inside *)
(* DobbyCodePatch, has made that page writable and not yet read-only,      *)
(* whatever the interleaving of the unlocked calls.                        *)
(***************************************************************************)
Unprotected(t) ==
  {p \in 0..(Pages - 1) :
     \/ p = FirstPage(t) /\ pc[t] \in {"unprotectEnd", "write", "protect"}
     \/ p = EndPage(t)   /\ pc[t] \in {"write", "protect", "protectEnd"}}

WritableOnlyWhilePatching ==
  \A p \in 0..(Pages - 1) : perm[p] = "rwx" => \E t \in Callers : p \in Unprotected(t)

(***************************************************************************)
(* Code that can be entered is ready: while the first halfword of a hook's *)
(* trampoline is in memory -- written by DobbyHook, or put back by the     *)
(* DobbyDestroy of a hook made on top of it -- the *origin_func its        *)
(* replacement calls has been assigned.                                    *)
(***************************************************************************)
HookReadyWhenActive ==
  \A h \in Halfwords : mem[h][1] # 0 => origin[mem[h][1]] # "unset"

\* Calls one at a time on ARM functions whose prologues do not overlap, and memory for
\* their relocated code.
SerialCalls ==
  /\ \E t \in Callers : Callers = {t}
  /\ ~CanFail
  /\ \A a \in Targets \cup Elsewhere : a % 2 = 0
  /\ \A a, b \in Targets : a # b => a + 12 <= b \/ b + 12 <= a

(***************************************************************************)
(* With calls one at a time and targets that do not overlap, memory and    *)
(* the entry list agree between calls: a halfword holds the trampoline of  *)
(* the entry that covers it and the program's own code otherwise -- so     *)
(* destroying every entry restores the program.                            *)
(***************************************************************************)
Expected(h) ==
  LET live == {i \in DOMAIN entries :
                 LET e == entries[i]
                 IN  h \in Covers(e.patched_addr, TrampSize(e.patched_addr, e.thumb_mode))}
  IN  IF live = {} THEN {<<0, h>>}
      ELSE {<<entries[i].hook, (h - entries[i].patched_addr) \div 2 + 1>> : i \in live}

MemoryMatchesEntries ==
  Idle => \A h \in Halfwords : mem[h] \in Expected(h)

\* The relocated copy of a live hook re-executes the program's own code and
\* never another trampoline, and the saved prologue is that code.
OriginRunsProgramCode ==
  \A i \in DOMAIN entries :
    LET e == entries[i] IN
    /\ e.reloc = e.origin_insns
    /\ \A j \in DOMAIN e.reloc : e.reloc[j] = <<0, e.patched_addr + 2 * (j - 1)>>

\* "%p already been hooked.": an address has at most one entry.
OneEntryPerAddress ==
  \A i, j \in DOMAIN entries :
    entries[i].patched_addr = entries[j].patched_addr => i = j

\* No call of the API writes to a page that is not writable.
NoFault == ~faulted

(***************************************************************************)
(* Between calls a page of code has the loader's permission again, and a   *)
(* data page has lost its own only if a patch touches it: it holds the     *)
(* byte behind a patch, or a function.                                     *)
(***************************************************************************)
Touched(a) ==
  {PageOf(a)} \cup
  {PageOf(Strip(a) + 2 * n) : n \in UNION {OriginSizes(Strip(a), thumb) : thumb \in BOOLEAN}}

CodePagesRestored ==
  Idle => \A p \in 0..(Pages - 1) :
    perm[p] # InitPerm[p] => perm[p] = "rx" /\ \E a \in Targets : p \in Touched(a)

\* "restore page permission": with every hook destroyed each page has the permission
\* it had before the first.
PermissionsRestored == Idle /\ entries = <<>> => perm = InitPerm

\* "destroy and restore code patch": with every hook destroyed the program's
\* code is back.
DestroyRestores == Idle /\ entries = <<>> => mem = OrigMem

(***************************************************************************)
(* With calls one at a time these functions are the table of HookTable:    *)
(* who answers a function is what stands at its address in memory, while   *)
(* a call is accepted or refused by the list.                              *)
(***************************************************************************)
Sole == CHOOSE t \in Callers : TRUE

CallInProgress ==
  IF pc[Sole] = "idle"
  THEN [op |-> "none", at |-> 0, hook |-> 0, wants |-> FALSE, stage |-> "none"]
  ELSE [op |-> job[Sole].op, at |-> job[Sole].entry.patched_addr,
        hook |-> job[Sole].entry.hook, wants |-> job[Sole].wants,
        stage |-> IF pc[Sole] \in {"protect", "protectEnd", "add", "store", "remove"}
                  THEN "done" ELSE "asked"]

Table == INSTANCE HookTable
  WITH Functions <- Targets,
       table     <- [f \in Targets |-> mem[f][1]],
       original  <- {k \in Hooks : origin[k] = "relocated"},
       call      <- CallInProgress,
       answer    <- ret[Sole]

ImplementsHookTable == Table!Spec
=============================================================================
