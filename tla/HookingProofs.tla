---------------------------- MODULE HookingProofs ----------------------------
(***************************************************************************)
(* Proofs about Hooking for every set of callers, number and size of pages,*)
(* set of targets and number of hooks: first what holds although no call   *)
(* of the API takes a lock; then, for calls that come one at a time and    *)
(* ARM targets whose prologues do not overlap, that memory, the entry list *)
(* and the permissions agree between calls and that the three functions    *)
(* implement HookTable.                                                    *)
(***************************************************************************)
EXTENDS Hooking, SequenceTheorems, TLAPS

-----------------------------------------------------------------------------
(* The inductive invariant. *)

Content  == Int \X Int
EntrySet == [hook : 0..MaxHooks, type : {"none", "hook", "instrument"},
             patched_addr : Halfwords, thumb_mode : BOOLEAN,
             reloc : Seq(Content), origin_insns : Seq(Content)]
JobSet   == [op : {"none", "hook", "instrument", "destroy"}, entry : EntrySet,
             buf : Seq(Content), wants : BOOLEAN, n : Nat]

\* TypeOK in full.
Shape ==
  /\ TypeOK
  /\ mem \in [Halfwords -> Content]
  /\ entries \in Seq(EntrySet)
  /\ job \in [Callers -> JobSet]

\* A prologue that is read lies in memory.
Inside ==
  \A t \in Callers :
    /\ pc[t] \in {"relocate", "save"} => job[t].entry.patched_addr + 12 <= Pages * PageSize
    /\ pc[t] = "save" => Len(job[t].entry.reloc) \in 4..6

\* A halfword that may be executed: of the program, or of one of the m hooks
\* made so far whose *origin_func is decided in o.
Good(c, m, o)    == c[1] = 0 \/ (c[1] \in 1..m /\ o[c[1]] # "unset")
GoodSeq(s, m, o) == \A i \in DOMAIN s : Good(s[i], m, o)

\* Whatever thread t may write to memory is good when it is written.
ThreadReady(t) ==
  /\ GoodSeq(job[t].entry.origin_insns, made, origin)
  /\ pc[t] \in {"relocate", "save", "publish"} =>
       /\ job[t].entry.hook \in 1..made
       /\ \A i \in DOMAIN job[t].buf : job[t].buf[i][1] = job[t].entry.hook
       /\ ~job[t].wants => origin[job[t].entry.hook] # "unset"
  /\ pc[t] \in {"unprotect", "unprotectEnd", "write", "protect", "protectEnd"} =>
       GoodSeq(job[t].buf, made, origin)

MemReady     == \A h \in Halfwords : Good(mem[h], made, origin)
EntriesReady == \A i \in DOMAIN entries : GoodSeq(entries[i].origin_insns, made, origin)
Ready        == MemReady /\ EntriesReady /\ \A t \in Callers : ThreadReady(t)

IndInv == Shape /\ Inside /\ Ready /\ WritableOnlyWhilePatching

-----------------------------------------------------------------------------
(* Addresses and sequences. *)

\* A target without its Thumb bit is a halfword with a prologue behind it.
LEMMA StripType ==
  ASSUME NEW a \in Targets
  PROVE  /\ a \in Nat
         /\ Strip(a) \in Halfwords
         /\ Strip(a) + 12 <= Pages * PageSize
<1>1. PICK z \in Nat : z = Pages * PageSize
  BY PagesAssumption
<1>2. a \in Int /\ 0 <= a /\ a + 12 <= z
  BY <1>1, TargetsAssumption
<1>3. Strip(a) \in Int /\ 0 <= Strip(a) /\ Strip(a) + 12 <= z /\ Strip(a) % 2 = 0
  BY <1>2 DEF Strip
<1> QED
  BY <1>1, <1>2, <1>3 DEF Halfwords

\* Only functions are intercepted.
LEMMA InterceptTarget ==
  ASSUME NEW t, NEW type, NEW a, NEW wants, InterceptCall(t, type, a, wants)
  PROVE  a \in Targets
  BY DEF InterceptCall

\* mprotect leaves every page with a permission.
LEMMA MprotectType ==
  ASSUME Shape, NEW p, NEW access \in {"rx", "rwx"}, Mprotect(p, access)
  PROVE  perm' \in [0..(Pages - 1) -> {"rx", "rw", "rwx"}]
  BY DEF Shape, TypeOK, Mprotect

\* A function on 1..n with values in S is a sequence over S.
LEMMA IsSeq ==
  ASSUME NEW S, NEW n \in Nat, NEW f \in [1..n -> S]
  PROVE  f \in Seq(S) /\ Len(f) = n /\ DOMAIN f = 1..n
  OBVIOUS

\* What is read of a prologue are halfwords of memory.
LEMMA ReadType ==
  ASSUME Shape, NEW a \in Halfwords, NEW n \in 0..6, a + 12 <= Pages * PageSize
  PROVE  /\ Read(a, n) \in Seq(Content) /\ Len(Read(a, n)) = n /\ DOMAIN Read(a, n) = 1..n
         /\ \A i \in 1..n : \E h \in Halfwords : Read(a, n)[i] = mem[h]
<1>1. PICK z \in Nat : z = Pages * PageSize
  BY PagesAssumption
<1>2. \A i \in 1..n : a + 2 * (i - 1) \in Halfwords
  BY <1>1 DEF Halfwords
<1>3. Read(a, n) \in [1..n -> Content]
  BY <1>2 DEF Read, Shape
<1>4. Read(a, n) \in Seq(Content) /\ Len(Read(a, n)) = n /\ DOMAIN Read(a, n) = 1..n
  BY <1>3, IsSeq
<1> QED
  BY <1>2, <1>4 DEF Read

\* A trampoline is made of halfwords of its own hook and is at most five long.
LEMMA TrampolineType ==
  ASSUME NEW k \in Nat, NEW a \in Nat, NEW b \in BOOLEAN
  PROVE  /\ Trampoline(k, TrampSize(a, b)) \in Seq(Content)
         /\ \A i \in DOMAIN Trampoline(k, TrampSize(a, b)) : Trampoline(k, TrampSize(a, b))[i][1] = k
         /\ OriginSizes(a, b) \subseteq 4..6
<1>1. TrampSize(a, b) \in 4..5
  BY DEF TrampSize
<1>2. Trampoline(k, TrampSize(a, b)) \in [1..TrampSize(a, b) -> Content]
  BY <1>1 DEF Trampoline, Content
<1>3. Trampoline(k, TrampSize(a, b)) \in Seq(Content)
  BY <1>1, <1>2, IsSeq
<1>4. \A i \in DOMAIN Trampoline(k, TrampSize(a, b)) : Trampoline(k, TrampSize(a, b))[i][1] = k
  BY <1>1 DEF Trampoline
<1> QED
  BY <1>1, <1>3, <1>4 DEF OriginSizes

\* What is patched is a halfword of the buffer.
LEMMA PatchType ==
  ASSUME Shape, NEW a \in Halfwords, NEW b \in Seq(Content)
  PROVE  /\ Patch(a, b) \in [Halfwords -> Content]
         /\ \A h \in Halfwords : Patch(a, b)[h] = mem[h] \/ \E i \in DOMAIN b : Patch(a, b)[h] = b[i]
<1>1. ASSUME NEW h \in Covers(a, Len(b))
      PROVE  (h - a) \div 2 + 1 \in DOMAIN b
  <2>1. h \in Int /\ a \in Int /\ a <= h /\ h < a + 2 * Len(b) /\ h % 2 = 0 /\ a % 2 = 0
    BY PagesAssumption DEF Covers, Halfwords
  <2>2. Len(b) \in Nat /\ DOMAIN b = 1..Len(b)
    OBVIOUS
  <2> QED
    BY <2>1, <2>2
<1>2. \A h \in Halfwords : Patch(a, b)[h] = mem[h] \/ \E i \in DOMAIN b : Patch(a, b)[h] = b[i]
  BY <1>1 DEF Patch
<1>3. \A i \in DOMAIN b : b[i] \in Content
  OBVIOUS
<1> QED
  BY <1>2, <1>3 DEF Patch, Shape

\* Erasing an entry leaves entries that were there.
LEMMA RemoveType ==
  ASSUME Shape, NEW a
  PROVE  /\ Remove(a) \in Seq(EntrySet)
         /\ \A i \in DOMAIN Remove(a) : \E j \in DOMAIN entries : Remove(a)[i] = entries[j]
<1>1. CASE Matches(a) = {}
  BY <1>1 DEF Remove, Shape
<1>2. CASE Matches(a) # {}
  <2>0. entries \in Seq(EntrySet) /\ Len(entries) \in Nat /\ DOMAIN entries = 1..Len(entries)
    BY DEF Shape
  <2>1. Len(entries) # 0
    BY <1>2, <2>0 DEF Matches
  <2>2. \A i \in 1..(Len(entries) - 1) : i \in DOMAIN entries /\ i + 1 \in DOMAIN entries
    BY <2>0
  <2>3. Remove(a) = [i \in 1..(Len(entries) - 1) |->
                       IF \A j \in Matches(a) : i < j THEN entries[i] ELSE entries[i + 1]]
    BY <1>2 DEF Remove
  <2>4. \A i \in 1..(Len(entries) - 1) : \E j \in DOMAIN entries : Remove(a)[i] = entries[j]
    BY <2>2, <2>3
  <2>5. \A j \in DOMAIN entries : entries[j] \in EntrySet
    BY <2>0
  <2>6. Remove(a) \in [1..(Len(entries) - 1) -> EntrySet]
    BY <2>3, <2>4, <2>5
  <2>7. Len(entries) - 1 \in Nat
    BY <2>0, <2>1
  <2> QED
    BY <2>4, <2>6, <2>7, IsSeq
<1> QED
  BY <1>1, <1>2

\* push_back stores behind what it read as the end.
LEMMA PushType ==
  ASSUME Shape, NEW e \in EntrySet, NEW m \in Nat, m <= Len(entries)
  PROVE  /\ SubSeq(entries, 1, m) \o <<e>> \in Seq(EntrySet)
         /\ \A i \in DOMAIN (SubSeq(entries, 1, m) \o <<e>>) :
              \/ (SubSeq(entries, 1, m) \o <<e>>)[i] = e
              \/ \E j \in DOMAIN entries : (SubSeq(entries, 1, m) \o <<e>>)[i] = entries[j]
<1>1. entries \in Seq(EntrySet) /\ Len(entries) \in Nat /\ DOMAIN entries = 1..Len(entries)
  BY DEF Shape
<1>2. /\ SubSeq(entries, 1, m) \in Seq(EntrySet) /\ Len(SubSeq(entries, 1, m)) = m
      /\ \A i \in 1..m : SubSeq(entries, 1, m)[i] = entries[i]
  BY <1>1
<1>3. <<e>> \in Seq(EntrySet) /\ Len(<<e>>) = 1 /\ <<e>>[1] = e
  OBVIOUS
<1> DEFINE s == SubSeq(entries, 1, m)
<1> HIDE DEF s
<1>4. s \o <<e>> \in Seq(EntrySet) /\ Len(s \o <<e>>) = m + 1 /\ DOMAIN (s \o <<e>>) = 1..(m + 1)
  BY <1>2, <1>3 DEF s
<1>5. \A i \in 1..(m + 1) : (s \o <<e>>)[i] = IF i <= m THEN s[i] ELSE e
  BY <1>2, <1>3 DEF s
<1> QED
  BY <1>1, <1>2, <1>4, <1>5 DEF s

-----------------------------------------------------------------------------
(* Types. *)

\* Changes of one thread's job keep the types.
LEMMA ReturnType ==
  ASSUME Shape, NEW t \in Callers, NEW op, NEW a, NEW v, Return(t, op, a, v)
  PROVE  job' \in [Callers -> JobSet] /\ pc' \in [Callers -> PCs]
<1>1. NoJob \in JobSet
  <2>1. <<>> \in Seq(Content)
    OBVIOUS
  <2>2. 0 \in Halfwords
    BY PagesAssumption DEF Halfwords
  <2>3. 0 \in 0..MaxHooks
    BY BoundsAssumption
  <2> QED
    BY <2>1, <2>2, <2>3 DEF NoJob, NoEntry, JobSet, EntrySet
<1> QED
  BY <1>1 DEF Return, Goto, Shape, TypeOK, PCs

\* What TypeOK asks of jobs follows from their type.
LEMMA ShapeFrom ==
  ASSUME mem' \in [Halfwords -> Content], entries' \in Seq(EntrySet),
         job' \in [Callers -> JobSet], pc' \in [Callers -> PCs],
         perm' \in [0..(Pages - 1) -> {"rx", "rw", "rwx"}],
         origin' \in [Hooks -> {"unset", "unwanted", "relocated", "garbage"}],
         made' \in 0..MaxHooks, faulted' \in BOOLEAN
  PROVE  Shape'
  BY DEF Shape, TypeOK, JobSet, EntrySet

\* The locals of a new DobbyHook or DobbyInstrument call.
LEMMA NewJobType ==
  ASSUME Shape, NEW type \in {"hook", "instrument"}, NEW a \in Targets,
         NEW wants \in BOOLEAN, NEW thumb \in BOOLEAN, made < MaxHooks
  PROVE  [op |-> type, wants |-> wants, n |-> 0,
          entry |-> [hook |-> made + 1, type |-> type,
                     patched_addr |-> Strip(a), thumb_mode |-> thumb,
                     reloc |-> <<>>, origin_insns |-> <<>>],
          buf |-> Trampoline(made + 1, TrampSize(Strip(a), thumb))] \in JobSet
<1>1. made \in Nat /\ MaxHooks \in Nat /\ made + 1 \in 0..MaxHooks /\ made + 1 \in Nat
  BY BoundsAssumption DEF Shape, TypeOK
<1>2. Strip(a) \in Halfwords /\ Strip(a) \in Nat
  BY StripType, PagesAssumption DEF Halfwords
<1>3. Trampoline(made + 1, TrampSize(Strip(a), thumb)) \in Seq(Content)
  BY <1>1, <1>2, TrampolineType
<1>4. <<>> \in Seq(Content)
  OBVIOUS
<1> QED
  BY <1>1, <1>2, <1>3, <1>4 DEF JobSet, EntrySet

\* The two updates of an entry under construction.
LEMMA SetReloc ==
  ASSUME NEW j \in JobSet, NEW r \in Seq(Content)
  PROVE  [j EXCEPT !.entry.reloc = r] \in JobSet
<1>1. [j.entry EXCEPT !.reloc = r] \in EntrySet
  BY DEF JobSet, EntrySet
<1> QED
  BY <1>1 DEF JobSet

\* The same for the saved prologue.
LEMMA SetOriginInsns ==
  ASSUME NEW j \in JobSet, NEW r \in Seq(Content)
  PROVE  [j EXCEPT !.entry.origin_insns = r] \in JobSet
<1>1. [j.entry EXCEPT !.origin_insns = r] \in EntrySet
  BY DEF JobSet, EntrySet
<1> QED
  BY <1>1 DEF JobSet

\* Every step keeps the types.
LEMMA StepShape ==
  ASSUME Shape, Inside, Next
  PROVE  Shape'
<1> USE DEF Shape, TypeOK, Goto
<1>1. ASSUME NEW t \in Callers, NEW type \in {"hook", "instrument"}, NEW a \in Targets,
             NEW wants \in BOOLEAN, InterceptCall(t, type, a, wants)
      PROVE  Shape'
  <2>1. PICK thumb \in BOOLEAN :
          job' = [job EXCEPT ![t] =
                 [op |-> type, wants |-> wants, n |-> 0,
                  entry |-> [hook |-> made + 1, type |-> type,
                             patched_addr |-> Strip(a), thumb_mode |-> thumb,
                             reloc |-> <<>>, origin_insns |-> <<>>],
                  buf |-> Trampoline(made + 1, TrampSize(Strip(a), thumb))]]
    BY <1>1 DEF InterceptCall
  <2>2. made < MaxHooks
    BY <1>1 DEF InterceptCall
  <2>3. job' \in [Callers -> JobSet]
    BY <2>1, <2>2, NewJobType
  <2>4. made' \in 0..MaxHooks
    BY <1>1, BoundsAssumption DEF InterceptCall
  <2>5. /\ perm' \in [0..(Pages - 1) -> {"rx", "rw", "rwx"}]
        /\ origin' \in [Hooks -> {"unset", "unwanted", "relocated", "garbage"}]
        /\ pc' \in [Callers -> PCs]
    BY <1>1, MprotectType DEF InterceptCall, PCs
  <2>6. UNCHANGED <<mem, entries, ret, faulted>>
    BY <1>1 DEF InterceptCall
  <2> HIDE DEF Goto
  <2> QED
    BY <2>3, <2>4, <2>5, <2>6, ShapeFrom
<1>2. ASSUME NEW t \in Callers, NEW type, NEW a, InterceptRefused(t, type, a)
      PROVE  Shape'
  <2>1. perm' \in [0..(Pages - 1) -> {"rx", "rw", "rwx"}] /\ Return(t, type, Strip(a), -1)
    BY <1>2, MprotectType DEF InterceptRefused
  <2>2. UNCHANGED <<mem, entries, origin, made, faulted>>
    BY <1>2 DEF InterceptRefused
  <2> QED
    BY <2>1, <2>2, ReturnType, ShapeFrom
<1>3. ASSUME NEW t \in Callers, NEW a, DobbyDestroyCall(t, a)
      PROVE  Shape'
  <2>1. UNCHANGED <<mem, perm, entries, origin, made, faulted>>
    BY <1>3 DEF DobbyDestroyCall
  <2>2. CASE Return(t, "destroy", Strip(a), -1)
    BY <2>1, <2>2, ReturnType, ShapeFrom
  <2>3. ASSUME NEW i \in Find(Strip(a)), Goto(t, "unprotect"),
               job' = [job EXCEPT ![t] =
                       [op |-> "destroy", entry |-> entries[i],
                        buf |-> entries[i].origin_insns, wants |-> FALSE, n |-> 0]]
        PROVE  Shape'
    <3>1. i \in DOMAIN entries
      BY DEF Find, Matches
    <3>2. entries[i] \in EntrySet
      BY <3>1
    <3>3. [op |-> "destroy", entry |-> entries[i],
           buf |-> entries[i].origin_insns, wants |-> FALSE, n |-> 0] \in JobSet
      BY <3>2 DEF JobSet, EntrySet
    <3>4. job' \in [Callers -> JobSet]
      BY <2>3, <3>3
    <3>5. pc' \in [Callers -> PCs]
      BY <2>3 DEF PCs
    <3> QED
      BY <2>1, <3>4, <3>5, ShapeFrom
  <2> QED
    BY <1>3, <2>2, <2>3 DEF DobbyDestroyCall
<1>4. ASSUME NEW t \in Callers, Relocate(t)
      PROVE  Shape'
  <2> DEFINE e == job[t].entry
  <2>1. PICK n \in OriginSizes(e.patched_addr, e.thumb_mode) :
          job' = [job EXCEPT ![t].entry.reloc = Read(e.patched_addr, n)]
    BY <1>4 DEF Relocate
  <2>2. e \in EntrySet /\ e.patched_addr \in Halfwords /\ e.patched_addr \in Nat
    BY PagesAssumption DEF JobSet, EntrySet, Halfwords
  <2>3. n \in 0..6
    BY <2>2, TrampolineType DEF EntrySet
  <2>4. Read(e.patched_addr, n) \in Seq(Content)
    BY <1>4, <2>2, <2>3, ReadType DEF Relocate, Inside
  <2>5. job' \in [Callers -> JobSet]
    BY <2>1, <2>4, SetReloc
  <2>6. UNCHANGED <<mem, perm, entries, ret, origin, made, faulted>> /\ pc' \in [Callers -> PCs]
    BY <1>4 DEF Relocate, PCs
  <2> QED
    BY <2>5, <2>6, ShapeFrom
<1>5. ASSUME NEW t \in Callers, RelocateFails(t)
      PROVE  Shape'
  <2> DEFINE Leftover(n) == [i \in 1..n |-> Junk]
  <2>1. PICK n \in JunkSizes : job' = [job EXCEPT ![t].entry.origin_insns = Leftover(n)]
    BY <1>5 DEF RelocateFails
  <2>2. Leftover(n) \in Seq(Content)
    <3>1. Junk \in Content /\ n \in Nat
      BY BoundsAssumption DEF Junk, Content
    <3>2. Leftover(n) \in [1..n -> Content]
      BY <3>1
    <3> QED
      BY <3>1, <3>2, IsSeq
  <2>3. job' \in [Callers -> JobSet]
    BY <2>1, <2>2, SetOriginInsns
  <2>4. UNCHANGED <<mem, perm, entries, ret, origin, made, faulted>> /\ pc' \in [Callers -> PCs]
    BY <1>5 DEF RelocateFails, PCs, AfterRouting
  <2> QED
    BY <2>3, <2>4, ShapeFrom
<1>6. ASSUME NEW t \in Callers, SavePrologue(t)
      PROVE  Shape'
  <2> DEFINE e == job[t].entry
  <2>1. job' = [job EXCEPT ![t].entry.origin_insns = Read(e.patched_addr, Len(e.reloc))]
    BY <1>6 DEF SavePrologue
  <2>2. e.patched_addr \in Halfwords
    BY DEF JobSet, EntrySet
  <2>3. Len(e.reloc) \in 0..6
    BY <1>6 DEF SavePrologue, Inside
  <2>4. Read(e.patched_addr, Len(e.reloc)) \in Seq(Content)
    BY <1>6, <2>2, <2>3, ReadType DEF SavePrologue, Inside
  <2>5. job' \in [Callers -> JobSet]
    BY <2>1, <2>4, SetOriginInsns
  <2>6. UNCHANGED <<mem, perm, entries, ret, origin, made, faulted>> /\ pc' \in [Callers -> PCs]
    BY <1>6 DEF SavePrologue, PCs, AfterRouting
  <2> QED
    BY <2>5, <2>6, ShapeFrom
<1>7. ASSUME NEW t \in Callers, PublishOrigin(t)
      PROVE  Shape'
  BY <1>7, ShapeFrom DEF PublishOrigin, PCs
<1>8. ASSUME NEW t \in Callers,
             \/ PatchUnprotect(t) \/ PatchUnprotectEnd(t) \/ PatchProtect(t) \/ PatchProtectEnd(t)
      PROVE  Shape'
  <2>1. PICK p : Mprotect(p, "rx") \/ Mprotect(p, "rwx")
    <3>1. \/ Mprotect(FirstPage(t), "rx") \/ Mprotect(FirstPage(t), "rwx")
          \/ Mprotect(EndPage(t), "rx") \/ Mprotect(EndPage(t), "rwx")
      BY <1>8 DEF PatchUnprotect, PatchUnprotectEnd, PatchProtect, PatchProtectEnd
    <3> QED
      BY <3>1
  <2>2. UNCHANGED <<mem, entries, job, ret, origin, made, faulted>>
    BY <1>8 DEF PatchUnprotect, PatchUnprotectEnd, PatchProtect, PatchProtectEnd
  <2>3. PICK l \in PCs : Goto(t, l)
    <3>1. {"unprotectEnd", "write", "protectEnd", "remove", "add"} \subseteq PCs
      BY DEF PCs
    <3> QED
      BY <1>8, <3>1 DEF PatchUnprotect, PatchUnprotectEnd, PatchProtect, PatchProtectEnd, AfterPatch
  <2>4. pc' \in [Callers -> PCs]
    BY <2>3
  <2>5. perm' \in [0..(Pages - 1) -> {"rx", "rw", "rwx"}]
    BY <2>1, MprotectType
  <2> QED
    BY <2>2, <2>4, <2>5, ShapeFrom
<1>9. ASSUME NEW t \in Callers, PatchWrite(t)
      PROVE  Shape'
  <2>1. \/ mem' = Patch(job[t].entry.patched_addr, job[t].buf) /\ UNCHANGED faulted
        \/ faulted' = TRUE /\ UNCHANGED mem
    BY <1>9 DEF PatchWrite
  <2>2. job[t].entry.patched_addr \in Halfwords /\ job[t].buf \in Seq(Content)
    BY DEF JobSet, EntrySet
  <2>3. mem' \in [Halfwords -> Content] /\ faulted' \in BOOLEAN
    BY <2>1, <2>2, PatchType
  <2>4. UNCHANGED <<perm, entries, job, ret, origin, made>> /\ pc' \in [Callers -> PCs]
    BY <1>9 DEF PatchWrite, PCs
  <2> QED
    BY <2>3, <2>4, ShapeFrom
<1>10. ASSUME NEW t \in Callers, AddLoad(t)
       PROVE  Shape'
  <2>1. Len(entries) \in Nat
    OBVIOUS
  <2>2. job' \in [Callers -> JobSet]
    BY <1>10, <2>1 DEF AddLoad, JobSet
  <2>3. UNCHANGED <<mem, perm, entries, ret, origin, made, faulted>> /\ pc' \in [Callers -> PCs]
    BY <1>10 DEF AddLoad, PCs
  <2> QED
    BY <2>2, <2>3, ShapeFrom
<1>11. ASSUME NEW t \in Callers, AddStore(t)
       PROVE  Shape'
  <2>1. PICK m \in Nat : m <= Len(entries) /\ entries' = SubSeq(entries, 1, m) \o <<job[t].entry>>
    <3>1. job[t].n \in Nat /\ Len(entries) \in Nat
      BY DEF JobSet
    <3> DEFINE m == IF job[t].n <= Len(entries) THEN job[t].n ELSE Len(entries)
    <3>2. m \in Nat /\ m <= Len(entries)
      BY <3>1
    <3>3. entries' = SubSeq(entries, 1, m) \o <<job[t].entry>>
      BY <1>11 DEF AddStore
    <3> QED
      BY <3>2, <3>3
  <2>2. job[t].entry \in EntrySet
    BY DEF JobSet
  <2>3. entries' \in Seq(EntrySet)
    BY <2>1, <2>2, PushType
  <2>4. UNCHANGED <<mem, perm, origin, made, faulted>> /\ Return(t, job[t].op, job[t].entry.patched_addr, 0)
    BY <1>11 DEF AddStore
  <2> QED
    BY <2>3, <2>4, ReturnType, ShapeFrom
<1>12. ASSUME NEW t \in Callers, RemoveEntry(t)
       PROVE  Shape'
  <2>1. UNCHANGED <<mem, perm, origin, made, faulted>> /\ Return(t, job[t].op, job[t].entry.patched_addr, 0)
    BY <1>12 DEF RemoveEntry
  <2>2. entries' \in Seq(EntrySet)
    BY <1>12, RemoveType DEF RemoveEntry
  <2> QED
    BY <2>1, <2>2, ReturnType, ShapeFrom
<1> QED
  BY <1>1, <1>2, <1>3, <1>4, <1>5, <1>6, <1>7, <1>8, <1>9, <1>10, <1>11, <1>12, InterceptTarget
     DEF Next, Step, Call

-----------------------------------------------------------------------------
(* Reads stay inside memory. *)

\* Every step keeps reads inside memory.
LEMMA StepInside ==
  ASSUME Shape, Inside, Next
  PROVE  Inside'
<1> USE DEF Inside, Goto
<1>0. pc \in [Callers -> PCs] /\ job \in [Callers -> JobSet]
  BY DEF Shape, TypeOK
<1>1. ASSUME NEW t \in Callers, NEW type \in {"hook", "instrument"}, NEW a \in Targets,
             NEW wants \in BOOLEAN, InterceptCall(t, type, a, wants)
      PROVE  Inside'
  BY <1>0, <1>1, StripType DEF InterceptCall
<1>2. ASSUME NEW t \in Callers, NEW type, NEW a,
             InterceptRefused(t, type, a) \/ DobbyDestroyCall(t, a)
      PROVE  Inside'
  BY <1>0, <1>2 DEF InterceptRefused, DobbyDestroyCall, Return
<1>3. ASSUME NEW t \in Callers, Relocate(t)
      PROVE  Inside'
  <2> DEFINE e == job[t].entry
  <2>1. PICK n \in OriginSizes(e.patched_addr, e.thumb_mode) :
          job' = [job EXCEPT ![t].entry.reloc = Read(e.patched_addr, n)]
    BY <1>3 DEF Relocate
  <2>2. e \in EntrySet /\ e.patched_addr \in Halfwords /\ e.patched_addr \in Nat
    BY <1>0, PagesAssumption DEF JobSet, EntrySet, Halfwords
  <2>3. n \in 4..6
    BY <2>2, TrampolineType DEF EntrySet
  <2>4. Len(Read(e.patched_addr, n)) = n
    <3>1. e.patched_addr + 12 <= Pages * PageSize /\ n \in 0..6
      BY <1>3, <2>3 DEF Relocate
    <3> QED
      BY <2>2, <3>1, ReadType
  <2>5. /\ job'[t].entry.reloc = Read(e.patched_addr, n)
        /\ job'[t].entry.patched_addr = e.patched_addr
        /\ \A u \in Callers : u # t => job'[u] = job[u]
    BY <1>0, <2>1, <2>2 DEF JobSet, EntrySet
  <2> QED
    BY <1>0, <1>3, <2>3, <2>4, <2>5 DEF Relocate
<1>4. ASSUME NEW t \in Callers, RelocateFails(t) \/ SavePrologue(t)
      PROVE  Inside'
  <2>1. \A u \in Callers : u # t => job'[u] = job[u] /\ pc'[u] = pc[u]
    BY <1>0, <1>4 DEF RelocateFails, SavePrologue
  <2>2. pc'[t] \notin {"relocate", "save"}
    BY <1>0, <1>4 DEF RelocateFails, SavePrologue, AfterRouting
  <2> QED
    BY <2>1, <2>2
<1>5. ASSUME NEW t \in Callers,
             \/ PublishOrigin(t) \/ PatchUnprotect(t) \/ PatchUnprotectEnd(t)
             \/ PatchWrite(t) \/ PatchProtect(t) \/ PatchProtectEnd(t)
      PROVE  Inside'
  BY <1>0, <1>5 DEF PublishOrigin, PatchUnprotect, PatchUnprotectEnd, PatchWrite, PatchProtect,
     PatchProtectEnd, AfterPatch
<1>6. ASSUME NEW t \in Callers, AddLoad(t) \/ AddStore(t) \/ RemoveEntry(t)
      PROVE  Inside'
  BY <1>0, <1>6 DEF AddLoad, AddStore, RemoveEntry, Return
<1> QED
  BY <1>1, <1>2, <1>3, <1>4, <1>5, <1>6, InterceptTarget DEF Next, Step, Call

-----------------------------------------------------------------------------
(* W^X. *)

\* Every step keeps pages writable and executable only while they are patched.
LEMMA StepWritable ==
  ASSUME Shape, WritableOnlyWhilePatching, Next
  PROVE  WritableOnlyWhilePatching'
<1>0. /\ pc \in [Callers -> PCs] /\ job \in [Callers -> JobSet]
      /\ perm \in [0..(Pages - 1) -> {"rx", "rw", "rwx"}]
  BY DEF Shape, TypeOK
<1>a. ASSUME NEW u \in Callers, pc'[u] = pc[u], job'[u] = job[u]
      PROVE  Unprotected(u)' = Unprotected(u)
  BY <1>a DEF Unprotected, FirstPage, EndPage, PageOf, Bytes
<1>1. ASSUME NEW t \in Callers, Unprotected(t) = {},
             \A u \in Callers : u # t => pc'[u] = pc[u] /\ job'[u] = job[u],
             \A p \in 0..(Pages - 1) : perm'[p] = "rwx" => perm[p] = "rwx"
      PROVE  WritableOnlyWhilePatching'
  <2> SUFFICES ASSUME NEW p \in 0..(Pages - 1), perm'[p] = "rwx"
               PROVE  \E u \in Callers : p \in Unprotected(u)'
    BY DEF WritableOnlyWhilePatching
  <2>1. PICK u \in Callers : p \in Unprotected(u)
    BY <1>1 DEF WritableOnlyWhilePatching
  <2>2. u # t
    BY <1>1, <2>1
  <2> QED
    BY <1>1, <1>a, <2>1, <2>2
<1>2. ASSUME NEW t \in Callers, NEW a, Call(t, a)
      PROVE  WritableOnlyWhilePatching'
  <2>1. /\ pc[t] = "idle"
        /\ \A u \in Callers : u # t => pc'[u] = pc[u] /\ job'[u] = job[u]
    BY <1>0, <1>2 DEF Call, InterceptCall, InterceptRefused, DobbyDestroyCall, Return, Goto
  <2>2. \A p \in 0..(Pages - 1) : perm'[p] = "rwx" => perm[p] = "rwx"
    BY <1>0, <1>2 DEF Call, InterceptCall, InterceptRefused, DobbyDestroyCall, Mprotect
  <2>3. Unprotected(t) = {}
    BY <2>1 DEF Unprotected
  <2> QED
    BY <1>1, <2>1, <2>2, <2>3
<1>3. ASSUME NEW t \in Callers,
             \/ Relocate(t) \/ RelocateFails(t) \/ SavePrologue(t) \/ PublishOrigin(t)
             \/ AddLoad(t) \/ AddStore(t) \/ RemoveEntry(t)
      PROVE  WritableOnlyWhilePatching'
  <2>1. /\ pc[t] \in {"relocate", "save", "publish", "add", "store", "remove"}
        /\ \A u \in Callers : u # t => pc'[u] = pc[u] /\ job'[u] = job[u]
        /\ perm' = perm
    BY <1>0, <1>3 DEF Relocate, RelocateFails, SavePrologue, PublishOrigin, AddLoad,
       AddStore, RemoveEntry, Return, Goto
  <2>2. Unprotected(t) = {}
    BY <2>1 DEF Unprotected
  <2> QED
    BY <1>1, <2>1, <2>2
<1>4. ASSUME NEW t \in Callers,
             \/ PatchUnprotect(t) \/ PatchUnprotectEnd(t) \/ PatchWrite(t)
             \/ PatchProtect(t) \/ PatchProtectEnd(t)
      PROVE  WritableOnlyWhilePatching'
  <2>0. job' = job /\ \A u \in Callers : u # t => pc'[u] = pc[u]
    BY <1>0, <1>4 DEF PatchUnprotect, PatchUnprotectEnd, PatchWrite, PatchProtect,
       PatchProtectEnd, Goto
  <2>a. FirstPage(t)' = FirstPage(t) /\ EndPage(t)' = EndPage(t)
    BY <2>0 DEF FirstPage, EndPage, PageOf, Bytes
  <2> SUFFICES ASSUME NEW p \in 0..(Pages - 1), perm'[p] = "rwx"
               PROVE  \E u \in Callers : p \in Unprotected(u)'
    BY DEF WritableOnlyWhilePatching
  <2>b. ASSUME perm[p] = "rwx", p \in Unprotected(t) => p \in Unprotected(t)'
        PROVE  \E u \in Callers : p \in Unprotected(u)'
    <3>1. PICK u \in Callers : p \in Unprotected(u)
      BY <2>b DEF WritableOnlyWhilePatching
    <3> QED
      BY <1>a, <2>0, <2>b, <3>1
  <2>1. CASE PatchUnprotect(t) \/ PatchUnprotectEnd(t)
    <3>1. PICK q \in {FirstPage(t), EndPage(t)} :
            /\ Mprotect(q, "rwx")
            /\ \/ /\ q = FirstPage(t) /\ pc[t] = "unprotect"
                  /\ \/ pc'[t] = "unprotectEnd"
                     \/ pc'[t] = "write" /\ FirstPage(t) = EndPage(t)
               \/ q = EndPage(t) /\ pc[t] = "unprotectEnd" /\ pc'[t] = "write"
      BY <1>0, <2>1 DEF PatchUnprotect, PatchUnprotectEnd, Goto
    <3>2. p = q => p \in Unprotected(t)'
      BY <2>a, <3>1 DEF Unprotected
    <3>3. p # q => perm[p] = "rwx"
      BY <3>1 DEF Mprotect
    <3>4. p \in Unprotected(t) => p \in Unprotected(t)'
      BY <2>a, <3>1 DEF Unprotected
    <3> QED
      BY <2>b, <3>2, <3>3, <3>4
  <2>2. CASE PatchWrite(t)
    <3>1. pc[t] = "write" /\ pc'[t] = "protect" /\ perm' = perm
      BY <1>0, <2>2 DEF PatchWrite, Goto
    <3>2. p \in Unprotected(t) => p \in Unprotected(t)'
      BY <2>a, <3>1 DEF Unprotected
    <3> QED
      BY <2>b, <3>1, <3>2
  <2>3. CASE PatchProtect(t) \/ PatchProtectEnd(t)
    <3>1. PICK q \in {FirstPage(t), EndPage(t)} :
            /\ Mprotect(q, "rx")
            /\ \/ /\ q = FirstPage(t) /\ pc[t] = "protect"
                  /\ pc'[t] = "protectEnd" \/ FirstPage(t) = EndPage(t)
               \/ q = EndPage(t) /\ pc[t] = "protectEnd"
      BY <1>0, <2>3 DEF PatchProtect, PatchProtectEnd, Goto
    <3>2. p # q /\ perm[p] = "rwx"
      BY <3>1 DEF Mprotect
    <3>3. p \in Unprotected(t) => p \in Unprotected(t)'
      BY <2>a, <3>1, <3>2 DEF Unprotected
    <3> QED
      BY <2>b, <3>2, <3>3
  <2> QED
    BY <1>4, <2>1, <2>2, <2>3
<1> QED
  BY <1>2, <1>3, <1>4 DEF Next, Step

-----------------------------------------------------------------------------
(* Whatever can be executed is ready. *)

\* Deciding more *origin_func and making more hooks keeps good code good.
LEMMA GoodKept ==
  ASSUME NEW m \in Nat, NEW m2 \in Nat, NEW o, NEW o2, m <= m2,
         \A k \in 1..m : o[k] # "unset" => o2[k] # "unset"
  PROVE  /\ \A c : Good(c, m, o) => Good(c, m2, o2)
         /\ \A s : GoodSeq(s, m, o) => GoodSeq(s, m2, o2)
<1>1. ASSUME NEW c, Good(c, m, o)
      PROVE  Good(c, m2, o2)
  BY <1>1 DEF Good
<1>2. ASSUME NEW s, GoodSeq(s, m, o)
      PROVE  GoodSeq(s, m2, o2)
  BY <1>1, <1>2 DEF GoodSeq
<1> QED
  BY <1>1, <1>2

\* A step of thread t leaves the other threads ready when it decides more
\* *origin_func and makes more hooks.
LEMMA OthersReady ==
  ASSUME Shape, Shape', Ready, NEW t \in Callers, made <= made',
         \A k \in 1..made : origin[k] # "unset" => origin'[k] # "unset",
         \A u \in Callers : u # t => pc'[u] = pc[u] /\ job'[u] = job[u]
  PROVE  /\ \A u \in Callers : u # t => ThreadReady(u)'
         /\ mem' = mem => MemReady'
         /\ entries' = entries => EntriesReady'
<1>0. made \in Nat /\ made' \in Nat
  BY BoundsAssumption DEF Shape, TypeOK
<1>1. /\ \A c : Good(c, made, origin) => Good(c, made', origin')
      /\ \A s : GoodSeq(s, made, origin) => GoodSeq(s, made', origin')
  BY <1>0, GoodKept
<1>2. ASSUME NEW u \in Callers, u # t
      PROVE  ThreadReady(u)'
  <2>1. ThreadReady(u) /\ pc'[u] = pc[u] /\ job'[u] = job[u]
    BY <1>2 DEF Ready
  <2> QED
    BY <1>0, <1>1, <2>1 DEF ThreadReady
<1>3. ASSUME mem' = mem
      PROVE  MemReady'
  BY <1>1, <1>3 DEF Ready, MemReady
<1>4. ASSUME entries' = entries
      PROVE  EntriesReady'
  BY <1>1, <1>4 DEF Ready, EntriesReady
<1> QED
  BY <1>2, <1>3, <1>4

\* A thread that goes idle is ready.
LEMMA ReturnReady ==
  ASSUME Shape, NEW t \in Callers, NEW op, NEW a, NEW v, Return(t, op, a, v)
  PROVE  /\ ThreadReady(t)'
         /\ \A u \in Callers : u # t => pc'[u] = pc[u] /\ job'[u] = job[u]
<1>1. pc'[t] = "idle" /\ job'[t] = NoJob
  BY DEF Return, Goto, Shape, TypeOK
<1>2. DOMAIN NoJob.entry.origin_insns = {}
  BY DEF NoJob, NoEntry
<1>3. ThreadReady(t)'
  BY <1>1, <1>2 DEF ThreadReady, GoodSeq
<1> QED
  BY <1>3 DEF Return, Goto, Shape, TypeOK

\* The buffer of a hook whose *origin_func is decided is good.
LEMMA BufferReady ==
  ASSUME NEW b, NEW k, NEW m, NEW o, k \in 1..m, o[k] # "unset",
         \A i \in DOMAIN b : b[i][1] = k
  PROVE  GoodSeq(b, m, o)
  BY DEF GoodSeq, Good

\* Every step keeps whatever can be executed ready.
LEMMA StepReady ==
  ASSUME Shape, Shape', Inside, Ready, Next
  PROVE  Ready'
<1>0. /\ pc \in [Callers -> PCs] /\ job \in [Callers -> JobSet]
      /\ entries \in Seq(EntrySet) /\ made \in Nat /\ made <= MaxHooks
      /\ mem \in [Halfwords -> Content]
      /\ origin \in [Hooks -> {"unset", "unwanted", "relocated", "garbage"}]
  BY BoundsAssumption DEF Shape, TypeOK
<1>a. ASSUME NEW t \in Callers
      PROVE  ThreadReady(t)
  BY DEF Ready
<1>1. ASSUME NEW t \in Callers, NEW type \in {"hook", "instrument"}, NEW a \in Targets,
             NEW wants \in BOOLEAN, InterceptCall(t, type, a, wants)
      PROVE  Ready'
  <2>1. PICK thumb \in BOOLEAN :
          job' = [job EXCEPT ![t] =
                 [op |-> type, wants |-> wants, n |-> 0,
                  entry |-> [hook |-> made + 1, type |-> type,
                             patched_addr |-> Strip(a), thumb_mode |-> thumb,
                             reloc |-> <<>>, origin_insns |-> <<>>],
                  buf |-> Trampoline(made + 1, TrampSize(Strip(a), thumb))]]
    BY <1>1 DEF InterceptCall
  <2>2. /\ made' = made + 1 /\ made < MaxHooks /\ mem' = mem /\ entries' = entries
        /\ origin' = [origin EXCEPT ![made + 1] = IF wants THEN "unset" ELSE "unwanted"]
        /\ pc' = [pc EXCEPT ![t] = "relocate"]
    BY <1>1 DEF InterceptCall, Goto
  <2>3. /\ made <= made'
        /\ \A k \in 1..made : origin[k] # "unset" => origin'[k] # "unset"
        /\ \A u \in Callers : u # t => pc'[u] = pc[u] /\ job'[u] = job[u]
    BY <1>0, <2>1, <2>2, BoundsAssumption DEF Hooks
  <2>4. /\ pc'[t] = "relocate"
        /\ job'[t].entry.hook = made + 1 /\ job'[t].wants = wants
        /\ job'[t].entry.origin_insns = <<>>
        /\ job'[t].buf = Trampoline(made + 1, TrampSize(Strip(a), thumb))
    BY <1>0, <2>1, <2>2
  <2>5. \A i \in DOMAIN job'[t].buf : job'[t].buf[i][1] = made + 1
    <3>1. Strip(a) \in Nat
      BY StripType, PagesAssumption DEF Halfwords
    <3>2. made + 1 \in Nat
      BY <1>0
    <3>3. \A i \in DOMAIN Trampoline(made + 1, TrampSize(Strip(a), thumb)) :
            Trampoline(made + 1, TrampSize(Strip(a), thumb))[i][1] = made + 1
      BY <3>1, <3>2, TrampolineType
    <3> QED
      BY <2>4, <3>3
  <2>6. made + 1 \in 1..made' /\ made + 1 \in Hooks
    BY <1>0, <2>2, BoundsAssumption DEF Hooks
  <2>7. ~wants => origin'[made + 1] # "unset"
    BY <1>0, <2>2, <2>6
  <2>8. ThreadReady(t)'
    BY <2>4, <2>5, <2>6, <2>7 DEF ThreadReady, GoodSeq
  <2> QED
    BY <2>2, <2>3, <2>8, OthersReady DEF Ready
<1>2. ASSUME NEW t \in Callers, NEW op, NEW a, NEW v, Return(t, op, a, v), UNCHANGED <<mem, entries, origin, made>>
      PROVE  Ready'
  BY <1>0, <1>2, ReturnReady, OthersReady DEF Ready
<1>3. ASSUME NEW t \in Callers, NEW a, DobbyDestroyCall(t, a)
      PROVE  Ready'
  <2>1. UNCHANGED <<mem, entries, origin, made>>
    BY <1>3 DEF DobbyDestroyCall
  <2>2. CASE Return(t, "destroy", Strip(a), -1)
    BY <1>2, <2>1, <2>2
  <2>3. ASSUME NEW i \in Find(Strip(a)), Goto(t, "unprotect"),
               job' = [job EXCEPT ![t] =
                       [op |-> "destroy", entry |-> entries[i],
                        buf |-> entries[i].origin_insns, wants |-> FALSE, n |-> 0]]
        PROVE  Ready'
    <3>1. i \in DOMAIN entries
      BY DEF Find, Matches
    <3>2. GoodSeq(entries[i].origin_insns, made, origin)
      BY <3>1 DEF Ready, EntriesReady
    <3>3. /\ job'[t].entry = entries[i] /\ job'[t].buf = entries[i].origin_insns
          /\ pc'[t] = "unprotect"
          /\ \A u \in Callers : u # t => pc'[u] = pc[u] /\ job'[u] = job[u]
      BY <1>0, <2>3 DEF Goto
    <3>4. ThreadReady(t)'
      BY <2>1, <3>2, <3>3 DEF ThreadReady
    <3> QED
      BY <1>0, <2>1, <3>3, <3>4, OthersReady DEF Ready
  <2> QED
    BY <1>3, <2>2, <2>3 DEF DobbyDestroyCall
<1>b. ASSUME NEW t \in Callers
      PROVE  job[t] \in JobSet /\ job[t].entry \in EntrySet
  BY <1>0 DEF JobSet
<1>4. ASSUME NEW t \in Callers,
             pc[t] \in {"relocate", "save"}, pc'[t] \in {"save", "publish", "unprotect"},
             pc'[t] = "unprotect" => ~job[t].wants,
             \A u \in Callers : u # t => pc'[u] = pc[u] /\ job'[u] = job[u],
             job'[t].entry.hook = job[t].entry.hook, job'[t].buf = job[t].buf,
             job'[t].wants = job[t].wants,
             GoodSeq(job'[t].entry.origin_insns, made, origin),
             UNCHANGED <<mem, entries, origin, made>>
      PROVE  Ready'
  <2>1. /\ job[t].entry.hook \in 1..made
        /\ \A i \in DOMAIN job[t].buf : job[t].buf[i][1] = job[t].entry.hook
        /\ ~job[t].wants => origin[job[t].entry.hook] # "unset"
    BY <1>4, <1>a DEF ThreadReady
  <2>2. ~job[t].wants => GoodSeq(job[t].buf, made, origin)
    BY <2>1, BufferReady
  <2>3. ThreadReady(t)'
    BY <1>4, <2>1, <2>2 DEF ThreadReady
  <2> QED
    BY <1>0, <1>4, <2>3, OthersReady DEF Ready
<1>5. ASSUME NEW t \in Callers, Relocate(t)
      PROVE  Ready'
  <2>1. PICK r : job' = [job EXCEPT ![t].entry.reloc = r]
    BY <1>5 DEF Relocate
  <2>2. /\ pc[t] = "relocate" /\ pc'[t] = "save"
        /\ UNCHANGED <<mem, entries, origin, made>>
        /\ \A u \in Callers : u # t => pc'[u] = pc[u] /\ job'[u] = job[u]
    BY <1>0, <1>5, <2>1 DEF Relocate, Goto
  <2>3. /\ job'[t].entry.hook = job[t].entry.hook /\ job'[t].buf = job[t].buf
        /\ job'[t].wants = job[t].wants
        /\ job'[t].entry.origin_insns = job[t].entry.origin_insns
    BY <1>0, <1>b, <2>1 DEF JobSet, EntrySet
  <2>4. GoodSeq(job'[t].entry.origin_insns, made, origin)
    BY <1>a, <2>3 DEF ThreadReady
  <2> QED
    BY <1>4, <2>2, <2>3, <2>4
<1>6. ASSUME NEW t \in Callers, RelocateFails(t)
      PROVE  Ready'
  <2>1. PICK n \in JunkSizes : job' = [job EXCEPT ![t].entry.origin_insns = [i \in 1..n |-> Junk]]
    BY <1>6 DEF RelocateFails
  <2> DEFINE r == [i \in 1..n |-> Junk]
  <2>2. /\ pc[t] = "relocate" /\ pc'[t] = AfterRouting(t)
        /\ UNCHANGED <<mem, entries, origin, made>>
        /\ \A u \in Callers : u # t => pc'[u] = pc[u] /\ job'[u] = job[u]
    BY <1>0, <1>6, <2>1 DEF RelocateFails, Goto
  <2>3. /\ job'[t].entry.hook = job[t].entry.hook /\ job'[t].buf = job[t].buf
        /\ job'[t].wants = job[t].wants
        /\ job'[t].entry.origin_insns = r
    BY <1>0, <1>b, <2>1 DEF JobSet, EntrySet
  <2>4. GoodSeq(r, made, origin)
    BY DEF GoodSeq, Good, Junk
  <2> QED
    BY <1>4, <2>2, <2>3, <2>4 DEF AfterRouting
<1>7. ASSUME NEW t \in Callers, SavePrologue(t)
      PROVE  Ready'
  <2> DEFINE e == job[t].entry
             r == Read(e.patched_addr, Len(e.reloc))
  <2>1. job' = [job EXCEPT ![t].entry.origin_insns = r]
    BY <1>7 DEF SavePrologue
  <2>2. /\ pc[t] = "save" /\ pc'[t] = AfterRouting(t)
        /\ UNCHANGED <<mem, entries, origin, made>>
        /\ \A u \in Callers : u # t => pc'[u] = pc[u] /\ job'[u] = job[u]
    BY <1>0, <1>7, <2>1 DEF SavePrologue, Goto
  <2>3. /\ job'[t].entry.hook = job[t].entry.hook /\ job'[t].buf = job[t].buf
        /\ job'[t].wants = job[t].wants
        /\ job'[t].entry.origin_insns = r
    BY <1>0, <1>b, <2>1 DEF JobSet, EntrySet
  <2>4. GoodSeq(r, made, origin)
    <3>1. /\ e.patched_addr \in Halfwords /\ Len(e.reloc) \in 0..6
          /\ e.patched_addr + 12 <= Pages * PageSize
      BY <1>0, <1>7 DEF JobSet, EntrySet, Inside, SavePrologue
    <3>2. /\ DOMAIN r = 1..Len(e.reloc)
          /\ \A i \in 1..Len(e.reloc) : \E h \in Halfwords : r[i] = mem[h]
      BY <3>1, ReadType
    <3> QED
      BY <3>2 DEF GoodSeq, Ready, MemReady
  <2> QED
    BY <1>4, <2>2, <2>3, <2>4 DEF AfterRouting
<1>8. ASSUME NEW t \in Callers, PublishOrigin(t)
      PROVE  Ready'
  <2>1. /\ job[t].entry.hook \in 1..made
        /\ \A i \in DOMAIN job[t].buf : job[t].buf[i][1] = job[t].entry.hook
        /\ GoodSeq(job[t].entry.origin_insns, made, origin)
    BY <1>8, <1>a DEF PublishOrigin, ThreadReady
  <2>2. job[t].entry.hook \in Hooks
    BY <1>0, <2>1, BoundsAssumption DEF Hooks
  <2>3. /\ UNCHANGED <<mem, entries, job, made>>
        /\ \A u \in Callers : u # t => pc'[u] = pc[u]
        /\ pc'[t] = "unprotect"
        /\ origin'[job[t].entry.hook] # "unset"
        /\ \A k \in Hooks : origin[k] # "unset" => origin'[k] # "unset"
    BY <1>0, <1>8, <2>2 DEF PublishOrigin, Goto
  <2>4. \A k \in 1..made : origin[k] # "unset" => origin'[k] # "unset"
    BY <1>0, <2>3, BoundsAssumption DEF Hooks
  <2>5. GoodSeq(job[t].buf, made, origin')
    BY <2>1, <2>3, BufferReady
  <2>6. GoodSeq(job[t].entry.origin_insns, made, origin')
    <3>1. \A s : GoodSeq(s, made, origin) => GoodSeq(s, made, origin')
      <4>1. made <= made
        BY <1>0
      <4> QED
        BY <1>0, <2>4, <4>1, GoodKept
    <3> QED
      BY <2>1, <3>1
  <2>7. ThreadReady(t)'
    BY <2>3, <2>5, <2>6 DEF ThreadReady
  <2> QED
    BY <1>0, <2>3, <2>4, <2>7, OthersReady DEF Ready
<1>9. ASSUME NEW t \in Callers,
             \/ PatchUnprotect(t) \/ PatchUnprotectEnd(t) \/ PatchWrite(t)
             \/ PatchProtect(t) \/ PatchProtectEnd(t)
      PROVE  Ready'
  <2>1. /\ UNCHANGED <<entries, job, origin, made>>
        /\ \A u \in Callers : u # t => pc'[u] = pc[u]
        /\ pc[t] \in {"unprotect", "unprotectEnd", "write", "protect", "protectEnd"}
        /\ pc'[t] \in {"unprotectEnd", "write", "protect", "protectEnd", "add", "remove"}
    BY <1>0, <1>9 DEF PatchUnprotect, PatchUnprotectEnd, PatchWrite, PatchProtect,
       PatchProtectEnd, AfterPatch, Goto
  <2>2. GoodSeq(job[t].buf, made, origin) /\ GoodSeq(job[t].entry.origin_insns, made, origin)
    BY <1>a, <2>1 DEF ThreadReady
  <2>3. ThreadReady(t)'
    BY <2>1, <2>2 DEF ThreadReady
  <2>4. mem' = mem \/ mem' = Patch(job[t].entry.patched_addr, job[t].buf)
    BY <1>9 DEF PatchUnprotect, PatchUnprotectEnd, PatchWrite, PatchProtect, PatchProtectEnd
  <2>5. ASSUME mem' = Patch(job[t].entry.patched_addr, job[t].buf)
        PROVE  MemReady'
    <3>1. job[t].entry.patched_addr \in Halfwords /\ job[t].buf \in Seq(Content)
      BY <1>0 DEF JobSet, EntrySet
    <3>2. \A h \in Halfwords : mem'[h] = mem[h] \/ \E i \in DOMAIN job[t].buf : mem'[h] = job[t].buf[i]
      BY <2>5, <3>1, PatchType
    <3>3. \A h \in Halfwords : Good(mem'[h], made, origin)
      BY <2>2, <3>2 DEF Ready, MemReady, GoodSeq
    <3> QED
      BY <2>1, <3>3 DEF MemReady
  <2> QED
    BY <1>0, <2>1, <2>3, <2>4, <2>5, OthersReady DEF Ready
<1>10. ASSUME NEW t \in Callers, AddLoad(t)
       PROVE  Ready'
  <2>1. /\ UNCHANGED <<mem, entries, origin, made>> /\ pc'[t] = "store"
        /\ \A u \in Callers : u # t => pc'[u] = pc[u] /\ job'[u] = job[u]
    BY <1>0, <1>10 DEF AddLoad, Goto
  <2>2. job'[t].entry = job[t].entry
    BY <1>0, <1>10 DEF AddLoad, JobSet
  <2>3. ThreadReady(t)'
    BY <1>a, <2>1, <2>2 DEF ThreadReady
  <2> QED
    BY <1>0, <2>1, <2>3, OthersReady DEF Ready
<1>11. ASSUME NEW t \in Callers, AddStore(t) \/ RemoveEntry(t)
       PROVE  Ready'
  <2>1. UNCHANGED <<mem, origin, made>> /\ Return(t, job[t].op, job[t].entry.patched_addr, 0)
    BY <1>11 DEF AddStore, RemoveEntry
  <2>2. \A i \in DOMAIN entries' :
          \/ entries'[i] = job[t].entry
          \/ \E j \in DOMAIN entries : entries'[i] = entries[j]
    <3>1. CASE AddStore(t)
      <4> DEFINE m == IF job[t].n <= Len(entries) THEN job[t].n ELSE Len(entries)
      <4>1. job[t].n \in Nat /\ Len(entries) \in Nat /\ job[t].entry \in EntrySet
        BY <1>0 DEF JobSet
      <4>2. m \in Nat /\ m <= Len(entries)
        BY <4>1
      <4>3. entries' = SubSeq(entries, 1, m) \o <<job[t].entry>>
        BY <3>1 DEF AddStore
      <4> HIDE DEF m
      <4> QED
        BY <4>1, <4>2, <4>3, PushType
    <3>2. CASE RemoveEntry(t)
      BY <3>2, RemoveType DEF RemoveEntry
    <3> QED
      BY <1>11, <3>1, <3>2
  <2>3. GoodSeq(job[t].entry.origin_insns, made, origin)
    BY <1>a DEF ThreadReady
  <2>4. EntriesReady'
    BY <2>1, <2>2, <2>3 DEF Ready, EntriesReady
  <2> QED
    BY <1>0, <2>1, <2>4, ReturnReady, OthersReady DEF Ready
<1>12. ASSUME NEW t \in Callers, NEW type, NEW a, InterceptRefused(t, type, a)
       PROVE  Ready'
  BY <1>2, <1>12 DEF InterceptRefused
<1> QED
  BY <1>1, <1>3, <1>5, <1>6, <1>7, <1>8, <1>9, <1>10, <1>11, <1>12, InterceptTarget
     DEF Next, Step, Call

-----------------------------------------------------------------------------
(* The theorems. *)

\* The initial state: an untouched program and no hooks.
LEMMA InitHolds == Init => IndInv
<1> SUFFICES ASSUME Init PROVE IndInv
  OBVIOUS
<1>1. NoJob \in JobSet /\ NoJob.entry.patched_addr \in Halfwords
  <2>1. <<>> \in Seq(Content)
    OBVIOUS
  <2>2. 0 \in Halfwords
    BY PagesAssumption DEF Halfwords
  <2>3. 0 \in 0..MaxHooks
    BY BoundsAssumption
  <2> QED
    BY <2>1, <2>2, <2>3 DEF NoJob, NoEntry, JobSet, EntrySet
<1>2. mem \in [Halfwords -> Content]
  BY PagesAssumption DEF Init, OrigMem, Content, Halfwords
<1>3. entries \in Seq(EntrySet)
  BY DEF Init
<1>4. perm \in [0..(Pages - 1) -> {"rx", "rw"}]
  BY PagesAssumption DEF Init
<1>5. Shape
  <2>1. made \in 0..MaxHooks
    BY BoundsAssumption DEF Init
  <2>0. faulted \in BOOLEAN
    BY DEF Init
  <2>2. /\ pc \in [Callers -> PCs]
        /\ origin \in [Hooks -> {"unset", "unwanted", "relocated", "garbage"}]
    BY DEF Init, PCs
  <2>3. job \in [Callers -> JobSet] /\ \A t \in Callers : job[t] = NoJob
    BY <1>1 DEF Init
  <2>4. NoJob.op \in {"none", "hook", "instrument", "destroy"}
    BY DEF NoJob
  <2> QED
    BY <1>1, <1>2, <1>3, <1>4, <2>0, <2>1, <2>2, <2>3, <2>4 DEF Shape, TypeOK
<1>6. Inside
  BY DEF Init, Inside
<1>7. Ready
  <2>1. DOMAIN NoJob.entry.origin_insns = {} /\ DOMAIN entries = {}
    BY DEF NoJob, NoEntry, Init
  <2> QED
    BY <2>1 DEF Init, Ready, MemReady, EntriesReady, ThreadReady, GoodSeq, Good, OrigMem
<1>8. WritableOnlyWhilePatching
  BY <1>4 DEF WritableOnlyWhilePatching
<1> QED
  BY <1>5, <1>6, <1>7, <1>8 DEF IndInv

\* Every step of the calls keeps the invariant.
LEMMA NextHolds == IndInv /\ [Next]_vars => IndInv'
<1>1. ASSUME IndInv, Next
      PROVE  IndInv'
  BY <1>1, StepShape, StepInside, StepReady, StepWritable DEF IndInv
<1>2. ASSUME IndInv, UNCHANGED vars
      PROVE  IndInv'
  BY <1>2 DEF IndInv, vars, Shape, TypeOK, Inside, Ready, MemReady, EntriesReady, ThreadReady,
     WritableOnlyWhilePatching, Unprotected, FirstPage, EndPage, PageOf, Bytes
<1> QED
  BY <1>1, <1>2

\* The invariant holds in every reachable state.
LEMMA IndInvHolds == Spec => []IndInv
  BY InitHolds, NextHolds, PTL DEF Spec

\* The types of the state of the unlocked calls, and that a patched address
\* is always a halfword of the program.
THEOREM TypeCorrect == Spec => []TypeOK
<1>1. IndInv => TypeOK
  BY DEF IndInv, Shape
<1> QED
  BY <1>1, IndInvHolds, PTL

\* W^X: however the unlocked calls interleave, a page is writable and
\* executable only while a thread is inside DobbyCodePatch for it.
THEOREM NeverLeftWritable == Spec => []WritableOnlyWhilePatching
<1>1. IndInv => WritableOnlyWhilePatching
  BY DEF IndInv
<1> QED
  BY <1>1, IndInvHolds, PTL

\* However the unlocked calls interleave, and whatever prologue one of them
\* saved while another one patched it, a trampoline in memory belongs to a
\* hook whose *origin_func has been assigned.
THEOREM HooksAreReady == Spec => []HookReadyWhenActive
<1>1. IndInv => HookReadyWhenActive
  BY DEF IndInv, Ready, MemReady, Good, HookReadyWhenActive
<1> QED
  BY <1>1, IndInvHolds, PTL

-----------------------------------------------------------------------------
(* One call at a time: the inductive invariant. *)

Listed == {entries[i] : i \in DOMAIN entries}

\* n halfwords of the program.
ProgramCode(a, n) == [i \in 1..n |-> <<0, a + 2 * (i - 1)>>]

TrampLen(e)   == TrampSize(e.patched_addr, e.thumb_mode)
TrampOf(e)    == Trampoline(e.hook, TrampLen(e))
TrampCover(e) == Covers(e.patched_addr, TrampLen(e))

\* The copy and the saved prologue of a hook are the program's own code.
Copied(e)   == \E n \in OriginSizes(e.patched_addr, e.thumb_mode) :
                 e.reloc = ProgramCode(e.patched_addr, n)
Complete(e) == /\ e.patched_addr \in Targets
               /\ Copied(e)
               /\ e.origin_insns = e.reloc

\* What the caller holds: l is where it is, j its locals, listed the entries of the list
\* and len how many they are.
CallHolds(l, j, listed, len) ==
  /\ l # "idle" => j.op # "none"
  /\ l # "idle" /\ j.op # "destroy" =>
       /\ l # "remove"
       /\ j.entry.patched_addr \in Targets
       /\ j.buf = TrampOf(j.entry)
       /\ \A e \in listed : e.patched_addr # j.entry.patched_addr
       /\ l = "save" => Copied(j.entry)
       /\ l \notin {"relocate", "save"} => Complete(j.entry)
  /\ l # "idle" /\ j.op = "destroy" =>
       /\ l \in {"unprotect", "unprotectEnd", "write", "protect", "protectEnd", "remove"}
       /\ j.entry \in listed
       /\ j.buf = j.entry.origin_insns
  /\ l = "store" => j.n = len

\* The hooks whose trampolines are in memory: those of the list, with the one that has
\* been written and is not in it yet, without the one that has been taken back and is
\* still in it.
Live(l, j, listed) ==
  IF l \in {"protect", "protectEnd", "add", "store", "remove"}
  THEN IF j.op = "destroy" THEN listed \ {j.entry} ELSE listed \cup {j.entry}
  ELSE listed

Piece(e, h) == <<e.hook, (h - e.patched_addr) \div 2 + 1>>

MemoryOf(live, m) ==
  \A h \in Halfwords :
    /\ \A e \in live : h \in TrampCover(e) => m[h] = Piece(e, h)
    /\ (\A e \in live : h \notin TrampCover(e)) => m[h] = <<0, h>>

\* The pages a patch has made writable and not yet read-only.
First(j) == PageOf(j.entry.patched_addr)
End(j)   == PageOf(j.entry.patched_addr + Bytes(j.buf))

Patching(l, j) ==
  (IF l \in {"unprotectEnd", "write", "protect"} THEN {First(j)} ELSE {})
  \cup (IF l \in {"write", "protect", "protectEnd"} THEN {End(j)} ELSE {})

\* Some patch touches page p.
TouchedPage(p) == \E a \in Targets : p \in Touched(a)

Permissions(pm, patching) ==
  \A p \in 0..(Pages - 1) :
    IF p \in patching THEN pm[p] = "rwx"
    ELSE pm[p] = InitPerm[p] \/ (pm[p] = "rx" /\ TouchedPage(p))

Caller(l, j, listed, len, m, pm) ==
  /\ CallHolds(l, j, listed, len)
  /\ MemoryOf(Live(l, j, listed), m)
  /\ Permissions(pm, Patching(l, j))

SerialInv ==
  /\ \A e \in Listed : Complete(e)
  /\ OneEntryPerAddress
  /\ ~faulted
  /\ \A t \in Callers : Caller(pc[t], job[t], Listed, Len(entries), mem, perm)

-----------------------------------------------------------------------------
(* Addresses. *)

LEMMA Distribute ==
  ASSUME NEW d \in Int, NEW m \in Int, NEW n \in Int
  PROVE  d * (m - (n + 1)) = d * m - d * n - d
  OBVIOUS

\* Multiples of d that are less than d apart are equal.
LEMMA MultiplesApart ==
  ASSUME NEW d \in Nat \ {0}, NEW m \in Int, NEW n \in Int, d * m < d * n + d
  PROVE  m <= n
<1> SUFFICES ASSUME m >= n + 1 PROVE FALSE
  OBVIOUS
<1>1. m - (n + 1) \in Nat
  OBVIOUS
<1>2. d * (m - (n + 1)) >= 0
  BY <1>1
<1> QED
  BY <1>2, Distribute

LEMMA QuotientOf ==
  ASSUME NEW d \in Nat \ {0}, NEW q \in Int, NEW x \in Int, d * q <= x, x < d * q + d
  PROVE  x \div d = q
<1>1. PICK r \in Int : r = x \div d /\ d * r <= x /\ x < d * r + d
  OBVIOUS
<1>2. d * r \in Int /\ d * q \in Int
  BY <1>1
<1>3. r <= q
  BY <1>1, <1>2, MultiplesApart
<1>4. q <= r
  BY <1>1, <1>2, MultiplesApart
<1> QED
  BY <1>1, <1>3, <1>4

\* A patch of at most six halfwords lies on the pages that are unprotected for it.
LEMMA PatchCovered ==
  ASSUME NEW a \in Halfwords, NEW b \in Seq(Content), Len(b) <= 6, NEW h \in Covers(a, Len(b))
  PROVE  PageOf(h) \in {PageOf(a), PageOf(a + Bytes(b))} /\ PageOf(h) \in 0..(Pages - 1)
<1>0. PageSize \in Nat \ {0} /\ PageSize >= 12 /\ Pages \in Nat \ {0}
  BY PagesAssumption
<1>1. PICK e \in Int : e = a + Bytes(b)
  BY PagesAssumption DEF Halfwords, Bytes
<1>2. /\ a \in Nat /\ h \in Nat /\ e \in Nat /\ a <= h /\ h < e /\ e <= a + 12
  BY <1>1, PagesAssumption DEF Halfwords, Covers, Bytes
<1>5. PICK q \in Int : q = a \div PageSize /\ PageSize * q <= a /\ a < PageSize * q + PageSize
  BY <1>0, <1>2
<1>6. PageSize * q \in Int /\ PageSize * (q + 1) = PageSize * q + PageSize
  BY <1>0
<1>3. PageOf(h) \in {PageOf(a), PageOf(e)}
  <2>1. CASE h < PageSize * q + PageSize
    <3>1. PageSize * q <= h
      BY <1>0, <1>2, <1>5, <1>6
    <3>2. PageSize \in Nat \ {0} /\ h \in Int
      BY <1>0, <1>2
    <3>3. h \div PageSize = q
      BY <3>1, <3>2, <2>1, QuotientOf
    <3> QED
      BY <3>3, <1>5 DEF PageOf
  <2>2. CASE h >= PageSize * q + PageSize
    <3>1. PICK k \in Int : k = q + 1
      OBVIOUS
    <3>2. PageSize * k <= h /\ h < PageSize * k + PageSize
      BY <1>0, <1>2, <1>5, <1>6, <2>2, <3>1
    <3>3. PageSize * k <= e /\ e < PageSize * k + PageSize
      BY <1>0, <1>2, <1>5, <1>6, <2>2, <3>1
    <3>4. PageSize \in Nat \ {0} /\ h \in Int /\ e \in Int
      BY <1>0, <1>2
    <3>5. h \div PageSize = k
      BY <3>2, <3>4, QuotientOf
    <3>6. e \div PageSize = k
      BY <3>3, <3>4, QuotientOf
    <3> QED
      BY <3>5, <3>6 DEF PageOf
  <2> QED
    BY <1>0, <1>2, <1>6, <2>1, <2>2
<1>4. PageOf(h) \in 0..(Pages - 1)
  <2>1. h < Pages * PageSize
    BY <1>0, <1>2 DEF Covers, Halfwords
  <2>2. PICK r \in Int : r = h \div PageSize /\ 0 <= r /\ PageSize * r <= h
    BY <1>0, <1>2
  <2>3. PICK k \in Int : k = Pages - 1
    BY <1>0
  <2>4. Pages * PageSize = PageSize * k + PageSize
    BY <1>0, <2>3
  <2>5. PageSize * r < PageSize * k + PageSize
    BY <1>0, <1>2, <2>1, <2>2, <2>4
  <2>6. r <= k
    BY <1>0, <2>5, MultiplesApart
  <2> QED
    BY <2>2, <2>3, <2>6 DEF PageOf
<1> QED
  BY <1>1, <1>3, <1>4

\* Prologues of different targets are apart.
LEMMA CoversApart ==
  ASSUME SerialCalls, NEW a \in Targets, NEW b \in Targets, a # b,
         NEW m \in 0..6, NEW n \in 0..6
  PROVE  Covers(a, m) \cap Covers(b, n) = {}
<1>1. a \in Int /\ b \in Int /\ (a + 12 <= b \/ b + 12 <= a)
  BY TargetsAssumption DEF SerialCalls
<1>2. \A h \in Halfwords : h \in Int
  BY DEF Halfwords
<1> QED
  BY <1>1, <1>2 DEF Covers

-----------------------------------------------------------------------------
(* Memory. *)

\* Hooks on targets of their own.
OnTargets(live) == live \subseteq {e \in EntrySet : e.patched_addr \in Targets}

LEMMA TargetIsHalfword ==
  ASSUME SerialCalls, NEW a \in Targets
  PROVE  a \in Halfwords /\ Strip(a) = a /\ a + 12 <= Pages * PageSize
<1>1. a \in Nat /\ Strip(a) \in Halfwords /\ Strip(a) + 12 <= Pages * PageSize
  BY StripType
<1>2. a % 2 = 0
  BY DEF SerialCalls
<1>3. Strip(a) = a
  BY <1>1, <1>2 DEF Strip
<1> QED
  BY <1>1, <1>3

LEMMA TrampFacts ==
  ASSUME NEW e \in EntrySet
  PROVE  /\ TrampLen(e) \in 4..5
         /\ TrampOf(e) \in Seq(Content) /\ Len(TrampOf(e)) = TrampLen(e)
         /\ \A i \in 1..TrampLen(e) : TrampOf(e)[i] = <<e.hook, i>>
<1>1. TrampLen(e) \in 4..5
  BY DEF TrampLen, TrampSize
<1>2. e.hook \in Int
  BY BoundsAssumption DEF EntrySet
<1>3. TrampOf(e) \in [1..TrampLen(e) -> Content]
  BY <1>1, <1>2 DEF TrampOf, Trampoline, Content
<1>4. TrampOf(e) \in Seq(Content) /\ Len(TrampOf(e)) = TrampLen(e)
  BY <1>1, <1>3, IsSeq
<1> QED
  BY <1>1, <1>4 DEF TrampOf, Trampoline

\* What is moved of a prologue is at least the trampoline and at most six halfwords.
LEMMA OriginSizesFacts ==
  ASSUME NEW e \in EntrySet, NEW n \in OriginSizes(e.patched_addr, e.thumb_mode)
  PROVE  n \in TrampLen(e)..6 /\ n \in 0..6 /\ n \in Nat
<1>1. TrampLen(e) \in 4..5
  BY TrampFacts
<1> QED
  BY <1>1 DEF OriginSizes, TrampLen

LEMMA ProgramCodeFacts ==
  ASSUME NEW a \in Nat, NEW n \in Nat
  PROVE  /\ ProgramCode(a, n) \in Seq(Content) /\ Len(ProgramCode(a, n)) = n
         /\ \A i \in 1..n : ProgramCode(a, n)[i] = <<0, a + 2 * (i - 1)>>
<1>1. ProgramCode(a, n) \in [1..n -> Content]
  BY DEF ProgramCode, Content
<1>2. ProgramCode(a, n) \in Seq(Content) /\ Len(ProgramCode(a, n)) = n
  BY <1>1, IsSeq
<1> QED
  BY <1>2 DEF ProgramCode

LEMMA ProgramCodeLen ==
  ASSUME NEW a \in Nat, NEW n \in Nat
  PROVE  ProgramCode(a, n) \in Seq(Content) /\ Len(ProgramCode(a, n)) = n
  BY ProgramCodeFacts

\* The index of a halfword in what covers it.
LEMMA IndexOf ==
  ASSUME NEW a \in Halfwords, NEW n \in Nat, NEW h \in Covers(a, n)
  PROVE  /\ (h - a) \div 2 + 1 \in 1..n
         /\ a + 2 * (((h - a) \div 2 + 1) - 1) = h
<1>1. h \in Int /\ a \in Int /\ a <= h /\ h < a + 2 * n /\ h % 2 = 0 /\ a % 2 = 0
  BY PagesAssumption DEF Covers, Halfwords
<1> QED
  BY <1>1

\* The prologue of a target without a live hook is the program's.
LEMMA ReadIsProgram ==
  ASSUME SerialCalls, NEW live, OnTargets(live), MemoryOf(live, mem),
         NEW a \in Targets, \A e \in live : e.patched_addr # a, NEW n \in 0..6
  PROVE  Read(a, n) = ProgramCode(a, n)
<1>1. a \in Halfwords /\ a + 12 <= Pages * PageSize
  BY TargetIsHalfword
<1>2. ASSUME NEW i \in 1..n
      PROVE  mem[a + 2 * (i - 1)] = <<0, a + 2 * (i - 1)>>
  <2>1. PICK z \in Nat : z = Pages * PageSize
    BY PagesAssumption
  <2>2. PICK h \in Int : h = a + 2 * (i - 1)
    BY <1>1 DEF Halfwords
  <2>3. h \in Halfwords /\ h \in Covers(a, n)
    BY <1>1, <2>1, <2>2 DEF Halfwords, Covers
  <2>4. ASSUME NEW e \in live
        PROVE  h \notin TrampCover(e)
    <3>1. e \in EntrySet /\ e.patched_addr \in Targets /\ e.patched_addr # a
      BY DEF OnTargets
    <3>2. TrampLen(e) \in 0..6
      BY <3>1, TrampFacts
    <3>3. Covers(a, n) \cap Covers(e.patched_addr, TrampLen(e)) = {}
      BY <3>1, <3>2, CoversApart
    <3> QED
      BY <2>3, <3>3 DEF TrampCover
  <2> QED
    BY <2>2, <2>3, <2>4 DEF MemoryOf
<1> QED
  BY <1>2 DEF Read, ProgramCode

\* Writing a trampoline makes its hook live.
LEMMA WriteTrampoline ==
  ASSUME SerialCalls, NEW live, OnTargets(live), MemoryOf(live, mem),
         NEW e \in EntrySet, e.patched_addr \in Targets,
         \A f \in live : f.patched_addr # e.patched_addr
  PROVE  MemoryOf(live \cup {e}, Patch(e.patched_addr, TrampOf(e)))
<1> DEFINE a == e.patched_addr
           m == Patch(a, TrampOf(e))
<1>1. a \in Halfwords
  BY TargetIsHalfword
<1>2. ASSUME NEW h \in Halfwords, h \in TrampCover(e)
      PROVE  m[h] = Piece(e, h) /\ \A f \in live : h \notin TrampCover(f)
  <2>1. (h - a) \div 2 + 1 \in 1..TrampLen(e)
    BY <1>1, <1>2, IndexOf, TrampFacts DEF TrampCover
  <2>2. m[h] = TrampOf(e)[(h - a) \div 2 + 1]
    BY <1>2, TrampFacts DEF Patch, TrampCover
  <2>3. m[h] = Piece(e, h)
    BY <2>1, <2>2, TrampFacts DEF Piece
  <2>4. ASSUME NEW f \in live PROVE h \notin TrampCover(f)
    <3>1. f \in EntrySet /\ f.patched_addr \in Targets /\ f.patched_addr # a
      BY DEF OnTargets
    <3>2. TrampLen(f) \in 0..6 /\ TrampLen(e) \in 0..6
      BY <3>1, TrampFacts
    <3> QED
      BY <1>2, <3>1, <3>2, CoversApart DEF TrampCover
  <2> QED
    BY <2>3, <2>4
<1>3. ASSUME NEW h \in Halfwords, h \notin TrampCover(e)
      PROVE  m[h] = mem[h]
  BY <1>3, TrampFacts DEF Patch, TrampCover
<1>4. MemoryOf(live \cup {e}, m)
  <2> HIDE DEF m
  <2> QED
    BY <1>2, <1>3 DEF MemoryOf
<1> QED
  BY <1>4

\* Writing the saved prologue back ends the life of its hook.
LEMMA WriteBack ==
  ASSUME SerialCalls, NEW live, OnTargets(live), MemoryOf(live, mem),
         NEW e \in live, \A f \in live : f.patched_addr = e.patched_addr => f = e,
         NEW n \in TrampLen(e)..6
  PROVE  MemoryOf(live \ {e}, Patch(e.patched_addr, ProgramCode(e.patched_addr, n)))
<1> DEFINE a == e.patched_addr
           m == Patch(a, ProgramCode(a, n))
<1>1. e \in EntrySet /\ a \in Targets /\ a \in Halfwords /\ a \in Nat
  BY TargetIsHalfword, StripType DEF OnTargets
<1>2. TrampLen(e) \in 4..5 /\ n \in 0..6 /\ n \in Nat
  BY <1>1, TrampFacts
<1>3. ASSUME NEW h \in Halfwords, h \in Covers(a, n)
      PROVE  m[h] = <<0, h>> /\ \A f \in live \ {e} : h \notin TrampCover(f)
  <2>1. /\ (h - a) \div 2 + 1 \in 1..n
        /\ a + 2 * (((h - a) \div 2 + 1) - 1) = h
    BY <1>1, <1>2, <1>3, IndexOf
  <2>2. m[h] = ProgramCode(a, n)[(h - a) \div 2 + 1]
    BY <1>1, <1>2, <1>3, ProgramCodeFacts DEF Patch
  <2>3. m[h] = <<0, h>>
    BY <1>1, <1>2, <2>1, <2>2, ProgramCodeFacts
  <2>4. ASSUME NEW f \in live \ {e} PROVE h \notin TrampCover(f)
    <3>1. f \in EntrySet /\ f.patched_addr \in Targets /\ f.patched_addr # a
      BY DEF OnTargets
    <3>2. TrampLen(f) \in 0..6
      BY <3>1, TrampFacts
    <3> QED
      BY <1>1, <1>2, <1>3, <3>1, <3>2, CoversApart DEF TrampCover
  <2> QED
    BY <2>3, <2>4
<1>4. ASSUME NEW h \in Halfwords, h \notin Covers(a, n)
      PROVE  m[h] = mem[h] /\ h \notin TrampCover(e)
  <2>1. m[h] = mem[h]
    BY <1>1, <1>2, <1>4, ProgramCodeFacts DEF Patch
  <2>2. h \notin TrampCover(e)
    BY <1>1, <1>2, <1>4 DEF TrampCover, Covers, Halfwords
  <2> QED
    BY <2>1, <2>2
<1>5. MemoryOf(live \ {e}, m)
  <2> HIDE DEF m
  <2> QED
    BY <1>3, <1>4 DEF MemoryOf
<1> QED
  BY <1>5

-----------------------------------------------------------------------------
(* The steps of the only caller. *)

LEMMA OnlyCaller ==
  ASSUME SerialCalls, NEW t \in Callers,
         \A e \in Listed' : Complete(e), OneEntryPerAddress', ~faulted',
         Caller(pc'[t], job'[t], Listed', Len(entries'), mem', perm')
  PROVE  SerialInv'
<1>1. \A u \in Callers : u = t
  BY DEF SerialCalls
<1> QED
  BY <1>1 DEF SerialInv, Complete, Copied, Caller, Piece, TrampLen

\* The list as a set.
LEMMA ListedType ==
  ASSUME Shape
  PROVE  Listed \subseteq EntrySet /\ (UNCHANGED entries => Listed' = Listed)
<1>1. entries \in Seq(EntrySet)
  BY DEF Shape
<1>2. \A i \in DOMAIN entries : entries[i] \in EntrySet
  BY <1>1
<1> QED
  BY <1>2 DEF Listed

\* mprotect to read-only code of a page that is touched, and to writable.
LEMMA ProtectOne ==
  ASSUME NEW q, NEW patching, Permissions(perm, patching), Mprotect(q, "rx"), TouchedPage(q)
  PROVE  Permissions(perm', patching \ {q})
  BY DEF Permissions, Mprotect

LEMMA UnprotectOne ==
  ASSUME NEW q, NEW patching, Permissions(perm, patching), Mprotect(q, "rwx")
  PROVE  Permissions(perm', patching \cup {q})
  BY DEF Permissions, Mprotect

LEMMA OwnPageTouched ==
  ASSUME NEW a \in Targets
  PROVE  TouchedPage(PageOf(a))
  BY DEF TouchedPage, Touched

\* A new call: the list has no entry for its address.
LEMMA InterceptStep ==
  ASSUME SerialCalls, Shape, SerialInv, NEW t \in Callers, NEW type \in {"hook", "instrument"},
         NEW a \in Targets, NEW wants \in BOOLEAN, InterceptCall(t, type, a, wants)
  PROVE  SerialInv'
<1>0. /\ pc \in [Callers -> PCs] /\ job \in [Callers -> JobSet]
      /\ perm \in [0..(Pages - 1) -> {"rx", "rw", "rwx"}]
  BY DEF Shape, TypeOK
<1>1. Listed' = Listed /\ entries' = entries /\ ~faulted' /\ mem' = mem /\ OneEntryPerAddress'
  BY ListedType DEF InterceptCall, SerialInv, OneEntryPerAddress
<1>2. pc[t] = "idle" /\ pc'[t] = "relocate" /\ Matches(a) = {}
  BY <1>0 DEF InterceptCall, Goto
<1>3. PICK thumb \in BOOLEAN :
        job'[t] = [op |-> type, wants |-> wants, n |-> 0,
                  entry |-> [hook |-> made + 1, type |-> type,
                             patched_addr |-> Strip(a), thumb_mode |-> thumb,
                             reloc |-> <<>>, origin_insns |-> <<>>],
                  buf |-> Trampoline(made + 1, TrampSize(Strip(a), thumb))]
  BY <1>0 DEF InterceptCall
<1>4. /\ job'[t].op = type /\ job'[t].entry.patched_addr = a
      /\ job'[t].buf = TrampOf(job'[t].entry)
  BY <1>3, TargetIsHalfword DEF TrampOf, TrampLen
<1>5. \A e \in Listed : e.patched_addr # a
  BY <1>2 DEF Matches, Listed
<1>6. CallHolds("relocate", job'[t], Listed, Len(entries))
  BY <1>2, <1>4, <1>5 DEF CallHolds
<1>7. MemoryOf(Listed, mem) /\ Permissions(perm, {})
  BY <1>2 DEF SerialInv, Caller, Live, Patching
<1>8. Permissions(perm', {})
  <2>1. Mprotect(PageOf(a), "rx")
    BY DEF InterceptCall
  <2> QED
    BY <1>7, <2>1, OwnPageTouched, ProtectOne
<1>9. Caller("relocate", job'[t], Listed, Len(entries), mem, perm')
  BY <1>6, <1>7, <1>8 DEF Caller, Live, Patching
<1> QED
  BY <1>1, <1>2, <1>9, OnlyCaller DEF SerialInv

\* What every step may use of the state, and of a step that leaves the list alone.
LEMMA SerialTypes ==
  ASSUME Shape, NEW t \in Callers
  PROVE  /\ pc \in [Callers -> PCs] /\ job \in [Callers -> JobSet]
         /\ perm \in [0..(Pages - 1) -> {"rx", "rw", "rwx"}]
         /\ job[t].op \in {"none", "hook", "instrument", "destroy"}
         /\ job[t].entry \in EntrySet
  BY DEF Shape, TypeOK, JobSet

\* A step that leaves the list alone.
LEMMA SameList ==
  ASSUME SerialCalls, Shape, SerialInv, NEW t \in Callers, UNCHANGED entries, ~faulted',
         Caller(pc'[t], job'[t], Listed, Len(entries), mem', perm')
  PROVE  SerialInv'
<1>1. Listed' = Listed /\ OneEntryPerAddress'
  BY ListedType DEF SerialInv, OneEntryPerAddress
<1> QED
  BY <1>1, OnlyCaller DEF SerialInv

\* A call that is refused.
LEMMA RefusedStep ==
  ASSUME SerialCalls, Shape, SerialInv, NEW t \in Callers, NEW type,
         NEW a, InterceptRefused(t, type, a)
  PROVE  SerialInv'
<1>0. /\ pc \in [Callers -> PCs] /\ job \in [Callers -> JobSet]
      /\ perm \in [0..(Pages - 1) -> {"rx", "rw", "rwx"}]
  BY SerialTypes
<1>1. entries' = entries /\ ~faulted' /\ mem' = mem /\ pc[t] = "idle" /\ pc'[t] = "idle"
  BY <1>0 DEF InterceptRefused, SerialInv, Return, Goto
<1>2. MemoryOf(Listed, mem) /\ Permissions(perm, {})
  BY <1>1 DEF SerialInv, Caller, Live, Patching
<1>4. Permissions(perm', {})
  <2>1. CASE UNCHANGED perm
    BY <1>2, <2>1
  <2>2. CASE a \in Targets /\ Mprotect(PageOf(a), "rx")
    BY <1>2, <2>2, OwnPageTouched, ProtectOne
  <2> QED
    BY <2>1, <2>2 DEF InterceptRefused
<1>5. Caller("idle", job'[t], Listed, Len(entries), mem, perm')
  BY <1>2, <1>4 DEF Caller, Live, Patching, CallHolds
<1> QED
  BY <1>1, <1>5, SameList

\* The first entry with the address, or none.
LEMMA DestroyStep ==
  ASSUME SerialCalls, Shape, SerialInv, NEW t \in Callers, NEW a,
         DobbyDestroyCall(t, a)
  PROVE  SerialInv'
<1>0. /\ pc \in [Callers -> PCs] /\ job \in [Callers -> JobSet]
  BY SerialTypes
<1>1. /\ entries' = entries /\ ~faulted' /\ mem' = mem /\ perm' = perm /\ pc[t] = "idle"
  BY <1>0 DEF DobbyDestroyCall, SerialInv
<1>2. MemoryOf(Listed, mem) /\ Permissions(perm, {})
  BY <1>1 DEF SerialInv, Caller, Live, Patching
<1>3. CallHolds(pc'[t], job'[t], Listed, Len(entries)) /\ pc'[t] \in {"idle", "unprotect"}
  <2>1. CASE pc'[t] = "idle"
    BY <2>1 DEF CallHolds
  <2>2. CASE pc'[t] # "idle"
    <3>1. PICK i \in Find(Strip(a)) :
            job' = [job EXCEPT ![t] =
                      [op |-> "destroy", entry |-> entries[i],
                       buf |-> entries[i].origin_insns, wants |-> FALSE, n |-> 0]]
      BY <1>0, <2>2 DEF DobbyDestroyCall, Return, Goto
    <3>2. pc'[t] = "unprotect"
      BY <1>0, <2>2 DEF DobbyDestroyCall, Return, Goto
    <3>3. entries[i] \in Listed
      BY DEF Find, Matches, Listed
    <3>4. /\ job'[t].op = "destroy" /\ job'[t].entry = entries[i]
          /\ job'[t].buf = entries[i].origin_insns
      BY <1>0, <3>1
    <3> QED
      BY <3>2, <3>3, <3>4 DEF CallHolds
  <2> QED
    BY <2>1, <2>2
<1>4. Caller(pc'[t], job'[t], Listed, Len(entries), mem, perm)
  BY <1>2, <1>3 DEF Caller, Live, Patching
<1> QED
  BY <1>1, <1>4, SameList

\* The first read of the prologue.
LEMMA RelocateStep ==
  ASSUME SerialCalls, Shape, SerialInv, NEW t \in Callers, Relocate(t)
  PROVE  SerialInv'
<1> DEFINE e == job[t].entry
           a == e.patched_addr
<1>0. /\ pc \in [Callers -> PCs] /\ job \in [Callers -> JobSet]
      /\ job[t].op \in {"none", "hook", "instrument", "destroy"} /\ e \in EntrySet
  BY SerialTypes
<1>1. /\ entries' = entries /\ ~faulted' /\ mem' = mem /\ perm' = perm
      /\ pc[t] = "relocate" /\ pc'[t] = "save"
  BY <1>0 DEF Relocate, SerialInv, Goto
<1>2. CallHolds("relocate", job[t], Listed, Len(entries))
  BY <1>1 DEF SerialInv, Caller
<1>3. MemoryOf(Listed, mem) /\ Permissions(perm, {})
  BY <1>1 DEF SerialInv, Caller, Live, Patching
<1>4. PICK n \in OriginSizes(a, e.thumb_mode) :
        job' = [job EXCEPT ![t].entry.reloc = Read(a, n)]
  BY DEF Relocate
<1>5. /\ job[t].op # "destroy" /\ a \in Targets
      /\ job[t].buf = TrampOf(e) /\ \A f \in Listed : f.patched_addr # a
  BY <1>0, <1>2 DEF CallHolds
<1>6. n \in TrampLen(e)..6 /\ n \in 0..6
  BY <1>0, <1>4, OriginSizesFacts
<1>7. Read(a, n) = ProgramCode(a, n)
  <2>1. OnTargets(Listed)
    BY ListedType DEF OnTargets, SerialInv, Complete
  <2> QED
    BY <1>3, <1>5, <1>6, <2>1, ReadIsProgram
<1>8. /\ job'[t].op = job[t].op /\ job'[t].buf = job[t].buf
      /\ job'[t].entry.patched_addr = a /\ job'[t].entry.reloc = ProgramCode(a, n)
      /\ job'[t].entry.hook = e.hook /\ job'[t].entry.thumb_mode = e.thumb_mode
  BY <1>0, <1>4, <1>7 DEF JobSet, EntrySet
<1>9. TrampLen(job'[t].entry) = TrampLen(e) /\ TrampOf(job'[t].entry) = TrampOf(e)
  BY <1>8 DEF TrampOf, TrampLen
<1>10. CallHolds("save", job'[t], Listed, Len(entries))
  BY <1>0, <1>2, <1>4, <1>5, <1>8, <1>9 DEF CallHolds, Copied
<1>11. Caller("save", job'[t], Listed, Len(entries), mem, perm)
  BY <1>3, <1>10 DEF Caller, Live, Patching
<1> QED
  BY <1>1, <1>11, SameList

\* The second read finds the same.
LEMMA SaveStep ==
  ASSUME SerialCalls, Shape, SerialInv, NEW t \in Callers, SavePrologue(t)
  PROVE  SerialInv'
<1> DEFINE e == job[t].entry
           a == e.patched_addr
<1>0. /\ pc \in [Callers -> PCs] /\ job \in [Callers -> JobSet]
      /\ job[t].op \in {"none", "hook", "instrument", "destroy"} /\ e \in EntrySet
  BY SerialTypes
<1>1. /\ entries' = entries /\ ~faulted' /\ mem' = mem /\ perm' = perm
      /\ pc[t] = "save" /\ pc'[t] \in {"publish", "unprotect"}
  BY <1>0 DEF SavePrologue, SerialInv, Goto, AfterRouting
<1>2. CallHolds("save", job[t], Listed, Len(entries))
  BY <1>1 DEF SerialInv, Caller
<1>3. MemoryOf(Listed, mem) /\ Permissions(perm, {})
  BY <1>1 DEF SerialInv, Caller, Live, Patching
<1>4. job' = [job EXCEPT ![t].entry.origin_insns = Read(a, Len(e.reloc))]
  BY DEF SavePrologue
<1>5. /\ job[t].op # "destroy" /\ a \in Targets /\ Copied(e)
      /\ job[t].buf = TrampOf(e) /\ \A f \in Listed : f.patched_addr # a
  BY <1>0, <1>2 DEF CallHolds
<1>6. PICK n \in OriginSizes(a, e.thumb_mode) : e.reloc = ProgramCode(a, n)
  BY <1>5 DEF Copied
<1>7. n \in 0..6 /\ n \in Nat /\ a \in Nat
  <2>2. n \in 0..6 /\ n \in Nat
    BY <1>0, OriginSizesFacts
  <2>3. a \in Targets
    BY <1>5
  <2>4. a \in Nat
    BY <2>3, StripType
  <2> QED
    BY <2>2, <2>4
<1>8. Read(a, Len(e.reloc)) = e.reloc
  <2>1. OnTargets(Listed)
    BY ListedType DEF OnTargets, SerialInv, Complete
  <2>2. Len(ProgramCode(a, n)) = n
    BY <1>7, ProgramCodeLen
  <2>3. Len(e.reloc) = n
    BY <1>6, <2>2
  <2> QED
    BY <1>3, <1>5, <1>6, <1>7, <2>1, <2>3, ReadIsProgram
<1>9. /\ job'[t].op = job[t].op /\ job'[t].buf = job[t].buf
      /\ job'[t].entry.patched_addr = a /\ job'[t].entry.reloc = e.reloc
      /\ job'[t].entry.origin_insns = e.reloc
      /\ job'[t].entry.hook = e.hook /\ job'[t].entry.thumb_mode = e.thumb_mode
  BY <1>0, <1>4, <1>8 DEF JobSet, EntrySet
<1>10. TrampLen(job'[t].entry) = TrampLen(e) /\ TrampOf(job'[t].entry) = TrampOf(e)
  BY <1>9 DEF TrampOf, TrampLen
<1>11. Complete(job'[t].entry)
  BY <1>5, <1>9, <1>10 DEF Complete, Copied
<1>12. CallHolds(pc'[t], job'[t], Listed, Len(entries))
  BY <1>0, <1>1, <1>2, <1>5, <1>9, <1>10, <1>11 DEF CallHolds
<1>13. Caller(pc'[t], job'[t], Listed, Len(entries), mem, perm)
  BY <1>1, <1>3, <1>12 DEF Caller, Live, Patching
<1> QED
  BY <1>1, <1>13, SameList

\* *origin_func is assigned.
LEMMA PublishStep ==
  ASSUME SerialCalls, Shape, SerialInv, NEW t \in Callers, PublishOrigin(t)
  PROVE  SerialInv'
<1>0. /\ pc \in [Callers -> PCs] /\ job \in [Callers -> JobSet]
      /\ job[t].op \in {"none", "hook", "instrument", "destroy"}
  BY SerialTypes
<1>1. /\ entries' = entries /\ ~faulted' /\ mem' = mem /\ perm' = perm /\ job' = job
      /\ pc[t] = "publish" /\ pc'[t] = "unprotect"
  BY <1>0 DEF PublishOrigin, SerialInv, Goto
<1>2. Caller("publish", job[t], Listed, Len(entries), mem, perm)
  BY <1>1 DEF SerialInv
<1>3. Caller("unprotect", job[t], Listed, Len(entries), mem, perm)
  BY <1>0, <1>2 DEF Caller, Live, Patching, CallHolds
<1> QED
  BY <1>1, <1>3, SameList

\* A page of the patch becomes writable.
LEMMA UnprotectStep ==
  ASSUME SerialCalls, Shape, SerialInv, NEW t \in Callers,
         PatchUnprotect(t) \/ PatchUnprotectEnd(t)
  PROVE  SerialInv'
<1>0. /\ pc \in [Callers -> PCs] /\ job \in [Callers -> JobSet]
      /\ job[t].op \in {"none", "hook", "instrument", "destroy"}
  BY SerialTypes
<1>1. /\ entries' = entries /\ ~faulted' /\ mem' = mem /\ job' = job
      /\ pc[t] \in {"unprotect", "unprotectEnd"} /\ pc'[t] \in {"unprotectEnd", "write"}
  BY <1>0 DEF PatchUnprotect, PatchUnprotectEnd, SerialInv, Goto
<1>2. /\ CallHolds(pc[t], job[t], Listed, Len(entries))
      /\ MemoryOf(Listed, mem) /\ Permissions(perm, Patching(pc[t], job[t]))
  BY <1>1 DEF SerialInv, Caller, Live
<1>3. PICK q : /\ Mprotect(q, "rwx")
               /\ Patching(pc'[t], job[t]) = Patching(pc[t], job[t]) \cup {q}
  <2>1. CASE PatchUnprotect(t)
    <3>1. /\ Mprotect(First(job[t]), "rwx") /\ pc[t] = "unprotect"
          /\ pc'[t] = IF First(job[t]) # End(job[t]) THEN "unprotectEnd" ELSE "write"
      BY <1>0, <2>1 DEF PatchUnprotect, Goto, FirstPage, EndPage, First, End
    <3>2. Patching(pc'[t], job[t]) = Patching(pc[t], job[t]) \cup {First(job[t])}
      BY <3>1 DEF Patching
    <3> QED
      BY <3>1, <3>2
  <2>2. CASE PatchUnprotectEnd(t)
    <3>1. /\ Mprotect(End(job[t]), "rwx") /\ pc[t] = "unprotectEnd" /\ pc'[t] = "write"
      BY <1>0, <2>2 DEF PatchUnprotectEnd, Goto, EndPage, End
    <3>2. Patching(pc'[t], job[t]) = Patching(pc[t], job[t]) \cup {End(job[t])}
      BY <3>1 DEF Patching
    <3> QED
      BY <3>1, <3>2
  <2> QED
    BY <2>1, <2>2
<1>4. Permissions(perm', Patching(pc'[t], job[t]))
  <2>1. Permissions(perm', Patching(pc[t], job[t]) \cup {q})
    BY <1>2, <1>3, UnprotectOne
  <2> QED
    BY <1>3, <2>1
<1>5. CallHolds(pc'[t], job[t], Listed, Len(entries))
  BY <1>0, <1>1, <1>2 DEF CallHolds
<1>6. Caller(pc'[t], job[t], Listed, Len(entries), mem, perm')
  BY <1>1, <1>2, <1>4, <1>5 DEF Caller, Live
<1> QED
  BY <1>1, <1>6, SameList

\* The list as a set of hooks, one for each target.
LEMMA ListedTargets ==
  ASSUME Shape, SerialInv
  PROVE  /\ OnTargets(Listed)
         /\ \A e, f \in Listed : f.patched_addr = e.patched_addr => f = e
<1>1. OnTargets(Listed)
  BY ListedType DEF OnTargets, SerialInv, Complete
<1>2. \A e, f \in Listed : f.patched_addr = e.patched_addr => f = e
  BY DEF Listed, SerialInv, OneEntryPerAddress
<1> QED
  BY <1>1, <1>2

\* A patch lies in the program, and the pages it changes are those its target touches.
LEMMA PatchReach ==
  ASSUME SerialCalls, Shape, SerialInv, NEW t \in Callers, NEW l,
         CallHolds(l, job[t], Listed, Len(entries)), l \notin {"idle", "relocate", "save"}
  PROVE  /\ job[t].buf \in Seq(Content) /\ Len(job[t].buf) <= 6
         /\ job[t].entry.patched_addr + Bytes(job[t].buf) <= Pages * PageSize
         /\ TouchedPage(First(job[t])) /\ TouchedPage(End(job[t]))
<1> DEFINE e == job[t].entry
           a == e.patched_addr
           b == job[t].buf
<1>0. job[t].op \in {"none", "hook", "instrument", "destroy"} /\ e \in EntrySet
  BY SerialTypes
<1>1. /\ a \in Targets /\ b \in Seq(Content)
      /\ \E n \in 0..6 : Len(b) = n /\ n \in OriginSizes(a, e.thumb_mode)
  <2>1. CASE job[t].op # "destroy"
    <3>1. a \in Targets /\ b = TrampOf(e)
      BY <2>1 DEF CallHolds
    <3>2. b \in Seq(Content) /\ Len(b) = TrampLen(e) /\ TrampLen(e) \in 0..6
      BY <1>0, <3>1, TrampFacts
    <3>3. TrampLen(e) \in OriginSizes(a, e.thumb_mode)
      BY DEF OriginSizes, TrampLen
    <3> QED
      BY <3>1, <3>2, <3>3
  <2>2. CASE job[t].op = "destroy"
    <3>1. e \in Listed /\ b = e.origin_insns
      BY <2>2 DEF CallHolds
    <3>2. a \in Targets /\ Copied(e) /\ e.origin_insns = e.reloc
      BY <3>1 DEF SerialInv, Complete
    <3>3. PICK n \in OriginSizes(a, e.thumb_mode) : b = ProgramCode(a, n)
      BY <3>1, <3>2 DEF Copied
    <3>4. a \in Nat /\ n \in 0..6 /\ n \in Nat
      BY <1>0, <3>2, <3>3, StripType, OriginSizesFacts
    <3>5. b \in Seq(Content) /\ Len(b) = n
      <4>1. ProgramCode(a, n) \in Seq(Content) /\ Len(ProgramCode(a, n)) = n
        BY <3>4, ProgramCodeLen
      <4> HIDE DEF a, b
      <4> QED
        BY ONLY <3>3, <4>1
    <3> QED
      BY <3>2, <3>3, <3>4, <3>5
  <2> QED
    BY <2>1, <2>2
<1>2. PICK n \in 0..6 : Len(b) = n /\ n \in OriginSizes(a, e.thumb_mode)
  BY <1>1
<1>3. Strip(a) = a /\ a + 12 <= Pages * PageSize /\ a \in Nat
  BY <1>1, TargetIsHalfword, StripType
<1>4. a + Bytes(b) <= Pages * PageSize
  <2>1. PICK z \in Nat : z = Pages * PageSize
    BY PagesAssumption
  <2> QED
    BY <1>2, <1>3, <2>1 DEF Bytes
<1>5. e.thumb_mode \in BOOLEAN
  BY <1>0 DEF EntrySet
<1>6. PageOf(a) \in Touched(a) /\ PageOf(a + Bytes(b)) \in Touched(a)
  <2>1. n \in UNION {OriginSizes(Strip(a), thumb) : thumb \in BOOLEAN}
    BY <1>2, <1>3, <1>5
  <2>2. PageOf(a + Bytes(b)) = PageOf(Strip(a) + 2 * n)
    BY <1>2, <1>3 DEF Bytes
  <2> HIDE DEF a, b, e
  <2> QED
    BY <2>1, <2>2 DEF Touched
<1> QED
  BY <1>1, <1>2, <1>4, <1>6 DEF TouchedPage, First, End

\* What is written is a trampoline or a saved prologue, on pages that are writable.
LEMMA WriteStep ==
  ASSUME SerialCalls, Shape, SerialInv, NEW t \in Callers, PatchWrite(t)
  PROVE  SerialInv'
<1> DEFINE e == job[t].entry
           a == e.patched_addr
           b == job[t].buf
<1>0. /\ pc \in [Callers -> PCs] /\ job \in [Callers -> JobSet]
      /\ job[t].op \in {"none", "hook", "instrument", "destroy"} /\ e \in EntrySet
  BY SerialTypes
<1>1. /\ entries' = entries /\ perm' = perm /\ job' = job
      /\ pc[t] = "write" /\ pc'[t] = "protect"
  BY <1>0 DEF PatchWrite, Goto
<1>2. /\ CallHolds("write", job[t], Listed, Len(entries))
      /\ MemoryOf(Listed, mem) /\ Permissions(perm, {PageOf(a), PageOf(a + Bytes(b))})
  BY <1>1 DEF SerialInv, Caller, Live, Patching, First, End
<1>a. /\ b \in Seq(Content) /\ Len(b) <= 6 /\ a + Bytes(b) <= Pages * PageSize
  <2>1. pc[t] \notin {"idle", "relocate", "save"} /\ CallHolds(pc[t], job[t], Listed, Len(entries))
    BY <1>1, <1>2
  <2> QED
    BY <2>1, PatchReach
<1>3. OnTargets(Listed) /\ \A f, g \in Listed : f.patched_addr = g.patched_addr => f = g
  BY ListedTargets
<1>4. MemoryOf(Live("protect", job[t], Listed), Patch(a, b))
  <2>1. CASE job[t].op # "destroy"
    <3>1. /\ job[t].op # "none" /\ a \in Targets /\ b = TrampOf(e)
          /\ \A f \in Listed : f.patched_addr # a
      BY <1>2, <2>1 DEF CallHolds
    <3>3. MemoryOf(Listed \cup {e}, Patch(a, b))
      BY <1>0, <1>2, <1>3, <3>1, WriteTrampoline
    <3>5. Live("protect", job[t], Listed) = Listed \cup {e}
      BY <2>1 DEF Live
    <3> QED
      BY <3>3, <3>5
  <2>2. CASE job[t].op = "destroy"
    <3>1. e \in Listed /\ b = e.origin_insns
      BY <1>2, <2>2 DEF CallHolds
    <3>2. a \in Targets /\ Copied(e) /\ e.origin_insns = e.reloc
      BY <3>1 DEF SerialInv, Complete
    <3>3. PICK n \in OriginSizes(a, e.thumb_mode) : b = ProgramCode(a, n)
      BY <3>1, <3>2 DEF Copied
    <3>5. n \in TrampLen(e)..6
      BY <1>0, <3>3, OriginSizesFacts
    <3>7. \A f \in Listed : f.patched_addr = a => f = e
      BY <1>3, <3>1
    <3>8. MemoryOf(Listed \ {e}, Patch(a, ProgramCode(a, n)))
      BY <1>2, <1>3, <3>1, <3>5, <3>7, WriteBack
    <3>10. Live("protect", job[t], Listed) = Listed \ {e}
      BY <2>2 DEF Live
    <3> QED
      BY <3>3, <3>8, <3>10
  <2> QED
    BY <2>1, <2>2
<1>9. mem' = Patch(a, b) /\ ~faulted'
  <2>1. a \in Halfwords
    BY <1>0 DEF EntrySet
  <2>2. ASSUME NEW h \in Covers(a, Len(b)) PROVE perm[PageOf(h)] = "rwx"
    <3>1. PageOf(h) \in {PageOf(a), PageOf(a + Bytes(b))} /\ PageOf(h) \in 0..(Pages - 1)
      BY <1>a, <2>1, PatchCovered
    <3> QED
      BY <1>2, <3>1 DEF Permissions
  <2> QED
    BY <1>a, <2>2 DEF PatchWrite, SerialInv
<1>10. CallHolds("protect", job[t], Listed, Len(entries))
  BY <1>0, <1>2 DEF CallHolds
<1>11. Caller("protect", job[t], Listed, Len(entries), mem', perm)
  BY <1>2, <1>4, <1>9, <1>10 DEF Caller, Patching, First, End
<1> QED
  BY <1>1, <1>9, <1>11, SameList

\* A page of the patch becomes read-only code.
LEMMA ProtectStep ==
  ASSUME SerialCalls, Shape, SerialInv, NEW t \in Callers,
         PatchProtect(t) \/ PatchProtectEnd(t)
  PROVE  SerialInv'
<1> DEFINE live == Live("protect", job[t], Listed)
           over == IF job[t].op = "destroy" THEN "remove" ELSE "add"
<1>0. /\ pc \in [Callers -> PCs] /\ job \in [Callers -> JobSet]
      /\ job[t].op \in {"none", "hook", "instrument", "destroy"}
  BY SerialTypes
<1>1. /\ entries' = entries /\ ~faulted' /\ mem' = mem /\ job' = job
      /\ pc[t] \in {"protect", "protectEnd"} /\ pc'[t] \in {"protectEnd", over}
  BY <1>0 DEF PatchProtect, PatchProtectEnd, AfterPatch, SerialInv, Goto
<1>2. /\ CallHolds(pc[t], job[t], Listed, Len(entries))
      /\ MemoryOf(live, mem) /\ Permissions(perm, Patching(pc[t], job[t]))
  BY <1>1 DEF SerialInv, Caller, Live
<1>3. PICK q \in {First(job[t]), End(job[t])} :
        /\ Mprotect(q, "rx")
        /\ Patching(pc'[t], job[t]) = Patching(pc[t], job[t]) \ {q}
  <2>1. CASE PatchProtect(t)
    <3>1. /\ Mprotect(First(job[t]), "rx") /\ pc[t] = "protect"
          /\ pc'[t] = IF First(job[t]) # End(job[t]) THEN "protectEnd" ELSE over
      BY <1>0, <2>1 DEF PatchProtect, AfterPatch, Goto, FirstPage, EndPage, First, End
    <3>2. Patching(pc'[t], job[t]) = Patching(pc[t], job[t]) \ {First(job[t])}
      BY <3>1 DEF Patching
    <3> QED
      BY <3>1, <3>2
  <2>2. CASE PatchProtectEnd(t)
    <3>1. /\ Mprotect(End(job[t]), "rx") /\ pc[t] = "protectEnd" /\ pc'[t] = over
      BY <1>0, <2>2 DEF PatchProtectEnd, AfterPatch, Goto, EndPage, End
    <3>2. Patching(pc'[t], job[t]) = Patching(pc[t], job[t]) \ {End(job[t])}
      BY <3>1 DEF Patching
    <3> QED
      BY <3>1, <3>2
  <2> QED
    BY <2>1, <2>2
<1>4. Permissions(perm', Patching(pc'[t], job[t]))
  <2>1. TouchedPage(q)
    BY <1>1, <1>2, PatchReach
  <2>2. Permissions(perm', Patching(pc[t], job[t]) \ {q})
    BY <1>2, <1>3, <2>1, ProtectOne
  <2> QED
    BY <1>3, <2>2
<1>5. Live(pc'[t], job[t], Listed) = live
  BY <1>1 DEF Live
<1>6. CallHolds(pc'[t], job[t], Listed, Len(entries))
  BY <1>0, <1>1, <1>2 DEF CallHolds
<1>7. Caller(pc'[t], job[t], Listed, Len(entries), mem, perm')
  BY <1>2, <1>4, <1>5, <1>6 DEF Caller
<1> QED
  BY <1>1, <1>7, SameList

\* The end of the vector is read.
LEMMA AddLoadStep ==
  ASSUME SerialCalls, Shape, SerialInv, NEW t \in Callers, AddLoad(t)
  PROVE  SerialInv'
<1> DEFINE j == job'[t]
<1>0. /\ pc \in [Callers -> PCs] /\ job \in [Callers -> JobSet]
      /\ job[t].op \in {"none", "hook", "instrument", "destroy"}
  BY SerialTypes
<1>1. /\ entries' = entries /\ ~faulted' /\ mem' = mem /\ perm' = perm
      /\ pc[t] = "add" /\ pc'[t] = "store"
  BY <1>0 DEF AddLoad, SerialInv, Goto
<1>2. j.op = job[t].op /\ j.entry = job[t].entry /\ j.buf = job[t].buf /\ j.n = Len(entries)
  BY <1>0 DEF AddLoad, JobSet
<1>3. Caller("add", job[t], Listed, Len(entries), mem, perm)
  BY <1>1 DEF SerialInv
<1>4. Live("store", j, Listed) = Live("add", job[t], Listed)
  BY <1>2 DEF Live
<1>5. CallHolds("store", j, Listed, Len(entries))
  BY <1>0, <1>2, <1>3 DEF CallHolds, Caller
<1>6. Caller("store", j, Listed, Len(entries), mem, perm)
  BY <1>3, <1>4, <1>5 DEF Caller, Patching
<1> QED
  BY <1>1, <1>6, SameList

LEMMA AppendAtEnd ==
  ASSUME NEW S, NEW s \in Seq(S), NEW e \in S
  PROVE  SubSeq(s, 1, Len(s)) \o <<e>> = Append(s, e)
  BY SubSeqFull, AppendIsConcat

\* The end of the vector has not moved: the entry joins the list.
LEMMA AddStoreStep ==
  ASSUME SerialCalls, Shape, SerialInv, NEW t \in Callers, AddStore(t)
  PROVE  SerialInv'
<1> DEFINE e == job[t].entry
<1>0. /\ pc \in [Callers -> PCs] /\ job \in [Callers -> JobSet] /\ entries \in Seq(EntrySet)
      /\ job[t].op \in {"none", "hook", "instrument", "destroy"} /\ e \in EntrySet
  BY SerialTypes DEF Shape
<1>1. /\ ~faulted' /\ mem' = mem /\ perm' = perm /\ pc[t] = "store" /\ pc'[t] = "idle"
  BY <1>0 DEF AddStore, SerialInv, Return, Goto
<1>2. Caller("store", job[t], Listed, Len(entries), mem, perm)
  BY <1>1 DEF SerialInv
<1>3. /\ job[t].op # "destroy" /\ job[t].n = Len(entries) /\ Complete(e)
      /\ \A f \in Listed : f.patched_addr # e.patched_addr
  BY <1>2 DEF Caller, CallHolds
<1>4. entries' = Append(entries, e)
  <2>1. Len(entries) \in Nat
    BY <1>0
  <2>2. entries' = SubSeq(entries, 1, Len(entries)) \o <<e>>
    BY <1>3, <2>1 DEF AddStore
  <2> QED
    BY <1>0, <2>2, AppendAtEnd
<1>5. /\ DOMAIN entries = 1..Len(entries) /\ DOMAIN entries' = 1..(Len(entries) + 1)
      /\ Len(entries) \in Nat /\ entries'[Len(entries) + 1] = e
      /\ \A i \in 1..Len(entries) : entries'[i] = entries[i]
  BY <1>0, <1>4
<1>6. Listed' = Listed \cup {e}
  BY <1>5 DEF Listed
<1>7. OneEntryPerAddress'
  <2>1. \A i \in 1..Len(entries) : entries[i].patched_addr # e.patched_addr
    BY <1>3, <1>5 DEF Listed
  <2> QED
    BY <1>5, <2>1 DEF OneEntryPerAddress, SerialInv
<1>8. MemoryOf(Listed \cup {e}, mem) /\ Permissions(perm, {})
  BY <1>2, <1>3 DEF Caller, Live, Patching
<1>9. Caller("idle", job'[t], Listed', Len(entries'), mem, perm)
  BY <1>6, <1>8 DEF Caller, CallHolds, Live, Patching
<1>10. \A f \in Listed' : Complete(f)
  BY <1>3, <1>6 DEF SerialInv
<1> QED
  BY <1>1, <1>7, <1>9, <1>10, OnlyCaller

\* Removing the only entry of an address.
LEMMA RemoveOnly ==
  ASSUME Shape, OneEntryPerAddress, NEW k \in DOMAIN entries
  PROVE  LET s == Remove(entries[k].patched_addr) IN
         /\ {s[i] : i \in DOMAIN s} = Listed \ {entries[k]}
         /\ \A i, j \in DOMAIN s : s[i].patched_addr = s[j].patched_addr => i = j
<1> DEFINE a == entries[k].patched_addr
           n == Len(entries)
           s == Remove(a)
<1>1. entries \in Seq(EntrySet) /\ n \in Nat /\ DOMAIN entries = 1..n /\ k \in 1..n
  BY DEF Shape
<1>2. Matches(a) = {k}
  BY DEF Matches, OneEntryPerAddress
<1>3. s = [i \in 1..(n - 1) |-> IF i < k THEN entries[i] ELSE entries[i + 1]]
  BY <1>2 DEF Remove
<1>4. DOMAIN s = 1..(n - 1)
  BY <1>3
<1>5. \A i \in 1..(n - 1) : s[i] = entries[IF i < k THEN i ELSE i + 1]
  BY <1>3
<1> HIDE DEF s, n
<1>6. ASSUME NEW i \in DOMAIN s, NEW j \in DOMAIN s, s[i].patched_addr = s[j].patched_addr
      PROVE  i = j
  <2> DEFINE x == IF i < k THEN i ELSE i + 1
             y == IF j < k THEN j ELSE j + 1
  <2>1. x \in 1..n /\ y \in 1..n
    BY <1>1, <1>4
  <2>2. s[i] = entries[x] /\ s[j] = entries[y]
    BY <1>4, <1>5
  <2>3. x = y
    BY <1>1, <1>6, <2>1, <2>2 DEF OneEntryPerAddress
  <2> QED
    BY <1>1, <1>4, <2>3
<1>7. \A i \in DOMAIN s : s[i] \in Listed \ {entries[k]}
  <2> SUFFICES ASSUME NEW i \in DOMAIN s
               PROVE  s[i] \in Listed \ {entries[k]}
    OBVIOUS
  <2> DEFINE x == IF i < k THEN i ELSE i + 1
  <2>1. x \in 1..n /\ x # k
    BY <1>1, <1>4
  <2>2. s[i] = entries[x]
    BY <1>4, <1>5
  <2> HIDE DEF x
  <2>3. entries[x] # entries[k]
    BY <1>1, <2>1 DEF OneEntryPerAddress
  <2> QED
    BY <1>1, <2>1, <2>2, <2>3 DEF Listed
<1>8. ASSUME NEW x \in 1..n, x # k
      PROVE  \E i \in DOMAIN s : s[i] = entries[x]
  <2>1. CASE x < k
    <3>1. x \in 1..(n - 1)
      BY <1>1, <2>1
    <3> QED
      BY <1>4, <1>5, <2>1, <3>1
  <2>2. CASE x > k
    <3>1. x - 1 \in 1..(n - 1) /\ ~(x - 1 < k) /\ (x - 1) + 1 = x
      BY <1>1, <2>2
    <3>2. s[x - 1] = entries[x]
      BY <1>5, <3>1
    <3> QED
      BY <1>4, <3>1, <3>2
  <2> QED
    BY <1>1, <1>8, <2>1, <2>2
<1>9. {s[i] : i \in DOMAIN s} = Listed \ {entries[k]}
  <2>1. \A f \in Listed \ {entries[k]} : \E i \in DOMAIN s : s[i] = f
    BY <1>1, <1>8 DEF Listed
  <2> QED
    BY <1>7, <2>1
<1> QED
  BY <1>6, <1>9 DEF s

\* The entry that was patched back leaves the list.
LEMMA RemoveStep ==
  ASSUME SerialCalls, Shape, SerialInv, NEW t \in Callers, RemoveEntry(t)
  PROVE  SerialInv'
<1> DEFINE e == job[t].entry
<1>0. /\ pc \in [Callers -> PCs] /\ job \in [Callers -> JobSet]
      /\ job[t].op \in {"none", "hook", "instrument", "destroy"}
  BY SerialTypes
<1>1. /\ ~faulted' /\ mem' = mem /\ perm' = perm /\ pc[t] = "remove" /\ pc'[t] = "idle"
      /\ entries' = Remove(e.patched_addr)
  BY <1>0 DEF RemoveEntry, SerialInv, Return, Goto
<1>2. Caller("remove", job[t], Listed, Len(entries), mem, perm)
  BY <1>1 DEF SerialInv
<1>3. job[t].op = "destroy" /\ e \in Listed
  BY <1>2 DEF Caller, CallHolds
<1>4. PICK k \in DOMAIN entries : e = entries[k]
  BY <1>3 DEF Listed
<1>5. /\ Listed' = Listed \ {e}
      /\ OneEntryPerAddress'
  <2>1. OneEntryPerAddress
    BY DEF SerialInv
  <2>2. /\ {entries'[i] : i \in DOMAIN entries'} = Listed \ {e}
        /\ \A i, j \in DOMAIN entries' :
             entries'[i].patched_addr = entries'[j].patched_addr => i = j
    <3> DEFINE s == Remove(entries[k].patched_addr)
    <3>1. /\ {s[i] : i \in DOMAIN s} = Listed \ {entries[k]}
          /\ \A i, j \in DOMAIN s : s[i].patched_addr = s[j].patched_addr => i = j
      BY <2>1, RemoveOnly
    <3>2. entries' = s
      BY <1>1, <1>4
    <3> HIDE DEF s
    <3> QED
      BY <1>4, <3>1, <3>2
  <2>3. Listed' = {entries'[i] : i \in DOMAIN entries'}
    BY DEF Listed
  <2>4. OneEntryPerAddress'
    BY <2>2 DEF OneEntryPerAddress
  <2> QED
    BY <2>2, <2>3, <2>4
<1>6. MemoryOf(Listed \ {e}, mem) /\ Permissions(perm, {})
  BY <1>2, <1>3 DEF Caller, Live, Patching
<1>7. Caller("idle", job'[t], Listed', Len(entries'), mem, perm)
  BY <1>5, <1>6 DEF Caller, CallHolds, Live, Patching
<1>8. \A f \in Listed' : Complete(f)
  BY <1>5 DEF SerialInv
<1> QED
  BY <1>1, <1>5, <1>7, <1>8, OnlyCaller

-----------------------------------------------------------------------------
(* The invariant holds. *)

LEMMA SerialInit ==
  ASSUME SerialCalls, Init
  PROVE  SerialInv
<1>1. entries = <<>> /\ Listed = {} /\ ~faulted /\ OneEntryPerAddress
  BY DEF Init, Listed, OneEntryPerAddress
<1>2. MemoryOf({}, mem)
  BY DEF Init, OrigMem, MemoryOf
<1>3. Permissions(perm, {})
  BY PagesAssumption DEF Init, Permissions
<1>4. ASSUME NEW t \in Callers
      PROVE  Caller(pc[t], job[t], Listed, Len(entries), mem, perm)
  <2>1. pc[t] = "idle"
    BY DEF Init
  <2> QED
    BY <1>1, <1>2, <1>3, <2>1 DEF Caller, CallHolds, Live, Patching
<1> QED
  BY <1>1, <1>4 DEF SerialInv

LEMMA SerialNext ==
  ASSUME SerialCalls, Shape, SerialInv, [Next]_vars
  PROVE  SerialInv'
<1>1. ASSUME NEW t \in Callers, Step(t)
      PROVE  SerialInv'
  <2>1. ~RelocateFails(t)
    BY DEF RelocateFails, SerialCalls
  <2> QED
    BY <1>1, <2>1, RelocateStep, SaveStep, PublishStep, UnprotectStep, WriteStep, ProtectStep,
       AddLoadStep, AddStoreStep, RemoveStep DEF Step
<1>2. ASSUME NEW t \in Callers, NEW a, Call(t, a)
      PROVE  SerialInv'
  BY <1>2, InterceptTarget, InterceptStep, RefusedStep, DestroyStep DEF Call
<1>3. CASE UNCHANGED vars
  <2>1. PICK t : Callers = {t}
    BY DEF SerialCalls
  <2>2. t \in Callers
    BY <2>1
  <2>3. UNCHANGED entries /\ ~faulted'
    BY <1>3 DEF vars, SerialInv
  <2>4. Caller(pc'[t], job'[t], Listed, Len(entries), mem', perm')
    BY <1>3, <2>2 DEF vars, SerialInv
  <2> QED
    BY <2>2, <2>3, <2>4, SameList
<1> QED
  BY <1>1, <1>2, <1>3 DEF Next

LEMMA SerialInvHolds ==
  ASSUME SerialCalls
  PROVE  Spec => []SerialInv
<1>1. Init => SerialInv
  BY SerialInit
<1>2. IndInv /\ SerialInv /\ [Next]_vars => SerialInv'
  BY SerialNext DEF IndInv
<1> QED
  BY <1>1, <1>2, IndInvHolds, PTL DEF Spec

-----------------------------------------------------------------------------
(* What a program that calls the API one call at a time may rely on. *)

\* Between calls memory holds the trampolines of the entries and elsewhere the program:
\* a destroyed hook leaves nothing behind, an active one is complete.
THEOREM SerialMemory ==
  ASSUME SerialCalls
  PROVE  Spec => []MemoryMatchesEntries
<1>1. Shape /\ SerialInv => MemoryMatchesEntries
  <2> SUFFICES ASSUME Shape, SerialInv, Idle, NEW h \in Halfwords
               PROVE  mem[h] \in Expected(h)
    BY DEF MemoryMatchesEntries
  <2>1. PICK t \in Callers : pc[t] = "idle"
    BY DEF SerialCalls, Idle
  <2>2. MemoryOf(Listed, mem)
    BY <2>1 DEF SerialInv, Caller, Live
  <2> DEFINE live == {i \in DOMAIN entries : h \in TrampCover(entries[i])}
  <2>3. Expected(h) = IF live = {} THEN {<<0, h>>} ELSE {Piece(entries[i], h) : i \in live}
    BY DEF Expected, TrampCover, TrampLen, Piece
  <2>4. CASE live = {}
    <3>1. \A e \in Listed : h \notin TrampCover(e)
      BY <2>4 DEF Listed
    <3> QED
      BY <2>2, <2>3, <2>4, <3>1 DEF MemoryOf
  <2>5. CASE live # {}
    <3>1. PICK i \in DOMAIN entries : h \in TrampCover(entries[i])
      BY <2>5
    <3>2. mem[h] = Piece(entries[i], h)
      BY <2>2, <3>1 DEF MemoryOf, Listed
    <3> QED
      BY <2>3, <2>5, <3>1, <3>2
  <2> QED
    BY <2>4, <2>5
<1>2. IndInv => Shape
  BY DEF IndInv
<1> QED
  BY <1>1, <1>2, SerialInvHolds, IndInvHolds, PTL

\* "destroy and restore code patch": with every hook destroyed the program is back as it
\* was.  With overlapping or Thumb targets it need not be.
THEOREM SerialDestroy ==
  ASSUME SerialCalls
  PROVE  Spec => []DestroyRestores
<1>1. Shape /\ MemoryMatchesEntries => DestroyRestores
  <2> SUFFICES ASSUME Shape, MemoryMatchesEntries, Idle, entries = <<>>
               PROVE  mem = OrigMem
    BY DEF DestroyRestores
  <2>1. \A h \in Halfwords : Expected(h) = {<<0, h>>}
    BY DEF Expected
  <2>2. \A h \in Halfwords : mem[h] = <<0, h>>
    BY <2>1 DEF MemoryMatchesEntries
  <2>3. mem \in [Halfwords -> Content]
    BY DEF Shape
  <2> QED
    BY <2>2, <2>3 DEF OrigMem
<1>2. IndInv => Shape
  BY DEF IndInv
<1> QED
  BY <1>1, <1>2, SerialMemory, IndInvHolds, PTL

\* The relocated copy behind *origin_func, and what DobbyDestroy writes back, is the
\* program's own code and never another trampoline.
THEOREM SerialOrigin ==
  ASSUME SerialCalls
  PROVE  Spec => []OriginRunsProgramCode
<1>1. SerialInv => OriginRunsProgramCode
  <2> SUFFICES ASSUME SerialInv, NEW i \in DOMAIN entries
               PROVE  LET e == entries[i] IN
                      /\ e.reloc = e.origin_insns
                      /\ \A j \in DOMAIN e.reloc : e.reloc[j] = <<0, e.patched_addr + 2 * (j - 1)>>
    BY DEF OriginRunsProgramCode
  <2>1. Complete(entries[i])
    BY DEF SerialInv, Listed
  <2> QED
    BY <2>1 DEF Complete, Copied, ProgramCode
<1> QED
  BY <1>1, SerialInvHolds, PTL

\* An address that is hooked is refused, so that it has one entry.
THEOREM SerialUnique ==
  ASSUME SerialCalls
  PROVE  Spec => []OneEntryPerAddress
<1>1. SerialInv => OneEntryPerAddress
  BY DEF SerialInv
<1> QED
  BY <1>1, SerialInvHolds, PTL

\* DobbyCodePatch unprotects every page it writes: no call dies of a write.
THEOREM SerialNoFault ==
  ASSUME SerialCalls
  PROVE  Spec => []NoFault
<1>1. SerialInv => NoFault
  BY DEF SerialInv, NoFault
<1> QED
  BY <1>1, SerialInvHolds, PTL

\* Between calls every page of code is as the loader mapped it, and a data page has lost
\* its permission only if it holds the byte behind a patch.
THEOREM SerialPermissions ==
  ASSUME SerialCalls
  PROVE  Spec => []CodePagesRestored
<1>1. SerialInv => CodePagesRestored
  <2> SUFFICES ASSUME SerialInv, Idle, NEW p \in 0..(Pages - 1), perm[p] # InitPerm[p]
               PROVE  perm[p] = "rx" /\ \E a \in Targets : p \in Touched(a)
    BY DEF CodePagesRestored
  <2>1. PICK t \in Callers : pc[t] = "idle"
    BY DEF SerialCalls, Idle
  <2>2. Permissions(perm, {})
    BY <2>1 DEF SerialInv, Caller, Patching
  <2> QED
    BY <2>2 DEF Permissions, TouchedPage
<1> QED
  BY <1>1, SerialInvHolds, PTL

-----------------------------------------------------------------------------
(* The table of HookTable.  Besides the invariants above: hooks have numbers, those not  *)
(* given out yet have no original, and a hook that asked for its original has it before  *)
(* its trampoline is written.                                                            *)

CallReady(l, j, o) ==
  /\ j.wants => j.op = "hook"
  /\ l # "idle" => j.entry.hook # 0
  /\ l = "publish" => j.wants
  /\ l \in {"unprotect", "unprotectEnd", "write"} /\ j.wants => o[j.entry.hook] = "relocated"

TableInv ==
  /\ DOMAIN ret = Callers
  /\ \A e \in Listed : e.hook # 0
  /\ \A k \in Hooks : k > made => origin[k] = "unset"
  /\ \A t \in Callers : CallReady(pc[t], job[t], origin)

\* The mapped state.
TableOf(m)    == [f \in Targets |-> m[f][1]]
Originals(o)  == {k \in Hooks : o[k] = "relocated"}
CallOf(l, j) ==
  IF l = "idle"
  THEN [op |-> "none", at |-> 0, hook |-> 0, wants |-> FALSE, stage |-> "none"]
  ELSE [op |-> j.op, at |-> j.entry.patched_addr, hook |-> j.entry.hook, wants |-> j.wants,
        stage |-> IF l \in {"protect", "protectEnd", "add", "store", "remove"}
                  THEN "done" ELSE "asked"]

CallRecord(op, at, hook, wants, stage) ==
  [op |-> op, at |-> at, hook |-> hook, wants |-> wants, stage |-> stage]

LEMMA CallIsDone ==
  ASSUME NEW op, NEW at, NEW hook, NEW wants
  PROVE  CallRecord(op, at, hook, wants, "done")
           = [CallRecord(op, at, hook, wants, "asked") EXCEPT !.stage = "done"]
  BY DEF CallRecord

LEMMA CallOfCases ==
  ASSUME NEW l, NEW j
  PROVE  /\ l = "idle" => CallOf(l, j) = CallRecord("none", 0, 0, FALSE, "none")
         /\ l \in {"relocate", "save", "publish", "unprotect", "unprotectEnd", "write"} =>
              CallOf(l, j)
                = CallRecord(j.op, j.entry.patched_addr, j.entry.hook, j.wants, "asked")
         /\ l \in {"protect", "protectEnd", "add", "store", "remove"} =>
              CallOf(l, j)
                = CallRecord(j.op, j.entry.patched_addr, j.entry.hook, j.wants, "done")
  BY DEF CallOf, CallRecord

LEMMA SoleCaller ==
  ASSUME SerialCalls, NEW t \in Callers
  PROVE  /\ Sole = t
         /\ CallInProgress = CallOf(pc[t], job[t])
         /\ CallInProgress' = CallOf(pc'[t], job'[t])
<1>1. Callers = {t}
  BY DEF SerialCalls
<1>2. Sole = t
  BY <1>1 DEF Sole
<1> QED
  BY <1>2 DEF CallInProgress, CallOf

\* Who answers a function: the live hook with its address, or the function itself.
LEMMA Answers ==
  ASSUME SerialCalls, NEW live, OnTargets(live), NEW m, MemoryOf(live, m),
         NEW f \in Targets
  PROVE  /\ \A e \in live : e.patched_addr = f => m[f][1] = e.hook
         /\ (\A e \in live : e.patched_addr # f) => m[f][1] = 0
<1>1. f \in Halfwords /\ f \in Nat
  BY TargetIsHalfword, StripType
<1>2. \A e \in live : e \in EntrySet /\ e.patched_addr \in Targets /\ TrampLen(e) \in 4..5
  BY TrampFacts DEF OnTargets
<1>3. ASSUME NEW n \in 4..5
      PROVE  f \in Covers(f, n)
  BY <1>1 DEF Covers
<1>4. ASSUME NEW e \in live, e.patched_addr = f
      PROVE  m[f][1] = e.hook
  <2>1. f \in TrampCover(e)
    BY <1>2, <1>3, <1>4 DEF TrampCover
  <2> QED
    BY <1>1, <2>1 DEF MemoryOf, Piece
<1>5. ASSUME \A e \in live : e.patched_addr # f
      PROVE  m[f][1] = 0
  <2>1. ASSUME NEW e \in live
        PROVE  f \notin TrampCover(e)
    <3>1. Covers(f, 4) \cap Covers(e.patched_addr, TrampLen(e)) = {}
      BY <1>2, <1>5, CoversApart
    <3> QED
      BY <1>3, <3>1 DEF TrampCover
  <2> QED
    BY <1>1, <2>1 DEF MemoryOf
<1> QED
  BY <1>4, <1>5

\* What a step must keep.
LEMMA TableInvFrom ==
  ASSUME SerialCalls, Shape, TableInv, NEW t \in Callers, DOMAIN ret' = Callers,
         \A e \in Listed' : e \in Listed \/ e.hook # 0,
         \A k \in Hooks : k > made' => origin'[k] = "unset",
         CallReady(pc'[t], job'[t], origin')
  PROVE  TableInv'
<1>1. \A u \in Callers : u = t
  BY DEF SerialCalls
<1>2. \A e \in Listed' : e.hook # 0
  BY DEF TableInv
<1> QED
  BY <1>1, <1>2 DEF TableInv, Hooks

\* Steps between the moments the table speaks of.
LEMMA QuietStep ==
  ASSUME SerialCalls, Shape, SerialInv, TableInv, NEW t \in Callers,
         \/ Relocate(t) \/ SavePrologue(t) \/ AddLoad(t)
         \/ PatchUnprotect(t) \/ PatchUnprotectEnd(t) \/ PatchProtect(t) \/ PatchProtectEnd(t)
  PROVE  TableInv' /\ UNCHANGED Table!vars
<1>0. /\ pc \in [Callers -> PCs] /\ job \in [Callers -> JobSet]
      /\ job[t] \in JobSet /\ job[t].entry \in EntrySet
  BY SerialTypes
<1>1. UNCHANGED <<mem, entries, ret, origin, made>>
  BY DEF Relocate, SavePrologue, PatchUnprotect, PatchUnprotectEnd, PatchProtect,
         PatchProtectEnd, AddLoad
<1>2. /\ job'[t].op = job[t].op /\ job'[t].wants = job[t].wants
      /\ job'[t].entry.hook = job[t].entry.hook
      /\ job'[t].entry.patched_addr = job[t].entry.patched_addr
  <2>1. CASE Relocate(t)
    BY <1>0, <2>1 DEF Relocate, JobSet, EntrySet
  <2>2. CASE SavePrologue(t)
    BY <1>0, <2>2 DEF SavePrologue, JobSet, EntrySet
  <2>3. CASE AddLoad(t)
    BY <1>0, <2>3 DEF AddLoad, JobSet
  <2>4. CASE \/ PatchUnprotect(t) \/ PatchUnprotectEnd(t)
             \/ PatchProtect(t) \/ PatchProtectEnd(t)
    BY <2>4 DEF PatchUnprotect, PatchUnprotectEnd, PatchProtect, PatchProtectEnd
  <2> QED
    BY <2>1, <2>2, <2>3, <2>4
<1>3. /\ pc[t] # "idle" /\ pc'[t] # "idle"
      /\ pc'[t] = "publish" => job[t].wants
      /\ pc'[t] = "unprotect" => ~job[t].wants
      /\ pc'[t] \in {"unprotectEnd", "write"} => pc[t] \in {"unprotect", "unprotectEnd"}
      /\ pc[t] \in {"protect", "protectEnd", "add", "store", "remove"}
           <=> pc'[t] \in {"protect", "protectEnd", "add", "store", "remove"}
  <2>1. CASE Relocate(t) \/ SavePrologue(t) \/ AddLoad(t)
    BY <1>0, <2>1 DEF Relocate, SavePrologue, AddLoad, Goto, AfterRouting
  <2>2. CASE PatchUnprotect(t) \/ PatchUnprotectEnd(t)
    BY <1>0, <2>2 DEF PatchUnprotect, PatchUnprotectEnd, Goto
  <2>3. CASE PatchProtect(t) \/ PatchProtectEnd(t)
    BY <1>0, <2>3 DEF PatchProtect, PatchProtectEnd, Goto, AfterPatch
  <2> QED
    BY <2>1, <2>2, <2>3
<1>4. TableInv'
  <2>1. CallReady(pc'[t], job'[t], origin')
    BY <1>1, <1>2, <1>3 DEF TableInv, CallReady
  <2> QED
    BY <1>1, <2>1, ListedType, TableInvFrom DEF TableInv
<1>5. CallOf(pc'[t], job'[t]) = CallOf(pc[t], job[t])
  BY <1>2, <1>3 DEF CallOf
<1> QED
  BY <1>1, <1>4, <1>5, SoleCaller DEF Table!vars


\* Between calls memory answers for the list.
LEMMA IdleTable ==
  ASSUME SerialCalls, Shape, SerialInv, TableInv, NEW t \in Callers, pc[t] = "idle",
         NEW f \in Targets
  PROVE  /\ \A e \in Listed : e.patched_addr = f => mem[f][1] = e.hook /\ e.hook # 0
         /\ Matches(f) = {} <=> mem[f][1] = 0
<1>1. OnTargets(Listed) /\ MemoryOf(Listed, mem)
  BY ListedTargets DEF SerialInv, Caller, Live
<1>2. \A e \in Listed : e.patched_addr = f => mem[f][1] = e.hook /\ e.hook # 0
  BY <1>1, Answers DEF TableInv
<1>3. Matches(f) = {} <=> \A e \in Listed : e.patched_addr # f
  BY DEF Matches, Listed
<1> QED
  BY <1>1, <1>2, <1>3, Answers

\* The addresses of an instance with ARM functions only.
LEMMA ArmAddress ==
  ASSUME SerialCalls, NEW a \in Targets \cup Elsewhere
  PROVE  Strip(a) = a /\ (a \in Elsewhere => a \notin Targets)
<1>1. a % 2 = 0
  BY DEF SerialCalls
<1>2. Strip(a) = a
  BY <1>1 DEF Strip
<1>3. ASSUME a \in Elsewhere, a \in Targets
      PROVE  FALSE
  <2>1. PICK z \in Nat : z = Pages * PageSize
    BY PagesAssumption
  <2>2. a \in Nat /\ (a = 0 \/ a >= z)
    BY <1>3, <2>1, ElsewhereAssumption
  <2>3. a \in 2..(z - 12)
    BY <1>3, <2>1, TargetsAssumption
  <2> QED
    BY <2>1, <2>2, <2>3
<1> QED
  BY <1>2, <1>3

\* The list refuses what the table refuses and accepts what it accepts.
LEMMA InterceptTable ==
  ASSUME SerialCalls, IndInv, SerialInv, TableInv, NEW t \in Callers,
         NEW type \in {"hook", "instrument"}, NEW a \in Targets, NEW wants \in BOOLEAN,
         wants => type = "hook", InterceptCall(t, type, a, wants)
  PROVE  TableInv' /\ Table!Intercept(type, a, wants)
<1>0. /\ pc \in [Callers -> PCs] /\ job \in [Callers -> JobSet] /\ Shape
      /\ origin \in [Hooks -> {"unset", "unwanted", "relocated", "garbage"}]
      /\ made \in 0..MaxHooks
  BY SerialTypes DEF IndInv, Shape, TypeOK
<1>1. /\ pc[t] = "idle" /\ pc'[t] = "relocate" /\ Matches(a) = {} /\ made < MaxHooks
      /\ UNCHANGED <<mem, entries, ret>> /\ made' = made + 1
      /\ origin' = [origin EXCEPT ![made + 1] = IF wants THEN "unset" ELSE "unwanted"]
  BY <1>0 DEF InterceptCall, Goto
<1>2. PICK thumb \in BOOLEAN :
        job'[t] = [op |-> type, wants |-> wants, n |-> 0,
                  entry |-> [hook |-> made + 1, type |-> type,
                             patched_addr |-> Strip(a), thumb_mode |-> thumb,
                             reloc |-> <<>>, origin_insns |-> <<>>],
                  buf |-> Trampoline(made + 1, TrampSize(Strip(a), thumb))]
  BY <1>0 DEF InterceptCall
<1>3. /\ job'[t].op = type /\ job'[t].wants = wants /\ job'[t].entry.hook = made + 1
      /\ job'[t].entry.patched_addr = a
  BY <1>2, TargetIsHalfword
<1>4. made + 1 \in Hooks /\ made \in Nat /\ origin[made + 1] = "unset"
  BY <1>0, <1>1, BoundsAssumption DEF TableInv, Hooks
<1>5. Originals(origin') = Originals(origin)
  BY <1>0, <1>1, <1>4 DEF Originals
<1>6. TableInv'
  <2>1. CallReady(pc'[t], job'[t], origin')
    BY <1>1, <1>3, <1>4 DEF CallReady
  <2>2. \A k \in Hooks : k > made' => origin'[k] = "unset"
    BY <1>0, <1>1, <1>4, BoundsAssumption DEF TableInv, Hooks
  <2> QED
    BY <1>0, <1>1, <2>1, <2>2, ListedType, TableInvFrom DEF TableInv
<1>7. mem[a][1] = 0
  BY <1>0, <1>1, IdleTable
<1>8. /\ CallInProgress = [op |-> "none", at |-> 0, hook |-> 0, wants |-> FALSE, stage |-> "none"]
      /\ CallInProgress' = [op |-> type, at |-> a, hook |-> made + 1, wants |-> wants,
                            stage |-> "asked"]
  BY <1>1, <1>3, SoleCaller, CallOfCases DEF CallRecord
<1>9. ret'[Sole] = ret[Sole]
  BY <1>1
<1> QED
  BY <1>1, <1>5, <1>6, <1>7, <1>8, <1>9 DEF Table!Intercept, Table!NoCall, Originals

LEMMA RefusedTable ==
  ASSUME SerialCalls, IndInv, SerialInv, TableInv, NEW t \in Callers,
         NEW type \in {"hook", "instrument"}, NEW a \in Targets \cup Elsewhere,
         InterceptRefused(t, type, a)
  PROVE  TableInv' /\ Table!Refuse(type, a)
<1>0. pc \in [Callers -> PCs] /\ job \in [Callers -> JobSet] /\ Shape /\ Strip(a) = a
  BY SerialTypes, ArmAddress DEF IndInv
<1>1. /\ pc[t] = "idle" /\ pc'[t] = "idle" /\ job'[t] = NoJob
      /\ UNCHANGED <<mem, entries, origin, made>>
      /\ a \in Elsewhere \/ Matches(a) # {}
      /\ ret' = [ret EXCEPT ![t] = [op |-> type, at |-> a, value |-> -1]]
  BY <1>0 DEF InterceptRefused, Return, Goto
<1>2. TableInv'
  <2>1. CallReady(pc'[t], job'[t], origin')
    BY <1>1 DEF CallReady, NoJob
  <2> QED
    BY <1>0, <1>1, <2>1, ListedType, TableInvFrom DEF TableInv
<1>3. a \in Targets => mem[a][1] # 0
  BY <1>0, <1>1, ArmAddress, IdleTable
<1>4. /\ CallInProgress = [op |-> "none", at |-> 0, hook |-> 0, wants |-> FALSE, stage |-> "none"]
      /\ CallInProgress' = CallInProgress
  BY <1>1, SoleCaller DEF CallOf
<1>5. ret'[Sole] = [op |-> type, at |-> a, value |-> -1]
  BY <1>1, SoleCaller DEF TableInv
<1> QED
  BY <1>1, <1>2, <1>3, <1>4, <1>5 DEF Table!Refuse, Table!NoCall

LEMMA DestroyTable ==
  ASSUME SerialCalls, IndInv, SerialInv, TableInv, NEW t \in Callers,
         NEW a \in Targets \cup Elsewhere, DobbyDestroyCall(t, a)
  PROVE  TableInv' /\ (Table!Refuse("destroy", a) \/ (a \in Targets /\ Table!Destroy(a)))
<1>0. pc \in [Callers -> PCs] /\ job \in [Callers -> JobSet] /\ Shape /\ Strip(a) = a
  BY SerialTypes, ArmAddress DEF IndInv
<1>1. pc[t] = "idle" /\ UNCHANGED <<mem, entries, origin, made>>
  BY DEF DobbyDestroyCall
<1>2. CallInProgress = [op |-> "none", at |-> 0, hook |-> 0, wants |-> FALSE, stage |-> "none"]
  BY <1>1, SoleCaller DEF CallOf
<1>3. CASE Matches(a) = {} /\ Return(t, "destroy", a, -1)
  <2>1. /\ pc'[t] = "idle" /\ job'[t] = NoJob
        /\ ret' = [ret EXCEPT ![t] = [op |-> "destroy", at |-> a, value |-> -1]]
    BY <1>0, <1>3 DEF Return, Goto
  <2>2. CallReady(pc'[t], job'[t], origin')
    BY <2>1 DEF CallReady, NoJob
  <2>3. TableInv'
    BY <1>0, <1>1, <2>1, <2>2, ListedType, TableInvFrom DEF TableInv
  <2>4. a \in Targets => mem[a][1] = 0
    BY <1>0, <1>1, <1>3, IdleTable
  <2>5. CallInProgress' = CallInProgress
    BY <1>2, <2>1, SoleCaller DEF CallOf
  <2>6. ret'[Sole] = [op |-> "destroy", at |-> a, value |-> -1]
    BY <2>1, SoleCaller DEF TableInv
  <2> QED
    BY <1>1, <1>2, <2>3, <2>4, <2>5, <2>6 DEF Table!Refuse, Table!NoCall
<1>4. ASSUME NEW i \in Find(a), Goto(t, "unprotect"), UNCHANGED ret,
             job' = [job EXCEPT ![t] =
                       [op |-> "destroy", entry |-> entries[i],
                        buf |-> entries[i].origin_insns, wants |-> FALSE, n |-> 0]]
      PROVE  TableInv' /\ a \in Targets /\ Table!Destroy(a)
  <2>1. entries[i] \in Listed /\ entries[i].patched_addr = a
    BY DEF Find, Matches, Listed
  <2>2. a \in Targets
    BY <2>1 DEF SerialInv, Complete
  <2>3. mem[a][1] = entries[i].hook /\ entries[i].hook # 0
    BY <1>0, <1>1, <2>1, <2>2, IdleTable
  <2>4. /\ pc'[t] = "unprotect" /\ job'[t].op = "destroy" /\ job'[t].entry = entries[i]
        /\ job'[t].wants = FALSE
    BY <1>0, <1>4 DEF Goto
  <2>5. CallReady(pc'[t], job'[t], origin')
    BY <2>3, <2>4 DEF CallReady
  <2>6. TableInv'
    BY <1>0, <1>1, <1>4, <2>5, ListedType, TableInvFrom DEF TableInv
  <2>7. CallInProgress' = [op |-> "destroy", at |-> a, hook |-> mem[a][1], wants |-> FALSE,
                           stage |-> "asked"]
    BY <2>1, <2>3, <2>4, SoleCaller, CallOfCases DEF CallRecord
  <2> QED
    BY <1>1, <1>2, <1>4, <2>2, <2>3, <2>6, <2>7 DEF Table!Destroy, Table!NoCall
<1> QED
  BY <1>0, <1>3, <1>4 DEF DobbyDestroyCall


\* The pointer is assigned while the function still answers itself.
LEMMA PublishTable ==
  ASSUME SerialCalls, IndInv, SerialInv, TableInv, NEW t \in Callers, PublishOrigin(t)
  PROVE  TableInv' /\ Table!Publish
<1> DEFINE e == job[t].entry
<1>0. /\ pc \in [Callers -> PCs] /\ job \in [Callers -> JobSet] /\ Shape
      /\ origin \in [Hooks -> {"unset", "unwanted", "relocated", "garbage"}]
      /\ made \in 0..MaxHooks /\ e \in EntrySet
  BY SerialTypes DEF IndInv, Shape, TypeOK
<1>1. /\ pc[t] = "publish" /\ pc'[t] = "unprotect"
      /\ UNCHANGED <<mem, entries, job, ret, made>>
      /\ origin' = [origin EXCEPT ![e.hook] =
                      IF e.reloc = <<>> THEN "garbage" ELSE "relocated"]
  BY <1>0 DEF PublishOrigin, Goto
<1>2. CallHolds("publish", job[t], Listed, Len(entries)) /\ CallReady("publish", job[t], origin)
  BY <1>1 DEF SerialInv, Caller, TableInv
<1>3. job[t].wants /\ job[t].op = "hook" /\ Complete(e)
  BY <1>2 DEF CallReady, CallHolds
<1>4. e.reloc # <<>>
  <2>1. PICK n \in OriginSizes(e.patched_addr, e.thumb_mode) :
               e.reloc = ProgramCode(e.patched_addr, n)
    BY <1>3 DEF Complete, Copied
  <2>2. n \in Nat /\ n > 0
    <3>1. TrampLen(e) \in 4..5 /\ n \in TrampLen(e)..6
      BY <1>0, <2>1, TrampFacts, OriginSizesFacts
    <3> QED
      BY <3>1
  <2>3. Len(ProgramCode(e.patched_addr, n)) = n
    BY <2>2, <1>3, StripType, ProgramCodeLen DEF Complete
  <2> QED
    BY <2>1, <2>2, <2>3
<1>5. e.hook \in 1..made /\ e.hook \in Hooks
  BY <1>0, <1>1, BoundsAssumption DEF IndInv, Ready, ThreadReady, Hooks
<1>6. origin'[e.hook] = "relocated" /\ \A k \in Hooks \ {e.hook} : origin'[k] = origin[k]
  BY <1>0, <1>1, <1>4, <1>5
<1>7. Originals(origin') = Originals(origin) \cup {e.hook}
  BY <1>5, <1>6 DEF Originals
<1>8. TableInv'
  <2>1. CallReady(pc'[t], job'[t], origin')
    BY <1>1, <1>2, <1>6 DEF CallReady
  <2>2. \A k \in Hooks : k > made' => origin'[k] = "unset"
    BY <1>0, <1>1, <1>5, <1>6 DEF TableInv
  <2> QED
    BY <1>0, <1>1, <2>1, <2>2, ListedType, TableInvFrom DEF TableInv
<1>9. /\ CallInProgress = CallRecord(job[t].op, e.patched_addr, e.hook, job[t].wants, "asked")
      /\ CallInProgress' = CallInProgress
  <2>1. job'[t] = job[t]
    BY <1>1
  <2>2. CallOf(pc[t], job[t]) = CallRecord(job[t].op, e.patched_addr, e.hook, job[t].wants, "asked")
    BY <1>1, CallOfCases
  <2>3. CallOf(pc'[t], job[t]) = CallRecord(job[t].op, e.patched_addr, e.hook, job[t].wants, "asked")
    BY <1>1, CallOfCases
  <2>4. CallInProgress = CallOf(pc[t], job[t]) /\ CallInProgress' = CallOf(pc'[t], job[t])
    BY <2>1, SoleCaller
  <2> QED
    BY ONLY <2>2, <2>3, <2>4
<1>10. CallInProgress.wants /\ CallInProgress.stage = "asked" /\ CallInProgress.hook = e.hook
  BY <1>3, <1>9 DEF CallRecord
<1> QED
  BY <1>1, <1>7, <1>8, <1>9, <1>10 DEF Table!Publish, Originals

\* What one hook more or less changes in the table: the entry of its function.
LEMMA OneEntryChanges ==
  ASSUME SerialCalls, NEW live, NEW next, NEW m, NEW mm, OnTargets(live), OnTargets(next),
         MemoryOf(live, m), MemoryOf(next, mm), NEW a \in Targets,
         \A e \in live \cup next : e.patched_addr # a => e \in live /\ e \in next
  PROVE  TableOf(mm) = [TableOf(m) EXCEPT ![a] = mm[a][1]]
<1>1. ASSUME NEW f \in Targets, f # a
      PROVE  mm[f][1] = m[f][1]
  <2>1. CASE \E e \in live : e.patched_addr = f
    <3>1. PICK e \in live : e.patched_addr = f
      BY <2>1
    <3>2. e \in next
      BY <1>1, <3>1
    <3> QED
      BY <3>1, <3>2, Answers
  <2>2. CASE \A e \in live : e.patched_addr # f
    <3>1. \A e \in next : e.patched_addr # f
      BY <1>1, <2>2
    <3> QED
      BY <2>2, <3>1, Answers
  <2> QED
    BY <2>1, <2>2
<1> QED
  BY <1>1 DEF TableOf

\* Writing the patch is the moment the table changes.
LEMMA WriteTable ==
  ASSUME SerialCalls, IndInv, SerialInv, TableInv, NEW t \in Callers, PatchWrite(t)
  PROVE  TableInv' /\ (Table!Install \/ Table!Restore)
<1> DEFINE e == job[t].entry
           a == e.patched_addr
           next == Live("protect", job[t], Listed)
<1>0. /\ pc \in [Callers -> PCs] /\ job \in [Callers -> JobSet] /\ Shape
      /\ job[t].op \in {"none", "hook", "instrument", "destroy"}
      /\ job[t].wants \in BOOLEAN /\ e \in EntrySet
  BY SerialTypes DEF IndInv, JobSet
<1>1. /\ pc[t] = "write" /\ pc'[t] = "protect"
      /\ UNCHANGED <<entries, job, ret, origin, made>> /\ Listed' = Listed
  BY <1>0, ListedType DEF PatchWrite, Goto
<1>2. CallHolds("write", job[t], Listed, Len(entries)) /\ MemoryOf(Listed, mem)
  BY <1>1 DEF SerialInv, Caller, Live
<1>3. MemoryOf(next, mem')
  <2>1. SerialInv'
    BY <1>0, WriteStep
  <2>2. Caller(pc'[t], job'[t], Listed', Len(entries'), mem', perm')
    BY <2>1 DEF SerialInv
  <2> QED
    BY <1>1, <2>2 DEF Caller
<1>4. TableInv'
  <2>1. CallReady(pc'[t], job'[t], origin')
    BY <1>1 DEF TableInv, CallReady
  <2> QED
    BY <1>0, <1>1, <2>1, TableInvFrom DEF TableInv
<1>5. OnTargets(Listed) /\ \A g, f \in Listed : f.patched_addr = g.patched_addr => f = g
  BY <1>0, ListedTargets
<1>6. /\ CallInProgress = CallRecord(job[t].op, a, e.hook, job[t].wants, "asked")
      /\ CallInProgress' = CallRecord(job[t].op, a, e.hook, job[t].wants, "done")
  BY <1>1, SoleCaller, CallOfCases
<1>7. CallInProgress' = [CallInProgress EXCEPT !.stage = "done"]
  BY <1>6, CallIsDone
<1>8. /\ CallInProgress.op = job[t].op /\ CallInProgress.at = a /\ CallInProgress.hook = e.hook
      /\ CallInProgress.wants = job[t].wants /\ CallInProgress.stage = "asked"
  BY <1>6 DEF CallRecord
<1>9. ret'[Sole] = ret[Sole] /\ Originals(origin') = Originals(origin)
  BY <1>1
<1>10. CASE job[t].op # "destroy"
  <2>1. /\ job[t].op \in {"hook", "instrument"} /\ a \in Targets
        /\ \A f \in Listed : f.patched_addr # a
    BY <1>0, <1>2, <1>10 DEF CallHolds
  <2>2. next = Listed \cup {e}
    BY <1>10 DEF Live
  <2>3. OnTargets(next)
    BY <1>0, <1>5, <2>1, <2>2 DEF OnTargets
  <2>4. mem[a][1] = 0 /\ mem'[a][1] = e.hook
    BY <1>2, <1>3, <1>5, <2>1, <2>2, <2>3, Answers
  <2>5. TableOf(mem') = [TableOf(mem) EXCEPT ![a] = mem'[a][1]]
    BY <1>2, <1>3, <1>5, <2>1, <2>2, <2>3, OneEntryChanges
  <2>6. job[t].wants => e.hook \in Originals(origin)
    <3>1. job[t].wants => e.hook # 0 /\ origin[e.hook] = "relocated"
      BY <1>1 DEF TableInv, CallReady
    <3>2. e.hook # 0 => e.hook \in Hooks
      BY <1>0, BoundsAssumption DEF EntrySet, Hooks
    <3> QED
      BY <3>1, <3>2 DEF Originals
  <2>7. Table!Install
    BY <1>1, <1>7, <1>8, <1>9, <2>1, <2>4, <2>5, <2>6 DEF Table!Install, TableOf, Originals
  <2> QED
    BY <1>4, <2>7
<1>11. CASE job[t].op = "destroy"
  <2>1. e \in Listed /\ a \in Targets
    BY <1>2, <1>11 DEF CallHolds, SerialInv, Complete
  <2>2. next = Listed \ {e}
    BY <1>11 DEF Live
  <2>3. OnTargets(next) /\ \A f \in next : f.patched_addr # a
    BY <1>5, <2>1, <2>2 DEF OnTargets
  <2>4. mem[a][1] = e.hook /\ mem'[a][1] = 0
    BY <1>2, <1>3, <1>5, <2>1, <2>2, <2>3, Answers
  <2>5. TableOf(mem') = [TableOf(mem) EXCEPT ![a] = mem'[a][1]]
    BY <1>2, <1>3, <1>5, <2>1, <2>2, <2>3, OneEntryChanges
  <2>6. Table!Restore
    BY <1>1, <1>7, <1>8, <1>9, <1>11, <2>1, <2>4, <2>5 DEF Table!Restore, TableOf, Originals
  <2> QED
    BY <1>4, <2>6
<1> QED
  BY <1>10, <1>11

\* The list is changed before the call returns.
LEMMA ReturnTable ==
  ASSUME SerialCalls, IndInv, SerialInv, TableInv, NEW t \in Callers,
         AddStore(t) \/ RemoveEntry(t)
  PROVE  TableInv' /\ Table!Return
<1> DEFINE e == job[t].entry
<1>0. /\ pc \in [Callers -> PCs] /\ job \in [Callers -> JobSet] /\ Shape
      /\ entries \in Seq(EntrySet) /\ e \in EntrySet
  BY SerialTypes DEF IndInv, Shape
<1>1. /\ pc[t] \in {"store", "remove"} /\ pc'[t] = "idle" /\ job'[t] = NoJob
      /\ UNCHANGED <<mem, origin, made>>
      /\ ret' = [ret EXCEPT ![t] = [op |-> job[t].op, at |-> e.patched_addr, value |-> 0]]
  BY <1>0 DEF AddStore, RemoveEntry, Return, Goto
<1>2. CallReady(pc'[t], job'[t], origin')
  BY <1>1 DEF CallReady, NoJob
<1>3. \A f \in Listed' : f \in Listed \/ f.hook # 0
  <2>1. CASE AddStore(t)
    <3>1. \A f \in Listed' : f \in Listed \/ f = e
      <4> DEFINE n == IF job[t].n <= Len(entries) THEN job[t].n ELSE Len(entries)
      <4>1. n \in 0..Len(entries) /\ entries' = SubSeq(entries, 1, n) \o <<e>>
        <5>1. Len(entries) \in Nat /\ job[t].n \in Nat
          BY <1>0 DEF JobSet
        <5> QED
          BY <2>1, <5>1 DEF AddStore
      <4> HIDE DEF n
      <4>2. \A i \in DOMAIN entries' : entries'[i] = e \/ entries'[i] \in Listed
        BY <1>0, <4>1 DEF Listed
      <4> QED
        BY <4>2 DEF Listed
    <3>2. e.hook # 0
      BY <1>1 DEF TableInv, CallReady
    <3> QED
      BY <3>1, <3>2
  <2>2. CASE RemoveEntry(t)
    <3>1. entries' = Remove(e.patched_addr)
      BY <2>2 DEF RemoveEntry
    <3>2. \A i \in DOMAIN entries' : entries'[i] \in Listed
      BY <1>0, <3>1 DEF Remove, Listed
    <3> QED
      BY <3>2 DEF Listed
  <2> QED
    BY <2>1, <2>2
<1>4. TableInv'
  BY <1>0, <1>1, <1>2, <1>3, TableInvFrom DEF TableInv
<1>5. /\ CallInProgress = CallRecord(job[t].op, e.patched_addr, e.hook, job[t].wants, "done")
      /\ CallInProgress' = CallRecord("none", 0, 0, FALSE, "none")
  BY <1>1, SoleCaller, CallOfCases
<1>6. CallInProgress.stage = "done" /\ CallInProgress.op = job[t].op /\ CallInProgress.at = e.patched_addr
  BY <1>5 DEF CallRecord
<1>7. ret'[Sole] = [op |-> job[t].op, at |-> e.patched_addr, value |-> 0]
  BY <1>1, SoleCaller DEF TableInv
<1> QED
  BY <1>1, <1>4, <1>5, <1>6, <1>7 DEF Table!Return, Table!NoCall, CallRecord

LEMMA TableInit ==
  ASSUME SerialCalls, Init
  PROVE  TableInv /\ Table!Init
<1>1. PICK t \in Callers : Callers = {t}
  BY DEF SerialCalls
<1>2. Sole = t /\ pc[t] = "idle" /\ CallInProgress = CallOf(pc[t], job[t])
  BY <1>1, SoleCaller DEF Init
<1>3. TableInv
  BY DEF Init, TableInv, CallReady, Listed, NoJob, Hooks
<1>4. \A f \in Targets : mem[f][1] = 0
  BY TargetIsHalfword DEF Init, OrigMem
<1>5. Originals(origin) = {}
  BY DEF Init, Originals
<1> QED
  BY <1>2, <1>3, <1>4, <1>5, CallOfCases DEF Init, Table!Init, Table!NoCall, CallRecord, Originals

LEMMA TableNext ==
  ASSUME SerialCalls, IndInv, SerialInv, TableInv, [Next]_vars
  PROVE  TableInv' /\ [Table!Next]_(Table!vars)
<1>0. Shape
  BY DEF IndInv
<1>1. ASSUME NEW t \in Callers, Step(t)
      PROVE  TableInv' /\ [Table!Next]_(Table!vars)
  <2>1. ~RelocateFails(t)
    BY DEF RelocateFails, SerialCalls
  <2>2. CASE \/ Relocate(t) \/ SavePrologue(t) \/ AddLoad(t)
             \/ PatchUnprotect(t) \/ PatchUnprotectEnd(t) \/ PatchProtect(t) \/ PatchProtectEnd(t)
    BY <1>0, <2>2, QuietStep
  <2>3. CASE PublishOrigin(t)
    BY <2>3, PublishTable DEF Table!Next
  <2>4. CASE PatchWrite(t)
    BY <2>4, WriteTable DEF Table!Next
  <2>5. CASE AddStore(t) \/ RemoveEntry(t)
    BY <2>5, ReturnTable DEF Table!Next
  <2> QED
    BY <1>1, <2>1, <2>2, <2>3, <2>4, <2>5 DEF Step
<1>2. ASSUME NEW t \in Callers, NEW a \in Targets \cup Elsewhere, Call(t, a)
      PROVE  TableInv' /\ [Table!Next]_(Table!vars)
  <2>1. ASSUME NEW wants \in BOOLEAN, InterceptCall(t, "hook", a, wants)
        PROVE  TableInv' /\ Table!Next
    <3>1. a \in Targets
      BY <2>1, InterceptTarget
    <3>2. TableInv' /\ Table!Intercept("hook", a, wants)
      BY <2>1, <3>1, InterceptTable
    <3> QED
      BY <3>1, <3>2 DEF Table!Next
  <2>2. CASE InterceptCall(t, "instrument", a, FALSE)
    <3>1. a \in Targets
      BY <2>2, InterceptTarget
    <3>2. TableInv' /\ Table!Intercept("instrument", a, FALSE)
      BY <2>2, <3>1, InterceptTable
    <3> QED
      BY <3>1, <3>2 DEF Table!Next
  <2>3. ASSUME NEW type \in {"hook", "instrument"}, InterceptRefused(t, type, a)
        PROVE  TableInv' /\ Table!Next
    <3>1. TableInv' /\ Table!Refuse(type, a)
      BY <2>3, RefusedTable
    <3> QED
      BY <3>1 DEF Table!Next
  <2>4. CASE DobbyDestroyCall(t, a)
    <3>1. TableInv' /\ (Table!Refuse("destroy", a) \/ (a \in Targets /\ Table!Destroy(a)))
      BY <2>4, DestroyTable
    <3> QED
      BY <3>1 DEF Table!Next
  <2> QED
    BY <1>2, <2>1, <2>2, <2>3, <2>4 DEF Call
<1>3. CASE UNCHANGED vars
  <2>1. UNCHANGED Table!vars
    BY <1>3 DEF vars, Table!vars, CallInProgress
  <2>2. PICK t : Callers = {t}
    BY DEF SerialCalls
  <2>3. CallReady(pc'[t], job'[t], origin')
    BY <1>3, <2>2 DEF vars, TableInv
  <2>4. TableInv'
    BY <1>0, <1>3, <2>2, <2>3, ListedType, TableInvFrom DEF vars, TableInv
  <2> QED
    BY <2>1, <2>4
<1> QED
  BY <1>1, <1>2, <1>3 DEF Next

\* For a caller of one call at a time the unlocked steps on list, memory and permissions
\* are the table of HookTable: a call is refused exactly when the table says so, only its
\* own function changes hands, at one moment, and a hook that asked for the original can
\* call it before it is entered.
THEOREM SerialTable ==
  ASSUME SerialCalls
  PROVE  Spec => ImplementsHookTable
<1>1. Init => TableInv /\ Table!Init
  BY TableInit
<1>2. IndInv /\ SerialInv /\ TableInv /\ [Next]_vars => TableInv' /\ [Table!Next]_(Table!vars)
  BY TableNext
<1> QED
  BY <1>1, <1>2, IndInvHolds, SerialInvHolds, PTL DEF Spec, ImplementsHookTable, Table!Spec

=============================================================================
