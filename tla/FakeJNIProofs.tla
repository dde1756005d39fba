---------------------------- MODULE FakeJNIProofs ----------------------------
(***************************************************************************)
(* Proofs for FakeJNI: what holds of the fake environment for every set of *)
(* threads, names and addresses, whatever the loaded library calls.        *)
(***************************************************************************)
EXTENDS FakeJNI, FiniteSetTheorems, TLAPS

-----------------------------------------------------------------------------
(* The inductive invariant. *)

\* A thread that is about to insert has a name of the right kind.
Pending ==
  \A t \in Threads :
    /\ pc[t] = "newClass"  => name[t] \in ClassNames
    /\ pc[t] = "newMethod" => name[t] \in MethodNames

\* The threads that searched for class n in vain and have not inserted it.
Seekers(n) == {t \in Threads : pc[t] = "newClass" /\ name[t] = n}

\* A handle of n cost one search in vain, and no search is in vain any more.
Searches ==
  \A n \in ClassNames :
    /\ IsFiniteSet(With(gClassNameMap, n))
    /\ Cardinality(With(gClassNameMap, n)) + Cardinality(Seekers(n)) <= Cardinality(Threads)

\* Outside initial() both tables are complete, and during the first one nothing is loaded.
Built ==
  /\ app \notin {"fill", "hooks"} /\ (creates > 1 \/ app # "new") => hooks = Len(HookOrder)
  /\ app # "jvm" /\ (creates > 1 \/ app \notin {"new", "fill", "hooks"}) =>
       jvm = InvokeFunctions
  /\ loaded => creates > 1 \/ app \notin {"new", "fill", "hooks", "jvm"}

IndInv == TypeOK /\ Pending /\ KindsApart /\ Searches /\ Built /\ FaultsExplained

-----------------------------------------------------------------------------
(* The maps. *)

\* A lookup adds no name and takes none away.
LEMMA LookupNames ==
  ASSUME NEW map, NEW h
  PROVE  /\ Named(Lookup(map, h)) = Named(map)
         /\ DOMAIN map \subseteq DOMAIN Lookup(map, h)
         /\ \A x \in DOMAIN map : Lookup(map, h)[x] = map[x]
         /\ \A n : n # NoName => With(Lookup(map, h), n) = With(map, n)
  BY DEF Lookup, Named, With

LEMMA ThreadsFinite == IsFiniteSet(Threads)
  BY ThreadsAssumption, FS_AddElement DEF Threads

\* Seekers are threads.
LEMMA SeekersFinite ==
  ASSUME NEW n
  PROVE  /\ IsFiniteSet(Seekers(n)) /\ Cardinality(Seekers(n)) \in Nat
         /\ Cardinality(Seekers(n)) <= Cardinality(Threads)
         /\ Cardinality(Threads) \in Nat
  BY ThreadsFinite, FS_Subset, FS_CardinalityType DEF Seekers

-----------------------------------------------------------------------------
(* What the actions do to the maps. *)

LookupStep ==
  /\ \E h \in Handles : gClassNameMap' = gClassNameMap \/ gClassNameMap' = Lookup(gClassNameMap, h)
  /\ \E h \in Handles : gMethodIDMap' = gMethodIDMap \/ gMethodIDMap' = Lookup(gMethodIDMap, h)

\* Every step but the two insertions only looks names up.
LEMMA OnlyLookups ==
  ASSUME Next
  PROVE  LookupStep \/ \E t \in Threads : InsertClass(t) \/ InsertMethod(t)
<1> Handles # {}
  BY HandlesAssumption DEF Handles
<1>1. ASSUME AppStep
      PROVE  LookupStep
  BY <1>1 DEF AppStep, Initial, Dlopen, Dlsym, CallNullFunc, OnLoadReturns, Create,
     LookupStep, maps
<1>2. ASSUME NEW t \in Threads, LibraryStep(t)
      PROVE  LookupStep \/ InsertClass(t) \/ InsertMethod(t)
  <2>1. CASE GetEnv(t) \/ AttachCurrentThread(t) \/ CallWild(t) \/ CallNullInvoke(t)
    BY <2>1 DEF GetEnv, AttachCurrentThread, CallWild, CallNullInvoke, LookupStep, maps
  <2>2. CASE (\E s \in Called : CallSlot(t, s)) \/ \E b \in BOOLEAN : SetException(t, b)
    BY <2>2 DEF CallSlot, SetException, LookupStep, maps
  <2>3. CASE \E n \in ClassNames : FindClass(t, n)
    BY <2>3 DEF FindClass, LookupStep, maps
  <2>4. CASE \E h \in Handles, m \in MethodNames : GetMethodID(t, h, m)
    BY <2>4 DEF GetMethodID, LookupStep
  <2>5. CASE \E obj, mid \in Handles : CallMethod(t, obj, mid) \/ CallObjectMethodA(t, obj, mid)
    BY <2>5 DEF CallMethod, CallObjectMethodA, LookupStep
  <2>6. CASE \E obj \in Handles : Reference(t, obj) \/ GetObjectClass(t, obj)
    BY <2>6 DEF Reference, GetObjectClass, LookupStep
  <2> QED
    BY <1>2, <2>1, <2>2, <2>3, <2>4, <2>5, <2>6 DEF LibraryStep, MapStep
<1> QED
  BY <1>1, <1>2 DEF Next

\* What an insertion does to the maps, under the invariant.
LEMMA InsertStep ==
  ASSUME Pending, NEW t \in Threads, InsertClass(t) \/ InsertMethod(t)
  PROVE  \E h \in Fresh :
           \/ /\ name[t] \in ClassNames /\ pc[t] = "newClass"
              /\ gClassNameMap' = Store(gClassNameMap, h, name[t])
              /\ gMethodIDMap' = gMethodIDMap
           \/ /\ name[t] \in MethodNames /\ pc[t] = "newMethod"
              /\ gMethodIDMap' = Store(gMethodIDMap, h, name[t])
              /\ gClassNameMap' = gClassNameMap
  BY DEF InsertClass, InsertMethod, Pending

-----------------------------------------------------------------------------
(* Names. *)

\* What HandlesKeepNames says of one step.
NamesKept ==
  /\ \A h \in Named(gClassNameMap) :
       h \in DOMAIN gClassNameMap' /\ gClassNameMap'[h] = gClassNameMap[h]
  /\ \A h \in Named(gMethodIDMap) :
       h \in DOMAIN gMethodIDMap' /\ gMethodIDMap'[h] = gMethodIDMap[h]

LEMMA NamedInDomain ==
  ASSUME NEW map
  PROVE  Named(map) \subseteq DOMAIN map
  BY DEF Named

LEMMA StepKeepsNames ==
  ASSUME Pending, KindsApart, Next
  PROVE  NamesKept /\ KindsApart'
<1>1. CASE LookupStep
  <2>1. Named(gClassNameMap)' = Named(gClassNameMap) /\ Named(gMethodIDMap)' = Named(gMethodIDMap)
    BY <1>1, LookupNames DEF LookupStep, Named
  <2>2. NamesKept
    BY <1>1, LookupNames, NamedInDomain DEF LookupStep, NamesKept
  <2> QED
    BY <2>1, <2>2 DEF KindsApart
<1>2. ASSUME NEW t \in Threads, InsertClass(t) \/ InsertMethod(t)
      PROVE  NamesKept /\ KindsApart'
  <2>1. PICK h \in Fresh :
           \/ /\ name[t] \in ClassNames
              /\ gClassNameMap' = Store(gClassNameMap, h, name[t])
              /\ gMethodIDMap' = gMethodIDMap
           \/ /\ name[t] \in MethodNames
              /\ gMethodIDMap' = Store(gMethodIDMap, h, name[t])
              /\ gClassNameMap' = gClassNameMap
    BY <1>2, InsertStep
  <2>2. name[t] # NoName
    BY <2>1, NamesAssumption
  <2>3. h \notin Named(gClassNameMap) /\ h \notin Named(gMethodIDMap)
    BY DEF Fresh
  <2>4. CASE gClassNameMap' = Store(gClassNameMap, h, name[t]) /\ gMethodIDMap' = gMethodIDMap
    <3>0. /\ Named(gClassNameMap)' = Named(gClassNameMap) \cup {h}
          /\ DOMAIN gClassNameMap' = DOMAIN gClassNameMap \cup {h}
          /\ \A x \in DOMAIN gClassNameMap : x # h => gClassNameMap'[x] = gClassNameMap[x]
      <4>1. /\ Named(Store(gClassNameMap, h, name[t])) = Named(gClassNameMap) \cup {h}
            /\ DOMAIN Store(gClassNameMap, h, name[t]) = DOMAIN gClassNameMap \cup {h}
            /\ \A x \in DOMAIN gClassNameMap : x # h => Store(gClassNameMap, h, name[t])[x] = gClassNameMap[x]
        BY <2>2 DEF Store, Named
      <4> QED
        BY <4>1, <2>4 DEF Named
    <3>1. Named(gClassNameMap)' = Named(gClassNameMap) \cup {h}
      BY <3>0
    <3>2. Named(gMethodIDMap)' = Named(gMethodIDMap)
      BY <2>4 DEF Named
    <3>3. NamesKept
      BY <2>3, <2>4, <3>0, NamedInDomain DEF NamesKept
    <3> QED
      BY <2>3, <3>1, <3>2, <3>3 DEF KindsApart
  <2>5. CASE gMethodIDMap' = Store(gMethodIDMap, h, name[t]) /\ gClassNameMap' = gClassNameMap
    <3>0. /\ Named(gMethodIDMap)' = Named(gMethodIDMap) \cup {h}
          /\ DOMAIN gMethodIDMap' = DOMAIN gMethodIDMap \cup {h}
          /\ \A x \in DOMAIN gMethodIDMap : x # h => gMethodIDMap'[x] = gMethodIDMap[x]
      <4>1. /\ Named(Store(gMethodIDMap, h, name[t])) = Named(gMethodIDMap) \cup {h}
            /\ DOMAIN Store(gMethodIDMap, h, name[t]) = DOMAIN gMethodIDMap \cup {h}
            /\ \A x \in DOMAIN gMethodIDMap : x # h => Store(gMethodIDMap, h, name[t])[x] = gMethodIDMap[x]
        BY <2>2 DEF Store, Named
      <4> QED
        BY <4>1, <2>5 DEF Named
    <3>1. Named(gMethodIDMap)' = Named(gMethodIDMap) \cup {h}
      BY <3>0
    <3>2. Named(gClassNameMap)' = Named(gClassNameMap)
      BY <2>5 DEF Named
    <3>3. NamesKept
      BY <2>3, <2>5, <3>0, NamedInDomain DEF NamesKept
    <3> QED
      BY <2>3, <3>1, <3>2, <3>3 DEF KindsApart
  <2> QED
    BY <2>1, <2>4, <2>5
<1> QED
  BY <1>1, <1>2, OnlyLookups

-----------------------------------------------------------------------------
(* Searches. *)

\* What a step does to the pending insertions: none changes, one begins for a
\* name that has no handle, or one ends.
LEMMA StepPending ==
  ASSUME Next, TypeOK
  PROVE  \/ UNCHANGED <<pc, name>>
         \/ \E t \in Threads, n \in ClassNames :
              /\ With(gClassNameMap, n) = {} /\ gClassNameMap' = gClassNameMap
              /\ pc' = [pc EXCEPT ![t] = "newClass"] /\ name' = [name EXCEPT ![t] = n]
         \/ \E t \in Threads, m \in MethodNames :
              pc' = [pc EXCEPT ![t] = "newMethod"] /\ name' = [name EXCEPT ![t] = m]
         \/ \E t \in Threads : InsertClass(t) \/ InsertMethod(t)
<1>1. ASSUME AppStep
      PROVE  UNCHANGED <<pc, name>>
  BY <1>1 DEF AppStep, Initial, Dlopen, Dlsym, CallNullFunc, OnLoadReturns, Create
<1>2. ASSUME NEW t \in Threads,
             \/ GetEnv(t) \/ AttachCurrentThread(t) \/ CallWild(t) \/ CallNullInvoke(t)
             \/ \E s \in Called : CallSlot(t, s)
             \/ \E b \in BOOLEAN : SetException(t, b)
             \/ \E obj, mid \in Handles : CallMethod(t, obj, mid) \/ CallObjectMethodA(t, obj, mid)
             \/ \E obj \in Handles : Reference(t, obj) \/ GetObjectClass(t, obj)
      PROVE  UNCHANGED <<pc, name>>
  BY <1>2 DEF GetEnv, AttachCurrentThread, CallWild, CallNullInvoke, CallSlot, SetException,
     CallMethod, CallObjectMethodA, Reference, GetObjectClass
<1>3. ASSUME NEW t \in Threads, NEW n \in ClassNames, FindClass(t, n)
      PROVE  \/ UNCHANGED <<pc, name>>
             \/ /\ With(gClassNameMap, n) = {} /\ gClassNameMap' = gClassNameMap
                /\ pc' = [pc EXCEPT ![t] = "newClass"] /\ name' = [name EXCEPT ![t] = n]
  BY <1>3 DEF FindClass, NotFound, maps
<1>4. ASSUME NEW t \in Threads, NEW h \in Handles, NEW m \in MethodNames, GetMethodID(t, h, m)
      PROVE  \/ UNCHANGED <<pc, name>>
             \/ pc' = [pc EXCEPT ![t] = "newMethod"] /\ name' = [name EXCEPT ![t] = m]
  BY <1>4 DEF GetMethodID, NotFound
<1> QED
  BY <1>1, <1>2, <1>3, <1>4 DEF Next, LibraryStep, MapStep

LEMMA StepKeepsPending ==
  ASSUME Next, TypeOK, Pending
  PROVE  Pending'
<1>1. CASE UNCHANGED <<pc, name>>
  BY <1>1 DEF Pending
<1>2. ASSUME NEW t \in Threads, NEW n \in ClassNames,
             pc' = [pc EXCEPT ![t] = "newClass"], name' = [name EXCEPT ![t] = n]
      PROVE  Pending'
  BY <1>2 DEF Pending, TypeOK
<1>3. ASSUME NEW t \in Threads, NEW m \in MethodNames,
             pc' = [pc EXCEPT ![t] = "newMethod"], name' = [name EXCEPT ![t] = m]
      PROVE  Pending'
  BY <1>3 DEF Pending, TypeOK
<1>4. ASSUME NEW t \in Threads, InsertClass(t) \/ InsertMethod(t)
      PROVE  Pending'
  BY <1>4 DEF Pending, TypeOK, InsertClass, InsertMethod, Inserted
<1> QED
  BY <1>1, <1>2, <1>3, <1>4, StepPending

\* The arithmetic of one class name in one step.
LEMMA StepKeepsSearches ==
  ASSUME Next, TypeOK, Pending, Searches
  PROVE  Searches'
<1> SUFFICES ASSUME NEW n \in ClassNames
             PROVE  /\ IsFiniteSet(With(gClassNameMap, n))'
                    /\ (Cardinality(With(gClassNameMap, n)) + Cardinality(Seekers(n)))'
                         <= Cardinality(Threads)
  BY DEF Searches
<1> DEFINE W == With(gClassNameMap, n)
           S == Seekers(n)
<1>0. /\ IsFiniteSet(W) /\ Cardinality(W) \in Nat
      /\ Cardinality(W) + Cardinality(S) <= Cardinality(Threads)
      /\ n # NoName
  BY FS_CardinalityType, NamesAssumption DEF Searches
<1>1. /\ IsFiniteSet(S) /\ Cardinality(S) \in Nat /\ Cardinality(Threads) \in Nat
  BY SeekersFinite
<1>2. IsFiniteSet(S') /\ Cardinality(S') \in Nat /\ Cardinality(S') <= Cardinality(Threads)
  <2>1. S' \subseteq Threads
    BY DEF Seekers
  <2> QED
    BY <2>1, ThreadsFinite, FS_Subset, FS_CardinalityType
<1>3. CASE LookupStep /\ ~\E t \in Threads : InsertClass(t) \/ InsertMethod(t)
  <2>1. W' = W
    BY <1>3, <1>0, LookupNames DEF LookupStep, With
  <2>2. CASE W = {}
    BY <2>1, <2>2, <1>2, FS_EmptySet
  <2>3. CASE W # {}
    <3>1. S' \subseteq S
      <4>1. CASE UNCHANGED <<pc, name>>
        BY <4>1 DEF Seekers
      <4>2. ASSUME NEW t \in Threads, NEW c \in ClassNames, With(gClassNameMap, c) = {},
                   pc' = [pc EXCEPT ![t] = "newClass"], name' = [name EXCEPT ![t] = c]
            PROVE  S' \subseteq S
        BY <2>3, <4>2 DEF Seekers, TypeOK
      <4>3. ASSUME NEW t \in Threads, NEW m \in MethodNames,
                   pc' = [pc EXCEPT ![t] = "newMethod"], name' = [name EXCEPT ![t] = m]
            PROVE  S' \subseteq S
        BY <4>3 DEF Seekers, TypeOK
      <4> QED
        BY <1>3, <4>1, <4>2, <4>3, StepPending
    <3> QED
      BY <2>1, <3>1, <1>0, <1>1, <1>2, FS_Subset
  <2> QED
    BY <2>2, <2>3
<1>4. ASSUME NEW t \in Threads, InsertClass(t)
      PROVE  /\ IsFiniteSet(W')
             /\ Cardinality(W') + Cardinality(S') <= Cardinality(Threads)
  <2>1. PICK h \in Fresh : gClassNameMap' = Store(gClassNameMap, h, name[t])
    BY <1>4 DEF InsertClass
  <2>2. pc' = [pc EXCEPT ![t] = "idle"] /\ name' = [name EXCEPT ![t] = NoName] /\ pc[t] = "newClass"
    BY <1>4 DEF InsertClass, Inserted
  <2>3. CASE name[t] = n
    <3>1. W' = W \cup {h}
      BY <2>1, <2>3 DEF With, Store
    <3>2. S' = S \ {t} /\ t \in S
      BY <2>2, <2>3, <1>0 DEF Seekers, TypeOK
    <3>3. IsFiniteSet(W') /\ Cardinality(W') <= Cardinality(W) + 1 /\ Cardinality(W') \in Nat
      <4>1. /\ IsFiniteSet(W \cup {h})
            /\ Cardinality(W \cup {h}) = IF h \in W THEN Cardinality(W) ELSE Cardinality(W) + 1
        BY <1>0, FS_AddElement
      <4>2. /\ IsFiniteSet(W \cup {h}) /\ Cardinality(W \cup {h}) \in Nat
            /\ Cardinality(W \cup {h}) <= Cardinality(W) + 1
        BY <4>1, <1>0
      <4> HIDE DEF W
      <4> QED
        BY <4>2, <3>1
    <3>4. Cardinality(S') = Cardinality(S) - 1
      BY <3>2, <1>1, FS_RemoveElement
    <3> QED
      BY <3>3, <3>4, <1>0, <1>1
  <2>4. CASE name[t] # n
    <3>1. W' \subseteq W
      BY <2>1, <2>4 DEF With, Store
    <3>2. S' \subseteq S
      BY <2>2, <2>4, <1>0 DEF Seekers, TypeOK
    <3>3. /\ IsFiniteSet(W') /\ Cardinality(W') <= Cardinality(W) /\ Cardinality(W') \in Nat
          /\ Cardinality(S') <= Cardinality(S)
      BY <3>1, <3>2, <1>0, <1>1, FS_Subset, FS_CardinalityType
    <3> QED
      BY <3>3, <1>0, <1>1, <1>2
  <2> QED
    BY <2>3, <2>4
<1>5. ASSUME NEW t \in Threads, InsertMethod(t)
      PROVE  /\ IsFiniteSet(W')
             /\ Cardinality(W') + Cardinality(S') <= Cardinality(Threads)
  <2>1. W' = W
    BY <1>5 DEF InsertMethod, With
  <2>2. S' \subseteq S
    BY <1>5, <1>0 DEF InsertMethod, Inserted, Seekers, TypeOK
  <2> QED
    BY <2>1, <2>2, <1>0, <1>1, <1>2, FS_Subset
<1> QED
  BY <1>3, <1>4, <1>5, OnlyLookups

-----------------------------------------------------------------------------
(* Loading. *)

LEMMA HookCount == Len(HookOrder) \in Nat /\ 0 \in 0..Len(HookOrder)
<1>1. Len(HookOrder) = 37
  BY DEF HookOrder
<1> QED
  BY <1>1

\* A step of the activity.
LEMMA AppStepBuilt ==
  ASSUME AppStep, TypeOK, Built, crash.why = "alive"
  PROVE  Built' /\ FaultsExplained'
<1> USE DEF Built, built, InvokeFunctions
<1>0. /\ creates \in Nat /\ creates >= 1 /\ hooks \in Nat /\ hooks <= Len(HookOrder)
      /\ jvm \in 0..5 /\ Len(HookOrder) \in Nat
  BY CreatesAssumption DEF TypeOK, HookOrder
<1>1. CASE Initial
  <2>1. /\ UNCHANGED <<creates, loaded, crash>>
        /\ NewTable \/ FillTable \/ SetHook \/ NewInvoke \/ SetInvoke
    BY <1>1 DEF Initial
  <2>2. Built'
    <3>1. CASE NewTable
      BY <1>0, <2>1, <3>1 DEF NewTable
    <3>2. CASE FillTable
      BY <1>0, <2>1, <3>2 DEF FillTable
    <3>3. CASE SetHook
      BY <1>0, <2>1, <3>3 DEF SetHook
    <3>4. CASE NewInvoke
      BY <1>0, <2>1, <3>4 DEF NewInvoke
    <3>5. CASE SetInvoke
      BY <1>0, <2>1, <3>5 DEF SetInvoke
    <3> QED
      BY <2>1, <3>1, <3>2, <3>3, <3>4, <3>5
  <2> QED
    BY <2>1, <2>2 DEF FaultsExplained
<1>2. CASE Dlopen \/ Dlsym \/ OnLoadReturns
  BY <1>0, <1>2 DEF Dlopen, Dlsym, OnLoadReturns, FaultsExplained
<1>3. CASE Create
  BY <1>0, <1>3 DEF Create, FaultsExplained
<1>4. CASE CallNullFunc
  BY <1>0, <1>4 DEF CallNullFunc, life, Die, FaultsExplained
<1> QED
  BY <1>1, <1>2, <1>3, <1>4 DEF AppStep

\* A thread that runs code of the library finds both tables complete, or a further
\* initial() under way.
LEMMA RunsComplete ==
  ASSUME TypeOK, Built, NEW t \in Threads, Runs(t)
  PROVE  /\ hooks = Len(HookOrder) \/ (creates > 1 /\ app \in {"fill", "hooks"})
         /\ jvm = InvokeFunctions \/ (creates > 1 /\ app = "jvm")
  BY DEF TypeOK, Built, Runs

LEMMA StepKeepsBuilt ==
  ASSUME Next, TypeOK, Built
  PROVE  Built' /\ FaultsExplained'
<1>0. crash.why = "alive"
  BY DEF Next
<1>1. ASSUME NEW t \in Threads, LibraryStep(t)
      PROVE  Built' /\ FaultsExplained'
  <2>1. UNCHANGED life
    BY <1>1 DEF LibraryStep, MapStep, GetEnv, AttachCurrentThread, CallWild, CallNullInvoke,
       CallSlot, SetException, FindClass, GetMethodID, InsertClass, InsertMethod, CallMethod,
       CallObjectMethodA, Reference, GetObjectClass
  <2>2. \/ crash' = crash \/ crash'.why \in {"wild", "oEnv"}
        \/ CallNullInvoke(t)
        \/ \E s \in Called : CallSlot(t, s)
    BY <1>1 DEF LibraryStep, MapStep, GetEnv, AttachCurrentThread, CallWild,
       SetException, FindClass, GetMethodID, InsertClass, InsertMethod, CallMethod,
       CallObjectMethodA, Reference, GetObjectClass, Die
  <2>a. Built'
    BY <2>1 DEF Built, life, built
  <2>3. ASSUME NEW s \in Called, CallSlot(t, s)
        PROVE  FaultsExplained'
    <3>1. Runs(t) /\ s \notin Installed /\ crash'.why = "slot" /\ crash'.slot = s
      BY <2>3 DEF CallSlot, Die
    <3>2. hooks = Len(HookOrder) => s \notin Hooked
      BY <3>1 DEF Installed, Hooked, HookOrder
    <3> QED
      BY <2>1, <3>1, <3>2, RunsComplete DEF FaultsExplained, life
  <2>4. ASSUME CallNullInvoke(t)
        PROVE  FaultsExplained'
    <3>1. Runs(t) /\ jvm # InvokeFunctions /\ crash'.why = "jvm"
      BY <2>4 DEF CallNullInvoke, Die, InvokeFunctions
    <3> QED
      BY <2>1, <3>1, RunsComplete DEF FaultsExplained, life
  <2> QED
    BY <1>0, <2>2, <2>a, <2>3, <2>4 DEF FaultsExplained
<1> QED
  BY <1>0, <1>1, AppStepBuilt DEF Next

-----------------------------------------------------------------------------
(* Types. *)

LEMMA LookupType ==
  ASSUME NEW map, NEW h \in Handles, NEW N,
         DOMAIN map \subseteq Handles, \A x \in DOMAIN map : map[x] \in N \cup {NoName}
  PROVE  /\ DOMAIN Lookup(map, h) \subseteq Handles
         /\ \A x \in DOMAIN Lookup(map, h) : Lookup(map, h)[x] \in N \cup {NoName}
  BY DEF Lookup

LEMMA StoreType ==
  ASSUME NEW map, NEW h \in Handles, NEW N, NEW n \in N,
         DOMAIN map \subseteq Handles, \A x \in DOMAIN map : map[x] \in N \cup {NoName}
  PROVE  /\ DOMAIN Store(map, h, n) \subseteq Handles
         /\ \A x \in DOMAIN Store(map, h, n) : Store(map, h, n)[x] \in N \cup {NoName}
  BY DEF Store

\* The part of TypeOK about the maps, and the rest.
MapsOK ==
  /\ DOMAIN gClassNameMap \subseteq Handles /\ DOMAIN gMethodIDMap \subseteq Handles
  /\ \A h \in DOMAIN gClassNameMap : gClassNameMap[h] \in ClassNames \cup {NoName}
  /\ \A h \in DOMAIN gMethodIDMap : gMethodIDMap[h] \in MethodNames \cup {NoName}
RestOK ==
  /\ HasException \in BOOLEAN
  /\ table \in {"none", "zero", "index"}
  /\ hooks \in 0..Len(HookOrder) /\ jvm \in 0..InvokeFunctions
  /\ app \in {"new", "fill", "hooks", "jvm", "dlopen", "dlsym", "nosym", "onload", "shown"}
  /\ creates \in 1..(MaxCreates + 1) /\ loaded \in BOOLEAN
  /\ env \in [Threads -> {"unset", "attached", "fake"}]
  /\ pc \in [Threads -> {"idle", "newClass", "newMethod"}]
  /\ name \in [Threads -> ClassNames \cup MethodNames \cup {NoName}]
  /\ crash \in [why : {"alive", "func", "wild", "slot", "jvm", "oEnv"}, slot : Slots, addr : Nat]

LEMMA StepKeepsMaps ==
  ASSUME Next, MapsOK, Pending
  PROVE  MapsOK'
<1>1. CASE LookupStep
  BY <1>1, LookupType DEF LookupStep, MapsOK
<1>2. ASSUME NEW t \in Threads, InsertClass(t) \/ InsertMethod(t)
      PROVE  MapsOK'
  <2>1. Fresh \subseteq Handles
    BY DEF Fresh, Handles
  <2> QED
    <3>1. PICK h \in Handles :
             \/ /\ name[t] \in ClassNames
                /\ gClassNameMap' = Store(gClassNameMap, h, name[t])
                /\ gMethodIDMap' = gMethodIDMap
             \/ /\ name[t] \in MethodNames
                /\ gMethodIDMap' = Store(gMethodIDMap, h, name[t])
                /\ gClassNameMap' = gClassNameMap
      BY <1>2, <2>1, InsertStep
    <3>2. CASE gClassNameMap' = gClassNameMap /\ name[t] \in MethodNames
      BY <3>1, <3>2 DEF MapsOK, Store
    <3>3. CASE gMethodIDMap' = gMethodIDMap /\ name[t] \in ClassNames
      BY <3>1, <3>3 DEF MapsOK, Store
    <3> QED
      BY <3>1, <3>2, <3>3
<1> QED
  BY <1>1, <1>2, OnlyLookups

LEMMA DieType ==
  ASSUME NEW why \in {"func", "wild", "slot", "jvm", "oEnv"}, NEW s \in Slots, NEW a \in Nat,
         Die(why, s, a)
  PROVE  crash' \in [why : {"alive", "func", "wild", "slot", "jvm", "oEnv"}, slot : Slots, addr : Nat]
  BY DEF Die

LEMMA FaultType ==
  ASSUME NEW s \in Slots, NEW v \in SlotValues(s)
  PROVE  FaultAddr(v) \in Nat
<1>1. s \in Nat
  BY DEF Slots
<1>2. v \in Nat
  BY <1>1 DEF SlotValues
<1> QED
  BY <1>2 DEF FaultAddr

LEMMA StepKeepsRest ==
  ASSUME Next, RestOK
  PROVE  RestOK'
<1> USE DEF RestOK, life, built, maps
<1>0. 0 \in Slots /\ 0 \in Nat /\ \A s \in Slots : \A v \in SlotValues(s) : FaultAddr(v) \in Nat
  BY FaultType DEF Slots
<1>1. CASE Initial \/ Dlopen \/ Dlsym \/ OnLoadReturns \/ Create
  <2>1. CASE Initial
    <3>0. 0 \in 0..InvokeFunctions
      BY DEF InvokeFunctions
    <3>1. CASE NewTable \/ FillTable \/ NewInvoke
      BY <2>1, <3>0, <3>1, HookCount DEF Initial, NewTable, FillTable, NewInvoke
    <3>3. CASE SetHook
      <4>1. hooks' \in 0..Len(HookOrder)
        BY <3>3, HookCount DEF SetHook
      <4>2. UNCHANGED <<HasException, table, jvm, app, creates, loaded, env, pc, name, crash>>
        BY <2>1, <3>3 DEF Initial, SetHook
      <4> QED
        BY <4>1, <4>2
    <3>2. CASE SetInvoke
      <4>1. jvm + 1 \in 0..InvokeFunctions
        BY <3>2 DEF SetInvoke, InvokeFunctions
      <4> QED
        BY <2>1, <3>2, <4>1 DEF Initial, SetInvoke
    <3> QED
      BY <2>1, <3>1, <3>2, <3>3 DEF Initial
  <2>2. CASE Dlopen \/ Dlsym \/ OnLoadReturns
    BY <2>2 DEF Dlopen, Dlsym, OnLoadReturns
  <2>3. CASE Create
    BY <2>3, CreatesAssumption DEF Create
  <2> QED
    BY <1>1, <2>1, <2>2, <2>3
<1>2. CASE CallNullFunc
  BY <1>2, <1>0, DieType DEF CallNullFunc
<1>3. ASSUME NEW t \in Threads, LibraryStep(t)
      PROVE  RestOK'
  <2>1. CASE GetEnv(t) \/ AttachCurrentThread(t)
    BY <2>1 DEF GetEnv, AttachCurrentThread
  <2>2. CASE CallWild(t)
    BY <2>2, <1>0, DieType DEF CallWild
  <2>a. CASE CallNullInvoke(t)
    BY <2>a, <1>0, DieType DEF CallNullInvoke
  <2>3. ASSUME NEW s \in Called, CallSlot(t, s)
        PROVE  RestOK'
    <3>1. crash' \in [why : {"alive", "func", "wild", "slot", "jvm", "oEnv"}, slot : Slots, addr : Nat]
      BY <2>3, <1>0, DieType, CalledAssumption DEF CallSlot
    <3> QED
      BY <2>3, <3>1 DEF CallSlot
  <2>4. CASE \E b \in BOOLEAN : SetException(t, b)
    BY <2>4 DEF SetException
  <2>5. CASE \E n \in ClassNames : FindClass(t, n)
    BY <2>5 DEF FindClass, NotFound
  <2>6. CASE \E h \in Handles, m \in MethodNames : GetMethodID(t, h, m)
    <3>2. /\ pc' \in [Threads -> {"idle", "newClass", "newMethod"}]
          /\ name' \in [Threads -> ClassNames \cup MethodNames \cup {NoName}]
      BY <2>6 DEF GetMethodID, NotFound
    <3> QED
      BY <2>6, <3>2 DEF GetMethodID
  <2>7. CASE InsertClass(t) \/ InsertMethod(t)
    BY <2>7 DEF InsertClass, InsertMethod, Inserted
  <2>8. CASE \E obj, mid \in Handles : CallMethod(t, obj, mid) \/ CallObjectMethodA(t, obj, mid)
    BY <2>8 DEF CallMethod, CallObjectMethodA
  <2>9. CASE \E obj \in Handles : Reference(t, obj) \/ GetObjectClass(t, obj)
    <3>1. crash' \in [why : {"alive", "func", "wild", "slot", "jvm", "oEnv"}, slot : Slots, addr : Nat]
      BY <2>9, <1>0, DieType DEF Reference, GetObjectClass
    <3> QED
      BY <2>9, <3>1 DEF Reference, GetObjectClass
  <2> QED
    BY <1>3, <2>1, <2>2, <2>a, <2>3, <2>4, <2>5, <2>6, <2>7, <2>8, <2>9 DEF LibraryStep, MapStep
<1> QED
  BY <1>1, <1>2, <1>3 DEF Next, AppStep

LEMMA TypeParts ==
  (TypeOK <=> MapsOK /\ RestOK) /\ (TypeOK' <=> MapsOK' /\ RestOK')
  BY DEF TypeOK, MapsOK, RestOK

-----------------------------------------------------------------------------
(* The theorems. *)

LEMMA InitHolds == Init => IndInv
<1> SUFFICES ASSUME Init PROVE IndInv
  OBVIOUS
<1>1. TypeOK
  <2>1. 0 \in Slots
    BY DEF Slots
  <2> QED
    <3>1. MapsOK
      BY DEF Init, MapsOK
    <3>2. RestOK
      <4>1. creates \in 1..(MaxCreates + 1)
        BY CreatesAssumption DEF Init
      <4>2. crash \in [why : {"alive", "func", "wild", "slot", "jvm", "oEnv"}, slot : Slots, addr : Nat]
        BY <2>1 DEF Init, Alive
      <4> QED
        <5>1. hooks \in 0..Len(HookOrder)
          BY HookCount DEF Init
        <5>2. jvm \in 0..InvokeFunctions
          BY DEF Init, InvokeFunctions
        <5> QED
          BY <4>1, <4>2, <5>1, <5>2 DEF Init, RestOK
    <3> QED
      BY <3>1, <3>2, TypeParts
<1>2. Pending
  BY DEF Init, Pending
<1>3. KindsApart
  BY DEF Init, KindsApart, Named
<1>4. Searches
  <2> SUFFICES ASSUME NEW n \in ClassNames
               PROVE  /\ IsFiniteSet(With(gClassNameMap, n))
                      /\ Cardinality(With(gClassNameMap, n)) + Cardinality(Seekers(n))
                           <= Cardinality(Threads)
    BY DEF Searches
  <2>1. With(gClassNameMap, n) = {}
    BY DEF Init, With
  <2> QED
    BY <2>1, FS_EmptySet, SeekersFinite
<1>5. Built /\ FaultsExplained
  BY DEF Init, Built, FaultsExplained, Alive
<1> QED
  BY <1>1, <1>2, <1>3, <1>4, <1>5 DEF IndInv

LEMMA NextHolds == IndInv /\ [Next]_vars => IndInv'
<1> SUFFICES ASSUME IndInv, [Next]_vars PROVE IndInv'
  OBVIOUS
<1>1. CASE Next
  BY <1>1, StepKeepsMaps, StepKeepsRest, TypeParts, StepKeepsPending, StepKeepsNames,
     StepKeepsSearches, StepKeepsBuilt DEF IndInv
<1>2. CASE UNCHANGED vars
  BY <1>2 DEF IndInv, TypeOK, Pending, KindsApart, Named, Searches, With, Seekers,
     Built, FaultsExplained, vars, maps, life, built
<1> QED
  BY <1>1, <1>2

THEOREM IndInvHolds == Spec => []IndInv
  BY InitHolds, NextHolds, PTL DEF Spec

(***************************************************************************)
(* The maps, the life of the activity and the locals of the hooks keep     *)
(* their types, whatever handles the library passes.                       *)
(***************************************************************************)
THEOREM TypeCorrect == Spec => []TypeOK
<1>1. IndInv => TypeOK
  BY DEF IndInv
<1> QED
  BY <1>1, IndInvHolds, PTL

\* hook_FindClass and hook_GetMethodID never give out one address for a class
\* and a method.
THEOREM ClassesAndMethodsApart == Spec => []KindsApart
<1>1. IndInv => KindsApart
  BY DEF IndInv
<1> QED
  BY <1>1, IndInvHolds, PTL

(***************************************************************************)
(* No step of any hook takes the name from a handle that was given out:    *)
(* operator[] only adds, and an insertion uses a fresh string.             *)
(***************************************************************************)
THEOREM HandlesNeverRenamed == Spec => HandlesKeepNames
<1>1. IndInv /\ [Next]_vars => [NamesKept]_vars
  BY StepKeepsNames DEF IndInv
<1>2. Spec => [][NamesKept]_vars
  BY <1>1, IndInvHolds, PTL DEF Spec
<1> QED
  BY <1>2 DEF HandlesKeepNames, NamesKept

(***************************************************************************)
(* The unlocked search and insertion of hook_FindClass give a class at     *)
(* most one handle for each thread: a handle costs a thread that searched  *)
(* before the first one was there.                                         *)
(***************************************************************************)
THEOREM HandlesBounded == Spec => []OneHandlePerThread
<1>1. IndInv => OneHandlePerThread
  <2> SUFFICES ASSUME IndInv, NEW n \in ClassNames
               PROVE  Cardinality(With(gClassNameMap, n)) <= Cardinality(Threads)
    BY DEF OneHandlePerThread
  <2>1. /\ Cardinality(With(gClassNameMap, n)) \in Nat
        /\ Cardinality(With(gClassNameMap, n)) + Cardinality(Seekers(n)) <= Cardinality(Threads)
    BY FS_CardinalityType DEF IndInv, Searches
  <2> QED
    BY <2>1, SeekersFinite
<1> QED
  BY <1>1, IndInvHolds, PTL

(***************************************************************************)
(* Whatever a library calls, a function with a hook faults only while      *)
(* initial() of a further activity rebuilds the table it is in: in the     *)
(* first activity loadELF() follows the last assignment of initial().      *)
(***************************************************************************)
THEOREM FaultsAreExplained == Spec => []FaultsExplained
<1>1. IndInv => FaultsExplained
  BY DEF IndInv
<1> QED
  BY <1>1, IndInvHolds, PTL
=============================================================================
