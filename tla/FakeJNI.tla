------------------------------- MODULE FakeJNI -------------------------------
(***************************************************************************)
(* The fake Java VM and environment of native-lib.cpp: MainActivity calls  *)
(* initial(), which builds the function tables, and loadELF(), which loads *)
(* a library and runs its JNI_OnLoad against them.                         *)
(*                                                                         *)
(* A class is the address of a heap string holding its name, and so is a   *)
(* method; an object is its class.  The two std::maps give the names back, *)
(* and operator[] adds an empty name for an address they do not hold.      *)
(*                                                                         *)
(* The library is the environment: its JNI_OnLoad runs in the main thread, *)
(* the threads it starts go on for ever, and each calls what it likes with *)
(* what handles it likes: what a call returns is therefore not kept, and   *)
(* the functions that only return a value (FromReflectedMethod,            *)
(* FromReflectedField, ToReflectedMethod, PushLocalFrame, the slot of      *)
(* PopLocalFrame, ExceptionCheck, ExceptionOccurred, ExceptionDescribe,    *)
(* GetStringUTFChars) are no steps.  A map operation is one step.          *)
(***************************************************************************)
EXTENDS Integers, Sequences, FiniteSets

CONSTANTS
  Main,         \* the thread that creates the activity
  Helpers,      \* the threads of the loaded library
  ClassNames,   \* names the library asks FindClass for
  MethodNames,  \* name and signature pairs, "static " included
  Heap,         \* addresses new may return
  Others,       \* other values passed as handles: real objects, null
  Called,       \* slots of the function table the library calls at random
  NoName,       \* the empty string
  MaxCreates    \* bound on the activities created in one process

Threads == {Main} \cup Helpers

ASSUME ThreadsAssumption == Main \notin Helpers /\ IsFiniteSet(Helpers)
ASSUME HandlesAssumption == 0 \in Others /\ Heap \cap Others = {}
ASSUME NamesAssumption == NoName \notin ClassNames \cup MethodNames
ASSUME CreatesAssumption == MaxCreates \in Nat

Handles == Heap \cup Others

\* struct hook_JNINativeInterface: 233 pointers, and those initial() assigns a
\* hook to, in its order.
Slots     == 0..232
HookOrder == <<6, 215, 7, 8, 9, 31, 33, 113, 114, 116, 115, 34, 35, 36, 49, 50, 51, 46, 47,
               48, 133, 28, 29, 30, 23, 22, 21, 17, 16, 18, 20, 19, 228, 15, 169, 170, 13>>
Hooked    == {HookOrder[i] : i \in DOMAIN HookOrder}

\* The functions of the fake Java VM in the order of their assignments: GetEnv,
\* DestroyJavaVM, DetachCurrentThread, AttachCurrentThread and its AsDaemon form.
InvokeFunctions == 5
GetEnvAt == 1
AttachAt == 4..5

ASSUME CalledAssumption == Called \subseteq Slots

VARIABLES
  gClassNameMap, gMethodIDMap,
  HasException,
  table,     \* fake_env.functions below the hooks: "none", "zero" or "index"
  hooks,     \* how many hooks of HookOrder it has
  jvm,       \* how many functions fake_jvm.functions has
  app,       \* where MainActivity.onCreate is
  creates,   \* activities created
  loaded,    \* dlopen has succeeded
  env,       \* the JNIEnv * each thread has
  pc, name,  \* a search that found nothing, and what it searched for
  crash      \* how the process died

maps == <<gClassNameMap, gMethodIDMap>>
built == <<table, hooks, jvm>>
life == <<built, app, creates, loaded>>
vars == <<maps, HasException, life, env, pc, name, crash>>

Alive == [why |-> "alive", slot |-> 0, addr |-> 0]

Init ==
  /\ gClassNameMap = [h \in {} |-> NoName] /\ gMethodIDMap = [h \in {} |-> NoName]
  /\ HasException = FALSE
  /\ table = "none" /\ hooks = 0 /\ jvm = 0
  /\ app = "new" /\ creates = 1 /\ loaded = FALSE
  /\ env = [t \in Threads |-> "unset"]
  /\ pc = [t \in Threads |-> "idle"]
  /\ name = [t \in Threads |-> NoName]
  /\ crash = Alive

-----------------------------------------------------------------------------
(***************************************************************************)
(* initial(): a new table, which is in use from here on, every slot set to *)
(* its index plus five, the hooks one after the other, and the same for    *)
(* the table of the Java VM.  The library of an earlier activity may look  *)
(* at the tables between any two of these.                                 *)
(***************************************************************************)
NewTable ==
  /\ app = "new" /\ app' = "fill"
  /\ table' = "zero" /\ hooks' = 0
  /\ UNCHANGED jvm

FillTable ==
  /\ app = "fill" /\ app' = "hooks"
  /\ table' = "index"
  /\ UNCHANGED <<hooks, jvm>>

SetHook ==
  /\ app = "hooks" /\ hooks < Len(HookOrder)
  /\ hooks' = hooks + 1
  /\ UNCHANGED <<app, table, jvm>>

\* Mutant: the library is loaded before the hooks are in the table.
NewInvoke_HooksLast ==
  /\ app = "hooks"
  /\ app' = "jvm" /\ jvm' = 0
  /\ UNCHANGED <<table, hooks>>

NewInvoke ==
  /\ app = "hooks" /\ hooks = Len(HookOrder)
  /\ app' = "jvm" /\ jvm' = 0
  /\ UNCHANGED <<table, hooks>>

SetInvoke ==
  /\ app = "jvm" /\ jvm < InvokeFunctions
  /\ jvm' = jvm + 1
  /\ app' = IF jvm + 1 = InvokeFunctions THEN "dlopen" ELSE "jvm"
  /\ UNCHANGED <<table, hooks>>

Initial ==
  /\ NewTable \/ FillTable \/ SetHook \/ NewInvoke \/ SetInvoke
  /\ UNCHANGED <<maps, HasException, creates, loaded, env, pc, name, crash>>

(***************************************************************************)
(* loadELF(): dlopen and dlsym may fail; both are logged and execution     *)
(* goes on to the call.                                                    *)
(***************************************************************************)
Dlopen ==
  /\ app = "dlopen"
  /\ \/ loaded' = TRUE /\ app' = "dlsym"
     \/ app' = "nosym" /\ UNCHANGED loaded
  /\ UNCHANGED <<maps, HasException, built, creates, env, pc, name, crash>>

Dlsym ==
  /\ app = "dlsym"
  /\ app' \in {"onload", "nosym"}
  /\ UNCHANGED <<maps, HasException, built, creates, loaded, env, pc, name, crash>>

Die(why, slot, addr) == crash' = [why |-> why, slot |-> slot, addr |-> addr]

CallNullFunc ==
  /\ app = "nosym"
  /\ Die("func", 0, 0)
  /\ UNCHANGED <<maps, HasException, life, env, pc, name>>

OnLoadReturns ==
  /\ app = "onload" /\ pc[Main] = "idle"
  /\ app' = "shown"
  /\ UNCHANGED <<maps, HasException, built, creates, loaded, env, pc, name, crash>>

\* A further instance of the activity, in the same process.
Create ==
  /\ app = "shown" /\ creates < MaxCreates
  /\ app' = "new" /\ creates' = creates + 1
  /\ UNCHANGED <<maps, HasException, built, loaded, env, pc, name, crash>>

-----------------------------------------------------------------------------
\* A thread that executes code of the library.
Runs(t) == pc[t] = "idle" /\ IF t = Main THEN app = "onload" ELSE loaded

\* A function of the Java VM that is not assigned yet is a null pointer.
CallNullInvoke(t) ==
  /\ Runs(t) /\ jvm < InvokeFunctions
  /\ Die("jvm", 0, 0)
  /\ UNCHANGED <<maps, HasException, life, env, pc, name>>

\* hook_GetEnv; hook_AttachCurrentThread and its AsDaemon form return 0 and leave
\* *env alone.
GetEnv(t) ==
  /\ Runs(t) /\ jvm >= GetEnvAt
  /\ env' = [env EXCEPT ![t] = "fake"]
  /\ UNCHANGED <<maps, HasException, life, pc, name, crash>>

AttachCurrentThread(t) ==
  /\ Runs(t) /\ env[t] = "unset"
  /\ \E k \in AttachAt : jvm >= k
  /\ env' = [env EXCEPT ![t] = "attached"]
  /\ UNCHANGED <<maps, HasException, life, pc, name, crash>>

CallWild(t) ==
  /\ Runs(t) /\ env[t] = "attached"
  /\ Die("wild", 0, 0)
  /\ UNCHANGED <<maps, HasException, life, env, pc, name>>

(***************************************************************************)
(* A call through a slot that has no hook jumps to the number in it: while *)
(* the slots are being filled zero or the index plus five.  An odd number  *)
(* is a Thumb address, whose lowest bit is not part of the address that    *)
(* faults.                                                                 *)
(***************************************************************************)
Installed     == {HookOrder[i] : i \in 1..hooks}
SlotValues(s) == IF table = "zero" THEN {0, s + 5} ELSE {s + 5}
FaultAddr(v)  == v - (v % 2)

CallSlot(t, s) ==
  /\ Runs(t) /\ env[t] = "fake"
  /\ s \notin Installed
  /\ \E v \in SlotValues(s) : Die("slot", s, FaultAddr(v))
  /\ UNCHANGED <<maps, HasException, life, env, pc, name>>

\* A call through one of these slots that reaches its hook.
Calls(t, slots) == Runs(t) /\ env[t] = "fake" /\ slots \cap Installed # {}

\* The slots of the hooks below that share their code.
MethodIDs     == {33, 113}
MethodCalls   == {28, 29, 30, 34, 35, 46, 47, 49, 50, 114, 115, 116, 133}
ObjectCallsA  == {36, 48, 51}
References    == {21, 22, 23, 215}
ExceptionSlot(b) == IF b THEN {13} ELSE {17}

-----------------------------------------------------------------------------
(***************************************************************************)
(* The maps.  operator[] enters an address it does not hold; a search goes *)
(* through the entries in the order of their addresses.                    *)
(***************************************************************************)
\* Mutant: the lookup resets the name.
Lookup_Resets(map, h) ==
  [x \in DOMAIN map \cup {h} |-> IF x = h THEN NoName ELSE map[x]]

Lookup(map, h) ==
  [x \in DOMAIN map \cup {h} |-> IF x \in DOMAIN map THEN map[x] ELSE NoName]
Store(map, h, n) ==
  [x \in DOMAIN map \cup {h} |-> IF x = h THEN n ELSE map[x]]
With(map, n)  == {h \in DOMAIN map : map[h] = n}

\* What new string returns: no string that is still there, and none is freed.
Named(map) == {h \in DOMAIN map : map[h] # NoName}
Fresh      == Heap \ (Named(gClassNameMap) \cup Named(gMethodIDMap))

NotFound(t, l, n) ==
  /\ pc' = [pc EXCEPT ![t] = l]
  /\ name' = [name EXCEPT ![t] = n]
Inserted(t) ==
  /\ pc' = [pc EXCEPT ![t] = "idle"]
  /\ name' = [name EXCEPT ![t] = NoName]

\* Mutant: the list is not searched.
FindClass_NoSearch(t, n) ==
  /\ Calls(t, {6})
  /\ NotFound(t, "newClass", n)
  /\ UNCHANGED <<maps, HasException, life, env, crash>>

\* hook_FindClass: the search.
FindClass(t, n) ==
  /\ Calls(t, {6})
  /\ \/ With(gClassNameMap, n) # {} /\ UNCHANGED <<pc, name>>
     \/ With(gClassNameMap, n) = {} /\ NotFound(t, "newClass", n)
  /\ UNCHANGED <<maps, HasException, life, env, crash>>

InsertClass(t) ==
  /\ pc[t] = "newClass"
  /\ \E h \in Fresh :
       /\ gClassNameMap' = Store(gClassNameMap, h, name[t])
       /\ Inserted(t)
  /\ UNCHANGED <<gMethodIDMap, HasException, life, env, crash>>

\* hook_GetMethodID and hook_GetStaticMethodID: the class is looked up for the
\* log line only.
GetMethodID(t, cls, m) ==
  /\ Calls(t, MethodIDs)
  /\ gClassNameMap' = Lookup(gClassNameMap, cls)
  /\ \/ /\ With(gMethodIDMap, m) # {}
              /\ UNCHANGED <<pc, name>>
     \/ /\ With(gMethodIDMap, m) = {}
        /\ NotFound(t, "newMethod", m)
  /\ UNCHANGED <<gMethodIDMap, HasException, life, env, crash>>

\* Mutant: the method takes an address the class map has given away.
InsertMethod_ReusesClass(t) ==
  /\ pc[t] = "newMethod"
  /\ \E h \in Heap \ Named(gMethodIDMap) :
       /\ gMethodIDMap' = Store(gMethodIDMap, h, name[t])
       /\ Inserted(t)
  /\ UNCHANGED <<gClassNameMap, HasException, life, env, crash>>

\* Mutant: the method is entered among the classes.
InsertMethod_WrongMap(t) ==
  /\ pc[t] = "newMethod"
  /\ \E h \in Fresh :
       /\ gClassNameMap' = Store(gClassNameMap, h, name[t])
       /\ Inserted(t)
  /\ UNCHANGED <<gMethodIDMap, HasException, life, env, crash>>

InsertMethod(t) ==
  /\ pc[t] = "newMethod"
  /\ \E h \in Fresh :
       /\ gMethodIDMap' = Store(gMethodIDMap, h, name[t])
       /\ Inserted(t)
  /\ UNCHANGED <<gClassNameMap, HasException, life, env, crash>>

\* hook_CallObjectMethod, its static, int, short, long, V forms and NewObject*:
\* both names are looked up for the log and the object is the result.
CallMethod(t, obj, mid) ==
  /\ Calls(t, MethodCalls)
  /\ gClassNameMap' = Lookup(gClassNameMap, obj)
  /\ gMethodIDMap' = Lookup(gMethodIDMap, mid)
  /\ UNCHANGED <<HasException, life, env, pc, name, crash>>

\* hook_CallObjectMethodA looks up the method only.
CallObjectMethodA(t, obj, mid) ==
  /\ Calls(t, ObjectCallsA)
  /\ gMethodIDMap' = Lookup(gMethodIDMap, mid)
  /\ UNCHANGED <<gClassNameMap, HasException, life, env, pc, name, crash>>

\* hook_RegisterNatives returns JNI_TRUE, hook_NewGlobalRef the object, and
\* hook_DeleteGlobalRef, for local references too, nothing.
Reference(t, obj) ==
  /\ Calls(t, References)
  /\ gClassNameMap' = Lookup(gClassNameMap, obj)
  /\ UNCHANGED <<gMethodIDMap, HasException, life, env, pc, name, crash>>

\* hook_GetObjectClass: an object with a name is its class; any other is asked
\* of the real environment oEnv, which nothing assigns.
GetObjectClass(t, obj) ==
  /\ Calls(t, {31})
  /\ gClassNameMap' = Lookup(gClassNameMap, obj)
  /\ \/ obj \in Named(gClassNameMap) /\ UNCHANGED crash
     \/ obj \notin Named(gClassNameMap) /\ Die("oEnv", 0, 0)
  /\ UNCHANGED <<gMethodIDMap, HasException, life, env, pc, name>>

\* hook_Throw and hook_ExceptionClear: one flag for all threads.
SetException(t, b) ==
  /\ Calls(t, ExceptionSlot(b))
  /\ HasException' = b
  /\ UNCHANGED <<maps, life, env, pc, name, crash>>

-----------------------------------------------------------------------------
AppStep == Initial \/ Dlopen \/ Dlsym \/ CallNullFunc \/ OnLoadReturns \/ Create

MapStep(t) ==
  \/ \E n \in ClassNames : FindClass(t, n)
  \/ \E h \in Handles, m \in MethodNames : GetMethodID(t, h, m)
  \/ InsertClass(t)
  \/ InsertMethod(t)
  \/ \E obj, mid \in Handles : CallMethod(t, obj, mid) \/ CallObjectMethodA(t, obj, mid)
  \/ \E obj \in Handles : Reference(t, obj) \/ GetObjectClass(t, obj)

LibraryStep(t) ==
  \/ GetEnv(t)
  \/ CallNullInvoke(t)
  \/ AttachCurrentThread(t)
  \/ CallWild(t)
  \/ \E s \in Called : CallSlot(t, s)
  \/ MapStep(t)
  \/ \E b \in BOOLEAN : SetException(t, b)

Next ==
  /\ crash.why = "alive"
  /\ AppStep \/ \E t \in Threads : LibraryStep(t)

Spec == Init /\ [][Next]_vars

-----------------------------------------------------------------------------
TypeOK ==
  /\ DOMAIN gClassNameMap \subseteq Handles /\ DOMAIN gMethodIDMap \subseteq Handles
  /\ \A h \in DOMAIN gClassNameMap : gClassNameMap[h] \in ClassNames \cup {NoName}
  /\ \A h \in DOMAIN gMethodIDMap : gMethodIDMap[h] \in MethodNames \cup {NoName}
  /\ HasException \in BOOLEAN
  /\ table \in {"none", "zero", "index"}
  /\ hooks \in 0..Len(HookOrder) /\ jvm \in 0..InvokeFunctions
  /\ app \in {"new", "fill", "hooks", "jvm", "dlopen", "dlsym", "nosym", "onload", "shown"}
  /\ creates \in 1..(MaxCreates + 1) /\ loaded \in BOOLEAN
  /\ env \in [Threads -> {"unset", "attached", "fake"}]
  /\ pc \in [Threads -> {"idle", "newClass", "newMethod"}]
  /\ name \in [Threads -> ClassNames \cup MethodNames \cup {NoName}]
  /\ crash \in [why : {"alive", "func", "wild", "slot", "jvm", "oEnv"}, slot : Slots, addr : Nat]

(***************************************************************************)
(* A handle that FindClass or GetMethodID gave out keeps its name, whatever*)
(* addresses the library passes as handles afterwards: the entries that    *)
(* operator[] adds for them never replace one.                             *)
(***************************************************************************)
HandlesKeepNames ==
  [][/\ \A h \in Named(gClassNameMap) :
          h \in DOMAIN gClassNameMap' /\ gClassNameMap'[h] = gClassNameMap[h]
     /\ \A h \in Named(gMethodIDMap) :
          h \in DOMAIN gMethodIDMap' /\ gMethodIDMap'[h] = gMethodIDMap[h]]_vars

\* No handle is the name of a class and of a method.
KindsApart == Named(gClassNameMap) \cap Named(gMethodIDMap) = {}

(***************************************************************************)
(* FindClass searches and inserts without a lock, so a name may get more   *)
(* than one handle -- but never more than one for each thread, and one     *)
(* only when a single thread calls.                                        *)
(***************************************************************************)
OneHandlePerThread ==
  \A n \in ClassNames : Cardinality(With(gClassNameMap, n)) <= Cardinality(Threads)

(***************************************************************************)
(* A function that has a hook faults only while initial() of a further     *)
(* activity is putting the hooks into its new table, and a function of the *)
(* Java VM only while it assigns those: loadELF() runs the library when    *)
(* both tables are complete.                                               *)
(***************************************************************************)
FaultsExplained ==
  /\ crash.why = "slot" =>
       crash.slot \notin Hooked \/ (creates > 1 /\ app \in {"fill", "hooks"})
  /\ crash.why = "jvm" => creates > 1 /\ app = "jvm"

(***************************************************************************)
(* What the comment in initial() says of a fault: it tells which function  *)
(* still needs a hook ...                                                  *)
(***************************************************************************)
FaultMeansMissing == crash.why = "slot" => crash.slot \notin Hooked

(***************************************************************************)
(* ... and its address is the index of that function, counted from 0 or    *)
(* from 1.                                                                 *)
(***************************************************************************)
FaultIsIndex == crash.why = "slot" => crash.addr \in {crash.slot, crash.slot + 1}
=============================================================================
