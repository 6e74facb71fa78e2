---------------------------- MODULE DynamicObjects ----------------------------
(***************************************************************************)
(* Loading and unloading of dynamic objects: an object made by a library   *)
(* that dlopen brought in, whose native values call the library's code     *)
(* when they are released.  The loader is composed with the variant heap:  *)
(* values are made, shared, dropped and released by the program, by the    *)
(* entry function of a library and by the callbacks of native values.      *)
(* Constant values, resizing, statistics and the cleanup do not touch a    *)
(* library and are left to VariantHeap.                                    *)
(***************************************************************************)
EXTENDS VariantHeap

CONSTANTS
  Library,
  Entry,          \* the libraries with the symbol EXOBJ_LOAD_ENTRY
  Name,           \* the names the program asks for
  Qualified,      \* those with a '/'
  EnvDirs,        \* the directories of PURC_DVOBJS_PATH, in order
  Absolute,       \* those that begin with a '/'
  SystemDirs,     \* the three directories of other_tries
  Installed,      \* Installed[dir][name]: a library or None; Installed["."]
                  \*   for a qualified name
  MaxOpens,       \* how often a library is opened at the same time, at most
  MaxCalls        \* how many loads and unloads are nested, at most

ASSUME DynamicAssumption ==
  /\ Entry \subseteq Library /\ Qualified \subseteq Name
  /\ MaxOpens \in Nat /\ MaxCalls \in Nat
  /\ None \notin Library

VARIABLES
  opens,      \* opens[lib]: how often dlopen opened it and dlclose did not yet
  handle,     \* handle[w]: the library of EXOBJ_LOAD_HANDLE_KEY in object w
  code,       \* code[w]: the library whose functions native value w calls
  calls,      \* the loads and unloads under way, the innermost first
  kept        \* history: values a library may not expect to outlive it

loader == <<opens, handle, code, calls, kept>>
dvars  == <<vars, loader>>

DvobjInit ==
  /\ Init
  /\ opens = [lib \in Library |-> 0]
  /\ handle = [w \in Wrapper |-> None]
  /\ code = [w \in Wrapper |-> None]
  /\ calls = <<>>
  /\ kept = {}

-----------------------------------------------------------------------------
(* A call under way waits for the releases above the ones it found.        *)
Above == IF calls = <<>> THEN TRUE ELSE Len(releasing) > Head(calls).depth
Back(call) == IF calls = <<>> THEN FALSE ELSE Head(calls).call = call /\ ~Above
InEntry == Back("load")
MayCall == Above \/ InEntry

(* Whose code runs and makes a value.                                      *)
Author ==
  IF InEntry THEN Head(calls).lib
  ELSE IF releasing # <<>> THEN code[Head(releasing)] ELSE None

(* A library is being closed, or code that is closed already runs.         *)
Closing ==
  \/ \E i \in DOMAIN calls : calls[i].call = "close"
  \/ Author # None /\ opens[Author] = 0

(* The steps of the heap, as the loader sees them.                         *)
MakeValue(p, w, t, n) ==
  /\ MayCall
  /\ Make(p, w, t, n)
  /\ code' = [code EXCEPT ![w] = IF t \in NativeType THEN Author ELSE None]
  /\ kept' = IF Closing THEN kept \cup {w} ELSE kept
  /\ UNCHANGED <<opens, handle, calls>>

UseValue ==
  /\ MayCall
  /\ \/ \E q, p \in Place : Ref(q, p)
     \/ \E p \in Place : Unref(p)
  /\ UNCHANGED loader

RunReleaser(w) ==
  /\ Above
  /\ \/ /\ \E i \in Index : ReleaseMember(w, i)
        /\ UNCHANGED <<handle, code, kept>>
     \/ /\ Put(w)
        /\ handle' = [handle EXCEPT ![w] = None]
        /\ code' = [code EXCEPT ![w] = None]
        /\ kept' = kept \ {w}
  /\ UNCHANGED <<opens, calls>>

-----------------------------------------------------------------------------
(* The directories purc_variant_load_dvobj_from_so tries: those of the     *)
(* environment up to the first that is not absolute, then the system's.    *)
EnvTries ==
  LET valid == {n \in 0 .. Len(EnvDirs) : \A i \in 1 .. n : EnvDirs[i] \in Absolute}
  IN  SubSeq(EnvDirs, 1, CHOOSE n \in valid : \A m \in valid : m <= n)

Tries(name) == IF name \in Qualified THEN <<".">> ELSE EnvTries \o SystemDirs

Opened(name) ==
  LET hits == {i \in DOMAIN Tries(name) : Installed[Tries(name)[i]][name] # None}
  IN  IF hits = {} THEN None
      ELSE Installed[Tries(name)[CHOOSE i \in hits : \A j \in hits : i <= j]][name]

Call(call, lib, p) ==
  <<[call |-> call, lib |-> lib, place |-> p, depth |-> Len(releasing)]>>

(* dlopen, and the call of the entry function, which makes a value in p.   *)
(* Without a library, without the entry, or when an earlier try has left   *)
(* an error that dlerror still reports, the call changes nothing.          *)
LoadBegin(p, name) ==
  /\ MayCall
  /\ ProgramRuns
  /\ place[p] = None
  /\ Opened(name) \in Entry
  /\ opens[Opened(name)] < MaxOpens /\ Len(calls) < MaxCalls
  /\ \A i \in DOMAIN calls : calls[i].place # p
  /\ opens' = [opens EXCEPT ![Opened(name)] = @ + 1]
  /\ calls' = Call("load", Opened(name), p) \o calls
  /\ UNCHANGED <<vars, handle, code, kept>>

(* What the library must not expect to be released before it is closed:    *)
(* its values that others hold or that are being released, and all of them *)
(* when the object in p was unloaded before.                               *)
Others(p) ==
  Reachable(Range(releasing) \cup ({place[r] : r \in Root \ {p}} \cap Wrapper))
Survivors(lib, p) ==
  {w \in live : code[w] = lib /\ (w \in Others(p) \/ place[p] \in kept)}
    \cup ({place[p]} \cap Others(p))

dlclose(lib) == [opens EXCEPT ![lib] = IF @ = 0 THEN 0 ELSE @ - 1]
ClosedFirst(lib)    == dlclose(lib)   \* mutant: dlclose before purc_variant_unref
WhileReleasing(lib) == opens

(* purc_variant_unref(value) and then dlclose.                             *)
DropAndClose(lib, p, outer) ==
  /\ Drop(p)
  /\ opens' = WhileReleasing(lib)
  /\ kept' = kept \cup Survivors(lib, p)
  /\ calls' = Call("close", lib, p) \o outer
  /\ UNCHANGED <<handle, code>>

(* The entry function returns the value in p: nothing, an object, which    *)
(* gets the handle, or something else, which is dropped.                   *)
IsObject(v) == v \in Wrapper /\ type[v] \in ContainerType

LoadEnd(p) ==
  /\ InEntry
  /\ p = Head(calls).place
  /\ LET lib == Head(calls).lib
     IN  \/ /\ place[p] = None
            /\ opens' = dlclose(lib)
            /\ kept' = kept \cup Survivors(lib, p)
            /\ calls' = Tail(calls)
            /\ UNCHANGED <<vars, handle, code>>
         \/ /\ IsObject(place[p])
            /\ handle' = [handle EXCEPT ![place[p]] = lib]
            /\ calls' = Tail(calls)
            /\ UNCHANGED <<vars, opens, code, kept>>
         \/ /\ place[p] # None /\ ~IsObject(place[p])
            /\ DropAndClose(lib, p, Tail(calls))

(* purc_variant_unload_dvobj on the reference in p; it refuses what is not *)
(* an object with a handle.                                                *)
Unload(p) ==
  /\ MayCall
  /\ ProgramRuns
  /\ IsObject(place[p])
  /\ handle[place[p]] # None
  /\ Len(calls) < MaxCalls
  /\ DropAndClose(handle[place[p]], p, calls)

(* Everything the unref released is back, and dlclose is called.  Closing  *)
(* a library that is closed already changes nothing.                       *)
DlClose ==
  /\ Back("close")
  /\ opens' = dlclose(Head(calls).lib)
  /\ calls' = Tail(calls)
  /\ UNCHANGED <<vars, handle, code, kept>>

DvobjNext ==
  \/ \E p \in Root, w \in Wrapper, t \in HeapType, n \in Payload : MakeValue(p, w, t, n)
  \/ UseValue
  \/ \E w \in Wrapper : RunReleaser(w)
  \/ \E p \in Root, name \in Name : LoadBegin(p, name)
  \/ \E p \in Root : LoadEnd(p) \/ Unload(p)
  \/ DlClose

DvobjSpec == DvobjInit /\ [][DvobjNext]_dvars

(* The library of a native value is still open when its releaser calls the *)
(* library, however loads and unloads are nested in one another and in the *)
(* callbacks, unless the value was in use elsewhere, or made, while the    *)
(* library was being closed (purc_variant_unload_dvobj).                   *)
UnloadedLast ==
  \A w \in Range(releasing) :
    code[w] # None => opens[code[w]] > 0 \/ w \in kept

(* The inductive invariant behind it.  A call under way was begun when the *)
(* releases outside it were under way, and those around it before it.      *)
CallType == [call : {"load", "close"}, lib : Library, place : Root, depth : Nat]
LoaderTypeOK ==
  /\ opens \in [Library -> Nat]
  /\ handle \in [Wrapper -> Library \cup {None}]
  /\ code \in [Wrapper -> Library \cup {None}]
  /\ calls \in Seq(CallType)
  /\ kept \in SUBSET Wrapper

Nested ==
  /\ \A i \in DOMAIN calls : calls[i].depth <= Len(releasing)
  /\ \A i, j \in DOMAIN calls : i < j => calls[j].depth <= calls[i].depth

(* A value whose code a library has, and that the library must expect to   *)
(* be released before it is closed, is in use only while it is open.       *)
CodeOpen == \A w \in live : code[w] # None => opens[code[w]] > 0 \/ w \in kept

(* While a library is being closed nothing leads to such a value but the   *)
(* releases that the unref began: when they are over it is gone.           *)
Outer(d) == {releasing[j] : j \in {k \in DOMAIN releasing : k > Len(releasing) - d}}
Doomed(c) ==
  c.call = "close" =>
    \A w \in live \ kept :
      code[w] = c.lib => w \notin Reachable(Outer(c.depth) \cup Held)

LoaderInv ==
  /\ inited
  /\ LoaderTypeOK
  /\ Nested
  /\ CodeOpen
  /\ \A i \in DOMAIN calls : Doomed(calls[i])
=============================================================================
