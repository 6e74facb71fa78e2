---------------------- MODULE CompositorRegistry_proofs ----------------------
(***************************************************************************)
(* Proofs about the compositor manager, for any compositors, names,        *)
(* contexts and znodes, whatever fails and whatever is registered.  Only   *)
(* what mg_TerminateCompositor relies on is assumed where it is needed:    *)
(* that the fallback compositor's initialize does not fail.                *)
(***************************************************************************)
EXTENDS CompositorRegistry, WellFoundedInduction, TLAPS

-----------------------------------------------------------------------------
(* The table: the search for a name, and what registration changes.        *)

(* A set of slots that is not empty has a first one.                       *)
LEMMA FirstSlot ==
  ASSUME NEW S \in SUBSET Slot, S # {}
  PROVE  FirstOf(S) \in S /\ \A j \in S : FirstOf(S) <= j
PROOF
  <1> DEFINE R == OpToRel(<, Nat)
  <1>1. Slot \subseteq Nat
    BY RegistryAssumption DEF Slot
  <1>2. IsWellFoundedOn(R, Nat)
    BY NatLessThanWellFounded
  <1>3. \A x, y \in Nat : x < y => <<x, y>> \in R
    BY DEF OpToRel
  <1> HIDE DEF R
  <1>4. PICK i \in S : \A j \in S : <<j, i>> \notin R
    BY <1>1, <1>2, WFMin
  <1>5. \A j \in S : i <= j
    <2> TAKE j \in S
    <2>1. i \in Nat /\ j \in Nat
      BY <1>1
    <2>2. ~(j < i)
      BY <1>3, <1>4, <2>1
    <2> QED
      BY <2>1, <2>2
  <1> QED
    BY <1>5 DEF FirstOf

(* The slots of a table: used ones have a name and operations.             *)
Sound(t) ==
  /\ t \in [Slot -> Entry]
  /\ t[0] = [name |-> FallbackName, ops |-> FallbackOps]
  /\ \A i \in Slot : t[i].name = NULL <=> t[i].ops = NULL

Struct ==
  /\ TypeOK
  /\ Sound(compositors)
  /\ call.op \in {"purge", "terminate"} => call.new \in Ctxt

LEMMA SlotZero == 0 \in Slot /\ FallbackName # NULL /\ FallbackOps # NULL /\ DefaultName # NULL
  BY RegistryAssumption DEF Slot

(* A name that is in the table is found, with operations of the table.     *)
LEMMA FoundInTable ==
  ASSUME NEW t, Sound(t), NEW name, name # NULL
  PROVE  \/ Found(t, name) = NULL /\ SlotsNamed(t, name) = {}
         \/ /\ Found(t, name) \in Ops
            /\ \E i \in Slot : t[i].ops = Found(t, name)
PROOF
  <1>1. CASE SlotsNamed(t, name) = {}
    BY <1>1 DEF Found
  <1>2. CASE SlotsNamed(t, name) # {}
    <2>1. SlotsNamed(t, name) \in SUBSET Slot
      BY DEF SlotsNamed
    <2>2. PICK i \in SlotsNamed(t, name) : i = FirstOf(SlotsNamed(t, name))
      BY <1>2, <2>1, FirstSlot
    <2>3. i \in Slot /\ t[i].name # NULL
      BY <2>2 DEF SlotsNamed
    <2>4. t[i].ops \in Ops
      BY <2>3 DEF Sound, Entry
    <2> QED
      BY <1>2, <2>2, <2>3, <2>4 DEF Found
  <1> QED
    BY <1>1, <1>2

(* The fallback compositor is found in the first slot.                     *)
LEMMA FallbackFound ==
  ASSUME NEW t, Sound(t)
  PROVE  Found(t, FallbackName) = FallbackOps
PROOF
  <1>1. 0 \in SlotsNamed(t, FallbackName) /\ SlotsNamed(t, FallbackName) \in SUBSET Slot
    BY SlotZero DEF Sound, SlotsNamed
  <1>2. PICK i \in Slot : i = FirstOf(SlotsNamed(t, FallbackName)) /\ i <= 0
    BY <1>1, FirstSlot
  <1>3. i = 0
    BY <1>2, RegistryAssumption DEF Slot
  <1> QED
    BY <1>1, <1>2, <1>3 DEF Found, Sound

(* Registration fills a free slot.                                         *)
LEMMA RegisteredFills ==
  ASSUME Sound(compositors), FreeSlots # {}, NEW name \in Name, NEW ops \in Ops
  PROVE  \E k \in Slot :
           /\ compositors[k] = NoEntry /\ k # 0
           /\ Registered(name, ops) = [compositors EXCEPT ![k] = [name |-> Stored(name), ops |-> ops]]
PROOF
  <1>1. FreeSlots \in SUBSET Slot
    BY DEF FreeSlots, SlotsNamed
  <1>2. PICK k \in FreeSlots : k = FirstOf(FreeSlots)
    BY <1>1, FirstSlot
  <1>3. k \in Slot /\ compositors[k].name = NULL
    BY <1>2 DEF FreeSlots, SlotsNamed
  <1>4. compositors[k] = NoEntry
    BY <1>3 DEF Sound, Entry, NoEntry
  <1>5. k # 0
    BY <1>3, SlotZero DEF Sound
  <1> QED
    BY <1>2, <1>3, <1>4, <1>5 DEF Registered

LEMMA FillKeepsSound ==
  ASSUME NEW t, Sound(t), NEW k \in Slot, k # 0, NEW name \in Name, NEW ops \in Ops
  PROVE  Sound([t EXCEPT ![k] = [name |-> Stored(name), ops |-> ops]])
PROOF
  <1>1. [name |-> Stored(name), ops |-> ops] \in Entry
    BY DEF Entry
  <1>2. Stored(name) # NULL /\ ops # NULL
    BY RegistryAssumption
  <1> QED
    BY <1>1, <1>2, SlotZero DEF Sound

LEMMA FreeKeepsSound ==
  ASSUME NEW t, Sound(t), NEW k \in Slot, k # 0
  PROVE  Sound([t EXCEPT ![k] = NoEntry])
PROOF
  <1>1. NoEntry \in Entry /\ NoEntry.name = NULL /\ NoEntry.ops = NULL
    BY DEF NoEntry, Entry
  <1> QED
    BY <1>1, SlotZero DEF Sound

(* What unregistration frees.                                              *)
LEMMA UnregisterFrees ==
  ASSUME Sound(compositors), NEW name \in Name, Unregister(name)
  PROVE  \E k \in Slot :
           /\ k # 0 /\ compositors[k].ops # curr_ops
           /\ compositors' = [compositors EXCEPT ![k] = NoEntry]
PROOF
  <1>1. SlotsNamed(compositors, name) \in SUBSET Slot /\ SlotsNamed(compositors, name) # {}
    BY DEF SlotsNamed, Unregister
  <1>2. PICK k \in SlotsNamed(compositors, name) : k = FirstOf(SlotsNamed(compositors, name))
    BY <1>1, FirstSlot
  <1>3. k \in Slot /\ compositors[k].name = name /\ name # FallbackName
    BY <1>2 DEF SlotsNamed, Unregister, Protected
  <1>4. k # 0
    BY <1>3 DEF Sound
  <1> QED
    BY <1>2, <1>3, <1>4 DEF Unregister, Refused

-----------------------------------------------------------------------------
(* Types, and the place of the fallback compositor.                        *)
CallSet == [op : CallOp, ops : Ops \cup {NULL}, ctxt : Ctxt \cup {NULL}, new : Ctxt \cup {NULL}]

LEMMA CallFields ==
  ASSUME NEW op \in CallOp, NEW ops \in Ops \cup {NULL},
         NEW ctxt \in Ctxt \cup {NULL}, NEW new \in Ctxt \cup {NULL}
  PROVE  /\ Call(op, ops, ctxt, new) \in CallSet
         /\ Call(op, ops, ctxt, new).op = op
  BY DEF Call, CallSet

LEMMA CallOps ==
  /\ "none" \in CallOp /\ "initialize" \in CallOp /\ "purge" \in CallOp
  /\ "terminate" \in CallOp /\ "on_showing" \in CallOp
  /\ "last purge" \in CallOp /\ "last terminate" \in CallOp
  BY DEF CallOp

LEMMA NoCallFields == NoCall \in CallSet /\ NoCall.op = "none" /\ NoCall.ctxt = NULL
  BY DEF NoCall, CallSet, CallOp

LEMMA StructInit == Init => Struct
PROOF
  <1> SUFFICES ASSUME Init PROVE Struct
    OBVIOUS
  <1>1. Stored(FallbackName) = FallbackName /\ FallbackName \in Name
    BY RegistryAssumption
  <1>2. [name |-> FallbackName, ops |-> FallbackOps] \in Entry /\ NoEntry \in Entry
    BY <1>1, RegistryAssumption DEF Entry, NoEntry
  <1>3. compositors \in [Slot -> Entry] /\ Sound(compositors)
    BY <1>2, SlotZero DEF Init, Sound, NoEntry
  <1>4. call \in CallSet /\ call.op = "none"
    BY NoCallFields DEF Init
  <1> QED
    BY <1>3, <1>4 DEF Init, Struct, TypeOK, CallSet

LEMMA AfterSelectTyped ==
  ASSUME NEW ctxt \in Ctxt \cup {NULL}
  PROVE  AfterSelect(ctxt) \in CallSet /\ AfterSelect(ctxt).op \notin {"purge", "terminate"}
PROOF
  <1>1. \/ AfterSelect(ctxt) = Call("last purge", FallbackOps, ctxt, NULL)
        \/ AfterSelect(ctxt) = NoCall
    BY DEF AfterSelect
  <1>2. FallbackOps \in Ops
    BY RegistryAssumption
  <1>3. /\ Call("last purge", FallbackOps, ctxt, NULL) \in CallSet
        /\ Call("last purge", FallbackOps, ctxt, NULL).op = "last purge"
    BY <1>2, CallFields, CallOps
  <1> QED
    BY <1>1, <1>3, NoCallFields

(* What a step that leaves the table alone has to keep.                    *)
LEMMA StructKept ==
  ASSUME Struct, compositors' = compositors,
         curr_ops' \in Ops \cup {NULL}, curr_ctxt' \in Ctxt \cup {NULL},
         owner' \in [Ctxt -> Ops \cup {NULL}], visible' \in SUBSET Node,
         priv_data' \in [Node -> Datum \cup {NULL}], topmost' \in Layer,
         dl_handle' \in {"none", "open", "closed"}, phase' \in {"new", "up", "down"},
         call' \in CallSet, call'.op \in {"purge", "terminate"} => call'.new \in Ctxt
  PROVE  Struct'
PROOF
  <1>1. Sound(compositors)'
    BY DEF Struct, Sound
  <1> QED
    BY <1>1 DEF Struct, TypeOK, CallSet

LEMMA AttachedIsDatum ==
  ASSUME NEW ops \in Ops \cup {NULL}, NEW ctxt \in Ctxt \cup {NULL}
  PROVE  Attached(ops, ctxt) \in Datum
  BY DEF Attached, Datum

LEMMA StructNext == Struct /\ [Next]_vars => Struct'
PROOF
  <1> SUFFICES ASSUME Struct, [Next]_vars PROVE Struct'
    OBVIOUS
  <1> USE DEF Struct, TypeOK
  <1>1. ASSUME NEW name \in Name, NEW ops \in Ops, Register(name, ops) PROVE Struct'
    <2>1. FreeSlots # {} /\ compositors' = Registered(name, ops)
      BY <1>1 DEF Register
    <2>2. PICK k \in Slot : k # 0 /\ compositors' = [compositors EXCEPT ![k] = [name |-> Stored(name), ops |-> ops]]
      BY <2>1, RegisteredFills
    <2>3. Sound(compositors)'
      BY <2>2, FillKeepsSound DEF Sound
    <2> QED
      BY <1>1, <2>3 DEF Register, Sound
  <1>2. ASSUME NEW name \in Name, Unregister(name) PROVE Struct'
    <2>1. PICK k \in Slot : k # 0 /\ compositors' = [compositors EXCEPT ![k] = NoEntry]
      BY <1>2, UnregisterFrees
    <2>2. Sound(compositors)'
      BY <2>1, FreeKeepsSound DEF Sound
    <2> QED
      BY <1>2, <2>2 DEF Unregister, Sound
  <1>3. ASSUME NEW name \in Name, Select(name) PROVE Struct'
    <2>1. Lookup(name) \in Ops
      <3>1. name # NULL /\ Lookup(name) # NULL
        BY <1>3, RegistryAssumption DEF Select
      <3> QED
        BY <3>1, FoundInTable DEF Lookup
    <2>2. call' = Call("initialize", Lookup(name), NULL, NULL)
      BY <1>3 DEF Select
    <2>3. call' \in CallSet /\ call'.op = "initialize"
      <3>1. call' \in CallSet
        BY ONLY <2>1, <2>2, CallFields, CallOps
      <3>2. call'.op = "initialize"
        BY ONLY <2>2 DEF Call
      <3> QED
        BY ONLY <3>1, <3>2
    <2> QED
      BY <1>3, <2>3, StructKept DEF Select
  <1>4. ASSUME NEW outcome \in LoadOutcome, InitCompositor(outcome) PROVE Struct'
    <2>1. Sound(compositors)'
      <3>1. CASE outcome \in Ops /\ FreeSlots # {}
        <4>1. compositors' = Registered(DefaultName, outcome)
          BY <1>4, <3>1 DEF InitCompositor
        <4>2. PICK k \in Slot : k # 0 /\ compositors' = [compositors EXCEPT ![k] = [name |-> Stored(DefaultName), ops |-> outcome]]
          BY <3>1, <4>1, RegisteredFills, RegistryAssumption
        <4> QED
          BY <3>1, <4>2, FillKeepsSound, RegistryAssumption DEF Sound
      <3>2. CASE ~(outcome \in Ops /\ FreeSlots # {})
        BY <1>4, <3>2 DEF InitCompositor, Sound
      <3> QED
        BY <3>1, <3>2
    <2>2. PICK name \in {DefaultName, FallbackName} :
            call' = Call("initialize", Found(compositors', name), NULL, NULL)
      BY <1>4 DEF InitCompositor
    <2>3. Found(compositors', name) \in Ops \cup {NULL}
      BY <2>1, <2>2, FoundInTable, SlotZero DEF Sound
    <2>4. dl_handle' \in {"none", "open", "closed"} /\ phase' = "up"
      BY <1>4 DEF InitCompositor, Handle
    <2>5. call' \in CallSet /\ call'.op = "initialize"
      <3>1. call' \in CallSet
        BY ONLY <2>2, <2>3, CallFields, CallOps
      <3>2. call'.op = "initialize"
        BY ONLY <2>2 DEF Call
      <3> QED
        BY ONLY <3>1, <3>2
    <2>6. compositors' \in [Slot -> Entry]
      BY <2>1 DEF Sound
    <2> QED
      BY <1>4, <2>1, <2>4, <2>5, <2>6 DEF InitCompositor, CallSet
  <1>5. ASSUME Terminate PROVE Struct'
    <2>1. Lookup(FallbackName) = FallbackOps /\ FallbackOps \in Ops
      BY FallbackFound, RegistryAssumption DEF Lookup
    <2>2. \/ call' = Call("initialize", FallbackOps, NULL, NULL)
          \/ call' = Call("last purge", FallbackOps, curr_ctxt, NULL)
      BY <1>5, <2>1 DEF Terminate
    <2>3. call' \in CallSet /\ call'.op \in {"initialize", "last purge"}
      <3>1. curr_ctxt \in Ctxt \cup {NULL}
        OBVIOUS
      <3>2. Call("initialize", FallbackOps, NULL, NULL) \in CallSet
        BY ONLY <2>1, CallFields, CallOps
      <3>3. Call("last purge", FallbackOps, curr_ctxt, NULL) \in CallSet
        BY ONLY <2>1, <3>1, CallFields, CallOps
      <3>4. /\ Call("initialize", FallbackOps, NULL, NULL).op = "initialize"
            /\ Call("last purge", FallbackOps, curr_ctxt, NULL).op = "last purge"
        BY DEF Call
      <3> QED
        BY ONLY <2>2, <3>2, <3>3, <3>4
    <2> QED
      BY <1>5, <2>3, StructKept DEF Terminate
  <1>6. ASSUME InitializeFails PROVE Struct'
    <2>1. call' \in CallSet /\ call'.op \notin {"purge", "terminate"}
      BY <1>6, AfterSelectTyped DEF InitializeFails
    <2> QED
      BY <1>6, <2>1, StructKept DEF InitializeFails
  <1>7. ASSUME NEW c \in Ctxt, Initialize(c) PROVE Struct'
    <2>1. call.ops \in Ops \cup {NULL}
      OBVIOUS
    <2>2. \/ call' = Call("purge", curr_ops, curr_ctxt, c)
          \/ call' = Call("on_showing", call.ops, c, NULL)
      BY <1>7 DEF Initialize, NextAfterInitialize
    <2>3. call' \in CallSet /\ (call'.op = "purge" \/ call'.op = "on_showing")
      <3>1. curr_ops \in Ops \cup {NULL} /\ curr_ctxt \in Ctxt \cup {NULL}
        OBVIOUS
      <3>2. call' \in CallSet
        <4>1. Call("purge", curr_ops, curr_ctxt, c) \in CallSet
          BY ONLY <1>7, <3>1, CallFields, CallOps
        <4>2. Call("on_showing", call.ops, c, NULL) \in CallSet
          BY ONLY <1>7, <2>1, CallFields, CallOps
        <4> QED
          BY ONLY <2>2, <4>1, <4>2
      <3>3. call'.op = "purge" \/ call'.op = "on_showing"
        BY ONLY <2>2 DEF Call
      <3> QED
        BY ONLY <3>2, <3>3
    <2>5. call'.op = "purge" => call'.new = c
      <3>1. call' = Call("on_showing", call.ops, c, NULL) => call'.op = "on_showing"
        BY DEF Call
      <3> QED
        BY <2>2, <3>1 DEF Call
    <2>4. /\ curr_ops' \in Ops \cup {NULL} /\ curr_ctxt' \in Ctxt \cup {NULL}
          /\ owner' \in [Ctxt -> Ops \cup {NULL}]
      BY <1>7, <2>1 DEF Initialize
    <2> QED
      BY <1>7, <2>3, <2>4, <2>5, StructKept DEF Initialize
  <1>8. ASSUME Purge PROVE Struct'
    <2>1. call' = Call("terminate", call.ops, call.ctxt, call.new) /\ call.new \in Ctxt
      BY <1>8 DEF Purge
    <2>2. priv_data' \in [Node -> Datum \cup {NULL}]
      BY <1>8 DEF Purge, Purged
    <2>3. call' \in CallSet /\ call'.op = "terminate"
      <3>1. call.ops \in Ops \cup {NULL} /\ call.ctxt \in Ctxt \cup {NULL}
        OBVIOUS
      <3>2. call' \in CallSet
        BY ONLY <2>1, <3>1, CallFields, CallOps
      <3>3. call'.op = "terminate"
        BY ONLY <2>1 DEF Call
      <3> QED
        BY ONLY <3>2, <3>3
    <2> QED
      BY <1>8, <2>1, <2>2, <2>3, StructKept DEF Purge, Call
  <1>9. ASSUME Replace PROVE Struct'
    <2>1. call.new \in Ctxt /\ owner[call.new] \in Ops \cup {NULL}
      BY <1>9 DEF Replace
    <2>2. owner' \in [Ctxt -> Ops \cup {NULL}]
      BY <1>9 DEF Replace, Closed
    <2>3. call' \in CallSet /\ call'.op = "on_showing"
      <3>1. call' = Call("on_showing", owner[call.new], call.new, NULL)
        BY <1>9 DEF Replace, OpsOf
      <3>2. call' \in CallSet
        BY ONLY <2>1, <3>1, CallFields, CallOps
      <3>3. call'.op = "on_showing"
        BY ONLY <3>1 DEF Call
      <3> QED
        BY ONLY <3>2, <3>3
    <2>4. curr_ops' \in Ops \cup {NULL} /\ curr_ctxt' \in Ctxt \cup {NULL}
      BY <1>9, <2>1 DEF Replace, OpsOf
    <2> QED
      BY <1>9, <2>2, <2>3, <2>4, StructKept DEF Replace
  <1>10. ASSUME NEW S \in SUBSET Node, Rebuild(S) PROVE Struct'
    <2>1. priv_data' \in [Node -> Datum \cup {NULL}]
      <3>1. Attached(call.ops, call.ctxt) \in Datum
        BY AttachedIsDatum
      <3> QED
        BY <1>10, <3>1 DEF Rebuild
    <2>2. call' \in CallSet /\ call'.op \notin {"purge", "terminate"}
      BY <1>10, AfterSelectTyped DEF Rebuild
    <2> QED
      BY <1>10, <2>1, <2>2, StructKept DEF Rebuild
  <1>11. ASSUME LastPurge PROVE Struct'
    <2>1. priv_data' \in [Node -> Datum \cup {NULL}]
      BY <1>11 DEF LastPurge, Purged
    <2>2. call' \in CallSet /\ call'.op = "last terminate"
      <3>1. call.ops \in Ops \cup {NULL} /\ call.ctxt \in Ctxt \cup {NULL}
        OBVIOUS
      <3>2. call' = Call("last terminate", call.ops, call.ctxt, NULL)
        BY <1>11 DEF LastPurge
      <3>3. call' \in CallSet
        BY ONLY <3>1, <3>2, CallFields, CallOps
      <3>4. call'.op = "last terminate"
        BY ONLY <3>2 DEF Call
      <3> QED
        BY ONLY <3>3, <3>4
    <2> QED
      BY <1>11, <2>1, <2>2, StructKept DEF LastPurge
  <1>12. ASSUME LastTerminate PROVE Struct'
    <2>1. call' \in CallSet /\ call'.op = "none"
      BY <1>12, NoCallFields DEF LastTerminate
    <2>2. owner' \in [Ctxt -> Ops \cup {NULL}]
      BY <1>12 DEF LastTerminate, Closed
    <2> QED
      BY <1>12, <2>1, <2>2, StructKept DEF LastTerminate
  <1>13. ASSUME NEW n \in Node, Show(n) PROVE Struct'
    <2>1. priv_data' \in [Node -> Datum \cup {NULL}] /\ visible' \in SUBSET Node
      <3>1. Attached(curr_ops, curr_ctxt) \in Datum
        BY AttachedIsDatum
      <3> QED
        BY <1>13, <3>1 DEF Show
    <2> QED
      BY <1>13, <2>1, StructKept DEF Show, CallSet
  <1>14. ASSUME NEW n \in Node, Hide(n) PROVE Struct'
    <2>1. priv_data' \in [Node -> Datum \cup {NULL}] /\ visible' \in SUBSET Node
      BY <1>14 DEF Hide
    <2> QED
      BY <1>14, <2>1, StructKept DEF Hide, CallSet
  <1>15. ASSUME NEW layer \in Layer, SetTopmost(layer) PROVE Struct'
    BY <1>15, StructKept DEF SetTopmost, CallSet
  <1>16. ASSUME UNCHANGED vars PROVE Struct'
    BY <1>16 DEF vars, Sound
  <1> QED
    BY <1>1, <1>2, <1>3, <1>4, <1>5, <1>6, <1>7, <1>8, <1>9, <1>10, <1>11,
       <1>12, <1>13, <1>14, <1>15, <1>16 DEF Next

LEMMA StructHolds == Spec => []Struct
  BY StructInit, StructNext, PTL DEF Spec

(* The variables keep their types; the table holds only names that were    *)
(* cut to LEN_COMPOSITOR_NAME.                                             *)
THEOREM RegistryTypes == Spec => []TypeOK
PROOF
  <1>1. Struct => TypeOK
    BY DEF Struct
  <1> QED
    BY <1>1, StructHolds, PTL

(* No registration or unregistration takes the name "fallback" away from   *)
(* the built-in compositor.                                                *)
THEOREM FallbackIsFound == Spec => []FallbackStays
PROOF
  <1>1. Struct => FallbackStays
    BY FallbackFound DEF Struct, FallbackStays, Lookup
  <1> QED
    BY <1>1, StructHolds, PTL

-----------------------------------------------------------------------------
(* The selection: what is live, attached and registered at every callback. *)

(* What mg_TerminateCompositor relies on: the fallback's initialize works. *)
Reliable == FallbackOps \notin Unreliable

(* A compositor whose operations are in the table.                         *)
InTable(ops) == \E i \in Slot : compositors[i].ops = ops

(* Nothing is selected, or one compositor with its own live context.       *)
OnlyLive(c) == \A d \in Ctxt : owner[d] # NULL <=> d = c
NoneLive == curr_ops = NULL /\ curr_ctxt = NULL /\ \A d \in Ctxt : owner[d] = NULL
OneLive ==
  /\ curr_ops \in Ops /\ curr_ctxt \in Ctxt
  /\ owner[curr_ctxt] = curr_ops
  /\ OnlyLive(curr_ctxt)

NoData(c) == \A n \in Reached : priv_data[n] # Attached(owner[c], c)

AtRest ==
  /\ call = NoCall
  /\ phase = "new" => NoneLive
  /\ phase = "up" => OneLive
  /\ phase = "down" => \A d \in Ctxt : owner[d] = NULL

AtInitialize ==
  /\ call.op = "initialize" /\ phase # "new"
  /\ call.ops \in Ops /\ InTable(call.ops) /\ call.ctxt = NULL /\ call.new = NULL
  /\ NoneLive \/ OneLive
  /\ phase = "down" => OneLive /\ call.ops = FallbackOps

(* While the old compositor is purged and terminated the new one's context *)
(* is live already.                                                        *)
AtReplace ==
  /\ call.op \in {"purge", "terminate"} /\ phase # "new"
  /\ curr_ops \in Ops /\ curr_ctxt \in Ctxt /\ owner[curr_ctxt] = curr_ops
  /\ call.ops = curr_ops /\ call.ctxt = curr_ctxt
  /\ call.new \in Ctxt /\ call.new # curr_ctxt
  /\ owner[call.new] \in Ops /\ InTable(owner[call.new])
  /\ \A d \in Ctxt : owner[d] # NULL <=> d \in {curr_ctxt, call.new}
  /\ phase = "down" => owner[call.new] = FallbackOps
  /\ call.op = "terminate" => NoData(curr_ctxt)

AtShowing ==
  /\ call.op = "on_showing" /\ phase # "new"
  /\ OneLive /\ call.ops = curr_ops /\ call.ctxt = curr_ctxt /\ call.new = NULL
  /\ phase = "down" => curr_ops = FallbackOps

AtEnd ==
  /\ call.op \in {"last purge", "last terminate"} /\ phase = "down"
  /\ OneLive /\ curr_ops = FallbackOps
  /\ call.ops = curr_ops /\ call.ctxt = curr_ctxt /\ call.new = NULL
  /\ call.op = "last terminate" => NoData(curr_ctxt)

CallOK == AtRest \/ AtInitialize \/ AtReplace \/ AtShowing \/ AtEnd

(* Data is on znodes of the kinds its compositor purges.                   *)
DataOK ==
  \A n \in Node : priv_data[n] # NULL =>
    priv_data[n].ops \in Ops /\ Kind(n) \in Purges[priv_data[n].ops]

Selection == CurrentRegistered /\ CallOK /\ DataOK

LEMMA WhichCall ==
  ASSUME CallOK
  PROVE  /\ call = NoCall => AtRest
         /\ call.op = "initialize" => AtInitialize
         /\ call.op \in {"purge", "terminate"} => AtReplace
         /\ call.op = "on_showing" => AtShowing
         /\ call.op \in {"last purge", "last terminate"} => AtEnd
PROOF
  <1>1. call = NoCall => call.op = "none"
    BY DEF NoCall
  <1>2. AtRest => call.op = "none"
    BY <1>1 DEF AtRest
  <1>3. AtInitialize => call.op = "initialize"
    BY DEF AtInitialize
  <1>4. AtReplace => call.op \in {"purge", "terminate"}
    BY DEF AtReplace
  <1>5. AtShowing => call.op = "on_showing"
    BY DEF AtShowing
  <1>6. AtEnd => call.op \in {"last purge", "last terminate"}
    BY DEF AtEnd
  <1> QED
    BY <1>1, <1>2, <1>3, <1>4, <1>5, <1>6 DEF CallOK

LEMMA Fields ==
  ASSUME NEW op, NEW ops, NEW ctxt, NEW new, NEW c, c = Call(op, ops, ctxt, new)
  PROVE  c.ops = ops /\ c.ctxt = ctxt /\ c.new = new
  BY DEF Call

LEMMA SelectionInit == Init => Selection
PROOF
  <1> SUFFICES ASSUME Init PROVE Selection
    OBVIOUS
  <1>1. AtRest
    BY DEF Init, AtRest, NoneLive
  <1>2. CurrentRegistered /\ DataOK
    BY DEF Init, CurrentRegistered, DataOK
  <1> QED
    BY <1>1, <1>2 DEF Selection, CallOK

(* Steps that leave the compositors and their contexts alone.              *)
LEMMA RestKept ==
  ASSUME AtRest, UNCHANGED <<call, phase, curr_ops, curr_ctxt, owner>>
  PROVE  AtRest'
  BY DEF AtRest, NoneLive, OneLive, OnlyLive

LEMMA OneKept ==
  ASSUME OneLive, UNCHANGED <<curr_ops, curr_ctxt, owner>>
  PROVE  OneLive'
  BY DEF OneLive, OnlyLive

LEMMA RegisteredKept ==
  ASSUME CurrentRegistered, UNCHANGED <<compositors, curr_ops>>
  PROVE  CurrentRegistered'
  BY DEF CurrentRegistered

LEMMA DataKept ==
  ASSUME DataOK, UNCHANGED priv_data
  PROVE  DataOK'
  BY DEF DataOK

LEMMA OneIsSome ==
  ASSUME OneLive
  PROVE  curr_ops # NULL /\ curr_ctxt # NULL /\ ~NoneLive
  BY RegistryAssumption DEF OneLive, NoneLive

(* Changes of the table.                                                   *)
LEMMA KeepsRegister ==
  ASSUME Struct, Selection, NEW name \in Name, NEW ops \in Ops, Register(name, ops)
  PROVE  Selection'
PROOF
  <1>1. AtRest'
    BY WhichCall, RestKept DEF Register, Selection
  <1>2. DataOK'
    BY DataKept DEF Register, Selection
  <1>3. CurrentRegistered'
    <2>1. Sound(compositors) /\ FreeSlots # {} /\ compositors' = Registered(name, ops)
      BY DEF Register, Struct
    <2>2. PICK k \in Slot :
            /\ compositors[k] = NoEntry
            /\ compositors' = [compositors EXCEPT ![k] = [name |-> Stored(name), ops |-> ops]]
      BY <2>1, RegisteredFills
    <2>3. ASSUME curr_ops # NULL PROVE \E i \in Slot : compositors'[i].ops = curr_ops
      <3>1. PICK i \in Slot : compositors[i].ops = curr_ops
        BY <2>3 DEF Selection, CurrentRegistered
      <3>2. i # k
        BY <2>2, <2>3, <3>1 DEF NoEntry
      <3>3. compositors'[i] = compositors[i]
        BY <2>1, <2>2, <3>2 DEF Sound
      <3> QED
        BY <3>1, <3>3
    <2> QED
      BY <2>3 DEF CurrentRegistered, Register
  <1> QED
    BY <1>1, <1>2, <1>3 DEF Selection, CallOK

LEMMA KeepsUnregister ==
  ASSUME Struct, Selection, NEW name \in Name, Unregister(name)
  PROVE  Selection'
PROOF
  <1>1. AtRest'
    BY WhichCall, RestKept DEF Unregister, Selection
  <1>2. DataOK'
    BY DataKept DEF Unregister, Selection
  <1>3. CurrentRegistered'
    <2>1. Sound(compositors)
      BY DEF Struct
    <2>2. PICK k \in Slot : /\ compositors[k].ops # curr_ops
                            /\ compositors' = [compositors EXCEPT ![k] = NoEntry]
      BY <2>1, UnregisterFrees
    <2>3. ASSUME NEW i \in Slot, compositors[i].ops = curr_ops
          PROVE  compositors'[i].ops = curr_ops
      BY <2>1, <2>2, <2>3 DEF Sound
    <2>4. curr_ops' = curr_ops
      BY DEF Unregister
    <2> QED
      BY <2>3, <2>4 DEF Selection, CurrentRegistered
  <1> QED
    BY <1>1, <1>2, <1>3 DEF Selection, CallOK

LEMMA KeepsInit ==
  ASSUME Struct, Struct', Selection, NEW outcome \in LoadOutcome, InitCompositor(outcome)
  PROVE  Selection'
PROOF
  <1>1. NoneLive
    BY WhichCall DEF InitCompositor, Selection, AtRest
  <1>2. UNCHANGED <<curr_ops, curr_ctxt, owner, priv_data>> /\ phase' = "up"
    BY DEF InitCompositor
  <1>3. NoneLive' /\ CurrentRegistered'
    BY <1>1, <1>2 DEF NoneLive, CurrentRegistered
  <1>4. DataOK'
    BY <1>2, DataKept DEF Selection
  <1>5. PICK name \in {DefaultName, FallbackName} :
          /\ call' = Call("initialize", Found(compositors', name), NULL, NULL)
          /\ SlotsNamed(compositors', name) # {}
    <2>1. CASE outcome \in Ops /\ FreeSlots # {}
      <3>1. /\ compositors' = Registered(DefaultName, outcome)
            /\ call' = Call("initialize", Found(compositors', DefaultName), NULL, NULL)
        BY <2>1 DEF InitCompositor
      <3>2. Sound(compositors) /\ DefaultName \in Name /\ Stored(DefaultName) = DefaultName
        BY RegistryAssumption DEF Struct
      <3>3. PICK k \in Slot :
              compositors' = [compositors EXCEPT ![k] = [name |-> DefaultName, ops |-> outcome]]
        BY <2>1, <3>1, <3>2, RegisteredFills
      <3>4. k \in SlotsNamed(compositors', DefaultName)
        BY <3>2, <3>3 DEF Sound, SlotsNamed
      <3> QED
        BY <3>1, <3>4
    <2>2. CASE ~(outcome \in Ops /\ FreeSlots # {})
      <3>1. call' = Call("initialize", Found(compositors', FallbackName), NULL, NULL)
        BY <2>2 DEF InitCompositor
      <3>2. Sound(compositors')
        BY DEF Struct, Sound
      <3>3. 0 \in SlotsNamed(compositors', FallbackName)
        BY <3>2, SlotZero DEF Sound, SlotsNamed
      <3> QED
        BY <3>1, <3>3
    <2> QED
      BY <2>1, <2>2
  <1>6. Found(compositors', name) \in Ops /\ \E i \in Slot : compositors'[i].ops = Found(compositors', name)
    <2>1. Sound(compositors') /\ name # NULL
      BY SlotZero DEF Struct, Sound
    <2> QED
      BY <1>5, <2>1, FoundInTable
  <1>7. /\ call'.op = "initialize" /\ call'.ops = Found(compositors', name)
        /\ call'.ctxt = NULL /\ call'.new = NULL
    BY ONLY <1>5 DEF Call
  <1>8. AtInitialize'
    BY <1>2, <1>3, <1>6, <1>7 DEF AtInitialize, InTable
  <1> QED
    BY <1>3, <1>4, <1>8 DEF Selection, CallOK

(* The selection, callback by callback.                                    *)
LEMMA KeepsSelect ==
  ASSUME Struct, Selection, NEW name \in Name, Select(name)
  PROVE  Selection'
PROOF
  <1>1. AtRest /\ phase = "up" /\ phase' = "up" /\ OneLive
    BY WhichCall DEF Select, Selection, AtRest
  <1>2. OneLive' /\ CurrentRegistered' /\ DataOK'
    BY <1>1, OneKept, RegisteredKept, DataKept DEF Select, Selection
  <1>3. call' = Call("initialize", Lookup(name), NULL, NULL)
    BY DEF Select
  <1>4. Lookup(name) \in Ops /\ \E i \in Slot : compositors[i].ops = Lookup(name)
    <2>1. name # NULL /\ Lookup(name) # NULL /\ Sound(compositors)
      BY RegistryAssumption DEF Select, Struct
    <2> QED
      BY <2>1, FoundInTable DEF Lookup
  <1>5. /\ call'.op = "initialize" /\ call'.ops = Lookup(name)
        /\ call'.ctxt = NULL /\ call'.new = NULL
    BY ONLY <1>3 DEF Call
  <1>6. compositors' = compositors
    BY DEF Select
  <1>7. AtInitialize'
    BY <1>1, <1>2, <1>4, <1>5, <1>6 DEF AtInitialize, InTable
  <1> QED
    BY <1>2, <1>7 DEF Selection, CallOK

LEMMA KeepsTerminate ==
  ASSUME Struct, Selection, Terminate
  PROVE  Selection'
PROOF
  <1>1. AtRest /\ phase' = "down" /\ OneLive
    BY WhichCall DEF Terminate, Selection, AtRest
  <1>2. OneLive' /\ CurrentRegistered' /\ DataOK'
    BY <1>1, OneKept, RegisteredKept, DataKept DEF Terminate, Selection
  <1>3. Lookup(FallbackName) = FallbackOps /\ FallbackOps \in Ops
    BY FallbackFound, RegistryAssumption DEF Lookup, Struct
  <1>4. compositors'[0].ops = FallbackOps /\ UNCHANGED <<curr_ops, curr_ctxt>>
    <2>1. UNCHANGED <<compositors, curr_ops, curr_ctxt>>
      BY DEF Terminate
    <2>2. compositors[0].ops = FallbackOps
      BY DEF Struct, Sound
    <2> QED
      BY <2>1, <2>2
  <1>5. CASE curr_ops # FallbackOps
    <2>1. call' = Call("initialize", FallbackOps, NULL, NULL)
      BY <1>3, <1>5 DEF Terminate
    <2>2. /\ call'.op = "initialize" /\ call'.ops = FallbackOps
          /\ call'.ctxt = NULL /\ call'.new = NULL
      BY ONLY <2>1 DEF Call
    <2>3. AtInitialize'
      BY <1>1, <1>2, <1>3, <1>4, <2>2, SlotZero DEF AtInitialize, InTable
    <2> QED
      BY <1>2, <2>3 DEF Selection, CallOK
  <1>6. CASE curr_ops = FallbackOps
    <2>1. call' = Call("last purge", FallbackOps, curr_ctxt, NULL)
      BY <1>3, <1>6 DEF Terminate
    <2>2. /\ call'.op = "last purge" /\ call'.ops = FallbackOps
          /\ call'.ctxt = curr_ctxt /\ call'.new = NULL
      BY ONLY <2>1 DEF Call
    <2>3. AtEnd'
      BY <1>1, <1>2, <1>4, <1>6, <2>2 DEF AtEnd
    <2> QED
      BY <1>2, <2>3 DEF Selection, CallOK
  <1> QED
    BY <1>5, <1>6

(* The fallback compositor is not among those that fail.                   *)
LEMMA KeepsInitializeFails ==
  ASSUME Struct, Selection, Reliable, InitializeFails
  PROVE  Selection'
PROOF
  <1>1. AtInitialize
    BY WhichCall DEF InitializeFails, Selection
  <1>2. phase = "up"
    BY <1>1 DEF AtInitialize, InitializeFails, Reliable, Struct, TypeOK
  <1>3. CurrentRegistered' /\ DataOK'
    BY RegisteredKept, DataKept DEF InitializeFails, Selection
  <1>4. call' = NoCall
    BY <1>2 DEF InitializeFails, AfterSelect
  <1>5. CASE NoneLive
    <2>1. phase' = "down" /\ \A d \in Ctxt : owner'[d] = NULL
      BY <1>5 DEF InitializeFails, NoneLive
    <2> QED
      BY <1>3, <1>4, <2>1 DEF AtRest, Selection, CallOK
  <1>6. CASE OneLive
    <2>1. phase' = "up" /\ OneLive'
      BY <1>2, <1>6, OneIsSome, OneKept DEF InitializeFails
    <2> QED
      BY <1>3, <1>4, <2>1 DEF AtRest, Selection, CallOK
  <1> QED
    BY <1>1, <1>5, <1>6 DEF AtInitialize

LEMMA KeepsInitialize ==
  ASSUME Struct, Selection, NEW c \in Ctxt, Initialize(c)
  PROVE  Selection'
PROOF
  <1>1. AtInitialize
    BY WhichCall DEF Initialize, Selection
  <1>2. /\ owner \in [Ctxt -> Ops \cup {NULL}] /\ owner[c] = NULL
        /\ owner' = [owner EXCEPT ![c] = call.ops] /\ call.ops \in Ops
        /\ priv_data' = priv_data /\ phase' = phase /\ compositors' = compositors
        /\ priv_data \in [Node -> Datum \cup {NULL}]
    BY <1>1 DEF Initialize, AtInitialize, Struct, TypeOK
  <1>3. DataOK'
    BY <1>2, DataKept DEF Selection
  <1>4. CASE NoneLive
    <2>1. /\ curr_ops' = call.ops /\ curr_ctxt' = c
          /\ call' = Call("on_showing", call.ops, c, NULL)
      BY <1>4 DEF NoneLive, Initialize, NextAfterInitialize
    <2>2. OneLive'
      BY <1>2, <1>4, <2>1, RegistryAssumption DEF OneLive, OnlyLive, NoneLive
    <2>3. /\ call'.op = "on_showing" /\ call'.ops = call.ops
          /\ call'.ctxt = c /\ call'.new = NULL
      BY ONLY <2>1 DEF Call
    <2>4. phase' # "new" /\ phase' # "down"
      BY <1>1, <1>2, <1>4, OneIsSome DEF AtInitialize
    <2>5. AtShowing'
      BY <2>1, <2>2, <2>3, <2>4 DEF AtShowing
    <2>6. CurrentRegistered'
      BY <1>1, <1>2, <2>1 DEF AtInitialize, InTable, CurrentRegistered
    <2> QED
      BY <1>3, <2>5, <2>6 DEF Selection, CallOK
  <1>5. CASE OneLive
    <2>1. UNCHANGED <<curr_ops, curr_ctxt>> /\ call' = Call("purge", curr_ops, curr_ctxt, c)
      BY <1>5, OneIsSome DEF Initialize, NextAfterInitialize
    <2>2. /\ call'.op = "purge" /\ call'.ops = curr_ops
          /\ call'.ctxt = curr_ctxt /\ call'.new = c
      BY ONLY <2>1 DEF Call
    <2>3. curr_ops \in Ops /\ curr_ctxt \in Ctxt /\ owner[curr_ctxt] = curr_ops /\ c # curr_ctxt
      BY <1>2, <1>5, RegistryAssumption DEF OneLive
    <2>4. owner'[curr_ctxt] = curr_ops /\ owner'[c] = call.ops
      BY <1>2, <2>3
    <2>5. \A d \in Ctxt : owner'[d] # NULL <=> d \in {curr_ctxt, c}
      <3> TAKE d \in Ctxt
      <3>1. CASE d = c
        BY <1>2, <2>4, <3>1, RegistryAssumption
      <3>2. CASE d # c
        BY <1>2, <1>5, <3>2 DEF OneLive, OnlyLive
      <3> QED
        BY <3>1, <3>2
    <2>6. phase' # "new" /\ (phase' = "down" => call.ops = FallbackOps)
      BY <1>1, <1>2 DEF AtInitialize
    <2>7. \E i \in Slot : compositors'[i].ops = call.ops
      BY <1>1, <1>2 DEF AtInitialize, InTable
    <2>8. AtReplace'
      BY <1>2, <2>1, <2>2, <2>3, <2>4, <2>5, <2>6, <2>7 DEF AtReplace, InTable
    <2>9. CurrentRegistered'
      BY <1>2, <2>1, RegisteredKept DEF Selection
    <2> QED
      BY <1>3, <2>8, <2>9 DEF Selection, CallOK
  <1> QED
    BY <1>1, <1>4, <1>5 DEF AtInitialize

LEMMA KeepsPurge ==
  ASSUME Struct, Selection, Purge
  PROVE  Selection'
PROOF
  <1>1. AtReplace
    BY WhichCall DEF Purge, Selection
  <1>2. /\ UNCHANGED <<compositors, curr_ops, curr_ctxt, owner, phase, topmost>>
        /\ call' = Call("terminate", call.ops, call.ctxt, call.new)
    BY DEF Purge
  <1>3. /\ call'.op = "terminate" /\ call'.ops = call.ops
        /\ call'.ctxt = call.ctxt /\ call'.new = call.new
    BY ONLY <1>2 DEF Call
  <1>4. \A n \in Node : priv_data'[n] = IF n \in Reached /\ Kind(n) \in Purges[curr_ops]
                                        THEN NULL ELSE priv_data[n]
    BY <1>1 DEF Purge, Purged, AtReplace
  <1>5. NoData(curr_ctxt)'
    <2>1. curr_ctxt \in Ctxt /\ curr_ops \in Ops /\ owner[curr_ctxt] = curr_ops
      BY <1>1, RegistryAssumption DEF AtReplace
    <2>2. Reached' = Reached /\ Reached \subseteq Node
      BY <1>2 DEF Reached, Node
    <2> SUFFICES ASSUME NEW n \in Reached PROVE priv_data'[n] # Attached(curr_ops, curr_ctxt)
      BY <1>2, <2>1, <2>2 DEF NoData
    <2>3. Attached(curr_ops, curr_ctxt) # NULL /\ Attached(curr_ops, curr_ctxt).ops = curr_ops
      BY <2>1, RegistryAssumption DEF Attached
    <2>4. priv_data[n] = Attached(curr_ops, curr_ctxt) => Kind(n) \in Purges[curr_ops]
      BY <2>2, <2>3 DEF Selection, DataOK
    <2> QED
      BY <1>4, <2>2, <2>3, <2>4
  <1>6. DataOK'
    BY <1>2, <1>4 DEF Selection, DataOK
  <1>7. AtReplace'
    BY <1>1, <1>2, <1>3, <1>5 DEF AtReplace, InTable
  <1>8. CurrentRegistered'
    BY <1>2, RegisteredKept DEF Selection
  <1> QED
    BY <1>6, <1>7, <1>8 DEF Selection, CallOK

LEMMA KeepsReplace ==
  ASSUME Struct, Selection, Replace
  PROVE  Selection'
PROOF
  <1>1. AtReplace /\ NoData(curr_ctxt)
    BY WhichCall DEF Replace, Selection, AtReplace
  <1>2. /\ UNCHANGED <<compositors, priv_data, phase>>
        /\ curr_ops' = owner[call.new] /\ curr_ctxt' = call.new
        /\ owner' = [owner EXCEPT ![curr_ctxt] = NULL]
        /\ call' = Call("on_showing", owner[call.new], call.new, NULL)
        /\ owner \in [Ctxt -> Ops \cup {NULL}]
    BY <1>1 DEF Replace, Closed, OpsOf, AtReplace, Struct, TypeOK
  <1>3. /\ call'.op = "on_showing" /\ call'.ops = owner[call.new]
        /\ call'.ctxt = call.new /\ call'.new = NULL
    BY ONLY <1>2 DEF Call
  <1>4. OneLive'
    <2>1. owner'[call.new] = owner[call.new] /\ owner'[call.new] \in Ops /\ call.new \in Ctxt
      BY <1>1, <1>2 DEF AtReplace
    <2>2. \A d \in Ctxt : owner'[d] # NULL <=> d = call.new
      BY <1>1, <1>2 DEF AtReplace
    <2> QED
      BY <1>2, <2>1, <2>2 DEF OneLive, OnlyLive
  <1>5. phase' # "new" /\ (phase' = "down" => curr_ops' = FallbackOps)
    BY <1>1, <1>2 DEF AtReplace
  <1>6. AtShowing'
    BY <1>2, <1>3, <1>4, <1>5 DEF AtShowing
  <1>7. CurrentRegistered'
    BY <1>1, <1>2 DEF AtReplace, InTable, CurrentRegistered
  <1>8. DataOK'
    BY <1>2, DataKept DEF Selection
  <1> QED
    BY <1>6, <1>7, <1>8 DEF Selection, CallOK

LEMMA KeepsRebuild ==
  ASSUME Struct, Selection, NEW S \in SUBSET Node, Rebuild(S)
  PROVE  Selection'
PROOF
  <1>1. AtShowing
    BY WhichCall DEF Rebuild, Selection
  <1>2. /\ UNCHANGED <<compositors, curr_ops, curr_ctxt, owner, phase>>
        /\ call' = AfterSelect(curr_ctxt) /\ curr_ctxt # NULL
        /\ OneLive /\ curr_ctxt \in Ctxt /\ owner[curr_ctxt] = curr_ops
    BY <1>1, OneIsSome DEF Rebuild, AtShowing, OneLive
  <1>3. OneLive' /\ CurrentRegistered'
    BY <1>2, OneKept, RegisteredKept DEF Selection
  <1>4. DataOK'
    <2>1. \A n \in Node : priv_data'[n] = IF n \in S THEN Attached(curr_ops, curr_ctxt)
                                                    ELSE priv_data[n]
      BY <1>1 DEF Rebuild, AtShowing
    <2>2. \A n \in S : Kind(n) \in Purges[curr_ops]
      BY <1>1 DEF Rebuild, AtShowing, Attachable
    <2>3. Attached(curr_ops, curr_ctxt).ops = curr_ops /\ curr_ops \in Ops
      BY <1>2 DEF Attached, OneLive
    <2> QED
      BY <2>1, <2>2, <2>3 DEF Selection, DataOK
  <1>5. CASE phase = "down"
    <2>1. call' = Call("last purge", FallbackOps, curr_ctxt, NULL)
      BY <1>2, <1>5 DEF AfterSelect
    <2>2. /\ call'.op = "last purge" /\ call'.ops = FallbackOps
          /\ call'.ctxt = curr_ctxt /\ call'.new = NULL
      BY ONLY <2>1 DEF Call
    <2>3. curr_ops = FallbackOps
      BY <1>1, <1>5 DEF AtShowing
    <2>4. AtEnd'
      BY <1>2, <1>3, <1>5, <2>2, <2>3 DEF AtEnd
    <2> QED
      BY <1>3, <1>4, <2>4 DEF Selection, CallOK
  <1>6. CASE phase # "down"
    <2>1. call' = NoCall /\ phase' # "down" /\ phase' # "new"
      BY <1>1, <1>2, <1>6 DEF AfterSelect, AtShowing
    <2>2. AtRest'
      BY <1>3, <2>1 DEF AtRest
    <2> QED
      BY <1>3, <1>4, <2>2 DEF Selection, CallOK
  <1> QED
    BY <1>5, <1>6

LEMMA KeepsLastPurge ==
  ASSUME Struct, Selection, LastPurge
  PROVE  Selection'
PROOF
  <1>1. AtEnd
    BY WhichCall DEF LastPurge, Selection
  <1>2. /\ UNCHANGED <<compositors, curr_ops, curr_ctxt, owner, phase, topmost>>
        /\ call' = Call("last terminate", call.ops, call.ctxt, NULL)
    BY DEF LastPurge
  <1>3. /\ call'.op = "last terminate" /\ call'.ops = call.ops
        /\ call'.ctxt = call.ctxt /\ call'.new = NULL
    BY ONLY <1>2 DEF Call
  <1>4. OneLive' /\ CurrentRegistered'
    BY <1>1, <1>2, OneKept, RegisteredKept DEF Selection, AtEnd
  <1>5. \A n \in Node : priv_data'[n] = IF n \in Reached /\ Kind(n) \in Purges[curr_ops]
                                        THEN NULL ELSE priv_data[n]
    BY <1>1 DEF LastPurge, Purged, AtEnd
  <1>6. NoData(curr_ctxt)'
    <2>1. curr_ctxt \in Ctxt /\ curr_ops \in Ops /\ owner[curr_ctxt] = curr_ops
      BY <1>1 DEF AtEnd, OneLive
    <2>2. Reached' = Reached /\ Reached \subseteq Node
      BY <1>2 DEF Reached, Node
    <2> SUFFICES ASSUME NEW n \in Reached PROVE priv_data'[n] # Attached(curr_ops, curr_ctxt)
      BY <1>2, <2>1, <2>2 DEF NoData
    <2>3. Attached(curr_ops, curr_ctxt) # NULL /\ Attached(curr_ops, curr_ctxt).ops = curr_ops
      BY <2>1, RegistryAssumption DEF Attached
    <2>4. priv_data[n] = Attached(curr_ops, curr_ctxt) => Kind(n) \in Purges[curr_ops]
      BY <2>2, <2>3 DEF Selection, DataOK
    <2> QED
      BY <1>5, <2>2, <2>3, <2>4
  <1>7. DataOK'
    BY <1>2, <1>5 DEF Selection, DataOK
  <1>8. AtEnd'
    BY <1>1, <1>2, <1>3, <1>4, <1>6 DEF AtEnd
  <1> QED
    BY <1>4, <1>7, <1>8 DEF Selection, CallOK

LEMMA KeepsLastTerminate ==
  ASSUME Struct, Selection, LastTerminate
  PROVE  Selection'
PROOF
  <1>1. AtEnd /\ NoData(curr_ctxt)
    BY WhichCall DEF LastTerminate, Selection, AtEnd
  <1>2. /\ UNCHANGED <<compositors, curr_ops, curr_ctxt, priv_data, phase>>
        /\ owner' = [owner EXCEPT ![curr_ctxt] = NULL] /\ call' = NoCall
        /\ owner \in [Ctxt -> Ops \cup {NULL}] /\ phase = "down"
    BY <1>1 DEF LastTerminate, Closed, AtEnd, Struct, TypeOK
  <1>3. \A d \in Ctxt : d # curr_ctxt => owner[d] = NULL
    BY <1>1 DEF AtEnd, OneLive, OnlyLive
  <1>4. \A d \in Ctxt : owner'[d] = NULL
    BY <1>2, <1>3
  <1>5. AtRest'
    BY <1>2, <1>4 DEF AtRest
  <1>7. DataOK'
    BY <1>2, DataKept DEF Selection
  <1>8. CurrentRegistered'
    BY <1>2, RegisteredKept DEF Selection
  <1> QED
    BY <1>5, <1>7, <1>8 DEF Selection, CallOK

(* The window manager.                                                     *)
LEMMA KeepsScene ==
  ASSUME Struct, Selection, NEW n \in Node, Show(n) \/ Hide(n)
  PROVE  Selection'
PROOF
  <1>1. /\ UNCHANGED <<compositors, curr_ops, curr_ctxt, owner, phase, call>>
        /\ call = NoCall /\ phase = "up"
    BY DEF Show, Hide
  <1>2. AtRest' /\ OneLive
    BY <1>1, WhichCall, RestKept DEF Selection, AtRest
  <1>3. CurrentRegistered'
    BY <1>1, RegisteredKept DEF Selection
  <1>4. curr_ops \in Ops
    BY <1>2 DEF OneLive
  <1>5. \/ priv_data' = priv_data
        \/ priv_data' = [priv_data EXCEPT ![n] = NULL]
        \/ Kind(n) \in Purges[curr_ops] /\ priv_data' = [priv_data EXCEPT ![n] = Attached(curr_ops, curr_ctxt)]
    BY DEF Show, Hide
  <1>6. DataOK'
    <2> SUFFICES ASSUME NEW m \in Node, priv_data'[m] # NULL
                 PROVE  /\ priv_data'[m].ops \in Ops
                        /\ Kind(m) \in Purges[priv_data'[m].ops]
      BY <1>1 DEF DataOK
    <2>1. priv_data \in [Node -> Datum \cup {NULL}]
      BY DEF Struct, TypeOK
    <2>2. \/ priv_data'[m] = priv_data[m]
          \/ m = n /\ Kind(n) \in Purges[curr_ops] /\ priv_data'[m] = Attached(curr_ops, curr_ctxt)
      BY <1>5, <2>1
    <2>3. Attached(curr_ops, curr_ctxt).ops = curr_ops
      BY DEF Attached
    <2> QED
      BY <1>4, <2>2, <2>3 DEF Selection, DataOK
  <1> QED
    BY <1>2, <1>3, <1>6 DEF Selection, CallOK

LEMMA KeepsTopmost ==
  ASSUME Struct, Selection, NEW layer \in Layer, SetTopmost(layer)
  PROVE  Selection'
PROOF
  <1>1. AtRest'
    BY WhichCall, RestKept DEF SetTopmost, Selection
  <1>2. DataOK' /\ CurrentRegistered'
    BY DataKept, RegisteredKept DEF SetTopmost, Selection
  <1> QED
    BY <1>1, <1>2 DEF Selection, CallOK

LEMMA KeepsStutter ==
  ASSUME Selection, UNCHANGED vars
  PROVE  Selection'
PROOF
  <1>1. CurrentRegistered' /\ DataOK'
    BY RegisteredKept, DataKept DEF Selection, vars
  <1>2. AtRest => AtRest'
    BY RestKept DEF vars
  <1>3. /\ UNCHANGED <<call, phase, compositors, curr_ops, curr_ctxt, owner, priv_data, Reached>>
        /\ (OneLive => OneLive')
    BY OneKept DEF vars, Reached
  <1>4. AtInitialize => AtInitialize'
    BY <1>3 DEF AtInitialize, InTable, NoneLive
  <1>5. AtReplace => AtReplace'
    BY <1>3 DEF AtReplace, InTable, NoData
  <1>6. AtShowing => AtShowing'
    BY <1>3 DEF AtShowing
  <1>7. AtEnd => AtEnd'
    BY <1>3 DEF AtEnd, NoData
  <1> QED
    BY <1>1, <1>2, <1>4, <1>5, <1>6, <1>7 DEF Selection, CallOK

LEMMA SelectionNext ==
  ASSUME Struct, Struct', Selection, Reliable, [Next]_vars
  PROVE  Selection'
  BY KeepsRegister, KeepsUnregister, KeepsSelect, KeepsInit, KeepsTerminate,
     KeepsInitializeFails, KeepsInitialize, KeepsPurge, KeepsReplace, KeepsRebuild,
     KeepsLastPurge, KeepsLastTerminate, KeepsScene, KeepsTopmost, KeepsStutter DEF Next

LEMMA SelectionHolds ==
  ASSUME Reliable
  PROVE  Spec => []Selection
PROOF
  <1>1. Struct /\ Struct' /\ Selection /\ [Next]_vars => Selection'
    BY SelectionNext
  <1> QED
    BY <1>1, SelectionInit, StructHolds, PTL DEF Spec

-----------------------------------------------------------------------------
(* Every callback but initialize gets a live context that the compositor's *)
(* own initialize made (ServerSelectCompositor, mg_TerminateCompositor).   *)
THEOREM CallbacksGetTheirs ==
  ASSUME Reliable
  PROVE  Spec => []OwnContext
PROOF
  <1>1. Struct /\ Selection => OwnContext
    <2> SUFFICES ASSUME Struct, Selection, call.op \notin {"none", "initialize"}
                 PROVE  call.ctxt # NULL /\ owner[call.ctxt] = call.ops
      BY DEF OwnContext
    <2>1. \A o \in Ctxt : o # NULL
      BY RegistryAssumption
    <2>2. AtRest => call.op = "none"
      BY DEF AtRest, NoCall
    <2>3. AtReplace \/ AtShowing \/ AtEnd
      BY <2>2 DEF Selection, CallOK, AtInitialize
    <2> QED
      BY <2>1, <2>3 DEF AtReplace, AtShowing, AtEnd, OneLive
  <1> QED
    BY <1>1, StructHolds, SelectionHolds, PTL

(* Between two operations the current compositor's context is live, and no *)
(* other; none before the first selection and after the end.               *)
THEOREM OneContextLives ==
  ASSUME Reliable
  PROVE  Spec => []OneContext
PROOF
  <1>1. Struct /\ Selection => OneContext
    <2> SUFFICES ASSUME Struct, Selection, call = NoCall PROVE OneContext
      BY DEF OneContext
    <2>1. AtRest /\ phase \in {"new", "up", "down"}
      BY WhichCall DEF Selection, Struct, TypeOK
    <2>2. CASE phase = "up"
      <3>1. OneLive
        BY <2>1, <2>2 DEF AtRest
      <3>2. Live = {curr_ctxt} /\ owner[curr_ctxt] = curr_ops
        BY <3>1 DEF OneLive, OnlyLive, Live
      <3> QED
        BY <2>2, <3>2 DEF OneContext
    <2>3. CASE phase # "up"
      <3>1. Live = {}
        BY <2>1, <2>3 DEF AtRest, NoneLive, Live
      <3> QED
        BY <2>1, <2>3, <3>1 DEF OneContext
    <2> QED
      BY <2>2, <2>3
  <1> QED
    BY <1>1, StructHolds, SelectionHolds, PTL

(* The data a znode has after a step: what it had, none, or data of the    *)
(* current compositor.                                                     *)
LEMMA DataChanges ==
  ASSUME Struct, Selection, [Next]_vars, NEW n \in Node
  PROVE  \/ priv_data'[n] = priv_data[n]
         \/ priv_data'[n] = NULL
         \/ /\ priv_data'[n] = Attached(curr_ops, curr_ctxt)
            /\ curr_ctxt \in Ctxt /\ owner[curr_ctxt] = curr_ops /\ owner' = owner
PROOF
  <1>1. CASE UNCHANGED priv_data
    BY <1>1
  <1>2. CASE Purge \/ LastPurge
    BY <1>2 DEF Purge, LastPurge, Purged
  <1>3. ASSUME NEW S \in SUBSET Node, Rebuild(S)
        PROVE  \/ priv_data'[n] = priv_data[n]
               \/ /\ priv_data'[n] = Attached(curr_ops, curr_ctxt)
                  /\ curr_ctxt \in Ctxt /\ owner[curr_ctxt] = curr_ops /\ owner' = owner
    <2>1. AtShowing
      BY <1>3, WhichCall DEF Rebuild, Selection
    <2>2. curr_ctxt \in Ctxt /\ owner[curr_ctxt] = curr_ops /\ owner' = owner
      BY <1>3, <2>1 DEF AtShowing, OneLive, Rebuild
    <2> QED
      BY <1>3, <2>1, <2>2 DEF Rebuild, AtShowing
  <1>4. ASSUME NEW m \in Node, Show(m) \/ Hide(m)
        PROVE  \/ priv_data'[n] = priv_data[n]
               \/ priv_data'[n] = NULL
               \/ /\ priv_data'[n] = Attached(curr_ops, curr_ctxt)
                  /\ curr_ctxt \in Ctxt /\ owner[curr_ctxt] = curr_ops /\ owner' = owner
    <2>1. call = NoCall /\ phase = "up" /\ owner' = owner
      BY <1>4 DEF Show, Hide
    <2>2. curr_ctxt \in Ctxt /\ owner[curr_ctxt] = curr_ops
      BY <2>1, WhichCall DEF Selection, AtRest, OneLive
    <2>3. \/ priv_data' = priv_data
          \/ priv_data' = [priv_data EXCEPT ![m] = NULL]
          \/ priv_data' = [priv_data EXCEPT ![m] = Attached(curr_ops, curr_ctxt)]
      BY <1>4 DEF Show, Hide
    <2>4. priv_data \in [Node -> Datum \cup {NULL}]
      BY DEF Struct, TypeOK
    <2> QED
      BY <2>1, <2>2, <2>3, <2>4
  <1>5. \/ UNCHANGED priv_data \/ Purge \/ LastPurge
        \/ \E S \in SUBSET Node : Rebuild(S)
        \/ \E m \in Node : Show(m) \/ Hide(m)
    BY DEF Next, vars, Register, Unregister, Select, InitCompositor, Terminate,
       InitializeFails, Initialize, Replace, LastTerminate, SetTopmost
  <1> QED
    BY <1>1, <1>2, <1>3, <1>4, <1>5

(* Private data becomes stale only on a menu of a layer that is not the    *)
(* topmost one: purge_all_znodes_private_data runs before a context is     *)
(* terminated and reaches everything else.                                 *)
THEOREM DataIsOwned ==
  ASSUME Reliable
  PROVE  Spec => DataHasOwner
PROOF
  <1> DEFINE Kept == \A n \in Node : Stale(n)' => Stale(n) \/ n \notin Reached
  <1>1. ASSUME Struct, Selection, [Next]_vars PROVE [Kept]_vars
    <2> SUFFICES ASSUME NEW n \in Reached, Stale(n)', ~Stale(n) PROVE FALSE
      OBVIOUS
    <2>1. n \in Node /\ owner \in [Ctxt -> Ops \cup {NULL}]
          /\ priv_data \in [Node -> Datum \cup {NULL}]
      BY <1>1 DEF Reached, Node, Struct, TypeOK
    <2>2. priv_data'[n] = priv_data[n]
      <3>1. priv_data'[n] # NULL
        BY DEF Stale
      <3>2. ASSUME priv_data'[n] = Attached(curr_ops, curr_ctxt),
                   owner[curr_ctxt] = curr_ops, owner' = owner
            PROVE  FALSE
        <4>1. priv_data'[n].ops = curr_ops /\ priv_data'[n].ctxt = curr_ctxt
          BY <3>2 DEF Attached
        <4> QED
          BY <3>2, <4>1 DEF Stale
      <3> QED
        BY <1>1, <2>1, <3>1, <3>2, DataChanges
    <2>3. PICK d \in Datum : d = priv_data[n] /\ owner[d.ctxt] = d.ops /\ owner'[d.ctxt] # d.ops
      BY <2>1, <2>2 DEF Stale
    <2>4. d = Attached(d.ops, d.ctxt) /\ d.ops # NULL
      <3>1. d = Attached(d.ops, d.ctxt)
        BY DEF Datum, Attached
      <3>2. d.ops \in Ops
        BY <1>1, <2>1, <2>2, <2>3 DEF Selection, DataOK, Stale
      <3> QED
        BY <3>1, <3>2, RegistryAssumption
    <2>5. CASE Replace
      <3>1. AtReplace /\ NoData(curr_ctxt)
        BY <1>1, <2>5, WhichCall DEF Replace, Selection, AtReplace
      <3>2. owner' = [owner EXCEPT ![curr_ctxt] = NULL]
        BY <2>5, <3>1 DEF Replace, Closed, AtReplace
      <3>3. d.ctxt = curr_ctxt
        BY <2>1, <2>3, <2>4, <3>2
      <3> QED
        BY <2>3, <2>4, <3>1, <3>3 DEF NoData
    <2>6. CASE LastTerminate
      <3>1. AtEnd /\ NoData(curr_ctxt)
        BY <1>1, <2>6, WhichCall DEF LastTerminate, Selection, AtEnd
      <3>2. owner' = [owner EXCEPT ![curr_ctxt] = NULL]
        BY <2>6, <3>1 DEF LastTerminate, Closed, AtEnd
      <3>3. d.ctxt = curr_ctxt
        BY <2>1, <2>3, <2>4, <3>2
      <3> QED
        BY <2>3, <2>4, <3>1, <3>3 DEF NoData
    <2>7. ASSUME NEW c \in Ctxt, Initialize(c) PROVE FALSE
      <3>1. owner[c] = NULL /\ owner' = [owner EXCEPT ![c] = call.ops]
        BY <2>7 DEF Initialize
      <3>2. d.ctxt # c
        BY <2>3, <2>4, <3>1
      <3> QED
        BY <2>1, <2>3, <2>4, <3>1, <3>2
    <2>8. CASE owner' = owner
      BY <2>3, <2>8
    <2>9. owner' = owner \/ Replace \/ LastTerminate \/ \E c \in Ctxt : Initialize(c)
      BY <1>1 DEF Next, vars, Register, Unregister, Select, InitCompositor, Terminate,
         InitializeFails, Purge, Rebuild, LastPurge, Show, Hide, SetTopmost
    <2> QED
      BY <2>5, <2>6, <2>7, <2>8, <2>9
  <1>2. Struct /\ Selection /\ [Next]_vars => [Kept]_vars
    BY <1>1
  <1> QED
    BY <1>2, StructHolds, SelectionHolds, PTL DEF Spec, DataHasOwner

(* The compositor in use stays in the table (ServerUnregisterCompositor).  *)
THEOREM CurrentStays ==
  ASSUME Reliable
  PROVE  Spec => []CurrentRegistered
PROOF
  <1>1. Selection => CurrentRegistered
    BY DEF Selection
  <1> QED
    BY <1>1, SelectionHolds, PTL
=============================================================================
