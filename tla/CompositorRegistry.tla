------------------------- MODULE CompositorRegistry -------------------------
(***************************************************************************)
(* The compositor manager of the MiniGUI window server: the table of       *)
(* registered compositors, the selected one with its context, and the      *)
(* private data a compositor keeps on the znodes (windows and menus).      *)
(* The manager runs in the server's only thread, but it works through      *)
(* callbacks of the compositors; `call` is the callback it is in.          *)
(***************************************************************************)
EXTENDS Naturals, FiniteSets

CONSTANTS
  Slots,            \* MAX_NR_COMPOSITORS
  Name,             \* names callers pass, and what strncpy makes of them
  Ops,              \* operation tables
  Ctxt,             \* memory for compositing contexts
  Window, Menu,     \* znodes: windows of all layers, popup menus
  Layer,
  LayerOf,          \* LayerOf[m]: the layer whose zorder_info holds the menu
  FallbackName, DefaultName,
  FallbackOps,      \* &__mg_fallback_compositor
  Unreliable,       \* operation tables whose initialize may return NULL
  Purges,           \* Purges[o]: the kinds of znode whose data o purges
  Stored(_),        \* the first LEN_COMPOSITOR_NAME characters of a name
  NULL

ASSUME RegistryAssumption ==
  /\ Slots \in Nat \ {0}
  /\ {FallbackName, DefaultName} \subseteq Name /\ FallbackName # DefaultName
  /\ FallbackOps \in Ops
  /\ Unreliable \subseteq Ops
  /\ Purges \in [Ops -> SUBSET {"window", "menu"}]
  /\ \A n \in Name : Stored(n) \in Name /\ Stored(Stored(n)) = Stored(n)
  /\ \A n \in {FallbackName, DefaultName} : \A m \in Name : Stored(m) = n <=> m = n
  /\ NULL \notin Name \cup Ops \cup Ctxt
  /\ \A ops \in Ops \cup {NULL}, ctxt \in Ctxt \cup {NULL} : NULL # [ops |-> ops, ctxt |-> ctxt]
  /\ Window \cap Menu = {}
  /\ LayerOf \in [Menu -> Layer]

Slot == 0 .. Slots - 1
Node == Window \cup Menu
Kind(n) == IF n \in Window THEN "window" ELSE "menu"

(* What a compositor attaches: private data of its context.                *)
Datum == [ops : Ops \cup {NULL}, ctxt : Ctxt \cup {NULL}]

Entry == [name : {Stored(n) : n \in Name} \cup {NULL}, ops : Ops \cup {NULL}]
NoEntry == [name |-> NULL, ops |-> NULL]

VARIABLES
  compositors,   \* the table
  curr_ops, curr_ctxt,
  owner,         \* owner[c]: whose initialize made c, NULL when c is not live
  visible,       \* znodes with ZOF_VISIBLE
  priv_data,     \* priv_data[n]: who attached data to n, or NULL
  topmost,       \* mgTopmostLayer
  dl_handle,     \* "none", "open" or, with the pointer still set, "closed"
  phase,         \* "new", "up" or "down"
  call           \* the callback in progress

vars == <<compositors, curr_ops, curr_ctxt, owner, visible, priv_data,
          topmost, dl_handle, phase, call>>

NoCall == [op |-> "none", ops |-> NULL, ctxt |-> NULL, new |-> NULL]
Call(op, ops, ctxt, new) == [op |-> op, ops |-> ops, ctxt |-> ctxt, new |-> new]

(* ServerGetCompositorOps: the first slot with the name.                   *)
SlotsNamed(t, name) == {i \in Slot : t[i].name = name}
FirstOf(S) == CHOOSE i \in S : \A j \in S : i <= j
Found(t, name) == IF SlotsNamed(t, name) = {} THEN NULL
                  ELSE t[FirstOf(SlotsNamed(t, name))].ops
Lookup(name) == Found(compositors, name)

Init ==
  /\ compositors = [i \in Slot |->
        IF i = 0 THEN [name |-> FallbackName, ops |-> FallbackOps] ELSE NoEntry]
  /\ curr_ops = NULL
  /\ curr_ctxt = NULL
  /\ owner = [c \in Ctxt |-> NULL]
  /\ visible = {}
  /\ priv_data = [n \in Node |-> NULL]
  /\ topmost \in Layer
  /\ dl_handle = "none"
  /\ phase = "new"
  /\ call = NoCall

-----------------------------------------------------------------------------
(* The table.  ServerRegisterCompositor does not look whether the name is  *)
(* registered already, and keeps only what fits of it.                     *)
FreeSlots == SlotsNamed(compositors, NULL)
Uncut(name, ops) ==                         \* mutant: strcpy
  IF FreeSlots = {} THEN compositors
  ELSE [compositors EXCEPT ![FirstOf(FreeSlots)] = [name |-> name, ops |-> ops]]
Registered(name, ops) ==
  IF FreeSlots = {} THEN compositors
  ELSE [compositors EXCEPT ![FirstOf(FreeSlots)] = [name |-> Stored(name), ops |-> ops]]

Register(name, ops) ==
  /\ call = NoCall /\ phase # "down"
  /\ FreeSlots # {}
  /\ compositors' = Registered(name, ops)
  /\ UNCHANGED <<curr_ops, curr_ctxt, owner, visible, priv_data, dl_handle, phase, call, topmost>>

NeverRefused(i) == FALSE                    \* mutant: the current one may go
Refused(i) == compositors[i].ops = curr_ops
AnyName(name) == FALSE                      \* mutant: no name is protected
Protected(name) == name = FallbackName

Unregister(name) ==
  /\ call = NoCall /\ phase # "down"
  /\ ~Protected(name)
  /\ SlotsNamed(compositors, name) # {}
  /\ LET i == FirstOf(SlotsNamed(compositors, name))
     IN  /\ ~Refused(i)
         /\ compositors' = [compositors EXCEPT ![i] = NoEntry]
  /\ UNCHANGED <<curr_ops, curr_ctxt, owner, visible, priv_data, dl_handle, phase, call, topmost>>

-----------------------------------------------------------------------------
(* mg_InitCompositor.  The library may be missing, lack the symbol (it is  *)
(* closed then, but dl_handle stays), refuse or have another version (it   *)
(* stays open), or give its operations.                                    *)
LoadOutcome == {"missing", "no symbol", "refused"} \cup (Ops \ {FallbackOps})

Handle(outcome) ==
  CASE outcome = "missing"   -> "none"
    [] outcome = "no symbol" -> "closed"
    [] OTHER                 -> "open"

InitCompositor(outcome) ==
  /\ call = NoCall /\ phase = "new"
  /\ phase' = "up"
  /\ dl_handle' = Handle(outcome)
  /\ IF outcome \in Ops /\ FreeSlots # {}
     THEN /\ compositors' = Registered(DefaultName, outcome)
          /\ call' = Call("initialize", Found(compositors', DefaultName), NULL, NULL)
     ELSE /\ compositors' = compositors
          /\ call' = Call("initialize", Found(compositors, FallbackName), NULL, NULL)
  /\ UNCHANGED <<curr_ops, curr_ctxt, owner, visible, priv_data, topmost>>

(* ServerSelectCompositor with a name: nothing happens unless the name is  *)
(* found and names another compositor than the current one.                *)
Select(name) ==
  /\ call = NoCall /\ phase = "up"
  /\ Lookup(name) \notin {NULL, curr_ops}
  /\ call' = Call("initialize", Lookup(name), NULL, NULL)
  /\ UNCHANGED <<compositors, curr_ops, curr_ctxt, owner, visible, priv_data, dl_handle,
                 phase, topmost>>

(* mg_TerminateCompositor selects the fallback compositor first.           *)
Terminate ==
  /\ call = NoCall /\ phase = "up"
  /\ phase' = "down"
  /\ call' = IF Lookup(FallbackName) # curr_ops
             THEN Call("initialize", Lookup(FallbackName), NULL, NULL)
             ELSE Call("last purge", FallbackOps, curr_ctxt, NULL)
  /\ UNCHANGED <<compositors, curr_ops, curr_ctxt, owner, visible, priv_data, dl_handle, topmost>>

(* What follows a selection: mg_TerminateCompositor goes on with whatever  *)
(* context ServerSelectCompositor reports, and with the fallback's own     *)
(* operations.                                                             *)
NothingAfter(ctxt) == NoCall                \* mutant: the last one is not terminated
AfterSelect(ctxt) ==
  IF phase = "down" /\ ctxt # NULL
  THEN Call("last purge", FallbackOps, ctxt, NULL) ELSE NoCall

(* mg_InitCompositor returns FALSE when there is no context: the server    *)
(* does not start.                                                         *)
InitializeFails ==
  /\ call.op = "initialize"
  /\ call.ops \in Unreliable
  /\ call' = AfterSelect(curr_ctxt)
  /\ phase' = IF curr_ops = NULL THEN "down" ELSE phase
  /\ UNCHANGED <<compositors, curr_ops, curr_ctxt, owner, visible, priv_data, dl_handle, topmost>>

(* The first selection has nobody to terminate.                            *)
WithNewOps(c) ==                            \* mutant: purged by the new operations
  IF curr_ops # NULL THEN Call("purge", call.ops, curr_ctxt, c)
                     ELSE Call("on_showing", call.ops, c, NULL)
NextAfterInitialize(c) ==
  IF curr_ops # NULL THEN Call("purge", curr_ops, curr_ctxt, c)
                     ELSE Call("on_showing", call.ops, c, NULL)
Initialize(c) ==
  /\ call.op = "initialize"
  /\ owner[c] = NULL
  /\ owner' = [owner EXCEPT ![c] = call.ops]
  /\ call' = NextAfterInitialize(c)
  /\ IF curr_ops = NULL
     THEN curr_ops' = call.ops /\ curr_ctxt' = c
     ELSE UNCHANGED <<curr_ops, curr_ctxt>>
  /\ UNCHANGED <<compositors, visible, priv_data, dl_handle, phase, topmost>>

(* Both traversals visit the windows of all layers and the popup menus of  *)
(* the topmost layer.  A menu that another layer still holds is not met.   *)
Reached == Window \cup {m \in Menu : LayerOf[m] = topmost}

(* purge_all_znodes_private_data: hidden znodes too.                       *)
OnlyVisible(ops) ==                         \* mutant: hidden znodes are skipped
  [n \in Node |-> IF n \in Reached \cap visible /\ Kind(n) \in Purges[ops]
                 THEN NULL ELSE priv_data[n]]
Purged(ops) ==
  [n \in Node |-> IF n \in Reached /\ Kind(n) \in Purges[ops] THEN NULL ELSE priv_data[n]]

Purge ==
  /\ call.op = "purge"
  /\ priv_data' = Purged(call.ops)
  /\ call' = Call("terminate", call.ops, call.ctxt, call.new)
  /\ UNCHANGED <<compositors, curr_ops, curr_ctxt, owner, visible, dl_handle, phase, topmost>>

(* The old compositor's terminate returns; the new one becomes current.    *)
Closed(c) == [owner EXCEPT ![c] = NULL]
OpsOf(ctxt) == owner[ctxt]

Replace ==
  /\ call.op = "terminate"
  /\ owner' = Closed(call.ctxt)
  /\ curr_ops' = OpsOf(call.new)
  /\ curr_ctxt' = call.new
  /\ call' = Call("on_showing", OpsOf(call.new), call.new, NULL)
  /\ UNCHANGED <<compositors, visible, priv_data, dl_handle, phase, topmost>>

(* rebuild_all_znodes_private_data: the new compositor may attach data to  *)
(* the visible znodes of the kinds it purges.  refresh follows.            *)
Attachable(ops) == {n \in Reached \cap visible : Kind(n) \in Purges[ops]}
Attached(ops, ctxt) == [ops |-> ops, ctxt |-> ctxt]
Rebuild(S) ==
  /\ call.op = "on_showing"
  /\ S \subseteq Attachable(call.ops)
  /\ priv_data' = [n \in Node |-> IF n \in S THEN Attached(call.ops, call.ctxt)
                                         ELSE priv_data[n]]
  /\ call' = AfterSelect(call.ctxt)
  /\ UNCHANGED <<compositors, curr_ops, curr_ctxt, owner, visible, dl_handle, phase, topmost>>

LastPurge ==
  /\ call.op = "last purge"
  /\ priv_data' = Purged(call.ops)
  /\ call' = Call("last terminate", call.ops, call.ctxt, NULL)
  /\ UNCHANGED <<compositors, curr_ops, curr_ctxt, owner, visible, dl_handle, phase, topmost>>

LastTerminate ==
  /\ call.op = "last terminate"
  /\ owner' = Closed(call.ctxt)
  /\ dl_handle' = IF dl_handle = "none" THEN "none" ELSE "closed"
  /\ call' = NoCall
  /\ UNCHANGED <<compositors, curr_ops, curr_ctxt, visible, priv_data, phase, topmost>>

-----------------------------------------------------------------------------
(* The window manager (not under src/) shows a znode and calls on_showing, *)
(* or hides it and calls on_hiding, which may leave the private data.  The *)
(* operations on menus name no layer: menus are shown on the topmost one.  *)
(* Which layer is topmost changes between operations.                      *)
Show(n) ==
  /\ call = NoCall /\ phase = "up"
  /\ n \in Reached \ visible
  /\ visible' = visible \cup {n}
  /\ \/ UNCHANGED priv_data
     \/ /\ Kind(n) \in Purges[curr_ops]
        /\ priv_data' = [priv_data EXCEPT ![n] = Attached(curr_ops, curr_ctxt)]
  /\ UNCHANGED <<compositors, curr_ops, curr_ctxt, owner, dl_handle, phase, call, topmost>>

Hide(n) ==
  /\ call = NoCall /\ phase = "up"
  /\ n \in visible
  /\ visible' = visible \ {n}
  /\ priv_data' \in {priv_data, [priv_data EXCEPT ![n] = NULL]}
  /\ UNCHANGED <<compositors, curr_ops, curr_ctxt, owner, dl_handle, phase, call, topmost>>

SetTopmost(layer) ==
  /\ call = NoCall /\ phase = "up"
  /\ topmost' = layer /\ layer # topmost
  /\ UNCHANGED <<compositors, curr_ops, curr_ctxt, owner, visible, priv_data,
                 dl_handle, phase, call>>

Next ==
  \/ \E name \in Name, ops \in Ops : Register(name, ops)
  \/ \E name \in Name : Unregister(name) \/ Select(name)
  \/ \E outcome \in LoadOutcome : InitCompositor(outcome)
  \/ Terminate
  \/ InitializeFails
  \/ \E c \in Ctxt : Initialize(c)
  \/ Purge
  \/ Replace
  \/ \E S \in SUBSET Node : Rebuild(S)
  \/ LastPurge
  \/ LastTerminate
  \/ \E n \in Node : Show(n) \/ Hide(n)
  \/ \E layer \in Layer : SetTopmost(layer)

Spec == Init /\ [][Next]_vars

-----------------------------------------------------------------------------
CallOp == {"none", "initialize", "purge", "terminate", "on_showing",
           "last purge", "last terminate"}

(* Types of the manager's variables: the table holds only names cut to     *)
(* LEN_COMPOSITOR_NAME (ServerRegisterCompositor).                         *)
TypeOK ==
  /\ compositors \in [Slot -> Entry]
  /\ curr_ops \in Ops \cup {NULL}
  /\ curr_ctxt \in Ctxt \cup {NULL}
  /\ owner \in [Ctxt -> Ops \cup {NULL}]
  /\ visible \in SUBSET Node
  /\ priv_data \in [Node -> Datum \cup {NULL}]
  /\ topmost \in Layer
  /\ dl_handle \in {"none", "open", "closed"}
  /\ phase \in {"new", "up", "down"}
  /\ call \in [op : CallOp, ops : Ops \cup {NULL}, ctxt : Ctxt \cup {NULL},
               new : Ctxt \cup {NULL}]

(* Every callback but initialize gets a live context that the compositor's *)
(* own initialize made: "This operation destroies the compositing context  *)
(* and terminates the compositor", says the operation table of terminate.  *)
OwnContext ==
  call.op \notin {"none", "initialize"} =>
    call.ctxt # NULL /\ owner[call.ctxt] = call.ops

Live == {c \in Ctxt : owner[c] # NULL}

(* Between operations at most the current compositor's context is live: a  *)
(* replaced compositor is terminated, a failed selection leaves nothing.   *)
OneContext ==
  call = NoCall =>
    CASE phase = "down" -> Live = {}
      [] phase = "new"  -> Live = {}
      [] OTHER -> Live = {curr_ctxt} /\ owner[curr_ctxt] = curr_ops

(* Data whose context is gone.                                             *)
Stale(n) ==
  /\ priv_data[n] # NULL
  /\ owner[priv_data[n].ctxt] # priv_data[n].ops

(* Private data never outlives the context it belongs to, on any window    *)
(* and on the menus of the topmost layer: no context is terminated before  *)
(* its data is purged there (assuming that an operation table only         *)
(* attaches data of the kinds it purges).  Only a menu that a layer keeps  *)
(* while another one is topmost can be left with a dead context's data.    *)
DataHasOwner ==
  [][\A n \in Node : Stale(n)' => Stale(n) \/ n \notin Reached]_vars

(* The compositor in use can be found in the table: a program cannot       *)
(* unregister, and then free, the operations the server composites with.   *)
CurrentRegistered ==
  curr_ops # NULL => \E i \in Slot : compositors[i].ops = curr_ops

(* Whatever is registered or unregistered, the name "fallback" leads to    *)
(* the built-in compositor, which is what mg_TerminateCompositor relies on. *)
FallbackStays == Lookup(FallbackName) = FallbackOps
=============================================================================
