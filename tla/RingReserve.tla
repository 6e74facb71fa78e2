---------------------------- MODULE RingReserve ----------------------------
(***************************************************************************)
(* The reserve of the variant heap as the build with                       *)
(* USE(LOOP_BUFFER_FOR_RESERVED) compiles it: a loop buffer written at     *)
(* headpos and read at tailpos, whose empty state is headpos = tailpos.    *)
(***************************************************************************)
EXTENDS Integers, Sequences, FiniteSets, Functions

CONSTANTS
  Wrapper,       \* the memory cells the allocator can hand out
  MaxReserved,   \* MAX_RESERVED_VARIANTS
  NULL

ASSUME RingAssumption ==
  /\ MaxReserved \in Nat \ {0}    \* the code computes % MAX_RESERVED_VARIANTS
  /\ IsFiniteSet(Wrapper)
  /\ NULL \notin Wrapper

Slot == 0 .. MaxReserved - 1

VARIABLES
  inited,        \* inst->variant_heap # NULL
  live,          \* wrappers handed out and not put back
  v_reserved,    \* the loop buffer
  headpos, tailpos, nr_reserved

vars == <<inited, live, v_reserved, headpos, tailpos, nr_reserved>>

Succ(pos) == (pos + 1) % MaxReserved

(* One slot stays unused, so that a full buffer does not look empty.       *)
FullAtLast    == nr_reserved = MaxReserved    \* mutant: every slot is used
FullTooEarly  == Succ(Succ(headpos)) = tailpos  \* mutant: off by one
Full == Succ(headpos) = tailpos

Init ==
  /\ inited = TRUE
  /\ live = {}
  /\ v_reserved = [i \in Slot |-> NULL]
  /\ headpos = 0
  /\ tailpos = 0
  /\ nr_reserved = 0

(* pcvariant_get with an empty buffer: malloc returns any unused cell.     *)
GetFresh(w) ==
  /\ inited
  /\ headpos = tailpos
  /\ w \notin live
  /\ live' = live \cup {w}
  /\ UNCHANGED <<inited, v_reserved, headpos, tailpos, nr_reserved>>

(* pcvariant_get from the buffer; the slot read is cleared.                *)
SlotLeft == v_reserved                        \* mutant: the slot is not cleared
SlotCleared == [v_reserved EXCEPT ![tailpos] = NULL]

GetReserved ==
  /\ inited
  /\ headpos # tailpos
  /\ live' = live \cup {v_reserved[tailpos]}
  /\ v_reserved' = SlotCleared
  /\ tailpos' = Succ(tailpos)
  /\ nr_reserved' = nr_reserved - 1
  /\ UNCHANGED <<inited, headpos>>

(* pcvariant_put: back to the allocator when one more would make the full  *)
(* buffer look empty, else into the slot at headpos.                       *)
Put(w) ==
  /\ inited
  /\ w \in live
  /\ live' = live \ {w}
  /\ \/ /\ Full
        /\ UNCHANGED <<v_reserved, headpos, nr_reserved>>
     \/ /\ ~Full
        /\ v_reserved' = [v_reserved EXCEPT ![headpos] = w]
        /\ headpos' = Succ(headpos)
        /\ nr_reserved' = nr_reserved + 1
  /\ UNCHANGED <<inited, tailpos>>

(* What _cleanup_instance frees: every slot that is not NULL.  It is       *)
(* called when the program holds no variant any more.                      *)
FreedAtCleanup == {v_reserved[i] : i \in Slot} \ {NULL}

Cleanup ==
  /\ inited
  /\ live = {}
  /\ inited' = FALSE
  /\ v_reserved' = [i \in Slot |-> NULL]
  /\ headpos' = 0
  /\ tailpos' = 0
  /\ UNCHANGED <<live, nr_reserved>>

InitInstance ==
  /\ ~inited
  /\ inited' = TRUE
  /\ v_reserved' = [i \in Slot |-> NULL]
  /\ headpos' = 0
  /\ tailpos' = 0
  /\ nr_reserved' = 0
  /\ UNCHANGED live

Next ==
  \/ \E w \in Wrapper : GetFresh(w) \/ Put(w)
  \/ GetReserved
  \/ Cleanup
  \/ InitInstance

Spec == Init /\ [][Next]_vars

-----------------------------------------------------------------------------
(* Slots between tailpos and headpos, in the order they will be read.      *)
Occupied == (headpos - tailpos) % MaxReserved
KeptSlot(k) == (tailpos + k - 1) % MaxReserved
Kept == [k \in 1 .. Occupied |-> v_reserved[KeptSlot(k)]]

(* Types of the loop buffer: both positions stay within it (the modulo in  *)
(* pcvariant_get and pcvariant_put).                                       *)
TypeOK ==
  /\ inited \in BOOLEAN
  /\ live \in SUBSET Wrapper
  /\ v_reserved \in [Slot -> Wrapper \cup {NULL}]
  /\ headpos \in Slot
  /\ tailpos \in Slot
  /\ nr_reserved \in Int

(* nr_reserved counts the occupied slots, which are exactly those that are *)
(* not NULL (the VWNOTEs in pcvariant_get and pcvariant_put).              *)
CountSound ==
  /\ inited => nr_reserved = Occupied
  /\ \A i \in Slot :
       v_reserved[i] # NULL <=> \E k \in 1 .. Occupied : i = KeptSlot(k)

(* No wrapper is in two slots, and none in a slot is in use: _cleanup      *)
(* frees each wrapper once and none that is still referenced.              *)
NoDoubleFree ==
  /\ FreedAtCleanup \cap live = {}
  /\ \A i, j \in Slot : v_reserved[i] = v_reserved[j] /\ v_reserved[i] # NULL => i = j

(* The loop buffer is the promised reserve, one wrapper smaller than its   *)
(* number of slots.                                                        *)
Pool == INSTANCE ReservePool
          WITH Capacity <- MaxReserved - 1, inUse <- live, kept <- Kept
ImplementsPool == Pool!Spec
=============================================================================
