---------------------------- MODULE ReservePool ----------------------------
(***************************************************************************)
(* What the reserve of variant wrappers promises to the rest of PurC,      *)
(* whichever of the two implementations of variant.c is compiled in: a     *)
(* wrapper is taken from the allocator only when no wrapper is kept, the   *)
(* wrapper kept longest is reused first, at most Capacity wrappers are     *)
(* kept, and a wrapper is never handed out twice.                          *)
(***************************************************************************)
EXTENDS Naturals, Sequences

CONSTANTS
  Wrapper,    \* the memory cells the allocator can hand out
  Capacity    \* how many returned wrappers are kept

VARIABLES
  inUse,      \* wrappers handed out and not returned
  kept        \* returned wrappers waiting for reuse, oldest first

vars == <<inUse, kept>>

Init ==
  /\ inUse = {}
  /\ kept = <<>>

Allocate(w) ==
  /\ kept = <<>>
  /\ w \notin inUse
  /\ inUse' = inUse \cup {w}
  /\ UNCHANGED kept

Reuse ==
  /\ kept # <<>>
  /\ Head(kept) \notin inUse
  /\ inUse' = inUse \cup {Head(kept)}
  /\ kept' = Tail(kept)

Keep(w) ==
  /\ w \in inUse
  /\ Len(kept) < Capacity
  /\ inUse' = inUse \ {w}
  /\ kept' = Append(kept, w)

Free(w) ==
  /\ w \in inUse
  /\ Len(kept) = Capacity
  /\ inUse' = inUse \ {w}
  /\ UNCHANGED kept

(* The instance is torn down: what was kept goes back to the allocator.    *)
Drain ==
  /\ kept' = <<>>
  /\ UNCHANGED inUse

Next ==
  \/ \E w \in Wrapper : Allocate(w) \/ Keep(w) \/ Free(w)
  \/ Reuse
  \/ Drain

Spec == Init /\ [][Next]_vars
=============================================================================
