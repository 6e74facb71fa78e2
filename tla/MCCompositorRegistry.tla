------------------------ MODULE MCCompositorRegistry ------------------------
(* Three slots, two compositors beside the fallback one, a name that is    *)
(* longer than LEN_COMPOSITOR_NAME, one window, and one menu of a layer    *)
(* that is not always the topmost one.                                     *)
EXTENDS CompositorRegistry, TLC

CONSTANTS fallback, default, long, cut, F, D, A, near

MCStored(n) == IF n = long THEN cut ELSE n
MCLayerOf == [n \in Menu |-> near]
MCPurges == F :> {"window"} @@ D :> {"window"} @@ A :> {"window", "menu"}
=============================================================================
