--------------------------- MODULE MCCompositing ---------------------------
(* Two layers with a client's window and a znode 0 each; the first has a   *)
(* client's popup menu, in slot 0.  The first window, the menu and the     *)
(* screen are drawn twice.                                                 *)
EXTENDS Compositing, TLC

CONSTANTS l1, l2, w1, w2, m0, p1, p2

TwoLayers == l1 :> <<w1>> @@ l2 :> <<w2>>
OneMenu == l1 :> <<m0>> @@ l2 :> <<>>
Znode0 == l1 :> p1 @@ l2 :> p2
Ages == [s \in Surface |-> IF s \in {w1, m0, Screen} THEN 2 ELSE 1]
=============================================================================
