--------------------------- MODULE MCSampleServer ---------------------------
(* Three process ids, two clients at a time and three layers besides the   *)
(* default one.                                                            *)
EXTENDS SampleServer, TLC

(* No action looks at the layers and at the processes: the run has either, *)
(* the layers with no process and the processes with the default layer.    *)
Separately == my_layers = {} \/ \A p \in Pid : prog[p] = "none"
=============================================================================
