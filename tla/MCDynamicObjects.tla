--------------------------- MODULE MCDynamicObjects ---------------------------
(* One library with an entry function in the second system directory,      *)
(* hidden in none of the environment's; one without it, found by its path. *)
EXTENDS DynamicObjects

MCEnvDirs == <<"/opt", "lib", "/srv">>
MCSystemDirs == <<"/usr/local/lib", "/usr/lib", "/lib">>
Holds(lib, other) == [plain |-> lib, path |-> other]
MCInstalled ==
  [d \in {".", "/opt", "lib", "/srv", "/usr/local/lib", "/usr/lib", "/lib"} |->
     CASE d = "." -> Holds(None, "l2")
       [] d = "/srv" -> Holds("l2", None)        \* never reached
       [] d = "/usr/lib" -> Holds("l1", None)
       [] OTHER -> Holds(None, None)]

(* The natives of other code are looked at in MCVariantHeap: here every    *)
(* native value is made by the library, or by a callback of such a value.  *)
OfLibraries == \A w \in live' \ live : type'[w] \in NativeType => code'[w] # None
=============================================================================
