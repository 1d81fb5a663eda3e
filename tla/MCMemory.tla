----------------------------- MODULE MCMemory -----------------------------
(***************************************************************************)
(* Memory on small instances: tables of a few entries, the low pages       *)
(* mapped to themselves, and a machine that has frames above the identity  *)
(* map and, in MemSafety, behind HEAP_PAGE: there is room for one fork     *)
(* below the identity map, the next one meets its end or the heap, and the *)
(* heap can use up every frame and put a table into frame 0.               *)
(***************************************************************************)
EXTENDS Memory

MCProcs == {0, 1, 2}
=============================================================================
