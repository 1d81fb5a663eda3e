----------------------------- MODULE Allocator -----------------------------
(***************************************************************************)
(* What a heap promises its callers: the areas in use never overlap, and a *)
(* step allocates one area, releases one, or replaces one by another that  *)
(* existed before the first was released; no other area moves or changes.  *)
(***************************************************************************)
EXTENDS Naturals

VARIABLE areas     \* the areas in use, as pairs <<first address, length>>

Disjoint(a, b) == a[1] + a[2] <= b[1] \/ b[1] + b[2] <= a[1]

AllocInit == areas = {}

Allocate(a) ==
    /\ \A b \in areas : Disjoint(a, b)
    /\ areas' = areas \cup {a}

Release(a) == areas' = areas \ {a}

Replace(a, b) ==
    /\ \A x \in areas : Disjoint(b, x)
    /\ areas' = (areas \ {a}) \cup {b}

AllocNext ==
    \/ \E a \in areas' \ areas : Allocate(a)
    \/ \E a \in areas \ areas' : Release(a) \/ \E b \in areas' \ areas : Replace(a, b)

AllocSpec == AllocInit /\ [][AllocNext]_areas
=============================================================================
