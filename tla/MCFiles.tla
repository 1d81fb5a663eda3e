----------------------------- MODULE MCFiles -----------------------------
(***************************************************************************)
(* Files on a small instance: two processes and one name, of one character *)
(* as a directory name must be for open to take it for the root.           *)
(***************************************************************************)
EXTENDS Files, TLC

CONSTANTS p1, p2

MCTwo     == {p1, p2}
MCOneName == {"b"}
MCOneChop == [n \in MCOneName |-> ""]

Symmetric == Permutations(MCTwo)
=============================================================================
