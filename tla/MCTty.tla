------------------------------- MODULE MCTty -------------------------------
(***************************************************************************)
(* Tty on small instances: a ring of three slots, so that it wraps and     *)
(* fills, and lines of at most two characters.                             *)
(***************************************************************************)
EXTENDS Tty
=============================================================================
