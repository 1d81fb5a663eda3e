------------------------------ MODULE MCBoot ------------------------------
(***************************************************************************)
(* Boot with a keyboard that holds back up to two keys.                    *)
(***************************************************************************)
EXTENDS Boot
=============================================================================
