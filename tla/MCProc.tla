------------------------------ MODULE MCProc ------------------------------
(***************************************************************************)
(* Proc on small instances.  The four slots hold idle, init and two forked *)
(* processes, the second of them also in the slot of the first; the tick   *)
(* counter wraps every third or fourth tick, and a process that sleeps     *)
(* until the tick after next is asleep for a while.                        *)
(***************************************************************************)
EXTENDS Proc

MCSleepTicks == {1, 2}
=============================================================================
