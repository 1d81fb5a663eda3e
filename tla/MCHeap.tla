------------------------------ MODULE MCHeap ------------------------------
(***************************************************************************)
(* Heap on small instances: pages of 14 words, headers of 5, sizes in      *)
(* steps of 2 as in the code, and requests that leave a rest to split,     *)
(* that leave none, and that do not fit the first page.                    *)
(***************************************************************************)
EXTENDS Heap

MCRequests == {1, 10}
=============================================================================
