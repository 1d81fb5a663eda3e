--------------------------- MODULE BoundedQueue ---------------------------
(***************************************************************************)
(* What the keyboard buffer promises: a first-in first-out queue of at     *)
(* most Capacity characters that drops what does not fit.                  *)
(***************************************************************************)
EXTENDS Naturals, Sequences

CONSTANTS Char, Capacity, Nothing

VARIABLES queue,   \* the characters waiting, oldest first
          got      \* the character taken last

QueueInit == queue = <<>> /\ got = Nothing

Put(c) ==
    /\ queue' = IF Len(queue) < Capacity THEN Append(queue, c) ELSE queue
    /\ UNCHANGED got

Take ==
    /\ queue # <<>>
    /\ got' = Head(queue)
    /\ queue' = Tail(queue)

QueueNext == Take \/ \E c \in Char : Put(c)

QueueSpec == QueueInit /\ [][QueueNext]_<<queue, got>>
=============================================================================
