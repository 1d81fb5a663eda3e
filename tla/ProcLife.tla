----------------------------- MODULE ProcLife -----------------------------
(***************************************************************************)
(* What the process table promises its callers: a process is created once, *)
(* by a live parent, runs until it exits, and its exit is reported exactly *)
(* once, to that parent and to nobody else.  Slots, scheduling, blocking   *)
(* and memory are not mentioned; module Proc implements this.              *)
(***************************************************************************)
CONSTANTS Pid,     \* process identifiers
          Root     \* the process that exists from the start

VARIABLES life,    \* pid -> "unborn", "alive", "zombie" or "reaped"
          parent   \* pid -> the parent of a process that exists

LifeInit ==
    /\ life = [p \in Pid |-> IF p = Root THEN "alive" ELSE "unborn"]
    /\ parent = [p \in Pid |-> Root]

Create(p, c) ==
    /\ life[p] = "alive" /\ life[c] = "unborn"
    /\ life' = [life EXCEPT ![c] = "alive"]
    /\ parent' = [parent EXCEPT ![c] = p]

Exit(p) ==
    /\ p # Root /\ life[p] = "alive"
    /\ life' = [life EXCEPT ![p] = "zombie"]
    /\ UNCHANGED parent

Reap(p, c) ==
    /\ life[p] = "alive" /\ life[c] = "zombie" /\ parent[c] = p
    /\ life' = [life EXCEPT ![c] = "reaped"]
    /\ parent' = [parent EXCEPT ![c] = Root]

\* Every step takes one process c to the next stage of its life.
LifeNext ==
    \E c \in Pid :
        /\ life'[c] # life[c]
        /\ Exit(c) \/ \E p \in Pid : Create(p, c) \/ Reap(p, c)

LifeSpec == LifeInit /\ [][LifeNext]_<<life, parent>>
=============================================================================
