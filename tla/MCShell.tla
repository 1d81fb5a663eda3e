----------------------------- MODULE MCShell -----------------------------
(***************************************************************************)
(* Shell on a small instance: /dev with its tty0, and one more name, which *)
(* is at first a file in the root.                                         *)
(***************************************************************************)
EXTENDS Shell

CONSTANT p1

MCOne     == {p1}
MCOneName == {"b"}
MCOneChop == [n \in MCOneName |-> ""]
MCInitFs  ==
    << [dir |-> <<>>,      name |-> "dev",  type |-> "dir",  size |-> 0],
       [dir |-> <<>>,      name |-> "b",    type |-> "file", size |-> 2],
       [dir |-> <<"dev">>, name |-> "tty0", type |-> "dir",  size |-> 0] >>
=============================================================================
