-------------------------------- MODULE Tty --------------------------------
(***************************************************************************)
(* The keyboard of drivers/tty.c: the interrupt handler that fills the     *)
(* ring buffer, tty_getchar that empties it, and the two readers built on  *)
(* it, tty_readline (the shell) and tty_vfs_read (read of /dev/tty0).      *)
(*                                                                         *)
(* keyboard_handler runs to completion inside IRQ1.  tty_getchar is cut    *)
(* at the points where an interrupt may come: between its test and hlt,    *)
(* and between the reading of the character and the update of kb_tail.     *)
(*                                                                         *)
(* Interruptible says whether the reader runs with EFLAGS.IF set.  The     *)
(* code of tty.c is written for TRUE, and the ring is looked at under it.  *)
(* In this kernel the shell runs with FALSE: it was dispatched from inside *)
(* the timer interrupt (module Proc, InterruptsOnlyInIdle), and keys only  *)
(* reach the buffer before it was started.                                 *)
(*                                                                         *)
(* Abstracted: which letter a key stands for; echo to the screen.          *)
(***************************************************************************)
EXTENDS Integers, Sequences

CONSTANTS
    KB_BUF_SIZE,     \* 256 in the code
    MaxLine,         \* maxlen of tty_readline, sz of tty_vfs_read
    Interruptible

ASSUME TtyAssumption ==
    /\ KB_BUF_SIZE \in Nat /\ KB_BUF_SIZE >= 2
    /\ MaxLine \in Nat /\ MaxLine >= 2
    /\ Interruptible \in BOOLEAN

\* Scancodes: the modifiers going down and up, another key released, and the
\* keys: two letters, Enter, Backspace, Tab (as Escape, a character below 32 that
\* means nothing to tty_readline) and a key without a character.
Modifiers == {"shift_down", "shift_up", "ctrl_down", "ctrl_up"}
Keys      == {"a", "c", "enter", "backspace", "tab", "dead"}
Scancodes == Modifiers \cup Keys \cup {"released"}

Printable == {"a", "A", "c", "C"}
Chars     == Printable \cup {"NL", "BS", "ETX", "TAB"}
NoChar    == "none"

VARIABLES
    kb_buf, kb_head, kb_tail,    \* the ring
    shift_held, ctrl_held,
    started,   \* init was dispatched: the code before ran with IF set
    op,        \* the call in progress: "none", "readline" or "read"
    pc,        \* where tty_getchar is
    c,         \* the character it read
    last,      \* the character it returned last
    line       \* the characters in the caller's buffer

ring   == <<kb_buf, kb_head, kb_tail>>
keybd  == <<shift_held, ctrl_held>>
reader == <<op, pc, c, last, line>>
vars   == <<ring, keybd, started, reader>>

Index == 0 .. KB_BUF_SIZE - 1

TypeOK ==
    /\ kb_buf \in [Index -> Chars \cup {NoChar}]
    /\ kb_head \in Index
    /\ kb_tail \in Index
    /\ shift_held \in BOOLEAN
    /\ ctrl_held \in BOOLEAN
    /\ started \in BOOLEAN
    /\ op \in {"none", "readline", "read"}
    /\ pc \in {"out", "test", "nap", "hlt", "take", "advance"}
    /\ c \in Chars \cup {NoChar}
    /\ last \in Chars \cup {NoChar}
    /\ line \in Seq(Chars)

Init ==
    /\ kb_buf = [i \in Index |-> NoChar]
    /\ kb_head = 0 /\ kb_tail = 0
    /\ shift_held = FALSE /\ ctrl_held = FALSE
    /\ started = FALSE
    /\ op = "none" /\ pc = "out"
    /\ c = NoChar /\ last = NoChar
    /\ line = <<>>

-----------------------------------------------------------------------------
(* keyboard_handler.                                                       *)

Advance(i) == (i + 1) % KB_BUF_SIZE

\* The character of a key, through sc_normal or sc_shift and the Ctrl test.
CharOf(k) ==
    CASE k = "dead"      -> NoChar
      [] k = "enter"     -> "NL"
      [] k = "backspace" -> "BS"
      [] k = "tab"       -> "TAB"
      [] k = "a"         -> IF shift_held THEN "A" ELSE "a"
      [] k = "c"         -> IF shift_held THEN "C" ELSE IF ctrl_held THEN "ETX" ELSE "c"

Full_Never == FALSE
Full == Advance(kb_head) = kb_tail

Store(ch) ==
    IF Full THEN UNCHANGED ring
    ELSE /\ kb_buf' = [kb_buf EXCEPT ![kb_head] = ch]
         /\ kb_head' = Advance(kb_head)
         /\ UNCHANGED kb_tail

\* An interrupt can be delivered: IF is set in idle, before the shell was
\* started, and in the reader only if that is Interruptible.
Deliverable == Interruptible \/ ~started

keyboard_handler(sc) ==
    /\ Deliverable
    /\ \/ /\ sc \in Modifiers
          /\ shift_held' = IF sc = "shift_down" THEN TRUE
                           ELSE IF sc = "shift_up" THEN FALSE ELSE shift_held
          /\ ctrl_held' = IF sc = "ctrl_down" THEN TRUE
                          ELSE IF sc = "ctrl_up" THEN FALSE ELSE ctrl_held
          /\ UNCHANGED ring
       \/ /\ sc = "released"
          /\ UNCHANGED <<ring, keybd>>
       \/ /\ sc \in Keys
          /\ IF CharOf(sc) = NoChar THEN UNCHANGED ring ELSE Store(CharOf(sc))
          /\ UNCHANGED keybd
    \* iret from an interrupt ends the hlt it woke the reader from
    /\ pc' = IF pc = "hlt" THEN "test" ELSE pc
    /\ UNCHANGED <<started, op, c, last, line>>

\* Any other interrupt, the timer in particular, ends a hlt too.
OtherIRQ ==
    /\ Deliverable
    /\ pc = "hlt" /\ pc' = "test"
    /\ UNCHANGED <<ring, keybd, started, op, c, last, line>>

-----------------------------------------------------------------------------
(* The readers.                                                            *)

\* The first dispatch of init, the process that runs the shell.
Start ==
    /\ ~started /\ started' = TRUE
    /\ UNCHANGED <<ring, keybd, reader>>

Call(f) ==
    /\ started /\ op = "none"
    /\ op' = f /\ pc' = "test" /\ line' = <<>>
    /\ UNCHANGED <<ring, keybd, started, c, last>>

\* while (kb_head == kb_tail) hlt
Test ==
    /\ pc = "test"
    /\ pc' = IF kb_head = kb_tail THEN "nap" ELSE "take"
    /\ UNCHANGED <<ring, keybd, started, op, c, last, line>>

\* An interrupt that comes before the hlt does not end it.
Halt ==
    /\ pc = "nap" /\ pc' = "hlt"
    /\ UNCHANGED <<ring, keybd, started, op, c, last, line>>

TakeChar ==
    /\ pc = "take"
    /\ c' = kb_buf[kb_tail]
    /\ pc' = "advance"
    /\ UNCHANGED <<ring, keybd, started, op, last, line>>

Return(buf) == op' = "none" /\ pc' = "out" /\ line' = buf
Again(buf)  == op' = op /\ pc' = "test" /\ line' = buf

Room_OffByOne == Len(line) < MaxLine
Room == Len(line) < MaxLine - 1

\* The loop of tty_readline, with the character tty_getchar returned.
Edit ==
    \/ c = "NL" /\ Return(line)
    \/ c = "BS" /\ Again(IF line = <<>> THEN line ELSE SubSeq(line, 1, Len(line) - 1))
    \/ c = "ETX" /\ Return(<<>>)
    \/ c = "TAB" /\ Again(line)
    \/ c \in Printable /\ Again(IF Room THEN Append(line, c) ELSE line)

\* The loop of tty_vfs_read.
Raw ==
    LET buf == Append(line, c)
    IN  IF Len(buf) = MaxLine \/ c = "NL" THEN Return(buf) ELSE Again(buf)

\* The end of tty_getchar, and what its caller does with the character.
Consume ==
    /\ pc = "advance"
    /\ kb_tail' = Advance(kb_tail)
    /\ last' = c
    /\ \/ op = "readline" /\ Edit
       \/ op = "read" /\ Raw
    /\ UNCHANGED <<kb_buf, kb_head, keybd, started, c>>

Next ==
    \/ \E sc \in Scancodes : keyboard_handler(sc)
    \/ OtherIRQ
    \/ Start
    \/ \E f \in {"readline", "read"} : Call(f)
    \/ Test
    \/ Halt
    \/ TakeChar
    \/ Consume

Spec == Init /\ [][Next]_vars

\* The timer keeps interrupting, as long as interrupts can be delivered, and
\* the reader keeps executing.
Fairness == WF_vars(OtherIRQ) /\ WF_vars(Test) /\ WF_vars(Halt)
            /\ WF_vars(TakeChar) /\ WF_vars(Consume)
FairSpec == Spec /\ Fairness

-----------------------------------------------------------------------------
(* Properties.                                                             *)

\* The handler never overwrites the character tty_getchar has read and not yet
\* passed kb_tail over (tty.c:162, 177-178).
CharStable == pc = "advance" => kb_head # kb_tail /\ c = kb_buf[kb_tail]

\* tty_readline leaves room for the terminator and stores printable characters
\* only (tty.c:199); tty_vfs_read stores at most sz characters and none behind
\* a newline (tty.c:212-216).  The indices and the state have their types.
LineSafe ==
    /\ TypeOK
    /\ op = "readline" => Len(line) < MaxLine /\ \A i \in 1 .. Len(line) : line[i] \in Printable
    /\ Len(line) <= MaxLine
    /\ op = "read" => Len(line) < MaxLine /\ \A i \in 1 .. Len(line) : line[i] # "NL"

\* The ring, read from kb_tail to kb_head.
Pending ==
    [i \in 1 .. (kb_head - kb_tail) % KB_BUF_SIZE |->
        kb_buf[(kb_tail + i - 1) % KB_BUF_SIZE]]

Queue == INSTANCE BoundedQueue WITH
             Char <- Chars, Capacity <- KB_BUF_SIZE - 1, Nothing <- NoChar,
             queue <- Pending, got <- last

\* The buffer is a bounded first-in first-out queue, whatever the interleaving
\* of the handler and the reader (tty.c:161-165, 174-179).
ImplementsQueue == Queue!QueueSpec

-----------------------------------------------------------------------------
(* What a comment of the source says and this kernel does not do.          *)

\* tty.c:175 "wait for an interrupt": the hlt of a reader that found the buffer
\* empty ends, at the latest with the next timer interrupt.
HaltEnds == pc = "hlt" ~> pc # "hlt"
=============================================================================
