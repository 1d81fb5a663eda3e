----------------------------- MODULE MCConsole -----------------------------
(***************************************************************************)
(* Screen and Text on small instances: a screen of three lines of four     *)
(* columns with a tab stop every two, integers of five bits, an argv with  *)
(* room for three arguments and its NULL.  A behaviour is either one of    *)
(* the screen or the computation of one call.                              *)
(***************************************************************************)
EXTENDS Screen, Text

MCGlyph   == {"x"}
MCLetters == {"a", "b"}

Part(conv, zero, width, arg) == [conv |-> conv, zero |-> zero, width |-> width, arg |-> arg]
MCParts ==
    {Part("d", z, w, v) : z \in BOOLEAN, w \in {0, 3}, v \in {-16, -1, 0, 7}}
    \cup {Part(u, TRUE, 3, v) : u \in {"u", "x", "p"}, v \in {-1, 10}}
    \cup {Part("s", FALSE, w, s) : w \in {0, 2}, s \in {<<>>, <<"a", "b", "a">>}}
    \cup {Part(c, FALSE, 2, "a") : c \in {"lit", "c", "%", "unknown"}}
    \cup {Part("unknown", FALSE, 0, "nul")}
MCFormats == UNION {[1 .. n -> MCParts] : n \in 0 .. 2}

ConsoleInit == call \in Calls \cup {NoCall} /\ Init
OnScreen(step) == call = NoCall /\ step /\ UNCHANGED call
ConsoleNext == OnScreen(tty_putchar) \/ OnScreen(tty_vfs_write)
ConsoleSpec == ConsoleInit /\ [][ConsoleNext]_<<vars, call>>
=============================================================================
