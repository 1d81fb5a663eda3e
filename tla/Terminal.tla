----------------------------- MODULE Terminal -----------------------------
(***************************************************************************)
(* What a console promises: the last Height lines of what was printed, the *)
(* cursor on the last of them.  Printing never changes the lines above the *)
(* cursor; a line that is complete moves up as one.                        *)
(*                                                                         *)
(* Once torn is TRUE it promises nothing.                                  *)
(***************************************************************************)
EXTENDS Naturals, Sequences

CONSTANTS Width, Height, TabStop, Glyph, Space

VARIABLES lines,   \* the lines shown, the cursor is on the last
          column,  \* 0 .. Width - 1
          torn

Empty   == [c \in 1 .. Width |-> Space]
Current == lines[Len(lines)]

\* The last line becomes l, or becomes l and a new one begins.
Rewrite(l) == [lines EXCEPT ![Len(lines)] = l]
Advanced(ls) == Append(IF Len(ls) = Height THEN Tail(ls) ELSE ls, Empty)

TerminalInit == lines = <<Empty>> /\ column = 0 /\ torn = FALSE

Type(g) ==
    LET done == Rewrite([Current EXCEPT ![column + 1] = g])
    IN  IF column + 1 < Width
        THEN lines' = done /\ column' = column + 1
        ELSE lines' = Advanced(done) /\ column' = 0

NewLine == lines' = Advanced(lines) /\ column' = 0

Return == column' = 0 /\ UNCHANGED lines

Erase ==
    /\ column > 0 /\ column' = column - 1
    /\ lines' = Rewrite([Current EXCEPT ![column] = Space])

\* Blanks up to the next tab stop before the end of the line.
Skip ==
    LET stop == (column \div TabStop + 1) * TabStop
    IN  /\ stop < Width /\ column' = stop
        /\ lines' = Rewrite([c \in 1 .. Width |->
                               IF c \in column + 1 .. stop THEN Space ELSE Current[c]])

Show == ~torn /\ UNCHANGED torn
        /\ (NewLine \/ Return \/ Erase \/ Skip \/ \E g \in Glyph : Type(g))
Tear == torn' = TRUE

TerminalSpec == TerminalInit /\ [][Show \/ Tear]_<<lines, column, torn>>
=============================================================================
