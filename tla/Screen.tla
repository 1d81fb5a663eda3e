------------------------------ MODULE Screen ------------------------------
(***************************************************************************)
(* The output side of drivers/tty.c: VGA text memory, the cursor, and the  *)
(* two ways a character gets there, tty_putchar (kernel messages, echo)    *)
(* and tty_vfs_write (write to /dev/tty0, printf).                         *)
(*                                                                         *)
(* A string or a buffer is printed character by character, one step each.  *)
(* Nothing else prints in between: only processes print, and they are not  *)
(* preempted (module Proc).                                                *)
(*                                                                         *)
(* Abstracted: the color of a cell, the hardware cursor, the bytes on the  *)
(* serial line (which serial_write waits for; the UART is taken to drain). *)
(***************************************************************************)
EXTENDS Integers, Sequences

CONSTANTS
    VGA_COLS, VGA_ROWS,   \* 80 and 25
    TabStop,              \* 8
    Glyph,                \* the characters without a meaning of their own
    Beyond                \* BOUND: the words of memory after the screen

ASSUME ScreenAssumption ==
    /\ {VGA_COLS, VGA_ROWS, TabStop} \subseteq Nat \ {0} /\ Beyond \in Nat
    /\ VGA_COLS % TabStop = 0
    /\ Glyph \cap {"blank", "other"} = {}

Blank == "blank"
Other == "other"     \* what the memory after the screen holds

Size  == VGA_COLS * VGA_ROWS
Cells == 0 .. Size + Beyond - 1
At(row, col) == row * VGA_COLS + col

VARIABLES
    vga, cur_col, cur_row,
    edge,    \* history: a tab has reached the end of a line
    hung     \* serial_putchar does not return

vars == <<vga, cur_col, cur_row, edge, hung>>

TypeOK ==
    /\ vga \in [Cells -> Glyph \cup {Blank, Other}]
    /\ cur_col \in 0 .. Size + Beyond
    /\ cur_row \in 0 .. VGA_ROWS - 1
    /\ edge \in BOOLEAN /\ hung \in BOOLEAN

\* tty_clear, which kernel_main calls before anything is printed.
Init ==
    /\ vga = [a \in Cells |-> IF a < Size THEN Blank ELSE Other]
    /\ cur_col = 0 /\ cur_row = 0
    /\ edge = FALSE /\ hung = FALSE

vga_scroll_LastRowKept(v) ==
    [a \in Cells |-> IF a < Size - VGA_COLS THEN v[a + VGA_COLS] ELSE v[a]]
vga_scroll(v) ==
    [a \in Cells |-> CASE a < Size - VGA_COLS -> v[a + VGA_COLS]
                       [] a \in Size - VGA_COLS .. Size - 1 -> Blank
                       [] OTHER -> v[a]]

\* if (++cur_row >= VGA_ROWS) vga_scroll(), with v in the memory.
Down(v) ==
    IF cur_row + 1 >= VGA_ROWS
    THEN vga' = vga_scroll(v) /\ cur_row' = VGA_ROWS - 1
    ELSE vga' = v /\ cur_row' = cur_row + 1

NewLine        == cur_col' = 0 /\ Down(vga) /\ UNCHANGED edge
CarriageReturn == cur_col' = 0 /\ UNCHANGED <<vga, cur_row, edge>>

Backspace_NoTest ==
    /\ cur_col' = cur_col - 1
    /\ vga' = [vga EXCEPT ![At(cur_row, cur_col - 1)] = Blank]
    /\ UNCHANGED <<cur_row, edge>>
Backspace ==
    /\ cur_col > 0
    /\ cur_col' = cur_col - 1
    /\ vga' = [vga EXCEPT ![At(cur_row, cur_col - 1)] = Blank]
    /\ UNCHANGED <<cur_row, edge>>

\* (cur_col + 8) & ~7; the end of the line is not looked at.
Tab ==
    LET next == ((cur_col + TabStop) \div TabStop) * TabStop
    IN  /\ At(cur_row, next - 1) \in Cells
        /\ vga' = [a \in Cells |-> IF a \in At(cur_row, cur_col) .. At(cur_row, next - 1)
                                   THEN Blank ELSE vga[a]]
        /\ cur_col' = next
        /\ edge' = (edge \/ next >= VGA_COLS)
        /\ UNCHANGED cur_row

PutGlyph_WrapLate(g) ==
    LET v == [vga EXCEPT ![At(cur_row, cur_col)] = g]
    IN  /\ At(cur_row, cur_col) \in Cells
        /\ IF cur_col + 1 > VGA_COLS
           THEN cur_col' = 0 /\ Down(v)
           ELSE cur_col' = cur_col + 1 /\ vga' = v /\ UNCHANGED cur_row
        /\ UNCHANGED edge
PutGlyph(g) ==
    LET v == [vga EXCEPT ![At(cur_row, cur_col)] = g]
    IN  /\ At(cur_row, cur_col) \in Cells
        /\ IF cur_col + 1 >= VGA_COLS
           THEN cur_col' = 0 /\ Down(v)
           ELSE cur_col' = cur_col + 1 /\ vga' = v /\ UNCHANGED cur_row
        /\ UNCHANGED edge

PutChar == NewLine \/ CarriageReturn \/ Backspace \/ Tab \/ \E g \in Glyph : PutGlyph(g)

tty_putchar == ~hung /\ PutChar /\ UNCHANGED hung

\* serial_putchar loops on a variable it never assigns (the inb is commented
\* out): it returns at once or never.
tty_vfs_write == ~hung /\ PutChar /\ hung' \in BOOLEAN

Next == tty_putchar \/ tty_vfs_write

Spec == Init /\ [][Next]_vars

-----------------------------------------------------------------------------
(* Properties.                                                             *)

Row(v, r) == [c \in 1 .. VGA_COLS |-> v[At(r, c - 1)]]

Console == INSTANCE Terminal WITH
               Width <- VGA_COLS, Height <- VGA_ROWS, Space <- Blank,
               lines <- [i \in 1 .. cur_row + 1 |-> Row(vga, i - 1)],
               column <- cur_col, torn <- edge

\* Until a tab reaches the end of a line the screen is a terminal: it shows the
\* last lines printed, whatever mixture of wraps, scrolls, returns and
\* backspaces made them (tty.c:38-44, 60-75).
ImplementsTerminal == Console!TerminalSpec

\* Only a tab takes the cursor past the last column, where the next character
\* is written into the next line or behind the screen (tty.c:70-75).
InsideUnlessTab ==
    TypeOK /\ (edge \/ (cur_col < VGA_COLS /\ \A a \in Cells : a >= Size => vga[a] = Other))

\* Even then the lines above the cursor are never damaged: they stay, or all
\* move up by one (tty.c:39-43, 65-75).
LinesAboveKept ==
    [][ \/ \A r \in 0 .. cur_row - 1 : Row(vga', r) = Row(vga, r)
        \/ /\ cur_row = VGA_ROWS - 1 /\ cur_row' = cur_row
           /\ \A r \in 0 .. cur_row - 2 : Row(vga', r) = Row(vga, r + 1) ]_vars
=============================================================================
