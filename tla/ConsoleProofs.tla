---------------------------- MODULE ConsoleProofs ---------------------------
(***************************************************************************)
(* Theorems about modules Screen and Text.                                 *)
(*                                                                         *)
(* Screen, for every size of the screen, every tab stop that divides the   *)
(* width and every amount of memory behind it: all that is written lands   *)
(* in the cursor's line or behind it, and the rows below the cursor are    *)
(* blank; so a scroll, and nothing else, moves the lines above it, and the *)
(* line that comes up is empty.                                            *)
(*                                                                         *)
(* Text, for every width of an int, every format, buffer and line, and     *)
(* every size of argv.  The functions of the code are loops: what they     *)
(* have done after k rounds is the same as what their specification says   *)
(* of the first k digits, directives or words.                             *)
(***************************************************************************)
EXTENDS Screen, Text, SequenceTheorems, FiniteSetTheorems, Recursion, TLAPS

Rows    == 0 .. VGA_ROWS - 1
Columns == 0 .. VGA_COLS - 1

-----------------------------------------------------------------------------
(* The arithmetic of VGA_MEM[row * VGA_COLS + col] (tty.c:39-43, 65-71).   *)

\* The constants, and the screen as so many rows.
LEMMA Sizes ==
    /\ VGA_COLS \in Nat \ {0} /\ VGA_ROWS \in Nat \ {0} /\ TabStop \in Nat \ {0}
    /\ Beyond \in Nat /\ Size \in Nat
    /\ Size = At(VGA_ROWS, 0) /\ Size - VGA_COLS = At(VGA_ROWS - 1, 0)
BY ScreenAssumption DEF ScreenAssumption, Size, At

\* A place of the screen is a cell of its memory.
LEMMA AtInside ==
    ASSUME NEW r \in Rows, NEW c \in Columns
    PROVE  At(r, c) \in 0 .. Size - 1 /\ At(r, c) \in Cells
<1>1. /\ r \in Nat /\ c \in Nat /\ r <= VGA_ROWS - 1 /\ c < VGA_COLS
      /\ VGA_COLS \in Nat /\ VGA_ROWS \in Nat /\ Beyond \in Nat
  BY Sizes DEF Rows, Columns
<1>2. r * VGA_COLS \in Nat /\ r * VGA_COLS <= (VGA_ROWS - 1) * VGA_COLS
  BY <1>1
<1>3. (VGA_ROWS - 1) * VGA_COLS = Size - VGA_COLS
  BY <1>1 DEF Size
<1>4. Size \in Nat
  BY Sizes
<1> QED BY <1>1, <1>2, <1>3, <1>4 DEF At, Cells

\* Rows follow one another.
LEMMA AtOrder ==
    ASSUME NEW r \in Nat, NEW q \in Nat, NEW c \in Columns, NEW d \in Nat, r < q
    PROVE  At(r, c) < At(q, d)
<1>1. VGA_COLS \in Nat /\ c \in Nat /\ c < VGA_COLS
  BY Sizes DEF Columns
<1>2. r * VGA_COLS \in Nat /\ q * VGA_COLS \in Nat /\ (r + 1) * VGA_COLS = r * VGA_COLS + VGA_COLS
  BY <1>1
<1>3. (r + 1) * VGA_COLS <= q * VGA_COLS
  BY <1>1
<1> QED BY <1>1, <1>2, <1>3 DEF At

\* Within a row places follow one another, and the next row is one width on.
LEMMA AtRow ==
    ASSUME NEW r \in Nat, NEW c \in Nat
    PROVE  /\ At(r, c) \in Nat
           /\ At(r, c) = At(r, 0) + c
           /\ At(r + 1, c) = At(r, c) + VGA_COLS
<1>1. VGA_COLS \in Nat /\ r * VGA_COLS \in Nat /\ (r + 1) * VGA_COLS = r * VGA_COLS + VGA_COLS
  BY Sizes
<1> QED BY <1>1 DEF At

\* (cur_col + 8) & ~7 is the next tab stop (tty.c:57).
LEMMA TabStops ==
    ASSUME NEW c \in Nat
    PROVE  /\ ((c + TabStop) \div TabStop) * TabStop \in Nat
           /\ ((c + TabStop) \div TabStop) * TabStop > c
           /\ (c + TabStop) \div TabStop = c \div TabStop + 1
<1> TabStop \in Nat \ {0}
  BY Sizes
<1> DEFINE q == c \div TabStop
           m == c % TabStop
<1>1. q \in Nat /\ m \in 0 .. TabStop - 1 /\ c = q * TabStop + m
  OBVIOUS
<1>2. c + TabStop = (q + 1) * TabStop + m
  BY <1>1
<1>3. (c + TabStop) \div TabStop = q + 1
  <2> DEFINE p == (c + TabStop) \div TabStop
             n == (c + TabStop) % TabStop
  <2>1. p \in Nat /\ n \in 0 .. TabStop - 1 /\ c + TabStop = p * TabStop + n
    OBVIOUS
  <2> HIDE DEF p, n, q, m
  <2>2. CASE p < q + 1
    <3>1. p * TabStop + TabStop <= (q + 1) * TabStop
      BY <1>1, <2>1, <2>2
    <3> QED BY <1>1, <1>2, <2>1, <3>1
  <2>3. CASE p > q + 1
    <3>1. (q + 1) * TabStop + TabStop <= p * TabStop
      BY <1>1, <2>1, <2>3
    <3> QED BY <1>1, <1>2, <2>1, <3>1
  <2> QED BY <1>1, <2>1, <2>2, <2>3 DEF p
<1> HIDE DEF q, m
<1>4. (q + 1) * TabStop = q * TabStop + TabStop /\ q * TabStop \in Nat
  BY <1>1
<1> QED BY <1>1, <1>3, <1>4 DEF q

-----------------------------------------------------------------------------
(* The invariant.                                                          *)

Contents == [Cells -> Glyph \cup {Blank, Other}]

\* Nothing was written behind the screen, and the rows below the cursor's are
\* blank.
BehindKept(v)   == \A a \in Cells : a >= Size => v[a] = Other
BlankBelow(v, row) == \A a \in Cells : At(row + 1, 0) <= a /\ a < Size => v[a] = Blank

IInv ==
    /\ TypeOK
    /\ edge \/ (cur_col < VGA_COLS /\ BehindKept(vga) /\ BlankBelow(vga, cur_row))

\* The screen tty_clear leaves.
LEMMA InitIInv == Init => IInv
<1> SUFFICES ASSUME Init PROVE IInv
  OBVIOUS
<1>1. /\ Size \in Nat /\ Beyond \in Nat /\ VGA_ROWS \in Nat \ {0} /\ VGA_COLS \in Nat \ {0}
  BY Sizes
<1>2. vga \in Contents
  BY DEF Init, Contents
<1>3. TypeOK
  <2>1. cur_col \in 0 .. Size + Beyond /\ cur_row \in 0 .. VGA_ROWS - 1
    BY <1>1 DEF Init
  <2>2. edge \in BOOLEAN /\ hung \in BOOLEAN
    BY DEF Init
  <2> QED BY <1>2, <2>1, <2>2 DEF TypeOK, Contents
<1>4. BehindKept(vga)
  BY <1>1 DEF Init, BehindKept, Cells
<1>5. BlankBelow(vga, cur_row)
  BY DEF Init, BlankBelow
<1> QED BY <1>1, <1>3, <1>4, <1>5 DEF Init, IInv

\* vga_scroll, row by row.
LEMMA Scrolled ==
    ASSUME NEW v \in Contents
    PROVE  /\ vga_scroll(v) \in Contents
           /\ \A a \in Cells : a < Size - VGA_COLS
                => a + VGA_COLS \in Cells /\ vga_scroll(v)[a] = v[a + VGA_COLS]
           /\ \A a \in Cells : Size - VGA_COLS <= a /\ a < Size => vga_scroll(v)[a] = Blank
           /\ \A a \in Cells : a >= Size => vga_scroll(v)[a] = v[a]
<1>1. Size \in Nat /\ Beyond \in Nat /\ VGA_COLS \in Nat \ {0}
  BY Sizes
<1>2. \A a \in Cells : a \in Nat /\ (a < Size - VGA_COLS => a + VGA_COLS \in Cells)
  BY <1>1 DEF Cells
<1>3. \A a \in Cells : /\ a < Size - VGA_COLS => vga_scroll(v)[a] = v[a + VGA_COLS]
                       /\ Size - VGA_COLS <= a /\ a < Size => vga_scroll(v)[a] = Blank
                       /\ a >= Size => vga_scroll(v)[a] = v[a]
  <2> SUFFICES ASSUME NEW a \in Cells
               PROVE  /\ a < Size - VGA_COLS => vga_scroll(v)[a] = v[a + VGA_COLS]
                      /\ Size - VGA_COLS <= a /\ a < Size => vga_scroll(v)[a] = Blank
                      /\ a >= Size => vga_scroll(v)[a] = v[a]
    OBVIOUS
  <2>1. a \in Size - VGA_COLS .. Size - 1 <=> Size - VGA_COLS <= a /\ a < Size
    BY <1>1, <1>2
  <2>2. vga_scroll(v)[a] = CASE a < Size - VGA_COLS -> v[a + VGA_COLS]
                             [] a \in Size - VGA_COLS .. Size - 1 -> Blank
                             [] OTHER -> v[a]
    BY DEF vga_scroll
  <2>3. CASE a < Size - VGA_COLS
    <3>1. ~(a \in Size - VGA_COLS .. Size - 1) /\ ~(a >= Size)
      BY <1>1, <1>2, <2>1, <2>3
    <3> QED BY <2>1, <2>2, <2>3, <3>1
  <2>4. CASE ~(a < Size - VGA_COLS) /\ a < Size
    <3>1. a \in Size - VGA_COLS .. Size - 1 /\ ~(a >= Size)
      BY <1>1, <1>2, <2>1, <2>4
    <3> QED BY <2>2, <2>4, <3>1
  <2>5. CASE ~(a < Size - VGA_COLS) /\ ~(a < Size)
    <3>1. a \notin Size - VGA_COLS .. Size - 1
      BY <2>1, <2>5
    <3> QED BY <2>2, <2>5, <3>1
  <2> QED BY <2>3, <2>4, <2>5
<1>4. vga_scroll(v) \in Contents
  <2>1. vga_scroll(v) = [a \in Cells |-> vga_scroll(v)[a]]
    BY DEF vga_scroll
  <2>2. \A a \in Cells : vga_scroll(v)[a] \in Glyph \cup {Blank, Other}
    BY <1>1, <1>2, <1>3 DEF Contents
  <2> HIDE DEF vga_scroll
  <2> QED BY <2>1, <2>2 DEF Contents
<1> QED BY <1>2, <1>3, <1>4

\* The cursor moves down, with a scroll at the bottom.
LEMMA DownKeeps ==
    ASSUME NEW v \in Contents, cur_row \in Rows, Down(v)
    PROVE  /\ vga' \in Contents /\ cur_row' \in Rows
           /\ BehindKept(v) => BehindKept(vga')
           /\ BlankBelow(v, cur_row) => BlankBelow(vga', cur_row')
<1>1. /\ VGA_ROWS \in Nat \ {0} /\ VGA_COLS \in Nat \ {0} /\ Size \in Nat
      /\ cur_row \in Nat /\ cur_row < VGA_ROWS
  BY Sizes DEF Rows
<1>2. CASE cur_row + 1 >= VGA_ROWS
  <2>1. vga' = vga_scroll(v) /\ cur_row' = VGA_ROWS - 1
    BY <1>2 DEF Down
  <2>2. At(cur_row' + 1, 0) = Size /\ cur_row' \in Rows
    BY <1>1, <2>1, Sizes DEF Rows
  <2>3. BlankBelow(vga', cur_row')
    BY <1>1, <2>2 DEF BlankBelow, Cells
  <2> QED BY <2>1, <2>2, <2>3, Scrolled DEF BehindKept
<1>3. CASE ~(cur_row + 1 >= VGA_ROWS)
  <2>1. vga' = v /\ cur_row' = cur_row + 1 /\ cur_row' \in Rows
    BY <1>1, <1>3 DEF Down, Rows
  <2>2. At(cur_row' + 1, 0) = At(cur_row + 1, 0) + VGA_COLS /\ At(cur_row + 1, 0) \in Nat
    BY <1>1, <2>1, AtRow
  <2>3. ASSUME BlankBelow(v, cur_row) PROVE BlankBelow(vga', cur_row')
    <3>1. \A a \in Cells : At(cur_row' + 1, 0) <= a => At(cur_row + 1, 0) <= a
      BY <1>1, <2>2 DEF Cells
    <3> QED BY <2>1, <2>3, <3>1 DEF BlankBelow
  <2> QED BY <2>1, <2>3
<1> QED BY <1>2, <1>3

\* A write to cells of the cursor's row before column stop.
Fills(v, w, stop) ==
    /\ w \in Contents
    /\ \A a \in Cells : w[a] # v[a] => At(cur_row, 0) <= a /\ a < At(cur_row, 0) + stop

\* It damages nothing above, and nothing below or behind unless it leaves the row.
LEMMA FillsKeeps ==
    ASSUME NEW v \in Contents, NEW w, NEW stop \in Nat, cur_row \in Rows, Fills(v, w, stop),
           stop <= VGA_COLS
    PROVE  /\ BehindKept(v) => BehindKept(w)
           /\ BlankBelow(v, cur_row) => BlankBelow(w, cur_row)
<1>1. /\ VGA_COLS \in Nat \ {0} /\ VGA_ROWS \in Nat /\ cur_row \in Nat /\ Size \in Nat
  BY Sizes DEF Rows
<1>2. /\ At(cur_row + 1, 0) = At(cur_row, 0) + VGA_COLS /\ At(cur_row, 0) \in Nat
      /\ At(cur_row, 0) + VGA_COLS <= Size
  <2>1. VGA_COLS - 1 \in Columns
    BY <1>1 DEF Columns
  <2>2. At(cur_row, VGA_COLS - 1) < Size
    BY <1>1, <2>1, AtInside
  <2>3. VGA_COLS - 1 \in Nat /\ 0 \in Nat
    BY <1>1
  <2>4. /\ At(cur_row, VGA_COLS - 1) = At(cur_row, 0) + (VGA_COLS - 1)
        /\ At(cur_row + 1, 0) = At(cur_row, 0) + VGA_COLS /\ At(cur_row, 0) \in Nat
    BY ONLY <1>1, <2>3, AtRow
  <2> QED BY ONLY <1>1, <2>2, <2>4
<1>3. \A a \in Cells : a \in Nat
  BY <1>1 DEF Cells
<1>4. \A a \in Cells : a >= Size \/ At(cur_row + 1, 0) <= a => w[a] = v[a]
  BY <1>1, <1>2, <1>3 DEF Fills
<1>5. BehindKept(v) => BehindKept(w)
  BY <1>4 DEF BehindKept
<1>6. BlankBelow(v, cur_row) => BlankBelow(w, cur_row)
  BY <1>4 DEF BlankBelow
<1> QED BY <1>5, <1>6

\* The place of the cursor.
LEMMA Cursor ==
    ASSUME TypeOK
    PROVE  /\ vga \in Contents /\ cur_row \in Rows /\ cur_row \in Nat /\ cur_col \in Nat
           /\ At(cur_row, 0) \in Nat /\ At(cur_row, cur_col) = At(cur_row, 0) + cur_col
           /\ \A n \in Nat : At(cur_row, n) = At(cur_row, 0) + n
<1>1. vga \in Contents /\ cur_row \in Rows /\ cur_row \in Nat /\ cur_col \in Nat
  BY Sizes DEF TypeOK, Contents, Rows
<1> QED BY <1>1, AtRow

\* The memory with g at the cursor.
Shown(g) == [vga EXCEPT ![At(cur_row, cur_col)] = g]

\* A character is written in the cursor's row, up to the cursor.
LEMMA GlyphFills ==
    ASSUME TypeOK, NEW g \in Glyph, PutGlyph(g)
    PROVE  Fills(vga, Shown(g), cur_col + 1)
<1>1. /\ vga \in Contents /\ At(cur_row, cur_col) \in Cells
      /\ cur_col \in Nat /\ At(cur_row, 0) \in Nat
      /\ At(cur_row, cur_col) = At(cur_row, 0) + cur_col
  BY Cursor DEF PutGlyph
<1>2. [vga EXCEPT ![At(cur_row, cur_col)] = g] \in Contents
  BY <1>1 DEF Contents
<1>3. \A a \in Cells : [vga EXCEPT ![At(cur_row, cur_col)] = g][a] # vga[a]
                          => a = At(cur_row, cur_col)
  BY <1>1 DEF Contents
<1> QED BY <1>1, <1>2, <1>3 DEF Fills, Shown

\* A backspace blanks the place before the cursor.
LEMMA BackspaceFills ==
    ASSUME TypeOK, Backspace
    PROVE  /\ Fills(vga, vga', cur_col) /\ cur_col > 0
           /\ \A a \in Cells : vga'[a] = IF a = At(cur_row, 0) + cur_col - 1 THEN Blank ELSE vga[a]
<1>1. /\ vga \in Contents /\ cur_col \in Nat /\ At(cur_row, 0) \in Nat /\ cur_col > 0
  BY Cursor DEF Backspace
<1>2. At(cur_row, cur_col - 1) = At(cur_row, 0) + cur_col - 1
  BY <1>1, Cursor
<1>3. vga' = [vga EXCEPT ![At(cur_row, cur_col - 1)] = Blank]
  BY DEF Backspace
<1>4. vga' \in Contents
  BY <1>1, <1>3 DEF Contents
<1>5. \A a \in Cells : vga'[a] = IF a = At(cur_row, 0) + cur_col - 1 THEN Blank ELSE vga[a]
  BY <1>1, <1>2, <1>3 DEF Contents
<1> QED BY <1>1, <1>4, <1>5 DEF Fills

\* A tab blanks from the cursor to the tab stop.
LEMMA TabFills ==
    ASSUME TypeOK, Tab
    PROVE  /\ cur_col' \in Nat /\ cur_col' > cur_col /\ cur_col' <= Size + Beyond
           /\ cur_col' = (cur_col \div TabStop + 1) * TabStop
           /\ Fills(vga, vga', cur_col')
           /\ \A a \in Cells : vga'[a] = IF /\ At(cur_row, 0) + cur_col <= a
                                            /\ a < At(cur_row, 0) + cur_col'
                                         THEN Blank ELSE vga[a]
<1>1. /\ vga \in Contents /\ cur_col \in Nat /\ At(cur_row, 0) \in Nat
      /\ At(cur_row, cur_col) = At(cur_row, 0) + cur_col
      /\ Size \in Nat /\ Beyond \in Nat
  BY Cursor, Sizes
<1>2. cur_col' = ((cur_col + TabStop) \div TabStop) * TabStop
  BY DEF Tab
<1>3. /\ cur_col' \in Nat /\ cur_col' > cur_col
      /\ cur_col' = (cur_col \div TabStop + 1) * TabStop
  BY <1>1, <1>2, TabStops
<1>4. At(cur_row, cur_col' - 1) \in Cells /\ At(cur_row, cur_col' - 1) = At(cur_row, 0) + cur_col' - 1
  BY <1>1, <1>3, Cursor DEF Tab
<1>5. vga' = [a \in Cells |-> IF a \in At(cur_row, cur_col) .. At(cur_row, cur_col' - 1)
                              THEN Blank ELSE vga[a]]
  BY DEF Tab
<1>6. \A a \in Cells : a \in Nat
  BY <1>1 DEF Cells
<1>7. \A a \in Cells : vga'[a] = IF At(cur_row, 0) + cur_col <= a /\ a < At(cur_row, 0) + cur_col'
                                 THEN Blank ELSE vga[a]
  BY <1>1, <1>3, <1>4, <1>5, <1>6
<1>8. vga' \in Contents
  BY <1>1, <1>5 DEF Contents
<1>9. cur_col' <= Size + Beyond
  BY <1>1, <1>3, <1>4 DEF Cells
<1> QED BY <1>1, <1>3, <1>6, <1>7, <1>8, <1>9 DEF Fills

\* A character in the last column or behind it wraps.
LEMMA GlyphMoves ==
    ASSUME TypeOK, NEW g \in Glyph, PutGlyph(g)
    PROVE  \/ cur_col + 1 >= VGA_COLS /\ cur_col' = 0 /\ Down(Shown(g))
           \/ /\ cur_col + 1 < VGA_COLS /\ cur_col' = cur_col + 1
              /\ vga' = Shown(g) /\ cur_row' = cur_row
<1>1. cur_col \in Nat /\ VGA_COLS \in Nat
  BY Cursor, Sizes
<1>2. IF cur_col + 1 >= VGA_COLS
      THEN cur_col' = 0 /\ Down(Shown(g))
      ELSE cur_col' = cur_col + 1 /\ vga' = Shown(g) /\ cur_row' = cur_row
  BY DEF PutGlyph, Shown
<1>3. CASE cur_col + 1 >= VGA_COLS
  BY <1>2, <1>3
<1>4. CASE ~(cur_col + 1 >= VGA_COLS)
  <2>1. cur_col + 1 < VGA_COLS
    BY <1>1, <1>4
  <2> QED BY <1>2, <1>4, <2>1
<1> QED BY <1>3, <1>4

\* Every character printed keeps the invariant.
LEMMA NextIInv == IInv /\ [Next]_vars => IInv'
<1> SUFFICES ASSUME IInv, [Next]_vars PROVE IInv'
  OBVIOUS
<1>0. /\ VGA_COLS \in Nat \ {0} /\ VGA_ROWS \in Nat \ {0} /\ Size \in Nat /\ Beyond \in Nat
      /\ TypeOK /\ vga \in Contents /\ cur_row \in Rows /\ cur_row \in Nat /\ cur_col \in Nat
      /\ cur_col <= Size + Beyond /\ edge \in BOOLEAN /\ hung \in BOOLEAN
  BY Sizes, Cursor DEF IInv, TypeOK
<1>1. VGA_COLS <= Size
  <2>1. VGA_COLS - 1 \in Columns /\ 0 \in Rows
    BY <1>0 DEF Columns, Rows
  <2>2. At(0, VGA_COLS - 1) < Size /\ At(0, VGA_COLS - 1) = At(0, 0) + VGA_COLS - 1
    BY <1>0, <2>1, AtInside, AtRow
  <2> QED BY <1>0, <2>2 DEF At
<1>2. CASE UNCHANGED vars
  BY <1>2 DEF vars, IInv, TypeOK, BehindKept, BlankBelow
<1> SUFFICES ASSUME PutChar PROVE /\ vga' \in Contents /\ cur_row' \in Rows
                                  /\ cur_col' \in 0 .. Size + Beyond /\ edge' \in BOOLEAN
                                  /\ edge' \/ ( /\ cur_col' < VGA_COLS /\ BehindKept(vga')
                                               /\ BlankBelow(vga', cur_row'))
  <2>1. CASE tty_putchar \/ tty_vfs_write
    <3>1. hung' \in BOOLEAN /\ PutChar
      BY <1>0, <2>1 DEF tty_putchar, tty_vfs_write
    <3>2. /\ vga' \in Contents /\ cur_row' \in Rows
          /\ cur_col' \in 0 .. Size + Beyond /\ edge' \in BOOLEAN
          /\ edge' \/ (cur_col' < VGA_COLS /\ BehindKept(vga') /\ BlankBelow(vga', cur_row'))
      BY <3>1
    <3>3. TypeOK'
      BY <3>1, <3>2 DEF TypeOK, Contents, Rows
    <3>4. (edge \/ (cur_col < VGA_COLS /\ BehindKept(vga) /\ BlankBelow(vga, cur_row)))'
      BY <3>2 DEF BehindKept, BlankBelow
    <3> QED BY <3>3, <3>4 DEF IInv
  <2> QED BY <1>2, <2>1 DEF Next
<1>3. edge \/ (cur_col < VGA_COLS /\ BehindKept(vga) /\ BlankBelow(vga, cur_row))
  BY DEF IInv
<1>4. CASE NewLine
  <2>1. /\ vga' \in Contents /\ cur_row' \in Rows
        /\ BehindKept(vga) => BehindKept(vga')
        /\ BlankBelow(vga, cur_row) => BlankBelow(vga', cur_row')
    BY <1>0, <1>4, DownKeeps DEF NewLine
  <2> QED BY <1>0, <1>3, <1>4, <2>1 DEF NewLine
<1>5. CASE CarriageReturn
  BY <1>0, <1>3, <1>5 DEF CarriageReturn
<1>6. CASE Backspace
  <2>1. Fills(vga, vga', cur_col) /\ cur_col > 0
    BY <1>0, <1>6, BackspaceFills
  <2>2. cur_col' = cur_col - 1 /\ cur_row' = cur_row /\ edge' = edge
    BY <1>6 DEF Backspace
  <2>3. CASE edge
    BY <1>0, <2>1, <2>2, <2>3 DEF Fills
  <2>4. CASE ~edge
    <3>1. BehindKept(vga') /\ BlankBelow(vga', cur_row)
      BY <1>0, <1>3, <2>1, <2>4, FillsKeeps
    <3> QED BY <1>0, <1>3, <2>1, <2>2, <2>4, <3>1 DEF Fills
  <2> QED BY <2>3, <2>4
<1>7. CASE Tab
  <2>1. /\ cur_col' \in Nat /\ cur_col' > cur_col /\ cur_col' <= Size + Beyond
        /\ Fills(vga, vga', cur_col')
    BY <1>0, <1>7, TabFills
  <2>2. cur_row' = cur_row /\ edge' = (edge \/ cur_col' >= VGA_COLS) /\ edge' \in BOOLEAN
    BY <1>0, <1>7 DEF Tab
  <2>3. CASE edge'
    BY <1>0, <2>1, <2>2, <2>3 DEF Fills
  <2>4. CASE ~edge'
    <3>0. ~edge /\ ~(cur_col' >= VGA_COLS)
      BY <2>2, <2>4
    <3>1. ~edge /\ cur_col' < VGA_COLS
      BY <1>0, <2>1, <3>0
    <3>2. BehindKept(vga') /\ BlankBelow(vga', cur_row)
      BY <1>0, <1>3, <2>1, <3>1, FillsKeeps
    <3> QED BY <1>0, <2>1, <2>2, <3>1, <3>2 DEF Fills
  <2> QED BY <2>3, <2>4
<1>8. ASSUME NEW g \in Glyph, PutGlyph(g)
      PROVE  /\ vga' \in Contents /\ cur_row' \in Rows
             /\ cur_col' \in 0 .. Size + Beyond /\ edge' \in BOOLEAN
             /\ edge' \/ (cur_col' < VGA_COLS /\ BehindKept(vga') /\ BlankBelow(vga', cur_row'))
  <2> DEFINE v == Shown(g)
  <2>1. Fills(vga, v, cur_col + 1)
    BY <1>0, <1>8, GlyphFills
  <2>2. \/ cur_col + 1 >= VGA_COLS /\ cur_col' = 0 /\ Down(v)
        \/ cur_col + 1 < VGA_COLS /\ cur_col' = cur_col + 1 /\ vga' = v /\ cur_row' = cur_row
    BY <1>0, <1>8, GlyphMoves
  <2>3. edge' = edge
    BY <1>8 DEF PutGlyph
  <2> HIDE DEF v
  <2>4. v \in Contents
    BY <2>1 DEF Fills
  <2>5. ~edge => BehindKept(v) /\ BlankBelow(v, cur_row)
    <3> SUFFICES ASSUME ~edge PROVE BehindKept(v) /\ BlankBelow(v, cur_row)
      OBVIOUS
    <3>1. cur_col + 1 \in Nat /\ cur_col + 1 <= VGA_COLS
      BY <1>0, <1>3
    <3> QED BY <1>0, <1>3, <2>1, <3>1, FillsKeeps
  <2>6. CASE cur_col + 1 >= VGA_COLS /\ cur_col' = 0 /\ Down(v)
    <3>1. /\ vga' \in Contents /\ cur_row' \in Rows
          /\ BehindKept(v) => BehindKept(vga')
          /\ BlankBelow(v, cur_row) => BlankBelow(vga', cur_row')
      BY <1>0, <2>4, <2>6, DownKeeps
    <3> QED BY <1>0, <2>3, <2>5, <2>6, <3>1
  <2>7. CASE cur_col + 1 < VGA_COLS /\ cur_col' = cur_col + 1 /\ vga' = v /\ cur_row' = cur_row
    BY <1>0, <1>1, <2>3, <2>4, <2>5, <2>7
  <2> QED BY <2>2, <2>6, <2>7
<1> QED BY <1>4, <1>5, <1>6, <1>7, <1>8 DEF PutChar

\* The invariant of the screen, for every size of it.
THEOREM Inductive == Spec => []IInv
BY InitIInv, NextIInv, PTL DEF Spec

\* Only a tab takes the cursor past the last column or writes behind the screen.
THEOREM AlwaysInside == Spec => []InsideUnlessTab
<1>1. IInv => InsideUnlessTab
  BY DEF IInv, InsideUnlessTab, BehindKept
<1> QED BY <1>1, Inductive, PTL

-----------------------------------------------------------------------------
(* The lines above the cursor.                                             *)

LineOf == 1 .. VGA_COLS
Blanks == [c \in LineOf |-> Blank]

\* The cells of a row.
LEMMA RowCells ==
    ASSUME NEW r \in Rows, NEW c \in LineOf
    PROVE  /\ c - 1 \in Columns /\ At(r, c - 1) \in Cells /\ At(r, c - 1) < Size
           /\ At(r, c - 1) = At(r, 0) + c - 1 /\ At(r, 0) \in Nat
<1>1. VGA_COLS \in Nat \ {0} /\ c - 1 \in Columns /\ c - 1 \in Nat /\ r \in Nat
  BY Sizes DEF Columns, LineOf, Rows
<1>2. At(r, c - 1) \in 0 .. Size - 1 /\ At(r, c - 1) \in Cells
  BY <1>1, AtInside
<1> QED BY <1>1, <1>2, AtRow, Sizes

\* Two memories show the same in a row if its cells agree.
LEMMA RowSame ==
    ASSUME NEW v, NEW w, NEW r, NEW q,
           \A c \in LineOf : w[At(r, c - 1)] = v[At(q, c - 1)]
    PROVE  Row(w, r) = Row(v, q)
BY DEF Row, LineOf

\* A write in the cursor's row leaves the rows above alone.
LEMMA FillsAbove ==
    ASSUME TypeOK, NEW w, NEW stop, Fills(vga, w, stop), NEW r \in Nat, r < cur_row
    PROVE  Row(w, r) = Row(vga, r)
<1>1. /\ cur_row \in Nat /\ cur_row \in Rows /\ r \in Rows /\ VGA_COLS \in Nat \ {0}
      /\ At(cur_row, 0) \in Nat
  BY Cursor, Sizes DEF Rows
<1>2. ASSUME NEW c \in LineOf PROVE w[At(r, c - 1)] = vga[At(r, c - 1)]
  <2>1. c - 1 \in Columns /\ At(r, c - 1) \in Cells
    BY <1>1, RowCells
  <2>2. At(r, c - 1) < At(cur_row, 0)
    BY <1>1, <2>1, AtOrder
  <2>3. At(r, c - 1) \in Nat
    BY <1>1, <2>1, Sizes DEF Cells
  <2> QED BY <1>1, <2>1, <2>2, <2>3 DEF Fills
<1> QED BY <1>2, RowSame

\* A scroll moves every row up by one and blanks the last.
LEMMA ScrollRows ==
    ASSUME NEW v \in Contents
    PROVE  /\ \A r \in 0 .. VGA_ROWS - 2 : Row(vga_scroll(v), r) = Row(v, r + 1)
           /\ Row(vga_scroll(v), VGA_ROWS - 1) = Blanks
<1>0. VGA_ROWS \in Nat \ {0} /\ VGA_COLS \in Nat \ {0} /\ Size \in Nat
  BY Sizes
<1>1. ASSUME NEW r \in 0 .. VGA_ROWS - 2 PROVE Row(vga_scroll(v), r) = Row(v, r + 1)
  <2>1. r \in Rows /\ r + 1 \in Rows /\ r \in Nat
    BY <1>0, <1>1 DEF Rows
  <2>2. ASSUME NEW c \in LineOf PROVE vga_scroll(v)[At(r, c - 1)] = v[At(r + 1, c - 1)]
    <3>1. /\ At(r, c - 1) \in Cells /\ At(r + 1, c - 1) < Size
          /\ c - 1 \in Nat
      BY <2>1, RowCells, <1>0 DEF Columns
    <3>2. At(r + 1, c - 1) = At(r, c - 1) + VGA_COLS /\ At(r, c - 1) \in Nat
      BY <2>1, <3>1, AtRow
    <3>3. At(r, c - 1) < Size - VGA_COLS
      BY <1>0, <3>1, <3>2
    <3> QED BY <3>1, <3>2, <3>3, Scrolled
  <2> QED BY <2>2, RowSame
<1>2. ASSUME NEW c \in LineOf PROVE vga_scroll(v)[At(VGA_ROWS - 1, c - 1)] = Blank
  <2>1. VGA_ROWS - 1 \in Rows
    BY <1>0 DEF Rows
  <2>2. /\ At(VGA_ROWS - 1, c - 1) \in Cells /\ At(VGA_ROWS - 1, c - 1) < Size
        /\ At(VGA_ROWS - 1, c - 1) = At(VGA_ROWS - 1, 0) + c - 1
        /\ At(VGA_ROWS - 1, 0) \in Nat
    BY <2>1, RowCells
  <2>3. Size - VGA_COLS <= At(VGA_ROWS - 1, c - 1)
    BY <1>0, <2>2, Sizes DEF LineOf
  <2> QED BY <2>2, <2>3, Scrolled
<1>3. Row(vga_scroll(v), VGA_ROWS - 1) = Blanks
  BY <1>2 DEF Row, Blanks, LineOf
<1> QED BY <1>1, <1>3

\* Down, in terms of rows.
LEMMA DownRows ==
    ASSUME NEW v \in Contents, cur_row \in Rows, Down(v)
    PROVE  \/ cur_row + 1 < VGA_ROWS /\ vga' = v /\ cur_row' = cur_row + 1
           \/ /\ cur_row = VGA_ROWS - 1 /\ cur_row' = cur_row
              /\ \A r \in 0 .. cur_row - 1 : Row(vga', r) = Row(v, r + 1)
              /\ Row(vga', cur_row) = Blanks
<1>0. VGA_ROWS \in Nat \ {0} /\ cur_row \in Nat /\ cur_row < VGA_ROWS
  BY Sizes DEF Rows
<1>1. CASE cur_row + 1 >= VGA_ROWS
  <2>1. cur_row = VGA_ROWS - 1 /\ cur_row' = cur_row /\ vga' = vga_scroll(v)
    BY <1>0, <1>1 DEF Down
  <2>2. 0 .. cur_row - 1 = 0 .. VGA_ROWS - 2
    BY <1>0, <2>1
  <2>3. /\ \A r \in 0 .. cur_row - 1 : Row(vga', r) = Row(v, r + 1)
        /\ Row(vga', cur_row) = Blanks
    BY <2>1, <2>2, ScrollRows
  <2> QED BY <2>1, <2>3
<1>2. CASE ~(cur_row + 1 >= VGA_ROWS)
  <2>1. cur_row + 1 < VGA_ROWS
    BY <1>0, <1>2
  <2> QED BY <1>2, <2>1 DEF Down
<1> QED BY <1>1, <1>2

\* What a step does to the lines above the cursor.
AboveKept ==
    \/ \A r \in 0 .. cur_row - 1 : Row(vga', r) = Row(vga, r)
    \/ /\ cur_row = VGA_ROWS - 1 /\ cur_row' = cur_row
       /\ \A r \in 0 .. cur_row - 2 : Row(vga', r) = Row(vga, r + 1)

\* The same of a write followed by a move down.
LEMMA DownAbove ==
    ASSUME TypeOK, NEW v \in Contents, Down(v),
           \A r \in 0 .. cur_row - 1 : Row(v, r) = Row(vga, r)
    PROVE  AboveKept
<1>0. cur_row \in Rows /\ cur_row \in Nat
  BY Cursor
<1>1. CASE vga' = v
  BY <1>1 DEF AboveKept
<1>2. CASE /\ cur_row = VGA_ROWS - 1 /\ cur_row' = cur_row
           /\ \A r \in 0 .. cur_row - 1 : Row(vga', r) = Row(v, r + 1)
  <2>1. ASSUME NEW r \in 0 .. cur_row - 2 PROVE Row(vga', r) = Row(vga, r + 1)
    <3>1. r \in 0 .. cur_row - 1 /\ r + 1 \in 0 .. cur_row - 1
      BY <1>0, <2>1
    <3> QED BY <1>2, <3>1
  <2> QED BY <1>2, <2>1 DEF AboveKept
<1> QED BY <1>0, <1>1, <1>2, DownRows

\* Every step keeps the lines above the cursor.
LEMMA NextAbove == IInv /\ [Next]_vars => AboveKept
<1> SUFFICES ASSUME IInv, [Next]_vars PROVE AboveKept
  OBVIOUS
<1>0. TypeOK /\ vga \in Contents /\ cur_row \in Nat
  BY Cursor DEF IInv
<1>1. CASE vga' = vga
  BY <1>1 DEF AboveKept
<1>2. ASSUME NEW stop, Fills(vga, vga', stop) PROVE AboveKept
  BY <1>0, <1>2, FillsAbove DEF AboveKept
<1>3. CASE NewLine
  BY <1>0, <1>3, DownAbove DEF NewLine
<1>4. CASE Backspace
  BY <1>0, <1>2, <1>4, BackspaceFills
<1>5. CASE Tab
  BY <1>0, <1>2, <1>5, TabFills
<1>6. ASSUME NEW g \in Glyph, PutGlyph(g) PROVE AboveKept
  <2>1. Fills(vga, Shown(g), cur_col + 1) /\ Shown(g) \in Contents
    BY <1>0, <1>6, GlyphFills DEF Fills
  <2>2. \A r \in 0 .. cur_row - 1 : Row(Shown(g), r) = Row(vga, r)
    BY <1>0, <2>1, FillsAbove
  <2>3. Down(Shown(g)) \/ vga' = Shown(g)
    BY <1>0, <1>6, GlyphMoves
  <2> QED BY <1>0, <2>1, <2>2, <2>3, DownAbove DEF AboveKept
<1> QED BY <1>1, <1>3, <1>4, <1>5, <1>6
        DEF Next, tty_putchar, tty_vfs_write, PutChar, CarriageReturn, vars

\* Whatever is printed, the lines above the cursor stay, or all move up by one.
THEOREM LinesAboveAlwaysKept == Spec => LinesAboveKept
<1>1. IInv /\ [Next]_vars => [AboveKept]_vars
  BY NextAbove
<1> QED BY <1>1, Inductive, PTL DEF Spec, LinesAboveKept, AboveKept

-----------------------------------------------------------------------------
(* The screen implements Terminal.                                         *)

Rolled(v, row) == [i \in 1 .. row + 1 |-> Row(v, i - 1)]

\* The lines shown are a sequence, the cursor's is the last.
LEMMA LinesSeq ==
    ASSUME NEW v, NEW row \in Nat
    PROVE  /\ Rolled(v, row) \in Seq({Row(v, r) : r \in 0 .. row})
           /\ Len(Rolled(v, row)) = row + 1
           /\ \A i \in 1 .. row + 1 : Rolled(v, row)[i] = Row(v, i - 1)
           /\ Rolled(v, row)[row + 1] = Row(v, row)
<1>1. \A i \in 1 .. row + 1 : i - 1 \in 0 .. row /\ Rolled(v, row)[i] = Row(v, i - 1)
  BY DEF Rolled
<1>2. Rolled(v, row) \in [1 .. row + 1 -> {Row(v, r) : r \in 0 .. row}]
  BY <1>1 DEF Rolled
<1>3. row + 1 \in Nat /\ row + 1 \in 1 .. row + 1 /\ row + 1 - 1 = row
  OBVIOUS
<1> HIDE DEF Rolled
<1> QED BY <1>1, <1>2, <1>3

\* Two memories that show the same rows but for the last.
LEMMA LinesRewritten ==
    ASSUME NEW v, NEW w, NEW row \in Nat, NEW l,
           \A r \in 0 .. row - 1 : Row(w, r) = Row(v, r), Row(w, row) = l
    PROVE  Rolled(w, row) = [Rolled(v, row) EXCEPT ![Len(Rolled(v, row))] = l]
<1>1. Len(Rolled(v, row)) = row + 1
  BY LinesSeq
<1>2. \A i \in 1 .. row + 1 : Row(w, i - 1) = IF i = row + 1 THEN l ELSE Row(v, i - 1)
  <2> SUFFICES ASSUME NEW i \in 1 .. row + 1
               PROVE  Row(w, i - 1) = IF i = row + 1 THEN l ELSE Row(v, i - 1)
    OBVIOUS
  <2>1. CASE i = row + 1
    <3>1. i - 1 = row
      BY <2>1
    <3> QED BY <2>1, <3>1
  <2>2. CASE i # row + 1
    <3>1. i - 1 \in 0 .. row - 1
      BY <2>2
    <3> QED BY <2>2, <3>1
  <2> QED BY <2>1, <2>2
<1> QED BY <1>1, <1>2 DEF Rolled

\* What Append(s, e) is.
LEMMA Appended ==
    ASSUME NEW S, NEW s \in Seq(S), NEW e, NEW n \in Nat, Len(s) = n
    PROVE  /\ Append(s, e) = [i \in 1 .. n + 1 |-> Append(s, e)[i]]
           /\ \A i \in 1 .. n : Append(s, e)[i] = s[i]
           /\ Append(s, e)[n + 1] = e
<1>1. s \in Seq(S \cup {e}) /\ e \in S \cup {e}
  OBVIOUS
<1>2. /\ Append(s, e) \in Seq(S \cup {e}) /\ Len(Append(s, e)) = n + 1
      /\ \A i \in 1 .. n : Append(s, e)[i] = s[i]
      /\ Append(s, e)[n + 1] = e
  BY <1>1, AppendProperties
<1> DEFINE a == Append(s, e)
<1> HIDE DEF a
<1>3. a \in [1 .. Len(a) -> S \cup {e}] /\ Len(a) = n + 1
  BY <1>2, LenProperties DEF a
<1>4. a = [i \in 1 .. n + 1 |-> a[i]]
  BY <1>3
<1> QED BY <1>2, <1>4 DEF a

\* A move down is Advanced of Terminal.
LEMMA LinesAdvanced ==
    ASSUME NEW v \in Contents, cur_row \in Rows, Down(v), BlankBelow(v, cur_row)
    PROVE  Rolled(vga', cur_row') = Console!Advanced(Rolled(v, cur_row))
<1>0. /\ VGA_ROWS \in Nat \ {0} /\ cur_row \in Nat /\ cur_row < VGA_ROWS
      /\ Console!Empty = Blanks
  BY Sizes DEF Rows, Console!Empty, Blanks, LineOf
<1> DEFINE ls == Rolled(v, cur_row)
<1>1. /\ ls \in Seq({Row(v, r) : r \in 0 .. cur_row}) /\ Len(ls) = cur_row + 1
      /\ \A i \in 1 .. cur_row + 1 : ls[i] = Row(v, i - 1)
  BY <1>0, LinesSeq
<1> HIDE DEF ls
<1>2. CASE cur_row + 1 < VGA_ROWS /\ vga' = v /\ cur_row' = cur_row + 1
  <2>1. Row(v, cur_row + 1) = Blanks
    <3>1. cur_row + 1 \in Rows
      BY <1>0, <1>2 DEF Rows
    <3>2. ASSUME NEW c \in LineOf PROVE v[At(cur_row + 1, c - 1)] = Blank
      <4>1. /\ At(cur_row + 1, c - 1) \in Cells /\ At(cur_row + 1, c - 1) < Size
            /\ At(cur_row + 1, c - 1) = At(cur_row + 1, 0) + c - 1
            /\ At(cur_row + 1, 0) \in Nat
        BY <3>1, RowCells
      <4>2. At(cur_row + 1, 0) <= At(cur_row + 1, c - 1)
        BY <4>1, Sizes DEF LineOf
      <4> QED BY <4>1, <4>2 DEF BlankBelow
    <3> QED BY <3>2 DEF Row, Blanks, LineOf
  <2>2. Rolled(vga', cur_row') = Append(ls, Blanks)
    <3>1. /\ Append(ls, Blanks) = [i \in 1 .. cur_row + 2 |-> Append(ls, Blanks)[i]]
          /\ \A i \in 1 .. cur_row + 1 : Append(ls, Blanks)[i] = ls[i]
          /\ Append(ls, Blanks)[cur_row + 2] = Blanks
      <4>1. cur_row + 1 \in Nat /\ cur_row + 1 + 1 = cur_row + 2
        BY <1>0
      <4> QED BY <1>1, <4>1, Appended
    <3>2. ASSUME NEW i \in 1 .. cur_row + 2 PROVE Row(v, i - 1) = Append(ls, Blanks)[i]
      <4>1. CASE i = cur_row + 2
        <5>1. i - 1 = cur_row + 1
          BY <1>0, <4>1
        <5> QED BY <2>1, <3>1, <4>1, <5>1
      <4>2. CASE i # cur_row + 2
        <5>1. i \in 1 .. cur_row + 1
          BY <1>0, <4>2
        <5> QED BY <1>1, <3>1, <5>1
      <4> QED BY <4>1, <4>2
    <3>3. cur_row' + 1 = cur_row + 2
      BY <1>0, <1>2
    <3>4. Rolled(vga', cur_row') = [i \in 1 .. cur_row + 2 |-> Row(v, i - 1)]
      BY <1>2, <3>3 DEF Rolled
    <3> QED BY <3>1, <3>2, <3>4
  <2>3. Len(ls) # VGA_ROWS
    BY <1>0, <1>1, <1>2
  <2> QED BY <1>0, <2>2, <2>3 DEF Console!Advanced, ls
<1>3. CASE /\ cur_row = VGA_ROWS - 1 /\ cur_row' = cur_row
           /\ \A r \in 0 .. cur_row - 1 : Row(vga', r) = Row(v, r + 1)
           /\ Row(vga', cur_row) = Blanks
  <2>1. /\ Len(ls) = VGA_ROWS /\ ls # <<>>
    BY <1>0, <1>1, <1>3
  <2>2. /\ Tail(ls) \in Seq({Row(v, r) : r \in 0 .. cur_row}) /\ Len(Tail(ls)) = cur_row
        /\ \A i \in 1 .. cur_row : Tail(ls)[i] = ls[i + 1]
    BY <1>0, <1>1, <2>1
  <2> DEFINE tl == Tail(ls)
  <2> HIDE DEF tl
  <2>3. Rolled(vga', cur_row') = Append(tl, Blanks)
    <3>0. tl \in Seq({Row(v, r) : r \in 0 .. cur_row}) /\ Len(tl) = cur_row
      BY <2>2 DEF tl
    <3>1. /\ Append(tl, Blanks) = [i \in 1 .. cur_row + 1 |-> Append(tl, Blanks)[i]]
          /\ \A i \in 1 .. cur_row : Append(tl, Blanks)[i] = tl[i]
          /\ Append(tl, Blanks)[cur_row + 1] = Blanks
      BY <1>0, <3>0, Appended
    <3>2. ASSUME NEW i \in 1 .. cur_row + 1 PROVE Row(vga', i - 1) = Append(tl, Blanks)[i]
      <4>1. CASE i = cur_row + 1
        <5>1. i - 1 = cur_row
          BY <1>0, <4>1
        <5> QED BY <1>3, <3>1, <4>1, <5>1
      <4>2. CASE i # cur_row + 1
        <5>1. i \in 1 .. cur_row /\ i - 1 \in 0 .. cur_row - 1 /\ i - 1 + 1 = i
              /\ i + 1 \in 1 .. cur_row + 1 /\ i + 1 - 1 = i
          BY <1>0, <4>2
        <5>2. Row(vga', i - 1) = Row(v, i)
          BY <1>3, <5>1
        <5>3. tl[i] = Row(v, i)
          BY <1>1, <2>2, <5>1 DEF tl
        <5> QED BY <3>1, <5>1, <5>2, <5>3
      <4> QED BY <4>1, <4>2
    <3>3. Rolled(vga', cur_row') = [i \in 1 .. cur_row + 1 |-> Row(vga', i - 1)]
      BY <1>3 DEF Rolled
    <3> QED BY <3>1, <3>2, <3>3
  <2> QED BY <1>0, <2>1, <2>3 DEF Console!Advanced, ls, tl
<1> QED BY <1>0, <1>2, <1>3, DownRows

\* Terminal's view of the screen.
LEMMA ViewIs ==
    ASSUME TypeOK
    PROVE  /\ Console!Current = Row(vga, cur_row)
           /\ \A l : Console!Rewrite(l)
                       = [Rolled(vga, cur_row) EXCEPT ![Len(Rolled(vga, cur_row))] = l]
<1>1. cur_row \in Nat
  BY Cursor
<1>2. Console!Current = Rolled(vga, cur_row)[Len(Rolled(vga, cur_row))]
  BY DEF Console!Current, Rolled
<1>3. Rolled(vga, cur_row)[Len(Rolled(vga, cur_row))] = Row(vga, cur_row)
  BY <1>1, LinesSeq
<1> QED BY <1>2, <1>3 DEF Console!Rewrite, Rolled

\* The cursor's row after each kind of write.
LEMMA GlyphRow ==
    ASSUME TypeOK, cur_col < VGA_COLS, NEW g
    PROVE  Row(Shown(g), cur_row) = [Row(vga, cur_row) EXCEPT ![cur_col + 1] = g]
<1>1. /\ cur_row \in Rows /\ cur_col \in Nat /\ vga \in Contents
      /\ At(cur_row, cur_col) = At(cur_row, 0) + cur_col /\ At(cur_row, 0) \in Nat
  BY Cursor
<1>2. ASSUME NEW c \in LineOf
      PROVE  Shown(g)[At(cur_row, c - 1)]
               = IF c = cur_col + 1 THEN g ELSE vga[At(cur_row, c - 1)]
  <2>1. At(cur_row, c - 1) \in Cells /\ At(cur_row, c - 1) = At(cur_row, 0) + c - 1
    BY <1>1, RowCells
  <2>2. At(cur_row, c - 1) = At(cur_row, cur_col) <=> c = cur_col + 1
    BY <1>1, <2>1, Sizes DEF LineOf
  <2> QED BY <1>1, <2>1, <2>2 DEF Shown, Contents
<1> QED BY <1>2 DEF Row, LineOf

\* A backspace blanks the character before the cursor.
LEMMA BackspaceRow ==
    ASSUME TypeOK, Backspace
    PROVE  Row(vga', cur_row) = [Row(vga, cur_row) EXCEPT ![cur_col] = Blank]
<1>1. /\ cur_row \in Rows /\ cur_col \in Nat /\ At(cur_row, 0) \in Nat
      /\ \A a \in Cells : vga'[a] = IF a = At(cur_row, 0) + cur_col - 1 THEN Blank ELSE vga[a]
  BY Cursor, BackspaceFills
<1>2. ASSUME NEW c \in LineOf
      PROVE  vga'[At(cur_row, c - 1)] = IF c = cur_col THEN Blank ELSE vga[At(cur_row, c - 1)]
  <2>1. At(cur_row, c - 1) \in Cells /\ At(cur_row, c - 1) = At(cur_row, 0) + c - 1
    BY <1>1, RowCells
  <2>2. At(cur_row, c - 1) = At(cur_row, 0) + cur_col - 1 <=> c = cur_col
    BY <1>1, <2>1, Sizes DEF LineOf
  <2> QED BY <1>1, <2>1, <2>2
<1> QED BY <1>2 DEF Row, LineOf

\* A tab blanks from the cursor to the stop.
LEMMA TabRow ==
    ASSUME TypeOK, Tab
    PROVE  Row(vga', cur_row) = [c \in 1 .. VGA_COLS |-> IF c \in cur_col + 1 .. cur_col'
                                                         THEN Blank ELSE Row(vga, cur_row)[c]]
<1>1. /\ cur_row \in Rows /\ cur_col \in Nat /\ At(cur_row, 0) \in Nat /\ cur_col' \in Nat
      /\ \A a \in Cells : vga'[a] = IF /\ At(cur_row, 0) + cur_col <= a
                                       /\ a < At(cur_row, 0) + cur_col'
                                    THEN Blank ELSE vga[a]
  BY Cursor, TabFills
<1>2. ASSUME NEW c \in LineOf
      PROVE  vga'[At(cur_row, c - 1)]
               = IF c \in cur_col + 1 .. cur_col' THEN Blank ELSE Row(vga, cur_row)[c]
  <2>1. At(cur_row, c - 1) \in Cells /\ At(cur_row, c - 1) = At(cur_row, 0) + c - 1
    BY <1>1, RowCells
  <2>2. c \in cur_col + 1 .. cur_col' <=> /\ At(cur_row, 0) + cur_col <= At(cur_row, c - 1)
                                          /\ At(cur_row, c - 1) < At(cur_row, 0) + cur_col'
    BY <1>1, <2>1, Sizes DEF LineOf
  <2>3. Row(vga, cur_row)[c] = vga[At(cur_row, c - 1)]
    BY DEF Row, LineOf
  <2> QED BY <1>1, <2>1, <2>2, <2>3
<1> QED BY <1>2 DEF Row, LineOf

\* Every step of the screen is one of Terminal, or a tab reaches the edge.
LEMMA NextTerminal ==
    IInv /\ [Next]_vars
      => [Console!Show \/ Console!Tear]_<<[i \in 1 .. cur_row + 1 |-> Row(vga, i - 1)], cur_col, edge>>
<1> SUFFICES ASSUME IInv, [Next]_vars
             PROVE  \/ Console!Show \/ Console!Tear
                    \/ UNCHANGED <<[i \in 1 .. cur_row + 1 |-> Row(vga, i - 1)], cur_col, edge>>
  OBVIOUS
<1> DEFINE ls == Rolled(vga, cur_row)
           lsNext == Rolled(vga', cur_row')
<1>0. /\ TypeOK /\ IInv' /\ edge \in BOOLEAN /\ edge' \in BOOLEAN /\ cur_row \in Nat
      /\ cur_row \in Rows /\ cur_col \in Nat /\ vga \in Contents /\ VGA_COLS \in Nat \ {0}
  BY Cursor, NextIInv, Sizes DEF IInv, TypeOK
<1>1. CASE edge'
  BY <1>1 DEF Console!Tear
<1>2. CASE UNCHANGED vars
  BY <1>2 DEF vars
<1> SUFFICES ASSUME ~edge', PutChar
             PROVE  /\ ~edge
                    /\ \/ lsNext = Console!Advanced(ls) /\ cur_col' = 0
                       \/ lsNext = ls /\ cur_col' = 0
                       \/ Console!Erase \/ Console!Skip
                       \/ \E g \in Glyph : Console!Type(g)
  <2>1. CASE ~edge' /\ Next
    <3>1. PutChar
      BY <2>1 DEF Next, tty_putchar, tty_vfs_write
    <3>2. /\ ~edge
          /\ \/ lsNext = Console!Advanced(ls) /\ cur_col' = 0
             \/ lsNext = ls /\ cur_col' = 0
             \/ Console!Erase \/ Console!Skip
             \/ \E g \in Glyph : Console!Type(g)
      BY <2>1, <3>1
    <3>3. edge' = edge
      BY <1>0, <2>1, <3>2
    <3> QED BY <3>2, <3>3 DEF Rolled, Console!Show, Console!NewLine, Console!Return
  <2> QED BY <1>1, <1>2, <2>1
<1>3. /\ cur_col < VGA_COLS /\ BlankBelow(vga, cur_row) /\ ~edge
  <2>1. ~edge
    BY DEF PutChar, NewLine, CarriageReturn, Backspace, Tab, PutGlyph
  <2> QED BY <2>1 DEF IInv
<1>4. CASE NewLine
  BY <1>0, <1>3, <1>4, LinesAdvanced DEF NewLine
<1>5. CASE CarriageReturn
  BY <1>3, <1>5 DEF CarriageReturn
<1>6. CASE Backspace
  <2>1. /\ cur_col > 0 /\ cur_col' = cur_col - 1 /\ cur_row' = cur_row
        /\ Fills(vga, vga', cur_col)
    BY <1>0, <1>6, BackspaceFills DEF Backspace
  <2>2. \A r \in 0 .. cur_row - 1 : Row(vga', r) = Row(vga, r)
    BY <1>0, <2>1, FillsAbove
  <2>3. lsNext = Console!Rewrite([Console!Current EXCEPT ![cur_col] = Blank])
    <3> DEFINE l == [Console!Current EXCEPT ![cur_col] = Blank]
    <3>1. Row(vga', cur_row) = l
      BY <1>0, <1>6, BackspaceRow, ViewIs
    <3> HIDE DEF l
    <3>2. Rolled(vga', cur_row) = [ls EXCEPT ![Len(ls)] = l]
      BY <1>0, <2>2, <3>1, LinesRewritten
    <3>3. Console!Rewrite(l) = [ls EXCEPT ![Len(ls)] = l]
      BY <1>0, ViewIs
    <3> QED BY <2>1, <3>2, <3>3 DEF l
  <2>4. Console!Erase
    BY <2>1, <2>3 DEF Console!Erase, Rolled
  <2> QED BY <1>3, <2>4
<1>7. CASE Tab
  <2>1. /\ cur_col' \in Nat /\ cur_col' = (cur_col \div TabStop + 1) * TabStop
        /\ Fills(vga, vga', cur_col') /\ cur_row' = cur_row
    BY <1>0, <1>7, TabFills DEF Tab
  <2>2. cur_col' < VGA_COLS
    BY <1>0, NextIInv DEF IInv
  <2>3. \A r \in 0 .. cur_row - 1 : Row(vga', r) = Row(vga, r)
    BY <1>0, <2>1, FillsAbove
  <2>4. lsNext = Console!Rewrite([c \in 1 .. VGA_COLS |->
                    IF c \in cur_col + 1 .. cur_col' THEN Blank ELSE Console!Current[c]])
    <3> DEFINE l == [c \in 1 .. VGA_COLS |->
                       IF c \in cur_col + 1 .. cur_col' THEN Blank ELSE Console!Current[c]]
    <3>1. Row(vga', cur_row) = l
      BY <1>0, <1>7, TabRow, ViewIs
    <3> HIDE DEF l
    <3>2. Rolled(vga', cur_row) = [ls EXCEPT ![Len(ls)] = l]
      BY <1>0, <2>3, <3>1, LinesRewritten
    <3>3. Console!Rewrite(l) = [ls EXCEPT ![Len(ls)] = l]
      BY <1>0, ViewIs
    <3> QED BY <2>1, <3>2, <3>3 DEF l
  <2>5. Console!Skip
    BY <2>1, <2>2, <2>4 DEF Console!Skip, Rolled
  <2> QED BY <1>3, <2>5
<1>8. ASSUME NEW g \in Glyph, PutGlyph(g) PROVE Console!Type(g)
  <2>1. /\ Fills(vga, Shown(g), cur_col + 1) /\ Shown(g) \in Contents
        /\ \A r \in 0 .. cur_row - 1 : Row(Shown(g), r) = Row(vga, r)
    BY <1>0, <1>8, GlyphFills, FillsAbove DEF Fills
  <2> DEFINE done == Console!Rewrite([Console!Current EXCEPT ![cur_col + 1] = g])
  <2>2. Rolled(Shown(g), cur_row) = done
    BY <1>0, <1>3, <2>1, GlyphRow, LinesRewritten, ViewIs
  <2>3. CASE cur_col + 1 >= VGA_COLS /\ cur_col' = 0 /\ Down(Shown(g))
    <3>1. BlankBelow(Shown(g), cur_row)
      <4>1. cur_col + 1 \in Nat /\ cur_col + 1 <= VGA_COLS
        BY <1>0, <1>3
      <4> QED BY <1>0, <1>3, <2>1, <4>1, FillsKeeps
    <3>2. lsNext = Console!Advanced(done)
      BY <1>0, <2>1, <2>2, <2>3, <3>1, LinesAdvanced
    <3>3. ~(cur_col + 1 < VGA_COLS)
      BY <1>0, <2>3
    <3> QED BY <2>3, <3>2, <3>3 DEF Console!Type, Rolled
  <2>4. CASE /\ cur_col + 1 < VGA_COLS /\ cur_col' = cur_col + 1
             /\ vga' = Shown(g) /\ cur_row' = cur_row
    BY <2>2, <2>4 DEF Console!Type, Rolled
  <2> QED BY <1>0, <1>8, <2>3, <2>4, GlyphMoves
<1> QED BY <1>3, <1>4, <1>5, <1>6, <1>7, <1>8 DEF PutChar

\* Until a tab reaches the end of a line, the screen is a terminal: for every
\* size it shows the last lines that were printed, whatever wraps, scrolls,
\* returns and backspaces made them.
THEOREM ScreenIsTerminal == Spec => ImplementsTerminal
<1>1. Init => Console!TerminalInit
  <2> SUFFICES ASSUME Init PROVE Console!TerminalInit
    OBVIOUS
  <2>1. cur_row = 0 /\ cur_col = 0 /\ edge = FALSE /\ 0 \in Rows
    BY Sizes DEF Init, Rows
  <2>2. Row(vga, 0) = Console!Empty
    <3>1. ASSUME NEW c \in LineOf PROVE vga[At(0, c - 1)] = Blank
      BY <2>1, RowCells DEF Init
    <3> QED BY <3>1 DEF Row, LineOf, Console!Empty
  <2>3. [i \in 1 .. cur_row + 1 |-> Row(vga, i - 1)] = <<Console!Empty>>
    BY <2>1, <2>2
  <2> QED BY <2>1, <2>3 DEF Console!TerminalInit
<1> QED BY <1>1, NextTerminal, Inductive, PTL DEF Spec, ImplementsTerminal, Console!TerminalSpec

-----------------------------------------------------------------------------
(* Text: the characters of results, and the least of two numbers.          *)

\* The characters of results.
Chars == STRING \cup {DigitChar[i] : i \in 1 .. 16} \cup {"-", " ", "%", "0", "x"}

\* The least and the greatest of two numbers.
LEMMA OfTwo ==
    ASSUME NEW a \in Int, NEW b \in Int
    PROVE  /\ Min({a, b}) = IF a <= b THEN a ELSE b
           /\ Max({a, b}) = IF a <= b THEN b ELSE a
<1>1. \E x \in {a, b} : \A y \in {a, b} : x <= y
  <2>1. CASE a <= b
    BY <2>1
  <2>2. CASE ~ (a <= b)
    BY <2>2
  <2> QED BY <2>1, <2>2
<1>2. \E x \in {a, b} : \A y \in {a, b} : x >= y
  <2>1. CASE a <= b
    BY <2>1
  <2>2. CASE ~ (a <= b)
    BY <2>2
  <2> QED BY <2>1, <2>2
<1>3. PICK m : m = Min({a, b})
  OBVIOUS
<1>4. m \in {a, b} /\ \A y \in {a, b} : m <= y
  BY <1>1, <1>3 DEF Min
<1>5. PICK n : n = Max({a, b})
  OBVIOUS
<1>6. n \in {a, b} /\ \A y \in {a, b} : n >= y
  BY <1>2, <1>5 DEF Max
<1> QED BY <1>3, <1>4, <1>5, <1>6

-----------------------------------------------------------------------------
(* Digits (libc.c:120-141).                                                *)

\* A digit is a number below the base, the rest of it a smaller number.
LEMMA DivisionShrinks ==
    ASSUME NEW base \in {10, 16}, NEW k \in Nat
    PROVE  /\ k \div base \in Nat /\ k \div base <= k /\ (k > 0 => k \div base < k)
           /\ k % base \in 0 .. base - 1 /\ k = (k \div base) * base + (k % base)
<1>1. CASE base = 10
  BY <1>1
<1>2. CASE base = 16
  BY <1>2
<1> QED BY <1>1, <1>2

\* Digits is the function its definition says.
LEMMA DigitsAre ==
    ASSUME NEW base \in {10, 16}
    PROVE  /\ Digits(0, base) = <<>>
           /\ \A k \in 1 .. Word - 1 :
                Digits(k, base) = Append(Digits(k \div base, base), DigitChar[(k % base) + 1])
<1> PICK N : N = Word - 1
  OBVIOUS
<1> DEFINE step(k, x) == Append(x, DigitChar[(k % base) + 1])
           Is(h, m) == h = [k \in 0 .. m |-> IF k = 0 THEN <<>> ELSE step(k, h[k \div base])]
           T == {m \in 0 .. N : \E h : Is(h, m)}
<1> DEFINE d == CHOOSE h : Is(h, N)
<1>0. \A u : Digits(u, base) = d[u]
  BY DEF Digits
<1>1. N \in Nat /\ 0 <= N
  BY WordAssumption
<1> HIDE DEF step
<1>2. 0 \in T
  <2> DEFINE h == [i \in 0 .. 0 |-> <<>>]
  <2>1. Is(h, 0)
    OBVIOUS
  <2> HIDE DEF Is
  <2> QED BY <1>1, <2>1
<1>3. ASSUME NEW m \in 0 .. N, m < N, m \in T PROVE m + 1 \in T
  <2>1. PICK h : Is(h, m)
    BY <1>3
  <2> DEFINE g == [k \in 0 .. m + 1 |-> IF k = m + 1 THEN step(k, h[k \div base]) ELSE h[k]]
  <2>2. ASSUME NEW k \in 0 .. m + 1
        PROVE  g[k] = IF k = 0 THEN <<>> ELSE step(k, g[k \div base])
    <3> PICK q : q = k \div base
      OBVIOUS
    <3>1. q \in Nat /\ q <= k /\ (k > 0 => q < k)
      BY <1>1, DivisionShrinks
    <3>2. CASE k = m + 1
      <4>1. q \in 0 .. m + 1 /\ q # m + 1 /\ k # 0
        BY <1>1, <3>1, <3>2
      <4>2. g[q] = h[q]
        BY <4>1
      <4> QED BY <3>2, <4>1, <4>2
    <3>3. CASE k # m + 1
      <4>1. k \in 0 .. m /\ q \in 0 .. m + 1 /\ q # m + 1
        BY <1>1, <3>1, <3>3
      <4>2. g[k] = h[k] /\ g[q] = h[q]
        BY <3>3, <4>1
      <4> QED BY <2>1, <4>1, <4>2
    <3> QED BY <3>2, <3>3
  <2>3. Is(g, m + 1)
    <3>1. g = [k \in 0 .. m + 1 |-> g[k]]
      OBVIOUS
    <3> HIDE DEF g
    <3> QED BY <2>2, <3>1
  <2>4. m + 1 \in 0 .. N
    BY <1>1, <1>3
  <2> HIDE DEF Is, g
  <2> QED BY <2>3, <2>4
<1>4. \A m \in 0 .. N : m \in T
  <2> HIDE DEF T
  <2> QED BY <1>1, <1>2, <1>3, IntervalInduction
<1>5. \E h : Is(h, N)
  BY <1>1, <1>4
<1>6. Is(d, N)
  <2> HIDE DEF Is
  <2> QED BY <1>5
<1> HIDE DEF d
<1>7. d[0] = <<>>
  BY <1>1, <1>6
<1>8. ASSUME NEW k \in 1 .. N PROVE d[k] = step(k, d[k \div base])
  <2>1. k \in 0 .. N /\ k # 0
    BY <1>1
  <2> HIDE DEF step
  <2> QED BY <1>6, <2>1
<1> QED BY <1>0, <1>7, <1>8 DEF step

\* Digits are characters.
LEMMA DigitsTyped ==
    ASSUME NEW base \in {10, 16}, NEW u \in 0 .. Word - 1
    PROVE  Digits(u, base) \in Seq(Chars)
<1> DEFINE T == {m \in 0 .. Word - 1 : \A k \in 0 .. m : Digits(k, base) \in Seq(Chars)}
<1>0. Word - 1 \in Nat /\ 0 <= Word - 1
  BY WordAssumption
<1>1. 0 \in T
  <2>1. Digits(0, base) \in Seq(Chars)
    BY DigitsAre, EmptySeq
  <2> QED BY <1>0, <2>1
<1>2. ASSUME NEW m \in 0 .. Word - 1, m < Word - 1, m \in T PROVE m + 1 \in T
  <2>1. m + 1 \in 1 .. Word - 1 /\ m + 1 \in Nat /\ m + 1 \in 0 .. Word - 1
    BY <1>0, <1>2
  <2> PICK q, r : q = (m + 1) \div base /\ r = (m + 1) % base
    OBVIOUS
  <2>2. q \in 0 .. m /\ r \in 0 .. 15
    BY <2>1, DivisionShrinks
  <2>3. Digits(q, base) \in Seq(Chars)
    BY <1>2, <2>2
  <2>4. DigitChar[r + 1] \in Chars
    <3>1. PICK j \in 1 .. 16 : j = r + 1
      BY <2>2
    <3>2. DigitChar[j] \in {DigitChar[i] : i \in 1 .. 16}
      BY Zenon
    <3>3. DigitChar[j] \in Chars
      BY ONLY <3>2, Zenon DEF Chars
    <3> QED BY ONLY <3>1, <3>3, Zenon
  <2>5. Digits(m + 1, base) = Append(Digits(q, base), DigitChar[r + 1])
    BY <2>1, DigitsAre
  <2>6. Digits(m + 1, base) \in Seq(Chars)
    <3>1. \A s \in Seq(Chars), ch \in Chars : Append(s, ch) \in Seq(Chars)
      BY AppendProperties
    <3> QED BY ONLY <2>3, <2>4, <2>5, <3>1, Zenon
  <2>7. \A k \in 0 .. m + 1 : k \in 0 .. m \/ k = m + 1
    OBVIOUS
  <2> QED BY <1>2, <2>1, <2>6, <2>7
<1> HIDE DEF T
<1>3. \A m \in 0 .. Word - 1 : m \in T
  BY <1>0, <1>1, <1>2, IntervalInduction
<1> QED BY <1>3 DEF T

\* So is what itoa_buf writes.
LEMMA NumberTyped ==
    ASSUME NEW base \in {10, 16}, NEW val \in Int, NEW unsign \in BOOLEAN
    PROVE  itoa_buf(val, base, unsign) \in Seq(Chars)
<1> DEFINE uval == (IF ~unsign /\ val < 0 THEN -val ELSE val) % Word
<1>1. uval \in 0 .. Word - 1
  BY WordAssumption
<1>2. Digits(uval, base) \in Seq(Chars)
  <2> HIDE DEF uval
  <2> QED BY <1>1, DigitsTyped
<1>3. <<"-">> \in Seq(Chars) /\ <<"0">> \in Seq(Chars) /\ <<>> \in Seq(Chars)
  BY DEF Chars
<1> QED BY <1>2, <1>3, ConcatProperties DEF itoa_buf

-----------------------------------------------------------------------------
(* vsnprintf (libc.c:147-207).                                             *)

\* A function on 1 .. n is a sequence of length n.
LEMMA SequenceIs ==
    ASSUME NEW S, NEW n \in Nat, NEW s \in [1 .. n -> S]
    PROVE  s \in Seq(S) /\ Len(s) = n
<1>1. s \in Seq(S)
  BY SeqDef
<1>2. Len(s) \in Nat /\ DOMAIN s = 1 .. Len(s) /\ DOMAIN s = 1 .. n
  BY <1>1, LenProperties
<1> QED BY <1>1, <1>2

\* The first k characters of s, or all it has.
Cut(s, k) == SubSeq(s, 1, Min({Len(s), k}))

\* It is so much of s as k allows.
LEMMA CutIs ==
    ASSUME NEW s \in Seq(Chars), NEW k \in Nat
    PROVE  /\ Cut(s, k) \in Seq(Chars)
           /\ Len(Cut(s, k)) = IF Len(s) <= k THEN Len(s) ELSE k
           /\ \A i \in 1 .. Len(Cut(s, k)) : i \in 1 .. Len(s) /\ Cut(s, k)[i] = s[i]
<1> PICK n : n = Min({Len(s), k})
  OBVIOUS
<1>1. Len(s) \in Nat /\ n = IF Len(s) <= k THEN Len(s) ELSE k
  BY LenProperties, OfTwo
<1>2. \A i \in 1 .. n : s[i] \in Chars
  BY <1>1, ElementOfSeq
<1>3. Cut(s, k) = SubSeq(s, 1, n)
  BY DEF Cut
<1>4. /\ SubSeq(s, 1, n) \in Seq(Chars)
      /\ Len(SubSeq(s, 1, n)) = IF 1 <= n THEN n - 1 + 1 ELSE 0
      /\ \A i \in 1 .. n - 1 + 1 : SubSeq(s, 1, n)[i] = s[1 + i - 1]
  <2>1. n \in Int /\ 1 \in Int
    BY <1>1
  <2> QED BY ONLY <1>2, <2>1, SubSeqProperties
<1> QED BY <1>1, <1>3, <1>4

\* The limit of a buffer is one character less than its size, but for size 0.
LEMMA LimitIs ==
    ASSUME NEW size \in 0 .. MaxBuf
    PROVE  /\ Limit(size) = IF size = 0 THEN Word - 1 ELSE size - 1
           /\ Limit(size) \in Nat
<1> PICK word : word = Word
  OBVIOUS
<1>1. word \in Nat /\ word >= 32 /\ size \in 0 .. word - 1
  BY WordAssumption, SizesAssumption
<1>2. (size - 1) % word = IF size = 0 THEN word - 1 ELSE size - 1
  BY ONLY <1>1, SMT
<1> QED BY <1>1, <1>2 DEF Limit

\* PUT on a buffer that holds what fits gives what fits.
LEMMA PutCuts ==
    ASSUME NEW s \in Seq(Chars), NEW e \in Seq(Chars), NEW size, Limit(size) \in Nat
    PROVE  Put(Cut(s, Limit(size)), size, e) = Cut(s \o e, Limit(size))
<1> PICK k, m, c : k = Limit(size) /\ c = Cut(s, k) /\ m = Limit(size) - Len(c)
  OBVIOUS
<1>1. /\ c \in Seq(Chars) /\ Len(s) \in Nat /\ Len(e) \in Nat /\ k \in Nat
      /\ Len(c) = IF Len(s) <= k THEN Len(s) ELSE k
      /\ \A i \in 1 .. Len(c) : i \in 1 .. Len(s) /\ c[i] = s[i]
  BY CutIs, LenProperties
<1>2. m \in Nat /\ m = k - Len(c)
  BY <1>1
<1>3. Put(c, size, e) = c \o Cut(e, m)
  BY <1>1, <1>2 DEF Put, Cut
<1> PICK t : t = Cut(e, m)
  OBVIOUS
<1>4. /\ t \in Seq(Chars)
      /\ Len(t) = IF Len(e) <= m THEN Len(e) ELSE m
      /\ \A i \in 1 .. Len(t) : i \in 1 .. Len(e) /\ t[i] = e[i]
  BY <1>2, CutIs
<1> PICK j, w : j = s \o e /\ w = Cut(s \o e, k)
  OBVIOUS
<1>5. /\ j \in Seq(Chars) /\ Len(j) = Len(s) + Len(e)
      /\ \A i \in 1 .. Len(s) + Len(e) : j[i] = IF i <= Len(s) THEN s[i] ELSE e[i - Len(s)]
  BY ConcatProperties
<1>6. /\ w \in Seq(Chars)
      /\ Len(w) = IF Len(j) <= k THEN Len(j) ELSE k
      /\ \A i \in 1 .. Len(w) : i \in 1 .. Len(j) /\ w[i] = j[i]
  <2>1. k \in Nat /\ w = Cut(j, k) /\ j \in Seq(Chars)
    BY <1>1, <1>5
  <2> QED BY ONLY <2>1, CutIs
<1> PICK v : v = c \o t
  OBVIOUS
<1>7. /\ v \in Seq(Chars) /\ Len(v) = Len(c) + Len(t)
      /\ \A i \in 1 .. Len(c) + Len(t) : v[i] = IF i <= Len(c) THEN c[i] ELSE t[i - Len(c)]
  BY <1>1, <1>4, ConcatProperties
<1>8. Len(v) = Len(w)
  <2>1. PICK a, b : a = Len(s) /\ b = Len(e)
    OBVIOUS
  <2>2. /\ Len(c) = (IF a <= k THEN a ELSE k)
        /\ Len(t) = (IF b <= m THEN b ELSE m)
        /\ Len(w) = (IF a + b <= k THEN a + b ELSE k)
        /\ a \in Nat /\ b \in Nat /\ k \in Nat /\ m = k - Len(c)
    BY ONLY <1>1, <1>2, <1>4, <1>5, <1>6, <2>1
  <2> QED BY ONLY <1>7, <2>2
<1>9. ASSUME NEW i \in 1 .. Len(v) PROVE v[i] = w[i]
  <2>1. CASE i <= Len(c)
    <3>1. i \in 1 .. Len(c)
      BY <1>1, <1>7, <2>1
    <3>2. v[i] = c[i]
      BY ONLY <1>7, <2>1, i \in 1 .. Len(v)
    <3>3. i \in 1 .. Len(s) /\ c[i] = s[i]
      BY ONLY <1>1, <3>1
    <3>4. w[i] = j[i]
      BY ONLY <1>6, <1>8, i \in 1 .. Len(v)
    <3>5. j[i] = s[i]
      BY <1>1, <1>4, <1>5, <3>3
    <3> QED BY ONLY <3>2, <3>3, <3>4, <3>5, Zenon
  <2>2. CASE ~ (i <= Len(c))
    <3>1. i - Len(c) \in 1 .. Len(t)
      BY <1>1, <1>4, <1>7, <2>2
    <3>2. v[i] = e[i - Len(c)]
      <4>1. v[i] = t[i - Len(c)]
        BY ONLY <1>7, <2>2, i \in 1 .. Len(v)
      <4>2. t[i - Len(c)] = e[i - Len(c)]
        BY ONLY <1>4, <3>1
      <4> QED BY <4>1, <4>2, Zenon
    <3>3. Len(c) = Len(s)
      <4>1. Len(t) # 0
        BY ONLY <1>2, <1>4, <3>1, Len(e) \in Nat, <1>1
      <4> QED BY ONLY <1>1, <1>2, <1>4, <4>1
    <3>4. i \in 1 .. Len(j) /\ w[i] = j[i] /\ ~ (i <= Len(s))
      BY <1>6, <1>8, <2>2, <3>3
    <3>5. j[i] = e[i - Len(s)]
      BY <1>5, <3>4
    <3> QED BY <3>2, <3>3, <3>4, <3>5
  <2> QED BY <2>1, <2>2
<1>10. v = w
  <2>1. v \in Seq(Chars) /\ w \in Seq(Chars)
    BY <1>6, <1>7
  <2> QED BY ONLY <1>8, <1>9, <2>1, SeqEqual
<1> QED BY <1>3, <1>10

\* What ends a string is a suffix of it.
LEMMA SuffixIs ==
    ASSUME NEW p \in Seq(Chars), NEW s \in Seq(Chars)
    PROVE  IsSuffix(s, p \o s)
<1> PICK e, r, t, n : e = p \o s /\ r = Reverse(s) /\ t = Reverse(e) /\ n = Len(s)
  OBVIOUS
<1>1. /\ e \in Seq(Chars) /\ Len(p) \in Nat /\ n \in Nat /\ Len(e) = Len(p) + n
      /\ \A i \in 1 .. Len(p) + n : e[i] = IF i <= Len(p) THEN p[i] ELSE s[i - Len(p)]
  BY ConcatProperties, LenProperties
<1>2. /\ \A i \in 1 .. n : r[i] = s[(n - i) + 1]
      /\ \A i \in 1 .. Len(e) : t[i] = e[(Len(e) - i) + 1]
  BY DEF Reverse
<1>3. r \in [1 .. n -> Chars]
  <2>1. \A i \in 1 .. n : (n - i) + 1 \in 1 .. n
    BY <1>1
  <2>2. \A i \in 1 .. n : s[(n - i) + 1] \in Chars
    BY <2>1, ElementOfSeq
  <2> QED BY <2>2 DEF Reverse
<1>4. t \in [1 .. Len(e) -> Chars]
  <2>1. \A i \in 1 .. Len(e) : (Len(e) - i) + 1 \in 1 .. Len(e)
    BY <1>1
  <2>2. \A i \in 1 .. Len(e) : e[(Len(e) - i) + 1] \in Chars
    BY <1>1, <2>1, ElementOfSeq
  <2> QED BY <2>2 DEF Reverse
<1>5. /\ r \in Seq(Chars) /\ Len(r) = n
      /\ t \in Seq(Chars) /\ Len(t) = Len(p) + n
  <2>1. n \in Nat /\ Len(e) \in Nat /\ Len(e) = Len(p) + n
    BY <1>1
  <2>2. r \in Seq(Chars) /\ Len(r) = n
    BY ONLY <1>3, <2>1, SequenceIs
  <2>3. t \in Seq(Chars) /\ Len(t) = Len(e)
    BY ONLY <1>4, <2>1, SequenceIs
  <2> QED BY <2>1, <2>2, <2>3
<1>6. ASSUME NEW i \in 1 .. n PROVE r[i] = t[i]
  <2>1. i \in 1 .. Len(e) /\ (Len(e) - i) + 1 \in 1 .. Len(p) + n /\ ~ ((Len(e) - i) + 1 <= Len(p))
        /\ ((Len(e) - i) + 1) - Len(p) = (n - i) + 1
    BY <1>1
  <2> QED BY <1>1, <1>2, <2>1
<1>7. SubSeq(r, 1, n) = r
  BY <1>5, SubSeqFull
<1>8. /\ SubSeq(t, 1, n) \in Seq(Chars) /\ Len(SubSeq(t, 1, n)) = n
      /\ \A i \in 1 .. n : SubSeq(t, 1, n)[i] = t[i]
  <2>1. \A i \in 1 .. n : t[i] \in Chars
    BY <1>1, <1>5, ElementOfSeq
  <2>2. /\ SubSeq(t, 1, n) \in Seq(Chars)
        /\ Len(SubSeq(t, 1, n)) = IF 1 <= n THEN n - 1 + 1 ELSE 0
        /\ \A i \in 1 .. n - 1 + 1 : SubSeq(t, 1, n)[i] = t[1 + i - 1]
    BY <1>1, <2>1, SubSeqProperties
  <2> QED BY <1>1, <2>2
<1>9. SubSeq(t, 1, n) = r
  <2> PICK u : u = SubSeq(t, 1, n)
    OBVIOUS
  <2>1. u \in Seq(Chars) /\ Len(u) = Len(r) /\ \A i \in 1 .. Len(u) : u[i] = r[i]
    BY <1>5, <1>6, <1>8
  <2> QED BY <1>5, <2>1, SeqEqual
<1> QED BY <1>1, <1>5, <1>7, <1>9 DEF IsSuffix, IsPrefix

\* The text of a directive is a string.
LEMMA BodyTyped ==
    ASSUME NEW d \in Directives
    PROVE  Body(d) \in Seq(Chars)
<1>0. Int32 \subseteq Int
  BY DEF Int32
<1>1. CASE d.conv = "s"
  <2>1. d.arg \in Seq(STRING) /\ STRING \subseteq Chars
    BY <1>1 DEF Directives, Chars
  <2>2. d.arg \in Seq(Chars)
    BY <2>1, SeqMonotonic
  <2> QED BY <1>1, <2>2 DEF Body
<1>2. CASE d.conv \in {"d", "u", "x", "X", "p"}
  <2>1. d.arg \in Int
    BY <1>0, <1>2 DEF Directives
  <2> PICK a, b, c : a = itoa_buf(d.arg, 10, FALSE) /\ b = itoa_buf(d.arg, 10, TRUE)
                     /\ c = itoa_buf(d.arg, 16, TRUE)
    OBVIOUS
  <2>2. a \in Seq(Chars) /\ b \in Seq(Chars) /\ c \in Seq(Chars)
    BY <2>1, NumberTyped
  <2>3. <<"0", "x">> \in Seq(Chars)
    BY DEF Chars
  <2>4. <<"0", "x">> \o c \in Seq(Chars)
    BY <2>2, <2>3, ConcatProperties
  <2>5. Body(d) \in {a, b, c, <<"0", "x">> \o c}
    BY <1>2 DEF Body
  <2> QED BY <2>2, <2>4, <2>5
<1>3. CASE d.conv \in {"c", "lit", "%", "unknown"}
  <2>1. d.arg \in Chars /\ "%" \in Chars
    BY <1>3 DEF Directives, Chars
  <2>2. <<d.arg>> \in Seq(Chars) /\ <<"%">> \in Seq(Chars) /\ <<"%", d.arg>> \in Seq(Chars)
    BY <2>1
  <2>3. Body(d) \in {<<d.arg>>, <<"%">>, <<"%", d.arg>>}
    BY <1>3 DEF Body
  <2> QED BY <2>2, <2>3
<1> QED BY <1>1, <1>2, <1>3 DEF Directives

\* A width is a number.
LEMMA WidthTyped ==
    ASSUME NEW d \in Directives
    PROVE  d.width \in Int
<1> PICK half : half = Word \div 2 - 1
  OBVIOUS
<1>1. d.width \in 0 .. half
  BY DEF Directives
<1> QED BY <1>1

\* Padding comes before it.
LEMMA EmittedIs ==
    ASSUME NEW d \in Directives
    PROVE  Emitted(d) \in Seq(Chars) /\ IsSuffix(Body(d), Emitted(d))
<1>1. PICK body, width : body = Body(d) /\ width = d.width
  OBVIOUS
<1>2. PICK missing : missing = IF Padded(d) THEN Max({0, width - Len(body)}) ELSE 0
  OBVIOUS
<1>3. PICK pad : pad = [i \in 1 .. missing |-> IF d.zero THEN "0" ELSE " "]
  OBVIOUS
<1>4. Emitted(d) = pad \o body
  BY <1>1, <1>2, <1>3 DEF Emitted
<1>5. body \in Seq(Chars) /\ Len(body) \in Nat /\ width \in Int
  BY <1>1, BodyTyped, WidthTyped, LenProperties
<1>6. missing \in Nat
  <2>1. PICK w : w = width - Len(body)
    OBVIOUS
  <2>2. w \in Int /\ 0 \in Int
    BY ONLY <1>5, <2>1
  <2>3. Max({0, w}) = IF 0 <= w THEN w ELSE 0
    BY ONLY <2>2, OfTwo
  <2> QED BY ONLY <1>2, <2>1, <2>2, <2>3
<1>7. pad \in [1 .. missing -> Chars]
  BY ONLY <1>3 DEF Chars
<1>8. pad \in Seq(Chars)
  BY ONLY <1>6, <1>7, SequenceIs
<1>9. pad \o body \in Seq(Chars) /\ IsSuffix(body, pad \o body)
  BY ONLY <1>5, <1>8, ConcatProperties, SuffixIs
<1> QED BY <1>1, <1>4, <1>9

\* What the first i of the parts give, put together.
Runs(flat, parts, n) ==
    /\ flat \in [0 .. n -> Seq(Chars)] /\ flat[0] = <<>>
    /\ \A i \in 1 .. n : flat[i] = flat[i-1] \o parts[i]

\* They can be put together one after the other.
LEMMA RunsExist ==
    ASSUME NEW n \in Nat, NEW parts, \A i \in 1 .. n : parts[i] \in Seq(Chars)
    PROVE  \E flat : Runs(flat, parts, n)
<1> DEFINE f == [i \in 1 .. n |-> [x \in Seq(Chars) |-> x \o parts[i]]]
<1>2. f \in [1 .. n -> [Seq(Chars) -> Seq(Chars)]]
  <2>1. \A i \in 1 .. n, x \in Seq(Chars) : x \o parts[i] \in Seq(Chars)
    BY ConcatProperties
  <2> QED BY <2>1
<1>3. \A i \in 1 .. n, x \in Seq(Chars) : f[i][x] = x \o parts[i]
  OBVIOUS
<1> HIDE DEF f
<1>4. PICK S, none, F, N : S = Seq(Chars) /\ none = <<>> /\ F = f /\ N = n
  OBVIOUS
<1>5. \E g \in [0 .. n -> Seq(Chars)] : g[0] = <<>> /\ \A i \in 1 .. n : g[i] = f[i][g[i-1]]
  <2>1. N \in Nat
    BY <1>4
  <2>2. none \in S
    BY <1>4, EmptySeq
  <2>3. F \in [1 .. N -> [S -> S]]
    BY <1>2, <1>4
  <2>4. \E g \in [0 .. N -> S] : g[0] = none /\ \A i \in 1 .. N : g[i] = F[i][g[i-1]]
    BY ONLY <2>1, <2>2, <2>3, PrimitiveRecursion
  <2> QED BY <1>4, <2>4
<1>6. PICK g \in [0 .. n -> Seq(Chars)] : g[0] = <<>> /\ \A i \in 1 .. n : g[i] = f[i][g[i-1]]
  BY <1>5
<1>7. ASSUME NEW i \in 1 .. n PROVE g[i] = g[i-1] \o parts[i]
  <2>1. i - 1 \in 0 .. n
    OBVIOUS
  <2> QED BY <1>3, <1>6, <2>1
<1>8. Runs(g, parts, n)
  BY <1>6, <1>7 DEF Runs
<1> QED BY <1>8

\* FlattenSeq puts all of them together.
LEMMA FlattenIs ==
    ASSUME NEW n \in Nat, NEW parts, \A i \in 1 .. n : parts[i] \in Seq(Chars),
           Len(parts) = n, n = 0 => parts = <<>>, NEW flat, Runs(flat, parts, n)
    PROVE  FlattenSeq(parts) = flat[n]
<1>1. n \in Nat /\ \A i \in 1 .. n : parts[i] \in Seq(Chars)
  OBVIOUS
<1>2. /\ flat \in [0 .. n -> Seq(Chars)] /\ flat[0] = <<>>
      /\ \A i \in 1 .. n : flat[i] = flat[i-1] \o parts[i]
  BY DEF Runs
<1>3. CASE n = 0
  <2>1. FlattenSeq(parts) = parts /\ parts = <<>>
    BY <1>3 DEF FlattenSeq
  <2> QED BY <1>2, <1>3, <2>1
<1>4. CASE n # 0
  <2> DEFINE Is(h) == h = [i \in 1 .. n |-> IF i = 1 THEN parts[i] ELSE h[i-1] \o parts[i]]
             whole == CHOOSE h : Is(h)
             k == [i \in 1 .. n |-> flat[i]]
  <2>1. FlattenSeq(parts) = whole[n]
    BY <1>4 DEF FlattenSeq
  <2>2. ASSUME NEW i \in 1 .. n PROVE k[i] = IF i = 1 THEN parts[i] ELSE k[i-1] \o parts[i]
    <3>1. CASE i = 1
      <4>1. 1 \in 1 .. n /\ 1 - 1 = 0
        BY <3>1
      <4>2. flat[1] = flat[0] \o parts[1] /\ parts[1] \in Seq(Chars)
        BY <1>1, <1>2, <4>1
      <4>3. <<>> \o parts[1] = parts[1]
        BY <4>2, ConcatEmptySeq
      <4> QED BY <1>2, <3>1, <4>2, <4>3
    <3>2. CASE i # 1
      <4>1. i - 1 \in 1 .. n
        BY <1>1, <3>2
      <4> QED BY <1>2, <3>2, <4>1
    <3> QED BY <3>1, <3>2
  <2>3. Is(k)
    <3>1. k = [i \in 1 .. n |-> k[i]]
      OBVIOUS
    <3> HIDE DEF k
    <3> QED BY <2>2, <3>1
  <2>4. Is(whole)
    <3> HIDE DEF Is, k
    <3> QED BY <2>3
  <2> HIDE DEF whole
  <2>9. \A i \in 1 .. n : whole[i] = IF i = 1 THEN parts[i] ELSE whole[i-1] \o parts[i]
    BY <2>4
  <2> DEFINE T == {i \in 1 .. n : whole[i] = flat[i]}
  <2>5. 1 \in T
    <3>1. 1 \in 1 .. n
      BY <1>1, <1>4
    <3>2. k[1] = parts[1] /\ k[1] = flat[1]
      BY <2>2, <3>1
    <3>3. flat[1] = parts[1]
      BY <3>2
    <3> QED BY <2>4, <3>1, <3>3
  <2>6. ASSUME NEW i \in 1 .. n, i < n, i \in T PROVE i + 1 \in T
    <3>1. i + 1 \in 1 .. n /\ i + 1 # 1 /\ i + 1 - 1 = i
      BY <1>1, <2>6
    <3> PICK j : j = i + 1
      OBVIOUS
    <3>2. j \in 1 .. n /\ j # 1 /\ j - 1 = i
      BY <3>1
    <3> HIDE DEF Is, k, T
    <3>3. whole[j] = whole[i] \o parts[j]
      BY <2>9, <3>2
    <3>4. flat[j] = flat[i] \o parts[j]
      BY <1>2, <3>2
    <3>5. whole[j] = flat[j]
      BY <2>6, <3>3, <3>4 DEF T
    <3> QED BY <3>2, <3>5 DEF T
  <2>7. \A i \in 1 .. n : i \in T
    <3> HIDE DEF T, Is
    <3>1. 1 \in Nat /\ 1 <= n
      BY <1>1, <1>4
    <3> QED BY ONLY <1>1, <2>5, <2>6, <3>1, IntervalInduction
  <2>8. n \in T
    BY <1>1, <1>4, <2>7
  <2> QED BY <2>1, <2>8
<1> QED BY <1>3, <1>4

\* The parts of a result are what its directives give.
PartsOf(parts, fmt, n) ==
    Len(fmt) = n /\ \A i \in 1 .. n : parts[i] \in Seq(Chars) /\ parts[i] = Emitted(fmt[i])

\* The loop of vsnprintf puts together what fits of them (libc.c:150-192).
LEMMA FormattedIs ==
    ASSUME NEW fmt, NEW size, Limit(size) \in Nat, NEW n, n \in Nat,
           NEW parts, PartsOf(parts, fmt, n), NEW flat, Runs(flat, parts, n)
    PROVE  vsnprintf(size, fmt) = Cut(flat[n], Limit(size))
<1>1. /\ Len(fmt) = n
      /\ \A i \in 1 .. n : parts[i] \in Seq(Chars)
      /\ \A i \in 1 .. n : parts[i] = Emitted(fmt[i])
  BY DEF PartsOf
<1>2. /\ flat \in [0 .. n -> Seq(Chars)] /\ flat[0] = <<>>
      /\ \A i \in 1 .. n : flat[i] = flat[i-1] \o parts[i]
  BY DEF Runs
<1> DEFINE Is(h) == h = [i \in 0 .. n |-> IF i = 0 THEN <<>> ELSE Put(h[i-1], size, Emitted(fmt[i]))]
           buf == CHOOSE h : Is(h)
           k == [i \in 0 .. n |-> Cut(flat[i], Limit(size))]
<1>3. vsnprintf(size, fmt) = buf[n]
  BY <1>1 DEF vsnprintf
<1>4. Cut(<<>>, Limit(size)) = <<>>
  <2> HIDE DEF k
  <2>1. PICK s, m : s = <<>> /\ m = Limit(size)
    OBVIOUS
  <2>2. s \in Seq(Chars) /\ Len(s) = 0 /\ m \in Nat
    BY <2>1, EmptySeq
  <2>3. Cut(s, m) \in Seq(Chars) /\ Len(Cut(s, m)) = IF Len(s) <= m THEN Len(s) ELSE m
    BY ONLY <2>2, CutIs
  <2>4. Len(Cut(s, m)) = 0
    BY ONLY <2>2, <2>3
  <2>5. Cut(s, m) = <<>>
    BY ONLY <2>3, <2>4, EmptySeq
  <2> QED BY <2>1, <2>5
<1>5. ASSUME NEW i \in 1 .. n
      PROVE  Cut(flat[i], Limit(size)) = Put(Cut(flat[i-1], Limit(size)), size, Emitted(fmt[i]))
  <2> HIDE DEF k
  <2>1. i - 1 \in 0 .. n /\ flat[i] = flat[i-1] \o parts[i]
    <3>1. i - 1 \in 0 .. n
      BY n \in Nat
    <3>2. flat[i] = flat[i-1] \o parts[i]
      BY ONLY <1>2, i \in 1 .. n, Zenon
    <3> QED BY <3>1, <3>2
  <2>4. parts[i] = Emitted(fmt[i])
    BY <1>1
  <2>2. flat[i-1] \in Seq(Chars) /\ parts[i] \in Seq(Chars)
    BY <1>1, <1>2, <2>1
  <2> PICK s, e : s = flat[i-1] /\ e = parts[i]
    OBVIOUS
  <2>3. Put(Cut(s, Limit(size)), size, e) = Cut(s \o e, Limit(size))
    BY <2>2, PutCuts
  <2> QED BY <2>1, <2>3, <2>4
<1>6. ASSUME NEW i \in 0 .. n
      PROVE  k[i] = IF i = 0 THEN <<>> ELSE Put(k[i-1], size, Emitted(fmt[i]))
  <2>1. CASE i = 0
    BY <1>2, <1>4, <2>1
  <2>2. CASE i # 0
    <3>1. i \in 1 .. n /\ i - 1 \in 0 .. n
      BY <1>1, <2>2
    <3> QED BY <1>5, <2>2, <3>1
  <2> QED BY <2>1, <2>2
<1>7. Is(k)
  <2>1. k = [i \in 0 .. n |-> k[i]]
    OBVIOUS
  <2> HIDE DEF k
  <2> QED BY <1>6, <2>1
<1>8. Is(buf)
  <2> HIDE DEF Is, k
  <2> QED BY <1>7
<1> HIDE DEF buf
<1> DEFINE T == {i \in 0 .. n : buf[i] = Cut(flat[i], Limit(size))}
<1>9. 0 \in T
  BY <1>1, <1>2, <1>4, <1>8
<1>10. ASSUME NEW i \in 0 .. n, i < n, i \in T PROVE i + 1 \in T
  <2>1. i + 1 \in 1 .. n /\ i + 1 \in 0 .. n /\ i + 1 # 0 /\ i + 1 - 1 = i
    BY <1>1, <1>10
  <2>2. buf[i + 1] = Put(buf[i], size, Emitted(fmt[i + 1]))
    BY <1>8, <2>1
  <2>3. Cut(flat[i + 1], Limit(size)) = Put(Cut(flat[i], Limit(size)), size, Emitted(fmt[i + 1]))
    BY <1>5, <2>1
  <2> QED BY <1>10, <2>1, <2>2, <2>3
<1>11. \A i \in 0 .. n : i \in T
  <2> HIDE DEF T, Is
  <2>1. 0 \in Nat /\ n \in Nat /\ 0 <= n
    OBVIOUS
  <2> QED BY ONLY <1>9, <1>10, <2>1, IntervalInduction
<1>12. n \in T
  BY <1>1, <1>11
<1> QED BY <1>3, <1>12

\* vsnprintf stops at its limit and nowhere before it: for every format and
\* every size the result is as much of the unlimited one as the limit allows,
\* which leaves room for the terminator unless the size is 0, where it is the
\* largest size_t; and each directive is right-justified in its width
\* (libc.c:143-194).
THEOREM ResultsFit ==
    ASSUME call \in Calls \cup {NoCall}
    PROVE  FormatFits
<1> SUFFICES ASSUME call.fun = "vsnprintf"
             PROVE  LET full  == FlattenSeq([i \in DOMAIN call.fmt |-> Emitted(call.fmt[i])])
                        limit == IF call.size = 0 THEN Word - 1 ELSE call.size - 1
                        out   == vsnprintf(call.size, call.fmt)
                    IN  /\ IsPrefix(out, full) /\ Len(out) = Min({limit, Len(full)})
                        /\ \A i \in DOMAIN call.fmt :
                             IsSuffix(Body(call.fmt[i]), Emitted(call.fmt[i]))
  BY DEF FormatFits
<1> PICK fmt, size : fmt = call.fmt /\ size = call.size
  OBVIOUS
<1>1. fmt \in Formats /\ size \in 0 .. MaxBuf
  BY DEF Calls, NoCall
<1>0. PICK k : /\ k = Limit(size) /\ k \in Nat
               /\ k = IF call.size = 0 THEN Word - 1 ELSE call.size - 1
  BY <1>1, LimitIs
<1>2. fmt \in Seq(Directives)
  BY <1>1, FormatsAssumption
<1> PICK n, parts : n = Len(fmt) /\ parts = [i \in DOMAIN fmt |-> Emitted(fmt[i])]
  OBVIOUS
<1>3. n \in Nat /\ DOMAIN fmt = 1 .. n /\ \A i \in 1 .. n : fmt[i] \in Directives
  BY <1>2, LenProperties, ElementOfSeq
<1>4. \A i \in 1 .. n : Emitted(fmt[i]) \in Seq(Chars) /\ IsSuffix(Body(fmt[i]), Emitted(fmt[i]))
  BY <1>3, EmittedIs
<1>5. parts \in [1 .. n -> Seq(Chars)] /\ \A i \in 1 .. n : parts[i] = Emitted(fmt[i])
  BY <1>3, <1>4
<1>6. parts \in Seq(Seq(Chars)) /\ Len(parts) = n
  BY ONLY <1>3, <1>5, SequenceIs
<1>7. PICK flat : Runs(flat, parts, n)
  <2>1. \A i \in 1 .. n : parts[i] \in Seq(Chars)
    BY <1>5
  <2> QED BY ONLY <1>3, <2>1, RunsExist
<1> PICK full, out : full = FlattenSeq(parts) /\ out = vsnprintf(size, fmt)
  OBVIOUS
<1>8. full = flat[n] /\ full \in Seq(Chars)
  <2>1. \A i \in 1 .. n : parts[i] \in Seq(Chars)
    BY <1>5
  <2>2. n = 0 => parts = <<>>
    BY <1>6, EmptySeq
  <2>3. FlattenSeq(parts) = flat[n]
    BY ONLY <1>3, <1>6, <1>7, <2>1, <2>2, FlattenIs
  <2>4. flat \in [0 .. n -> Seq(Chars)] /\ n \in 0 .. n
    BY <1>3, <1>7 DEF Runs
  <2> QED BY <2>3, <2>4
<1>9. out = Cut(full, k)
  <2>1. PartsOf(parts, fmt, n)
    BY <1>5 DEF PartsOf
  <2>2. vsnprintf(size, fmt) = Cut(flat[n], Limit(size))
    <3>1. n \in Nat /\ Limit(size) \in Nat /\ Runs(flat, parts, n)
      BY <1>0, <1>3, <1>7
    <3> QED BY ONLY <2>1, <3>1, FormattedIs, Zenon
  <2> QED BY <1>0, <1>8, <2>2
<1>10. /\ out \in Seq(Chars) /\ Len(full) \in Nat /\ Len(out) \in Nat
       /\ Len(out) = IF Len(full) <= k THEN Len(full) ELSE k
       /\ \A i \in 1 .. Len(out) : i \in 1 .. Len(full) /\ out[i] = full[i]
  <2>1. k \in Nat /\ out = Cut(full, k)
    BY <1>0, <1>9
  <2>2. /\ out \in Seq(Chars)
        /\ Len(out) = IF Len(full) <= k THEN Len(full) ELSE k
        /\ \A i \in 1 .. Len(out) : i \in 1 .. Len(full) /\ out[i] = full[i]
    BY <1>8, <2>1, CutIs
  <2>3. Len(full) \in Nat /\ Len(out) \in Nat
    BY <1>8, <2>2, LenProperties
  <2> QED BY <2>1, <2>2, <2>3
<1>11. Len(out) = Min({k, Len(full)})
  <2>1. k \in Int /\ Len(full) \in Int
    BY <1>0, <1>10
  <2>2. Min({k, Len(full)}) = IF k <= Len(full) THEN k ELSE Len(full)
    BY ONLY <2>1, OfTwo
  <2> QED BY ONLY <1>10, <2>1, <2>2
<1>12. IsPrefix(out, full)
  <2>1. SubSeq(out, 1, Len(out)) = out
    BY <1>10, SubSeqFull
  <2>2. Len(out) <= Len(full) /\ out = SubSeq(full, 1, Len(out))
    <3>1. PICK a, b : a = Len(out) /\ b = Len(full)
      OBVIOUS
    <3>2. k \in Int /\ b \in Int
      BY <1>0, <1>10, <3>1
    <3>3. Min({b, k}) = IF b <= k THEN b ELSE k
      BY ONLY <3>2, OfTwo
    <3>4. a = IF b <= k THEN b ELSE k
      BY <1>10, <3>1
    <3>5. Min({b, k}) = a /\ a <= b
      BY ONLY <3>2, <3>3, <3>4
    <3>6. out = SubSeq(full, 1, Min({b, k}))
      BY <1>9, <3>1 DEF Cut
    <3> QED BY <3>1, <3>5, <3>6
  <2> QED BY <2>1, <2>2 DEF IsPrefix
<1> QED BY <1>0, <1>3, <1>4, <1>11, <1>12

-----------------------------------------------------------------------------
(* Reading numbers back (libc.c:93-141).                                   *)

\* The characters of the digits are different.
LEMMA DigitsDiffer ==
    /\ Len(DigitChar) = 16
    /\ \A i, k \in 1 .. 16 : DigitChar[i] = DigitChar[k] => i = k
    /\ \A i \in 1 .. 16 : ~IsSpace(DigitChar[i]) /\ DigitChar[i] # "-"
    /\ DigitChar[1] = "0"
<1>1. /\ Len(DigitChar) = 16
      /\ \A i, k \in 1 .. 16 : DigitChar[i] = DigitChar[k] => i = k
      /\ \A i \in 1 .. 16 : DigitChar[i] # "-"
      /\ DigitChar[1] = "0"
  BY DEF DigitChar
<1>2. \A i \in 1 .. 16 : DigitChar[i] # " "
  <2> DEFINE D == {"0", "1", "2", "3", "4", "5", "6", "7",
                   "8", "9", "a", "b", "c", "d", "e", "f"}
  <2>1. \A i \in 1 .. 16 : DigitChar[i] \in D
    BY DEF DigitChar
  <2>2. " " \notin D
    OBVIOUS
  <2> HIDE DEF D
  <2> QED BY <2>1, <2>2, Zenon
<1>3. \A i \in 1 .. 16 : ~IsSpace(DigitChar[i])
  BY <1>2, Zenon DEF IsSpace
<1> QED BY <1>1, <1>3

\* The value of a digit.
LEMMA DigitValueIs ==
    ASSUME NEW j \in 0 .. 15
    PROVE  DigitValue(DigitChar[j + 1]) = j
<1>1. j + 1 \in 1 .. 16 /\ j \in Int
  OBVIOUS
<1> PICK k, ch : k = j + 1 /\ ch = DigitChar[k]
  OBVIOUS
<1> DEFINE I == {i \in 1 .. Len(DigitChar) : DigitChar[i] = ch}
<1>2. I = {k}
  BY <1>1, DigitsDiffer
<1>3. SelectInSeq(DigitChar, LAMBDA x : x = ch) = Min(I)
  <2>1. I # {}
    BY <1>2
  <2> QED BY <2>1 DEF SelectInSeq
<1>4. Min({k}) = k
  <2>1. {k} = {k, k} /\ k \in Int
    BY <1>1
  <2>2. Min({k, k}) = k
    BY <2>1, OfTwo
  <2> QED BY <2>1, <2>2
<1>5. DigitValue(ch) = Min(I) - 1
  BY <1>3 DEF DigitValue
<1> HIDE DEF I
<1> QED BY <1>1, <1>2, <1>4, <1>5

\* The digits of a base, and what a reader makes of one more of them: the
\* value wraps where it is kept in an int.
Of(base) == {DigitChar[j] : j \in 1 .. base}
Turned(x, ch, base, wrap) ==
    IF wrap THEN Signed(x * base + DigitValue(ch)) ELSE x * base + DigitValue(ch)
Reads(v, s, base, wrap, n) ==
    v = [i \in 0 .. n |-> IF i = 0 THEN 0 ELSE Turned(v[i-1], s[i], base, wrap)]

\* The first n characters of s are digits of base; those of s and t are the same.
Over(s, base, n) == Len(s) = n /\ \A i \in 1 .. n : s[i] \in Of(base)
Agree(s, t, n)   == \A i \in 1 .. n : s[i] = t[i]

\* A number turned is a number.
LEMMA TurnedTyped ==
    ASSUME NEW base \in {10, 16}, NEW wrap \in BOOLEAN, NEW x \in Int, NEW ch \in Of(base)
    PROVE  Turned(x, ch, base, wrap) \in Int
<1>1. PICK j \in 1 .. base : ch = DigitChar[j]
  BY DEF Of
<1> PICK d : d = DigitValue(ch)
  OBVIOUS
<1>2. j - 1 \in 0 .. 15 /\ (j - 1) + 1 = j
  OBVIOUS
<1>3. d \in Int
  <2> PICK i : i = j - 1
    OBVIOUS
  <2>1. DigitValue(DigitChar[i + 1]) = i
    BY <1>2, DigitValueIs
  <2> QED BY <1>1, <1>2, <2>1
<1>4. x * base \in Int
  OBVIOUS
<1> PICK y : y = x * base + d
  OBVIOUS
<1>5. y \in Int
  BY <1>3, <1>4
<1>6. Signed(y) \in Int
  BY <1>5, WordAssumption DEF Signed
<1> QED BY <1>5, <1>6 DEF Turned

\* Two readers of the same digits agree.
LEMMA ReadersAgree ==
    ASSUME NEW base, NEW wrap, NEW s, NEW t, NEW m \in Nat, NEW n \in Nat, m <= n,
           Agree(s, t, m), NEW v, Reads(v, s, base, wrap, m), NEW w, Reads(w, t, base, wrap, n)
    PROVE  v[m] = w[m]
<1> DEFINE T == {i \in 0 .. m : v[i] = w[i]}
<1>1. v[0] = 0 /\ w[0] = 0
  BY DEF Reads
<1>2. ASSUME NEW i \in 1 .. m
      PROVE  v[i] = Turned(v[i-1], s[i], base, wrap) /\ w[i] = Turned(w[i-1], t[i], base, wrap)
  <2>1. i \in 0 .. m /\ i \in 0 .. n /\ i # 0
    OBVIOUS
  <2> QED BY <2>1 DEF Reads, Agree
<1>3. 0 \in T
  BY <1>1
<1>4. ASSUME NEW i \in 0 .. m, i < m, i \in T PROVE i + 1 \in T
  <2> PICK k : k = i + 1
    OBVIOUS
  <2>1. k \in 1 .. m /\ k \in 0 .. m /\ k - 1 = i
    BY <1>4
  <2>2. v[k] = Turned(v[i], s[k], base, wrap) /\ w[k] = Turned(w[i], t[k], base, wrap)
    BY <1>2, <2>1
  <2>4. s[k] = t[k]
    BY <2>1 DEF Agree
  <2>3. v[k] = w[k]
    BY <1>4, <2>1, <2>2, <2>4
  <2> QED BY <2>1, <2>3
<1>5. \A i \in 0 .. m : i \in T
  <2> HIDE DEF T
  <2>1. 0 \in Nat /\ m \in Nat /\ 0 <= m
    OBVIOUS
  <2> QED BY ONLY <1>3, <1>4, <2>1, IntervalInduction
<1> QED BY <1>5

\* What a reader makes of a string.
ReadOff(s, base, wrap) ==
    LET v == CHOOSE h : Reads(h, s, base, wrap, Len(s)) IN v[Len(s)]

\* There is a reader of every string of digits.
LEMMA ReaderExists ==
    ASSUME NEW base \in {10, 16}, NEW wrap \in BOOLEAN, NEW n \in Nat, NEW s,
           Over(s, base, n)
    PROVE  \E v \in [0 .. n -> Int] : Reads(v, s, base, wrap, n)
<1> DEFINE f == [i \in 1 .. n |-> [x \in Int |-> Turned(x, s[i], base, wrap)]]
<1>1. f \in [1 .. n -> [Int -> Int]]
  <2>1. \A i \in 1 .. n, x \in Int : Turned(x, s[i], base, wrap) \in Int
    BY TurnedTyped DEF Over
  <2> QED BY <2>1
<1>2. \A i \in 1 .. n, x \in Int : f[i][x] = Turned(x, s[i], base, wrap)
  OBVIOUS
<1> HIDE DEF f
<1>3. \E g \in [0 .. n -> Int] : g[0] = 0 /\ \A i \in 1 .. n : g[i] = f[i][g[i-1]]
  <2>1. PICK S, F, a, N : S = Int /\ F = f /\ a = 0 /\ N = n
    OBVIOUS
  <2>2. N \in Nat /\ a \in S
    BY <2>1
  <2>4. F \in [1 .. N -> [S -> S]]
    BY <1>1, <2>1
  <2>3. \E g \in [0 .. N -> S] : g[0] = a /\ \A i \in 1 .. N : g[i] = F[i][g[i-1]]
    BY ONLY <2>2, <2>4, PrimitiveRecursion
  <2> QED BY ONLY <2>1, <2>3
<1>4. PICK g \in [0 .. n -> Int] : g[0] = 0 /\ \A i \in 1 .. n : g[i] = f[i][g[i-1]]
  BY <1>3
<1>5. ASSUME NEW i \in 0 .. n
      PROVE  g[i] = IF i = 0 THEN 0 ELSE Turned(g[i-1], s[i], base, wrap)
  <2>1. CASE i = 0
    BY <1>4, <2>1
  <2>2. CASE i # 0
    <3>1. i \in 1 .. n /\ i - 1 \in 0 .. n
      BY <2>2
    <3>2. g[i-1] \in Int
      BY <3>1
    <3> QED BY <1>2, <1>4, <2>2, <3>1, <3>2
  <2> QED BY <2>1, <2>2
<1>6. Reads(g, s, base, wrap, n)
  <2>1. g = [i \in 0 .. n |-> g[i]]
    OBVIOUS
  <2> QED BY <1>5, <2>1 DEF Reads
<1> QED BY <1>6

\* It starts from 0 and takes the characters one by one.
LEMMA ReadOffIs ==
    ASSUME NEW base \in {10, 16}, NEW wrap \in BOOLEAN, NEW n \in Nat, NEW s,
           Over(s, base, n)
    PROVE  /\ ReadOff(s, base, wrap) \in Int
           /\ n = 0 => ReadOff(s, base, wrap) = 0
           /\ \A v : Reads(v, s, base, wrap, n) => ReadOff(s, base, wrap) = v[n]
<1> PICK chosen : chosen = CHOOSE h : Reads(h, s, base, wrap, n)
  OBVIOUS
<1>1. PICK v \in [0 .. n -> Int] : Reads(v, s, base, wrap, n)
  BY ReaderExists
<1>2. Reads(chosen, s, base, wrap, n)
  BY <1>1
<1>3. ReadOff(s, base, wrap) = chosen[n]
  BY DEF ReadOff, Over
<1>4. ASSUME NEW w, Reads(w, s, base, wrap, n) PROVE chosen[n] = w[n]
  <2>1. n \in Nat /\ n <= n /\ Agree(s, s, n)
    BY DEF Agree
  <2> QED BY ONLY <1>2, <1>4, <2>1, ReadersAgree
<1>5. chosen[n] = v[n] /\ n \in 0 .. n
  BY <1>1, <1>4
<1>6. n = 0 => v[n] = 0
  BY <1>1, <1>5 DEF Reads
<1> QED BY <1>3, <1>4, <1>5, <1>6

\* It takes one more character in its turn.
LEMMA ReadsOneMore ==
    ASSUME NEW base \in {10, 16}, NEW wrap \in BOOLEAN, NEW s \in Seq(Of(base)),
           NEW ch \in Of(base)
    PROVE  /\ ReadOff(s, base, wrap) \in Int
           /\ ReadOff(Append(s, ch), base, wrap) = Turned(ReadOff(s, base, wrap), ch, base, wrap)
<1> PICK n, t : n = Len(s) /\ t = Append(s, ch)
  OBVIOUS
<1>1. n \in Nat /\ Over(s, base, n)
  BY LenProperties, ElementOfSeq DEF Over
<1>2. /\ t \in Seq(Of(base)) /\ Len(t) = n + 1
      /\ (\A i \in 1 .. n : t[i] = s[i]) /\ t[n + 1] = ch
  BY AppendProperties
<1> PICK m : m = n + 1
  OBVIOUS
<1>3. m \in Nat /\ Over(t, base, m) /\ n <= m /\ Agree(s, t, n)
  BY <1>1, <1>2, ElementOfSeq DEF Over, Agree
<1>4. PICK v \in [0 .. n -> Int] : Reads(v, s, base, wrap, n)
  BY <1>1, ReaderExists
<1>5. PICK w \in [0 .. m -> Int] : Reads(w, t, base, wrap, m)
  BY <1>3, ReaderExists
<1>6. v[n] = w[n]
  BY <1>1, <1>3, <1>4, <1>5, ReadersAgree
<1>7. w[m] = Turned(w[n], ch, base, wrap)
  <2>1. m \in 0 .. m /\ m # 0 /\ m - 1 = n /\ t[m] = ch
    BY <1>1, <1>2
  <2> QED BY <1>5, <2>1 DEF Reads
<1>8. ReadOff(s, base, wrap) = v[n] /\ ReadOff(s, base, wrap) \in Int
  BY <1>1, <1>4, ReadOffIs
<1>9. ReadOff(t, base, wrap) = w[m]
  BY <1>3, <1>5, ReadOffIs
<1> QED BY <1>6, <1>7, <1>8, <1>9

\* ValueOf and Leading are such readers.
LEMMA ValueOfIs ==
    ASSUME NEW base \in {10, 16}, NEW s \in Seq(Of(base))
    PROVE  ValueOf(s, base) = ReadOff(s, base, FALSE)
<1> PICK n : n = Len(s)
  OBVIOUS
<1>1. n \in Nat /\ Over(s, base, n)
  BY LenProperties, ElementOfSeq DEF Over
<1> DEFINE Is(h) == h = [i \in 0 .. n |-> IF i = 0 THEN 0 ELSE h[i-1] * base + DigitValue(s[i])]
<1>2. \A h : Is(h) <=> Reads(h, s, base, FALSE, n)
  BY DEF Reads, Turned
<1>3. PICK v : Reads(v, s, base, FALSE, n)
  BY <1>1, ReaderExists
<1> DEFINE w == CHOOSE h : Is(h)
<1>4. ValueOf(s, base) = w[n]
  BY DEF ValueOf
<1> HIDE DEF Is
<1>5. Is(w)
  BY <1>2, <1>3
<1> HIDE DEF w
<1>6. \A h : Reads(h, s, base, FALSE, n) => ReadOff(s, base, FALSE) = h[n]
  <2> PICK no : no = FALSE
    OBVIOUS
  <2>1. no \in BOOLEAN
    OBVIOUS
  <2>2. \A h : Reads(h, s, base, no, n) => ReadOff(s, base, no) = h[n]
    BY ONLY <1>1, <2>1, base \in {10, 16}, ReadOffIs
  <2> QED BY <2>2
<1> QED BY <1>2, <1>4, <1>5, <1>6

\* The loop of atoi reads all of a string of digits, and wraps (libc.c:124).
LEMMA LeadingIs ==
    ASSUME NEW s \in Seq(Of(10))
    PROVE  Leading(s) = ReadOff(s, 10, TRUE)
<1> PICK n : n = Len(s)
  OBVIOUS
<1>1. n \in Nat /\ Over(s, 10, n)
  BY LenProperties, ElementOfSeq DEF Over
<1> DEFINE Is(h) == h = [i \in 0 .. n |-> IF i = 0 THEN 0
                                          ELSE Signed(h[i-1] * 10 + DigitValue(s[i]))]
<1>2. \A h : Is(h) <=> Reads(h, s, 10, TRUE, n)
  BY DEF Reads, Turned
<1>3. PICK v : Reads(v, s, 10, TRUE, n)
  BY <1>1, ReaderExists
<1> DEFINE w == CHOOSE h : Is(h)
<1>4. Leading(s) = w[n]
  <2>1. {i \in 1 .. Len(s) : ~IsDigit(s[i])} = {}
    BY <1>1 DEF IsDigit, Of, Over
  <2> QED BY <2>1 DEF Leading
<1> HIDE DEF Is
<1>5. Is(w)
  BY <1>2, <1>3
<1> HIDE DEF w
<1> QED BY <1>1, <1>2, <1>4, <1>5, ReadOffIs

\* The words of the machine: an int holds the numbers between the two halves.
LEMMA SignedIs ==
    /\ Word \in Nat /\ Word >= 32 /\ Word \div 2 \in Nat /\ Word = 2 * (Word \div 2)
    /\ \A n \in -(Word \div 2) .. Word \div 2 - 1 : Signed(n) = n
    /\ Signed(Word \div 2) = -(Word \div 2)
    /\ \A n \in 0 .. Word - 1 : n % Word = n
<1> PICK W, h : W = Word /\ h = W \div 2
  OBVIOUS
<1>1. W \in Nat /\ W >= 32 /\ W % 2 = 0
  BY WordAssumption
<1>2. h \in Nat /\ W = 2 * h
  BY <1>1
<1>3. ASSUME NEW n \in 0 .. W - 1 PROVE n % W = n
  BY <1>1
<1>4. ASSUME NEW n \in -h .. h - 1 PROVE Signed(n) = n
  <2>1. n + h \in 0 .. W - 1
    BY <1>2
  <2>2. (n + h) % W = n + h
    BY <1>3, <2>1
  <2> QED BY <1>2, <2>2 DEF Signed
<1>5. Signed(h) = -h
  <2>1. (h + h) % W = 0
    BY <1>1, <1>2
  <2> QED BY <1>2, <2>1 DEF Signed
<1> QED BY <1>1, <1>2, <1>3, <1>4, <1>5

\* What itoa_buf writes of a number.
Written(k, base) == Digits(k, base) \in Seq(Of(base))
                    /\ (k > 0 => Digits(k, base) # <<>> /\ Digits(k, base)[1] # "0")
                    /\ ReadOff(Digits(k, base), base, FALSE) = k
                    /\ (base = 10 /\ k <= Word \div 2 =>
                          ReadOff(Digits(k, base), base, TRUE) = Signed(k))

\* Of 0 the loop of itoa_buf writes nothing.
LEMMA NothingWritten ==
    ASSUME NEW base \in {10, 16}
    PROVE  Written(0, base)
<1> PICK s : s = Digits(0, base)
  OBVIOUS
<1>1. s = <<>>
  BY DigitsAre
<1>2. s \in Seq(Of(base)) /\ Over(s, base, 0)
  <2>1. s \in Seq(Of(base)) /\ Len(s) = 0
    BY <1>1, EmptySeq
  <2>2. 1 .. 0 = {}
    OBVIOUS
  <2> QED BY <2>1, <2>2 DEF Over
<1>3. \A wrap \in BOOLEAN : ReadOff(s, base, wrap) = 0
  BY <1>2, ReadOffIs
<1>4. Signed(0) = 0
  BY SignedIs
<1>5. ReadOff(s, base, FALSE) = 0 /\ ReadOff(s, base, TRUE) = 0
  <2>1. TRUE \in BOOLEAN /\ FALSE \in BOOLEAN
    OBVIOUS
  <2> QED BY ONLY <1>3, <2>1
<1>6. ~ (0 > 0)
  OBVIOUS
<1> QED BY <1>2, <1>4, <1>5, <1>6, Zenon DEF Written

\* Of another number it writes the digits of the number's quotient and one more.
LEMMA OneMoreWritten ==
    ASSUME NEW base \in {10, 16}, NEW k \in 1 .. Word - 1, Written(k \div base, base)
    PROVE  Written(k, base)
<1> PICK q, r : q = k \div base /\ r = k % base
  OBVIOUS
<1>1. /\ q \in Nat /\ q < k /\ r \in 0 .. base - 1 /\ r \in 0 .. 15 /\ k \in Nat /\ k > 0
      /\ k = q * base + r
  BY SignedIs, DivisionShrinks
<1> PICK s, t, ch : s = Digits(q, base) /\ t = Digits(k, base) /\ ch = DigitChar[r + 1]
  OBVIOUS
<1>2. t = Append(s, ch)
  BY DigitsAre
<1>3. /\ s \in Seq(Of(base))
      /\ q > 0 => s # <<>> /\ s[1] # "0"
      /\ ReadOff(s, base, FALSE) = q
      /\ base = 10 /\ q <= Word \div 2 => ReadOff(s, base, TRUE) = Signed(q)
  BY DEF Written
<1>4. r + 1 \in 1 .. base /\ ch \in Of(base) /\ DigitValue(ch) = r
  BY <1>1, DigitValueIs DEF Of
<1>5. t \in Seq(Of(base)) /\ t # <<>>
  BY <1>2, <1>3, <1>4, AppendProperties
<1>6. t[1] # "0"
  <2>1. CASE q = 0
    <3>1. s = <<>>
      BY <2>1, DigitsAre
    <3>2. t[1] = ch
      BY <1>2, <3>1
    <3>3. r + 1 # 1 /\ r + 1 \in 1 .. 16 /\ 1 \in 1 .. 16
      BY <1>1, <2>1
    <3> QED BY <3>2, <3>3, DigitsDiffer
  <2>2. CASE q # 0
    <3>1. s # <<>> /\ s[1] # "0"
      BY <1>1, <1>3, <2>2
    <3>2. 1 \in 1 .. Len(s)
      BY <1>3, <3>1, EmptySeq
    <3>3. t[1] = s[1]
      BY <1>2, <1>3, <1>4, <3>2, AppendProperties
    <3> QED BY <3>1, <3>3
  <2> QED BY <2>1, <2>2
<1>7. ASSUME NEW wrap \in BOOLEAN
      PROVE  ReadOff(t, base, wrap) = Turned(ReadOff(s, base, wrap), ch, base, wrap)
  BY <1>2, <1>3, <1>4, ReadsOneMore
<1>8. ReadOff(t, base, FALSE) = k
  <2>1. ReadOff(t, base, FALSE) = Turned(q, ch, base, FALSE)
    BY <1>3, <1>7
  <2> QED BY <1>1, <1>4, <2>1 DEF Turned
<1>9. ASSUME base = 10, k <= Word \div 2 PROVE ReadOff(t, base, TRUE) = Signed(k)
  <2>1. q \in -(Word \div 2) .. Word \div 2 - 1 /\ q <= Word \div 2
    BY <1>1, <1>9, SignedIs
  <2>2. ReadOff(s, base, TRUE) = q
    BY <1>3, <1>9, <2>1, SignedIs
  <2>3. ReadOff(t, base, TRUE) = Turned(q, ch, base, TRUE)
    BY <1>7, <2>2
  <2> QED BY <1>1, <1>4, <2>3 DEF Turned
<1> QED BY <1>3, <1>5, <1>6, <1>8, <1>9 DEF Written

\* So it writes every number such that it reads back, and with no zero in front.
LEMMA AllWritten ==
    ASSUME NEW base \in {10, 16}, NEW k \in 0 .. Word - 1
    PROVE  Written(k, base)
<1> DEFINE T == {m \in 0 .. Word - 1 : \A j \in 0 .. m : Written(j, base)}
<1>0. Word - 1 \in Nat /\ 0 <= Word - 1
  BY SignedIs
<1>1. 0 \in T
  BY <1>0, NothingWritten
<1>2. ASSUME NEW m \in 0 .. Word - 1, m < Word - 1, m \in T PROVE m + 1 \in T
  <2> PICK n, q : n = m + 1 /\ q = n \div base
    OBVIOUS
  <2>1. n \in 1 .. Word - 1 /\ n \in Nat /\ n \in 0 .. Word - 1
    BY <1>0, <1>2
  <2>2. q \in 0 .. m
    BY <2>1, DivisionShrinks
  <2>3. Written(q, base)
    BY <1>2, <2>2
  <2>4. Written(n, base)
    BY <2>1, <2>3, OneMoreWritten
  <2>5. \A j \in 0 .. m + 1 : j \in 0 .. m \/ j = n
    OBVIOUS
  <2> QED BY <1>2, <2>1, <2>4, <2>5
<1> HIDE DEF T
<1>3. \A m \in 0 .. Word - 1 : m \in T
  BY <1>0, <1>1, <1>2, IntervalInduction
<1> QED BY <1>3 DEF T

\* A number that starts with a digit has no spaces to skip.
LEMMA NothingSkipped ==
    ASSUME NEW S, NEW s \in Seq(S), s # <<>>, ~IsSpace(s[1])
    PROVE  SkipSpaces(s) = s
<1> DEFINE text == {i \in 1 .. Len(s) : ~IsSpace(s[i])}
<1>1. PICK n, c : n = Len(s) /\ c = s[1]
  OBVIOUS
<1>2. n \in Nat /\ n # 0
  BY <1>1, EmptySeq
<1>3. 1 \in 1 .. n /\ \A i \in 1 .. n : i \in Int /\ 1 <= i
  BY ONLY <1>2
<1>4. 1 \in text /\ \A i \in text : i \in 1 .. n
  BY ONLY <1>1, <1>3, ~IsSpace(s[1]), Zenon
<1>5. SkipSpaces(s) = SubSeq(s, Min(text), Len(s))
  BY <1>4 DEF SkipSpaces
<1> HIDE DEF text
<1>6. Min(text) = 1
  <2>1. PICK m : m = Min(text)
    OBVIOUS
  <2>2. \E a \in text : \A b \in text : a <= b
    BY ONLY <1>3, <1>4
  <2>3. m \in text /\ \A b \in text : m <= b
    BY ONLY <2>1, <2>2 DEF Min
  <2> QED BY ONLY <1>3, <1>4, <2>1, <2>3
<1> QED BY <1>5, <1>6, SubSeqFull

\* The digits of a number, as atoi starts on them.
LEMMA FirstIsDigit ==
    ASSUME NEW base \in {10, 16}, NEW s \in Seq(Of(base)), s # <<>>
    PROVE  ~IsSpace(s[1]) /\ s[1] # "-"
<1>1. 1 \in 1 .. Len(s)
  BY EmptySeq
<1>2. s[1] \in Of(base)
  BY <1>1, ElementOfSeq
<1>3. PICK j \in 1 .. base : s[1] = DigitChar[j]
  BY <1>2 DEF Of
<1>4. j \in 1 .. 16
  OBVIOUS
<1> QED BY <1>3, <1>4, DigitsDiffer

\* One zero reads as zero.
LEMMA ZeroReads ==
    ASSUME NEW base \in {10, 16}
    PROVE  /\ <<"0">> \in Seq(Of(base)) /\ Len(<<"0">>) = 1
           /\ \A wrap \in BOOLEAN : ReadOff(<<"0">>, base, wrap) = 0
<1> PICK none, z : none = <<>> /\ z = DigitChar[1]
  OBVIOUS
<1>1. none \in Seq(Of(base)) /\ z \in Of(base) /\ z = "0" /\ DigitValue(z) = 0
  <2>1. 0 \in 0 .. 15 /\ 0 + 1 = 1 /\ 1 \in 1 .. base
    OBVIOUS
  <2>2. DigitValue(DigitChar[0 + 1]) = 0
    BY <2>1, DigitValueIs
  <2> QED BY <2>1, <2>2, EmptySeq, DigitsDiffer DEF Of
<1>2. <<"0">> = Append(none, z)
  BY <1>1
<1>3. <<"0">> \in Seq(Of(base)) /\ Len(<<"0">>) = 1
  <2>1. "0" \in Of(base)
    BY <1>1
  <2> QED BY <2>1
<1>4. Signed(0) = 0
  BY SignedIs
<1>5. ASSUME NEW wrap \in BOOLEAN PROVE ReadOff(Append(none, z), base, wrap) = 0
  <2>1. ReadOff(none, base, wrap) = 0
    <3>1. Over(none, base, 0)
      <4>1. 1 .. 0 = {} /\ Len(none) = 0
        BY EmptySeq
      <4> QED BY <4>1 DEF Over
    <3> QED BY <3>1, ReadOffIs
  <2>2. ReadOff(Append(none, z), base, wrap) = Turned(0, z, base, wrap)
    BY <1>1, <2>1, ReadsOneMore
  <2>3. 0 * base + DigitValue(z) = 0
    BY <1>1
  <2> QED BY <1>4, <2>2, <2>3 DEF Turned
<1> QED BY <1>2, <1>3, <1>5

\* itoa_buf and atoi are inverse to each other, for every int: the smallest,
\* which has no opposite, and zero, which has no digits of its own, included;
\* and what is written unsigned or in hexadecimal is the number, with no sign
\* and no leading zero (libc.c:93-141).
THEOREM NumbersAreReadBack ==
    ASSUME call \in Calls \cup {NoCall}
    PROVE  NumbersReadBack
<1> SUFFICES ASSUME call.fun = "itoa_buf"
             PROVE  /\ atoi(itoa_buf(call.val, 10, FALSE)) = call.val
                    /\ \A base \in {10, 16} :
                         LET s == itoa_buf(call.val, base, TRUE)
                         IN  /\ ValueOf(s, base) = call.val % Word
                             /\ s # <<>> /\ (s[1] = "0" => Len(s) = 1)
  BY DEF NumbersReadBack
<1> PICK x, h : x = call.val /\ h = Word \div 2
  OBVIOUS
<1>1. x \in Int32
  BY DEF Calls, NoCall
<1>2. /\ Word \in Nat /\ Word >= 32 /\ h \in Nat /\ Word = 2 * h
      /\ x \in -h .. h - 1 /\ x \in Int
      /\ \A n \in -h .. h - 1 : Signed(n) = n
      /\ Signed(h) = -h
      /\ \A n \in 0 .. Word - 1 : n % Word = n
  BY <1>1, SignedIs DEF Int32
<1>6. h \in Nat /\ h >= 16 /\ Word = 2 * h /\ x \in -h .. h - 1 /\ x \in Int
  BY <1>2
<1>3. ASSUME NEW base \in {10, 16}, NEW k \in 1 .. Word - 1
      PROVE  /\ Digits(k, base) \in Seq(Of(base)) /\ Digits(k, base) # <<>>
             /\ Digits(k, base)[1] # "0"
             /\ SkipSpaces(Digits(k, base)) = Digits(k, base) /\ Digits(k, base)[1] # "-"
             /\ ReadOff(Digits(k, base), base, FALSE) = k
             /\ base = 10 /\ k <= h => ReadOff(Digits(k, base), base, TRUE) = Signed(k)
  <2> PICK s : s = Digits(k, base)
    OBVIOUS
  <2>1. k \in 0 .. Word - 1 /\ k > 0
    BY <1>2
  <2>2. /\ s \in Seq(Of(base)) /\ s # <<>> /\ s[1] # "0" /\ ReadOff(s, base, FALSE) = k
        /\ base = 10 /\ k <= h => ReadOff(s, base, TRUE) = Signed(k)
    BY <2>1, AllWritten DEF Written
  <2>3. ~IsSpace(s[1]) /\ s[1] # "-"
    BY <2>2, FirstIsDigit
  <2>4. SkipSpaces(s) = s
    BY <2>2, <2>3, NothingSkipped
  <2> QED BY <2>2, <2>3, <2>4
<1>4. atoi(itoa_buf(x, 10, FALSE)) = x
  <2>1. CASE x = 0
    <3>1. itoa_buf(x, 10, FALSE) = <<>> \o <<"0">>
      BY <1>2, <2>1 DEF itoa_buf
    <3> PICK s : s = <<"0">>
      OBVIOUS
    <3>2. s \in Seq(Of(10)) /\ Len(s) = 1 /\ ReadOff(s, 10, TRUE) = 0 /\ s # <<>>
      BY ZeroReads
    <3>3. ~IsSpace(s[1]) /\ s[1] # "-"
      BY <3>2, FirstIsDigit
    <3>4. SkipSpaces(s) = s
      BY <3>2, <3>3, NothingSkipped
    <3>5. Leading(s) = 0
      BY <3>2, LeadingIs
    <3>6. atoi(s) = 0
      BY <3>3, <3>4, <3>5 DEF atoi
    <3>7. itoa_buf(x, 10, FALSE) = s
      BY <3>1, <3>2, ConcatEmptySeq
    <3> QED BY <2>1, <3>6, <3>7
  <2>2. CASE x > 0
    <3> PICK s : s = Digits(x, 10)
      OBVIOUS
    <3>1. x \in 1 .. Word - 1 /\ x <= h
      BY <1>2, <2>2
    <3>2. x % Word = x /\ ~ (x < 0) /\ x # 0
      <4>1. x \in 0 .. Word - 1 /\ ~ (x < 0) /\ x # 0
        BY <1>6, <2>2, <3>1
      <4> QED BY <1>2, <4>1, Zenon
    <3>3. itoa_buf(x, 10, FALSE) = <<>> \o s
      BY <3>2 DEF itoa_buf
    <3>4. /\ s \in Seq(Of(10)) /\ s # <<>> /\ SkipSpaces(s) = s /\ s[1] # "-"
          /\ ReadOff(s, 10, TRUE) = x
      BY <1>2, <1>3, <3>1
    <3>5. Leading(s) = x
      BY <3>4, LeadingIs
    <3>6. atoi(s) = x
      BY <3>4, <3>5 DEF atoi
    <3> QED BY <3>3, <3>4, <3>6, ConcatEmptySeq
  <2>3. CASE x < 0
    <3> PICK k, s, t : k = -x /\ s = Digits(k, 10) /\ t = <<"-">> \o s
      OBVIOUS
    <3>1. k \in 1 .. Word - 1 /\ k <= h
      BY <1>6, <2>3
    <3>2. k % Word = k
      <4>1. k \in 0 .. Word - 1
        BY <1>6, <3>1
      <4> QED BY <1>2, <4>1, Zenon
    <3>3. itoa_buf(x, 10, FALSE) = t
      BY <2>3, <3>1, <3>2 DEF itoa_buf
    <3>4. s \in Seq(Of(10)) /\ ReadOff(s, 10, TRUE) = Signed(k)
      BY <1>3, <3>1
    <3>5. Leading(s) = Signed(k)
      BY <3>4, LeadingIs
    <3> DEFINE S == Of(10) \cup {"-"}
    <3>6. s \in Seq(S) /\ <<"-">> \in Seq(S)
      <4>1. Of(10) \subseteq S /\ "-" \in S
        OBVIOUS
      <4> HIDE DEF S
      <4>2. s \in Seq(S)
        BY <3>4, <4>1, SeqMonotonic
      <4> QED BY <4>1, <4>2
    <3> HIDE DEF S
    <3>7. t \in Seq(S) /\ t # <<>> /\ t[1] = "-" /\ Tail(t) = s
      <4>1. PICK m : m = <<"-">>
        OBVIOUS
      <4>2. m \in Seq(S) /\ Len(m) = 1 /\ m[1] = "-" /\ Len(s) \in Nat
        BY <3>6, <4>1, LenProperties
      <4>3. /\ t \in Seq(S) /\ Len(t) = 1 + Len(s)
            /\ \A i \in 1 .. 1 + Len(s) : t[i] = IF i <= 1 THEN m[i] ELSE s[i - 1]
        BY <3>6, <4>1, <4>2, ConcatProperties
      <4>4. t # <<>> /\ t[1] = "-"
        BY <4>2, <4>3, EmptySeq
      <4>5. /\ Tail(t) \in Seq(S) /\ Len(Tail(t)) = Len(s)
            /\ \A i \in 1 .. Len(s) : Tail(t)[i] = t[i + 1]
        BY <4>2, <4>3, <4>4, HeadTailProperties
      <4>6. ASSUME NEW i \in 1 .. Len(s) PROVE Tail(t)[i] = s[i]
        <5>1. i + 1 \in 1 .. 1 + Len(s) /\ ~ (i + 1 <= 1) /\ (i + 1) - 1 = i
          BY <4>2
        <5> QED BY <4>3, <4>5, <5>1
      <4> PICK u : u = Tail(t)
        OBVIOUS
      <4>7. u \in Seq(S) /\ Len(u) = Len(s) /\ \A i \in 1 .. Len(u) : u[i] = s[i]
        BY <4>5, <4>6
      <4>8. u = s
        BY <3>6, <4>7, SeqEqual
      <4> QED BY <4>3, <4>4, <4>8
    <3>8. SkipSpaces(t) = t
      <4>1. ~IsSpace(t[1])
        <5>1. "-" # " "
          OBVIOUS
        <5> QED BY <3>7, <5>1, Zenon DEF IsSpace
      <4> QED BY <3>7, <4>1, NothingSkipped
    <3>9. atoi(t) = Signed(-Signed(k))
      BY <3>5, <3>7, <3>8 DEF atoi
    <3>10. Signed(-Signed(k)) = x
      <4>1. CASE k = h
        <5>1. Signed(k) = -h /\ -(-h) = h /\ x = -h
          BY <1>2, <4>1
        <5> QED BY <1>2, <5>1
      <4>2. CASE k # h
        <5>3. k = -x
          OBVIOUS
        <5>1. k \in -h .. h - 1 /\ x \in -h .. h - 1 /\ -k = x
          BY ONLY <1>6, <3>1, <4>2, <5>3
        <5>2. Signed(k) = k /\ Signed(x) = x
          BY <1>2, <5>1
        <5> QED BY <5>1, <5>2
      <4> QED BY <4>1, <4>2
    <3> QED BY <3>3, <3>9, <3>10
  <2>4. x = 0 \/ x > 0 \/ x < 0
    BY ONLY <1>6
  <2> QED BY ONLY <2>1, <2>2, <2>3, <2>4
<1>5. ASSUME NEW base \in {10, 16}
      PROVE  LET s == itoa_buf(x, base, TRUE)
             IN  /\ ValueOf(s, base) = x % Word
                 /\ s # <<>> /\ (s[1] = "0" => Len(s) = 1)
  <2> PICK u, s : u = x % Word /\ s = itoa_buf(x, base, TRUE)
    OBVIOUS
  <2>1. u \in 0 .. Word - 1
    BY <1>2
  <2>2. CASE u = 0
    <3>1. s = <<>> \o <<"0">>
      BY <2>2 DEF itoa_buf
    <3>2. PICK z : z = <<"0">>
      OBVIOUS
    <3>3. z \in Seq(Of(base)) /\ Len(z) = 1 /\ ReadOff(z, base, FALSE) = 0
      BY <3>2, ZeroReads
    <3>4. s = z
      BY <3>1, <3>2, <3>3, ConcatEmptySeq
    <3>5. z # <<>> /\ ValueOf(z, base) = 0
      BY <3>2, <3>3, ValueOfIs
    <3> QED BY <2>2, <3>3, <3>4, <3>5
  <2>3. CASE u # 0
    <3> PICK z : z = Digits(u, base)
      OBVIOUS
    <3>1. s = <<>> \o z
      BY <2>3 DEF itoa_buf
    <3>2. u \in 1 .. Word - 1
      BY <2>1, <2>3
    <3>3. z \in Seq(Of(base)) /\ z # <<>> /\ z[1] # "0" /\ ReadOff(z, base, FALSE) = u
      BY <1>3, <3>2
    <3>4. s = z
      BY <3>1, <3>3, ConcatEmptySeq
    <3>5. ValueOf(z, base) = u
      BY <3>3, ValueOfIs
    <3> QED BY <3>3, <3>4, <3>5
  <2> QED BY <2>2, <2>3
<1> QED BY <1>4, <1>5

-----------------------------------------------------------------------------
(* parse_args (sh.c:299-317).                                              *)

\* The length of a line.
Long(line, n) == Len(line) = n

\* WordAt is the first place from p on that is no space, EndAt the first that is
\* one, and both are the end of the line where there is none.
FirstIn(m, T, p, n) == T \subseteq p .. n /\ m = Min(T \cup {n + 1})

\* So it is with the least place of a set of them.
LEMMA FirstOf ==
    ASSUME NEW n \in Nat, NEW p \in 1 .. n + 2, NEW T, NEW m, FirstIn(m, T, p, n)
    PROVE  m \in 1 .. n + 1 /\ (m <= n => m \in T /\ p <= m) /\ \A i \in T : m <= i
<1> DEFINE U == T \cup {n + 1}
<1>1. U \subseteq Nat /\ U # {} /\ T \subseteq p .. n
  BY DEF FirstIn
<1>2. \E x \in U : \A k \in U : x <= k
  <2> HIDE DEF U
  <2> QED BY <1>1, NatMin
<1>3. m = Min(U)
  BY DEF FirstIn
<1>4. m \in U /\ \A k \in U : m <= k
  <2> HIDE DEF U
  <2> QED BY <1>2, <1>3 DEF Min
<1>5. m \in 1 .. n + 1 /\ (m <= n => m \in T /\ p <= m) /\ \A i \in T : m <= i
  BY <1>1, <1>4
<1> QED BY <1>5

\* From p to WordAt there are only spaces.
LEMMA WordAtIs ==
    ASSUME NEW line, NEW n \in Nat, Long(line, n), NEW p \in 1 .. n + 2
    PROVE  /\ WordAt(line, p) \in 1 .. n + 1
           /\ WordAt(line, p) <= n => p <= WordAt(line, p) /\ ~IsSpace(line[WordAt(line, p)])
           /\ \A i \in p .. n : i < WordAt(line, p) => IsSpace(line[i])
<1> PICK w, T : w = WordAt(line, p) /\ T = {i \in p .. n : ~IsSpace(line[i])}
  OBVIOUS
<1>1. w = Min(T \cup {n + 1})
  BY DEF WordAt, Long
<1>2. w \in 1 .. n + 1 /\ (w <= n => w \in T /\ p <= w) /\ \A i \in T : w <= i
  <2>1. FirstIn(w, T, p, n) /\ n \in Nat /\ p \in 1 .. n + 2
    BY <1>1 DEF FirstIn
  <2> QED BY ONLY <2>1, FirstOf
<1>3. ASSUME NEW i \in p .. n, i < w PROVE IsSpace(line[i])
  BY <1>2, <1>3
<1> QED BY <1>2, <1>3

\* From a word's first character to EndAt there is none.
LEMMA EndAtIs ==
    ASSUME NEW line, NEW n \in Nat, Long(line, n), NEW p \in 1 .. n, ~IsSpace(line[p])
    PROVE  /\ EndAt(line, p) \in p + 1 .. n + 1
           /\ EndAt(line, p) <= n => IsSpace(line[EndAt(line, p)])
           /\ \A i \in p .. n : i < EndAt(line, p) => ~IsSpace(line[i])
<1> PICK e, T : e = EndAt(line, p) /\ T = {i \in p .. n : IsSpace(line[i])}
  OBVIOUS
<1>1. e = Min(T \cup {n + 1})
  BY DEF EndAt, Long
<1>2. e \in 1 .. n + 1 /\ (e <= n => e \in T /\ p <= e) /\ \A i \in T : e <= i
  <2>1. FirstIn(e, T, p, n) /\ n \in Nat /\ p \in 1 .. n + 2
    BY <1>1 DEF FirstIn
  <2> QED BY ONLY <2>1, FirstOf
<1>3. ASSUME NEW i \in p .. n, i < e PROVE ~IsSpace(line[i])
  BY <1>2, <1>3
<1>4. e <= n => IsSpace(line[e])
  BY <1>2
<1>5. e \in p + 1 .. n + 1
  BY <1>2, <1>4
<1> QED BY <1>3, <1>4, <1>5

\* The words that begin before p.
Before(line, p) == {v \in Words(line) : v[1] < p}

\* They are finitely many.
LEMMA WordsFinite ==
    ASSUME NEW line, NEW n \in Nat, Long(line, n)
    PROVE  /\ IsFiniteSet(Words(line)) /\ Cardinality(Words(line)) \in Nat
           /\ \A p : /\ IsFiniteSet(Before(line, p)) /\ Cardinality(Before(line, p)) \in Nat
                     /\ Cardinality(Before(line, p)) <= Cardinality(Words(line))
<1>1. IsFiniteSet(1 .. n)
  BY FS_Interval
<1>2. IsFiniteSet((1 .. n) \X (1 .. n))
  BY <1>1, FS_Product
<1>3. Words(line) \subseteq (1 .. n) \X (1 .. n)
  BY DEF Words, Long
<1>4. IsFiniteSet(Words(line)) /\ Cardinality(Words(line)) \in Nat
  BY <1>2, <1>3, FS_Subset, FS_CardinalityType
<1>5. ASSUME NEW p
      PROVE  /\ IsFiniteSet(Before(line, p)) /\ Cardinality(Before(line, p)) \in Nat
             /\ Cardinality(Before(line, p)) <= Cardinality(Words(line))
  <2>1. Before(line, p) \subseteq Words(line)
    BY DEF Before
  <2> QED BY <1>4, <2>1, FS_Subset, FS_CardinalityType
<1> QED BY <1>4, <1>5

\* Where a word may begin.
Boundary(line, p, n) == p = 1 \/ p = n + 2 \/ IsSpace(line[p - 1])

\* The stretch from the first character that is no space is a word, and with it
\* the words before its end are one more.
LEMMA NextWord ==
    ASSUME NEW line, NEW n \in Nat, Long(line, n), NEW p \in 1 .. n + 2, Boundary(line, p, n),
           NEW w, w = WordAt(line, p), w <= n, NEW e, e = EndAt(line, w)
    PROVE  /\ w \in p .. n /\ e \in w + 1 .. n + 1
           /\ Boundary(line, e + 1, n) /\ e + 1 \in 1 .. n + 2
           /\ <<w, e - 1>> \in Words(line) /\ <<w, e - 1>> \notin Before(line, p)
           /\ Before(line, e + 1) = Before(line, p) \cup {<<w, e - 1>>}
           /\ {v \in Words(line) : v[1] <= w} = Before(line, e + 1)
<1>1. /\ w \in 1 .. n + 1 /\ p <= w /\ ~IsSpace(line[w]) /\ w \in 1 .. n /\ w \in p .. n
      /\ \A i \in p .. n : i < w => IsSpace(line[i])
  BY WordAtIs
<1>2. /\ e \in w + 1 .. n + 1
      /\ e <= n => IsSpace(line[e])
      /\ \A i \in w .. n : i < e => ~IsSpace(line[i])
  BY <1>1, EndAtIs
<1>3. Boundary(line, e + 1, n) /\ e + 1 \in 1 .. n + 2
  <2>1. e + 1 \in 1 .. n + 2 /\ (e + 1) - 1 = e /\ (e <= n \/ e + 1 = n + 2)
    BY <1>1, <1>2
  <2> QED BY <1>2, <2>1 DEF Boundary
<1>4. w > 1 => IsSpace(line[w - 1])
  <2>1. CASE w = p
    <3>1. p # n + 2
      BY <1>1, <2>1
    <3> QED BY <2>1, <3>1 DEF Boundary
  <2>2. CASE w # p
    <3>1. w - 1 \in p .. n /\ w - 1 < w
      BY <1>1, <2>2
    <3> QED BY <1>1, <3>1
  <2> QED BY <2>1, <2>2
<1>5. <<w, e - 1>> \in Words(line)
  <2>1. e - 1 \in 1 .. n /\ w \in 1 .. n /\ w <= e - 1 /\ (e - 1) + 1 = e
        /\ \A i \in w .. e - 1 : i \in w .. n /\ i < e
    BY <1>1, <1>2
  <2>2. /\ \A i \in w .. e - 1 : ~IsSpace(line[i])
        /\ e - 1 < n => IsSpace(line[(e - 1) + 1])
    BY <1>2, <2>1
  <2> PICK v : v = <<w, e - 1>>
    OBVIOUS
  <2>3. v \in (1 .. n) \X (1 .. n) /\ v[1] = w /\ v[2] = e - 1
    BY <2>1
  <2> QED BY <1>4, <2>1, <2>2, <2>3 DEF Words, Long
<1>6. <<w, e - 1>> \notin Before(line, p)
  BY <1>1 DEF Before
<1>7. ASSUME NEW v \in Words(line), v[1] <= e PROVE v[1] < p \/ v = <<w, e - 1>>
  <2> SUFFICES ASSUME ~ (v[1] < p) PROVE v = <<w, e - 1>>
    OBVIOUS
  <2> PICK a, b : a = v[1] /\ b = v[2]
    OBVIOUS
  <2>1. /\ a \in 1 .. n /\ b \in 1 .. n /\ a <= b /\ v = <<a, b>>
        /\ \A i \in a .. b : ~IsSpace(line[i])
        /\ a > 1 => IsSpace(line[a - 1])
        /\ b < n => IsSpace(line[b + 1])
    BY DEF Words, Long
  <2>2. a \in p .. n /\ ~IsSpace(line[a]) /\ a <= e
    <3>1. a \in a .. b /\ a \in p .. n
      BY <2>1
    <3> QED BY <1>7, <2>1, <3>1
  <2>3. a >= w
    BY <1>1, <2>2
  <2>4. a < e
    BY <1>2, <2>1, <2>2
  <2>5. a = w
    <3> SUFFICES ASSUME a # w PROVE FALSE
      OBVIOUS
    <3>1. a - 1 \in w .. n /\ a - 1 < e /\ a > 1
      BY <1>1, <1>2, <2>1, <2>3, <2>4
    <3> QED BY <1>2, <2>1, <3>1
  <2>6. b < e
    <3> SUFFICES ASSUME ~ (b < e) PROVE FALSE
      OBVIOUS
    <3>1. e \in a .. b /\ e <= n
      BY <1>2, <2>1, <2>4
    <3> QED BY <1>2, <2>1, <3>1
  <2>7. b = e - 1
    <3> SUFFICES ASSUME b # e - 1 PROVE FALSE
      OBVIOUS
    <3>1. b + 1 \in w .. n /\ b + 1 < e /\ b < n
      BY <1>1, <1>2, <2>1, <2>5, <2>6
    <3> QED BY <1>2, <2>1, <3>1
  <2> QED BY <2>1, <2>5, <2>7
<1>8. \A v \in Words(line) : v[1] \in 1 .. n
  BY DEF Words, Long
<1>9. Before(line, e + 1) = Before(line, p) \cup {<<w, e - 1>>}
  <2>1. ASSUME NEW v \in Before(line, e + 1) PROVE v \in Before(line, p) \cup {<<w, e - 1>>}
    <3>1. v \in Words(line) /\ v[1] <= e
      BY <1>2, <1>8 DEF Before
    <3> QED BY <1>7, <3>1 DEF Before
  <2>2. ASSUME NEW v \in Before(line, p) PROVE v \in Before(line, e + 1)
    BY <1>1, <1>2, <1>8 DEF Before
  <2>3. <<w, e - 1>> \in Before(line, e + 1)
    BY <1>1, <1>2, <1>5 DEF Before
  <2> QED BY <2>1, <2>2, <2>3
<1>10. {v \in Words(line) : v[1] <= w} = Before(line, e + 1)
  <2>1. ASSUME NEW v \in Words(line), v[1] <= w PROVE v \in Before(line, e + 1)
    BY <1>1, <1>2, <1>8, <2>1 DEF Before
  <2>2. ASSUME NEW v \in Before(line, e + 1) PROVE v[1] <= w
    <3>1. v \in Words(line) /\ v[1] <= e
      BY <1>2, <1>8 DEF Before
    <3>2. v[1] < p \/ v = <<w, e - 1>>
      BY <1>7, <3>1
    <3> QED BY <1>1, <1>8, <3>1, <3>2
  <2>3. \A v \in Before(line, e + 1) : v \in Words(line)
    BY DEF Before
  <2> QED BY <2>1, <2>2, <2>3
<1> QED BY <1>1, <1>2, <1>3, <1>5, <1>6, <1>9, <1>10

\* Where no word begins any more the words before are all.
LEMMA NoWordLeft ==
    ASSUME NEW line, NEW n \in Nat, Long(line, n), NEW p \in 1 .. n + 2,
           ~ (WordAt(line, p) <= n)
    PROVE  Before(line, p) = Words(line)
<1>1. \A i \in p .. n : IsSpace(line[i])
  <2>1. WordAt(line, p) \in 1 .. n + 1
        /\ \A i \in p .. n : i < WordAt(line, p) => IsSpace(line[i])
    BY WordAtIs
  <2> QED BY <2>1
<1>2. ASSUME NEW v \in Words(line) PROVE v[1] < p
  <2> SUFFICES ASSUME ~ (v[1] < p) PROVE FALSE
    OBVIOUS
  <2>1. v[1] \in 1 .. n /\ v[2] \in 1 .. n /\ v[1] <= v[2]
        /\ \A i \in v[1] .. v[2] : ~IsSpace(line[i])
    BY DEF Words, Long
  <2>2. v[1] \in p .. n /\ v[1] \in v[1] .. v[2]
    BY <2>1
  <2> QED BY <1>1, <2>1, <2>2
<1> QED BY <1>2 DEF Before

\* parse_args after k turns of its loop.
Turn(line, t, k) ==
    LET w == WordAt(line, t.p)
        e == EndAt(line, w)
    IN  IF w > Len(line) THEN t
        ELSE [p |-> e + 1,
              argv |-> Append(t.argv,
                              SubSeq(line, w, IF k < MAX_ARGS - 1 THEN e - 1 ELSE Len(line)))]

Turns(turn, line) ==
    /\ turn[0] = [p |-> 1, argv |-> <<>>]
    /\ \A k \in 1 .. MAX_ARGS - 1 : turn[k] = Turn(line, turn[k-1], k)
    /\ parse_args(line) = turn[MAX_ARGS - 1].argv

\* The loop makes so many turns, and argv is what the last one leaves.
LEMMA TurnsExist ==
    ASSUME NEW line
    PROVE  \E turn : Turns(turn, line)
<1> PICK N : N = MAX_ARGS - 1
  OBVIOUS
<1> DEFINE start == [p |-> 1, argv |-> <<>>]
           Is(h, m) == h = [k \in 0 .. m |-> IF k = 0 THEN start ELSE Turn(line, h[k-1], k)]
           T == {m \in 0 .. N : \E h : Is(h, m)}
           turn == CHOOSE h : Is(h, N)
<1>0. parse_args(line) = turn[N].argv
  BY DEF parse_args, Turn
<1>1. N \in Nat /\ 0 <= N
  BY TextAssumption DEF TextAssumption
<1> HIDE DEF start
<1>2. 0 \in T
  <2> DEFINE h == [i \in 0 .. 0 |-> start]
  <2>1. Is(h, 0)
    OBVIOUS
  <2> HIDE DEF Is
  <2> QED BY <1>1, <2>1
<1>3. ASSUME NEW m \in 0 .. N, m < N, m \in T PROVE m + 1 \in T
  <2>1. PICK h : Is(h, m)
    BY <1>3
  <2> DEFINE g == [k \in 0 .. m + 1 |-> IF k = m + 1 THEN Turn(line, h[m], k) ELSE h[k]]
  <2>2. ASSUME NEW k \in 0 .. m + 1
        PROVE  g[k] = IF k = 0 THEN start ELSE Turn(line, g[k-1], k)
    <3>1. CASE k = m + 1
      <4>1. k - 1 = m /\ k # 0 /\ m \in 0 .. m + 1 /\ m # m + 1
        BY <1>1, <3>1
      <4>2. g[m] = h[m]
        BY <4>1
      <4> QED BY <3>1, <4>1, <4>2
    <3>2. CASE k # m + 1
      <4>1. k \in 0 .. m /\ (k # 0 => k - 1 \in 0 .. m + 1 /\ k - 1 # m + 1)
        BY <1>1, <3>2
      <4>2. g[k] = h[k] /\ (k # 0 => g[k-1] = h[k-1])
        BY <3>2, <4>1
      <4> QED BY <2>1, <4>1, <4>2
    <3> QED BY <3>1, <3>2
  <2>3. Is(g, m + 1)
    <3>1. g = [k \in 0 .. m + 1 |-> g[k]]
      OBVIOUS
    <3> HIDE DEF g
    <3> QED BY <2>2, <3>1
  <2>4. m + 1 \in 0 .. N
    BY <1>1, <1>3
  <2> HIDE DEF Is, g
  <2> QED BY <2>3, <2>4
<1>4. \A m \in 0 .. N : m \in T
  <2> HIDE DEF T
  <2> QED BY <1>1, <1>2, <1>3, IntervalInduction
<1>5. \E h : Is(h, N)
  BY <1>1, <1>4
<1>6. Is(turn, N)
  <2> HIDE DEF Is
  <2> QED BY <1>5
<1> HIDE DEF turn
<1>7. turn[0] = start
  BY <1>1, <1>6
<1>8. ASSUME NEW k \in 1 .. N PROVE turn[k] = Turn(line, turn[k-1], k)
  BY <1>1, <1>6
<1> QED BY <1>0, <1>7, <1>8 DEF start, Turns

\* What argv holds after k turns: the words before p in their order; and the
\* loop has made a turn without finding one only where no word is left.
Argument(line, w, i) ==
    SubSeq(line, w[1], IF i = MAX_ARGS - 1 THEN Len(line) ELSE w[2])
UpTo(line, w) == {v \in Words(line) : v[1] <= w[1]}
Holds(argv, line, p, S) ==
    /\ argv \in Seq(S) /\ Len(argv) = Cardinality(Before(line, p))
    /\ \A i \in 1 .. Len(argv) :
         \E w \in Words(line) : Cardinality(UpTo(line, w)) = i /\ argv[i] = Argument(line, w, i)
After(t, line, n, k, S) ==
    /\ t.p \in 1 .. n + 2 /\ Boundary(line, t.p, n)
    /\ Holds(t.argv, line, t.p, S)
    /\ Len(t.argv) <= k /\ (Len(t.argv) < k => Before(line, t.p) = Words(line))

\* Before the first turn argv is empty.
LEMMA FirstTurn ==
    ASSUME NEW line, NEW n \in Nat, Long(line, n), NEW S
    PROVE  After([p |-> 1, argv |-> <<>>], line, n, 0, S)
<1> PICK t : t = [p |-> 1, argv |-> <<>>]
  OBVIOUS
<1>1. t.p = 1 /\ t.argv = <<>>
  OBVIOUS
<1>2. Before(line, 1) = {}
  <2>1. \A v \in Words(line) : v[1] \in 1 .. n
    BY DEF Words, Long
  <2>2. \A v \in Words(line) : ~ (v[1] < 1)
    BY <2>1
  <2> QED BY <2>2 DEF Before
<1>3. Cardinality(Before(line, 1)) = 0
  BY <1>2, FS_EmptySet
<1>4. t.argv \in Seq(S) /\ Len(t.argv) = 0
  BY <1>1, EmptySeq
<1>5. 1 .. 0 = {} /\ 0 <= 0 /\ ~ (0 < 0) /\ 1 \in 1 .. n + 2
  OBVIOUS
<1>6. Holds(t.argv, line, t.p, S)
  BY <1>1, <1>3, <1>4, <1>5, Zenon DEF Holds
<1>7. Boundary(line, t.p, n)
  BY <1>1, Zenon DEF Boundary
<1>8. After(t, line, n, 0, S)
  BY <1>1, <1>4, <1>5, <1>6, <1>7, Zenon DEF After
<1> QED BY <1>8

\* A turn finds the next word, or none where none is left (sh.c:303-309).
LEMMA NextTurn ==
    ASSUME NEW line, NEW n \in Nat, Long(line, n), NEW S,
           \A a, b \in 1 .. n : SubSeq(line, a, b) \in S,
           NEW k \in 1 .. MAX_ARGS - 1, NEW t, After(t, line, n, k - 1, S)
    PROVE  After(Turn(line, t, k), line, n, k, S)
<1>0. PICK p, argv, w, e : p = t.p /\ argv = t.argv /\ w = WordAt(line, p) /\ e = EndAt(line, w)
  OBVIOUS
<1>1. /\ p \in 1 .. n + 2 /\ Boundary(line, p, n) /\ Holds(argv, line, p, S)
      /\ Len(argv) <= k - 1 /\ (Len(argv) < k - 1 => Before(line, p) = Words(line))
  BY <1>0 DEF After
<1>2. argv \in Seq(S) /\ Len(argv) \in Nat /\ Len(argv) = Cardinality(Before(line, p))
  BY <1>1, LenProperties DEF Holds
<1>3. w \in 1 .. n + 1
  BY <1>0, <1>1, WordAtIs
<1>4. CASE w > n
  <2>1. Turn(line, t, k) = t
    BY <1>0, <1>4 DEF Turn, Long
  <2>2. Before(line, p) = Words(line)
    <3>1. ~ (WordAt(line, p) <= n)
      BY <1>0, <1>3, <1>4
    <3> QED BY <1>1, <3>1, NoWordLeft
  <2>3. Len(argv) <= k
    BY <1>1, <1>2
  <2> QED BY <1>0, <1>1, <2>1, <2>2, <2>3 DEF After
<1>5. CASE ~ (w > n)
  <2>0. PICK r, word, arg, more :
           /\ r = Turn(line, t, k) /\ word = <<w, e - 1>>
           /\ arg = SubSeq(line, w, IF k < MAX_ARGS - 1 THEN e - 1 ELSE Len(line))
           /\ more = Append(argv, arg)
    OBVIOUS
  <2>1. r = [p |-> e + 1, argv |-> more]
    BY <1>0, <1>5, <2>0 DEF Turn, Long
  <2>2. /\ w \in p .. n /\ e \in w + 1 .. n + 1
        /\ Boundary(line, e + 1, n) /\ e + 1 \in 1 .. n + 2
        /\ word \in Words(line) /\ word \notin Before(line, p)
        /\ Before(line, e + 1) = Before(line, p) \cup {word}
        /\ {v \in Words(line) : v[1] <= w} = Before(line, e + 1)
    <3>1. w <= n
      BY <1>3, <1>5
    <3>2. w = WordAt(line, p) /\ e = EndAt(line, w) /\ word = <<w, e - 1>>
      BY <1>0, <2>0
    <3> PICK x : x = <<w, e - 1>>
      OBVIOUS
    <3>3. /\ w \in p .. n /\ e \in w + 1 .. n + 1
          /\ Boundary(line, e + 1, n) /\ e + 1 \in 1 .. n + 2
          /\ x \in Words(line) /\ x \notin Before(line, p)
          /\ Before(line, e + 1) = Before(line, p) \cup {x}
          /\ {v \in Words(line) : v[1] <= w} = Before(line, e + 1)
      BY <1>1, <3>1, <3>2, NextWord
    <3> QED BY <3>2, <3>3
  <2>3. Len(argv) = k - 1
    <3>1. Before(line, p) # Words(line)
      BY <2>2
    <3> QED BY <1>1, <1>2, <3>1
  <2>4. Cardinality(Before(line, e + 1)) = k
    <3> PICK B : B = Before(line, p)
      OBVIOUS
    <3>1. IsFiniteSet(B) /\ Cardinality(B) = k - 1
      BY <1>2, <2>3, WordsFinite
    <3>2. Cardinality(B \cup {word}) = Cardinality(B) + 1
      BY <2>2, <3>1, FS_AddElement
    <3>3. Before(line, e + 1) = B \cup {word}
      BY <2>2
    <3>4. Cardinality(Before(line, e + 1)) = (k - 1) + 1
      BY ONLY <3>1, <3>2, <3>3, Zenon
    <3>5. k = (k - 1) + 1
      OBVIOUS
    <3> QED BY ONLY <3>4, <3>5, Zenon
  <2>5. arg \in S
    <3>1. w \in 1 .. n /\ e - 1 \in 1 .. n /\ n \in 1 .. n
      BY <1>1, <1>3, <2>2
    <3>2. arg = SubSeq(line, w, IF k < MAX_ARGS - 1 THEN e - 1 ELSE n)
      BY <2>0 DEF Long
    <3> QED BY <3>1, <3>2
  <2>6. /\ more \in Seq(S) /\ Len(more) = k
        /\ \A i \in 1 .. k - 1 : more[i] = argv[i]
        /\ more[k] = arg
    <3>1. more = Append(argv, arg) /\ argv \in Seq(S) /\ arg \in S
      BY <1>2, <2>0, <2>5
    <3>2. /\ more \in Seq(S) /\ Len(more) = Len(argv) + 1
          /\ \A i \in 1 .. Len(argv) : more[i] = argv[i]
          /\ more[Len(argv) + 1] = arg
      BY ONLY <3>1, AppendProperties
    <3>3. Len(argv) + 1 = k
      BY <2>3
    <3> QED BY <2>3, <3>2, <3>3, Zenon
  <2>7. arg = Argument(line, word, k)
    <3>1. k < MAX_ARGS - 1 <=> k # MAX_ARGS - 1
      BY TextAssumption DEF TextAssumption
    <3>2. word[1] = w /\ word[2] = e - 1
      BY <2>0
    <3> QED BY <2>0, <3>1, <3>2 DEF Argument
  <2>8. Cardinality(UpTo(line, word)) = k
    <3>1. word[1] = w
      BY <2>0
    <3>2. UpTo(line, word) = Before(line, e + 1)
      BY <2>2, <3>1, Zenon DEF UpTo
    <3> QED BY <2>4, <3>2
  <2>9. Holds(more, line, e + 1, S)
    <3>1. ASSUME NEW i \in 1 .. k
          PROVE  \E v \in Words(line) :
                    Cardinality(UpTo(line, v)) = i /\ more[i] = Argument(line, v, i)
      <4>1. CASE i = k
        BY <2>2, <2>6, <2>7, <2>8, <4>1
      <4>2. CASE i # k
        <5>1. i \in 1 .. Len(argv) /\ i \in 1 .. k - 1
          BY <2>3, <4>2
        <5>2. \E v \in Words(line) :
                 Cardinality(UpTo(line, v)) = i /\ argv[i] = Argument(line, v, i)
          BY <1>1, <5>1, Zenon DEF Holds
        <5>3. more[i] = argv[i]
          BY <2>6, <5>1
        <5> QED BY <5>2, <5>3, Zenon
      <4> QED BY <4>1, <4>2
    <3> QED BY <2>4, <2>6, <3>1, Zenon DEF Holds
  <2>10. Len(more) <= k /\ ~ (Len(more) < k)
    BY <2>6
  <2>11. After(r, line, n, k, S)
    <3>1. r.p = e + 1 /\ r.argv = more
      BY <2>1
    <3> QED BY <2>2, <2>9, <2>10, <3>1, Zenon DEF After
  <2> QED BY <2>0, <2>11
<1> QED BY <1>4, <1>5

\* The shell runs a command with the words of its line and nothing else: argv
\* has them in order, up to the number it holds beside its NULL, and where that
\* is reached its last entry, and no other, runs on to the end of the line
\* (sh.c:299-317).
THEOREM CommandLineSplit ==
    ASSUME call \in Calls \cup {NoCall}, MaxLineLength \in Nat
    PROVE  ArgumentsAreWords
<1> SUFFICES ASSUME call.fun = "parse_args"
             PROVE  LET argv == parse_args(call.line)
                        last == Len(argv) = MAX_ARGS - 1
                    IN  /\ Len(argv) = Min({Cardinality(Words(call.line)), MAX_ARGS - 1})
                        /\ \A i \in DOMAIN argv :
                             \E w \in Words(call.line) :
                                /\ Cardinality({v \in Words(call.line) : v[1] <= w[1]}) = i
                                /\ argv[i] = IF last /\ i = MAX_ARGS - 1
                                             THEN SubSeq(call.line, w[1], Len(call.line))
                                             ELSE SubSeq(call.line, w[1], w[2])
  BY DEF ArgumentsAreWords
<1> PICK line, argv : line = call.line /\ argv = parse_args(line)
  OBVIOUS
<1>0. PICK C : C = Letters \cup {" "}
  OBVIOUS
<1>1. PICK n \in Nat : line \in [1 .. n -> C]
  <2>1. line \in Lines
    BY DEF Calls, NoCall
  <2>2. PICK n \in 0 .. MaxLineLength : line \in [1 .. n -> Letters \cup {" "}]
    BY <2>1, Zenon DEF Lines
  <2>3. n \in Nat
    BY MaxLineLength \in Nat
  <2> QED BY <1>0, <2>2, <2>3, Zenon
<1>2. line \in Seq(C) /\ Long(line, n)
  BY <1>1, SequenceIs DEF Long
<1> PICK S : S = Seq(C)
  OBVIOUS
<1>3. \A a, b \in 1 .. n : SubSeq(line, a, b) \in S
  <2>1. ASSUME NEW a \in 1 .. n, NEW b \in 1 .. n PROVE SubSeq(line, a, b) \in Seq(C)
    <3>1. a \in Int /\ b \in Int /\ \A i \in a .. b : i \in 1 .. n
      OBVIOUS
    <3>2. \A i \in a .. b : line[i] \in C
      BY <1>1, <3>1
    <3> QED BY ONLY <3>1, <3>2, SubSeqProperties
  <2> QED BY <2>1
<1> PICK N : N = MAX_ARGS - 1
  OBVIOUS
<1>4. N \in Nat /\ N >= 1
  BY TextAssumption DEF TextAssumption
<1>5. PICK turn : /\ turn[0] = [p |-> 1, argv |-> <<>>]
                  /\ \A k \in 1 .. N : turn[k] = Turn(line, turn[k-1], k)
                  /\ argv = turn[N].argv
  <2>1. PICK turn : Turns(turn, line)
    BY TurnsExist, Zenon
  <2> QED BY <2>1, Zenon DEF Turns
<1> DEFINE T == {k \in 0 .. N : After(turn[k], line, n, k, S)}
<1>6. 0 \in T
  BY <1>2, <1>4, <1>5, FirstTurn
<1>7. ASSUME NEW k \in 0 .. N, k < N, k \in T PROVE k + 1 \in T
  <2> PICK j : j = k + 1
    OBVIOUS
  <2>1. j \in 1 .. N /\ j \in 0 .. N /\ j - 1 = k /\ j \in 1 .. MAX_ARGS - 1
    BY <1>4, <1>7
  <2>2. After(turn[j - 1], line, n, j - 1, S)
    BY <1>7, <2>1
  <2>3. After(Turn(line, turn[j - 1], j), line, n, j, S)
    BY <1>2, <1>3, <2>1, <2>2, NextTurn
  <2>4. turn[j] = Turn(line, turn[j - 1], j)
    BY <1>5, <2>1
  <2> QED BY <2>1, <2>3, <2>4
<1>8. After(turn[N], line, n, N, S)
  <2> HIDE DEF T
  <2>1. 0 \in Nat /\ 0 <= N
    BY <1>4
  <2>2. \A k \in 0 .. N : k \in T
    BY ONLY <1>4, <1>6, <1>7, <2>1, IntervalInduction
  <2>3. N \in T
    BY <1>4, <2>2
  <2> QED BY <2>3 DEF T
<1>9. PICK p : Holds(argv, line, p, S) /\ Len(argv) <= N
               /\ (Len(argv) < N => Before(line, p) = Words(line))
  BY <1>5, <1>8 DEF After
<1> PICK all, m : all = Cardinality(Words(line)) /\ m = Len(argv)
  OBVIOUS
<1>10. /\ argv \in Seq(S) /\ m \in Nat /\ m = Cardinality(Before(line, p))
       /\ DOMAIN argv = 1 .. m
  BY <1>9, LenProperties DEF Holds
<1>11. all \in Nat /\ m <= all
  BY <1>2, <1>10, WordsFinite
<1>12. m = Min({all, N})
  <2>1. m < N => m = all
    BY <1>9, <1>10
  <2>2. Min({all, N}) = IF all <= N THEN all ELSE N
    BY <1>4, <1>11, OfTwo
  <2> QED BY <1>4, <1>9, <1>10, <1>11, <2>1, <2>2
<1>13. ASSUME NEW i \in 1 .. m
       PROVE  \E w \in Words(line) :
                 /\ Cardinality({v \in Words(line) : v[1] <= w[1]}) = i
                 /\ argv[i] = IF m = N /\ i = N THEN SubSeq(line, w[1], Len(line))
                              ELSE SubSeq(line, w[1], w[2])
  <2>1. PICK w \in Words(line) : Cardinality(UpTo(line, w)) = i /\ argv[i] = Argument(line, w, i)
    BY <1>9 DEF Holds
  <2>2. m = N /\ i = N <=> i = N
    BY <1>4, <1>9, <1>10
  <2>3. argv[i] = IF m = N /\ i = N THEN SubSeq(line, w[1], Len(line))
                  ELSE SubSeq(line, w[1], w[2])
    BY <2>1, <2>2 DEF Argument
  <2> QED BY <2>1, <2>3, Zenon DEF UpTo
<1> QED BY <1>10, <1>12, <1>13
=============================================================================
