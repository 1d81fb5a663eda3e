----------------------------- MODULE TtyProofs -----------------------------
(***************************************************************************)
(* Theorems about module Tty for every size of the ring and of the         *)
(* caller's buffer, and whether or not the reader can be interrupted.  The *)
(* argument: the reader is only past its test while the ring holds a       *)
(* character, the handler never touches an occupied cell, and every        *)
(* occupied cell holds a character.                                        *)
(***************************************************************************)
EXTENDS Tty, SequenceTheorems, TLAPS

USE TtyAssumption

-----------------------------------------------------------------------------
(* The arithmetic of the ring.                                             *)

\* What the two uses of % KB_BUF_SIZE compute (tty.c:161-164, 178).
LEMMA RingArithmetic ==
    /\ \A i \in Index : Advance(i) = IF i + 1 = KB_BUF_SIZE THEN 0 ELSE i + 1
    /\ \A i \in Index : Advance(i) \in Index
    /\ \A i, j \in Index :
         (j - i) % KB_BUF_SIZE = IF j >= i THEN j - i ELSE j - i + KB_BUF_SIZE
    /\ \A i \in Index, k \in 0 .. KB_BUF_SIZE :
         (i + k) % KB_BUF_SIZE = IF i + k >= KB_BUF_SIZE THEN i + k - KB_BUF_SIZE ELSE i + k
<1>1. \A i \in Index : i \in Nat /\ i < KB_BUF_SIZE
  BY DEF Index
<1>2. \A i \in Index : Advance(i) = IF i + 1 = KB_BUF_SIZE THEN 0 ELSE i + 1
  BY <1>1 DEF Advance
<1>3. \A i \in Index : Advance(i) \in Index
  BY <1>1, <1>2 DEF Index
<1>4. ASSUME NEW i \in Index, NEW j \in Index
      PROVE  (j - i) % KB_BUF_SIZE = IF j >= i THEN j - i ELSE j - i + KB_BUF_SIZE
  <2>1. CASE j >= i
    BY <1>1, <2>1
  <2>2. CASE j < i
    BY <1>1, <2>2
  <2> QED BY <1>1, <2>1, <2>2
<1>5. ASSUME NEW i \in Index, NEW k \in 0 .. KB_BUF_SIZE
      PROVE  (i + k) % KB_BUF_SIZE = IF i + k >= KB_BUF_SIZE THEN i + k - KB_BUF_SIZE ELSE i + k
  <2>1. CASE i + k >= KB_BUF_SIZE
    <3>1. i + k - KB_BUF_SIZE \in 0 .. KB_BUF_SIZE - 1
      BY <1>1, <2>1
    <3> QED BY <1>1, <2>1, <3>1
  <2>2. CASE i + k < KB_BUF_SIZE
    BY <1>1, <2>2
  <2> QED BY <1>1, <2>1, <2>2
<1> QED BY <1>2, <1>3, <1>4, <1>5

\* What every action needs about the parts of the state it uses.
Used == IF kb_head >= kb_tail THEN kb_head - kb_tail ELSE kb_head - kb_tail + KB_BUF_SIZE
Cell(k) == IF kb_tail + k >= KB_BUF_SIZE THEN kb_tail + k - KB_BUF_SIZE ELSE kb_tail + k

(***************************************************************************)
(* The inductive invariant.  Calling: a call is in progress exactly while  *)
(* tty_getchar is somewhere.  NonEmpty: behind its test the ring is not    *)
(* empty, for only the reader takes characters.  Filled: the cells from    *)
(* kb_tail to kb_head hold characters.                                     *)
(***************************************************************************)
Calling  == pc = "out" <=> op = "none"
NonEmpty == pc \in {"take", "advance"} => kb_head # kb_tail
Filled   == \A k \in Index : k < Used => kb_buf[Cell(k)] \in Chars

IInv == LineSafe /\ CharStable /\ Calling /\ NonEmpty /\ Filled

-----------------------------------------------------------------------------
(* The steps.                                                              *)

\* A character that enters the ring goes to the free cell at kb_head.
LEMMA StoreFills ==
    ASSUME TypeOK, Filled, NEW ch \in Chars, Store(ch)
    PROVE  /\ kb_buf' \in [Index -> Chars \cup {NoChar}]
           /\ kb_head' \in Index /\ kb_tail' = kb_tail
           /\ kb_head # kb_tail => kb_head' # kb_tail' /\ kb_buf'[kb_tail] = kb_buf[kb_tail]
           /\ Filled'
<1> USE DEF TypeOK
<1>1. /\ kb_head \in Index /\ kb_tail \in Index /\ Index \subseteq Int
      /\ \A k \in Index : 0 <= k /\ k < KB_BUF_SIZE
  BY DEF Index
<1>2. Advance(kb_head) = (IF kb_head + 1 = KB_BUF_SIZE THEN 0 ELSE kb_head + 1)
      /\ Advance(kb_head) \in Index
  BY <1>1, RingArithmetic
<1>3. CASE Full
  BY <1>1, <1>3 DEF Store, ring, Filled, Used, Cell
<1>4. CASE ~Full
  <2>1. /\ kb_buf' = [kb_buf EXCEPT ![kb_head] = ch]
        /\ kb_head' = Advance(kb_head) /\ kb_tail' = kb_tail
        /\ Advance(kb_head) # kb_tail
    BY <1>4 DEF Store, Full
  <2>2. Used' = Used + 1
    BY <1>1, <1>2, <2>1 DEF Used
  <2>3. \A k \in Index : Cell(k)' = Cell(k) /\ Cell(k) \in Index
    BY <1>1, <2>1 DEF Cell, Index
  <2>4. \A k \in Index : Cell(k) = kb_head <=> k = Used
    BY <1>1 DEF Cell, Used
  <2>5. Used \in Int
    BY <1>1 DEF Used
  <2>6. ASSUME NEW k \in Index, k < Used' PROVE kb_buf'[Cell(k)'] \in Chars
    <3>1. CASE k = Used
      BY <1>1, <2>1, <2>3, <2>4, <3>1
    <3>2. CASE k # Used
      <4>1. k < Used
        BY <1>1, <2>2, <2>5, <2>6, <3>2
      <4> QED BY <2>1, <2>3, <2>4, <3>2, <4>1 DEF Filled
    <3> QED BY <3>1, <3>2
  <2>7. kb_buf' \in [Index -> Chars \cup {NoChar}]
    BY <2>1
  <2>8. kb_head # kb_tail => kb_buf'[kb_tail] = kb_buf[kb_tail]
    BY <1>1, <2>1
  <2> QED BY <1>1, <1>2, <2>1, <2>6, <2>7, <2>8 DEF Filled
<1> QED BY <1>3, <1>4

\* The keyboard interrupt keeps the invariant.
LEMMA KeyboardInv ==
    ASSUME IInv, NEW sc \in Scancodes, keyboard_handler(sc) PROVE IInv'
<1> USE DEF IInv
<1>0. TypeOK
  BY DEF LineSafe
<1>1. /\ UNCHANGED <<started, op, c, last, line>>
      /\ pc' = IF pc = "hlt" THEN "test" ELSE pc
  BY DEF keyboard_handler
<1>2. shift_held' \in BOOLEAN /\ ctrl_held' \in BOOLEAN
  BY <1>0 DEF keyboard_handler, TypeOK, keybd
<1>3. CASE UNCHANGED ring
  BY <1>0, <1>1, <1>2, <1>3 DEF ring, LineSafe, TypeOK, CharStable, Calling, NonEmpty, Filled, Used, Cell
<1>4. CASE sc \in Keys /\ CharOf(sc) # NoChar /\ Store(CharOf(sc))
  <2>1. CharOf(sc) \in Chars
    BY <1>4 DEF CharOf, Keys, Chars, Printable, NoChar
  <2>2. /\ kb_buf' \in [Index -> Chars \cup {NoChar}]
        /\ kb_head' \in Index /\ kb_tail' = kb_tail
        /\ kb_head # kb_tail => kb_head' # kb_tail' /\ kb_buf'[kb_tail] = kb_buf[kb_tail]
        /\ Filled'
    BY <1>0, <1>4, <2>1, StoreFills
  <2> QED
    BY <1>0, <1>1, <1>2, <2>2 DEF LineSafe, TypeOK, CharStable, Calling, NonEmpty
<1> QED BY <1>3, <1>4 DEF keyboard_handler

\* The steps of the reader that leave the ring and the line alone.
LEMMA WaitingInv ==
    ASSUME IInv, OtherIRQ \/ Start \/ Test \/ Halt \/ (\E f \in {"readline", "read"} : Call(f))
    PROVE  IInv'
<1> USE DEF IInv, LineSafe, TypeOK, CharStable, Calling, NonEmpty, Filled, Used, Cell,
            ring, keybd, reader
<1>1. CASE OtherIRQ
  BY <1>1 DEF OtherIRQ
<1>2. CASE Start
  BY <1>2 DEF Start
<1>3. CASE Test
  BY <1>3 DEF Test
<1>4. CASE Halt
  BY <1>4 DEF Halt
<1>5. ASSUME NEW f \in {"readline", "read"}, Call(f) PROVE IInv'
  <2>1. line' = <<>> /\ line' \in Seq(Chars) /\ Len(line') = 0
    BY <1>5 DEF Call
  <2> QED BY <1>5, <2>1 DEF Call
<1> QED BY <1>1, <1>2, <1>3, <1>4, <1>5

\* So does a reader that takes a character.
LEMMA TakeInv == ASSUME IInv, TakeChar PROVE IInv'
<1> USE DEF IInv, LineSafe, TypeOK, CharStable, Calling, NonEmpty, Filled, Used, Cell,
            ring, keybd, reader
<1>1. kb_buf[kb_tail] \in Chars \cup {NoChar}
  OBVIOUS
<1> QED BY <1>1 DEF TakeChar

\* The shell's line editor, applied to a line within its limits.
LEMMA EditLine ==
    ASSUME line \in Seq(Chars), c \in Chars, Len(line) < MaxLine,
           \A i \in 1 .. Len(line) : line[i] \in Printable,
           Edit, op = "readline"
    PROVE  /\ line' \in Seq(Chars) /\ Len(line') < MaxLine
           /\ \A i \in 1 .. Len(line') : line'[i] \in Printable
           /\ op' \in {"none", "readline"} /\ pc' = IF op' = "none" THEN "out" ELSE "test"
<1> USE DEF Again, Return
<1>1. CASE c = "NL" /\ Return(line)
  BY <1>1
<1>2. CASE c = "BS" /\ Again(IF line = <<>> THEN line ELSE SubSeq(line, 1, Len(line) - 1))
  <2>1. CASE line = <<>>
    BY <1>2, <2>1
  <2>2. CASE line # <<>>
    <3>1. Len(line) \in Nat \ {0} /\ \A i \in 1 .. Len(line) : line[i] \in Chars
      BY <2>2, EmptySeq, ElementOfSeq
    <3>2. line' = SubSeq(line, 1, Len(line) - 1)
      BY <1>2, <2>2
    <3>3. /\ line' \in Seq(Chars) /\ Len(line') = Len(line) - 1
          /\ \A i \in 1 .. Len(line) - 1 : line'[i] = line[i]
      <4> DEFINE n == Len(line) - 1
      <4>1. 1 \in Int /\ n \in Int /\ n >= 0 /\ \A i \in 1 .. n : line[i] \in Chars
        BY <3>1
      <4>2. /\ SubSeq(line, 1, n) \in Seq(Chars)
            /\ Len(SubSeq(line, 1, n)) = IF 1 <= n THEN n - 1 + 1 ELSE 0
            /\ \A i \in 1 .. n - 1 + 1 : SubSeq(line, 1, n)[i] = line[1 + i - 1]
        <5> HIDE DEF n
        <5> QED BY <4>1, SubSeqProperties
      <4>3. line' = SubSeq(line, 1, n) /\ Len(line) - 1 = n
        BY <3>2
      <4> HIDE DEF n
      <4>4. Len(line') = n
        BY <4>1, <4>2, <4>3
      <4>5. \A i \in 1 .. n : i \in 1 .. n - 1 + 1 /\ 1 + i - 1 = i
        BY <4>1
      <4>6. \A i \in 1 .. n : line'[i] = line[i]
        BY <4>2, <4>3, <4>5
      <4> QED BY <4>2, <4>3, <4>4, <4>6
    <3> QED BY <1>2, <3>1, <3>3
  <2> QED BY <2>1, <2>2
<1>3. CASE c = "ETX" /\ Return(<<>>)
  <2>1. line' = <<>> /\ line' \in Seq(Chars) /\ Len(line') = 0
    BY <1>3
  <2> QED BY <1>3, <2>1
<1>4. CASE c \in Printable /\ Again(IF Room THEN Append(line, c) ELSE line)
  <2>1. CASE Room
    <3>1. line' = Append(line, c)
      BY <1>4, <2>1
    <3>2. /\ line' \in Seq(Chars) /\ Len(line') = Len(line) + 1
          /\ \A i \in 1 .. Len(line) : line'[i] = line[i]
          /\ line'[Len(line) + 1] = c
      BY <3>1, AppendProperties
    <3> QED BY <1>4, <2>1, <3>2 DEF Room
  <2>2. CASE ~Room
    BY <1>4, <2>2
  <2> QED BY <2>1, <2>2
<1> QED BY <1>1, <1>2, <1>3, <1>4 DEF Edit

\* The loop of tty_vfs_read, applied to a buffer that is not full.
LEMMA RawLine ==
    ASSUME line \in Seq(Chars), c \in Chars, Len(line) < MaxLine,
           \A i \in 1 .. Len(line) : line[i] # "NL",
           Raw, op = "read"
    PROVE  /\ line' \in Seq(Chars) /\ Len(line') <= MaxLine
           /\ op' \in {"none", "read"} /\ pc' = IF op' = "none" THEN "out" ELSE "test"
           /\ op' = "read" => /\ Len(line') < MaxLine
                              /\ \A i \in 1 .. Len(line') : line'[i] # "NL"
<1> DEFINE buf == Append(line, c)
<1>1. /\ buf \in Seq(Chars) /\ Len(buf) = Len(line) + 1
      /\ \A i \in 1 .. Len(line) : buf[i] = line[i]
      /\ buf[Len(line) + 1] = c
  BY AppendProperties
<1> HIDE DEF buf
<1>2. IF Len(buf) = MaxLine \/ c = "NL" THEN Return(buf) ELSE Again(buf)
  BY DEF Raw, buf
<1>3. Len(line) \in Nat
  BY LenProperties
<1> QED BY <1>1, <1>2, <1>3 DEF Return, Again

\* So does a reader that uses the character it has taken.
LEMMA ConsumeInv == ASSUME IInv, Consume PROVE IInv'
<1> USE DEF IInv
<1>1. /\ kb_head \in Index /\ kb_tail \in Index /\ Index \subseteq Int
      /\ \A k \in Index : 0 <= k /\ k < KB_BUF_SIZE
      /\ kb_head # kb_tail /\ TypeOK
  BY DEF Index, LineSafe, TypeOK, CharStable, Consume
<1>2. /\ Advance(kb_tail) = IF kb_tail + 1 = KB_BUF_SIZE THEN 0 ELSE kb_tail + 1
      /\ Advance(kb_tail) \in Index
  BY <1>1, RingArithmetic
<1>3. c \in Chars
  <2>1. 0 \in Index /\ 0 < Used /\ Cell(0) = kb_tail
    BY <1>1 DEF Index, Used, Cell
  <2> QED BY <2>1 DEF Filled, CharStable, Consume
<1>4. Filled'
  <2>1. Used' = Used - 1 /\ Used \in Int
    BY <1>1, <1>2 DEF Used, Consume
  <2>2. ASSUME NEW k \in Index, k < Used' PROVE kb_buf'[Cell(k)'] \in Chars
    <3>1. k + 1 \in Index /\ k + 1 < Used
      BY <1>1, <2>1, <2>2 DEF Index, Used
    <3>2. Cell(k)' = Cell(k + 1)
      BY <1>1, <1>2, <2>1, <2>2 DEF Cell, Consume
    <3> QED BY <3>1, <3>2 DEF Filled, Consume
  <2> QED BY <2>2 DEF Filled
<1>5. /\ line' \in Seq(Chars) /\ Len(line') <= MaxLine
      /\ op' \in {"none", "readline", "read"} /\ pc' = (IF op' = "none" THEN "out" ELSE "test")
      /\ op' = "readline" => Len(line') < MaxLine /\ \A i \in 1 .. Len(line') : line'[i] \in Printable
      /\ op' = "read" => Len(line') < MaxLine /\ \A i \in 1 .. Len(line') : line'[i] # "NL"
  <2>1. CASE op = "readline" /\ Edit
    <3>1. /\ line' \in Seq(Chars) /\ Len(line') < MaxLine
          /\ \A i \in 1 .. Len(line') : line'[i] \in Printable
          /\ op' \in {"none", "readline"} /\ pc' = IF op' = "none" THEN "out" ELSE "test"
      BY <1>3, <2>1, EditLine DEF LineSafe, TypeOK
    <3> QED BY <3>1, LenProperties
  <2>2. CASE op = "read" /\ Raw
    BY <1>3, <2>2, RawLine DEF LineSafe, TypeOK
  <2> QED BY <2>1, <2>2 DEF Consume
<1> QED
  BY <1>1, <1>2, <1>3, <1>4, <1>5
     DEF Consume, LineSafe, TypeOK, CharStable, Calling, NonEmpty, keybd

\* It holds at boot.
LEMMA InitIInv == Init => IInv
<1> SUFFICES ASSUME Init PROVE IInv
  OBVIOUS
<1>1. line \in Seq(Chars) /\ Len(line) = 0 /\ 0 \in Index /\ Used = 0
  BY DEF Init, Index, Used
<1> QED
  BY <1>1 DEF Init, IInv, LineSafe, TypeOK, CharStable, Calling, NonEmpty, Filled, Index

\* Every step keeps it.
LEMMA NextIInv == IInv /\ [Next]_vars => IInv'
<1> SUFFICES ASSUME IInv, [Next]_vars PROVE IInv'
  OBVIOUS
<1>1. CASE UNCHANGED vars
  BY <1>1 DEF vars, ring, keybd, reader, IInv, LineSafe, TypeOK, CharStable, Calling,
              NonEmpty, Filled, Used, Cell
<1>2. CASE Next
  BY <1>2, KeyboardInv, WaitingInv, TakeInv, ConsumeInv DEF Next
<1> QED BY <1>1, <1>2

\* Every reachable state satisfies the inductive invariant.
THEOREM Inductive == Spec => []IInv
<1> QED BY InitIInv, NextIInv, PTL DEF Spec

\* Whatever is typed, the callers' buffers are never exceeded and hold only what
\* they may hold.
THEOREM LineAlwaysSafe == Spec => []LineSafe
<1>1. IInv => LineSafe
  BY DEF IInv
<1> QED BY <1>1, Inductive, PTL

\* The handler never overwrites the character tty_getchar is taking.
THEOREM CharAlwaysStable == Spec => []CharStable
<1>1. IInv => CharStable
  BY DEF IInv
<1> QED BY <1>1, Inductive, PTL

-----------------------------------------------------------------------------
(* The ring implements the bounded queue.                                  *)

\* Pending in terms of Used and Cell.
LEMMA PendingIs ==
    kb_head \in Index /\ kb_tail \in Index
      => Pending = [i \in 1 .. Used |-> kb_buf[Cell(i - 1)]]
<1> SUFFICES ASSUME kb_head \in Index, kb_tail \in Index
             PROVE  Pending = [i \in 1 .. Used |-> kb_buf[Cell(i - 1)]]
  OBVIOUS
<1>1. (kb_head - kb_tail) % KB_BUF_SIZE = Used
  BY RingArithmetic DEF Used
<1>2. Used \in Int /\ 0 <= Used /\ Used < KB_BUF_SIZE
  BY DEF Used, Index
<1>3. ASSUME NEW i \in 1 .. Used PROVE (kb_tail + i - 1) % KB_BUF_SIZE = Cell(i - 1)
  <2>1. i - 1 \in 0 .. KB_BUF_SIZE /\ kb_tail + i - 1 = kb_tail + (i - 1)
    BY <1>2 DEF Index
  <2> DEFINE k == i - 1
  <2>2. k \in 0 .. KB_BUF_SIZE /\ (kb_tail + k) % KB_BUF_SIZE = Cell(k)
    BY <2>1, RingArithmetic DEF Cell
  <2> QED BY <2>1, <2>2
<1> QED BY <1>1, <1>3 DEF Pending

\* A character stored is appended to the queue, or dropped if it is full.
LEMMA StorePuts ==
    ASSUME TypeOK, Filled, NEW ch \in Chars, Store(ch), UNCHANGED last
    PROVE  Queue!Put(ch)
<1>1. /\ kb_head \in Index /\ kb_tail \in Index /\ Index \subseteq Int
      /\ \A k \in Index : 0 <= k /\ k < KB_BUF_SIZE
      /\ kb_buf \in [Index -> Chars \cup {NoChar}]
  BY DEF Index, TypeOK
<1>2. Advance(kb_head) = (IF kb_head + 1 = KB_BUF_SIZE THEN 0 ELSE kb_head + 1)
      /\ Advance(kb_head) \in Index
  BY <1>1, RingArithmetic
<1>3. /\ Used \in 0 .. KB_BUF_SIZE - 1
      /\ Full <=> Used = KB_BUF_SIZE - 1
  BY <1>1, <1>2 DEF Used, Full
<1>4. \A i \in 1 .. Used : kb_buf[Cell(i - 1)] \in Chars
  BY <1>3 DEF Filled, Index
<1>5. Pending = [i \in 1 .. Used |-> kb_buf[Cell(i - 1)]]
  BY <1>1, PendingIs
<1>6. Pending \in Seq(Chars) /\ Len(Pending) = Used
  <2> DEFINE e(i) == kb_buf[Cell(i - 1)]
  <2>1. Used \in Nat /\ \A i \in 1 .. Used : e(i) \in Chars
    BY <1>3, <1>4
  <2>2. Pending \in [1 .. Used -> Chars]
    BY <1>5, <2>1
  <2> QED BY <2>1, <2>2
<1>7. CASE Full
  <2>1. UNCHANGED <<kb_buf, kb_head, kb_tail>>
    BY <1>7 DEF Store, ring
  <2>2. Pending' = Pending
    BY <2>1 DEF Pending
  <2>3. ~(Len(Pending) < KB_BUF_SIZE - 1)
    BY <1>3, <1>6, <1>7
  <2> QED BY <2>2, <2>3 DEF Queue!Put
<1>8. CASE ~Full
  <2>1. /\ kb_buf' = [kb_buf EXCEPT ![kb_head] = ch]
        /\ kb_head' = Advance(kb_head) /\ kb_tail' = kb_tail
    BY <1>8 DEF Store
  <2>2. Used' = Used + 1 /\ kb_head = Cell(Used)
    BY <1>1, <1>2, <1>3, <1>8, <2>1 DEF Used, Full, Cell
  <2>3. Pending' = [i \in 1 .. Used + 1 |-> kb_buf'[Cell(i - 1)']]
    <3>1. kb_head' \in Index /\ kb_tail' \in Index
      BY <1>1, <1>2, <2>1
    <3>2. (kb_head \in Index /\ kb_tail \in Index
             => Pending = [i \in 1 .. Used |-> kb_buf[Cell(i - 1)]])'
      BY ONLY PendingIs, PTL
    <3> QED BY <2>2, <3>1, <3>2
  <2>4. \A i \in 1 .. Used + 1 :
           kb_buf'[Cell(i - 1)'] = IF i = Used + 1 THEN ch ELSE kb_buf[Cell(i - 1)]
    <3> SUFFICES ASSUME NEW i \in 1 .. Used + 1
                 PROVE  kb_buf'[Cell(i - 1)'] = IF i = Used + 1 THEN ch ELSE kb_buf[Cell(i - 1)]
      OBVIOUS
    <3>1. Cell(i - 1)' = Cell(i - 1) /\ Cell(i - 1) \in Index
      BY <1>1, <1>3, <2>1 DEF Cell, Index
    <3>2. Cell(i - 1) = kb_head <=> i = Used + 1
      BY <1>1, <1>3, <2>2 DEF Cell, Used
    <3> QED BY <1>1, <2>1, <3>1, <3>2
  <2>5. Pending' = [i \in 1 .. Used + 1 |-> IF i = Used + 1 THEN ch ELSE Pending[i]]
    BY <1>3, <1>5, <2>3, <2>4
  <2>6. Pending' = Append(Pending, ch)
    <3>1. /\ Append(Pending, ch) \in Seq(Chars) /\ Len(Append(Pending, ch)) = Used + 1
          /\ \A i \in 1 .. Used : Append(Pending, ch)[i] = Pending[i]
          /\ Append(Pending, ch)[Used + 1] = ch
      BY <1>6, AppendProperties
    <3>2. Pending' \in [1 .. Used + 1 -> Chars] /\ Used + 1 \in Nat
      BY <1>3, <1>4, <1>5, <2>5
    <3>3. Pending' \in Seq(Chars) /\ Len(Pending') = Used + 1
      BY <3>2
    <3>4. \A i \in 1 .. Used + 1 : Pending'[i] = Append(Pending, ch)[i]
      BY <1>3, <2>5, <3>1
    <3> QED BY <3>1, <3>3, <3>4, SeqEqual
  <2>7. Len(Pending) < KB_BUF_SIZE - 1
    BY <1>3, <1>6, <1>8
  <2> QED BY <2>6, <2>7 DEF Queue!Put
<1> QED BY <1>7, <1>8

\* What the reader passes kb_tail over is the oldest character of the queue.
LEMMA ConsumeTakes == ASSUME IInv, Consume PROVE Queue!Take
<1> USE DEF IInv
<1>1. /\ kb_head \in Index /\ kb_tail \in Index /\ Index \subseteq Int
      /\ \A k \in Index : 0 <= k /\ k < KB_BUF_SIZE
      /\ kb_head # kb_tail
      /\ kb_head' = kb_head /\ kb_buf' = kb_buf /\ kb_tail' = Advance(kb_tail)
      /\ last' = kb_buf[kb_tail]
  BY DEF Index, LineSafe, TypeOK, CharStable, Consume
<1>2. /\ Advance(kb_tail) = IF kb_tail + 1 = KB_BUF_SIZE THEN 0 ELSE kb_tail + 1
      /\ Advance(kb_tail) \in Index
  BY <1>1, RingArithmetic
<1>3. Used \in 1 .. KB_BUF_SIZE - 1 /\ Used' = Used - 1
  BY <1>1, <1>2 DEF Used
<1>4. Pending = [i \in 1 .. Used |-> kb_buf[Cell(i - 1)]]
  BY <1>1, PendingIs
<1>5. Pending' = [i \in 1 .. Used - 1 |-> kb_buf[Cell(i - 1)']]
  <2>1. kb_head' \in Index /\ kb_tail' \in Index
    BY <1>1, <1>2
  <2>2. (kb_head \in Index /\ kb_tail \in Index
           => Pending = [i \in 1 .. Used |-> kb_buf[Cell(i - 1)]])'
    BY ONLY PendingIs, PTL
  <2> QED BY <1>1, <1>3, <2>1, <2>2
<1>6. \A i \in 1 .. Used : kb_buf[Cell(i - 1)] \in Chars
  BY <1>3 DEF Filled, Index
<1>7. Pending \in Seq(Chars) /\ Len(Pending) = Used /\ Pending # <<>>
  <2>1. Used \in Nat /\ Pending \in [1 .. Used -> Chars]
    BY <1>3, <1>4, <1>6
  <2> QED BY <1>3, <2>1
<1>8. Head(Pending) = last'
  <2>1. 1 \in 1 .. Used /\ Cell(1 - 1) = kb_tail
    BY <1>1, <1>3 DEF Cell
  <2> QED BY <1>1, <1>4, <1>7, <2>1
<1>9. Pending' = Tail(Pending)
  <2>1. /\ Tail(Pending) \in Seq(Chars) /\ Len(Tail(Pending)) = Used - 1
        /\ \A i \in 1 .. Used - 1 : Tail(Pending)[i] = Pending[i + 1]
    BY <1>7, HeadTailProperties
  <2>2. ASSUME NEW i \in 1 .. Used - 1
        PROVE  i + 1 \in 1 .. Used /\ Cell(i - 1)' = Cell((i + 1) - 1)
    BY <1>1, <1>2, <1>3 DEF Cell, Used
  <2>3. \A i \in 1 .. Used - 1 : Pending'[i] = Pending[i + 1] /\ Pending'[i] \in Chars
    BY <1>4, <1>5, <1>6, <2>2
  <2>4. Used - 1 \in Nat /\ Pending' \in [1 .. Used - 1 -> Chars]
    BY <1>3, <1>5, <2>3
  <2>5. Pending' \in Seq(Chars) /\ Len(Pending') = Used - 1
    BY <2>4
  <2> QED BY <2>1, <2>3, <2>5, SeqEqual
<1> QED BY <1>7, <1>8, <1>9 DEF Queue!Take

\* A step of the keyboard or of the reader is a Put, a Take or nothing.
LEMMA QueueStep == IInv /\ [Next]_vars => [Queue!QueueNext]_<<Pending, last>>
<1> SUFFICES ASSUME IInv, [Next]_vars PROVE [Queue!QueueNext]_<<Pending, last>>
  OBVIOUS
<1>1. CASE UNCHANGED <<ring, last>>
  BY <1>1 DEF ring, Pending
<1>2. ASSUME NEW sc \in Scancodes, keyboard_handler(sc)
      PROVE  [Queue!QueueNext]_<<Pending, last>>
  <2>1. UNCHANGED last
    BY <1>2 DEF keyboard_handler
  <2>2. CASE UNCHANGED ring
    BY <1>1, <2>1, <2>2
  <2>3. CASE sc \in Keys /\ CharOf(sc) # NoChar /\ Store(CharOf(sc))
    <3>1. CharOf(sc) \in Chars
      BY <2>3 DEF CharOf, Keys, Chars, Printable, NoChar
    <3>2. Queue!Put(CharOf(sc))
      BY <2>1, <2>3, <3>1, StorePuts DEF IInv, LineSafe
    <3> QED BY <3>1, <3>2 DEF Queue!QueueNext
  <2> QED BY <1>2, <2>2, <2>3 DEF keyboard_handler
<1>3. CASE OtherIRQ \/ Start \/ Test \/ Halt \/ TakeChar
             \/ (\E f \in {"readline", "read"} : Call(f)) \/ UNCHANGED vars
  BY <1>1, <1>3 DEF OtherIRQ, Start, Test, Halt, TakeChar, Call, reader, vars
<1>4. CASE Consume
  BY <1>4, ConsumeTakes DEF Queue!QueueNext
<1> QED BY <1>2, <1>3, <1>4 DEF Next

\* The keyboard buffer is a bounded first-in first-out queue, whatever the
\* interleaving of the handler and the reader.
THEOREM RingIsQueue == Spec => ImplementsQueue
<1>1. Init => Queue!QueueInit
  BY DEF Init, Queue!QueueInit, Pending, Index
<1>2. Queue!QueueSpec <=> Queue!QueueInit /\ [][Queue!QueueNext]_<<Pending, last>>
  BY DEF Queue!QueueSpec
<1> QED BY <1>1, <1>2, QueueStep, Inductive, PTL DEF Spec, ImplementsQueue
=============================================================================
