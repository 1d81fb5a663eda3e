------------------------------- MODULE Text -------------------------------
(***************************************************************************)
(* The text algorithms of libc/libc.c and userland/sh.c: numbers to text   *)
(* and back, vsnprintf, and the splitting of a command line.  They keep no *)
(* state.                                                                  *)
(*                                                                         *)
(* A string is the sequence of its characters, without the terminator.  A  *)
(* format is the sequence of its parts: a directive, or an ordinary        *)
(* character, which is the directive "lit".                                *)
(***************************************************************************)
EXTENDS Integers, SequencesExt, FiniteSetsExt

CONSTANTS
    WordBits,      \* width of an int: 32
    MAX_ARGS,      \* 32
    Letters,       \* characters of command lines
    Formats,       \* formats to check
    MaxBuf,        \* BOUND: the buffers to format into
    MaxLineLength  \* BOUND: the command lines to split

ASSUME TextAssumption ==
    /\ WordBits \in Nat /\ WordBits >= 5
    /\ MAX_ARGS \in Nat /\ MAX_ARGS >= 2

ASSUME LettersAssumption == " " \notin Letters

VARIABLE call

Word      == 2 ^ WordBits
Int32     == -(Word \div 2) .. Word \div 2 - 1

\* What the proofs use of this power of two.
ASSUME WordAssumption == Word \in Nat /\ Word >= 32 /\ Word % 2 = 0

\* The size of a buffer is a size_t.
ASSUME SizesAssumption == MaxBuf \in 0 .. Word - 1

Signed(n) == ((n + Word \div 2) % Word) - Word \div 2

DigitChar == <<"0", "1", "2", "3", "4", "5", "6", "7",
               "8", "9", "a", "b", "c", "d", "e", "f">>
DigitValue(ch) == SelectInSeq(DigitChar, LAMBDA x : x = ch) - 1
IsDigit(ch) == ch \in {DigitChar[i] : i \in 1 .. 10}

\* " " stands for all the white space isspace knows.
IsSpace(ch) == ch = " "

-----------------------------------------------------------------------------
(* Numbers.                                                                *)

\* The loop of itoa_buf: the digits of u, least significant last.
Digits(u, base) ==
    LET d[k \in 0 .. Word - 1] ==
          IF k = 0 THEN <<>> ELSE Append(d[k \div base], DigitChar[(k % base) + 1])
    IN  d[u]

itoa_buf_NoZero(val, base, unsign) ==
    LET negative == ~unsign /\ val < 0
        uval     == (IF negative THEN -val ELSE val) % Word
    IN  (IF negative THEN <<"-">> ELSE <<>>) \o Digits(uval, base)
itoa_buf(val, base, unsign) ==
    LET negative == ~unsign /\ val < 0
        uval     == (IF negative THEN -val ELSE val) % Word
    IN  (IF negative THEN <<"-">> ELSE <<>>)
        \o (IF uval = 0 THEN <<"0">> ELSE Digits(uval, base))

\* The value of the leading digits of s, as atoi, sleep and exit compute it.
Leading(s) ==
    LET stop == {i \in 1 .. Len(s) : ~IsDigit(s[i])}
        n    == IF stop = {} THEN Len(s) ELSE Min(stop) - 1
        v[i \in 0 .. n] ==
          IF i = 0 THEN 0 ELSE Signed(v[i-1] * 10 + DigitValue(s[i]))
    IN  v[n]

SkipSpaces(s) ==
    LET text == {i \in 1 .. Len(s) : ~IsSpace(s[i])}
    IN  IF text = {} THEN <<>> ELSE SubSeq(s, Min(text), Len(s))

atoi(s) ==
    LET t == SkipSpaces(s)
    IN  IF t # <<>> /\ t[1] = "-" THEN Signed(-Leading(Tail(t))) ELSE Leading(t)

-----------------------------------------------------------------------------
(* vsnprintf.                                                              *)

\* The parts of a format, with the argument of each.  A width is an int.  A %
\* at the end of a format takes the terminator for its conversion, which is
\* the unknown one "nul": the loop then goes on with what lies behind the
\* format, and those bytes are further parts of it here.
Directives ==
    LET part(convs, args) ==
          [conv : convs, zero : BOOLEAN, width : 0 .. Word \div 2 - 1, arg : args]
    IN  part({"d", "u", "x", "X", "p"}, Int32) \cup part({"s"}, Seq(STRING))
        \cup part({"c", "lit", "%", "unknown"}, STRING)

ASSUME FormatsAssumption == \A fmt \in Formats : fmt \in Seq(Directives)

\* %d and its like are padded, %c and the rest are not.
Padded(d) == d.conv \in {"d", "u", "x", "X", "p", "s"}

Body(d) ==
    CASE d.conv = "d"          -> itoa_buf(d.arg, 10, FALSE)
      [] d.conv = "u"          -> itoa_buf(d.arg, 10, TRUE)
      [] d.conv \in {"x", "X"} -> itoa_buf(d.arg, 16, TRUE)
      [] d.conv = "p"          -> <<"0", "x">> \o itoa_buf(d.arg, 16, TRUE)
      [] d.conv = "s"          -> d.arg
      [] d.conv \in {"c", "lit"} -> <<d.arg>>
      [] d.conv = "%"          -> <<"%">>
      [] d.conv = "unknown"    -> <<"%", d.arg>>

Emitted(d) ==
    LET missing == IF Padded(d) THEN Max({0, d.width - Len(Body(d))}) ELSE 0
    IN  [i \in 1 .. missing |-> IF d.zero THEN "0" ELSE " "] \o Body(d)

\* PUT stops at size - 1 characters, computed as a size_t: in a buffer of size 0
\* it has no limit the memory does not set.
Limit_NoTerminator(size) == size
Limit(size) == (size - 1) % Word

\* PUT of each character of s: what does not fit is dropped.
Put(buf, size, s) == buf \o SubSeq(s, 1, Min({Len(s), Limit(size) - Len(buf)}))

vsnprintf(size, fmt) ==
    LET buf[i \in 0 .. Len(fmt)] ==
          IF i = 0 THEN <<>> ELSE Put(buf[i-1], size, Emitted(fmt[i]))
    IN  buf[Len(fmt)]

-----------------------------------------------------------------------------
(* parse_args.                                                             *)

\* The positions from p on where a word may begin or has ended; the end of the
\* line is one of both.
WordAt(line, p) == Min({i \in p .. Len(line) : ~IsSpace(line[i])} \cup {Len(line) + 1})
EndAt(line, p)  == Min({i \in p .. Len(line) : IsSpace(line[i])} \cup {Len(line) + 1})

\* The loop after k turns: where p stands and the strings argv points to.  It
\* breaks on the last entry before it terminates the word, which so goes on to
\* the end of the line.
parse_args_BreakLate(line) ==
    LET turn[k \in 0 .. MAX_ARGS] ==
          IF k = 0 THEN [p |-> 1, argv |-> <<>>]
          ELSE LET w == WordAt(line, turn[k-1].p)
                   e == EndAt(line, w)
               IN  IF w > Len(line) THEN turn[k-1]
                   ELSE [p |-> e + 1,
                         argv |-> Append(turn[k-1].argv,
                                    SubSeq(line, w, IF k < MAX_ARGS THEN e - 1 ELSE Len(line)))]
    IN  turn[MAX_ARGS].argv
parse_args(line) ==
    LET turn[k \in 0 .. MAX_ARGS - 1] ==
          IF k = 0 THEN [p |-> 1, argv |-> <<>>]
          ELSE LET w == WordAt(line, turn[k-1].p)
                   e == EndAt(line, w)
               IN  IF w > Len(line) THEN turn[k-1]
                   ELSE [p |-> e + 1,
                         argv |-> Append(turn[k-1].argv,
                                    SubSeq(line, w, IF k < MAX_ARGS - 1 THEN e - 1 ELSE Len(line)))]
    IN  turn[MAX_ARGS - 1].argv

-----------------------------------------------------------------------------
(* Properties.                                                             *)

Lines == UNION {[1 .. n -> Letters \cup {" "}] : n \in 0 .. MaxLineLength}
Calls == [fun : {"itoa_buf"}, val : Int32]
         \cup [fun : {"vsnprintf"}, size : 0 .. MaxBuf, fmt : Formats]
         \cup [fun : {"parse_args"}, line : Lines]
NoCall == [fun |-> "none"]

\* The number that s is in base.
ValueOf(s, base) ==
    LET v[i \in 0 .. Len(s)] == IF i = 0 THEN 0 ELSE v[i-1] * base + DigitValue(s[i])
    IN  v[Len(s)]

\* Reading back what itoa_buf wrote gives the number, the smallest int and 0
\* included, and an unsigned or hexadecimal number has no sign and no leading
\* zero (libc.c:120-141).
NumbersReadBack ==
    call.fun = "itoa_buf" =>
        /\ atoi(itoa_buf(call.val, 10, FALSE)) = call.val
        /\ \A base \in {10, 16} :
             LET s == itoa_buf(call.val, base, TRUE)
             IN  /\ ValueOf(s, base) = call.val % Word
                 /\ s # <<>> /\ (s[1] = "0" => Len(s) = 1)

\* Into a buffer of one character or more the result fits with its terminator;
\* into one of size 0 the code writes without a limit (libc.c:147), and this
\* says so.  Up to the limit nothing is dropped: the result is a prefix of the
\* unlimited one, in which every directive is right-justified in its width
\* (libc.c:185-191).
FormatFits ==
    call.fun = "vsnprintf" =>
        LET full  == FlattenSeq([i \in DOMAIN call.fmt |-> Emitted(call.fmt[i])])
            limit == IF call.size = 0 THEN Word - 1 ELSE call.size - 1
            out   == vsnprintf(call.size, call.fmt)
        IN  /\ IsPrefix(out, full) /\ Len(out) = Min({limit, Len(full)})
            /\ \A i \in DOMAIN call.fmt : IsSuffix(Body(call.fmt[i]), Emitted(call.fmt[i]))

\* The words of a line: the stretches without a space, as pairs of positions.
Words(line) ==
    {w \in (1 .. Len(line)) \X (1 .. Len(line)) :
        /\ w[1] <= w[2] /\ \A i \in w[1] .. w[2] : ~IsSpace(line[i])
        /\ w[1] > 1 => IsSpace(line[w[1] - 1])
        /\ w[2] < Len(line) => IsSpace(line[w[2] + 1])}

\* The arguments are the words of the line in order; argv keeps room for its
\* NULL, and only the last entry it can hold takes the rest of the line
\* (sh.c:304-317).
ArgumentsAreWords ==
    call.fun = "parse_args" =>
        LET argv == parse_args(call.line)
            last == Len(argv) = MAX_ARGS - 1
        IN  /\ Len(argv) = Min({Cardinality(Words(call.line)), MAX_ARGS - 1})
            /\ \A i \in DOMAIN argv :
                 \E w \in Words(call.line) :
                    /\ Cardinality({v \in Words(call.line) : v[1] <= w[1]}) = i
                    /\ argv[i] = IF last /\ i = MAX_ARGS - 1
                                 THEN SubSeq(call.line, w[1], Len(call.line))
                                 ELSE SubSeq(call.line, w[1], w[2])
=============================================================================
