CONSTANTS
    VGA_COLS = 4
    VGA_ROWS = 3
    TabStop = 2
    Glyph <- MCGlyph
    Beyond = 2
    WordBits = 5
    MAX_ARGS = 4
    Letters <- MCLetters
    Formats <- MCFormats
    MaxBuf = 9
    MaxLineLength = 8
SPECIFICATION ConsoleSpec
INVARIANTS
    InsideUnlessTab
    NumbersReadBack
    FormatFits
    ArgumentsAreWords
PROPERTIES
    ImplementsTerminal
    LinesAboveKept
CHECK_DEADLOCK FALSE
