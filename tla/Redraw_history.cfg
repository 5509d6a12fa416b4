\* A client that attaches with history scrolled off, and glyphs of unsure width on the screen.
CONSTANTS
    Glyphs = {"narrow", "odd", "joins", "wide"}
    Rows = 2
    Cols = 3
    History = 1
    MaxWrites = 5
SPECIFICATION RedrawSpec
CHECK_DEADLOCK FALSE
INVARIANTS ShowsWithHistory
