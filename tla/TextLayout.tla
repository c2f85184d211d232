----------------------------- MODULE TextLayout -----------------------------
(***************************************************************************)
(* nvgTextBox over nvgTextBreakLines: a text is broken into rows, two at a *)
(* time, until no row is left.  One action is one turn of the loop over    *)
(* the glyphs.  Positions are those of the characters, 0 is NULL; widths   *)
(* follow from them (`X`), so of the coordinates only the width at the     *)
(* last break is kept.                                                     *)
(***************************************************************************)
EXTENDS Integers, Sequences, SequencesExt

CONSTANTS MaxText,      \* characters of a text
          RowWidths     \* widths of a box

VARIABLE lay            \* the locals of nvgTextBox and nvgTextBreakLines

\* A plain and a wide character, an ideograph, a space and the line ends.
Char == {"char", "wide", "cjk", "space", "lf", "cr"}

Texts == UNION {[1..n -> Char] : n \in 1..MaxText}

Advance(c) == IF c = "wide" THEN 2 ELSE 1

\* Where the character at i begins on a line without breaks.
X(str, i) == FoldLeft(LAMBDA x, c : x + Advance(c), 0, SubSeq(str, 1, i - 1))

Visible(type) == type \in {"CHAR", "CJK_CHAR"}

\* The type of a character after the previous one (of the same call).
TypeOf(c, prev) ==
    CASE c = "space" -> "SPACE"
      [] c = "lf"    -> IF prev = "cr" THEN "SPACE" ELSE "NEWLINE"
      [] c = "cr"    -> IF prev = "lf" THEN "SPACE" ELSE "NEWLINE"
      [] c = "cjk"   -> "CJK_CHAR"
      [] OTHER       -> "CHAR"

\* nvgTextBreakLines is called for the text from `at` on, with two rows.
Called(l, at) ==
    [l EXCEPT !.at = at, !.nrows = 0, !.rowStart = 0, !.rowEnd = 0,
              !.wordStart = 0, !.breakEnd = 0, !.breakWidth = 0,
              !.ptype = "SPACE", !.pchar = "none"]

LayoutInit(str, width) ==
    Called([str |-> str, width |-> width, rows |-> <<>>, done |-> FALSE,
            at |-> 1, nrows |-> 0, rowStart |-> 0, rowEnd |-> 0,
            wordStart |-> 0, breakEnd |-> 0, breakWidth |-> 0,
            ptype |-> "SPACE", pchar |-> "none"], 1)

\* Positions: from start up to end is drawn, next is where to go on.
WithRow(l, start, end, width, next) ==
    [l EXCEPT !.rows = Append(@, [start |-> start, end |-> end,
                                  width |-> width, next |-> next]),
              !.nrows = @ + 1]

Full(l) == l.nrows = 2

RowWidth(l) ==
    IF l.rowStart = 0 THEN 0 ELSE X(l.str, l.rowEnd) - X(l.str, l.rowStart)

\* "Always handle new lines."
NewLine(l) ==
    LET i == l.at
        m == WithRow(l, IF l.rowStart # 0 THEN l.rowStart ELSE i,
                     IF l.rowEnd # 0 THEN l.rowEnd ELSE i, RowWidth(l), i + 1)
    IN [m EXCEPT !.breakEnd = l.rowStart, !.breakWidth = 0,
                 !.rowStart = 0, !.rowEnd = 0]

\* "The current char is the row so far", also after a break inside a word.
RowFrom(l, i) ==
    [l EXCEPT !.rowStart = i, !.rowEnd = i + 1, !.wordStart = i,
              !.breakEnd = i, !.breakWidth = 0]

\* The last visible character, the last end and the last beginning of a word.
Tracked(l, type) ==
    LET i == l.at
        m == IF Visible(type) THEN [l EXCEPT !.rowEnd = i + 1] ELSE l
        ends   == (Visible(l.ptype) /\ type = "SPACE") \/ type = "CJK_CHAR"
        begins == (l.ptype = "SPACE" /\ Visible(type)) \/ type = "CJK_CHAR"
        n == IF ends THEN [m EXCEPT !.breakEnd = i, !.breakWidth = RowWidth(m)]
             ELSE m
    IN IF begins THEN [n EXCEPT !.wordStart = i] ELSE n

\* Faulty: after a break inside a word the text goes on where the row began.
BreakRow_again(l) ==
    LET i == l.at
    IN IF l.breakEnd = l.rowStart
       THEN LET m == WithRow(l, l.rowStart, i, RowWidth(l), l.rowStart)
            IN IF Full(m) THEN m ELSE RowFrom(m, i)
       ELSE LET m == WithRow(l, l.rowStart, l.breakEnd, l.breakWidth,
                             l.wordStart)
            IN IF Full(m) THEN m
               ELSE [m EXCEPT !.rowStart = l.wordStart, !.rowEnd = i + 1,
                              !.breakEnd = l.wordStart, !.breakWidth = 0]

\* The character does not fit: the row ends inside the word if it is the only
\* one, and otherwise at the end of the last word.
BreakRow(l) ==
    LET i == l.at
    IN IF l.breakEnd = l.rowStart
       THEN LET m == WithRow(l, l.rowStart, i, RowWidth(l), i)
            IN IF Full(m) THEN m ELSE RowFrom(m, i)
       ELSE LET m == WithRow(l, l.rowStart, l.breakEnd, l.breakWidth,
                             l.wordStart)
            IN IF Full(m) THEN m
               ELSE [m EXCEPT !.rowStart = l.wordStart, !.rowEnd = i + 1,
                              !.breakEnd = l.wordStart, !.breakWidth = 0]

\* The text is at its end: what is left is a row.
LastRow(l) ==
    IF l.rowStart = 0 THEN l
    ELSE WithRow(l, l.rowStart, l.rowEnd, RowWidth(l), Len(l.str) + 1)

\* nvgTextBreakLines returned: nvgTextBox draws the rows and goes on after the
\* last one.  There is no row at the end of the text.
Returned(l) ==
    IF l.nrows = 0 \/ Last(l.rows).next > Len(l.str)
    THEN [l EXCEPT !.done = TRUE]
    ELSE Called(l, Last(l.rows).next)

\* One turn of the loop.
LayoutGlyph ==
    /\ ~lay.done
    /\ lay.at <= Len(lay.str)
    /\ LET c    == lay.str[lay.at]
           type == TypeOf(c, lay.pchar)
           over == X(lay.str, lay.at + 1) - X(lay.str, lay.rowStart) > lay.width
           l == IF type = "NEWLINE" THEN NewLine(lay)
                ELSE IF lay.rowStart = 0
                THEN IF Visible(type) THEN RowFrom(lay, lay.at) ELSE lay
                ELSE IF Visible(type) /\ over THEN BreakRow(Tracked(lay, type))
                ELSE Tracked(lay, type)
       IN lay' = IF Full(l) THEN Returned(l)
                 ELSE [l EXCEPT !.at = @ + 1, !.ptype = type, !.pchar = c]

LayoutEnd ==
    /\ ~lay.done
    /\ lay.at > Len(lay.str)
    /\ lay' = Returned(LastRow(lay))
=============================================================================
