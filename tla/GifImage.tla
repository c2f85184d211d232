------------------------------ MODULE GifImage ------------------------------
(***************************************************************************)
(* The GIF loader of stb_image.h: the blocks of a file up to its first     *)
(* image, and the LZW codes of that.  Codes are taken as the file's bits   *)
(* give them, any value of the current size; a pixel is the index of its   *)
(* colour, or the background.  Coordinates count pixels.                   *)
(***************************************************************************)
EXTENDS Integers, Sequences, SequencesExt, FiniteSetsExt

CONSTANTS LzwSize,      \* lzw_cs
          TableSize,    \* room for codes, 4096
          Canvases,     \* sizes of a picture
          Offsets,      \* bound: the column and the line where an image begins
          Shortfalls,   \* bound: columns and lines from its end to the picture's
          MaxCodes      \* bound: codes of an image

VARIABLE gif

Background == -1
NoColor == -1

Clear == 2^LzwSize
EndCode == Clear + 1

(***************************************************************************)
(* The table of codes                                                      *)
(***************************************************************************)
\* stbi__process_gif_raster before the first code: the colours themselves.
FirstCodes ==
    [c \in 0..TableSize - 1 |->
       IF c < Clear THEN [prefix |-> -1, first |-> c, suffix |-> c]
       ELSE [prefix |-> 0, first |-> 0, suffix |-> 0]]

\* Faulty: a code that is used in the step that makes it has no colour yet.
NewCode_undefined(codes, old, code, avail) ==
    [codes EXCEPT ![avail] = [prefix |-> old, first |-> codes[old].first,
                              suffix |-> codes[code].first]]

\* The code for what came before and the first colour of what comes now, which
\* may be this code itself: its own first colour is set by then.
NewCode(codes, old, code, avail) ==
    LET first == codes[old].first
    IN [codes EXCEPT ![avail] =
          [prefix |-> old, first |-> first,
           suffix |-> IF code = avail THEN first ELSE codes[code].first]]

\* The colours of a code: those of its prefix, then its own.
Colors(codes, code) ==
    LET chain[c \in 0..TableSize - 1] ==
            IF codes[c].prefix >= 0 THEN Append(chain[codes[c].prefix], codes[c].suffix)
            ELSE <<codes[c].suffix>>
    IN chain[code]

(***************************************************************************)
(* Pixels                                                                  *)
(***************************************************************************)
\* The line after the current one; a pass that is at its end is followed by the
\* next that has lines.
NextLine(g) ==
    LET y     == g.curY + g.step
        later == {p \in 1..g.parse : g.startY + 2^(p - 1) < g.maxY}
        pass  == IF later = {} THEN 1 ELSE Max(later)
    IN IF y < g.maxY \/ g.parse = 0 THEN [g EXCEPT !.curX = g.startX, !.curY = y]
       ELSE [g EXCEPT !.curX = g.startX, !.curY = g.startY + 2^(pass - 1),
                      !.step = 2^pass, !.parse = pass - 1]

\* The pixel in column x of line y; the column after the last is the first of
\* the next line.
At(g, x, y) == <<x % g.w, y + x \div g.w>>

\* stbi__out_gif_code, one pixel.  A transparent one leaves what is there.  An
\* image without width has its colours put all the same.
PutPixel(g, color) ==
    IF g.curY >= g.maxY THEN g
    ELSE LET p   == At(g, g.curX, g.curY)
             put == IF color = g.transparent \/ p \notin DOMAIN g.out THEN g
                    ELSE [g EXCEPT !.out[p] = color]
         IN IF g.curX + 1 < g.maxX THEN [put EXCEPT !.curX = @ + 1]
            ELSE NextLine(put)

\* The singleton makes TLC evaluate each intermediate state once.
outGifCode(g, code) ==
    FoldLeft(LAMBDA a, color : CHOOSE x \in {PutPixel(b, color) : b \in {a}} : TRUE,
             g, Colors(g.codes, code))

(***************************************************************************)
(* The file                                                                *)
(***************************************************************************)
\* stbi__gif_header, and the background of the first image: the flags of a
\* control extension that would ask for more are read after it.
GifInit(canvases, tables) ==
    \E canvas \in canvases, table \in tables :
        gif = [status |-> "blocks", w |-> canvas[1], h |-> canvas[2],
               table |-> table, transparent |-> NoColor,
               startX |-> 0, startY |-> 0, maxX |-> 0, maxY |-> 0,
               curX |-> 0, curY |-> 0,
               interlaced |-> FALSE, step |-> 1, parse |-> 0,
               codes |-> FirstCodes, codesize |-> LzwSize + 1,
               avail |-> Clear + 2, oldcode |-> -1, first |-> TRUE,
               out |-> [p \in (0..canvas[1] - 1) \X (0..canvas[2] - 1) |->
                          Background],
               read |-> 0, dict |-> <<>>, text |-> <<>>]

GifFails == gif' = [gif EXCEPT !.status = "failed"]

\* A graphic control extension; others are skipped.
Control ==
    \E color \in {NoColor, 0} :
        gif' = [gif EXCEPT !.transparent = color]

\* An image descriptor: the table of its colours is its own or the global one,
\* and the codes begin.  Without a table the file is refused.
Descriptor ==
    \E start \in Offsets, short \in Shortfalls, local, interlaced \in BOOLEAN :
        /\ start[1] <= gif.w - short[1] /\ start[2] <= gif.h - short[2]
        /\ IF ~local /\ ~gif.table THEN GifFails
           ELSE gif' = [gif EXCEPT
                          !.status = "raster", !.table = TRUE,
                          !.startX = start[1], !.startY = start[2],
                          !.curX = start[1], !.curY = start[2],
                          !.maxX = gif.w - short[1], !.maxY = gif.h - short[2],
                          !.interlaced = interlaced,
                          !.step = IF interlaced THEN 8 ELSE 1,
                          !.parse = IF interlaced THEN 3 ELSE 0]

\* A size that does not fit, an unknown block, no image at all.
BadBlock == GifFails

ClearCode ==
    gif' = [gif EXCEPT !.codesize = LzwSize + 1, !.avail = Clear + 2,
                       !.oldcode = -1, !.first = FALSE, !.read = @ + 1,
                       !.dict = [c \in 1..Clear + 2 |-> <<c - 1>>]]

\* The size of the next code.
NextSize(size, avail) ==
    IF avail % 2^size = 0 /\ avail < TableSize THEN size + 1 ELSE size

\* What LZW says: the strings of the codes so far, and of the next one.
Meaning(code) ==
    IF code < Len(gif.dict) THEN gif.dict[code + 1]
    ELSE Append(gif.dict[gif.oldcode + 1], Head(gif.dict[gif.oldcode + 1]))

Known(code) ==
    IF gif.oldcode < 0 THEN gif.dict
    ELSE Append(gif.dict, Append(gif.dict[gif.oldcode + 1], Head(Meaning(code))))

ColorCode(code) ==
    LET adds  == gif.oldcode >= 0
        avail == IF adds THEN gif.avail + 1 ELSE gif.avail
    IN IF code > gif.avail \/ gif.first \/ (adds /\ avail > TableSize)
          \/ (~adds /\ code = gif.avail)
       THEN GifFails
       ELSE \E g \in {outGifCode(
                        IF adds THEN [gif EXCEPT !.codes =
                                        NewCode(@, gif.oldcode, code, gif.avail)]
                        ELSE gif, code)} :
              gif' = [g EXCEPT !.avail = avail, !.oldcode = code,
                               !.codesize = NextSize(gif.codesize, avail),
                               !.read = @ + 1,
                               !.dict = Known(code),
                               !.text = @ \o Meaning(code)]

\* The code for the end, or the end of the blocks.
RasterEnd == gif' = [gif EXCEPT !.status = "loaded"]

Blocks ==
    /\ gif.status = "blocks"
    /\ Control \/ Descriptor \/ BadBlock

Raster ==
    /\ gif.status = "raster"
    /\ \/ RasterEnd
       \/ /\ gif.read < MaxCodes
          /\ \E code \in 0..2^gif.codesize - 1 :
               \/ code = Clear /\ ClearCode
               \/ code \notin {Clear, EndCode} /\ ColorCode(code)

GifNext == Blocks \/ Raster

\* The lines of an image in the order of the file: every eighth, those in the
\* middle between them, and so on.
LineOrder(h) ==
    LET all == [i \in 1..h |-> i - 1]
    IN IF ~gif.interlaced THEN all
       ELSE SelectSeq(all, LAMBDA y : y % 8 = 0)
            \o SelectSeq(all, LAMBDA y : y % 8 = 4)
            \o SelectSeq(all, LAMBDA y : y % 4 = 2)
            \o SelectSeq(all, LAMBDA y : y % 2 = 1)

\* The picture holds the colours that LZW makes of the codes, each at the place
\* that the order of the lines gives it; the sizes of the codes follow the
\* table, so that the next code can be read, the one that is being made too.
\* Except: an image without width takes the place of one that is a column wide.
GifDecodes ==
    LET w == Max({1, gif.maxX - gif.startX})
        h == gif.maxY - gif.startY
        lines == LineOrder(h)
        shown == {n \in DOMAIN gif.text : n <= w * h}
        place(n) == At(gif, gif.startX + ((n - 1) % w),
                       gif.startY + lines[((n - 1) \div w) + 1])
    IN /\ gif.status \in {"raster", "loaded"} =>
            \A p \in DOMAIN gif.out :
              \/ \E n \in shown : /\ place(n) = p
                                  /\ gif.text[n] # gif.transparent
                                  /\ gif.out[p] = gif.text[n]
              \/ /\ gif.out[p] = Background
                 /\ \A n \in shown : place(n) = p => gif.text[n] = gif.transparent
       /\ gif.status = "raster" /\ gif.oldcode >= 0 /\ gif.avail < TableSize =>
            /\ gif.avail < 2^gif.codesize
            /\ 2^(gif.codesize - 1) <= gif.avail
=============================================================================
