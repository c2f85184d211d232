------------------------------ MODULE PngImage ------------------------------
(***************************************************************************)
(* The PNG loader of stb_image.h: the chunks of a file one by one, then    *)
(* the image from the inflated data.  A pixel is the sequence of what its  *)
(* channels hold: a sample of the file ("r", "y", "a", ...), an entry of   *)
(* the palette, the luminance of a colour, an alpha that is opaque or      *)
(* computed from the transparent colour.  Headers are those that the PNG   *)
(* standard allows.                                                        *)
(***************************************************************************)
EXTENDS Integers, Sequences, SequencesExt, FiniteSetsExt

CONSTANTS Dims,         \* widths and heights
          ReqComps,     \* channels asked for; 0: those of the file
          IdatLens,     \* lengths of an IDAT
          IdataLimit,   \* the first size of the buffer for them, 4096
          MaxIdata,     \* data of all IDATs together
          MaxDim,       \* sides of an interlaced picture
          MaxLine,      \* pixels of a line
          ByteValues    \* values of a byte, 256

VARIABLES png,          \* the locals of stbi__parse_png_file, and the result
          deIphone,     \* stbi__de_iphone_flag
          lines         \* a picture whose data is put in place, for itself

(***************************************************************************)
(* Channels                                                                *)
(***************************************************************************)
Samples(color) ==
    CASE color = 0 -> <<"y">>
      [] color = 2 -> <<"r", "g", "b">>
      [] color = 3 -> <<"index">>
      [] color = 4 -> <<"y", "a">>
      [] color = 6 -> <<"r", "g", "b", "a">>

\* The order of the samples in the data: an iPhone's file has blue first.
Stored(p) ==
    LET s == Samples(p.color)
    IN IF p.iphone /\ Len(s) > 2 THEN [s EXCEPT ![1] = s[3], ![3] = s[1]] ELSE s

\* stbi__convert_format: from what a pixel has to what was asked for.
convertFormat(ch, req) ==
    LET n    == Len(ch)
        gray == n < 3
        luma == IF gray THEN ch[1] ELSE <<"luma", ch[1], ch[2], ch[3]>>
        alpha == IF n \in {2, 4} THEN ch[n] ELSE "opaque"
        rgb  == IF gray THEN <<ch[1], ch[1], ch[1]>> ELSE SubSeq(ch, 1, 3)
    IN IF req \in {0, n} THEN ch
       ELSE CASE req = 1 -> <<luma>>
              [] req = 2 -> <<luma, alpha>>
              [] req = 3 -> rgb
              [] req = 4 -> Append(rgb, alpha)

\* Faulty: the alpha of the transparent colour is made after the channels were
\* put in their order.
imgOutN_ignoresTrans(p) ==
    IF p.req = p.imgN + 1 /\ p.req # 3 /\ p.palImgN = 0 THEN p.imgN + 1
    ELSE p.imgN

\* The channels the data is unpacked to.
imgOutN(p) ==
    IF (p.req = p.imgN + 1 /\ p.req # 3 /\ p.palImgN = 0) \/ p.hasTrans
    THEN p.imgN + 1 ELSE p.imgN

\* stbi__create_png_image_raw fills the additional channel with 255.
Unpacked(p) ==
    IF imgOutN(p) = p.imgN THEN Stored(p) ELSE Append(Stored(p), "opaque")

\* stbi__compute_transparency
computeTransparency(p, ch) ==
    IF p.hasTrans THEN [ch EXCEPT ![Len(ch)] = "keyed"] ELSE ch

\* stbi__de_iphone
DeIphoned(p, ch) ==
    IF p.iphone /\ deIphone /\ Len(ch) > 2
    THEN [ch EXCEPT ![1] = ch[3], ![3] = ch[1]] ELSE ch

\* stbi__expand_png_palette, to what is asked for if that has colours.
expandPngPalette(p, ch) ==
    IF p.palImgN = 0 THEN ch
    ELSE SubSeq(<<"palette r", "palette g", "palette b", "palette a">>, 1,
                IF p.req >= 3 THEN p.req ELSE p.palImgN)

\* What stbi__parse_png_file does at the end of the file, and stbi__do_png then.
Pixel(p) ==
    convertFormat(expandPngPalette(p,
                    DeIphoned(p, computeTransparency(p, Unpacked(p)))),
                  p.req)

\* What the file says: its colours, in the order they are due, and an alpha from
\* where it has one.
FileColor(p) ==
    CASE p.color \in {0, 4}        -> <<"y">>
      [] p.color = 3               -> <<"palette r", "palette g", "palette b">>
      [] p.iphone /\ ~deIphone     -> <<"b", "g", "r">>
      [] OTHER                     -> <<"r", "g", "b">>

FileAlpha(p) ==
    CASE p.color \in {4, 6} -> <<"a">>
      [] p.color = 3        -> IF p.palImgN = 4 THEN <<"palette a">> ELSE <<>>
      [] OTHER              -> IF p.hasTrans THEN <<"keyed">> ELSE <<>>

\* The alpha of a palette without one is 255 in every entry.
SameChannel(p, a, b) ==
    \/ a = b
    \/ p.color = 3 /\ p.palImgN = 3 /\ {a, b} = {"palette a", "opaque"}

(***************************************************************************)
(* The data of an image: passes, lines and filters                         *)
(***************************************************************************)
Xorig == <<0, 4, 0, 2, 0, 1, 0>>
Yorig == <<0, 0, 4, 0, 2, 0, 1>>
Xspc  == <<8, 8, 4, 4, 2, 2, 1>>
Yspc  == <<8, 8, 8, 4, 4, 2, 2>>

\* Columns or lines of a pass.
PassLen(size, orig, spc) == (size - orig + spc - 1) \div spc

\* Bytes of a picture of x by y pixels: its lines, each with its filter.
ImgLen(p, x, y) == (((p.imgN * x * p.depth) + 7) \div 8 + 1) * y

PassSize(p, k) ==
    LET x == PassLen(p.w, Xorig[k], Xspc[k])
        y == PassLen(p.h, Yorig[k], Yspc[k])
    IN IF x = 0 \/ y = 0 THEN 0 ELSE ImgLen(p, x, y)

DataSize(p) ==
    IF p.interlace THEN MapThenSumSet(LAMBDA k : PassSize(p, k), 1..7)
    ELSE ImgLen(p, p.w, p.h)

\* "not enough pixels": the data of a pass of the picture's own size is exactly
\* that (an interlaced picture has such a pass if it has one pixel).
Enough(p, rawLen) ==
    IF p.interlace /\ (p.w > 1 \/ p.h > 1) THEN rawLen >= DataSize(p)
    ELSE rawLen = DataSize(p)

\* stbi__create_png_image: where the pixel i, j of a pass goes.
Placed(w, h) ==
    UNION {{<<k, i, j, i * Xspc[k] + Xorig[k], j * Yspc[k] + Yorig[k]>> :
              i \in 0..PassLen(w, Xorig[k], Xspc[k]) - 1,
              j \in 0..PassLen(h, Yorig[k], Yspc[k]) - 1} : k \in 1..7}

\* The passes of the standard, as it prints them.
Adam7 == << <<1, 6, 4, 6, 2, 6, 4, 6>>, <<7, 7, 7, 7, 7, 7, 7, 7>>,
            <<5, 6, 5, 6, 5, 6, 5, 6>>, <<7, 7, 7, 7, 7, 7, 7, 7>>,
            <<3, 6, 4, 6, 3, 6, 4, 6>>, <<7, 7, 7, 7, 7, 7, 7, 7>>,
            <<5, 6, 5, 6, 5, 6, 5, 6>>, <<7, 7, 7, 7, 7, 7, 7, 7>> >>

PassOf(x, y) == Adam7[(y % 8) + 1][(x % 8) + 1]

\* The pixels of the picture, each with its pass and how many columns and lines
\* of that pass are before it.
Interlaced(w, h) ==
    {<<PassOf(x, y),
       Cardinality({u \in 0..x - 1 : PassOf(u, y) = PassOf(x, y)}),
       Cardinality({v \in 0..y - 1 : \E u \in 0..w - 1 :
                                        PassOf(u, v) = PassOf(x, y)}),
       x, y>> : x \in 0..w - 1, y \in 0..h - 1}

Abs(n) == IF n < 0 THEN -n ELSE n

\* stbi__paeth
paeth(a, b, c) ==
    LET p == a + b - c
    IN IF Abs(p - a) <= Abs(p - b) /\ Abs(p - a) <= Abs(p - c) THEN a
       ELSE IF Abs(p - b) <= Abs(p - c) THEN b ELSE c

firstRowFilter(filter) ==
    CASE filter = "up"    -> "none"
      [] filter = "avg"   -> "avg_first"
      [] filter = "paeth" -> "paeth_first"
      [] OTHER            -> filter

\* stbi__create_png_image_raw, one byte: the first of a line has cases of its
\* own, and the first line has filters that do not look at the line above.
Unfiltered(filter, first, raw, left, above, corner) ==
    (raw + CASE filter = "none"        -> 0
             [] filter = "sub"         -> IF first THEN 0 ELSE left
             [] filter = "up"          -> above
             [] filter = "avg"         -> IF first THEN above \div 2
                                          ELSE (above + left) \div 2
             [] filter = "paeth"       -> IF first THEN paeth(0, above, 0)
                                          ELSE paeth(left, above, corner)
             [] filter = "avg_first"   -> IF first THEN 0 ELSE left \div 2
             [] filter = "paeth_first" -> IF first THEN 0 ELSE paeth(left, 0, 0))
    % ByteValues

\* The line above, as the filters find it.  It is looked for at the beginning of
\* its place in the picture, also where it is packed at the end, `off` bytes
\* on: what is before it is whatever the memory held.
Prior(line, off, junk) ==
    [k \in DOMAIN line |-> IF k > off THEN line[k - off] ELSE junk]

\* A line of bytes.
UnfilteredLine(filter, raw, above) ==
    LET cur[k \in DOMAIN raw] ==
            Unfiltered(filter, k = 1, raw[k], IF k = 1 THEN 0 ELSE cur[k - 1],
                       above[k], IF k = 1 THEN 0 ELSE above[k - 1])
    IN cur

\* The standard: one formula for every byte, with zeros outside the picture.
StandardLine(filter, raw, above) ==
    LET cur[k \in DOMAIN raw] ==
            LET a == IF k = 1 THEN 0 ELSE cur[k - 1]
                b == above[k]
                c == IF k = 1 THEN 0 ELSE above[k - 1]
                e == a + b - c
                nearest == CHOOSE v \in {a, b, c} :
                             /\ \A u \in {a, b, c} : Abs(e - v) <= Abs(e - u)
                             /\ \/ v = a
                                \/ v = b /\ Abs(e - a) # Abs(e - v)
                                \/ v = c /\ Abs(e - a) # Abs(e - v)
                                         /\ Abs(e - b) # Abs(e - v)
            IN (raw[k] + CASE filter = "none"  -> 0
                           [] filter = "sub"   -> a
                           [] filter = "up"    -> b
                           [] filter = "avg"   -> (a + b) \div 2
                           [] filter = "paeth" -> nearest) % ByteValues
    IN cur

\* Where the packed byte i of a line is before it is unpacked in place: the
\* line ends with them.
PackedAt(x, depth, outN, i) == x * outN - ((x * depth) + 7) \div 8 + i

\* A line with less than 8 bits to a sample, unpacked from the left.  A packed
\* byte is the number of its first sample; a sample read from anything else is
\* lost.
Unpack(x, depth, outN) ==
    LET per   == 8 \div depth
        width == ((x * depth) + 7) \div 8
        packed == [k \in 0..x * outN - 1 |->
                     IF \E i \in 0..width - 1 : k = PackedAt(x, depth, outN, i)
                     THEN <<"packed", CHOOSE i \in 0..width - 1 :
                                        k = PackedAt(x, depth, outN, i)>>
                     ELSE <<"free", 0>>]
        at(n)  == PackedAt(x, depth, outN, n \div per)
        step(a, n) == [a EXCEPT ![n] =
                         IF a[at(n)] = <<"packed", n \div per>>
                         THEN <<"sample", n>> ELSE <<"lost", 0>>]
    IN FoldLeft(step, packed, [n \in 1..x |-> n - 1])

\* "insert alpha = 255", from the right.
InsertAlpha(a, x) ==
    FoldLeft(LAMBDA b, q : [[b EXCEPT ![2 * q + 1] = <<"opaque", 0>>]
                              EXCEPT ![2 * q] = b[q]],
             a, [n \in 1..x |-> x - n])

Filters == {"none", "sub", "up", "avg", "paeth"}

NoLines == [kind |-> "none", done |-> FALSE]

LinesInit ==
    \/ lines \in [kind : {"filter"}, filter : Filters \X Filters,
                  raw : [1..2 -> [1..2 -> 0..ByteValues - 1]],
                  off : 0..2, junk : {ByteValues - 1}, out : {<<>>}, done : {FALSE}]
    \/ lines \in [kind : {"interlace"}, w : 1..MaxDim, h : 1..MaxDim,
                  out : {<<>>}, done : {FALSE}]
    \/ lines \in [kind : {"packed"}, x : 1..MaxLine, depth : {1, 2, 4},
                  outN : {1, 2}, out : {<<>>}, done : {FALSE}]

Lines ==
    CASE lines.kind = "filter" ->
           LET junk  == [k \in 1..2 |-> lines.junk]
               first == UnfilteredLine(firstRowFilter(lines.filter[1]),
                                       lines.raw[1], junk)
           IN <<first, UnfilteredLine(lines.filter[2], lines.raw[2],
                                      Prior(first, lines.off, lines.junk))>>
      [] lines.kind = "interlace" -> Placed(lines.w, lines.h)
      [] lines.kind = "packed" ->
           LET a == Unpack(lines.x, lines.depth, lines.outN)
           IN IF lines.outN = 1 THEN a ELSE InsertAlpha(a, lines.x)

LinesNext ==
    /\ ~lines.done
    /\ lines' = [lines EXCEPT !.out = Lines, !.done = TRUE]

\* The lines of a picture come out as the PNG standard says: the special filters
\* of the first line and of first bytes agree with the general ones over zeros,
\* every pixel of an interlaced picture comes from its place in its pass, and a
\* line that is unpacked over itself loses no sample.  (Not so a packed line that
\* is filtered with the line above: Prior looks in the wrong place.)
LinesExact ==
    lines.done =>
        CASE lines.kind = "filter" ->
               LET first == StandardLine(lines.filter[1], lines.raw[1],
                                         [k \in 1..2 |-> 0])
               IN lines.off = 0 \/ lines.filter[2] \in {"none", "sub"} =>
                  lines.out = <<first, StandardLine(lines.filter[2],
                                                    lines.raw[2], first)>>
          [] lines.kind = "interlace" -> lines.out = Interlaced(lines.w, lines.h)
          [] lines.kind = "packed" ->
               \A n \in 0..lines.x - 1 :
                 /\ lines.out[n * lines.outN] = <<"sample", n>>
                 /\ lines.outN = 2 => lines.out[2 * n + 1] = <<"opaque", 0>>

(***************************************************************************)
(* Chunks                                                                  *)
(***************************************************************************)
Depths(color) == IF color \in {0, 3} THEN {1, 2, 4, 8} ELSE {8}

NewFile(req) ==
    [first |-> TRUE, req |-> req, color |-> 0, depth |-> 0, w |-> 0, h |-> 0,
     interlace |-> FALSE, imgN |-> 0, palImgN |-> 0, palLen |-> 0,
     hasTrans |-> FALSE, iphone |-> FALSE, ioff |-> 0, limit |-> 0,
     status |-> "chunks"]

Failed == png' = [png EXCEPT !.status = "failed"]

\* The image is there, with its channels as they are in memory.
Loaded == png' = [png EXCEPT !.status = "loaded"]

CgBI == png' = [png EXCEPT !.iphone = TRUE]

IHDR ==
    \/ Failed                      \* a second one, or a header not understood
    \/ /\ png.first
       /\ \E color \in {0, 2, 3, 4, 6}, w, h \in Dims, interlace \in BOOLEAN :
            \E depth \in Depths(color) :
              png' = [png EXCEPT
                        !.first = FALSE, !.color = color, !.depth = depth,
                        !.w = w, !.h = h, !.interlace = interlace,
                        !.palImgN = IF color = 3 THEN 3 ELSE 0,
                        !.imgN = Len(Samples(color))]

PLTE ==
    \/ png.first /\ Failed
    \/ ~png.first /\ \E len \in {0, 2} : png' = [png EXCEPT !.palLen = len]

tRNS ==
    IF png.first \/ png.limit # 0 THEN Failed
    ELSE IF png.palImgN # 0
    THEN IF png.palLen = 0 THEN Failed ELSE png' = [png EXCEPT !.palImgN = 4]
    ELSE IF png.imgN % 2 = 0 THEN Failed
    ELSE png' = [png EXCEPT !.hasTrans = TRUE]

\* The first doubling of the buffer that has room.
Room(limit, need) ==
    Min({limit * 2^k : k \in {j \in 0..need : limit * 2^j >= need}})

IDAT ==
    IF png.first \/ (png.palImgN # 0 /\ png.palLen = 0) THEN Failed
    ELSE \E len \in IdatLens :
           LET need  == png.ioff + len
               start == IF png.limit = 0 THEN Max({len, IdataLimit})
                        ELSE png.limit
           IN /\ need <= MaxIdata
              /\ \/ Failed                 \* no memory, or too short a file
                 \/ png' = [png EXCEPT
                              !.ioff = need,
                              !.limit = IF need > @ THEN Room(start, need)
                                        ELSE @]

\* The data may be corrupt (Inflate) or of another length than it should be.
IEND ==
    IF png.first \/ png.limit = 0 THEN Failed
    ELSE \/ Failed
         \/ \E more \in {-1, 0, 1} :
              IF Enough(png, DataSize(png) + more) THEN Loaded ELSE Failed

\* A chunk that is not known, critical or not.
OtherChunk == Failed \/ (~png.first /\ UNCHANGED png)

\* The image is loaded from a file or from memory (the first sets the flag).
PngInit(reqs) == png \in {NewFile(req) : req \in reqs} /\ deIphone = FALSE

PngNext ==
    /\ png.status = "chunks"
    /\ CgBI \/ IHDR \/ PLTE \/ tRNS \/ IDAT \/ IEND \/ OtherChunk
    /\ UNCHANGED deIphone

\* nvgCreateImage sets the flag for iPhone files for good, nvgCreateImageMem
\* leaves it alone.
PngOpen ==
    /\ png.status \in {"loaded", "failed"}
    /\ \E req \in ReqComps : png' = NewFile(req)
    /\ deIphone' \in {deIphone, TRUE}

\* The channels asked for, of what the file says.
Wanted(p) ==
    LET color == FileColor(p)
        gray  == Len(color) = 1
        luma  == IF gray THEN color
                 ELSE << <<"luma", color[1], color[2], color[3]>> >>
        rgb   == IF gray THEN color \o color \o color ELSE color
        alpha == IF FileAlpha(p) = <<>> THEN <<"opaque">> ELSE FileAlpha(p)
    IN CASE p.req = 0 -> color \o FileAlpha(p)
         [] p.req = 1 -> luma
         [] p.req = 2 -> luma \o alpha
         [] p.req = 3 -> rgb
         [] p.req = 4 -> rgb \o alpha

\* The lines come out exact, and a loaded image has the channels that were asked
\* for, in the order red, green, blue, alpha or luminance, alpha, whatever order,
\* palette, transparent colour or missing alpha the file has and in whichever
\* step they are made up; the chunks fit the buffer they are collected in.
\* Except: until the first nvgCreateImage has set the flag, a true-colour
\* file of an iPhone stays as it is, with blue first; its luminance is then made
\* with blue in the place of red.
PngDelivers ==
    /\ LinesExact
    /\ png.ioff <= png.limit
    /\ png.status = "loaded" =>
         LET out  == Pixel(png)
             want == Wanted(png)
         IN /\ Len(out) = Len(want)
            /\ \A i \in DOMAIN out : SameChannel(png, out[i], want[i])
=============================================================================
