------------------------------ MODULE StbImage ------------------------------
(***************************************************************************)
(* The parts of stb_image.h that nvgCreateImage runs through, each for     *)
(* itself: how the bytes of a file are read, Huffman tables, the zlib      *)
(* stream, the chunks of a PNG file and the lines of its picture, and a    *)
(* GIF file.  A behaviour takes one of them from its beginning.            *)
(***************************************************************************)
EXTENDS ImageStream, Inflate, PngImage, GifImage

imageVars == <<io, huff, zl, png, deIphone, lines, gif>>

Decoders == {"stream", "huffman", "zlib", "png", "lines", "gif"}

ImageInit(part) ==
    /\ IF part = "stream" THEN StreamInit ELSE io = startMem(0)
    /\ IF part = "huffman" THEN HuffInit ELSE huff = NoCode
    /\ ZlibInit(IF part = "zlib" THEN BOOLEAN ELSE {FALSE})
    /\ PngInit(IF part = "png" THEN ReqComps ELSE {0})
    /\ IF part = "lines" THEN LinesInit ELSE lines = NoLines
    /\ IF part = "gif" THEN GifInit(Canvases, BOOLEAN)
       ELSE GifInit({<<1, 1>>}, {FALSE})

ImageNext(part) ==
    \/ /\ part = "stream"
       /\ StreamNext
       /\ UNCHANGED <<huff, zl, png, deIphone, lines, gif>>
    \/ /\ part = "huffman"
       /\ HuffBuild
       /\ UNCHANGED <<io, zl, png, deIphone, lines, gif>>
    \/ /\ part = "zlib"
       /\ ZlibBlock \/ ZlibSymbol
       /\ UNCHANGED <<io, huff, png, deIphone, lines, gif>>
    \/ /\ part = "png"
       /\ PngNext \/ PngOpen
       /\ UNCHANGED <<io, huff, zl, lines, gif>>
    \/ /\ part = "lines"
       /\ LinesNext
       /\ UNCHANGED <<io, huff, zl, png, deIphone, gif>>
    \/ /\ part = "gif"
       /\ GifNext
       /\ UNCHANGED <<io, huff, zl, png, deIphone, lines>>

\* The part is through: nothing is left of it, or of the bound on its input.
ImageDone(part) ==
    \/ part = "stream" /\ io.phase \in {"done", Short}
    \/ part = "huffman" /\ huff.table # NoTable
    \/ /\ part = "zlib"
       /\ \/ zl.block = "failed"
          \/ zl.block = "none" /\ zl.final
          \/ zl.pos >= 8 * DataLen
    \/ part = "lines" /\ lines.done
    \/ part = "gif" /\ gif.status \in {"loaded", "failed"}
=============================================================================
