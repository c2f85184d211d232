------------------------------ MODULE NvgText ------------------------------
(***************************************************************************)
(* Text of nanovg.c: glyphs are looked up in the font stash and put into   *)
(* quads; when a glyph finds no room, the quads so far are drawn and a new *)
(* font image (a page of the atlas) begins.  One action is one turn of a   *)
(* text function's loop.                                                   *)
(***************************************************************************)
EXTENDS FontStash, NvgGl

CONSTANTS MaxFontImages,   \* NVG_MAX_FONTIMAGES
          InitSize,        \* NVG_INIT_FONTIMAGE_SIZE
          MaxSize,         \* NVG_MAX_FONTIMAGE_SIZE
          AnySize,         \* what uninitialised iw and ih may hold
          MaxString,       \* glyphs of a text
          MaxTexts,        \* draws of a frame when its last text begins
          MaxTextureId     \* textures that are ever created

VARIABLES fontImages,      \* [0..MaxFontImages - 1 -> texture id or 0]
          fontImageIdx,    \* the page in use
          text             \* the locals of the text function that runs

textVars == <<fs, gl, fontImages, fontImageIdx, text>>

ASSUME FontImagesAssumption ==
    /\ MaxFontImages \in Nat \ {0}
    /\ InitSize \in Nat \ {0} /\ MaxSize \in Nat /\ InitSize <= MaxSize

Idle == [kind |-> "none", str |-> <<>>, quads |-> <<>>, retry |-> FALSE,
         tiny |-> FALSE]

FontImage == fontImages[fontImageIdx]

(***************************************************************************)
(* Uploading                                                               *)
(***************************************************************************)
Overlaps(b, d) ==
    /\ b.x < d[3] /\ d[1] < b.x + Box[b.g].w
    /\ b.y < d[4] /\ d[2] < b.y + Box[b.g].h

Inside(b, d) ==
    /\ d[1] <= b.x /\ b.x + Box[b.g].w <= d[3]
    /\ d[2] <= b.y /\ b.y + Box[b.g].h <= d[4]

\* glnvg__renderUpdateTexture: the dirty part of the stash's data replaces that
\* part of the texture.  The texture's width is taken for the data's, so with
\* another one nothing of it is any good.
renderUpdateTexture(g, image, s) ==
    LET slot == findTexture(g, image)
    IN IF slot = 0 THEN g
       ELSE [g EXCEPT !.textures[slot].data =
                IF g.textures[slot].w # s.atlas.width THEN {}
                ELSE {b \in @ : ~Overlaps(b, s.dirty) \/ b \in s.texData}
                     \cup {b \in s.texData : Inside(b, s.dirty)}]

\* nvg__flushTextTexture, the part that concerns the texture.
flushTextTexture(g) ==
    IF IsDirty(fs) /\ FontImage # 0 THEN renderUpdateTexture(g, FontImage, fs)
    ELSE g

\* nvg__renderText
renderText(g, quads, fail) == renderTriangles(g, FontImage, quads, fail)

(***************************************************************************)
(* A new page                                                              *)
(***************************************************************************)
GrownSize(size) ==
    LET w == IF size[1] > size[2] THEN size[1] ELSE size[1] * 2
        h == IF size[1] > size[2] THEN size[2] * 2 ELSE size[2]
    IN IF w > MaxSize \/ h > MaxSize THEN <<MaxSize, MaxSize>> ELSE <<w, h>>

\* Faulty: the page is left before its last bitmaps are in its texture.
allocTextAtlas_noFlush(g) ==
    LET next == fontImageIdx + 1
    IN /\ fontImageIdx < MaxFontImages - 1
       /\ fontImageIdx' = next
       /\ \/ /\ fontImages[next] # 0
             /\ \E size \in renderGetTextureSize(g, fontImages[next], AnySize) :
                  fs' = fonsResetAtlas(fs, size[1], size[2])
             /\ gl' = g
             /\ UNCHANGED fontImages
          \/ /\ fontImages[next] = 0
             /\ \E size \in renderGetTextureSize(g, FontImage, AnySize) :
                  LET new == GrownSize(size)
                  IN /\ fs' = fonsResetAtlas(fs, new[1], new[2])
                     /\ \/ /\ gl.textureId < MaxTextureId
                           /\ gl' = renderCreateTexture(g, new[1], new[2], TRUE)
                           /\ fontImages' = [fontImages EXCEPT
                                               ![next] = gl'.textureId]
                        \/ gl' = g /\ UNCHANGED fontImages

\* nvg__allocTextAtlas, when there is a page left: the next font image is
\* used again with its size, or created with the size grown in one direction.
\* A texture that cannot be created leaves 0.  The size of the image 0 is
\* whatever iw and ih held.
allocTextAtlas(g) ==
    LET next    == fontImageIdx + 1
        flushed == flushTextTexture(g)
    IN /\ fontImageIdx < MaxFontImages - 1
       /\ fontImageIdx' = next
       /\ \/ /\ fontImages[next] # 0
             /\ \E size \in renderGetTextureSize(flushed, fontImages[next],
                                                 AnySize) :
                  fs' = fonsResetAtlas(fs, size[1], size[2])
             /\ gl' = flushed
             /\ UNCHANGED fontImages
          \/ /\ fontImages[next] = 0
             /\ \E size \in renderGetTextureSize(flushed, FontImage, AnySize) :
                  LET new == GrownSize(size)
                  IN /\ fs' = fonsResetAtlas(fs, new[1], new[2])
                     /\ \/ /\ gl.textureId < MaxTextureId
                           /\ gl' = renderCreateTexture(flushed, new[1], new[2],
                                                        TRUE)
                           /\ fontImages' = [fontImages EXCEPT
                                               ![next] = gl'.textureId]
                        \/ gl' = flushed /\ UNCHANGED fontImages

(***************************************************************************)
(* The text functions.  "draw" is nvgText; "positions" is what             *)
(* nvgTextGlyphPositions and nvgTextBreakLines do, "bounds" what           *)
(* nvgTextBounds does to the stash.                                        *)
(***************************************************************************)
Strings == UNION {[1..n -> Glyph] : n \in 0..MaxString}

TextBegin(kind, str, tiny) ==
    /\ text.kind = "none"
    /\ kind = "draw" => gl.draws < MaxTexts
    /\ text' = [kind |-> kind, str |-> str, quads |-> <<>>, retry |-> FALSE,
                tiny |-> tiny]
    /\ UNCHANGED <<fs, gl, fontImages, fontImageIdx>>

\* fonsTextIterNext
NextGlyph == getGlyph(fs, Head(text.str), text.tiny, text.kind # "draw")

Reading == text.kind # "none" /\ text.str # <<>>

\* The glyph is there; nvgText makes a quad of it.
TextGlyph ==
    /\ Reading
    /\ \E r \in NextGlyph :
         /\ fs' = r.fs
         /\ text' = [text EXCEPT !.str = Tail(@), !.retry = FALSE,
                                 !.quads = IF text.kind = "draw"
                                           THEN Append(@, r.glyph) ELSE @]
    /\ UNCHANGED <<gl, fontImages, fontImageIdx>>

\* "can not retrieve glyph?": the quads are drawn from the page they are on and
\* the glyph is tried again on a new one.
TextPage(fail) ==
    /\ Reading
    /\ NextGlyph = {}
    /\ ~text.retry
    /\ text.kind \in {"draw", "positions"}
    /\ LET drawn == IF text.quads = <<>> THEN gl
                    ELSE renderText(gl, text.quads, fail)
       IN allocTextAtlas(drawn)
    /\ text' = [text EXCEPT !.quads = <<>>, !.retry = TRUE]

\* Without a glyph on a new page nvgText stops; the others go on.
GiveUp ==
    IF text.kind = "draw" THEN [text EXCEPT !.str = <<>>, !.quads = <<>>]
    ELSE [text EXCEPT !.str = Tail(@), !.retry = FALSE]

TextSkip ==
    /\ Reading
    /\ NextGlyph = {}
    /\ text.retry \/ text.kind = "bounds"
    /\ text' = GiveUp
    /\ UNCHANGED <<fs, gl, fontImages, fontImageIdx>>

\* There is no page left (the failed call has flushed the texture).
TextFull(fail) ==
    /\ Reading
    /\ NextGlyph = {}
    /\ ~text.retry
    /\ text.kind \in {"draw", "positions"}
    /\ fontImageIdx >= MaxFontImages - 1
    /\ gl' = flushTextTexture(IF text.quads = <<>> THEN gl
                              ELSE renderText(gl, text.quads, fail))
    /\ fs' = fonsValidateTexture(fs)
    /\ text' = GiveUp
    /\ UNCHANGED <<fontImages, fontImageIdx>>

\* The text is at its end: nvgText updates the texture and draws the rest, even
\* if there is none.
TextEnd(fail) ==
    /\ text.kind # "none"
    /\ text.str = <<>>
    /\ IF text.kind = "draw"
       THEN /\ gl' = renderText(flushTextTexture(gl), text.quads, fail)
            /\ fs' = fonsValidateTexture(fs)
       ELSE UNCHANGED <<fs, gl>>
    /\ text' = Idle
    /\ UNCHANGED <<fontImages, fontImageIdx>>
=============================================================================
