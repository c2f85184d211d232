-------------------------------- MODULE Nvg --------------------------------
(***************************************************************************)
(* A nanovg context (nanovg.c over nanovg_gl.h and fontstash.h) and the    *)
(* program that draws with it.  The library has one thread and keeps no    *)
(* time: what makes it hard is the order of the calls, the limits of its   *)
(* buffers, and allocations that fail.  A behaviour draws shapes, draws    *)
(* and measures text, packs glyphs, or lays out one text in a box.         *)
(***************************************************************************)
EXTENDS NvgText, NvgPath, TextLayout, StbImage

CONSTANTS MaxDraws,      \* fills and strokes of a frame
          MaxQueued,     \* vertices a frame has queued before its last draw
          MaxImages,     \* images of the program that exist at a time
          PackGlyph      \* glyphs of the behaviours that only pack them

VARIABLE client          \* what the program does

vars == <<fs, gl, fontImages, fontImageIdx, text, path, lay, imageVars, client>>

(***************************************************************************)
(* Shapes.  The attributes of the current state that they depend on are    *)
(* parameters: whatever the setters, nvgSave, nvgRestore and nvgReset have *)
(* left there.                                                             *)
(***************************************************************************)
\* Fringes are drawn if the renderer (edgeAntiAlias) and the state say so.
Fringes == {"antialias" \in Flags, FALSE}

LineJoins == {"miter", "round", "bevel"}

\* A square cap has the vertices of a butt one.
LineCaps == {"butt", "round"}

\* The path cache grows too: its points and paths when a path is flattened, its
\* vertices at each draw.
CacheFailure == {"none", "expand"} \cup (IF path.paths = <<>> THEN {"flatten"} ELSE {})

\* Of the allocations of a draw one fails at most.
RenderFailure(lost) == IF lost = "none" THEN Failure ELSE {"none"}

\* nvgFill, nvgStroke: nobody looks at the result of the expansion.
nvgFill(fringe, lost) ==
    \E p \in Expand(path, LAMBDA q : expandFill(q, fringe), lost) :
        /\ path' = p
        /\ \E fail \in RenderFailure(lost) : gl' = renderFill(gl, 0, p.paths, fail)

nvgStroke(lineJoin, lineCap, lost) ==
    \E p \in Expand(path, LAMBDA q : expandStroke(q, lineJoin, lineCap), lost) :
        /\ path' = p
        /\ \E fail \in RenderFailure(lost) : gl' = renderStroke(gl, 0, p.paths, fail)

\* Bounds: a path of several calls is the first of its frame.
PathCall ==
    /\ path.calls < IF gl.draws = 0 THEN MaxPathCalls ELSE 1
    /\ \E vals \in Shapes(path), fails \in BOOLEAN :
         path' = appendCommands(path, vals, fails)

(***************************************************************************)
(* Images of the program                                                   *)
(***************************************************************************)
Images == {i \in DOMAIN gl.textures : gl.textures[i].id # 0
                                      /\ ~gl.textures[i].alpha}

\* nvgCreateImage, nvgCreateImageMem, nvgCreateImageRGBA
nvgCreateImageRGBA ==
    /\ gl.textureId < MaxTextureId
    /\ Cardinality(Images) < MaxImages
    /\ gl' = renderCreateTexture(gl, 1, 1, FALSE)

nvgDeleteImage ==
    \E i \in Images : gl' = renderDeleteTexture(gl, gl.textures[i].id)

(***************************************************************************)
(* Frames                                                                  *)
(***************************************************************************)
\* The font images stay as the cancelled frame left them.
nvgCancelFrame == gl' = renderCancel(gl)

SizeOf(g, image) == CHOOSE s \in renderGetTextureSize(g, image, AnySize) : TRUE

\* The font images before the current one: those that are smaller in one
\* direction go, the others move up.
Smaller(g, image) ==
    LET cur == SizeOf(g, FontImage)
    IN \/ SizeOf(g, image)[1] < cur[1]
       \/ SizeOf(g, image)[2] < cur[2]

EarlierImages ==
    SelectSeq([i \in 1..fontImageIdx |-> fontImages[i - 1]],
              LAMBDA image : image # 0)

\* Faulty: the current image takes the first place and the one there is lost.
Rearranged_overwrites(kept) ==
    LET j == Len(kept)
        moved == [i \in DOMAIN fontImages |->
                    IF i < j THEN kept[i + 1]
                    ELSE IF i <= fontImageIdx THEN 0
                    ELSE fontImages[i]]
    IN [moved EXCEPT ![0] = FontImage]

\* The kept images and the current one in their new places; what is beyond
\* the current one is not touched.
Rearranged(kept) ==
    LET j == Len(kept)
        moved == [i \in DOMAIN fontImages |->
                    IF i < j THEN kept[i + 1]
                    ELSE IF i <= fontImageIdx THEN 0
                    ELSE fontImages[i]]
    IN [moved EXCEPT ![j] = moved[0], ![0] = FontImage]

\* nvgEndFrame: everything is drawn; if text went on to later pages, the last
\* one becomes the first.  A page without a texture ends it early.
nvgEndFrame ==
    LET flushed == renderFlush(gl)
    IN IF fontImageIdx = 0 \/ FontImage = 0
       THEN gl' = flushed /\ UNCHANGED <<fontImages, fontImageIdx>>
       ELSE LET kept == SelectSeq(EarlierImages,
                                  LAMBDA image : ~Smaller(flushed, image))
                gone == SelectSeq(EarlierImages,
                                  LAMBDA image : Smaller(flushed, image))
            IN /\ gl' = FoldLeft(renderDeleteTexture, flushed, gone)
               /\ fontImages' = Rearranged(kept)
               /\ fontImageIdx' = 0

(***************************************************************************)
(* The context and the program                                             *)
(***************************************************************************)
\* nvgCreateInternal: the renderer with its texture, the stash, and the first
\* font image.
Init ==
    LET created == renderCreateTexture(renderCreate, InitSize, InitSize, TRUE)
    IN /\ gl = created
       /\ fs = fonsCreate(InitSize, InitSize)
       /\ fontImages = [i \in 0..MaxFontImages - 1 |->
                          IF i = 0 THEN created.textureId ELSE 0]
       /\ fontImageIdx = 0
       /\ text = Idle
       /\ path = [commands |-> <<>>, paths |-> <<>>, cverts |-> 0,
                  written |-> 0, calls |-> 0]
       /\ \/ /\ client \in {"shapes", "text", "glyphs"} \cup Decoders
             /\ lay = LayoutInit(<<>>, 0)
          \/ client = "layout" /\ \E str \in Texts, width \in RowWidths :
                                    lay = LayoutInit(str, width)
       /\ ImageInit(client)

DrawShapes ==
    /\ client = "shapes"
    /\ \/ path' = nvgBeginPath(path) /\ UNCHANGED gl
       \/ PathCall /\ UNCHANGED gl
       \/ /\ gl.draws < MaxDraws
          /\ Len(gl.verts) <= MaxQueued
          /\ \E lost \in CacheFailure :
               \/ \E fringe \in Fringes : nvgFill(fringe, lost)
               \/ \E join \in LineJoins, cap \in LineCaps :
                    nvgStroke(join, cap, lost)
       \/ nvgCancelFrame /\ UNCHANGED path
    /\ UNCHANGED <<fs, fontImages, fontImageIdx, text, lay, imageVars, client>>

DrawText ==
    /\ client = "text"
    /\ \/ \E str \in Strings : TextBegin("draw", str, FALSE)
       \/ \E kind \in {"draw", "positions"}, g \in Glyph :
            TextBegin(kind, <<g>>, TRUE)
       \/ \E kind \in {"positions", "bounds"}, g \in Glyph :
            TextBegin(kind, <<g>>, FALSE)
       \/ TextGlyph
       \/ TextSkip
       \/ \E fail \in Failure \ {"paths"} :
            TextPage(fail) \/ TextFull(fail) \/ TextEnd(fail)
       \/ /\ text.kind = "none"
          /\ \/ nvgCreateImageRGBA /\ UNCHANGED <<fontImages, fontImageIdx>>
             \/ nvgDeleteImage /\ UNCHANGED <<fontImages, fontImageIdx>>
             \/ nvgCancelFrame /\ UNCHANGED <<fontImages, fontImageIdx>>
             \/ nvgEndFrame
          /\ UNCHANGED <<fs, text>>
    /\ UNCHANGED <<path, lay, imageVars, client>>

\* The stash alone, with more glyphs: they are looked up with and without their
\* bitmaps, and the atlas is reset to the next page's size.
PackGlyphs ==
    /\ client = "glyphs"
    /\ \/ \E g \in PackGlyph, optional \in BOOLEAN :
            \E r \in getGlyph(fs, g, FALSE, optional) : fs' = r.fs
       \/ LET size == GrownSize(<<fs.atlas.width, fs.atlas.height>>)
          IN fs' = fonsResetAtlas(fs, size[1], size[2])
    /\ UNCHANGED <<gl, fontImages, fontImageIdx, text, path, lay, imageVars, client>>

LayOut ==
    /\ client = "layout"
    /\ LayoutGlyph \/ LayoutEnd
    /\ UNCHANGED <<textVars, path, imageVars, client>>

\* The loader of nvgCreateImage, for itself.
LoadImage ==
    /\ ImageNext(client)
    /\ UNCHANGED <<textVars, path, lay, client>>

\* A text that is laid out and an image that is loaded end a behaviour.
Rest ==
    /\ (client = "layout" /\ lay.done) \/ ImageDone(client)
    /\ UNCHANGED vars

Next == DrawShapes \/ DrawText \/ PackGlyphs \/ LayOut \/ LoadImage \/ Rest

Spec == Init /\ [][Next]_vars

(***************************************************************************)
(* Properties                                                              *)
(***************************************************************************)
TypeOK ==
    /\ fontImages \in [0..MaxFontImages - 1 -> 0..MaxTextureId]
    /\ fontImageIdx \in 0..MaxFontImages - 1
    /\ \A i \in DOMAIN gl.textures : gl.textures[i].id \in 0..gl.textureId

\* What nvg__expandFill and nvg__expandStroke write for all paths fits into
\* the buffer whose size they estimated before (nothing checks it later).
\* Except: a path whose only point was lost to a failed realloc may end with
\* the count -1; it is estimated at nothing and its outline is two vertices.
VerticesFit ==
    path.written <= path.cverts
                    + 2 * Quantify(DOMAIN path.paths,
                                   LAMBDA i : path.paths[i].count < 0)

\* A queued draw call reads only paths, vertices and uniform blocks that were
\* written for it, although calls before it may have failed half way and the
\* arrays may have moved.
DrawsOwnData ==
    \A i \in DOMAIN gl.calls :
        LET call == gl.calls[i]
            read == Reads(gl, call)
        IN /\ \A p \in CallPaths(gl, call) : p.draw = call.draw
           /\ \A v \in read.verts :
                v \in DOMAIN gl.verts /\ gl.verts[v] = call.draw
           /\ \A u \in read.uniforms :
                u \in DOMAIN gl.uniforms /\ gl.uniforms[u] = call.draw

\* Once a text function has returned, every glyph of every queued text is in
\* the texture that will be bound for it, at the place its quad names, however
\* often the atlas was reset and its pages reused in between.  Except: a page
\* whose texture could not be created has the image 0, and what is drawn from
\* it is bound to the dummy texture and shows no glyph.  A text is queued so
\* only if the creation has failed for the current page or one before it.
TextShowsItsGlyphs ==
    text.kind = "none" =>
        \A i \in DOMAIN gl.calls :
            LET call == gl.calls[i]
            IN \A k \in DOMAIN call.quads :
                 \/ call.quads[k] \in BoundTexture(gl, call).data
                 \/ /\ call.image = 0
                    /\ \E page \in 0..fontImageIdx : fontImages[page] = 0

\* The font images are distinct, live alpha textures, and no alpha texture but
\* the dummy one is forgotten by the context.
FontImagesAccounted ==
    LET used == {i \in DOMAIN fontImages : fontImages[i] # 0}
        live == {t \in 2..Len(gl.textures) :
                   gl.textures[t].id # 0 /\ gl.textures[t].alpha}
    IN /\ \A i, j \in used : fontImages[i] = fontImages[j] => i = j
       /\ {fontImages[i] : i \in used} = {gl.textures[t].id : t \in live}

\* Bitmaps in the atlas lie inside it and never on one another, and a cached
\* glyph with a place has its bitmap there.
AtlasSound ==
    /\ \A b \in fs.texData :
         Inside(b, <<0, 0, fs.atlas.width, fs.atlas.height>>)
    /\ \A a, b \in fs.texData :
         a # b => ~Overlaps(a, <<b.x, b.y, b.x + Box[b.g].w, b.y + Box[b.g].h>>)
    /\ \A c \in fs.glyphs : c.x # NoPlace => c \in fs.texData

\* nvgTextBox gets through its text however narrow the box is: every row leads
\* further than the one before it, and in the end each visible character is in
\* exactly one row.
LayoutCoversText ==
    /\ \A r \in DOMAIN lay.rows :
         lay.rows[r].next > IF r = 1 THEN 1 ELSE lay.rows[r - 1].next
    /\ lay.done =>
         \A i \in DOMAIN lay.str :
            lay.str[i] \in {"char", "wide", "cjk"} =>
                Cardinality({r \in DOMAIN lay.rows :
                               lay.rows[r].start <= i /\ i < lay.rows[r].end}) = 1
=============================================================================
