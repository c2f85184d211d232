------------------------------- MODULE NvgGl -------------------------------
(***************************************************************************)
(* The OpenGL back end of nanovg (nanovg_gl.h).  A frame's draw calls are  *)
(* queued in arrays that grow on demand, calls naming ranges of paths,     *)
(* vertices and uniforms; a flush walks them.  The arrays hold, for each   *)
(* element, the draw that wrote it (0: allocated and never written).  Any  *)
(* growth may fail.  Textures live in slots; a deleted slot has the id 0.  *)
(***************************************************************************)
EXTENDS Integers, Sequences, SequencesExt, FiniteSetsExt

CONSTANT Flags         \* subset of {"antialias", "stencil_strokes"}

VARIABLE gl            \* GLNVGcontext

Unwritten == 0

\* The arrays a draw grows, in order; one of them may fail to grow.
Failure == {"none", "call", "paths", "verts", "uniforms"}

(***************************************************************************)
(* Textures                                                                *)
(***************************************************************************)
\* glnvg__findTexture: the first slot with this id.  0 is found in the slot of
\* a deleted texture.
findTexture(g, id) ==
    LET slots == {i \in DOMAIN g.textures : g.textures[i].id = id}
    IN IF slots = {} THEN 0 ELSE Min(slots)

\* glnvg__allocTexture, glnvg__renderCreateTexture: a new texture in the first
\* free slot.  Its id, g.textureId afterwards, was never used before.
renderCreateTexture(g, w, h, alpha) ==
    LET id   == g.textureId + 1
        slot == findTexture(g, 0)
        tex  == [id |-> id, w |-> w, h |-> h, alpha |-> alpha, data |-> {}]
    IN [g EXCEPT !.textureId = id,
                 !.textures = IF slot = 0 THEN Append(@, tex)
                              ELSE [@ EXCEPT ![slot] = tex]]

NoTexture == [id |-> 0, w |-> 0, h |-> 0, alpha |-> FALSE, data |-> {}]

\* glnvg__deleteTexture
renderDeleteTexture(g, id) ==
    LET slot == findTexture(g, id)
    IN IF slot = 0 THEN g
       ELSE [g EXCEPT !.textures[slot] = NoTexture]

\* What renderGetTextureSize may leave in the caller's variables: the size, or
\* what was there before (anything) when the texture is not found.
renderGetTextureSize(g, id, anything) ==
    LET slot == findTexture(g, id)
    IN IF slot = 0 THEN anything
       ELSE {<<g.textures[slot].w, g.textures[slot].h>>}

\* glnvg__renderCreate: no draws, and the texture that is bound when a call
\* has none.
renderCreate ==
    renderCreateTexture(
        [textures |-> <<>>, textureId |-> 0,
         calls |-> <<>>, paths |-> <<>>, verts |-> <<>>, uniforms |-> <<>>,
         draws |-> 0], 1, 1, TRUE)

(***************************************************************************)
(* Queueing                                                                *)
(***************************************************************************)
\* glnvg__allocPaths, glnvg__allocVerts, glnvg__allocFragUniforms
Grown(seq, n) == seq \o [i \in 1..n |-> Unwritten]

\* The elements of a range that starts after the first `off` ones.
Range0(off, n) == (off + 1)..(off + n)

Written(seq, off, n, draw) ==
    [i \in DOMAIN seq |-> IF i \in Range0(off, n) THEN draw ELSE seq[i]]

\* Faulty: the vertices of the outlines are forgotten.
maxVertCount_fillOnly(paths) ==
    FoldLeft(LAMBDA n, p : n + p.nfill, 0, paths)

maxVertCount(paths) ==
    FoldLeft(LAMBDA n, p : n + p.nfill + p.nstroke, 0, paths)

\* The copies a fill (or a stroke, which skips the fill part) makes of the
\* paths' vertices: where each one's vertices are from `offset` on.
CopiedPaths(paths, offset, withFill, draw) ==
    LET size(p)  == (IF withFill THEN p.nfill ELSE 0) + p.nstroke
        start(i) == FoldLeft(LAMBDA n, p : n + size(p), offset,
                             SubSeq(paths, 1, i - 1))
        fills(i) == IF withFill THEN paths[i].nfill ELSE 0
    IN [i \in DOMAIN paths |->
          [draw |-> draw,
           fillOffset |-> start(i), fillCount |-> fills(i),
           strokeOffset |-> start(i) + fills(i),
           strokeCount |-> paths[i].nstroke]]

\* A draw of paths: the arrays as far as the allocations succeeded, and the
\* call unless it was rolled back (ncalls--).
QueuePaths(g, type, image, paths, nquad, nuniform, fail) ==
    LET draw   == g.draws + 1
        tried  == [g EXCEPT !.draws = draw]
        fills  == type # "stroke"
        offset == Len(g.verts)
        copied == CopiedPaths(paths, offset, fills, draw)
        used   == IF fills THEN maxVertCount(paths)
                  ELSE FoldLeft(LAMBDA n, p : n + p.nstroke, 0, paths)
        verts  == Written(Grown(g.verts, maxVertCount(paths) + nquad),
                          offset, used + nquad, draw)
        call   == [draw |-> draw, type |-> type, image |-> image,
                   pathOffset |-> Len(g.paths), pathCount |-> Len(paths),
                   triangleOffset |-> offset + used, triangleCount |-> nquad,
                   uniformOffset |-> Len(g.uniforms), quads |-> <<>>]
        unset  == [i \in DOMAIN paths |->
                     [draw |-> Unwritten, fillOffset |-> 0, fillCount |-> 0,
                      strokeOffset |-> 0, strokeCount |-> 0]]
    IN CASE fail \in {"call", "paths"} -> tried
         [] fail = "verts"    -> [tried EXCEPT !.paths = @ \o unset]
         [] fail = "uniforms" -> [tried EXCEPT !.paths = @ \o copied,
                                               !.verts = verts]
         [] OTHER -> [tried EXCEPT
                        !.paths = @ \o copied, !.verts = verts,
                        !.uniforms = Written(Grown(@, nuniform), Len(@),
                                             nuniform, draw),
                        !.calls = Append(@, call)]

\* glnvg__renderFill: a single convex path needs no stencil, no bounding quad
\* and one uniform block; everything else a quad and two blocks.
renderFill(g, image, paths, fail) ==
    IF Len(paths) = 1 /\ paths[1].convex
    THEN QueuePaths(g, "convexfill", image, paths, 0, 1, fail)
    ELSE QueuePaths(g, "fill", image, paths, 4, 2, fail)

renderStroke(g, image, paths, fail) ==
    QueuePaths(g, "stroke", image, paths, 0,
               IF "stencil_strokes" \in Flags THEN 2 ELSE 1, fail)

\* glnvg__renderTriangles: six vertices for each glyph of a text.
renderTriangles(g, image, quads, fail) ==
    LET draw   == g.draws + 1
        tried  == [g EXCEPT !.draws = draw]
        n      == 6 * Len(quads)
        verts  == Written(Grown(g.verts, n), Len(g.verts), n, draw)
        call   == [draw |-> draw, type |-> "triangles", image |-> image,
                   pathOffset |-> 0, pathCount |-> 0,
                   triangleOffset |-> Len(g.verts), triangleCount |-> n,
                   uniformOffset |-> Len(g.uniforms), quads |-> quads]
    IN CASE fail \in {"call", "verts"} -> tried
         [] fail = "uniforms" -> [tried EXCEPT !.verts = verts]
         [] OTHER -> [tried EXCEPT
                        !.verts = verts,
                        !.uniforms = Written(Grown(@, 1), Len(@), 1, draw),
                        !.calls = Append(@, call)]

(***************************************************************************)
(* Flushing                                                                *)
(***************************************************************************)
\* The vertices and the uniform blocks that a call makes the GPU read.
CallPaths(g, call) ==
    {g.paths[i] : i \in Range0(call.pathOffset, call.pathCount)}

FillVerts(g, call) ==
    UNION {Range0(p.fillOffset, p.fillCount) : p \in CallPaths(g, call)}

StrokeVerts(g, call) ==
    UNION {Range0(p.strokeOffset, p.strokeCount) : p \in CallPaths(g, call)}

TriangleVerts(call) == Range0(call.triangleOffset, call.triangleCount)

\* glnvg__fill: stencil pass, fringes, then the bounding quad.
fill(g, call) ==
    [verts |-> FillVerts(g, call) \cup TriangleVerts(call)
                 \cup (IF "antialias" \in Flags THEN StrokeVerts(g, call)
                       ELSE {}),
     uniforms |-> Range0(call.uniformOffset, 2)]

convexFill(g, call) ==
    [verts |-> FillVerts(g, call) \cup StrokeVerts(g, call),
     uniforms |-> Range0(call.uniformOffset, 1)]

\* glnvg__stroke
stroke(g, call) ==
    [verts |-> StrokeVerts(g, call),
     uniforms |-> Range0(call.uniformOffset,
                         IF "stencil_strokes" \in Flags THEN 2 ELSE 1)]

triangles(g, call) ==
    [verts |-> TriangleVerts(call),
     uniforms |-> Range0(call.uniformOffset, 1)]

Reads(g, call) ==
    CASE call.type = "fill"       -> fill(g, call)
      [] call.type = "convexfill" -> convexFill(g, call)
      [] call.type = "stroke"     -> stroke(g, call)
      [] call.type = "triangles"  -> triangles(g, call)

\* glnvg__setUniforms: the texture bound for a call, the dummy one (slot 1)
\* when the call has none or it was deleted.
BoundTexture(g, call) ==
    IF call.image # 0 /\ findTexture(g, call.image) # 0
    THEN g.textures[findTexture(g, call.image)]
    ELSE g.textures[1]

renderCancel(g) ==
    [g EXCEPT !.calls = <<>>, !.paths = <<>>, !.verts = <<>>,
              !.uniforms = <<>>, !.draws = 0]

\* glnvg__renderFlush empties the arrays as a cancel does, after drawing.
renderFlush(g) == renderCancel(g)
=============================================================================
