----------------------------- MODULE FontStash -----------------------------
(***************************************************************************)
(* The glyph cache of fontstash.h as nanovg uses it: no renderer and no    *)
(* error callback of its own.  A glyph stands for a code point at a size   *)
(* and a blur in a font; its box is its bitmap with the padding.  The      *)
(* texture data is the set of the bitmaps that were rasterised since the   *)
(* last reset, each at its place.                                          *)
(*                                                                         *)
(* The places come from the skyline packer, FONSatlas.  An atlas is a      *)
(* width, a height and the skyline: the nodes, from left to right, each a  *)
(* stretch of the width with the height up to which it is taken.           *)
(***************************************************************************)
EXTENDS Integers, Sequences, SequencesExt, FiniteSetsExt

CONSTANTS Glyph,       \* glyphs a text is made of
          Box,         \* [glyph or White -> [w, h]], size of a bitmap
          White        \* the white square of every fresh atlas

VARIABLE fs            \* [atlas, glyphs, texData, dirty], a FONScontext

----------------------------------------------------------------------------
(* The skyline packer. *)

Right(node) == node.x + node.width

\* fons__allocAtlas, fons__atlasReset: one node over the whole width.
atlasReset(w, h) ==
    [width |-> w, height |-> h,
     nodes |-> <<[x |-> 0, y |-> 0, width |-> w]>>]

\* A rectangle that is rested on its first node only.
atlasRectFits_first(atlas, i, w, h) ==
    LET x == atlas.nodes[i].x
        y == atlas.nodes[i].y
    IN IF x + w > atlas.width \/ y + h > atlas.height THEN -1 ELSE y

\* The height at which a rectangle dropped at node i comes to rest on the
\* nodes below it, or -1 when it would leave the atlas.
atlasRectFits(atlas, i, w, h) ==
    LET x == atlas.nodes[i].x
        y == Max({atlas.nodes[j].y :
                    j \in {k \in i..Len(atlas.nodes) :
                             k = i \/ atlas.nodes[k].x < x + w}})
    IN IF x + w > atlas.width \/ y + h > atlas.height THEN -1 ELSE y

\* fons__atlasInsertNode, fons__atlasRemoveNode: the new node replaces what
\* falls into its shadow, and neighbours of the same height become one node.
atlasAddSkylineLevel(atlas, idx, x, y, w, h) ==
    LET new     == [x |-> x, y |-> y + h, width |-> w]
        before  == SubSeq(atlas.nodes, 1, idx - 1)
        shadow(n) == LET l == Max({n.x, x + w})
                     IN [n EXCEPT !.x = l, !.width = Right(n) - l]
        after   == [i \in 1..Len(atlas.nodes) - idx + 1 |->
                        shadow(atlas.nodes[idx + i - 1])]
        merge(ns, n) ==
            IF ns # <<>> /\ Last(ns).y = n.y
            THEN [ns EXCEPT ![Len(ns)].width = @ + n.width]
            ELSE Append(ns, n)
    IN [atlas EXCEPT !.nodes =
            FoldLeft(merge, <<>>,
                     Append(before, new)
                        \o SelectSeq(after, LAMBDA n : n.width > 0))]

\* The nodes where the rectangle fits and its top is lowest (the first of the
\* narrowest ones on a tie); an empty set when it fits nowhere.  As the search
\* starts from the atlas's own size, a rectangle that would reach the top of
\* the atlas is only put on a node narrower than the atlas.
BestNodes(atlas, w, h) ==
    LET top(i)  == atlasRectFits(atlas, i, w, h) + h
        fits    == {i \in DOMAIN atlas.nodes :
                      /\ atlasRectFits(atlas, i, w, h) # -1
                      /\ \/ top(i) < atlas.height
                         \/ atlas.nodes[i].width < atlas.width}
        wide(i) == atlas.nodes[i].width
    IN {i \in fits : \A j \in fits \ {i} :
            \/ top(i) < top(j)
            \/ top(i) = top(j) /\ wide(i) < wide(j)
            \/ top(i) = top(j) /\ wide(i) = wide(j) /\ i < j}

\* fons__atlasAddRect: where the rectangle goes, and the atlas after it; the
\* set is empty when the atlas is full.
atlasAddRect(atlas, w, h) ==
    {LET x == atlas.nodes[i].x
         y == atlasRectFits(atlas, i, w, h)
     IN [x |-> x, y |-> y,
         atlas |-> atlasAddSkylineLevel(atlas, i, x, y, w, h)] :
        i \in BestNodes(atlas, w, h)}

----------------------------------------------------------------------------
(* The glyph cache. *)

NoDirt(w, h) == <<w, h, 0, 0>>

\* The dirty rectangle grown by a bitmap at (x, y).
Dirtied(dirty, g, x, y) ==
    <<Min({dirty[1], x}), Min({dirty[2], y}),
      Max({dirty[3], x + Box[g].w}), Max({dirty[4], y + Box[g].h})>>

IsDirty(s) == s.dirty[1] < s.dirty[3] /\ s.dirty[2] < s.dirty[4]

\* fons__getGlyph, from "Rasterize" on: the bitmap of g is drawn at p.
Rasterized(s, g, p) ==
    [s EXCEPT !.atlas = p.atlas,
              !.texData = @ \cup {[g |-> g, x |-> p.x, y |-> p.y]},
              !.dirty = Dirtied(@, g, p.x, p.y)]

\* An empty atlas of the given size with the white square in it
\* (fons__addWhiteRect), and no glyph cached.
fonsResetAtlas(s, w, h) ==
    LET empty  == [atlas |-> atlasReset(w, h), glyphs |-> {},
                   texData |-> {}, dirty |-> NoDirt(w, h)]
        places == atlasAddRect(empty.atlas, Box[White].w, Box[White].h)
    IN IF places = {} THEN empty
       ELSE Rasterized(empty, White, CHOOSE p \in places : TRUE)

\* fonsCreateInternal
fonsCreate(w, h) == fonsResetAtlas(<<>>, w, h)

Cached(s, g) == {c \in s.glyphs : c.g = g}

\* A glyph whose bitmap is not required, or was not drawn yet, is cached with
\* negative coordinates.
NoPlace == -1

\* fons__getGlyph: the stash and the cached glyph after a look-up of g; an
\* empty set when there is none (the size is below 0.2 pixels, or the bitmap
\* is required and the atlas is full).
getGlyph(s, g, tiny, optional) ==
    LET known == {c \in Cached(s, g) : optional \/ c.x # NoPlace}
        put(t, x, y) ==
            LET c == [g |-> g, x |-> x, y |-> y]
            IN [fs |-> [t EXCEPT !.glyphs = (@ \ Cached(s, g)) \cup {c}],
                glyph |-> c]
    IN IF tiny THEN {}
       ELSE IF known # {} THEN {[fs |-> s, glyph |-> c] : c \in known}
       ELSE IF optional THEN {put(s, NoPlace, NoPlace)}
       ELSE {put(Rasterized(s, g, p), p.x, p.y) :
                p \in atlasAddRect(s.atlas, Box[g].w, Box[g].h)}

\* fonsValidateTexture: the caller takes the dirty rectangle over.
fonsValidateTexture(s) ==
    [s EXCEPT !.dirty = NoDirt(s.atlas.width, s.atlas.height)]
=============================================================================
