------------------------------- MODULE MCNvg -------------------------------
(***************************************************************************)
(* A context with a first font image of 2 by 2 cells, three pages and      *)
(* a glyph that the first page has no room for.                            *)
(***************************************************************************)
EXTENDS Nvg

CONSTANTS dot, block, comma, dash, bar, white

MCGlyph == {dot, block}

MCPackGlyph == {dot, comma, dash, bar}

MCBox == [g \in MCGlyph \cup MCPackGlyph \cup {white} |->
            CASE g = block -> [w |-> 3, h |-> 2]
              [] g = dash  -> [w |-> 2, h |-> 1]
              [] g = bar   -> [w |-> 1, h |-> 2]
              [] OTHER     -> [w |-> 1, h |-> 1]]

MCCanvases == {<<1, 5>>, <<2, 5>>}

MCOffsets == {<<0, 0>>, <<1, 1>>}

\* The whole rest of the picture, or a column and a line less: none at all, if it
\* begins in the last one.
MCShortfalls == {<<0, 0>>, <<1, 1>>}

MCAnySize == {<<0, 0>>, <<2, 2>>}
=============================================================================
