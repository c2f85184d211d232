------------------------------ MODULE NvgPath ------------------------------
(***************************************************************************)
(* Paths of nanovg.c: commands are recorded, flattened once into points,   *)
(* and expanded by every fill and stroke into vertices of a buffer whose   *)
(* size is estimated beforehand.  A flattened path keeps how many points   *)
(* it has and how many of them are corners; what depends on coordinates    *)
(* (points that coincide, curves, turns, joins) is left open.              *)
(***************************************************************************)
EXTENDS NvgGl

CONSTANTS MaxPathCalls,  \* path calls between two nvgBeginPath
          MaxPoints,     \* points of the flattened paths
          MaxTess,       \* points a curve is flattened into
          ncap           \* divisions of a half circle, nvg__curveDivs

VARIABLE path            \* [commands, paths, cverts, written, calls]; commands
                         \* are those that were not flattened yet

ASSUME CurveDivsAssumption == ncap \in Nat /\ ncap >= 2

(***************************************************************************)
(* Commands                                                                *)
(***************************************************************************)
nvgBeginPath(p) ==
    [p EXCEPT !.commands = <<>>, !.paths = <<>>, !.calls = 0,
              !.cverts = 0, !.written = 0]

Repeat(cmd, n) == [i \in 1..n |-> cmd]

\* nvgArc splits an arc into 1 to 5 curves and joins them to what is there;
\* nvgArcTo is a line, an arc, or nothing on an empty path.
Arcs(p) ==
    {<<IF p.commands = <<>> THEN "moveto" ELSE "lineto">>
        \o Repeat("bezierto", n) : n \in {1, 5}}

\* What one call appends: nvgMoveTo, nvgLineTo, nvgBezierTo and nvgQuadTo,
\* nvgClosePath, nvgPathWinding, nvgArc and nvgArcTo, nvgRect, nvgRoundedRect
\* and nvgRoundedRectVarying, nvgEllipse and nvgCircle.
Shapes(p) ==
    {<<"moveto">>, <<"lineto">>, <<"bezierto">>, <<"close">>, <<"winding">>,
     <<"moveto", "lineto", "lineto", "lineto", "close">>,
     <<"moveto", "lineto", "bezierto", "lineto", "bezierto", "lineto",
       "bezierto", "lineto", "bezierto", "close">>,
     <<"moveto", "bezierto", "bezierto", "bezierto", "bezierto", "close">>}
    \cup Arcs(p)

\* nvg__appendCommands: lost as a whole when the buffer cannot grow, and in
\* effect also when the path was flattened before.
appendCommands(p, vals, fails) ==
    [p EXCEPT !.commands = IF fails \/ p.paths # <<>> THEN @ ELSE @ \o vals,
              !.calls = @ + 1]

(***************************************************************************)
(* Flattening                                                              *)
(***************************************************************************)
\* nvg__addPath
NewPath == [count |-> 0, corners |-> 0, closed |-> FALSE,
            nfill |-> 0, nstroke |-> 0, convex |-> FALSE]

\* nvg__addPoint on a path q: a new point, or the previous one again, which
\* becomes a corner if the new one is.
addPoint(q, corner) ==
    {[q EXCEPT !.count = @ + 1, !.corners = @ + corner]}
    \cup (IF q.count = 0 THEN {}
          ELSE {[q EXCEPT !.corners = c] :
                  c \in q.corners..Min({q.count, q.corners + corner})})

\* nvg__tesselateBezier: points inside the curve, then its end, a corner,
\* unless the subdivision went too deep.
tesselateBezier(q) ==
    LET inner == {[q EXCEPT !.count = @ + n] : n \in 0..MaxTess - 1}
    IN inner \cup UNION {addPoint(r, 1) : r \in inner}

\* The sequences of paths after one more command.  If growing the arrays fails,
\* nvg__addPath leaves the last path to go on and nvg__addPoint leaves the point
\* out (as if it had been merged, unless it is the first of its path).  The
\* arrays begin with room: the first path gets its point.
FlattenCommand(ps, cmd, fails) ==
    LET points  == FoldLeft(LAMBDA n, q : n + q.count, 0, ps)
        lost    == fails /\ points > 0
        last(S) == {Append(Front(ps), q) :
                      q \in {r \in S : points + r.count - Last(ps).count
                                       <= MaxPoints}}
    IN CASE cmd = "moveto" -> {Append(ps, q) :
                                 q \in {r \in addPoint(NewPath, 1) :
                                          points < MaxPoints}}
                               \cup (IF lost
                                     THEN {Append(ps, NewPath)}
                                          \cup last(addPoint(Last(ps), 1))
                                     ELSE {})
         [] ps = <<>>        -> {ps}
         [] cmd = "lineto"   -> last(addPoint(Last(ps), 1))
                               \cup (IF lost THEN {ps} ELSE {})
         [] cmd = "bezierto" -> last(tesselateBezier(Last(ps)))
         [] cmd = "close"    -> last({[Last(ps) EXCEPT !.closed = TRUE]})
         [] OTHER            -> {ps}

\* A path that ends where it began loses its last point and is closed.  One
\* point always does; two points never, they would have been merged.  A path
\* without a point compares what lies around its place, and may end with -1.
Closings(q) ==
    LET shut == {[q EXCEPT !.count = @ - 1, !.corners = c, !.closed = TRUE] :
                   c \in {q.corners - 1, q.corners} \cap 0..q.count - 1}
    IN IF q.count = 0 THEN {q, [q EXCEPT !.count = -1, !.closed = TRUE]}
       ELSE IF q.count = 1 THEN shut
       ELSE IF q.count = 2 THEN {q}
       ELSE {q} \cup shut

\* nvg__flattenPaths: what the paths may be; they are kept until the next
\* nvgBeginPath, so later commands do not show.
flattenPaths(p, fails) ==
    IF p.paths # <<>> THEN {p.paths}
    ELSE LET flat == FoldLeft(LAMBDA S, cmd :
                                UNION {FlattenCommand(ps, cmd, fails) : ps \in S},
                              {<<>>}, p.commands)
         IN UNION {{ps \in [DOMAIN fs0 -> UNION {Closings(fs0[i]) :
                                                 i \in DOMAIN fs0}] :
                      \A i \in DOMAIN fs0 : ps[i] \in Closings(fs0[i])} :
                   fs0 \in flat}

(***************************************************************************)
(* Expansion.  A join is a bevel (PT_BEVEL), an inner bevel only           *)
(* (PR_INNERBEVEL), or neither.                                            *)
(***************************************************************************)
\* The points that a loop to a count of n visits.
Visited(n) == Max({0, n})

\* nvg__calculateJoins: only corners are bevelled, and all of them unless the
\* joins are mitered; `right` counts the bevels of right turns.
Joins(q, lineJoin) ==
    {j \in [bevel : 0..q.corners, inner : 0..Visited(q.count), right : 0..q.corners] :
        /\ lineJoin # "miter" => j.bevel = q.corners
        /\ j.bevel + j.inner <= Visited(q.count)
        /\ j.right <= j.bevel}

nbevel(j) == j.bevel + j.inner

\* nvg__roundJoin and nvg__bevelJoin: the fewest and the most vertices of the
\* joins j of n points, and nothing in between.
JoinVerts(j, lineJoin, n) ==
    LET plain == 2 * (Visited(n) - nbevel(j))
    IN IF lineJoin = "round"
       THEN {plain + nbevel(j) * (4 + 2 * d) : d \in {2, ncap}}
       ELSE {plain + 8 * j.bevel + 10 * j.inner}

\* Faulty: one vertex pair too few for a round join.
StrokeBudget_short(q, j, lineJoin, lineCap) ==
    (q.count + nbevel(j) * (IF lineJoin = "round" THEN ncap ELSE 5) + 1) * 2
    + (IF q.closed THEN 0
       ELSE IF lineCap = "round" THEN (ncap * 2 + 2) * 2 ELSE 12)

\* nvg__expandStroke, "Calculate max vertex usage".
StrokeBudget(q, j, lineJoin, lineCap) ==
    (q.count + nbevel(j) * (IF lineJoin = "round" THEN ncap + 2 ELSE 5) + 1) * 2
    + (IF q.closed THEN 0
       ELSE IF lineCap = "round" THEN (ncap * 2 + 2) * 2 ELSE 12)

\* nvg__buttCapStart and End, nvg__roundCapStart and End.
CapVerts(lineCap) == IF lineCap = "round" THEN 2 * (ncap * 2 + 2) ELSE 8

\* The joins of an open path's inner points: those of the two ends, which are
\* counted in the budget, are not drawn.
InnerJoins(q, j) ==
    {i \in [bevel : 0..j.bevel, inner : 0..j.inner, right : {0}] :
        /\ nbevel(i) <= Visited(q.count - 2)
        /\ nbevel(j) - nbevel(i) <= 2}

\* nvg__expandStroke: a path with its outline, and the vertices asked for.
expandStroke(q, lineJoin, lineCap) ==
    UNION {{[path |-> [q EXCEPT !.nfill = 0, !.nstroke = n],
             budget |-> StrokeBudget(q, j, lineJoin, lineCap)] :
              n \in IF q.closed
                    THEN {v + 2 : v \in JoinVerts(j, lineJoin, q.count)}
                    ELSE UNION {{v + CapVerts(lineCap) :
                                   v \in JoinVerts(i, lineJoin, q.count - 2)} :
                                i \in InnerJoins(q, j)}} :
           j \in Joins(q, lineJoin)}

\* nvg__expandFill: the shape, and with antialiasing its fringe.
expandFill(q, fringe) ==
    {[path |-> [q EXCEPT
                 !.nfill = Visited(q.count) + (IF fringe THEN j.right ELSE 0),
                 !.nstroke = IF fringe
                             THEN (CHOOSE v \in JoinVerts(j, "miter", q.count) :
                                     TRUE) + 2
                             ELSE 0,
                 !.convex = convex],
      budget |-> q.count + nbevel(j) + 1
                 + (IF fringe THEN (q.count + nbevel(j) * 5 + 1) * 2 ELSE 0)] :
        <<j, convex>> \in {jc \in Joins(q, "miter") \X BOOLEAN :
                             /\ jc[2] => jc[1].right = 0
                             /\ q.count = 0 => jc[2]
                             /\ q.count < 0 => ~jc[2]}}

\* Every way to expand the paths of a sequence one by one.
Expansions(ps, expand(_)) ==
    FoldLeft(LAMBDA S, q : UNION {{Append(xs, x) : x \in expand(q)} : xs \in S},
             {<<>>}, ps)

Total(xs, f(_)) == FoldLeft(LAMBDA n, x : n + f(x), 0, xs)

\* The path cache after nvg__allocTempVerts made room for the expansion xs.  The
\* rounding of the buffer to 256 vertices is left out: the estimate has to do.
Expanded(p, xs) ==
    [p EXCEPT !.commands = IF xs = <<>> THEN @ ELSE <<>>,
              !.paths = [i \in DOMAIN xs |-> xs[i].path],
              !.cverts = Total(xs, LAMBDA x : x.budget),
              !.written = Total(xs, LAMBDA x : x.path.nfill + x.path.nstroke)]

\* The cache after a fill or a stroke: when the buffer cannot grow, the paths
\* keep the vertices they had, although the joins were calculated.
Expand(p, expand(_), fail) ==
    UNION {IF fail = "expand"
           THEN {[p EXCEPT !.commands = IF ps = <<>> THEN @ ELSE <<>>,
                           !.paths = [i \in DOMAIN ps |->
                                        [ps[i] EXCEPT !.convex = convex]]] :
                   convex \in BOOLEAN}
           ELSE {Expanded(p, xs) : xs \in Expansions(ps, expand)} :
           ps \in flattenPaths(p, fail = "flatten")}
=============================================================================
