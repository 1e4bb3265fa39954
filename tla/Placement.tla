----------------------------- MODULE Placement -----------------------------
(***************************************************************************)
(* The placement search of the computer players (bt-ai's lib.rs): every    *)
(* landing of a piece, the two valuations of the board it leaves, and the  *)
(* landing each player settles for.                                        *)
(*                                                                         *)
(* Arithmetic is exact where the code's is floating point: a rounding that *)
(* would split a tie is not modelled.  Ernie's weights are in units of 50, *)
(* scaled to integers; the strong evaluation's are in millionths.       *)
(***************************************************************************)
EXTENDS Piece

CONSTANT Midline  \* MIDLINE

ASSUME PlacementAssumption == Midline \in Nat

-----------------------------------------------------------------------------
(* Ernie's valuation, lower is better.                                     *)

Penalties == [vp |-> 1, hp |-> 600, chp |-> 200, ohp |-> 140, cvhp |-> 60, lb |-> 100]

\* for_active_weapons: the weights as the weapons on his board retune them.
Retuned(weapons) ==
    LET on(w, factor) == IF w \in weapons THEN factor ELSE 1
        per(w, divisor) == IF w \in weapons THEN divisor ELSE 1 IN
    [Penalties EXCEPT
        !.vp = @ * on("Force", 2) * on("FourByFour", 2) * on("NoDice", 4),
        !.hp = @ * on("Force", 4) * on("FourByFour", 2) * on("Bottle", 2) * on("FallOut", 2),
        !.lb = @ * on("Force", 4) * on("FallOut", 2),
        !.ohp = @ \div per("Bottle", 10),
        !.chp = @ \div per("Bottle", 10)]

\* The row of each column's highest cell, Hgt if the column is empty.
Tops(b) == [x \in Cols |-> Min({y \in Rows : Filled(b, x, y)} \cup {Hgt})]
Holes(b, tops) == {s \in Squares : s[2] > tops[s[1]] /\ ~Filled(b, s[1], s[2])}

\* A hole is open if its row leads, square by square, to a side of the board
\* or under the sky.
OpenHole(b, tops, s) ==
    LET way(x) == \A c \in (IF x < s[1] THEN x .. s[1] - 1 ELSE s[1] + 1 .. x) :
                      ~Filled(b, c, s[2]) IN
    \E x \in Cols \ {s[1]} : way(x) /\ (x \in {0, Wth - 1} \/ tops[x] > s[2])

\* The squares of the steps between neighbours; the ends count twice.
Variance(tops) ==
    LET step(x) == (tops[x] - tops[x - 1]) * (tops[x] - tops[x - 1]) IN
    MapThenSumSet(step, 1 .. Wth - 1) + step(1) + step(Wth - 1)

\* eval_board_with, times Hgt ^ 3 * 2 ^ Hgt.
Eval(b, pen) ==
    LET tops == Tops(b)
        top == Min(Range(tops))
        holes == Holes(b, tops)
        open == Cardinality({s \in holes : OpenHole(b, tops, s)})
        covered(s) == (2 ^ (Hgt + 1 - (s[2] - tops[s[1]]))) * (s[2] - tops[s[1]])
        lines == Cardinality({y \in Rows : FullRow(b, y)})
        bonus == IF lines = 0 THEN 0
                 ELSE IF top < Midline THEN lines * (Hgt - top) ELSE (lines - 4) * top IN
    pen.cvhp * MapThenSumSet(covered, holes) * Hgt ^ 3
    + (2 ^ Hgt) * (Variance(tops) * pen.vp * (Hgt - top) ^ 3
                   + (pen.chp * (Cardinality(holes) - open) + pen.ohp * open) * Hgt ^ 3
                   + pen.hp * (Hgt - top) ^ 2 * Hgt
                   - pen.lb * bonus * Hgt ^ 2)

-----------------------------------------------------------------------------
(* The strong valuation, higher is better.                                 *)

EvalStrong(b, lines) ==
    LET tops == Tops(b)
        step(x) == tops[x] - tops[x - 1]
        bump(x) == IF step(x) < 0 THEN -step(x) ELSE step(x) IN
    760666 * lines - 510066 * MapThenSumSet(LAMBDA x : Hgt - tops[x], Cols)
    - 356630 * Cardinality(Holes(b, tops)) - 184483 * MapThenSumSet(bump, 1 .. Wth - 1)

-----------------------------------------------------------------------------
(* The search.                                                             *)

\* The row a piece comes to rest in when it falls from row y.
Rest(b, p, x, y) == Min({r \in y .. Hgt + BoxSide : ~CanMoveTo(p, b, x, r + 1)})

\* The piece after n turns on a free board.
SpunTimes(p, turns) ==
    LET spun[n \in 0 .. turns] ==
            IF n = 0 \/ RotOf(p.kind) = 0 THEN p ELSE Spun(spun[n - 1], FALSE) IN
    spun[turns]

\* for_each_landing: every column and turn the piece can fall in from row 0,
\* turns counted from the way it stands now.
Landings(b, p) ==
    LET turned == [o \in 0 .. Orientations(p.kind) - 1 |-> SpunTimes(p, o)]
        landing(x, o) ==
            LET y == Rest(b, turned[o], x, 0)
                full == Land(b, x, y, turned[o].shape, p.cell) IN
            [x |-> x, orientation |-> o, y |-> y, shape |-> turned[o].shape,
             board |-> CheckLines(full).board,
             lines |-> Cardinality({j \in Rows : FullRow(full, j)})] IN
    {landing(l[1], l[2]) : l \in {m \in (1 - BoxSide .. Wth - 1) \X DOMAIN turned :
                                      CanMoveTo(turned[m[2]], b, m[1], 0)}}

\* The order the landings are tried in: turn by turn, from the centre out, the
\* right column before the left.
Rank(l) ==
    LET d == l.x - Wth \div 2 IN
    l.orientation * 4 * (Wth + BoxSide) + (IF d > 0 THEN 2 * d - 1 ELSE -2 * d)
First(ls) == CHOOSE l \in ls : \A m \in ls : Rank(l) <= Rank(m)

\* What a player keeps of a landing.
Aim(l) == [x |-> l.x, orientation |-> l.orientation, y |-> l.y, shape |-> l.shape]

\* The landing of least cost, the first of equals; where the piece stands if
\* there is none.
Cheapest(p, costs) ==
    LET least == Min(Range(costs)) IN
    IF DOMAIN costs = {} THEN [Aim(p) EXCEPT !.orientation = 0]
    ELSE Aim(First({l \in DOMAIN costs : costs[l] = least}))

BestPlacement(b, p, pen) == Cheapest(p, [l \in Landings(b, p) |-> Eval(l.board, pen)])
BestPlacementStrong(b, p) ==
    Cheapest(p, [l \in Landings(b, p) |-> -EvalStrong(l.board, l.lines)])

\* best_placement_skill: each value is off by up to `noise`, either way.
BestPlacementsSkill(b, p, noise) ==
    LET ls == Landings(b, p)
        values == [l \in ls |-> EvalStrong(l.board, l.lines)] IN
    IF noise = 0 \/ ls = {} THEN {BestPlacementStrong(b, p)}
    ELSE {Aim(l) : l \in {m \in ls : values[m] > Max(Range(values)) - 2 * noise}}
=============================================================================
