------------------------------- MODULE Board -------------------------------
(***************************************************************************)
(* The playfield of one player (bt-core's board.rs and cell.rs): what      *)
(* blocks a square, how full rows clear, how a garbage row rises, and what *)
(* each board weapon does to the cells.                                    *)
(*                                                                         *)
(* A board is a record: cells, a function from squares <<column, row>> to  *)
(* cells (row 0 on top); active, the weapons in force as the board was     *)
(* told; upside, whether the cells stand upside down; reason, the pending  *)
(* heckle of the "idiot" latch.  Colours other than garbage green are not  *)
(* told apart.  The random draws of the code are sets of outcomes.         *)
(***************************************************************************)
EXTENDS Integers, Sequences, FiniteSetsExt, Functions

CONSTANTS
    Wth, Hgt,       \* BT_BOARD_WTH, BT_BOARD_HGT
    BottleX,        \* BT_BOTTLE_X: depth of a Bottle wall
    BottleY,        \* BT_BOTTLE_Y: half its height
    Ledge,          \* BT_FALL_OUT_LEDGE: columns that do not fall out
    BoxSide,        \* BT_PIECE_WIDTH = BT_PIECE_HEIGHT: side of a piece's grid
    HappyVal,       \* BT_HAPPY_VAL
    NearDeathRow,   \* rows from the top that count as near death
    Computer        \* the board of a computer opponent: never flipped

ASSUME BoardAssumption ==
    /\ Wth \in Nat \ {0} /\ Hgt \in Nat \ {0} /\ Hgt % 2 = 0
    /\ BottleX \in Nat /\ 2 * BottleX < Wth
    /\ BottleY \in Nat /\ 2 * BottleY < Hgt
    /\ Ledge \in Nat /\ 2 * Ledge <= Wth
    /\ BoxSide \in Nat /\ BoxSide >= 4 /\ HappyVal \in Nat \ {0} /\ NearDeathRow \in Nat
    /\ Computer \in BOOLEAN

Cols == 0 .. Wth - 1
Rows == 0 .. Hgt - 1
Squares == Cols \X Rows

-----------------------------------------------------------------------------
(* Cells.                                                                  *)

Empty == [kind |-> "none", v |-> 0, hidden |-> FALSE]
CellOf(kind, v) == [kind |-> kind, v |-> v, hidden |-> FALSE]
Colour == CellOf("color", 0)
Green == CellOf("green", 0)
Invisible == CellOf("invisible", 0)
Structure == CellOf("structure", 0)
Smiley == CellOf("happy", HappyVal)
Frown == CellOf("frown", 0)
Die(v) == CellOf("die", v)

\* CellKind, with the empty square: only dice and gimps vary in value.
Cell == {Empty} \cup
    {c \in [kind : {"color", "green", "invisible", "structure", "happy", "frown", "die", "gimp"},
            v : Nat, hidden : BOOLEAN] :
        /\ c.kind \notin {"happy", "die", "gimp"} => c.v = 0
        /\ c.kind = "happy" => c.v = HappyVal}

\* BTBox::value
Value(c) == c.v
IsRemovable(c) == c.kind \notin {"none", "structure"}
Gimp(c) == CellOf("gimp", Value(c))
\* BTHappyBox::landed
LandedCell(c) == [c EXCEPT !.kind = "frown", !.v = 0]

\* Cell::encode and Cell::decode: the quad of the wire and of keyframes.
Tag(kind) == CASE kind \in {"color", "green", "invisible"} -> 1
               [] kind = "die" -> 2
               [] kind \in {"happy", "frown"} -> 3
               [] kind = "structure" -> 4
               [] kind = "gimp" -> 5
Payload(c) == CASE c.kind = "green" -> 6
                [] c.kind = "invisible" -> -1
                [] c.kind = "frown" -> 1
                [] c.kind = "happy" -> 0
                [] OTHER -> c.v
\* Mutant: the hidden flag stays behind.
EncodeShown(c) == IF c.kind = "none" THEN <<0, 0, 0, 0>>
                  ELSE <<Tag(c.kind), Payload(c), 0, 0>>
Encode(c) == IF c.kind = "none" THEN <<0, 0, 0, 0>>
             ELSE <<Tag(c.kind), Payload(c), 0, IF c.hidden THEN 1 ELSE 0>>
Decode(q) ==
    LET plain == CASE q[1] = 1 /\ q[2] = 6 -> Green
                   [] q[1] = 1 /\ q[2] = -1 -> Invisible
                   [] q[1] = 1 /\ q[2] \notin {6, -1} -> CellOf("color", q[2])
                   [] q[1] = 2 -> Die(q[2])
                   [] q[1] = 3 -> IF q[2] # 0 THEN Frown ELSE Smiley
                   [] q[1] = 4 -> Structure
                   [] q[1] = 5 -> CellOf("gimp", q[2])
                   [] OTHER -> Empty IN
    IF plain = Empty THEN Empty ELSE [plain EXCEPT !.hidden = q[4] # 0]

-----------------------------------------------------------------------------
(* Squares.                                                                *)

EmptyBoard == [cells |-> [s \in Squares |-> Empty], active |-> {},
               upside |-> FALSE, reason |-> "none"]

Filled(b, x, y) == <<x, y>> \in Squares /\ b.cells[<<x, y>>] # Empty
Active(b, w) == w \in b.active

\* What blocks a square: Fallout opens the floor and the ceiling between the
\* ledges, down to one piece below the board.
Occupied(b, x, y) ==
    IF "FallOut" \notin b.active
    THEN <<x, y>> \notin Squares \/ Filled(b, x, y)
    ELSE \/ x \notin Cols
         \/ y \notin Rows /\ (x < Ledge \/ x >= Wth - Ledge)
         \/ Filled(b, x, y)
         \/ y < -BoxSide \/ y > Hgt + BoxSide

\* Where down is: a computer's board is never flipped.
Inverted(b) == Active(b, "Upbyside") /\ ~Computer

Neck == BottleX .. Wth - BottleX - 1
WallCols == Cols \ Neck
WallRows == Hgt \div 2 - BottleY .. Hgt \div 2 + BottleY - 1
Walls == WallCols \X WallRows

-----------------------------------------------------------------------------
(* Rows.                                                                   *)

\* The rows of the neck as a board turned this way up meets them.
NeckRows(b) == Hgt \div 2 - BottleY - (IF Inverted(b) THEN 1 ELSE 0) .. Hgt \div 2 + BottleY
\* Mutant: a shift takes the walls with it.
WideShift(b, path) == FALSE
Narrowed(b, path) == Active(b, "Bottle") /\ path \cap NeckRows(b) # {}

\* remove_line: the rows behind `line` move one step into it.  A Bottle
\* narrows the shift to its neck from the first neck row met on.
RemoveLine(b, line, wide) ==
    LET edge == IF Inverted(b) THEN Hgt - 1 ELSE 0
        back == IF Inverted(b) THEN 1 ELSE -1
        path(i) == IF Inverted(b) THEN line .. i ELSE i .. line
        shift(i) == IF Narrowed(b, path(i)) THEN Neck ELSE wide
        behind(i) == path(i) # {} /\ i # edge
        cell(x, i) ==
            CASE line = edge /\ i = line /\ x \in wide -> Empty
              [] behind(i) /\ x \in shift(i) -> b.cells[<<x, i + back>>]
              [] /\ path(i) # {} /\ i # line /\ x \in shift(i - back)
                 /\ ~(behind(i) /\ x \in shift(i)) -> Empty
              [] OTHER -> b.cells[<<x, i>>]
        forced(x, i) == IF i = line /\ line # edge /\ x \in shift(i)
                        THEN Empty ELSE b.cells[<<x, i>>] IN
    [b EXCEPT !.cells = [s \in Squares |-> IF Active(b, "Force")
                                           THEN forced(s[1], s[2])
                                           ELSE cell(s[1], s[2])]]

FullRow(b, j) == \A x \in Cols : Filled(b, x, j)
RowValue(b, j) ==
    LET sum[n \in 0 .. Wth] ==
            IF n = 0 THEN 0 ELSE sum[n - 1] + Value(b.cells[<<n - 1, j>>]) IN
    sum[Wth]
HasSmiley(b, j) == \E x \in Cols : b.cells[<<x, j>>].v = HappyVal
Missed(b, j) ==
    IF ~HasSmiley(b, j) THEN b
    ELSE [b EXCEPT !.reason = "missed_smiley",
                   !.cells = [s \in Squares |->
                       IF s[2] = j /\ @[s].v = HappyVal
                       THEN (IF @[s].kind = "happy" THEN LandedCell(@[s]) ELSE @[s])
                       ELSE @[s]]]

\* Mutant: the pass goes on to the next row after a clear.
RowAbove(b, j) == j - 1
\* The row looked at after row j cleared: the one that moved into it.
AfterClear(b, j) == IF Active(b, "Force") THEN j - 1 ELSE j

\* The main pass of check_lines, bottom up: a row that cleared is looked at
\* again, since another moved into it, unless the Force holds the board still.
\* Each look leaves a row behind or takes boxes off the board, so there are at
\* most MaxLooks before the top.
MaxLooks == Hgt * (Wth + 1)
Look(s) ==
    IF s.j < 0 THEN s
    ELSE IF FullRow(s.board, s.j)
         THEN [board |-> RemoveLine(s.board, s.j, Cols), j |-> AfterClear(s.board, s.j),
               lines |-> s.lines + 1, value |-> s.value + RowValue(s.board, s.j)]
         ELSE [s EXCEPT !.board = Missed(s.board, s.j), !.j = @ - 1]
Sweep(b) ==
    LET look[n \in 0 .. MaxLooks] ==
            IF n = 0 THEN [board |-> b, j |-> Hgt - 1, lines |-> 0, value |-> 0]
            ELSE Look(look[n - 1]) IN
    look[MaxLooks]

\* The stack's height: the rows from the bottom up to the first empty one.
Stack(b) == {j \in 1 .. Hgt - 1 : \A k \in j .. Hgt - 1 : \E x \in Cols : Filled(b, x, k)}
NearDeath(b) == Min(Stack(b) \cup {Hgt - 1}) < NearDeathRow

\* check_lines: funds are the rows' value times their number.
Tally(b, swept) ==
    LET heckle == IF swept.lines > 0 THEN "none"
                  ELSE IF NearDeath(b) THEN "near_death" ELSE swept.board.reason IN
    [board |-> [swept.board EXCEPT !.reason = heckle],
     lines |-> swept.lines, value |-> swept.value,
     funds |-> swept.value * swept.lines]
CheckLines(b) == Tally(b, Sweep(b))

\* insert_line: the stack moves one step up and a green row with one hole
\* comes in; a Bottle lets only its neck columns through.
InsertLine(b, hole) ==
    LET into == IF Inverted(b) THEN 0 ELSE Hgt - 1
        ahead == IF Inverted(b) THEN -1 ELSE 1
        narrow(i) == Active(b, "Bottle")
                     /\ IF Inverted(b) THEN i >= Hgt \div 2 - BottleY
                                       ELSE i < Hgt \div 2 + BottleY
        moved(i) == IF narrow(i) THEN Neck ELSE Cols
        cell(x, i) == CASE i = into /\ x \in moved(into - ahead) ->
                              IF x = hole THEN Empty ELSE Green
                        [] i # into /\ x \in moved(i) -> b.cells[<<x, i + ahead>>]
                        [] OTHER -> b.cells[<<x, i>>] IN
    [b EXCEPT !.cells = [s \in Squares |-> cell(s[1], s[2])]]

FlipHoriz(b) == [b EXCEPT !.cells = [s \in Squares |-> @[<<s[1], Hgt - 1 - s[2]>>]]]
FlipVert(b) == [b EXCEPT !.cells = [s \in Squares |-> @[<<Wth - 1 - s[1], s[2]>>]]]

-----------------------------------------------------------------------------
(* Landing.                                                                *)

\* BTPiece::landed: fill the squares, then look in the piece's grid for an
\* empty square walled in left, right and on top, one wall of it new.
Land(b, x, y, shape, cell) ==
    LET new == {s \in Squares : <<s[1] - x, s[2] - y>> \in shape}
        full == [b EXCEPT !.cells = [s \in Squares |-> IF s \in new THEN cell ELSE @[s]]]
        lid(cx, cy) == <<cx, IF Active(b, "Upbyside") THEN cy + 1 ELSE cy - 1>>
        sides(cx, cy) == {<<cx - 1, cy>>, <<cx + 1, cy>>, lid(cx, cy)}
        trapped(cx, cy) == /\ ~Occupied(full, cx, cy)
                           /\ \A n \in sides(cx, cy) : Occupied(full, n[1], n[2])
                           /\ sides(cx, cy) \cap new # {}
        bad == \E cx \in x .. x + BoxSide - 1, cy \in y .. y + BoxSide - 1 :
                   trapped(cx, cy) IN
    IF bad THEN [full EXCEPT !.reason = "bad_move"] ELSE full

-----------------------------------------------------------------------------
(* Weapons.                                                                *)

SetActive(b, w, on) == [b EXCEPT !.active = IF on THEN @ \cup {w} ELSE @ \ {w}]
Paint(b, where, cell) ==
    [b EXCEPT !.cells = [s \in Squares |-> IF s \in where THEN cell ELSE @[s]]]
Removables(b) == {s \in Squares : IsRemovable(b.cells[s])}

\* Pieces and bugs drop into a free square of the middle half, if there is one.
Band == Cols \X (Hgt \div 4 .. Hgt \div 4 + Hgt \div 2 - 1)
DropIn(b, cell) ==
    LET free == {s \in Band : ~Occupied(b, s[1], s[2])} IN
    IF free = {} THEN {b} ELSE {Paint(b, {s}, cell) : s \in free}

FallOutRows(b) ==
    LET fall[n \in 0 .. Hgt] ==
            IF n = 0 THEN b
            ELSE RemoveLine(fall[n - 1], IF Inverted(b) THEN 0 ELSE Hgt - 1,
                            Ledge .. Wth - Ledge - 1) IN
    fall[Hgt]

Quiet(boards) == {[board |-> b, lines |-> 0, value |-> 0, funds |-> 0] : b \in boards}

\* apply_weapon: what a weapon does to the cells as it comes on.  Bottle's
\* walls may complete rows, which then clear and pay.
ApplyWeapon(b, w) ==
    CASE w = "Upbyside" ->
           Quiet({[(IF ~b.upside /\ ~Computer THEN FlipHoriz(b) ELSE b) EXCEPT !.upside = TRUE]})
      [] w = "PieceIt" -> Quiet(DropIn(b, Colour))
      [] w = "Bug" -> Quiet(DropIn(b, Invisible))
      [] w = "Missing" -> Quiet(IF Removables(b) = {} THEN {b}
                                ELSE {Paint(b, {s}, Empty) : s \in Removables(b)})
      [] w = "Blind" -> Quiet({Paint(b, gone, Empty) : gone \in SUBSET Removables(b)})
      [] w = "Gimp" -> Quiet({[b EXCEPT !.cells = [s \in Squares |->
                                   IF IsRemovable(@[s]) THEN Gimp(@[s]) ELSE @[s]]]})
      [] w = "Twilight" -> Quiet({[b EXCEPT !.cells = [s \in Squares |->
                                   IF @[s] = Empty THEN Empty ELSE [@[s] EXCEPT !.hidden = TRUE]]]})
      [] w = "FlipOut" -> Quiet({FlipVert(b)})
      [] w = "FallOut" -> Quiet({FallOutRows(b)})
      [] w = "Bottle" -> {CheckLines(Paint(b, Walls, Structure))}
      [] w = "RiseUp" -> Quiet({InsertLine(b, hole) : hole \in Cols})
      [] OTHER -> Quiet({b})

\* revert_weapon: what is undone as it goes off.
RevertWeapon(b, w) ==
    CASE w = "Upbyside" ->
           [(IF Computer THEN b ELSE FlipHoriz(b)) EXCEPT !.upside = FALSE]
      [] w = "Bottle" -> Paint(b, Walls, Empty)
      [] OTHER -> b
=============================================================================
