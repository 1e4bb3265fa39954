----------------------------- MODULE GameProofs -----------------------------
(***************************************************************************)
(* Proofs about one player's game, whoever plays it, and its keyframes.    *)
(*                                                                         *)
(* Every change to a game is a chain of operators on the game record, so   *)
(* the invariant is a predicate on a game, each operator has a lemma that  *)
(* it keeps the predicate, and the actions follow.  GameOK holds           *)
(* in the middle of a lock too, with no piece; PieceOK is what the falling *)
(* piece adds.                                                             *)
(***************************************************************************)
EXTENDS Driven, NumberInduction

-----------------------------------------------------------------------------
(* What a game is made of.                                                 *)

Reasons == {"none", "bad_move", "missed_smiley", "near_death"}
BoardSet == [cells : [Squares -> Cell], active : SUBSET Weapon, upside : BOOLEAN,
             reason : Reasons]

\* Kinds that may be drawn: a broken record repeats an El before it has drawn.
Drawn == Kind \cup {"El", "Happy"}
ManagerSet == [supply : SUBSET PieceKind, hapOn : Nat, broken : BOOLEAN,
               old : Drawn \cup {"none"}]

\* The squares of a piece's own grid, and the state of the kinds that turn by a table.
PieceGrid == (0 .. BoxSide - 1) \X (0 .. BoxSide - 1)
States(k) == CASE k = "Wall" -> 0 .. 3 [] k = "WeirdLong" -> 0 .. 5
               [] k = "Star" -> 0 .. 1 [] OTHER -> {0}
PieceSet == {p \in [kind : Drawn, x : Int, y : Int, orientation : Nat, state : Nat,
                    shape : SUBSET PieceGrid, cell : Cell] :
                /\ p.orientation \in 0 .. Orientations(p.kind) - 1
                /\ p.state \in States(p.kind)
                /\ p.shape # {} /\ p.cell # Empty
                /\ RotOf(p.kind) # 0 =>
                      p.shape \subseteq (0 .. RotOf(p.kind) - 1) \X (0 .. RotOf(p.kind) - 1)}

GameSet ==
    [board : BoardSet, pieces : ManagerSet, piece : PieceSet \cup {NoPiece},
     x : Int, y : Int, defX : Int, defY : Int, down : {-1, 1}, left : {-1, 1},
     base : Nat, fast : Nat, drop : Nat,
     dropping : BOOLEAN, sliding : 0 .. 2, instant : BOOLEAN, slick : 0 .. 1,
     phase : {"falling", "sliding", "over"}, weapons : SUBSET Weapon,
     remaining : [Weapon -> Nat], pending : Seq(Weapon),
     pendingBoard : [Squares -> Cell] \cup {NoBoard},
     lines : Nat, opLines : Nat, til : Int, inBazaar : BOOLEAN, lockSeq : Nat]

-----------------------------------------------------------------------------
(* The invariant of a game, falling piece or not.                          *)

\* The walls of a Bottle in force.
BottleStands(b) == "Bottle" \in b.active => \A s \in Walls : b.cells[s].kind = "structure"

\* Flags, spawn point and direction are what Upbyside makes them.
Framed(g) ==
    LET up == "Upbyside" \in g.weapons IN
    /\ g.board.active = g.weapons
    /\ g.board.upside <=> up
    /\ g.defX = DefX
    /\ g.defY = IF up THEN Hgt - 4 ELSE DefY
    /\ g.down = (IF up THEN -1 ELSE 1) /\ g.left = -g.down

\* What counts down is in force, so that it is scaled back once.
CountsInForce(g) == \A w \in Weapon : g.remaining[w] > 0 => w \in g.weapons

Clocked(g) ==
    LET half == "Speedy" \in g.weapons
        slow == "Meadow" \in g.weapons IN
    /\ g.base = (DropTime * (IF slow THEN 2 ELSE 1)) \div (IF half THEN 2 ELSE 1)
    /\ g.fast = FastDropTime * (IF slow THEN 2 ELSE 1)

\* What is missing from the draw, and what has been added to it, has a weapon in
\* force behind it.
Supplied(g) ==
    LET on(w) == w \in g.weapons IN
    /\ g.pieces.supply \subseteq Default \cup (IF on("FearedWeird") THEN Weird ELSE {})
                                 \cup (IF on("FourByFour") THEN {"FourByFour"} ELSE {})
    /\ \A k \in Default \ g.pieces.supply :
          \/ k \in Standard /\ on("FearedWeird")
          \/ k = "Box" /\ on("FourByFour")
          \/ k = "Die" /\ on("NoDice")
          \/ k = "Long" /\ on("SoLong")
    /\ g.pieces.broken => on("Broken")

GameOK(g) ==
    /\ g \in GameSet
    /\ BottleStands(g.board)
    /\ Framed(g) /\ CountsInForce(g) /\ Clocked(g) /\ Supplied(g)

-----------------------------------------------------------------------------
(* What the falling piece adds.                                            *)

\* The squares a piece stands on.
Standing(p) == {<<p.x + s[1], p.y + s[2]>> : s \in p.shape}

Lockstep(g) ==
    /\ g.phase = "over" <=> g.piece = NoPiece
    /\ g.phase = "sliding" <=> g.sliding > 0
    /\ g.piece # NoPiece => g.piece.x = g.x /\ g.piece.y = g.y

\* Nothing but the Lawyers' rows can stand where the piece is, and a wall never does.
Clear(g, up) ==
    g.piece # NoPiece =>
        /\ up \/ CanMoveTo(g.piece, g.board, g.x, g.y)
        /\ "Bottle" \in g.weapons => Standing(g.piece) \cap Walls = {}

Cadence(g) == g.phase # "over" => g.drop = IF g.dropping THEN g.fast ELSE g.base

PieceOK(g, up) == Lockstep(g) /\ Clear(g, up) /\ Cadence(g)

\* The invariant.
GInv ==
    /\ GameOK(game) /\ PieceOK(game, raised)
    /\ opArsenal \in OpArsenals
    /\ raised \in BOOLEAN /\ received \in Nat
    /\ Len(game.pending) <= received /\ received <= MaxReceived

-----------------------------------------------------------------------------
(* The board.                                                              *)

\* What a change to the cells leaves alone: the flags, and the walls of a Bottle.
Kept(c, b) ==
    /\ c \in BoardSet /\ c.active = b.active /\ c.upside = b.upside
    /\ BottleStands(b) => BottleStands(c)

LEMMA KeptReflexive ==
    ASSUME NEW b \in BoardSet
    PROVE  Kept(b, b)
BY DEF Kept

LEMMA KeptTransitive ==
    ASSUME NEW b, NEW c, NEW d, Kept(c, b), Kept(d, c)
    PROVE  Kept(d, b)
BY DEF Kept

\* A change of the cells alone.
LEMMA KeptCells ==
    ASSUME NEW b \in BoardSet, NEW cells \in [Squares -> Cell],
           BottleStands(b) /\ "Bottle" \in b.active =>
               \A s \in Walls : cells[s].kind = "structure"
    PROVE  Kept([b EXCEPT !.cells = cells], b)
BY DEF Kept, BoardSet, BottleStands

LEMMA KeptReason ==
    ASSUME NEW b \in BoardSet, NEW reason \in Reasons
    PROVE  Kept([b EXCEPT !.reason = reason], b)
BY DEF Kept, BoardSet, BottleStands

LEMMA CellTypes ==
    /\ {Empty, Colour, Green, Invisible, Structure, Smiley, Frown} \subseteq Cell
    /\ \A v \in Nat : Die(v) \in Cell
    /\ \A c \in Cell : c # Empty =>
          LandedCell(c) \in Cell /\ Gimp(c) \in Cell /\ [c EXCEPT !.hidden = TRUE] \in Cell
    /\ \A c \in Cell : c.v \in Nat /\ (c.kind = "none" <=> c = Empty)
    /\ \A c \in Cell : c.kind = "structure" => c.v = 0
<1>1. HappyVal \in Nat
  BY BoardAssumption
<1>2. {Empty, Colour, Green, Invisible, Structure, Smiley, Frown} \subseteq Cell
  BY <1>1 DEF Cell, Empty, Colour, Green, Invisible, Structure, Smiley, Frown, CellOf
<1>3. \A v \in Nat : Die(v) \in Cell
  BY DEF Cell, Die, CellOf
<1>4. \A c \in Cell : c.v \in Nat /\ (c.kind = "none" <=> c = Empty)
  BY DEF Cell, Empty
<1>5. ASSUME NEW c \in Cell, c # Empty
      PROVE  LandedCell(c) \in Cell /\ Gimp(c) \in Cell /\ [c EXCEPT !.hidden = TRUE] \in Cell
  <2>1. LandedCell(c) \in Cell
    BY <1>5 DEF Cell, LandedCell
  <2>2. Gimp(c) \in Cell
    BY <1>4 DEF Cell, Gimp, CellOf, Value
  <2>3. [c EXCEPT !.hidden = TRUE] \in Cell
    BY <1>5 DEF Cell
  <2> QED
    BY <2>1, <2>2, <2>3
<1>6. \A c \in Cell : c.kind = "structure" => c.v = 0
  BY DEF Cell, Empty
<1> QED
  BY <1>2, <1>3, <1>4, <1>5, <1>6

LEMMA HalfHeight ==
    /\ Hgt \div 2 \in Nat /\ 2 * (Hgt \div 2) = Hgt
    /\ BottleY < Hgt \div 2
BY BoardAssumption

\* The walls stand clear of the neck's columns and of the edge rows.
LEMMA WallSquare ==
    ASSUME NEW s \in Walls
    PROVE  /\ s \in Squares /\ s = <<s[1], s[2]>> /\ s[1] \in Cols \ Neck
           /\ s[2] \in WallRows /\ s[2] \in 1 .. Hgt - 2
BY HalfHeight, BoardAssumption DEF Walls, WallCols, WallRows, Squares, Rows, Cols, Neck

LEMMA RemoveLineKeeps ==
    ASSUME NEW b \in BoardSet, NEW line \in Rows, NEW wide \in SUBSET Cols
    PROVE  Kept(RemoveLine(b, line, wide), b)
<1> DEFINE edge == IF Inverted(b) THEN Hgt - 1 ELSE 0
           back == IF Inverted(b) THEN 1 ELSE -1
           path(i) == IF Inverted(b) THEN line .. i ELSE i .. line
           shift(i) == IF Narrowed(b, path(i)) THEN Neck ELSE wide
           behind(i) == path(i) # {} /\ i # edge
           cell(x, i) ==
               CASE line = edge /\ i = line /\ x \in wide -> Empty
                 [] behind(i) /\ x \in shift(i) -> b.cells[<<x, i + back>>]
                 [] /\ path(i) # {} /\ i # line /\ x \in shift(i - back)
                    /\ ~(behind(i) /\ x \in shift(i)) -> Empty
                 [] OTHER -> b.cells[<<x, i>>]
           forced(x, i) == IF i = line /\ line # edge /\ x \in shift(i)
                           THEN Empty ELSE b.cells[<<x, i>>]
           cells == [s \in Squares |-> IF Active(b, "Force") THEN forced(s[1], s[2])
                                                             ELSE cell(s[1], s[2])]
<1>1. RemoveLine(b, line, wide) = [b EXCEPT !.cells = cells]
  BY DEF RemoveLine
<1>2. \A s \in Squares : b.cells[s] \in Cell /\ s = <<s[1], s[2]>> /\ s[1] \in Cols /\ s[2] \in Rows
  BY DEF BoardSet, Squares
<1>3. \A i \in Rows : i # edge => i + back \in Rows
  BY BoardAssumption DEF Rows
<1>4. cells \in [Squares -> Cell]
  <2>1. ASSUME NEW s \in Squares
        PROVE  cell(s[1], s[2]) \in Cell
    <3>1. s[2] # edge => b.cells[<<s[1], s[2] + back>>] \in Cell
      BY <1>2, <1>3 DEF Squares
    <3>2. b.cells[<<s[1], s[2]>>] \in Cell
      BY <1>2
    <3> HIDE DEF path, shift, back, edge
    <3> QED
      BY <3>1, <3>2, CellTypes
  <2>2. ASSUME NEW s \in Squares
        PROVE  forced(s[1], s[2]) \in Cell
    BY <1>2, CellTypes
  <2> HIDE DEF cell, forced
  <2> QED
    BY <2>1, <2>2
<1>5. ASSUME "Bottle" \in b.active, NEW s \in Walls
      PROVE  cells[s] = b.cells[s]
  <2> DEFINE x == s[1]
             i == s[2]
  <2>1. s \in Squares /\ s = <<x, i>> /\ x \in Cols \ Neck /\ i \in 1 .. Hgt - 2 /\ i \in WallRows
    BY WallSquare
  <2>2. line \in Int /\ i \in Int /\ edge \in Int /\ i # edge
    BY <2>1, BoardAssumption DEF Rows
  <2>3. i \in NeckRows(b) /\ i - back \in NeckRows(b)
    BY <2>1, <2>2, HalfHeight, BoardAssumption DEF NeckRows, WallRows
  <2>4. ASSUME path(i) # {}
        PROVE  x \notin shift(i)
    <3>1. i \in path(i)
      BY <2>2, <2>4
    <3> QED
      BY <2>1, <2>3, <3>1, <1>5 DEF Narrowed, Active
  <2>5. ASSUME path(i) # {}, i # line
        PROVE  x \notin shift(i - back)
    <3>1. i - back \in path(i - back)
      BY <2>2, <2>5
    <3> QED
      BY <2>1, <2>3, <3>1, <1>5 DEF Narrowed, Active
  <2>6. i = line => path(i) # {}
    BY <2>2
  <2>7. cell(x, i) = b.cells[<<x, i>>]
    <3> HIDE DEF path, shift, edge, back, x, i
    <3> QED
      BY <2>2, <2>4, <2>5, <2>6
  <2>8. forced(x, i) = b.cells[<<x, i>>]
    <3> HIDE DEF path, shift, edge, back, x, i
    <3> QED
      BY <2>2, <2>4, <2>6
  <2>9. cells[s] = IF Active(b, "Force") THEN forced(x, i) ELSE cell(x, i)
    BY <2>1
  <2> HIDE DEF cell, forced, cells
  <2> QED
    BY <2>1, <2>7, <2>8, <2>9
<1> HIDE DEF cells
<1>6. BottleStands(b) /\ "Bottle" \in b.active => \A s \in Walls : cells[s].kind = "structure"
  BY <1>5 DEF BottleStands
<1> QED
  BY <1>1, <1>4, <1>6, KeptCells

LEMMA InsertLineKeeps ==
    ASSUME NEW b \in BoardSet, NEW hole \in Cols
    PROVE  Kept(InsertLine(b, hole), b)
<1> DEFINE into == IF Inverted(b) THEN 0 ELSE Hgt - 1
           ahead == IF Inverted(b) THEN -1 ELSE 1
           narrow(i) == Active(b, "Bottle")
                        /\ IF Inverted(b) THEN i >= Hgt \div 2 - BottleY
                                          ELSE i < Hgt \div 2 + BottleY
           moved(i) == IF narrow(i) THEN Neck ELSE Cols
           cell(x, i) == CASE i = into /\ x \in moved(into - ahead) ->
                                 IF x = hole THEN Empty ELSE Green
                           [] i # into /\ x \in moved(i) -> b.cells[<<x, i + ahead>>]
                           [] OTHER -> b.cells[<<x, i>>]
           cells == [s \in Squares |-> cell(s[1], s[2])]
<1>1. InsertLine(b, hole) = [b EXCEPT !.cells = cells]
  BY DEF InsertLine
<1>2. \A s \in Squares : b.cells[s] \in Cell /\ s = <<s[1], s[2]>> /\ s[1] \in Cols /\ s[2] \in Rows
  BY DEF BoardSet, Squares
<1>3. \A i \in Rows : i # into => i + ahead \in Rows
  BY BoardAssumption DEF Rows
<1>4. ASSUME NEW s \in Squares
      PROVE  cell(s[1], s[2]) \in Cell
  <2>1. s[2] # into => b.cells[<<s[1], s[2] + ahead>>] \in Cell
    BY <1>2, <1>3 DEF Squares
  <2>2. b.cells[<<s[1], s[2]>>] \in Cell
    BY <1>2
  <2> HIDE DEF narrow, moved, into, ahead
  <2> QED
    BY <2>1, <2>2, CellTypes
<1>5. ASSUME "Bottle" \in b.active, NEW s \in Walls
      PROVE  cells[s] = b.cells[s]
  <2>1. s \in Squares /\ s = <<s[1], s[2]>> /\ s[1] \in Cols \ Neck /\ s[2] \in 1 .. Hgt - 2
        /\ s[2] \in WallRows
    BY WallSquare
  <2>2. s[2] # into
    BY <2>1, BoardAssumption
  <2>3. s[1] \notin moved(s[2])
    BY <1>5, <2>1, HalfHeight, BoardAssumption DEF WallRows, Active
  <2>4. cells[s] = cell(s[1], s[2])
    BY <2>1
  <2> HIDE DEF narrow, moved, into, ahead
  <2> QED
    BY <2>1, <2>2, <2>3, <2>4
<1>6. cells \in [Squares -> Cell]
  <2> HIDE DEF cell
  <2> QED
    BY <1>4
<1> HIDE DEF cells
<1>7. BottleStands(b) /\ "Bottle" \in b.active => \A s \in Walls : cells[s].kind = "structure"
  BY <1>5 DEF BottleStands
<1> QED
  BY <1>1, <1>6, <1>7, KeptCells

LEMMA RowValueIsNat ==
    ASSUME NEW b \in BoardSet, NEW j \in Rows
    PROVE  RowValue(b, j) \in Nat
<1>1. /\ Wth \in Nat /\ 0 \in Nat
      /\ \A k \in 1 .. Wth, v \in Nat : v + Value(b.cells[<<k - 1, j>>]) \in Nat
  <2>1. ASSUME NEW k \in 1 .. Wth
        PROVE  b.cells[<<k - 1, j>>].v \in Nat
    <3>1. <<k - 1, j>> \in Squares
      BY BoardAssumption DEF Squares, Cols
    <3> QED
      BY <3>1, CellTypes DEF BoardSet
  <2> QED
    BY <2>1, BoardAssumption DEF Value
<1> DEFINE After(f) == f = [k \in 0 .. Wth |-> IF k = 0 THEN 0 ELSE f[k - 1] + Value(b.cells[<<k - 1, j>>])]
           step == [kv \in Nat \X Nat |->
                      IF kv[1] \in 1 .. Wth THEN kv[2] + Value(b.cells[<<kv[1] - 1, j>>]) ELSE kv[2]]
<1>2. step \in [Nat \X Nat -> Nat]
  <2>1. ASSUME NEW kv \in Nat \X Nat
        PROVE  (IF kv[1] \in 1 .. Wth THEN kv[2] + Value(b.cells[<<kv[1] - 1, j>>]) ELSE kv[2]) \in Nat
    <3>1. kv[2] \in Nat
      OBVIOUS
    <3> QED
      BY <3>1, <1>1
  <2> QED
    BY <2>1
<1>3. PICK f : Recurs(f, Nat, 0, step, Wth)
  <2> HIDE DEF step, After
  <2> QED
    BY <1>1, <1>2, RecursiveFunction
<1>4. After(f)
  <2>1. ASSUME NEW k \in 0 .. Wth
        PROVE  f[k] = IF k = 0 THEN 0 ELSE f[k - 1] + Value(b.cells[<<k - 1, j>>])
    <3>1. k # 0 => k \in 1 .. Wth /\ k \in Nat /\ k - 1 \in 0 .. Wth
      BY <1>1
    <3>2. k # 0 => <<k, f[k - 1]>> \in Nat \X Nat /\ f[k] = step[<<k, f[k - 1]>>]
      <4> HIDE DEF step
      <4> QED
        BY <1>3, <3>1 DEF Recurs
    <3> QED
      BY <1>3, <3>1, <3>2 DEF Recurs
  <2>2. f = [k \in 0 .. Wth |-> f[k]]
    BY <1>3 DEF Recurs
  <2> QED
    BY <2>1, <2>2
<1>5. RowValue(b, j) = (CHOOSE h : After(h))[Wth]
  BY DEF RowValue
<1>6. PICK h : h = (CHOOSE e : After(e)) /\ After(h)
  <2> HIDE DEF After
  <2> QED
    BY <1>4
<1>7. ASSUME NEW k \in 0 .. Wth
      PROVE  h[k] = IF k = 0 THEN 0 ELSE h[k - 1] + Value(b.cells[<<k - 1, j>>])
  BY <1>6
<1> HIDE DEF After
<1> DEFINE S == {k \in 0 .. Wth : h[k] \in Nat}
<1>8. 0 \in S
  <2>1. 0 \in 0 .. Wth
    BY <1>1
  <2>2. h[0] = 0
    BY <2>1, <1>7
  <2> QED
    BY <2>1, <2>2, <1>1
<1>9. ASSUME NEW k \in 0 .. Wth - 1, k \in S
      PROVE  k + 1 \in S
  <2>1. k + 1 \in 1 .. Wth /\ k + 1 \in 0 .. Wth /\ k + 1 # 0 /\ (k + 1) - 1 = k
    BY <1>1
  <2>2. h[k + 1] = h[k] + Value(b.cells[<<k + 1 - 1, j>>])
    BY <1>7, <2>1
  <2> QED
    BY <1>9, <2>1, <2>2, <1>1
<1>10. Wth \in S
  <2> HIDE DEF S
  <2>1. 0 .. Wth \subseteq S
    BY <1>8, <1>9, <1>1, InductionUpTo
  <2> QED
    BY <2>1, <1>1
<1>11. RowValue(b, j) \in Nat
  BY <1>5, <1>6, <1>10
<1> QED
  BY <1>11

LEMMA MissedKeeps ==
    ASSUME NEW b \in BoardSet, NEW j \in Rows
    PROVE  Kept(Missed(b, j), b)
<1> DEFINE cells == [s \in Squares |->
                       IF s[2] = j /\ b.cells[s].v = HappyVal
                       THEN (IF b.cells[s].kind = "happy" THEN LandedCell(b.cells[s])
                             ELSE b.cells[s])
                       ELSE b.cells[s]]
<1>1. CASE ~HasSmiley(b, j)
  BY <1>1, KeptReflexive DEF Missed
<1>2. CASE HasSmiley(b, j)
  <2>1. Missed(b, j) = [[b EXCEPT !.cells = cells] EXCEPT !.reason = "missed_smiley"]
    BY <1>2 DEF Missed, BoardSet
  <2>2. \A s \in Squares : b.cells[s] \in Cell
    BY DEF BoardSet
  <2>3. \A c \in Cell : c.kind = "happy" => c # Empty
    BY DEF Empty
  <2>4. cells \in [Squares -> Cell]
    BY <2>2, <2>3, CellTypes
  <2>5. ASSUME NEW s \in Walls, b.cells[s].kind = "structure"
        PROVE  cells[s].kind = "structure"
    BY <2>5, WallSquare
  <2>6. Kept([b EXCEPT !.cells = cells], b)
    <3> HIDE DEF cells
    <3> QED
      BY <2>4, <2>5, KeptCells DEF BottleStands
  <2> HIDE DEF cells
  <2>7. "missed_smiley" \in Reasons
    BY DEF Reasons
  <2> DEFINE c == [b EXCEPT !.cells = cells]
  <2>8. Kept([c EXCEPT !.reason = "missed_smiley"], c)
    <3>1. c \in BoardSet
      BY <2>6 DEF Kept
    <3> HIDE DEF c
    <3> QED
      BY <2>7, <3>1, KeptReason
  <2> QED
    BY <2>1, <2>6, <2>8, KeptTransitive
<1> QED
  BY <1>1, <1>2

\* What a pass of check_lines over b has come to.
SweptSet(b) == {s \in [board : BoardSet, j : Int, lines : Nat, value : Nat] :
                    Kept(s.board, b) /\ s.j < Hgt}

LEMMA LookKeeps ==
    ASSUME NEW b \in BoardSet, NEW s \in SweptSet(b)
    PROVE  Look(s) \in SweptSet(b)
<1>1. CASE s.j < 0
  BY <1>1 DEF Look
<1>2. CASE s.j >= 0
  <2>1. /\ s \in [board : BoardSet, j : Int, lines : Nat, value : Nat]
        /\ s.board \in BoardSet /\ Kept(s.board, b) /\ s.j \in Rows
    BY <1>2, BoardAssumption DEF SweptSet, Rows
  <2>2. CASE FullRow(s.board, s.j)
    <3>1. Kept(RemoveLine(s.board, s.j, Cols), b)
      BY <2>1, RemoveLineKeeps, KeptTransitive
    <3>2. RowValue(s.board, s.j) \in Nat
      BY <2>1, RowValueIsNat
    <3>3. AfterClear(s.board, s.j) \in Int /\ AfterClear(s.board, s.j) < Hgt
      BY <2>1, BoardAssumption DEF AfterClear, Rows
    <3>4. RemoveLine(s.board, s.j, Cols) \in BoardSet
      BY <3>1 DEF Kept
    <3> QED
      BY <1>2, <2>1, <2>2, <3>1, <3>2, <3>3, <3>4 DEF Look, SweptSet, Rows
  <2>3. CASE ~FullRow(s.board, s.j)
    <3>1. Kept(Missed(s.board, s.j), b)
      BY <2>1, MissedKeeps, KeptTransitive
    <3>2. Missed(s.board, s.j) \in BoardSet
      BY <3>1 DEF Kept
    <3>3. s.j - 1 \in Int /\ s.j - 1 < Hgt
      BY <2>1, BoardAssumption DEF Rows
    <3> QED
      BY <1>2, <2>1, <2>3, <3>1, <3>2, <3>3 DEF Look, SweptSet, Rows
  <2> QED
    BY <2>2, <2>3
<1> QED
  BY <1>1, <1>2 DEF SweptSet

LEMMA SweepKeeps ==
    ASSUME NEW b \in BoardSet
    PROVE  Sweep(b) \in SweptSet(b)
<1> DEFINE start == [board |-> b, j |-> Hgt - 1, lines |-> 0, value |-> 0]
<1>1. /\ MaxLooks \in Nat /\ start \in SweptSet(b)
      /\ \A k \in 1 .. MaxLooks, v \in SweptSet(b) : Look(v) \in SweptSet(b)
  <2>1. MaxLooks \in Nat
    BY BoardAssumption DEF MaxLooks
  <2>2. start \in SweptSet(b)
    BY BoardAssumption, KeptReflexive DEF SweptSet
  <2> QED
    BY <2>1, <2>2, LookKeeps
<1> HIDE DEF start
<1> DEFINE After(f) == f = [k \in 0 .. MaxLooks |-> IF k = 0 THEN start ELSE Look(f[k - 1])]
           step == [kv \in Nat \X SweptSet(b) |->
                      IF kv[1] \in 1 .. MaxLooks THEN Look(kv[2]) ELSE kv[2]]
<1>2. step \in [Nat \X SweptSet(b) -> SweptSet(b)]
  <2>1. ASSUME NEW kv \in Nat \X SweptSet(b)
        PROVE  (IF kv[1] \in 1 .. MaxLooks THEN Look(kv[2]) ELSE kv[2]) \in SweptSet(b)
    <3>1. kv[2] \in SweptSet(b)
      OBVIOUS
    <3> QED
      BY <3>1, <1>1
  <2> QED
    BY <2>1
<1>3. PICK f : Recurs(f, SweptSet(b), start, step, MaxLooks)
  <2> HIDE DEF step, After
  <2> QED
    BY <1>1, <1>2, RecursiveFunction
<1>4. After(f)
  <2>1. ASSUME NEW k \in 0 .. MaxLooks
        PROVE  f[k] = IF k = 0 THEN start ELSE Look(f[k - 1])
    <3>1. k # 0 => k \in 1 .. MaxLooks /\ k \in Nat /\ k - 1 \in 0 .. MaxLooks
      BY <1>1
    <3>2. k # 0 => <<k, f[k - 1]>> \in Nat \X SweptSet(b) /\ f[k] = step[<<k, f[k - 1]>>]
      <4> HIDE DEF step
      <4> QED
        BY <1>3, <3>1 DEF Recurs
    <3> QED
      BY <1>3, <3>1, <3>2 DEF Recurs
  <2>2. f = [k \in 0 .. MaxLooks |-> f[k]]
    BY <1>3 DEF Recurs
  <2> QED
    BY <2>1, <2>2
<1>5. Sweep(b) = (CHOOSE h : After(h))[MaxLooks]
  BY DEF Sweep, start
<1>6. PICK h : h = (CHOOSE e : After(e)) /\ After(h)
  <2> HIDE DEF After
  <2> QED
    BY <1>4
<1>7. ASSUME NEW k \in 0 .. MaxLooks
      PROVE  h[k] = IF k = 0 THEN start ELSE Look(h[k - 1])
  BY <1>6
<1> HIDE DEF After
<1> DEFINE S == {k \in 0 .. MaxLooks : h[k] \in SweptSet(b)}
<1>8. 0 \in S
  <2>1. 0 \in 0 .. MaxLooks
    BY <1>1
  <2>2. h[0] = start
    BY <2>1, <1>7
  <2> QED
    BY <2>1, <2>2, <1>1
<1>9. ASSUME NEW k \in 0 .. MaxLooks - 1, k \in S
      PROVE  k + 1 \in S
  <2>1. k + 1 \in 1 .. MaxLooks /\ k + 1 \in 0 .. MaxLooks /\ k + 1 # 0 /\ (k + 1) - 1 = k
    BY <1>1
  <2>2. h[k + 1] = Look(h[k])
    BY <1>7, <2>1
  <2> QED
    BY <1>9, <2>1, <2>2, <1>1
<1>10. MaxLooks \in S
  <2> HIDE DEF S
  <2>1. 0 .. MaxLooks \subseteq S
    BY <1>8, <1>9, <1>1, InductionUpTo
  <2> QED
    BY <2>1, <1>1
<1>11. Sweep(b) \in SweptSet(b)
  BY <1>5, <1>6, <1>10
<1> QED
  BY <1>11

LEMMA CheckLinesKeeps ==
    ASSUME NEW b \in BoardSet
    PROVE  Kept(CheckLines(b).board, b) /\ CheckLines(b).lines \in Nat
<1> DEFINE swept == Sweep(b)
           heckle == IF swept.lines > 0 THEN "none"
                     ELSE IF NearDeath(b) THEN "near_death" ELSE swept.board.reason
<1>1. /\ swept \in [board : BoardSet, j : Int, lines : Nat, value : Nat]
      /\ Kept(swept.board, b)
  BY SweepKeeps DEF SweptSet
<1>2. heckle \in Reasons
  BY <1>1 DEF Reasons, BoardSet
<1>3. /\ CheckLines(b).board = [swept.board EXCEPT !.reason = heckle]
      /\ CheckLines(b).lines = swept.lines
  BY DEF CheckLines, Tally
<1> HIDE DEF swept, heckle
<1> QED
  BY <1>1, <1>2, <1>3, KeptReason, KeptTransitive

\* The cells change square by square, each into a cell, and no wall does.
LEMMA RecolourKeeps ==
    ASSUME NEW b \in BoardSet, NEW cells \in [Squares -> Cell],
           \A s \in Squares : b.cells[s].kind = "structure" => cells[s].kind = "structure"
    PROVE  Kept([b EXCEPT !.cells = cells], b)
BY KeptCells, WallSquare DEF BottleStands

LEMMA FlipHorizKeeps ==
    ASSUME NEW b \in BoardSet
    PROVE  Kept(FlipHoriz(b), b)
<1> DEFINE cells == [s \in Squares |-> b.cells[<<s[1], Hgt - 1 - s[2]>>]]
<1>1. FlipHoriz(b) = [b EXCEPT !.cells = cells]
  BY DEF FlipHoriz, BoardSet
<1>2. \A s \in Squares : <<s[1], Hgt - 1 - s[2]>> \in Squares
  BY BoardAssumption DEF Squares, Rows
<1>3. cells \in [Squares -> Cell]
  BY <1>2 DEF BoardSet
<1>4. ASSUME NEW s \in Walls
      PROVE  <<s[1], Hgt - 1 - s[2]>> \in Walls /\ cells[s] = b.cells[<<s[1], Hgt - 1 - s[2]>>]
  BY WallSquare, HalfHeight, BoardAssumption DEF Walls, WallCols, WallRows
<1> HIDE DEF cells
<1>5. BottleStands(b) /\ "Bottle" \in b.active => \A s \in Walls : cells[s].kind = "structure"
  BY <1>4, ZenonT(60) DEF BottleStands
<1> QED
  BY <1>1, <1>3, <1>5, KeptCells

LEMMA FlipVertKeeps ==
    ASSUME NEW b \in BoardSet
    PROVE  Kept(FlipVert(b), b)
<1> DEFINE cells == [s \in Squares |-> b.cells[<<Wth - 1 - s[1], s[2]>>]]
<1>1. FlipVert(b) = [b EXCEPT !.cells = cells]
  BY DEF FlipVert, BoardSet
<1>2. \A s \in Squares : <<Wth - 1 - s[1], s[2]>> \in Squares
  BY BoardAssumption DEF Squares, Cols
<1>3. cells \in [Squares -> Cell]
  BY <1>2 DEF BoardSet
<1>4. ASSUME NEW s \in Walls
      PROVE  <<Wth - 1 - s[1], s[2]>> \in Walls /\ cells[s] = b.cells[<<Wth - 1 - s[1], s[2]>>]
  BY WallSquare, BoardAssumption DEF Walls, WallCols, Cols, Neck
<1> HIDE DEF cells
<1>5. BottleStands(b) /\ "Bottle" \in b.active => \A s \in Walls : cells[s].kind = "structure"
  BY <1>4, ZenonT(60) DEF BottleStands
<1> QED
  BY <1>1, <1>3, <1>5, KeptCells

\* A piece that is not in a wall lands beside it.
LEMMA LandKeeps ==
    ASSUME NEW b \in BoardSet, NEW x \in Int, NEW y \in Int, NEW shape, NEW cell \in Cell,
           "Bottle" \in b.active => \A s \in Walls : <<s[1] - x, s[2] - y>> \notin shape
    PROVE  Kept(Land(b, x, y, shape, cell), b)
<1> DEFINE new == {s \in Squares : <<s[1] - x, s[2] - y>> \in shape}
           cells == [s \in Squares |-> IF s \in new THEN cell ELSE b.cells[s]]
           full == [b EXCEPT !.cells = cells]
<1>1. Land(b, x, y, shape, cell) \in {full, [full EXCEPT !.reason = "bad_move"]}
  BY DEF Land, BoardSet
<1>2. cells \in [Squares -> Cell]
  BY DEF BoardSet
<1>3. "Bottle" \in b.active => \A s \in Walls : cells[s] = b.cells[s]
  BY WallSquare
<1>4. Kept(full, b)
  <2> HIDE DEF cells
  <2> QED
    BY <1>2, <1>3, KeptCells DEF BottleStands
<1> HIDE DEF full
<1>5. full \in BoardSet /\ "bad_move" \in Reasons
  BY <1>4 DEF Kept, Reasons
<1> QED
  BY <1>1, <1>4, <1>5, KeptReason, KeptTransitive

\* Paint on squares that hold no structure.
LEMMA PaintKeeps ==
    ASSUME NEW b \in BoardSet, NEW where, NEW cell \in Cell,
           \A s \in Squares : s \in where => b.cells[s].kind # "structure"
    PROVE  Kept(Paint(b, where, cell), b)
<1> DEFINE cells == [s \in Squares |-> IF s \in where THEN cell ELSE b.cells[s]]
<1>1. Paint(b, where, cell) = [b EXCEPT !.cells = cells]
  BY DEF Paint, BoardSet
<1>2. cells \in [Squares -> Cell]
  BY DEF BoardSet
<1>3. \A s \in Squares : b.cells[s].kind = "structure" => cells[s].kind = "structure"
  OBVIOUS
<1> HIDE DEF cells
<1> QED
  BY <1>1, <1>2, <1>3, RecolourKeeps

LEMMA DropInKeeps ==
    ASSUME NEW b \in BoardSet, NEW cell \in Cell, NEW c \in DropIn(b, cell)
    PROVE  Kept(c, b)
<1>1. CASE c = b
  BY <1>1, KeptReflexive
<1>2. CASE c # b
  <2>1. PICK s \in Band : ~Occupied(b, s[1], s[2]) /\ c = Paint(b, {s}, cell)
    BY <1>2 DEF DropIn
  <2>2. ~Filled(b, s[1], s[2]) /\ s = <<s[1], s[2]>>
    BY <2>1 DEF Occupied, Band
  <2>3. s \in Squares => b.cells[s] = Empty
    BY <2>2 DEF Filled
  <2> QED
    BY <2>1, <2>3, PaintKeeps DEF Empty
<1> QED
  BY <1>1, <1>2

LEMMA FallOutRowsKeeps ==
    ASSUME NEW b \in BoardSet
    PROVE  Kept(FallOutRows(b), b)
<1> DEFINE V == {c \in BoardSet : Kept(c, b)}
           line == IF Inverted(b) THEN 0 ELSE Hgt - 1
           wide == Ledge .. Wth - Ledge - 1
<1>1. /\ Hgt \in Nat /\ b \in V
      /\ \A k \in 1 .. Hgt, v \in V : RemoveLine(v, line, wide) \in V
  <2>1. line \in Rows /\ wide \in SUBSET Cols
    BY BoardAssumption DEF Rows, Cols
  <2>2. ASSUME NEW v \in V
        PROVE  RemoveLine(v, line, wide) \in V
    <3>1. Kept(RemoveLine(v, line, wide), v)
      <4> HIDE DEF line, wide
      <4> QED
        BY <2>1, RemoveLineKeeps
    <3>2. Kept(RemoveLine(v, line, wide), b)
      BY <3>1, KeptTransitive
    <3> QED
      BY <3>2 DEF Kept
  <2>3. b \in V
    BY KeptReflexive
  <2> HIDE DEF V, line, wide
  <2> QED
    BY <2>2, <2>3, BoardAssumption
<1> HIDE DEF V, line, wide
<1> DEFINE After(f) == f = [k \in 0 .. Hgt |-> IF k = 0 THEN b ELSE RemoveLine(f[k - 1], line, wide)]
           step == [kv \in Nat \X V |->
                      IF kv[1] \in 1 .. Hgt THEN RemoveLine(kv[2], line, wide) ELSE kv[2]]
<1>2. step \in [Nat \X V -> V]
  <2>1. ASSUME NEW kv \in Nat \X V
        PROVE  (IF kv[1] \in 1 .. Hgt THEN RemoveLine(kv[2], line, wide) ELSE kv[2]) \in V
    <3>1. kv[2] \in V
      OBVIOUS
    <3> QED
      BY <3>1, <1>1
  <2> QED
    BY <2>1
<1>3. PICK f : Recurs(f, V, b, step, Hgt)
  <2> HIDE DEF step, After
  <2> QED
    BY <1>1, <1>2, RecursiveFunction
<1>4. After(f)
  <2>1. ASSUME NEW k \in 0 .. Hgt
        PROVE  f[k] = IF k = 0 THEN b ELSE RemoveLine(f[k - 1], line, wide)
    <3>1. k # 0 => k \in 1 .. Hgt /\ k \in Nat /\ k - 1 \in 0 .. Hgt
      BY <1>1
    <3>2. k # 0 => <<k, f[k - 1]>> \in Nat \X V /\ f[k] = step[<<k, f[k - 1]>>]
      <4> HIDE DEF step
      <4> QED
        BY <1>3, <3>1 DEF Recurs
    <3> QED
      BY <1>3, <3>1, <3>2 DEF Recurs
  <2>2. f = [k \in 0 .. Hgt |-> f[k]]
    BY <1>3 DEF Recurs
  <2> QED
    BY <2>1, <2>2
<1>5. FallOutRows(b) = (CHOOSE h : After(h))[Hgt]
  BY DEF FallOutRows, line, wide
<1>6. PICK h : h = (CHOOSE e : After(e)) /\ After(h)
  <2> HIDE DEF After
  <2> QED
    BY <1>4
<1>7. ASSUME NEW k \in 0 .. Hgt
      PROVE  h[k] = IF k = 0 THEN b ELSE RemoveLine(h[k - 1], line, wide)
  BY <1>6
<1> HIDE DEF After
<1> DEFINE S == {k \in 0 .. Hgt : h[k] \in V}
<1>8. 0 \in S
  <2>1. 0 \in 0 .. Hgt
    BY <1>1
  <2>2. h[0] = b
    BY <2>1, <1>7
  <2> QED
    BY <2>1, <2>2, <1>1
<1>9. ASSUME NEW k \in 0 .. Hgt - 1, k \in S
      PROVE  k + 1 \in S
  <2>1. k + 1 \in 1 .. Hgt /\ k + 1 \in 0 .. Hgt /\ k + 1 # 0 /\ (k + 1) - 1 = k
    BY <1>1
  <2>2. h[k + 1] = RemoveLine(h[k], line, wide)
    BY <1>7, <2>1
  <2> QED
    BY <1>9, <2>1, <2>2, <1>1
<1>10. Hgt \in S
  <2> HIDE DEF S
  <2>1. 0 .. Hgt \subseteq S
    BY <1>8, <1>9, <1>1, InductionUpTo
  <2> QED
    BY <2>1, <1>1
<1>11. FallOutRows(b) \in V
  BY <1>5, <1>6, <1>10
<1> QED
  BY <1>11 DEF V

LEMMA SetActiveType ==
    ASSUME NEW b \in BoardSet, NEW w \in Weapon, NEW on \in BOOLEAN
    PROVE  /\ SetActive(b, w, on) \in BoardSet
           /\ SetActive(b, w, on).active = IF on THEN b.active \cup {w} ELSE b.active \ {w}
           /\ SetActive(b, w, on).upside = b.upside
           /\ SetActive(b, w, on).cells = b.cells
BY DEF SetActive, BoardSet

\* What a weapon, in force by then, makes of the board: only Upbyside changes a flag and only a
\* Bottle, which puts up its walls, completes rows.
LEMMA ApplyWeaponHits ==
    ASSUME NEW b \in BoardSet, NEW w \in Weapon, NEW hit \in ApplyWeapon(b, w)
    PROVE  /\ hit.board \in BoardSet /\ hit.board.active = b.active
           /\ w = "Upbyside" => hit.board.upside = TRUE
           /\ w # "Upbyside" => hit.board.upside = b.upside
           /\ hit.lines \in Nat /\ (w # "Bottle" => hit.lines = 0)
           /\ w = "Bottle" \/ BottleStands(b) => BottleStands(hit.board)
<1> DEFINE Result(h) ==
               /\ h.board \in BoardSet /\ h.board.active = b.active
               /\ w = "Upbyside" => h.board.upside = TRUE
               /\ w # "Upbyside" => h.board.upside = b.upside
               /\ h.lines \in Nat /\ (w # "Bottle" => h.lines = 0)
               /\ w = "Bottle" \/ BottleStands(b) => BottleStands(h.board)
<1>1. ASSUME NEW bs, hit \in Quiet(bs), w \notin {"Upbyside", "Bottle"},
             \A c \in bs : Kept(c, b)
      PROVE  Result(hit)
  <2>1. hit.board \in bs /\ hit.lines = 0
    BY <1>1 DEF Quiet
  <2> QED
    BY <1>1, <2>1 DEF Kept, BoardSet
<1>2. CASE w = "Upbyside"
  <2> DEFINE c == IF ~b.upside /\ ~Computer THEN FlipHoriz(b) ELSE b
  <2>1. hit.board = [c EXCEPT !.upside = TRUE] /\ hit.lines = 0
    BY <1>2 DEF ApplyWeapon, Quiet
  <2>2. Kept(c, b)
    BY FlipHorizKeeps, KeptReflexive
  <2> HIDE DEF c
  <2>3. /\ hit.board \in BoardSet /\ hit.board.active = c.active /\ hit.board.upside = TRUE
        /\ hit.board.cells = c.cells
    BY <2>1, <2>2 DEF Kept, BoardSet
  <2>4. BottleStands(c) => BottleStands(hit.board)
    BY <2>3 DEF BottleStands
  <2> QED
    BY <1>2, <2>1, <2>2, <2>3, <2>4 DEF Kept
<1>3. CASE w \in {"PieceIt", "Bug"}
  <2>1. PICK cell \in Cell : ApplyWeapon(b, w) = Quiet(DropIn(b, cell))
    BY <1>3, CellTypes DEF ApplyWeapon
  <2> QED
    BY <1>1, <1>3, <2>1, DropInKeeps
<1>4. CASE w \in {"Missing", "Blind"}
  <2> DEFINE bs == {b} \cup {Paint(b, gone, Empty) : gone \in SUBSET Removables(b)}
  <2>1. hit \in Quiet(bs)
    BY <1>4 DEF ApplyWeapon, Quiet
  <2>2. \A gone \in SUBSET Removables(b) :
            \A s \in Squares : s \in gone => b.cells[s].kind # "structure"
    BY DEF Removables, IsRemovable
  <2>3. \A c \in bs : Kept(c, b)
    BY <2>2, KeptReflexive, PaintKeeps, CellTypes
  <2> HIDE DEF bs
  <2> QED
    BY <1>1, <1>4, <2>1, <2>3
<1>5. CASE w = "Gimp"
  <2> DEFINE cells == [s \in Squares |-> IF IsRemovable(b.cells[s]) THEN Gimp(b.cells[s])
                                                                   ELSE b.cells[s]]
  <2>1. ApplyWeapon(b, w) = Quiet({[b EXCEPT !.cells = cells]})
    BY <1>5 DEF ApplyWeapon, BoardSet
  <2>2. cells \in [Squares -> Cell]
    BY CellTypes DEF BoardSet, IsRemovable, Empty
  <2>3. \A s \in Squares : b.cells[s].kind = "structure" => cells[s].kind = "structure"
    BY DEF IsRemovable
  <2> HIDE DEF cells
  <2>4. Kept([b EXCEPT !.cells = cells], b)
    BY <2>2, <2>3, RecolourKeeps
  <2> QED
    BY <1>1, <1>5, <2>1, <2>4
<1>6. CASE w = "Twilight"
  <2> DEFINE cells == [s \in Squares |-> IF b.cells[s] = Empty THEN Empty
                                         ELSE [b.cells[s] EXCEPT !.hidden = TRUE]]
  <2>1. ApplyWeapon(b, w) = Quiet({[b EXCEPT !.cells = cells]})
    BY <1>6 DEF ApplyWeapon, BoardSet
  <2>2. \A s \in Squares : b.cells[s] \in Cell
    BY DEF BoardSet
  <2>3. cells \in [Squares -> Cell]
    BY <2>2, CellTypes
  <2>4. \A s \in Squares : b.cells[s].kind = "structure" => cells[s].kind = "structure"
    BY <2>2 DEF Cell, Empty
  <2> HIDE DEF cells
  <2>5. Kept([b EXCEPT !.cells = cells], b)
    BY <2>3, <2>4, RecolourKeeps
  <2> QED
    BY <1>1, <1>6, <2>1, <2>5
<1>7. CASE w = "FlipOut"
  <2>1. ApplyWeapon(b, w) = Quiet({FlipVert(b)})
    BY <1>7 DEF ApplyWeapon
  <2> QED
    BY <1>1, <1>7, <2>1, FlipVertKeeps
<1>8. CASE w = "FallOut"
  <2>1. ApplyWeapon(b, w) = Quiet({FallOutRows(b)})
    BY <1>8 DEF ApplyWeapon
  <2> QED
    BY <1>1, <1>8, <2>1, FallOutRowsKeeps
<1>9. CASE w = "Bottle"
  <2> DEFINE cells == [s \in Squares |-> IF s \in Walls THEN Structure ELSE b.cells[s]]
             c == [b EXCEPT !.cells = cells]
  <2>1. hit = CheckLines(c)
    BY <1>9 DEF ApplyWeapon, Paint, BoardSet
  <2>2. c \in BoardSet /\ c.active = b.active /\ c.upside = b.upside
    BY CellTypes DEF BoardSet
  <2>3. \A s \in Walls : c.cells[s].kind = "structure"
    BY WallSquare DEF Structure, CellOf, BoardSet
  <2>4. BottleStands(c)
    BY <2>3 DEF BottleStands
  <2> HIDE DEF c
  <2>5. Kept(hit.board, c) /\ hit.lines \in Nat
    BY <2>1, <2>2, CheckLinesKeeps
  <2> QED
    BY <1>9, <2>2, <2>4, <2>5 DEF Kept, BoardSet
<1>10. CASE w = "RiseUp"
  <2>1. ApplyWeapon(b, w) = Quiet({InsertLine(b, hole) : hole \in Cols})
    BY <1>10 DEF ApplyWeapon
  <2> QED
    BY <1>1, <1>10, <2>1, InsertLineKeeps
<1>11. CASE w \notin {"Upbyside", "PieceIt", "Bug", "Missing", "Blind", "Gimp", "Twilight",
                      "FlipOut", "FallOut", "Bottle", "RiseUp"}
  <2> DEFINE bs == {b}
  <2>1. hit \in Quiet(bs)
    BY <1>11 DEF ApplyWeapon
  <2>2. \A c \in bs : Kept(c, b)
    BY KeptReflexive
  <2>3. w \notin {"Upbyside", "Bottle"}
    BY <1>11
  <2> HIDE DEF bs
  <2> QED
    BY <1>1, <2>1, <2>2, <2>3
<1> HIDE DEF Result
<1>12. Result(hit)
  BY <1>2, <1>3, <1>4, <1>5, <1>6, <1>7, <1>8, <1>9, <1>10, <1>11 DEF Result
<1> QED
  BY <1>12 DEF Result

LEMMA FlagStruckOff ==
    ASSUME NEW b \in BoardSet, NEW w \in Weapon, NEW c, c = SetActive(b, w, FALSE)
    PROVE  /\ c \in BoardSet /\ c.active = b.active \ {w} /\ c.upside = b.upside
           /\ w = "Bottle" \/ BottleStands(b) => BottleStands(c)
<1>1. c \in BoardSet /\ c.active = b.active \ {w} /\ c.upside = b.upside /\ c.cells = b.cells
  BY SetActiveType
<1> QED
  BY <1>1 DEF BottleStands

\* A weapon goes off.  Its board may have lost the Bottle's walls, which are then no longer asked for.
LEMMA RevertWeaponType ==
    ASSUME NEW b \in BoardSet, NEW w \in Weapon
    PROVE  \A c : c = SetActive(RevertWeapon(b, w), w, FALSE) =>
           /\ c \in BoardSet /\ c.active = b.active \ {w}
           /\ w = "Upbyside" => c.upside = FALSE
           /\ w # "Upbyside" => c.upside = b.upside
           /\ BottleStands(b) => BottleStands(c)
<1> PICK r : r = RevertWeapon(b, w)
  OBVIOUS
<1> SUFFICES ASSUME NEW c, c = SetActive(r, w, FALSE)
             PROVE  /\ c \in BoardSet /\ c.active = b.active \ {w}
                    /\ w = "Upbyside" => c.upside = FALSE
                    /\ w # "Upbyside" => c.upside = b.upside
                    /\ BottleStands(b) => BottleStands(c)
  OBVIOUS
<1>1. CASE w = "Upbyside"
  <2> DEFINE d == IF Computer THEN b ELSE FlipHoriz(b)
  <2>1. r = [d EXCEPT !.upside = FALSE]
    BY <1>1 DEF RevertWeapon
  <2>2. Kept(d, b)
    BY FlipHorizKeeps, KeptReflexive
  <2> HIDE DEF d
  <2>3. r \in BoardSet /\ r.active = b.active /\ r.upside = FALSE
        /\ (BottleStands(b) => BottleStands(r))
    BY <2>1, <2>2 DEF Kept, BoardSet, BottleStands
  <2> QED
    <3>1. r \in BoardSet
      BY <2>3
    <3>2. /\ c \in BoardSet /\ c.active = r.active \ {w} /\ c.upside = r.upside
          /\ w = "Bottle" \/ BottleStands(r) => BottleStands(c)
      BY <3>1, FlagStruckOff
    <3> QED
      BY <1>1, <2>3, <3>2
<1>2. CASE w = "Bottle"
  <2> DEFINE cells == [s \in Squares |-> IF s \in Walls THEN Empty ELSE b.cells[s]]
  <2>1. r = [b EXCEPT !.cells = cells]
    BY <1>2 DEF RevertWeapon, Paint, BoardSet
  <2>2. r \in BoardSet /\ r.active = b.active /\ r.upside = b.upside
    BY <2>1, CellTypes DEF BoardSet
  <2> QED
    <3>1. r \in BoardSet
      BY <2>2
    <3>2. /\ c \in BoardSet /\ c.active = r.active \ {w} /\ c.upside = r.upside
          /\ w = "Bottle" \/ BottleStands(r) => BottleStands(c)
      BY <3>1, FlagStruckOff
    <3> QED
      BY <1>2, <2>2, <3>2
<1>3. CASE w \notin {"Upbyside", "Bottle"}
  <2>1. r = b
    BY <1>3 DEF RevertWeapon
  <2> QED
    BY <1>3, <2>1, FlagStruckOff
<1> QED
  BY <1>1, <1>2, <1>3

-----------------------------------------------------------------------------
(* Weapons on and off.                                                     *)

LEMMA ClockValues ==
    /\ DropTime \in Nat /\ FastDropTime \in Nat /\ DropTime \div 2 \in Nat
    /\ (DropTime * 1) \div 1 = DropTime /\ (DropTime * 2) \div 1 = 2 * DropTime
    /\ (DropTime * 1) \div 2 = DropTime \div 2 /\ (DropTime * 2) \div 2 = DropTime
    /\ 2 * (DropTime \div 2) = DropTime /\ (2 * DropTime) \div 2 = DropTime
    /\ FastDropTime * 1 = FastDropTime /\ FastDropTime * 2 = 2 * FastDropTime
    /\ (2 * FastDropTime) \div 2 = FastDropTime
BY GameAssumption

\* The draw, as a predicate on the kinds in it and the weapons in force.
Stocked(kinds, ws) ==
    /\ kinds \subseteq Default \cup (IF "FearedWeird" \in ws THEN Weird ELSE {})
                       \cup (IF "FourByFour" \in ws THEN {"FourByFour"} ELSE {})
    /\ \A k \in Default \ kinds :
          \/ k \in Standard /\ "FearedWeird" \in ws
          \/ k = "Box" /\ "FourByFour" \in ws
          \/ k = "Die" /\ "NoDice" \in ws
          \/ k = "Long" /\ "SoLong" \in ws

Supply(m, ws) == Stocked(m.supply, ws) /\ (m.broken => "Broken" \in ws)

LEMMA KindSets ==
    /\ Standard \subseteq Default /\ Default \cap Weird = {}
    /\ Default \subseteq PieceKind /\ Weird \subseteq PieceKind
    /\ "FourByFour" \in PieceKind /\ "FourByFour" \notin Default /\ "FourByFour" \notin Weird
    /\ "Box" \in Standard /\ "Long" \in Standard
    /\ "Die" \in Default /\ "Die" \notin Standard
BY DEF Default, Standard, Weird, PieceKind

LEMMA StockSet ==
    ASSUME NEW m \in ManagerSet, NEW s \in SUBSET PieceKind, NEW ws, NEW vs, Supply(m, ws),
           Stocked(s, vs), "Broken" \in ws => "Broken" \in vs
    PROVE  [m EXCEPT !.supply = s] \in ManagerSet /\ Supply([m EXCEPT !.supply = s], vs)
BY DEF ManagerSet, Supply

LEMMA PiecesOffSupplied ==
    ASSUME NEW m \in ManagerSet, NEW w \in Weapon, NEW ws \in SUBSET Weapon, Supply(m, ws)
    PROVE  PiecesOff(m, w) \in ManagerSet /\ Supply(PiecesOff(m, w), ws \ {w})
<1> PICK s : s = m.supply
  OBVIOUS
<1>1. s \in SUBSET PieceKind /\ Stocked(s, ws)
  BY DEF ManagerSet, Supply
<1>2. CASE w = "FearedWeird"
  <2>1. PiecesOff(m, w) = [m EXCEPT !.supply = (s \ Weird) \cup Standard]
    BY <1>2 DEF PiecesOff
  <2>2. (s \ Weird) \cup Standard \in SUBSET PieceKind
    BY <1>1, KindSets
  <2>3. Stocked((s \ Weird) \cup Standard, ws \ {w})
    BY <1>1, <1>2, KindSets DEF Stocked
  <2> QED
    BY <1>2, <2>1, <2>2, <2>3, StockSet
<1>3. CASE w = "FourByFour"
  <2>1. PiecesOff(m, w) = [m EXCEPT !.supply = (s \ {"FourByFour"}) \cup {"Box"}]
    BY <1>3 DEF PiecesOff
  <2>2. (s \ {"FourByFour"}) \cup {"Box"} \in SUBSET PieceKind
    BY <1>1, KindSets
  <2>3. Stocked((s \ {"FourByFour"}) \cup {"Box"}, ws \ {w})
    BY <1>1, <1>3, KindSets DEF Stocked
  <2> QED
    BY <1>3, <2>1, <2>2, <2>3, StockSet
<1>4. CASE w = "Broken"
  <2>1. PiecesOff(m, w) = [m EXCEPT !.broken = FALSE]
    BY <1>4 DEF PiecesOff
  <2>2. PiecesOff(m, w) \in ManagerSet /\ PiecesOff(m, w).supply = s
        /\ PiecesOff(m, w).broken = FALSE
    BY <2>1 DEF ManagerSet
  <2>3. Stocked(s, ws \ {w})
    BY <1>1, <1>4 DEF Stocked
  <2> QED
    BY <2>2, <2>3 DEF Supply
<1>5. CASE w = "NoDice"
  <2>1. PiecesOff(m, w) = [m EXCEPT !.supply = s \cup {"Die"}]
    BY <1>5 DEF PiecesOff
  <2>2. s \cup {"Die"} \in SUBSET PieceKind
    BY <1>1, KindSets
  <2>3. Stocked(s \cup {"Die"}, ws \ {w})
    BY <1>1, <1>5, KindSets DEF Stocked
  <2> QED
    BY <1>5, <2>1, <2>2, <2>3, StockSet
<1>6. CASE w = "SoLong"
  <2>1. PiecesOff(m, w) = [m EXCEPT !.supply = s \cup {"Long"}]
    BY <1>6 DEF PiecesOff
  <2>2. s \cup {"Long"} \in SUBSET PieceKind
    BY <1>1, KindSets
  <2>3. Stocked(s \cup {"Long"}, ws \ {w})
    BY <1>1, <1>6, KindSets DEF Stocked
  <2> QED
    BY <1>6, <2>1, <2>2, <2>3, StockSet
<1>7. CASE w \notin {"FearedWeird", "FourByFour", "Broken", "NoDice", "SoLong"}
  <2>1. PiecesOff(m, w) = m
    BY <1>7 DEF PiecesOff
  <2>2. Stocked(s, ws \ {w})
    BY <1>1, <1>7 DEF Stocked
  <2> QED
    BY <1>7, <2>1, <2>2 DEF Supply
<1> QED
  BY <1>2, <1>3, <1>4, <1>5, <1>6, <1>7

LEMMA PiecesOnSupplied ==
    ASSUME NEW m \in ManagerSet, NEW w \in Weapon, NEW ws \in SUBSET Weapon, w \in ws,
           Supply(m, ws)
    PROVE  PiecesOn(m, w) \in ManagerSet /\ Supply(PiecesOn(m, w), ws)
<1> PICK s : s = m.supply
  OBVIOUS
<1>1. s \in SUBSET PieceKind /\ Stocked(s, ws)
  BY DEF ManagerSet, Supply
<1>2. CASE w = "FearedWeird"
  <2>1. PiecesOn(m, w) = [m EXCEPT !.supply = (s \ Standard) \cup Weird]
    BY <1>2 DEF PiecesOn
  <2>2. (s \ Standard) \cup Weird \in SUBSET PieceKind
    BY <1>1, KindSets
  <2>3. Stocked((s \ Standard) \cup Weird, ws)
    BY <1>1, <1>2, KindSets DEF Stocked
  <2> QED
    BY <1>2, <2>1, <2>2, <2>3, StockSet
<1>3. CASE w = "FourByFour"
  <2>1. PiecesOn(m, w) = [m EXCEPT !.supply = (s \ {"Box"}) \cup {"FourByFour"}]
    BY <1>3 DEF PiecesOn
  <2>2. (s \ {"Box"}) \cup {"FourByFour"} \in SUBSET PieceKind
    BY <1>1, KindSets
  <2>3. Stocked((s \ {"Box"}) \cup {"FourByFour"}, ws)
    BY <1>1, <1>3, KindSets DEF Stocked
  <2> QED
    BY <1>3, <2>1, <2>2, <2>3, StockSet
<1>4. CASE w = "Broken"
  <2>1. PiecesOn(m, w) = [m EXCEPT !.broken = TRUE]
    BY <1>4 DEF PiecesOn
  <2>2. PiecesOn(m, w) \in ManagerSet /\ PiecesOn(m, w).supply = s
    BY <2>1 DEF ManagerSet
  <2> QED
    BY <1>1, <1>4, <2>2 DEF Supply
<1>5. CASE w = "NoDice"
  <2>1. PiecesOn(m, w) = [m EXCEPT !.supply = s \ {"Die"}]
    BY <1>5 DEF PiecesOn
  <2>2. s \ {"Die"} \in SUBSET PieceKind
    BY <1>1
  <2>3. Stocked(s \ {"Die"}, ws)
    BY <1>1, <1>5, KindSets DEF Stocked
  <2> QED
    BY <1>5, <2>1, <2>2, <2>3, StockSet
<1>6. CASE w = "SoLong"
  <2>1. PiecesOn(m, w) = [m EXCEPT !.supply = s \ {"Long"}]
    BY <1>6 DEF PiecesOn
  <2>2. s \ {"Long"} \in SUBSET PieceKind
    BY <1>1
  <2>3. Stocked(s \ {"Long"}, ws)
    BY <1>1, <1>6, KindSets DEF Stocked
  <2> QED
    BY <1>6, <2>1, <2>2, <2>3, StockSet
<1>7. CASE w \notin {"FearedWeird", "FourByFour", "Broken", "NoDice", "SoLong"}
  <2>1. PiecesOn(m, w) = m \/ PiecesOn(m, w) = [m EXCEPT !.hapOn = @ + 1]
    BY <1>7 DEF PiecesOn
  <2> QED
    BY <2>1 DEF ManagerSet, Supply
<1> QED
  BY <1>2, <1>3, <1>4, <1>5, <1>6, <1>7

\* A weapon in force goes off.
LEMMA WeaponOffUndoes ==
    ASSUME NEW g \in GameSet, NEW w \in g.weapons, Framed(g), Clocked(g), Supplied(g)
    PROVE  LET h == WeaponOff(g, w) IN
           /\ h \in GameSet /\ h.weapons = g.weapons \ {w}
           /\ h.remaining = g.remaining /\ h.pending = g.pending
           /\ Framed(h) /\ Clocked(h) /\ Supplied(h)
           /\ w = "Bottle" \/ BottleStands(g.board) => BottleStands(h.board)
<1>1. PICK board : board = SetActive(RevertWeapon(g.board, w), w, FALSE)
  OBVIOUS
<1>2. PICK pieces : pieces = PiecesOff(g.pieces, w)
  OBVIOUS
<1>3. w \in Weapon /\ g.board \in BoardSet /\ g.pieces \in ManagerSet
      /\ g.weapons \in SUBSET Weapon /\ g.board.active = g.weapons
  BY DEF GameSet, Framed
<1>4. /\ board \in BoardSet /\ board.active = g.weapons \ {w}
      /\ w = "Upbyside" => board.upside = FALSE
      /\ w # "Upbyside" => board.upside = g.board.upside
      /\ w = "Bottle" \/ BottleStands(g.board) => BottleStands(board)
  <2>1. /\ board \in BoardSet /\ board.active = g.board.active \ {w}
        /\ w = "Upbyside" => board.upside = FALSE
        /\ w # "Upbyside" => board.upside = g.board.upside
        /\ BottleStands(g.board) => BottleStands(board)
    <3>1. PICK b : b = g.board
      OBVIOUS
    <3>2. b \in BoardSet /\ w \in Weapon /\ board = SetActive(RevertWeapon(b, w), w, FALSE)
      BY <1>1, <1>3, <3>1
    <3>3. /\ board \in BoardSet /\ board.active = b.active \ {w}
          /\ w = "Upbyside" => board.upside = FALSE
          /\ w # "Upbyside" => board.upside = b.upside
          /\ BottleStands(b) => BottleStands(board)
      <4>1. \A c : c = SetActive(RevertWeapon(b, w), w, FALSE) =>
              /\ c \in BoardSet /\ c.active = b.active \ {w}
              /\ w = "Upbyside" => c.upside = FALSE
              /\ w # "Upbyside" => c.upside = b.upside
              /\ BottleStands(b) => BottleStands(c)
        BY <3>2, RevertWeaponType
      <4> QED
        BY <3>2, <4>1
    <3> QED
      BY <3>1, <3>3
  <2>2. w = "Bottle" => BottleStands(board)
    BY <2>1 DEF BottleStands
  <2> QED
    BY <1>3, <2>1, <2>2
<1>5. pieces \in ManagerSet /\ Supply(pieces, g.weapons \ {w})
  BY <1>2, <1>3, PiecesOffSupplied DEF Supplied, Supply, Stocked
<1> DEFINE off == [g EXCEPT !.weapons = @ \ {w}, !.board = board, !.pieces = pieces]
<1>6. WeaponOff(g, w) =
        CASE w = "Upbyside" -> [off EXCEPT !.defX = DefX, !.defY = DefY,
                                           !.down = 1, !.left = -1]
          [] w = "Speedy" -> [off EXCEPT !.base = 2 * @]
          [] w = "Meadow" -> [off EXCEPT !.base = @ \div 2, !.fast = @ \div 2]
          [] OTHER -> off
  BY <1>1, <1>2 DEF WeaponOff, GameSet
<1>7. off \in GameSet
  BY <1>4, <1>5 DEF GameSet
<1>8. /\ off.weapons = g.weapons \ {w} /\ off.board = board /\ off.pieces = pieces
      /\ off.remaining = g.remaining /\ off.pending = g.pending
      /\ off.defX = g.defX /\ off.defY = g.defY /\ off.down = g.down /\ off.left = g.left
      /\ off.base = g.base /\ off.fast = g.fast
  BY DEF GameSet
<1> HIDE DEF off
<1> PICK h : h = WeaponOff(g, w)
  OBVIOUS
<1> DEFINE Rest9(e) ==
      /\ e \in GameSet
      /\ e.weapons = off.weapons /\ e.board = off.board /\ e.pieces = off.pieces
      /\ e.remaining = off.remaining /\ e.pending = off.pending
<1>9. /\ Rest9(h)
      /\ w = "Upbyside" => h.defX = DefX /\ h.defY = DefY /\ h.down = 1 /\ h.left = -1
      /\ w # "Upbyside" => h.defX = off.defX /\ h.defY = off.defY /\ h.down = off.down
                           /\ h.left = off.left
      /\ h.base = (IF w = "Speedy" THEN 2 * off.base
                   ELSE IF w = "Meadow" THEN off.base \div 2 ELSE off.base)
      /\ h.fast = IF w = "Meadow" THEN off.fast \div 2 ELSE off.fast
  <2>1. DefX \in Int /\ DefY \in Int
    BY GameAssumption DEF Cols, Rows
  <2>2. off.base \in Nat /\ off.fast \in Nat /\ off.base \div 2 \in Nat
        /\ off.fast \div 2 \in Nat /\ 2 * off.base \in Nat
    <3>1. off.base \in Nat /\ off.fast \in Nat
      BY <1>7 DEF GameSet
    <3> QED
      BY <3>1
  <2>3. CASE w = "Upbyside"
    <3>1. h = [off EXCEPT !.defX = DefX, !.defY = DefY, !.down = 1, !.left = -1]
      BY <1>6, <2>3
    <3>2. h \in GameSet
      <4>1. [off EXCEPT !.defX = DefX] \in GameSet
        BY <1>7, <2>1 DEF GameSet
      <4>2. PICK a : a = [off EXCEPT !.defX = DefX]
        OBVIOUS
      <4>3. [a EXCEPT !.defY = DefY] \in GameSet
        BY <4>1, <4>2, <2>1, ZenonT(60) DEF GameSet
      <4>4. PICK b : b = [a EXCEPT !.defY = DefY]
        OBVIOUS
      <4>5. [b EXCEPT !.down = 1] \in GameSet
        BY <4>3, <4>4, ZenonT(60) DEF GameSet
      <4>6. PICK c : c = [b EXCEPT !.down = 1]
        OBVIOUS
      <4>7. [c EXCEPT !.left = -1] \in GameSet
        BY <4>5, <4>6, ZenonT(60) DEF GameSet
      <4> QED
        BY <3>1, <4>2, <4>4, <4>6, <4>7
    <3>3. /\ h.weapons = off.weapons /\ h.board = off.board /\ h.pieces = off.pieces
          /\ h.remaining = off.remaining /\ h.pending = off.pending
      BY <3>1, <1>7 DEF GameSet
    <3>4. h.defX = DefX /\ h.defY = DefY /\ h.down = 1 /\ h.left = -1
          /\ h.base = off.base /\ h.fast = off.fast
      BY <3>1, <1>7 DEF GameSet
    <3> QED
      BY <3>2, <3>3, <3>4, <2>3
  <2>4. CASE w = "Speedy"
    <3>1. h = [off EXCEPT !.base = 2 * @]
      BY <1>6, <2>4
    <3>2. Rest9(h) /\ h.defX = off.defX /\ h.defY = off.defY /\ h.down = off.down
          /\ h.left = off.left /\ h.base = 2 * off.base /\ h.fast = off.fast
      BY <3>1, <1>7, <2>2, ZenonT(60) DEF GameSet
    <3> QED
      BY <3>2, <2>4
  <2>5. CASE w = "Meadow"
    <3>1. h = [off EXCEPT !.base = @ \div 2, !.fast = @ \div 2]
      BY <1>6, <2>5
    <3>2. Rest9(h) /\ h.defX = off.defX /\ h.defY = off.defY /\ h.down = off.down
          /\ h.left = off.left /\ h.base = off.base \div 2 /\ h.fast = off.fast \div 2
      BY <3>1, <1>7, <2>2, ZenonT(60) DEF GameSet
    <3> QED
      BY <3>2, <2>5
  <2>6. CASE w \notin {"Upbyside", "Speedy", "Meadow"}
    <3>1. h = off
      BY <1>6, <2>6
    <3> QED
      BY <3>1, <1>7, <2>6
  <2> QED
    BY <2>3, <2>4, <2>5, <2>6
<1>10. Framed(h)
  <2>1. h.board.active = h.weapons /\ h.defX = DefX
    BY <1>4, <1>8, <1>9 DEF Framed
  <2>2. CASE w = "Upbyside"
    <3>1. "Upbyside" \notin h.weapons /\ h.board.upside = FALSE
      BY <1>4, <1>8, <1>9, <2>2
    <3>2. h.defY = DefY /\ h.down = 1 /\ h.left = -1
      BY <1>9, <2>2
    <3>3. h.board.upside <=> "Upbyside" \in h.weapons
      BY <3>1
    <3>4. h.left = -h.down
      BY <3>2
    <3> QED
      BY <2>1, <3>1, <3>2, <3>3, <3>4 DEF Framed
  <2>3. CASE w # "Upbyside"
    <3>1. ("Upbyside" \in h.weapons) = ("Upbyside" \in g.weapons)
          /\ h.board.upside = g.board.upside
      BY <1>4, <1>8, <1>9, <2>3
    <3>2. h.defY = g.defY /\ h.down = g.down /\ h.left = g.left
      BY <1>8, <1>9, <2>3
    <3> QED
      BY <2>1, <3>1, <3>2 DEF Framed
  <2> QED
    BY <2>2, <2>3
<1>11. Clocked(h)
  <2>1. h.weapons = g.weapons \ {w}
    BY <1>8, <1>9
  <2>2. h.base = (IF w = "Speedy" THEN 2 * g.base
                  ELSE IF w = "Meadow" THEN g.base \div 2 ELSE g.base)
        /\ h.fast = IF w = "Meadow" THEN g.fast \div 2 ELSE g.fast
    BY <1>8, <1>9
  <2> QED
    BY <2>1, <2>2, ClockValues DEF Clocked
<1>12. Supplied(h)
  BY <1>5, <1>8, <1>9 DEF Supplied, Supply, Stocked
<1>13. w = "Bottle" \/ BottleStands(g.board) => BottleStands(h.board)
  BY <1>4, <1>8, <1>9
<1> QED
  BY <1>8, <1>9, <1>10, <1>11, <1>12, <1>13

\* The games met within a lock: as many weapons wait in them as the bound says.
GoodGames(most) == {g \in GameSet : GameOK(g) /\ Len(g.pending) <= most}

LEMMA BooleansEqual ==
    ASSUME NEW a \in BOOLEAN, NEW b \in BOOLEAN, a <=> b
    PROVE  a = b
OBVIOUS

\* A change to what no part of the invariant looks at.
LEMMA SameParts ==
    ASSUME NEW g, GameOK(g), NEW h \in GameSet,
           h.board = g.board, h.pieces = g.pieces, h.weapons = g.weapons,
           h.remaining = g.remaining, h.defX = g.defX, h.defY = g.defY,
           h.down = g.down, h.left = g.left, h.base = g.base, h.fast = g.fast
    PROVE  GameOK(h)
<1>1. Framed(h)
  BY DEF GameOK, Framed
<1>2. Clocked(h)
  BY DEF GameOK, Clocked
<1>3. Supplied(h)
  BY DEF GameOK, Supplied
<1>4. CountsInForce(h) /\ BottleStands(h.board)
  BY DEF GameOK, CountsInForce
<1> QED
  BY <1>1, <1>2, <1>3, <1>4 DEF GameOK

LEMMA UpdateBazaarKeeps ==
    ASSUME NEW most, NEW g \in GoodGames(most)
    PROVE  UpdateBazaar(g) \in GoodGames(most)
<1>1. g \in GameSet /\ GameOK(g)
  BY DEF GoodGames
<1>2. PICK til : til = LinesTilBaz - ((g.opLines + g.lines) % LinesTilBaz)
  OBVIOUS
<1>3. til \in Int /\ (g.inBazaar \/ til > g.til) \in BOOLEAN
  BY <1>1, <1>2, GameAssumption DEF GameSet
<1>4. PICK open : open = (g.inBazaar \/ til > g.til)
  OBVIOUS
<1>5. PICK h : h = UpdateBazaar(g)
  OBVIOUS
<1>6. h = [g EXCEPT !.til = til, !.inBazaar = open]
  BY <1>1, <1>2, <1>4, <1>5 DEF UpdateBazaar, GameSet
<1>7. /\ h \in GameSet /\ h.pending = g.pending
      /\ h.board = g.board /\ h.pieces = g.pieces /\ h.weapons = g.weapons
      /\ h.remaining = g.remaining /\ h.defX = g.defX /\ h.defY = g.defY
      /\ h.down = g.down /\ h.left = g.left /\ h.base = g.base /\ h.fast = g.fast
  BY <1>1, <1>3, <1>4, <1>6, ZenonT(60) DEF GameSet
<1>8. GameOK(h)
  BY <1>1, <1>7, SameParts
<1> QED
  BY <1>5, <1>7, <1>8 DEF GoodGames

\* A weapon's lines go down, and with the last of them the weapon goes off.
LEMMA TickDurationKeeps ==
    ASSUME NEW most, NEW g \in GoodGames(most), NEW w \in Weapon, NEW n \in Nat
    PROVE  TickDuration(g, w, n) \in GoodGames(most)
<1>1. g \in GameSet /\ GameOK(g) /\ Len(g.pending) <= most
  BY DEF GoodGames
<1>2. g.remaining \in [Weapon -> Nat] /\ g.remaining[w] \in Nat
  BY <1>1 DEF GameSet
<1>3. CASE g.remaining[w] = 0
  BY <1>3 DEF TickDuration
<1>4. CASE g.remaining[w] > n
  <2> DEFINE left == [g.remaining EXCEPT ![w] = @ - n]
  <2>1. left \in [Weapon -> Nat]
    BY <1>2, <1>4
  <2>2. \A v \in Weapon : left[v] > 0 => g.remaining[v] > 0
    BY <1>2, <1>4
  <2> HIDE DEF left
  <2>3. PICK h : h = [g EXCEPT !.remaining = left]
    OBVIOUS
  <2>4. TickDuration(g, w, n) = h
    BY <1>2, <1>4, <2>3 DEF TickDuration, left
  <2>5. /\ h \in GameSet /\ h.pending = g.pending /\ h.remaining = left
        /\ h.board = g.board /\ h.pieces = g.pieces /\ h.weapons = g.weapons
        /\ h.defX = g.defX /\ h.defY = g.defY
        /\ h.down = g.down /\ h.left = g.left /\ h.base = g.base /\ h.fast = g.fast
    BY <1>1, <2>1, <2>3 DEF GameSet
  <2>6. Framed(h)
    BY <1>1, <2>5 DEF GameOK, Framed
  <2>7. Clocked(h) /\ BottleStands(h.board)
    BY <1>1, <2>5 DEF GameOK, Clocked
  <2>8. Supplied(h)
    BY <1>1, <2>5 DEF GameOK, Supplied
  <2>9. CountsInForce(h)
    BY <1>1, <2>2, <2>5 DEF GameOK, CountsInForce
  <2> QED
    BY <1>1, <2>4, <2>5, <2>6, <2>7, <2>8, <2>9 DEF GoodGames, GameOK
<1>5. CASE g.remaining[w] # 0 /\ ~(g.remaining[w] > n)
  <2> DEFINE left == [g.remaining EXCEPT ![w] = 0]
  <2>1. left \in [Weapon -> Nat] /\ left[w] = 0 /\ \A v \in Weapon \ {w} : left[v] = g.remaining[v]
    BY <1>2
  <2> HIDE DEF left
  <2>2. PICK e : e = [g EXCEPT !.remaining = left]
    OBVIOUS
  <2>3. PICK h : h = WeaponOff(e, w)
    OBVIOUS
  <2>4. TickDuration(g, w, n) = h
    BY <1>5, <2>2, <2>3 DEF TickDuration, left
  <2>5. w \in g.weapons
    BY <1>1, <1>2, <1>5 DEF GameOK, CountsInForce
  <2>12. e \in GameSet
    <3>1. left \in [Weapon -> Nat]
      BY <2>1
    <3> QED
      BY <1>1, <2>2, <3>1 DEF GameSet
  <2>6. /\ e.pending = g.pending /\ e.remaining = left
        /\ e.board = g.board /\ e.pieces = g.pieces /\ e.weapons = g.weapons
        /\ e.defX = g.defX /\ e.defY = g.defY
        /\ e.down = g.down /\ e.left = g.left /\ e.base = g.base /\ e.fast = g.fast
    BY <1>1, <2>1, <2>2 DEF GameSet
  <2>7. Framed(e) /\ w \in e.weapons
    BY <1>1, <2>5, <2>6 DEF GameOK, Framed
  <2>8. Clocked(e) /\ BottleStands(e.board)
    BY <1>1, <2>6 DEF GameOK, Clocked
  <2>9. Supplied(e)
    BY <1>1, <2>6 DEF GameOK, Supplied
  <2>10. /\ h \in GameSet /\ h.weapons = e.weapons \ {w}
         /\ h.remaining = e.remaining /\ h.pending = e.pending
         /\ Framed(h) /\ Clocked(h) /\ Supplied(h)
         /\ w = "Bottle" \/ BottleStands(e.board) => BottleStands(h.board)
    BY <2>3, <2>7, <2>8, <2>9, <2>12, WeaponOffUndoes
  <2>11. CountsInForce(h)
    BY <1>1, <2>1, <2>6, <2>10 DEF GameOK, CountsInForce
  <2> QED
    BY <1>1, <2>4, <2>6, <2>8, <2>10, <2>11 DEF GoodGames, GameOK
<1> QED
  BY <1>3, <1>4, <1>5

LEMMA TickDurationsKeeps ==
    ASSUME NEW most, NEW g \in GoodGames(most), NEW n \in Nat
    PROVE  TickDurations(g, n) \in GoodGames(most)
<1> DEFINE last == Len(WeaponNo)
           Good == GoodGames(most)
<1>1. /\ last \in Nat /\ g \in Good
      /\ \A k \in 1 .. last, v \in Good : TickDuration(v, WeaponNo[k], n) \in Good
  <2>1. last \in Nat /\ \A k \in 1 .. last : WeaponNo[k] \in Weapon
    BY GameAssumption
  <2> QED
    BY <2>1, TickDurationKeeps
<1> HIDE DEF last, Good
<1> DEFINE After(f) == f = [k \in 0 .. last |-> IF k = 0 THEN g ELSE TickDuration(f[k - 1], WeaponNo[k], n)]
           step == [kv \in Nat \X Good |->
                      IF kv[1] \in 1 .. last THEN TickDuration(kv[2], WeaponNo[kv[1]], n) ELSE kv[2]]
<1>2. step \in [Nat \X Good -> Good]
  <2>1. ASSUME NEW kv \in Nat \X Good
        PROVE  (IF kv[1] \in 1 .. last THEN TickDuration(kv[2], WeaponNo[kv[1]], n) ELSE kv[2]) \in Good
    <3>1. kv[2] \in Good
      OBVIOUS
    <3> QED
      BY <3>1, <1>1
  <2> QED
    BY <2>1
<1>3. PICK f : Recurs(f, Good, g, step, last)
  <2> HIDE DEF step, After
  <2> QED
    BY <1>1, <1>2, RecursiveFunction
<1>4. After(f)
  <2>1. ASSUME NEW k \in 0 .. last
        PROVE  f[k] = IF k = 0 THEN g ELSE TickDuration(f[k - 1], WeaponNo[k], n)
    <3>1. k # 0 => k \in 1 .. last /\ k \in Nat /\ k - 1 \in 0 .. last
      BY <1>1
    <3>2. k # 0 => <<k, f[k - 1]>> \in Nat \X Good /\ f[k] = step[<<k, f[k - 1]>>]
      <4> HIDE DEF step
      <4> QED
        BY <1>3, <3>1 DEF Recurs
    <3> QED
      BY <1>3, <3>1, <3>2 DEF Recurs
  <2>2. f = [k \in 0 .. last |-> f[k]]
    BY <1>3 DEF Recurs
  <2> QED
    BY <2>1, <2>2
<1>5. TickDurations(g, n) = (CHOOSE h : After(h))[last]
  BY DEF TickDurations, last
<1>6. PICK h : h = (CHOOSE e : After(e)) /\ After(h)
  <2> HIDE DEF After
  <2> QED
    BY <1>4
<1>7. ASSUME NEW k \in 0 .. last
      PROVE  h[k] = IF k = 0 THEN g ELSE TickDuration(h[k - 1], WeaponNo[k], n)
  BY <1>6
<1> HIDE DEF After
<1> DEFINE S == {k \in 0 .. last : h[k] \in Good}
<1>8. 0 \in S
  <2>1. 0 \in 0 .. last
    BY <1>1
  <2>2. h[0] = g
    BY <2>1, <1>7
  <2> QED
    BY <2>1, <2>2, <1>1
<1>9. ASSUME NEW k \in 0 .. last - 1, k \in S
      PROVE  k + 1 \in S
  <2>1. k + 1 \in 1 .. last /\ k + 1 \in 0 .. last /\ k + 1 # 0 /\ (k + 1) - 1 = k
    BY <1>1
  <2>2. h[k + 1] = TickDuration(h[k], WeaponNo[k + 1], n)
    BY <1>7, <2>1
  <2> QED
    BY <1>9, <2>1, <2>2, <1>1
<1>10. last \in S
  <2> HIDE DEF S
  <2>1. 0 .. last \subseteq S
    BY <1>8, <1>9, <1>1, InductionUpTo
  <2> QED
    BY <2>1, <1>1
<1>11. TickDurations(g, n) \in Good
  BY <1>5, <1>6, <1>10
<1> QED
  BY <1>11 DEF Good

LEMMA ClearedKeeps ==
    ASSUME NEW most, NEW g \in GoodGames(most), NEW n \in Nat
    PROVE  Cleared(g, n) \in GoodGames(most)
<1>1. g \in GameSet /\ GameOK(g)
  BY DEF GoodGames
<1>2. PICK e : e = [g EXCEPT !.lines = @ + n]
  OBVIOUS
<1>7. e \in GameSet
  <2>1. g.lines + n \in Nat
    BY <1>1, SMTT(30) DEF GameSet
  <2>2. PICK lines : lines = g.lines + n
    OBVIOUS
  <2>3. e = [g EXCEPT !.lines = lines]
    BY <1>2, <2>2
  <2> QED
    <3>1. lines \in Nat
      BY <2>1, <2>2
    <3> QED
      BY <1>1, <2>3, <3>1, ZenonT(60) DEF GameSet
<1>3. /\ e.pending = g.pending
      /\ e.board = g.board /\ e.pieces = g.pieces /\ e.weapons = g.weapons
      /\ e.remaining = g.remaining /\ e.defX = g.defX /\ e.defY = g.defY
      /\ e.down = g.down /\ e.left = g.left /\ e.base = g.base /\ e.fast = g.fast
  BY <1>1, <1>2 DEF GameSet
<1>4. GameOK(e)
  BY <1>1, <1>3, <1>7, SameParts
<1>5. e \in GoodGames(most)
  BY <1>3, <1>4, <1>7 DEF GoodGames
<1>6. TickDurations(UpdateBazaar(e), n) \in GoodGames(most)
  BY <1>5, UpdateBazaarKeeps, TickDurationsKeeps
<1> QED
  BY <1>2, <1>6 DEF Cleared

LEMMA SetClock ==
    ASSUME NEW f \in GameSet, NEW base \in Nat, NEW fast \in Nat
    PROVE  [f EXCEPT !.base = base, !.fast = fast] \in GameSet
BY DEF GameSet

LEMMA SetDrop ==
    ASSUME NEW f \in GameSet, NEW drop \in Nat
    PROVE  [f EXCEPT !.drop = drop] \in GameSet
BY DEF GameSet

LEMMA SpeedKeeps ==
    ASSUME NEW most, NEW g \in GoodGames(most), NEW w \in Weapon, NEW f \in GameSet,
           f.weapons = g.weapons \cup {w}, f.board.active = f.weapons,
           w = "Upbyside" => f.board.upside = TRUE,
           w # "Upbyside" => f.board.upside = g.board.upside,
           BottleStands(f.board), CountsInForce(f), Supplied(f),
           f.pending = g.pending, f.defX = g.defX, f.defY = g.defY,
           f.down = g.down, f.left = g.left, f.base = g.base, f.fast = g.fast
    PROVE  Speed(f, w, w \notin g.weapons) \in GoodGames(most)
<1> DEFINE Kin(e) ==
      /\ e \in GameSet /\ e.pending = f.pending
      /\ e.weapons = f.weapons /\ e.board = f.board /\ e.pieces = f.pieces
      /\ e.remaining = f.remaining
           Frame(e) == e.defX = g.defX /\ e.defY = g.defY /\ e.down = g.down /\ e.left = g.left
           Clock(e) == e.base = g.base /\ e.fast = g.fast
<1>1. g \in GameSet /\ GameOK(g) /\ Len(g.pending) <= most
  BY DEF GoodGames
<1>2. ASSUME NEW e, Kin(e)
      PROVE  Supplied(e) /\ CountsInForce(e) /\ BottleStands(e.board) /\ e.board.active = e.weapons
             /\ Len(e.pending) <= most
  <2>1. Supplied(e)
    BY <1>2 DEF Supplied
  <2>2. CountsInForce(e) /\ BottleStands(e.board)
    BY <1>2 DEF CountsInForce
  <2> QED
    BY <1>1, <1>2, <2>1, <2>2
<1>3. ASSUME NEW e, Kin(e), Frame(e), w # "Upbyside"
      PROVE  Framed(e)
  BY <1>1, <1>3 DEF Framed, GameOK
<1>4. ASSUME NEW e, Kin(e), Clock(e), w \notin {"Speedy", "Meadow"} \/ w \in g.weapons
      PROVE  Clocked(e)
  <2>1. ("Speedy" \in e.weapons <=> "Speedy" \in g.weapons)
        /\ ("Meadow" \in e.weapons <=> "Meadow" \in g.weapons)
    BY <1>4
  <2>2. Clocked(g)
    BY <1>1 DEF GameOK
  <2> QED
    BY <1>4, <2>1, <2>2 DEF Clocked
<1>5. ASSUME NEW e, Kin(e), Framed(e), Clocked(e)
      PROVE  e \in GoodGames(most)
  BY <1>2, <1>5 DEF GoodGames, GameOK
<1>6. Kin(f) /\ Frame(f) /\ Clock(f)
  OBVIOUS
<1> PICK h : h = Speed(f, w, w \notin g.weapons)
  OBVIOUS
<1>7. CASE w = "Upbyside"
  <2>1. h = [f EXCEPT !.defY = Hgt - 4, !.down = -1, !.left = 1]
    BY <1>7 DEF Speed
  <2>2. Hgt - 4 \in Int
    BY BoardAssumption
  <2>3. h \in GameSet
    <3>1. PICK a : a = [f EXCEPT !.defY = Hgt - 4]
      OBVIOUS
    <3>2. a \in GameSet
      BY <2>2, <3>1 DEF GameSet
    <3>3. PICK b : b = [a EXCEPT !.down = -1]
      OBVIOUS
    <3>4. b \in GameSet
      BY <3>2, <3>3 DEF GameSet
    <3>5. h = [b EXCEPT !.left = 1]
      BY <2>1, <3>1, <3>3
    <3> QED
      BY <3>4, <3>5, ZenonT(60) DEF GameSet
  <2>4. /\ h.pending = f.pending /\ h.weapons = f.weapons /\ h.board = f.board
        /\ h.pieces = f.pieces /\ h.remaining = f.remaining
    BY <2>1, ZenonT(60) DEF GameSet
  <2>5. h.defX = g.defX /\ h.defY = Hgt - 4 /\ h.down = -1 /\ h.left = 1 /\ Clock(h)
    <3>1. h.defX = f.defX /\ h.defY = Hgt - 4 /\ h.down = -1 /\ h.left = 1
      BY <2>1 DEF GameSet
    <3>2. h.base = f.base /\ h.fast = f.fast
      BY <2>1 DEF GameSet
    <3> QED
      BY <3>1, <3>2
  <2>6. Kin(h)
    BY <2>3, <2>4
  <2>7. "Upbyside" \in h.weapons /\ h.board.upside /\ h.board.active = h.weapons
    BY <1>7, <2>4
  <2>8. h.defX = DefX
    BY <1>1, <2>5 DEF GameOK, Framed
  <2>9. h.left = -h.down
    BY <2>5
  <2>10. Framed(h)
    BY <2>5, <2>7, <2>8, <2>9 DEF Framed
  <2> QED
    BY <1>4, <1>5, <1>7, <2>5, <2>6, <2>10
<1>8. CASE w \in {"Speedy", "Meadow"} /\ w \notin g.weapons
  <2>1. /\ f.base \in Nat /\ f.fast \in Nat /\ f.drop \in Nat
        /\ f.base \div 2 \in Nat /\ 2 * f.base \in Nat /\ 2 * f.fast \in Nat
    <3>1. f.base \in Nat /\ f.fast \in Nat /\ f.drop \in Nat
      BY DEF GameSet
    <3> QED
      BY <3>1
  <2>2. PICK base \in Nat, fast \in Nat :
            /\ base = IF w = "Speedy" THEN f.base \div 2 ELSE 2 * f.base
            /\ fast = IF w = "Speedy" THEN f.fast ELSE 2 * f.fast
    BY <2>1
  <2>3. PICK a : a = [f EXCEPT !.base = base, !.fast = fast]
    OBVIOUS
  <2>4. a \in GameSet
    BY <2>2, <2>3, SetClock
  <2>5. Kin(a) /\ Frame(a) /\ a.base = base /\ a.fast = fast
    <3>1. /\ a.pending = f.pending /\ a.weapons = f.weapons /\ a.board = f.board
          /\ a.pieces = f.pieces /\ a.remaining = f.remaining
      BY <2>3 DEF GameSet
    <3>2. Frame(a) /\ a.base = base /\ a.fast = fast
      BY <2>3 DEF GameSet
    <3> QED
      BY <2>4, <3>1, <3>2
  <2>6. h = IF a.drop # a.fast THEN [a EXCEPT !.drop = a.base] ELSE a
    <3>1. CASE w = "Speedy"
      <4>1. a = [f EXCEPT !.base = @ \div 2]
        BY <2>2, <2>3, <3>1 DEF GameSet
      <4> QED
        BY <1>8, <3>1, <4>1 DEF Speed
    <3>2. CASE w = "Meadow"
      <4>1. a = [f EXCEPT !.base = 2 * @, !.fast = 2 * @]
        BY <2>2, <2>3, <3>2 DEF GameSet
      <4> QED
        BY <1>8, <3>2, <4>1 DEF Speed
    <3> QED
      BY <1>8, <3>1, <3>2
  <2>7. Kin(h) /\ Frame(h) /\ h.base = base /\ h.fast = fast
    <3>1. PICK e : e = [a EXCEPT !.drop = base]
      OBVIOUS
    <3>2. e \in GameSet
      BY <2>4, <2>2, <3>1, SetDrop
    <3>3. /\ e.pending = f.pending /\ e.weapons = f.weapons /\ e.board = f.board
          /\ e.pieces = f.pieces /\ e.remaining = f.remaining
      BY <2>4, <2>5, <3>1 DEF GameSet
    <3>4. Frame(e) /\ e.base = base /\ e.fast = fast
      BY <2>4, <2>5, <3>1 DEF GameSet
    <3>5. h = a \/ h = e
      BY <2>5, <2>6, <3>1
    <3> QED
      BY <2>5, <3>2, <3>3, <3>4, <3>5
  <2>8. Clocked(h)
    <3>1. /\ "Speedy" \in h.weapons <=> ("Speedy" \in g.weapons \/ w = "Speedy")
          /\ "Meadow" \in h.weapons <=> ("Meadow" \in g.weapons \/ w = "Meadow")
      BY <1>8, <2>7
    <3>2. Clocked(g)
      BY <1>1 DEF GameOK
    <3>3. /\ h.base = IF w = "Speedy" THEN g.base \div 2 ELSE 2 * g.base
          /\ h.fast = IF w = "Speedy" THEN g.fast ELSE 2 * g.fast
      BY <2>2, <2>7
    <3> QED
      BY <1>8, <3>1, <3>2, <3>3, ClockValues DEF Clocked
  <2> QED
    BY <1>3, <1>5, <1>8, <2>7, <2>8
<1>9. CASE w # "Upbyside" /\ (w \in {"Speedy", "Meadow"} => w \in g.weapons)
  <2>1. h = f
    BY <1>9 DEF Speed
  <2> QED
    BY <1>3, <1>4, <1>5, <1>6, <1>9, <2>1
<1> QED
  BY <1>7, <1>8, <1>9

\* A weapon comes on: fresh or again, and a Bottle may clear its own lines.
LEMMA WeaponOnKeeps ==
    ASSUME NEW most, NEW g \in GoodGames(most), NEW w \in Weapon, NEW h \in WeaponOn(g, w)
    PROVE  h \in GoodGames(most)
<1> DEFINE ws == g.weapons \cup {w}
           counts == [g.remaining EXCEPT ![w] = @ + Duration[w]]
<1>1. g \in GameSet /\ GameOK(g) /\ Len(g.pending) <= most
  BY DEF GoodGames
<1>2. PICK b : b = SetActive(g.board, w, TRUE)
  OBVIOUS
<1>3. PICK hit \in ApplyWeapon(b, w) :
          h = Speed([Cleared([g EXCEPT !.weapons = @ \cup {w},
                                       !.remaining[w] = @ + Duration[w],
                                       !.board = hit.board], hit.lines)
                        EXCEPT !.pieces = PiecesOn(@, w)],
                    w, w \notin g.weapons)
  BY <1>2 DEF WeaponOn
<1>4. /\ b \in BoardSet /\ b.active = ws /\ b.upside = g.board.upside
      /\ b.cells = g.board.cells
  <2>1. g.board \in BoardSet /\ g.board.active = g.weapons
    BY <1>1 DEF GameSet, GameOK, Framed
  <2> QED
    BY <1>2, <2>1, SetActiveType
<1>5. w # "Bottle" => BottleStands(b)
  BY <1>1, <1>4 DEF BottleStands, GameOK, Framed
<1>6. /\ hit.board \in BoardSet /\ hit.board.active = ws
      /\ w = "Upbyside" => hit.board.upside = TRUE
      /\ w # "Upbyside" => hit.board.upside = g.board.upside
      /\ hit.lines \in Nat /\ (w # "Bottle" => hit.lines = 0)
      /\ BottleStands(hit.board)
  <2>1. /\ hit.board \in BoardSet /\ hit.board.active = b.active
        /\ w = "Upbyside" => hit.board.upside = TRUE
        /\ w # "Upbyside" => hit.board.upside = b.upside
        /\ hit.lines \in Nat /\ (w # "Bottle" => hit.lines = 0)
        /\ w = "Bottle" \/ BottleStands(b) => BottleStands(hit.board)
    BY <1>4, ApplyWeaponHits
  <2> QED
    BY <1>4, <1>5, <2>1
<1>7. ws \in SUBSET Weapon
  BY <1>1 DEF GameSet
<1>8. counts \in [Weapon -> Nat] /\ \A v \in Weapon : counts[v] > 0 => g.remaining[v] > 0 \/ v = w
  <2>1. g.remaining \in [Weapon -> Nat] /\ Duration[w] \in Nat
    BY <1>1, GameAssumption DEF GameSet
  <2> QED
    BY <2>1
<1> HIDE DEF counts
<1>9. PICK e : e = [g EXCEPT !.weapons = ws, !.remaining = counts, !.board = hit.board]
  OBVIOUS
<1>10. h = Speed([Cleared(e, hit.lines) EXCEPT !.pieces = PiecesOn(@, w)], w, w \notin g.weapons)
  <2>1. e = [g EXCEPT !.weapons = @ \cup {w}, !.remaining[w] = @ + Duration[w],
                      !.board = hit.board]
    BY <1>1, <1>9 DEF counts, GameSet
  <2> QED
    BY <1>3, <2>1
<1> HIDE DEF ws
<1>11. e \in GameSet
  <2>1. counts \in [Weapon -> Nat]
    BY <1>8
  <2>2. hit.board \in BoardSet
    BY <1>6
  <2> QED
    BY <1>1, <1>7, <1>9, <2>1, <2>2 DEF GameSet
<1>12. /\ e.weapons = ws /\ e.remaining = counts /\ e.board = hit.board /\ e.pieces = g.pieces
       /\ e.pending = g.pending /\ e.defX = g.defX /\ e.defY = g.defY
       /\ e.down = g.down /\ e.left = g.left /\ e.base = g.base /\ e.fast = g.fast
  BY <1>1, <1>9 DEF GameSet
<1>13. CountsInForce(e)
  BY <1>1, <1>8, <1>12 DEF CountsInForce, GameOK, ws
<1>14. Supply(g.pieces, ws)
  <2>1. Supply(g.pieces, g.weapons)
    BY <1>1 DEF GameOK, Supplied, Supply, Stocked
  <2> QED
    BY <2>1 DEF Supply, Stocked, ws
<1>15. CASE w = "Bottle"
  <2>1. Framed(e)
    <3>1. "Upbyside" \in ws <=> "Upbyside" \in g.weapons
      BY <1>15 DEF ws
    <3> QED
      BY <1>1, <1>6, <1>12, <1>15, <3>1 DEF Framed, GameOK
  <2>2. Clocked(e)
    <3>1. ("Speedy" \in ws <=> "Speedy" \in g.weapons)
          /\ ("Meadow" \in ws <=> "Meadow" \in g.weapons)
      BY <1>15 DEF ws
    <3>2. Clocked(g)
      BY <1>1 DEF GameOK
    <3> QED
      BY <1>12, <3>1, <3>2 DEF Clocked
  <2>3. Supplied(e)
    BY <1>12, <1>14 DEF Supplied, Supply, Stocked
  <2>4. e \in GoodGames(most)
    BY <1>1, <1>6, <1>11, <1>12, <1>13, <2>1, <2>2, <2>3 DEF GoodGames, GameOK
  <2>5. PICK c \in GoodGames(most) : c = Cleared(e, hit.lines)
    BY <1>6, <2>4, ClearedKeeps
  <2>6. [c EXCEPT !.pieces = PiecesOn(@, w)] = c
    BY <1>15 DEF PiecesOn, GoodGames, GameSet
  <2>7. h = c
    BY <1>10, <1>15, <2>5, <2>6 DEF Speed
  <2> QED
    BY <2>7
<1>16. CASE w # "Bottle"
  <2>1. Cleared(e, hit.lines) = e
    BY <1>6, <1>16 DEF Cleared
  <2>2. PICK pieces : pieces = PiecesOn(g.pieces, w)
    OBVIOUS
  <2>3. pieces \in ManagerSet /\ Supply(pieces, ws)
    <3>1. g.pieces \in ManagerSet /\ w \in ws
      BY <1>1 DEF GameSet, ws
    <3> QED
      BY <1>7, <1>14, <2>2, <3>1, PiecesOnSupplied
  <2>4. PICK f : f = [e EXCEPT !.pieces = pieces]
    OBVIOUS
  <2>5. f \in GameSet
    BY <1>11, <2>3, <2>4 DEF GameSet
  <2>6. /\ f.weapons = ws /\ f.remaining = counts /\ f.board = hit.board /\ f.pieces = pieces
        /\ f.pending = g.pending /\ f.defX = g.defX /\ f.defY = g.defY
        /\ f.down = g.down /\ f.left = g.left /\ f.base = g.base /\ f.fast = g.fast
    BY <1>11, <1>12, <2>4 DEF GameSet
  <2>7. h = Speed(f, w, w \notin g.weapons)
    BY <1>10, <1>12, <2>1, <2>2, <2>4
  <2>8. CountsInForce(f)
    BY <1>12, <1>13, <2>6 DEF CountsInForce
  <2>9. Supplied(f)
    BY <2>3, <2>6 DEF Supplied, Supply, Stocked
  <2>10. f.weapons = g.weapons \cup {w} /\ f.board.active = f.weapons
         /\ BottleStands(f.board)
         /\ (w = "Upbyside" => f.board.upside = TRUE)
         /\ (w # "Upbyside" => f.board.upside = g.board.upside)
    BY <1>6, <2>6 DEF ws
  <2> QED
    BY <2>5, <2>6, <2>7, <2>8, <2>9, <2>10, SpeedKeeps
<1> QED
  BY <1>15, <1>16

LEMMA WeaponsOnKeeps ==
    ASSUME NEW most, NEW g \in GoodGames(most), NEW ws \in Seq(Weapon)
    PROVE  WeaponsOn(g, ws) \subseteq GoodGames(most)
<1> DEFINE last == Len(ws)
           Sets == SUBSET GoodGames(most)
<1>1. /\ last \in Nat /\ {g} \in Sets
      /\ \A k \in 1 .. last, v \in Sets : UNION {WeaponOn(h, ws[k]) : h \in v} \in Sets
  <2>1. last \in Nat /\ \A k \in 1 .. last : ws[k] \in Weapon
    OBVIOUS
  <2>2. ASSUME NEW k \in 1 .. last, NEW v \in Sets, NEW h \in v, NEW f \in WeaponOn(h, ws[k])
        PROVE  f \in GoodGames(most)
    BY <2>1, WeaponOnKeeps
  <2> HIDE DEF last
  <2> QED
    BY <2>1, <2>2
<1> HIDE DEF last, Sets
<1> DEFINE After(f) == f = [k \in 0 .. last |-> IF k = 0 THEN {g} ELSE UNION {WeaponOn(h, ws[k]) : h \in f[k - 1]}]
           step == [kv \in Nat \X Sets |->
                      IF kv[1] \in 1 .. last THEN UNION {WeaponOn(h, ws[kv[1]]) : h \in kv[2]} ELSE kv[2]]
<1>2. step \in [Nat \X Sets -> Sets]
  <2>1. ASSUME NEW kv \in Nat \X Sets
        PROVE  (IF kv[1] \in 1 .. last THEN UNION {WeaponOn(h, ws[kv[1]]) : h \in kv[2]} ELSE kv[2]) \in Sets
    <3>1. kv[2] \in Sets
      OBVIOUS
    <3> QED
      BY <3>1, <1>1
  <2> QED
    BY <2>1
<1>3. PICK f : Recurs(f, Sets, {g}, step, last)
  <2> HIDE DEF step, After
  <2> QED
    BY <1>1, <1>2, RecursiveFunction
<1>4. After(f)
  <2>1. ASSUME NEW k \in 0 .. last
        PROVE  f[k] = IF k = 0 THEN {g} ELSE UNION {WeaponOn(h, ws[k]) : h \in f[k - 1]}
    <3>1. k # 0 => k \in 1 .. last /\ k \in Nat /\ k - 1 \in 0 .. last
      BY <1>1
    <3>2. k # 0 => <<k, f[k - 1]>> \in Nat \X Sets /\ f[k] = step[<<k, f[k - 1]>>]
      <4> HIDE DEF step
      <4> QED
        BY <1>3, <3>1 DEF Recurs
    <3> QED
      BY <1>3, <3>1, <3>2 DEF Recurs
  <2>2. f = [k \in 0 .. last |-> f[k]]
    BY <1>3 DEF Recurs
  <2> QED
    BY <2>1, <2>2
<1>5. WeaponsOn(g, ws) = (CHOOSE e : After(e))[last]
  BY DEF WeaponsOn, last
<1>6. PICK r : r = (CHOOSE e : After(e)) /\ After(r)
  <2> HIDE DEF After
  <2> QED
    BY <1>4
<1>7. ASSUME NEW k \in 0 .. last
      PROVE  r[k] = IF k = 0 THEN {g} ELSE UNION {WeaponOn(h, ws[k]) : h \in r[k - 1]}
  BY <1>6
<1> HIDE DEF After
<1> DEFINE S == {k \in 0 .. last : r[k] \in Sets}
<1>8. 0 \in S
  <2>1. 0 \in 0 .. last
    BY <1>1
  <2>2. r[0] = {g}
    BY <2>1, <1>7
  <2> QED
    BY <2>1, <2>2, <1>1
<1>9. ASSUME NEW k \in 0 .. last - 1, k \in S
      PROVE  k + 1 \in S
  <2>1. k + 1 \in 1 .. last /\ k + 1 \in 0 .. last /\ k + 1 # 0 /\ (k + 1) - 1 = k
    BY <1>1
  <2>2. r[k + 1] = UNION {WeaponOn(h, ws[k + 1]) : h \in r[k]}
    BY <1>7, <2>1
  <2> QED
    BY <1>9, <2>1, <2>2, <1>1
<1>10. last \in S
  <2> HIDE DEF S
  <2>1. 0 .. last \subseteq S
    BY <1>8, <1>9, <1>1, InductionUpTo
  <2> QED
    BY <2>1, <1>1
<1>11. WeaponsOn(g, ws) \in Sets
  BY <1>5, <1>6, <1>10
<1> QED
  BY <1>11 DEF Sets

LEMMA ForceOffUndoes ==
    ASSUME NEW g \in GameSet, NEW w, Framed(g), Clocked(g), Supplied(g), CountsInForce(g)
    PROVE  LET h == ForceOff(g, w) IN
           /\ h \in GameSet /\ h.pending = g.pending
           /\ Framed(h) /\ Clocked(h) /\ Supplied(h) /\ CountsInForce(h)
           /\ w = "Bottle" \/ BottleStands(g.board) => BottleStands(h.board)
<1>1. PICK off : off = IF w \in g.weapons THEN WeaponOff(g, w) ELSE g
  OBVIOUS
<1>2. /\ off \in GameSet /\ off.weapons = g.weapons \ {w}
      /\ off.remaining = g.remaining /\ off.pending = g.pending
      /\ Framed(off) /\ Clocked(off) /\ Supplied(off)
      /\ w = "Bottle" \/ BottleStands(g.board) => BottleStands(off.board)
  <2>1. CASE w \in g.weapons
    BY <1>1, <2>1, WeaponOffUndoes
  <2>2. CASE w \notin g.weapons
    <3>1. off = g
      BY <1>1, <2>2
    <3>2. w = "Bottle" => BottleStands(g.board)
      BY <2>2 DEF Framed, BottleStands
    <3> QED
      BY <2>2, <3>1, <3>2
  <2> QED
    BY <2>1, <2>2
<1> DEFINE left == [v \in Weapon |-> IF v = w THEN 0 ELSE off.remaining[v]]
<1>3. left \in [Weapon -> Nat]
      /\ \A v \in Weapon : left[v] > 0 => v # w /\ g.remaining[v] > 0
  <2>1. g.remaining \in [Weapon -> Nat] /\ off.remaining = g.remaining
    BY <1>2 DEF GameSet
  <2> QED
    BY <2>1
<1> HIDE DEF left
<1>4. PICK h : h = [off EXCEPT !.remaining = left]
  OBVIOUS
<1>5. ForceOff(g, w) = h
  BY <1>1, <1>2, <1>4 DEF ForceOff, left, GameSet
<1>6. h \in GameSet
  <2>1. left \in [Weapon -> Nat] /\ off \in GameSet
    BY <1>2, <1>3
  <2> QED
    BY <1>4, <2>1 DEF GameSet
<1>7. /\ h.pending = g.pending /\ h.remaining = left /\ h.weapons = g.weapons \ {w}
      /\ h.board = off.board /\ h.pieces = off.pieces /\ h.weapons = off.weapons
      /\ h.defX = off.defX /\ h.defY = off.defY
      /\ h.down = off.down /\ h.left = off.left /\ h.base = off.base /\ h.fast = off.fast
  BY <1>2, <1>4 DEF GameSet
<1>8. Framed(h)
  BY <1>2, <1>7 DEF Framed
<1>9. Clocked(h)
  BY <1>2, <1>7 DEF Clocked
<1>10. Supplied(h)
  BY <1>2, <1>7 DEF Supplied
<1>11. CountsInForce(h)
  BY <1>3, <1>7 DEF CountsInForce
<1> QED
  BY <1>2, <1>5, <1>6, <1>7, <1>8, <1>9, <1>10, <1>11

\* The swapped board has no walls, and stands the right way up: with Bottle and Upbyside off,
\* nothing asks for more.
LEMMA InstallSwapKeeps ==
    ASSUME NEW most, NEW g \in GoodGames(most)
    PROVE  InstallSwap(g) \in GoodGames(most)
<1>1. g \in GameSet /\ GameOK(g) /\ Len(g.pending) <= most
  BY DEF GoodGames
<1>2. CASE g.pendingBoard = NoBoard
  BY <1>2 DEF InstallSwap
<1>3. CASE g.pendingBoard # NoBoard
  <2>1. g.pendingBoard \in [Squares -> Cell] /\ g.board \in BoardSet
    BY <1>1, <1>3 DEF GameSet
  <2>2. PICK b : b = [g.board EXCEPT !.cells = g.pendingBoard]
    OBVIOUS
  <2>3. b \in BoardSet /\ b.active = g.board.active /\ b.upside = g.board.upside
    BY <2>1, <2>2 DEF BoardSet
  <2>4. PICK e : e = [g EXCEPT !.board = b, !.pendingBoard = NoBoard]
    OBVIOUS
  <2>5. e \in GameSet
    BY <1>1, <2>3, <2>4 DEF GameSet
  <2>6. /\ e.board = b /\ e.pieces = g.pieces /\ e.weapons = g.weapons
        /\ e.remaining = g.remaining /\ e.pending = g.pending
        /\ e.defX = g.defX /\ e.defY = g.defY
        /\ e.down = g.down /\ e.left = g.left /\ e.base = g.base /\ e.fast = g.fast
    BY <1>1, <2>4 DEF GameSet
  <2>7. Framed(e)
    BY <1>1, <2>3, <2>6 DEF GameOK, Framed
  <2>8. Clocked(e) /\ CountsInForce(e)
    BY <1>1, <2>6 DEF GameOK, Clocked, CountsInForce
  <2>9. Supplied(e)
    BY <1>1, <2>6 DEF GameOK, Supplied
  <2>10. PICK f : f = ForceOff(e, "Bottle")
    OBVIOUS
  <2>11. /\ f \in GameSet /\ f.pending = e.pending
         /\ Framed(f) /\ Clocked(f) /\ Supplied(f) /\ CountsInForce(f)
         /\ BottleStands(f.board)
    BY <2>5, <2>7, <2>8, <2>9, <2>10, ForceOffUndoes
  <2>12. PICK h : h = ForceOff(f, "Upbyside")
    OBVIOUS
  <2>13. /\ h \in GameSet /\ h.pending = f.pending
         /\ Framed(h) /\ Clocked(h) /\ Supplied(h) /\ CountsInForce(h)
         /\ BottleStands(h.board)
    BY <2>11, <2>12, ForceOffUndoes
  <2>14. InstallSwap(g) = h
    <3>1. e = [g EXCEPT !.board.cells = g.pendingBoard, !.pendingBoard = NoBoard]
      BY <1>1, <2>2, <2>4 DEF GameSet
    <3> QED
      BY <1>3, <2>10, <2>12, <3>1 DEF InstallSwap
  <2> QED
    BY <1>1, <2>6, <2>11, <2>13, <2>14 DEF GoodGames, GameOK
<1> QED
  BY <1>2, <1>3

\* The weapons that waited are on, and none is left waiting.
LEMMA FlushKeeps ==
    ASSUME NEW g, GameOK(g), NEW h \in Flush(g)
    PROVE  h \in GoodGames(0)
<1>1. PICK e : e = [g EXCEPT !.pending = <<>>]
  OBVIOUS
<1>2. g \in GameSet /\ g.pending \in Seq(Weapon)
  BY DEF GameOK, GameSet
<1>3. e \in GameSet /\ e.pending = <<>>
  <2>1. <<>> \in Seq(Weapon)
    OBVIOUS
  <2> QED
    BY <1>1, <1>2, <2>1 DEF GameSet
<1>4. /\ e.board = g.board /\ e.pieces = g.pieces /\ e.weapons = g.weapons
      /\ e.remaining = g.remaining /\ e.defX = g.defX /\ e.defY = g.defY
      /\ e.down = g.down /\ e.left = g.left /\ e.base = g.base /\ e.fast = g.fast
  BY <1>1, <1>2 DEF GameSet
<1>5. GameOK(e)
  BY <1>3, <1>4, SameParts
<1>6. e \in GoodGames(0)
  BY <1>3, <1>5 DEF GoodGames
<1>7. PICK f \in WeaponsOn(e, g.pending) : h = InstallSwap(f)
  BY <1>1 DEF Flush
<1>8. f \in GoodGames(0)
  BY <1>2, <1>6, <1>7, WeaponsOnKeeps
<1> QED
  BY <1>7, <1>8, InstallSwapKeeps

-----------------------------------------------------------------------------
(* Pieces.                                                                 *)

SideBox(side) == (0 .. side - 1) \X (0 .. side - 1)

LEMMA DrawnKinds ==
    Drawn \subseteq PieceKind /\ "none" \notin PieceKind
BY GameAssumption DEF Drawn, PieceKind, Standard, Weird

\* The grid each kind starts with lies in the square it turns in.
LEMMA ShapeType ==
    ASSUME NEW k \in Drawn
    PROVE  /\ Shape[k] \subseteq PieceGrid /\ Shape[k] # {}
           /\ RotOf(k) \in Nat /\ RotOf(k) <= BoxSide
           /\ RotOf(k) # 0 => Shape[k] \subseteq SideBox(RotOf(k))
<1>1. k \in PieceKind /\ BoxSide \in Nat /\ BoxSide >= 4
  BY DrawnKinds, BoardAssumption
<1>2. k = "LongDong" => BoxSide >= 8
  BY GameAssumption DEF Drawn
<1> DEFINE Fits(side, shape) ==
      /\ side \in Nat /\ side <= BoxSide /\ shape # {}
      /\ shape \subseteq SideBox(IF side = 0 THEN 4 ELSE side)
<1>3. Fits(RotOf(k), Shape[k])
  <2>1. CASE k = "El"
    <3>1. Shape[k] = {<<1,0>>, <<1,1>>, <<1,2>>, <<2,2>>} /\ RotOf(k) = 3
      BY <1>1, <2>1 DEF Shape, RotOf
    <3>2. <<1,0>> \in Shape[k]
      BY <3>1
    <3> QED
      BY <1>1, <2>1, <3>1, <3>2 DEF SideBox
  <2>2. CASE k = "RevEl"
    <3>1. Shape[k] = {<<2,0>>, <<2,1>>, <<2,2>>, <<1,2>>} /\ RotOf(k) = 3
      BY <1>1, <2>2 DEF Shape, RotOf
    <3>2. <<2,0>> \in Shape[k]
      BY <3>1
    <3> QED
      BY <1>1, <2>2, <3>1, <3>2 DEF SideBox
  <2>3. CASE k = "SlideRight"
    <3>1. Shape[k] = {<<0,2>>, <<1,2>>, <<1,1>>, <<2,1>>} /\ RotOf(k) = 3
      BY <1>1, <2>3 DEF Shape, RotOf
    <3>2. <<0,2>> \in Shape[k]
      BY <3>1
    <3> QED
      BY <1>1, <2>3, <3>1, <3>2 DEF SideBox
  <2>4. CASE k = "SlideLeft"
    <3>1. Shape[k] = {<<0,1>>, <<1,1>>, <<1,2>>, <<2,2>>} /\ RotOf(k) = 3
      BY <1>1, <2>4 DEF Shape, RotOf
    <3>2. <<0,1>> \in Shape[k]
      BY <3>1
    <3> QED
      BY <1>1, <2>4, <3>1, <3>2 DEF SideBox
  <2>5. CASE k = "Long"
    <3>1. Shape[k] = (0 .. 3) \X {1} /\ RotOf(k) = 4
      BY <1>1, <2>5 DEF Shape, RotOf
    <3>2. <<0,1>> \in Shape[k]
      BY <3>1
    <3> QED
      BY <1>1, <2>5, <3>1, <3>2 DEF SideBox
  <2>6. CASE k = "Plug"
    <3>1. Shape[k] = {<<0,2>>, <<1,2>>, <<1,1>>, <<2,2>>} /\ RotOf(k) = 3
      BY <1>1, <2>6 DEF Shape, RotOf
    <3>2. <<0,2>> \in Shape[k]
      BY <3>1
    <3> QED
      BY <1>1, <2>6, <3>1, <3>2 DEF SideBox
  <2>7. CASE k = "Box"
    <3>1. Shape[k] = (1 .. 2) \X (1 .. 2) /\ RotOf(k) = 0
      BY <1>1, <2>7 DEF Shape, RotOf
    <3>2. <<1,1>> \in Shape[k]
      BY <3>1
    <3> QED
      BY <1>1, <2>7, <3>1, <3>2 DEF SideBox
  <2>8. CASE k = "Dog"
    <3>1. Shape[k] = {<<0,0>>, <<1,1>>, <<2,1>>, <<2,2>>} /\ RotOf(k) = 3
      BY <1>1, <2>8 DEF Shape, RotOf
    <3>2. <<0,0>> \in Shape[k]
      BY <3>1
    <3> QED
      BY <1>1, <2>8, <3>1, <3>2 DEF SideBox
  <2>9. CASE k = "RevDog"
    <3>1. Shape[k] = {<<0,1>>, <<0,2>>, <<1,1>>, <<2,2>>} /\ RotOf(k) = 3
      BY <1>1, <2>9 DEF Shape, RotOf
    <3>2. <<0,1>> \in Shape[k]
      BY <3>1
    <3> QED
      BY <1>1, <2>9, <3>1, <3>2 DEF SideBox
  <2>10. CASE k = "Cap"
    <3>1. Shape[k] = {<<0,2>>, <<1,1>>, <<2,1>>, <<3,2>>} /\ RotOf(k) = 4
      BY <1>1, <2>10 DEF Shape, RotOf
    <3>2. <<0,2>> \in Shape[k]
      BY <3>1
    <3> QED
      BY <1>1, <2>10, <3>1, <3>2 DEF SideBox
  <2>11. CASE k = "Wall"
    <3>1. Shape[k] = {0, 3} \X (1 .. 2) /\ RotOf(k) = 4
      BY <1>1, <2>11 DEF Shape, RotOf
    <3>2. <<0,1>> \in Shape[k]
      BY <3>1
    <3> QED
      BY <1>1, <2>11, <3>1, <3>2 DEF SideBox
  <2>12. CASE k = "Tower"
    <3>1. Shape[k] = {<<2,0>>, <<1,1>>, <<0,1>>, <<2,2>>} /\ RotOf(k) = 3
      BY <1>1, <2>12 DEF Shape, RotOf
    <3>2. <<2,0>> \in Shape[k]
      BY <3>1
    <3> QED
      BY <1>1, <2>12, <3>1, <3>2 DEF SideBox
  <2>13. CASE k = "Star"
    <3>1. Shape[k] = {<<1,0>>, <<0,1>>, <<1,2>>, <<2,1>>} /\ RotOf(k) = 3
      BY <1>1, <2>13 DEF Shape, RotOf
    <3>2. <<1,0>> \in Shape[k]
      BY <3>1
    <3> QED
      BY <1>1, <2>13, <3>1, <3>2 DEF SideBox
  <2>14. CASE k = "WeirdLong"
    <3>1. Shape[k] = {<<1,0>>, <<1,1>>, <<2,2>>, <<2,3>>} /\ RotOf(k) = 4
      BY <1>1, <2>14 DEF Shape, RotOf
    <3>2. <<1,0>> \in Shape[k]
      BY <3>1
    <3> QED
      BY <1>1, <2>14, <3>1, <3>2 DEF SideBox
  <2>15. CASE k = "Die"
    <3>1. Shape[k] = {<<1,1>>} /\ RotOf(k) = 0
      BY <1>1, <2>15 DEF Shape, RotOf
    <3>2. <<1,1>> \in Shape[k]
      BY <3>1
    <3> QED
      BY <1>1, <2>15, <3>1, <3>2 DEF SideBox
  <2>16. CASE k = "Happy"
    <3>1. Shape[k] = {<<1,1>>} /\ RotOf(k) = 0
      BY <1>1, <2>16 DEF Shape, RotOf
    <3>2. <<1,1>> \in Shape[k]
      BY <3>1
    <3> QED
      BY <1>1, <2>16, <3>1, <3>2 DEF SideBox
  <2>17. CASE k = "FourByFour"
    <3>1. Shape[k] = ((0 .. 3) \X (0 .. 3)) \ ((1 .. 2) \X (1 .. 2)) /\ RotOf(k) = 0
      BY <1>1, <2>17 DEF Shape, RotOf
    <3>2. <<0,0>> \in Shape[k]
      BY <3>1
    <3> QED
      BY <1>1, <2>17, <3>1, <3>2 DEF SideBox
  <2>18. CASE k = "LongDong"
    <3>1. Shape[k] = (0 .. 7) \X {0} /\ RotOf(k) = 8
      BY <1>1, <2>18 DEF Shape, RotOf
    <3>2. <<0,0>> \in Shape[k]
      BY <3>1
    <3> QED
      BY <1>1, <1>2, <2>18, <3>1, <3>2 DEF SideBox
  <2> QED
    BY <1>1, <2>1, <2>2, <2>3, <2>4, <2>5, <2>6, <2>7, <2>8, <2>9, <2>10, <2>11, <2>12, <2>13, <2>14, <2>15, <2>16, <2>17, <2>18 DEF PieceKind, Standard, Weird
<1> QED
  <2>1. RotOf(k) = 0 => SideBox(4) \subseteq PieceGrid
    BY <1>1 DEF SideBox, PieceGrid
  <2>2. RotOf(k) # 0 => SideBox(RotOf(k)) \subseteq PieceGrid
    BY <1>1, <1>3 DEF SideBox, PieceGrid
  <2> QED
    BY <1>3, <2>1, <2>2

LEMMA ConstructType ==
    ASSUME NEW k \in Drawn, NEW x \in Int, NEW y \in Int, NEW pips \in Pips
    PROVE  /\ Construct(k, x, y, pips) \in PieceSet
           /\ Construct(k, x, y, pips).x = x /\ Construct(k, x, y, pips).y = y
<1> DEFINE cell == CASE k = "Die" -> Die(pips) [] k = "Happy" -> Smiley [] OTHER -> Colour
<1>1. cell \in Cell /\ cell # Empty
  <2>1. pips \in Nat
    BY GameAssumption
  <2>2. Die(pips) \in Cell /\ Smiley \in Cell /\ Colour \in Cell
    BY <2>1, CellTypes
  <2>3. Die(pips) # Empty /\ Smiley # Empty /\ Colour # Empty
    BY DEF Die, Smiley, Colour, Empty, CellOf
  <2> QED
    BY <2>2, <2>3
<1> HIDE DEF cell
<1>2. PICK shape : shape = Shape[k]
  OBVIOUS
<1>3. PICK p : p = Construct(k, x, y, pips)
  OBVIOUS
<1>4. p = [kind |-> k, x |-> x, y |-> y, orientation |-> 0, state |-> 0, shape |-> shape,
           cell |-> cell]
  BY <1>2, <1>3 DEF Construct, cell
<1>5. shape \in SUBSET PieceGrid /\ shape # {} /\ (RotOf(k) # 0 => shape \subseteq SideBox(RotOf(k)))
  BY <1>2, ShapeType
<1>6. 0 \in 0 .. Orientations(k) - 1 /\ 0 \in States(k)
  BY DEF Orientations, States
<1>7. p \in [kind : Drawn, x : Int, y : Int, orientation : Nat, state : Nat,
             shape : SUBSET PieceGrid, cell : Cell]
  BY <1>1, <1>4, <1>5
<1>8. /\ p.kind = k /\ p.orientation = 0 /\ p.state = 0 /\ p.shape = shape /\ p.cell = cell
      /\ p.x = x /\ p.y = y
  BY <1>4
<1> QED
  BY <1>1, <1>3, <1>5, <1>6, <1>7, <1>8 DEF PieceSet, SideBox

LEMMA PieceFields ==
    ASSUME NEW p \in PieceSet
    PROVE  /\ p.kind \in Drawn /\ p.x \in Int /\ p.y \in Int
           /\ p.orientation \in 0 .. Orientations(p.kind) - 1 /\ p.state \in States(p.kind)
           /\ p.shape \in SUBSET PieceGrid /\ p.shape # {} /\ p.cell \in Cell /\ p.cell # Empty
           /\ RotOf(p.kind) # 0 => p.shape \subseteq SideBox(RotOf(p.kind))
           /\ p # NoPiece
<1>1. /\ p.kind \in Drawn /\ p.x \in Int /\ p.y \in Int
      /\ p.shape \in SUBSET PieceGrid /\ p.shape # {} /\ p.cell \in Cell /\ p.cell # Empty
  BY DEF PieceSet
<1>2. p # NoPiece
  BY <1>1, DrawnKinds DEF NoPiece
<1>3. p.orientation \in 0 .. Orientations(p.kind) - 1 /\ p.state \in States(p.kind)
  BY DEF PieceSet
<1>4. RotOf(p.kind) # 0 => p.shape \subseteq SideBox(RotOf(p.kind))
  BY DEF PieceSet, SideBox
<1> QED
  BY <1>1, <1>2, <1>3, <1>4

LEMMA MovedType ==
    ASSUME NEW p \in PieceSet, NEW x \in Int, NEW y \in Int
    PROVE  /\ Moved(p, x, y) \in PieceSet
           /\ Moved(p, x, y).x = x /\ Moved(p, x, y).y = y
           /\ Moved(p, x, y).shape = p.shape /\ Moved(p, x, y).cell = p.cell
           /\ Moved(p, x, y).kind = p.kind /\ Moved(p, x, y).orientation = p.orientation
<1> PICK q : q = [p EXCEPT !.x = x, !.y = y]
  OBVIOUS
<1>1. q \in [kind : Drawn, x : Int, y : Int, orientation : Nat, state : Nat,
             shape : SUBSET PieceGrid, cell : Cell]
  BY DEF PieceSet
<1>2. /\ q.kind = p.kind /\ q.orientation = p.orientation /\ q.state = p.state
      /\ q.shape = p.shape /\ q.cell = p.cell /\ q.x = x /\ q.y = y
  BY DEF PieceSet
<1>3. q \in PieceSet
  BY <1>1, <1>2, PieceFields DEF PieceSet, SideBox
<1> QED
  BY <1>2, <1>3 DEF Moved

\* What stands on free squares stands on no wall.
LEMMA FreeOfWalls ==
    ASSUME NEW b \in BoardSet, BottleStands(b), "Bottle" \in b.active,
           NEW shape \in SUBSET PieceGrid, NEW x \in Int, NEW y \in Int,
           ShapeFits(b, shape, x, y)
    PROVE  \A s \in shape : <<x + s[1], y + s[2]>> \notin Walls
<1> SUFFICES ASSUME NEW s \in shape, <<x + s[1], y + s[2]>> \in Walls
             PROVE  FALSE
  OBVIOUS
<1> PICK q : q = <<x + s[1], y + s[2]>>
  OBVIOUS
<1>1. q \in Squares /\ b.cells[q].kind = "structure"
  BY WallSquare DEF BottleStands
<1>2. b.cells[q] # Empty
  BY <1>1 DEF Empty
<1>3. ~Occupied(b, x + s[1], y + s[2])
  BY DEF ShapeFits
<1> QED
  BY <1>1, <1>2, <1>3 DEF Occupied, Filled

\* The tables hold squares of the kind's own square, and no table is empty.
LEMMA ArmsTables ==
    /\ \A n \in 0 .. 3 : WallArms[n] # {} /\ \A a \in WallArms[n] : a[2] \in SideBox(4)
    /\ \A n \in 0 .. 5 : WeirdArms[n] # {} /\ \A a \in WeirdArms[n] : a[2] \in SideBox(4)
    /\ \A n \in 0 .. 1 : StarArms[n] # {} /\ \A a \in StarArms[n] : a[2] \in SideBox(3)
<1> DEFINE In(arms, side) == arms # {} /\ \A a \in arms : a[2] \in SideBox(side)
<1>1. In(WallArms[0], 4)
  <2>1. WallArms[0] = {<<<<1,0>>, <<0,2>>>>, <<<<2,3>>, <<3,1>>>>}
    BY DEF WallArms
  <2> QED
    BY <2>1 DEF SideBox
<1>2. In(WallArms[1], 4)
  <2>1. WallArms[1] = {<<<<0,1>>, <<1,3>>>>, <<<<3,2>>, <<2,0>>>>}
    BY DEF WallArms
  <2> QED
    BY <2>1 DEF SideBox
<1>3. In(WallArms[2], 4)
  <2>1. WallArms[2] = {<<<<0,2>>, <<2,3>>>>, <<<<3,1>>, <<1,0>>>>}
    BY DEF WallArms
  <2> QED
    BY <2>1 DEF SideBox
<1>4. In(WallArms[3], 4)
  <2>1. WallArms[3] = {<<<<2,0>>, <<0,1>>>>, <<<<1,3>>, <<3,2>>>>}
    BY DEF WallArms
  <2> QED
    BY <2>1 DEF SideBox
<1>5. In(WeirdArms[0], 4)
  <2>1. WeirdArms[0] = {<<<<2,0>>, <<1,0>>>>, <<<<2,1>>, <<1,1>>>>, <<<<1,2>>, <<2,2>>>>, <<<<1,3>>, <<2,3>>>>}
    BY DEF WeirdArms
  <2> QED
    BY <2>1 DEF SideBox
<1>6. In(WeirdArms[1], 4)
  <2>1. WeirdArms[1] = {<<<<1,0>>, <<0,0>>>>, <<<<2,3>>, <<3,3>>>>}
    BY DEF WeirdArms
  <2> QED
    BY <2>1 DEF SideBox
<1>7. In(WeirdArms[2], 4)
  <2>1. WeirdArms[2] = {<<<<0,0>>, <<0,1>>>>, <<<<3,3>>, <<3,2>>>>}
    BY DEF WeirdArms
  <2> QED
    BY <2>1 DEF SideBox
<1>8. In(WeirdArms[3], 4)
  <2>1. WeirdArms[3] = {<<<<0,1>>, <<0,2>>>>, <<<<1,1>>, <<1,2>>>>, <<<<2,2>>, <<2,1>>>>, <<<<3,2>>, <<3,1>>>>}
    BY DEF WeirdArms
  <2> QED
    BY <2>1 DEF SideBox
<1>9. In(WeirdArms[4], 4)
  <2>1. WeirdArms[4] = {<<<<3,1>>, <<3,0>>>>, <<<<0,2>>, <<0,3>>>>}
    BY DEF WeirdArms
  <2> QED
    BY <2>1 DEF SideBox
<1>10. In(WeirdArms[5], 4)
  <2>1. WeirdArms[5] = {<<<<3,0>>, <<2,0>>>>, <<<<0,3>>, <<1,3>>>>}
    BY DEF WeirdArms
  <2> QED
    BY <2>1 DEF SideBox
<1>11. In(StarArms[0], 3)
  <2>1. StarArms[0] = {<<<<0,0>>, <<1,0>>>>, <<<<2,0>>, <<0,1>>>>, <<<<0,2>>, <<1,2>>>>, <<<<2,2>>, <<2,1>>>>}
    BY DEF StarArms
  <2> QED
    BY <2>1 DEF SideBox
<1>12. In(StarArms[1], 3)
  <2>1. StarArms[1] = {<<<<1,0>>, <<0,0>>>>, <<<<2,1>>, <<2,0>>>>, <<<<0,1>>, <<0,2>>>>, <<<<1,2>>, <<2,2>>>>}
    BY DEF StarArms
  <2> QED
    BY <2>1 DEF SideBox
<1>13. ASSUME NEW n \in 0 .. 3
      PROVE  In(WallArms[n], 4)
  <2>1. n = 0 \/ n = 1 \/ n = 2 \/ n = 3
    OBVIOUS
  <2> HIDE DEF In
  <2> QED
    BY <2>1, <1>1, <1>2, <1>3, <1>4
<1>14. ASSUME NEW n \in 0 .. 5
      PROVE  In(WeirdArms[n], 4)
  <2>1. n = 0 \/ n = 1 \/ n = 2 \/ n = 3 \/ n = 4 \/ n = 5
    OBVIOUS
  <2> HIDE DEF In
  <2> QED
    BY <2>1, <1>5, <1>6, <1>7, <1>8, <1>9, <1>10
<1>15. ASSUME NEW n \in 0 .. 1
      PROVE  In(StarArms[n], 3)
  <2>1. n = 0 \/ n = 1
    OBVIOUS
  <2> HIDE DEF In
  <2> QED
    BY <2>1, <1>11, <1>12
<1> QED
  BY <1>13, <1>14, <1>15

LEMMA TurnType ==
    ASSUME NEW k \in Drawn, NEW o \in Nat
    PROVE  Turn(k, o, FALSE) \in 0 .. Orientations(k) - 1 /\ Orientations(k) \in Nat \ {0}
<1>1. Orientations(k) \in Nat \ {0}
  BY DEF Orientations
<1> QED
  BY <1>1 DEF Turn

LEMMA ByTable ==
    ASSUME NEW p \in PieceSet, p.kind \in {"Wall", "Star", "WeirdLong"}
    PROVE  /\ Arms(p, FALSE) # {}
           /\ \A a \in Arms(p, FALSE) : a[2] \in SideBox(RotOf(p.kind))
           /\ Turn(p.kind, p.state, FALSE) \in States(p.kind)
<1>1. p.state \in States(p.kind)
  BY PieceFields
<1> PICK n : n = p.state
  OBVIOUS
<1>2. CASE p.kind = "Wall"
  <2>1. n \in 0 .. 3 /\ Turn(p.kind, n, FALSE) = (n + 1) % 4
    BY <1>1, <1>2 DEF States, Turn, Orientations
  <2>2. (n + 1) % 4 \in 0 .. 3
    BY <2>1
  <2>3. Arms(p, FALSE) = WallArms[(n + 1) % 4]
    BY <1>2, <2>1 DEF Arms
  <2>4. States(p.kind) = 0 .. 3 /\ RotOf(p.kind) = 4
    BY <1>2 DEF States, RotOf
  <2> QED
    BY <2>1, <2>2, <2>3, <2>4, ArmsTables
<1>3. CASE p.kind = "WeirdLong"
  <2>1. n \in 0 .. 5 /\ Turn(p.kind, n, FALSE) = (n + 1) % 6
    BY <1>1, <1>3 DEF States, Turn, Orientations
  <2>2. (n + 1) % 6 \in 0 .. 5
    BY <2>1
  <2>3. Arms(p, FALSE) = WeirdArms[(n + 1) % 6]
    BY <1>3, <2>1 DEF Arms
  <2>4. States(p.kind) = 0 .. 5 /\ RotOf(p.kind) = 4
    BY <1>3 DEF States, RotOf
  <2> QED
    BY <2>1, <2>2, <2>3, <2>4, ArmsTables
<1>4. CASE p.kind = "Star"
  <2>1. n \in 0 .. 1 /\ Turn(p.kind, n, FALSE) = (n + 1) % 2
    BY <1>1, <1>4 DEF States, Turn, Orientations
  <2>2. (n + 1) % 2 \in 0 .. 1 /\ 1 - n \in 0 .. 1
    BY <2>1
  <2>3. Arms(p, FALSE) = StarArms[1 - n]
    BY <1>4 DEF Arms
  <2>4. States(p.kind) = 0 .. 1 /\ RotOf(p.kind) = 3
    BY <1>4 DEF States, RotOf
  <2> QED
    BY <2>1, <2>2, <2>3, <2>4, ArmsTables
<1> QED
  BY <1>2, <1>3, <1>4

LEMMA TargetType ==
    ASSUME NEW p \in PieceSet, RotOf(p.kind) # 0
    PROVE  Target(p, FALSE) \subseteq SideBox(RotOf(p.kind)) /\ Target(p, FALSE) # {}
<1>1. CASE p.kind \in {"Wall", "Star", "WeirdLong"}
  <2>1. Target(p, FALSE) = {a[2] : a \in Arms(p, FALSE)}
    BY <1>1 DEF Target
  <2> QED
    BY <1>1, <2>1, ByTable
<1>2. CASE p.kind \notin {"Wall", "Star", "WeirdLong"}
  <2> PICK rot : rot = RotOf(p.kind)
    OBVIOUS
  <2>1. rot \in Nat /\ p.shape \subseteq SideBox(rot) /\ p.shape # {}
    BY PieceFields, ShapeType
  <2>2. Target(p, FALSE) = {<<s[2], rot - 1 - s[1]>> : s \in p.shape}
    BY <1>2 DEF Target, Turned
  <2>3. ASSUME NEW s \in SideBox(rot)
        PROVE  <<s[2], rot - 1 - s[1]>> \in SideBox(rot)
    <3>1. s[1] \in 0 .. rot - 1 /\ s[2] \in 0 .. rot - 1
      BY DEF SideBox
    <3>2. rot - 1 - s[1] \in 0 .. rot - 1
      BY <2>1, <3>1
    <3> QED
      BY <3>1, <3>2 DEF SideBox
  <2> QED
    BY <2>1, <2>2, <2>3
<1> QED
  BY <1>1, <1>2

\* A turn leaves the piece where it stands, on squares it held or brings in.
LEMMA SpunType ==
    ASSUME NEW p \in PieceSet, RotOf(p.kind) # 0
    PROVE  /\ Spun(p, FALSE) \in PieceSet
           /\ Spun(p, FALSE).x = p.x /\ Spun(p, FALSE).y = p.y
           /\ Spun(p, FALSE).kind = p.kind /\ Spun(p, FALSE).cell = p.cell
           /\ Spun(p, FALSE).shape \subseteq p.shape \cup Target(p, FALSE)
<1> DEFINE byTable == p.kind \in {"Wall", "Star", "WeirdLong"}
           left == IF byTable THEN p.shape \ {a[1] : a \in Arms(p, FALSE)} ELSE {}
           turned == IF byTable THEN Turn(p.kind, p.state, FALSE) ELSE p.state
           faced == IF p.kind = "Star" THEN p.orientation ELSE Turn(p.kind, p.orientation, FALSE)
<1>1. PICK shape : shape = left \cup Target(p, FALSE)
  OBVIOUS
<1>2. shape \subseteq p.shape \cup Target(p, FALSE) /\ shape # {}
      /\ shape \subseteq SideBox(RotOf(p.kind))
  BY <1>1, TargetType, PieceFields
<1>3. shape \in SUBSET PieceGrid
  <2>1. SideBox(RotOf(p.kind)) \subseteq PieceGrid
    BY PieceFields, ShapeType, BoardAssumption DEF SideBox, PieceGrid
  <2> QED
    BY <1>2, <2>1
<1>4. turned \in States(p.kind) /\ turned \in Nat
  <2>1. turned \in States(p.kind)
    BY ByTable, PieceFields
  <2> HIDE DEF turned
  <2> QED
    BY <2>1 DEF States
<1>5. faced \in 0 .. Orientations(p.kind) - 1 /\ faced \in Nat
  <2>1. p.kind \in Drawn /\ p.orientation \in 0 .. Orientations(p.kind) - 1
        /\ Orientations(p.kind) \in Nat
    BY PieceFields, TurnType
  <2>2. p.orientation \in Nat
    BY <2>1
  <2>3. Turn(p.kind, p.orientation, FALSE) \in 0 .. Orientations(p.kind) - 1
    BY <2>1, <2>2, TurnType
  <2>4. faced \in 0 .. Orientations(p.kind) - 1
    BY <2>1, <2>3
  <2> HIDE DEF faced
  <2> QED
    BY <2>1, <2>4
<1> PICK q : q = Spun(p, FALSE)
  OBVIOUS
<1>6. q = [p EXCEPT !.shape = shape, !.state = turned, !.orientation = faced]
  BY <1>1 DEF Spun, PieceSet
<1> HIDE DEF turned, faced
<1>7. q \in [kind : Drawn, x : Int, y : Int, orientation : Nat, state : Nat,
             shape : SUBSET PieceGrid, cell : Cell]
  BY <1>3, <1>4, <1>5, <1>6 DEF PieceSet
<1>8. /\ q.kind = p.kind /\ q.orientation = faced /\ q.state = turned
      /\ q.shape = shape /\ q.cell = p.cell /\ q.x = p.x /\ q.y = p.y
  BY <1>6 DEF PieceSet
<1>9. q \in PieceSet
  BY <1>2, <1>4, <1>5, <1>7, <1>8, PieceFields DEF PieceSet, SideBox
<1> QED
  BY <1>2, <1>8, <1>9

LEMMA RotateType ==
    ASSUME NEW p \in PieceSet, NEW b \in BoardSet
    PROVE  LET q == Rotate(p, b, FALSE) IN
           /\ q \in PieceSet /\ q.x = p.x /\ q.y = p.y
           /\ q.kind = p.kind /\ q.cell = p.cell
           /\ \A s \in q.shape : s \in p.shape \/ (s \in PieceGrid /\ ~Occupied(b, p.x + s[1], p.y + s[2]))
<1> PICK q : q = Rotate(p, b, FALSE)
  OBVIOUS
<1>1. CASE RotOf(p.kind) = 0 \/ ~ShapeFits(b, Target(p, FALSE), p.x, p.y)
  BY <1>1 DEF Rotate
<1>2. CASE RotOf(p.kind) # 0 /\ ShapeFits(b, Target(p, FALSE), p.x, p.y)
  <2>1. q = Spun(p, FALSE)
    BY <1>2 DEF Rotate
  <2>2. /\ q \in PieceSet /\ q.x = p.x /\ q.y = p.y /\ q.kind = p.kind /\ q.cell = p.cell
        /\ q.shape \subseteq p.shape \cup Target(p, FALSE)
    BY <1>2, <2>1, SpunType
  <2>3. q.shape \subseteq PieceGrid
    BY <2>2, PieceFields
  <2>4. \A s \in Target(p, FALSE) : ~Occupied(b, p.x + s[1], p.y + s[2])
    BY <1>2 DEF ShapeFits
  <2> QED
    BY <2>2, <2>3, <2>4
<1> QED
  BY <1>1, <1>2

-----------------------------------------------------------------------------
(* The falling piece.                                                      *)

\* The games a player sees.
Games(most, up) == {g \in GoodGames(most) : PieceOK(g, up)}

\* A step of the falling piece: its place, its grid, the lock delay.
Stepped(g, x, y, q, phase, sliding) ==
    [g EXCEPT !.x = x, !.y = y, !.piece = q, !.phase = phase, !.sliding = sliding]

LEMMA SetPhase ==
    ASSUME NEW g \in GameSet, NEW phase \in {"falling", "sliding", "over"}
    PROVE  [g EXCEPT !.phase = phase] \in GameSet
BY DEF GameSet

LEMMA SetSliding ==
    ASSUME NEW g \in GameSet, NEW sliding \in 0 .. 2
    PROVE  [g EXCEPT !.sliding = sliding] \in GameSet
BY DEF GameSet

LEMMA SetPlace ==
    ASSUME NEW g \in GameSet, NEW x \in Int, NEW y \in Int
    PROVE  [g EXCEPT !.x = x, !.y = y] \in GameSet
BY DEF GameSet

LEMMA SetPiece ==
    ASSUME NEW g \in GameSet, NEW p \in PieceSet \cup {NoPiece}
    PROVE  [g EXCEPT !.piece = p] \in GameSet
BY DEF GameSet

LEMMA SteppedType ==
    ASSUME NEW g \in GameSet, NEW x \in Int, NEW y \in Int, NEW q \in PieceSet,
           NEW phase \in {"falling", "sliding"}, NEW sliding \in 0 .. 2
    PROVE  Stepped(g, x, y, q, phase, sliding) \in GameSet
<1> PICK a : a = [g EXCEPT !.x = x, !.y = y]
  OBVIOUS
<1>1. a \in GameSet
  BY SetPlace
<1> PICK b : b = [a EXCEPT !.piece = q]
  OBVIOUS
<1>2. b \in GameSet
  BY <1>1, SetPiece
<1> PICK c : c = [b EXCEPT !.phase = phase]
  OBVIOUS
<1>3. c \in GameSet
  BY <1>2, SetPhase
<1>4. [c EXCEPT !.sliding = sliding] \in GameSet
  BY <1>3, SetSliding
<1>5. Stepped(g, x, y, q, phase, sliding) = [c EXCEPT !.sliding = sliding]
  BY DEF Stepped
<1> QED
  BY <1>4, <1>5

\* Squares the piece held, or found free, are no walls, and no boxes either unless the stack rose.
LEMMA Stands ==
    ASSUME NEW g, GameOK(g), NEW up \in BOOLEAN, PieceOK(g, up), g.piece # NoPiece,
           NEW x \in Int, NEW y \in Int, NEW q \in PieceSet, q.x = x, q.y = y,
           \A s \in q.shape : \/ x = g.x /\ y = g.y /\ s \in g.piece.shape
                              \/ ~Occupied(g.board, x + s[1], y + s[2])
    PROVE  /\ up \/ CanMoveTo(q, g.board, x, y)
           /\ "Bottle" \in g.weapons => Standing(q) \cap Walls = {}
<1>1. g.board \in BoardSet /\ g.piece \in PieceSet /\ g.board.active = g.weapons
      /\ BottleStands(g.board)
  BY DEF GameOK, GameSet, Framed
<1>2. g.piece.x = g.x /\ g.piece.y = g.y
  BY DEF PieceOK, Lockstep
<1>3. up \/ CanMoveTo(g.piece, g.board, g.x, g.y)
  BY DEF PieceOK, Clear
<1>4. "Bottle" \in g.weapons => Standing(g.piece) \cap Walls = {}
  BY DEF PieceOK, Clear
<1>5. up \/ CanMoveTo(q, g.board, x, y)
  BY <1>3 DEF CanMoveTo, ShapeFits
<1>6. ASSUME "Bottle" \in g.weapons, NEW s \in q.shape
      PROVE  <<q.x + s[1], q.y + s[2]>> \notin Walls
  <2>1. CASE x = g.x /\ y = g.y /\ s \in g.piece.shape
    <3>1. <<g.x + s[1], g.y + s[2]>> \in Standing(g.piece)
      BY <1>2, <2>1 DEF Standing
    <3> QED
      BY <1>4, <1>6, <2>1, <3>1
  <2>2. CASE ~Occupied(g.board, x + s[1], y + s[2])
    <3>1. q.shape \in SUBSET PieceGrid
      BY PieceFields
    <3>2. {s} \in SUBSET PieceGrid /\ ShapeFits(g.board, {s}, x, y)
      BY <2>2, <3>1 DEF ShapeFits
    <3>3. <<x + s[1], y + s[2]>> \notin Walls
      BY <1>1, <1>6, <3>2, FreeOfWalls
    <3> QED
      BY <3>3
  <2> QED
    BY <2>1, <2>2
<1>7. "Bottle" \in g.weapons => Standing(q) \cap Walls = {}
  BY <1>6 DEF Standing
<1> QED
  BY <1>5, <1>7

LEMMA SteppedKeeps ==
    ASSUME NEW most, NEW up \in BOOLEAN, NEW g \in Games(most, up), g.piece # NoPiece,
           NEW x \in Int, NEW y \in Int, NEW q \in PieceSet, q.x = x, q.y = y,
           \A s \in q.shape : \/ x = g.x /\ y = g.y /\ s \in g.piece.shape
                              \/ ~Occupied(g.board, x + s[1], y + s[2]),
           NEW phase \in {"falling", "sliding"}, NEW sliding \in 0 .. 2,
           phase = "sliding" <=> sliding > 0
    PROVE  LET h == Stepped(g, x, y, q, phase, sliding) IN
           /\ h \in Games(most, up) /\ h.piece # NoPiece
           /\ h.lockSeq = g.lockSeq /\ h.weapons = g.weapons /\ h.phase = phase
<1>1. g \in GameSet /\ GameOK(g) /\ Len(g.pending) <= most /\ PieceOK(g, up)
  BY DEF Games, GoodGames
<1> PICK h : h = Stepped(g, x, y, q, phase, sliding)
  OBVIOUS
<1>2. h \in GameSet
  BY <1>1, SteppedType
<1>3. /\ h.board = g.board /\ h.pieces = g.pieces /\ h.weapons = g.weapons
      /\ h.remaining = g.remaining /\ h.pending = g.pending
      /\ h.defX = g.defX /\ h.defY = g.defY /\ h.down = g.down /\ h.left = g.left
      /\ h.base = g.base /\ h.fast = g.fast
  BY <1>1 DEF Stepped, GameSet
<1>4. /\ h.x = x /\ h.y = y /\ h.piece = q /\ h.phase = phase /\ h.sliding = sliding
      /\ h.drop = g.drop /\ h.dropping = g.dropping /\ h.lockSeq = g.lockSeq
  BY <1>1 DEF Stepped, GameSet
<1>5. GameOK(h)
  BY <1>1, <1>2, <1>3, SameParts
<1>6. q # NoPiece
  BY PieceFields
<1>7. Lockstep(h)
  BY <1>4, <1>6 DEF Lockstep
<1>8. Clear(h, up)
  <2>1. /\ up \/ CanMoveTo(q, g.board, x, y)
        /\ "Bottle" \in g.weapons => Standing(q) \cap Walls = {}
    BY <1>1, Stands
  <2> QED
    BY <1>3, <1>4, <2>1 DEF Clear
<1>9. Cadence(h)
  <2>1. g.phase # "over" /\ Cadence(g)
    BY <1>1 DEF PieceOK, Lockstep
  <2> QED
    BY <1>3, <1>4, <2>1 DEF Cadence
<1> QED
  BY <1>1, <1>3, <1>4, <1>5, <1>6, <1>7, <1>8, <1>9 DEF Games, GoodGames, GameOK, PieceOK

\* The piece as it is, moved over free squares.
LEMMA SlidKeeps ==
    ASSUME NEW most, NEW up \in BOOLEAN, NEW g \in Games(most, up), g.piece # NoPiece,
           NEW x \in Int, NEW y \in Int, CanMoveTo(g.piece, g.board, x, y),
           NEW phase \in {"falling", "sliding"}, NEW sliding \in 0 .. 2,
           phase = "sliding" <=> sliding > 0
    PROVE  LET h == Stepped(g, x, y, Moved(g.piece, x, y), phase, sliding) IN
           /\ h \in Games(most, up) /\ h.piece # NoPiece
           /\ h.lockSeq = g.lockSeq /\ h.weapons = g.weapons /\ h.phase = phase
<1>1. g.piece \in PieceSet
  BY DEF Games, GoodGames, GameSet
<1>2. PICK q : q = Moved(g.piece, x, y)
  OBVIOUS
<1>3. q \in PieceSet /\ q.x = x /\ q.y = y /\ q.shape = g.piece.shape
  <2>1. PICK p \in PieceSet : p = g.piece
    BY <1>1
  <2>2. /\ Moved(p, x, y) \in PieceSet /\ Moved(p, x, y).x = x /\ Moved(p, x, y).y = y
        /\ Moved(p, x, y).shape = p.shape
    BY MovedType
  <2>3. q = Moved(p, x, y)
    BY <1>2, <2>1
  <2> QED
    BY <2>1, <2>2, <2>3
<1>4. \A s \in q.shape : ~Occupied(g.board, x + s[1], y + s[2])
  BY <1>3 DEF CanMoveTo, ShapeFits
<1> QED
  BY <1>2, <1>3, <1>4, SteppedKeeps

LEMMA PieceTypes ==
    ASSUME NEW most, NEW up, NEW g \in Games(most, up), g.piece # NoPiece
    PROVE  /\ g \in GameSet /\ g.piece \in PieceSet /\ g.board \in BoardSet
           /\ g.x \in Int /\ g.y \in Int /\ g.down \in {-1, 1} /\ g.left \in {-1, 1}
           /\ g.phase \in {"falling", "sliding"} /\ g.sliding \in 0 .. 2
           /\ g.phase = "sliding" <=> g.sliding > 0
           /\ g.piece.x = g.x /\ g.piece.y = g.y
<1>1. g \in GameSet /\ Lockstep(g)
  BY DEF Games, GoodGames, PieceOK
<1>2. /\ g.piece \in PieceSet /\ g.board \in BoardSet
      /\ g.x \in Int /\ g.y \in Int /\ g.down \in {-1, 1} /\ g.left \in {-1, 1}
      /\ g.sliding \in 0 .. 2
  BY <1>1 DEF GameSet
<1>3. g.phase \in {"falling", "sliding", "over"}
  BY <1>1 DEF GameSet
<1> QED
  BY <1>1, <1>2, <1>3 DEF Lockstep

LEMMA ShiftKeeps ==
    ASSUME NEW most, NEW up \in BOOLEAN, NEW g \in Games(most, up), g.piece # NoPiece,
           NEW dx \in {-1, 1}
    PROVE  LET h == Shift(g, dx) IN
           h \in Games(most, up) /\ h.piece # NoPiece /\ h.lockSeq = g.lockSeq
<1>1. CASE ~CanMoveTo(g.piece, g.board, g.x + dx, g.y)
  BY <1>1 DEF Shift
<1>2. CASE CanMoveTo(g.piece, g.board, g.x + dx, g.y)
  <2>1. PICK sliding : sliding = IF g.sliding = 0 THEN 0 ELSE 2
    OBVIOUS
  <2>2. sliding \in 0 .. 2 /\ (g.phase = "sliding" <=> sliding > 0)
    BY <2>1, PieceTypes
  <2>3. g.x + dx \in Int /\ g.y \in Int
    BY PieceTypes
  <2>4. Shift(g, dx) = Stepped(g, g.x + dx, g.y, Moved(g.piece, g.x + dx, g.y),
                               g.phase, sliding)
    BY <1>2, <2>1, PieceTypes DEF Shift, Stepped, GameSet
  <2>5. g.phase \in {"falling", "sliding"}
    BY PieceTypes
  <2> QED
    BY <1>2, <2>2, <2>3, <2>4, <2>5, SlidKeeps
<1> QED
  BY <1>1, <1>2

LEMMA SpinKeeps ==
    ASSUME NEW most, NEW up \in BOOLEAN, NEW g \in Games(most, up), g.piece # NoPiece
    PROVE  LET h == Spin(g) IN
           /\ h \in Games(most, up) /\ h.piece # NoPiece
           /\ h.lockSeq = g.lockSeq /\ h.weapons = g.weapons /\ h.phase = g.phase
<1>1. PICK q : q = Rotate(g.piece, g.board, FALSE)
  OBVIOUS
<1>2. /\ q \in PieceSet /\ q.x = g.x /\ q.y = g.y
      /\ \A s \in q.shape : s \in g.piece.shape \/ ~Occupied(g.board, g.x + s[1], g.y + s[2])
  <2>1. g.piece \in PieceSet /\ g.board \in BoardSet /\ g.piece.x = g.x /\ g.piece.y = g.y
    BY PieceTypes
  <2> QED
    BY <1>1, <2>1, RotateType
<1>3. Spin(g) = Stepped(g, g.x, g.y, q, g.phase, g.sliding)
  BY <1>1, PieceTypes DEF Spin, Stepped, GameSet
<1>4. /\ g.x \in Int /\ g.y \in Int /\ g.phase \in {"falling", "sliding"}
      /\ g.sliding \in 0 .. 2 /\ (g.phase = "sliding" <=> g.sliding > 0)
  BY PieceTypes
<1> QED
  BY <1>2, <1>3, <1>4, SteppedKeeps

\* What no part of the invariant looks at.
LEMMA AsideKeeps ==
    ASSUME NEW most, NEW more, NEW up, NEW g \in Games(most, up), NEW h \in GameSet,
           Len(h.pending) <= more,
           h.board = g.board, h.pieces = g.pieces, h.weapons = g.weapons,
           h.remaining = g.remaining, h.defX = g.defX, h.defY = g.defY,
           h.down = g.down, h.left = g.left, h.base = g.base, h.fast = g.fast,
           h.x = g.x, h.y = g.y, h.piece = g.piece, h.phase = g.phase, h.sliding = g.sliding,
           h.drop = g.drop, h.dropping = g.dropping
    PROVE  h \in Games(more, up)
<1>1. GameOK(g) /\ Lockstep(g) /\ Clear(g, up) /\ Cadence(g)
  BY DEF Games, GoodGames, PieceOK
<1>2. GameOK(h)
  BY <1>1, SameParts
<1>3. Lockstep(h)
  BY <1>1 DEF Lockstep
<1>4. Clear(h, up)
  BY <1>1 DEF Clear
<1>5. Cadence(h)
  BY <1>1 DEF Cadence
<1> QED
  BY <1>2, <1>3, <1>4, <1>5 DEF Games, GoodGames, PieceOK

LEMMA SetInstant ==
    ASSUME NEW g \in GameSet, NEW instant \in BOOLEAN
    PROVE  [g EXCEPT !.instant = instant] \in GameSet
BY DEF GameSet

LEMMA SetSlick ==
    ASSUME NEW g \in GameSet, NEW slick \in 0 .. 1
    PROVE  [g EXCEPT !.slick = slick] \in GameSet
BY DEF GameSet

LEMMA SetDropping ==
    ASSUME NEW g \in GameSet, NEW dropping \in BOOLEAN, NEW drop \in Nat
    PROVE  [g EXCEPT !.dropping = dropping, !.drop = drop] \in GameSet
BY DEF GameSet

LEMMA SetBazaar ==
    ASSUME NEW g \in GameSet, NEW open \in BOOLEAN
    PROVE  [g EXCEPT !.inBazaar = open] \in GameSet
BY DEF GameSet

LEMMA DropStepKeeps ==
    ASSUME NEW most, NEW up \in BOOLEAN, NEW g \in Games(most, up), g.piece # NoPiece
    PROVE  LET h == DropStep(g) IN
           h \in Games(most, up) /\ h.piece # NoPiece /\ h.lockSeq = g.lockSeq
<1>1. CASE CanMoveTo(g.piece, g.board, g.x, g.y + g.down)
  <2>1. g.y + g.down \in Int /\ g.x \in Int
    BY PieceTypes
  <2>2. DropStep(g) = Stepped(g, g.x, g.y + g.down, Moved(g.piece, g.x, g.y + g.down),
                              g.phase, g.sliding)
    BY <1>1, PieceTypes DEF DropStep, Stepped, GameSet
  <2>3. /\ g.phase \in {"falling", "sliding"}
        /\ g.sliding \in 0 .. 2 /\ (g.phase = "sliding" <=> g.sliding > 0)
    BY PieceTypes
  <2> QED
    BY <1>1, <2>1, <2>2, <2>3, SlidKeeps
<1>2. CASE ~CanMoveTo(g.piece, g.board, g.x, g.y + g.down)
  <2>11. ("NoSlide" \in g.weapons) \in BOOLEAN
    OBVIOUS
  <2>1. PICK instant \in BOOLEAN : instant = ("NoSlide" \in g.weapons)
    BY <2>11, Zenon
  <2>2. PICK f : f = Stepped(g, g.x, g.y, g.piece, "sliding", 1)
    OBVIOUS
  <2>3. f \in Games(most, up) /\ f.piece # NoPiece /\ f.lockSeq = g.lockSeq
    <3>1. g.x \in Int /\ g.y \in Int /\ g.piece \in PieceSet /\ g.piece.x = g.x
          /\ g.piece.y = g.y
      BY PieceTypes
    <3>2. "sliding" \in {"falling", "sliding"} /\ 1 \in 0 .. 2 /\ ("sliding" = "sliding" <=> 1 > 0)
      OBVIOUS
    <3> QED
      BY <2>2, <3>1, <3>2, SteppedKeeps
  <2>4. PICK h : h = [f EXCEPT !.instant = instant]
    OBVIOUS
  <2>5. f \in GameSet /\ Len(f.pending) <= most
    BY <2>3 DEF Games, GoodGames
  <2>6. h \in GameSet
    BY <2>4, <2>5, SetInstant
  <2>7. /\ h.board = f.board /\ h.pieces = f.pieces /\ h.weapons = f.weapons
        /\ h.remaining = f.remaining /\ h.defX = f.defX /\ h.defY = f.defY
        /\ h.down = f.down /\ h.left = f.left /\ h.base = f.base /\ h.fast = f.fast
    BY <2>4, <2>5 DEF GameSet
  <2>8. /\ h.x = f.x /\ h.y = f.y /\ h.piece = f.piece /\ h.phase = f.phase
        /\ h.sliding = f.sliding /\ h.drop = f.drop /\ h.dropping = f.dropping
        /\ h.lockSeq = f.lockSeq /\ h.pending = f.pending
    BY <2>4, <2>5 DEF GameSet
  <2>9. h \in Games(most, up)
    BY <2>3, <2>5, <2>6, <2>7, <2>8, AsideKeeps
  <2>10. DropStep(g) = h
    <3>1. g \in GameSet
      BY PieceTypes
    <3>2. DropStep(g) = [g EXCEPT !.sliding = 1, !.instant = instant, !.phase = "sliding"]
      BY <1>2, <2>1 DEF DropStep
    <3> QED
      BY <2>2, <2>4, <3>1, <3>2, ZenonT(60) DEF Stepped, GameSet
  <2> QED
    BY <2>3, <2>8, <2>9, <2>10
<1> QED
  BY <1>1, <1>2

LEMMA SlickStepKeeps ==
    ASSUME NEW most, NEW up \in BOOLEAN, NEW g \in Games(most, up), g.piece # NoPiece
    PROVE  LET h == SlickStep(g) IN
           /\ h \in Games(most, up) /\ h.piece # NoPiece
           /\ h.lockSeq = g.lockSeq
<1> PICK dx : dx = IF g.slick = 0 THEN g.left ELSE -g.left
  OBVIOUS
<1>1. g \in GameSet /\ dx \in {-1, 1} /\ g.x + dx \in Int /\ g.y \in Int
  BY PieceTypes
<1>2. CASE CanMoveTo(g.piece, g.board, g.x + dx, g.y)
  <2>1. SlickStep(g) = Stepped(g, g.x + dx, g.y, Moved(g.piece, g.x + dx, g.y),
                               g.phase, g.sliding)
    BY <1>1, <1>2 DEF SlickStep, Stepped, GameSet
  <2>2. /\ g.phase \in {"falling", "sliding"}
        /\ g.sliding \in 0 .. 2 /\ (g.phase = "sliding" <=> g.sliding > 0)
    BY PieceTypes
  <2> QED
    BY <1>1, <1>2, <2>1, <2>2, SlidKeeps
<1>3. CASE ~CanMoveTo(g.piece, g.board, g.x + dx, g.y)
  <2>1. g.slick \in 0 .. 1
    BY <1>1 DEF GameSet
  <2>2. PICK slick \in 0 .. 1 : slick = 1 - g.slick
    BY <2>1
  <2>3. PICK h : h = [g EXCEPT !.slick = slick]
    OBVIOUS
  <2>4. h \in GameSet
    BY <1>1, <2>3, SetSlick
  <2>5. /\ h.board = g.board /\ h.pieces = g.pieces /\ h.weapons = g.weapons
        /\ h.remaining = g.remaining /\ h.defX = g.defX /\ h.defY = g.defY
        /\ h.down = g.down /\ h.left = g.left /\ h.base = g.base /\ h.fast = g.fast
    BY <1>1, <2>3 DEF GameSet
  <2>6. /\ h.x = g.x /\ h.y = g.y /\ h.piece = g.piece /\ h.phase = g.phase
        /\ h.sliding = g.sliding /\ h.drop = g.drop /\ h.dropping = g.dropping
        /\ h.lockSeq = g.lockSeq /\ h.pending = g.pending
    BY <1>1, <2>3 DEF GameSet
  <2>7. Len(h.pending) <= most
    BY <2>6 DEF Games, GoodGames
  <2>8. h \in Games(most, up)
    BY <2>4, <2>5, <2>6, <2>7, AsideKeeps
  <2>9. SlickStep(g) = h
    BY <1>1, <1>3, <2>2, <2>3 DEF SlickStep, GameSet
  <2> QED
    BY <2>6, <2>8, <2>9
<1> QED
  BY <1>2, <1>3

LEMMA SlamKeeps ==
    ASSUME NEW most, NEW up \in BOOLEAN, NEW g \in Games(most, up), g.piece # NoPiece
    PROVE  LET h == Slam(g) IN
           h \in Games(most, up) /\ h.piece # NoPiece /\ h.lockSeq = g.lockSeq
<1>1. CASE g.inBazaar
  BY <1>1 DEF Slam
<1>2. CASE ~g.inBazaar
  <2>1. g \in GameSet /\ GameOK(g) /\ Len(g.pending) <= most
        /\ Lockstep(g) /\ Clear(g, up)
    BY DEF Games, GoodGames, PieceOK
  <2>2. PICK h : h = [g EXCEPT !.dropping = TRUE, !.drop = g.fast]
    OBVIOUS
  <2>3. g.fast \in Nat /\ TRUE \in BOOLEAN
    BY <2>1 DEF GameSet
  <2>4. h \in GameSet
    BY <2>1, <2>2, <2>3, SetDropping
  <2>5. /\ h.board = g.board /\ h.pieces = g.pieces /\ h.weapons = g.weapons
        /\ h.remaining = g.remaining /\ h.defX = g.defX /\ h.defY = g.defY
        /\ h.down = g.down /\ h.left = g.left /\ h.base = g.base /\ h.fast = g.fast
    BY <2>1, <2>2 DEF GameSet
  <2>6. /\ h.x = g.x /\ h.y = g.y /\ h.piece = g.piece /\ h.phase = g.phase
        /\ h.sliding = g.sliding /\ h.drop = g.fast /\ h.dropping = TRUE
        /\ h.lockSeq = g.lockSeq /\ h.pending = g.pending
    BY <2>1, <2>2 DEF GameSet
  <2>7. GameOK(h)
    BY <2>1, <2>4, <2>5, SameParts
  <2>8. Lockstep(h)
    BY <2>1, <2>6 DEF Lockstep
  <2>9. Clear(h, up)
    BY <2>1, <2>5, <2>6 DEF Clear
  <2>10. Cadence(h)
    BY <2>5, <2>6 DEF Cadence
  <2>11. h \in Games(most, up)
    BY <2>1, <2>4, <2>6, <2>7, <2>8, <2>9, <2>10 DEF Games, GoodGames, PieceOK
  <2> QED
    BY <1>2, <2>2, <2>6, <2>11 DEF Slam
<1> QED
  BY <1>1, <1>2

LEMMA ResumeKeeps ==
    ASSUME NEW most, NEW up \in BOOLEAN, NEW g \in Games(most, up), g.piece # NoPiece,
           CanMoveTo(g.piece, g.board, g.x, g.y + g.down)
    PROVE  Resume(g) \in Games(most, up) /\ Resume(g).lockSeq = g.lockSeq
<1>1. g.y + g.down \in Int /\ g.x \in Int
  BY PieceTypes
<1>2. Resume(g) = Stepped(g, g.x, g.y + g.down, Moved(g.piece, g.x, g.y + g.down), "falling", 0)
  BY PieceTypes DEF Resume, Stepped, GameSet
<1>3. "falling" \in {"falling", "sliding"} /\ 0 \in 0 .. 2 /\ ("falling" = "sliding" <=> 0 > 0)
  OBVIOUS
<1> QED
  BY <1>1, <1>2, <1>3, SlidKeeps

-----------------------------------------------------------------------------
(* The lock and the next piece.                                            *)

\* Another board, with the same flags and its walls.
LEMMA NewBoard ==
    ASSUME NEW g, GameOK(g), NEW h \in GameSet, Kept(h.board, g.board),
           h.pieces = g.pieces, h.weapons = g.weapons,
           h.remaining = g.remaining, h.defX = g.defX, h.defY = g.defY,
           h.down = g.down, h.left = g.left, h.base = g.base, h.fast = g.fast
    PROVE  GameOK(h)
<1>1. Framed(h)
  BY DEF GameOK, Framed, Kept
<1>2. Clocked(h)
  BY DEF GameOK, Clocked
<1>3. Supplied(h)
  BY DEF GameOK, Supplied
<1>4. CountsInForce(h) /\ BottleStands(h.board)
  BY DEF GameOK, CountsInForce, Kept
<1> QED
  BY <1>1, <1>2, <1>3, <1>4 DEF GameOK

LEMMA SetBoard ==
    ASSUME NEW g \in GameSet, NEW b \in BoardSet
    PROVE  [g EXCEPT !.board = b] \in GameSet
BY DEF GameSet

LEMMA SetPieces ==
    ASSUME NEW g \in GameSet, NEW m \in ManagerSet
    PROVE  [g EXCEPT !.pieces = m] \in GameSet
BY DEF GameSet

LEMMA SetLockSeq ==
    ASSUME NEW g \in GameSet, NEW n \in Nat
    PROVE  [g EXCEPT !.lockSeq = n] \in GameSet
BY DEF GameSet

LEMMA NextDrawn ==
    ASSUME NEW m \in ManagerSet, NEW k \in NextKinds(m, Kind)
    PROVE  k \in Drawn
BY DEF NextKinds, ManagerSet, Drawn

LEMMA MadeType ==
    ASSUME NEW m \in ManagerSet, NEW k \in Drawn
    PROVE  /\ Made(m, k) \in ManagerSet
           /\ Made(m, k).supply = m.supply /\ Made(m, k).broken = m.broken
<1>1. m.hapOn \in Nat
  BY DEF ManagerSet
<1>2. PICK hap \in Nat : hap = IF m.hapOn > 0 THEN m.hapOn - 1 ELSE 0
  BY <1>1
<1>3. Made(m, k) = [m EXCEPT !.old = k, !.hapOn = hap]
  BY <1>2 DEF Made
<1> QED
  BY <1>3 DEF ManagerSet

\* A game whose piece has just come in.
Fresh(h) ==
    /\ h.phase \in {"falling", "over"} /\ (h.phase = "over" <=> h.piece = NoPiece)
    /\ h.piece # NoPiece => h.piece.x = h.x /\ h.piece.y = h.y
    /\ Clear(h, FALSE) /\ Cadence(h)

\* The next piece stands on free squares, or the game is over.
LEMMA SpawnAsKeeps ==
    ASSUME NEW most, NEW g \in GoodGames(most), NEW k \in Drawn, NEW pips \in Pips,
           NEW h, h = SpawnAs(g, k, pips)
    PROVE  h \in GoodGames(most) /\ h.sliding = g.sliding /\ Fresh(h)
<1>1. g \in GameSet /\ GameOK(g) /\ Len(g.pending) <= most
  BY DEF GoodGames
<1> PICK x : x = g.defX - RotOf(k) \div 2
  OBVIOUS
<1> PICK p : p = Construct(k, x, g.defY, pips)
  OBVIOUS
<1>2. x \in Int /\ g.defY \in Int
  <2>1. g.defX \in Int /\ g.defY \in Int
    BY <1>1 DEF GameSet
  <2>2. RotOf(k) \in Nat
    BY ShapeType
  <2> QED
    BY <2>1, <2>2
<1>3. p \in PieceSet /\ p.x = x /\ p.y = g.defY
  BY <1>2, ConstructType
<1> PICK m : m = Made(g.pieces, k)
  OBVIOUS
<1>4. m \in ManagerSet /\ m.supply = g.pieces.supply /\ m.broken = g.pieces.broken
  <2>1. g.pieces \in ManagerSet
    BY <1>1 DEF GameSet
  <2> QED
    BY <2>1, MadeType
<1> PICK drawn : drawn = [g EXCEPT !.pieces = m, !.x = x, !.y = g.defY]
  OBVIOUS
<1>5. drawn \in GameSet
  <2>1. PICK a : a = [g EXCEPT !.pieces = m]
    OBVIOUS
  <2>2. a \in GameSet
    BY <1>1, <1>4, <2>1, SetPieces
  <2>3. [a EXCEPT !.x = x, !.y = g.defY] \in GameSet
    BY <1>2, <2>2, SetPlace
  <2> QED
    BY <2>1, <2>3
<1>6. /\ drawn.board = g.board /\ drawn.pieces = m /\ drawn.weapons = g.weapons
      /\ drawn.remaining = g.remaining /\ drawn.defX = g.defX /\ drawn.defY = g.defY
      /\ drawn.down = g.down /\ drawn.left = g.left /\ drawn.base = g.base
      /\ drawn.fast = g.fast
  BY <1>1 DEF GameSet
<1>7. /\ drawn.x = x /\ drawn.y = g.defY /\ drawn.sliding = g.sliding
      /\ drawn.pending = g.pending
  BY <1>1 DEF GameSet
<1>8. h = IF ~CanMoveTo(p, g.board, x, g.defY)
          THEN [drawn EXCEPT !.piece = NoPiece, !.phase = "over"]
          ELSE [drawn EXCEPT !.piece = p, !.dropping = FALSE, !.drop = g.base,
                             !.phase = "falling"]
  BY DEF SpawnAs
<1>9. /\ h \in GameSet
      /\ IF CanMoveTo(p, g.board, x, g.defY)
         THEN h.piece = p /\ h.phase = "falling" /\ h.dropping = FALSE /\ h.drop = h.base
         ELSE h.piece = NoPiece /\ h.phase = "over"
  <2>1. CASE CanMoveTo(p, g.board, x, g.defY)
    <3>1. h = [drawn EXCEPT !.piece = p, !.dropping = FALSE, !.drop = g.base,
                            !.phase = "falling"]
      BY <1>8, <2>1
    <3>2. PICK a : a = [drawn EXCEPT !.piece = p]
      OBVIOUS
    <3>3. a \in GameSet
      BY <1>3, <1>5, <3>2, SetPiece
    <3>4. PICK b : b = [a EXCEPT !.dropping = FALSE, !.drop = g.base]
      OBVIOUS
    <3>5. g.base \in Nat /\ FALSE \in BOOLEAN
      BY <1>1 DEF GameSet
    <3>6. b \in GameSet
      BY <3>3, <3>4, <3>5, SetDropping
    <3>7. [b EXCEPT !.phase = "falling"] \in GameSet
      BY <3>6, SetPhase
    <3>8. h \in GameSet
      BY <3>1, <3>2, <3>4, <3>7
    <3>9. h.piece = p /\ h.phase = "falling" /\ h.dropping = FALSE /\ h.drop = g.base
      BY <1>5, <3>1 DEF GameSet
    <3>10. h.base = g.base
      BY <1>5, <1>6, <3>1 DEF GameSet
    <3> QED
      BY <2>1, <3>8, <3>9, <3>10
  <2>2. CASE ~CanMoveTo(p, g.board, x, g.defY)
    <3>1. h = [drawn EXCEPT !.piece = NoPiece, !.phase = "over"]
      BY <1>8, <2>2
    <3>2. PICK a : a = [drawn EXCEPT !.piece = NoPiece]
      OBVIOUS
    <3>3. a \in GameSet
      BY <1>5, <3>2, SetPiece
    <3>4. [a EXCEPT !.phase = "over"] \in GameSet
      BY <3>3, SetPhase
    <3>5. h \in GameSet
      BY <3>1, <3>2, <3>4
    <3>6. h.piece = NoPiece /\ h.phase = "over"
      BY <1>5, <3>1 DEF GameSet
    <3> QED
      BY <2>2, <3>5, <3>6
  <2> QED
    BY <2>1, <2>2
<1>10. /\ h.board = g.board /\ h.pieces = m /\ h.weapons = g.weapons
       /\ h.remaining = g.remaining /\ h.defX = g.defX /\ h.defY = g.defY
       /\ h.down = g.down /\ h.left = g.left /\ h.base = g.base /\ h.fast = g.fast
  BY <1>5, <1>6, <1>8 DEF GameSet
<1>11. /\ h.x = x /\ h.y = g.defY /\ h.sliding = g.sliding /\ h.pending = g.pending
  BY <1>5, <1>7, <1>8 DEF GameSet
<1>12. GameOK(h)
  <2>1. Framed(h)
    BY <1>1, <1>10 DEF GameOK, Framed
  <2>2. Clocked(h)
    BY <1>1, <1>10 DEF GameOK, Clocked
  <2>3. Supplied(h)
    BY <1>1, <1>4, <1>10 DEF GameOK, Supplied
  <2>4. CountsInForce(h) /\ BottleStands(h.board)
    BY <1>1, <1>10 DEF GameOK, CountsInForce
  <2> QED
    BY <1>9, <2>1, <2>2, <2>3, <2>4 DEF GameOK
<1>13. h \in GoodGames(most)
  BY <1>1, <1>11, <1>12 DEF GoodGames, GameOK
<1>14. p # NoPiece
  BY <1>3, PieceFields
<1>15. Cadence(h)
  BY <1>9 DEF Cadence
<1>16. Clear(h, FALSE)
  <2> SUFFICES ASSUME h.piece # NoPiece
               PROVE  /\ CanMoveTo(h.piece, h.board, h.x, h.y)
                      /\ "Bottle" \in h.weapons => Standing(h.piece) \cap Walls = {}
    BY DEF Clear
  <2>1. CanMoveTo(p, g.board, x, g.defY) /\ h.piece = p
    BY <1>9
  <2>2. ASSUME "Bottle" \in g.weapons
        PROVE  Standing(p) \cap Walls = {}
    <3>1. g.board \in BoardSet /\ BottleStands(g.board) /\ "Bottle" \in g.board.active
      BY <1>1, <2>2 DEF GameOK, GameSet, Framed
    <3>2. p.shape \in SUBSET PieceGrid /\ ShapeFits(g.board, p.shape, x, g.defY)
      BY <1>3, <2>1, PieceFields DEF CanMoveTo
    <3>3. \A s \in p.shape : <<x + s[1], g.defY + s[2]>> \notin Walls
      BY <1>2, <3>1, <3>2, FreeOfWalls
    <3> QED
      BY <1>3, <3>3 DEF Standing
  <2> QED
    BY <1>10, <1>11, <2>1, <2>2
<1> QED
  BY <1>3, <1>9, <1>11, <1>13, <1>14, <1>15, <1>16 DEF Fresh

LEMMA FreshLocked ==
    ASSUME NEW s \in GoodGames(0), Fresh(s), NEW h, h = [s EXCEPT !.lockSeq = @ + 1, !.sliding = 0]
    PROVE  h \in Games(0, FALSE)
<1>1. s \in GameSet /\ GameOK(s) /\ Len(s.pending) <= 0
  BY DEF GoodGames
<1>2. h \in GameSet
  <2>1. s.lockSeq + 1 \in Nat
    BY <1>1 DEF GameSet
  <2>2. PICK n \in Nat : n = s.lockSeq + 1
    BY <2>1
  <2>3. PICK a : a = [s EXCEPT !.lockSeq = n]
    OBVIOUS
  <2>4. a \in GameSet
    BY <1>1, <2>3, SetLockSeq
  <2>7. PICK none \in 0 .. 2 : none = 0
    OBVIOUS
  <2>5. [a EXCEPT !.sliding = none] \in GameSet
    BY <2>4, SetSliding
  <2>6. h = [a EXCEPT !.sliding = none]
    BY <2>2, <2>3, <2>7
  <2> QED
    BY <2>5, <2>6
<1>3. /\ h.board = s.board /\ h.pieces = s.pieces /\ h.weapons = s.weapons
       /\ h.remaining = s.remaining /\ h.defX = s.defX /\ h.defY = s.defY
       /\ h.down = s.down /\ h.left = s.left /\ h.base = s.base /\ h.fast = s.fast
  BY <1>1 DEF GameSet
<1>4. /\ h.x = s.x /\ h.y = s.y /\ h.piece = s.piece /\ h.phase = s.phase /\ h.sliding = 0
       /\ h.drop = s.drop /\ h.dropping = s.dropping /\ h.pending = s.pending
  BY <1>1 DEF GameSet
<1>5. GameOK(h)
  BY <1>1, <1>2, <1>3, SameParts
<1>6. Lockstep(h)
  BY <1>4 DEF Lockstep, Fresh
<1>7. Clear(h, FALSE)
  BY <1>3, <1>4 DEF Clear, Fresh
<1>8. Cadence(h)
  BY <1>3, <1>4 DEF Cadence, Fresh
<1> QED
  BY <1>1, <1>2, <1>4, <1>5, <1>6, <1>7, <1>8 DEF Games, GoodGames, PieceOK

LEMMA LockKeeps ==
    ASSUME NEW most, NEW up \in BOOLEAN, NEW g \in Games(most, up), g.piece # NoPiece,
           NEW h \in Lock(g)
    PROVE  h \in Games(0, FALSE)
<1>1. g \in GameSet /\ GameOK(g) /\ Len(g.pending) <= most /\ Clear(g, up)
  BY DEF Games, GoodGames, PieceOK
<1>2. /\ g.piece \in PieceSet /\ g.board \in BoardSet /\ g.x \in Int /\ g.y \in Int
      /\ g.piece.x = g.x /\ g.piece.y = g.y /\ g.board.active = g.weapons
  BY <1>1, PieceTypes DEF GameOK, Framed
<1> PICK landed : landed = Land(g.board, g.piece.x, g.piece.y, g.piece.shape, g.piece.cell)
  OBVIOUS
<1>3. Kept(landed, g.board)
  <2>1. ASSUME "Bottle" \in g.board.active, NEW s \in Walls,
               <<s[1] - g.x, s[2] - g.y>> \in g.piece.shape
        PROVE  FALSE
    <3>1. s = <<s[1], s[2]>> /\ s[1] \in Int /\ s[2] \in Int
      BY WallSquare, BoardAssumption DEF Cols
    <3>2. PICK q \in g.piece.shape : q = <<s[1] - g.x, s[2] - g.y>>
      BY <2>1
    <3>3. g.x + q[1] = s[1] /\ g.y + q[2] = s[2]
      BY <1>2, <3>1, <3>2
    <3>4. s \in Standing(g.piece)
      BY <1>2, <3>1, <3>2, <3>3 DEF Standing
    <3>5. Standing(g.piece) \cap Walls = {}
      BY <1>1, <1>2, <2>1 DEF Clear
    <3> QED
      BY <3>4, <3>5
  <2>2. g.piece.cell \in Cell
    BY <1>2, PieceFields
  <2> QED
    BY <1>2, <2>1, <2>2, LandKeeps
<1> PICK clear : clear = CheckLines(landed)
  OBVIOUS
<1>4. Kept(clear.board, landed) /\ clear.lines \in Nat
  BY <1>3, CheckLinesKeeps DEF Kept
<1> PICK b : b = [clear.board EXCEPT !.reason = "none"]
  OBVIOUS
<1>5. Kept(b, g.board)
  <2>1. clear.board \in BoardSet /\ "none" \in Reasons
    BY <1>4 DEF Kept, Reasons
  <2>2. Kept(b, clear.board)
    BY <2>1, KeptReason
  <2>3. Kept(clear.board, g.board)
    BY <1>3, <1>4, KeptTransitive
  <2> QED
    BY <2>2, <2>3, KeptTransitive
<1> PICK e : e = [g EXCEPT !.board = b, !.piece = NoPiece]
  OBVIOUS
<1>6. e \in GameSet
  <2>1. PICK a : a = [g EXCEPT !.board = b]
    OBVIOUS
  <2>2. a \in GameSet
    BY <1>1, <1>5, <2>1, SetBoard DEF Kept
  <2>3. [a EXCEPT !.piece = NoPiece] \in GameSet
    BY <2>2, SetPiece
  <2> QED
    BY <2>1, <2>3
<1>7. /\ e.board = b /\ e.pieces = g.pieces /\ e.weapons = g.weapons
      /\ e.remaining = g.remaining /\ e.defX = g.defX /\ e.defY = g.defY
      /\ e.down = g.down /\ e.left = g.left /\ e.base = g.base /\ e.fast = g.fast
      /\ e.pending = g.pending
  BY <1>1 DEF GameSet
<1>8. GameOK(e)
  BY <1>1, <1>5, <1>6, <1>7, NewBoard
<1>9. e \in GoodGames(most)
  BY <1>1, <1>6, <1>7, <1>8 DEF GoodGames
<1> PICK scored : scored = Cleared(e, clear.lines)
  OBVIOUS
<1>10. GameOK(scored)
  BY <1>4, <1>9, ClearedKeeps DEF GoodGames
<1>25. Lock(g) = {[i EXCEPT !.lockSeq = @ + 1, !.sliding = 0] :
                    i \in UNION {Spawn(f) : f \in Flush(scored)}}
  BY DEF Lock
<1>11. PICK s \in UNION {Spawn(f) : f \in Flush(scored)} :
           h = [s EXCEPT !.lockSeq = @ + 1, !.sliding = 0]
  BY <1>25
<1>24. PICK f \in Flush(scored) : s \in Spawn(f)
  OBVIOUS
<1>12. f \in GoodGames(0)
  BY <1>10, FlushKeeps
<1>13. PICK k \in NextKinds(f.pieces, Kind), pips \in Pips : s = SpawnAs(f, k, pips)
  <2>1. PICK K : K = NextKinds(f.pieces, Kind)
    OBVIOUS
  <2>2. s \in {SpawnAs(f, k, pips) : k \in K, pips \in Pips}
    BY <1>24, <2>1, SMTT(30) DEF Spawn
  <2>3. \E k \in K, pips \in Pips : s = SpawnAs(f, k, pips)
    BY <2>2, SMTT(30)
  <2> QED
    BY <2>1, <2>3, Zenon
<1>14. k \in Drawn
  BY <1>12, NextDrawn DEF GoodGames, GameSet
<1>15. s \in GoodGames(0) /\ Fresh(s)
  BY <1>12, <1>13, <1>14, SpawnAsKeeps
<1> QED
  BY <1>11, <1>15, FreshLocked

\* A tick: the game goes on with its piece, or locks it and takes the next.
LEMMA TickedKeeps ==
    ASSUME NEW most, NEW up \in BOOLEAN, NEW g \in Games(most, up), g.piece # NoPiece,
           NEW h \in Ticked(g)
    PROVE  \/ h \in Games(most, up) /\ h.lockSeq = g.lockSeq
           \/ h \in Games(0, FALSE)
<1> DEFINE Going(e) == e \in Games(most, up) /\ e.piece # NoPiece /\ e.lockSeq = g.lockSeq
<1> DEFINE slicked(e) == IF "Slick" \in e.weapons /\ e.phase = "falling" /\ ~e.dropping
                         THEN {e, SlickStep(e)} ELSE {e}
           due(e) == IF e.phase = "falling" THEN {DropStep(e)} ELSE Place(e)
           still(e) == IF e.phase = "sliding" /\ e.instant THEN {} ELSE {e}
<1>7. PICK e \in {g, Spin(g)} : \E f \in slicked(e) : h \in due(f) \cup still(f)
  BY DEF Ticked
<1>1. PICK f \in slicked(e) : h \in due(f) \cup still(f)
  BY <1>7
<1>2. Going(e)
  BY <1>7, SpinKeeps
<1>3. Going(f)
  BY <1>1, <1>2, SlickStepKeeps
<1>4. CASE h \in still(f)
  BY <1>3, <1>4
<1>5. CASE h \in due(f) /\ f.phase = "falling"
  BY <1>3, <1>5, DropStepKeeps
<1>6. CASE h \in due(f) /\ f.phase # "falling"
  <2>1. CASE CanMoveTo(f.piece, f.board, f.x, f.y + f.down)
    BY <1>3, <1>6, <2>1, ResumeKeeps DEF Place
  <2>2. CASE ~CanMoveTo(f.piece, f.board, f.x, f.y + f.down)
    BY <1>3, <1>6, <2>2, LockKeeps DEF Place
  <2> QED
    BY <2>1, <2>2
<1> QED
  BY <1>1, <1>4, <1>5, <1>6

-----------------------------------------------------------------------------
(* The rows the Lawyers raise, and the bazaar's countdown.                 *)

\* One more row under any of these boards.
Raised(boards) == {InsertLine(c, hole) : c \in boards, hole \in Cols}

LEMMA RiseStaysIn ==
    ASSUME NEW b \in BoardSet, NEW rows \in Nat, NEW Sets, {b} \in Sets,
           \A k \in 1 .. rows, v \in Sets : Raised(v) \in Sets
    PROVE  Rise(b, rows) \in Sets
<1>1. /\ rows \in Nat /\ {b} \in Sets
      /\ \A k \in 1 .. rows, v \in Sets : Raised(v) \in Sets
  OBVIOUS
<1> DEFINE After(f) == f = [k \in 0 .. rows |-> IF k = 0 THEN {b} ELSE Raised(f[k - 1])]
           step == [kv \in Nat \X Sets |->
                      IF kv[1] \in 1 .. rows THEN Raised(kv[2]) ELSE kv[2]]
<1>2. step \in [Nat \X Sets -> Sets]
  <2>1. ASSUME NEW kv \in Nat \X Sets
        PROVE  (IF kv[1] \in 1 .. rows THEN Raised(kv[2]) ELSE kv[2]) \in Sets
    <3>1. kv[2] \in Sets
      OBVIOUS
    <3> QED
      BY <3>1, <1>1
  <2> QED
    BY <2>1
<1>3. PICK f : Recurs(f, Sets, {b}, step, rows)
  <2> HIDE DEF step, After
  <2> QED
    BY <1>1, <1>2, RecursiveFunction
<1>4. After(f)
  <2>1. ASSUME NEW k \in 0 .. rows
        PROVE  f[k] = IF k = 0 THEN {b} ELSE Raised(f[k - 1])
    <3>1. k # 0 => k \in 1 .. rows /\ k \in Nat /\ k - 1 \in 0 .. rows
      BY <1>1
    <3>2. k # 0 => <<k, f[k - 1]>> \in Nat \X Sets /\ f[k] = step[<<k, f[k - 1]>>]
      <4> HIDE DEF step
      <4> QED
        BY <1>3, <3>1 DEF Recurs
    <3> QED
      BY <1>3, <3>1, <3>2 DEF Recurs
  <2>2. f = [k \in 0 .. rows |-> f[k]]
    BY <1>3 DEF Recurs
  <2> QED
    BY <2>1, <2>2
<1>5. Rise(b, rows) = (CHOOSE h : After(h))[rows]
  BY DEF Rise, Raised
<1>6. PICK h : h = (CHOOSE e : After(e)) /\ After(h)
  <2> HIDE DEF After
  <2> QED
    BY <1>4
<1>7. ASSUME NEW k \in 0 .. rows
      PROVE  h[k] = IF k = 0 THEN {b} ELSE Raised(h[k - 1])
  BY <1>6
<1> HIDE DEF After
<1> DEFINE S == {k \in 0 .. rows : h[k] \in Sets}
<1>8. 0 \in S
  <2>1. 0 \in 0 .. rows
    BY <1>1
  <2>2. h[0] = {b}
    BY <2>1, <1>7
  <2> QED
    BY <2>1, <2>2, <1>1
<1>9. ASSUME NEW k \in 0 .. rows - 1, k \in S
      PROVE  k + 1 \in S
  <2>1. k + 1 \in 1 .. rows /\ k + 1 \in 0 .. rows /\ k + 1 # 0 /\ (k + 1) - 1 = k
    BY <1>1
  <2>2. h[k + 1] = Raised(h[k])
    BY <1>7, <2>1
  <2> QED
    BY <1>9, <2>1, <2>2, <1>1
<1>10. rows \in S
  <2> HIDE DEF S
  <2>1. 0 .. rows \subseteq S
    BY <1>8, <1>9, <1>1, InductionUpTo
  <2> QED
    BY <2>1, <1>1
<1>11. Rise(b, rows) \in Sets
  BY <1>5, <1>6, <1>10
<1> QED
  BY <1>11

LEMMA RiseKeeps ==
    ASSUME NEW b \in BoardSet, NEW rows \in Nat, NEW c \in Rise(b, rows)
    PROVE  Kept(c, b) /\ (rows = 0 => c = b)
<1>1. CASE rows = 0
  <2> PICK Sets : Sets = {{b}}
    OBVIOUS
  <2>1. \A k \in 1 .. rows : FALSE
    BY <1>1
  <2>3. {b} \in Sets /\ \A k \in 1 .. rows, v \in Sets : Raised(v) \in Sets
    BY <2>1
  <2>2. Rise(b, rows) \in Sets
    BY <2>3, RiseStaysIn
  <2> QED
    BY <2>2, KeptReflexive
<1>2. CASE rows # 0
  <2> PICK near : near = {d \in BoardSet : Kept(d, b)}
    OBVIOUS
  <2>1. {b} \in SUBSET near
    BY KeptReflexive
  <2>2. ASSUME NEW v \in SUBSET near
        PROVE  Raised(v) \in SUBSET near
    <3>1. ASSUME NEW d \in v, NEW hole \in Cols
          PROVE  InsertLine(d, hole) \in near
      <4>1. d \in BoardSet /\ Kept(d, b)
        OBVIOUS
      <4>2. Kept(InsertLine(d, hole), d)
        BY <4>1, InsertLineKeeps
      <4>3. Kept(InsertLine(d, hole), b)
        BY <4>1, <4>2, KeptTransitive
      <4> QED
        BY <4>3 DEF Kept
    <3> QED
      BY <3>1 DEF Raised
  <2> PICK Sets : Sets = SUBSET near
    OBVIOUS
  <2>4. {b} \in Sets /\ \A k \in 1 .. rows, v \in Sets : Raised(v) \in Sets
    BY <2>1, <2>2
  <2>5. Rise(b, rows) \in Sets
    BY <2>4, RiseStaysIn
  <2>3. Rise(b, rows) \in SUBSET near
    BY <2>5
  <2> QED
    BY <1>2, <2>3
<1> QED
  BY <1>1, <1>2

LEMMA BazaarAside ==
    ASSUME NEW most, NEW up, NEW g \in Games(most, up)
    PROVE  UpdateBazaar(g) \in Games(most, up)
<1>1. g \in GameSet /\ g \in GoodGames(most)
  BY DEF Games, GoodGames
<1>2. PICK h : h = UpdateBazaar(g)
  OBVIOUS
<1>3. h \in GameSet /\ Len(h.pending) <= most
  BY <1>1, <1>2, UpdateBazaarKeeps DEF GoodGames
<1>4. /\ h.board = g.board /\ h.pieces = g.pieces /\ h.weapons = g.weapons
      /\ h.remaining = g.remaining /\ h.defX = g.defX /\ h.defY = g.defY
      /\ h.down = g.down /\ h.left = g.left /\ h.base = g.base /\ h.fast = g.fast
  BY <1>1, <1>2 DEF GameSet, UpdateBazaar
<1>5. /\ h.x = g.x /\ h.y = g.y /\ h.piece = g.piece /\ h.phase = g.phase
      /\ h.sliding = g.sliding /\ h.drop = g.drop /\ h.dropping = g.dropping
  BY <1>1, <1>2 DEF GameSet, UpdateBazaar
<1> QED
  BY <1>2, <1>3, <1>4, <1>5, AsideKeeps

-----------------------------------------------------------------------------
(* A machine's turn.                                                       *)

\* The games one side's inputs lead to, with the piece still falling.
Played(most, up, n) == {g \in Games(most, up) : g.piece # NoPiece /\ g.lockSeq = n}

LEMMA SpinToKeeps ==
    ASSUME NEW most, NEW up \in BOOLEAN, NEW n, NEW g \in Played(most, up, n),
           NEW orientation, NEW turns \in Nat
    PROVE  SpinTo(g, orientation, turns) \in Played(most, up, n)
<1> DEFINE Good == Played(most, up, n)
<1>1. /\ turns \in Nat /\ g \in Good
      /\ \A k \in 1 .. turns, v \in Good :
            (IF v.piece.orientation = orientation THEN v ELSE Spin(v)) \in Good
  BY SpinKeeps DEF Played
<1> HIDE DEF Good
<1> DEFINE After(f) == f = [k \in 0 .. turns |-> IF k = 0 THEN g ELSE (IF f[k - 1].piece.orientation = orientation THEN f[k - 1] ELSE Spin(f[k - 1]))]
           step == [kv \in Nat \X Good |->
                      IF kv[1] \in 1 .. turns THEN (IF kv[2].piece.orientation = orientation THEN kv[2] ELSE Spin(kv[2])) ELSE kv[2]]
<1>2. step \in [Nat \X Good -> Good]
  <2>1. ASSUME NEW kv \in Nat \X Good
        PROVE  (IF kv[1] \in 1 .. turns THEN (IF kv[2].piece.orientation = orientation THEN kv[2] ELSE Spin(kv[2])) ELSE kv[2]) \in Good
    <3>1. kv[2] \in Good
      OBVIOUS
    <3> QED
      BY <3>1, <1>1
  <2> QED
    BY <2>1
<1>3. PICK f : Recurs(f, Good, g, step, turns)
  <2> HIDE DEF step, After
  <2> QED
    BY <1>1, <1>2, RecursiveFunction
<1>4. After(f)
  <2>1. ASSUME NEW k \in 0 .. turns
        PROVE  f[k] = IF k = 0 THEN g ELSE (IF f[k - 1].piece.orientation = orientation THEN f[k - 1] ELSE Spin(f[k - 1]))
    <3>1. k # 0 => k \in 1 .. turns /\ k \in Nat /\ k - 1 \in 0 .. turns
      BY <1>1
    <3>2. k # 0 => <<k, f[k - 1]>> \in Nat \X Good /\ f[k] = step[<<k, f[k - 1]>>]
      <4> HIDE DEF step
      <4> QED
        BY <1>3, <3>1 DEF Recurs
    <3> QED
      BY <1>3, <3>1, <3>2 DEF Recurs
  <2>2. f = [k \in 0 .. turns |-> f[k]]
    BY <1>3 DEF Recurs
  <2> QED
    BY <2>1, <2>2
<1>5. SpinTo(g, orientation, turns) = (CHOOSE h : After(h))[turns]
  BY DEF SpinTo
<1>6. PICK h : h = (CHOOSE e : After(e)) /\ After(h)
  <2> HIDE DEF After
  <2> QED
    BY <1>4
<1>7. ASSUME NEW k \in 0 .. turns
      PROVE  h[k] = IF k = 0 THEN g ELSE (IF h[k - 1].piece.orientation = orientation THEN h[k - 1] ELSE Spin(h[k - 1]))
  BY <1>6
<1> HIDE DEF After
<1> DEFINE S == {k \in 0 .. turns : h[k] \in Good}
<1>8. 0 \in S
  <2>1. 0 \in 0 .. turns
    BY <1>1
  <2>2. h[0] = g
    BY <2>1, <1>7
  <2> QED
    BY <2>1, <2>2, <1>1
<1>9. ASSUME NEW k \in 0 .. turns - 1, k \in S
      PROVE  k + 1 \in S
  <2>1. k + 1 \in 1 .. turns /\ k + 1 \in 0 .. turns /\ k + 1 # 0 /\ (k + 1) - 1 = k
    BY <1>1
  <2>2. h[k + 1] = (IF h[k].piece.orientation = orientation THEN h[k] ELSE Spin(h[k]))
    BY <1>7, <2>1
  <2> QED
    BY <1>9, <2>1, <2>2, <1>1
<1>10. turns \in S
  <2> HIDE DEF S
  <2>1. 0 .. turns \subseteq S
    BY <1>8, <1>9, <1>1, InductionUpTo
  <2> QED
    BY <2>1, <1>1
<1>11. SpinTo(g, orientation, turns) \in Good
  BY <1>5, <1>6, <1>10
<1> QED
  BY <1>11 DEF Good

LEMMA SlideToKeeps ==
    ASSUME NEW most, NEW up \in BOOLEAN, NEW n, NEW g \in Played(most, up, n),
           NEW x, NEW steps \in Nat
    PROVE  SlideTo(g, x, steps) \in Played(most, up, n)
<1> DEFINE Good == Played(most, up, n)
           slide(v) == IF v.piece.x = x THEN v
                       ELSE Shift(v, IF v.piece.x < x THEN -v.left ELSE v.left)
<1>1. /\ steps \in Nat /\ g \in Good
      /\ \A k \in 1 .. steps, v \in Good : slide(v) \in Good
  <2>1. ASSUME NEW v \in Good, NEW dx, dx = IF v.piece.x < x THEN -v.left ELSE v.left
        PROVE  Shift(v, dx) \in Good
    <3>1. v \in Games(most, up) /\ v.piece # NoPiece /\ v.lockSeq = n
      BY DEF Played
    <3>2. v.left \in {-1, 1}
      BY <3>1, PieceTypes
    <3>3. dx \in {-1, 1}
      BY <2>1, <3>2
    <3> QED
      BY <3>1, <3>3, ShiftKeeps DEF Played
  <2> QED
    BY <2>1
<1> HIDE DEF Good, slide
<1> DEFINE After(f) == f = [k \in 0 .. steps |-> IF k = 0 THEN g ELSE slide(f[k - 1])]
           step == [kv \in Nat \X Good |->
                      IF kv[1] \in 1 .. steps THEN slide(kv[2]) ELSE kv[2]]
<1>2. step \in [Nat \X Good -> Good]
  <2>1. ASSUME NEW kv \in Nat \X Good
        PROVE  (IF kv[1] \in 1 .. steps THEN slide(kv[2]) ELSE kv[2]) \in Good
    <3>1. kv[2] \in Good
      OBVIOUS
    <3> QED
      BY <3>1, <1>1
  <2> QED
    BY <2>1
<1>3. PICK f : Recurs(f, Good, g, step, steps)
  <2> HIDE DEF step, After
  <2> QED
    BY <1>1, <1>2, RecursiveFunction
<1>4. After(f)
  <2>1. ASSUME NEW k \in 0 .. steps
        PROVE  f[k] = IF k = 0 THEN g ELSE slide(f[k - 1])
    <3>1. k # 0 => k \in 1 .. steps /\ k \in Nat /\ k - 1 \in 0 .. steps
      BY <1>1
    <3>2. k # 0 => <<k, f[k - 1]>> \in Nat \X Good /\ f[k] = step[<<k, f[k - 1]>>]
      <4> HIDE DEF step
      <4> QED
        BY <1>3, <3>1 DEF Recurs
    <3> QED
      BY <1>3, <3>1, <3>2 DEF Recurs
  <2>2. f = [k \in 0 .. steps |-> f[k]]
    BY <1>3 DEF Recurs
  <2> QED
    BY <2>1, <2>2
<1>5. SlideTo(g, x, steps) = (CHOOSE h : After(h))[steps]
  BY DEF SlideTo, slide
<1>6. PICK h : h = (CHOOSE e : After(e)) /\ After(h)
  <2> HIDE DEF After
  <2> QED
    BY <1>4
<1>7. ASSUME NEW k \in 0 .. steps
      PROVE  h[k] = IF k = 0 THEN g ELSE slide(h[k - 1])
  BY <1>6
<1> HIDE DEF After
<1> DEFINE S == {k \in 0 .. steps : h[k] \in Good}
<1>8. 0 \in S
  <2>1. 0 \in 0 .. steps
    BY <1>1
  <2>2. h[0] = g
    BY <2>1, <1>7
  <2> QED
    BY <2>1, <2>2, <1>1
<1>9. ASSUME NEW k \in 0 .. steps - 1, k \in S
      PROVE  k + 1 \in S
  <2>1. k + 1 \in 1 .. steps /\ k + 1 \in 0 .. steps /\ k + 1 # 0 /\ (k + 1) - 1 = k
    BY <1>1
  <2>2. h[k + 1] = slide(h[k])
    BY <1>7, <2>1
  <2> QED
    BY <1>9, <2>1, <2>2, <1>1
<1>10. steps \in S
  <2> HIDE DEF S
  <2>1. 0 .. steps \subseteq S
    BY <1>8, <1>9, <1>1, InductionUpTo
  <2> QED
    BY <2>1, <1>1
<1>11. SlideTo(g, x, steps) \in Good
  BY <1>5, <1>6, <1>10
<1> QED
  BY <1>11 DEF Good

LEMMA SteerKeeps ==
    ASSUME NEW most, NEW up \in BOOLEAN, NEW g \in Games(most, up), g.piece # NoPiece, NEW aim
    PROVE  Steer(g, aim) \in Games(most, up) /\ Steer(g, aim).lockSeq = g.lockSeq
<1> PICK n : n = g.lockSeq
  OBVIOUS
<1>1. g \in Played(most, up, n)
  BY DEF Played
<1> PICK turned : turned = SpinTo(g, aim.orientation, Orientations(g.piece.kind))
  OBVIOUS
<1>2. Orientations(g.piece.kind) \in Nat
  BY DEF Orientations
<1>3. turned \in Played(most, up, n)
  BY <1>1, <1>2, SpinToKeeps
<1> PICK slid : slid = SlideTo(turned, aim.x, 2 * Wth)
  OBVIOUS
<1>4. 2 * Wth \in Nat
  BY BoardAssumption
<1>5. slid \in Played(most, up, n)
  BY <1>3, <1>4, SlideToKeeps
<1>6. Slam(slid) \in Games(most, up) /\ Slam(slid).lockSeq = n
  BY <1>5, SlamKeeps DEF Played
<1> QED
  BY <1>6 DEF Steer

-----------------------------------------------------------------------------
(* The invariant.                                                          *)

LEMMA InvGames ==
    GInv <=> /\ game \in Games(received, raised)
             /\ opArsenal \in OpArsenals
             /\ raised \in BOOLEAN /\ received \in Nat /\ received <= MaxReceived
BY DEF GInv, Games, GoodGames, GameOK

LEMMA NewGameOK == NewGame \in GoodGames(0)
<1> PICK g : g = NewGame
  OBVIOUS
<1>1. /\ g.board = EmptyBoard /\ g.pieces = NewManager /\ g.piece = NoPiece
      /\ g.defX = DefX /\ g.defY = DefY /\ g.down = 1 /\ g.left = -1
      /\ g.base = DropTime /\ g.fast = FastDropTime
      /\ g.weapons = {} /\ g.remaining = [w \in Weapon |-> 0] /\ g.pending = <<>>
  BY DEF NewGame
<1>2. EmptyBoard \in BoardSet
  BY CellTypes DEF EmptyBoard, BoardSet, Reasons
<1>3. NewManager \in ManagerSet
  BY KindSets DEF NewManager, ManagerSet
<1>4. /\ DefX \in Int /\ DefY \in Int /\ DropTime \in Nat /\ FastDropTime \in Nat
      /\ LinesTilBaz \in Int
  BY GameAssumption DEF Cols, Rows
<1>5. [w \in Weapon |-> 0] \in [Weapon -> Nat] /\ <<>> \in Seq(Weapon)
  OBVIOUS
<1>6. g \in GameSet
  BY <1>2, <1>3, <1>4, <1>5 DEF NewGame, GameSet
<1>7. Framed(g)
  BY <1>1 DEF Framed, EmptyBoard
<1>8. Clocked(g)
  BY <1>1, ClockValues DEF Clocked
<1>9. Supplied(g)
  BY <1>1 DEF Supplied, NewManager
<1>10. CountsInForce(g) /\ BottleStands(g.board)
  BY <1>1 DEF CountsInForce, BottleStands, EmptyBoard
<1> QED
  BY <1>1, <1>6, <1>7, <1>8, <1>9, <1>10 DEF GoodGames, GameOK

LEMMA InitGInv == Init => GInv
<1> SUFFICES ASSUME Init
             PROVE  GInv
  OBVIOUS
<1>1. PICK k \in NextKinds(NewManager, Kind), pips \in Pips : game = SpawnAs(NewGame, k, pips)
  <2>1. PICK g : g = NewGame
    OBVIOUS
  <2>2. game \in Spawn(g)
    BY <2>1 DEF Init
  <2>3. g.pieces = NewManager
    BY <2>1 DEF NewGame
  <2> QED
    BY <2>1, <2>2, <2>3 DEF Spawn
<1>2. NewManager \in ManagerSet
  BY KindSets DEF NewManager, ManagerSet
<1>3. k \in Drawn
  BY <1>1, <1>2, NextDrawn
<1>4. PICK g \in GoodGames(0) : g = NewGame
  BY NewGameOK
<1>5. game \in GoodGames(0) /\ game.sliding = g.sliding /\ Fresh(game)
  BY <1>1, <1>3, <1>4, SpawnAsKeeps
<1>6. game.sliding = 0
  BY <1>4, <1>5 DEF NewGame
<1>7. Lockstep(game)
  BY <1>5, <1>6 DEF Lockstep, Fresh
<1>8. game \in Games(0, FALSE)
  BY <1>5, <1>7 DEF Games, PieceOK, Fresh
<1>9. opArsenal \in OpArsenals /\ raised = FALSE /\ received = 0 /\ MaxReceived \in Nat
  BY GameAssumption DEF Init
<1>10. game \in Games(received, raised)
  BY <1>8, <1>9, Zenon
<1>11. raised \in BOOLEAN
  BY <1>9, Zenon
<1>12. received \in Nat /\ received <= MaxReceived
  BY <1>9
<1> QED
  BY <1>9, <1>10, <1>11, <1>12, InvGames

\* What every action starts from.
LEMMA PlayingPiece ==
    ASSUME GInv, Playing
    PROVE  game \in Games(received, raised) /\ game.piece # NoPiece
BY InvGames DEF Playing, Games, PieceOK, Lockstep

\* A step that adds nothing to what waits, and leaves the Lawyers' rows out.
LEMMA StepGInv ==
    ASSUME GInv, game' \in Games(received, raised) \/ game' \in Games(0, FALSE),
           UNCHANGED <<opArsenal, received>>, raised' \in BOOLEAN,
           \/ game' \in Games(received, raised) /\ raised' = raised
           \/ game' \in Games(0, FALSE)
    PROVE  GInv'
<1>1. /\ opArsenal \in OpArsenals /\ raised \in BOOLEAN /\ received \in Nat
      /\ received <= MaxReceived
  BY InvGames
<1>2. game' \in Games(received, raised')
  <2>1. CASE game' \in Games(received, raised) /\ raised' = raised
    BY <2>1
  <2>2. CASE game' \in Games(0, FALSE)
    <3>1. /\ game' \in GameSet /\ GameOK(game') /\ Len(game'.pending) <= 0
          /\ Lockstep(game') /\ Clear(game', FALSE) /\ Cadence(game')
      BY <2>2 DEF Games, GoodGames, PieceOK
    <3>2. Clear(game', raised')
      BY <3>1 DEF Clear
    <3>3. Len(game'.pending) <= received
      <4>1. Len(game'.pending) \in Nat
        BY <3>1 DEF GameSet
      <4> QED
        BY <1>1, <3>1, <4>1
    <3> QED
      BY <3>1, <3>2, <3>3 DEF Games, GoodGames, PieceOK
  <2> QED
    BY <2>1, <2>2
<1>3. game' \in Games(received', raised') /\ opArsenal' \in OpArsenals
      /\ received' \in Nat /\ received' <= MaxReceived
  BY <1>1, <1>2
<1> QED
  BY <1>3 DEF GInv, Games, GoodGames, GameOK

LEMMA TickGInv == GInv /\ Tick => GInv'
<1> SUFFICES ASSUME GInv, Tick
             PROVE  GInv'
  OBVIOUS
<1>1. game \in Games(received, raised) /\ game.piece # NoPiece /\ raised \in BOOLEAN
  BY PlayingPiece, InvGames DEF Tick, Ticking
<1>2. \/ game' \in Games(received, raised) /\ game'.lockSeq = game.lockSeq
      \/ game' \in Games(0, FALSE)
  BY <1>1, TickedKeeps DEF Tick
<1>3. raised' = (raised /\ game'.lockSeq = game.lockSeq) /\ UNCHANGED <<opArsenal, received>>
  BY DEF Tick
<1>4. raised' \in BOOLEAN /\ (game'.lockSeq = game.lockSeq => raised' = raised)
  BY <1>1, <1>3, Zenon
<1> QED
  BY <1>2, <1>3, <1>4, StepGInv

LEMMA InputGInv ==
    ASSUME GInv, NEW g \in Games(received, raised), Input(g)
    PROVE  GInv'
<1>1. game' \in Games(received, raised) /\ raised' = raised /\ UNCHANGED <<opArsenal, received>>
  BY DEF Input
<1>2. raised' \in BOOLEAN
  BY <1>1, InvGames
<1> QED
  BY <1>1, <1>2, StepGInv

LEMMA MovesGInv == GInv /\ (MoveLeft \/ MoveRight \/ RotatePiece \/ BeginDrop \/ SoftDrop) => GInv'
<1> SUFFICES ASSUME GInv, MoveLeft \/ MoveRight \/ RotatePiece \/ BeginDrop \/ SoftDrop
             PROVE  GInv'
  OBVIOUS
<1>1. game \in Games(received, raised) /\ game.piece # NoPiece /\ raised \in BOOLEAN
  BY PlayingPiece, InvGames DEF MoveLeft, MoveRight, RotatePiece, BeginDrop, SoftDrop, Ticking
<1>2. game.left \in {-1, 1}
  BY <1>1, PieceTypes
<1>3. CASE MoveLeft
  <2>1. Shift(game, game.left) \in Games(received, raised)
    BY <1>1, <1>2, ShiftKeeps
  <2> QED
    BY <1>3, <2>1, InputGInv DEF MoveLeft
<1>4. CASE MoveRight
  <2>1. PICK dx \in {-1, 1} : dx = -game.left
    BY <1>2
  <2>2. Shift(game, dx) \in Games(received, raised)
    BY <1>1, ShiftKeeps
  <2> QED
    BY <1>4, <2>1, <2>2, InputGInv DEF MoveRight
<1>5. CASE RotatePiece
  <2>1. Spin(game) \in Games(received, raised)
    BY <1>1, SpinKeeps
  <2> QED
    BY <1>5, <2>1, InputGInv DEF RotatePiece
<1>6. CASE BeginDrop
  <2>1. Slam(game) \in Games(received, raised)
    BY <1>1, SlamKeeps
  <2> QED
    BY <1>6, <2>1, InputGInv DEF BeginDrop
<1>7. CASE SoftDrop
  <2>1. DropStep(game) \in Games(received, raised)
    BY <1>1, DropStepKeeps
  <2> QED
    BY <1>7, <2>1, InputGInv DEF SoftDrop
<1> QED
  BY <1>3, <1>4, <1>5, <1>6, <1>7

LEMMA LeaveBazaarGInv == GInv /\ LeaveBazaar => GInv'
<1> SUFFICES ASSUME GInv, LeaveBazaar
             PROVE  GInv'
  OBVIOUS
<1>1. game \in Games(received, raised) /\ game \in GameSet /\ Len(game.pending) <= received
  BY InvGames DEF Games, GoodGames
<1>2. PICK h : h = [game EXCEPT !.inBazaar = FALSE]
  OBVIOUS
<1>3. h \in GameSet
  BY <1>1, <1>2, SetBazaar
<1>4. /\ h.board = game.board /\ h.pieces = game.pieces /\ h.weapons = game.weapons
      /\ h.remaining = game.remaining /\ h.defX = game.defX /\ h.defY = game.defY
      /\ h.down = game.down /\ h.left = game.left /\ h.base = game.base /\ h.fast = game.fast
  BY <1>1, <1>2 DEF GameSet
<1>5. /\ h.x = game.x /\ h.y = game.y /\ h.piece = game.piece /\ h.phase = game.phase
      /\ h.sliding = game.sliding /\ h.drop = game.drop /\ h.dropping = game.dropping
      /\ h.pending = game.pending
  BY <1>1, <1>2 DEF GameSet
<1>6. h \in Games(received, raised)
  BY <1>1, <1>3, <1>4, <1>5, AsideKeeps
<1> QED
  BY <1>2, <1>6, InputGInv DEF LeaveBazaar

LEMMA SetPending ==
    ASSUME NEW g \in GameSet, NEW pending \in Seq(Weapon)
    PROVE  [g EXCEPT !.pending = pending] \in GameSet
BY DEF GameSet

LEMMA SetPendingBoard ==
    ASSUME NEW g \in GameSet, NEW cells \in [Squares -> Cell]
    PROVE  [g EXCEPT !.pendingBoard = cells] \in GameSet
BY DEF GameSet

LEMMA SetLines ==
    ASSUME NEW g \in GameSet, NEW opLines \in Nat
    PROVE  [g EXCEPT !.opLines = opLines] \in GameSet
BY DEF GameSet

LEMMA ReceivedGInv ==
    ASSUME GInv, received < MaxReceived, game' \in Games(received + 1, raised),
           received' = received + 1, UNCHANGED <<opArsenal, raised>>
    PROVE  GInv'
<1>1. opArsenal \in OpArsenals /\ raised \in BOOLEAN /\ received \in Nat
  BY InvGames
<1>2. received' \in Nat /\ received' <= MaxReceived
  BY <1>1, GameAssumption
<1> QED
  BY <1>1, <1>2 DEF GInv, Games, GoodGames, GameOK

LEMMA ReceiveWeaponGInv == ASSUME NEW w \in opArsenal PROVE GInv /\ ReceiveWeapon(w) => GInv'
<1> SUFFICES ASSUME GInv, ReceiveWeapon(w)
             PROVE  GInv'
  OBVIOUS
<1>1. /\ game \in Games(received, raised) /\ game \in GameSet /\ Len(game.pending) <= received
      /\ received \in Nat /\ opArsenal \in OpArsenals
  BY InvGames DEF Games, GoodGames
<1>2. w \in Weapon
  BY <1>1, GameAssumption
<1>3. game.pending \in Seq(Weapon)
  BY <1>1 DEF GameSet
<1>4. PICK more \in Seq(Weapon) : more = Append(game.pending, w) /\ Len(more) = Len(game.pending) + 1
  <2>1. /\ Append(game.pending, w) \in Seq(Weapon)
        /\ Len(Append(game.pending, w)) = Len(game.pending) + 1
    BY <1>2, <1>3
  <2> QED
    BY <2>1
<1>5. PICK h : h = [game EXCEPT !.pending = more]
  OBVIOUS
<1>6. h \in GameSet
  BY <1>1, <1>5, SetPending
<1>7. /\ h.board = game.board /\ h.pieces = game.pieces /\ h.weapons = game.weapons
      /\ h.remaining = game.remaining /\ h.defX = game.defX /\ h.defY = game.defY
      /\ h.down = game.down /\ h.left = game.left /\ h.base = game.base /\ h.fast = game.fast
  BY <1>1, <1>5 DEF GameSet
<1>8. /\ h.x = game.x /\ h.y = game.y /\ h.piece = game.piece /\ h.phase = game.phase
      /\ h.sliding = game.sliding /\ h.drop = game.drop /\ h.dropping = game.dropping
      /\ h.pending = more
  BY <1>1, <1>5 DEF GameSet
<1>9. Len(h.pending) <= received + 1
  <2>1. Len(game.pending) \in Nat
    BY <1>3
  <2> QED
    BY <1>1, <1>4, <1>8, <2>1
<1>10. h \in Games(received + 1, raised)
  BY <1>1, <1>6, <1>7, <1>8, <1>9, AsideKeeps
<1>11. game' = h
  BY <1>4, <1>5 DEF ReceiveWeapon
<1> QED
  BY <1>10, <1>11, ReceivedGInv DEF ReceiveWeapon

LEMMA QueueBoardSwapGInv ==
    ASSUME NEW cells \in OpBoard PROVE GInv /\ QueueBoardSwap(cells) => GInv'
<1> SUFFICES ASSUME GInv, QueueBoardSwap(cells)
             PROVE  GInv'
  OBVIOUS
<1>1. /\ game \in Games(received, raised) /\ game \in GameSet /\ Len(game.pending) <= received
      /\ received \in Nat
  BY InvGames DEF Games, GoodGames
<1>2. cells \in [Squares -> Cell]
  BY GameAssumption
<1>3. PICK h : h = [game EXCEPT !.pendingBoard = cells]
  OBVIOUS
<1>4. h \in GameSet
  BY <1>1, <1>2, <1>3, SetPendingBoard
<1>5. /\ h.board = game.board /\ h.pieces = game.pieces /\ h.weapons = game.weapons
      /\ h.remaining = game.remaining /\ h.defX = game.defX /\ h.defY = game.defY
      /\ h.down = game.down /\ h.left = game.left /\ h.base = game.base /\ h.fast = game.fast
  BY <1>1, <1>3 DEF GameSet
<1>6. /\ h.x = game.x /\ h.y = game.y /\ h.piece = game.piece /\ h.phase = game.phase
      /\ h.sliding = game.sliding /\ h.drop = game.drop /\ h.dropping = game.dropping
      /\ h.pending = game.pending
  BY <1>1, <1>3 DEF GameSet
<1>7. Len(h.pending) <= received + 1
  <2>1. Len(game.pending) \in Nat
    BY <1>1 DEF GameSet
  <2> QED
    BY <1>1, <1>6, <2>1
<1>8. h \in Games(received + 1, raised)
  BY <1>1, <1>4, <1>5, <1>6, <1>7, AsideKeeps
<1>9. game' = h
  BY <1>3 DEF QueueBoardSwap
<1> QED
  BY <1>8, <1>9, ReceivedGInv DEF QueueBoardSwap

LEMMA ReceiveOpScoreGInv ==
    ASSUME NEW n \in 1 .. 2 PROVE GInv /\ ReceiveOpScore(n) => GInv'
<1> SUFFICES ASSUME GInv, ReceiveOpScore(n)
             PROVE  GInv'
  OBVIOUS
<1> PICK rows : rows = IF "Lawyers" \in game.weapons THEN n ELSE 0
  OBVIOUS
<1>1. /\ game \in Games(received, raised) /\ game \in GameSet /\ GameOK(game)
      /\ Len(game.pending) <= received
      /\ Lockstep(game) /\ Clear(game, raised) /\ Cadence(game)
      /\ raised \in BOOLEAN
  BY InvGames DEF Games, GoodGames, PieceOK
<1>2. rows \in Nat
  OBVIOUS
<1>3. PICK b \in Rise(game.board, rows) :
          game' = UpdateBazaar([game EXCEPT !.opLines = @ + n, !.board = b])
  BY DEF ReceiveOpScore
<1>4. game.board \in BoardSet
  BY <1>1 DEF GameSet
<1>5. Kept(b, game.board) /\ (rows = 0 => b = game.board)
  BY <1>2, <1>4, RiseKeeps
<1>6. raised' = (raised \/ "Lawyers" \in game.weapons) /\ UNCHANGED <<opArsenal, received>>
  BY DEF ReceiveOpScore
<1>7. raised' \in BOOLEAN /\ (rows # 0 => raised' = TRUE) /\ (rows = 0 => raised' = raised)
  <2>1. (rows # 0) <=> ("Lawyers" \in game.weapons)
    OBVIOUS
  <2>2. raised' = (raised \/ "Lawyers" \in game.weapons)
    BY <1>6
  <2>3. raised' \in BOOLEAN
    BY <2>2, Zenon
  <2>4. ASSUME "Lawyers" \in game.weapons
        PROVE  raised' = TRUE
    BY <2>2, <2>4, Zenon
  <2>5. ASSUME "Lawyers" \notin game.weapons
        PROVE  raised' = raised
    BY <1>1, <2>2, <2>5, Zenon
  <2> QED
    BY <2>1, <2>3, <2>4, <2>5, Zenon
<1>8. PICK e : e = [game EXCEPT !.opLines = @ + n, !.board = b]
  OBVIOUS
<1>9. e \in GameSet
  <2>1. game.opLines + n \in Nat
    BY <1>1, SMTT(30) DEF GameSet
  <2>2. PICK opLines \in Nat : opLines = game.opLines + n
    BY <2>1
  <2>3. PICK a : a = [game EXCEPT !.opLines = opLines]
    OBVIOUS
  <2>4. a \in GameSet
    BY <1>1, <2>3, SetLines
  <2>5. [a EXCEPT !.board = b] \in GameSet
    BY <1>5, <2>4, SetBoard DEF Kept
  <2> QED
    BY <1>8, <2>2, <2>3, <2>5
<1>10. /\ e.board = b /\ e.pieces = game.pieces /\ e.weapons = game.weapons
       /\ e.remaining = game.remaining /\ e.defX = game.defX /\ e.defY = game.defY
       /\ e.down = game.down /\ e.left = game.left /\ e.base = game.base /\ e.fast = game.fast
  BY <1>1, <1>8 DEF GameSet
<1>11. /\ e.x = game.x /\ e.y = game.y /\ e.piece = game.piece /\ e.phase = game.phase
       /\ e.sliding = game.sliding /\ e.drop = game.drop /\ e.dropping = game.dropping
       /\ e.pending = game.pending
  BY <1>1, <1>8 DEF GameSet
<1>12. GameOK(e)
  BY <1>1, <1>5, <1>9, <1>10, NewBoard
<1>13. Lockstep(e)
  BY <1>1, <1>11 DEF Lockstep
<1>14. Cadence(e)
  BY <1>1, <1>10, <1>11 DEF Cadence
<1>15. Clear(e, raised')
  BY <1>1, <1>5, <1>7, <1>10, <1>11 DEF Clear
<1>16. e \in Games(received, raised')
  BY <1>1, <1>9, <1>11, <1>12, <1>13, <1>14, <1>15 DEF Games, GoodGames, PieceOK
<1>17. game' \in Games(received, raised')
  BY <1>3, <1>8, <1>16, BazaarAside
<1>18. /\ opArsenal' \in OpArsenals /\ received' = received
       /\ received' \in Nat /\ received' <= MaxReceived
  BY <1>6, InvGames
<1> QED
  BY <1>7, <1>17, <1>18 DEF GInv, Games, GoodGames, GameOK

LEMMA SameGInv == GInv /\ UNCHANGED vars => GInv'
BY DEF GInv, vars, Games


LEMMA NextGInv == GInv /\ [Next]_vars => GInv'
<1> SUFFICES ASSUME GInv, [Next]_vars
             PROVE  GInv'
  OBVIOUS
<1>1. CASE Tick
  BY <1>1, TickGInv
<1>2. CASE MoveLeft \/ MoveRight \/ RotatePiece \/ BeginDrop \/ SoftDrop
  BY <1>2, MovesGInv
<1>3. CASE LeaveBazaar
  BY <1>3, LeaveBazaarGInv
<1>4. CASE \E w \in opArsenal \ {"Swap"} : ReceiveWeapon(w)
  BY <1>4, ReceiveWeaponGInv
<1>5. CASE \E cells \in OpBoard : QueueBoardSwap(cells)
  BY <1>5, QueueBoardSwapGInv
<1>6. CASE \E n \in 1 .. 2 : ReceiveOpScore(n)
  BY <1>6, ReceiveOpScoreGInv
<1>7. CASE UNCHANGED vars
  BY <1>7, SameGInv
<1> QED
  BY <1>1, <1>2, <1>3, <1>4, <1>5, <1>6, <1>7 DEF Next

\* A machine's tick, and the turn behind it.
LEMMA MachineGInv == GInv /\ MachineTick => GInv'
<1> SUFFICES ASSUME GInv, MachineTick
             PROVE  GInv'
  OBVIOUS
<1>1. game \in Games(received, raised) /\ game.piece # NoPiece /\ raised \in BOOLEAN
  BY PlayingPiece, InvGames DEF MachineTick, Ticking
<1>2. raised' = (raised /\ game'.lockSeq = game.lockSeq) /\ UNCHANGED <<opArsenal, received>>
  BY DEF MachineTick
<1>3. raised' \in BOOLEAN /\ (game'.lockSeq = game.lockSeq => raised' = raised)
  BY <1>1, <1>2, Zenon
<1>4. PICK g \in Ticked(game) :
          \/ game' = g
          \/ g.phase # "over" /\ \E aim \in Aims(g) : game' = Steer(g, aim)
  BY DEF MachineTick
<1>5. \/ g \in Games(received, raised) /\ g.lockSeq = game.lockSeq
      \/ g \in Games(0, FALSE)
  BY <1>1, TickedKeeps
<1>6. CASE game' = g
  BY <1>2, <1>3, <1>5, <1>6, StepGInv
<1>7. CASE g.phase # "over" /\ \E aim \in Aims(g) : game' = Steer(g, aim)
  <2>1. PICK aim : game' = Steer(g, aim)
    BY <1>7
  <2>2. CASE g \in Games(received, raised) /\ g.lockSeq = game.lockSeq
    <3>1. g.piece # NoPiece
      BY <1>7, <2>2 DEF Games, PieceOK, Lockstep
    <3>2. game' \in Games(received, raised) /\ game'.lockSeq = game.lockSeq
      BY <1>1, <2>1, <2>2, <3>1, SteerKeeps
    <3> QED
      BY <1>2, <1>3, <3>2, StepGInv
  <2>3. CASE g \in Games(0, FALSE)
    <3>1. g.piece # NoPiece
      BY <1>7, <2>3 DEF Games, PieceOK, Lockstep
    <3>2. game' \in Games(0, FALSE)
      BY <2>1, <2>3, <3>1, SteerKeeps
    <3> QED
      BY <1>2, <1>3, <3>2, StepGInv
  <2> QED
    BY <1>5, <2>2, <2>3
<1> QED
  BY <1>4, <1>6, <1>7

\* The invariant holds of a game whatever reaches it (game.rs).
THEOREM GameInvariant == Spec => []GInv
<1>1. Init => GInv
  BY InitGInv
<1>2. GInv /\ [Next]_vars => GInv'
  BY NextGInv
<1> QED
  BY <1>1, <1>2, PTL DEF Spec

\* And whoever plays it: a player's keys, the computer, a bot.
THEOREM DrivenInvariant == DrivenSpec => []GInv
<1>1. DrivenInit => GInv
  BY InitGInv DEF DrivenInit
<1>2. GInv /\ [DrivenNext]_drivenVars => GInv'
  <2> SUFFICES ASSUME GInv, [DrivenNext]_drivenVars
               PROVE  GInv'
    OBVIOUS
  <2>1. CASE Keys
    BY <2>1, NextGInv DEF Keys, Next
  <2>2. CASE Outside
    BY <2>2, NextGInv DEF Outside, Next
  <2>3. CASE ComputerTick \/ BotTick
    BY <2>3, MachineGInv DEF ComputerTick, BotTick
  <2>4. CASE UNCHANGED drivenVars
    BY <2>4, SameGInv DEF drivenVars, vars
  <2> QED
    BY <2>1, <2>2, <2>3, <2>4 DEF DrivenNext
<1> QED
  BY <1>1, <1>2, PTL DEF DrivenSpec

-----------------------------------------------------------------------------
(* What the invariant says.                                                *)

\* The piece stands where the engine moves it, on free squares unless the Lawyers raised the stack.
THEOREM PieceStaysInLockstep == DrivenSpec => []PieceInLockstep
<1>1. GInv => PieceInLockstep
  BY DEF GInv, PieceOK, Lockstep, Clear, PieceInLockstep
<1> QED
  BY <1>1, DrivenInvariant, PTL

\* Flags, orientation, spawn point and directions agree through every lock.
THEOREM FrameStaysAgreed == DrivenSpec => []FrameAgrees
<1>1. GInv => FrameAgrees
  <2> SUFFICES ASSUME GInv
               PROVE  FrameAgrees
    OBVIOUS
  <2>1. Framed(game) /\ game.board.upside \in BOOLEAN
    BY DEF GInv, GameOK, GameSet, BoardSet
  <2>2. ("Upbyside" \in game.weapons) \in BOOLEAN
    OBVIOUS
  <2>3. game.board.upside <=> ("Upbyside" \in game.weapons)
    BY <2>1 DEF Framed
  <2>4. game.board.upside = ("Upbyside" \in game.weapons)
    BY <2>1, <2>2, <2>3, BooleansEqual, Zenon
  <2> QED
    BY <2>1, <2>4 DEF Framed, FrameAgrees
<1> QED
  BY <1>1, DrivenInvariant, PTL

\* The walls of a Bottle in force stand, whatever cleared, rose, fell out or was bombed around them.
THEOREM WallsKeepStanding == DrivenSpec => []WallsStand
<1>1. GInv => WallsStand
  BY DEF GInv, GameOK, Framed, BottleStands, WallsStand
<1> QED
  BY <1>1, DrivenInvariant, PTL

\* Speedy and Meadow scale the clock once, however often they are launched, and it comes back.
THEOREM ClockComesBack == DrivenSpec => []ClockRestored
<1>1. GInv => ClockRestored
  BY DEF GInv, GameOK, Clocked, PieceOK, Cadence, ClockRestored, Playing
<1> QED
  BY <1>1, DrivenInvariant, PTL

\* With no piece weapon in force the pieces come from the default table.
THEOREM SupplyComesBack == DrivenSpec => []SupplyRestored
<1>1. GInv => SupplyRestored
  <2> SUFFICES ASSUME GInv,
                      game.weapons \cap {"FearedWeird", "FourByFour", "NoDice", "SoLong", "Broken"} = {}
               PROVE  game.pieces.supply = Default /\ ~game.pieces.broken
    BY DEF SupplyRestored
  <2>1. Supplied(game)
    BY DEF GInv, GameOK
  <2>2. \A w \in {"FearedWeird", "FourByFour", "NoDice", "SoLong", "Broken"} : w \notin game.weapons
    OBVIOUS
  <2> QED
    BY <2>1, <2>2 DEF Supplied
<1> QED
  BY <1>1, DrivenInvariant, PTL
=============================================================================
