------------------------------- MODULE Piece -------------------------------
(***************************************************************************)
(* The falling piece (bt-core's piece.rs) and the distribution it is drawn *)
(* from (piece_manager.rs).  A piece is a record: its kind, the position   *)
(* x, y of its grid on the board, its orientation, the state of the kinds  *)
(* that rotate by a table, its shape (the grid squares it fills) and the   *)
(* cell those squares hold.                                                *)
(***************************************************************************)
EXTENDS Board

Standard == {"El", "RevEl", "SlideRight", "SlideLeft", "Long", "Plug", "Box"}
Weird == {"Dog", "RevDog", "Cap", "Wall", "Tower", "Star", "WeirdLong"}
PieceKind == Standard \cup Weird \cup {"Die", "Happy", "FourByFour", "LongDong"}

\* construct: the squares of the grid each kind starts with.
Shape == [k \in PieceKind |->
    CASE k = "El" -> {<<1,0>>, <<1,1>>, <<1,2>>, <<2,2>>}
      [] k = "RevEl" -> {<<2,0>>, <<2,1>>, <<2,2>>, <<1,2>>}
      [] k = "SlideLeft" -> {<<0,1>>, <<1,1>>, <<1,2>>, <<2,2>>}
      [] k = "SlideRight" -> {<<0,2>>, <<1,2>>, <<1,1>>, <<2,1>>}
      [] k = "Long" -> (0 .. 3) \X {1}
      [] k = "Plug" -> {<<0,2>>, <<1,2>>, <<1,1>>, <<2,2>>}
      [] k = "Box" -> (1 .. 2) \X (1 .. 2)
      [] k \in {"Die", "Happy"} -> {<<1,1>>}
      [] k = "Dog" -> {<<0,0>>, <<1,1>>, <<2,1>>, <<2,2>>}
      [] k = "RevDog" -> {<<0,1>>, <<0,2>>, <<1,1>>, <<2,2>>}
      [] k = "Cap" -> {<<0,2>>, <<1,1>>, <<2,1>>, <<3,2>>}
      [] k = "Wall" -> {0, 3} \X (1 .. 2)
      [] k = "Tower" -> {<<2,0>>, <<1,1>>, <<0,1>>, <<2,2>>}
      [] k = "Star" -> {<<1,0>>, <<0,1>>, <<1,2>>, <<2,1>>}
      [] k = "WeirdLong" -> {<<1,0>>, <<1,1>>, <<2,2>>, <<2,3>>}
      [] k = "FourByFour" -> ((0 .. 3) \X (0 .. 3)) \ ((1 .. 2) \X (1 .. 2))
      [] k = "LongDong" -> (0 .. 7) \X {0}]

\* rot_: the side of the square a kind turns in; 0 when it does not turn.
RotOf(k) == CASE k \in {"Box", "Die", "Happy", "FourByFour"} -> 0
              [] k \in {"Long", "Cap", "Wall", "WeirdLong"} -> 4
              [] k = "LongDong" -> 8
              [] OTHER -> 3
Orientations(k) == CASE k = "Star" -> 2 [] k = "WeirdLong" -> 6 [] OTHER -> 4

Construct(k, x, y, pips) ==
    [kind |-> k, x |-> x, y |-> y, orientation |-> 0, state |-> 0, shape |-> Shape[k],
     cell |-> CASE k = "Die" -> Die(pips) [] k = "Happy" -> Smiley [] OTHER -> Colour]

ShapeFits(b, shape, x, y) == \A s \in shape : ~Occupied(b, x + s[1], y + s[2])
CanMoveTo(p, b, x, y) == ShapeFits(b, p.shape, x, y)
Moved(p, x, y) == [p EXCEPT !.x = x, !.y = y]

-----------------------------------------------------------------------------
(* Rotation.                                                               *)

Turn(k, o, reverse) == (o + (IF reverse THEN Orientations(k) - 1 ELSE 1)) % Orientations(k)

\* The square of side rot, turned a quarter.
Turned(shape, rot, reverse) ==
    {IF reverse THEN <<rot - 1 - s[2], s[1]>> ELSE <<s[2], rot - 1 - s[1]>> : s \in shape}

\* rotate_wall, rotate_weirding: the arms that move on the way into a state,
\* turning forward; turning backward undoes the move out of it.
WallArms == [n \in 0 .. 3 |->
    CASE n = 0 -> {<<<<1,0>>, <<0,2>>>>, <<<<2,3>>, <<3,1>>>>}
      [] n = 1 -> {<<<<0,1>>, <<1,3>>>>, <<<<3,2>>, <<2,0>>>>}
      [] n = 2 -> {<<<<0,2>>, <<2,3>>>>, <<<<3,1>>, <<1,0>>>>}
      [] n = 3 -> {<<<<2,0>>, <<0,1>>>>, <<<<1,3>>, <<3,2>>>>}]
WeirdArms == [n \in 0 .. 5 |->
    CASE n = 0 -> {<<<<2,0>>, <<1,0>>>>, <<<<2,1>>, <<1,1>>>>,
                   <<<<1,2>>, <<2,2>>>>, <<<<1,3>>, <<2,3>>>>}
      [] n = 1 -> {<<<<1,0>>, <<0,0>>>>, <<<<2,3>>, <<3,3>>>>}
      [] n = 2 -> {<<<<0,0>>, <<0,1>>>>, <<<<3,3>>, <<3,2>>>>}
      [] n = 3 -> {<<<<0,1>>, <<0,2>>>>, <<<<1,1>>, <<1,2>>>>,
                   <<<<2,2>>, <<2,1>>>>, <<<<3,2>>, <<3,1>>>>}
      [] n = 4 -> {<<<<3,1>>, <<3,0>>>>, <<<<0,2>>, <<0,3>>>>}
      [] n = 5 -> {<<<<3,0>>, <<2,0>>>>, <<<<0,3>>, <<1,3>>>>}]
\* rotate_star: out to the corners and back, whichever way it turns.
StarArms == [n \in 0 .. 1 |->
    IF n = 1 THEN {<<<<1,0>>, <<0,0>>>>, <<<<2,1>>, <<2,0>>>>,
                   <<<<0,1>>, <<0,2>>>>, <<<<1,2>>, <<2,2>>>>}
    ELSE {<<<<0,0>>, <<1,0>>>>, <<<<2,0>>, <<0,1>>>>,
          <<<<0,2>>, <<1,2>>>>, <<<<2,2>>, <<2,1>>>>}]

Arms(p, reverse) ==
    LET into == IF reverse THEN p.state ELSE Turn(p.kind, p.state, FALSE)
        table == CASE p.kind = "Wall" -> WallArms [] p.kind = "WeirdLong" -> WeirdArms
                   [] p.kind = "Star" -> StarArms IN
    IF p.kind = "Star" THEN StarArms[1 - p.state]
    ELSE IF reverse THEN {<<a[2], a[1]>> : a \in table[into]} ELSE table[into]

\* The squares a turn brings in: those the code finds free before it turns.
Target(p, reverse) ==
    IF p.kind \in {"Wall", "Star", "WeirdLong"} THEN {a[2] : a \in Arms(p, reverse)}
    ELSE Turned(p.shape, RotOf(p.kind), reverse)

\* The piece after a turn that nothing blocks.
Spun(p, reverse) ==
    LET byTable == p.kind \in {"Wall", "Star", "WeirdLong"}
        left == IF byTable THEN p.shape \ {a[1] : a \in Arms(p, reverse)} ELSE {} IN
    [p EXCEPT !.shape = left \cup Target(p, reverse),
              !.state = IF byTable THEN Turn(p.kind, @, reverse) ELSE @,
              !.orientation = IF p.kind = "Star" THEN @ ELSE Turn(p.kind, @, reverse)]

\* rotate: the turned piece, or the piece as it was if a square is blocked.
Rotate(p, b, reverse) ==
    IF RotOf(p.kind) = 0 \/ ~ShapeFits(b, Target(p, reverse), p.x, p.y) THEN p
    ELSE Spun(p, reverse)

-----------------------------------------------------------------------------
(* The piece manager: the kinds its keep probabilities let through, the    *)
(* smileys owed, the broken record and the last piece made.                *)

Default == Standard \cup {"Die", "Happy", "LongDong"}
NewManager == [supply |-> Default, hapOn |-> 0, broken |-> FALSE, old |-> "none"]

\* create: the kinds that may come next.  A broken record repeats itself, and
\* one time in ten does not.
NextKinds(m, made) ==
    IF m.hapOn > 0 THEN {"Happy"}
    ELSE (m.supply \cap made)
         \cup (IF m.broken THEN {IF m.old = "none" THEN "El" ELSE m.old} ELSE {})
Made(m, k) == [m EXCEPT !.old = k, !.hapOn = IF @ > 0 THEN @ - 1 ELSE 0]

PiecesOn(m, w) ==
    CASE w = "FearedWeird" -> [m EXCEPT !.supply = (@ \ Standard) \cup Weird]
      [] w = "FourByFour" -> [m EXCEPT !.supply = (@ \ {"Box"}) \cup {"FourByFour"}]
      [] w = "Broken" -> [m EXCEPT !.broken = TRUE]
      [] w = "NoDice" -> [m EXCEPT !.supply = @ \ {"Die"}]
      [] w = "SoLong" -> [m EXCEPT !.supply = @ \ {"Long"}]
      [] w = "NiceDay" -> [m EXCEPT !.hapOn = @ + 1]
      [] OTHER -> m

\* Mutant: the weird pieces stay in the draw.
PiecesLinger(m, w) ==
    CASE w = "FearedWeird" -> [m EXCEPT !.supply = @ \cup Standard]
      [] w = "FourByFour" -> [m EXCEPT !.supply = (@ \ {"FourByFour"}) \cup {"Box"}]
      [] w = "Broken" -> [m EXCEPT !.broken = FALSE]
      [] w = "NoDice" -> [m EXCEPT !.supply = @ \cup {"Die"}]
      [] w = "SoLong" -> [m EXCEPT !.supply = @ \cup {"Long"}]
      [] OTHER -> m
PiecesOff(m, w) ==
    CASE w = "FearedWeird" -> [m EXCEPT !.supply = (@ \ Weird) \cup Standard]
      [] w = "FourByFour" -> [m EXCEPT !.supply = (@ \ {"FourByFour"}) \cup {"Box"}]
      [] w = "Broken" -> [m EXCEPT !.broken = FALSE]
      [] w = "NoDice" -> [m EXCEPT !.supply = @ \cup {"Die"}]
      [] w = "SoLong" -> [m EXCEPT !.supply = @ \cup {"Long"}]
      [] OTHER -> m
=============================================================================
