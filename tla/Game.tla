-------------------------------- MODULE Game --------------------------------
(***************************************************************************)
(* One player's engine (bt-core's game.rs): the falling piece and its      *)
(* clock, the lock with everything that follows from it, the weapons that  *)
(* wait in the queue until then, the swapped board, and the movement frame *)
(* that Upbyside turns over.  Funds, the arsenal and the relay between two *)
(* games are the subject of module Versus.                                 *)
(*                                                                         *)
(* Time is abstract: a tick may find the Mad Hatter's, Slick Willy's and   *)
(* the drop or slide timer due, in any combination, at most once each.     *)
(***************************************************************************)
EXTENDS Piece

CONSTANTS
    Kind,          \* the kinds of pieces in play
    Pips,          \* the values a die may show
    Weapon,        \* the weapons, by their WeaponToken names
    WeaponNo,      \* WeaponToken::ALL: the weapons in the code's order
    OpArsenals,    \* the sets of weapons the opponent may hold in a match
    Duration,      \* Duration[w]: lines a weapon lasts (0 = instant)
    OpBoard,       \* cells a Swap may bring: boards the opponent had
    DefX, DefY,    \* BT_DEFAULT_X, BT_DEFAULT_Y
    DropTime,      \* BT_DROP_TIME
    FastDropTime,  \* BT_FAST_DROP_TIME
    LinesTilBaz,   \* BT_LINES_TIL_BAZ
    MaxLocks,      \* bound: pieces locked
    MaxReceived,   \* bound: weapons and swaps received
    MaxOpLines     \* bound: the opponent's lines

ASSUME GameAssumption ==
    /\ Kind \subseteq PieceKind /\ Pips \subseteq Nat
    /\ WeaponNo \in Seq(Weapon) /\ Range(WeaponNo) = Weapon
    /\ Duration \in [Weapon -> Nat]
    /\ OpArsenals \subseteq SUBSET Weapon
    /\ "LongDong" \in Kind => BoxSide >= 8
    /\ OpBoard \subseteq [Squares -> Cell]
    /\ DefX \in Cols /\ DefY \in Rows
    /\ DropTime \in Nat /\ DropTime % 2 = 0 /\ FastDropTime \in Nat
    /\ FastDropTime < DropTime
    /\ LinesTilBaz \in Nat \ {0}
    /\ MaxLocks \in Nat /\ MaxReceived \in Nat /\ MaxOpLines \in Nat

VARIABLES
    game,      \* the Game
    opArsenal, \* the weapons the opponent holds
    raised,    \* a row has come in under the falling piece (ghost)
    received   \* weapons and swaps received so far

vars == <<game, opArsenal, raised, received>>

NoPiece == [kind |-> "none"]
NoBoard == <<>>

\* Game::new, before the first spawn.
NewGame ==
    [board |-> EmptyBoard, pieces |-> NewManager, piece |-> NoPiece,
     x |-> DefX, y |-> DefY,
     defX |-> DefX, defY |-> DefY, down |-> 1, left |-> -1,
     base |-> DropTime, fast |-> FastDropTime, drop |-> DropTime,
     dropping |-> FALSE, sliding |-> 0, instant |-> FALSE, slick |-> 0,
     phase |-> "falling", weapons |-> {}, remaining |-> [w \in Weapon |-> 0],
     pending |-> <<>>, pendingBoard |-> NoBoard,
     lines |-> 0, opLines |-> 0, til |-> LinesTilBaz, inBazaar |-> FALSE,
     lockSeq |-> 0]

-----------------------------------------------------------------------------
(* Weapons.                                                                *)

\* update_bazaar: open it when the countdown of both players' lines wraps.
UpdateBazaar(g) ==
    LET til == LinesTilBaz - ((g.opLines + g.lines) % LinesTilBaz) IN
    [g EXCEPT !.til = til, !.inBazaar = @ \/ til > g.til]

\* apply_weapon_off
WeaponOff(g, w) ==
    LET off == [g EXCEPT !.weapons = @ \ {w},
                         !.board = SetActive(RevertWeapon(@, w), w, FALSE),
                         !.pieces = PiecesOff(@, w)] IN
    CASE w = "Upbyside" -> [off EXCEPT !.defX = DefX, !.defY = DefY,
                                       !.down = 1, !.left = -1]
      [] w = "Speedy" -> [off EXCEPT !.base = 2 * @]
      [] w = "Meadow" -> [off EXCEPT !.base = @ \div 2, !.fast = @ \div 2]
      [] OTHER -> off

\* Mutant: the weapon is struck off, and nothing it did is undone.
StrikeOff(g, w) ==
    [g EXCEPT !.weapons = @ \ {w}, !.remaining = [v \in Weapon |-> IF v = w THEN 0 ELSE @[v]]]
ForceOff(g, w) ==
    LET off == IF w \in g.weapons THEN WeaponOff(g, w) ELSE g IN
    [off EXCEPT !.remaining = [v \in Weapon |-> IF v = w THEN 0 ELSE @[v]]]

\* tick_durations: n lines off every weapon that counts down, in their order.
TickDuration(g, w, n) ==
    IF g.remaining[w] = 0 THEN g
    ELSE IF g.remaining[w] > n THEN [g EXCEPT !.remaining[w] = @ - n]
    ELSE WeaponOff([g EXCEPT !.remaining[w] = 0], w)
TickDurations(g, n) ==
    LET ticked[i \in 0 .. Len(WeaponNo)] ==
            IF i = 0 THEN g ELSE TickDuration(ticked[i - 1], WeaponNo[i], n) IN
    ticked[Len(WeaponNo)]

\* n rows cleared, by a lock or by a Bottle: the bazaar, then the durations.
Cleared(g, n) ==
    IF n = 0 THEN g ELSE TickDurations(UpdateBazaar([g EXCEPT !.lines = @ + n]), n)

\* Mutant: a relaunch scales the clock again.
SpeedAgain(g, w, fresh) ==
    LET cadence(h) == IF h.drop # h.fast THEN [h EXCEPT !.drop = h.base] ELSE h IN
    CASE w = "Upbyside" -> [g EXCEPT !.defY = Hgt - 4, !.down = -1, !.left = 1]
      [] w = "Speedy" -> cadence([g EXCEPT !.base = @ \div 2])
      [] w = "Meadow" -> cadence([g EXCEPT !.base = 2 * @, !.fast = 2 * @])
      [] OTHER -> g
\* The clock and the frame, as apply_weapon_on leaves them.  Speedy and Meadow
\* scale the clock only as they come on, since they are scaled back once.
Speed(g, w, fresh) ==
    LET cadence(h) == IF h.drop # h.fast THEN [h EXCEPT !.drop = h.base] ELSE h IN
    CASE w = "Upbyside" -> [g EXCEPT !.defY = Hgt - 4, !.down = -1, !.left = 1]
      [] w = "Speedy" /\ fresh -> cadence([g EXCEPT !.base = @ \div 2])
      [] w = "Meadow" /\ fresh -> cadence([g EXCEPT !.base = 2 * @, !.fast = 2 * @])
      [] OTHER -> g

\* apply_weapon_on: the games it may lead to.
WeaponOn(g, w) ==
    LET on == [g EXCEPT !.weapons = @ \cup {w}, !.remaining[w] = @ + Duration[w]] IN
    {Speed([Cleared([on EXCEPT !.board = hit.board], hit.lines)
              EXCEPT !.pieces = PiecesOn(@, w)],
           w, w \notin g.weapons)
     : hit \in ApplyWeapon(SetActive(g.board, w, TRUE), w)}

WeaponsOn(g, ws) ==
    LET on[n \in 0 .. Len(ws)] ==
            IF n = 0 THEN {g} ELSE UNION {WeaponOn(h, ws[n]) : h \in on[n - 1]} IN
    on[Len(ws)]

\* The swapped board goes in over what the lock and the weapons left; then
\* Bottle and Upbyside, which no longer match the cells, come off.
InstallSwap(g) ==
    IF g.pendingBoard = NoBoard THEN g
    ELSE ForceOff(ForceOff([g EXCEPT !.board.cells = g.pendingBoard,
                                     !.pendingBoard = NoBoard],
                           "Bottle"), "Upbyside")

\* flush_pending
Flush(g) == {InstallSwap(h) : h \in WeaponsOn([g EXCEPT !.pending = <<>>], g.pending)}

-----------------------------------------------------------------------------
(* Pieces.                                                                 *)

\* spawn: the next piece, or the top-out when it does not fit.
SpawnAs(g, k, pips) ==
    LET x == g.defX - RotOf(k) \div 2
        p == Construct(k, x, g.defY, pips)
        drawn == [g EXCEPT !.pieces = Made(@, k), !.x = x, !.y = g.defY] IN
    IF ~CanMoveTo(p, g.board, x, g.defY)
    THEN [drawn EXCEPT !.piece = NoPiece, !.phase = "over"]
    ELSE [drawn EXCEPT !.piece = p, !.dropping = FALSE, !.drop = g.base,
                       !.phase = "falling"]

Spawn(g) == {SpawnAs(g, k, pips) : k \in NextKinds(g.pieces, Kind), pips \in Pips}

\* A lock, from the landing to the next piece.
Lock(g) ==
    LET clear == CheckLines(Land(g.board, g.piece.x, g.piece.y, g.piece.shape, g.piece.cell))
        scored == Cleared([g EXCEPT !.board = [clear.board EXCEPT !.reason = "none"],
                                    !.piece = NoPiece], clear.lines) IN
    {[h EXCEPT !.lockSeq = @ + 1, !.sliding = 0] : h \in UNION {Spawn(f) : f \in Flush(scored)}}

\* Mutant: the piece stays behind its game.
ResumeBehind(g) ==
    [g EXCEPT !.y = @ + g.down, !.phase = "falling", !.sliding = 0]
\* The lock delay is over and the piece can fall again: the game's position
\* and the piece's own advance together.
Resume(g) ==
    [g EXCEPT !.y = @ + g.down, !.piece = Moved(g.piece, g.x, g.y + g.down),
              !.phase = "falling", !.sliding = 0]

\* place(false)
Place(g) == IF CanMoveTo(g.piece, g.board, g.x, g.y + g.down) THEN {Resume(g)} ELSE Lock(g)

\* drop_step: one row down, or the start of the lock delay.
DropStep(g) ==
    IF CanMoveTo(g.piece, g.board, g.x, g.y + g.down)
    THEN [g EXCEPT !.y = @ + g.down, !.piece = Moved(g.piece, g.x, g.y + g.down)]
    ELSE [g EXCEPT !.sliding = 1, !.instant = "NoSlide" \in g.weapons, !.phase = "sliding"]

\* move_left and move_right: a move in the lock delay is remembered.
Shift(g, dx) ==
    IF ~CanMoveTo(g.piece, g.board, g.x + dx, g.y) THEN g
    ELSE [g EXCEPT !.x = @ + dx, !.piece = Moved(g.piece, g.x + dx, g.y),
                   !.sliding = IF @ = 0 THEN 0 ELSE 2]

Spin(g) == [g EXCEPT !.piece = Rotate(@, g.board, FALSE)]

\* slick_step: sideways, turning round at an obstacle.
SlickStep(g) ==
    LET dx == IF g.slick = 0 THEN g.left ELSE -g.left IN
    IF CanMoveTo(g.piece, g.board, g.x + dx, g.y)
    THEN [g EXCEPT !.x = @ + dx, !.piece = Moved(g.piece, g.x + dx, g.y)]
    ELSE [g EXCEPT !.slick = 1 - @]

-----------------------------------------------------------------------------
(* Actions.                                                                *)

Init ==
    /\ game \in Spawn(NewGame)
    /\ opArsenal \in OpArsenals
    /\ raised = FALSE
    /\ received = 0

Playing == game.phase # "over"
Ticking == Playing /\ ~game.inBazaar
Input(g) == game' = g /\ UNCHANGED <<opArsenal, raised, received>>

\* tick: the games it may lead to.
Ticked(g) ==
    LET hatter == IF "Hatter" \in g.weapons THEN {g, Spin(g)} ELSE {g}
        slicked(h) == IF "Slick" \in h.weapons /\ h.phase = "falling" /\ ~h.dropping
                      THEN {h, SlickStep(h)} ELSE {h}
        due(h) == IF h.phase = "falling" THEN {DropStep(h)} ELSE Place(h)
        still(h) == IF h.phase = "sliding" /\ h.instant THEN {} ELSE {h} IN
    UNION {due(h) \cup still(h) : h \in UNION {slicked(i) : i \in hatter}}

Tick ==
    /\ Ticking
    /\ game.lockSeq < MaxLocks
    /\ game' \in Ticked(game)
    /\ raised' = (raised /\ game'.lockSeq = game.lockSeq)
    /\ UNCHANGED <<opArsenal, received>>

MoveLeft == Playing /\ Input(Shift(game, game.left))
MoveRight == Playing /\ Input(Shift(game, -game.left))
RotatePiece == Playing /\ Input(Spin(game))

\* begin_drop and ai_begin_drop, which differ in the score alone.
Slam(g) == IF g.inBazaar THEN g ELSE [g EXCEPT !.dropping = TRUE, !.drop = g.fast]
BeginDrop == Ticking /\ Input(Slam(game))

SoftDrop ==
    /\ Ticking /\ game.phase = "falling"
    /\ Input(DropStep(game))

LeaveBazaar == game.inBazaar /\ Input([game EXCEPT !.inBazaar = FALSE])

\* receive_weapon: it waits for the next lock.
ReceiveWeapon(w) ==
    /\ Playing /\ received < MaxReceived
    /\ game' = [game EXCEPT !.pending = Append(@, w)]
    /\ received' = received + 1
    /\ UNCHANGED <<opArsenal, raised>>

\* queue_board_swap
QueueBoardSwap(cells) ==
    /\ "Swap" \in opArsenal
    /\ Playing /\ received < MaxReceived
    /\ game' = [game EXCEPT !.pendingBoard = cells]
    /\ received' = received + 1
    /\ UNCHANGED <<opArsenal, raised>>

\* receive_op_score: the Lawyers' rows come in at once, one per line.
Rise(b, rows) ==
    LET risen[n \in 0 .. rows] ==
            IF n = 0 THEN {b}
            ELSE {InsertLine(c, hole) : c \in risen[n - 1], hole \in Cols} IN
    risen[rows]
ReceiveOpScore(n) ==
    LET lawyers == "Lawyers" \in game.weapons IN
    /\ Playing /\ game.opLines + n <= MaxOpLines
    /\ \E b \in Rise(game.board, IF lawyers THEN n ELSE 0) :
           game' = UpdateBazaar([game EXCEPT !.opLines = @ + n, !.board = b])
    /\ raised' = (raised \/ lawyers)
    /\ UNCHANGED <<opArsenal, received>>

Next ==
    \/ Tick
    \/ MoveLeft \/ MoveRight \/ RotatePiece \/ BeginDrop \/ SoftDrop
    \/ LeaveBazaar
    \/ \E w \in opArsenal \ {"Swap"} : ReceiveWeapon(w)
    \/ \E cells \in OpBoard : QueueBoardSwap(cells)
    \/ \E n \in 1 .. 2 : ReceiveOpScore(n)

Spec == Init /\ [][Next]_vars
-----------------------------------------------------------------------------
(* Properties.                                                             *)

\* The piece is drawn and locks exactly where the engine moves it, and it is
\* never inside the stack, unless the Lawyers raised the stack under it; the
\* lock delay runs exactly while it slides (game.rs: the fields x and y "MUST
\* be kept in lockstep" with the piece).
PieceInLockstep ==
    /\ game.phase = "over" <=> game.piece = NoPiece
    /\ game.phase = "sliding" <=> game.sliding > 0
    /\ game.piece # NoPiece =>
        /\ game.piece.x = game.x /\ game.piece.y = game.y
        /\ raised \/ CanMoveTo(game.piece, game.board, game.x, game.y)

\* Both flag tables agree, and with them the cells' orientation, the spawn
\* point, the direction of the fall and of the keys, through launches,
\* relaunches, expiries and swaps that meet in one lock (an origin out of
\* step with Upbyside is a spurious top-out).
FrameAgrees ==
    LET up == "Upbyside" \in game.weapons IN
    /\ game.board.active = game.weapons
    /\ game.board.upside = up
    /\ game.defX = DefX
    /\ game.defY = IF up THEN Hgt - 4 ELSE DefY
    /\ game.down = (IF up THEN -1 ELSE 1) /\ game.left = -game.down

\* While Bottle is in force its walls stand, whatever cleared, rose, fell out,
\* flipped or was bombed around them.
WallsStand ==
    "Bottle" \in game.weapons => \A s \in Walls : game.board.cells[s].kind = "structure"

\* Gravity: Speedy and Meadow scale the clock by exactly their factor however
\* often they are relaunched, and it is restored when they expire; the piece
\* falls at the cadence of its own state.
ClockRestored ==
    LET half == "Speedy" \in game.weapons
        slow == "Meadow" \in game.weapons IN
    /\ game.base = (DropTime * (IF slow THEN 2 ELSE 1)) \div (IF half THEN 2 ELSE 1)
    /\ game.fast = FastDropTime * (IF slow THEN 2 ELSE 1)
    /\ Playing => game.drop = IF game.dropping THEN game.fast ELSE game.base

\* Once no piece weapon is in force the pieces come from the default table
\* again, in whatever order the overlapping ones expired.
SupplyRestored ==
    game.weapons \cap {"FearedWeird", "FourByFour", "NoDice", "SoLong", "Broken"} = {} =>
        game.pieces.supply = Default /\ ~game.pieces.broken

\* Wherever the piece lands, the rows it fills clear: none is left full, and
\* exactly the rows counted are gone from the stack (check_lines, remove_line;
\* a Bottle shifts part of a row, and the Force leaves the edge row).
ClearsAccount ==
    LET p == game.piece
        b == Land(game.board, p.x, p.y, p.shape, p.cell)
        after == CheckLines(b)
        count(c) == Cardinality({s \in Squares : c.cells[s] # Empty}) IN
    game.weapons \cap {"Bottle", "Force"} = {} /\ p # NoPiece =>
        /\ \A j \in Rows : ~FullRow(after.board, j)
        /\ count(b) = count(after.board) + Wth * after.lines
=============================================================================
