------------------------------- MODULE Driven -------------------------------
(***************************************************************************)
(* A game and who plays it: a player's keys, the computer opponent of the  *)
(* practice match (bt-ai's vs.rs and Computer::take_turn), or one of the   *)
(* networked bots (bt-bot's play and play_piece) on its own prediction.  A *)
(* machine searches a placement, then turns and slides the piece there by  *)
(* the same operations the keys use, and slams it down.  What it buys and  *)
(* launches is module Computer's subject.                                  *)
(***************************************************************************)
EXTENDS Keyframe, Placement

CONSTANTS
    Drivers,         \* who may be at the game
    ArsenalsOf,      \* bound: the opponents' weapons each driver is played under
    Noise            \* the roaming bot's noise_amp, in millionths

ASSUME DrivenAssumption ==
    /\ Drivers \subseteq {"keys", "computer", "Ernie", "Bert", "Roam"}
    /\ ArsenalsOf \in [Drivers -> SUBSET OpArsenals]
    /\ Noise \in Nat

VARIABLES
    driver,     \* who plays
    committed,  \* ai_committed: the computer has steered this piece
    turn        \* ghost: the turn just taken, its aim and whether nothing is in its way

drivenVars == <<game, opArsenal, raised, received, driver, committed, turn>>

NoTurn == [taken |-> FALSE]

-----------------------------------------------------------------------------
(* Steering.                                                               *)

\* Turn until the orientation is the aim's, at most once round.
SpinTo(g, orientation, turns) ==
    LET turned[n \in 0 .. turns] ==
            IF n = 0 THEN g
            ELSE LET h == turned[n - 1] IN
                 IF h.piece.orientation = orientation THEN h ELSE Spin(h) IN
    turned[turns]

\* Slide until the column is the aim's, at most twice the board's width.
SlideTo(g, x, steps) ==
    LET slid[n \in 0 .. steps] ==
            IF n = 0 THEN g
            ELSE LET h == slid[n - 1] IN
                 IF h.piece.x = x THEN h
                 ELSE Shift(h, IF h.piece.x < x THEN -h.left ELSE h.left) IN
    slid[steps]

\* Mutant: the slide before the turn.
SteerSlideFirst(g, aim) ==
    Slam(SpinTo(SlideTo(g, aim.x, 2 * Wth), aim.orientation, Orientations(g.piece.kind)))
Steer(g, aim) ==
    Slam(SlideTo(SpinTo(g, aim.orientation, Orientations(g.piece.kind)), aim.x, 2 * Wth))

\* The placements a machine may settle for.
Aims(g) ==
    CASE driver = "computer" -> {BestPlacement(g.board, g.piece, Retuned(g.weapons))}
      [] driver = "Ernie" -> {BestPlacement(g.board, g.piece, Penalties)}
      [] driver = "Bert" -> {BestPlacementStrong(g.board, g.piece)}
      [] driver = "Roam" -> BestPlacementsSkill(g.board, g.piece, Noise)

\* Nothing is in the way of a turn: the piece stands as it was made, down is
\* down, its grid lies on the board, and the rows of its grid and all above
\* them are empty.
WayClear(g) ==
    /\ "Upbyside" \notin g.weapons
    /\ g.piece.kind # "Star" /\ g.piece.orientation = 0 /\ g.piece.state = 0
    /\ g.x >= 0 /\ g.x + BoxSide <= Wth /\ g.y + BoxSide <= Hgt
    /\ \A s \in Squares : s[2] < g.y + BoxSide => g.board.cells[s] = Empty

-----------------------------------------------------------------------------
(* Actions.                                                                *)

DrivenInit ==
    /\ Init
    /\ driver \in Drivers
    /\ opArsenal \in ArsenalsOf[driver]
    /\ committed = FALSE
    /\ turn = NoTurn

\* What reaches the game whoever plays it.
Outside ==
    \/ LeaveBazaar
    \/ \E w \in opArsenal \ {"Swap"} : ReceiveWeapon(w)
    \/ \E cells \in OpBoard : QueueBoardSwap(cells)
    \/ \E n \in 1 .. 2 : ReceiveOpScore(n)

Keys ==
    /\ driver = "keys"
    /\ Tick \/ MoveLeft \/ MoveRight \/ RotatePiece \/ BeginDrop \/ SoftDrop

\* Whether a turn follows a tick that ends in g.  The computer steers a piece it
\* has not committed, even in the bazaar its own lock opened (ai_logic); a bot
\* steers whenever its cooldown is over, and its inputs are refused in the
\* bazaar (play).
Due(g) == IF driver = "computer" THEN ~committed ELSE ~g.inBazaar

\* A machine's tick, and the turn it takes behind it when one is due; the lock
\* of that tick is relayed after the turn.
MachineTick ==
    /\ Ticking
    /\ game.lockSeq < MaxLocks
    /\ \E g \in Ticked(game) :
           \/ /\ game' = g
              /\ turn' = NoTurn
              /\ committed' = (committed /\ g.lockSeq = game.lockSeq)
           \/ /\ Due(g) /\ g.phase # "over"
              /\ \E aim \in Aims(g) :
                     /\ game' = Steer(g, aim)
                     /\ turn' = [taken |-> TRUE, clear |-> WayClear(g), aim |-> aim]
              /\ committed' = (driver = "computer" /\ g.lockSeq = game.lockSeq)
    /\ raised' = (raised /\ game'.lockSeq = game.lockSeq)
    /\ UNCHANGED <<opArsenal, received, driver>>

ComputerTick == driver = "computer" /\ MachineTick
BotTick == driver \notin {"keys", "computer"} /\ MachineTick

DrivenNext ==
    \/ Keys /\ UNCHANGED <<driver, committed, turn>>
    \/ Outside /\ turn' = NoTurn /\ UNCHANGED <<driver, committed>>
    \/ ComputerTick
    \/ BotTick

DrivenSpec == DrivenInit /\ [][DrivenNext]_drivenVars
-----------------------------------------------------------------------------
(* Properties.                                                             *)

\* A machine gets what it searched for: with nothing in its way, the piece it
\* steered stands over the column and in the shape it chose, and will come to
\* rest in the row whose board it valued (the search turns and drops a copy
\* from row 0; the game's piece turns where it is, between the walls).
TurnReaches ==
    turn.taken /\ turn.clear =>
        /\ game.piece.x = turn.aim.x /\ game.piece.shape = turn.aim.shape
        /\ Rest(game.board, game.piece, game.x, game.y) = turn.aim.y
=============================================================================
