------------------------------ MODULE Keyframe ------------------------------
(***************************************************************************)
(* The keyframe of a game (Game::snapshot and Game::restore): one flat     *)
(* sequence, with three parts whose length depends on the state (the       *)
(* piece, the queue of weapons, the swapped board), read back by a cursor  *)
(* that yields 0 past the end and commits only if all of it fits.  A       *)
(* field of fixed size is one element here.                                *)
(***************************************************************************)
EXTENDS Game

Version == 2
MaxPending == 1024

\* The code's numbering of phases, pieces and weapons.
PhaseNo == <<"falling", "sliding", "over">>
KindNo == <<"El", "RevEl", "SlideRight", "SlideLeft", "Long", "Plug", "Box", "Die",
            "Happy", "Dog", "RevDog", "Cap", "Wall", "Tower", "Star", "WeirdLong",
            "FourByFour", "LongDong">>
Numbered(names, n) == CHOOSE i \in DOMAIN names : names[i] = n

Grid == [i \in 1 .. BoxSide * BoxSide |-> <<(i - 1) \div BoxSide, (i - 1) % BoxSide>>]
Square == [i \in 1 .. Wth * Hgt |-> <<(i - 1) % Wth, (i - 1) \div Wth>>]

\* export_board, and the cells of a piece column by column.
ExportBoard(cells) == [i \in 1 .. Wth * Hgt |-> Encode(cells[Square[i]])]
PieceCells(p) == [i \in 1 .. BoxSide * BoxSide |->
                     Encode(IF Grid[i] \in p.shape THEN p.cell ELSE Empty)]

\* The fields of fixed size, in two groups.
Scalars(g) ==
    <<g.x, g.y, g.defX, g.defY, g.down, g.left, g.base, g.fast, g.drop, g.instant,
      g.dropping, g.sliding, g.slick, g.inBazaar, g.til, g.lines, g.opLines>>
Tables(g) == <<g.pieces, g.weapons, g.remaining>>

Optional(present, body) == IF present THEN <<1>> \o body ELSE <<0>>

\* snapshot
Snapshot(g) ==
    LET p == g.piece IN
    <<Version, Scalars(g), Numbered(PhaseNo, g.phase) - 1>> \o Tables(g)
    \o Optional(p # NoPiece,
                <<Numbered(KindNo, p.kind), p.x, p.y, RotOf(p.kind), p.orientation,
                  Orientations(p.kind), p.state>> \o PieceCells(p))
    \o <<Len(g.pending)>>
    \o [i \in DOMAIN g.pending |-> Numbered(WeaponNo, g.pending[i])]
    \o Optional(g.pendingBoard # NoBoard, ExportBoard(g.pendingBoard))
    \o ExportBoard(g.board.cells)
    \o <<g.board.active, g.board.upside, g.board.reason, g.lockSeq>>

\* Cur::next, for the elements that are numbers.
At(d, i) == IF i \in DOMAIN d THEN d[i] ELSE 0

\* The places the cursor is at after each part of variable length.
PieceAt == 7
AfterPiece(d) == PieceAt + 1 + (IF At(d, PieceAt) # 0 THEN 7 + BoxSide * BoxSide ELSE 0)
AfterQueue(d) == AfterPiece(d) + 1 + At(d, AfterPiece(d))
AfterSwap(d) == AfterQueue(d) + 1 + (IF At(d, AfterQueue(d)) = 1 THEN Wth * Hgt ELSE 0)

SoundPiece(d) ==
    At(d, PieceAt) # 0 =>
        /\ At(d, PieceAt + 1) \in DOMAIN KindNo
        /\ At(d, PieceAt + 4) \in {0, 3, 4, 8}
        /\ At(d, PieceAt + 6) > 0
        /\ At(d, PieceAt + 5) \in 0 .. At(d, PieceAt + 6) - 1
SoundQueue(d) ==
    /\ At(d, AfterPiece(d)) \in 0 .. MaxPending
    /\ \A i \in AfterPiece(d) + 1 .. AfterQueue(d) - 1 : At(d, i) \in DOMAIN WeaponNo
\* Mutant: what follows the parts is not measured.
WellFormedStart(d) ==
    /\ At(d, 1) = Version
    /\ At(d, 3) \in 0 .. 2
    /\ SoundPiece(d) /\ SoundQueue(d)
    /\ At(d, AfterQueue(d)) \in {0, 1}
WellFormed(d) ==
    /\ At(d, 1) = Version
    /\ At(d, 3) \in 0 .. 2
    /\ SoundPiece(d) /\ SoundQueue(d)
    /\ At(d, AfterQueue(d)) \in {0, 1}
    /\ Len(d) = AfterSwap(d) + Wth * Hgt + 3

ImportBoard(d, from) ==
    [s \in Squares |-> Decode(d[from + s[2] * Wth + s[1]])]

RestoredPiece(d) ==
    IF d[PieceAt] = 0 THEN NoPiece
    ELSE LET quads == SubSeq(d, PieceAt + 8, PieceAt + 7 + BoxSide * BoxSide)
             solid == {i \in DOMAIN quads : Decode(quads[i]) # Empty} IN
         [kind |-> KindNo[d[PieceAt + 1]], x |-> d[PieceAt + 2], y |-> d[PieceAt + 3],
          orientation |-> d[PieceAt + 5], state |-> d[PieceAt + 7],
          shape |-> {Grid[i] : i \in solid},
          cell |-> IF solid = {} THEN Empty
                   ELSE Decode(quads[CHOOSE i \in solid : TRUE])]

\* restore: the game it leaves behind in g, which is g itself if the keyframe
\* is rejected.
Restore(g, d) ==
    IF ~WellFormed(d) THEN g
    ELSE LET sc == d[2]
             tail == AfterSwap(d) + Wth * Hgt IN
         [board |-> [cells |-> ImportBoard(d, AfterSwap(d)), active |-> d[tail],
                     upside |-> d[tail + 1], reason |-> d[tail + 2]],
          pieces |-> d[4], piece |-> RestoredPiece(d), x |-> sc[1], y |-> sc[2],
          defX |-> sc[3], defY |-> sc[4], down |-> sc[5], left |-> sc[6],
          base |-> sc[7], fast |-> sc[8], drop |-> sc[9], instant |-> sc[10],
          dropping |-> sc[11], sliding |-> sc[12], slick |-> sc[13],
          phase |-> PhaseNo[d[3] + 1], weapons |-> d[5], remaining |-> d[6],
          pending |-> [i \in 1 .. d[AfterPiece(d)] |-> WeaponNo[d[AfterPiece(d) + i]]],
          pendingBoard |-> IF d[AfterQueue(d)] = 0 THEN NoBoard
                           ELSE ImportBoard(d, AfterQueue(d) + 1),
          lines |-> sc[16], opLines |-> sc[17], til |-> sc[15], inBazaar |-> sc[14],
          lockSeq |-> d[tail + 3]]
-----------------------------------------------------------------------------
(* Properties.                                                             *)

\* A client restored from a keyframe is the server's game in every field the
\* simulation reads, at any moment: in mid-fall, in the lock delay, with
\* weapons and a swapped board waiting, after the top-out.
RoundTrip == Restore(NewGame, Snapshot(game)) = game

\* A keyframe cut short at the edge of any of its parts, or with something
\* after it, changes nothing.
TornKeyframeRejected ==
    LET d == Snapshot(game)
        cuts == {0, 1, PieceAt - 1, PieceAt, AfterPiece(d) - 1, AfterPiece(d),
                 AfterQueue(d), AfterSwap(d), Len(d) - 1} IN
    /\ \A n \in cuts : ~WellFormed(SubSeq(d, 1, n))
    /\ ~WellFormed(Append(d, 0))
=============================================================================
