------------------------------ MODULE MCLobby ------------------------------
(* Instances of Lobby for TLC.  c1 to c4 are connections; c1 and c3 are two *)
(* of one player.                                                          *)
EXTENDS Lobby, TLC

CONSTANTS c1, c2, c3, c4

AnnTwice == c1 :> "Ann" @@ c2 :> "Bob" @@ c3 :> "Ann"
AnnTwiceAndCyd == AnnTwice @@ c4 :> "Cyd"
AnnsTabs == Permutations({c1, c3})

\* No guard reads the ratings, and of the properties of Lobby_safety only TypeOK does.
NoRatings == <<seen, clients, clientVars, past, waiting, challengeVars, bouts, deployVars,
               started, loop, sides, names, control>>
=============================================================================
