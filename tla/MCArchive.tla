----------------------------- MODULE MCArchive -----------------------------
(* An instance of Archive for TLC.                                         *)
EXTENDS Archive

AllModes == {"Practice", "VsComputer", "Online"}

\* A game of two bots, one of a bot and a lookalike and one of a person may be
\* there to begin with; the match is one of two bots.
NamesOf == [id \in Ids |-> CASE id \in {"filler", "match"} -> <<"bot", "bot">>
                             [] id = "alike" -> <<"likebot", "bot">>
                             [] id = "human" -> <<"human", "bot">>
                             [] OTHER -> <<"none", "none">>]
=============================================================================
