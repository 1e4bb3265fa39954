----------------------------- MODULE MCRunBout -----------------------------
(* Instances of RunBout for TLC.                                           *)
EXTENDS RunBout

TwoHumans == {"A", "B"}
HumanVsBot == {"A"}
=============================================================================
