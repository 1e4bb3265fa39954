------------------------------ MODULE BoutLife ------------------------------
(***************************************************************************)
(* What a match promises its two players about disconnections and the      *)
(* verdict, with no loop, channel or socket: play, freeze while a human    *)
(* is away, resume when nobody is, and end with exactly one verdict.       *)
(* RunBout implements it.                                                  *)
(***************************************************************************)
EXTENDS FiniteSets

CONSTANT Human      \* the sides played by a human

VARIABLES
    phase,          \* "playing", "frozen", "decided" or "settled"
    down,           \* the sides known to be away
    winner,         \* the verdict; "none" before it and when nobody stayed
    reason          \* "topout", "leave" or "drop"; "none" before the verdict

lifeVars == <<phase, down, winner, reason>>

Sides == {"A", "B"}
Opponent(s) == IF s = "A" THEN "B" ELSE "A"
Live == phase \in {"playing", "frozen"}

LifeInit ==
    /\ phase = "playing"
    /\ down = {}
    /\ winner = "none"
    /\ reason = "none"

\* A human goes away (possibly with the other side): the match freezes.
Drop(S) ==
    /\ phase = "playing"
    /\ S \cap Human # {}
    /\ down' = S
    /\ phase' = "frozen"
    /\ UNCHANGED <<winner, reason>>

\* The side still attached goes away during the freeze.
AlsoDrop(S) ==
    /\ phase = "frozen"
    /\ down' = down \cup S
    /\ UNCHANGED <<phase, winner, reason>>

\* A human comes back; play resumes when nobody is missing.
Return(s) ==
    /\ phase = "frozen"
    /\ s \in Human
    /\ down' = down \ {s}
    /\ phase' = IF down' = {} THEN "playing" ELSE "frozen"
    /\ UNCHANGED <<winner, reason>>

Decide(w, why) ==
    /\ phase' = "decided"
    /\ winner' = w
    /\ reason' = why

TopOut(w) == phase = "playing" /\ Decide(w, "topout") /\ UNCHANGED down

Leave(s) == Live /\ Decide(Opponent(s), "leave") /\ UNCHANGED down

\* The wait is over: the verdict goes to whoever stayed, if anybody did.
GiveUp ==
    /\ phase = "frozen"
    /\ \/ \E w \in Sides \ down : Decide(w, "drop")
       \/ down = Sides /\ Decide("none", "drop")
    /\ UNCHANGED down

\* Only bots went away: no waiting.
BotsGone(S) ==
    /\ phase = "playing"
    /\ S # {} /\ S \cap Human = {}
    /\ down' = S
    /\ Decide(IF "A" \in S THEN "B" ELSE "A", "drop")

Close ==
    /\ phase = "decided"
    /\ phase' = "settled"
    /\ UNCHANGED <<down, winner, reason>>

LifeNext ==
    \/ \E S \in SUBSET Sides : Drop(S) \/ AlsoDrop(S) \/ BotsGone(S)
    \/ \E s \in Sides : Return(s) \/ TopOut(s) \/ Leave(s)
    \/ GiveUp
    \/ Close

LifeSpec == LifeInit /\ [][LifeNext]_lifeVars
=============================================================================
