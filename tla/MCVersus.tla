------------------------------ MODULE MCVersus ------------------------------
(* Instances of Versus for TLC.                                            *)
EXTENDS Versus

Lasting == {"Carter", "Mondale", "Mirror", "Bottle"}
OneLine == [w \in Weapon |-> IF w \in Lasting THEN 1 ELSE 0]
Cheap == [w \in Weapon |-> 5]

Economy == {"Mondale", "Keating"}
CarterOnly == {"Carter"}
=============================================================================
