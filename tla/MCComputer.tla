---------------------------- MODULE MCComputer ----------------------------
EXTENDS Computer

\* A spy, a combination of two and its chain, a weapon that stacks itself and is
\* never launched, one that needs no combination, and the economy.
SomePrices == [w \in Weapon |->
    CASE w = "NiceDay" -> 1 [] w = "Reagan" -> 3 [] w = "Speedy" -> 2 [] w = "SoLong" -> 1
      [] w = "Keating" -> 3 [] w = "Susan" -> 4 [] w = "Ace" -> 1]
SomePriority == <<"SoLong", "Speedy", "Keating">>
SomeGift == [i \in 1 .. Slots |-> IF i = 2 THEN [w |-> "SoLong", n |-> 2] ELSE Vacant]
=============================================================================
