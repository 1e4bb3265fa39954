------------------------------- MODULE MCGame -------------------------------
(* Instances of Game for TLC.                                              *)
EXTENDS Driven

Instants == {"RiseUp", "FlipOut", "Missing", "PieceIt", "Blind", "Gimp",
             "Twilight", "NiceDay", "Bug", "Swap"}
OneLine == [w \in Weapon |-> IF w \in Instants THEN 0 ELSE 1]

\* Weapons that meet on one board, on cells it holds, and on the piece.
Geometry == {{"Upbyside", "Bottle", "FallOut"}, {"Upbyside", "Swap"},
             {"Lawyers", "RiseUp"}, {"Hatter", "Slick"}, {"Force", "FlipOut"},
             {"FearedWeird"}, {}}
\* A machine meets those that retune its search or stand in its way.
GeometryOf == [d \in Drivers |->
    CASE d = "keys" -> Geometry \ {{}}
      [] d = "computer" -> {{"Upbyside", "Bottle", "FallOut"}, {"FearedWeird"}}
      [] d \in {"Ernie", "Bert"} -> {{"FearedWeird"}}
      [] d = "Roam" -> {{}}]
GeometryWeapon == UNION Geometry
GeometryOrder == <<"FearedWeird", "Hatter", "Upbyside", "FallOut", "Swap", "Lawyers",
                   "RiseUp", "FlipOut", "Bottle", "Slick", "Force">>

\* An opponent's board with one box in a corner of the floor.
Corner == [s \in Squares |-> IF s = <<0, Hgt - 1>> THEN Colour ELSE Empty]
Corners == {Corner}

\* Weapons on the clock and on the draw.
Clock == {{"Speedy", "Meadow", "NoSlide"}, {"FearedWeird", "FourByFour", "SoLong"},
          {"NoDice", "Broken", "NiceDay"}, {"Blind", "Gimp"}, {"Bug", "Missing"},
          {"Twilight", "Swap"}}
ClockOf == [d \in Drivers |-> Clock]
ClockWeapon == UNION Clock
ClockOrder == <<"FearedWeird", "FourByFour", "Swap", "Speedy", "Missing", "Blind", "NiceDay",
                "SoLong", "NoDice", "Bug", "NoSlide", "Meadow", "Twilight",
                "Broken", "Gimp">>
TwoLines == [w \in Weapon |-> IF w \in Instants THEN 0
                              ELSE IF w \in {"FearedWeird", "Meadow", "Broken"} THEN 1 ELSE 2]
=============================================================================
