------------------------------ MODULE Computer ------------------------------
(***************************************************************************)
(* What the computer players buy and launch.  Ernie (bt-ai's ernie.rs)     *)
(* keeps a queue of orders: it shops for combinations, and each order      *)
(* fires at a count of the opponent's lines; the bots of bt-bot follow the *)
(* plan of bt-ai's weapons.rs.  Both fill a bank of slots (bt-core's       *)
(* arsenal.rs).  The random weapon Ernie starts a combination with is any  *)
(* one it may buy.                                                         *)
(***************************************************************************)
EXTENDS Integers, SequencesExt, FiniteSetsExt

CONSTANTS
    Weapon,       \* the weapons in play, by their WeaponToken names
    Price,        \* Price[w]
    Slots,        \* BT_ARSENAL_SIZE
    MinCombo,     \* BT_MIN_COMBO_COST
    MaxCombo,     \* BT_MAX_COMBO_COST
    SusanLines,   \* opponent lines that unlock Susan
    Cooldown,     \* opponent lines Reagan, Keating and NiceDay rest
    BuyPriority,  \* BUY_PRIORITY, for the weapons in play
    Gift,         \* the arsenal a Lazy Susan may bring
    MaxFunds, MaxOpLines, MaxBazaars  \* bounds

ASSUME ComputerAssumption ==
    /\ {"NiceDay", "Reagan", "Keating", "Susan"} \subseteq Weapon
    /\ Price \in [Weapon -> Nat \ {0}]
    /\ Slots \in Nat \ {0} /\ Len(Gift) = Slots
    /\ {MinCombo, MaxCombo, SusanLines, Cooldown} \subseteq Nat \ {0}
    /\ Range(BuyPriority) \subseteq Weapon
    /\ {MaxFunds, MaxOpLines, MaxBazaars} \subseteq Nat

VARIABLES
    ernie,   \* the Strategy
    game,    \* what it reads of its Game: funds, arsenal, lines, curses, height, bazaar
    swapped, \* ghost: a Lazy Susan has exchanged the arsenals
    missed   \* ghost: the orders a turn used up inside a bazaar that had just opened

vars == <<ernie, game, swapped, missed>>

None == "none"

-----------------------------------------------------------------------------
(* The arsenal.                                                            *)

Vacant == [w |-> None, n |-> 0]
Bank == 1 .. Slots

\* buy: the first slot that is empty or already holds the weapon.
Fits(a, w) == {i \in Bank : a[i].w \in {w, None}}
Stocked(a, w) == [a EXCEPT ![Min(Fits(a, w))] = [w |-> w, n |-> @.n + 1]]
\* Mutant: a launch empties the slot.
UseWhole(a, i) == [a EXCEPT ![i] = Vacant]
UseSlot(a, i) == [a EXCEPT ![i] = IF @.n <= 1 THEN Vacant ELSE [@ EXCEPT !.n = @ - 1]]
Holding(a, w) == {i \in Bank : a[i].w = w}
Copies(a, w) == MapThenSumSet(LAMBDA i : a[i].n, Holding(a, w))

PriceOf(w, carter) == IF carter THEN 2 * Price[w] ELSE Price[w]
\* Game::buy_weapon, in the bazaar.
CanBuy(g, w) == g.funds >= PriceOf(w, g.carter) /\ Fits(g.arsenal, w) # {}
Buy(g, w) == [g EXCEPT !.funds = @ - PriceOf(w, g.carter), !.arsenal = Stocked(@, w)]

-----------------------------------------------------------------------------
(* Ernie shops.                                                            *)

Order(kind, w, line) == [kind |-> kind, w |-> w, line |-> line]

NewStrategy ==
    [commando |-> <<Order("CanPurchase", "Susan", SusanLines)>>,
     canPurchase |-> Weapon \ {"Ace", "Condor", "Ames", "Meadow", "Susan", "Reagan"},
     canLaunch |-> Weapon, next |-> None, combo |-> -1, bazaars |-> 0, nextLaunch |-> 0]

\* purchase_approved
Approved(e) == {w \in e.canPurchase :
    w \in {"Carter", "Susan", "Swap"} => \A o \in Range(e.commando) : o.w # w}

\* Mutant: the NiceDay may be launched without its Reagan.
LooseCombo(e, w, price) ==
    LET cost == (IF e.combo < 0 THEN 0 ELSE e.combo) + price IN
    [e EXCEPT !.commando = Append(@, Order("Combo", w, e.nextLaunch)),
              !.combo = IF cost >= MinCombo THEN 0 ELSE cost,
              !.next = None, !.canPurchase = @ \cup {"Reagan"}]

\* One purchase: its order, the weapon it chains to, and whether the
\* combination is complete (cost 0).
Queued(e, w, price) ==
    LET raw == (IF e.combo < 0 THEN 0 ELSE e.combo) + price
        cost == IF w = "NiceDay" /\ raw >= MaxCombo THEN MaxCombo - 1 ELSE raw
        chain == CASE w = "NiceDay" -> "Reagan"
                   [] w = "Speedy" /\ cost < MaxCombo -> "Speedy"
                   [] OTHER -> None
        kind == IF w \in {"SoLong", "Mondale", "Carter"} THEN "Launch" ELSE "Combo"
        ready == (cost >= MinCombo /\ chain = None) \/ w = "Susan" IN
    [e EXCEPT !.commando = Append(@, Order(kind, w, e.nextLaunch)),
              !.combo = IF ready THEN 0 ELSE cost,
              !.next = chain,
              !.nextLaunch = IF w = "NiceDay" THEN @ + 1 ELSE @,
              !.canLaunch = CASE w = "Reagan" -> @ \cup {"NiceDay"}
                              [] w = "NiceDay" -> @ \ {"NiceDay"}
                              [] OTHER -> @,
              !.canPurchase = CASE w = "Reagan" -> @ \ {"Reagan"}
                                [] w = "NiceDay" -> (@ \ {"NiceDay"}) \cup {"Reagan"}
                                [] OTHER -> @]

\* Along the chain, while the next weapon is paid for and finds a slot.
RECURSIVE Chain(_, _)
Chain(e, g) ==
    IF e.next = None \/ ~CanBuy(g, e.next) THEN <<e, g>>
    ELSE Chain(Queued(e, e.next, PriceOf(e.next, g.carter)), Buy(g, e.next))

\* Until a pass buys nothing or completes a combination.
RECURSIVE Spree(_, _)
Spree(e, g) ==
    LET starts == IF e.next # None THEN {e.next} ELSE Approved(e)
        after(w) == Chain([e EXCEPT !.next = w], g) IN
    IF starts = {} THEN {<<e, g>>}
    ELSE UNION {IF after(w)[2] = g \/ after(w)[1].combo = 0 THEN {after(w)}
                ELSE Spree(after(w)[1], after(w)[2]) : w \in starts}

Promoted(e) ==
    IF e.combo # 0 THEN e
    ELSE [e EXCEPT !.commando = [i \in DOMAIN @ |->
              IF @[i].kind = "Combo" /\ @[i].w \in e.canLaunch
              THEN [@[i] EXCEPT !.kind = "Launch"] ELSE @[i]]]

\* go_shopping, once per bazaar, which Ernie then leaves.  Swap is for a board
\* worth trading away.
GoShopping ==
    /\ game.inBazaar
    /\ LET e == [ernie EXCEPT !.bazaars = @ + 1,
                              !.canPurchase = IF game.high /\ "Swap" \in Weapon
                                              THEN @ \cup {"Swap"} ELSE @ \ {"Swap"}] IN
       \E shopped \in Spree(e, game) :
           /\ ernie' = Promoted(shopped[1])
           /\ game' = [shopped[2] EXCEPT !.inBazaar = FALSE]
    /\ UNCHANGED <<swapped, missed>>

-----------------------------------------------------------------------------
(* Ernie launches.                                                         *)

\* launch_weapon: three weapons it never launches, Reagan rests the economy, and
\* in a bazaar the engine ignores the launch, which Ernie does not notice.
Launched(e, g, w) ==
    LET held == w \notin {"Hatter", "FlipOut", "Speedy"} /\ Holding(g.arsenal, w) # {}
        rested == {"Reagan", "Keating", "NiceDay"}
        resume(x) == Order("CanPurchase", x, g.opLines + Cooldown) IN
    <<IF held /\ w = "Reagan"
      THEN [e EXCEPT !.canPurchase = @ \ rested, !.canLaunch = @ \ {"NiceDay"},
                     !.commando = @ \o <<resume("Reagan"), resume("Keating"),
                                         resume("NiceDay")>>]
      ELSE e,
      IF held /\ ~g.inBazaar
      THEN [g EXCEPT !.arsenal = UseSlot(@, Min(Holding(@, w)))] ELSE g>>

\* activate_commando from the i-th order on.  An order behind a launch that
\* came late moves back as far, and Mirror holds every launch.
RECURSIVE Activate(_, _, _, _)
Activate(e, g, i, prev) ==
    IF i > Len(e.commando) THEN <<e, g>>
    ELSE LET late == prev > -1 /\ e.commando[i].line > prev
             moved == IF late THEN [e EXCEPT !.commando[i].line = @ - prev + g.opLines] ELSE e
             o == moved.commando[i]
             fires == o.line <= g.opLines
             taken == [moved EXCEPT !.commando = RemoveAt(@, i)]
             shot == Launched(taken, g, o.w) IN
         CASE fires /\ o.kind = "Launch" /\ ~g.mirror ->
                  Activate(shot[1], shot[2], i, IF prev = -1 THEN o.line ELSE prev)
           [] fires /\ o.kind = "CanPurchase" ->
                  Activate([taken EXCEPT !.canPurchase = @ \cup {o.w}], g, i, prev)
           [] OTHER -> Activate(moved, g, i + 1, prev)

\* take_turn, before the piece is placed.
Turn(g) ==
    LET after == Activate(ernie, g, 1, -1) IN ernie' = after[1] /\ game' = after[2]

TakeTurn ==
    /\ ~game.inBazaar /\ Turn(game)
    /\ UNCHANGED <<swapped, missed>>

Ordered(e, w) == {i \in DOMAIN e.commando :
                      e.commando[i].w = w /\ e.commando[i].kind # "CanPurchase"}

\* A lock of either side opens the bazaar.  When Ernie's own piece fell by itself
\* and its delay ends in the same tick, ai_logic takes a turn on the open bazaar.
EnterBazaar ==
    /\ ~game.inBazaar /\ ernie.bazaars < MaxBazaars
    /\ LET opened == [game EXCEPT !.inBazaar = TRUE] IN
       \/ game' = opened /\ UNCHANGED <<ernie, missed>>
       \/ /\ Turn(opened)
          /\ missed' = [w \in Weapon |-> missed[w] + Cardinality(Ordered(ernie, w))
                                         - Cardinality(Ordered(ernie', w))]
    /\ UNCHANGED swapped

-----------------------------------------------------------------------------
(* The match around it.                                                    *)

OpponentScores ==
    /\ game.opLines < MaxOpLines
    /\ game' = [game EXCEPT !.opLines = @ + 1]
    /\ UNCHANGED <<ernie, swapped, missed>>

\* Its own lines and the opponent's weapons pay; outside the bazaar its stack
\* and the curses on it come and go.
ErnieScores ==
    /\ game.funds < MaxFunds
    /\ \E high, mirror \in BOOLEAN :
           /\ game.inBazaar => high = game.high /\ mirror = game.mirror
           /\ game' = [game EXCEPT !.funds = MaxFunds, !.high = high, !.mirror = mirror]
    /\ UNCHANGED <<ernie, swapped, missed>>

LazySusan ==
    /\ ~swapped
    /\ swapped' = TRUE
    /\ game' = [game EXCEPT !.arsenal = Gift]
    /\ UNCHANGED <<ernie, missed>>

Init ==
    /\ ernie = NewStrategy
    /\ game = [funds |-> 0, arsenal |-> [i \in Bank |-> Vacant], opLines |-> 0,
               mirror |-> FALSE, carter |-> FALSE, high |-> FALSE,
               inBazaar |-> FALSE]
    /\ swapped = FALSE
    /\ missed = [w \in Weapon |-> 0]

Next == GoShopping \/ TakeTurn \/ EnterBazaar \/ OpponentScores \/ ErnieScores \/ LazySusan

Spec == Init /\ [][Next]_vars

-----------------------------------------------------------------------------
(* The bots.                                                               *)

Class(w) ==
    CASE w \in {"RiseUp", "Lawyers", "Bottle", "Blind", "PieceIt", "Bug", "FallOut",
                "FourByFour", "Twilight"} -> "Garbage"
      [] w \in {"FearedWeird", "Hatter", "Speedy", "SoLong", "NoDice", "Slick", "Broken",
                "Force", "NoSlide", "Upbyside", "FlipOut"} -> "Harass"
      [] w \in {"Mondale", "Keating", "Reagan", "Carter"} -> "Economy"
      [] w \in {"Ames", "Ace", "Condor"} -> "Spy"
      [] OTHER -> "Skip"

\* Mutant: the plan forgets the Carter Years.
SpendUncursed(p, w, carter) ==
    IF p.slots <= 0 \/ p.budget < Price[w] THEN p
    ELSE [budget |-> p.budget - Price[w], slots |-> p.slots - 1, plan |-> Append(p.plan, w)]

\* One line of the shopping list.
Spend(p, w, carter) ==
    IF p.slots <= 0 \/ p.budget < PriceOf(w, carter) THEN p
    ELSE [budget |-> p.budget - PriceOf(w, carter), slots |-> p.slots - 1,
          plan |-> Append(p.plan, w)]

\* Down the priority list, again and again.
RECURSIVE Stock(_, _)
Stock(p, carter) ==
    LET pass == FoldLeft(LAMBDA q, w : Spend(q, w, carter), p, BuyPriority) IN
    IF pass = p THEN p ELSE Stock(pass, carter)

\* buy_plan: a spy first, unless one is held.
BuyPlan(funds, a, carter) ==
    LET spies == SelectSeq(<<"Ace", "Ames", "Condor">>, LAMBDA w :
                     w \in Weapon /\ funds >= PriceOf(w, carter))
        fresh == [budget |-> funds, slots |-> Cardinality({i \in Bank : a[i] = Vacant}),
                  plan |-> <<>>]
        armed == \E i \in Bank : a[i] # Vacant /\ Class(a[i].w) = "Spy" IN
    Stock(IF armed \/ spies = <<>> THEN fresh ELSE Spend(fresh, Head(spies), carter),
          carter).plan

\* launch_choice: the slot to launch, 0 for none.
LaunchChoice(a, spying, high) ==
    LET of(class) == {i \in Bank : a[i] # Vacant /\ Class(a[i].w) = class}
        wanted == (IF spying THEN <<>> ELSE <<"Spy">>)
                  \o (IF high THEN <<"Garbage">> ELSE <<>>)
                  \o <<"Harass", "Economy", "Garbage">>
        found == SelectSeq(wanted, LAMBDA class : of(class) # {}) IN
    IF found = <<>> THEN 0 ELSE Min(of(Head(found)))

-----------------------------------------------------------------------------
(* Properties.                                                             *)

Orders(w) == Ordered(ernie, w)

\* Every weapon Ernie means to launch is in its arsenal, copy for copy, however
\* its combinations and launches interleave, until a Lazy Susan takes the arsenal
\* away (go_shopping, activate_commando, launch_weapon).  And every copy there is
\* has its order, but for the three weapons Ernie never launches and for the
\* orders it used up on the tick that opened a bazaar, one copy left behind each.
OrdersAreHeld ==
    ~swapped => \A w \in Weapon :
        /\ Cardinality(Orders(w)) <= Copies(game.arsenal, w)
        /\ w \notin {"Hatter", "FlipOut", "Speedy"}
           => Cardinality(Orders(w)) + missed[w] = Copies(game.arsenal, w)

\* The free smiley never goes out alone: behind a Have a Nice Day that is ready
\* to launch waits a Reagan that is ready too (the NiceDay -> Reagan chain).
NiceDayPaired ==
    \A i \in Orders("NiceDay") : ernie.commando[i].kind = "Launch" =>
        \E j \in Orders("Reagan") : j > i /\ ernie.commando[j].kind = "Launch"

\* The engine takes every purchase a bot plans, in the order it plans them, from
\* whatever funds and arsenal (buy_plan, Game::buy_weapon): an over-eager plan
\* would run ahead of the server.
PlanIsBought ==
    \A carter \in BOOLEAN :
        LET g == [game EXCEPT !.carter = carter]
            plan == BuyPlan(g.funds, g.arsenal, carter)
            bought[n \in 0 .. Len(plan)] ==
                IF n = 0 THEN g
                ELSE IF CanBuy(bought[n - 1], plan[n]) THEN Buy(bought[n - 1], plan[n])
                ELSE bought[n - 1] IN
        \A n \in 1 .. Len(plan) : CanBuy(bought[n - 1], plan[n])
=============================================================================
