------------------------------- MODULE Versus -------------------------------
(***************************************************************************)
(* The authoritative head-to-head engine of bt-core: two games ticked in   *)
(* lockstep and the relay that carries their events across, with the       *)
(* bazaar both players enter together, the arsenals, the funds and the     *)
(* weapons that act on them.  The boards are abstract: a lock clears some  *)
(* rows for some funds, and may leave no room for the next piece.          *)
(*                                                                         *)
(* Versus::tick is one call.  It is cut here into the steps its text has   *)
(* (A's lock, its flush and spawn, then B's, then A's events one at a      *)
(* time, then B's), during which no other action is enabled.               *)
(***************************************************************************)
EXTENDS Integers, Sequences

CONSTANTS
    Weapon,       \* the weapons in play, by their WeaponToken names
    Duration,     \* Duration[w]: lines a weapon lasts (0 = instant)
    Price,        \* Price[w]: its price in the bazaar
    LinesTilBaz,  \* BT_LINES_TIL_BAZ
    RowFunds,     \* what one cleared row pays
    MaxClear,     \* rows one lock (or one Bottle) clears at most
    MaxLines,     \* bound: rows cleared in the match
    MaxStock,     \* bound: copies of a weapon in an arsenal
    MaxGrants     \* bound: admin grants

Side == {"A", "B"}
Other(s) == IF s = "A" THEN "B" ELSE "A"
Spy == {"Ames", "Ace", "Condor"}
Nullified == Spy \cup {"Swap", "Mondale", "Keating", "NiceDay", "Susan", "Mirror"}

ASSUME VersusAssumption ==
    /\ Duration \in [Weapon -> Nat]
    /\ Price \in [Weapon -> Nat]
    /\ LinesTilBaz \in Nat \ {0} /\ RowFunds \in Nat
    /\ MaxClear \in 0 .. LinesTilBaz - 1     \* a lock never skips a bazaar
    /\ MaxLines \in Nat /\ MaxStock \in Nat /\ MaxGrants \in Nat

VARIABLES
    game,      \* game[s]: one side's Game
    result,    \* the winner, "none" while the match goes on
    pc,        \* the step of Versus::tick; "inputs" between ticks
    turn,      \* the side that step is about
    taken,     \* what relay took out of turn's event queue
    grants,    \* admin grants so far
    ledger     \* ghost: funds earned, minted, spent and lost so far

vars == <<game, result, pc, turn, taken, grants, ledger>>

NewGame == [lines |-> 0, op |-> 0, til |-> LinesTilBaz, shopping |-> FALSE,
            visits |-> 0, over |-> FALSE, funds |-> 0,
            arsenal |-> [w \in Weapon |-> 0], active |-> {},
            left |-> [w \in Weapon |-> 0], pending |-> <<>>, events |-> <<>>]

Init ==
    /\ game = [s \in Side |-> NewGame]
    /\ result = "none"
    /\ pc = "inputs" /\ turn = "A" /\ taken = <<>>
    /\ grants = 0
    /\ ledger = 0

Total == game["A"].lines + game["B"].lines
Barrier == \E s \in Side : game[s].shopping

-----------------------------------------------------------------------------
(* The pieces of one Game.                                                 *)

Scored(g) == [g EXCEPT !.events = Append(@, [kind |-> "Scored", lines |-> g.lines])]

\* add_funds
AddFunds(g, amount) ==
    IF amount = 0 THEN g ELSE Scored([g EXCEPT !.funds = @ + amount])

\* update_bazaar: open the bazaar when the countdown wraps around.
CrossedExactly(g, til) == til = LinesTilBaz
Crossed(g, til) == til > g.til
UpdateBazaar(g) ==
    LET til == LinesTilBaz - ((g.op + g.lines) % LinesTilBaz)
        opens == Crossed(g, til) IN
    [g EXCEPT !.til = til,
              !.shopping = @ \/ opens,
              !.visits = IF opens THEN @ + 1 ELSE @]

\* tick_durations: n rows off every running weapon.
Expire(g, n) ==
    LET rest == [w \in Weapon |-> IF g.left[w] > n THEN g.left[w] - n ELSE 0] IN
    [g EXCEPT !.left = rest,
              !.active = {w \in @ : g.left[w] > 0 => rest[w] > 0}]

\* credit_clear_funds: Mondale's victim keeps 70%, rounded down, and the
\* exact remainder goes to the opponent.
TaxRounded(pay) == (3 * pay) \div 10
Tax(pay) == pay - ((7 * pay) \div 10)
Credit(g, pay) ==
    LET tax == IF "Mondale" \in g.active THEN Tax(pay) ELSE 0 IN
    [g EXCEPT !.funds = @ + (IF "Mondale" \in g.active THEN (7 * pay) \div 10 ELSE pay),
              !.events = IF tax = 0 THEN @
                         ELSE Append(@, [kind |-> "Stolen", amount |-> tax])]

\* n rows cleared: credit them, then the bazaar, then the durations.
Clear(g, n) ==
    LET paid == Credit([g EXCEPT !.lines = @ + n], n * RowFunds) IN
    IF n = 0 THEN paid ELSE Expire(UpdateBazaar(paid), n)

\* apply_weapon_on, less the board: Bottle may complete n rows of its own.
Activate(g, w, n) ==
    LET on == [g EXCEPT !.active = @ \cup {w}, !.left[w] = @ + Duration[w]]
        hit == IF n = 0 THEN on ELSE Scored(Clear(on, n)) IN
    CASE w = "Keating" -> [hit EXCEPT !.funds = 0]
      [] w = "Reagan" -> [hit EXCEPT !.funds = -@]
      [] OTHER -> hit

-----------------------------------------------------------------------------
(* Inputs and grants, between two ticks.                                   *)

Between == pc = "inputs" /\ result = "none"
Set(s, g) == game' = [game EXCEPT ![s] = g]

\* LaunchWeapon: held back by the barrier while either side shops.
Launch(s, w) ==
    /\ Between /\ ~Barrier
    /\ game[s].arsenal[w] > 0
    /\ Set(s, [game[s] EXCEPT !.arsenal[w] = @ - 1,
                              !.events = Append(@, [kind |-> "Launched", weapon |-> w])])
    /\ UNCHANGED <<result, pc, turn, taken, grants, ledger>>

EffectivePrice(g, w) == IF "Carter" \in g.active THEN 2 * Price[w] ELSE Price[w]

Buy(s, w) ==
    LET price == EffectivePrice(game[s], w) IN
    /\ Between /\ game[s].shopping
    /\ game[s].funds >= price /\ game[s].arsenal[w] < MaxStock
    /\ Set(s, [game[s] EXCEPT !.arsenal[w] = @ + 1, !.funds = @ - price])
    /\ ledger' = ledger - price
    /\ UNCHANGED <<result, pc, turn, taken, grants>>

Sell(s, w) ==
    LET price == EffectivePrice(game[s], w) IN
    /\ Between /\ game[s].shopping
    /\ game[s].arsenal[w] > 0
    /\ Set(s, [game[s] EXCEPT !.arsenal[w] = @ - 1, !.funds = @ + price])
    /\ ledger' = ledger + price
    /\ UNCHANGED <<result, pc, turn, taken, grants>>

LeaveBazaar(s) ==
    /\ Between /\ game[s].shopping
    /\ Set(s, [game[s] EXCEPT !.shopping = FALSE])
    /\ UNCHANGED <<result, pc, turn, taken, grants, ledger>>

\* debug_grant: a weapon and funds from the admin endpoint, at any time.
Grant(s, w, amount) ==
    /\ Between /\ grants < MaxGrants /\ game[s].arsenal[w] < MaxStock
    /\ grants' = grants + 1
    /\ Set(s, AddFunds([game[s] EXCEPT !.arsenal[w] = @ + 1], amount))
    /\ ledger' = ledger + amount
    /\ UNCHANGED <<result, pc, turn, taken>>

-----------------------------------------------------------------------------
(* Versus::tick.                                                           *)

\* While either side shops neither game moves, but the relay still runs.
Tick ==
    /\ Between
    /\ pc' = IF Barrier THEN "take" ELSE "move"
    /\ turn' = "A"
    /\ UNCHANGED <<game, result, taken, grants, ledger>>

NextSide ==
    /\ turn' = Other(turn)
    /\ pc' = IF turn = "A" THEN "move" ELSE "take"

\* No piece locks on this side during this tick.
Fall ==
    /\ pc = "move"
    /\ NextSide
    /\ UNCHANGED <<game, result, taken, grants, ledger>>

\* place: a piece locks and clears n rows.
Lock(n) ==
    LET g == game[turn]
        after == Clear(g, n) IN
    /\ pc = "move" /\ Total + n <= MaxLines
    /\ Set(turn, Scored(after))
    /\ ledger' = ledger + n * RowFunds
    /\ pc' = "flush"
    /\ UNCHANGED <<result, turn, taken, grants>>

\* flush_pending: the next weapon launched at this side takes effect.
FlushPending(n) ==
    LET g == game[turn]
        w == Head(g.pending)
        after == Activate([g EXCEPT !.pending = Tail(@)], w, n) IN
    /\ pc = "flush" /\ g.pending # <<>>
    /\ n > 0 => w = "Bottle"
    /\ Total + n <= MaxLines
    /\ Set(turn, after)
    /\ ledger' = ledger + (CASE w = "Keating" -> -g.funds
                             [] w = "Reagan" -> -2 * g.funds
                             [] OTHER -> n * RowFunds)
    /\ UNCHANGED <<result, pc, turn, taken, grants>>

\* spawn: the next piece, or the top-out.
Spawn(blocked) ==
    /\ pc = "flush" /\ game[turn].pending = <<>>
    /\ IF blocked
       THEN Set(turn, [game[turn] EXCEPT !.over = TRUE,
                                         !.events = Append(@, [kind |-> "GameOver"])])
       ELSE UNCHANGED game
    /\ NextSide
    /\ UNCHANGED <<result, taken, grants, ledger>>

\* relay, one side: take its events out, then handle them in order.
Take ==
    /\ pc = "take"
    /\ taken' = game[turn].events
    /\ Set(turn, [game[turn] EXCEPT !.events = <<>>])
    /\ pc' = "relay"
    /\ UNCHANGED <<result, turn, grants, ledger>>

RelayDone ==
    /\ pc = "relay" /\ taken = <<>>
    /\ turn' = Other(turn)
    /\ pc' = IF turn = "A" THEN "take" ELSE "inputs"
    /\ UNCHANGED <<game, result, taken, grants, ledger>>

Queue(s, w) == [game EXCEPT ![s].pending = Append(@, w)]

\* apply_weapon at a victim: the exchanges and Keating's credit act at once,
\* the rest waits for the victim's next lock.
ApplyWeapon(a, v, w) ==
    CASE w = "Susan" -> [game EXCEPT ![a].arsenal = game[v].arsenal,
                                     ![v].arsenal = game[a].arsenal]
      [] w = "Swap" -> game
      [] w = "Keating" -> [s \in Side |-> IF s = a THEN AddFunds(game[a], game[v].funds)
                                          ELSE Queue(v, w)[s]]
      [] OTHER -> Queue(v, w)

\* deliver_weapon: a cursed launcher's weapon fizzles or turns on it.
Deliver(a, v, w) ==
    IF "Mirror" \in game[a].active
    THEN IF w \in Nullified THEN game ELSE Queue(a, w)
    ELSE IF w \in Spy THEN game ELSE ApplyWeapon(a, v, w)

RelayLaunched(e) ==
    /\ game' = Deliver(turn, Other(turn), e.weapon)
    /\ ledger' = IF e.weapon = "Keating" /\ "Mirror" \notin game[turn].active
                 THEN ledger + game[Other(turn)].funds ELSE ledger
    /\ UNCHANGED <<result>>

\* receive_op_score.
RelayScored(e) ==
    LET after == UpdateBazaar([game[Other(turn)] EXCEPT !.op = e.lines]) IN
    /\ Set(Other(turn), after)
    /\ UNCHANGED <<result, ledger>>

RelayStolen(e) ==
    /\ Set(Other(turn), AddFunds(game[Other(turn)], e.amount))
    /\ UNCHANGED <<result, ledger>>

\* The first top-out the relay sees decides.
VerdictOverwritten(w) == w
Verdict(w) == IF result = "none" THEN w ELSE result
RelayGameOver ==
    /\ result' = Verdict(Other(turn))
    /\ UNCHANGED <<game, ledger>>

Relay ==
    /\ pc = "relay" /\ taken # <<>>
    /\ taken' = Tail(taken)
    /\ LET e == Head(taken) IN
          \/ e.kind = "Launched" /\ RelayLaunched(e)
          \/ e.kind = "Scored" /\ RelayScored(e)
          \/ e.kind = "Stolen" /\ RelayStolen(e)
          \/ e.kind = "GameOver" /\ RelayGameOver
    /\ UNCHANGED <<pc, turn, grants>>

Next ==
    \/ \E s \in Side, w \in Weapon :
          Launch(s, w) \/ Buy(s, w) \/ Sell(s, w) \/ Grant(s, w, RowFunds)
    \/ \E s \in Side : LeaveBazaar(s)
    \/ Tick \/ Fall
    \/ \E n \in 0 .. MaxClear : Lock(n) \/ FlushPending(n)
    \/ \E blocked \in BOOLEAN : Spawn(blocked)
    \/ Take \/ RelayDone \/ Relay

Spec == Init /\ [][Next]_vars

-----------------------------------------------------------------------------
(* Properties.                                                             *)

\* Each side keeps its own bazaar countdown over its own lines and a mirror of
\* the opponent's, updated at different moments of a tick: between ticks the
\* mirrors are exact and both sides have been let into the same bazaars, one
\* for every LinesTilBaz rows cleared together.
BazaarsShared ==
    pc = "inputs" =>
        \A s \in Side :
            /\ game[s].op = game[Other(s)].lines
            /\ game[s].visits = Total \div LinesTilBaz

\* Mondale's tax moves money and makes none: once the relay has run, the two
\* balances add up to what was earned, minted, spent and lost.
TaxConserves ==
    pc = "inputs" => game["A"].funds + game["B"].funds = ledger

\* A match decided by a top-out is decided for the right side, and a double
\* top-out stays with the first one relayed ("keeps the first result").
VerdictIsFirst ==
    pc = "inputs" =>
        result = (IF game["A"].over THEN "B" ELSE IF game["B"].over THEN "A" ELSE "none")
=============================================================================
