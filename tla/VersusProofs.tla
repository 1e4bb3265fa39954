---------------------------- MODULE VersusProofs ----------------------------
(***************************************************************************)
(* Proofs about the head-to-head engine: between ticks the two sides know  *)
(* the same rows and have been let into the same bazaars, no funds are     *)
(* made or lost by the tax, and a match is decided by the first top-out    *)
(* the relay carries.                                                      *)
(***************************************************************************)
EXTENDS Versus, SequenceTheorems, TLAPS

(***************************************************************************)
(* Types.                                                                  *)

Event ==
         [kind : {"Scored"}, lines : Nat]
    \cup [kind : {"Launched"}, weapon : Weapon]
    \cup [kind : {"Stolen"}, amount : Int]
    \cup [kind : {"GameOver"}]

GameType ==
    [lines : Nat, op : Nat, til : 1 .. LinesTilBaz, shopping : BOOLEAN,
     visits : Nat, over : BOOLEAN, funds : Int,
     arsenal : [Weapon -> Nat], active : SUBSET Weapon,
     left : [Weapon -> Nat], pending : Seq(Weapon), events : Seq(Event)]

Typed ==
    /\ game \in [Side -> GameType]
    /\ result \in {"none", "A", "B"}
    /\ pc \in {"inputs", "move", "flush", "take", "relay"}
    /\ turn \in Side
    /\ taken \in Seq(Event)
    /\ pc # "relay" => taken = <<>>
    /\ pc = "inputs" => turn = "A"
    /\ ledger \in Int

-----------------------------------------------------------------------------
(* The parts of the inductive invariant.                                   *)

\* Bazaar visits and countdown together count the rows a side knows of.
Counted(g) ==
    g.visits * LinesTilBaz + (LinesTilBaz - g.til) = g.op + g.lines

\* Side s has locked in this tick and its events wait for the relay.
Loose(s) ==
    \/ pc = "flush" /\ (turn = s \/ s = "A")
    \/ pc = "move" /\ turn = "B" /\ s = "A"
    \/ pc = "take" /\ (turn = "A" \/ s = "B")
    \/ pc = "relay" /\ turn = "A" /\ s = "B"

\* The events of side s are the ones being relayed.
Relayed(s) == pc = "relay" /\ turn = s

\* The row counts a queue reports lead from v to w in steps of one lock.
Steps(q, f) ==
    \A i \in 1 .. Len(q) :
        IF q[i].kind = "Scored"
        THEN /\ f[i] = q[i].lines
             /\ f[i - 1] <= f[i] /\ f[i] <= f[i - 1] + MaxClear
        ELSE f[i] = f[i - 1]
Chain(v, q, w) ==
    \E f \in [0 .. Len(q) -> Nat] :
        f[0] = v /\ f[Len(q)] = w /\ Steps(q, f)

\* A queue that reports l rows, if any, and carries neither tax nor top-out.
Level(q, l) ==
    \A i \in 1 .. Len(q) :
        \/ q[i].kind = "Scored" /\ q[i].lines = l
        \/ q[i].kind = "Launched"

\* What the opponent knows of side s's rows, and what is on its way.
Mirrored(s) ==
    LET known == game[Other(s)].op
        rows == game[s].lines
        q == game[s].events IN
    /\ Loose(s) => Chain(known, q, rows)
    /\ Relayed(s) => Chain(known, taken, rows)
    /\ ~Loose(s) => Level(q, rows)
    /\ ~Loose(s) /\ ~Relayed(s) => known = rows

\* The taxes a queue carries add up to v.
Amount(e) == IF e.kind = "Stolen" THEN e.amount ELSE 0
Adds(q, f) == \A i \in 1 .. Len(q) : f[i] = f[i - 1] + Amount(q[i])
Owes(q, v) ==
    \E f \in [0 .. Len(q) -> Int] :
        f[0] = 0 /\ f[Len(q)] = v /\ Adds(q, f)

\* The two balances and the taxes on their way make up the ledger.
Balanced ==
    \E owed \in [Side -> Int], c \in Int :
        /\ \A s \in Side : /\ Owes(game[s].events, owed[s])
                           /\ ~Loose(s) => owed[s] = 0
        /\ Owes(taken, c)
        /\ game["A"].funds + game["B"].funds + owed["A"] + owed["B"] + c = ledger

HasOver(q) == \E i \in 1 .. Len(q) : q[i].kind = "GameOver"

\* The verdict so far, against the top-outs and the ones not relayed yet.
Judged ==
    LET A == game["A"]
        B == game["B"] IN
    /\ \A s \in Side : Loose(s) => (game[s].over <=> HasOver(game[s].events))
    /\ pc \in {"move", "flush"} =>
          /\ result = "none"
          /\ ~game[turn].over /\ ~B.over
    /\ pc = "take" =>
          result = IF turn = "B" /\ A.over THEN "B" ELSE "none"
    /\ pc = "relay" /\ turn = "A" =>
          \/ result = "none" /\ (A.over <=> HasOver(taken))
          \/ result = "B" /\ A.over
    /\ pc = "relay" /\ turn = "B" =>
          \/ result = "B" /\ A.over
          \/ result = "none" /\ ~A.over /\ (B.over <=> HasOver(taken))
          \/ result = "A" /\ ~A.over /\ B.over

VInv ==
    /\ Typed
    /\ \A s \in Side : Counted(game[s])
    /\ \A s \in Side : Mirrored(s)
    /\ Balanced
    /\ Judged /\ VerdictIsFirst

-----------------------------------------------------------------------------
(* Arithmetic of the countdown.                                            *)

\* Quotient and remainder by LinesTilBaz (the modulo of update_bazaar).
LEMMA DivMod ==
    ASSUME NEW q \in Nat, NEW r \in 0 .. LinesTilBaz - 1
    PROVE  /\ (q * LinesTilBaz + r) % LinesTilBaz = r
           /\ (q * LinesTilBaz + r) \div LinesTilBaz = q
BY VersusAssumption, SMT

\* A countdown that has run to til knows how many bazaars it has opened.
LEMMA CountedDiv ==
    ASSUME NEW g \in GameType, Counted(g)
    PROVE  (g.op + g.lines) \div LinesTilBaz = g.visits
<1> DEFINE r == LinesTilBaz - g.til
<1>1. g.visits \in Nat /\ r \in 0 .. LinesTilBaz - 1
  BY VersusAssumption DEF GameType
<1>2. g.op + g.lines = g.visits * LinesTilBaz + r
  BY DEF Counted
<1> QED
  BY <1>1, <1>2, DivMod

-----------------------------------------------------------------------------
(* Events and event queues.                                                *)

\* What push_event writes is an Event; its fields are typed by its kind.
LEMMA EventMade ==
    /\ \A n \in Nat : [kind |-> "Scored", lines |-> n] \in Event
    /\ \A w \in Weapon : [kind |-> "Launched", weapon |-> w] \in Event
    /\ \A n \in Int : [kind |-> "Stolen", amount |-> n] \in Event
    /\ [kind |-> "GameOver"] \in Event
BY DEF Event

\* The kinds of event, and the field each one carries to the relay.
LEMMA EventRead ==
    ASSUME NEW e \in Event
    PROVE  /\ e.kind \in {"Scored", "Launched", "Stolen", "GameOver"}
           /\ e.kind = "Scored" => e.lines \in Nat
           /\ e.kind = "Launched" => e.weapon \in Weapon
           /\ e.kind = "Stolen" => e.amount \in Int
           /\ Amount(e) \in Int
           /\ e.kind # "Stolen" => Amount(e) = 0
BY DEF Event, Amount

\* An appended event extends the chain by the rows it reports.
LEMMA ChainAppend ==
    ASSUME NEW q \in Seq(Event), NEW e \in Event,
           NEW v \in Nat, NEW w \in Nat, NEW w2 \in Nat, Chain(v, q, w),
           e.kind = "Scored" => e.lines = w2 /\ w <= w2 /\ w2 <= w + MaxClear,
           e.kind # "Scored" => w2 = w
    PROVE  Chain(v, Append(q, e), w2)
<1> DEFINE n == Len(q)
           qq == Append(q, e)
<1>1. n \in Nat /\ Len(qq) = n + 1 /\ qq[n + 1] = e
      /\ \A i \in 1 .. n : qq[i] = q[i]
  BY LenProperties, AppendProperties
<1>2. PICK f \in [0 .. n -> Nat] : f[0] = v /\ f[n] = w /\ Steps(q, f)
  BY DEF Chain
<1> HIDE DEF n, qq
<1> DEFINE g == [i \in 0 .. n + 1 |-> IF i = n + 1 THEN w2 ELSE f[i]]
<1>3. g \in [0 .. n + 1 -> Nat] /\ g[0] = v /\ g[n + 1] = w2
  BY <1>1, <1>2
<1>4. Steps(qq, g)
  <2> SUFFICES ASSUME NEW i \in 1 .. n + 1
               PROVE  IF qq[i].kind = "Scored"
                      THEN /\ g[i] = qq[i].lines
                           /\ g[i - 1] <= g[i] /\ g[i] <= g[i - 1] + MaxClear
                      ELSE g[i] = g[i - 1]
    BY <1>1 DEF Steps, qq
  <2>1. CASE i = n + 1
    BY <1>1, <1>2, <2>1
  <2>2. CASE i # n + 1
    <3>1. i \in 1 .. n /\ g[i] = f[i] /\ g[i - 1] = f[i - 1] /\ qq[i] = q[i]
      BY <1>1, <2>2
    <3> QED
      BY <1>2, <3>1 DEF Steps, n
  <2> QED
    BY <2>1, <2>2
<1> QED
  BY <1>1, <1>3, <1>4 DEF Chain, qq

\* The relay's next event starts the rest of the chain.
LEMMA ChainTail ==
    ASSUME NEW q \in Seq(Event), q # <<>>,
           NEW v \in Nat, NEW w \in Nat, Chain(v, q, w)
    PROVE  /\ Head(q).kind = "Scored" =>
                /\ v <= Head(q).lines /\ Head(q).lines <= v + MaxClear
                /\ Chain(Head(q).lines, Tail(q), w)
           /\ Head(q).kind # "Scored" => Chain(v, Tail(q), w)
<1> DEFINE n == Len(q)
           t == Tail(q)
<1>1. n \in Nat \ {0} /\ Len(t) = n - 1 /\ Head(q) = q[1]
      /\ \A i \in 1 .. n - 1 : t[i] = q[i + 1]
  BY LenProperties, HeadTailProperties, EmptySeq
<1>2. PICK f \in [0 .. n -> Nat] : f[0] = v /\ f[n] = w /\ Steps(q, f)
  BY DEF Chain
<1>3. IF q[1].kind = "Scored"
      THEN f[1] = q[1].lines /\ f[0] <= f[1] /\ f[1] <= f[0] + MaxClear
      ELSE f[1] = f[0]
  BY <1>1, <1>2 DEF Steps
<1>4. f[1] \in Nat
  BY <1>1, <1>2
<1> HIDE DEF t
<1> DEFINE g == [i \in 0 .. n - 1 |-> f[i + 1]]
<1>5. g \in [0 .. n - 1 -> Nat] /\ g[0] = f[1] /\ g[n - 1] = w
  BY <1>1, <1>2
<1>6. Steps(t, g)
  <2> SUFFICES ASSUME NEW i \in 1 .. n - 1
               PROVE  IF t[i].kind = "Scored"
                      THEN /\ g[i] = t[i].lines
                           /\ g[i - 1] <= g[i] /\ g[i] <= g[i - 1] + MaxClear
                      ELSE g[i] = g[i - 1]
    BY <1>1 DEF Steps
  <2>1. i + 1 \in 1 .. n /\ g[i] = f[i + 1] /\ g[i - 1] = f[i] /\ t[i] = q[i + 1]
    BY <1>1
  <2>2. (i + 1) - 1 = i
    OBVIOUS
  <2> QED
    BY <1>2, <2>1, <2>2 DEF Steps
<1>7. Chain(f[1], t, w)
  BY <1>1, <1>5, <1>6 DEF Chain
<1> QED
  BY <1>1, <1>2, <1>3, <1>4, <1>7 DEF t

\* Nothing on its way: the mirror is exact.
LEMMA ChainEmpty ==
    ASSUME NEW v \in Nat, NEW w \in Nat
    PROVE  Chain(v, <<>>, w) => v = w
BY DEF Chain

\* A queue that reports nothing new is a chain that stays where it is.
LEMMA LevelChain ==
    ASSUME NEW q \in Seq(Event), NEW l \in Nat, Level(q, l)
    PROVE  Chain(l, q, l)
<1>1. Len(q) \in Nat
  BY LenProperties
<1> DEFINE f == [i \in 0 .. Len(q) |-> l]
<1>2. f \in [0 .. Len(q) -> Nat] /\ f[0] = l /\ f[Len(q)] = l
  BY <1>1
<1>3. Steps(q, f)
  BY <1>1, VersusAssumption DEF Level, Steps
<1> HIDE DEF f
<1> QED
  BY <1>2, <1>3 DEF Chain

\* What keeps a queue level.
LEMMA LevelAppend ==
    ASSUME NEW q \in Seq(Event), NEW e \in Event, NEW l \in Nat, Level(q, l),
           \/ e.kind = "Scored" /\ e.lines = l
           \/ e.kind = "Launched"
    PROVE  Level(Append(q, e), l)
<1>1. /\ Len(q) \in Nat
      /\ Len(Append(q, e)) = Len(q) + 1
      /\ \A i \in 1 .. Len(q) : Append(q, e)[i] = q[i]
      /\ Append(q, e)[Len(q) + 1] = e
  BY LenProperties, AppendProperties
<1> QED
  BY <1>1 DEF Level

\* An emptied queue is level, owes nothing and holds no top-out.
LEMMA EmptyQueue ==
    /\ \A l \in Nat : Level(<<>>, l)
    /\ Owes(<<>>, 0)
    /\ \A v \in Int : Owes(<<>>, v) => v = 0
    /\ ~HasOver(<<>>)
<1>1. \A l \in Nat : Level(<<>>, l)
  BY DEF Level
<1>2. Owes(<<>>, 0)
  <2> DEFINE f == [i \in 0 .. 0 |-> 0]
  <2>1. f \in [0 .. Len(<<>>) -> Int] /\ f[0] = 0 /\ f[Len(<<>>)] = 0 /\ Adds(<<>>, f)
    BY DEF Adds
  <2> QED
    BY <2>1 DEF Owes
<1>3. \A v \in Int : Owes(<<>>, v) => v = 0
  BY DEF Owes
<1>4. ~HasOver(<<>>)
  BY DEF HasOver
<1> QED
  BY <1>1, <1>2, <1>3, <1>4

\* An appended event adds its tax to what its queue carries.
LEMMA OwesAppend ==
    ASSUME NEW q \in Seq(Event), NEW e \in Event, NEW v \in Int, Owes(q, v)
    PROVE  Owes(Append(q, e), v + Amount(e))
<1> DEFINE n == Len(q)
           qq == Append(q, e)
<1>1. n \in Nat /\ Len(qq) = n + 1 /\ qq[n + 1] = e
      /\ \A i \in 1 .. n : qq[i] = q[i]
  BY LenProperties, AppendProperties
<1>2. PICK f \in [0 .. n -> Int] : f[0] = 0 /\ f[n] = v /\ Adds(q, f)
  BY DEF Owes
<1>3. Amount(e) \in Int
  BY EventRead
<1> HIDE DEF n, qq
<1> DEFINE g == [i \in 0 .. n + 1 |-> IF i = n + 1 THEN v + Amount(e) ELSE f[i]]
<1>4. g \in [0 .. n + 1 -> Int] /\ g[0] = 0 /\ g[n + 1] = v + Amount(e)
  BY <1>1, <1>2, <1>3
<1>5. Adds(qq, g)
  <2> SUFFICES ASSUME NEW i \in 1 .. n + 1
               PROVE  g[i] = g[i - 1] + Amount(qq[i])
    BY <1>1 DEF Adds, qq
  <2>1. CASE i = n + 1
    BY <1>1, <1>2, <1>3, <2>1
  <2>2. CASE i # n + 1
    <3>1. i \in 1 .. n /\ g[i] = f[i] /\ g[i - 1] = f[i - 1] /\ qq[i] = q[i]
      BY <1>1, <2>2
    <3> QED
      BY <1>2, <3>1 DEF Adds, n
  <2> QED
    BY <2>1, <2>2
<1> QED
  BY <1>1, <1>4, <1>5 DEF Owes, qq

\* An event the relay takes out no longer owes its tax.
LEMMA OwesTail ==
    ASSUME NEW q \in Seq(Event), q # <<>>, NEW v \in Int, Owes(q, v)
    PROVE  Owes(Tail(q), v - Amount(Head(q)))
<1> DEFINE n == Len(q)
           t == Tail(q)
<1>1. n \in Nat \ {0} /\ Len(t) = n - 1 /\ Head(q) = q[1]
      /\ \A i \in 1 .. n - 1 : t[i] = q[i + 1]
  BY LenProperties, HeadTailProperties, EmptySeq
<1>2. PICK f \in [0 .. n -> Int] : f[0] = 0 /\ f[n] = v /\ Adds(q, f)
  BY DEF Owes
<1>3. q[1] \in Event /\ Amount(q[1]) \in Int
  <2>1. q[1] \in Event
    BY ElementOfSeq, <1>1
  <2> QED
    BY <2>1, EventRead
<1>4. f[1] = Amount(q[1])
  <2>1. f[1] = f[1 - 1] + Amount(q[1])
    BY <1>1, <1>2 DEF Adds
  <2> QED
    BY <2>1, <1>2, <1>3
<1> HIDE DEF t
<1> DEFINE g == [i \in 0 .. n - 1 |-> f[i + 1] - f[1]]
<1>5. g \in [0 .. n - 1 -> Int] /\ g[0] = 0 /\ g[n - 1] = v - Amount(q[1])
  BY <1>1, <1>2, <1>3, <1>4
<1>6. Adds(t, g)
  <2> SUFFICES ASSUME NEW i \in 1 .. n - 1
               PROVE  g[i] = g[i - 1] + Amount(t[i])
    BY <1>1 DEF Adds
  <2>0. i \in 0 .. n - 1 /\ i - 1 \in 0 .. n - 1 /\ i + 1 \in 1 .. n /\ i \in 0 .. n
        /\ i + 1 \in 0 .. n /\ 1 \in 0 .. n /\ (i - 1) + 1 = i
    BY <1>1
  <2>1. g[i] = f[i + 1] - f[1] /\ g[i - 1] = f[i] - f[1]
    BY <2>0
  <2>2. /\ i + 1 \in 1 .. n /\ g[i] = f[i + 1] - f[1]
        /\ g[i - 1] = f[i] - f[1] /\ t[i] = q[i + 1]
        /\ f[i] \in Int /\ f[i + 1] \in Int /\ f[1] \in Int
    <3> HIDE DEF g
    <3> QED
      BY <1>1, <1>2, <2>0, <2>1
  <2>3. f[i + 1] = f[i] + Amount(q[i + 1])
    <3>1. f[i + 1] = f[(i + 1) - 1] + Amount(q[i + 1])
      BY <1>2, <2>2 DEF Adds
    <3> QED
      BY <3>1
  <2>4. Amount(q[i + 1]) \in Int
    <3>1. q[i + 1] \in Event
      BY ElementOfSeq, <2>2
    <3> QED
      BY <3>1, EventRead
  <2> QED
    BY <2>2, <2>3, <2>4
<1> HIDE DEF g
<1>7. Owes(t, v - Amount(q[1]))
  BY <1>1, <1>5, <1>6 DEF Owes
<1> QED
  BY <1>1, <1>7 DEF t

\* Where a queue's top-outs are: in what it had, or in what was appended.
LEMMA OverAppend ==
    ASSUME NEW q \in Seq(Event), NEW e \in Event
    PROVE  HasOver(Append(q, e)) <=> HasOver(q) \/ e.kind = "GameOver"
<1>1. /\ Len(q) \in Nat
      /\ Len(Append(q, e)) = Len(q) + 1
      /\ \A i \in 1 .. Len(q) : Append(q, e)[i] = q[i]
      /\ Append(q, e)[Len(q) + 1] = e
  BY LenProperties, AppendProperties
<1> QED
  BY <1>1 DEF HasOver

\* Where a queue's top-outs are: at its head, or in the rest of it.
LEMMA OverTail ==
    ASSUME NEW q \in Seq(Event), q # <<>>
    PROVE  HasOver(q) <=> HasOver(Tail(q)) \/ Head(q).kind = "GameOver"
<1>1. /\ Len(q) \in Nat \ {0} /\ Len(Tail(q)) = Len(q) - 1 /\ Head(q) = q[1]
      /\ \A i \in 1 .. Len(q) - 1 : Tail(q)[i] = q[i + 1]
  BY LenProperties, HeadTailProperties, EmptySeq
<1>2. ASSUME HasOver(q), Head(q).kind # "GameOver"
      PROVE  HasOver(Tail(q))
  <2>1. PICK i \in 1 .. Len(q) : q[i].kind = "GameOver"
    BY <1>2 DEF HasOver
  <2>2. i - 1 \in 1 .. Len(q) - 1 /\ (i - 1) + 1 = i
    BY <1>1, <1>2, <2>1
  <2>3. Tail(q)[i - 1].kind = "GameOver"
    BY <1>1, <2>1, <2>2
  <2> QED
    BY <1>1, <2>2, <2>3 DEF HasOver
<1>3. ASSUME HasOver(Tail(q))
      PROVE  HasOver(q)
  <2>1. PICK i \in 1 .. Len(q) - 1 : Tail(q)[i].kind = "GameOver"
    BY <1>1, <1>3 DEF HasOver
  <2>2. i + 1 \in 1 .. Len(q) /\ q[i + 1].kind = "GameOver"
    BY <1>1, <2>1
  <2> QED
    BY <2>2 DEF HasOver
<1>4. ASSUME Head(q).kind = "GameOver"
      PROVE  HasOver(q)
  BY <1>1, <1>4 DEF HasOver
<1> QED
  BY <1>2, <1>3, <1>4

\* A level queue holds no top-out.
LEMMA LevelNotOver ==
    ASSUME NEW q, NEW l, Level(q, l)
    PROVE  ~HasOver(q)
BY DEF Level, HasOver

-----------------------------------------------------------------------------
(* One side's game.                                                        *)

\* Two games that agree on all but money, queues and weapons.
SameCount(g, h) ==
    /\ h.lines = g.lines /\ h.op = g.op /\ h.til = g.til
    /\ h.visits = g.visits /\ h.over = g.over

\* Assigning a game's money and queue keeps it a game.
LEMMA PaidType ==
    ASSUME NEW g \in GameType, NEW x \in Int, NEW q \in Seq(Event)
    PROVE  [g EXCEPT !.funds = x, !.events = q] \in GameType
BY DEF GameType

\* Assigning a game's balance keeps it a game.
LEMMA FundsType ==
    ASSUME NEW g \in GameType, NEW x \in Int
    PROVE  /\ [g EXCEPT !.funds = x] \in GameType
           /\ SameCount(g, [g EXCEPT !.funds = x])
           /\ [g EXCEPT !.funds = x].events = g.events
           /\ [g EXCEPT !.funds = x].funds = x
BY DEF GameType, SameCount

\* Opening the bazaar keeps it a game.
LEMMA OpenedType ==
    ASSUME NEW g \in GameType, NEW t \in 1 .. LinesTilBaz, NEW v \in Nat
    PROVE  [g EXCEPT !.til = t, !.shopping = TRUE, !.visits = v] \in GameType
BY DEF GameType

\* push_event of the side's score.
LEMMA ScoredFacts ==
    ASSUME NEW g \in GameType
    PROVE  /\ Scored(g) \in GameType
           /\ SameCount(g, Scored(g)) /\ Scored(g).funds = g.funds
           /\ Scored(g).events = Append(g.events, [kind |-> "Scored", lines |-> g.lines])
<1>1. Append(g.events, [kind |-> "Scored", lines |-> g.lines]) \in Seq(Event)
  <2>1. g.lines \in Nat /\ g.events \in Seq(Event)
    BY DEF GameType
  <2>2. [kind |-> "Scored", lines |-> g.lines] \in Event
    BY <2>1, EventMade
  <2> QED
    BY <2>1, <2>2, AppendProperties
<1> QED
  BY <1>1 DEF Scored, GameType, SameCount

\* d rows are not in the countdown yet.
Behind(g, d) ==
    g.visits * LinesTilBaz + (LinesTilBaz - g.til) + d = g.op + g.lines

\* update_bazaar after d more rows than the countdown knows of: the countdown
\* wraps exactly when it has to, and the bazaar opens exactly once.
LEMMA UpdateBazaarFacts ==
    ASSUME NEW g \in GameType, NEW d \in 0 .. MaxClear,
           Behind(g, d)
    PROVE  LET h == UpdateBazaar(g) IN
           /\ h \in GameType /\ Counted(h)
           /\ h.lines = g.lines /\ h.op = g.op /\ h.over = g.over
           /\ h.funds = g.funds /\ h.events = g.events
<1> DEFINE L == LinesTilBaz
           r == L - g.til
           til == L - ((g.op + g.lines) % L)
           h == UpdateBazaar(g)
<1> HIDE DEF til, h
<1>1. /\ L \in Nat \ {0} /\ d \in Nat /\ d < L /\ g.visits \in Nat
      /\ g.til \in 1 .. L /\ r \in 0 .. L - 1
      /\ g.op \in Nat /\ g.lines \in Nat
  BY VersusAssumption DEF GameType
<1>2. CASE r + d < L
  <2>1. g.op + g.lines = g.visits * L + (r + d) /\ r + d \in 0 .. L - 1
    BY <1>1, <1>2 DEF Behind
  <2>2. (g.op + g.lines) % L = r + d
    BY <1>1, <2>1, DivMod, ZenonT(60)
  <2>3. til = g.til - d /\ til \in 1 .. L /\ ~Crossed(g, til)
    BY <1>1, <2>1, <2>2 DEF Crossed, til
  <2>4. h = [g EXCEPT !.til = til]
    BY <2>3 DEF UpdateBazaar, h, til, GameType
  <2>5. h \in GameType
    BY <2>3, <2>4 DEF GameType
  <2>6. h.til = g.til - d /\ h.visits = g.visits
    BY <2>3, <2>4 DEF GameType
  <2>7. h.lines = g.lines /\ h.op = g.op /\ h.over = g.over
        /\ h.funds = g.funds /\ h.events = g.events
    BY <2>4 DEF GameType
  <2>8. Counted(h)
    BY <1>1, <2>1, <2>6, <2>7 DEF Counted
  <2> QED
    BY <2>5, <2>7, <2>8 DEF h
<1>3. CASE r + d >= L
  <2> DEFINE m == g.visits * L
  <2> HIDE DEF m
  <2>0. m \in Nat
    BY <1>1 DEF m
  <2>1. (g.visits + 1) * L = m + L
    BY <1>1 DEF m
  <2>2. g.op + g.lines = (g.visits + 1) * L + (r + d - L)
    <3>1. g.op + g.lines = m + r + d
      BY <1>1 DEF m, Behind
    <3>2. m + r + d = (m + L) + (r + d - L)
      BY <1>1, <2>0
    <3> QED
      BY <2>1, <3>1, <3>2
  <2>3. (g.op + g.lines) % L = r + d - L
    <3>1. r + d - L \in 0 .. L - 1 /\ g.visits + 1 \in Nat
      BY <1>1, <1>3
    <3> QED
      BY <2>2, <3>1, DivMod
  <2>4. til = g.til + L - d /\ til \in 1 .. L /\ til > g.til
    <3>1. til = L - (r + d - L)
      BY <2>3 DEF til
    <3> QED
      BY <1>1, <1>3, <3>1
  <2>5. h = [g EXCEPT !.til = til, !.shopping = TRUE, !.visits = g.visits + 1]
    BY <2>4 DEF UpdateBazaar, Crossed, GameType, h, til
  <2>6. h \in GameType
    <3>1. g.visits + 1 \in Nat
      BY <1>1
    <3> QED
      BY <2>4, <2>5, <3>1, OpenedType
  <2>7. h.til = g.til + L - d /\ h.visits = g.visits + 1
    BY <2>4, <2>5 DEF GameType
  <2>8. h.lines = g.lines /\ h.op = g.op /\ h.over = g.over
        /\ h.funds = g.funds /\ h.events = g.events
    BY <2>5 DEF GameType
  <2>9. Counted(h)
    BY <1>1, <2>1, <2>2, <2>7, <2>8 DEF Counted
  <2> QED
    BY <2>6, <2>8, <2>9 DEF h
<1> QED
  BY <1>1, <1>2, <1>3

\* tick_durations touches the running weapons only.
LEMMA ExpireFacts ==
    ASSUME NEW g \in GameType, NEW n \in Nat
    PROVE  LET h == Expire(g, n) IN
           /\ h \in GameType /\ SameCount(g, h)
           /\ h.funds = g.funds /\ h.events = g.events
<1> DEFINE rest == [w \in Weapon |-> IF g.left[w] > n THEN g.left[w] - n ELSE 0]
           on == {w \in g.active : g.left[w] > 0 => rest[w] > 0}
<1>1. rest \in [Weapon -> Nat]
  BY DEF GameType
<1>2. on \in SUBSET Weapon
  BY DEF GameType
<1>3. Expire(g, n) = [g EXCEPT !.left = rest, !.active = on]
  BY DEF Expire, GameType
<1> HIDE DEF rest, on
<1> QED
  BY <1>1, <1>2, <1>3 DEF GameType, SameCount

\* The way from g to h pays a sum, part of it as a tax still in the queue.
Pays(g, h, pay) ==
    \/ h.events = g.events /\ h.funds = g.funds + pay
    \/ \E tax \in Int :
          /\ h.events = Append(g.events, [kind |-> "Stolen", amount |-> tax])
          /\ h.funds + tax = g.funds + pay

\* credit_clear_funds: what the victim does not get is put in the event.
LEMMA CreditFacts ==
    ASSUME NEW g \in GameType, NEW pay \in Nat
    PROVE  LET h == Credit(g, pay) IN
           /\ h \in GameType /\ SameCount(g, h)
           /\ Pays(g, h, pay)
<1> DEFINE keep == IF "Mondale" \in g.active THEN (7 * pay) \div 10 ELSE pay
           tax == IF "Mondale" \in g.active THEN Tax(pay) ELSE 0
           e == [kind |-> "Stolen", amount |-> tax]
           h == Credit(g, pay)
<1> HIDE DEF keep, tax, e, h
<1>1. keep \in Int /\ tax \in Int /\ keep + tax = pay
  BY DEF keep, tax, Tax
<1>2. g.events \in Seq(Event)
  BY DEF GameType
<1>3. g.funds \in Int
  BY DEF GameType
<1>4. Append(g.events, e) \in Seq(Event)
  <2>1. e \in Event
    BY <1>1, EventMade DEF e
  <2> QED
    BY <1>2, <2>1, AppendProperties
<1>5. h = [g EXCEPT !.funds = g.funds + keep,
                    !.events = IF tax = 0 THEN g.events ELSE Append(g.events, e)]
  BY DEF Credit, GameType, h, keep, tax, e
<1>6. g.funds + keep \in Int
  BY <1>1, <1>3
<1>7. CASE tax = 0
  <2>1. h = [g EXCEPT !.funds = g.funds + keep, !.events = g.events] /\ keep = pay
    BY <1>1, <1>5, <1>7
  <2>2. SameCount(g, h) /\ h.events = g.events /\ h.funds = g.funds + pay
    BY <2>1 DEF GameType, SameCount
  <2>3. h \in GameType
    BY <1>2, <1>6, <2>1, PaidType
  <2> QED
    BY <2>2, <2>3 DEF h, Pays
<1>8. CASE tax # 0
  <2>1. h = [g EXCEPT !.funds = g.funds + keep, !.events = Append(g.events, e)]
    BY <1>5, <1>8
  <2>2. SameCount(g, h) /\ h.events = Append(g.events, e)
    BY <2>1 DEF GameType, SameCount
  <2>3. h.funds + tax = g.funds + pay
    <3>1. h.funds = g.funds + keep
      BY <2>1 DEF GameType
    <3> QED
      BY <1>1, <1>3, <3>1
  <2>4. h \in GameType
    BY <1>4, <1>6, <2>1, PaidType
  <2> QED
    BY <1>1, <2>2, <2>3, <2>4 DEF h, e, Pays
<1> QED
  BY <1>7, <1>8

\* A lock's rows: credited, counted towards the bazaar, run off the weapons.
LEMMA ClearFacts ==
    ASSUME NEW g \in GameType, Counted(g), NEW n \in 0 .. MaxClear
    PROVE  LET h == Clear(g, n) IN
           /\ h \in GameType /\ Counted(h)
           /\ h.op = g.op /\ h.over = g.over /\ h.lines = g.lines + n
           /\ Pays(g, h, n * RowFunds)
<1> DEFINE g1 == [g EXCEPT !.lines = @ + n]
           pay == n * RowFunds
           paid == Credit(g1, pay)
           bazaar == UpdateBazaar(paid)
           h == Clear(g, n)
<1> HIDE DEF g1, pay, paid, bazaar, h
<1>1. n \in Nat /\ pay \in Nat
  BY VersusAssumption DEF pay
<1>2. g1 \in GameType
  <2>1. g.lines + n \in Nat
    BY <1>1 DEF GameType
  <2> QED
    BY <2>1 DEF g1, GameType
<1>3. /\ g1.lines = g.lines + n /\ g1.op = g.op /\ g1.til = g.til
      /\ g1.visits = g.visits /\ g1.over = g.over
      /\ g1.events = g.events /\ g1.funds = g.funds
  BY DEF g1, GameType
<1>4. paid \in GameType /\ SameCount(g1, paid) /\ Pays(g1, paid, pay)
  BY <1>1, <1>2, CreditFacts DEF paid
<1>5. Pays(g, paid, pay)
  BY <1>3, <1>4 DEF Pays
<1>6. /\ paid.lines = g.lines + n /\ paid.op = g.op /\ paid.til = g.til
      /\ paid.visits = g.visits /\ paid.over = g.over
  BY <1>3, <1>4 DEF SameCount
<1>7. CASE n = 0
  <2>1. h = paid
    BY <1>7 DEF h, paid, pay, g1, Clear
  <2>2. g.lines \in Nat /\ paid.lines = g.lines
    BY <1>6, <1>7 DEF GameType
  <2>3. Counted(paid)
    BY <1>6, <2>2 DEF Counted
  <2> QED
    BY <1>4, <1>5, <1>6, <2>1, <2>3 DEF h, pay
<1>8. CASE n # 0
  <2>1. h = Expire(bazaar, n)
    BY <1>8 DEF h, bazaar, paid, pay, g1, Clear
  <2>2. Behind(paid, n)
    <3>1. /\ g.lines \in Nat /\ g.op \in Nat /\ g.visits \in Nat /\ g.til \in Int
          /\ LinesTilBaz \in Nat
      BY VersusAssumption DEF GameType
    <3> QED
      BY <1>1, <1>6, <3>1 DEF Behind, Counted
  <2>3. /\ bazaar \in GameType /\ Counted(bazaar)
        /\ bazaar.lines = paid.lines /\ bazaar.op = paid.op /\ bazaar.over = paid.over
        /\ bazaar.funds = paid.funds /\ bazaar.events = paid.events
    BY <1>4, <2>2, UpdateBazaarFacts DEF bazaar
  <2>4. h \in GameType /\ SameCount(bazaar, h)
        /\ h.funds = bazaar.funds /\ h.events = bazaar.events
    BY <1>1, <2>1, <2>3, ExpireFacts
  <2>5. Counted(h)
    BY <2>3, <2>4 DEF Counted, SameCount
  <2>6. h.op = g.op /\ h.over = g.over /\ h.lines = g.lines + n
    BY <1>6, <2>3, <2>4 DEF SameCount
  <2>7. Pays(g, h, pay)
    BY <1>5, <2>3, <2>4 DEF Pays
  <2> QED
    BY <2>4, <2>5, <2>6, <2>7 DEF h, pay
<1> QED
  BY <1>7, <1>8

\* What a change of one game does to all the invariant relates: the rows, the
\* countdown, the money with the taxes owed, and the events left to relay.
Effect(g, h, rows, paid) ==
    /\ h \in GameType /\ Counted(h)
    /\ h.op = g.op /\ h.over = g.over /\ h.lines = g.lines + rows
    /\ \A v \in Nat : Chain(v, g.events, g.lines) => Chain(v, h.events, h.lines)
    /\ \A a \in Int : Owes(g.events, a) =>
          \E b \in Int : Owes(h.events, b) /\ h.funds + b = g.funds + a + paid
    /\ HasOver(h.events) <=> HasOver(g.events)

\* A payment followed by the score's event has its effect in full.
LEMMA PaidAndScored ==
    ASSUME NEW g \in GameType, NEW c \in GameType, Counted(c),
           NEW rows \in 0 .. MaxClear, NEW pay \in Int,
           c.op = g.op, c.over = g.over, c.lines = g.lines + rows,
           Pays(g, c, pay)
    PROVE  Effect(g, Scored(c), rows, pay)
<1> DEFINE h == Scored(c)
           e == [kind |-> "Scored", lines |-> c.lines]
<1> HIDE DEF h, e
<1>1. h \in GameType /\ SameCount(c, h) /\ h.funds = c.funds
      /\ h.events = Append(c.events, e)
  BY ScoredFacts DEF h, e
<1>2. g.events \in Seq(Event) /\ c.events \in Seq(Event)
  BY DEF GameType
<1>3. g.lines \in Nat /\ c.lines \in Nat /\ g.funds \in Int /\ c.funds \in Int
  BY DEF GameType
<1>4. e \in Event
  BY <1>3, EventMade DEF e
<1>5. e.kind = "Scored" /\ e.lines = c.lines /\ Amount(e) = 0
  BY DEF e, Amount
<1>6. Counted(h) /\ h.op = g.op /\ h.over = g.over /\ h.lines = g.lines + rows
  BY <1>1 DEF Counted, SameCount
<1>7. h.lines = c.lines
  BY <1>1 DEF SameCount
<1>8. g.lines <= c.lines /\ c.lines <= g.lines + MaxClear
  BY <1>3, VersusAssumption
<1>9. CASE c.events = g.events /\ c.funds = g.funds + pay
  <2>1. ASSUME NEW v \in Nat, Chain(v, g.events, g.lines)
        PROVE  Chain(v, h.events, h.lines)
    BY <1>1, <1>2, <1>3, <1>4, <1>5, <1>7, <1>8, <1>9, <2>1, ChainAppend
  <2>2. ASSUME NEW a \in Int, Owes(g.events, a)
        PROVE  \E b \in Int : Owes(h.events, b) /\ h.funds + b = g.funds + a + pay
    <3>1. Owes(h.events, a + 0)
      BY <1>1, <1>2, <1>4, <1>5, <1>9, <2>2, OwesAppend
    <3>2. a + 0 = a
      OBVIOUS
    <3>3. h.funds = g.funds + pay
      BY <1>1, <1>9
    <3>4. h.funds + a = g.funds + a + pay
      BY <1>3, <3>3
    <3> QED
      BY <3>1, <3>2, <3>4
  <2>3. HasOver(h.events) <=> HasOver(g.events)
    BY <1>1, <1>2, <1>4, <1>5, <1>9, OverAppend
  <2> QED
    BY <1>1, <1>6, <2>1, <2>2, <2>3 DEF Effect, h
<1>10. ASSUME NEW tax \in Int,
              c.events = Append(g.events, [kind |-> "Stolen", amount |-> tax]),
              c.funds + tax = g.funds + pay
       PROVE  Effect(g, h, rows, pay)
  <2> DEFINE t == [kind |-> "Stolen", amount |-> tax]
  <2> HIDE DEF t
  <2>1. t \in Event /\ t.kind = "Stolen" /\ Amount(t) = tax
    BY EventMade DEF t, Amount
  <2>2. c.events = Append(g.events, t)
    BY <1>10 DEF t
  <2>3. ASSUME NEW v \in Nat, Chain(v, g.events, g.lines)
        PROVE  Chain(v, h.events, h.lines)
    <3>1. Chain(v, c.events, g.lines)
      BY <1>2, <1>3, <2>1, <2>2, <2>3, ChainAppend
    <3> QED
      BY <1>1, <1>2, <1>3, <1>4, <1>5, <1>7, <1>8, <3>1, ChainAppend
  <2>4. ASSUME NEW a \in Int, Owes(g.events, a)
        PROVE  \E b \in Int : Owes(h.events, b) /\ h.funds + b = g.funds + a + pay
    <3>1. Owes(c.events, a + tax)
      BY <1>2, <2>1, <2>2, <2>4, OwesAppend
    <3>2. a + tax \in Int /\ (a + tax) + 0 = a + tax
      OBVIOUS
    <3>3. Owes(h.events, a + tax)
      BY <1>1, <1>2, <1>4, <1>5, <3>1, <3>2, OwesAppend
    <3>4. h.funds + tax = g.funds + pay
      BY <1>1, <1>10
    <3>5. h.funds + (a + tax) = g.funds + a + pay
      <4>1. h.funds \in Int
        BY <1>1, <1>3
      <4> QED
        BY <1>3, <3>4, <4>1
    <3> QED
      BY <3>2, <3>3, <3>5
  <2>5. HasOver(h.events) <=> HasOver(g.events)
    <3>1. HasOver(c.events) <=> HasOver(g.events)
      BY <1>2, <2>1, <2>2, OverAppend
    <3>2. HasOver(h.events) <=> HasOver(c.events)
      BY <1>1, <1>2, <1>4, <1>5, OverAppend
    <3> QED
      BY <3>1, <3>2
  <2> QED
    BY <1>1, <1>6, <2>3, <2>4, <2>5 DEF Effect
<1> QED
  BY <1>9, <1>10 DEF Pays, h

\* place: the rows of a lock.
LEMMA LockEffect ==
    ASSUME NEW g \in GameType, Counted(g), NEW n \in 0 .. MaxClear
    PROVE  Effect(g, Scored(Clear(g, n)), n, n * RowFunds)
<1> DEFINE c == Clear(g, n)
<1>1. /\ c \in GameType /\ Counted(c)
      /\ c.op = g.op /\ c.over = g.over /\ c.lines = g.lines + n
      /\ Pays(g, c, n * RowFunds)
  BY ClearFacts
<1>2. n * RowFunds \in Int
  BY VersusAssumption
<1> HIDE DEF c
<1>3. Effect(g, Scored(c), n, n * RowFunds)
  BY <1>1, <1>2, PaidAndScored
<1> QED
  BY <1>3 DEF c

\* A change that reports nothing and pays outright.
LEMMA QuietEffect ==
    ASSUME NEW g \in GameType, NEW h \in GameType, Counted(g), SameCount(g, h),
           NEW pay \in Int, h.events = g.events, h.funds = g.funds + pay
    PROVE  Effect(g, h, 0, pay)
<1>1. g.funds \in Int /\ h.funds \in Int /\ g.lines \in Nat
  BY DEF GameType
<1>2. Counted(h)
  BY DEF Counted, SameCount
<1>3. h.op = g.op /\ h.over = g.over /\ h.lines = g.lines
  BY DEF SameCount
<1>4. h.lines = g.lines + 0
  BY <1>1, <1>3
<1>5. ASSUME NEW a \in Int, Owes(g.events, a)
      PROVE  \E b \in Int : Owes(h.events, b) /\ h.funds + b = g.funds + a + pay
  <2>1. Owes(h.events, a)
    BY <1>5
  <2>2. h.funds + a = g.funds + a + pay
    BY <1>1
  <2> QED
    BY <2>1, <2>2
<1> QED
  BY <1>2, <1>3, <1>4, <1>5 DEF Effect

\* What a change that reports no new row keeps of one game and its queue.
Keeps(g, h) ==
    /\ h \in GameType /\ Counted(h)
    /\ h.lines = g.lines /\ h.over = g.over
    /\ \A v \in Nat : Chain(v, g.events, g.lines) => Chain(v, h.events, g.lines)
    /\ Level(g.events, g.lines) => Level(h.events, g.lines)
    /\ \A a \in Int : Owes(g.events, a) => Owes(h.events, a)
    /\ HasOver(h.events) <=> HasOver(g.events)

\* add_funds: the balance and the score's event, which says nothing new.
LEMMA AddFundsKeeps ==
    ASSUME NEW g \in GameType, Counted(g), NEW amount \in Int
    PROVE  LET h == AddFunds(g, amount) IN
           Keeps(g, h) /\ h.op = g.op /\ h.funds = g.funds + amount
<1>1. g.funds \in Int /\ g.lines \in Nat
  BY DEF GameType
<1>2. CASE amount = 0
  <2>1. AddFunds(g, amount) = g
    BY <1>2 DEF AddFunds
  <2>2. g.funds = g.funds + amount
    BY <1>1, <1>2
  <2> QED
    BY <2>1, <2>2 DEF Keeps
<1>3. CASE amount # 0
  <2> DEFINE c == [g EXCEPT !.funds = g.funds + amount]
             h == AddFunds(g, amount)
             e == [kind |-> "Scored", lines |-> g.lines]
  <2> HIDE DEF c, h, e
  <2>1. h = Scored(c)
    BY <1>3 DEF AddFunds, h, c
  <2>2. c \in GameType
    <3>1. g.funds + amount \in Int
      BY <1>1
    <3> QED
      BY <3>1 DEF c, GameType
  <2>3. SameCount(g, c) /\ c.events = g.events /\ c.funds = g.funds + amount
    BY DEF c, GameType, SameCount
  <2>4. h \in GameType /\ SameCount(c, h) /\ h.funds = c.funds
    BY <2>1, <2>2, ScoredFacts
  <2>5. SameCount(g, h) /\ h.funds = g.funds + amount
    BY <2>3, <2>4 DEF SameCount
  <2>6. Counted(h) /\ h.lines = g.lines /\ h.over = g.over /\ h.op = g.op
    BY <2>5 DEF Counted, SameCount
  <2>7. h.events = Append(g.events, e)
    <3>1. c.lines = g.lines
      BY <2>3 DEF SameCount
    <3> QED
      BY <2>1, <2>2, <2>3, <3>1, ScoredFacts DEF e
  <2>8. /\ e \in Event /\ e.kind = "Scored" /\ e.lines = g.lines /\ Amount(e) = 0
        /\ g.events \in Seq(Event)
    BY <1>1, EventMade DEF e, Amount, GameType
  <2>9. ASSUME NEW v \in Nat, Chain(v, g.events, g.lines)
        PROVE  Chain(v, h.events, g.lines)
    <3>1. g.lines <= g.lines + MaxClear
      BY <1>1, VersusAssumption
    <3> QED
      BY <1>1, <2>7, <2>8, <2>9, <3>1, ChainAppend
  <2>10. Level(g.events, g.lines) => Level(h.events, g.lines)
    BY <1>1, <2>7, <2>8, LevelAppend
  <2>11. ASSUME NEW a \in Int, Owes(g.events, a)
         PROVE  Owes(h.events, a)
    <3>1. Owes(h.events, a + 0)
      BY <2>7, <2>8, <2>11, OwesAppend
    <3>2. a + 0 = a
      OBVIOUS
    <3> QED
      BY <3>1, <3>2
  <2>12. HasOver(h.events) <=> HasOver(g.events)
    BY <2>7, <2>8, OverAppend
  <2> QED
    BY <2>4, <2>5, <2>6, <2>9, <2>10, <2>11, <2>12 DEF Keeps, h
<1> QED
  BY <1>2, <1>3

\* A change of weapons, prices or stock keeps the rest.
LEMMA SameKeeps ==
    ASSUME NEW g \in GameType, NEW h \in GameType, Counted(g),
           SameCount(g, h), h.events = g.events
    PROVE  Keeps(g, h)
BY DEF Keeps, SameCount, Counted

\* What apply_weapon_on does to the balance: Bottle's rows pay, Keating takes
\* it all, Reagan turns it into a debt.
Toll(g, w, n) ==
    CASE w = "Keating" -> -g.funds
      [] w = "Reagan" -> -2 * g.funds
      [] OTHER -> n * RowFunds

\* apply_weapon_on, with the rows Bottle may complete.
LEMMA ActivateEffect ==
    ASSUME NEW g \in GameType, Counted(g), NEW w \in Weapon,
           NEW n \in 0 .. MaxClear, n > 0 => w = "Bottle"
    PROVE  Effect(g, Activate(g, w, n), n, Toll(g, w, n))
<1> DEFINE on == [g EXCEPT !.active = @ \cup {w}, !.left[w] = @ + Duration[w]]
           h == Activate(g, w, n)
<1> HIDE DEF on, h
<1>1. on \in GameType
  <2>1. /\ g.active \cup {w} \in SUBSET Weapon
        /\ [g.left EXCEPT ![w] = g.left[w] + Duration[w]] \in [Weapon -> Nat]
    BY VersusAssumption DEF GameType
  <2>2. on = [g EXCEPT !.active = g.active \cup {w},
                       !.left = [g.left EXCEPT ![w] = g.left[w] + Duration[w]]]
    BY DEF on, GameType
  <2> QED
    BY <2>1, <2>2 DEF GameType
<1>2. SameCount(g, on) /\ on.events = g.events /\ on.funds = g.funds
  BY DEF on, GameType, SameCount
<1>3. Counted(on)
  BY <1>2 DEF SameCount, Counted
<1>4. g.funds \in Int /\ n \in Nat /\ RowFunds \in Nat
  BY VersusAssumption DEF GameType
<1>5. CASE n = 0
  <2>1. CASE w = "Keating"
    <3>1. h = [on EXCEPT !.funds = 0]
      BY <1>5, <2>1 DEF h, Activate, on
    <3>2. h \in GameType /\ SameCount(on, h) /\ h.events = on.events /\ h.funds = 0
      BY <1>1, <3>1, FundsType
    <3>3. SameCount(g, h) /\ h.events = g.events
      BY <1>2, <3>2 DEF SameCount
    <3>4. -g.funds \in Int /\ h.funds = g.funds + (-g.funds)
      BY <1>4, <3>2
    <3>5. Effect(g, h, 0, -g.funds)
      BY <3>2, <3>3, <3>4, QuietEffect
    <3> QED
      BY <1>5, <2>1, <3>5 DEF Toll, h
  <2>2. CASE w = "Reagan"
    <3>1. h = [on EXCEPT !.funds = -on.funds]
      BY <1>1, <1>5, <2>2 DEF h, Activate, on, GameType
    <3>2. -on.funds \in Int
      BY <1>2, <1>4
    <3>3. h \in GameType /\ SameCount(on, h) /\ h.events = on.events /\ h.funds = -on.funds
      BY <1>1, <3>1, <3>2 DEF GameType, SameCount
    <3>4. SameCount(g, h) /\ h.events = g.events
      BY <1>2, <3>3 DEF SameCount
    <3>5. -2 * g.funds \in Int /\ h.funds = g.funds + (-2 * g.funds)
      BY <1>2, <1>4, <3>3
    <3>6. Effect(g, h, 0, -2 * g.funds)
      BY <3>3, <3>4, <3>5, QuietEffect
    <3> QED
      BY <1>5, <2>2, <3>6 DEF Toll, h
  <2>3. CASE w # "Keating" /\ w # "Reagan"
    <3>1. h = on
      BY <1>5, <2>3 DEF h, Activate, on
    <3>2. Toll(g, w, n) = 0
      BY <1>4, <1>5, <2>3 DEF Toll
    <3>3. on.funds = g.funds + 0
      BY <1>2, <1>4
    <3>4. Effect(g, on, 0, 0)
      BY <1>1, <1>2, <3>3, QuietEffect
    <3> QED
      BY <1>5, <3>1, <3>2, <3>4 DEF h
  <2> QED
    BY <2>1, <2>2, <2>3
<1>6. CASE n # 0
  <2>1. w = "Bottle"
    BY <1>4, <1>6
  <2>2. h = Scored(Clear(on, n))
    BY <1>6, <2>1 DEF h, Activate, on
  <2>3. Effect(on, h, n, n * RowFunds)
    BY <1>1, <1>3, <2>2, LockEffect
  <2>4. Effect(g, h, n, n * RowFunds)
    BY <1>2, <2>3 DEF Effect, SameCount
  <2>5. Toll(g, w, n) = n * RowFunds
    BY <2>1 DEF Toll
  <2> QED
    BY <2>4, <2>5 DEF h
<1> QED
  BY <1>5, <1>6

-----------------------------------------------------------------------------
(* The relay's deliveries.                                                 *)

\* A weapon queued at a victim disturbs nothing else.
LEMMA QueueFacts ==
    ASSUME Typed, NEW v \in Side, NEW w \in Weapon
    PROVE  LET G == Queue(v, w) IN
           /\ G \in [Side -> GameType]
           /\ \A s \in Side : /\ SameCount(game[s], G[s])
                              /\ G[s].events = game[s].events
                              /\ G[s].funds = game[s].funds
<1> DEFINE G == Queue(v, w)
           h == [game[v] EXCEPT !.pending = Append(@, w)]
<1>1. game \in [Side -> GameType] /\ game[v] \in GameType
  BY DEF Typed
<1>2. Append(game[v].pending, w) \in Seq(Weapon)
  <2>1. game[v].pending \in Seq(Weapon)
    BY <1>1 DEF GameType
  <2> QED
    BY <2>1, AppendProperties
<1>3. h = [game[v] EXCEPT !.pending = Append(game[v].pending, w)]
  BY <1>1 DEF GameType
<1>4. G = [game EXCEPT ![v] = h]
  BY <1>1, <1>3 DEF Queue
<1> HIDE DEF G, h
<1>5. /\ h \in GameType /\ SameCount(game[v], h)
      /\ h.events = game[v].events /\ h.funds = game[v].funds
  BY <1>1, <1>2, <1>3 DEF GameType, SameCount
<1>6. G \in [Side -> GameType]
  BY <1>1, <1>4, <1>5
<1>7. ASSUME NEW s \in Side
      PROVE  /\ SameCount(game[s], G[s]) /\ G[s].events = game[s].events
             /\ G[s].funds = game[s].funds
  <2>1. CASE s = v
    BY <1>1, <1>4, <1>5, <2>1
  <2>2. CASE s # v
    <3>1. G[s] = game[s]
      BY <1>1, <1>4, <2>2
    <3> QED
      BY <3>1 DEF SameCount
  <2> QED
    BY <2>1, <2>2
<1> QED
  BY <1>6, <1>7 DEF G

\* What Keating's launcher is credited with: the victim's balance, and
\* nothing when it is cursed and the weapon fizzles.
Mint(a, w) ==
    IF w = "Keating" /\ "Mirror" \notin game[a].active
    THEN game[Other(a)].funds ELSE 0

\* deliver_weapon: neither the rows, nor the bazaars, nor what is on its way
\* change, and no money but Keating's.
LEMMA DeliverFacts ==
    ASSUME Typed, \A s \in Side : Counted(game[s]),
           NEW a \in Side, NEW w \in Weapon
    PROVE  LET G == Deliver(a, Other(a), w) IN
           /\ G \in [Side -> GameType]
           /\ \A s \in Side : Keeps(game[s], G[s]) /\ G[s].op = game[s].op
           /\ G[Other(a)].funds = game[Other(a)].funds
           /\ G[a].funds = game[a].funds + Mint(a, w)
<1> DEFINE v == Other(a)
           G == Deliver(a, v, w)
           Fine(X) == /\ X \in [Side -> GameType]
                      /\ \A s \in Side : Keeps(game[s], X[s]) /\ X[s].op = game[s].op
                      /\ X[v].funds = game[v].funds
<1>1. game \in [Side -> GameType] /\ v \in Side /\ v # a
  BY DEF Typed, Other, Side
<1>2. \A s \in Side : game[s] \in GameType /\ game[s].funds \in Int
  BY <1>1 DEF GameType
<1> HIDE DEF v, G
<1>3. ASSUME NEW X \in [Side -> GameType],
             \A s \in Side : /\ SameCount(game[s], X[s])
                             /\ X[s].events = game[s].events
                             /\ X[s].funds = game[s].funds
      PROVE  Fine(X) /\ X[a].funds = game[a].funds
  <2>1. ASSUME NEW s \in Side
        PROVE  Keeps(game[s], X[s]) /\ X[s].op = game[s].op
    <3>1. game[s] \in GameType /\ X[s] \in GameType
      BY <1>1
    <3>2. SameCount(game[s], X[s]) /\ X[s].events = game[s].events
      BY <1>3
    <3>3. Keeps(game[s], X[s])
      BY <3>1, <3>2, SameKeeps
    <3> QED
      BY <3>2, <3>3 DEF SameCount
  <2> QED
    BY <1>1, <1>3, <2>1
<1>4. Fine(game) /\ game[a].funds = game[a].funds
  BY <1>1, <1>3 DEF SameCount
<1>5. \A s \in Side : Fine(Queue(s, w)) /\ Queue(s, w)[a].funds = game[a].funds
  <2> SUFFICES ASSUME NEW s \in Side
               PROVE  Fine(Queue(s, w)) /\ Queue(s, w)[a].funds = game[a].funds
    OBVIOUS
  <2> HIDE DEF Fine
  <2> QED
    BY <1>3, QueueFacts
<1>6. CASE "Mirror" \in game[a].active
  <2>1. G = game \/ G = Queue(a, w)
    BY <1>6 DEF G, Deliver
  <2>2. Mint(a, w) = 0 /\ game[a].funds + 0 = game[a].funds
    BY <1>2, <1>6 DEF Mint
  <2> QED
    BY <1>4, <1>5, <2>1, <2>2 DEF G, v
<1>7. CASE "Mirror" \notin game[a].active /\ w # "Keating"
  <2>1. Mint(a, w) = 0 /\ game[a].funds + 0 = game[a].funds
    BY <1>2, <1>7 DEF Mint
  <2>2. CASE w = "Susan" /\ w \notin Spy
    <3> DEFINE X == [game EXCEPT ![a].arsenal = game[v].arsenal,
                                 ![v].arsenal = game[a].arsenal]
    <3>1. G = X
      BY <1>7, <2>2 DEF G, Deliver, ApplyWeapon
    <3>2. game[a].arsenal \in [Weapon -> Nat] /\ game[v].arsenal \in [Weapon -> Nat]
      BY <1>1, <1>2 DEF GameType
    <3>3. X = [s \in Side |-> [game[s] EXCEPT !.arsenal = game[Other(s)].arsenal]]
      BY <1>1 DEF v, Other, Side, GameType
    <3> HIDE DEF X
    <3>4. ASSUME NEW s \in Side
          PROVE  /\ X[s] \in GameType /\ SameCount(game[s], X[s])
                 /\ X[s].events = game[s].events /\ X[s].funds = game[s].funds
      <4>1. X[s] = [game[s] EXCEPT !.arsenal = game[Other(s)].arsenal]
        BY <3>3
      <4>2. game[s] \in GameType /\ game[Other(s)].arsenal \in [Weapon -> Nat]
        BY <1>1 DEF Other, Side, GameType
      <4> QED
        BY <4>1, <4>2 DEF GameType, SameCount
    <3>5. X \in [Side -> GameType]
      BY <3>3, <3>4
    <3>6. Fine(X) /\ X[a].funds = game[a].funds
      BY <1>3, <3>4, <3>5
    <3> QED
      BY <2>1, <3>1, <3>6 DEF G, v
  <2>3. CASE ~(w = "Susan" /\ w \notin Spy)
    <3>1. G = game \/ G = Queue(v, w)
      BY <1>7, <2>3 DEF G, Deliver, ApplyWeapon
    <3> QED
      BY <1>1, <1>4, <1>5, <2>1, <3>1 DEF G, v
  <2> QED
    BY <2>2, <2>3
<1>8. CASE "Mirror" \notin game[a].active /\ w = "Keating"
  <2> DEFINE h == AddFunds(game[a], game[v].funds)
             X == [s \in Side |-> IF s = a THEN h ELSE Queue(v, w)[s]]
  <2>1. G = X
    BY <1>8 DEF G, Deliver, ApplyWeapon, Spy
  <2>2. /\ Keeps(game[a], h) /\ h.op = game[a].op
        /\ h.funds = game[a].funds + game[v].funds
    BY <1>1, <1>2, AddFundsKeeps
  <2>3. h \in GameType
    BY <2>2 DEF Keeps
  <2> HIDE DEF h
  <2>4. Fine(Queue(v, w))
    BY <1>1, <1>5
  <2>5. X \in [Side -> GameType]
    BY <2>3, <2>4
  <2>6. ASSUME NEW s \in Side
        PROVE  Keeps(game[s], X[s]) /\ X[s].op = game[s].op
    BY <2>2, <2>4, <2>6
  <2>7. X[v].funds = game[v].funds /\ X[a].funds = h.funds
    BY <1>1, <2>4
  <2>8. Mint(a, w) = game[v].funds
    BY <1>8 DEF Mint, v
  <2> QED
    BY <2>1, <2>2, <2>5, <2>6, <2>7, <2>8 DEF G, v
<1> QED
  BY <1>6, <1>7, <1>8

-----------------------------------------------------------------------------
(* The invariant at the start and at the steps of a tick.                  *)

\* The facts on types every step starts from.
LEMMA TypedFacts ==
    ASSUME Typed
    PROVE  /\ game \in [Side -> GameType]
           /\ \A s \in Side :
                /\ game[s] \in GameType
                /\ game[s].lines \in Nat /\ game[s].op \in Nat
                /\ game[s].funds \in Int /\ game[s].events \in Seq(Event)
                /\ game[s].over \in BOOLEAN
                /\ Other(s) \in Side /\ Other(s) # s /\ Other(Other(s)) = s
BY DEF Typed, GameType, Other, Side

\* The balance books after a step: one game pays or owes what the ledger
\* gained, the relay's queue owes tax less, and the other game only may have
\* gone on owing what it owed.
LEMMA BalancedStep ==
    ASSUME Typed, Typed', Balanced,
           NEW s \in Side, NEW paid \in Int, NEW tax \in Int,
           \A a \in Int :
              Owes(game[s].events, a) /\ (~Loose(s) => a = 0) =>
              \E b \in Int : /\ Owes(game'[s].events, b) /\ (~Loose(s)' => b = 0)
                             /\ game'[s].funds + b = game[s].funds + a + paid,
           \A a \in Int : Owes(game[Other(s)].events, a) => Owes(game'[Other(s)].events, a),
           game'[Other(s)].funds = game[Other(s)].funds,
           Loose(Other(s)) => Loose(Other(s))',
           \A c \in Int : Owes(taken, c) => Owes(taken', c - tax),
           ledger' = ledger + paid - tax
    PROVE  Balanced'
<1> DEFINE o == Other(s)
<1>1. PICK owed \in [Side -> Int], c \in Int :
        /\ \A x \in Side : Owes(game[x].events, owed[x]) /\ (~Loose(x) => owed[x] = 0)
        /\ Owes(taken, c)
        /\ game["A"].funds + game["B"].funds + owed["A"] + owed["B"] + c = ledger
  BY DEF Balanced
<1>2. o \in Side /\ o # s /\ Side = {s, o}
  BY DEF Other, Side
<1>3. PICK b \in Int : /\ Owes(game'[s].events, b) /\ (~Loose(s)' => b = 0)
                       /\ game'[s].funds + b = game[s].funds + owed[s] + paid
  BY <1>1
<1> DEFINE owed2 == [x \in Side |-> IF x = s THEN b ELSE owed[x]]
<1>4. owed2 \in [Side -> Int] /\ owed2[s] = b /\ owed2[o] = owed[o]
  BY <1>1, <1>2, <1>3
<1> HIDE DEF owed2
<1>5. \A x \in Side : Owes(game'[x].events, owed2[x]) /\ (~Loose(x)' => owed2[x] = 0)
  <2>1. Owes(game'[s].events, owed2[s]) /\ (~Loose(s)' => owed2[s] = 0)
    BY <1>3, <1>4
  <2>2. Owes(game'[o].events, owed2[o]) /\ (~Loose(o)' => owed2[o] = 0)
    <3>1. owed[o] \in Int
      BY <1>1, <1>2
    <3>2. Owes(game[o].events, owed[o]) /\ (~Loose(o) => owed[o] = 0)
      BY <1>1, <1>2
    <3>3. Owes(game'[o].events, owed[o])
      BY <3>1, <3>2
    <3> QED
      BY <1>4, <3>2, <3>3
  <2>3. ASSUME NEW x \in Side
        PROVE  Owes(game'[x].events, owed2[x]) /\ (~Loose(x)' => owed2[x] = 0)
    <3>1. x = s \/ x = o
      BY <1>2
    <3>2. CASE x = s
      BY <2>1, <3>2
    <3>3. CASE x = o
      BY <2>2, <3>3
    <3> QED
      BY <3>1, <3>2, <3>3
  <2> QED
    BY <2>3
<1>6. c - tax \in Int /\ Owes(taken', c - tax)
  BY <1>1
<1>7. game'["A"].funds + game'["B"].funds + owed2["A"] + owed2["B"] + (c - tax) = ledger'
  <2>1. /\ game["A"].funds \in Int /\ game["B"].funds \in Int
        /\ game'["A"].funds \in Int /\ game'["B"].funds \in Int
        /\ owed["A"] \in Int /\ owed["B"] \in Int /\ ledger \in Int
    BY <1>1 DEF Typed, GameType, Side
  <2>2. game'[o].funds = game[o].funds
    OBVIOUS
  <2>3. \/ s = "A" /\ o = "B"
        \/ s = "B" /\ o = "A"
    BY DEF Side, Other
  <2> HIDE DEF o
  <2>4. CASE s = "A" /\ o = "B"
    <3>1. game'["A"].funds + b = game["A"].funds + owed["A"] + paid
      BY <1>3, <2>4
    <3>2. game'["B"].funds = game["B"].funds /\ owed2["A"] = b /\ owed2["B"] = owed["B"]
      BY <1>4, <2>2, <2>4
    <3> QED
      BY <1>1, <2>1, <3>1, <3>2
  <2>5. CASE s = "B" /\ o = "A"
    <3>1. game'["B"].funds + b = game["B"].funds + owed["B"] + paid
      BY <1>3, <2>5
    <3>2. game'["A"].funds = game["A"].funds /\ owed2["B"] = b /\ owed2["A"] = owed["A"]
      BY <1>4, <2>2, <2>5
    <3> QED
      BY <1>1, <2>1, <3>1, <3>2
  <2> QED
    BY <2>3, <2>4, <2>5
<1> QED
  BY <1>4, <1>5, <1>6, <1>7 DEF Balanced

\* The match starts with nothing earned, nothing on its way and no verdict.
LEMMA VInit == Init => VInv
<1> SUFFICES ASSUME Init PROVE VInv
  OBVIOUS
<1>1. NewGame \in GameType
  <2>1. <<>> \in Seq(Weapon) /\ <<>> \in Seq(Event)
    BY EmptySeq
  <2>2. LinesTilBaz \in 1 .. LinesTilBaz
    BY VersusAssumption
  <2>3. {} \in SUBSET Weapon /\ [w \in Weapon |-> 0] \in [Weapon -> Nat]
    OBVIOUS
  <2> QED
    BY <2>1, <2>2, <2>3 DEF NewGame, GameType
<1>2. Typed
  <2>1. <<>> \in Seq(Event)
    BY EmptySeq
  <2> QED
    BY <1>1, <2>1 DEF Init, Typed, Side
<1>3. \A s \in Side : game[s] = NewGame /\ ~Loose(s) /\ ~Relayed(s)
  BY DEF Init, Loose, Relayed
<1>4. \A s \in Side : Counted(game[s])
  BY <1>3, VersusAssumption DEF Counted, NewGame
<1>5. \A s \in Side : Mirrored(s)
  <2>1. Level(<<>>, 0)
    BY EmptyQueue
  <2> QED
    BY <1>3, <2>1 DEF Mirrored, NewGame, Other, Side
<1>6. Balanced
  <2> DEFINE owed == [s \in Side |-> 0]
  <2>1. owed \in [Side -> Int] /\ owed["A"] = 0 /\ owed["B"] = 0
    BY DEF Side
  <2>2. \A s \in Side : Owes(game[s].events, owed[s]) /\ (~Loose(s) => owed[s] = 0)
    BY <1>3, EmptyQueue DEF NewGame
  <2>3. Owes(taken, 0)
    BY EmptyQueue DEF Init
  <2>4. game["A"].funds + game["B"].funds + owed["A"] + owed["B"] + 0 = ledger
    BY <1>3, <2>1 DEF Init, NewGame, Side
  <2> HIDE DEF owed
  <2> QED
    BY <2>1, <2>2, <2>3, <2>4 DEF Balanced
<1>7. Judged /\ VerdictIsFirst
  BY <1>3 DEF Init, Judged, VerdictIsFirst, NewGame, Side
<1> QED
  BY <1>2, <1>4, <1>5, <1>6, <1>7 DEF VInv

\* An input or a grant changes one side's money, stock or queue of launches.
LEMMA InputStep ==
    ASSUME VInv, Between, NEW s \in Side, NEW h, NEW paid \in Int,
           Keeps(game[s], h), h.op = game[s].op, h.funds = game[s].funds + paid,
           Set(s, h), ledger' = ledger + paid, UNCHANGED <<result, pc, turn, taken>>
    PROVE  VInv'
<1> DEFINE o == Other(s)
<1>1. /\ Typed /\ Balanced /\ \A x \in Side : Counted(game[x]) /\ Mirrored(x)
      /\ Judged /\ VerdictIsFirst
  BY DEF VInv
<1>2. o \in Side /\ o # s /\ Other(o) = s /\ Side = {s, o}
  BY DEF Other, Side
<1>3. h \in GameType /\ Counted(h)
  BY DEF Keeps
<1>4. game' = [game EXCEPT ![s] = h]
  BY DEF Set
<1>5. game' \in [Side -> GameType] /\ game'[s] = h /\ game'[o] = game[o]
  BY <1>1, <1>2, <1>3, <1>4, TypedFacts
<1>6. Typed'
  <2>1. ledger' \in Int
    BY <1>1 DEF Typed
  <2> QED
    BY <1>1, <1>5, <2>1 DEF Typed
<1>7. \A x \in Side : ~Loose(x) /\ ~Relayed(x) /\ ~Loose(x)' /\ ~Relayed(x)'
  BY DEF Between, Loose, Relayed
<1>8. \A x \in Side : Counted(game[x])'
  BY <1>1, <1>2, <1>3, <1>5 DEF Counted
<1>9. \A x \in Side : Mirrored(x)'
  <2>1. \A x \in Side : game'[x].lines = game[x].lines /\ game'[x].op = game[x].op
    BY <1>2, <1>5 DEF Keeps
  <2>2. \A x \in Side : Level(game[x].events, game[x].lines)
                        /\ game[Other(x)].op = game[x].lines
    BY <1>1, <1>7 DEF Mirrored
  <2>3. \A x \in Side : Level(game'[x].events, game'[x].lines)
    BY <1>2, <1>5, <2>1, <2>2 DEF Keeps
  <2>4. \A x \in Side : game'[Other(x)].op = game'[x].lines
    BY <1>1, <2>1, <2>2, TypedFacts
  <2> QED
    BY <1>7, <2>3, <2>4 DEF Mirrored
<1>10. Balanced'
  <2>1. game[s].funds \in Int
    BY <1>1, TypedFacts
  <2>2. ASSUME NEW a \in Int, Owes(game[s].events, a) /\ (~Loose(s) => a = 0)
        PROVE  \E b \in Int : /\ Owes(game'[s].events, b) /\ (~Loose(s)' => b = 0)
                              /\ game'[s].funds + b = game[s].funds + a + paid
    <3>1. Owes(game'[s].events, a)
      BY <1>5, <2>2 DEF Keeps
    <3>2. game'[s].funds = game[s].funds + paid
      BY <1>5
    <3>3. game'[s].funds + a = game[s].funds + a + paid
      BY <2>1, <3>2
    <3> QED
      BY <1>7, <2>2, <3>1, <3>3
  <2>3. \A c \in Int : Owes(taken, c) => Owes(taken', c - 0)
    OBVIOUS
  <2>4. ledger' = ledger + paid - 0
    BY <1>1 DEF Typed
  <2> QED
    BY <1>1, <1>2, <1>5, <1>6, <1>7, <2>2, <2>3, <2>4, BalancedStep
<1>11. \A x \in Side : game'[x].over = game[x].over
  BY <1>2, <1>5 DEF Keeps
<1>12. Judged' /\ VerdictIsFirst'
  <2>1. pc = "inputs" /\ pc' = "inputs" /\ result' = result
    BY DEF Between
  <2>2. Judged'
    BY <1>7, <2>1 DEF Judged
  <2>3. VerdictIsFirst'
    BY <1>1, <1>11, <2>1 DEF VerdictIsFirst, Side
  <2> QED
    BY <2>2, <2>3
<1> QED
  BY <1>6, <1>8, <1>9, <1>10, <1>12 DEF VInv

\* The inputs of two players and the admin's grants.
LEMMA VInput ==
    ASSUME VInv, NEW s \in Side, NEW w \in Weapon,
           Launch(s, w) \/ Buy(s, w) \/ Sell(s, w) \/ Grant(s, w, RowFunds)
    PROVE  VInv'
<1> DEFINE g == game[s]
<1>1. /\ Typed /\ g \in GameType /\ Counted(g)
      /\ g.funds \in Int /\ g.lines \in Nat /\ g.events \in Seq(Event)
  BY TypedFacts DEF VInv
<1>2. g.arsenal \in [Weapon -> Nat] /\ ledger \in Int
  BY <1>1 DEF GameType, Typed
<1> HIDE DEF g
<1>3. /\ RowFunds \in Int
      /\ EffectivePrice(g, w) \in Int
  <2>1. Price[w] \in Nat /\ 2 * Price[w] \in Nat /\ RowFunds \in Nat
    BY VersusAssumption
  <2> QED
    BY <2>1 DEF EffectivePrice
<1>4. ASSUME NEW n \in Nat
      PROVE  /\ [g.arsenal EXCEPT ![w] = n] \in [Weapon -> Nat]
             /\ [g EXCEPT !.arsenal[w] = n] \in GameType
             /\ SameCount(g, [g EXCEPT !.arsenal[w] = n])
             /\ [g EXCEPT !.arsenal[w] = n].events = g.events
             /\ [g EXCEPT !.arsenal[w] = n].funds = g.funds
  <2>1. [g.arsenal EXCEPT ![w] = n] \in [Weapon -> Nat]
    BY <1>2
  <2>2. [g EXCEPT !.arsenal[w] = n] = [g EXCEPT !.arsenal = [g.arsenal EXCEPT ![w] = n]]
    BY <1>1 DEF GameType
  <2> QED
    BY <1>1, <2>1, <2>2 DEF GameType, SameCount
<1>5. CASE Launch(s, w)
  <2> DEFINE c == [g EXCEPT !.arsenal[w] = g.arsenal[w] - 1]
             e == [kind |-> "Launched", weapon |-> w]
             h == [g EXCEPT !.arsenal[w] = @ - 1, !.events = Append(@, e)]
  <2>1. Between /\ Set(s, h) /\ g.arsenal[w] > 0
        /\ UNCHANGED <<result, pc, turn, taken, ledger>>
    BY <1>5 DEF Launch, g
  <2>2. g.arsenal[w] - 1 \in Nat
    BY <1>2, <2>1
  <2>3. e \in Event /\ e.kind = "Launched" /\ Amount(e) = 0
    BY EventMade DEF Amount
  <2>4. Append(g.events, e) \in Seq(Event)
    BY <1>1, <2>3, AppendProperties
  <2>5. c \in GameType /\ SameCount(g, c) /\ c.funds = g.funds
    BY <1>4, <2>2
  <2>6. h = [c EXCEPT !.events = Append(g.events, e)]
    BY <1>1 DEF GameType
  <2> HIDE DEF c, e, h
  <2>7. h \in GameType /\ SameCount(c, h) /\ h.funds = c.funds
        /\ h.events = Append(g.events, e)
    BY <2>4, <2>5, <2>6 DEF GameType, SameCount
  <2>8. SameCount(g, h) /\ h.funds = g.funds
    BY <2>5, <2>7 DEF SameCount
  <2>9. Counted(h) /\ h.lines = g.lines /\ h.over = g.over /\ h.op = g.op
    BY <1>1, <2>8 DEF SameCount, Counted
  <2>10. ASSUME NEW v \in Nat, Chain(v, g.events, g.lines)
         PROVE  Chain(v, h.events, g.lines)
    BY <1>1, <2>3, <2>7, <2>10, ChainAppend
  <2>11. Level(g.events, g.lines) => Level(h.events, g.lines)
    BY <1>1, <2>3, <2>7, LevelAppend
  <2>12. ASSUME NEW a \in Int, Owes(g.events, a)
         PROVE  Owes(h.events, a)
    <3>1. Owes(h.events, a + 0)
      BY <1>1, <2>3, <2>7, <2>12, OwesAppend
    <3>2. a + 0 = a
      OBVIOUS
    <3> QED
      BY <3>1, <3>2
  <2>13. HasOver(h.events) <=> HasOver(g.events)
    BY <1>1, <2>3, <2>7, OverAppend
  <2>14. Keeps(g, h)
    BY <2>7, <2>9, <2>10, <2>11, <2>12, <2>13 DEF Keeps
  <2>15. h.funds = g.funds + 0 /\ ledger' = ledger + 0
    BY <1>1, <1>2, <2>1, <2>8
  <2> QED
    BY <2>1, <2>9, <2>14, <2>15, InputStep DEF g
<1>6. CASE Buy(s, w)
  <2> DEFINE price == EffectivePrice(g, w)
             c == [g EXCEPT !.arsenal[w] = g.arsenal[w] + 1]
             h == [g EXCEPT !.arsenal[w] = @ + 1, !.funds = @ - price]
  <2>1. Between /\ Set(s, h) /\ ledger' = ledger - price
        /\ UNCHANGED <<result, pc, turn, taken>>
    BY <1>6 DEF Buy, g
  <2>2. g.arsenal[w] + 1 \in Nat /\ price \in Int
    BY <1>2, <1>3
  <2>3. c \in GameType /\ SameCount(g, c) /\ c.funds = g.funds /\ c.events = g.events
    BY <1>4, <2>2
  <2>4. h = [c EXCEPT !.funds = g.funds - price]
    BY <1>1 DEF GameType
  <2> HIDE DEF c, h, price
  <2>5. g.funds - price \in Int
    BY <1>1, <2>2
  <2>6. h \in GameType /\ SameCount(c, h) /\ h.events = c.events
        /\ h.funds = g.funds - price
    BY <2>3, <2>4, <2>5, FundsType
  <2>7. SameCount(g, h) /\ h.op = g.op
    BY <2>3, <2>6 DEF SameCount
  <2>8. Keeps(g, h)
    BY <1>1, <2>3, <2>6, <2>7, SameKeeps
  <2>9. -price \in Int /\ h.funds = g.funds + (-price) /\ ledger' = ledger + (-price)
    BY <1>1, <1>2, <2>1, <2>2, <2>6
  <2> QED
    BY <2>1, <2>7, <2>8, <2>9, InputStep DEF g
<1>7. CASE Sell(s, w)
  <2> DEFINE price == EffectivePrice(g, w)
             c == [g EXCEPT !.arsenal[w] = g.arsenal[w] - 1]
             h == [g EXCEPT !.arsenal[w] = @ - 1, !.funds = @ + price]
  <2>1. Between /\ Set(s, h) /\ ledger' = ledger + price /\ g.arsenal[w] > 0
        /\ UNCHANGED <<result, pc, turn, taken>>
    BY <1>7 DEF Sell, g
  <2>2. g.arsenal[w] - 1 \in Nat /\ price \in Int
    BY <1>2, <1>3, <2>1
  <2>3. c \in GameType /\ SameCount(g, c) /\ c.funds = g.funds /\ c.events = g.events
    BY <1>4, <2>2
  <2>4. h = [c EXCEPT !.funds = g.funds + price]
    BY <1>1 DEF GameType
  <2> HIDE DEF c, h, price
  <2>5. g.funds + price \in Int
    BY <1>1, <2>2
  <2>6. h \in GameType /\ SameCount(c, h) /\ h.events = c.events
        /\ h.funds = g.funds + price
    BY <2>3, <2>4, <2>5, FundsType
  <2>7. SameCount(g, h) /\ h.op = g.op
    BY <2>3, <2>6 DEF SameCount
  <2>8. Keeps(g, h)
    BY <1>1, <2>3, <2>6, <2>7, SameKeeps
  <2> QED
    BY <2>1, <2>2, <2>6, <2>7, <2>8, InputStep DEF g
<1>8. CASE Grant(s, w, RowFunds)
  <2> DEFINE c == [g EXCEPT !.arsenal[w] = g.arsenal[w] + 1]
             h == AddFunds(c, RowFunds)
  <2>1. Between /\ Set(s, h) /\ ledger' = ledger + RowFunds
        /\ UNCHANGED <<result, pc, turn, taken>>
    BY <1>8 DEF Grant, g
  <2>2. g.arsenal[w] + 1 \in Nat
    BY <1>2
  <2>3. c \in GameType /\ SameCount(g, c) /\ c.funds = g.funds /\ c.events = g.events
    BY <1>4, <2>2
  <2> HIDE DEF c
  <2>4. Counted(c)
    BY <1>1, <2>3 DEF SameCount, Counted
  <2>5. Keeps(c, h) /\ h.op = c.op /\ h.funds = c.funds + RowFunds
    BY <1>3, <2>3, <2>4, AddFundsKeeps
  <2> HIDE DEF h
  <2>6. Keeps(g, h) /\ h.op = g.op /\ h.funds = g.funds + RowFunds
    BY <2>3, <2>5 DEF Keeps, SameCount
  <2> QED
    BY <1>3, <2>1, <2>6, InputStep DEF g
<1> QED
  BY <1>5, <1>6, <1>7, <1>8

\* Leaving the bazaar.
LEMMA VLeaveBazaar ==
    ASSUME VInv, NEW s \in Side, LeaveBazaar(s)
    PROVE  VInv'
<1> DEFINE g == game[s]
           h == [g EXCEPT !.shopping = FALSE]
<1>1. Typed /\ g \in GameType /\ Counted(g) /\ g.funds \in Int
  BY TypedFacts DEF VInv
<1>2. h \in GameType /\ SameCount(g, h) /\ h.events = g.events /\ h.funds = g.funds
  BY <1>1 DEF GameType, SameCount
<1>3. Between /\ Set(s, h) /\ UNCHANGED <<result, pc, turn, taken, ledger>>
  BY DEF LeaveBazaar
<1> HIDE DEF g, h
<1>4. Keeps(g, h) /\ h.op = g.op
  BY <1>1, <1>2, SameKeeps DEF SameCount
<1>5. h.funds = g.funds + 0 /\ ledger' = ledger + 0
  BY <1>1, <1>2, <1>3 DEF Typed
<1> QED
  BY <1>3, <1>4, <1>5, InputStep DEF g

\* A step of the tick that moves no game: what it lets loose was level, and
\* what it settles has been relayed to the end.
LEMMA IdleStep ==
    ASSUME VInv, UNCHANGED <<game, result, taken, ledger>>,
           turn' \in Side, pc' \in {"inputs", "move", "take"}, taken = <<>>,
           pc' = "inputs" => turn' = "A",
           \A x \in Side : Loose(x) => Loose(x)'
    PROVE  /\ Typed' /\ Balanced'
           /\ \A x \in Side : Counted(game[x])' /\ Mirrored(x)'
<1>1. /\ Typed /\ Balanced /\ \A x \in Side : Counted(game[x]) /\ Mirrored(x)
  BY DEF VInv
<1>2. Typed'
  BY <1>1 DEF Typed
<1>3. ASSUME NEW x \in Side
      PROVE  Counted(game[x])'
  BY <1>1 DEF Counted
<1>4. ASSUME NEW x \in Side
      PROVE  Mirrored(x)'
  <2> DEFINE q == game[x].events
             l == game[x].lines
             k == game[Other(x)].op
  <2>1. q \in Seq(Event) /\ l \in Nat /\ k \in Nat
    BY <1>1, TypedFacts
  <2>2. Mirrored(x)
    BY <1>1
  <2>3. ~Relayed(x)'
    BY DEF Relayed
  <2>4. CASE Loose(x)
    <3>1. Chain(k, q, l)
      BY <2>2, <2>4 DEF Mirrored
    <3> QED
      BY <2>3, <2>4, <3>1 DEF Mirrored
  <2>5. CASE ~Loose(x)
    <3>1. Level(q, l)
      BY <2>2, <2>5 DEF Mirrored
    <3>2. k = l
      <4>1. CASE Relayed(x)
        <5>1. Chain(k, <<>>, l)
          BY <2>2, <4>1 DEF Mirrored
        <5> HIDE DEF k, l
        <5> QED
          BY <2>1, <5>1, ChainEmpty
      <4>2. CASE ~Relayed(x)
        BY <2>2, <2>5, <4>2 DEF Mirrored
      <4> QED
        BY <4>1, <4>2
    <3>3. Chain(k, q, l)
      BY <2>1, <3>1, <3>2, LevelChain
    <3> QED
      BY <2>3, <3>1, <3>2, <3>3 DEF Mirrored
  <2> QED
    BY <2>4, <2>5
<1>5. Balanced'
  <2>1. "A" \in Side /\ game["A"].funds \in Int
    BY <1>1, TypedFacts DEF Side
  <2>0. PICK none \in Int : none = 0
    OBVIOUS
  <2>2. \A a \in Int : Owes(game["A"].events, a) /\ (~Loose("A") => a = 0) =>
           \E b \in Int : /\ Owes(game'["A"].events, b) /\ (~Loose("A")' => b = 0)
                          /\ game'["A"].funds + b = game["A"].funds + a + none
    <3> SUFFICES ASSUME NEW a \in Int, Owes(game["A"].events, a), ~Loose("A") => a = 0
                 PROVE  /\ Owes(game'["A"].events, a) /\ (~Loose("A")' => a = 0)
                        /\ game'["A"].funds + a = game["A"].funds + a + none
      OBVIOUS
    <3>1. game'["A"].funds + a = game["A"].funds + a + none
      BY <2>0, <2>1
    <3> QED
      BY <2>1, <3>1
  <2>3. \A c \in Int : Owes(taken, c) => Owes(taken', c - none)
    <3>1. \A c \in Int : c - none = c
      BY <2>0
    <3> QED
      BY <3>1
  <2>4. ledger' = ledger + none - none
    BY <1>1, <2>0 DEF Typed
  <2>5. /\ Other("A") \in Side
        /\ game'[Other("A")].funds = game[Other("A")].funds
        /\ \A a \in Int : Owes(game[Other("A")].events, a)
                           => Owes(game'[Other("A")].events, a)
        /\ Loose(Other("A")) => Loose(Other("A"))'
    BY DEF Side, Other
  <2>6. Balanced
    BY DEF VInv
  <2> QED
    BY <1>1, <1>2, <2>0, <2>1, <2>2, <2>3, <2>4, <2>5, <2>6, BalancedStep
<1> QED
  BY <1>2, <1>3, <1>4, <1>5

\* What a queue that is not loose cannot hold.
LEMMA SettledNotOver ==
    ASSUME VInv, NEW x \in Side, ~Loose(x)
    PROVE  ~HasOver(game[x].events)
<1>1. Level(game[x].events, game[x].lines)
  BY DEF VInv, Mirrored
<1> QED
  BY <1>1, LevelNotOver

\* Versus::tick starts, with both sides moving or both shopping.
LEMMA VTick ==
    ASSUME VInv, Tick
    PROVE  VInv'
<1>1. /\ pc = "inputs" /\ result = "none" /\ turn' = "A"
      /\ pc' \in {"move", "take"} /\ UNCHANGED <<game, result, taken, ledger>>
  BY DEF Tick, Between
<1>2. taken = <<>> /\ turn' \in Side
  BY <1>1 DEF VInv, Typed, Side
<1>3. \A x \in Side : ~Loose(x)
  BY <1>1 DEF Loose
<1>4. /\ Typed' /\ Balanced' /\ \A x \in Side : Counted(game[x])' /\ Mirrored(x)'
  BY <1>1, <1>2, <1>3, IdleStep
<1>5. ~game["A"].over /\ ~game["B"].over
  BY <1>1 DEF VInv, VerdictIsFirst
<1>6. \A x \in Side : ~HasOver(game[x].events)
  BY <1>3, SettledNotOver
<1>7. Judged' /\ VerdictIsFirst'
  BY <1>1, <1>5, <1>6 DEF Judged, VerdictIsFirst, Side
<1> QED
  BY <1>4, <1>7 DEF VInv

\* A side whose piece goes on falling.
LEMMA VFall ==
    ASSUME VInv, Fall
    PROVE  VInv'
<1>1. /\ pc = "move" /\ UNCHANGED <<game, result, taken, ledger>>
      /\ turn' = Other(turn) /\ pc' = IF turn = "A" THEN "move" ELSE "take"
  BY DEF Fall, NextSide
<1>2. taken = <<>> /\ turn \in Side /\ turn' \in Side /\ pc' \in {"move", "take"}
  BY <1>1, TypedFacts DEF VInv, Typed
<1>3. \A x \in Side : Loose(x) => Loose(x)'
  BY <1>1, <1>2 DEF Loose, Other, Side
<1>4. /\ Typed' /\ Balanced' /\ \A x \in Side : Counted(game[x])' /\ Mirrored(x)'
  BY <1>1, <1>2, <1>3, IdleStep
<1>5. result = "none" /\ ~game[turn].over /\ ~game["B"].over
  BY <1>1 DEF VInv, Judged
<1>6. ASSUME NEW x \in Side, Loose(x)'
      PROVE  game[x].over <=> HasOver(game[x].events)
  <2>1. CASE Loose(x)
    BY <2>1 DEF VInv, Judged
  <2>2. CASE ~Loose(x)
    <3>1. ~HasOver(game[x].events)
      BY <2>2, SettledNotOver
    <3>2. ~game[x].over
      BY <1>1, <1>2, <1>5, <1>6, <2>2 DEF Loose, Other, Side
    <3> QED
      BY <3>1, <3>2
  <2> QED
    BY <2>1, <2>2
<1>7. Judged'
  <2>1. \A x \in Side : Loose(x)' => (game'[x].over <=> HasOver(game'[x].events))
    BY <1>1, <1>6
  <2>2. CASE turn = "A"
    <3>1. pc' = "move" /\ turn' = "B"
      BY <1>1, <2>2 DEF Other
    <3> QED
      BY <1>1, <1>5, <2>1, <3>1 DEF Judged
  <2>3. CASE turn = "B"
    <3>1. pc' = "take" /\ turn' = "A"
      BY <1>1, <2>3 DEF Other
    <3> QED
      BY <1>1, <1>5, <2>1, <3>1 DEF Judged
  <2> QED
    BY <1>2, <2>2, <2>3 DEF Side
<1>8. VerdictIsFirst'
  BY <1>2 DEF VerdictIsFirst
<1> QED
  BY <1>4, <1>7, <1>8 DEF VInv

\* A lock, or a weapon taking effect: the side's new rows and its taxes are
\* loose until the relay has carried them.
LEMMA MoveStep ==
    ASSUME VInv, pc \in {"move", "flush"}, pc' = "flush",
           NEW h, NEW rows \in Nat, NEW paid \in Int,
           Effect(game[turn], h, rows, paid), Set(turn, h),
           ledger' = ledger + paid, UNCHANGED <<result, turn, taken>>
    PROVE  VInv'
<1> DEFINE s == turn
           o == Other(s)
           g == game[s]
<1>1. /\ Typed /\ Balanced /\ Judged /\ \A x \in Side : Counted(game[x]) /\ Mirrored(x)
  BY DEF VInv
<1>2. /\ s \in Side /\ o \in Side /\ o # s /\ Other(o) = s /\ Side = {s, o}
  BY <1>1 DEF Typed, Other, Side
<1>3. h \in GameType /\ Counted(h) /\ h.op = g.op /\ h.over = g.over
  BY DEF Effect
<1>4. game' = [game EXCEPT ![s] = h]
  BY DEF Set
<1>5. game' \in [Side -> GameType] /\ game'[s] = h /\ game'[o] = game[o]
  BY <1>1, <1>2, <1>3, <1>4, TypedFacts
<1>6. taken = <<>> /\ result = "none" /\ ~g.over /\ ~game["B"].over
  BY <1>1 DEF Typed, Judged
<1>7. Typed'
  <2>1. ledger' \in Int
    BY <1>1 DEF Typed
  <2> QED
    BY <1>1, <1>5, <1>6, <2>1 DEF Typed
<1>8. /\ Loose(s)' /\ (Loose(o)' <=> Loose(o))
      /\ \A x \in Side : ~Relayed(x) /\ ~Relayed(x)'
  BY <1>2 DEF Loose, Relayed, Side, Other
<1>9. \A x \in Side : Counted(game[x])'
  BY <1>1, <1>2, <1>3, <1>5 DEF Counted
<1>10. Chain(game[o].op, g.events, g.lines)
  <2>1. g.events \in Seq(Event) /\ g.lines \in Nat
    BY <1>1, <1>2, TypedFacts
  <2>2. Mirrored(s)
    BY <1>1, <1>2
  <2>3. CASE Loose(s)
    BY <2>2, <2>3 DEF Mirrored
  <2>4. CASE ~Loose(s)
    <3>1. Level(g.events, g.lines) /\ game[o].op = g.lines
      BY <1>2, <1>8, <2>2, <2>4 DEF Mirrored
    <3> QED
      BY <2>1, <3>1, LevelChain
  <2> QED
    BY <2>3, <2>4
<1>11. Mirrored(s)'
  <2>1. game[o].op \in Nat
    BY <1>1, <1>2, TypedFacts
  <2>2. Chain(game[o].op, h.events, h.lines)
    BY <1>10, <2>1 DEF Effect
  <2> QED
    BY <1>2, <1>5, <1>8, <2>2 DEF Mirrored
<1>12. Mirrored(o)'
  <2>1. Mirrored(o)
    BY <1>1, <1>2
  <2>2. game'[s].op = game[s].op
    BY <1>3, <1>5
  <2> QED
    BY <1>2, <1>5, <1>8, <2>1, <2>2 DEF Mirrored
<1>13. Balanced'
  <2>1. ASSUME NEW a \in Int, Owes(game[s].events, a) /\ (~Loose(s) => a = 0)
        PROVE  \E b \in Int : /\ Owes(game'[s].events, b) /\ (~Loose(s)' => b = 0)
                              /\ game'[s].funds + b = game[s].funds + a + paid
    <3>1. PICK b \in Int : Owes(h.events, b) /\ h.funds + b = g.funds + a + paid
      BY <2>1 DEF Effect
    <3> QED
      BY <1>5, <1>8, <3>1
  <2>2. \A c \in Int : Owes(taken, c) => Owes(taken', c - 0)
    OBVIOUS
  <2>3. ledger' = ledger + paid - 0
    BY <1>1 DEF Typed
  <2> QED
    BY <1>1, <1>2, <1>5, <1>7, <1>8, <2>1, <2>2, <2>3, BalancedStep
<1>14. \A x \in Side : Loose(x)' => (game'[x].over <=> HasOver(game'[x].events))
  <2>1. HasOver(h.events) <=> HasOver(g.events)
    BY DEF Effect
  <2>2. ~HasOver(g.events)
    <3>1. CASE Loose(s)
      BY <1>1, <1>2, <1>6, <3>1 DEF Judged
    <3>2. CASE ~Loose(s)
      BY <1>2, <3>2, SettledNotOver
    <3> QED
      BY <3>1, <3>2
  <2>3. game'[s].over <=> HasOver(game'[s].events)
    BY <1>3, <1>5, <1>6, <2>1, <2>2
  <2>4. Loose(o)' => (game'[o].over <=> HasOver(game'[o].events))
    BY <1>1, <1>2, <1>5, <1>8 DEF Judged
  <2> QED
    BY <1>2, <2>3, <2>4
<1>15. Judged'
  <2>1. ~game'[s].over
    BY <1>3, <1>5, <1>6
  <2>2. ~game'["B"].over
    <3>1. CASE s = "B"
      BY <2>1, <3>1
    <3>2. CASE o = "B"
      BY <1>5, <1>6, <3>2
    <3> QED
      BY <1>2, <3>1, <3>2 DEF Side, Other
  <2> QED
    BY <1>6, <1>14, <2>1, <2>2 DEF Judged
<1>16. \A x \in Side : Mirrored(x)'
  BY <1>2, <1>11, <1>12
<1>17. VerdictIsFirst'
  BY DEF VerdictIsFirst
<1> QED
  BY <1>7, <1>9, <1>13, <1>15, <1>16, <1>17 DEF VInv

\* place.
LEMMA VLock ==
    ASSUME VInv, NEW n \in 0 .. MaxClear, Lock(n)
    PROVE  VInv'
<1> DEFINE h == Scored(Clear(game[turn], n))
<1>1. /\ pc = "move" /\ Set(turn, h) /\ ledger' = ledger + n * RowFunds
      /\ pc' = "flush" /\ UNCHANGED <<result, turn, taken>>
  BY DEF Lock
<1>2. turn \in Side /\ game[turn] \in GameType /\ Counted(game[turn])
  BY TypedFacts DEF VInv, Typed
<1>3. Effect(game[turn], h, n, n * RowFunds)
  BY <1>2, LockEffect
<1>4. n \in Nat /\ n * RowFunds \in Int
  BY VersusAssumption
<1> HIDE DEF h
<1> QED
  BY <1>1, <1>3, <1>4, MoveStep

\* flush_pending.
LEMMA VFlushPending ==
    ASSUME VInv, NEW n \in 0 .. MaxClear, FlushPending(n)
    PROVE  VInv'
<1> DEFINE g == game[turn]
           w == Head(g.pending)
           g1 == [g EXCEPT !.pending = Tail(@)]
           h == Activate(g1, w, n)
           paid == Toll(g, w, n)
<1>1. turn \in Side /\ g \in GameType /\ Counted(g) /\ g.funds \in Int
  BY TypedFacts DEF VInv, Typed
<1> HIDE DEF g
<1>2. /\ pc = "flush" /\ g.pending # <<>> /\ (n > 0 => w = "Bottle")
      /\ Set(turn, h) /\ ledger' = ledger + paid
      /\ UNCHANGED <<result, pc, turn, taken>>
  BY DEF FlushPending, Toll, g
<1>3. w \in Weapon /\ Tail(g.pending) \in Seq(Weapon)
  <2>1. g.pending \in Seq(Weapon)
    BY <1>1 DEF GameType
  <2> QED
    BY <1>2, <2>1, HeadTailProperties
<1>4. g1 = [g EXCEPT !.pending = Tail(g.pending)]
  BY <1>1 DEF GameType
<1> HIDE DEF g1, h, w, paid
<1>5. g1 \in GameType /\ SameCount(g, g1) /\ g1.events = g.events /\ g1.funds = g.funds
  BY <1>1, <1>3, <1>4 DEF GameType, SameCount
<1>6. Counted(g1)
  BY <1>1, <1>5 DEF Counted, SameCount
<1>7. Effect(g1, h, n, Toll(g1, w, n))
  BY <1>2, <1>3, <1>5, <1>6, ActivateEffect DEF h
<1>8. Toll(g1, w, n) = paid
  BY <1>5 DEF Toll, paid
<1>9. Effect(g, h, n, paid)
  BY <1>5, <1>7, <1>8 DEF Effect, SameCount
<1>10. n \in Nat /\ paid \in Int
  BY <1>1, VersusAssumption DEF paid, Toll
<1> QED
  BY <1>2, <1>9, <1>10, MoveStep DEF g

\* spawn: the next piece, or the top-out and its event.
LEMMA VSpawn ==
    ASSUME VInv, NEW blocked \in BOOLEAN, Spawn(blocked)
    PROVE  VInv'
<1>0. PICK s \in Side : s = turn
  BY DEF VInv, Typed
<1> DEFINE o == Other(s)
           g == game[s]
           e == [kind |-> "GameOver"]
           h == IF blocked THEN [g EXCEPT !.over = TRUE, !.events = Append(@, e)] ELSE g
<1>1. /\ Typed /\ Balanced /\ Judged /\ \A x \in Side : Counted(game[x]) /\ Mirrored(x)
  BY DEF VInv
<1>2. /\ s \in Side /\ o \in Side /\ o # s /\ Other(o) = s /\ Side = {s, o}
  BY <1>1 DEF Other, Side
<1>3. /\ g \in GameType /\ g.events \in Seq(Event) /\ g.lines \in Nat
      /\ g.funds \in Int /\ Counted(g) /\ game \in [Side -> GameType]
  BY <1>1, <1>2, TypedFacts
<1> HIDE DEF g
<1>4. /\ pc = "flush" /\ game' = [game EXCEPT ![s] = h]
      /\ turn' = o /\ pc' = IF s = "A" THEN "move" ELSE "take"
      /\ turn = s /\ UNCHANGED <<result, taken, ledger>>
  BY <1>0, <1>2, <1>3 DEF Spawn, Set, NextSide, g
<1>5. /\ h \in GameType /\ h.lines = g.lines /\ h.op = g.op /\ h.til = g.til
      /\ h.visits = g.visits /\ h.funds = g.funds /\ h.over \in BOOLEAN
      /\ \/ h.events = g.events /\ h.over = g.over
         \/ h.events = Append(g.events, e) /\ h.over
  <2>1. Append(g.events, e) \in Seq(Event)
    BY <1>3, EventMade, AppendProperties
  <2>2. CASE blocked
    <3>1. h = [g EXCEPT !.over = TRUE, !.events = Append(g.events, e)]
      BY <1>3, <2>2 DEF GameType
    <3> HIDE DEF h, e
    <3> QED
      BY <1>3, <2>1, <3>1 DEF GameType
  <2>3. CASE ~blocked
    <3>1. h = g
      BY <2>3
    <3> HIDE DEF h
    <3> QED
      BY <1>3, <3>1 DEF GameType
  <2> QED
    BY <2>2, <2>3
<1>6. e \in Event /\ e.kind = "GameOver" /\ Amount(e) = 0
  BY EventMade DEF Amount
<1> HIDE DEF h, e
<1>7. game' \in [Side -> GameType] /\ game'[s] = h /\ game'[o] = game[o]
  BY <1>2, <1>3, <1>4, <1>5
<1>8. taken = <<>> /\ result = "none" /\ ~game["B"].over /\ ~g.over
      /\ (g.over <=> HasOver(g.events))
  <2>1. Loose(s)
    BY <1>4 DEF Loose
  <2> QED
    BY <1>1, <1>2, <1>4, <2>1 DEF Typed, Judged, g
<1>9. Typed'
  <2>1. pc' \in {"move", "take"}
    BY <1>4
  <2> QED
    BY <1>1, <1>2, <1>4, <1>7, <1>8, <2>1 DEF Typed
<1>10. \A x \in Side : (Loose(x)' <=> Loose(x)) /\ ~Relayed(x) /\ ~Relayed(x)'
  BY <1>2, <1>4 DEF Loose, Relayed, Side, Other
<1>11. Loose(s)
  BY <1>4 DEF Loose
<1>12. \A x \in Side : Counted(game[x])'
  <2>1. Counted(h)
    BY <1>3, <1>5 DEF Counted
  <2> QED
    BY <1>1, <1>2, <1>7, <2>1 DEF Counted
<1>13. Mirrored(s)'
  <2>1. game[o].op \in Nat
    BY <1>1, <1>2, TypedFacts
  <2>2. Chain(game[o].op, g.events, g.lines)
    BY <1>1, <1>2, <1>11 DEF Mirrored, g
  <2>3. Chain(game[o].op, h.events, g.lines)
    BY <1>3, <1>5, <1>6, <2>1, <2>2, ChainAppend
  <2> QED
    BY <1>2, <1>5, <1>7, <1>10, <1>11, <2>3 DEF Mirrored
<1>14. Mirrored(o)'
  <2>1. Mirrored(o) /\ game'[s].op = game[s].op
    BY <1>1, <1>2, <1>5, <1>7 DEF g
  <2> QED
    BY <1>2, <1>7, <1>10, <2>1 DEF Mirrored
<1>15. Balanced'
  <2>1. ASSUME NEW a \in Int, Owes(game[s].events, a) /\ (~Loose(s) => a = 0)
        PROVE  \E b \in Int : /\ Owes(game'[s].events, b) /\ (~Loose(s)' => b = 0)
                              /\ game'[s].funds + b = game[s].funds + a + 0
    <3>1. Owes(g.events, a) /\ a + 0 = a
      BY <2>1 DEF g
    <3>2. Owes(h.events, a)
      <4>1. Owes(Append(g.events, e), a)
        BY <1>3, <1>6, <3>1, OwesAppend
      <4> QED
        BY <1>5, <3>1, <4>1
    <3>3. h.funds + a = g.funds + a + 0
      BY <1>3, <1>5
    <3> QED
      BY <1>2, <1>7, <1>10, <1>11, <3>2, <3>3 DEF g
  <2>2. \A c \in Int : Owes(taken, c) => Owes(taken', c - 0)
    BY <1>4
  <2>3. ledger' = ledger + 0 - 0
    BY <1>1, <1>4 DEF Typed
  <2> QED
    BY <1>1, <1>2, <1>7, <1>9, <1>10, <2>1, <2>2, <2>3, BalancedStep
<1>16. \A x \in Side : Loose(x)' => (game'[x].over <=> HasOver(game'[x].events))
  <2>1. HasOver(Append(g.events, e))
    BY <1>3, <1>6, OverAppend
  <2>2. h.over <=> HasOver(h.events)
    BY <1>5, <1>8, <2>1
  <2>3. Loose(o)' => (game'[o].over <=> HasOver(game'[o].events))
    BY <1>1, <1>2, <1>7, <1>10 DEF Judged
  <2> QED
    BY <1>2, <1>7, <2>2, <2>3
<1>17. Judged'
  <2>1. CASE s = "A"
    <3>1. pc' = "move" /\ turn' = "B" /\ ~game'["B"].over
      BY <1>4, <1>7, <1>8, <2>1 DEF Other
    <3> QED
      BY <1>4, <1>8, <1>16, <3>1 DEF Judged
  <2>2. CASE s = "B"
    <3>1. pc' = "take" /\ turn' = "A"
      BY <1>4, <2>2 DEF Other
    <3> QED
      BY <1>4, <1>8, <1>16, <3>1 DEF Judged
  <2> QED
    BY <1>2, <2>1, <2>2 DEF Side
<1>18. \A x \in Side : Mirrored(x)'
  BY <1>2, <1>13, <1>14
<1>19. VerdictIsFirst'
  BY <1>4 DEF VerdictIsFirst
<1> QED
  BY <1>9, <1>12, <1>15, <1>17, <1>18, <1>19 DEF VInv

\* The relay takes one side's events out: what they owe, it now owes.
LEMMA VTake ==
    ASSUME VInv, Take
    PROVE  VInv'
<1>0. PICK s \in Side : s = turn
  BY DEF VInv, Typed
<1> DEFINE o == Other(s)
           g == game[s]
           h == [g EXCEPT !.events = <<>>]
<1>1. /\ Typed /\ Balanced /\ Judged /\ \A x \in Side : Counted(game[x]) /\ Mirrored(x)
  BY DEF VInv
<1>2. /\ s \in Side /\ o \in Side /\ o # s /\ Other(o) = s /\ Side = {s, o}
  BY <1>1 DEF Other, Side
<1>3. /\ g \in GameType /\ g.events \in Seq(Event) /\ g.lines \in Nat
      /\ g.funds \in Int /\ Counted(g) /\ game \in [Side -> GameType]
  BY <1>1, <1>2, TypedFacts
<1> HIDE DEF g
<1>4. /\ pc = "take" /\ pc' = "relay" /\ taken' = g.events
      /\ game' = [game EXCEPT ![s] = h] /\ turn = s /\ turn' = s
      /\ UNCHANGED <<result, ledger>>
  BY <1>0 DEF Take, Set, g
<1>5. /\ h \in GameType /\ SameCount(g, h) /\ h.funds = g.funds /\ h.events = <<>>
  <2>1. <<>> \in Seq(Event)
    BY EmptySeq
  <2> QED
    BY <1>3, <2>1 DEF GameType, SameCount
<1> HIDE DEF h
<1>6. game' \in [Side -> GameType] /\ game'[s] = h /\ game'[o] = game[o]
  BY <1>2, <1>3, <1>4, <1>5
<1>7. taken = <<>>
  BY <1>1, <1>4 DEF Typed
<1>8. Typed'
  BY <1>1, <1>2, <1>3, <1>4, <1>6 DEF Typed
<1>9. /\ Loose(s) /\ ~Loose(s)' /\ Relayed(s)'
      /\ (Loose(o)' <=> Loose(o)) /\ ~Relayed(o) /\ ~Relayed(o)'
  BY <1>2, <1>4 DEF Loose, Relayed, Side, Other
<1>10. \A x \in Side : Counted(game[x])'
  <2>1. Counted(h)
    BY <1>3, <1>5 DEF Counted, SameCount
  <2> QED
    BY <1>1, <1>2, <1>6, <2>1 DEF Counted
<1>11. Mirrored(s)'
  <2>1. Chain(game[o].op, g.events, g.lines)
    BY <1>1, <1>2, <1>9 DEF Mirrored, g
  <2>2. Level(h.events, g.lines) /\ h.lines = g.lines
    BY <1>3, <1>5, EmptyQueue DEF SameCount
  <2> QED
    BY <1>2, <1>4, <1>6, <1>9, <2>1, <2>2 DEF Mirrored
<1>12. Mirrored(o)'
  <2>1. Mirrored(o) /\ game'[s].op = game[s].op
    BY <1>1, <1>2, <1>5, <1>6 DEF g, SameCount
  <2> QED
    BY <1>2, <1>6, <1>9, <2>1 DEF Mirrored
<1>13. Balanced'
  <2>1. PICK owed \in [Side -> Int], c \in Int :
          /\ \A x \in Side : Owes(game[x].events, owed[x]) /\ (~Loose(x) => owed[x] = 0)
          /\ Owes(taken, c)
          /\ game["A"].funds + game["B"].funds + owed["A"] + owed["B"] + c = ledger
    BY <1>1 DEF Balanced
  <2>2. c = 0
    BY <1>7, <2>1, EmptyQueue
  <2> DEFINE owed2 == [x \in Side |-> IF x = s THEN 0 ELSE owed[x]]
  <2>3. owed2 \in [Side -> Int] /\ owed2[s] = 0 /\ owed2[o] = owed[o]
    BY <1>2, <2>1
  <2> HIDE DEF owed2
  <2>4. \A x \in Side : Owes(game'[x].events, owed2[x]) /\ (~Loose(x)' => owed2[x] = 0)
    <3>1. Owes(game'[s].events, owed2[s]) /\ (~Loose(s)' => owed2[s] = 0)
      BY <1>5, <1>6, <2>3, EmptyQueue
    <3>2. Owes(game'[o].events, owed2[o]) /\ (~Loose(o)' => owed2[o] = 0)
      BY <1>2, <1>6, <1>9, <2>1, <2>3
    <3> QED
      BY <1>2, <3>1, <3>2
  <2>5. owed[s] \in Int /\ Owes(taken', owed[s])
    BY <1>2, <1>4, <2>1 DEF g
  <2>6. game'["A"].funds + game'["B"].funds + owed2["A"] + owed2["B"] + owed[s] = ledger'
    <3>1. /\ game["A"].funds \in Int /\ game["B"].funds \in Int
          /\ owed["A"] \in Int /\ owed["B"] \in Int /\ ledger \in Int
      BY <1>1, <2>1 DEF Typed, GameType, Side
    <3>2. game'[s].funds = game[s].funds /\ game'[o].funds = game[o].funds
      BY <1>5, <1>6 DEF g
    <3>3. game'["A"].funds = game["A"].funds /\ game'["B"].funds = game["B"].funds
      BY <1>2, <3>2 DEF Side
    <3>4. \/ s = "A" /\ o = "B"
          \/ s = "B" /\ o = "A"
      BY <1>2 DEF Side
    <3> HIDE DEF o
    <3>5. CASE s = "A" /\ o = "B"
      BY <1>4, <2>1, <2>2, <2>3, <3>1, <3>3, <3>5
    <3>6. CASE s = "B" /\ o = "A"
      BY <1>4, <2>1, <2>2, <2>3, <3>1, <3>3, <3>6
    <3> QED
      BY <3>4, <3>5, <3>6
  <2> QED
    BY <2>3, <2>4, <2>5, <2>6 DEF Balanced
<1>14. \A x \in Side : game'[x].over = game[x].over
  BY <1>2, <1>5, <1>6 DEF SameCount, g
<1>15. Judged'
  <2>1. \A x \in Side : Loose(x)' => (game'[x].over <=> HasOver(game'[x].events))
    BY <1>1, <1>2, <1>6, <1>9 DEF Judged
  <2>2. game[s].over <=> HasOver(taken')
    BY <1>1, <1>2, <1>4, <1>9 DEF Judged, g
  <2>3. result' = IF s = "B" /\ game["A"].over THEN "B" ELSE "none"
    BY <1>1, <1>4 DEF Judged
  <2>4. CASE s = "A"
    BY <1>4, <1>14, <2>1, <2>2, <2>3, <2>4 DEF Judged, Side
  <2>5. CASE s = "B"
    BY <1>4, <1>14, <2>1, <2>2, <2>3, <2>5 DEF Judged, Side
  <2> QED
    BY <1>2, <2>4, <2>5 DEF Side
<1>16. \A x \in Side : Mirrored(x)'
  BY <1>2, <1>11, <1>12
<1>17. VerdictIsFirst'
  BY <1>4 DEF VerdictIsFirst
<1> QED
  BY <1>8, <1>10, <1>13, <1>15, <1>16, <1>17 DEF VInv

\* The relay is done with one side.
LEMMA VRelayDone ==
    ASSUME VInv, RelayDone
    PROVE  VInv'
<1>1. /\ pc = "relay" /\ taken = <<>> /\ turn' = Other(turn)
      /\ pc' = IF turn = "A" THEN "take" ELSE "inputs"
      /\ UNCHANGED <<game, result, taken, ledger>>
  BY DEF RelayDone
<1>2. turn \in Side /\ turn' \in Side /\ pc' \in {"inputs", "take"}
      /\ (pc' = "inputs" => turn' = "A")
  BY <1>1, TypedFacts DEF VInv, Typed, Other
<1>3. \A x \in Side : Loose(x) => Loose(x)'
  BY <1>1, <1>2 DEF Loose, Other, Side
<1>4. /\ Typed' /\ Balanced' /\ \A x \in Side : Counted(game[x])' /\ Mirrored(x)'
  BY <1>1, <1>2, <1>3, IdleStep
<1>5. ~HasOver(taken)
  BY <1>1, EmptyQueue
<1>6. \A x \in Side : Loose(x)' => (game'[x].over <=> HasOver(game'[x].events))
  <2>1. \A x \in Side : Loose(x)' => Loose(x)
    BY <1>1, <1>2 DEF Loose, Other, Side
  <2> QED
    BY <1>1, <2>1 DEF VInv, Judged
<1>7. CASE turn = "A"
  <2>1. pc' = "take" /\ turn' = "B" /\ result' = result /\ game' = game
    BY <1>1, <1>7 DEF Other
  <2>2. result = IF game["A"].over THEN "B" ELSE "none"
    BY <1>1, <1>5, <1>7 DEF VInv, Judged
  <2>3. Judged'
    BY <1>6, <2>1, <2>2 DEF Judged
  <2>4. VerdictIsFirst'
    BY <2>1 DEF VerdictIsFirst
  <2> QED
    BY <1>4, <2>3, <2>4 DEF VInv
<1>8. CASE turn = "B"
  <2>1. pc' = "inputs" /\ result' = result /\ game' = game
    BY <1>1, <1>8
  <2>2. \/ result = "B" /\ game["A"].over
        \/ result = "none" /\ ~game["A"].over /\ ~game["B"].over
        \/ result = "A" /\ ~game["A"].over /\ game["B"].over
    BY <1>1, <1>5, <1>8 DEF VInv, Judged
  <2>3. VerdictIsFirst'
    BY <2>1, <2>2 DEF VerdictIsFirst
  <2>4. Judged'
    BY <1>6, <2>1 DEF Judged
  <2> QED
    BY <1>4, <2>3, <2>4 DEF VInv
<1> QED
  BY <1>2, <1>7, <1>8 DEF Side

\* One event relayed: what is left of the queue leads from what the opponent
\* knows now to the rows it was sent for, and owes what it owed less the tax.
LEMMA RelayStep ==
    ASSUME VInv, NEW s \in Side, turn = s, turn' = s, pc = "relay", pc' = "relay",
           taken # <<>>, taken' = Tail(taken),
           NEW e, e = Head(taken), game' \in [Side -> GameType],
           \A x \in Side : Keeps(game[x], game'[x]),
           game'[s].op = game[s].op,
           game'[Other(s)].op = IF e.kind = "Scored" THEN e.lines ELSE game[Other(s)].op,
           NEW p \in Side, NEW paid \in Int,
           game'[p].funds = game[p].funds + paid,
           game'[Other(p)].funds = game[Other(p)].funds,
           ledger' = ledger + paid - Amount(e),
           result' = IF e.kind = "GameOver" /\ result = "none" THEN Other(s) ELSE result
    PROVE  VInv'
<1> DEFINE o == Other(s)
<1>1. /\ Typed /\ Balanced /\ Judged /\ \A x \in Side : Counted(game[x]) /\ Mirrored(x)
  BY DEF VInv
<1>2. /\ o \in Side /\ o # s /\ Other(o) = s /\ Side = {s, o}
  BY DEF Other, Side
<1>3. taken \in Seq(Event) /\ e \in Event /\ Tail(taken) \in Seq(Event)
  <2>1. taken \in Seq(Event)
    BY <1>1 DEF Typed
  <2> QED
    BY <2>1, HeadTailProperties
<1>4. Amount(e) \in Int
  BY <1>3, EventRead
<1>5. Typed'
  <2>1. ledger' \in Int
    BY <1>1, <1>4 DEF Typed
  <2>2. result' \in {"none", "A", "B"}
    BY <1>1, <1>2 DEF Typed, Side
  <2> QED
    BY <1>1, <1>3, <2>1, <2>2 DEF Typed
<1>6. /\ \A x \in Side : Loose(x)' <=> Loose(x)
      /\ ~Loose(s) /\ Relayed(s) /\ Relayed(s)' /\ ~Relayed(o) /\ ~Relayed(o)'
  BY <1>2 DEF Loose, Relayed, Side
<1>7. \A x \in Side : Counted(game[x])'
  BY DEF Keeps
<1>8. \A x \in Side : game'[x].lines = game[x].lines /\ game'[x].over = game[x].over
  BY DEF Keeps
<1>9. Mirrored(s)'
  <2>1. Chain(game[o].op, taken, game[s].lines) /\ Level(game[s].events, game[s].lines)
    BY <1>1, <1>6 DEF Mirrored
  <2>2. game[o].op \in Nat /\ game[s].lines \in Nat
    BY <1>1, <1>2, TypedFacts
  <2>3. Chain(game'[o].op, Tail(taken), game[s].lines)
    BY <1>3, <2>1, <2>2, ChainTail
  <2>4. Level(game'[s].events, game[s].lines)
    BY <2>1 DEF Keeps
  <2> QED
    BY <1>6, <1>8, <2>3, <2>4 DEF Mirrored
<1>10. Mirrored(o)'
  <2>1. Mirrored(o) /\ Keeps(game[o], game'[o])
    BY <1>1, <1>2
  <2>2. game[s].op \in Nat
    BY <1>1, TypedFacts
  <2>3. CASE Loose(o)
    <3>1. Chain(game[s].op, game[o].events, game[o].lines)
      BY <1>2, <2>1, <2>3 DEF Mirrored
    <3>2. Chain(game[s].op, game'[o].events, game[o].lines)
      BY <2>1, <2>2, <3>1 DEF Keeps
    <3> QED
      BY <1>2, <1>6, <1>8, <2>3, <3>2 DEF Mirrored
  <2>4. CASE ~Loose(o)
    <3>1. Level(game[o].events, game[o].lines) /\ game[s].op = game[o].lines
      BY <1>2, <1>6, <2>1, <2>4 DEF Mirrored
    <3>2. Level(game'[o].events, game[o].lines)
      BY <2>1, <3>1 DEF Keeps
    <3> QED
      BY <1>2, <1>6, <1>8, <2>4, <3>1, <3>2 DEF Mirrored
  <2> QED
    BY <2>3, <2>4
<1>11. Balanced'
  <2>1. game[p].funds \in Int /\ Keeps(game[p], game'[p])
    BY <1>1, TypedFacts
  <2>2. ASSUME NEW a \in Int, Owes(game[p].events, a) /\ (~Loose(p) => a = 0)
        PROVE  \E b \in Int : /\ Owes(game'[p].events, b) /\ (~Loose(p)' => b = 0)
                              /\ game'[p].funds + b = game[p].funds + a + paid
    <3>1. Owes(game'[p].events, a)
      BY <2>1, <2>2 DEF Keeps
    <3>2. game'[p].funds + a = game[p].funds + a + paid
      BY <2>1
    <3> QED
      BY <1>6, <2>2, <3>1, <3>2
  <2>3. Other(p) \in Side
    BY DEF Other, Side
  <2>4. \A a \in Int : Owes(game[Other(p)].events, a) => Owes(game'[Other(p)].events, a)
    BY <2>3 DEF Keeps
  <2>5. \A c \in Int : Owes(taken, c) => Owes(taken', c - Amount(e))
    BY <1>3, OwesTail
  <2>6. Loose(Other(p)) => Loose(Other(p))'
    <3>1. CASE p = s
      BY <1>2, <1>6, <3>1
    <3>2. CASE p = o
      BY <1>2, <1>6, <3>2
    <3> QED
      BY <1>2, <3>1, <3>2
  <2> QED
    BY <1>1, <1>4, <1>5, <2>2, <2>4, <2>5, <2>6, BalancedStep
<1>12. \A x \in Side : Loose(x)' => (game'[x].over <=> HasOver(game'[x].events))
  BY <1>1, <1>6 DEF Judged, Keeps
<1>13. HasOver(taken) <=> HasOver(taken') \/ e.kind = "GameOver"
  BY <1>3, OverTail
<1>14. Judged'
  <2>1. "A" \in Side /\ "B" \in Side
    BY DEF Side
  <2>2. CASE s = "A"
    <3>1. \/ result = "none" /\ (game["A"].over <=> HasOver(taken))
          \/ result = "B" /\ game["A"].over
      BY <1>1, <2>2 DEF Judged
    <3>2. \/ result' = "none" /\ (game'["A"].over <=> HasOver(taken'))
          \/ result' = "B" /\ game'["A"].over
      BY <1>8, <1>13, <2>1, <2>2, <3>1 DEF Other
    <3> QED
      BY <1>12, <2>2, <3>2 DEF Judged
  <2>3. CASE s = "B"
    <3>1. \/ result = "B" /\ game["A"].over
          \/ result = "none" /\ ~game["A"].over /\ (game["B"].over <=> HasOver(taken))
          \/ result = "A" /\ ~game["A"].over /\ game["B"].over
      BY <1>1, <2>3 DEF Judged
    <3>2. \/ result' = "B" /\ game'["A"].over
          \/ result' = "none" /\ ~game'["A"].over /\ (game'["B"].over <=> HasOver(taken'))
          \/ result' = "A" /\ ~game'["A"].over /\ game'["B"].over
      BY <1>8, <1>13, <2>1, <2>3, <3>1 DEF Other
    <3> QED
      BY <1>12, <2>3, <3>2 DEF Judged
  <2> QED
    BY <2>2, <2>3 DEF Side
<1>15. \A x \in Side : Mirrored(x)'
  <2>1. ASSUME NEW x \in Side
        PROVE  Mirrored(x)'
    <3>1. CASE x = s
      BY <1>9, <3>1
    <3>2. CASE x = o
      BY <1>10, <3>2
    <3> QED
      BY <1>2, <3>1, <3>2
  <2> QED
    BY <2>1
<1>16. VerdictIsFirst'
  BY DEF VerdictIsFirst
<1> QED
  BY <1>5, <1>7, <1>11, <1>14, <1>15, <1>16 DEF VInv

\* relay, event by event.
LEMMA VRelay ==
    ASSUME VInv, Relay
    PROVE  VInv'
<1>0. PICK s \in Side : s = turn
  BY DEF VInv, Typed
<1> DEFINE o == Other(s)
           e == Head(taken)
<1>1. /\ Typed /\ game \in [Side -> GameType] /\ ledger \in Int
      /\ \A x \in Side : /\ Counted(game[x]) /\ Mirrored(x)
                         /\ game[x] \in GameType /\ game[x].funds \in Int
  BY TypedFacts DEF VInv, Typed
<1>2. /\ o \in Side /\ o # s /\ Other(o) = s /\ Side = {s, o}
  BY DEF Other, Side
<1>3. /\ pc = "relay" /\ pc' = "relay" /\ turn = s /\ turn' = s
      /\ taken # <<>> /\ taken' = Tail(taken)
  BY <1>0 DEF Relay
<1>4. taken \in Seq(Event) /\ e \in Event /\ e = Head(taken)
  <2>1. taken \in Seq(Event)
    BY <1>1 DEF Typed
  <2> QED
    BY <1>3, <2>1, HeadTailProperties
<1> HIDE DEF e
<1>5. CASE e.kind = "Launched" /\ RelayLaunched(e)
  <2> DEFINE w == e.weapon
             mint == Mint(s, w)
  <2>1. w \in Weapon /\ Amount(e) = 0
    BY <1>4, <1>5, EventRead
  <2>2. game' = Deliver(s, o, w) /\ result' = result
    BY <1>3, <1>5 DEF RelayLaunched
  <2>3. /\ game' \in [Side -> GameType]
        /\ \A x \in Side : Keeps(game[x], game'[x]) /\ game'[x].op = game[x].op
        /\ game'[o].funds = game[o].funds /\ game'[s].funds = game[s].funds + mint
    BY <1>1, <2>1, <2>2, DeliverFacts
  <2>4. mint \in Int /\ ledger' = ledger + mint - 0
    BY <1>1, <1>2, <1>3, <1>5 DEF RelayLaunched, Mint
  <2> HIDE DEF mint
  <2>5. game'[s].op = game[s].op /\ game'[o].op = game[o].op
    BY <1>2, <2>3
  <2> QED
    BY <1>2, <1>3, <1>5, <2>1, <2>2, <2>3, <2>4, <2>5, RelayStep DEF e
<1>6. CASE e.kind = "Scored" /\ RelayScored(e)
  <2> DEFINE g == game[o]
             g1 == [g EXCEPT !.op = e.lines]
             h == UpdateBazaar(g1)
             d == e.lines - g.op
  <2>1. /\ game' = [game EXCEPT ![o] = h] /\ result' = result /\ ledger' = ledger
    BY <1>3, <1>6 DEF RelayScored, Set
  <2>2. e.lines \in Nat /\ Amount(e) = 0
    BY <1>4, <1>6, EventRead
  <2>3. g \in GameType /\ Counted(g) /\ g.op \in Nat /\ game[s].lines \in Nat
    BY <1>1, <1>2, TypedFacts
  <2>4. Chain(g.op, taken, game[s].lines)
    BY <1>1, <1>3 DEF Mirrored, Relayed
  <2> HIDE DEF g
  <2>5. g.op <= e.lines /\ e.lines <= g.op + MaxClear
    BY <1>3, <1>4, <1>6, <2>3, <2>4, ChainTail DEF e
  <2>6. d \in 0 .. MaxClear
    BY <2>2, <2>3, <2>5, VersusAssumption
  <2>7. /\ g1 \in GameType /\ g1.op = e.lines /\ g1.lines = g.lines /\ g1.til = g.til
        /\ g1.visits = g.visits /\ g1.over = g.over
        /\ g1.funds = g.funds /\ g1.events = g.events
    BY <2>2, <2>3 DEF GameType
  <2> HIDE DEF g1, h
  <2>8. Behind(g1, d)
    <3>1. /\ g.lines \in Nat /\ g.visits \in Nat /\ g.til \in Int
          /\ LinesTilBaz \in Nat
      BY <2>3, VersusAssumption DEF GameType
    <3> DEFINE m == g.visits * LinesTilBaz
    <3>2. m \in Nat
      BY <3>1
    <3>3. m + (LinesTilBaz - g.til) = g.op + g.lines
      BY <2>3 DEF Counted
    <3> HIDE DEF m
    <3>4. m + (LinesTilBaz - g.til) + d = e.lines + g.lines
      BY <2>2, <2>3, <3>1, <3>2, <3>3
    <3> QED
      BY <2>7, <3>4 DEF Behind, m
  <2>9. /\ h \in GameType /\ Counted(h) /\ h.lines = g.lines /\ h.op = e.lines
        /\ h.over = g.over /\ h.funds = g.funds /\ h.events = g.events
    BY <2>6, <2>7, <2>8, UpdateBazaarFacts DEF h
  <2>10. /\ game' \in [Side -> GameType] /\ game'[o] = h /\ game'[s] = game[s]
    BY <1>1, <1>2, <2>1, <2>9
  <2>11. ASSUME NEW x \in Side
         PROVE  Keeps(game[x], game'[x])
    <3>1. Keeps(g, h)
      BY <2>9 DEF Keeps
    <3>2. Keeps(game[s], game[s])
      BY <1>1 DEF Keeps
    <3>3. CASE x = o
      BY <2>10, <3>1, <3>3 DEF g
    <3>4. CASE x = s
      BY <2>10, <3>2, <3>4
    <3> QED
      BY <1>2, <3>3, <3>4
  <2>12. game'[s].funds = game[s].funds + 0 /\ game'[o].funds = game[o].funds
         /\ ledger' = ledger + 0 - 0
    BY <1>1, <2>1, <2>9, <2>10 DEF g
  <2>13. game'[s].op = game[s].op /\ game'[o].op = e.lines
    BY <2>9, <2>10
  <2>14. /\ game'[o].op = IF e.kind = "Scored" THEN e.lines ELSE game[o].op
         /\ result' = IF e.kind = "GameOver" /\ result = "none" THEN o ELSE result
    BY <1>6, <2>1, <2>13
  <2>15. PICK paid \in Int : paid = 0
    OBVIOUS
  <2>16. /\ game'[s].funds = game[s].funds + paid
         /\ ledger' = ledger + paid - Amount(e)
    BY <2>2, <2>12, <2>15
  <2> QED
    BY <1>2, <1>3, <1>4, <2>10, <2>11, <2>12, <2>13, <2>14, <2>15, <2>16, RelayStep
<1>7. CASE e.kind = "Stolen" /\ RelayStolen(e)
  <2> DEFINE g == game[o]
             h == AddFunds(g, e.amount)
  <2>1. /\ game' = [game EXCEPT ![o] = h] /\ result' = result /\ ledger' = ledger
    BY <1>3, <1>7 DEF RelayStolen, Set
  <2>2. e.amount \in Int /\ Amount(e) = e.amount
    BY <1>4, <1>7, EventRead DEF Amount
  <2>3. g \in GameType /\ Counted(g)
    BY <1>1, <1>2
  <2>4. Keeps(g, h) /\ h.op = g.op /\ h.funds = g.funds + e.amount
    BY <2>2, <2>3, AddFundsKeeps
  <2>5. h \in GameType
    BY <2>4 DEF Keeps
  <2> HIDE DEF h
  <2>6. /\ game' \in [Side -> GameType] /\ game'[o] = h /\ game'[s] = game[s]
    BY <1>1, <1>2, <2>1, <2>5
  <2>7. ASSUME NEW x \in Side
        PROVE  Keeps(game[x], game'[x])
    <3>1. Keeps(game[s], game[s])
      BY <1>1 DEF Keeps
    <3>2. CASE x = o
      BY <2>4, <2>6, <3>2
    <3>3. CASE x = s
      BY <2>6, <3>1, <3>3
    <3> QED
      BY <1>2, <3>2, <3>3
  <2>8. game'[o].funds = game[o].funds + e.amount /\ game'[s].funds = game[s].funds
        /\ ledger' = ledger + e.amount - Amount(e)
    BY <1>1, <2>1, <2>2, <2>4, <2>6
  <2>9. game'[s].op = game[s].op /\ game'[o].op = game[o].op
    BY <2>4, <2>6
  <2> QED
    BY <1>2, <1>3, <1>7, <2>1, <2>2, <2>6, <2>7, <2>8, <2>9, RelayStep DEF e
<1>8. CASE e.kind = "GameOver" /\ RelayGameOver
  <2>1. /\ game' = game /\ ledger' = ledger
        /\ result' = IF result = "none" THEN o ELSE result
    BY <1>3, <1>8 DEF RelayGameOver, Verdict
  <2>2. Amount(e) = 0
    BY <1>8 DEF Amount
  <2>3. ASSUME NEW x \in Side
        PROVE  Keeps(game[x], game'[x])
    BY <1>1, <2>1 DEF Keeps
  <2>4. game'[s].funds = game[s].funds + 0 /\ game'[o].funds = game[o].funds
        /\ ledger' = ledger + 0 - 0
    BY <1>1, <2>1
  <2> QED
    BY <1>1, <1>2, <1>3, <1>8, <2>1, <2>2, <2>3, <2>4, RelayStep DEF e
<1> QED
  BY <1>5, <1>6, <1>7, <1>8 DEF Relay, e

-----------------------------------------------------------------------------
(* The theorems.                                                           *)

\* Every step of Next keeps the invariant.
LEMMA VNext ==
    ASSUME VInv, [Next]_vars
    PROVE  VInv'
<1>1. CASE UNCHANGED vars
  BY <1>1 DEF vars, VInv, Typed, Counted, Mirrored, Loose, Relayed, Balanced,
              Judged, VerdictIsFirst
<1>2. CASE Next
  BY <1>2, VInput, VLeaveBazaar, VTick, VFall, VLock, VFlushPending, VSpawn,
     VTake, VRelayDone, VRelay DEF Next
<1> QED
  BY <1>1, <1>2

\* The inductive invariant holds throughout every match.
THEOREM VersusInvariant == Spec => []VInv
<1>1. Init => VInv
  BY VInit
<1>2. VInv /\ [Next]_vars => VInv'
  BY VNext
<1> QED
  BY <1>1, <1>2, PTL DEF Spec

\* Both sides have been let into the same bazaars, one for every LinesTilBaz
\* rows cleared together, and each knows the other's rows between ticks.
THEOREM SharedBazaars == Spec => []BazaarsShared
<1>1. VInv => BazaarsShared
  <2> SUFFICES ASSUME VInv, pc = "inputs", NEW s \in Side
               PROVE  /\ game[s].op = game[Other(s)].lines
                      /\ game[s].visits = Total \div LinesTilBaz
    BY DEF BazaarsShared
  <2>1. /\ game[s] \in GameType /\ Counted(game[s])
        /\ Other(s) \in Side /\ Other(Other(s)) = s
        /\ game["A"].lines \in Nat /\ game["B"].lines \in Nat
    BY TypedFacts DEF VInv, Side
  <2>2. Mirrored(Other(s)) /\ ~Loose(Other(s)) /\ ~Relayed(Other(s))
    BY <2>1 DEF VInv, Loose, Relayed
  <2>3. game[s].op = game[Other(s)].lines
    BY <2>1, <2>2 DEF Mirrored
  <2>4. game[s].op + game[s].lines = Total
    BY <2>1, <2>3 DEF Total, Side, Other
  <2>5. game[s].visits = Total \div LinesTilBaz
    BY <2>1, <2>4, CountedDiv
  <2> QED
    BY <2>3, <2>5
<1> QED
  BY <1>1, VersusInvariant, PTL

\* The tax moves money and makes none.
THEOREM TaxIsConserved == Spec => []TaxConserves
<1>1. VInv => TaxConserves
  <2> SUFFICES ASSUME VInv, pc = "inputs"
               PROVE  game["A"].funds + game["B"].funds = ledger
    BY DEF TaxConserves
  <2>1. PICK owed \in [Side -> Int], c \in Int :
          /\ \A x \in Side : Owes(game[x].events, owed[x]) /\ (~Loose(x) => owed[x] = 0)
          /\ Owes(taken, c)
          /\ game["A"].funds + game["B"].funds + owed["A"] + owed["B"] + c = ledger
    BY DEF VInv, Balanced
  <2>2. taken = <<>>
    BY DEF VInv, Typed
  <2>3. c = 0
    BY <2>1, <2>2, EmptyQueue
  <2>4. owed["A"] = 0 /\ owed["B"] = 0
    BY <2>1 DEF Loose, Side
  <2>5. game["A"].funds \in Int /\ game["B"].funds \in Int
    BY TypedFacts DEF VInv, Side
  <2> QED
    BY <2>1, <2>3, <2>4, <2>5
<1> QED
  BY <1>1, VersusInvariant, PTL

\* A match is decided for the right side, and a double top-out for the side
\* relayed second.
THEOREM FirstTopOutDecides == Spec => []VerdictIsFirst
<1>1. VInv => VerdictIsFirst
  BY DEF VInv
<1> QED
  BY <1>1, VersusInvariant, PTL
=============================================================================
