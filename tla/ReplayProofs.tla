---------------------------- MODULE ReplayProofs ----------------------------
(***************************************************************************)
(* Proofs about recordings: a player stands, at each tick, where the game  *)
(* stood at that tick.                                                     *)
(*                                                                         *)
(* A recording does not hold the ticks, only the inputs, each with the     *)
(* tick it came in.  The invariant says how the game is found in it: the   *)
(* i-th input is the (i + its tick)-th thing the game was told, and        *)
(* between them stand the ticks.                                           *)
(***************************************************************************)
EXTENDS Replay, SequenceTheorems, FiniteSetTheorems, NumberInduction, TLAPS

-----------------------------------------------------------------------------
(* The inductive invariant.                                                *)

Inputs == Keys \cup {"relay", "grant", "funds"}
Hearable == [side : {0, 1}, input : Inputs]
Entry == Hearable \cup {Tock}
Frame == [tick : Nat, told : Hearable]

ReplayTyped ==
    /\ live \in Seq(Entry)
    /\ rec \in [tick : Nat, frames : Seq(Frame)]

\* The first f frames are those of the first n ticks, the n-th of which is
\* right after the f inputs and the other ticks.
Cut(n, f) ==
    /\ n \in 0 .. rec.tick /\ f \in 0 .. Len(rec.frames)
    /\ \A i \in 1 .. Len(rec.frames) : rec.frames[i].tick < n <=> i <= f
    /\ n > 0 => live[f + n] = Tock

\* The recording against the game.
InStep ==
    /\ Len(live) = rec.tick + Len(rec.frames)
    /\ \A i \in 1 .. Len(rec.frames) :
          /\ rec.frames[i].tick <= rec.tick
          /\ live[i + rec.frames[i].tick] = rec.frames[i].told
          /\ mode # "Online" => rec.frames[i].told.side = 0
    /\ \A n \in 0 .. rec.tick : \E f \in Nat : Cut(n, f)
    /\ \A j \in 1 .. Len(live) :
          live[j] = Tock => \E n \in 1 .. rec.tick : Cut(n, j - n)

Recorded == ReplayTyped /\ InStep

\* A replay is the recording as it was at some tick, or some input, before.
Exported(replay) ==
    /\ replay \in [mode : {mode}, tickCount : 0 .. rec.tick, frames : Seq(Frame)]
    /\ Len(replay.frames) <= Len(rec.frames)
    /\ \A i \in 1 .. Len(replay.frames) : replay.frames[i] = rec.frames[i]
    /\ \A i \in 1 .. Len(rec.frames) :
          rec.frames[i].tick < replay.tickCount => i <= Len(replay.frames)

\* A player has told its game what the game was told.
Playing(p) ==
    /\ p = [game |-> p.game, replay |-> p.replay, executed |-> p.executed, cursor |-> p.cursor]
    /\ Exported(p.replay)
    /\ p.executed \in 0 .. p.replay.tickCount
    /\ p.cursor \in Nat \ {0}
    /\ Cut(p.executed, p.cursor - 1)
    /\ p.game \in Seq(Entry)
    /\ Len(p.game) = p.executed + p.cursor - 1
    /\ \A j \in 1 .. Len(p.game) : p.game[j] = live[j]

RInv == Recorded /\ \A p \in playback : Playing(p)

-----------------------------------------------------------------------------
(* Recording.                                                              *)

\* What a game may hear is no tick.
LEMMA HearableIsNoTick ==
    /\ Hearable \subseteq Entry /\ Tock \in Entry
    /\ \A e \in Hearable : e # Tock
BY DEF Hearable, Entry, Tock, Told

\* The inputs a game may be given.
MayGive(told) ==
    /\ told \in Seq(Hearable)
    /\ mode # "Online" => \A i \in 1 .. Len(told) : told[i].side = 0

\* A cut stays where it is as the recording grows: later inputs are of the
\* tick that is on, or of later ones.
Grows ==
    /\ rec'.tick \in {rec.tick, rec.tick + 1}
    /\ Len(rec.frames) <= Len(rec'.frames)
    /\ \A i \in 1 .. Len(rec.frames) : rec'.frames[i] = rec.frames[i]
    /\ \A i \in 1 .. Len(rec'.frames) :
          i > Len(rec.frames) => rec'.frames[i].tick = rec.tick
    /\ Len(live) <= Len(live')
    /\ \A j \in 1 .. Len(live) : live'[j] = live[j]

LEMMA CutStays ==
    ASSUME Recorded, ReplayTyped', Grows, NEW n, NEW f, Cut(n, f)
    PROVE  Cut(n, f)'
<1>1. /\ n \in 0 .. rec.tick /\ f \in 0 .. Len(rec.frames)
      /\ rec.tick \in Nat /\ Len(rec.frames) \in Nat /\ Len(rec'.frames) \in Nat
      /\ rec'.tick \in Nat
  BY DEF Cut, Recorded, ReplayTyped
<1>2. n \in 0 .. rec'.tick /\ f \in 0 .. Len(rec'.frames)
  BY <1>1 DEF Grows
<1>3. ASSUME NEW i \in 1 .. Len(rec'.frames)
      PROVE  rec'.frames[i].tick < n <=> i <= f
  <2>1. CASE i <= Len(rec.frames)
    BY <2>1, <1>1, <1>3, SMTT(30) DEF Grows, Cut
  <2>2. CASE i > Len(rec.frames)
    BY <2>2, <1>1, <1>3 DEF Grows
  <2> QED
    BY <2>1, <2>2, <1>1
<1>4. n > 0 => live'[f + n] = Tock
  <2> SUFFICES ASSUME n > 0 PROVE live'[f + n] = Tock
    OBVIOUS
  <2>1. f + n \in 1 .. Len(live)
    BY <1>1 DEF Recorded, InStep
  <2> QED
    BY <2>1, <1>1 DEF Grows, Cut
<1> QED
  BY <1>2, <1>3, <1>4 DEF Cut

\* What a player stands at stays so as the recording grows.
LEMMA PlayingStays ==
    ASSUME Recorded, ReplayTyped', Grows, mode' = mode, NEW p, Playing(p)
    PROVE  Playing(p)'
<1>1. /\ rec.tick \in Nat /\ Len(rec.frames) \in Nat /\ Len(rec'.frames) \in Nat
      /\ rec'.tick \in Nat /\ Len(live) \in Nat
  BY DEF Recorded, ReplayTyped
<1>2. Cut(p.executed, p.cursor - 1)'
  BY CutStays DEF Playing
<1>3. ASSUME NEW j \in 1 .. Len(p.game)
      PROVE  p.game[j] = live'[j]
  <2>1. Len(p.game) <= Len(live) /\ Len(p.game) \in Nat
    <3>1. Len(live) = rec.tick + Len(rec.frames)
      BY DEF Recorded, InStep
    <3>2. p.executed \in 0 .. rec.tick /\ p.cursor - 1 \in 0 .. Len(rec.frames)
      BY DEF Playing, Cut
    <3>3. Len(p.game) = p.executed + p.cursor - 1 /\ p.cursor \in Nat
      BY DEF Playing
    <3> QED
      BY <3>1, <3>2, <3>3, <1>1, SMTT(30)
  <2> QED
    BY <2>1, <1>1 DEF Playing, Grows
<1>4. Exported(p.replay)'
  <2> DEFINE r == p.replay
  <2>1. /\ r \in [mode : {mode}, tickCount : 0 .. rec.tick, frames : Seq(Frame)]
        /\ Len(r.frames) <= Len(rec.frames)
        /\ \A i \in 1 .. Len(r.frames) : r.frames[i] = rec.frames[i]
        /\ \A i \in 1 .. Len(rec.frames) :
              rec.frames[i].tick < r.tickCount => i <= Len(r.frames)
    BY DEF Playing, Exported
  <2> HIDE DEF r
  <2>2. /\ r.tickCount \in 0 .. rec.tick /\ r.frames \in Seq(Frame)
        /\ Len(r.frames) \in Nat
    BY <2>1
  <2>3. r \in [mode : {mode'}, tickCount : 0 .. rec'.tick, frames : Seq(Frame)]
    <3>1. 0 .. rec.tick \subseteq 0 .. rec'.tick
      BY <1>1 DEF Grows
    <3> QED
      BY <2>1, <3>1
  <2>4. Len(r.frames) <= Len(rec'.frames)
    BY <1>1, <2>1, <2>2 DEF Grows
  <2>5. \A i \in 1 .. Len(r.frames) : r.frames[i] = rec'.frames[i]
    BY <1>1, <2>1, <2>2 DEF Grows
  <2>6. ASSUME NEW i \in 1 .. Len(rec'.frames), rec'.frames[i].tick < r.tickCount
        PROVE  i <= Len(r.frames)
    <3>1. CASE i <= Len(rec.frames)
      <4>1. i \in 1 .. Len(rec.frames)
        BY <3>1, <2>6, <1>1
      <4>2. rec'.frames[i] = rec.frames[i]
        BY <4>1 DEF Grows
      <4> QED
        BY <4>1, <4>2, <2>6, <2>1
    <3>2. CASE i > Len(rec.frames)
      BY <3>2, <2>6, <2>2, <1>1 DEF Grows
    <3> QED
      BY <3>1, <3>2, <1>1
  <2> QED
    BY <2>3, <2>4, <2>5, <2>6 DEF Exported, r
<1> QED
  BY <1>2, <1>3, <1>4 DEF Playing

\* Inputs that reach both the engine and the recording.
LEMMA Gives ==
    ASSUME Recorded, NEW told, MayGive(told), Give(told)
    PROVE  Recorded' /\ Grows
<1> DEFINE N == Len(rec.frames)
           M == Len(told)
           t == rec.tick
           more == [i \in DOMAIN told |-> [tick |-> rec.tick, told |-> told[i]]]
<1>1. /\ live' = live \o told /\ rec' = [rec EXCEPT !.frames = @ \o more]
      /\ mode' = mode
  BY DEF Give, Record
<1>2. /\ live \in Seq(Entry) /\ rec \in [tick : Nat, frames : Seq(Frame)]
      /\ rec.frames \in Seq(Frame) /\ t \in Nat /\ told \in Seq(Hearable)
      /\ N \in Nat /\ M \in Nat
  BY DEF Recorded, ReplayTyped, MayGive
<1>3. /\ more \in Seq(Frame) /\ Len(more) = M
      /\ \A i \in 1 .. M : more[i] = [tick |-> t, told |-> told[i]]
  <2>1. DOMAIN told = 1 .. M /\ \A i \in 1 .. M : told[i] \in Hearable
    BY <1>2
  <2>2. more \in [1 .. M -> Frame]
    BY <2>1, <1>2 DEF Frame
  <2> QED
    BY <2>1, <2>2, <1>2
<1> HIDE DEF more
<1>4. /\ rec' \in [tick : Nat, frames : Seq(Frame)]
      /\ rec'.tick = t /\ rec'.frames = rec.frames \o more
  <2>1. rec.frames \o more \in Seq(Frame)
    BY <1>2, <1>3, ConcatProperties
  <2> QED
    BY <2>1, <1>1, <1>2
<1>5. /\ Len(rec'.frames) = N + M
      /\ \A i \in 1 .. N : rec'.frames[i] = rec.frames[i]
      /\ \A i \in 1 .. N + M : i > N => rec'.frames[i] = more[i - N]
  BY <1>2, <1>3, <1>4
<1>6. ASSUME NEW i \in 1 .. N + M, i > N
      PROVE  rec'.frames[i].tick = t /\ rec'.frames[i].told = told[i - N]
  <2>1. i - N \in 1 .. M
    BY <1>2, <1>6
  <2>2. more[i - N] = [tick |-> t, told |-> told[i - N]]
    BY <2>1, <1>3
  <2>3. rec'.frames[i] = more[i - N]
    BY <1>5, <1>6
  <2> QED
    BY <2>2, <2>3
<1>7. /\ live' \in Seq(Entry) /\ Len(live') = Len(live) + M
      /\ \A j \in 1 .. Len(live) : live'[j] = live[j]
      /\ \A j \in 1 .. Len(live) + M : j > Len(live) => live'[j] = told[j - Len(live)]
  <2>1. told \in Seq(Entry)
    BY <1>2, HearableIsNoTick
  <2> QED
    BY <2>1, <1>1, <1>2
<1>8. Len(live) = t + N
  BY DEF Recorded, InStep
<1> HIDE DEF N, M, t
<1>9. ReplayTyped'
  BY <1>4, <1>7 DEF ReplayTyped
<1>10. Grows
  BY <1>2, <1>4, <1>5, <1>6, <1>7 DEF Grows, N, t
<1>11. InStep'
  <2>1. Len(live') = rec'.tick + Len(rec'.frames)
    BY <1>2, <1>4, <1>5, <1>7, <1>8
  <2>2. ASSUME NEW i \in 1 .. Len(rec'.frames)
        PROVE  /\ rec'.frames[i].tick <= rec'.tick
               /\ live'[i + rec'.frames[i].tick] = rec'.frames[i].told
               /\ mode' # "Online" => rec'.frames[i].told.side = 0
    <3>1. CASE i <= N
      <4>1. i \in 1 .. N /\ rec'.frames[i] = rec.frames[i]
        BY <3>1, <1>2, <1>5
      <4>2. /\ rec.frames[i].tick <= t
            /\ live[i + rec.frames[i].tick] = rec.frames[i].told
            /\ mode # "Online" => rec.frames[i].told.side = 0
        BY <4>1 DEF Recorded, InStep, N, t
      <4>3. rec.frames[i].tick \in Nat
        <5>1. rec.frames[i] \in Frame
          BY <4>1, <1>2 DEF N
        <5> QED
          BY <5>1 DEF Frame
      <4>4. i + rec.frames[i].tick \in 1 .. Len(live)
        BY <4>1, <4>2, <4>3, <1>2, <1>8, SMTT(30)
      <4> QED
        BY <4>1, <4>2, <4>4, <1>1, <1>4, <1>7
    <3>2. CASE i > N
      <4>1. i - N \in 1 .. M /\ i \in 1 .. N + M
        BY <3>2, <1>2, <1>5
      <4>2. rec'.frames[i].tick = t /\ rec'.frames[i].told = told[i - N]
        BY <3>2, <4>1, <1>6
      <4>3. /\ i + t \in 1 .. Len(live) + M /\ i + t > Len(live)
            /\ i + t - Len(live) = i - N
        BY <4>1, <3>2, <1>2, <1>8
      <4>4. live'[i + t] = told[i - N]
        <5>1. PICK j \in 1 .. Len(live) + M :
                 j = i + t /\ j > Len(live) /\ j - Len(live) = i - N
          BY <4>1, <4>3, <1>2, <1>8
        <5>2. live'[j] = told[j - Len(live)]
          BY <5>1, <1>7
        <5> QED
          BY <5>1, <5>2
      <4>5. mode # "Online" => told[i - N].side = 0
        BY <4>1 DEF MayGive, M
      <4> QED
        BY <4>2, <4>4, <4>5, <1>1, <1>2, <1>4
    <3> QED
      BY <3>1, <3>2, <1>2, <1>5
  <2>3. ASSUME NEW n \in 0 .. rec'.tick
        PROVE  \E f \in Nat : Cut(n, f)'
    <3>1. PICK f \in Nat : Cut(n, f)
      BY <1>4 DEF Recorded, InStep, t
    <3> QED
      BY <3>1, <1>9, <1>10, CutStays
  <2>4. ASSUME NEW j \in 1 .. Len(live'), live'[j] = Tock
        PROVE  \E n \in 1 .. rec'.tick : Cut(n, j - n)'
    <3>1. j \in 1 .. Len(live)
      <4> SUFFICES ASSUME j > Len(live) PROVE FALSE
        BY <1>2, <1>7
      <4>1. j - Len(live) \in 1 .. M /\ live'[j] = told[j - Len(live)]
        BY <1>2, <1>7
      <4>2. told[j - Len(live)] \in Hearable
        BY <4>1, <1>2 DEF M
      <4> QED
        BY <4>1, <4>2, <2>4, HearableIsNoTick
    <3>2. PICK n \in 1 .. t : Cut(n, j - n)
      BY <3>1, <2>4, <1>7 DEF Recorded, InStep, t
    <3>3. Cut(n, j - n)'
      BY <3>2, <1>9, <1>10, CutStays
    <3> QED
      BY <3>3, <1>4
  <2> QED
    BY <2>1, <2>2, <2>3, <2>4 DEF InStep
<1> QED
  BY <1>9, <1>10, <1>11 DEF Recorded

\* A tick.
LEMMA Ticks ==
    ASSUME Recorded, Ticked
    PROVE  Recorded' /\ Grows
<1> DEFINE N == Len(rec.frames)
           t == rec.tick
<1>1. /\ live' = Append(live, Tock) /\ rec' = [rec EXCEPT !.tick = @ + 1]
      /\ mode' = mode
  BY DEF Ticked
<1>2. /\ live \in Seq(Entry) /\ rec \in [tick : Nat, frames : Seq(Frame)]
      /\ rec.frames \in Seq(Frame) /\ t \in Nat /\ N \in Nat
      /\ \A i \in 1 .. N : rec.frames[i] \in Frame
  BY DEF Recorded, ReplayTyped
<1>3. /\ rec' \in [tick : Nat, frames : Seq(Frame)]
      /\ rec'.tick = t + 1 /\ rec'.frames = rec.frames
  BY <1>1, <1>2
<1>4. /\ live' \in Seq(Entry) /\ Len(live') = Len(live) + 1
      /\ live'[Len(live) + 1] = Tock
      /\ \A j \in 1 .. Len(live) : live'[j] = live[j]
  <2>1. Tock \in Entry
    BY HearableIsNoTick
  <2> QED
    BY <2>1, <1>1, <1>2
<1>5. Len(live) = t + N
  BY DEF Recorded, InStep
<1>6. \A i \in 1 .. N : rec.frames[i].tick \in Nat /\ rec.frames[i].tick <= t
  BY <1>2 DEF Recorded, InStep, Frame
<1> HIDE DEF N, t
<1>7. ReplayTyped'
  BY <1>3, <1>4 DEF ReplayTyped
<1>8. Grows
  BY <1>2, <1>3, <1>4, <1>5 DEF Grows, N, t
<1>9. ASSUME NEW n, n = t + 1, NEW f, f = N
      PROVE  Cut(n, f)'
  <2>1. n \in 0 .. rec'.tick /\ f \in 0 .. Len(rec'.frames)
    BY <1>2, <1>3, <1>9 DEF N
  <2>2. \A i \in 1 .. Len(rec'.frames) : rec'.frames[i].tick < n <=> i <= f
    BY <1>2, <1>3, <1>6, <1>9 DEF N
  <2>3. live'[f + n] = Tock
    <3>1. f + n = Len(live) + 1
      BY <1>2, <1>5, <1>9
    <3> QED
      BY <3>1, <1>4
  <2> QED
    BY <2>1, <2>2, <2>3 DEF Cut
<1>10. InStep'
  <2>1. Len(live') = rec'.tick + Len(rec'.frames)
    BY <1>2, <1>3, <1>4, <1>5 DEF N
  <2>2. ASSUME NEW i \in 1 .. Len(rec'.frames)
        PROVE  /\ rec'.frames[i].tick <= rec'.tick
               /\ live'[i + rec'.frames[i].tick] = rec'.frames[i].told
               /\ mode' # "Online" => rec'.frames[i].told.side = 0
    <3>1. i \in 1 .. N /\ rec'.frames[i] = rec.frames[i]
      BY <1>3 DEF N
    <3>2. /\ live[i + rec.frames[i].tick] = rec.frames[i].told
          /\ mode # "Online" => rec.frames[i].told.side = 0
      BY <3>1 DEF Recorded, InStep, N
    <3>3. i + rec.frames[i].tick \in 1 .. Len(live)
      BY <3>1, <1>2, <1>5, <1>6
    <3>4. rec'.frames[i].tick <= rec'.tick
      BY <3>1, <1>2, <1>3, <1>6
    <3> QED
      BY <3>1, <3>2, <3>3, <3>4, <1>1, <1>4
  <2>3. ASSUME NEW n \in 0 .. rec'.tick
        PROVE  \E f \in Nat : Cut(n, f)'
    <3>1. CASE n = t + 1
      BY <3>1, <1>2, <1>9
    <3>2. CASE n # t + 1
      <4>1. n \in 0 .. rec.tick
        BY <3>2, <1>2, <1>3 DEF t
      <4>2. PICK f \in Nat : Cut(n, f)
        BY <4>1 DEF Recorded, InStep
      <4> QED
        BY <4>2, <1>7, <1>8, CutStays
    <3> QED
      BY <3>1, <3>2
  <2>4. ASSUME NEW j \in 1 .. Len(live'), live'[j] = Tock
        PROVE  \E n \in 1 .. rec'.tick : Cut(n, j - n)'
    <3>1. CASE j = Len(live) + 1
      <4>1. t + 1 \in 1 .. rec'.tick /\ j - (t + 1) = N
        BY <3>1, <1>2, <1>3, <1>5
      <4> QED
        BY <4>1, <1>9
    <3>2. CASE j # Len(live) + 1
      <4>1. j \in 1 .. Len(live)
        BY <3>2, <1>2, <1>4
      <4>2. PICK n \in 1 .. t : Cut(n, j - n)
        BY <4>1, <2>4, <1>4 DEF Recorded, InStep, t
      <4>3. Cut(n, j - n)'
        BY <4>2, <1>7, <1>8, CutStays
      <4>4. n \in 1 .. rec'.tick
        BY <4>2, <1>2, <1>3
      <4> QED
        BY <4>3, <4>4
    <3> QED
      BY <3>1, <3>2
  <2> QED
    BY <2>1, <2>2, <2>3, <2>4 DEF InStep
<1> QED
  BY <1>7, <1>8, <1>10 DEF Recorded

\* Whatever a game is told, it is told of a side it has.
LEMMA SidesAreHeard ==
    ASSUME NEW side \in Sides, NEW input \in Inputs
    PROVE  /\ Told(side, input) \in Hearable
           /\ mode # "Online" => Told(side, input).side = 0
BY DEF Sides, Told, Hearable

\* All the inputs of a game, of its opponent and of a grant may be given.
LEMMA GivesAreHearable ==
    ASSUME Recording
    PROVE  Ticked \/ \E told : MayGive(told) /\ Give(told)
<1>1. ASSUME NEW side \in Sides, NEW input \in Inputs
      PROVE  MayGive(<<Told(side, input)>>)
  BY <1>1, SidesAreHeard DEF MayGive
<1>2. Keys \subseteq Inputs /\ "relay" \in Inputs
  BY DEF Inputs
<1>3. CASE \E key \in Keys : PracticePlay(key) \/ ComputerPlay(key)
  <2>1. 0 \in Sides
    BY DEF Sides
  <2>2. PICK key \in Keys : Give(<<Told(0, key)>>)
    BY <1>3 DEF PracticePlay, ComputerPlay
  <2> QED
    BY <2>1, <2>2, <1>1, <1>2
<1>4. CASE \E side \in Sides, key \in Keys : MatchPlay(side, key)
  <2>1. PICK side \in Sides, key \in Keys : Give(<<Told(side, key)>>)
    BY <1>4 DEF MatchPlay
  <2> QED
    BY <2>1, <1>1, <1>2
<1>5. CASE HearOpponent
  <2>1. 0 \in Sides /\ Give(<<Told(0, "relay")>>)
    BY <1>5 DEF Sides, HearOpponent
  <2> QED
    BY <2>1, <1>1, <1>2
<1>6. ASSUME NEW side \in Sides,
             NEW parts \in {<<"grant">>, <<"funds">>, <<"grant", "funds">>},
             Grant(side, parts)
      PROVE  \E told : MayGive(told) /\ Give(told)
  <2> DEFINE told == [i \in DOMAIN parts |-> Told(side, parts[i])]
  <2>1. parts \in Seq(Inputs)
    <3>1. "grant" \in Inputs /\ "funds" \in Inputs
      BY DEF Inputs
    <3>2. <<"grant">> \in Seq(Inputs) /\ <<"funds">> \in Seq(Inputs)
      BY <3>1
    <3>3. <<"grant", "funds">> \in Seq(Inputs)
      BY <3>1
    <3> QED
      BY <3>2, <3>3
  <2>2. \A i \in 1 .. Len(parts) :
           /\ Told(side, parts[i]) \in Hearable
           /\ mode # "Online" => Told(side, parts[i]).side = 0
    BY <2>1, SidesAreHeard
  <2>3. DOMAIN parts = 1 .. Len(parts) /\ Len(parts) \in Nat
    BY <2>1
  <2>4. told \in [1 .. Len(parts) -> Hearable]
    BY <2>2, <2>3
  <2>5. told \in Seq(Hearable) /\ Len(told) = Len(parts)
    BY <2>3, <2>4
  <2>6. MayGive(told)
    BY <2>2, <2>3, <2>5 DEF MayGive
  <2>7. Give(told)
    BY <1>6 DEF Grant
  <2> QED
    BY <2>6, <2>7
<1> QED
  BY <1>3, <1>4, <1>5, <1>6 DEF Recording

\* The game goes on, and what its viewers stand at stays.
LEMMA RecordingKeeps ==
    ASSUME RInv, Recording
    PROVE  RInv'
<1>1. Recorded' /\ Grows /\ mode' = mode /\ playback' = playback
  BY GivesAreHearable, Gives, Ticks DEF RInv, Give, Ticked
<1>2. ASSUME NEW p \in playback
      PROVE  Playing(p)'
  BY <1>1, <1>2, PlayingStays DEF RInv, Recorded
<1> QED
  BY <1>1, <1>2 DEF RInv

-----------------------------------------------------------------------------
(* Playing back.                                                           *)

\* The frames, one by one.
LEMMA FramesTyped ==
    ASSUME Recorded
    PROVE  /\ rec.tick \in Nat /\ Len(rec.frames) \in Nat
           /\ \A i \in 1 .. Len(rec.frames) :
                 /\ rec.frames[i] \in Frame /\ rec.frames[i].tick \in Nat
                 /\ rec.frames[i].told \in Hearable
<1>1. rec \in [tick : Nat, frames : Seq(Frame)]
  BY DEF Recorded, ReplayTyped
<1>2. \A i \in 1 .. Len(rec.frames) : rec.frames[i] \in Frame
  BY <1>1
<1> QED
  BY <1>1, <1>2 DEF Frame

\* Cuts are in the order of their ticks.
LEMMA CutOrder ==
    ASSUME Recorded, NEW m, NEW f, NEW n, NEW g, Cut(m, f), Cut(n, g), m <= n
    PROVE  f <= g
<1>1. /\ m \in Nat /\ n \in Nat /\ f \in 0 .. Len(rec.frames) /\ g \in Nat
      /\ rec.frames \in Seq(Frame)
  BY DEF Cut, Recorded, ReplayTyped
<1>2. CASE f = 0
  BY <1>1, <1>2
<1>3. CASE f > 0
  <2>1. f \in 1 .. Len(rec.frames) /\ rec.frames[f].tick \in Nat
    BY <1>1, <1>3, FramesTyped
  <2>2. rec.frames[f].tick < m
    BY <1>1, <2>1 DEF Cut
  <2>3. rec.frames[f].tick < n
    BY <1>1, <2>1, <2>2
  <2> QED
    BY <2>1, <2>3 DEF Cut
<1> QED
  BY <1>1, <1>2, <1>3

\* The inputs of a game it hears as they were told.
LEMMA HearsAsTold ==
    ASSUME Recorded, NEW i \in 1 .. Len(rec.frames), mode # "Online"
    PROVE  Told(0, rec.frames[i].told.input) = rec.frames[i].told
<1>1. rec.frames[i] \in Frame
  BY DEF Recorded, ReplayTyped
<1>2. rec.frames[i].told \in [side : {0, 1}, input : Inputs]
  BY <1>1 DEF Frame, Hearable
<1>3. rec.frames[i].told.side = 0
  BY DEF Recorded, InStep
<1> QED
  BY <1>2, <1>3 DEF Told

\* What a step is due to apply: the inputs up to the next tick.
LEMMA DueUpToTick ==
    ASSUME Recorded, NEW p, Playing(p), p.executed < p.replay.tickCount,
           NEW g, Cut(p.executed + 1, g)
    PROVE  /\ p.cursor - 1 <= g /\ g \in 0 .. Len(p.replay.frames)
           /\ Due(p) = SubSeq(p.replay.frames, p.cursor, g)
<1> DEFINE e == p.executed
           c == p.cursor
           fr == p.replay.frames
           K == Len(p.replay.frames)
           stop == {i \in c .. K : fr[i].tick # e}
<1>1. /\ p.replay.tickCount \in 0 .. rec.tick /\ rec.tick \in Nat
      /\ e \in 0 .. p.replay.tickCount /\ c \in Nat \ {0}
      /\ K \in Nat /\ K <= Len(rec.frames) /\ rec.frames \in Seq(Frame)
      /\ Cut(e, c - 1)
  BY DEF Playing, Exported, Recorded, ReplayTyped
<1>2. g \in 0 .. Len(rec.frames)
  BY DEF Cut
<1>3. c - 1 <= g
  <2>1. e <= e + 1
    BY <1>1
  <2> QED
    BY <2>1, <1>1, CutOrder
<1>4. g <= K
  <2>1. CASE g = 0
    BY <2>1, <1>1
  <2>2. CASE g > 0
    <3>1. g \in 1 .. Len(rec.frames) /\ rec.frames[g].tick \in Nat
      BY <1>2, <2>2, FramesTyped
    <3>2. rec.frames[g].tick < e + 1
      BY <1>2, <3>1 DEF Cut
    <3>3. rec.frames[g].tick < p.replay.tickCount
      BY <1>1, <3>1, <3>2
    <3> QED
      BY <3>1, <3>3 DEF Playing, Exported
  <2> QED
    BY <1>2, <2>1, <2>2
<1>5. ASSUME NEW i \in c .. K
      PROVE  fr[i].tick # e <=> i > g
  <2>1. i \in 1 .. Len(rec.frames) /\ i \in 1 .. K
    BY <1>1
  <2>2. fr[i] = rec.frames[i] /\ rec.frames[i].tick \in Nat
    BY <2>1, FramesTyped DEF Playing, Exported
  <2>3. rec.frames[i].tick < e <=> i <= c - 1
    BY <2>1, <1>1 DEF Cut
  <2>4. rec.frames[i].tick < e + 1 <=> i <= g
    BY <2>1 DEF Cut
  <2> QED
    BY <2>1, <2>2, <2>3, <2>4, <1>1, <1>2, SMTT(30)
<1>6. stop = (g + 1) .. K
  BY <1>1, <1>2, <1>3, <1>5, SMTT(30)
<1>7. (IF stop = {} THEN K ELSE Min(stop) - 1) = g
  <2>1. CASE g = K
    BY <2>1, <1>1, <1>6
  <2>2. CASE g < K
    <3>0. g \in Nat /\ K \in Nat /\ stop = (g + 1) .. K
      BY <1>1, <1>2, <1>6
    <3> HIDE DEF stop
    <3>1. g + 1 \in stop /\ \A y \in stop : g + 1 <= y
      <4> HIDE DEF K
      <4> QED
        BY <3>0, <2>2
    <3>2. stop \subseteq Nat
      BY <3>0
    <3>3. Min(stop) \in stop /\ \A y \in stop : Min(stop) <= y
      BY <3>1 DEF Min
    <3>4. Min(stop) = g + 1
      <4>1. PICK m \in Nat : m = Min(stop)
        BY <3>2, <3>3
      <4>2. g + 1 <= m /\ m <= g + 1
        BY <3>1, <3>3, <4>1
      <4> QED
        BY <4>1, <4>2, <1>2
    <3> QED
      BY <3>1, <3>4, <1>2
  <2> QED
    BY <2>1, <2>2, <1>1, <1>2, <1>4
<1>8. Due(p) = SubSeq(fr, c, IF stop = {} THEN K ELSE Min(stop) - 1)
  BY DEF Due
<1> HIDE DEF stop
<1>9. Due(p) = SubSeq(fr, c, g)
  BY <1>7, <1>8
<1>10. g \in 0 .. K
  BY <1>1, <1>2, <1>4
<1> QED
  BY <1>3, <1>9, <1>10

\* A step of a player: its inputs, then the tick.
LEMMA StepPlays ==
    ASSUME Recorded, NEW p, Playing(p)
    PROVE  Playing(Step(p)) /\ Step(p).replay = p.replay
<1>1. CASE p.executed >= p.replay.tickCount
  BY <1>1 DEF Step
<1>2. CASE ~ (p.executed >= p.replay.tickCount)
  <2> DEFINE e == p.executed
             c == p.cursor
             fr == p.replay.frames
             D == Due(p)
             H == Heard(p, Due(p))
             q == Step(p)
  <2>1. /\ p = [game |-> p.game, replay |-> p.replay, executed |-> e, cursor |-> c]
        /\ Exported(p.replay) /\ e \in 0 .. p.replay.tickCount
        /\ c \in Nat \ {0} /\ Cut(e, c - 1)
        /\ p.game \in Seq(Entry) /\ Len(p.game) = e + c - 1
        /\ \A j \in 1 .. Len(p.game) : p.game[j] = live[j]
    BY DEF Playing
  <2>2. /\ p.replay.mode = mode /\ p.replay.tickCount \in 0 .. rec.tick
        /\ rec.tick \in Nat /\ fr \in Seq(Frame) /\ Len(fr) <= Len(rec.frames)
        /\ \A i \in 1 .. Len(fr) : fr[i] = rec.frames[i]
    BY <2>1, FramesTyped DEF Exported
  <2>3. e + 1 \in 0 .. rec.tick /\ e \in Nat /\ e + 1 \in 0 .. p.replay.tickCount
        /\ e < p.replay.tickCount
    BY <1>2, <2>1, <2>2
  <2>4. PICK g \in Nat : Cut(e + 1, g)
    BY <2>3 DEF Recorded, InStep
  <2>5. /\ c - 1 <= g /\ g \in 0 .. Len(fr)
        /\ D = SubSeq(fr, c, g)
    BY <2>3, <2>4, DueUpToTick
  <2>6. /\ D \in Seq(Frame) /\ Len(D) = g - c + 1
        /\ \A i \in 1 .. Len(D) : D[i] = fr[c + i - 1]
    <3>1. c \in 1 .. Len(fr) + 1 /\ g \in c - 1 .. Len(fr) /\ fr \in Seq(Frame)
      BY <2>1, <2>2, <2>5
    <3> HIDE DEF c, fr, D
    <3> QED
      BY <3>1, <2>5, SubSeqProperties
  <2>7. q = [game |-> (p.game \o H) \o <<Tock>>, replay |-> p.replay,
             executed |-> e + 1, cursor |-> c + Len(D)]
    <3>1. q = [p EXCEPT !.game = (@ \o H) \o <<Tock>>,
                        !.executed = @ + 1, !.cursor = @ + Len(D)]
      BY <1>2 DEF Step
    <3> HIDE DEF q, H, D
    <3> QED
      BY <3>1, <2>1
  <2> HIDE DEF q, D
  <2>8. /\ e \in Nat /\ c \in Nat \ {0} /\ g \in Nat /\ c - 1 <= g
        /\ Len(fr) \in Nat /\ Len(rec.frames) \in Nat /\ g <= Len(fr)
        /\ Len(fr) <= Len(rec.frames) /\ Len(D) = g - c + 1
        /\ Len(p.game) = e + c - 1 /\ c + Len(D) = g + 1
    BY <2>1, <2>2, <2>3, <2>4, <2>5, <2>6, FramesTyped
  <2> HIDE DEF e, c, fr
  <2>9. ASSUME NEW i \in 1 .. Len(D)
        PROVE  /\ c + i - 1 \in 1 .. Len(rec.frames)
               /\ H[i] = rec.frames[c + i - 1].told
    <3>1. c + i - 1 \in 1 .. Len(rec.frames) /\ c + i - 1 \in 1 .. Len(fr)
      BY <2>8
    <3>2. D[i] = rec.frames[c + i - 1]
      BY <3>1, <2>2, <2>6
    <3>3. H[i] = IF mode = "Online" THEN D[i].told ELSE Told(0, D[i].told.input)
      BY <2>2, <2>6 DEF Heard, D
    <3> QED
      BY <3>1, <3>2, <3>3, HearsAsTold
  <2>10. H \in Seq(Hearable) /\ Len(H) = Len(D)
    <3>1. H = [i \in DOMAIN D |-> H[i]] /\ DOMAIN D = 1 .. Len(D)
      BY <2>6 DEF Heard, D
    <3>2. \A i \in 1 .. Len(D) : H[i] \in Hearable
      BY <2>9, FramesTyped
    <3> HIDE DEF H
    <3>3. H \in [1 .. Len(D) -> Hearable]
      BY <3>1, <3>2
    <3> QED
      BY <3>3, <2>6
  <2> HIDE DEF H
  <2>11. H \in Seq(Entry) /\ <<Tock>> \in Seq(Entry) /\ Len(<<Tock>>) = 1
    BY <2>10, HearableIsNoTick
  <2>12. /\ q.game \in Seq(Entry) /\ Len(q.game) = (e + c - 1) + (g - c + 1) + 1
         /\ \A j \in 1 .. Len(q.game) :
              q.game[j] = IF j <= Len(p.game) THEN p.game[j]
                          ELSE IF j <= Len(p.game) + Len(H) THEN H[j - Len(p.game)]
                          ELSE Tock
    <3>1. q.game = (p.game \o H) \o <<Tock>>
      BY <2>7
    <3>2. /\ p.game \o H \in Seq(Entry) /\ Len(p.game \o H) = Len(p.game) + Len(H)
          /\ \A j \in 1 .. Len(p.game) + Len(H) :
                (p.game \o H)[j] = IF j <= Len(p.game) THEN p.game[j]
                                   ELSE H[j - Len(p.game)]
      BY <2>1, <2>11, ConcatProperties
    <3> DEFINE G == p.game \o H
    <3> HIDE DEF G
    <3>3. /\ q.game = Append(G, Tock) /\ G \in Seq(Entry) /\ Tock \in Entry
      BY <3>1, <3>2, <2>11, HearableIsNoTick, AppendIsConcat DEF G
    <3>4. /\ q.game \in Seq(Entry) /\ Len(q.game) = Len(G) + 1
          /\ \A j \in 1 .. Len(G) : q.game[j] = G[j]
          /\ q.game[Len(G) + 1] = Tock
      BY <3>3, AppendProperties
    <3>5. Len(G) = Len(p.game) + Len(H) /\ Len(H) = Len(D)
      BY <3>2, <2>10 DEF G
    <3>6. \A j \in 1 .. Len(p.game) + Len(H) :
             G[j] = IF j <= Len(p.game) THEN p.game[j] ELSE H[j - Len(p.game)]
      BY <3>2 DEF G
    <3>7. Len(q.game) = (e + c - 1) + (g - c + 1) + 1
      BY <3>4, <3>5, <2>8
    <3>8. ASSUME NEW j \in 1 .. Len(q.game)
          PROVE  q.game[j] = IF j <= Len(p.game) THEN p.game[j]
                             ELSE IF j <= Len(p.game) + Len(H) THEN H[j - Len(p.game)]
                             ELSE Tock
      <4>1. Len(p.game) \in Nat /\ Len(H) \in Nat /\ Len(q.game) = Len(p.game) + Len(H) + 1
        BY <3>4, <3>5, <2>8
      <4>2. CASE j <= Len(G)
        BY <4>1, <4>2, <3>4, <3>5, <3>6
      <4>3. CASE ~ (j <= Len(G))
        BY <4>1, <4>3, <3>4, <3>5
      <4> QED
        BY <4>2, <4>3
    <3> QED
      BY <3>4, <3>7, <3>8
  <2>13. ASSUME NEW j \in 1 .. Len(q.game)
         PROVE  q.game[j] = live[j]
    <3>0. Len(q.game) = g + (e + 1) /\ Len(p.game) + Len(H) = g + e
      BY <2>8, <2>10, <2>12
    <3>1. CASE j <= Len(p.game)
      BY <3>1, <2>1, <2>12
    <3>2. CASE j > Len(p.game) /\ j <= Len(p.game) + Len(H)
      <4>1. q.game[j] = H[j - Len(p.game)]
        BY <3>2, <2>1, <2>12
      <4>2. PICK i \in 1 .. Len(D) : i = j - Len(p.game)
        BY <3>2, <2>1, <2>6, <2>10, SMTT(30)
      <4>3. PICK k \in 1 .. Len(rec.frames) : k = c + i - 1 /\ H[i] = rec.frames[k].told
        BY <2>9
      <4>4. k \in c .. g
        BY <4>2, <4>3, <2>8
      <4>5. rec.frames[k].tick = e
        <5>1. rec.frames[k].tick < e <=> k <= c - 1
          BY <2>1, <4>3 DEF Cut, e, c
        <5>2. rec.frames[k].tick < e + 1 <=> k <= g
          BY <2>4, <4>3 DEF Cut
        <5>3. rec.frames[k].tick \in Nat
          BY <4>3, FramesTyped
        <5> QED
          BY <5>1, <5>2, <5>3, <4>4, <2>8, SMTT(30)
      <4>6. live[k + rec.frames[k].tick] = rec.frames[k].told
        BY <4>3 DEF Recorded, InStep
      <4>7. k + e = j
        BY <4>2, <4>3, <2>8
      <4> QED
        BY <4>1, <4>2, <4>3, <4>5, <4>6, <4>7
    <3>3. CASE j > Len(p.game) + Len(H)
      <4>1. q.game[j] = Tock
        <5>1. ~ (j <= Len(p.game)) /\ ~ (j <= Len(p.game) + Len(H))
          BY <3>0, <3>3, <2>8, <2>10
        <5> QED
          BY <5>1, <2>12
      <4>2. j = g + (e + 1)
        BY <3>0, <3>3, <2>8
      <4>3. live[g + (e + 1)] = Tock
        BY <2>3, <2>4 DEF Cut
      <4> QED
        BY <4>1, <4>2, <4>3
    <3> QED
      BY <3>1, <3>2, <3>3, <3>0, <2>8
  <2>14. /\ q = [game |-> q.game, replay |-> q.replay, executed |-> q.executed,
                 cursor |-> q.cursor]
         /\ q.replay = p.replay /\ q.executed = e + 1 /\ q.cursor = g + 1
    BY <2>7, <2>8
  <2>15. Cut(q.executed, q.cursor - 1)
    <3>1. q.cursor - 1 = g
      BY <2>4, <2>14
    <3> QED
      BY <3>1, <2>4, <2>14
  <2>16. Len(q.game) = q.executed + q.cursor - 1
    BY <2>1, <2>3, <2>4, <2>12, <2>14
  <2> QED
    BY <2>1, <2>3, <2>4, <2>12, <2>13, <2>14, <2>15, <2>16, SMTT(30) DEF Playing, q
<1> QED
  BY <1>1, <1>2

\* A player that has just been loaded.
LEMMA NewPlays ==
    ASSUME Recorded, NEW replay, Exported(replay)
    PROVE  Playing(NewPlayer(replay)) /\ NewPlayer(replay).replay = replay
<1> DEFINE q == NewPlayer(replay)
<1>1. q = [game |-> <<>>, replay |-> replay, executed |-> 0, cursor |-> 1]
  BY DEF NewPlayer
<1> HIDE DEF q
<1>2. replay.tickCount \in Nat /\ rec.tick \in Nat
  BY FramesTyped DEF Exported
<1>3. Cut(0, 0)
  BY FramesTyped DEF Cut
<1>4. q.executed = 0 /\ q.cursor = 1 /\ q.cursor - 1 = 0 /\ q.game = <<>>
  BY <1>1
<1>5. Cut(q.executed, q.cursor - 1) /\ q.executed \in 0 .. replay.tickCount
  BY <1>2, <1>3, <1>4
<1> QED
  BY <1>1, <1>4, <1>5 DEF Playing, q

\* to_replay.
LEMMA ToReplayExports ==
    ASSUME Recorded
    PROVE  Exported(ToReplay(rec))
<1> DEFINE r == ToReplay(rec)
<1>1. r = [mode |-> mode, tickCount |-> rec.tick, frames |-> rec.frames]
  BY DEF ToReplay
<1>2. rec.frames \in Seq(Frame) /\ rec.tick \in 0 .. rec.tick
  BY DEF Recorded, ReplayTyped
<1> HIDE DEF r
<1>3. r \in [mode : {mode}, tickCount : 0 .. rec.tick, frames : Seq(Frame)]
  BY <1>1, <1>2
<1>4. r.frames = rec.frames
  BY <1>1
<1>5. Exported(r)
  BY <1>3, <1>4 DEF Exported
<1> QED
  BY <1>5 DEF r

\* Any number of steps.
LEMMA SteppedPlays ==
    ASSUME Recorded, NEW p, Playing(p), NEW n \in Nat
    PROVE  Playing(Stepped(p, n)) /\ Stepped(p, n).replay = p.replay
<1> DEFINE Run(m, f) == f = [k \in 0 .. m |-> IF k = 0 THEN p ELSE Step(f[k - 1])]
           Plays(q) == Playing(q) /\ q.replay = p.replay
           Runs == {m \in Nat : \E f : Run(m, f)}
<1>1. \E f : Run(n, f)
  <2>1. 0 \in Runs
    <3> DEFINE f == [k \in 0 .. 0 |-> p]
    <3>1. Run(0, f)
      OBVIOUS
    <3> QED
      BY <3>1
  <2>2. ASSUME NEW m \in Runs
        PROVE  m + 1 \in Runs
    <3>1. PICK f : Run(m, f)
      OBVIOUS
    <3> DEFINE g == [k \in 0 .. m + 1 |-> IF k = m + 1 THEN Step(f[m]) ELSE f[k]]
    <3>2. ASSUME NEW k \in 0 .. m + 1
          PROVE  g[k] = IF k = 0 THEN p ELSE Step(g[k - 1])
      <4>1. CASE k = m + 1
        BY <4>1
      <4>2. CASE k # m + 1
        <5>1. k \in 0 .. m /\ (k # 0 => k - 1 \in 0 .. m /\ k - 1 # m + 1)
          BY <4>2
        <5>2. f[k] = IF k = 0 THEN p ELSE Step(f[k - 1])
          BY <3>1, <5>1
        <5> QED
          BY <5>1, <5>2
      <4> QED
        BY <4>1, <4>2
    <3> HIDE DEF Run
    <3>3. Run(m + 1, g)
      <4>1. g = [k \in 0 .. m + 1 |-> g[k]]
        OBVIOUS
      <4> HIDE DEF g
      <4> QED
        BY <4>1, <3>2 DEF Run
    <3> QED
      BY <3>3
  <2> HIDE DEF Runs
  <2>3. Runs = Nat
    <3>1. Runs \in SUBSET Nat
      BY DEF Runs
    <3> QED
      BY <2>1, <2>2, <3>1, Induction
  <2> QED
    BY <2>3 DEF Runs
<1>2. ASSUME NEW f, Run(n, f)
      PROVE  Plays(f[n])
  <2> DEFINE Good == {k \in Nat : k <= n => Plays(f[k])}
  <2>1. 0 \in Good
    <3>1. f[0] = p
      BY <1>2
    <3> QED
      BY <3>1
  <2>2. ASSUME NEW k \in Good
        PROVE  k + 1 \in Good
    <3> SUFFICES ASSUME k + 1 <= n PROVE Plays(f[k + 1])
      OBVIOUS
    <3>1. f[k + 1] = Step(f[k])
      <4>1. k + 1 \in 0 .. n /\ k + 1 # 0 /\ (k + 1) - 1 = k
        OBVIOUS
      <4> QED
        BY <4>1, <1>2
    <3>2. Plays(f[k])
      OBVIOUS
    <3> QED
      BY <3>1, <3>2, StepPlays
  <2> HIDE DEF Good
  <2>3. Good = Nat
    <3>1. Good \in SUBSET Nat
      BY DEF Good
    <3> QED
      BY <2>1, <2>2, <3>1, Induction
  <2> QED
    BY <2>3 DEF Good
<1>3. Stepped(p, n) = (CHOOSE f : Run(n, f))[n]
  BY DEF Stepped
<1> QED
  BY <1>1, <1>2, <1>3

\* A seek, wherever it goes and wherever it comes from.
LEMMA SeekPlays ==
    ASSUME Recorded, NEW p, Playing(p), NEW to \in Nat
    PROVE  Playing(SeekTo(p, to))
<1> DEFINE target == Min({to, p.replay.tickCount})
           from == SeekFrom(p, target)
<1>1. p.replay.tickCount \in Nat /\ p.executed \in Nat
  BY FramesTyped DEF Playing, Exported
<1>2. target \in Nat
  BY <1>1 DEF Min
<1> HIDE DEF target
<1>3. Playing(from) /\ from.replay = p.replay /\ from.executed <= target
  <2>1. CASE target < p.executed
    <3>1. from = NewPlayer(p.replay)
      BY <2>1 DEF SeekFrom
    <3>2. from.executed = 0
      BY <3>1 DEF NewPlayer
    <3> QED
      BY <3>1, <3>2, <1>2, NewPlays DEF Playing
  <2>2. CASE ~ (target < p.executed)
    BY <2>2, <1>1, <1>2 DEF SeekFrom
  <2> QED
    BY <2>1, <2>2
<1> HIDE DEF from
<1>4. target - from.executed \in Nat
  <2>1. from.executed \in Nat
    BY <1>3, FramesTyped DEF Playing, Exported
  <2> QED
    BY <2>1, <1>2, <1>3
<1>5. SeekTo(p, to) = Stepped(from, target - from.executed)
  BY DEF SeekTo, target, from
<1> QED
  BY <1>3, <1>4, <1>5, SteppedPlays

\* What a viewer does to a recording.
LEMMA ViewKeeps ==
    ASSUME RInv, View, MaxTicks \in Nat
    PROVE  RInv'
<1>1. UNCHANGED <<mode, live, rec>>
  BY DEF View
<1>2. \A p : Playing(p)' <=> Playing(p)
  BY <1>1 DEF Playing, Exported, Cut
<1>3. \A p \in playback' : Playing(p)
  <2>1. ASSUME NEW p \in playback
        PROVE  Playing(Step(p)) /\ Playing(RunToEnd(p))
    <3>1. Recorded /\ Playing(p) /\ p.replay.tickCount \in Nat
      BY FramesTyped DEF RInv, Playing, Exported
    <3> QED
      BY <3>1, StepPlays, SteppedPlays DEF RunToEnd
  <2>2. ASSUME NEW p \in playback, NEW to \in 0 .. MaxTicks + 1
        PROVE  Playing(SeekTo(p, to))
    BY <2>2, SeekPlays DEF RInv
  <2> QED
    BY <2>1, <2>2 DEF View, StepOnce, Finish, Seek
<1>4. Recorded'
  BY <1>1 DEF RInv, Recorded, ReplayTyped, InStep, Cut
<1> QED
  BY <1>2, <1>3, <1>4 DEF RInv

\* Where a game and its recording begin.
LEMMA ReplayBegins ==
    ASSUME ReplayInit
    PROVE  RInv
<1>1. live = <<>> /\ rec = [tick |-> 0, frames |-> <<>>] /\ playback = {}
  BY DEF ReplayInit
<1>2. ReplayTyped /\ rec.tick = 0 /\ Len(rec.frames) = 0 /\ Len(live) = 0
  BY <1>1 DEF ReplayTyped
<1>3. Cut(0, 0)
  BY <1>2 DEF Cut
<1>4. InStep
  BY <1>2, <1>3 DEF InStep
<1> QED
  BY <1>1, <1>2, <1>4 DEF RInv, Recorded

-----------------------------------------------------------------------------
(* The game as it was.                                                     *)

\* Every tick but the last of them was there before it.
LEMMA TocksOfNextCut ==
    ASSUME Recorded, NEW n \in Nat, NEW f, NEW g, Cut(n, f), Cut(n + 1, g)
    PROVE  /\ Tocks(g + (n + 1)) = Tocks(f + n) \cup {g + (n + 1)}
           /\ g + (n + 1) \notin Tocks(f + n)
<1>1. /\ f \in Nat /\ g \in Nat /\ rec.tick \in Nat /\ n + 1 <= rec.tick
      /\ f <= Len(rec.frames) /\ g <= Len(rec.frames) /\ Len(rec.frames) \in Nat
      /\ Len(live) = rec.tick + Len(rec.frames)
  BY FramesTyped DEF Cut, Recorded, InStep
<1>2. f <= g
  <2>1. n <= n + 1
    OBVIOUS
  <2> QED
    BY <2>1, CutOrder
<1>3. live[g + (n + 1)] = Tock
  BY DEF Cut
<1>4. ASSUME NEW j \in 1 .. g + (n + 1), live[j] = Tock, j # g + (n + 1)
      PROVE  j <= f + n
  <2>1. j \in 1 .. Len(live)
    BY <1>1
  <2>2. PICK m \in 1 .. rec.tick : Cut(m, j - m)
    BY <2>1, <1>4 DEF Recorded, InStep
  <2>3. m \in Nat /\ j - m \in Nat
    BY <2>2, <1>1 DEF Cut
  <2>4. CASE m <= n
    <3>1. j - m <= f
      BY <2>2, <2>4, CutOrder
    <3> QED
      BY <3>1, <2>3, <2>4, <1>1
  <2>5. CASE m > n
    <3>1. n + 1 <= m
      BY <2>3, <2>5
    <3>2. g <= j - m
      BY <3>1, <2>2, CutOrder
    <3> QED
      BY <3>1, <3>2, <2>3, <1>1, <1>4
  <2> QED
    BY <2>3, <2>4, <2>5
<1>5. f + n < g + (n + 1)
  BY <1>1, <1>2
<1>6. ASSUME NEW j
      PROVE  j \in Tocks(g + (n + 1)) <=> j \in Tocks(f + n) \cup {g + (n + 1)}
  <2>1. g + (n + 1) \in Tocks(g + (n + 1))
    BY <1>1, <1>3 DEF Tocks
  <2>2. j \in Tocks(f + n) => j \in Tocks(g + (n + 1))
    BY <1>1, <1>5 DEF Tocks
  <2>3. ASSUME j \in Tocks(g + (n + 1)), j # g + (n + 1)
        PROVE  j \in Tocks(f + n)
    BY <2>3, <1>1, <1>4 DEF Tocks
  <2> QED
    BY <2>1, <2>2, <2>3
<1> QED
  BY <1>1, <1>5, <1>6 DEF Tocks

\* Up to the n-th cut there are n ticks.
LEMMA TocksUpToCut ==
    ASSUME Recorded, NEW n, NEW f, Cut(n, f)
    PROVE  IsFiniteSet(Tocks(f + n)) /\ Cardinality(Tocks(f + n)) = n
<1> DEFINE Counted(m) == \A g : Cut(m, g) =>
              IsFiniteSet(Tocks(g + m)) /\ Cardinality(Tocks(g + m)) = m
           C == {m \in Nat : Counted(m)}
<1>1. 0 \in C
  <2> SUFFICES ASSUME NEW g, Cut(0, g)
               PROVE  IsFiniteSet(Tocks(g + 0)) /\ Cardinality(Tocks(g + 0)) = 0
    OBVIOUS
  <2>1. g \in 0 .. Len(rec.frames) /\ Len(rec.frames) \in Nat
    BY FramesTyped DEF Cut
  <2>2. g = 0
    <3> SUFFICES ASSUME g > 0 PROVE FALSE
      BY <2>1
    <3>1. rec.frames[g].tick < 0 /\ rec.frames[g].tick \in Nat
      BY <2>1, FramesTyped DEF Cut
    <3> QED
      BY <3>1
  <2>3. Tocks(g + 0) = {}
    BY <2>2 DEF Tocks
  <2> QED
    BY <2>3, FS_EmptySet
<1>2. ASSUME NEW m \in C
      PROVE  m + 1 \in C
  <2> SUFFICES ASSUME NEW g, Cut(m + 1, g)
               PROVE  /\ IsFiniteSet(Tocks(g + (m + 1)))
                      /\ Cardinality(Tocks(g + (m + 1))) = m + 1
    OBVIOUS
  <2>1. m \in Nat /\ m \in 0 .. rec.tick
    BY FramesTyped DEF Cut
  <2>2. PICK f0 \in Nat : Cut(m, f0)
    BY <2>1 DEF Recorded, InStep
  <2>3. IsFiniteSet(Tocks(f0 + m)) /\ Cardinality(Tocks(f0 + m)) = m
    BY <2>2
  <2>4. /\ Tocks(g + (m + 1)) = Tocks(f0 + m) \cup {g + (m + 1)}
        /\ g + (m + 1) \notin Tocks(f0 + m)
    BY <2>1, <2>2, TocksOfNextCut
  <2> QED
    BY <2>3, <2>4, FS_AddElement
<1> HIDE DEF C
<1>3. C = Nat
  <2>1. C \in SUBSET Nat
    BY DEF C
  <2> QED
    BY <1>1, <1>2, <2>1, Induction
<1>4. n \in Nat
  BY FramesTyped DEF Cut
<1> QED
  BY <1>3, <1>4 DEF C

\* The game right after its n-th tick ends at the n-th cut.
LEMMA PastAtCut ==
    ASSUME Recorded, NEW n, NEW f, Cut(n, f), n > 0
    PROVE  Past(n) = SubSeq(live, 1, f + n)
<1> DEFINE ends == {i \in DOMAIN live : live[i] = Tock /\ Cardinality(Tocks(i)) = n}
<1>1. /\ n \in Nat /\ f \in Nat /\ f + n \in DOMAIN live /\ DOMAIN live = 1 .. Len(live)
  <2>1. live \in Seq(Entry) /\ Len(live) = rec.tick + Len(rec.frames)
    BY DEF Recorded, ReplayTyped, InStep
  <2>2. n \in 0 .. rec.tick /\ f \in 0 .. Len(rec.frames)
    BY DEF Cut
  <2>3. DOMAIN live = 1 .. Len(live)
    BY <2>1
  <2> QED
    BY <2>1, <2>2, <2>3, FramesTyped
<1>2. f + n \in ends
  BY <1>1, TocksUpToCut DEF Cut
<1>3. ASSUME NEW i \in ends
      PROVE  i = f + n
  <2>1. PICK k \in 1 .. rec.tick : Cut(k, i - k)
    BY <1>1 DEF Recorded, InStep
  <2>2. i \in Nat /\ k \in Nat /\ (i - k) + k = i
    BY <1>1, <2>1, FramesTyped
  <2>3. Cardinality(Tocks((i - k) + k)) = k
    BY <2>1, TocksUpToCut
  <2>4. k = n
    BY <2>2, <2>3
  <2>5. Cut(n, i - n)
    BY <2>1, <2>4
  <2>6. n <= n /\ i - n \in Nat
    BY <1>1, <2>5, FramesTyped DEF Cut
  <2>7. i - n <= f /\ f <= i - n
    BY <2>5, <2>6, CutOrder
  <2> QED
    BY <2>2, <2>6, <2>7, <1>1
<1>4. ends = {f + n}
  BY <1>2, <1>3
<1>5. Past(n) = SubSeq(live, 1, Min(ends))
  <2>1. n # 0
    BY <1>1
  <2> QED
    BY <2>1 DEF Past
<1> HIDE DEF ends
<1>6. Min(ends) = f + n
  <2>1. f + n <= f + n
    BY <1>1
  <2>2. \E x \in ends : \A y \in ends : x <= y
    BY <1>4, <2>1
  <2>3. Min(ends) \in ends
    BY <2>2 DEF Min
  <2> QED
    BY <1>4, <2>3
<1> QED
  BY <1>5, <1>6

\* A player that has told its game what the game was told shows it as it was.
LEMMA PlayingAgrees ==
    ASSUME Recorded, NEW p, Playing(p)
    PROVE  p.game = Past(p.executed)
<1>1. /\ Cut(p.executed, p.cursor - 1) /\ p.executed \in Nat /\ p.cursor \in Nat \ {0}
      /\ p.game \in Seq(Entry) /\ Len(p.game) = p.executed + p.cursor - 1
      /\ \A j \in 1 .. Len(p.game) : p.game[j] = live[j]
  BY FramesTyped DEF Playing, Exported
<1>2. CASE p.executed = 0
  <2>1. p.cursor - 1 = 0
    <3> SUFFICES ASSUME p.cursor - 1 > 0 PROVE FALSE
      BY <1>1
    <3>1. PICK i \in 1 .. Len(rec.frames) : i = p.cursor - 1
      BY <1>1, FramesTyped DEF Cut
    <3>2. rec.frames[i].tick < 0 /\ rec.frames[i].tick \in Nat
      BY <3>1, <1>1, <1>2, FramesTyped DEF Cut
    <3> QED
      BY <3>2
  <2>2. Len(p.game) = 0
    BY <1>1, <1>2, <2>1
  <2>3. p.game = <<>>
    BY <1>1, <2>2, EmptySeq
  <2> QED
    BY <1>2, <2>3 DEF Past
<1>3. CASE p.executed # 0
  <2> DEFINE m == Len(p.game)
             S == SubSeq(live, 1, m)
  <2>1. m \in Nat /\ m = (p.cursor - 1) + p.executed /\ m <= Len(live)
    <3>1. Len(live) = rec.tick + Len(rec.frames)
      BY DEF Recorded, InStep
    <3>2. p.executed <= rec.tick /\ p.cursor - 1 <= Len(rec.frames)
      BY <1>1 DEF Cut
    <3>3. /\ m = p.executed + p.cursor - 1 /\ p.executed \in Nat
          /\ p.cursor \in Nat \ {0}
      BY <1>1
    <3>4. rec.tick \in Nat /\ Len(rec.frames) \in Nat
      BY FramesTyped
    <3> HIDE DEF m
    <3> DEFINE e == p.executed
               c == p.cursor
    <3> HIDE DEF e, c
    <3>5. /\ m = e + c - 1 /\ e \in Nat /\ c \in Nat \ {0}
          /\ e <= rec.tick /\ c - 1 <= Len(rec.frames)
      BY <3>2, <3>3 DEF e, c
    <3>6. m \in Nat /\ m = (c - 1) + e /\ m <= Len(live)
      BY <3>1, <3>4, <3>5
    <3> QED
      BY <3>6 DEF e, c
  <2>2. Past(p.executed) = S
    <3>1. p.executed > 0
      BY <1>1, <1>3
    <3> QED
      BY <1>1, <2>1, <3>1, PastAtCut
  <2> HIDE DEF m
  <2>3. live \in Seq(Entry) /\ 1 \in 1 .. Len(live) + 1 /\ m \in 1 - 1 .. Len(live)
    BY <2>1 DEF Recorded, ReplayTyped
  <2>4. /\ S \in Seq(Entry) /\ Len(S) = m
        /\ \A j \in 1 .. m : S[j] = live[j]
    BY <2>1, <2>3
  <2> HIDE DEF S
  <2>5. p.game = S
    <3>1. Len(p.game) = Len(S) /\ \A j \in 1 .. Len(p.game) : p.game[j] = S[j]
      BY <1>1, <2>4 DEF m
    <3> QED
      BY <1>1, <2>4, <3>1, SeqEqual
  <2> QED
    BY <2>2, <2>5
<1> QED
  BY <1>2, <1>3

\* What the players show follows from what they were told.
LEMMA RInvAgrees == RInv => PlaybackAgrees
BY PlayingAgrees DEF RInv, PlaybackAgrees
=============================================================================
