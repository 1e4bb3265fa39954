---------------------------- MODULE NetplayProofs ----------------------------
(***************************************************************************)
(* Proofs about the prediction of one side of a match: what is sent, seen  *)
(* and acknowledged keeps its order, a bot leaves the bazaar only while    *)
(* the server still has it there, and a keyframe with the unacknowledged   *)
(* queue replayed over it is the game the server is about to be in.        *)
(***************************************************************************)
EXTENDS Netplay, SequenceTheorems, NumberInduction, TLAPS

-----------------------------------------------------------------------------
(* Types.                                                                  *)

Stack == Seq({0, 1, 2})
GameType == [x : {0, 1}, y : Nat, drop : BOOLEAN, stack : Stack, struck : BOOLEAN,
             opLines : Nat, inBazaar : BOOLEAN, armed : BOOLEAN, over : BOOLEAN]
Kinds == {"MoveRight", "BeginDrop", "LaunchWeapon", "BuyWeapon", "LeaveBazaar",
          "ReceiveWeapon", "ReceiveOpScore"}
InputType == [kind : Kinds, n : Nat]
InputMsg == [type : {"input"}, seq : Nat, input : InputType]
ResyncMsg == [type : {"resync"}]
EventMsg == [type : {"event"}, input : InputType]
SnapshotMsg == [type : {"snapshot"}, ack : Nat, you : BOOLEAN, opp : BOOLEAN,
                over : BOOLEAN, lockSeq : Nat, lockHash : Stack,
                keyframe : {<<>>} \cup (GameType \X Nat)]
BoutType == [game : GameType, ack : Nat, opLines : Nat, weapons : Nat,
             opBazaar : BOOLEAN, keyframe : BOOLEAN, ended : BOOLEAN]
ClientType == [game : GameType, inputSeq : Nat, unacked : Seq(InputMsg),
               you : BOOLEAN, opp : BOOLEAN, history : Seq(Nat \X Stack),
               mismatches : Nat, judged : Int, seen : Nat, acked : Nat,
               bought : BOOLEAN, over : BOOLEAN, asked : BOOLEAN, asks : Nat]

-----------------------------------------------------------------------------
(* The inductive invariant.                                                *)

\* The ring of locks: within its size, oldest first, none of them ahead of the
\* local game.
Ring(c) ==
    /\ c.seen = LockSeq(c.game)
    /\ Len(c.history) <= LockHistory
    /\ \A i \in 1 .. Len(c.history) : c.history[i][1] <= c.seen
    /\ \A i, j \in 1 .. Len(c.history) : i < j => c.history[i][1] < c.history[j][1]

\* A Predictor: its queue is numbered from the acknowledged input on.
Client(c) ==
    /\ c \in ClientType
    /\ Ring(c)
    /\ c.acked <= c.inputSeq
    /\ Len(c.unacked) = c.inputSeq - c.acked
    /\ \A i \in 1 .. Len(c.unacked) : c.unacked[i].seq = c.acked + i

NetTyped ==
    /\ driver \in Drivers
    /\ bout \in BoutType
    /\ up \in Seq(InputMsg \cup ResyncMsg)
    /\ down \in Seq(EventMsg \cup SnapshotMsg)
    /\ Client(client)
    /\ moves \in [count : Nat, at : Int] /\ -1 <= moves.at /\ moves.at <= moves.count

\* The inputs on their way up are ones the server has not taken, in order.
Upward ==
    /\ \A i \in 1 .. Len(up) :
          up[i].type = "input" => bout.ack < up[i].seq /\ up[i].seq <= client.inputSeq
    /\ \A i, j \in 1 .. Len(up) :
          i < j /\ up[i].type = "input" /\ up[j].type = "input" => up[i].seq < up[j].seq

\* The acknowledgements on their way down are in order, between what the client
\* has heard and what the server has taken.
Downward ==
    /\ client.acked <= bout.ack /\ bout.ack <= client.inputSeq
    /\ \A i \in 1 .. Len(down) : down[i].type = "snapshot" =>
          /\ client.acked <= down[i].ack /\ down[i].ack <= bout.ack
          /\ down[i].keyframe # <<>> => down[i].keyframe[2] <= moves.count
    /\ \A i, j \in 1 .. Len(down) :
          i < j /\ down[i].type = "snapshot" /\ down[j].type = "snapshot"
          => down[i].ack <= down[j].ack

\* A bot's leave is the last thing it sent, and the server has it in the bazaar.
LeavesLast ==
    driver = "bot" =>
        \A i \in 1 .. Len(up) : up[i].type = "input" /\ up[i].input.kind = "LeaveBazaar"
            => up[i].seq = client.inputSeq /\ bout.game.inBazaar

\* What a bot believes once it has heard of all it sent is still so: only its own
\* leave takes it out of the bazaar.
Believes ==
    driver = "bot" =>
        /\ client.acked = client.inputSeq /\ client.you => bout.game.inBazaar
        /\ \A i \in 1 .. Len(down) :
              down[i].type = "snapshot" /\ down[i].ack = client.inputSeq /\ down[i].you
              => bout.game.inBazaar

NInv == NetTyped /\ Upward /\ Downward /\ LeavesLast /\ Believes

-----------------------------------------------------------------------------
(* The engine.                                                             *)

\* What a step of the engine may do to the bazaar and to the locks.
Later(g, h) ==
    /\ h \in GameType
    /\ g.inBazaar => h.inBazaar
    /\ LockSeq(g) <= LockSeq(h)

LEMMA GameFacts ==
    ASSUME NEW g \in GameType
    PROVE  /\ g.stack \in Stack /\ LockSeq(g) \in Nat /\ LockHash(g) \in Stack
           /\ g.inBazaar \in BOOLEAN /\ g.over \in BOOLEAN /\ g.armed \in BOOLEAN
           /\ g.x \in {0, 1} /\ g.opLines \in Nat
           /\ Later(g, g)
BY DEF GameType, Stack, LockSeq, LockHash, Later

\* update_bazaar only lets in.
LEMMA EnterBazaarIsLater ==
    ASSUME NEW g \in GameType, NEW before
    PROVE  Later(g, EnterBazaar(g, before))
<1> DEFINE b == g.inBazaar \/ Visits(g) > Visits(before)
           h == [g EXCEPT !.inBazaar = b]
<1>1. b \in BOOLEAN /\ (g.inBazaar => b)
  OBVIOUS
<1>2. EnterBazaar(g, before) = h
  BY DEF EnterBazaar
<1> HIDE DEF b
<1>3. h \in GameType /\ h.inBazaar = b /\ h.stack = g.stack
  BY <1>1 DEF GameType
<1>4. LockSeq(h) = LockSeq(g)
  BY <1>3 DEF LockSeq
<1> QED
  BY <1>1, <1>2, <1>3, <1>4, GameFacts DEF Later

LEMMA TickIsLater ==
    ASSUME NEW g \in GameType
    PROVE  Later(g, TickGame(g))
<1>1. CASE g.inBazaar \/ g.over
  BY <1>1, GameFacts DEF TickGame
<1>2. CASE ~ (g.inBazaar \/ g.over) /\ g.y < (IF g.drop THEN 1 ELSE Fall)
  <2> DEFINE h == [g EXCEPT !.y = @ + 1]
  <2>1. TickGame(g) = h
    BY <1>2 DEF TickGame
  <2>2. h \in GameType /\ h.inBazaar = g.inBazaar /\ h.stack = g.stack
    BY DEF GameType
  <2>3. LockSeq(h) = LockSeq(g)
    BY <2>2 DEF LockSeq
  <2> QED
    BY <2>1, <2>2, <2>3, GameFacts DEF Later
<1>3. CASE ~ (g.inBazaar \/ g.over) /\ ~ (g.y < (IF g.drop THEN 1 ELSE Fall))
  <2> DEFINE row == IF g.struck THEN 2 ELSE g.x
             locked == [g EXCEPT !.stack = Append(@, row), !.x = 0, !.y = 0,
                                 !.drop = FALSE, !.struck = FALSE]
             out == LockSeq(locked) = MaxLocks
             h == [locked EXCEPT !.over = out]
  <2>1. TickGame(g) = EnterBazaar(h, g)
    BY <1>3 DEF TickGame
  <2>2. /\ Append(g.stack, row) \in Stack
        /\ Len(Append(g.stack, row)) = LockSeq(g) + 1
    BY GameFacts DEF Stack, LockSeq
  <2>3. locked \in GameType /\ locked.stack = Append(g.stack, row)
    BY <2>2 DEF GameType
  <2> HIDE DEF locked, row
  <2>4. h \in GameType /\ h.stack = Append(g.stack, row)
    <3>1. out \in BOOLEAN
      OBVIOUS
    <3> HIDE DEF out
    <3> QED
      BY <2>3, <3>1 DEF GameType
  <2>5. LockSeq(h) = LockSeq(g) + 1
    BY <2>2, <2>4 DEF LockSeq
  <2>6. Later(h, EnterBazaar(h, g))
    BY <2>4, EnterBazaarIsLater
  <2> QED
    BY <1>3, <2>1, <2>5, <2>6, GameFacts DEF Later
<1> QED
  BY <1>1, <1>2, <1>3

\* An input locks nothing, and only a leave takes the game out of the bazaar.
LEMMA ApplyKeeps ==
    ASSUME NEW g \in GameType, NEW input \in InputType
    PROVE  /\ Apply(g, input) \in GameType /\ LockSeq(Apply(g, input)) = LockSeq(g)
           /\ input.kind # "LeaveBazaar" => (g.inBazaar => Apply(g, input).inBazaar)
<1> DEFINE k == input.kind
           h == Apply(g, input)
<1>1. k \in Kinds /\ input.n \in Nat
  BY DEF InputType
<1>2. \/ h = g
      \/ h = [g EXCEPT !.x = 1] \/ h = [g EXCEPT !.drop = TRUE]
      \/ h = [g EXCEPT !.armed = FALSE] \/ h = [g EXCEPT !.armed = TRUE]
      \/ h = [g EXCEPT !.struck = TRUE]
      \/ k = "LeaveBazaar" /\ h = [g EXCEPT !.inBazaar = FALSE]
      \/ h = EnterBazaar([g EXCEPT !.opLines = input.n], g)
  <2>1. k = "MoveRight" => h = g \/ h = [g EXCEPT !.x = 1]
    BY DEF Apply
  <2>2. k = "BeginDrop" => h = g \/ h = [g EXCEPT !.drop = TRUE]
    BY DEF Apply
  <2>3. k = "LaunchWeapon" => h = g \/ h = [g EXCEPT !.armed = FALSE]
    BY DEF Apply
  <2>4. k = "BuyWeapon" => h = g \/ h = [g EXCEPT !.armed = TRUE]
    BY DEF Apply
  <2>5. k = "LeaveBazaar" => h = [g EXCEPT !.inBazaar = FALSE]
    BY DEF Apply
  <2>6. k = "ReceiveWeapon" => h = [g EXCEPT !.struck = TRUE]
    BY DEF Apply
  <2>7. k = "ReceiveOpScore" => h = EnterBazaar([g EXCEPT !.opLines = input.n], g)
    BY DEF Apply
  <2> HIDE DEF h, k
  <2> QED
    BY <1>1, <2>1, <2>2, <2>3, <2>4, <2>5, <2>6, <2>7 DEF Kinds
<1> HIDE DEF h, k
<1>3. CASE h = EnterBazaar([g EXCEPT !.opLines = input.n], g)
  <2> DEFINE e == [g EXCEPT !.opLines = input.n]
             f == EnterBazaar(e, g)
  <2>1. e \in GameType /\ e.inBazaar = g.inBazaar
    BY <1>1 DEF GameType
  <2>2. f.stack = g.stack
    BY DEF EnterBazaar, GameType
  <2>3. Later(e, f)
    BY <2>1, EnterBazaarIsLater
  <2> HIDE DEF e
  <2>4. h = f
    BY <1>3 DEF e
  <2> QED
    BY <2>1, <2>2, <2>3, <2>4 DEF Later, LockSeq, h
<1>4. CASE k = "LeaveBazaar" /\ h = [g EXCEPT !.inBazaar = FALSE]
  <2>1. h \in GameType /\ h.stack = g.stack
    BY <1>4 DEF GameType
  <2> QED
    BY <1>4, <2>1 DEF LockSeq, h, k
<1>5. CASE \/ h = g \/ h = [g EXCEPT !.x = 1] \/ h = [g EXCEPT !.drop = TRUE]
           \/ h = [g EXCEPT !.armed = FALSE] \/ h = [g EXCEPT !.armed = TRUE]
           \/ h = [g EXCEPT !.struck = TRUE]
  <2>1. h \in GameType /\ h.stack = g.stack /\ h.inBazaar = g.inBazaar
    BY <1>5 DEF GameType
  <2> QED
    BY <2>1 DEF LockSeq, h
<1> QED
  BY <1>2, <1>3, <1>4, <1>5

-----------------------------------------------------------------------------
(* The Predictor.                                                          *)

\* A Predictor whose game may have locked since it last noted a lock.
Unnoted(c) ==
    /\ c \in ClientType
    /\ c.seen <= LockSeq(c.game)
    /\ Len(c.history) <= LockHistory
    /\ \A i \in 1 .. Len(c.history) : c.history[i][1] <= c.seen
    /\ \A i, j \in 1 .. Len(c.history) : i < j => c.history[i][1] < c.history[j][1]
    /\ c.acked <= c.inputSeq
    /\ Len(c.unacked) = c.inputSeq - c.acked
    /\ \A i \in 1 .. Len(c.unacked) : c.unacked[i].seq = c.acked + i

\* All of a Predictor but its game and its ring.
Wire(c) == <<c.inputSeq, c.unacked, c.you, c.opp, c.acked, c.bought, c.over, c.asked, c.asks>>

LEMMA ClientFacts ==
    ASSUME NEW c \in ClientType
    PROVE  /\ c.game \in GameType /\ c.inputSeq \in Nat /\ c.acked \in Nat
           /\ c.seen \in Nat /\ c.unacked \in Seq(InputMsg)
           /\ c.history \in Seq(Nat \X Stack) /\ LockSeq(c.game) \in Nat
           /\ Len(c.unacked) \in Nat /\ Len(c.history) \in Nat
           /\ c.you \in BOOLEAN /\ c.opp \in BOOLEAN /\ c.over \in BOOLEAN
           /\ c.bought \in BOOLEAN /\ c.asked \in BOOLEAN /\ c.asks \in Nat
           /\ c.judged \in Int /\ c.mismatches \in Nat
<1>1. c.game \in GameType /\ c.unacked \in Seq(InputMsg) /\ c.history \in Seq(Nat \X Stack)
  BY DEF ClientType
<1>2. LockSeq(c.game) \in Nat
  BY <1>1, GameFacts
<1>3. Len(c.unacked) \in Nat /\ Len(c.history) \in Nat
  BY <1>1
<1> QED
  BY <1>1, <1>2, <1>3 DEF ClientType

LEMMA ClientIsUnnoted ==
    ASSUME NEW c, Client(c)
    PROVE  Unnoted(c)
<1>1. c.seen = LockSeq(c.game) /\ c.seen \in Nat
  BY ClientFacts DEF Client, Ring
<1> QED
  BY <1>1 DEF Client, Ring, Unnoted

\* A later number at the end of a growing list.
LEMMA LaterGrows ==
    ASSUME NEW n \in Nat, NEW s \in Nat, NEW l \in Nat, s < l, NEW ring,
           \A i \in 1 .. n : ring[i][1] \in Nat /\ ring[i][1] <= s,
           \A i, j \in 1 .. n : i < j => ring[i][1] < ring[j][1],
           ring[n + 1][1] = l
    PROVE  /\ \A i \in 1 .. n + 1 : ring[i][1] <= l
           /\ \A i, j \in 1 .. n + 1 : i < j => ring[i][1] < ring[j][1]
<1>1. ASSUME NEW i \in 1 .. n + 1
      PROVE  ring[i][1] <= l
  <2>1. CASE i = n + 1
    BY <2>1
  <2>2. CASE i \in 1 .. n
    BY <2>2
  <2> QED
    BY <2>1, <2>2
<1>2. ASSUME NEW i \in 1 .. n + 1, NEW j \in 1 .. n + 1, i < j
      PROVE  ring[i][1] < ring[j][1]
  <2>1. i \in 1 .. n
    BY <1>2
  <2>2. CASE j = n + 1
    <3>1. ring[i][1] \in Nat /\ ring[i][1] <= s /\ ring[j][1] = l
      BY <2>1, <2>2
    <3> QED
      BY <3>1
  <2>3. CASE j \in 1 .. n
    BY <2>1, <2>3, <1>2
  <2> QED
    BY <2>2, <2>3
<1> QED
  BY <1>1, <1>2

\* note_lock keeps the ring.
LEMMA NoteLockNotes ==
    ASSUME NEW c, Unnoted(c)
    PROVE  /\ Client(NoteLock(c)) /\ Wire(NoteLock(c)) = Wire(c)
           /\ NoteLock(c).game = c.game
<1>0. LockHistory \in Nat /\ LockHistory > 0
  BY NetplayAssumption
<1>1. CASE LockSeq(c.game) = c.seen
  BY <1>1 DEF NoteLock, Unnoted, Client, Ring
<1>2. CASE LockSeq(c.game) # c.seen
  <2> DEFINE l == LockSeq(c.game)
             h == c.history
             n == Len(c.history)
             e == <<LockSeq(c.game), LockHash(c.game)>>
             ring == Append(c.history, e)
             kept == IF Len(ring) > LockHistory THEN Tail(ring) ELSE ring
             d == [c EXCEPT !.seen = l, !.history = kept]
  <2>1. /\ c \in ClientType /\ l \in Nat /\ c.seen < l /\ h \in Seq(Nat \X Stack)
        /\ n \in Nat /\ n <= LockHistory /\ c.seen \in Nat
        /\ \A i \in 1 .. n : h[i] \in Nat \X Stack /\ h[i][1] \in Nat
    BY <1>2, ClientFacts DEF Unnoted
  <2>2. NoteLock(c) = d
    BY <1>2 DEF NoteLock
  <2>3. /\ \A i \in 1 .. n : h[i][1] <= c.seen
        /\ \A i, j \in 1 .. n : i < j => h[i][1] < h[j][1]
    BY DEF Unnoted
  <2>4. e \in Nat \X Stack /\ e[1] = l
    BY <2>1, ClientFacts, GameFacts
  <2> HIDE DEF e, l
  <2>5. /\ ring \in Seq(Nat \X Stack) /\ Len(ring) = n + 1 /\ ring[n + 1] = e
        /\ \A i \in 1 .. n : ring[i] = h[i]
    BY <2>1, <2>4
  <2> HIDE DEF ring
  <2>6. /\ \A i \in 1 .. n : ring[i][1] \in Nat /\ ring[i][1] <= c.seen
        /\ \A i, j \in 1 .. n : i < j => ring[i][1] < ring[j][1]
        /\ ring[n + 1][1] = l
    BY <2>1, <2>3, <2>4, <2>5
  <2>7. /\ \A i \in 1 .. n + 1 : ring[i][1] <= l
        /\ \A i, j \in 1 .. n + 1 : i < j => ring[i][1] < ring[j][1]
    BY <2>1, <2>6, LaterGrows
  <2>8. /\ kept \in Seq(Nat \X Stack) /\ Len(kept) <= LockHistory
        /\ \A i \in 1 .. Len(kept) : kept[i][1] <= l
        /\ \A i, j \in 1 .. Len(kept) : i < j => kept[i][1] < kept[j][1]
    <3>1. CASE n + 1 > LockHistory
      <4>1. kept = Tail(ring)
        BY <3>1, <2>5
      <4>2. /\ kept \in Seq(Nat \X Stack) /\ Len(kept) = n
            /\ \A i \in 1 .. n : kept[i] = ring[i + 1]
        BY <4>1, <2>1, <2>5
      <4>3. \A i \in 1 .. n : i + 1 \in 1 .. n + 1
        BY <2>1
      <4>4. \A i \in 1 .. n : kept[i][1] <= l
        BY <4>2, <4>3, <2>7
      <4>5. ASSUME NEW i \in 1 .. n, NEW j \in 1 .. n, i < j
            PROVE  kept[i][1] < kept[j][1]
        <5>1. i + 1 < j + 1
          BY <4>5, <2>1
        <5> QED
          BY <5>1, <4>2, <4>3, <2>7
      <4> QED
        BY <4>2, <4>4, <4>5, <2>1
    <3>2. CASE ~ (n + 1 > LockHistory)
      <4>1. kept = ring
        BY <3>2, <2>5
      <4> HIDE DEF kept
      <4>2. n + 1 <= LockHistory
        BY <3>2, <2>1, <1>0
      <4> QED
        BY <4>1, <4>2, <2>5, <2>7
    <3> QED
      BY <3>1, <3>2
  <2> HIDE DEF kept
  <2>9. /\ d \in ClientType /\ d.seen = l /\ d.history = kept /\ d.game = c.game
        /\ Wire(d) = Wire(c)
    BY <2>1, <2>8 DEF ClientType, Wire
  <2> HIDE DEF d
  <2>10. Ring(d)
    BY <2>8, <2>9 DEF Ring, l
  <2>11. /\ d.acked <= d.inputSeq /\ Len(d.unacked) = d.inputSeq - d.acked
         /\ \A i \in 1 .. Len(d.unacked) : d.unacked[i].seq = d.acked + i
    BY <2>9 DEF Unnoted, Wire
  <2> QED
    BY <2>2, <2>9, <2>10, <2>11 DEF Client
<1> QED
  BY <1>1, <1>2

\* Of a queue numbered from a + 1 on, retain keeps the tail.
LEMMA RetainIsTail ==
    ASSUME NEW msgs \in Seq(InputMsg), NEW a \in Nat, NEW seq \in Nat,
           a <= seq, seq <= a + Len(msgs),
           \A i \in 1 .. Len(msgs) : msgs[i].seq = a + i
    PROVE  /\ Retain(msgs, seq) \in Seq(InputMsg)
           /\ Len(Retain(msgs, seq)) = a + Len(msgs) - seq
           /\ \A i \in 1 .. a + Len(msgs) - seq :
                 Retain(msgs, seq)[i] = msgs[seq - a + i]
<1> DEFINE n == Len(msgs)
           d == seq - a
           Kept(f) == f = [i \in 0 .. n |->
                              IF i = 0 THEN <<>>
                              ELSE IF msgs[i].seq > seq THEN Append(f[i - 1], msgs[i])
                              ELSE f[i - 1]]
           w == [k \in 0 .. n |-> SubSeq(msgs, d + 1, k)]
<1>1. /\ n \in Nat /\ d \in 0 .. n
      /\ \A i \in 1 .. n : msgs[i] \in InputMsg /\ (msgs[i].seq > seq <=> i > d)
  OBVIOUS
<1>2. w[0] = <<>>
  <2>1. SubSeq(msgs, d + 1, 0) = <<>>
    BY <1>1, SubSeqEmpty
  <2> QED
    BY <2>1, <1>1
<1>3. ASSUME NEW i \in 1 .. n
      PROVE  w[i] = IF i > d THEN Append(w[i - 1], msgs[i]) ELSE w[i - 1]
  <2>1. i - 1 \in 0 .. n /\ i \in 0 .. n
    BY <1>1
  <2>2. w[i] = SubSeq(msgs, d + 1, i) /\ w[i - 1] = SubSeq(msgs, d + 1, i - 1)
    BY <2>1
  <2>3. CASE i > d
    <3>1. d + 1 \in 1 .. Len(msgs) /\ i \in d + 1 .. Len(msgs)
      BY <2>3, <1>1
    <3>2. SubSeq(msgs, d + 1, i) = SubSeq(msgs, d + 1, i - 1) \o <<msgs[i]>>
      BY <3>1, SubSeqRecursiveSecond
    <3>3. SubSeq(msgs, d + 1, i - 1) \in Seq(InputMsg)
      <4>1. d + 1 \in Int /\ i - 1 \in Int /\ \A j \in d + 1 .. i - 1 : msgs[j] \in InputMsg
        BY <1>1
      <4> QED
        BY <4>1, SubSeqProperties
    <3>4. SubSeq(msgs, d + 1, i - 1) \o <<msgs[i]>> = Append(SubSeq(msgs, d + 1, i - 1), msgs[i])
      BY <3>3, <1>1, AppendIsConcat
    <3> QED
      BY <2>2, <2>3, <3>2, <3>4
  <2>4. CASE ~ (i > d)
    <3>1. d + 1 \in Int /\ i \in Int /\ i - 1 \in Int /\ i < d + 1 /\ i - 1 < d + 1
      BY <2>4, <1>1
    <3>2. SubSeq(msgs, d + 1, i) = <<>> /\ SubSeq(msgs, d + 1, i - 1) = <<>>
      BY <3>1, SubSeqEmpty
    <3> QED
      BY <2>2, <2>4, <3>2
  <2> QED
    BY <2>3, <2>4
<1>4. Kept(w)
  <2>1. w = [k \in 0 .. n |-> w[k]]
    OBVIOUS
  <2>2. ASSUME NEW k \in 0 .. n
        PROVE  w[k] = IF k = 0 THEN <<>>
                      ELSE IF msgs[k].seq > seq THEN Append(w[k - 1], msgs[k]) ELSE w[k - 1]
    <3> HIDE DEF w
    <3> QED
      BY <1>1, <1>2, <1>3
  <2> HIDE DEF w
  <2> QED
    BY <2>1, <2>2
<1>5. Retain(msgs, seq) = (CHOOSE f : Kept(f))[n]
  BY DEF Retain
<1>6. PICK f : f = (CHOOSE g : Kept(g)) /\ Kept(f)
  <2> HIDE DEF Kept, w
  <2> QED
    BY <1>4
<1> HIDE DEF w
<1>12. /\ f[0] = <<>>
       /\ \A k \in 1 .. n :
             f[k] = IF msgs[k].seq > seq THEN Append(f[k - 1], msgs[k]) ELSE f[k - 1]
  <2>1. ASSUME NEW k \in 0 .. n
        PROVE  f[k] = IF k = 0 THEN <<>>
                      ELSE IF msgs[k].seq > seq THEN Append(f[k - 1], msgs[k]) ELSE f[k - 1]
    BY <1>6
  <2> HIDE DEF Kept
  <2> QED
    BY <1>1, <2>1
<1> HIDE DEF Kept
<1>7. \A k \in 0 .. n : f[k] = w[k]
  <2> DEFINE S == {k \in 0 .. n : f[k] = w[k]}
  <2>1. 0 \in S
    BY <1>1, <1>2, <1>12
  <2>2. ASSUME NEW k \in 0 .. n - 1, k \in S
        PROVE  k + 1 \in S
    <3>1. k + 1 \in 1 .. n /\ k + 1 \in 0 .. n /\ k + 1 # 0 /\ (k + 1) - 1 = k
      BY <1>1
    <3>2. f[k + 1] = IF msgs[k + 1].seq > seq THEN Append(f[k], msgs[k + 1]) ELSE f[k]
      BY <1>12, <3>1
    <3>3. w[k + 1] = IF k + 1 > d THEN Append(w[k], msgs[k + 1]) ELSE w[k]
      BY <1>3, <3>1
    <3> QED
      BY <1>1, <2>2, <3>1, <3>2, <3>3
  <2> HIDE DEF S
  <2>3. 0 .. n \subseteq S
    BY <1>1, <2>1, <2>2, InductionUpTo
  <2> QED
    BY <2>3 DEF S
<1>8. Retain(msgs, seq) = SubSeq(msgs, d + 1, n)
  <2>1. n \in 0 .. n
    BY <1>1
  <2> QED
    BY <2>1, <1>5, <1>6, <1>7 DEF w
<1>9. d + 1 \in Int /\ n \in Int /\ \A j \in d + 1 .. n : msgs[j] \in InputMsg
  BY <1>1
<1>10. /\ SubSeq(msgs, d + 1, n) \in Seq(InputMsg)
       /\ Len(SubSeq(msgs, d + 1, n)) = IF d + 1 <= n THEN n - (d + 1) + 1 ELSE 0
       /\ \A i \in 1 .. n - (d + 1) + 1 : SubSeq(msgs, d + 1, n)[i] = msgs[d + 1 + i - 1]
  BY <1>9, SubSeqProperties
<1>11. /\ n - (d + 1) + 1 = a + n - seq
       /\ (IF d + 1 <= n THEN n - (d + 1) + 1 ELSE 0) = a + n - seq
       /\ \A i \in Int : d + 1 + i - 1 = seq - a + i
  <2> HIDE DEF n
  <2> QED
    BY <1>1
<1> QED
  BY <1>8, <1>10, <1>11

\* A Predictor that went on: it may have sent more, and heard nothing.
Extends(c, d) ==
    /\ Client(d)
    /\ c.inputSeq <= d.inputSeq /\ d.acked = c.acked
    /\ d.you = c.you /\ d.opp = c.opp
    /\ \A i \in 1 .. Len(c.unacked) : d.unacked[i] = c.unacked[i]

\* Whether the leaves that it sent are all the last input.
LeavesAtEnd(c, d) ==
    \A i \in Len(c.unacked) + 1 .. Len(d.unacked) :
        d.unacked[i].input.kind = "LeaveBazaar" => d.unacked[i].seq = d.inputSeq

\* predict numbers its input, queues it, and notes the lock.
LEMMA PredictedExtends ==
    ASSUME NEW c, Client(c), NEW input \in InputType
    PROVE  /\ Extends(c, Predicted(c, input))
           /\ Predicted(c, input).inputSeq = c.inputSeq + 1
           /\ Len(Predicted(c, input).unacked) = Len(c.unacked) + 1
           /\ Predicted(c, input).unacked[Len(c.unacked) + 1].input = input
           /\ Predicted(c, input).game = IF input.kind = "LeaveBazaar" THEN c.game
                                         ELSE Apply(c.game, input)
<1> DEFINE m == [type |-> "input", seq |-> c.inputSeq + 1, input |-> input]
           queue == Append(c.unacked, m)
           g == IF input.kind = "LeaveBazaar" THEN c.game ELSE Apply(c.game, input)
           d == [c EXCEPT !.inputSeq = c.inputSeq + 1, !.unacked = queue, !.game = g]
           n == Len(c.unacked)
<1>1. /\ c \in ClientType /\ c.inputSeq \in Nat /\ c.acked \in Nat /\ n \in Nat
      /\ c.unacked \in Seq(InputMsg) /\ c.game \in GameType
      /\ c.acked <= c.inputSeq /\ n = c.inputSeq - c.acked
      /\ \A i \in 1 .. n : c.unacked[i].seq = c.acked + i
  BY ClientFacts DEF Client
<1>2. m \in InputMsg /\ m.seq = c.inputSeq + 1 /\ m.input = input
  BY <1>1 DEF InputMsg
<1>3. g \in GameType /\ LockSeq(g) = LockSeq(c.game)
  BY <1>1, ApplyKeeps
<1> HIDE DEF g, m
<1>4. /\ queue \in Seq(InputMsg) /\ Len(queue) = n + 1 /\ queue[n + 1] = m
      /\ \A i \in 1 .. n : queue[i] = c.unacked[i]
  BY <1>1, <1>2
<1> HIDE DEF queue
<1>5. /\ d \in ClientType /\ d.inputSeq = c.inputSeq + 1 /\ d.unacked = queue
      /\ d.game = g /\ d.acked = c.acked /\ d.you = c.you /\ d.opp = c.opp
      /\ d.history = c.history /\ d.seen = c.seen
  <2>1. c \in ClientType /\ c.inputSeq + 1 \in Nat /\ queue \in Seq(InputMsg) /\ g \in GameType
    BY <1>1, <1>3, <1>4
  <2>2. d \in ClientType
    BY <2>1 DEF ClientType
  <2> QED
    BY <2>1 DEF ClientType
<1>6. Predicted(c, input) = NoteLock(d)
  BY DEF Predicted, d, queue, g, m
<1> HIDE DEF d
<1>7. /\ d.acked <= d.inputSeq /\ Len(d.unacked) = d.inputSeq - d.acked
      /\ \A i \in 1 .. Len(d.unacked) : d.unacked[i].seq = d.acked + i
  <2> HIDE DEF n
  <2>1. d.acked <= d.inputSeq /\ Len(d.unacked) = d.inputSeq - d.acked
    BY <1>1, <1>4, <1>5
  <2>2. ASSUME NEW i \in 1 .. n + 1
        PROVE  queue[i].seq = c.acked + i
    <3>1. CASE i = n + 1
      <4>1. queue[i].seq = c.inputSeq + 1
        BY <1>2, <1>4, <3>1
      <4> QED
        BY <1>1, <3>1, <4>1
    <3>2. CASE i \in 1 .. n
      BY <1>1, <1>4, <3>2
    <3> QED
      BY <1>1, <3>1, <3>2
  <2> QED
    BY <1>4, <1>5, <2>1, <2>2
<1>8. Unnoted(d)
  <2>1. c.seen = LockSeq(c.game) /\ c.seen \in Nat
    BY <1>1, ClientFacts DEF Client, Ring
  <2>2. d.seen <= LockSeq(d.game)
    BY <1>3, <1>5, <2>1
  <2> QED
    BY <1>5, <1>7, <2>2 DEF Unnoted, Client, Ring
<1>9. Client(NoteLock(d)) /\ Wire(NoteLock(d)) = Wire(d) /\ NoteLock(d).game = g
  BY <1>5, <1>8, NoteLockNotes
<1>10. /\ NoteLock(d).inputSeq = c.inputSeq + 1 /\ NoteLock(d).unacked = queue
       /\ NoteLock(d).acked = c.acked /\ NoteLock(d).you = c.you
       /\ NoteLock(d).opp = c.opp
  BY <1>5, <1>9 DEF Wire
<1>11. c.inputSeq <= c.inputSeq + 1
  BY <1>1
<1> QED
  BY <1>2, <1>4, <1>6, <1>9, <1>10, <1>11 DEF Extends, g

LEMMA ExtendsItself ==
    ASSUME NEW c, Client(c)
    PROVE  Extends(c, c) /\ LeavesAtEnd(c, c)
<1>1. c.inputSeq \in Nat /\ Len(c.unacked) \in Nat
  BY ClientFacts DEF Client
<1> QED
  BY <1>1 DEF Extends, LeavesAtEnd

\* One prediction after others none of which was a leave.
LEMMA PredictExtends ==
    ASSUME NEW c, Client(c), NEW d, Extends(c, d), NEW input \in InputType,
           \A i \in Len(c.unacked) + 1 .. Len(d.unacked) :
              d.unacked[i].input.kind # "LeaveBazaar"
    PROVE  /\ Extends(c, Predict(d, input)) /\ LeavesAtEnd(c, Predict(d, input))
           /\ input.kind # "LeaveBazaar" =>
                 \A i \in Len(c.unacked) + 1 .. Len(Predict(d, input).unacked) :
                     Predict(d, input).unacked[i].input.kind # "LeaveBazaar"
<1> DEFINE e == Predicted(d, input)
           n == Len(c.unacked)
           k == Len(d.unacked)
<1>1. CASE ~ Accepted(d, input)
  BY <1>1 DEF Predict, LeavesAtEnd
<1>2. CASE Accepted(d, input)
  <2>1. Predict(d, input) = e
    BY <1>2 DEF Predict
  <2>2. Client(d) /\ c.inputSeq <= d.inputSeq /\ d.acked = c.acked
    BY DEF Extends
  <2>3. /\ Extends(d, e) /\ e.inputSeq = d.inputSeq + 1 /\ Len(e.unacked) = k + 1
        /\ e.unacked[k + 1].input = input
    BY <2>2, PredictedExtends
  <2> HIDE DEF e
  <2>4. /\ n \in Nat /\ k \in Nat /\ c.inputSeq \in Nat /\ d.inputSeq \in Nat
        /\ c.acked \in Nat /\ n = c.inputSeq - c.acked /\ k = d.inputSeq - d.acked
    BY <2>2, ClientFacts DEF Client
  <2>5. n <= k /\ c.inputSeq <= d.inputSeq + 1
    BY <2>2, <2>4
  <2>6. Extends(c, e)
    <3>1. \A i \in 1 .. n : e.unacked[i] = c.unacked[i]
      <4>1. \A i \in 1 .. n : i \in 1 .. k
        BY <2>4, <2>5
      <4>2. \A i \in 1 .. k : e.unacked[i] = d.unacked[i]
        BY <2>3 DEF Extends
      <4>3. \A i \in 1 .. n : d.unacked[i] = c.unacked[i]
        BY DEF Extends
      <4> HIDE DEF n, k
      <4> QED
        BY <4>1, <4>2, <4>3
    <3> QED
      BY <2>3, <2>5, <3>1 DEF Extends
  <2>7. ASSUME NEW i \in n + 1 .. k + 1
        PROVE  /\ i # k + 1 => e.unacked[i].input.kind # "LeaveBazaar"
               /\ i = k + 1 => e.unacked[i].input = input /\ e.unacked[i].seq = e.inputSeq
    <3>1. CASE i # k + 1
      <4>1. i \in n + 1 .. k /\ i \in 1 .. k
        BY <3>1, <2>4, SMTT(30)
      <4>2. e.unacked[i] = d.unacked[i]
        BY <4>1, <2>3 DEF Extends
      <4> QED
        BY <4>1, <4>2, <3>1
    <3>2. CASE i = k + 1
      <4>1. k + 1 \in 1 .. Len(e.unacked)
        BY <2>3, <2>4
      <4>2. e.unacked[k + 1].seq = e.acked + (k + 1)
        BY <2>3, <4>1 DEF Extends, Client
      <4>3. e.acked = d.acked
        BY <2>3 DEF Extends
      <4> QED
        BY <4>2, <4>3, <3>2, <2>2, <2>3, <2>4
    <3> QED
      BY <3>1, <3>2
  <2>8. LeavesAtEnd(c, e)
    BY <2>3, <2>7 DEF LeavesAtEnd
  <2> QED
    BY <2>1, <2>3, <2>6, <2>7, <2>8
<1> QED
  BY <1>1, <1>2

\* predict, one input after another.
LEMMA PredictAllRuns ==
    ASSUME NEW c, Client(c), NEW inputs \in Seq(InputType)
    PROVE  \E f : /\ f[0] = c /\ PredictAll(c, inputs) = f[Len(inputs)]
                  /\ \A k \in 1 .. Len(inputs) : f[k] = Predict(f[k - 1], inputs[k])
<1> DEFINE n == Len(inputs)
           V == {d \in ClientType : Client(d)}
           After(f) == f = [i \in 0 .. n |-> IF i = 0 THEN c ELSE Predict(f[i - 1], inputs[i])]
           step == [kv \in Nat \X V |->
                      IF kv[1] \in 1 .. n THEN Predict(kv[2], inputs[kv[1]]) ELSE kv[2]]
<1>1. n \in Nat /\ \A i \in 1 .. n : inputs[i] \in InputType
  OBVIOUS
<1>2. c \in V
  BY DEF Client
<1>3. ASSUME NEW d \in V, NEW input \in InputType
      PROVE  Predict(d, input) \in V
  <2>1. Client(d)
    OBVIOUS
  <2>2. Client(Predicted(d, input))
    BY <2>1, PredictedExtends DEF Extends
  <2> QED
    BY <2>1, <2>2 DEF Predict, Client
<1>4. step \in [Nat \X V -> V]
  <2>1. ASSUME NEW kv \in Nat \X V
        PROVE  (IF kv[1] \in 1 .. n THEN Predict(kv[2], inputs[kv[1]]) ELSE kv[2]) \in V
    <3>1. kv[2] \in V
      OBVIOUS
    <3> HIDE DEF V
    <3> QED
      BY <1>1, <1>3, <3>1
  <2> HIDE DEF V
  <2> QED
    BY <2>1
<1> HIDE DEF V
<1>5. PICK f : Recurs(f, V, c, step, n)
  <2> HIDE DEF step, n, After
  <2>1. n \in Nat /\ c \in V
    BY <1>1, <1>2
  <2> QED
    BY <2>1, <1>4, RecursiveFunction
<1>6. After(f)
  <2>1. ASSUME NEW k \in 0 .. n
        PROVE  f[k] = IF k = 0 THEN c ELSE Predict(f[k - 1], inputs[k])
    <3>1. k # 0 => k \in 1 .. n /\ k \in Nat /\ k - 1 \in 0 .. n
      BY <1>1
    <3>2. k # 0 => <<k, f[k - 1]>> \in Nat \X V /\ f[k] = step[<<k, f[k - 1]>>]
      <4> HIDE DEF n, step
      <4> QED
        BY <1>5, <3>1 DEF Recurs
    <3> QED
      BY <1>5, <3>1, <3>2 DEF Recurs
  <2>2. f = [k \in 0 .. n |-> f[k]]
    BY <1>5 DEF Recurs
  <2> QED
    BY <2>1, <2>2
<1>7. PredictAll(c, inputs) = (CHOOSE g : After(g))[n]
  BY DEF PredictAll
<1>8. PICK g : g = (CHOOSE h : After(h)) /\ After(g)
  <2> HIDE DEF After
  <2> QED
    BY <1>6
<1>9. ASSUME NEW k \in 0 .. n
      PROVE  g[k] = IF k = 0 THEN c ELSE Predict(g[k - 1], inputs[k])
  BY <1>8
<1> HIDE DEF After
<1>10. g[0] = c /\ \A k \in 1 .. n : g[k] = Predict(g[k - 1], inputs[k])
  BY <1>1, <1>9
<1> QED
  BY <1>7, <1>8, <1>10

\* Inputs none of which but the last is a leave.
LEMMA PredictAllExtends ==
    ASSUME NEW c, Client(c), NEW inputs \in Seq(InputType),
           \A j \in 1 .. Len(inputs) - 1 : inputs[j].kind # "LeaveBazaar"
    PROVE  /\ Extends(c, PredictAll(c, inputs)) /\ LeavesAtEnd(c, PredictAll(c, inputs))
           /\ (\A j \in 1 .. Len(inputs) : inputs[j].kind # "LeaveBazaar") =>
                 \A i \in Len(c.unacked) + 1 .. Len(PredictAll(c, inputs).unacked) :
                    PredictAll(c, inputs).unacked[i].input.kind # "LeaveBazaar"
<1> DEFINE n == Len(inputs)
           Leaveless(d) == \A i \in Len(c.unacked) + 1 .. Len(d.unacked) :
                         d.unacked[i].input.kind # "LeaveBazaar"
           Stays == \A j \in 1 .. n : inputs[j].kind # "LeaveBazaar"
<1>1. PICK f : /\ f[0] = c /\ PredictAll(c, inputs) = f[n]
               /\ \A k \in 1 .. n : f[k] = Predict(f[k - 1], inputs[k])
  BY PredictAllRuns
<1>2. n \in Nat /\ \A i \in 1 .. n : inputs[i] \in InputType
  OBVIOUS
<1> DEFINE S == {k \in 0 .. n : /\ Extends(c, f[k]) /\ LeavesAtEnd(c, f[k])
                                /\ k < n \/ Stays => Leaveless(f[k])}
<1>3. 0 \in S
  <2>1. Extends(c, c) /\ LeavesAtEnd(c, c)
    BY ExtendsItself
  <2>2. Leaveless(c)
    <3>1. Len(c.unacked) \in Nat
      BY ClientFacts DEF Client
    <3> QED
      BY <3>1
  <2> HIDE DEF Leaveless, n
  <2> QED
    BY <1>1, <1>2, <2>1, <2>2
<1>4. ASSUME NEW k \in 0 .. n - 1, k \in S
      PROVE  k + 1 \in S
  <2>1. k < n /\ k + 1 \in 1 .. n /\ k + 1 \in 0 .. n /\ (k + 1) - 1 = k
    BY <1>2
  <2>2. Extends(c, f[k]) /\ Leaveless(f[k])
    BY <1>4, <2>1
  <2>3. f[k + 1] = Predict(f[k], inputs[k + 1])
    BY <1>1, <2>1
  <2>4. inputs[k + 1] \in InputType
    BY <1>2, <2>1
  <2>5. /\ Extends(c, f[k + 1]) /\ LeavesAtEnd(c, f[k + 1])
        /\ inputs[k + 1].kind # "LeaveBazaar" => Leaveless(f[k + 1])
    BY <2>2, <2>3, <2>4, PredictExtends
  <2>6. k + 1 < n \/ Stays => inputs[k + 1].kind # "LeaveBazaar"
    BY <1>2, <2>1
  <2> HIDE DEF Leaveless, n
  <2> QED
    BY <2>1, <2>5, <2>6
<1>5. n \in S
  <2> HIDE DEF S, n
  <2>1. 0 .. n \subseteq S
    BY <1>2, <1>3, <1>4, InductionUpTo
  <2> QED
    BY <1>2, <2>1
<1> QED
  BY <1>1, <1>5

LEMMA ReplayKeeps ==
    ASSUME NEW g \in GameType, NEW m \in InputMsg
    PROVE  Replay(g, m) \in GameType
<1>1. m.input \in InputType
  BY DEF InputMsg
<1> QED
  BY <1>1, ApplyKeeps DEF Replay

\* A replayed queue makes a game.
LEMMA ReplayAllKeeps ==
    ASSUME NEW g \in GameType, NEW msgs \in Seq(InputMsg)
    PROVE  ReplayAll(g, msgs) \in GameType
<1> DEFINE n == Len(msgs)
           After(f) == f = [i \in 0 .. n |-> IF i = 0 THEN g ELSE Replay(f[i - 1], msgs[i])]
           step == [kv \in Nat \X GameType |->
                      IF kv[1] \in 1 .. n THEN Replay(kv[2], msgs[kv[1]]) ELSE kv[2]]
<1>1. n \in Nat /\ \A i \in 1 .. n : msgs[i] \in InputMsg
  OBVIOUS
<1>2. step \in [Nat \X GameType -> GameType]
  <2>1. ASSUME NEW kv \in Nat \X GameType
        PROVE  (IF kv[1] \in 1 .. n THEN Replay(kv[2], msgs[kv[1]]) ELSE kv[2]) \in GameType
    <3>1. kv[2] \in GameType
      OBVIOUS
    <3> QED
      BY <1>1, <3>1, ReplayKeeps
  <2> QED
    BY <2>1
<1>3. PICK f : Recurs(f, GameType, g, step, n)
  <2> HIDE DEF step, n, After
  <2>1. n \in Nat /\ g \in GameType
    BY <1>1
  <2> QED
    BY <2>1, <1>2, RecursiveFunction
<1>4. After(f)
  <2>1. ASSUME NEW k \in 0 .. n
        PROVE  f[k] = IF k = 0 THEN g ELSE Replay(f[k - 1], msgs[k])
    <3>1. k # 0 => k \in 1 .. n /\ k \in Nat /\ k - 1 \in 0 .. n
      BY <1>1
    <3>2. k # 0 => <<k, f[k - 1]>> \in Nat \X GameType /\ f[k] = step[<<k, f[k - 1]>>]
      <4> HIDE DEF n, step
      <4> QED
        BY <1>3, <3>1 DEF Recurs
    <3> QED
      BY <1>3, <3>1, <3>2 DEF Recurs
  <2>2. f = [k \in 0 .. n |-> f[k]]
    BY <1>3 DEF Recurs
  <2> QED
    BY <2>1, <2>2
<1>5. ReplayAll(g, msgs) = (CHOOSE h : After(h))[n]
  BY DEF ReplayAll
<1>6. PICK h : h = (CHOOSE e : After(e)) /\ After(h)
  <2> HIDE DEF After
  <2> QED
    BY <1>4
<1>7. ASSUME NEW k \in 0 .. n
      PROVE  h[k] = IF k = 0 THEN g ELSE Replay(h[k - 1], msgs[k])
  BY <1>6
<1> HIDE DEF After
<1> DEFINE S == {k \in 0 .. n : h[k] \in GameType}
<1>8. 0 \in S
  BY <1>1, <1>7
<1>9. ASSUME NEW k \in 0 .. n - 1, k \in S
      PROVE  k + 1 \in S
  <2>1. k + 1 \in 1 .. n /\ k + 1 \in 0 .. n /\ k + 1 # 0 /\ (k + 1) - 1 = k
    BY <1>1
  <2>2. h[k + 1] = Replay(h[k], msgs[k + 1])
    BY <1>7, <2>1
  <2>3. msgs[k + 1] \in InputMsg
    BY <1>1, <2>1
  <2> QED
    BY <1>9, <2>1, <2>2, <2>3, ReplayKeeps
<1>10. n \in S
  <2> HIDE DEF S, n
  <2>1. 0 .. n \subseteq S
    BY <1>1, <1>8, <1>9, InductionUpTo
  <2> QED
    BY <1>1, <2>1
<1> QED
  BY <1>5, <1>6, <1>10

\* What on_snapshot writes.
LEMMA ReadIsTyped ==
    ASSUME NEW c \in ClientType, NEW you \in BOOLEAN, NEW opp \in BOOLEAN,
           NEW over \in BOOLEAN, NEW bought \in BOOLEAN, NEW ack \in Nat,
           NEW tail \in Seq(InputMsg)
    PROVE  [c EXCEPT !.you = you, !.opp = opp, !.unacked = tail, !.acked = ack,
                     !.over = over, !.bought = bought] \in ClientType
BY ZenonT(60) DEF ClientType

LEMMA GameIsTyped ==
    ASSUME NEW c \in ClientType, NEW g \in GameType
    PROVE  /\ [c EXCEPT !.game = g] \in ClientType
           /\ [c EXCEPT !.game = g, !.history = <<>>, !.mismatches = 0, !.judged = -1,
                        !.seen = LockSeq(g)] \in ClientType
<1>1. <<>> \in Seq(Nat \X Stack) /\ 0 \in Nat /\ -1 \in Int /\ LockSeq(g) \in Nat
  BY GameFacts
<1>2. [c EXCEPT !.game = g, !.history = <<>>, !.mismatches = 0, !.judged = -1,
                !.seen = LockSeq(g)] \in ClientType
  BY <1>1 DEF ClientType
<1>3. [c EXCEPT !.game = g] \in ClientType
  BY DEF ClientType
<1> QED
  BY <1>2, <1>3

\* on_snapshot drops what is acknowledged, and nothing else, from the queue.
LEMMA SnapshotKeeps ==
    ASSUME NEW c, Client(c), NEW s \in SnapshotMsg, c.acked <= s.ack, s.ack <= c.inputSeq
    PROVE  /\ Client(OnSnapshot(c, s)) /\ OnSnapshot(c, s).inputSeq = c.inputSeq
           /\ OnSnapshot(c, s).acked = s.ack /\ OnSnapshot(c, s).you = s.you
           /\ OnSnapshot(c, s).opp = s.opp
           /\ OnSnapshot(c, s).unacked = Retain(c.unacked, s.ack)
           /\ s.keyframe # <<>> =>
                 OnSnapshot(c, s).game = ReplayAll(s.keyframe[1], Retain(c.unacked, s.ack))
           /\ s.keyframe = <<>> =>
                 OnSnapshot(c, s).game = IF c.you /\ ~s.you
                                         THEN [c.game EXCEPT !.inBazaar = FALSE] ELSE c.game
<1> DEFINE tail == Retain(c.unacked, s.ack)
           read == [c EXCEPT !.you = s.you, !.opp = s.opp, !.unacked = tail,
                             !.acked = s.ack, !.over = s.over,
                             !.bought = @ /\ s.you]
           restored == ReplayAll(s.keyframe[1], tail)
           fresh == [read EXCEPT !.game = restored, !.history = <<>>, !.mismatches = 0,
                                 !.judged = -1, !.seen = LockSeq(restored)]
           released == IF c.you /\ ~s.you THEN [read EXCEPT !.game.inBazaar = FALSE] ELSE read
<1> HIDE DEF tail, read, restored, fresh, released
<1>1. /\ c \in ClientType /\ c.inputSeq \in Nat /\ c.acked \in Nat
      /\ c.unacked \in Seq(InputMsg) /\ c.game \in GameType /\ c.bought \in BOOLEAN
      /\ Len(c.unacked) \in Nat /\ Len(c.unacked) = c.inputSeq - c.acked
      /\ \A i \in 1 .. Len(c.unacked) : c.unacked[i].seq = c.acked + i
  BY ClientFacts DEF Client
<1>2. /\ s.ack \in Nat /\ s.you \in BOOLEAN /\ s.opp \in BOOLEAN /\ s.over \in BOOLEAN
      /\ s.keyframe \in {<<>>} \cup (GameType \X Nat)
  BY DEF SnapshotMsg
<1>3. c.acked + Len(c.unacked) = c.inputSeq
  BY <1>1
<1>4. /\ tail \in Seq(InputMsg) /\ Len(tail) = c.inputSeq - s.ack
      /\ \A i \in 1 .. c.inputSeq - s.ack : tail[i] = c.unacked[s.ack - c.acked + i]
  <2>1. s.ack <= c.acked + Len(c.unacked)
    BY <1>3
  <2>2. /\ tail \in Seq(InputMsg) /\ Len(tail) = c.acked + Len(c.unacked) - s.ack
        /\ \A i \in 1 .. c.acked + Len(c.unacked) - s.ack :
              tail[i] = c.unacked[s.ack - c.acked + i]
    BY <1>1, <1>2, <2>1, RetainIsTail, ZenonT(60) DEF tail
  <2>3. c.acked + Len(c.unacked) - s.ack = c.inputSeq - s.ack
    BY <1>1, <1>2, <1>3
  <2> QED
    BY <2>2, <2>3
<1>5. \A i \in 1 .. Len(tail) : tail[i].seq = s.ack + i
  <2> SUFFICES ASSUME NEW i \in 1 .. c.inputSeq - s.ack
               PROVE  tail[i].seq = s.ack + i
    BY <1>4
  <2>1. s.ack - c.acked + i \in 1 .. Len(c.unacked)
    BY <1>1, <1>2
  <2>2. c.unacked[s.ack - c.acked + i].seq = c.acked + (s.ack - c.acked + i)
    BY <1>1, <2>1
  <2>3. c.acked + (s.ack - c.acked + i) = s.ack + i
    BY <1>1, <1>2
  <2>4. tail[i] = c.unacked[s.ack - c.acked + i]
    BY <1>4
  <2> QED
    BY <2>2, <2>3, <2>4
<1>6. /\ read \in ClientType /\ read.inputSeq = c.inputSeq /\ read.acked = s.ack
      /\ read.unacked = tail /\ read.you = s.you /\ read.game = c.game /\ read.opp = s.opp
      /\ read.history = c.history /\ read.seen = c.seen
  <2>1. (c.bought /\ s.you) \in BOOLEAN
    OBVIOUS
  <2>2. /\ s.you \in BOOLEAN /\ s.opp \in BOOLEAN /\ s.over \in BOOLEAN
        /\ s.ack \in Nat /\ tail \in Seq(InputMsg) /\ c \in ClientType
    BY <1>1, <1>2, <1>4
  <2>3. read \in ClientType
    BY <2>1, <2>2, ReadIsTyped, ZenonT(60) DEF read
  <2> QED
    BY <2>2, <2>3 DEF ClientType, read
<1>7. CASE s.keyframe # <<>>
  <2>1. restored \in GameType
    <3>1. s.keyframe[1] \in GameType
      BY <1>2, <1>7
    <3> QED
      BY <3>1, <1>4, ReplayAllKeeps DEF restored
  <2>2. LockSeq(restored) \in Nat
    BY <2>1, GameFacts
  <2>3. OnSnapshot(c, s) = fresh
    BY <1>7 DEF OnSnapshot, fresh, restored, read, tail, None
  <2>4. /\ fresh \in ClientType /\ fresh.inputSeq = c.inputSeq /\ fresh.acked = s.ack
        /\ fresh.unacked = tail /\ fresh.you = s.you /\ fresh.game = restored
        /\ fresh.history = <<>> /\ fresh.seen = LockSeq(restored) /\ fresh.opp = s.opp
    <3>1. fresh \in ClientType
      BY <1>6, <2>1, GameIsTyped DEF fresh
    <3> QED
      BY <1>6, <3>1 DEF ClientType, fresh
  <2>5. Ring(fresh)
    <3>1. Len(<<>>) = 0 /\ 0 <= LockHistory
      BY NetplayAssumption
    <3> QED
      BY <2>4, <3>1 DEF Ring
  <2> QED
    BY <1>4, <1>5, <1>7, <2>3, <2>4, <2>5 DEF Client, restored, tail
<1>8. CASE ~ (s.keyframe # <<>>)
  <2>1. OnSnapshot(c, s) = NoteLock(released)
    BY <1>8 DEF OnSnapshot, released, read, tail
  <2>2. /\ released \in ClientType /\ released.inputSeq = c.inputSeq
        /\ released.acked = s.ack /\ released.unacked = tail /\ released.you = s.you
        /\ LockSeq(released.game) = LockSeq(c.game) /\ released.opp = s.opp
        /\ released.history = c.history /\ released.seen = c.seen
        /\ released.game = IF c.you /\ ~s.you THEN [c.game EXCEPT !.inBazaar = FALSE]
                           ELSE c.game
    <3>1. CASE c.you /\ ~s.you
      <4> DEFINE e == [read EXCEPT !.game.inBazaar = FALSE]
                 g == [c.game EXCEPT !.inBazaar = FALSE]
      <4>1. g \in GameType /\ g.stack = c.game.stack
        BY <1>1 DEF GameType
      <4>2. e = [read EXCEPT !.game = g]
        BY <1>6
      <4> HIDE DEF g
      <4>3. [read EXCEPT !.game = g] \in ClientType
        BY <1>6, <4>1, GameIsTyped
      <4>4. /\ e.inputSeq = c.inputSeq /\ e.acked = s.ack /\ e.unacked = tail
            /\ e.you = s.you /\ e.game = g /\ e.history = c.history /\ e.seen = c.seen
            /\ e.opp = s.opp
        BY <1>6, <4>2 DEF ClientType
      <4>5. released = e
        BY <3>1 DEF released
      <4> HIDE DEF e
      <4>6. g = [c.game EXCEPT !.inBazaar = FALSE]
        BY DEF g
      <4> QED
        BY <3>1, <4>1, <4>2, <4>3, <4>4, <4>5, <4>6 DEF LockSeq
    <3>2. CASE ~ (c.you /\ ~s.you)
      BY <3>2, <1>6 DEF released
    <3> QED
      BY <3>1, <3>2
  <2>3. Unnoted(released)
    <3>1. c.seen = LockSeq(c.game) /\ c.seen \in Nat
      BY <1>1, ClientFacts DEF Client, Ring
    <3>2. released.seen <= LockSeq(released.game)
      BY <2>2, <3>1
    <3>3. \A i \in 1 .. Len(released.unacked) : released.unacked[i].seq = released.acked + i
      BY <1>5, <2>2
    <3> QED
      BY <1>4, <2>2, <3>2, <3>3 DEF Unnoted, Client, Ring
  <2>4. /\ Client(NoteLock(released)) /\ Wire(NoteLock(released)) = Wire(released)
        /\ NoteLock(released).game = released.game
    BY <2>3, NoteLockNotes
  <2> QED
    BY <1>8, <2>1, <2>2, <2>4 DEF Wire, tail
<1> QED
  BY <1>7, <1>8

\* on_lock_hash counts, and keeps the rest.
LEMMA LockHashKeeps ==
    ASSUME NEW c, Client(c), NEW s \in SnapshotMsg
    PROVE  /\ Client(OnLockHash(c, s)[1]) /\ Wire(OnLockHash(c, s)[1]) = Wire(c)
           /\ OnLockHash(c, s)[1].game = c.game
<1> DEFINE m == OnLockHash(c, s)[1]
<1>1. \/ m = c
      \/ \E n \in Nat : m = [c EXCEPT !.judged = s.lockSeq, !.mismatches = n]
  <2>1. c.mismatches + 1 \in Nat /\ 0 \in Nat
    BY DEF Client, ClientType
  <2> QED
    BY <2>1 DEF OnLockHash
<1>2. CASE m = c
  BY <1>2
<1>3. ASSUME NEW n \in Nat, m = [c EXCEPT !.judged = s.lockSeq, !.mismatches = n]
      PROVE  Client(m) /\ Wire(m) = Wire(c) /\ m.game = c.game
  <2>1. c \in ClientType /\ s.lockSeq \in Int
    BY DEF Client, SnapshotMsg
  <2> HIDE DEF m
  <2>2. m \in ClientType
    BY <1>3, <2>1 DEF ClientType
  <2>3. /\ Wire(m) = Wire(c) /\ m.game = c.game /\ m.seen = c.seen
        /\ m.history = c.history
    BY <1>3, <2>1 DEF ClientType, Wire
  <2> QED
    BY <2>2, <2>3 DEF Client, Ring, Wire
<1> QED
  BY <1>1, <1>2, <1>3

\* What goes up: the new end of the queue.
LEMMA SentIsNew ==
    ASSUME NEW c, Client(c), NEW d, Extends(c, d)
    PROVE  /\ Sent(c, d) \in Seq(InputMsg) /\ Len(Sent(c, d)) = d.inputSeq - c.inputSeq
           /\ Len(d.unacked) = Len(c.unacked) + (d.inputSeq - c.inputSeq)
           /\ \A i \in 1 .. d.inputSeq - c.inputSeq :
                 /\ Sent(c, d)[i] = d.unacked[Len(c.unacked) + i]
                 /\ Sent(c, d)[i].seq = c.inputSeq + i
<1> DEFINE k == Len(c.unacked)
           n == Len(d.unacked)
<1>1. /\ c.inputSeq \in Nat /\ c.acked \in Nat /\ d.inputSeq \in Nat /\ d.acked = c.acked
      /\ d.unacked \in Seq(InputMsg) /\ k \in Nat /\ n \in Nat
      /\ k = c.inputSeq - c.acked /\ n = d.inputSeq - c.acked
      /\ c.inputSeq <= d.inputSeq /\ c.acked <= c.inputSeq
      /\ \A i \in 1 .. n : d.unacked[i].seq = c.acked + i
  BY ClientFacts DEF Client, Extends
<1> HIDE DEF k, n
<1>2. /\ c.inputSeq <= c.acked + n /\ c.acked + n - c.inputSeq = d.inputSeq - c.inputSeq
      /\ c.inputSeq - c.acked = k /\ n = k + (d.inputSeq - c.inputSeq)
  BY <1>1
<1>3. /\ Sent(c, d) \in Seq(InputMsg) /\ Len(Sent(c, d)) = c.acked + n - c.inputSeq
      /\ \A i \in 1 .. c.acked + n - c.inputSeq :
            Sent(c, d)[i] = d.unacked[c.inputSeq - c.acked + i]
  <2>1. /\ Len(d.unacked) = n
        /\ \A i \in 1 .. Len(d.unacked) : d.unacked[i].seq = c.acked + i
    BY <1>1 DEF n
  <2> QED
    BY <1>1, <1>2, <2>1, RetainIsTail DEF Sent, n
<1>4. ASSUME NEW i \in 1 .. d.inputSeq - c.inputSeq
      PROVE  d.unacked[k + i].seq = c.inputSeq + i
  <2>1. /\ c.inputSeq \in Nat /\ c.acked \in Nat /\ d.inputSeq \in Nat
        /\ k = c.inputSeq - c.acked /\ n = d.inputSeq - c.acked
        /\ c.inputSeq <= d.inputSeq /\ c.acked <= c.inputSeq
    BY <1>1
  <2>2. k + i \in 1 .. n /\ c.acked + (k + i) = c.inputSeq + i
    BY <2>1
  <2> QED
    BY <1>1, <2>2
<1> QED
  BY <1>2, <1>3, <1>4 DEF k, n

-----------------------------------------------------------------------------
(* The steps.                                                              *)

\* The parts of the state, typed.
LEMMA NetFacts ==
    ASSUME NetTyped
    PROVE  /\ bout.game \in GameType /\ bout.ack \in Nat /\ bout.opLines \in Nat
           /\ bout.weapons \in Nat /\ bout.opBazaar \in BOOLEAN
           /\ bout.keyframe \in BOOLEAN /\ bout.ended \in BOOLEAN
           /\ up \in Seq(InputMsg \cup ResyncMsg) /\ Len(up) \in Nat
           /\ down \in Seq(EventMsg \cup SnapshotMsg) /\ Len(down) \in Nat
           /\ client.inputSeq \in Nat /\ client.acked \in Nat /\ client \in ClientType
           /\ client.game \in GameType /\ moves.count \in Nat /\ moves.at \in Int
           /\ \A i \in 1 .. Len(up) : up[i] \in InputMsg \cup ResyncMsg
           /\ \A i \in 1 .. Len(down) : down[i] \in EventMsg \cup SnapshotMsg
<1>1. client \in ClientType
  BY DEF NetTyped, Client
<1>2. client.inputSeq \in Nat /\ client.acked \in Nat /\ client.game \in GameType
  BY <1>1, ClientFacts
<1>3. up \in Seq(InputMsg \cup ResyncMsg) /\ down \in Seq(EventMsg \cup SnapshotMsg)
  BY DEF NetTyped
<1>4. /\ Len(up) \in Nat /\ Len(down) \in Nat
      /\ \A i \in 1 .. Len(up) : up[i] \in InputMsg \cup ResyncMsg
      /\ \A i \in 1 .. Len(down) : down[i] \in EventMsg \cup SnapshotMsg
  BY <1>3
<1> QED
  BY <1>1, <1>2, <1>3, <1>4 DEF NetTyped, BoutType

\* The kinds of message are told apart by their type.
LEMMA MessageKinds ==
    /\ \A m \in InputMsg : m.type = "input" /\ m.seq \in Nat /\ m.input \in InputType
    /\ \A m \in ResyncMsg : m.type = "resync"
    /\ \A m \in EventMsg : m.type = "event" /\ m.input \in InputType
    /\ \A m \in SnapshotMsg : m.type = "snapshot" /\ m.ack \in Nat /\ m.you \in BOOLEAN
    /\ \A m \in InputMsg \cup ResyncMsg : m.type = "input" => m \in InputMsg
    /\ \A m \in EventMsg \cup SnapshotMsg : m.type = "snapshot" => m \in SnapshotMsg
    /\ \A m \in EventMsg \cup SnapshotMsg : m.type = "event" => m \in EventMsg
BY DEF InputMsg, ResyncMsg, EventMsg, SnapshotMsg

LEMMA InitHolds == Init => NInv
<1> SUFFICES ASSUME Init PROVE NInv
  OBVIOUS
<1>1. <<>> \in Stack /\ Len(<<>>) = 0
  BY DEF Stack
<1>2. NewGame \in GameType
  BY <1>1 DEF NewGame, GameType
<1>3. NewClient \in ClientType
  <2>1. <<>> \in Seq(InputMsg) /\ <<>> \in Seq(Nat \X Stack) /\ -1 \in Int
    OBVIOUS
  <2> QED
    BY <1>2, <2>1 DEF NewClient, ClientType, None
<1>4. Client(NewClient)
  <2>1. Ring(NewClient)
    <3>1. 0 <= LockHistory
      BY NetplayAssumption
    <3> QED
      BY <1>1, <3>1 DEF Ring, NewClient, LockSeq, NewGame
  <2> QED
    BY <1>1, <1>3, <2>1 DEF Client, NewClient
<1>5. bout \in BoutType
  BY <1>2 DEF Init, BoutType
<1>6. NetTyped
  <2>1. up \in Seq(InputMsg \cup ResyncMsg) /\ down \in Seq(EventMsg \cup SnapshotMsg)
    BY DEF Init
  <2> QED
    BY <1>4, <1>5, <2>1 DEF NetTyped, Init
<1> QED
  BY <1>1, <1>6 DEF NInv, Upward, Downward, LeavesLast, Believes, Init, NewClient

\* The server takes a message.
LEMMA ServerReceiveStep == NInv /\ ServerReceive => NInv'
<1> SUFFICES ASSUME NInv, ServerReceive PROVE NInv'
  OBVIOUS
<1>1. NetTyped /\ Upward /\ Downward /\ LeavesLast /\ Believes
  BY DEF NInv
<1> DEFINE m == Head(up)
           n == Len(up)
<1>2. /\ up # <<>> /\ up' = Tail(up)
      /\ driver' = driver /\ down' = down /\ client' = client /\ moves' = moves
  BY DEF ServerReceive
<1>3. /\ n \in Nat /\ n > 0 /\ m = up[1] /\ m \in InputMsg \cup ResyncMsg
      /\ Tail(up) \in Seq(InputMsg \cup ResyncMsg) /\ Len(Tail(up)) = n - 1
      /\ \A i \in 1 .. n - 1 : Tail(up)[i] = up[i + 1]
      /\ \A i \in 1 .. n - 1 : i + 1 \in 1 .. n
      /\ 1 \in 1 .. n
  BY <1>1, <1>2, NetFacts
<1>4. \/ m.type = "resync" /\ bout' = [bout EXCEPT !.keyframe = TRUE]
      \/ m.type = "input" /\ m \in InputMsg /\ bout' = ApplyInput(bout, m)
  BY <1>3, MessageKinds DEF ServerReceive
<1> HIDE DEF m, n
<1>5. /\ bout' \in BoutType
      /\ m.type = "resync" => bout'.ack = bout.ack /\ bout'.game = bout.game
      /\ m.type = "input" => /\ bout'.ack = m.seq
                             /\ m.input.kind # "LeaveBazaar" =>
                                   (bout.game.inBazaar => bout'.game.inBazaar)
  <2>1. bout \in BoutType
    BY <1>1 DEF NetTyped
  <2>2. CASE m.type = "resync" /\ bout' = [bout EXCEPT !.keyframe = TRUE]
    BY <2>1, <2>2 DEF BoutType
  <2>3. CASE m.type = "input" /\ m \in InputMsg /\ bout' = ApplyInput(bout, m)
    <3>1. ~ (m.seq <= bout.ack) /\ m.seq \in Nat /\ m.input \in InputType
      BY <1>1, <1>3, <2>3, NetFacts, MessageKinds DEF Upward, n
    <3>2. /\ Apply(bout.game, m.input) \in GameType
          /\ m.input.kind # "LeaveBazaar" =>
                (bout.game.inBazaar => Apply(bout.game, m.input).inBazaar)
      BY <1>1, <3>1, NetFacts, ApplyKeeps
    <3> DEFINE g == IF Barrier(bout) /\ ~BazaarInput(m.input) THEN bout.game
                    ELSE Apply(bout.game, m.input)
    <3>3. bout' = [bout EXCEPT !.ack = m.seq, !.game = g]
      BY <2>3, <3>1 DEF ApplyInput
    <3>4. /\ g \in GameType
          /\ m.input.kind # "LeaveBazaar" => (bout.game.inBazaar => g.inBazaar)
      BY <1>1, <3>2, NetFacts
    <3> HIDE DEF g
    <3>5. bout' \in BoutType /\ bout'.ack = m.seq /\ bout'.game = g
      BY <2>1, <3>1, <3>3, <3>4 DEF BoutType
    <3> QED
      BY <2>3, <3>4, <3>5
  <2> QED
    BY <1>4, <2>2, <2>3
<1>6. /\ m.type = "input" => bout.ack < m.seq /\ m.seq <= client.inputSeq /\ m.seq \in Nat
      /\ bout.ack \in Nat /\ bout'.ack \in Nat /\ client.inputSeq \in Nat
      /\ client.acked \in Nat
  BY <1>1, <1>3, <1>5, NetFacts, MessageKinds DEF Upward, BoutType, n
<1>7. bout.ack <= bout'.ack /\ bout'.ack <= client.inputSeq
  BY <1>1, <1>4, <1>5, <1>6 DEF Downward
<1>8. NetTyped'
  BY <1>1, <1>2, <1>3, <1>5 DEF NetTyped
<1>9. ASSUME NEW i \in 1 .. n - 1, up[i + 1].type = "input"
      PROVE  bout'.ack < up[i + 1].seq /\ up[i + 1].seq <= client.inputSeq
  <2>1. i + 1 \in 1 .. n /\ 1 \in 1 .. n /\ 1 < i + 1
    BY <1>3
  <2>2. bout.ack < up[i + 1].seq /\ up[i + 1].seq <= client.inputSeq
    BY <1>1, <1>9, <2>1 DEF Upward, n
  <2>3. m.type = "input" => m.seq < up[i + 1].seq
    BY <1>1, <1>3, <1>9, <2>1 DEF Upward, n
  <2> QED
    BY <1>4, <1>5, <2>2, <2>3
<1>10. Upward'
  <2>1. ASSUME NEW i \in 1 .. n - 1, NEW j \in 1 .. n - 1, i < j,
               up[i + 1].type = "input", up[j + 1].type = "input"
        PROVE  up[i + 1].seq < up[j + 1].seq
    <3>1. i + 1 \in 1 .. n /\ j + 1 \in 1 .. n /\ i + 1 < j + 1
      BY <1>3, <2>1
    <3> QED
      BY <1>1, <2>1, <3>1 DEF Upward, n
  <2> QED
    BY <1>2, <1>3, <1>9, <2>1 DEF Upward
<1>11. Downward'
  <2>1. ASSUME NEW i \in 1 .. Len(down), down[i].type = "snapshot"
        PROVE  down[i].ack <= bout'.ack
    <3>1. down[i].ack \in Nat /\ down[i].ack <= bout.ack
      BY <1>1, <2>1, NetFacts, MessageKinds DEF Downward
    <3> QED
      BY <3>1, <1>6, <1>7
  <2>2. client.acked <= bout'.ack
    BY <1>1, <1>6, <1>7 DEF Downward
  <2> QED
    BY <1>1, <1>2, <1>7, <2>1, <2>2 DEF Downward
<1>12. LeavesLast'
  <2> SUFFICES ASSUME driver = "bot", NEW i \in 1 .. n - 1, up[i + 1].type = "input",
                      up[i + 1].input.kind = "LeaveBazaar"
               PROVE  up[i + 1].seq = client.inputSeq /\ bout'.game.inBazaar
    BY <1>2, <1>3 DEF LeavesLast
  <2>1. i + 1 \in 1 .. n /\ 1 \in 1 .. n /\ 1 < i + 1
    BY <1>3
  <2>2. up[i + 1].seq = client.inputSeq /\ bout.game.inBazaar
    BY <1>1, <2>1 DEF LeavesLast, n
  <2>3. m.type = "input" => m.seq < client.inputSeq
    BY <1>1, <1>3, <2>1, <2>2 DEF Upward, n
  <2>4. m.type = "input" => m.input.kind # "LeaveBazaar"
    <3>1. m.type = "input" /\ m.input.kind = "LeaveBazaar" => m.seq = client.inputSeq
      BY <1>1, <1>3 DEF LeavesLast, n
    <3> QED
      BY <2>3, <3>1, <1>6
  <2> QED
    BY <1>4, <1>5, <2>2, <2>4
<1>13. Believes'
  <2> SUFFICES ASSUME driver = "bot"
               PROVE  /\ client.acked = client.inputSeq /\ client.you => bout'.game.inBazaar
                      /\ \A i \in 1 .. Len(down) :
                            down[i].type = "snapshot" /\ down[i].ack = client.inputSeq
                            /\ down[i].you => bout'.game.inBazaar
    BY <1>2 DEF Believes
  <2>1. m.type = "input" => bout.ack < client.inputSeq
    BY <1>6
  <2>2. client.acked = client.inputSeq => ~ (bout.ack < client.inputSeq)
    BY <1>1, <1>6 DEF Downward
  <2>3. ASSUME NEW i \in 1 .. Len(down), down[i].type = "snapshot",
               down[i].ack = client.inputSeq
        PROVE  ~ (bout.ack < client.inputSeq)
    <3>1. down[i].ack <= bout.ack
      BY <1>1, <2>3 DEF Downward
    <3> QED
      BY <1>6, <2>3, <3>1
  <2>4. bout.ack < client.inputSeq \/ bout'.game = bout.game
    BY <1>4, <1>5, <2>1
  <2> QED
    BY <1>1, <2>2, <2>3, <2>4 DEF Believes
<1> QED
  BY <1>8, <1>10, <1>11, <1>12, <1>13 DEF NInv

\* What a frame puts on the wire: events, and after them perhaps a snapshot.
LEMMA FrameAppends ==
    ASSUME NEW D \in Seq(EventMsg \cup SnapshotMsg), NEW E \in Seq(EventMsg),
           NEW S \in Seq(SnapshotMsg), Len(S) <= 1
    PROVE  /\ D \o E \o S \in Seq(EventMsg \cup SnapshotMsg)
           /\ Len(D) <= Len(D \o E \o S) /\ Len(D \o E \o S) \in Nat
           /\ \A i \in 1 .. Len(D) : (D \o E \o S)[i] = D[i]
           /\ \A i \in Len(D) + 1 .. Len(D \o E \o S) :
                 \/ (D \o E \o S)[i].type = "event"
                 \/ /\ Len(S) = 1 /\ (D \o E \o S)[i] = S[1]
                    /\ i = Len(D \o E \o S)
<1> DEFINE DE == D \o E
           F == DE \o S
           M == EventMsg \cup SnapshotMsg
<1>1. E \in Seq(M) /\ S \in Seq(M) /\ D \in Seq(M)
  OBVIOUS
<1>2. /\ Len(D) \in Nat /\ Len(E) \in Nat /\ Len(S) \in {0, 1}
      /\ \A i \in 1 .. Len(E) : E[i].type = "event"
  <2>1. Len(S) \in Nat /\ Len(D) \in Nat /\ Len(E) \in Nat
    OBVIOUS
  <2>2. \A i \in 1 .. Len(E) : E[i] \in EventMsg
    OBVIOUS
  <2>3. Len(S) \in {0, 1}
    <3>1. PICK s \in Nat : s = Len(S)
      BY <2>1
    <3>2. s = 0 \/ s = 1
      BY <3>1
    <3> QED
      BY <3>1, <3>2
  <2> QED
    BY <2>1, <2>2, <2>3, MessageKinds
<1> HIDE DEF M
<1>3. /\ DE \in Seq(M) /\ Len(DE) = Len(D) + Len(E)
      /\ \A i \in 1 .. Len(D) + Len(E) :
            DE[i] = IF i <= Len(D) THEN D[i] ELSE E[i - Len(D)]
  BY <1>1
<1> HIDE DEF DE
<1>4. /\ F \in Seq(M) /\ Len(F) = Len(DE) + Len(S)
      /\ \A i \in 1 .. Len(DE) + Len(S) :
            F[i] = IF i <= Len(DE) THEN DE[i] ELSE S[i - Len(DE)]
  BY <1>1, <1>3
<1> HIDE DEF F
<1>5. Len(D) <= Len(F) /\ Len(F) \in Nat
  BY <1>2, <1>3, <1>4
<1>6. ASSUME NEW i \in 1 .. Len(D)
      PROVE  F[i] = D[i]
  <2>1. i \in 1 .. Len(D) + Len(E) /\ i <= Len(D)
    BY <1>2
  <2>2. i \in 1 .. Len(DE) + Len(S) /\ i <= Len(DE)
    BY <1>2, <1>3
  <2> QED
    BY <1>3, <1>4, <2>1, <2>2
<1>7. ASSUME NEW i \in Len(D) + 1 .. Len(F)
      PROVE  \/ F[i].type = "event"
             \/ Len(S) = 1 /\ F[i] = S[1] /\ i = Len(F)
  <2>1. CASE i <= Len(DE)
    <3>1. i \in 1 .. Len(D) + Len(E) /\ ~ (i <= Len(D)) /\ i - Len(D) \in 1 .. Len(E)
      BY <1>2, <1>3, <2>1
    <3>2. i \in 1 .. Len(DE) + Len(S)
      BY <1>2, <1>3, <2>1
    <3>3. F[i] = E[i - Len(D)]
      BY <1>3, <1>4, <2>1, <3>1, <3>2
    <3> QED
      BY <1>2, <3>1, <3>3
  <2>2. CASE ~ (i <= Len(DE))
    <3>1. Len(S) = 1 /\ i = Len(F) /\ i - Len(DE) = 1 /\ i \in 1 .. Len(DE) + Len(S)
      BY <1>2, <1>3, <1>4, <2>2
    <3>2. F[i] = S[i - Len(DE)]
      BY <1>4, <2>2, <3>1
    <3> QED
      BY <3>1, <3>2
  <2> QED
    BY <2>1, <2>2
<1> QED
  BY <1>4, <1>5, <1>6, <1>7 DEF F, DE, M

\* A frame of the server.
LEMMA ServerFrameStep ==
    ASSUME NInv, NEW opLine \in BOOLEAN, NEW weapon \in BOOLEAN, NEW sends \in BOOLEAN,
           ServerFrame(opLine, weapon, sends)
    PROVE  NInv'
<1>1. NetTyped /\ Upward /\ Downward /\ LeavesLast /\ Believes
  BY DEF NInv
<1> DEFINE ticked == IF Barrier(bout) THEN bout.game ELSE TickGame(bout.game)
           mirrored == IF opLine THEN Apply(ticked, Mirror(bout.opLines + 1)) ELSE ticked
           struck == IF weapon THEN Apply(mirrored, In("ReceiveWeapon")) ELSE mirrored
           entered == struck.inBazaar /\ ~bout.game.inBazaar
           lines == IF opLine THEN bout.opLines + 1 ELSE bout.opLines
           events == (IF opLine THEN <<Event(Mirror(bout.opLines + 1))>> ELSE <<>>)
                     \o (IF weapon THEN <<Event(In("ReceiveWeapon"))>> ELSE <<>>)
           next == [bout EXCEPT !.game = struck,
                                !.opLines = IF opLine THEN @ + 1 ELSE @,
                                !.weapons = IF weapon THEN @ + 1 ELSE @,
                                !.opBazaar = @ \/ entered,
                                !.keyframe = @ \/ entered,
                                !.ended = struck.over]
           full == next.keyframe \/ struck.over
           snap == Snapshot(next, full)
           shot == IF sends THEN <<snap>> ELSE <<>>
<1> HIDE DEF ticked, mirrored, struck, entered, lines, events, next, full, snap, shot
<1>2. /\ moves' = IF struck = bout.game THEN moves ELSE [moves EXCEPT !.count = @ + 1]
      /\ bout' = IF sends THEN [next EXCEPT !.keyframe = FALSE] ELSE next
      /\ down' = down \o events \o shot
      /\ driver' = driver /\ up' = up /\ client' = client
  BY DEF ServerFrame, ticked, mirrored, struck, entered, events, next, full, snap, shot
<1>3. ticked \in GameType /\ (bout.game.inBazaar => ticked.inBazaar)
  <2>1. bout.game \in GameType
    BY <1>1, NetFacts
  <2>2. Later(bout.game, ticked)
    BY <2>1, TickIsLater, GameFacts DEF ticked
  <2> QED
    BY <2>2 DEF Later
<1>4. /\ Mirror(bout.opLines + 1) \in InputType /\ In("ReceiveWeapon") \in InputType
      /\ Mirror(bout.opLines + 1).kind = "ReceiveOpScore"
      /\ In("ReceiveWeapon").kind = "ReceiveWeapon"
  <2>1. bout.opLines + 1 \in Nat
    BY <1>1, NetFacts
  <2> QED
    BY <2>1 DEF Mirror, In, InputType, Kinds
<1>5. mirrored \in GameType /\ (bout.game.inBazaar => mirrored.inBazaar)
  BY <1>3, <1>4, ApplyKeeps DEF mirrored
<1>6. struck \in GameType /\ (bout.game.inBazaar => struck.inBazaar)
  BY <1>4, <1>5, ApplyKeeps DEF struck
<1>7. /\ next \in BoutType /\ next.game = struck /\ next.ack = bout.ack
      /\ next.keyframe \in BOOLEAN
  <2>1. /\ bout \in BoutType /\ bout.opLines \in Nat /\ bout.weapons \in Nat
        /\ struck.over \in BOOLEAN
    BY <1>1, <1>6, NetFacts, GameFacts DEF NetTyped
  <2>2. /\ (IF opLine THEN bout.opLines + 1 ELSE bout.opLines) \in Nat
        /\ (IF weapon THEN bout.weapons + 1 ELSE bout.weapons) \in Nat
        /\ (bout.opBazaar \/ entered) \in BOOLEAN /\ (bout.keyframe \/ entered) \in BOOLEAN
    BY <2>1
  <2> QED
    BY <1>6, <2>1, <2>2 DEF next, BoutType
<1>8. bout' \in BoutType /\ bout'.game = struck /\ bout'.ack = bout.ack
  <2>1. [next EXCEPT !.keyframe = FALSE] \in BoutType
    BY <1>7 DEF BoutType
  <2>2. /\ [next EXCEPT !.keyframe = FALSE].game = struck
        /\ [next EXCEPT !.keyframe = FALSE].ack = bout.ack
    BY <1>7 DEF BoutType
  <2> QED
    BY <1>2, <1>7, <2>1, <2>2
<1>9. /\ moves' \in [count : Nat, at : Int] /\ -1 <= moves'.at /\ moves'.at <= moves'.count
      /\ moves'.count \in Nat /\ moves.count <= moves'.count
  <2>1. /\ moves \in [count : Nat, at : Int] /\ -1 <= moves.at /\ moves.at <= moves.count
        /\ moves.count \in Nat
    BY <1>1 DEF NetTyped
  <2>2. CASE moves' = moves
    BY <2>1, <2>2
  <2>3. CASE moves' = [moves EXCEPT !.count = @ + 1]
    <3>1. moves'.count = moves.count + 1 /\ moves'.at = moves.at /\ moves.at \in Int
      BY <2>1, <2>3
    <3>2. moves' \in [count : Nat, at : Int]
      BY <2>1, <2>3
    <3> QED
      BY <2>1, <3>1, <3>2
  <2> QED
    BY <1>2, <2>2, <2>3
<1>10. /\ snap \in SnapshotMsg /\ snap.ack = bout.ack /\ snap.you = struck.inBazaar
       /\ snap.keyframe # <<>> => snap.keyframe[2] = moves'.count
  <2>1. /\ struck.inBazaar \in BOOLEAN /\ struck.over \in BOOLEAN /\ LockSeq(struck) \in Nat
        /\ LockHash(struck) \in Stack /\ next.opBazaar \in BOOLEAN /\ bout.ack \in Nat
    BY <1>1, <1>6, <1>7, GameFacts, NetFacts DEF BoutType
  <2> DEFINE key == IF full THEN <<struck, moves'.count>> ELSE <<>>
  <2>2. /\ key \in {<<>>} \cup (GameType \X Nat)
        /\ key # <<>> => key[2] = moves'.count
    BY <1>6, <1>9
  <2> HIDE DEF key
  <2>3. snap = [type |-> "snapshot", ack |-> bout.ack, you |-> struck.inBazaar,
                opp |-> next.opBazaar, over |-> struck.over, lockSeq |-> LockSeq(struck),
                lockHash |-> LockHash(struck), keyframe |-> key]
    BY <1>7 DEF snap, Snapshot, key
  <2> QED
    BY <2>1, <2>2, <2>3 DEF SnapshotMsg
<1>11. events \in Seq(EventMsg)
  <2>1. Event(Mirror(bout.opLines + 1)) \in EventMsg /\ Event(In("ReceiveWeapon")) \in EventMsg
    BY <1>4 DEF Event, EventMsg
  <2> DEFINE one == IF opLine THEN <<Event(Mirror(bout.opLines + 1))>> ELSE <<>>
             two == IF weapon THEN <<Event(In("ReceiveWeapon"))>> ELSE <<>>
  <2>2. one \in Seq(EventMsg) /\ two \in Seq(EventMsg)
    BY <2>1
  <2>3. events = one \o two
    BY DEF events
  <2> HIDE DEF one, two
  <2> QED
    BY <2>2, <2>3
<1>12. /\ shot \in Seq(SnapshotMsg) /\ Len(shot) <= 1
       /\ Len(shot) = 1 => shot[1] = snap
  BY <1>10 DEF shot
<1> DEFINE D == Len(down)
           F == Len(down')
<1>13. /\ down' \in Seq(EventMsg \cup SnapshotMsg) /\ D <= F /\ D \in Nat /\ F \in Nat
       /\ \A i \in 1 .. D : down'[i] = down[i]
       /\ \A i \in D + 1 .. F : down'[i].type = "event" \/ (down'[i] = snap /\ i = F)
  <2>1. down \in Seq(EventMsg \cup SnapshotMsg) /\ D \in Nat
    BY <1>1, NetFacts
  <2> QED
    BY <1>2, <1>11, <1>12, <2>1, FrameAppends
<1> HIDE DEF D, F
<1>14. NetTyped'
  BY <1>1, <1>2, <1>8, <1>9, <1>13 DEF NetTyped
<1>15. Upward'
  BY <1>1, <1>2, <1>8 DEF Upward
<1>16. ASSUME NEW i \in 1 .. F, down'[i].type = "snapshot"
       PROVE  \/ i \in 1 .. D /\ down'[i] = down[i] /\ down[i].type = "snapshot"
              \/ down'[i] = snap /\ i = F
  <2>1. CASE i \in 1 .. D
    BY <1>13, <1>16, <2>1
  <2>2. CASE i \notin 1 .. D
    <3>1. i \in D + 1 .. F
      BY <1>13, <2>2
    <3> QED
      BY <1>13, <1>16, <3>1
  <2> QED
    BY <2>1, <2>2
<1>17. Downward'
  <2>1. ASSUME NEW i \in 1 .. F, down'[i].type = "snapshot"
        PROVE  /\ client.acked <= down'[i].ack /\ down'[i].ack <= bout.ack
               /\ down'[i].keyframe # <<>> => down'[i].keyframe[2] <= moves'.count
    <3>1. CASE i \in 1 .. D /\ down'[i] = down[i] /\ down[i].type = "snapshot"
      <4>1. down[i] \in SnapshotMsg
        BY <1>1, <3>1, NetFacts, MessageKinds DEF D
      <4>2. down[i].keyframe # <<>> => down[i].keyframe[2] \in Nat
        BY <4>1 DEF SnapshotMsg
      <4>3. /\ client.acked <= down[i].ack /\ down[i].ack <= bout.ack
            /\ down[i].keyframe # <<>> => down[i].keyframe[2] <= moves.count
        BY <1>1, <3>1 DEF Downward, D
      <4>4. moves.count \in Nat
        BY <1>1, NetFacts
      <4> QED
        BY <1>9, <3>1, <4>2, <4>3, <4>4
    <3>2. CASE down'[i] = snap
      <4>1. client.acked <= bout.ack /\ bout.ack <= bout.ack
        BY <1>1, NetFacts DEF Downward
      <4> QED
        BY <1>9, <1>10, <3>2, <4>1
    <3> QED
      BY <1>16, <2>1, <3>1, <3>2
  <2>2. ASSUME NEW i \in 1 .. F, NEW j \in 1 .. F, i < j,
               down'[i].type = "snapshot", down'[j].type = "snapshot"
        PROVE  down'[i].ack <= down'[j].ack
    <3>1. i # F
      BY <1>13, <2>2
    <3>2. i \in 1 .. D /\ down'[i] = down[i] /\ down[i].type = "snapshot"
      BY <1>16, <2>2, <3>1
    <3>3. CASE j \in 1 .. D /\ down'[j] = down[j] /\ down[j].type = "snapshot"
      BY <1>1, <2>2, <3>2, <3>3 DEF Downward, D
    <3>4. CASE down'[j] = snap
      <4>1. down[i].ack <= bout.ack
        BY <1>1, <3>2 DEF Downward, D
      <4> QED
        BY <1>10, <3>2, <3>4, <4>1
    <3> QED
      BY <1>16, <2>2, <3>3, <3>4
  <2> QED
    BY <1>1, <1>2, <1>8, <2>1, <2>2 DEF Downward, F
<1>18. LeavesLast'
  BY <1>1, <1>2, <1>6, <1>8 DEF LeavesLast
<1>19. Believes'
  <2>1. ASSUME driver = "bot", NEW i \in 1 .. F, down'[i].type = "snapshot",
               down'[i].ack = client.inputSeq, down'[i].you
        PROVE  struck.inBazaar
    <3>1. CASE i \in 1 .. D /\ down'[i] = down[i] /\ down[i].type = "snapshot"
      BY <1>1, <1>6, <2>1, <3>1 DEF Believes, D
    <3>2. CASE down'[i] = snap
      BY <1>10, <2>1, <3>2
    <3> QED
      BY <1>16, <2>1, <3>1, <3>2
  <2> QED
    BY <1>1, <1>2, <1>6, <1>8, <2>1 DEF Believes, F
<1> QED
  BY <1>14, <1>15, <1>17, <1>18, <1>19 DEF NInv

\* The other player leaves the bazaar.
LEMMA OpponentLeavesStep == NInv /\ OpponentLeaves => NInv'
<1> SUFFICES ASSUME NInv, OpponentLeaves PROVE NInv'
  OBVIOUS
<1>1. NetTyped /\ Upward /\ Downward /\ LeavesLast /\ Believes
  BY DEF NInv
<1>2. /\ bout' = [bout EXCEPT !.opBazaar = FALSE]
      /\ driver' = driver /\ up' = up /\ down' = down /\ client' = client /\ moves' = moves
  BY DEF OpponentLeaves
<1>3. bout' \in BoutType /\ bout'.ack = bout.ack /\ bout'.game = bout.game
  BY <1>1, <1>2 DEF NetTyped, BoutType
<1>4. NetTyped'
  BY <1>1, <1>2, <1>3 DEF NetTyped
<1>5. Upward' /\ Downward'
  BY <1>1, <1>2, <1>3 DEF Upward, Downward
<1>6. LeavesLast' /\ Believes'
  BY <1>1, <1>2, <1>3 DEF LeavesLast, Believes
<1> QED
  BY <1>4, <1>5, <1>6 DEF NInv

\* A resync request carries no number.
LEMMA AskKeeps ==
    ASSUME NEW U \in Seq(InputMsg \cup ResyncMsg), NEW V,
           V = U \/ V = Append(U, [type |-> "resync"])
    PROVE  /\ V \in Seq(InputMsg \cup ResyncMsg)
           /\ \A i \in 1 .. Len(V) : V[i].type = "input" => i \in 1 .. Len(U) /\ V[i] = U[i]
<1>1. CASE V = U
  BY <1>1
<1>2. CASE V = Append(U, [type |-> "resync"])
  <2> DEFINE m == [type |-> "resync"]
  <2>1. m \in InputMsg \cup ResyncMsg /\ m.type # "input"
    BY DEF ResyncMsg
  <2> HIDE DEF m
  <2>2. /\ V \in Seq(InputMsg \cup ResyncMsg) /\ Len(V) = Len(U) + 1
        /\ V[Len(U) + 1] = m /\ Len(U) \in Nat
        /\ \A i \in 1 .. Len(U) : V[i] = U[i]
    BY <1>2, <2>1 DEF m
  <2>3. ASSUME NEW i \in 1 .. Len(V), V[i].type = "input"
        PROVE  i \in 1 .. Len(U)
    <3>1. i # Len(U) + 1
      BY <2>1, <2>2, <2>3
    <3> QED
      BY <2>2, <3>1
  <2> QED
    BY <2>2, <2>3
<1> QED
  BY <1>1, <1>2

\* The client hears an event.
LEMMA HearEventStep ==
    ASSUME NInv, ClientReceive, Head(down).type = "event"
    PROVE  NInv'
<1>1. NetTyped /\ Upward /\ Downward /\ LeavesLast /\ Believes
  BY DEF NInv
<1> DEFINE m == Head(down)
           n == Len(down)
           moved == [client EXCEPT !.game = Apply(@, m.input)]
<1>2. /\ down # <<>> /\ down' = Tail(down) /\ client' = NoteLock(moved)
      /\ driver' = driver /\ bout' = bout /\ up' = up
      /\ moves' = moves \/ moves' = [moves EXCEPT !.at = -1]
  BY DEF ClientReceive, Drifts, None
<1>3. /\ n \in Nat /\ n > 0 /\ m \in EventMsg \cup SnapshotMsg
      /\ Tail(down) \in Seq(EventMsg \cup SnapshotMsg) /\ Len(Tail(down)) = n - 1
      /\ \A i \in 1 .. n - 1 : Tail(down)[i] = down[i + 1]
      /\ \A i \in 1 .. n - 1 : i + 1 \in 1 .. n
  BY <1>1, <1>2, NetFacts, SMTT(30)
<1>4. m.input \in InputType
  BY <1>3, MessageKinds
<1> HIDE DEF m, n
<1>5. /\ moved \in ClientType /\ Wire(moved) = Wire(client)
      /\ LockSeq(moved.game) = LockSeq(client.game)
      /\ moved.history = client.history /\ moved.seen = client.seen
  <2>1. client \in ClientType /\ client.game \in GameType
    BY <1>1, NetFacts
  <2> DEFINE g == Apply(client.game, m.input)
  <2>2. g \in GameType /\ LockSeq(g) = LockSeq(client.game)
    BY <1>4, <2>1, ApplyKeeps
  <2>3. moved = [client EXCEPT !.game = g]
    BY <2>1 DEF ClientType
  <2> HIDE DEF g
  <2>4. moved \in ClientType
    BY <2>1, <2>2, <2>3, GameIsTyped
  <2>5. /\ Wire(moved) = Wire(client) /\ moved.game = g
        /\ moved.history = client.history /\ moved.seen = client.seen
    BY <2>1, <2>3 DEF ClientType, Wire
  <2> QED
    BY <2>2, <2>4, <2>5
<1> HIDE DEF moved
<1>6. Client(client') /\ Wire(client') = Wire(client)
  <2>1. Unnoted(client)
    BY <1>1, ClientIsUnnoted DEF NetTyped
  <2>2. Unnoted(moved)
    BY <1>5, <2>1 DEF Unnoted, Wire
  <2> QED
    BY <1>2, <1>5, <2>2, NoteLockNotes
<1>7. /\ client'.acked = client.acked /\ client'.inputSeq = client.inputSeq
      /\ client'.you = client.you
  BY <1>6 DEF Wire
<1>8. moves' \in [count : Nat, at : Int] /\ -1 <= moves'.at /\ moves'.at <= moves'.count
      /\ moves'.count = moves.count
  <2>1. /\ moves \in [count : Nat, at : Int] /\ -1 <= moves.at /\ moves.at <= moves.count
        /\ moves.count \in Nat /\ -1 \in Int
    BY <1>1 DEF NetTyped
  <2>2. CASE moves' = [moves EXCEPT !.at = -1]
    <3>1. moves'.at = -1 /\ moves'.count = moves.count /\ moves' \in [count : Nat, at : Int]
      BY <2>1, <2>2
    <3> QED
      BY <2>1, <3>1
  <2> QED
    BY <1>2, <2>1, <2>2
<1>9. NetTyped'
  BY <1>1, <1>2, <1>3, <1>6, <1>8 DEF NetTyped
<1>10. Upward' /\ LeavesLast'
  BY <1>1, <1>2, <1>7 DEF Upward, LeavesLast
<1>11. Downward'
  <2>1. ASSUME NEW i \in 1 .. n - 1, down[i + 1].type = "snapshot"
        PROVE  /\ client.acked <= down[i + 1].ack /\ down[i + 1].ack <= bout.ack
               /\ down[i + 1].keyframe # <<>> => down[i + 1].keyframe[2] <= moves.count
    BY <1>1, <1>3, <2>1 DEF Downward, n
  <2>2. ASSUME NEW i \in 1 .. n - 1, NEW j \in 1 .. n - 1, i < j,
               down[i + 1].type = "snapshot", down[j + 1].type = "snapshot"
        PROVE  down[i + 1].ack <= down[j + 1].ack
    <3>1. i + 1 \in 1 .. n /\ j + 1 \in 1 .. n /\ i + 1 < j + 1
      BY <1>3, <2>2
    <3> QED
      BY <1>1, <2>2, <3>1 DEF Downward, n
  <2> QED
    BY <1>1, <1>2, <1>3, <1>7, <1>8, <2>1, <2>2 DEF Downward
<1>12. Believes'
  <2>1. ASSUME driver = "bot", NEW i \in 1 .. n - 1, down[i + 1].type = "snapshot",
               down[i + 1].ack = client.inputSeq, down[i + 1].you
        PROVE  bout.game.inBazaar
    BY <1>1, <1>3, <2>1 DEF Believes, n
  <2> QED
    BY <1>1, <1>2, <1>3, <1>7, <2>1 DEF Believes
<1> QED
  BY <1>9, <1>10, <1>11, <1>12 DEF NInv

\* The client hears a snapshot.
LEMMA HearSnapshotStep ==
    ASSUME NInv, ClientReceive, Head(down).type = "snapshot"
    PROVE  NInv'
<1>1. NetTyped /\ Upward /\ Downward /\ LeavesLast /\ Believes
  BY DEF NInv
<1> DEFINE m == Head(down)
           n == Len(down)
           read == OnSnapshot(client, m)
           c == OnLockHash(read, m)[1]
           asked == [c EXCEPT !.asked = TRUE, !.asks = @ + 1]
<1>2. /\ down # <<>> /\ down' = Tail(down) /\ client' \in {c, asked}
      /\ driver' = driver /\ bout' = bout
      /\ up' = up \/ up' = Append(up, [type |-> "resync"])
      /\ \/ moves' = moves
         \/ m.keyframe # <<>> /\ moves' = [moves EXCEPT !.at = m.keyframe[2]]
  BY DEF ClientReceive
<1>3. /\ n \in Nat /\ n > 0 /\ m \in EventMsg \cup SnapshotMsg /\ m = down[1]
      /\ Tail(down) \in Seq(EventMsg \cup SnapshotMsg) /\ Len(Tail(down)) = n - 1
      /\ \A i \in 1 .. n - 1 : Tail(down)[i] = down[i + 1]
      /\ \A i \in 1 .. n - 1 : i + 1 \in 1 .. n /\ 1 < i + 1
      /\ 1 \in 1 .. n
  BY <1>1, <1>2, NetFacts, SMTT(30)
<1>4. m \in SnapshotMsg /\ m.type = "snapshot"
  BY <1>3, MessageKinds
<1> HIDE DEF m, n
<1>5. /\ client.acked <= m.ack /\ m.ack <= bout.ack /\ bout.ack <= client.inputSeq
      /\ m.ack <= client.inputSeq
      /\ m.keyframe # <<>> => m.keyframe[2] \in Nat /\ m.keyframe[2] <= moves.count
  <2>1. /\ client.acked <= m.ack /\ m.ack <= bout.ack /\ bout.ack <= client.inputSeq
        /\ m.keyframe # <<>> => m.keyframe[2] <= moves.count
    BY <1>1, <1>3, <1>4 DEF Downward, n
  <2>2. m.ack \in Nat /\ bout.ack \in Nat /\ client.inputSeq \in Nat
    BY <1>1, <1>4, NetFacts, MessageKinds
  <2>3. m.keyframe # <<>> => m.keyframe[2] \in Nat
    BY <1>4 DEF SnapshotMsg
  <2> QED
    BY <2>1, <2>2, <2>3
<1>6. Client(read) /\ read.inputSeq = client.inputSeq /\ read.acked = m.ack /\ read.you = m.you
  BY <1>1, <1>4, <1>5, SnapshotKeeps DEF NetTyped
<1> HIDE DEF read
<1>7. Client(c) /\ Wire(c) = Wire(read)
  BY <1>4, <1>6, LockHashKeeps
<1> HIDE DEF c
<1>8. /\ Client(client') /\ client'.acked = m.ack /\ client'.inputSeq = client.inputSeq
      /\ client'.you = m.you
  <2>1. c.acked = m.ack /\ c.inputSeq = client.inputSeq /\ c.you = m.you
    BY <1>6, <1>7 DEF Wire
  <2>2. CASE client' = c
    BY <1>7, <2>1, <2>2
  <2>3. CASE client' = asked
    <3>1. c \in ClientType /\ c.asks + 1 \in Nat
      BY <1>7, ClientFacts DEF Client
    <3>2. /\ asked \in ClientType /\ asked.acked = c.acked /\ asked.inputSeq = c.inputSeq
          /\ asked.you = c.you /\ asked.unacked = c.unacked /\ asked.history = c.history
          /\ asked.seen = c.seen /\ asked.game = c.game
      BY <3>1 DEF ClientType
    <3> HIDE DEF asked
    <3>3. Client(asked)
      BY <1>7, <3>2 DEF Client, Ring
    <3> QED
      BY <2>1, <2>3, <3>2, <3>3
  <2> QED
    BY <1>2, <2>2, <2>3
<1>9. moves' \in [count : Nat, at : Int] /\ -1 <= moves'.at /\ moves'.at <= moves'.count
      /\ moves'.count = moves.count
  <2>1. /\ moves \in [count : Nat, at : Int] /\ -1 <= moves.at /\ moves.at <= moves.count
        /\ moves.count \in Nat
    BY <1>1 DEF NetTyped
  <2>2. CASE m.keyframe # <<>> /\ moves' = [moves EXCEPT !.at = m.keyframe[2]]
    <3>1. m.keyframe[2] \in Nat /\ m.keyframe[2] <= moves.count
      BY <1>5, <2>2
    <3>2. /\ moves'.at = m.keyframe[2] /\ moves'.count = moves.count
          /\ moves' \in [count : Nat, at : Int]
      BY <2>1, <2>2, <3>1
    <3> QED
      BY <3>1, <3>2
  <2> QED
    BY <1>2, <2>1, <2>2
<1>10. /\ up' \in Seq(InputMsg \cup ResyncMsg)
       /\ \A i \in 1 .. Len(up') :
             up'[i].type = "input" => i \in 1 .. Len(up) /\ up'[i] = up[i]
  BY <1>1, <1>2, NetFacts, AskKeeps
<1>11. NetTyped'
  BY <1>1, <1>2, <1>3, <1>8, <1>9, <1>10 DEF NetTyped
<1>12. Upward' /\ LeavesLast'
  <2>1. Upward'
    <3>1. ASSUME NEW i \in 1 .. Len(up'), up'[i].type = "input"
          PROVE  bout'.ack < up'[i].seq /\ up'[i].seq <= client'.inputSeq
      BY <1>1, <1>2, <1>8, <1>10, <3>1 DEF Upward
    <3>2. ASSUME NEW i \in 1 .. Len(up'), NEW j \in 1 .. Len(up'), i < j,
                 up'[i].type = "input", up'[j].type = "input"
          PROVE  up'[i].seq < up'[j].seq
      BY <1>1, <1>10, <3>2 DEF Upward
    <3> QED
      BY <3>1, <3>2 DEF Upward
  <2>2. LeavesLast'
    <3>1. ASSUME driver = "bot", NEW i \in 1 .. Len(up'), up'[i].type = "input",
                 up'[i].input.kind = "LeaveBazaar"
          PROVE  up'[i].seq = client.inputSeq /\ bout.game.inBazaar
      BY <1>1, <1>10, <3>1 DEF LeavesLast
    <3> QED
      BY <1>2, <1>8, <3>1 DEF LeavesLast
  <2> QED
    BY <2>1, <2>2
<1>13. Downward'
  <2>1. ASSUME NEW i \in 1 .. n - 1, down[i + 1].type = "snapshot"
        PROVE  /\ m.ack <= down[i + 1].ack /\ down[i + 1].ack <= bout.ack
               /\ down[i + 1].keyframe # <<>> => down[i + 1].keyframe[2] <= moves.count
    BY <1>1, <1>3, <1>4, <2>1 DEF Downward, n
  <2>2. ASSUME NEW i \in 1 .. n - 1, NEW j \in 1 .. n - 1, i < j,
               down[i + 1].type = "snapshot", down[j + 1].type = "snapshot"
        PROVE  down[i + 1].ack <= down[j + 1].ack
    <3>1. i + 1 \in 1 .. n /\ j + 1 \in 1 .. n /\ i + 1 < j + 1
      BY <1>3, <2>2
    <3> QED
      BY <1>1, <2>2, <3>1 DEF Downward, n
  <2> QED
    BY <1>2, <1>3, <1>5, <1>8, <1>9, <2>1, <2>2 DEF Downward
<1>14. Believes'
  <2>1. ASSUME driver = "bot", NEW i \in 1 .. n - 1, down[i + 1].type = "snapshot",
               down[i + 1].ack = client.inputSeq, down[i + 1].you
        PROVE  bout.game.inBazaar
    BY <1>1, <1>3, <2>1 DEF Believes, n
  <2>2. driver = "bot" /\ m.ack = client.inputSeq /\ m.you => bout.game.inBazaar
    BY <1>1, <1>3, <1>4 DEF Believes, n
  <2> QED
    BY <1>2, <1>3, <1>8, <2>1, <2>2 DEF Believes
<1> QED
  BY <1>11, <1>12, <1>13, <1>14 DEF NInv

LEMMA ClientReceiveStep == NInv /\ ClientReceive => NInv'
<1> SUFFICES ASSUME NInv, ClientReceive PROVE NInv'
  OBVIOUS
<1>1. Head(down) \in EventMsg \cup SnapshotMsg
  BY NetFacts DEF NInv, ClientReceive
<1>2. Head(down).type = "event" \/ Head(down).type = "snapshot"
  BY <1>1, MessageKinds
<1> QED
  BY <1>2, HearEventStep, HearSnapshotStep

\* The client's game or bookkeeping moves, and nothing is sent or heard.
LEMMA QuietStep ==
    ASSUME NInv, UNCHANGED <<driver, bout, up, down>>, Client(client'),
           Wire(client') = Wire(client) \/ (/\ client'.acked = client.acked
                                            /\ client'.inputSeq = client.inputSeq
                                            /\ client'.you = client.you),
           moves' = moves \/ moves' = [moves EXCEPT !.at = -1]
    PROVE  NInv'
<1>1. NetTyped /\ Upward /\ Downward /\ LeavesLast /\ Believes
  BY DEF NInv
<1>2. /\ client'.acked = client.acked /\ client'.inputSeq = client.inputSeq
      /\ client'.you = client.you
  BY DEF Wire
<1>3. moves' \in [count : Nat, at : Int] /\ -1 <= moves'.at /\ moves'.at <= moves'.count
      /\ moves'.count = moves.count
  <2>1. /\ moves \in [count : Nat, at : Int] /\ -1 <= moves.at /\ moves.at <= moves.count
        /\ moves.count \in Nat /\ -1 \in Int
    BY <1>1 DEF NetTyped
  <2>2. CASE moves' = [moves EXCEPT !.at = -1]
    <3>1. moves'.at = -1 /\ moves'.count = moves.count /\ moves' \in [count : Nat, at : Int]
      BY <2>1, <2>2
    <3> QED
      BY <2>1, <3>1
  <2> QED
    BY <2>1, <2>2
<1>4. NetTyped'
  BY <1>1, <1>3 DEF NetTyped
<1>5. Upward' /\ LeavesLast'
  BY <1>1, <1>2 DEF Upward, LeavesLast
<1>6. Downward'
  BY <1>1, <1>2, <1>3 DEF Downward
<1>7. Believes'
  BY <1>1, <1>2 DEF Believes
<1> QED
  BY <1>4, <1>5, <1>6, <1>7 DEF NInv

LEMMA WindowPassesStep == NInv /\ WindowPasses => NInv'
<1> SUFFICES ASSUME NInv, WindowPasses PROVE NInv'
  OBVIOUS
<1>1. Client(client) /\ client \in ClientType
  BY DEF NInv, NetTyped, Client
<1>2. client' = [client EXCEPT !.asked = FALSE]
  BY DEF WindowPasses
<1>3. /\ client' \in ClientType /\ client'.acked = client.acked
      /\ client'.inputSeq = client.inputSeq /\ client'.you = client.you
      /\ client'.unacked = client.unacked /\ client'.history = client.history
      /\ client'.seen = client.seen /\ client'.game = client.game
  BY <1>1, <1>2 DEF ClientType
<1>4. Client(client')
  BY <1>1, <1>3 DEF Client, Ring
<1> QED
  BY <1>3, <1>4, QuietStep DEF WindowPasses

\* The local game ticks.
LEMMA TickedExtends ==
    ASSUME NEW c, Client(c)
    PROVE  LET d == NoteLock([c EXCEPT !.game = TickGame(@)]) IN
           /\ Extends(c, d) /\ d.inputSeq = c.inputSeq /\ d.unacked = c.unacked
<1> DEFINE g == TickGame(c.game)
           ticked == [c EXCEPT !.game = g]
           d == NoteLock(ticked)
<1>1. c \in ClientType /\ c.game \in GameType /\ c.inputSeq \in Nat
  BY ClientFacts DEF Client
<1>2. g \in GameType /\ LockSeq(c.game) <= LockSeq(g)
  BY <1>1, TickIsLater DEF Later
<1>3. NoteLock([c EXCEPT !.game = TickGame(@)]) = d
  BY <1>1 DEF ClientType
<1> HIDE DEF g
<1>4. /\ ticked \in ClientType /\ Wire(ticked) = Wire(c) /\ ticked.game = g
      /\ ticked.history = c.history /\ ticked.seen = c.seen
  <2>1. ticked \in ClientType
    BY <1>1, <1>2, GameIsTyped
  <2> QED
    BY <1>1, <2>1 DEF ClientType, Wire
<1> HIDE DEF ticked
<1>5. Unnoted(ticked)
  <2>1. Unnoted(c) /\ c.seen = LockSeq(c.game)
    BY ClientIsUnnoted DEF Client, Ring
  <2> QED
    BY <1>2, <1>4, <2>1 DEF Unnoted, Wire
<1>6. Client(d) /\ Wire(d) = Wire(c)
  BY <1>4, <1>5, NoteLockNotes
<1> HIDE DEF d
<1>7. Extends(c, d) /\ d.inputSeq = c.inputSeq /\ d.unacked = c.unacked
  BY <1>1, <1>6 DEF Extends, Wire
<1> QED
  BY <1>3, <1>7

LEMMA BrowserTickStep == NInv /\ BrowserTick => NInv'
<1> SUFFICES ASSUME NInv, BrowserTick PROVE NInv'
  OBVIOUS
<1> DEFINE c == NoteLock([client EXCEPT !.game = TickGame(@)])
<1>1. Client(client)
  BY DEF NInv, NetTyped
<1>2. Extends(client, c) /\ c.inputSeq = client.inputSeq
  BY <1>1, TickedExtends
<1>3. client' = c /\ UNCHANGED <<driver, bout, up, down>>
      /\ (moves' = moves \/ moves' = [moves EXCEPT !.at = -1])
  BY DEF BrowserTick, Drifts, None
<1> HIDE DEF c
<1>4. /\ Client(client') /\ client'.acked = client.acked
      /\ client'.inputSeq = client.inputSeq /\ client'.you = client.you
  BY <1>2, <1>3 DEF Extends
<1> QED
  BY <1>3, <1>4, QuietStep

\* The client predicts, and what it predicted goes up.  A bot only does so when
\* it has heard of all it sent, and leaves only when the server's word is that it
\* shops.
LEMMA SendStep ==
    ASSUME NInv, NEW c, Extends(client, c), client' = c, up' = up \o Sent(client, c),
           UNCHANGED <<driver, bout, down>>,
           moves' = moves \/ moves' = [moves EXCEPT !.at = -1],
           driver = "bot" =>
              /\ client.acked = client.inputSeq
              /\ \A i \in Len(client.unacked) + 1 .. Len(c.unacked) :
                    c.unacked[i].input.kind = "LeaveBazaar"
                    => c.unacked[i].seq = c.inputSeq /\ client.you
    PROVE  NInv'
<1>1. NetTyped /\ Upward /\ Downward /\ LeavesLast /\ Believes
  BY DEF NInv
<1> DEFINE sent == Sent(client, c)
           k == c.inputSeq - client.inputSeq
           n == Len(up)
<1>2. /\ Client(client) /\ Client(c) /\ client.inputSeq <= c.inputSeq
      /\ c.acked = client.acked /\ c.you = client.you
  BY <1>1 DEF Extends, NetTyped
<1>3. /\ client.inputSeq \in Nat /\ client.acked \in Nat /\ c.inputSeq \in Nat
      /\ bout.ack \in Nat /\ n \in Nat /\ Len(client.unacked) \in Nat
      /\ up \in Seq(InputMsg \cup ResyncMsg)
  BY <1>1, <1>2, NetFacts, ClientFacts DEF Client
<1>4. k \in Nat
  BY <1>2, <1>3
<1>5. /\ sent \in Seq(InputMsg) /\ Len(sent) = k
      /\ Len(c.unacked) = Len(client.unacked) + k
      /\ \A i \in 1 .. k : /\ sent[i] = c.unacked[Len(client.unacked) + i]
                           /\ sent[i].seq = client.inputSeq + i
  BY <1>2, SentIsNew
<1> HIDE DEF sent, n
<1>6. /\ up' \in Seq(InputMsg \cup ResyncMsg) /\ Len(up') = n + k
      /\ \A i \in 1 .. n + k : up'[i] = IF i <= n THEN up[i] ELSE sent[i - n]
  <2>1. sent \in Seq(InputMsg \cup ResyncMsg)
    BY <1>5
  <2>2. up' = up \o sent
    BY DEF sent
  <2> HIDE DEF k
  <2> QED
    BY <1>3, <1>5, <2>1, <2>2 DEF n
<1>7. ASSUME NEW i \in 1 .. n + k
      PROVE  \/ i \in 1 .. n /\ up'[i] = up[i]
             \/ /\ i - n \in 1 .. k /\ up'[i] = sent[i - n]
                /\ up'[i].seq = client.inputSeq + (i - n)
  <2> HIDE DEF k
  <2>1. CASE i <= n
    BY <1>3, <1>4, <1>6, <2>1
  <2>2. CASE ~ (i <= n)
    <3>1. i - n \in 1 .. k
      BY <1>3, <1>4, <2>2
    <3> QED
      BY <1>5, <1>6, <2>2, <3>1
  <2> QED
    BY <2>1, <2>2
<1>8. moves' \in [count : Nat, at : Int] /\ -1 <= moves'.at /\ moves'.at <= moves'.count
      /\ moves'.count = moves.count
  <2>1. /\ moves \in [count : Nat, at : Int] /\ -1 <= moves.at /\ moves.at <= moves.count
        /\ moves.count \in Nat /\ -1 \in Int
    BY <1>1 DEF NetTyped
  <2>2. CASE moves' = [moves EXCEPT !.at = -1]
    <3>1. moves'.at = -1 /\ moves'.count = moves.count /\ moves' \in [count : Nat, at : Int]
      BY <2>1, <2>2
    <3> QED
      BY <2>1, <3>1
  <2> QED
    BY <2>1, <2>2
<1>9. NetTyped'
  BY <1>1, <1>2, <1>6, <1>8 DEF NetTyped
<1>10. bout.ack <= client.inputSeq
  BY <1>1 DEF Downward
<1>11. \A i \in 1 .. n : up[i].type = "input" =>
          up[i].seq \in Nat /\ bout.ack < up[i].seq /\ up[i].seq <= client.inputSeq
  BY <1>1, NetFacts, MessageKinds DEF Upward, n
<1>12. Upward'
  <2>1. ASSUME NEW i \in 1 .. n + k, up'[i].type = "input"
        PROVE  bout.ack < up'[i].seq /\ up'[i].seq <= c.inputSeq
    <3>1. CASE i \in 1 .. n /\ up'[i] = up[i]
      <4>1. up[i].seq \in Nat /\ bout.ack < up[i].seq /\ up[i].seq <= client.inputSeq
        BY <1>11, <2>1, <3>1
      <4> QED
        BY <1>2, <1>3, <3>1, <4>1
    <3>2. CASE i - n \in 1 .. k /\ up'[i].seq = client.inputSeq + (i - n)
      <4>1. PICK a \in Nat, b \in Nat, e \in Nat :
                 a = bout.ack /\ b = client.inputSeq /\ e = c.inputSeq
        BY <1>3
      <4>2. PICK j \in 1 .. e - b : j = i - n
        BY <3>2, <4>1
      <4>3. a <= b /\ b <= e
        BY <1>2, <1>10, <4>1
      <4>4. a < b + j /\ b + j <= e
        BY <4>3
      <4> QED
        BY <3>2, <4>1, <4>2, <4>4
    <3> QED
      BY <1>7, <3>1, <3>2
  <2>2. ASSUME NEW i \in 1 .. n + k, NEW j \in 1 .. n + k, i < j,
               up'[i].type = "input", up'[j].type = "input"
        PROVE  up'[i].seq < up'[j].seq
    <3>1. CASE i \in 1 .. n /\ up'[i] = up[i] /\ j \in 1 .. n /\ up'[j] = up[j]
      BY <1>1, <2>2, <3>1 DEF Upward, n
    <3>2. CASE /\ i \in 1 .. n /\ up'[i] = up[i]
               /\ j - n \in 1 .. k /\ up'[j].seq = client.inputSeq + (j - n)
      <4>1. up[i].seq \in Nat /\ up[i].seq <= client.inputSeq
        BY <1>11, <2>2, <3>2
      <4>2. client.inputSeq < client.inputSeq + (j - n)
        <5> HIDE DEF k
        <5> QED
          BY <1>3, <1>4, <3>2, SMTT(30)
      <4>3. up'[j].seq = client.inputSeq + (j - n) /\ client.inputSeq + (j - n) \in Int
        BY <1>3, <3>2
      <4>4. PICK a \in Nat : a = up[i].seq
        BY <4>1
      <4>5. PICK b \in Int : b = client.inputSeq + (j - n)
        BY <4>3
      <4>6. a < b
        BY <1>3, <4>1, <4>2, <4>4, <4>5, SMTT(30)
      <4> QED
        BY <3>2, <4>3, <4>4, <4>5, <4>6
    <3>3. CASE i - n \in 1 .. k /\ up'[i].seq = client.inputSeq + (i - n)
      <4>1. ~ (j \in 1 .. n)
        BY <1>3, <2>2, <3>3
      <4>2. j - n \in 1 .. k /\ up'[j].seq = client.inputSeq + (j - n)
        BY <1>7, <4>1
      <4> QED
        BY <1>3, <2>2, <3>3, <4>2, SMTT(30)
    <3> QED
      BY <1>7, <3>1, <3>2, <3>3
  <2> HIDE DEF k
  <2> QED
    BY <1>6, <2>1, <2>2 DEF Upward
<1>13. Downward'
  <2>1. bout.ack <= c.inputSeq
    BY <1>2, <1>3, <1>10
  <2> QED
    BY <1>1, <1>2, <1>8, <2>1 DEF Downward
<1>14. LeavesLast'
  <2> SUFFICES ASSUME driver = "bot", NEW i \in 1 .. n + k, up'[i].type = "input",
                      up'[i].input.kind = "LeaveBazaar"
               PROVE  up'[i].seq = c.inputSeq /\ bout.game.inBazaar
    <3> HIDE DEF k
    <3> QED
      BY <1>6 DEF LeavesLast
  <2>1. client.acked = client.inputSeq /\ client.acked <= bout.ack
    BY <1>1 DEF Downward
  <2>2. ~ (i \in 1 .. n /\ up'[i] = up[i])
    <3> SUFFICES ASSUME i \in 1 .. n, up[i].type = "input"
                 PROVE  FALSE
      OBVIOUS
    <3>1. up[i].seq \in Nat /\ bout.ack < up[i].seq /\ up[i].seq <= client.inputSeq
      BY <1>11
    <3> QED
      BY <1>3, <2>1, <3>1
  <2>3. i - n \in 1 .. k /\ up'[i] = sent[i - n]
    BY <1>7, <2>2
  <2> DEFINE l == Len(client.unacked) + (i - n)
  <2>4. up'[i] = c.unacked[l]
    BY <1>5, <2>3
  <2>5. l \in Len(client.unacked) + 1 .. Len(c.unacked)
    <3>1. PICK a \in Nat : a = Len(client.unacked)
      BY <1>3
    <3>2. PICK j \in 1 .. k : j = i - n
      BY <2>3
    <3>3. Len(c.unacked) = a + k /\ l = a + j
      BY <1>5, <3>1, <3>2
    <3> HIDE DEF k, l
    <3>4. a + j \in a + 1 .. a + k
      BY <1>4
    <3> QED
      BY <3>1, <3>3, <3>4
  <2> HIDE DEF l
  <2>6. c.unacked[l].seq = c.inputSeq /\ client.you
    BY <2>4, <2>5
  <2> QED
    BY <1>1, <2>1, <2>4, <2>6 DEF Believes
<1>15. Believes'
  <2> SUFFICES ASSUME driver = "bot"
               PROVE  /\ c.acked = c.inputSeq /\ c.you => bout.game.inBazaar
                      /\ \A i \in 1 .. Len(down) :
                            down[i].type = "snapshot" /\ down[i].ack = c.inputSeq
                            /\ down[i].you => bout.game.inBazaar
    BY DEF Believes
  <2>1. c.acked = c.inputSeq => client.inputSeq = c.inputSeq
    BY <1>2
  <2>2. ASSUME NEW i \in 1 .. Len(down), down[i].type = "snapshot", down[i].ack = c.inputSeq
        PROVE  client.inputSeq = c.inputSeq
    <3>1. down[i].ack <= bout.ack
      BY <1>1, <2>2 DEF Downward
    <3> QED
      BY <1>2, <1>3, <1>10, <2>2, <3>1
  <2> QED
    BY <1>1, <1>2, <2>1, <2>2 DEF Believes
<1> QED
  BY <1>9, <1>12, <1>13, <1>14, <1>15 DEF NInv

\* The inputs of the clients.
LEMMA InputsTyped ==
    \A kind \in Kinds : In(kind) \in InputType /\ In(kind).kind = kind
BY DEF In, InputType

\* A single input.
LEMMA PredictOne ==
    ASSUME NEW c, Client(c), NEW input \in InputType
    PROVE  Extends(c, Predict(c, input)) /\ LeavesAtEnd(c, Predict(c, input))
<1>1. Extends(c, c) /\ Len(c.unacked) \in Nat
  BY ExtendsItself, ClientFacts DEF Client
<1>2. \A i \in Len(c.unacked) + 1 .. Len(c.unacked) : c.unacked[i].input.kind # "LeaveBazaar"
  BY <1>1
<1> QED
  BY <1>1, <1>2, PredictExtends

LEMMA BrowserInputStep ==
    ASSUME NInv, NEW kind \in {"MoveRight", "BeginDrop", "BuyWeapon", "LaunchWeapon",
                               "LeaveBazaar"},
           BrowserInput(In(kind))
    PROVE  NInv'
<1>1. Client(client) /\ In(kind) \in InputType
  BY InputsTyped DEF NInv, NetTyped, Kinds
<1>2. Extends(client, Predict(client, In(kind)))
  BY <1>1, PredictOne
<1>3. /\ driver # "bot" /\ UNCHANGED <<driver, bout, down, moves>>
      /\ client' = Predict(client, In(kind))
      /\ up' = up \o Sent(client, Predict(client, In(kind)))
  BY DEF BrowserInput, Becomes
<1> QED
  BY <1>2, <1>3, SendStep

LEMMA BotLeavesAgainStep == NInv /\ BotLeavesAgain => NInv'
<1> SUFFICES ASSUME NInv, BotLeavesAgain PROVE NInv'
  OBVIOUS
<1> DEFINE c == Predict(client, In("LeaveBazaar"))
<1>1. Client(client) /\ In("LeaveBazaar") \in InputType
  BY InputsTyped DEF NInv, NetTyped, Kinds
<1>2. Extends(client, c) /\ LeavesAtEnd(client, c)
  BY <1>1, PredictOne
<1>3. /\ UNCHANGED <<driver, bout, down, moves>> /\ client.you
      /\ client' = c /\ up' = up \o Sent(client, c)
      /\ Decide(client) = "WaitBazaar"
  BY DEF BotLeavesAgain, Becomes
<1> HIDE DEF c
<1>4. client.acked = client.inputSeq
  <2>1. ~ (client.acked < client.inputSeq)
    BY <1>3 DEF Decide
  <2>2. client.acked <= client.inputSeq /\ client.acked \in Nat /\ client.inputSeq \in Nat
    BY <1>1, ClientFacts DEF Client
  <2> QED
    BY <2>1, <2>2
<1> QED
  BY <1>2, <1>3, <1>4, SendStep DEF LeavesAtEnd

\* What the bot buys on its way out.
LEMMA BotShopsStep == NInv /\ BotShops => NInv'
<1> SUFFICES ASSUME NInv, BotShops PROVE NInv'
  OBVIOUS
<1>1. PICK plan \in {<<>>, <<In("BuyWeapon")>>} :
           Becomes([PredictAll(client, plan \o <<In("LeaveBazaar")>>) EXCEPT !.bought = TRUE])
  BY DEF BotShops
<1> DEFINE inputs == plan \o <<In("LeaveBazaar")>>
           c == PredictAll(client, inputs)
           d == [c EXCEPT !.bought = TRUE]
<1>2. /\ Client(client) /\ In("LeaveBazaar") \in InputType /\ In("BuyWeapon") \in InputType
      /\ In("BuyWeapon").kind = "BuyWeapon"
  BY InputsTyped DEF NInv, NetTyped, Kinds
<1>3. /\ inputs \in Seq(InputType)
      /\ \A j \in 1 .. Len(inputs) - 1 : inputs[j].kind # "LeaveBazaar"
  <2>1. plan \in Seq(InputType) /\ \A j \in 1 .. Len(plan) : plan[j].kind # "LeaveBazaar"
    <3>1. CASE plan = <<>>
      BY <3>1
    <3>2. CASE plan = <<In("BuyWeapon")>>
      BY <1>2, <3>2
    <3> QED
      BY <3>1, <3>2
  <2>2. inputs = Append(plan, In("LeaveBazaar"))
    BY <1>2, <2>1, AppendIsConcat
  <2> HIDE DEF inputs
  <2>3. /\ inputs \in Seq(InputType) /\ Len(inputs) = Len(plan) + 1 /\ Len(plan) \in Nat
        /\ \A j \in 1 .. Len(plan) : inputs[j] = plan[j]
    BY <1>2, <2>1, <2>2
  <2>4. Len(inputs) - 1 = Len(plan)
    BY <2>3
  <2> QED
    BY <2>1, <2>3, <2>4
<1>4. UNCHANGED <<driver, bout, down, moves>> /\ Decide(client) = "Shop" /\ Becomes(d)
  BY <1>1 DEF BotShops
<1> HIDE DEF inputs
<1>5. Extends(client, c) /\ LeavesAtEnd(client, c)
  BY <1>2, <1>3, PredictAllExtends
<1> HIDE DEF c
<1>6. /\ d \in ClientType /\ d.inputSeq = c.inputSeq /\ d.unacked = c.unacked
      /\ d.acked = c.acked /\ d.you = c.you /\ d.opp = c.opp /\ d.history = c.history
      /\ d.seen = c.seen /\ d.game = c.game
  BY <1>5 DEF Extends, Client, ClientType
<1> HIDE DEF d
<1>7. Extends(client, d) /\ LeavesAtEnd(client, d)
  BY <1>5, <1>6 DEF Extends, LeavesAtEnd, Client, Ring
<1>8. client.acked = client.inputSeq /\ client.you
  <2>1. ~ (client.acked < client.inputSeq) /\ client.you
    BY <1>4 DEF Decide
  <2>2. client.acked <= client.inputSeq /\ client.acked \in Nat /\ client.inputSeq \in Nat
    BY <1>2, ClientFacts DEF Client
  <2> QED
    BY <2>1, <2>2
<1> QED
  BY <1>4, <1>7, <1>8, SendStep DEF LeavesAtEnd, Becomes

\* A turn of the bot: no leave among its inputs.
LEMMA BotPlaysStep == NInv /\ BotPlays => NInv'
<1> SUFFICES ASSUME NInv, BotPlays PROVE NInv'
  OBVIOUS
<1> DEFINE c == NoteLock([client EXCEPT !.game = TickGame(@)])
<1>1. PICK launch \in {<<>>, <<In("LaunchWeapon")>>},
           place \in {<<>>, <<In("BeginDrop")>>, <<In("MoveRight"), In("BeginDrop")>>} :
           /\ Becomes(IF c.game.over THEN c ELSE PredictAll(c, launch \o place))
           /\ Drifts(c)
  BY DEF BotPlays
<1> DEFINE inputs == launch \o place
           d == IF c.game.over THEN c ELSE PredictAll(c, inputs)
<1>2. /\ Client(client) /\ In("LaunchWeapon") \in InputType /\ In("BeginDrop") \in InputType
      /\ In("MoveRight") \in InputType /\ In("LaunchWeapon").kind = "LaunchWeapon"
      /\ In("BeginDrop").kind = "BeginDrop" /\ In("MoveRight").kind = "MoveRight"
  BY InputsTyped DEF NInv, NetTyped, Kinds
<1>3. Extends(client, c) /\ c.inputSeq = client.inputSeq /\ c.unacked = client.unacked
  BY <1>2, TickedExtends
<1>4. inputs \in Seq(InputType) /\ \A j \in 1 .. Len(inputs) : inputs[j].kind # "LeaveBazaar"
  <2> DEFINE Moves == {i \in InputType : i.kind # "LeaveBazaar"}
  <2>1. In("LaunchWeapon") \in Moves /\ In("BeginDrop") \in Moves /\ In("MoveRight") \in Moves
    BY <1>2
  <2>2. launch \in Seq(Moves) /\ place \in Seq(Moves)
    <3> HIDE DEF Moves
    <3>1. /\ <<>> \in Seq(Moves) /\ <<In("LaunchWeapon")>> \in Seq(Moves)
          /\ <<In("BeginDrop")>> \in Seq(Moves)
          /\ <<In("MoveRight"), In("BeginDrop")>> \in Seq(Moves)
      BY <2>1
    <3> QED
      BY <3>1
  <2>3. inputs \in Seq(Moves)
    <3> HIDE DEF Moves
    <3> QED
      BY <2>2
  <2>4. \A j \in 1 .. Len(inputs) : inputs[j] \in Moves
    <3> HIDE DEF Moves, inputs
    <3> QED
      BY <2>3
  <2> HIDE DEF inputs
  <2>5. inputs \in Seq(InputType)
    BY <2>3
  <2> QED
    BY <2>4, <2>5
<1>5. /\ UNCHANGED <<driver, bout, down>> /\ Decide(client) = "Play" /\ Becomes(d)
      /\ (moves' = moves \/ moves' = [moves EXCEPT !.at = -1])
  BY <1>1 DEF BotPlays, Drifts, None
<1> HIDE DEF c, inputs
<1>6. /\ Extends(c, d)
      /\ \A i \in Len(c.unacked) + 1 .. Len(d.unacked) :
            d.unacked[i].input.kind # "LeaveBazaar"
  <2>1. Client(c) /\ Len(c.unacked) \in Nat
    BY <1>3, ClientFacts DEF Extends, Client
  <2>2. CASE c.game.over
    BY <2>1, <2>2, ExtendsItself
  <2>3. CASE ~c.game.over
    <3>1. d = PredictAll(c, inputs)
      BY <2>3
    <3>2. \A j \in 1 .. Len(inputs) - 1 : inputs[j].kind # "LeaveBazaar"
      <4>1. Len(inputs) \in Nat
        BY <1>4
      <4> QED
        BY <1>4, <4>1
    <3> QED
      BY <1>4, <2>1, <3>1, <3>2, PredictAllExtends
  <2> QED
    BY <2>2, <2>3
<1> HIDE DEF d
<1>7. Extends(client, d)
  BY <1>3, <1>6 DEF Extends
<1>8. client.acked = client.inputSeq
  <2>1. ~ (client.acked < client.inputSeq)
    BY <1>5 DEF Decide
  <2>2. client.acked <= client.inputSeq /\ client.acked \in Nat /\ client.inputSeq \in Nat
    BY <1>2, ClientFacts DEF Client
  <2> QED
    BY <2>1, <2>2
<1>9. \A i \in Len(client.unacked) + 1 .. Len(d.unacked) :
         d.unacked[i].input.kind # "LeaveBazaar"
  BY <1>3, <1>6
<1> QED
  BY <1>5, <1>7, <1>8, <1>9, SendStep DEF Becomes

LEMMA StutterStep == NInv /\ UNCHANGED vars => NInv'
BY DEF vars, NInv, NetTyped, Upward, Downward, LeavesLast, Believes

-----------------------------------------------------------------------------
(* The theorems.                                                           *)

\* Along every run the queues, the acknowledgements and the ring keep their
\* order, and what a bot believes of the bazaar is so: NInv is inductive.
THEOREM NetplayInvariant == Spec => []NInv
<1>1. NInv /\ [Next]_vars => NInv'
  <2> SUFFICES ASSUME NInv, [Next]_vars PROVE NInv'
    OBVIOUS
  <2>1. CASE ServerReceive
    BY <2>1, ServerReceiveStep
  <2>2. CASE \E opLine, weapon, sends \in BOOLEAN : ServerFrame(opLine, weapon, sends)
    BY <2>2, ServerFrameStep
  <2>3. CASE OpponentLeaves
    BY <2>3, OpponentLeavesStep
  <2>4. CASE ClientReceive
    BY <2>4, ClientReceiveStep
  <2>5. CASE WindowPasses
    BY <2>5, WindowPassesStep
  <2>6. CASE BrowserTick
    BY <2>6, BrowserTickStep
  <2>7. CASE \E kind \in {"MoveRight", "BeginDrop", "BuyWeapon", "LaunchWeapon",
                          "LeaveBazaar"} : BrowserInput(In(kind))
    BY <2>7, BrowserInputStep
  <2>8. CASE BotShops
    BY <2>8, BotShopsStep
  <2>9. CASE BotLeavesAgain
    BY <2>9, BotLeavesAgainStep
  <2>10. CASE BotPlays
    BY <2>10, BotPlaysStep
  <2>11. CASE UNCHANGED vars
    BY <2>11, StutterStep
  <2> QED
    BY <2>1, <2>2, <2>3, <2>4, <2>5, <2>6, <2>7, <2>8, <2>9, <2>10, <2>11 DEF Next
<1> QED
  BY <1>1, InitHolds, PTL DEF Spec

\* The Predictor's queue is what it sent and has not heard acknowledged, nothing
\* is acknowledged that was not sent, and the ring of locks stays ordered within
\* LOCK_HISTORY, for every size of the system.
THEOREM QueueIsUnacknowledged == Spec => []TypeOK
<1>1. NInv => TypeOK
  <2> SUFFICES ASSUME NInv PROVE TypeOK
    OBVIOUS
  <2>1. NetTyped /\ Downward /\ Client(client)
    BY DEF NInv, NetTyped
  <2>2. moves.at \in -1 .. moves.count
    <3>1. /\ moves.at \in Int /\ moves.count \in Nat /\ -1 <= moves.at
          /\ moves.at <= moves.count
      BY <2>1 DEF NetTyped
    <3> QED
      BY <3>1
  <2> DEFINE n == Len(client.unacked)
  <2>3. /\ client.acked \in Nat /\ client.inputSeq \in Nat /\ n \in Nat
        /\ client.acked <= client.inputSeq /\ n = client.inputSeq - client.acked
        /\ DOMAIN client.unacked = 1 .. n
        /\ \A i \in 1 .. n : client.unacked[i].seq = client.acked + i
    BY <2>1, ClientFacts DEF Client
  <2>4. Seqs(client.unacked) = client.acked + 1 .. client.inputSeq
    <3>1. Seqs(client.unacked) = {client.acked + i : i \in 1 .. n}
      BY <2>3 DEF Seqs
    <3> HIDE DEF n
    <3>2. \A j \in client.acked + 1 .. client.inputSeq :
             j - client.acked \in 1 .. n /\ j = client.acked + (j - client.acked)
      BY <2>3
    <3>3. \A i \in 1 .. n : client.acked + i \in client.acked + 1 .. client.inputSeq
      BY <2>3
    <3> QED
      BY <3>1, <3>2, <3>3
  <2>5. \A i \in 2 .. Len(client.history) : client.history[i - 1][1] < client.history[i][1]
    <3>1. Len(client.history) \in Nat
      BY <2>1, ClientFacts DEF Client
    <3>2. \A i \in 2 .. Len(client.history) :
             i - 1 \in 1 .. Len(client.history) /\ i \in 1 .. Len(client.history) /\ i - 1 < i
      BY <3>1
    <3> QED
      BY <2>1, <3>2 DEF Client, Ring
  <2> QED
    BY <2>1, <2>2, <2>4, <2>5 DEF TypeOK, NetTyped, Downward, Client, Ring
<1> QED
  BY <1>1, NetplayInvariant, PTL

\* A bot's leave always arrives while the authoritative game is in the bazaar.
THEOREM LeaveArrivesInBazaar == Spec => LeaveIsReal
<1>1. NInv /\ [Next]_vars =>
        [driver = "bot" /\ bout'.ack # bout.ack /\ Head(up).input.kind = "LeaveBazaar"
         => bout.game.inBazaar]_vars
  <2> SUFFICES ASSUME NInv, Next, driver = "bot", bout'.ack # bout.ack,
                      Head(up).input.kind = "LeaveBazaar"
               PROVE  bout.game.inBazaar
    BY DEF vars
  <2>1. NetTyped /\ LeavesLast
    BY DEF NInv
  <2>2. CASE ServerReceive
    <3>1. up # <<>> /\ Len(up) > 0 /\ Head(up) = up[1] /\ 1 \in 1 .. Len(up)
      BY <2>1, <2>2, NetFacts DEF ServerReceive
    <3>2. Head(up).type # "resync"
      <4> SUFFICES ASSUME Head(up).type = "resync" PROVE FALSE
        OBVIOUS
      <4>1. bout' = [bout EXCEPT !.keyframe = TRUE] /\ bout \in BoutType
        BY <2>1, <2>2 DEF ServerReceive, NetTyped
      <4>2. bout'.ack = bout.ack
        BY <4>1 DEF BoutType
      <4> QED
        BY <4>2
    <3>3. up[1].type = "input"
      BY <2>1, <3>1, <3>2, NetFacts, MessageKinds
    <3> QED
      BY <2>1, <3>1, <3>3 DEF LeavesLast
  <2>3. CASE \E opLine, weapon, sends \in BOOLEAN : ServerFrame(opLine, weapon, sends)
    <3>1. bout'.ack = bout.ack
      <4>1. bout \in BoutType
        BY <2>1 DEF NetTyped
      <4> QED
        BY <2>3, <4>1, SMTT(30) DEF ServerFrame, BoutType
    <3> QED
      BY <3>1
  <2>4. CASE OpponentLeaves
    <3>1. bout' = [bout EXCEPT !.opBazaar = FALSE] /\ bout \in BoutType
      BY <2>1, <2>4 DEF OpponentLeaves, NetTyped
    <3> QED
      BY <3>1 DEF BoutType
  <2>5. CASE ClientReceive \/ WindowPasses \/ BrowserTick
             \/ (\E kind \in {"MoveRight", "BeginDrop", "BuyWeapon", "LaunchWeapon",
                              "LeaveBazaar"} : BrowserInput(In(kind)))
             \/ BotShops \/ BotLeavesAgain \/ BotPlays
    BY <2>5 DEF ClientReceive, WindowPasses, BrowserTick, BrowserInput, BotShops,
                BotLeavesAgain, BotPlays
  <2> QED
    BY <2>2, <2>3, <2>4, <2>5 DEF Next
<1> QED
  BY <1>1, NetplayInvariant, PTL DEF Spec, LeaveIsReal

-----------------------------------------------------------------------------
(* Replays.                                                                *)

\* What the replay of a queue computes, message by message.
LEMMA ReplayAllRuns ==
    ASSUME NEW g \in GameType, NEW msgs \in Seq(InputMsg)
    PROVE  \E f : /\ f[0] = g /\ ReplayAll(g, msgs) = f[Len(msgs)]
                  /\ \A k \in 1 .. Len(msgs) : f[k] = Replay(f[k - 1], msgs[k])
<1> DEFINE n == Len(msgs)
           After(f) == f = [i \in 0 .. n |-> IF i = 0 THEN g ELSE Replay(f[i - 1], msgs[i])]
           step == [kv \in Nat \X GameType |->
                      IF kv[1] \in 1 .. n THEN Replay(kv[2], msgs[kv[1]]) ELSE kv[2]]
<1>1. n \in Nat /\ \A i \in 1 .. n : msgs[i] \in InputMsg
  OBVIOUS
<1>2. step \in [Nat \X GameType -> GameType]
  <2>1. ASSUME NEW kv \in Nat \X GameType
        PROVE  (IF kv[1] \in 1 .. n THEN Replay(kv[2], msgs[kv[1]]) ELSE kv[2]) \in GameType
    <3>1. kv[2] \in GameType
      OBVIOUS
    <3> QED
      BY <1>1, <3>1, ReplayKeeps
  <2> QED
    BY <2>1
<1>3. PICK f : Recurs(f, GameType, g, step, n)
  <2> HIDE DEF step, n, After
  <2>1. n \in Nat /\ g \in GameType
    BY <1>1
  <2> QED
    BY <2>1, <1>2, RecursiveFunction
<1>4. After(f)
  <2>1. ASSUME NEW k \in 0 .. n
        PROVE  f[k] = IF k = 0 THEN g ELSE Replay(f[k - 1], msgs[k])
    <3>1. k # 0 => k \in 1 .. n /\ k \in Nat /\ k - 1 \in 0 .. n
      BY <1>1
    <3>2. k # 0 => <<k, f[k - 1]>> \in Nat \X GameType /\ f[k] = step[<<k, f[k - 1]>>]
      <4> HIDE DEF n, step
      <4> QED
        BY <1>3, <3>1 DEF Recurs
    <3> QED
      BY <1>3, <3>1, <3>2 DEF Recurs
  <2>2. f = [k \in 0 .. n |-> f[k]]
    BY <1>3 DEF Recurs
  <2> QED
    BY <2>1, <2>2
<1>5. ReplayAll(g, msgs) = (CHOOSE h : After(h))[n]
  BY DEF ReplayAll
<1>6. PICK h : h = (CHOOSE e : After(e)) /\ After(h)
  <2> HIDE DEF After
  <2> QED
    BY <1>4
<1>7. ASSUME NEW k \in 0 .. n
      PROVE  h[k] = IF k = 0 THEN g ELSE Replay(h[k - 1], msgs[k])
  BY <1>6
<1> HIDE DEF After
<1>8. h[0] = g /\ \A k \in 1 .. n : h[k] = Replay(h[k - 1], msgs[k])
  BY <1>1, <1>7
<1> QED
  BY <1>5, <1>6, <1>8

\* And any function that does the same ends with the same game.
LEMMA ReplayAllIs ==
    ASSUME NEW g \in GameType, NEW msgs \in Seq(InputMsg), NEW f, f[0] = g,
           \A k \in 1 .. Len(msgs) : f[k] = Replay(f[k - 1], msgs[k])
    PROVE  ReplayAll(g, msgs) = f[Len(msgs)]
<1> DEFINE n == Len(msgs)
<1>1. n \in Nat
  OBVIOUS
<1>2. PICK h : /\ h[0] = g /\ ReplayAll(g, msgs) = h[n]
               /\ \A k \in 1 .. n : h[k] = Replay(h[k - 1], msgs[k])
  BY ReplayAllRuns
<1> DEFINE S == {k \in 0 .. n : h[k] = f[k]}
<1>3. 0 \in S
  BY <1>1, <1>2
<1>4. ASSUME NEW k \in 0 .. n - 1, k \in S
      PROVE  k + 1 \in S
  <2>1. k + 1 \in 1 .. n /\ k + 1 \in 0 .. n /\ (k + 1) - 1 = k
    BY <1>1
  <2>2. h[k + 1] = Replay(h[k], msgs[k + 1]) /\ f[k + 1] = Replay(f[k], msgs[k + 1])
    BY <1>2, <2>1
  <2> QED
    BY <1>4, <2>1, <2>2
<1>5. n \in S
  <2> HIDE DEF S, n
  <2>1. 0 .. n \subseteq S
    BY <1>1, <1>3, <1>4, InductionUpTo
  <2> QED
    BY <1>1, <2>1
<1> QED
  BY <1>2, <1>5

\* A player's inputs do not open or close the bazaar of a game that replays them:
\* the leave is not replayed.
PlayerInput == {input \in InputType : input.kind \notin {"ReceiveWeapon", "ReceiveOpScore"}}

LEMMA ApplyByPlayer ==
    ASSUME NEW g \in GameType, NEW input \in PlayerInput, input.kind # "LeaveBazaar"
    PROVE  Apply(g, input).inBazaar = g.inBazaar
<1>1. input.kind \in {"MoveRight", "BeginDrop", "LaunchWeapon", "BuyWeapon"}
  BY DEF PlayerInput, InputType, Kinds
<1> QED
  BY <1>1 DEF Apply, GameType

LEMMA ReplayByPlayer ==
    ASSUME NEW g \in GameType, NEW m \in InputMsg, m.input \in PlayerInput
    PROVE  Replay(g, m) \in GameType /\ Replay(g, m).inBazaar = g.inBazaar
BY ReplayKeeps, ApplyByPlayer DEF Replay

-----------------------------------------------------------------------------
(* Catching up.                                                            *)

\* A game that stands at input a, with the rest of the queue replayed over it.
Caught(c, a, g) == ReplayAll(g, Retain(c.unacked, a))

\* The queue's tail behind input a.
LEMMA TailFacts ==
    ASSUME NEW c, Client(c), NEW a \in Nat, c.acked <= a, a <= c.inputSeq
    PROVE  /\ Retain(c.unacked, a) \in Seq(InputMsg)
           /\ Len(Retain(c.unacked, a)) = c.inputSeq - a
           /\ \A i \in 1 .. c.inputSeq - a :
                 Retain(c.unacked, a)[i] = c.unacked[a - c.acked + i]
<1>1. /\ c.unacked \in Seq(InputMsg) /\ c.acked \in Nat /\ c.inputSeq \in Nat
      /\ Len(c.unacked) = c.inputSeq - c.acked
      /\ \A i \in 1 .. Len(c.unacked) : c.unacked[i].seq = c.acked + i
  BY ClientFacts DEF Client
<1>2. a <= c.acked + Len(c.unacked)
  BY <1>1
<1>3. /\ Retain(c.unacked, a) \in Seq(InputMsg)
      /\ Len(Retain(c.unacked, a)) = c.acked + Len(c.unacked) - a
      /\ \A i \in 1 .. c.acked + Len(c.unacked) - a :
            Retain(c.unacked, a)[i] = c.unacked[a - c.acked + i]
  BY <1>1, <1>2, RetainIsTail, ZenonT(60)
<1>4. c.acked + Len(c.unacked) - a = c.inputSeq - a
  BY <1>1
<1> QED
  BY <1>3, <1>4

\* Nothing is left behind the last input.
LEMMA CaughtUp ==
    ASSUME NEW c, Client(c), NEW g \in GameType
    PROVE  Caught(c, c.inputSeq, g) = g
<1>1. c.inputSeq \in Nat /\ c.acked \in Nat /\ c.acked <= c.inputSeq
  BY ClientFacts DEF Client
<1> DEFINE q == Retain(c.unacked, c.inputSeq)
<1>2. q \in Seq(InputMsg) /\ Len(q) = c.inputSeq - c.inputSeq
  BY <1>1, TailFacts
<1> HIDE DEF q
<1>3. Len(q) = 0
  BY <1>1, <1>2
<1>4. PICK f : f[0] = g /\ ReplayAll(g, q) = f[Len(q)]
  BY <1>2, ReplayAllRuns
<1> QED
  BY <1>3, <1>4 DEF Caught, q

\* The first of the tail may as well be replayed before it.
LEMMA CaughtFirst ==
    ASSUME NEW c, Client(c), NEW a \in Nat, c.acked <= a, a < c.inputSeq,
           NEW g \in GameType
    PROVE  Caught(c, a, g) = Caught(c, a + 1, Replay(g, c.unacked[a + 1 - c.acked]))
<1> DEFINE q == Retain(c.unacked, a)
           r == Retain(c.unacked, a + 1)
           m == c.unacked[a + 1 - c.acked]
           n == c.inputSeq - a - 1
<1>1. /\ c.unacked \in Seq(InputMsg) /\ c.acked \in Nat /\ c.inputSeq \in Nat
      /\ Len(c.unacked) = c.inputSeq - c.acked
  BY ClientFacts DEF Client
<1>2. /\ a <= c.inputSeq /\ a + 1 \in Nat /\ c.acked <= a + 1 /\ a + 1 <= c.inputSeq
      /\ n \in Nat /\ c.inputSeq - a = n + 1 /\ c.inputSeq - (a + 1) = n
      /\ a + 1 - c.acked \in 1 .. Len(c.unacked)
      /\ a - c.acked + 1 = a + 1 - c.acked
      /\ \A i \in 1 .. n : i + 1 \in 1 .. n + 1 /\ a - c.acked + (i + 1) = (a + 1) - c.acked + i
  <2>1. PICK p \in Nat, l \in Nat : p = c.acked /\ l = c.inputSeq
    BY <1>1
  <2>2. /\ a <= l /\ a + 1 \in Nat /\ p <= a + 1 /\ a + 1 <= l
        /\ l - a - 1 \in Nat /\ l - a = (l - a - 1) + 1 /\ l - (a + 1) = l - a - 1
        /\ a + 1 - p \in 1 .. l - p /\ a - p + 1 = a + 1 - p
        /\ \A i \in 1 .. l - a - 1 : /\ i + 1 \in 1 .. (l - a - 1) + 1
                                    /\ a - p + (i + 1) = (a + 1) - p + i
    BY <2>1
  <2> QED
    BY <1>1, <2>1, <2>2
<1> HIDE DEF n
<1>3. /\ q \in Seq(InputMsg) /\ Len(q) = n + 1
      /\ \A i \in 1 .. n + 1 : q[i] = c.unacked[a - c.acked + i]
  BY <1>2, TailFacts
<1>4. /\ r \in Seq(InputMsg) /\ Len(r) = n
      /\ \A i \in 1 .. n : r[i] = c.unacked[(a + 1) - c.acked + i]
  <2>1. /\ r \in Seq(InputMsg) /\ Len(r) = c.inputSeq - (a + 1)
        /\ \A i \in 1 .. c.inputSeq - (a + 1) : r[i] = c.unacked[(a + 1) - c.acked + i]
    <3>1. PICK k \in Nat : k = a + 1 /\ c.acked <= k /\ k <= c.inputSeq
      BY <1>2
    <3> QED
      BY <3>1, TailFacts
  <2> QED
    BY <1>2, <2>1
<1>5. m \in InputMsg
  BY <1>1, <1>2
<1>6. q[1] = m /\ \A i \in 1 .. n : q[i + 1] = r[i]
  <2>1. q[1] = m
    <3>1. 1 \in 1 .. n + 1
      BY <1>2
    <3> QED
      BY <1>2, <1>3, <3>1
  <2>2. ASSUME NEW i \in 1 .. n
        PROVE  q[i + 1] = r[i]
    <3>1. q[i + 1] = c.unacked[a - c.acked + (i + 1)]
      BY <1>2, <1>3
    <3>2. r[i] = c.unacked[(a + 1) - c.acked + i]
      BY <1>4
    <3> QED
      BY <1>2, <3>1, <3>2
  <2> QED
    BY <2>1, <2>2
<1> HIDE DEF q, r, m
<1>7. Replay(g, m) \in GameType
  BY <1>5, ReplayKeeps
<1>8. PICK f : /\ f[0] = Replay(g, m) /\ ReplayAll(Replay(g, m), r) = f[n]
               /\ \A k \in 1 .. n : f[k] = Replay(f[k - 1], r[k])
  <2>1. PICK h \in GameType : h = Replay(g, m)
    BY <1>7
  <2>2. \E f : /\ f[0] = h /\ ReplayAll(h, r) = f[Len(r)]
               /\ \A k \in 1 .. Len(r) : f[k] = Replay(f[k - 1], r[k])
    BY <1>4, ReplayAllRuns
  <2> QED
    BY <1>4, <2>1, <2>2
<1> DEFINE h == [k \in 0 .. n + 1 |-> IF k = 0 THEN g ELSE f[k - 1]]
<1>9. h[0] = g /\ \A k \in 1 .. n + 1 : h[k] = f[k - 1]
  BY <1>2
<1> HIDE DEF h
<1>10. ASSUME NEW k \in 1 .. n + 1
       PROVE  h[k] = Replay(h[k - 1], q[k])
  <2>1. CASE k = 1
    BY <1>6, <1>8, <1>9, <2>1
  <2>2. CASE k # 1
    <3>1. PICK j \in 1 .. n : j = k - 1
      BY <1>2, <2>2
    <3>2. k = j + 1 /\ j \in 1 .. n + 1 /\ k - 1 = j
      BY <1>2, <3>1
    <3>3. h[k] = f[j] /\ h[k - 1] = f[j - 1] /\ q[k] = r[j]
      BY <1>6, <1>9, <3>2
    <3> QED
      BY <1>8, <3>3
  <2> QED
    BY <2>1, <2>2
<1>11. ReplayAll(g, q) = h[n + 1]
  BY <1>3, <1>9, <1>10, ReplayAllIs
<1>12. h[n + 1] = f[n]
  BY <1>2, <1>9
<1> QED
  BY <1>8, <1>11, <1>12 DEF Caught, q, r, m

\* One more input at the end is one more replay.
LEMMA CaughtLast ==
    ASSUME NEW c, Client(c), NEW d, Client(d), d.acked = c.acked,
           d.inputSeq = c.inputSeq + 1,
           \A i \in 1 .. Len(c.unacked) : d.unacked[i] = c.unacked[i],
           NEW a \in Nat, c.acked <= a, a <= c.inputSeq, NEW g \in GameType
    PROVE  Caught(d, a, g) = Replay(Caught(c, a, g), d.unacked[Len(c.unacked) + 1])
<1> DEFINE q == Retain(c.unacked, a)
           r == Retain(d.unacked, a)
           m == d.unacked[Len(c.unacked) + 1]
           n == c.inputSeq - a
<1>1. /\ c.acked \in Nat /\ c.inputSeq \in Nat /\ Len(c.unacked) = c.inputSeq - c.acked
      /\ c.acked <= c.inputSeq
  BY ClientFacts DEF Client
<1>2. /\ n \in Nat /\ c.inputSeq - a = n /\ d.inputSeq - a = n + 1
      /\ d.acked <= a /\ a <= d.inputSeq
      /\ \A i \in 1 .. n : /\ a - c.acked + i \in 1 .. Len(c.unacked)
                           /\ i \in 1 .. n + 1 /\ a - d.acked + i = a - c.acked + i
      /\ a - d.acked + (n + 1) = Len(c.unacked) + 1 /\ n + 1 \in 1 .. n + 1
  BY <1>1, SMTT(30)
<1> HIDE DEF n
<1>3. q \in Seq(InputMsg) /\ Len(q) = n /\ \A i \in 1 .. n : q[i] = c.unacked[a - c.acked + i]
  <2>1. /\ q \in Seq(InputMsg) /\ Len(q) = c.inputSeq - a
        /\ \A i \in 1 .. c.inputSeq - a : q[i] = c.unacked[a - c.acked + i]
    BY TailFacts
  <2> QED
    BY <1>2, <2>1
<1>4. /\ r \in Seq(InputMsg) /\ Len(r) = n + 1
      /\ \A i \in 1 .. n + 1 : r[i] = d.unacked[a - d.acked + i]
  <2>1. /\ r \in Seq(InputMsg) /\ Len(r) = d.inputSeq - a
        /\ \A i \in 1 .. d.inputSeq - a : r[i] = d.unacked[a - d.acked + i]
    <3>1. d.acked <= a /\ a <= d.inputSeq
      BY <1>2
    <3> QED
      BY <3>1, TailFacts
  <2> QED
    BY <1>2, <2>1
<1>5. r[n + 1] = m /\ \A i \in 1 .. n : r[i] = q[i]
  <2>1. r[n + 1] = m
    BY <1>2, <1>4
  <2>2. ASSUME NEW i \in 1 .. n
        PROVE  r[i] = q[i]
    <3>1. r[i] = d.unacked[a - d.acked + i]
      BY <1>2, <1>4
    <3>2. d.unacked[a - d.acked + i] = c.unacked[a - c.acked + i]
      BY <1>2
    <3> QED
      BY <1>3, <3>1, <3>2
  <2> QED
    BY <2>1, <2>2
<1> HIDE DEF q, r, m
<1>6. PICK f : /\ f[0] = g /\ ReplayAll(g, q) = f[n]
               /\ \A k \in 1 .. n : f[k] = Replay(f[k - 1], q[k])
  <2>1. \E f : /\ f[0] = g /\ ReplayAll(g, q) = f[Len(q)]
               /\ \A k \in 1 .. Len(q) : f[k] = Replay(f[k - 1], q[k])
    BY <1>3, ReplayAllRuns
  <2> QED
    BY <1>3, <2>1
<1> DEFINE h == [k \in 0 .. n + 1 |-> IF k = n + 1 THEN Replay(f[n], m) ELSE f[k]]
<1>7. /\ h[n + 1] = Replay(f[n], m) /\ h[n] = f[n] /\ h[0] = f[0]
      /\ \A k \in 1 .. n : h[k] = f[k] /\ h[k - 1] = f[k - 1]
  BY <1>2
<1> HIDE DEF h
<1>8. ASSUME NEW k \in 1 .. n + 1
      PROVE  h[k] = Replay(h[k - 1], r[k])
  <2>1. CASE k = n + 1
    <3>1. k - 1 = n
      BY <1>2, <2>1
    <3> QED
      BY <1>5, <1>7, <2>1, <3>1
  <2>2. CASE k # n + 1
    <3>1. k \in 1 .. n
      BY <1>2, <2>2
    <3> QED
      BY <1>5, <1>6, <1>7, <3>1
  <2> QED
    BY <2>1, <2>2
<1>9. ReplayAll(g, r) = h[n + 1]
  BY <1>4, <1>6, <1>7, <1>8, ReplayAllIs
<1> QED
  BY <1>6, <1>7, <1>9 DEF Caught, q, r, m

\* What on_snapshot drops from the queue is not in any tail behind the ack.
LEMMA CaughtHeard ==
    ASSUME NEW c, Client(c), NEW d, Client(d), d.inputSeq = c.inputSeq,
           c.acked <= d.acked, d.unacked = Retain(c.unacked, d.acked),
           NEW a \in Nat, d.acked <= a, a <= c.inputSeq, NEW g \in GameType
    PROVE  Caught(d, a, g) = Caught(c, a, g)
<1> DEFINE q == Retain(c.unacked, a)
           r == Retain(d.unacked, a)
           n == c.inputSeq - a
<1>1. /\ c.acked \in Nat /\ d.acked \in Nat /\ c.inputSeq \in Nat
  BY ClientFacts DEF Client
<1>2. /\ n \in Nat /\ c.inputSeq - a = n /\ d.inputSeq - a = n /\ c.acked <= a
      /\ d.acked <= c.inputSeq
      /\ \A i \in 1 .. n : /\ a - d.acked + i \in 1 .. c.inputSeq - d.acked
                           /\ d.acked - c.acked + (a - d.acked + i) = a - c.acked + i
  BY <1>1
<1> HIDE DEF n
<1>3. q \in Seq(InputMsg) /\ Len(q) = n /\ \A i \in 1 .. n : q[i] = c.unacked[a - c.acked + i]
  BY <1>2, TailFacts
<1>4. r \in Seq(InputMsg) /\ Len(r) = n /\ \A i \in 1 .. n : r[i] = d.unacked[a - d.acked + i]
  <2>1. /\ r \in Seq(InputMsg) /\ Len(r) = d.inputSeq - a
        /\ \A i \in 1 .. d.inputSeq - a : r[i] = d.unacked[a - d.acked + i]
    <3>1. a <= d.inputSeq
      BY <1>2
    <3> QED
      BY <3>1, TailFacts
  <2> QED
    BY <1>2, <2>1
<1>5. \A i \in 1 .. c.inputSeq - d.acked :
         d.unacked[i] = c.unacked[d.acked - c.acked + i]
  <2>1. PICK k \in Nat : k = d.acked /\ c.acked <= k /\ k <= c.inputSeq
    BY <1>1, <1>2
  <2>2. \A i \in 1 .. c.inputSeq - k : Retain(c.unacked, k)[i] = c.unacked[k - c.acked + i]
    BY <2>1, TailFacts
  <2> QED
    BY <2>1, <2>2
<1>6. \A i \in 1 .. n : r[i] = q[i]
  BY <1>2, <1>3, <1>4, <1>5
<1> HIDE DEF q, r
<1>7. PICK f : /\ f[0] = g /\ ReplayAll(g, q) = f[n]
               /\ \A k \in 1 .. n : f[k] = Replay(f[k - 1], q[k])
  <2>1. \E f : /\ f[0] = g /\ ReplayAll(g, q) = f[Len(q)]
               /\ \A k \in 1 .. Len(q) : f[k] = Replay(f[k - 1], q[k])
    BY <1>3, ReplayAllRuns
  <2> QED
    BY <1>3, <2>1
<1>8. ReplayAll(g, r) = f[n]
  BY <1>4, <1>6, <1>7, ReplayAllIs
<1> QED
  BY <1>7, <1>8 DEF Caught, q, r

\* A queue of the player's inputs, caught up with.
PlayersQueue(c) == \A i \in 1 .. Len(c.unacked) : c.unacked[i].input \in PlayerInput

LEMMA CaughtKeeps ==
    ASSUME NEW c, Client(c), PlayersQueue(c), NEW a \in Nat, c.acked <= a, a <= c.inputSeq,
           NEW g \in GameType
    PROVE  Caught(c, a, g) \in GameType /\ Caught(c, a, g).inBazaar = g.inBazaar
<1> DEFINE q == Retain(c.unacked, a)
           n == Len(q)
<1>1. /\ c.acked \in Nat /\ c.inputSeq \in Nat /\ Len(c.unacked) = c.inputSeq - c.acked
  BY ClientFacts DEF Client
<1>2. /\ q \in Seq(InputMsg) /\ n = c.inputSeq - a
      /\ \A i \in 1 .. c.inputSeq - a : q[i] = c.unacked[a - c.acked + i]
  BY TailFacts
<1>3. \A i \in 1 .. c.inputSeq - a : a - c.acked + i \in 1 .. Len(c.unacked)
  BY <1>1
<1>4. n \in Nat /\ \A i \in 1 .. n : q[i] \in InputMsg /\ q[i].input \in PlayerInput
  <2>1. n \in Nat /\ \A i \in 1 .. n : q[i] \in InputMsg
    BY <1>2
  <2>2. \A i \in 1 .. n : q[i].input \in PlayerInput
    BY <1>2, <1>3 DEF PlayersQueue
  <2> QED
    BY <2>1, <2>2
<1>5. PICK f : /\ f[0] = g /\ ReplayAll(g, q) = f[n]
               /\ \A k \in 1 .. n : f[k] = Replay(f[k - 1], q[k])
  BY <1>2, ReplayAllRuns
<1> HIDE DEF q, n
<1> DEFINE S == {k \in 0 .. n : f[k] \in GameType /\ f[k].inBazaar = g.inBazaar}
<1>6. 0 \in S
  BY <1>4, <1>5
<1>7. ASSUME NEW k \in 0 .. n - 1, k \in S
      PROVE  k + 1 \in S
  <2>1. k + 1 \in 1 .. n /\ k + 1 \in 0 .. n /\ (k + 1) - 1 = k
    BY <1>4
  <2>2. f[k + 1] = Replay(f[k], q[k + 1])
    BY <1>5, <2>1
  <2>3. q[k + 1] \in InputMsg /\ q[k + 1].input \in PlayerInput
    BY <1>4, <2>1
  <2>4. f[k] \in GameType /\ f[k].inBazaar = g.inBazaar
    BY <1>7
  <2> QED
    BY <2>1, <2>2, <2>3, <2>4, ReplayByPlayer
<1>8. n \in S
  <2> HIDE DEF S
  <2>1. 0 .. n \subseteq S
    BY <1>4, <1>6, <1>7, InductionUpTo
  <2> QED
    BY <1>4, <2>1
<1> QED
  BY <1>5, <1>8 DEF Caught, q

-----------------------------------------------------------------------------
(* Games that differ in the bazaar alone.                                  *)

LEMMA OutFacts ==
    ASSUME NEW g \in GameType, NEW h \in GameType
    PROVE  /\ Out(g) = Out(h) /\ (g.inBazaar <=> h.inBazaar) => g = h
           /\ [g EXCEPT !.inBazaar = FALSE] \in GameType
           /\ [g EXCEPT !.inBazaar = FALSE].inBazaar = FALSE
           /\ Out([g EXCEPT !.inBazaar = FALSE]) = Out(g)
<1>1. ASSUME Out(g) = Out(h), g.inBazaar <=> h.inBazaar
      PROVE  g = h
  <2>1. g = [Out(g) EXCEPT !.inBazaar = g.inBazaar] /\ h = [Out(h) EXCEPT !.inBazaar = h.inBazaar]
    BY DEF Out, GameType
  <2>2. g.inBazaar = h.inBazaar
    BY <1>1, Zenon DEF GameType
  <2> QED
    BY <1>1, <2>1, <2>2
<1>2. /\ [g EXCEPT !.inBazaar = FALSE] \in GameType
      /\ [g EXCEPT !.inBazaar = FALSE].inBazaar = FALSE
      /\ Out([g EXCEPT !.inBazaar = FALSE]) = Out(g)
  BY DEF Out, GameType
<1> QED
  BY <1>1, <1>2

-----------------------------------------------------------------------------
(* What keeps the client's game and the server's together.                 *)

\* Whether a player shops, by a frame, by what the client has heard, and by the
\* server: the word, and the input acknowledged with it.
Word(you, ack) == [you |-> you, ack |-> ack]
OfClient(c) == Word(c.you, c.acked)
OfBout(b) == Word(b.game.inBazaar, b.ack)
Shots(d) == {i \in 1 .. Len(d) : d[i].type = "snapshot"}

\* The leave is on its way, and it is the last input: after it comes the word
\* that the player is out.
Leaving(c) == \E i \in 1 .. Len(c.unacked) : c.unacked[i].input.kind = "LeaveBazaar"
LeaveIsLast(c) ==
    \A i \in 1 .. Len(c.unacked) :
        c.unacked[i].input.kind = "LeaveBazaar" => i = Len(c.unacked) /\ c.you
Gone(c, v, w) == Leaving(c) /\ v.ack < c.inputSeq /\ w.ack = c.inputSeq

\* Only the leave takes a player out between two words, and nothing takes him in.
Heard(c, v, w) == v.you /\ ~Gone(c, v, w) => w.you
Follows(c, v, w) == w.you => v.you /\ ~Gone(c, v, w)

\* What the client has heard, what is on its way and what the server says.
AllHeard(c, b, d) ==
    /\ Heard(c, OfClient(c), OfBout(b))
    /\ \A i \in Shots(d) : Heard(c, OfClient(c), d[i]) /\ Heard(c, d[i], OfBout(b))
    /\ \A i, j \in Shots(d) : i < j => Heard(c, d[i], d[j])

\* While only the other player shops, the client knows that somebody does, and
\* what the server has not taken passes the barrier.
Gate(c, b) ==
    b.opBazaar /\ ~b.game.inBazaar =>
        \A i \in 1 .. Len(c.unacked) :
            b.ack < c.unacked[i].seq => BazaarInput(c.unacked[i].input)
Barred(c, b, d) ==
    b.opBazaar /\ ~b.game.inBazaar =>
        Held(c) /\ \A i \in Shots(d) : d[i].you \/ d[i].opp

\* A keyframe of the server's last move leads, the queue replayed over it, to
\* where the server's game leads; and so does the client's game if it follows it.
KeyframesLead(c, b, d, n) ==
    \A i \in Shots(d) : d[i].keyframe # <<>> /\ d[i].keyframe[2] = n =>
        /\ Follows(c, d[i], OfBout(b))
        /\ \A j \in Shots(d) : i < j => Follows(c, d[i], d[j])
        /\ d[i].keyframe[1].inBazaar <=> d[i].you
        /\ Out(Caught(c, d[i].ack, d[i].keyframe[1])) = Out(Caught(c, b.ack, b.game))
ClientLeads(c, b, d) ==
    /\ Follows(c, OfClient(c), OfBout(b))
    /\ \A j \in Shots(d) : Follows(c, OfClient(c), d[j])
    /\ c.game.inBazaar <=> c.you
    /\ Out(c.game) = Out(Caught(c, b.ack, b.game))

\* The client's game follows the keyframe of the move `at`.
Together(c, b, d, n, at) ==
    /\ PlayersQueue(c) /\ LeaveIsLast(c)
    /\ AllHeard(c, b, d)
    /\ Gate(c, b) /\ Barred(c, b, d)
    /\ KeyframesLead(c, b, d, n)
    /\ at = n => ClientLeads(c, b, d)

\* The inputs that the server has not taken, and no others, are still to come
\* behind the first k messages on their way to it, in their order.
Pending(c, b, u, k) ==
    /\ \A i \in k + 1 .. Len(u) : u[i].type = "input" =>
          /\ b.ack < u[i].seq /\ u[i].seq <= c.inputSeq
          /\ u[i] = c.unacked[u[i].seq - c.acked]
    /\ \A i, j \in k + 1 .. Len(u) :
          i < j /\ u[i].type = "input" /\ u[j].type = "input" => u[i].seq < u[j].seq
    /\ \A q \in b.ack + 1 .. c.inputSeq :
          \E i \in k + 1 .. Len(u) : u[i].type = "input" /\ u[i].seq = q

\* The words and frames of the state, in their order.
Ordered(c, b, d) ==
    /\ Client(c) /\ b \in BoutType /\ d \in Seq(EventMsg \cup SnapshotMsg)
    /\ c.acked <= b.ack /\ b.ack <= c.inputSeq
    /\ \A i \in Shots(d) : c.acked <= d[i].ack /\ d[i].ack <= b.ack
    /\ \A i, j \in Shots(d) : i < j => d[i].ack <= d[j].ack

LEMMA OrderedFacts ==
    ASSUME NEW c, NEW b, NEW d, Ordered(c, b, d)
    PROVE  /\ c \in ClientType /\ c.game \in GameType /\ c.inputSeq \in Nat /\ c.acked \in Nat
           /\ c.unacked \in Seq(InputMsg) /\ Len(c.unacked) \in Nat
           /\ Len(c.unacked) = c.inputSeq - c.acked
           /\ \A i \in 1 .. Len(c.unacked) : c.unacked[i].seq = c.acked + i
           /\ c.you \in BOOLEAN /\ c.opp \in BOOLEAN
           /\ b.game \in GameType /\ b.ack \in Nat /\ b.opBazaar \in BOOLEAN
           /\ \A i \in Shots(d) : d[i] \in SnapshotMsg /\ d[i].ack \in Nat /\ d[i].you \in BOOLEAN
<1>1. /\ c \in ClientType /\ c.game \in GameType /\ c.inputSeq \in Nat /\ c.acked \in Nat
      /\ c.unacked \in Seq(InputMsg) /\ Len(c.unacked) \in Nat
      /\ Len(c.unacked) = c.inputSeq - c.acked
      /\ \A i \in 1 .. Len(c.unacked) : c.unacked[i].seq = c.acked + i
      /\ c.you \in BOOLEAN /\ c.opp \in BOOLEAN
  BY ClientFacts DEF Ordered, Client
<1>2. b.game \in GameType /\ b.ack \in Nat /\ b.opBazaar \in BOOLEAN
  BY DEF Ordered, BoutType
<1>3. ASSUME NEW i \in Shots(d)
      PROVE  d[i] \in SnapshotMsg /\ d[i].ack \in Nat /\ d[i].you \in BOOLEAN
  <2>1. i \in 1 .. Len(d) /\ d[i].type = "snapshot" /\ d \in Seq(EventMsg \cup SnapshotMsg)
    BY DEF Shots, Ordered
  <2>2. d[i] \in EventMsg \cup SnapshotMsg
    BY <2>1
  <2> QED
    BY <2>1, <2>2, MessageKinds
<1> QED
  BY <1>1, <1>2, <1>3

\* The leave in the queue is its last input.
LEMMA LeaveFacts ==
    ASSUME NEW c, Client(c), LeaveIsLast(c)
    PROVE  /\ Leaving(c) => /\ c.you /\ c.acked < c.inputSeq
                            /\ Len(c.unacked) \in 1 .. Len(c.unacked)
                            /\ c.unacked[Len(c.unacked)].input.kind = "LeaveBazaar"
           /\ \A i \in 1 .. Len(c.unacked) :
                 c.unacked[i].input.kind = "LeaveBazaar" => c.unacked[i].seq = c.inputSeq
<1>1. /\ c.inputSeq \in Nat /\ c.acked \in Nat /\ Len(c.unacked) \in Nat
      /\ Len(c.unacked) = c.inputSeq - c.acked
      /\ \A i \in 1 .. Len(c.unacked) : c.unacked[i].seq = c.acked + i
  BY ClientFacts DEF Client
<1>2. ASSUME NEW i \in 1 .. Len(c.unacked), c.unacked[i].input.kind = "LeaveBazaar"
      PROVE  i = Len(c.unacked) /\ c.you /\ c.unacked[i].seq = c.inputSeq /\ c.acked < c.inputSeq
  <2>1. i = Len(c.unacked) /\ c.you
    BY <1>2 DEF LeaveIsLast
  <2>2. c.unacked[i].seq = c.acked + i
    BY <1>1
  <2> QED
    BY <1>1, <2>1, <2>2
<1> QED
  BY <1>1, <1>2 DEF Leaving

-----------------------------------------------------------------------------
(* The server takes an input.                                              *)

\* What the server makes of the next input leads where the replay of it leads.
LEMMA TakeStep ==
    ASSUME NEW c, Client(c), PlayersQueue(c), LeaveIsLast(c), NEW b \in BoutType,
           c.acked <= b.ack, b.ack < c.inputSeq, Gate(c, b),
           NEW m, m = c.unacked[b.ack + 1 - c.acked], NEW e, e = ApplyInput(b, m)
    PROVE  /\ e \in BoutType /\ e.ack = b.ack + 1 /\ (e.opBazaar <=> b.opBazaar)
           /\ Gate(c, e)
           /\ Out(Caught(c, e.ack, e.game)) = Out(Caught(c, b.ack, b.game))
           /\ m.input.kind = "LeaveBazaar" =>
                 ~e.game.inBazaar /\ e.ack = c.inputSeq /\ Leaving(c) /\ c.you
           /\ m.input.kind # "LeaveBazaar" =>
                 (e.game.inBazaar <=> b.game.inBazaar) /\ ~ (Leaving(c) /\ e.ack = c.inputSeq)
<1> DEFINE p == b.ack + 1 - c.acked
           dropped == Barrier(b) /\ ~BazaarInput(m.input)
           g == IF dropped THEN b.game ELSE Apply(b.game, m.input)
<1>1. /\ c.inputSeq \in Nat /\ c.acked \in Nat /\ Len(c.unacked) \in Nat
      /\ c.unacked \in Seq(InputMsg)
      /\ Len(c.unacked) = c.inputSeq - c.acked
      /\ \A i \in 1 .. Len(c.unacked) : c.unacked[i].seq = c.acked + i
  BY ClientFacts DEF Client
<1>2. b.game \in GameType /\ b.ack \in Nat /\ b.opBazaar \in BOOLEAN /\ b.game.inBazaar \in BOOLEAN
  BY GameFacts DEF BoutType
<1>3. /\ p \in 1 .. Len(c.unacked) /\ c.acked + p = b.ack + 1 /\ b.ack + 1 \in Nat
      /\ ~ (b.ack + 1 <= b.ack) /\ b.ack < b.ack + 1
      /\ p = Len(c.unacked) <=> b.ack + 1 = c.inputSeq
  <2>1. PICK a \in Nat, o \in Nat, l \in Nat : a = b.ack /\ o = c.acked /\ l = c.inputSeq
    BY <1>1, <1>2
  <2>2. /\ a + 1 - o \in 1 .. l - o /\ o + (a + 1 - o) = a + 1 /\ a + 1 \in Nat
        /\ ~ (a + 1 <= a) /\ a < a + 1 /\ (a + 1 - o = l - o <=> a + 1 = l)
    BY <2>1
  <2> QED
    BY <1>1, <2>1, <2>2
<1>4. m \in InputMsg /\ m.seq = b.ack + 1 /\ m.input \in PlayerInput
  BY <1>1, <1>3 DEF PlayersQueue
<1>5. m.input \in InputType
  BY <1>4 DEF InputMsg
<1>6. Apply(b.game, m.input) \in GameType
  BY <1>2, <1>5, ApplyKeeps
<1>7. e = [b EXCEPT !.ack = b.ack + 1, !.game = g]
  BY <1>3, <1>4 DEF ApplyInput
<1>8. g \in GameType
  BY <1>2, <1>6
<1>9. e \in BoutType /\ e.ack = b.ack + 1 /\ e.game = g /\ e.opBazaar = b.opBazaar
  <2> HIDE DEF g
  <2> QED
    BY <1>3, <1>7, <1>8 DEF BoutType
<1>10. Caught(c, b.ack, b.game) = Caught(c, b.ack + 1, Replay(b.game, m))
  BY <1>2, CaughtFirst
<1>11. CASE m.input.kind = "LeaveBazaar"
  <2>1. p = Len(c.unacked) /\ c.you
    BY <1>3, <1>11 DEF LeaveIsLast
  <2>2. b.ack + 1 = c.inputSeq /\ Leaving(c)
    BY <1>3, <1>11, <2>1 DEF Leaving
  <2>3. g = [b.game EXCEPT !.inBazaar = FALSE]
    BY <1>11 DEF BazaarInput, Apply
  <2>4. Replay(b.game, m) = b.game
    BY <1>11 DEF Replay
  <2>5. Out(g) = Out(b.game) /\ ~g.inBazaar
    BY <1>2, <2>3, OutFacts
  <2>6. Caught(c, b.ack + 1, g) = g /\ Caught(c, b.ack + 1, b.game) = b.game
    BY <1>2, <1>8, <2>2, CaughtUp
  <2> HIDE DEF g
  <2>7. Out(Caught(c, e.ack, e.game)) = Out(Caught(c, b.ack, b.game))
    BY <1>9, <1>10, <2>4, <2>5, <2>6
  <2>8. Gate(c, e)
    <3>1. \A i \in 1 .. Len(c.unacked) : ~ (e.ack < c.unacked[i].seq)
      <4> SUFFICES ASSUME NEW i \in 1 .. Len(c.unacked) PROVE ~ (e.ack < c.unacked[i].seq)
        OBVIOUS
      <4>1. c.unacked[i].seq = c.acked + i
        BY <1>1
      <4> QED
        BY <1>1, <1>9, <2>2, <4>1
    <3> QED
      BY <3>1 DEF Gate
  <2> QED
    BY <1>9, <1>11, <2>1, <2>2, <2>5, <2>7, <2>8
<1>12. CASE m.input.kind # "LeaveBazaar"
  <2>1. Apply(b.game, m.input).inBazaar = b.game.inBazaar
    BY <1>2, <1>4, <1>12, ApplyByPlayer
  <2>2. g.inBazaar = b.game.inBazaar
    BY <2>1
  <2>3. Gate(c, b) => (b.opBazaar /\ ~b.game.inBazaar => BazaarInput(m.input))
    BY <1>3, <1>4 DEF Gate
  <2>4. g = Replay(b.game, m)
    <3>1. CASE b.game.inBazaar
      BY <1>12, <3>1 DEF Replay, Barrier, BazaarInput
    <3>2. CASE ~b.game.inBazaar
      <4>1. ~dropped
        BY <2>3, <3>2 DEF Barrier
      <4> QED
        BY <1>12, <3>2, <4>1 DEF Replay
    <3> QED
      BY <3>1, <3>2
  <2> HIDE DEF g
  <2>5. Out(Caught(c, e.ack, e.game)) = Out(Caught(c, b.ack, b.game))
    BY <1>9, <1>10, <2>4
  <2>6. Gate(c, e)
    <3> SUFFICES ASSUME e.opBazaar, ~e.game.inBazaar, NEW i \in 1 .. Len(c.unacked),
                        e.ack < c.unacked[i].seq
                 PROVE  BazaarInput(c.unacked[i].input)
      BY DEF Gate
    <3>1. b.opBazaar /\ ~b.game.inBazaar
      BY <1>9, <2>2
    <3>2. c.unacked[i].seq \in Nat /\ b.ack < c.unacked[i].seq
      <4>1. c.unacked[i].seq = c.acked + i
        BY <1>1
      <4> QED
        BY <1>1, <1>2, <1>9, <4>1
    <3> QED
      BY <3>1, <3>2 DEF Gate
  <2>7. ~ (Leaving(c) /\ e.ack = c.inputSeq)
    BY <1>3, <1>9, <1>12, LeaveFacts
  <2> QED
    BY <1>9, <1>12, <2>2, <2>5, <2>6, <2>7
<1> QED
  BY <1>11, <1>12

\* The next input on its way is the next that the server has not taken.
LEMMA NextPending ==
    ASSUME NEW c, Client(c), NEW b \in BoutType, c.acked <= b.ack, b.ack <= c.inputSeq,
           NEW u \in Seq(InputMsg \cup ResyncMsg), NEW k \in Nat, k < Len(u),
           Pending(c, b, u, k), u[k + 1].type = "input"
    PROVE  /\ b.ack < c.inputSeq /\ u[k + 1] = c.unacked[b.ack + 1 - c.acked]
           /\ \A e \in BoutType : e.ack = b.ack + 1 => Pending(c, e, u, k + 1)
<1>1. c.inputSeq \in Nat /\ c.acked \in Nat /\ b.ack \in Nat
  BY ClientFacts DEF Client, BoutType
<1>2. /\ Len(u) \in Nat /\ k + 1 \in k + 1 .. Len(u)
      /\ \A i \in k + 1 .. Len(u) :
            i \in 1 .. Len(u) /\ (i = k + 1 \/ (k + 1 < i /\ i \in (k + 1) + 1 .. Len(u)))
      /\ \A i \in (k + 1) + 1 .. Len(u) : i \in k + 1 .. Len(u) /\ k + 1 < i
  BY SMTT(30)
<1>3. \A i \in k + 1 .. Len(u) : u[i].type = "input" => u[i].seq \in Nat
  <2>1. \A i \in k + 1 .. Len(u) : u[i] \in InputMsg \cup ResyncMsg
    BY <1>2
  <2> QED
    BY <2>1, MessageKinds
<1> DEFINE m == u[k + 1]
<1>4. /\ m.seq \in Nat /\ b.ack < m.seq /\ m.seq <= c.inputSeq
      /\ m = c.unacked[m.seq - c.acked]
  BY <1>2, <1>3 DEF Pending
<1>5. b.ack + 1 \in b.ack + 1 .. c.inputSeq /\ b.ack < c.inputSeq
  BY <1>1, <1>4
<1>6. PICK i \in k + 1 .. Len(u) : u[i].type = "input" /\ u[i].seq = b.ack + 1
  BY <1>5 DEF Pending
<1>7. m.seq = b.ack + 1
  <2>1. CASE i = k + 1
    BY <1>6, <2>1
  <2>2. CASE k + 1 < i
    <3>1. m.seq < u[i].seq
      BY <1>2, <1>6, <2>2 DEF Pending
    <3> QED
      BY <1>1, <1>4, <1>6, <3>1
  <2> QED
    BY <1>2, <2>1, <2>2
<1>8. ASSUME NEW e \in BoutType, e.ack = b.ack + 1
      PROVE  Pending(c, e, u, k + 1)
  <2>1. ASSUME NEW j \in (k + 1) + 1 .. Len(u), u[j].type = "input"
        PROVE  /\ e.ack < u[j].seq /\ u[j].seq <= c.inputSeq
               /\ u[j] = c.unacked[u[j].seq - c.acked]
    <3>1. m.seq < u[j].seq
      BY <1>2, <2>1 DEF Pending
    <3>2. u[j].seq <= c.inputSeq /\ u[j] = c.unacked[u[j].seq - c.acked]
      BY <1>2, <2>1 DEF Pending
    <3> HIDE DEF m
    <3> QED
      BY <1>7, <1>8, <3>1, <3>2
  <2>2. ASSUME NEW j \in (k + 1) + 1 .. Len(u), NEW l \in (k + 1) + 1 .. Len(u), j < l,
               u[j].type = "input", u[l].type = "input"
        PROVE  u[j].seq < u[l].seq
    BY <1>2, <2>2 DEF Pending
  <2>3. ASSUME NEW q \in e.ack + 1 .. c.inputSeq
        PROVE  \E j \in (k + 1) + 1 .. Len(u) : u[j].type = "input" /\ u[j].seq = q
    <3>1. q \in b.ack + 1 .. c.inputSeq /\ q # b.ack + 1
      BY <1>1, <1>8
    <3>2. PICK j \in k + 1 .. Len(u) : u[j].type = "input" /\ u[j].seq = q
      BY <3>1 DEF Pending
    <3>3. j # k + 1
      BY <1>7, <3>1, <3>2
    <3> QED
      BY <1>2, <3>2, <3>3
  <2> QED
    BY <2>1, <2>2, <2>3 DEF Pending
<1>9. m = c.unacked[b.ack + 1 - c.acked]
  <2>1. PICK q \in Nat : q = m.seq /\ m = c.unacked[q - c.acked]
    BY <1>4
  <2>2. q = b.ack + 1 /\ q - c.acked = b.ack + 1 - c.acked
    BY <1>1, <1>7, <2>1
  <2>3. m = c.unacked[q - c.acked]
    BY <2>1
  <2> HIDE DEF m
  <2> QED
    BY <2>2, <2>3, Zenon
<1> QED
  BY <1>5, <1>8, <1>9, Zenon

\* A resync request is no input.
LEMMA ResyncPending ==
    ASSUME NEW c, NEW b, NEW u \in Seq(InputMsg \cup ResyncMsg), NEW k \in Nat, k < Len(u),
           Pending(c, b, u, k), u[k + 1].type # "input"
    PROVE  Pending(c, b, u, k + 1)
<1>1. /\ \A i \in k + 1 .. Len(u) : i # k + 1 => i \in (k + 1) + 1 .. Len(u)
      /\ \A i \in (k + 1) + 1 .. Len(u) : i \in k + 1 .. Len(u)
  BY SMTT(30)
<1>2. ASSUME NEW q \in b.ack + 1 .. c.inputSeq
      PROVE  \E j \in (k + 1) + 1 .. Len(u) : u[j].type = "input" /\ u[j].seq = q
  <2>1. PICK j \in k + 1 .. Len(u) : u[j].type = "input" /\ u[j].seq = q
    BY DEF Pending
  <2> QED
    BY <1>1, <2>1
<1> QED
  BY <1>1, <1>2 DEF Pending

\* What the server makes of the messages, one after another.
LEMMA ApplyInputKeeps ==
    ASSUME NEW b \in BoutType, NEW m \in InputMsg
    PROVE  ApplyInput(b, m) \in BoutType
<1>1. m.seq \in Nat /\ m.input \in InputType
  BY MessageKinds
<1>2. Apply(b.game, m.input) \in GameType /\ b.game \in GameType
  BY <1>1, ApplyKeeps DEF BoutType
<1> DEFINE g == IF Barrier(b) /\ ~BazaarInput(m.input) THEN b.game ELSE Apply(b.game, m.input)
<1>3. g \in GameType
  BY <1>2
<1>4. ApplyInput(b, m) = b \/ ApplyInput(b, m) = [b EXCEPT !.ack = m.seq, !.game = g]
  BY DEF ApplyInput
<1> HIDE DEF g
<1>5. [b EXCEPT !.ack = m.seq, !.game = g] \in BoutType
  BY <1>1, <1>3 DEF BoutType
<1> QED
  BY <1>4, <1>5

LEMMA SettledRuns ==
    ASSUME NEW b \in BoutType, NEW u \in Seq(InputMsg \cup ResyncMsg)
    PROVE  \E f : /\ f[0] = b /\ Settled(b, u) = f[Len(u)]
                  /\ \A k \in 1 .. Len(u) :
                        f[k] = IF u[k].type = "input" THEN ApplyInput(f[k - 1], u[k])
                               ELSE f[k - 1]
<1> DEFINE n == Len(u)
           Take(e, m) == IF m.type = "input" THEN ApplyInput(e, m) ELSE e
           After(f) == f = [i \in 0 .. n |-> IF i = 0 THEN b
                                             ELSE IF u[i].type = "input"
                                             THEN ApplyInput(f[i - 1], u[i]) ELSE f[i - 1]]
           step == [kv \in Nat \X BoutType |->
                      IF kv[1] \in 1 .. n THEN Take(kv[2], u[kv[1]]) ELSE kv[2]]
<1>1. n \in Nat /\ \A i \in 1 .. n : u[i] \in InputMsg \cup ResyncMsg
  OBVIOUS
<1>2. step \in [Nat \X BoutType -> BoutType]
  <2>1. ASSUME NEW kv \in Nat \X BoutType
        PROVE  (IF kv[1] \in 1 .. n THEN Take(kv[2], u[kv[1]]) ELSE kv[2]) \in BoutType
    <3>1. kv[2] \in BoutType
      OBVIOUS
    <3>2. kv[1] \in 1 .. n => Take(kv[2], u[kv[1]]) \in BoutType
      BY <1>1, <3>1, MessageKinds, ApplyInputKeeps
    <3> QED
      BY <3>1, <3>2
  <2> QED
    BY <2>1
<1>3. PICK f : Recurs(f, BoutType, b, step, n)
  <2> HIDE DEF step, n, After
  <2>1. n \in Nat
    BY <1>1
  <2> QED
    BY <2>1, <1>2, RecursiveFunction
<1>4. After(f)
  <2>1. ASSUME NEW k \in 0 .. n
        PROVE  f[k] = IF k = 0 THEN b
                      ELSE IF u[k].type = "input" THEN ApplyInput(f[k - 1], u[k]) ELSE f[k - 1]
    <3>1. k # 0 => k \in 1 .. n /\ k \in Nat /\ k - 1 \in 0 .. n
      BY <1>1
    <3>2. k # 0 => <<k, f[k - 1]>> \in Nat \X BoutType /\ f[k] = step[<<k, f[k - 1]>>]
      <4> HIDE DEF n, step
      <4> QED
        BY <1>3, <3>1 DEF Recurs
    <3> QED
      BY <1>3, <3>1, <3>2 DEF Recurs
  <2>2. f = [k \in 0 .. n |-> f[k]]
    BY <1>3 DEF Recurs
  <2> QED
    BY <2>1, <2>2
<1>5. Settled(b, u) = (CHOOSE h : After(h))[n]
  BY DEF Settled
<1>6. PICK h : h = (CHOOSE e : After(e)) /\ After(h)
  <2> HIDE DEF After
  <2> QED
    BY <1>4
<1>7. ASSUME NEW k \in 0 .. n
      PROVE  h[k] = IF k = 0 THEN b
                    ELSE IF u[k].type = "input" THEN ApplyInput(h[k - 1], u[k]) ELSE h[k - 1]
  BY <1>6
<1> HIDE DEF After
<1>8. h[0] = b /\ \A k \in 1 .. n :
                     h[k] = IF u[k].type = "input" THEN ApplyInput(h[k - 1], u[k]) ELSE h[k - 1]
  BY <1>1, <1>7
<1> QED
  BY <1>5, <1>6, <1>8

\* Once it has taken what is on its way, the server has the game to which its own
\* leads, the queue replayed over it.
LEMMA SettledIsCaught ==
    ASSUME NEW c, Client(c), PlayersQueue(c), LeaveIsLast(c), NEW b \in BoutType,
           c.acked <= b.ack, b.ack <= c.inputSeq, Gate(c, b),
           NEW u \in Seq(InputMsg \cup ResyncMsg), Pending(c, b, u, 0)
    PROVE  Out(Settled(b, u).game) = Out(Caught(c, b.ack, b.game))
<1> DEFINE n == Len(u)
           X == Out(Caught(c, b.ack, b.game))
           Good(e, k) == /\ e \in BoutType /\ c.acked <= e.ack /\ e.ack <= c.inputSeq
                         /\ Gate(c, e) /\ Pending(c, e, u, k)
                         /\ Out(Caught(c, e.ack, e.game)) = X
<1>1. /\ n \in Nat /\ c.inputSeq \in Nat /\ c.acked \in Nat
      /\ \A i \in 1 .. n : u[i] \in InputMsg \cup ResyncMsg
  BY ClientFacts DEF Client
<1>2. PICK f : /\ f[0] = b /\ Settled(b, u) = f[n]
               /\ \A k \in 1 .. n : f[k] = IF u[k].type = "input" THEN ApplyInput(f[k - 1], u[k])
                                           ELSE f[k - 1]
  BY SettledRuns
<1> HIDE DEF X
<1> DEFINE S == {k \in 0 .. n : Good(f[k], k)}
<1>3. 0 \in S
  BY <1>1, <1>2 DEF X
<1>4. ASSUME NEW k \in 0 .. n - 1, k \in S
      PROVE  k + 1 \in S
  <2>1. k \in Nat /\ k < n /\ k + 1 \in 1 .. n /\ k + 1 \in 0 .. n /\ (k + 1) - 1 = k
    BY <1>1
  <2>2. Good(f[k], k)
    BY <1>4
  <2>3. f[k + 1] = IF u[k + 1].type = "input" THEN ApplyInput(f[k], u[k + 1]) ELSE f[k]
    BY <1>2, <2>1
  <2>4. CASE u[k + 1].type # "input"
    BY <2>1, <2>2, <2>3, <2>4, ResyncPending
  <2>5. CASE u[k + 1].type = "input"
    <3>1. PICK d, e : d = f[k] /\ e = f[k + 1] /\ e = ApplyInput(d, u[k + 1])
      BY <2>3, <2>5
    <3>2. Good(d, k)
      BY <2>2, <3>1
    <3>3. /\ d.ack < c.inputSeq /\ u[k + 1] = c.unacked[d.ack + 1 - c.acked]
          /\ \A x \in BoutType : x.ack = d.ack + 1 => Pending(c, x, u, k + 1)
      BY <2>1, <2>5, <3>2, NextPending
    <3>4. /\ e \in BoutType /\ e.ack = d.ack + 1 /\ Gate(c, e)
          /\ Out(Caught(c, e.ack, e.game)) = Out(Caught(c, d.ack, d.game))
      BY <3>1, <3>2, <3>3, TakeStep
    <3>5. c.acked <= e.ack /\ e.ack <= c.inputSeq
      <4>1. d.ack \in Nat
        BY <3>2 DEF BoutType
      <4> QED
        BY <1>1, <3>2, <3>3, <3>4, <4>1
    <3>6. Good(e, k + 1)
      BY <3>2, <3>3, <3>4, <3>5
    <3> QED
      BY <2>1, <3>1, <3>6
  <2> QED
    BY <2>4, <2>5
<1>5. Good(f[n], n)
  <2>1. 0 .. n \subseteq S
    <3> HIDE DEF S, n
    <3> QED
      BY <1>1, <1>3, <1>4, InductionUpTo
  <2> QED
    BY <1>1, <2>1
<1>6. PICK e : e = f[n]
  OBVIOUS
<1>7. e \in BoutType /\ e.game \in GameType /\ e.ack \in Nat /\ e.ack <= c.inputSeq
  BY <1>5, <1>6 DEF BoutType
<1>8. e.ack = c.inputSeq
  <2> SUFFICES ASSUME e.ack < c.inputSeq PROVE FALSE
    BY <1>1, <1>7
  <2>1. e.ack + 1 \in e.ack + 1 .. c.inputSeq
    BY <1>1, <1>7
  <2>2. \E i \in n + 1 .. Len(u) : u[i].seq = e.ack + 1
    BY <1>5, <1>6, <2>1 DEF Pending
  <2> QED
    BY <1>1, <2>2
<1>9. Caught(c, e.ack, e.game) = e.game
  BY <1>7, <1>8, CaughtUp
<1> QED
  BY <1>2, <1>5, <1>6, <1>9 DEF X

-----------------------------------------------------------------------------
(* The steps of the server keep the two together.                          *)

LEMMA WordFacts ==
    ASSUME NEW c, NEW b
    PROVE  /\ OfClient(c).you = c.you /\ OfClient(c).ack = c.acked
           /\ OfBout(b).you = b.game.inBazaar /\ OfBout(b).ack = b.ack
BY DEF OfClient, OfBout, Word

\* An input taken is the leave, or changes no word.
LEMMA TakeWords ==
    ASSUME NEW c, Client(c), PlayersQueue(c), LeaveIsLast(c), NEW b \in BoutType,
           c.acked <= b.ack, b.ack < c.inputSeq, Gate(c, b),
           NEW m, m = c.unacked[b.ack + 1 - c.acked], NEW e, e = ApplyInput(b, m),
           NEW v, v.ack \in Nat, v.ack <= b.ack
    PROVE  /\ Heard(c, v, OfBout(b)) => Heard(c, v, OfBout(e))
           /\ Follows(c, v, OfBout(b)) => Follows(c, v, OfBout(e))
<1>1. c.inputSeq \in Nat /\ b.ack \in Nat
  BY ClientFacts DEF Client, BoutType
<1>2. v.ack < c.inputSeq /\ b.ack # c.inputSeq
  BY <1>1
<1>3. /\ OfBout(b).you = b.game.inBazaar /\ OfBout(b).ack = b.ack
      /\ OfBout(e).you = e.game.inBazaar /\ OfBout(e).ack = e.ack
  BY WordFacts
<1>4. ~Gone(c, v, OfBout(b))
  BY <1>2, <1>3 DEF Gone
<1>5. CASE m.input.kind = "LeaveBazaar"
  <2>1. ~e.game.inBazaar /\ e.ack = c.inputSeq /\ Leaving(c)
    BY <1>5, TakeStep
  <2>2. Gone(c, v, OfBout(e)) /\ ~OfBout(e).you
    BY <1>2, <1>3, <2>1 DEF Gone
  <2> QED
    BY <2>2 DEF Heard, Follows
<1>6. CASE m.input.kind # "LeaveBazaar"
  <2>1. (e.game.inBazaar <=> b.game.inBazaar) /\ ~ (Leaving(c) /\ e.ack = c.inputSeq)
    BY <1>6, TakeStep
  <2>2. ~Gone(c, v, OfBout(e)) /\ (OfBout(e).you <=> OfBout(b).you)
    BY <1>3, <2>1 DEF Gone
  <2> QED
    BY <1>4, <2>2 DEF Heard, Follows
<1> QED
  BY <1>5, <1>6

\* apply_input.
LEMMA TakeTogether ==
    ASSUME NEW c, NEW b, NEW d, NEW n, NEW at,
           Ordered(c, b, d), Together(c, b, d, n, at), b.ack < c.inputSeq,
           NEW m, m = c.unacked[b.ack + 1 - c.acked], NEW e, e = ApplyInput(b, m)
    PROVE  Together(c, e, d, n, at)
<1>1. /\ Client(c) /\ PlayersQueue(c) /\ LeaveIsLast(c) /\ b \in BoutType
      /\ c.acked <= b.ack /\ Gate(c, b)
  BY DEF Ordered, Together
<1>2. /\ c.inputSeq \in Nat /\ c.acked \in Nat /\ b.ack \in Nat
      /\ \A i \in Shots(d) : d[i].ack \in Nat /\ d[i].ack <= b.ack
  BY OrderedFacts DEF Ordered
<1>3. /\ Gate(c, e) /\ (e.opBazaar <=> b.opBazaar)
      /\ Out(Caught(c, e.ack, e.game)) = Out(Caught(c, b.ack, b.game))
      /\ m.input.kind = "LeaveBazaar" => c.you
      /\ m.input.kind # "LeaveBazaar" => (e.game.inBazaar <=> b.game.inBazaar)
  BY <1>1, TakeStep
<1>4. /\ Heard(c, OfClient(c), OfBout(b)) => Heard(c, OfClient(c), OfBout(e))
      /\ Follows(c, OfClient(c), OfBout(b)) => Follows(c, OfClient(c), OfBout(e))
  <2>1. OfClient(c).ack \in Nat /\ OfClient(c).ack <= b.ack
    BY <1>1, <1>2, WordFacts
  <2> QED
    BY <1>1, <2>1, TakeWords
<1>5. ASSUME NEW i \in Shots(d)
      PROVE  /\ Heard(c, d[i], OfBout(b)) => Heard(c, d[i], OfBout(e))
             /\ Follows(c, d[i], OfBout(b)) => Follows(c, d[i], OfBout(e))
  BY <1>1, <1>2, TakeWords
<1>6. AllHeard(c, e, d)
  BY <1>4, <1>5 DEF AllHeard, Together
<1>7. Barred(c, e, d)
  <2> SUFFICES ASSUME e.opBazaar, ~e.game.inBazaar
               PROVE  Held(c) /\ \A i \in Shots(d) : d[i].you \/ d[i].opp
    BY DEF Barred
  <2>1. CASE ~b.game.inBazaar
    BY <1>3, <2>1 DEF Barred, Together
  <2>2. CASE b.game.inBazaar
    <3>1. c.you
      BY <1>3, <2>2
    <3>2. ASSUME NEW i \in Shots(d)
          PROVE  d[i].you
      <4>1. Heard(c, OfClient(c), d[i])
        BY DEF AllHeard, Together
      <4>2. ~Gone(c, OfClient(c), d[i])
        <5>1. d[i].ack # c.inputSeq
          BY <1>2
        <5> QED
          BY <5>1 DEF Gone
      <4> QED
        BY <3>1, <4>1, <4>2, WordFacts DEF Heard
    <3> QED
      BY <3>1, <3>2 DEF Held
  <2> QED
    BY <2>1, <2>2
<1>8. KeyframesLead(c, e, d, n)
  <2>1. KeyframesLead(c, b, d, n)
    BY DEF Together
  <2> QED
    BY <1>3, <1>5, <2>1 DEF KeyframesLead
<1>9. at = n => ClientLeads(c, e, d)
  BY <1>3, <1>4 DEF ClientLeads, Together
<1> QED
  BY <1>1, <1>3, <1>6, <1>7, <1>8, <1>9 DEF Together

\* The server's other bookkeeping, and the other player leaving.
LEMMA SameBout ==
    ASSUME NEW c, NEW b, NEW d, NEW n, NEW at, Together(c, b, d, n, at),
           NEW e, e.game = b.game, e.ack = b.ack, e.opBazaar => b.opBazaar
    PROVE  Together(c, e, d, n, at)
<1>1. OfBout(e) = OfBout(b)
  BY DEF OfBout
<1>2. Gate(c, e) /\ Barred(c, e, d)
  BY DEF Gate, Barred, Together
<1>3. AllHeard(c, e, d) /\ KeyframesLead(c, e, d, n) /\ (at = n => ClientLeads(c, e, d))
  BY <1>1 DEF AllHeard, KeyframesLead, ClientLeads, Together
<1> QED
  BY <1>2, <1>3 DEF Together

\* A frame: the game goes on, which leaves every keyframe behind, or stays as it
\* is; and a snapshot of it may go out.
LEMMA FrameTogether ==
    ASSUME NEW c, NEW b, NEW d, NEW n \in Nat, NEW at,
           Ordered(c, b, d), Together(c, b, d, n, at),
           \A i \in Shots(d) : d[i].keyframe # <<>> => d[i].keyframe[2] <= n,
           NEW e \in BoutType, e.ack = b.ack, b.game.inBazaar => e.game.inBazaar,
           e.opBazaar /\ ~e.game.inBazaar => b.opBazaar,
           NEW f, Len(f) \in Nat, Len(d) <= Len(f),
           \A i \in 1 .. Len(d) : f[i] = d[i],
           NEW l,
           \A i \in Len(d) + 1 .. Len(f) :
              \/ f[i].type = "event"
              \/ /\ i = Len(f)
                 /\ f[i].ack = e.ack /\ (f[i].you <=> e.game.inBazaar)
                 /\ f[i].opp <=> e.opBazaar
                 /\ f[i].keyframe # <<>> => f[i].keyframe[1] = e.game,
           l = n + 1 \/ (l = n /\ e.game = b.game),
           NEW now, now = l => at = n /\ l = n
    PROVE  Together(c, e, f, l, now)
<1>1. /\ c.inputSeq \in Nat /\ c.acked \in Nat /\ b.ack \in Nat /\ Len(d) \in Nat
      /\ e.game \in GameType
      /\ \A i \in Shots(d) : d[i] \in SnapshotMsg
  <2>1. Len(d) \in Nat
    BY DEF Ordered
  <2> QED
    BY <2>1, OrderedFacts DEF BoutType
<1>2. ASSUME NEW i \in Shots(f)
      PROVE  \/ i \in Shots(d) /\ f[i] = d[i] /\ i <= Len(d)
             \/ /\ i = Len(f) /\ Len(d) < i
                /\ f[i].ack = e.ack /\ (f[i].you <=> e.game.inBazaar)
                /\ f[i].opp <=> e.opBazaar
                /\ f[i].keyframe # <<>> => f[i].keyframe[1] = e.game
  <2>1. i \in 1 .. Len(f) /\ f[i].type = "snapshot"
    BY DEF Shots
  <2>2. CASE i \in 1 .. Len(d)
    BY <1>1, <2>1, <2>2 DEF Shots
  <2>3. CASE i \notin 1 .. Len(d)
    <3>1. i \in Len(d) + 1 .. Len(f) /\ Len(d) < i
      BY <1>1, <2>1, <2>3
    <3> QED
      BY <2>1, <3>1
  <2> QED
    BY <2>2, <2>3
<1>3. OfBout(e).ack = OfBout(b).ack /\ (OfBout(b).you => OfBout(e).you)
  BY WordFacts
<1>4. ASSUME NEW v, Heard(c, v, OfBout(b))
      PROVE  Heard(c, v, OfBout(e))
  BY <1>3, <1>4 DEF Heard, Gone
<1>5. ASSUME NEW v, NEW i \in Shots(f), i = Len(f), Len(d) < i, Heard(c, v, OfBout(b))
      PROVE  Heard(c, v, f[i])
  <2>1. i \notin Shots(d)
    BY <1>1, <1>5 DEF Shots
  <2>2. f[i].ack = OfBout(e).ack /\ (f[i].you <=> OfBout(e).you)
    BY <1>1, <1>2, <1>5, <2>1, WordFacts
  <2> QED
    BY <1>4, <1>5, <2>2 DEF Heard, Gone
<1>6. AllHeard(c, e, f)
  <2>1. Heard(c, OfClient(c), OfBout(b))
    BY DEF Together, AllHeard
  <2>2. ASSUME NEW i \in Shots(f)
        PROVE  Heard(c, OfClient(c), f[i]) /\ Heard(c, f[i], OfBout(e))
    <3>1. CASE i \in Shots(d) /\ f[i] = d[i]
      <4>1. Heard(c, OfClient(c), d[i]) /\ Heard(c, d[i], OfBout(b))
        BY <3>1 DEF Together, AllHeard
      <4> QED
        BY <1>4, <3>1, <4>1
    <3>2. CASE i = Len(f) /\ Len(d) < i /\ (f[i].you <=> e.game.inBazaar)
      <4>1. Heard(c, f[i], OfBout(e))
        BY <3>2, WordFacts DEF Heard
      <4> QED
        BY <1>5, <2>1, <3>2, <4>1
    <3> QED
      BY <1>2, <3>1, <3>2
  <2>3. ASSUME NEW i \in Shots(f), NEW j \in Shots(f), i < j
        PROVE  Heard(c, f[i], f[j])
    <3>1. i # Len(f)
      <4>1. j \in 1 .. Len(f) /\ i \in 1 .. Len(f)
        BY DEF Shots
      <4> QED
        BY <2>3, <4>1
    <3>2. i \in Shots(d) /\ f[i] = d[i]
      BY <1>2, <3>1
    <3>3. CASE j \in Shots(d) /\ f[j] = d[j]
      BY <2>3, <3>2, <3>3 DEF Together, AllHeard
    <3>4. CASE j = Len(f) /\ Len(d) < j
      <4>1. Heard(c, f[i], OfBout(b))
        BY <3>2 DEF Together, AllHeard
      <4> QED
        BY <1>5, <3>4, <4>1
    <3> QED
      BY <1>2, <3>3, <3>4
  <2> QED
    BY <1>4, <2>1, <2>2, <2>3 DEF AllHeard
<1>7. Gate(c, e) /\ Barred(c, e, f)
  <2>1. e.opBazaar /\ ~e.game.inBazaar => b.opBazaar /\ ~b.game.inBazaar
    OBVIOUS
  <2>2. Gate(c, e)
    BY <2>1 DEF Gate, Together
  <2>3. Barred(c, e, f)
    <3> SUFFICES ASSUME e.opBazaar, ~e.game.inBazaar
                 PROVE  Held(c) /\ \A i \in Shots(f) : f[i].you \/ f[i].opp
      BY DEF Barred
    <3>1. Held(c) /\ \A i \in Shots(d) : d[i].you \/ d[i].opp
      BY <2>1 DEF Barred, Together
    <3> QED
      BY <1>2, <3>1
  <2> QED
    BY <2>2, <2>3
<1>8. KeyframesLead(c, e, f, l)
  <2> SUFFICES ASSUME NEW i \in Shots(f), f[i].keyframe # <<>>, f[i].keyframe[2] = l
               PROVE  /\ Follows(c, f[i], OfBout(e))
                      /\ \A j \in Shots(f) : i < j => Follows(c, f[i], f[j])
                      /\ f[i].keyframe[1].inBazaar <=> f[i].you
                      /\ Out(Caught(c, f[i].ack, f[i].keyframe[1]))
                         = Out(Caught(c, e.ack, e.game))
    BY DEF KeyframesLead
  <2>1. CASE i \in Shots(d) /\ f[i] = d[i]
    <3>1. d[i].keyframe[2] \in Nat /\ d[i].keyframe[2] <= n
      BY <1>1, <2>1 DEF SnapshotMsg
    <3>2. l = n /\ e.game = b.game
      BY <2>1, <3>1
    <3>3. OfBout(e) = OfBout(b)
      BY <3>2 DEF OfBout
    <3>4. /\ Follows(c, d[i], OfBout(b))
          /\ \A j \in Shots(d) : i < j => Follows(c, d[i], d[j])
          /\ d[i].keyframe[1].inBazaar <=> d[i].you
          /\ Out(Caught(c, d[i].ack, d[i].keyframe[1])) = Out(Caught(c, b.ack, b.game))
      BY <2>1, <3>2 DEF KeyframesLead, Together
    <3>5. ASSUME NEW j \in Shots(f), i < j
          PROVE  Follows(c, f[i], f[j])
      <4>1. CASE j \in Shots(d) /\ f[j] = d[j]
        BY <2>1, <3>4, <3>5, <4>1
      <4>2. CASE f[j].ack = e.ack /\ (f[j].you <=> e.game.inBazaar)
        BY <2>1, <3>3, <3>4, <4>2, WordFacts DEF Follows, Gone
      <4> QED
        BY <1>2, <4>1, <4>2
    <3> QED
      BY <2>1, <3>2, <3>3, <3>4, <3>5
  <2>2. CASE /\ i = Len(f) /\ f[i].ack = e.ack /\ (f[i].you <=> e.game.inBazaar)
             /\ f[i].keyframe[1] = e.game
    <3>1. Follows(c, f[i], OfBout(e))
      <4>1. ~Gone(c, f[i], OfBout(e))
        BY <1>1, <2>2, WordFacts DEF Gone
      <4> QED
        BY <2>2, <4>1, WordFacts DEF Follows
    <3>2. ASSUME NEW j \in Shots(f)
          PROVE  ~ (i < j)
      <4>1. j \in 1 .. Len(f)
        BY DEF Shots
      <4> QED
        BY <2>2, <4>1
    <3> QED
      BY <2>2, <3>1, <3>2
  <2> QED
    BY <1>2, <2>1, <2>2
<1>9. ASSUME now = l
      PROVE  ClientLeads(c, e, f)
  <2>1. at = n /\ e.game = b.game
    BY <1>1, <1>9
  <2>2. OfBout(e) = OfBout(b)
    BY <2>1 DEF OfBout
  <2>3. /\ Follows(c, OfClient(c), OfBout(b))
        /\ \A j \in Shots(d) : Follows(c, OfClient(c), d[j])
        /\ c.game.inBazaar <=> c.you
        /\ Out(c.game) = Out(Caught(c, b.ack, b.game))
    BY <2>1 DEF Together, ClientLeads
  <2>4. ASSUME NEW j \in Shots(f)
        PROVE  Follows(c, OfClient(c), f[j])
    <3>1. CASE j \in Shots(d) /\ f[j] = d[j]
      BY <2>3, <3>1
    <3>2. CASE f[j].ack = e.ack /\ (f[j].you <=> e.game.inBazaar)
      BY <2>2, <2>3, <3>2, WordFacts DEF Follows, Gone
    <3> QED
      BY <1>2, <3>1, <3>2
  <2> QED
    BY <2>1, <2>2, <2>3, <2>4 DEF ClientLeads
<1> QED
  BY <1>6, <1>7, <1>8, <1>9 DEF Together

-----------------------------------------------------------------------------
(* The steps of the client keep the two together.                          *)

\* A Predictor with the same queue and words: all that it leads to is the same.
LEMMA SameClient ==
    ASSUME NEW c, NEW b, NEW d, NEW n, NEW at, Together(c, b, d, n, at),
           NEW e, e.inputSeq = c.inputSeq, e.unacked = c.unacked, e.acked = c.acked,
           e.you = c.you, e.opp = c.opp,
           NEW now, now = n => at = n /\ e.game = c.game
    PROVE  Together(e, b, d, n, now)
<1>1. /\ OfClient(e) = OfClient(c) /\ (Leaving(e) <=> Leaving(c)) /\ (Held(e) <=> Held(c))
      /\ \A a, g : Caught(e, a, g) = Caught(c, a, g)
  BY DEF OfClient, Leaving, Held, Caught
<1>2. \A v, w : /\ Heard(e, v, w) <=> Heard(c, v, w)
                /\ Follows(e, v, w) <=> Follows(c, v, w)
  BY <1>1 DEF Heard, Follows, Gone
<1>3. PlayersQueue(e) /\ LeaveIsLast(e) /\ Gate(e, b)
  BY DEF PlayersQueue, LeaveIsLast, Gate, Together
<1>4. AllHeard(e, b, d) /\ Barred(e, b, d) /\ KeyframesLead(e, b, d, n)
  BY <1>1, <1>2 DEF AllHeard, Barred, KeyframesLead, Together
<1>5. now = n => ClientLeads(e, b, d)
  BY <1>1, <1>2 DEF ClientLeads, Together
<1> QED
  BY <1>3, <1>4, <1>5 DEF Together

\* A message off the wire.
LEMMA TailTogether ==
    ASSUME NEW c, NEW b, NEW d \in Seq(EventMsg \cup SnapshotMsg), d # <<>>,
           NEW n, NEW at, Together(c, b, d, n, at)
    PROVE  /\ Together(c, b, Tail(d), n, at)
           /\ \A i \in Shots(Tail(d)) : i + 1 \in Shots(d) /\ Tail(d)[i] = d[i + 1] /\ 1 < i + 1
<1>1. /\ Len(d) \in Nat /\ Len(Tail(d)) = Len(d) - 1
      /\ \A i \in 1 .. Len(d) - 1 : /\ Tail(d)[i] = d[i + 1] /\ i + 1 \in 1 .. Len(d)
                                    /\ 1 < i + 1
      /\ \A i, j \in 1 .. Len(d) - 1 : i < j => i + 1 < j + 1
  BY SMTT(30)
<1> DEFINE f == Tail(d)
<1>2. \A i \in Shots(f) : i + 1 \in Shots(d) /\ f[i] = d[i + 1] /\ 1 < i + 1
  BY <1>1 DEF Shots
<1>3. \A i, j \in Shots(f) : i < j => i + 1 < j + 1
  BY <1>1 DEF Shots
<1> HIDE DEF f
<1>4. AllHeard(c, b, f)
  BY <1>2, <1>3 DEF AllHeard, Together
<1>5. Barred(c, b, f)
  BY <1>2 DEF Barred, Together
<1>6. KeyframesLead(c, b, f, n)
  <2>1. KeyframesLead(c, b, d, n)
    BY DEF Together
  <2> QED
    BY <1>2, <1>3, <2>1 DEF KeyframesLead
<1>7. at = n => ClientLeads(c, b, f)
  BY <1>2 DEF ClientLeads, Together
<1> QED
  BY <1>2, <1>4, <1>5, <1>6, <1>7 DEF Together, f

\* The queue that on_snapshot leaves, and what it means for the words.
LEMMA HeardQueue ==
    ASSUME NEW c, Client(c), PlayersQueue(c), LeaveIsLast(c),
           NEW e, Client(e), e.inputSeq = c.inputSeq, c.acked <= e.acked,
           e.unacked = Retain(c.unacked, e.acked)
    PROVE  /\ PlayersQueue(e)
           /\ \A i \in 1 .. Len(e.unacked) :
                 /\ e.acked - c.acked + i \in 1 .. Len(c.unacked)
                 /\ e.unacked[i] = c.unacked[e.acked - c.acked + i]
           /\ \A i \in 1 .. Len(e.unacked) :
                 e.unacked[i].input.kind = "LeaveBazaar" => i = Len(e.unacked)
           /\ Leaving(e) <=> Leaving(c) /\ e.acked < c.inputSeq
<1> DEFINE n == Len(e.unacked)
           o == e.acked - c.acked
<1>1. /\ c.inputSeq \in Nat /\ c.acked \in Nat /\ e.acked \in Nat /\ e.acked <= c.inputSeq
      /\ Len(c.unacked) = c.inputSeq - c.acked /\ n = c.inputSeq - e.acked
  BY ClientFacts DEF Client
<1>2. \A i \in 1 .. n : e.unacked[i] = c.unacked[o + i]
  <2>1. \A i \in 1 .. c.inputSeq - e.acked :
           Retain(c.unacked, e.acked)[i] = c.unacked[e.acked - c.acked + i]
    BY <1>1, TailFacts
  <2> QED
    BY <1>1, <2>1
<1>3. /\ n \in Nat /\ o \in Nat /\ o + n = Len(c.unacked)
      /\ \A i \in 1 .. n : o + i \in 1 .. Len(c.unacked) /\ (o + i = Len(c.unacked) <=> i = n)
      /\ e.acked < c.inputSeq <=> n \in 1 .. n
  BY <1>1, SMTT(30)
<1> HIDE DEF n, o
<1>4. PlayersQueue(e)
  BY <1>2, <1>3 DEF PlayersQueue, n
<1>5. \A i \in 1 .. n : e.unacked[i].input.kind = "LeaveBazaar" => i = n
  BY <1>2, <1>3 DEF LeaveIsLast
<1>6. ASSUME Leaving(e)
      PROVE  Leaving(c) /\ e.acked < c.inputSeq
  <2>1. PICK i \in 1 .. n : e.unacked[i].input.kind = "LeaveBazaar"
    BY <1>6 DEF Leaving, n
  <2>2. i = n
    BY <1>5, <2>1
  <2> QED
    BY <1>2, <1>3, <2>1, <2>2 DEF Leaving
<1>7. ASSUME Leaving(c), e.acked < c.inputSeq
      PROVE  Leaving(e)
  <2>1. c.unacked[Len(c.unacked)].input.kind = "LeaveBazaar"
    BY <1>7, LeaveFacts
  <2>2. n \in 1 .. n /\ e.unacked[n] = c.unacked[Len(c.unacked)]
    BY <1>2, <1>3, <1>7
  <2> QED
    BY <2>1, <2>2 DEF Leaving, n
<1> QED
  BY <1>2, <1>3, <1>4, <1>5, <1>6, <1>7 DEF n, o

\* What on_snapshot makes of the Predictor.
Hears(c, s, e) ==
    /\ Client(e) /\ e.inputSeq = c.inputSeq /\ e.acked = s.ack
    /\ e.you = s.you /\ e.opp = s.opp /\ e.unacked = Retain(c.unacked, s.ack)
    /\ s.keyframe # <<>> => e.game = Caught(c, s.ack, s.keyframe[1])
    /\ s.keyframe = <<>> => e.game = IF c.you /\ ~s.you
                                     THEN [c.game EXCEPT !.inBazaar = FALSE] ELSE c.game

\* The client hears a snapshot.
LEMMA HearTogether ==
    ASSUME NEW c, NEW b, NEW d, NEW n, NEW at,
           Ordered(c, b, d), Together(c, b, d, n, at), d # <<>>,
           NEW s, s = d[1], s.type = "snapshot",
           NEW e, Hears(c, s, e),
           NEW now,
           now = n /\ s.keyframe = <<>> => at = n,
           now = n /\ s.keyframe # <<>> => s.keyframe[2] = n
    PROVE  Together(e, b, Tail(d), n, now)
<1> SUFFICES ASSUME Client(e), e.inputSeq = c.inputSeq, e.acked = s.ack,
                    e.you = s.you, e.opp = s.opp, e.unacked = Retain(c.unacked, s.ack),
                    s.keyframe # <<>> => e.game = Caught(c, s.ack, s.keyframe[1]),
                    s.keyframe = <<>> => e.game = IF c.you /\ ~s.you
                                                  THEN [c.game EXCEPT !.inBazaar = FALSE]
                                                  ELSE c.game
             PROVE  Together(e, b, Tail(d), n, now)
  BY DEF Hears
<1> DEFINE f == Tail(d)
<1>1. /\ Client(c) /\ PlayersQueue(c) /\ LeaveIsLast(c) /\ b \in BoutType
      /\ d \in Seq(EventMsg \cup SnapshotMsg) /\ c.acked <= b.ack /\ b.ack <= c.inputSeq
      /\ \A i \in Shots(d) : c.acked <= d[i].ack /\ d[i].ack <= b.ack
      /\ \A i, j \in Shots(d) : i < j => d[i].ack <= d[j].ack
  BY DEF Ordered, Together
<1>2. /\ c.inputSeq \in Nat /\ c.acked \in Nat /\ b.ack \in Nat /\ b.game \in GameType
      /\ c.game \in GameType /\ c.you \in BOOLEAN
      /\ \A i \in Shots(d) : d[i] \in SnapshotMsg /\ d[i].ack \in Nat
  BY OrderedFacts
<1>3. 1 \in Shots(d)
  BY <1>1 DEF Shots
<1>4. /\ s \in SnapshotMsg /\ s.ack \in Nat /\ c.acked <= s.ack /\ s.ack <= b.ack
      /\ s.ack <= c.inputSeq
  BY <1>1, <1>2, <1>3
<1>5. Together(c, b, f, n, at)
  BY <1>1, TailTogether
<1>6. \A i \in Shots(f) : /\ i + 1 \in Shots(d) /\ f[i] = d[i + 1] /\ 1 < i + 1
                          /\ f[i] \in SnapshotMsg /\ f[i].ack \in Nat
                          /\ s.ack <= f[i].ack /\ f[i].ack <= b.ack
  <2> SUFFICES ASSUME NEW i \in Shots(f)
               PROVE  /\ i + 1 \in Shots(d) /\ f[i] = d[i + 1] /\ 1 < i + 1
                      /\ f[i] \in SnapshotMsg /\ f[i].ack \in Nat
                      /\ s.ack <= f[i].ack /\ f[i].ack <= b.ack
    OBVIOUS
  <2>1. i + 1 \in Shots(d) /\ f[i] = d[i + 1] /\ 1 < i + 1
    BY <1>1, TailTogether
  <2> QED
    BY <1>1, <1>2, <1>3, <2>1
<1> HIDE DEF f
<1>7. /\ PlayersQueue(e)
      /\ \A i \in 1 .. Len(e.unacked) :
            /\ s.ack - c.acked + i \in 1 .. Len(c.unacked)
            /\ e.unacked[i] = c.unacked[s.ack - c.acked + i]
      /\ \A i \in 1 .. Len(e.unacked) :
            e.unacked[i].input.kind = "LeaveBazaar" => i = Len(e.unacked)
      /\ Leaving(e) <=> Leaving(c) /\ s.ack < c.inputSeq
  <2>1. c.acked <= e.acked /\ e.unacked = Retain(c.unacked, e.acked)
    BY <1>4
  <2>2. /\ PlayersQueue(e)
        /\ \A i \in 1 .. Len(e.unacked) :
              /\ e.acked - c.acked + i \in 1 .. Len(c.unacked)
              /\ e.unacked[i] = c.unacked[e.acked - c.acked + i]
        /\ \A i \in 1 .. Len(e.unacked) :
              e.unacked[i].input.kind = "LeaveBazaar" => i = Len(e.unacked)
        /\ Leaving(e) <=> Leaving(c) /\ e.acked < c.inputSeq
    BY <1>1, <2>1, HeardQueue
  <2> QED
    BY <2>2
<1>8. OfClient(e).you = s.you /\ OfClient(e).ack = s.ack
  BY WordFacts
<1>9. ASSUME NEW v, v.ack \in Nat, s.ack <= v.ack, NEW w
      PROVE  /\ Heard(e, v, w) <=> Heard(c, v, w)
             /\ Follows(e, v, w) <=> Follows(c, v, w)
  <2>1. Gone(e, v, w) <=> Gone(c, v, w)
    <3>1. v.ack < c.inputSeq => s.ack < c.inputSeq
      BY <1>2, <1>4, <1>9
    <3> QED
      BY <1>7, <3>1 DEF Gone
  <2> QED
    BY <2>1 DEF Heard, Follows
<1>10. ASSUME NEW w
       PROVE  /\ Heard(e, OfClient(e), w) <=> Heard(c, s, w)
              /\ Follows(e, OfClient(e), w) <=> Follows(c, s, w)
  <2>1. /\ Heard(e, OfClient(e), w) <=> Heard(e, s, w)
        /\ Follows(e, OfClient(e), w) <=> Follows(e, s, w)
    BY <1>8 DEF Heard, Follows, Gone
  <2>2. s.ack <= s.ack
    BY <1>4
  <2> QED
    BY <1>4, <1>9, <2>1, <2>2
<1>11. /\ Heard(c, OfClient(c), s) /\ Heard(c, s, OfBout(b))
       /\ \A i \in Shots(f) : Heard(c, s, f[i])
  BY <1>3, <1>6 DEF Together, AllHeard
<1>12. AllHeard(e, b, f)
  <2>1. ASSUME NEW i \in Shots(f)
        PROVE  /\ Heard(e, OfClient(e), f[i]) /\ Heard(e, f[i], OfBout(b))
               /\ \A j \in Shots(f) : i < j => Heard(e, f[i], f[j])
    <3>1. /\ Heard(c, f[i], OfBout(b))
          /\ \A j \in Shots(f) : i < j => Heard(c, f[i], f[j])
      BY <1>5 DEF Together, AllHeard
    <3> QED
      BY <1>6, <1>9, <1>10, <1>11, <3>1
  <2> QED
    BY <1>10, <1>11, <2>1 DEF AllHeard
<1>13. LeaveIsLast(e)
  <2> SUFFICES ASSUME NEW i \in 1 .. Len(e.unacked),
                      e.unacked[i].input.kind = "LeaveBazaar"
               PROVE  e.you
    BY <1>7 DEF LeaveIsLast
  <2>1. Leaving(e)
    BY DEF Leaving
  <2>2. Leaving(c) /\ s.ack < c.inputSeq
    BY <1>7, <2>1
  <2>3. c.you /\ ~Gone(c, OfClient(c), s)
    <3>1. c.you
      BY <1>1, <2>2, LeaveFacts
    <3>2. s.ack # c.inputSeq
      BY <1>2, <1>4, <2>2
    <3> QED
      BY <3>1, <3>2 DEF Gone
  <2> QED
    BY <1>11, <2>3, WordFacts DEF Heard
<1>14. Gate(e, b)
  BY <1>5, <1>7 DEF Gate, Together
<1>15. Barred(e, b, f)
  <2>1. Barred(c, b, f) /\ Barred(c, b, d)
    BY <1>5 DEF Together
  <2> QED
    BY <1>3, <2>1 DEF Barred, Held
<1>16. ASSUME NEW a \in Nat, s.ack <= a, a <= b.ack, NEW g \in GameType
       PROVE  Caught(e, a, g) = Caught(c, a, g)
  <2>1. a <= c.inputSeq
    BY <1>1, <1>2, <1>16
  <2> QED
    BY <1>1, <1>4, <1>16, <2>1, CaughtHeard
<1>17. Caught(e, b.ack, b.game) = Caught(c, b.ack, b.game)
  <2>1. b.ack <= b.ack
    BY <1>2
  <2> QED
    BY <1>2, <1>4, <1>16, <2>1
<1>18. KeyframesLead(e, b, f, n)
  <2> SUFFICES ASSUME NEW i \in Shots(f), f[i].keyframe # <<>>, f[i].keyframe[2] = n
               PROVE  /\ Follows(e, f[i], OfBout(b))
                      /\ \A j \in Shots(f) : i < j => Follows(e, f[i], f[j])
                      /\ f[i].keyframe[1].inBazaar <=> f[i].you
                      /\ Out(Caught(e, f[i].ack, f[i].keyframe[1]))
                         = Out(Caught(e, b.ack, b.game))
    BY DEF KeyframesLead
  <2>1. /\ Follows(c, f[i], OfBout(b))
        /\ \A j \in Shots(f) : i < j => Follows(c, f[i], f[j])
        /\ f[i].keyframe[1].inBazaar <=> f[i].you
        /\ Out(Caught(c, f[i].ack, f[i].keyframe[1])) = Out(Caught(c, b.ack, b.game))
    BY <1>5 DEF KeyframesLead, Together
  <2>2. f[i].keyframe[1] \in GameType
    BY <1>6 DEF SnapshotMsg
  <2>3. Caught(e, f[i].ack, f[i].keyframe[1]) = Caught(c, f[i].ack, f[i].keyframe[1])
    BY <1>6, <1>16, <2>2
  <2> QED
    BY <1>6, <1>9, <1>17, <2>1, <2>3
<1>19. ASSUME now = n
       PROVE  ClientLeads(e, b, f)
  <2>1. CASE s.keyframe # <<>>
    <3>1. s.keyframe[2] = n
      BY <1>19, <2>1
    <3>2. /\ Follows(c, s, OfBout(b))
          /\ \A j \in Shots(d) : 1 < j => Follows(c, s, d[j])
          /\ s.keyframe[1].inBazaar <=> s.you
          /\ Out(Caught(c, s.ack, s.keyframe[1])) = Out(Caught(c, b.ack, b.game))
      BY <1>3, <2>1, <3>1 DEF KeyframesLead, Together
    <3>3. s.keyframe[1] \in GameType
      BY <1>4, <2>1 DEF SnapshotMsg
    <3>4. e.game.inBazaar = s.keyframe[1].inBazaar
      BY <1>1, <1>4, <2>1, <3>3, CaughtKeeps
    <3>5. Out(e.game) = Out(Caught(e, b.ack, b.game))
      BY <1>17, <2>1, <3>2
    <3>6. \A j \in Shots(f) : Follows(c, s, f[j])
      BY <1>6, <3>2
    <3> QED
      BY <1>10, <3>2, <3>4, <3>5, <3>6 DEF ClientLeads
  <2>2. CASE s.keyframe = <<>>
    <3>1. /\ Follows(c, OfClient(c), OfBout(b))
          /\ \A j \in Shots(d) : Follows(c, OfClient(c), d[j])
          /\ c.game.inBazaar <=> c.you
          /\ Out(c.game) = Out(Caught(c, b.ack, b.game))
      BY <1>19, <2>2 DEF ClientLeads, Together
    <3>2. ASSUME NEW w, w.ack \in Nat, s.ack <= w.ack, w.ack <= c.inputSeq,
                 Follows(c, OfClient(c), w)
          PROVE  Follows(c, s, w)
      <4> SUFFICES ASSUME w.you PROVE s.you /\ ~Gone(c, s, w)
        BY DEF Follows
      <4>1. c.you /\ ~Gone(c, OfClient(c), w)
        BY <3>2, WordFacts DEF Follows
      <4>2. ~Gone(c, s, w)
        <5>1. s.ack < c.inputSeq => c.acked < c.inputSeq
          BY <1>2, <1>4
        <5> QED
          BY <4>1, <5>1, WordFacts DEF Gone
      <4>3. ~Gone(c, OfClient(c), s)
        <5>1. s.ack = c.inputSeq => w.ack = c.inputSeq
          BY <1>2, <1>4, <3>2
        <5> QED
          BY <4>1, <5>1 DEF Gone
      <4> QED
        BY <1>11, <4>1, <4>2, <4>3, WordFacts DEF Heard
    <3>3. Follows(c, s, OfBout(b))
      <4>1. OfBout(b).ack = b.ack
        BY WordFacts
      <4> QED
        BY <1>1, <1>2, <1>4, <3>1, <3>2, <4>1
    <3>4. ASSUME NEW j \in Shots(f)
          PROVE  Follows(c, s, f[j])
      <4>1. f[j].ack <= c.inputSeq
        BY <1>1, <1>2, <1>6
      <4> QED
        BY <1>6, <3>1, <3>2, <4>1
    <3>5. (e.game.inBazaar <=> e.you) /\ Out(e.game) = Out(c.game)
      <4>1. s.you => c.you
        <5>1. Follows(c, OfClient(c), s)
          BY <1>3, <3>1
        <5> QED
          BY <5>1, WordFacts DEF Follows
      <4>2. CASE c.you /\ ~s.you
        BY <1>2, <2>2, <4>2, OutFacts
      <4>3. CASE ~ (c.you /\ ~s.you)
        BY <2>2, <3>1, <4>1, <4>3
      <4> QED
        BY <4>2, <4>3
    <3> QED
      BY <1>10, <1>17, <3>1, <3>3, <3>4, <3>5 DEF ClientLeads
  <2> QED
    BY <2>1, <2>2
<1> QED
  BY <1>7, <1>12, <1>13, <1>14, <1>15, <1>18, <1>19 DEF Together, f

\* predict: what the client makes of its input, the server's game will be made of
\* it as well, because the client holds back what the barrier would drop.
LEMMA PredictTogether ==
    ASSUME NEW c, NEW b, NEW d, NEW n, NEW at,
           Ordered(c, b, d), Together(c, b, d, n, at), ~Leaving(c),
           NEW input \in InputType, input \in PlayerInput, Accepted(c, input),
           input.kind = "LeaveBazaar" => c.you,
           NEW e, e = Predicted(c, input)
    PROVE  /\ Together(e, b, d, n, at)
           /\ Leaving(e) => input.kind = "LeaveBazaar"
<1> DEFINE q == Len(c.unacked)
           m == e.unacked[q + 1]
<1>1. /\ Client(c) /\ c.game \in GameType /\ c.inputSeq \in Nat /\ c.acked \in Nat /\ q \in Nat
      /\ c.acked <= b.ack /\ b.ack <= c.inputSeq /\ b.ack \in Nat /\ b.game \in GameType
      /\ \A i \in Shots(d) : /\ d[i] \in SnapshotMsg /\ d[i].ack \in Nat /\ d[i].you \in BOOLEAN
                             /\ c.acked <= d[i].ack /\ d[i].ack <= b.ack
  BY OrderedFacts DEF Ordered
<1>2. /\ Client(e) /\ e.acked = c.acked /\ e.you = c.you /\ e.opp = c.opp
      /\ \A i \in 1 .. q : e.unacked[i] = c.unacked[i]
      /\ e.inputSeq = c.inputSeq + 1 /\ Len(e.unacked) = q + 1 /\ m.input = input
      /\ e.game = IF input.kind = "LeaveBazaar" THEN c.game ELSE Apply(c.game, input)
  <2>1. /\ Extends(c, e) /\ e.inputSeq = c.inputSeq + 1 /\ Len(e.unacked) = q + 1
        /\ e.unacked[q + 1].input = input
        /\ e.game = IF input.kind = "LeaveBazaar" THEN c.game ELSE Apply(c.game, input)
    BY <1>1, PredictedExtends
  <2> QED
    BY <2>1 DEF Extends
<1>3. m \in InputMsg
  BY <1>1, <1>2, ClientFacts DEF Client
<1> HIDE DEF m, q
<1>4. /\ \A i \in 1 .. q + 1 : i \in 1 .. q \/ i = q + 1
      /\ \A i \in 1 .. q : c.unacked[i].input.kind # "LeaveBazaar" /\ i \in 1 .. Len(c.unacked)
      /\ q + 1 \in 1 .. q + 1
  <2>1. \A i \in 1 .. q : c.unacked[i].input.kind # "LeaveBazaar" /\ i \in 1 .. Len(c.unacked)
    BY DEF Leaving, q
  <2> QED
    BY <1>1, <2>1
<1>5. PlayersQueue(c) /\ AllHeard(c, b, d) /\ Gate(c, b) /\ Barred(c, b, d)
      /\ KeyframesLead(c, b, d, n) /\ (at = n => ClientLeads(c, b, d))
  BY DEF Together
<1>6. PlayersQueue(e) /\ LeaveIsLast(e)
  <2>1. ASSUME NEW i \in 1 .. q + 1
        PROVE  /\ e.unacked[i].input \in PlayerInput
               /\ e.unacked[i].input.kind = "LeaveBazaar" => i = q + 1 /\ c.you
    <3>1. CASE i \in 1 .. q
      BY <1>2, <1>4, <1>5, <3>1 DEF PlayersQueue, q
    <3>2. CASE i = q + 1
      BY <1>2, <3>2 DEF m
    <3> QED
      BY <1>4, <3>1, <3>2
  <2> QED
    BY <1>2, <2>1 DEF PlayersQueue, LeaveIsLast
<1>7. Leaving(e) => input.kind = "LeaveBazaar"
  <2>1. ASSUME NEW i \in 1 .. q + 1, e.unacked[i].input.kind = "LeaveBazaar"
        PROVE  input.kind = "LeaveBazaar"
    BY <1>2, <1>4, <2>1 DEF m
  <2> QED
    BY <1>2, <2>1 DEF Leaving
<1>8. ASSUME NEW v, NEW w, w.ack \in Nat, w.ack <= b.ack
      PROVE  /\ Heard(c, v, w) <=> (v.you => w.you)
             /\ Heard(e, v, w) <=> (v.you => w.you)
             /\ Follows(c, v, w) <=> (w.you => v.you)
             /\ Follows(e, v, w) <=> (w.you => v.you)
  <2>1. ~Gone(c, v, w)
    BY DEF Gone
  <2>2. w.ack # e.inputSeq
    BY <1>1, <1>2, <1>8
  <2>3. ~Gone(e, v, w)
    BY <2>2 DEF Gone
  <2> QED
    BY <2>1, <2>3 DEF Heard, Follows
<1>9. /\ OfClient(e) = OfClient(c)
      /\ OfClient(c).ack \in Nat /\ OfClient(c).ack <= b.ack
      /\ OfBout(b).ack \in Nat /\ OfBout(b).ack <= b.ack
      /\ OfBout(b).you = b.game.inBazaar /\ OfClient(c).you = c.you
  BY <1>1, <1>2 DEF OfClient, OfBout, Word
<1>10. /\ Heard(c, OfClient(c), OfBout(b)) <=> Heard(e, OfClient(c), OfBout(b))
       /\ \A i \in Shots(d) :
             /\ Heard(c, OfClient(c), d[i]) <=> Heard(e, OfClient(c), d[i])
             /\ Heard(c, d[i], OfBout(b)) <=> Heard(e, d[i], OfBout(b))
             /\ Follows(c, d[i], OfBout(b)) <=> Follows(e, d[i], OfBout(b))
             /\ Follows(c, OfClient(c), d[i]) <=> Follows(e, OfClient(c), d[i])
             /\ \A j \in Shots(d) : /\ Heard(c, d[j], d[i]) <=> Heard(e, d[j], d[i])
                                    /\ Follows(c, d[j], d[i]) <=> Follows(e, d[j], d[i])
       /\ Follows(c, OfClient(c), OfBout(b)) <=> Follows(e, OfClient(c), OfBout(b))
  BY <1>1, <1>8, <1>9
<1>11. AllHeard(e, b, d)
  BY <1>5, <1>9, <1>10 DEF AllHeard
<1>12. Barred(e, b, d)
  BY <1>2, <1>5 DEF Barred, Held
<1>13. Gate(e, b)
  <2> SUFFICES ASSUME b.opBazaar, ~b.game.inBazaar, NEW i \in 1 .. q + 1,
                      b.ack < e.unacked[i].seq
               PROVE  BazaarInput(e.unacked[i].input)
    BY <1>2 DEF Gate
  <2>1. CASE i \in 1 .. q
    BY <1>2, <1>4, <1>5, <2>1 DEF Gate
  <2>2. CASE i = q + 1
    <3>1. BazaarInput(input)
      BY <1>5 DEF Barred, Accepted
    <3> QED
      BY <1>2, <2>2, <3>1 DEF m
  <2> QED
    BY <1>4, <2>1, <2>2
<1>14. ASSUME NEW a \in Nat, c.acked <= a, a <= c.inputSeq, NEW g \in GameType
       PROVE  /\ Caught(c, a, g) \in GameType /\ Caught(c, a, g).inBazaar = g.inBazaar
              /\ Caught(e, a, g) = Replay(Caught(c, a, g), m)
  <2>1. Caught(c, a, g) \in GameType /\ Caught(c, a, g).inBazaar = g.inBazaar
    BY <1>1, <1>5, <1>14, CaughtKeeps
  <2>2. Caught(e, a, g) = Replay(Caught(c, a, g), e.unacked[Len(c.unacked) + 1])
    BY <1>1, <1>2, <1>14, CaughtLast DEF q
  <2> QED
    BY <2>1, <2>2 DEF m, q
<1>15. KeyframesLead(e, b, d, n)
  <2> SUFFICES ASSUME NEW i \in Shots(d), d[i].keyframe # <<>>, d[i].keyframe[2] = n
               PROVE  /\ Follows(e, d[i], OfBout(b))
                      /\ \A j \in Shots(d) : i < j => Follows(e, d[i], d[j])
                      /\ d[i].keyframe[1].inBazaar <=> d[i].you
                      /\ Out(Caught(e, d[i].ack, d[i].keyframe[1]))
                         = Out(Caught(e, b.ack, b.game))
    BY DEF KeyframesLead
  <2> DEFINE k == d[i].keyframe[1]
  <2>1. /\ Follows(c, d[i], OfBout(b))
        /\ \A j \in Shots(d) : i < j => Follows(c, d[i], d[j])
        /\ k.inBazaar <=> d[i].you
        /\ Out(Caught(c, d[i].ack, k)) = Out(Caught(c, b.ack, b.game))
    BY <1>5 DEF KeyframesLead
  <2>2. k \in GameType
    BY <1>1 DEF SnapshotMsg
  <2> HIDE DEF k
  <2>3. d[i].you <=> b.game.inBazaar
    <3>1. Heard(c, d[i], OfBout(b))
      BY <1>5 DEF AllHeard
    <3> QED
      BY <1>8, <1>9, <2>1, <3>1
  <2>4. /\ c.acked <= d[i].ack /\ d[i].ack <= c.inputSeq /\ d[i].ack \in Nat
    BY <1>1
  <2>5. PICK g, h : g = Caught(c, d[i].ack, k) /\ h = Caught(c, b.ack, b.game)
    OBVIOUS
  <2>6. /\ g \in GameType /\ g.inBazaar = k.inBazaar
        /\ Caught(e, d[i].ack, k) = Replay(g, m)
    BY <1>14, <2>2, <2>4, <2>5
  <2>7. /\ h \in GameType /\ h.inBazaar = b.game.inBazaar
        /\ Caught(e, b.ack, b.game) = Replay(h, m)
    BY <1>1, <1>14, <2>5
  <2>8. Out(g) = Out(h) /\ (g.inBazaar <=> h.inBazaar)
    BY <2>1, <2>3, <2>5, <2>6, <2>7
  <2>9. g = h
    BY <2>6, <2>7, <2>8, OutFacts
  <2> QED
    BY <1>10, <2>1, <2>6, <2>7, <2>9 DEF k
<1>16. ASSUME at = n
       PROVE  ClientLeads(e, b, d)
  <2>1. /\ Follows(c, OfClient(c), OfBout(b))
        /\ \A j \in Shots(d) : Follows(c, OfClient(c), d[j])
        /\ c.game.inBazaar <=> c.you
        /\ Out(c.game) = Out(Caught(c, b.ack, b.game))
    BY <1>5, <1>16 DEF ClientLeads
  <2>2. c.you <=> b.game.inBazaar
    <3>1. Heard(c, OfClient(c), OfBout(b))
      BY <1>5 DEF AllHeard
    <3> QED
      BY <1>8, <1>9, <2>1, <3>1
  <2>3. PICK h : h = Caught(c, b.ack, b.game)
    OBVIOUS
  <2>4. /\ h \in GameType /\ h.inBazaar = b.game.inBazaar
        /\ Caught(e, b.ack, b.game) = Replay(h, m)
    BY <1>1, <1>14, <2>3
  <2>5. c.game = h
    <3>1. Out(c.game) = Out(h) /\ (c.game.inBazaar <=> h.inBazaar)
      BY <2>1, <2>2, <2>3, <2>4
    <3> QED
      BY <1>1, <2>4, <3>1, OutFacts
  <2>6. e.game = Replay(c.game, m) /\ (e.game.inBazaar <=> c.you)
    <3>1. CASE input.kind = "LeaveBazaar"
      BY <1>2, <2>1, <3>1 DEF Replay
    <3>2. CASE input.kind # "LeaveBazaar"
      <4>1. e.game = Apply(c.game, input) /\ Apply(c.game, input).inBazaar = c.game.inBazaar
        BY <1>1, <1>2, <3>2, ApplyByPlayer
      <4>2. c.game.inBazaar => Shopping(input)
        BY <2>1, <3>2 DEF Accepted, Held, BazaarInput
      <4>3. Replay(c.game, m) = Apply(c.game, input)
        BY <1>2, <3>2, <4>2 DEF Replay
      <4> QED
        BY <2>1, <4>1, <4>3
    <3> QED
      BY <3>1, <3>2
  <2> QED
    BY <1>2, <1>9, <1>10, <2>1, <2>4, <2>5, <2>6 DEF ClientLeads
<1> QED
  BY <1>6, <1>7, <1>11, <1>12, <1>13, <1>15, <1>16 DEF Together

\* A Predictor that went on and is still together with the server.
Still(c, e, b, d, n, at) ==
    /\ Client(e) /\ e.acked = c.acked /\ e.you = c.you /\ e.opp = c.opp
    /\ c.inputSeq <= e.inputSeq
    /\ Together(e, b, d, n, at)

LEMMA StillOrdered ==
    ASSUME NEW c, NEW b, NEW d, NEW n, NEW at, Ordered(c, b, d),
           NEW e, Still(c, e, b, d, n, at)
    PROVE  Ordered(e, b, d)
<1>1. /\ c.inputSeq \in Nat /\ e.inputSeq \in Nat /\ b.ack \in Nat
      /\ b.ack <= c.inputSeq /\ c.inputSeq <= e.inputSeq
  BY OrderedFacts, ClientFacts DEF Ordered, Still, Client
<1>2. b.ack <= e.inputSeq
  BY <1>1
<1> QED
  BY <1>2 DEF Ordered, Still

LEMMA PredictStill ==
    ASSUME NEW c, NEW b, NEW d, NEW n, NEW at, Ordered(c, b, d),
           NEW e, Still(c, e, b, d, n, at), ~Leaving(e),
           NEW input \in InputType, input \in PlayerInput, input.kind = "LeaveBazaar" => c.you
    PROVE  /\ Still(c, Predict(e, input), b, d, n, at)
           /\ Leaving(Predict(e, input)) => input.kind = "LeaveBazaar"
<1>1. Ordered(e, b, d)
  BY StillOrdered
<1>2. Client(e) /\ e.inputSeq \in Nat /\ c.inputSeq \in Nat /\ c.inputSeq <= e.inputSeq
  BY <1>1, OrderedFacts DEF Ordered, Still
<1>3. CASE Accepted(e, input)
  <2>4. Predict(e, input) = Predicted(e, input)
    BY <1>3 DEF Predict
  <2>1. PICK f : f = Predicted(e, input)
    OBVIOUS
  <2>2. Together(f, b, d, n, at) /\ (Leaving(f) => input.kind = "LeaveBazaar")
    BY <1>1, <1>3, <2>1, PredictTogether DEF Still
  <2>3. Client(f) /\ f.acked = e.acked /\ f.you = e.you /\ f.opp = e.opp
        /\ f.inputSeq = e.inputSeq + 1
    BY <1>2, <2>1, PredictedExtends DEF Extends
  <2>5. c.inputSeq <= f.inputSeq
    BY <1>2, <2>3
  <2> QED
    BY <2>1, <2>2, <2>3, <2>4, <2>5 DEF Still
<1>4. CASE ~Accepted(e, input)
  BY <1>4 DEF Predict
<1> QED
  BY <1>3, <1>4

\* One after another, the leave the last if there is one.
LEMMA PredictAllStill ==
    ASSUME NEW c, NEW b, NEW d, NEW n, NEW at, Ordered(c, b, d),
           Together(c, b, d, n, at), ~Leaving(c),
           NEW inputs \in Seq(InputType),
           \A j \in 1 .. Len(inputs) : /\ inputs[j] \in PlayerInput
                                       /\ inputs[j].kind = "LeaveBazaar" =>
                                             j = Len(inputs) /\ c.you
    PROVE  Still(c, PredictAll(c, inputs), b, d, n, at)
<1> DEFINE l == Len(inputs)
<1>1. /\ l \in Nat /\ Client(c) /\ c.inputSeq \in Nat /\ \A j \in 1 .. l : inputs[j] \in InputType
  BY OrderedFacts DEF Ordered
<1>2. PICK f : /\ f[0] = c /\ PredictAll(c, inputs) = f[l]
               /\ \A k \in 1 .. l : f[k] = Predict(f[k - 1], inputs[k])
  BY <1>1, PredictAllRuns
<1> DEFINE S == {k \in 0 .. l : /\ Still(c, f[k], b, d, n, at)
                                /\ k < l => ~Leaving(f[k])}
<1>3. 0 \in S
  BY <1>1, <1>2 DEF Still
<1>4. ASSUME NEW k \in 0 .. l - 1, k \in S
      PROVE  k + 1 \in S
  <2>1. /\ k + 1 \in 1 .. l /\ k + 1 \in 0 .. l /\ (k + 1) - 1 = k /\ k < l
        /\ k + 1 < l => k + 1 # l
    BY <1>1
  <2>2. f[k + 1] = Predict(f[k], inputs[k + 1])
    BY <1>2, <2>1
  <2>3. Still(c, f[k], b, d, n, at) /\ ~Leaving(f[k])
    BY <1>4, <2>1
  <2>4. /\ inputs[k + 1] \in InputType /\ inputs[k + 1] \in PlayerInput
        /\ inputs[k + 1].kind = "LeaveBazaar" => k + 1 = l /\ c.you
    BY <1>1, <2>1
  <2>5. /\ Still(c, f[k + 1], b, d, n, at)
        /\ Leaving(f[k + 1]) => k + 1 = l
    BY <2>2, <2>3, <2>4, PredictStill
  <2> QED
    BY <2>1, <2>5
<1>5. l \in S
  <2> HIDE DEF S, l
  <2>1. 0 .. l \subseteq S
    BY <1>1, <1>3, <1>4, InductionUpTo
  <2> QED
    BY <1>1, <2>1
<1> QED
  BY <1>2, <1>5

\* What was sent is on its way, behind what already was.
LEMMA SentPending ==
    ASSUME NEW c, Client(c), NEW d, Extends(c, d), NEW b, b.ack \in Nat,
           c.acked <= b.ack, b.ack <= c.inputSeq,
           NEW u \in Seq(InputMsg \cup ResyncMsg), Pending(c, b, u, 0)
    PROVE  Pending(d, b, u \o Sent(c, d), 0)
<1> DEFINE l == Len(u)
           o == d.inputSeq - c.inputSeq
           s == Sent(c, d)
           v == u \o s
<1>1. /\ c.inputSeq \in Nat /\ c.acked \in Nat /\ d.inputSeq \in Nat /\ d.acked = c.acked
      /\ c.inputSeq <= d.inputSeq /\ Len(c.unacked) = c.inputSeq - c.acked
      /\ \A i \in 1 .. Len(c.unacked) : d.unacked[i] = c.unacked[i]
      /\ l \in Nat /\ o \in Nat
  BY ClientFacts DEF Extends, Client
<1>2. /\ s \in Seq(InputMsg) /\ Len(s) = o
      /\ \A i \in 1 .. o : /\ s[i] = d.unacked[Len(c.unacked) + i]
                           /\ s[i].seq = c.inputSeq + i
                           /\ s[i].type = "input"
  <2>1. /\ s \in Seq(InputMsg) /\ Len(s) = o
        /\ \A i \in 1 .. o : /\ s[i] = d.unacked[Len(c.unacked) + i]
                             /\ s[i].seq = c.inputSeq + i
    BY SentIsNew
  <2> HIDE DEF s, o
  <2>2. \A i \in 1 .. o : s[i] \in InputMsg
    BY <2>1
  <2> QED
    BY <2>1, <2>2, MessageKinds
<1>3. d.inputSeq = c.inputSeq + o
  <2>1. d.inputSeq \in Nat /\ c.inputSeq \in Nat
    BY <1>1
  <2> QED
    BY <2>1 DEF o
<1> HIDE DEF o, s
<1>4. /\ Len(v) = l + o
      /\ \A i \in 1 .. l : v[i] = u[i]
      /\ \A i \in 1 .. o : v[l + i] = s[i]
  <2>1. s \in Seq(InputMsg \cup ResyncMsg)
    BY <1>2
  <2> DEFINE M == InputMsg \cup ResyncMsg
  <2>2. u \in Seq(M) /\ s \in Seq(M)
    BY <2>1
  <2> HIDE DEF M
  <2>3. Len(u) \in Nat /\ Len(u \o s) = Len(u) + Len(s)
    BY <2>2
  <2>4. \A i \in 1 .. Len(u) + Len(s) :
           (u \o s)[i] = IF i <= Len(u) THEN u[i] ELSE s[i - Len(u)]
    BY <2>2
  <2>5. \A i \in 1 .. o : /\ l + i \in 1 .. l + o /\ ~ (l + i <= l) /\ (l + i) - l = i
    BY <1>1
  <2> QED
    BY <1>1, <1>2, <2>3, <2>4, <2>5
<1> HIDE DEF v, l
<1>5. /\ \A i \in 1 .. l : u[i].type = "input" =>
            /\ b.ack < u[i].seq /\ u[i].seq <= c.inputSeq
            /\ u[i] = c.unacked[u[i].seq - c.acked]
      /\ \A i, j \in 1 .. l :
            i < j /\ u[i].type = "input" /\ u[j].type = "input" => u[i].seq < u[j].seq
      /\ \A q \in b.ack + 1 .. c.inputSeq :
            \E i \in 1 .. l : u[i].type = "input" /\ u[i].seq = q
  <2>1. 0 + 1 = 1
    OBVIOUS
  <2> QED
    BY <2>1 DEF Pending, l
<1>6. \A i \in 1 .. l : u[i].type = "input" => u[i].seq \in Nat
  <2>1. \A i \in 1 .. l : u[i] \in InputMsg \cup ResyncMsg
    BY DEF l
  <2> QED
    BY <2>1, MessageKinds
<1>7. ASSUME NEW i \in 1 .. l + o
      PROVE  \/ i \in 1 .. l /\ v[i] = u[i]
             \/ \E k \in 1 .. o : i = l + k /\ v[i] = s[k]
  <2>1. CASE i \in 1 .. l
    BY <1>4, <2>1
  <2>2. CASE i \notin 1 .. l
    <3>1. PICK k \in 1 .. o : i = l + k
      <4>1. i - l \in 1 .. o /\ i = l + (i - l)
        BY <1>1, <2>2
      <4> QED
        BY <4>1
    <3> QED
      BY <1>4, <3>1
  <2> QED
    BY <2>1, <2>2
<1>8. ASSUME NEW i \in 1 .. l + o, v[i].type = "input"
      PROVE  /\ b.ack < v[i].seq /\ v[i].seq <= d.inputSeq
             /\ v[i] = d.unacked[v[i].seq - d.acked]
  <2>1. CASE i \in 1 .. l /\ v[i] = u[i]
    <3>1. /\ b.ack < u[i].seq /\ u[i].seq <= c.inputSeq
          /\ u[i] = c.unacked[u[i].seq - c.acked] /\ u[i].seq \in Nat
      BY <1>5, <1>6, <1>8, <2>1
    <3>2. u[i].seq - c.acked \in 1 .. Len(c.unacked) /\ u[i].seq <= d.inputSeq
      BY <1>1, <3>1, SMTT(30)
    <3> QED
      BY <1>1, <2>1, <3>1, <3>2
  <2>2. ASSUME NEW k \in 1 .. o, i = l + k, v[i] = s[k]
        PROVE  /\ b.ack < s[k].seq /\ s[k].seq <= d.inputSeq
               /\ s[k] = d.unacked[s[k].seq - d.acked]
    <3>1. s[k].seq = c.inputSeq + k /\ s[k] = d.unacked[Len(c.unacked) + k]
      BY <1>2
    <3>2. /\ (c.inputSeq + k) - d.acked = Len(c.unacked) + k
          /\ b.ack < c.inputSeq + k /\ c.inputSeq + k <= d.inputSeq
      BY <1>1, <1>3
    <3> QED
      BY <3>1, <3>2
  <2> QED
    BY <1>7, <2>1, <2>2
<1>9. ASSUME NEW i \in 1 .. l + o, NEW j \in 1 .. l + o, i < j,
             v[i].type = "input", v[j].type = "input"
      PROVE  v[i].seq < v[j].seq
  <2>1. CASE i \in 1 .. l /\ v[i] = u[i] /\ j \in 1 .. l /\ v[j] = u[j]
    BY <1>5, <1>9, <2>1
  <2>2. ASSUME i \in 1 .. l /\ v[i] = u[i], NEW k \in 1 .. o, j = l + k, v[j] = s[k]
        PROVE  v[i].seq < v[j].seq
    <3>1. u[i].seq \in Nat /\ u[i].seq <= c.inputSeq /\ s[k].seq = c.inputSeq + k
      BY <1>2, <1>5, <1>6, <1>9, <2>2
    <3> QED
      BY <1>1, <2>2, <3>1, SMTT(30)
  <2>3. ASSUME NEW k \in 1 .. o, i = l + k, v[i] = s[k]
        PROVE  v[i].seq < v[j].seq
    <3>1. j \notin 1 .. l
      BY <1>1, <1>9, <2>3
    <3>2. PICK h \in 1 .. o : j = l + h /\ v[j] = s[h]
      BY <1>7, <3>1
    <3>3. s[k].seq = c.inputSeq + k /\ s[h].seq = c.inputSeq + h /\ k < h
      BY <1>1, <1>2, <1>9, <2>3, <3>2
    <3> QED
      BY <1>1, <2>3, <3>2, <3>3
  <2> QED
    BY <1>7, <2>1, <2>2, <2>3
<1>10. ASSUME NEW q \in b.ack + 1 .. d.inputSeq
       PROVE  \E i \in 1 .. l + o : v[i].type = "input" /\ v[i].seq = q
  <2>1. CASE q <= c.inputSeq
    <3>1. q \in b.ack + 1 .. c.inputSeq
      BY <1>1, <2>1
    <3>2. PICK i \in 1 .. l : u[i].type = "input" /\ u[i].seq = q
      BY <1>5, <3>1
    <3>3. i \in 1 .. l + o
      BY <1>1
    <3> QED
      BY <1>4, <3>2, <3>3
  <2>2. CASE ~ (q <= c.inputSeq)
    <3>1. PICK a \in Nat, r \in Nat : a = c.inputSeq /\ r = d.inputSeq
      BY <1>1
    <3>2. PICK k \in 1 .. o : q = a + k
      <4>1. r = a + o /\ ~ (q <= a)
        BY <1>3, <2>2, <3>1
      <4>2. b.ack + 1 \in Nat /\ q \in b.ack + 1 .. r
        BY <3>1
      <4>3. q \in Nat /\ a < q /\ q <= r
        BY <4>1, <4>2
      <4>4. q - a \in 1 .. o /\ q = a + (q - a)
        BY <1>1, <4>1, <4>3
      <4> QED
        BY <4>4
    <3>3. l + k \in 1 .. l + o
      BY <1>1
    <3> QED
      BY <1>2, <1>4, <3>1, <3>2, <3>3
  <2> QED
    BY <2>1, <2>2
<1>11. 0 + 1 = 1
  OBVIOUS
<1> QED
  BY <1>4, <1>8, <1>9, <1>10, <1>11 DEF Pending, v, s

-----------------------------------------------------------------------------
(* The keyframes, step by step.                                            *)

\* What lies between the client and the server is what keeps them together.
Replayed ==
    /\ Together(client, bout, down, moves.count, moves.at)
    /\ Pending(client, bout, up, 0)

LEMMA NetOrdered ==
    ASSUME NInv
    PROVE  /\ Ordered(client, bout, down)
           /\ \A i \in Shots(down) : down[i].keyframe # <<>> => down[i].keyframe[2] <= moves.count
           /\ moves \in [count : Nat, at : Int] /\ moves.count \in Nat
           /\ moves.at # -1 \/ moves.at # moves.count
BY DEF NInv, NetTyped, Downward, Ordered, Shots

LEMMA InitReplayed == Init => Replayed
<1> SUFFICES ASSUME Init PROVE Replayed
  OBVIOUS
<1>1. NInv /\ bout \in BoutType /\ Client(client)
  BY InitHolds DEF NInv, NetTyped
<1>2. /\ client.unacked = <<>> /\ client.inputSeq = 0 /\ client.acked = 0 /\ client.you = FALSE
      /\ client.game = NewGame /\ bout.game = NewGame /\ bout.ack = 0 /\ bout.opBazaar = FALSE
      /\ NewGame.inBazaar = FALSE /\ down = <<>> /\ up = <<>>
  BY DEF Init, NewClient, NewGame
<1>3. Len(client.unacked) = 0 /\ Len(down) = 0 /\ Len(up) = 0
  BY <1>2
<1>4. Shots(down) = {}
  BY <1>3 DEF Shots
<1>5. /\ \A i \in 1 .. Len(client.unacked) : FALSE
      /\ \A i \in 0 + 1 .. Len(up) : FALSE
      /\ \A q \in bout.ack + 1 .. client.inputSeq : FALSE
  BY <1>2, <1>3
<1>6. PlayersQueue(client) /\ LeaveIsLast(client) /\ Gate(client, bout) /\ Barred(client, bout, down)
  BY <1>2, <1>5 DEF PlayersQueue, LeaveIsLast, Gate, Barred
<1>7. /\ ~OfBout(bout).you /\ ~OfClient(client).you
  BY <1>2, WordFacts
<1>8. AllHeard(client, bout, down) /\ KeyframesLead(client, bout, down, moves.count)
  BY <1>4, <1>7 DEF AllHeard, KeyframesLead, Heard
<1>9. ClientLeads(client, bout, down)
  <2>1. Caught(client, client.inputSeq, bout.game) = bout.game
    BY <1>1, CaughtUp DEF BoutType
  <2> QED
    BY <1>2, <1>4, <1>7, <2>1 DEF ClientLeads, Follows
<1> QED
  BY <1>5, <1>6, <1>8, <1>9 DEF Replayed, Together, Pending

\* The server takes a message.
LEMMA ReceiveReplayed == NInv /\ Replayed /\ ServerReceive => Replayed'
<1> SUFFICES ASSUME NInv, Replayed, ServerReceive PROVE Replayed'
  OBVIOUS
<1>1. /\ Ordered(client, bout, down) /\ Client(client) /\ bout \in BoutType
      /\ client.acked <= bout.ack /\ bout.ack <= client.inputSeq
      /\ bout.ack \in Nat /\ client.inputSeq \in Nat
  BY NetOrdered, NetFacts DEF NInv, Ordered
<1>2. /\ Together(client, bout, down, moves.count, moves.at)
      /\ Pending(client, bout, up, 0)
  BY DEF Replayed
<1> DEFINE m == Head(up)
           n == Len(up)
<1>3. /\ up # <<>> /\ up' = Tail(up)
      /\ driver' = driver /\ down' = down /\ client' = client /\ moves' = moves
  BY DEF ServerReceive
<1>4. /\ up \in Seq(InputMsg \cup ResyncMsg) /\ n \in Nat /\ 0 < n /\ m = up[0 + 1]
      /\ m \in InputMsg \cup ResyncMsg /\ Len(Tail(up)) = n - 1
      /\ \A i \in 1 .. n - 1 : Tail(up)[i] = up[i + 1]
  BY <1>3, NetFacts DEF NInv
<1>5. \/ m.type = "resync" /\ bout' = [bout EXCEPT !.keyframe = TRUE]
      \/ m.type = "input" /\ m \in InputMsg /\ bout' = ApplyInput(bout, m)
  BY <1>4, MessageKinds DEF ServerReceive
<1> HIDE DEF m, n
<1>6. /\ Together(client, bout', down, moves.count, moves.at)
      /\ Pending(client, bout', up, 0 + 1)
  <2>1. CASE m.type = "resync" /\ bout' = [bout EXCEPT !.keyframe = TRUE]
    <3>1. bout'.game = bout.game /\ bout'.ack = bout.ack /\ bout'.opBazaar = bout.opBazaar
      BY <1>1, <2>1 DEF BoutType
    <3>2. Together(client, bout', down, moves.count, moves.at)
      BY <1>2, <3>1, SameBout
    <3>3. Pending(client, bout, up, 0 + 1)
      <4>1. up[0 + 1].type # "input"
        BY <1>4, <2>1
      <4> QED
        BY <1>2, <1>4, <4>1, ResyncPending DEF n
    <3> QED
      BY <3>1, <3>2, <3>3 DEF Pending
  <2>2. CASE m.type = "input" /\ m \in InputMsg /\ bout' = ApplyInput(bout, m)
    <3>1. /\ bout.ack < client.inputSeq
          /\ up[0 + 1] = client.unacked[bout.ack + 1 - client.acked]
          /\ \A e \in BoutType : e.ack = bout.ack + 1 => Pending(client, e, up, 0 + 1)
      <4>1. up[0 + 1].type = "input" /\ 0 \in Nat
        BY <1>4, <2>2
      <4> QED
        BY <1>1, <1>2, <1>4, <4>1, NextPending DEF n
    <3>2. m = client.unacked[bout.ack + 1 - client.acked]
      BY <1>4, <3>1
    <3>3. Together(client, bout', down, moves.count, moves.at)
      BY <1>1, <1>2, <2>2, <3>1, <3>2, TakeTogether
    <3>4. bout' \in BoutType /\ bout'.ack = bout.ack + 1
      <4>1. PlayersQueue(client) /\ LeaveIsLast(client) /\ Gate(client, bout)
        BY <1>2 DEF Together
      <4> QED
        BY <1>1, <2>2, <3>1, <3>2, <4>1, TakeStep
    <3> QED
      BY <3>1, <3>3, <3>4
  <2> QED
    BY <1>5, <2>1, <2>2
<1>7. Pending(client, bout', Tail(up), 0)
  <2> DEFINE u == Tail(up)
             l == n - 1
  <2>1. /\ \A i \in 1 .. l : i + 1 \in 0 + 1 + 1 .. n /\ u[i] = up[i + 1]
        /\ \A i \in 0 + 1 + 1 .. n : i - 1 \in 1 .. l /\ u[i - 1] = up[i]
        /\ \A i, j \in 1 .. l : i < j => i + 1 < j + 1
        /\ Len(u) = l /\ 0 + 1 = 1
    <3>1. /\ \A i \in 1 .. l : i + 1 \in 0 + 1 + 1 .. n
          /\ \A i \in 0 + 1 + 1 .. n : i - 1 \in 1 .. l /\ (i - 1) + 1 = i
          /\ \A i, j \in 1 .. l : i < j => i + 1 < j + 1
      BY <1>4
    <3> QED
      BY <1>4, <3>1
  <2> HIDE DEF u, l
  <2>2. /\ \A i \in 0 + 1 + 1 .. n : up[i].type = "input" =>
              /\ bout'.ack < up[i].seq /\ up[i].seq <= client.inputSeq
              /\ up[i] = client.unacked[up[i].seq - client.acked]
        /\ \A i, j \in 0 + 1 + 1 .. n :
              i < j /\ up[i].type = "input" /\ up[j].type = "input" => up[i].seq < up[j].seq
        /\ \A q \in bout'.ack + 1 .. client.inputSeq :
              \E i \in 0 + 1 + 1 .. n : up[i].type = "input" /\ up[i].seq = q
    BY <1>6 DEF Pending, n
  <2>3. /\ \A i \in 1 .. l : u[i].type = "input" =>
              /\ bout'.ack < u[i].seq /\ u[i].seq <= client.inputSeq
              /\ u[i] = client.unacked[u[i].seq - client.acked]
        /\ \A i, j \in 1 .. l :
              i < j /\ u[i].type = "input" /\ u[j].type = "input" => u[i].seq < u[j].seq
    BY <2>1, <2>2
  <2>4. ASSUME NEW q \in bout'.ack + 1 .. client.inputSeq
        PROVE  \E i \in 1 .. l : u[i].type = "input" /\ u[i].seq = q
    <3>1. PICK i \in 0 + 1 + 1 .. n : up[i].type = "input" /\ up[i].seq = q
      BY <2>2
    <3> QED
      BY <2>1, <3>1
  <2> QED
    BY <2>1, <2>3, <2>4 DEF Pending, u
<1> QED
  BY <1>3, <1>6, <1>7 DEF Replayed

\* A frame of the server.
LEMMA FrameReplayed ==
    ASSUME NInv, Replayed, NEW opLine \in BOOLEAN, NEW weapon \in BOOLEAN, NEW sends \in BOOLEAN,
           ServerFrame(opLine, weapon, sends)
    PROVE  Replayed'
<1>1. /\ NetTyped /\ Ordered(client, bout, down)
      /\ \A i \in Shots(down) : down[i].keyframe # <<>> => down[i].keyframe[2] <= moves.count
      /\ moves \in [count : Nat, at : Int] /\ moves.count \in Nat /\ bout \in BoutType
      /\ moves.at \in Int /\ moves.at <= moves.count
  BY NetOrdered DEF NInv, NetTyped
<1>2. /\ Together(client, bout, down, moves.count, moves.at)
      /\ Pending(client, bout, up, 0)
  BY DEF Replayed
<1> DEFINE ticked == IF Barrier(bout) THEN bout.game ELSE TickGame(bout.game)
           mirrored == IF opLine THEN Apply(ticked, Mirror(bout.opLines + 1)) ELSE ticked
           struck == IF weapon THEN Apply(mirrored, In("ReceiveWeapon")) ELSE mirrored
           entered == struck.inBazaar /\ ~bout.game.inBazaar
           events == (IF opLine THEN <<Event(Mirror(bout.opLines + 1))>> ELSE <<>>)
                     \o (IF weapon THEN <<Event(In("ReceiveWeapon"))>> ELSE <<>>)
           next == [bout EXCEPT !.game = struck,
                                !.opLines = IF opLine THEN @ + 1 ELSE @,
                                !.weapons = IF weapon THEN @ + 1 ELSE @,
                                !.opBazaar = @ \/ entered,
                                !.keyframe = @ \/ entered,
                                !.ended = struck.over]
           full == next.keyframe \/ struck.over
           snap == Snapshot(next, full)
           shot == IF sends THEN <<snap>> ELSE <<>>
<1> HIDE DEF ticked, mirrored, struck, entered, events, next, full, snap, shot
<1>3. /\ moves' = IF struck = bout.game THEN moves ELSE [moves EXCEPT !.count = @ + 1]
      /\ bout' = IF sends THEN [next EXCEPT !.keyframe = FALSE] ELSE next
      /\ down' = down \o events \o shot
      /\ driver' = driver /\ up' = up /\ client' = client
  BY DEF ServerFrame, ticked, mirrored, struck, entered, events, next, full, snap, shot
<1>4. NInv'
  BY ServerFrameStep
<1>5. /\ struck \in GameType /\ (bout.game.inBazaar => struck.inBazaar)
      /\ events \in Seq(EventMsg)
  <2>1. bout.game \in GameType /\ bout.opLines + 1 \in Nat
    BY <1>1, NetFacts
  <2>2. /\ Mirror(bout.opLines + 1) \in InputType /\ In("ReceiveWeapon") \in InputType
        /\ Mirror(bout.opLines + 1).kind # "LeaveBazaar"
        /\ In("ReceiveWeapon").kind # "LeaveBazaar"
    BY <2>1 DEF Mirror, In, InputType, Kinds
  <2>3. ticked \in GameType /\ (bout.game.inBazaar => ticked.inBazaar)
    BY <2>1, TickIsLater, GameFacts DEF ticked, Later
  <2>4. mirrored \in GameType /\ (bout.game.inBazaar => mirrored.inBazaar)
    BY <2>2, <2>3, ApplyKeeps DEF mirrored
  <2>5. struck \in GameType /\ (bout.game.inBazaar => struck.inBazaar)
    BY <2>2, <2>4, ApplyKeeps DEF struck
  <2>6. Event(Mirror(bout.opLines + 1)) \in EventMsg /\ Event(In("ReceiveWeapon")) \in EventMsg
    BY <2>2 DEF Event, EventMsg
  <2> DEFINE one == IF opLine THEN <<Event(Mirror(bout.opLines + 1))>> ELSE <<>>
             two == IF weapon THEN <<Event(In("ReceiveWeapon"))>> ELSE <<>>
  <2>7. one \in Seq(EventMsg) /\ two \in Seq(EventMsg)
    BY <2>6
  <2>8. events = one \o two
    BY DEF events
  <2> HIDE DEF one, two
  <2> QED
    BY <2>5, <2>7, <2>8
<1>6. /\ next.game = struck /\ next.ack = bout.ack
      /\ next.opBazaar <=> bout.opBazaar \/ entered
  BY <1>1, Zenon DEF next, BoutType
<1>7. /\ bout' \in BoutType /\ bout'.game = struck /\ bout'.ack = bout.ack
      /\ bout'.opBazaar <=> bout.opBazaar \/ entered
  <2>1. /\ [next EXCEPT !.keyframe = FALSE].game = next.game
        /\ [next EXCEPT !.keyframe = FALSE].ack = next.ack
        /\ [next EXCEPT !.keyframe = FALSE].opBazaar = next.opBazaar
    <3>1. next = [next EXCEPT !.keyframe = next.keyframe]
      BY <1>1 DEF next, BoutType
    <3> QED
      BY <1>1 DEF next, BoutType
  <2>2. bout' \in BoutType
    BY <1>4 DEF NInv, NetTyped
  <2> QED
    BY <1>3, <1>6, <2>1, <2>2
<1>8. /\ snap \in SnapshotMsg /\ snap.ack = bout'.ack /\ snap.you = bout'.game.inBazaar
      /\ snap.opp <=> bout'.opBazaar
      /\ snap.keyframe # <<>> => snap.keyframe[1] = bout'.game
  <2>1. /\ struck.inBazaar \in BOOLEAN /\ struck.over \in BOOLEAN /\ LockSeq(struck) \in Nat
        /\ LockHash(struck) \in Stack /\ bout.ack \in Nat
        /\ next.opBazaar \in BOOLEAN /\ moves'.count \in Nat
    <3>1. next.opBazaar \in BOOLEAN
      BY <1>1, Zenon DEF next, BoutType
    <3>2. moves'.count \in Nat
      BY <1>4 DEF NInv, NetTyped
    <3> QED
      BY <1>1, <1>5, <3>1, <3>2, GameFacts, NetFacts
  <2> DEFINE key == IF full THEN <<struck, moves'.count>> ELSE <<>>
  <2>2. key \in {<<>>} \cup (GameType \X Nat) /\ (key # <<>> => key[1] = struck)
    BY <1>5, <2>1
  <2> HIDE DEF key
  <2>3. snap = [type |-> "snapshot", ack |-> bout.ack, you |-> struck.inBazaar,
                opp |-> next.opBazaar, over |-> struck.over, lockSeq |-> LockSeq(struck),
                lockHash |-> LockHash(struck), keyframe |-> key]
    BY <1>6 DEF snap, Snapshot, key
  <2>4. /\ snap \in SnapshotMsg /\ snap.ack = bout.ack /\ snap.you = struck.inBazaar
        /\ snap.opp = next.opBazaar /\ snap.keyframe = key
    BY <2>1, <2>2, <2>3 DEF SnapshotMsg
  <2> QED
    BY <1>6, <1>7, <2>2, <2>4
<1>9. shot \in Seq(SnapshotMsg) /\ Len(shot) <= 1 /\ (Len(shot) = 1 => shot[1] = snap)
  BY <1>8 DEF shot
<1>10. /\ Len(down') \in Nat /\ Len(down) <= Len(down')
       /\ \A i \in 1 .. Len(down) : down'[i] = down[i]
       /\ \A i \in Len(down) + 1 .. Len(down') :
             down'[i].type = "event" \/ (i = Len(down') /\ down'[i] = snap)
  <2>1. PICK f : f = down \o events \o shot /\ f = down'
    BY <1>3
  <2>2. down \in Seq(EventMsg \cup SnapshotMsg)
    BY <1>1, NetFacts
  <2>3. /\ Len(down) <= Len(f) /\ Len(f) \in Nat
        /\ \A i \in 1 .. Len(down) : f[i] = down[i]
        /\ \A i \in Len(down) + 1 .. Len(f) :
              f[i].type = "event" \/ (Len(shot) = 1 /\ f[i] = shot[1] /\ i = Len(f))
    <3>1. PICK D, E, S : D = down /\ E = events /\ S = shot
      OBVIOUS
    <3>2. /\ D \in Seq(EventMsg \cup SnapshotMsg) /\ E \in Seq(EventMsg)
          /\ S \in Seq(SnapshotMsg) /\ Len(S) <= 1
      BY <1>5, <1>9, <2>2, <3>1
    <3>3. /\ Len(D) <= Len(D \o E \o S) /\ Len(D \o E \o S) \in Nat
          /\ \A i \in 1 .. Len(D) : (D \o E \o S)[i] = D[i]
          /\ \A i \in Len(D) + 1 .. Len(D \o E \o S) :
                \/ (D \o E \o S)[i].type = "event"
                \/ /\ Len(S) = 1 /\ (D \o E \o S)[i] = S[1]
                   /\ i = Len(D \o E \o S)
      BY <3>2, FrameAppends
    <3>4. f = D \o E \o S
      BY <2>1, <3>1
    <3> QED
      BY <3>1, <3>3, <3>4
  <2> QED
    BY <1>9, <2>1, <2>3
<1>11. /\ moves'.count = moves.count + 1 \/ (moves'.count = moves.count /\ struck = bout.game)
       /\ moves'.at = moves'.count => moves.at = moves.count /\ moves'.count = moves.count
  <2>1. CASE struck = bout.game
    BY <1>3, <2>1
  <2>2. CASE struck # bout.game
    <3>1. moves'.count = moves.count + 1 /\ moves'.at = moves.at
      BY <1>1, <1>3, <2>2
    <3> QED
      BY <1>1, <3>1
  <2> QED
    BY <2>1, <2>2
<1>12. /\ bout'.ack = bout.ack /\ (bout.game.inBazaar => bout'.game.inBazaar)
       /\ bout'.opBazaar /\ ~bout'.game.inBazaar => bout.opBazaar
  BY <1>5, <1>7 DEF entered
<1>13. \A i \in Len(down) + 1 .. Len(down') :
          \/ down'[i].type = "event"
          \/ /\ i = Len(down')
             /\ down'[i].ack = bout'.ack /\ (down'[i].you <=> bout'.game.inBazaar)
             /\ down'[i].opp <=> bout'.opBazaar
             /\ down'[i].keyframe # <<>> => down'[i].keyframe[1] = bout'.game
  BY <1>8, <1>10
<1>14. Together(client, bout', down', moves'.count, moves'.at)
  <2>1. moves'.count = moves.count + 1 \/ (moves'.count = moves.count /\ bout'.game = bout.game)
    BY <1>7, <1>11
  <2>2. PICK e, f, l : e = bout' /\ f = down' /\ l = moves'.count
    OBVIOUS
  <2>3. /\ e \in BoutType /\ e.ack = bout.ack /\ (bout.game.inBazaar => e.game.inBazaar)
        /\ e.opBazaar /\ ~e.game.inBazaar => bout.opBazaar
    BY <1>7, <1>12, <2>2
  <2>4. /\ Len(f) \in Nat /\ Len(down) <= Len(f)
        /\ \A i \in 1 .. Len(down) : f[i] = down[i]
    BY <1>10, <2>2
  <2>5. \A i \in Len(down) + 1 .. Len(f) :
           \/ f[i].type = "event"
           \/ /\ i = Len(f)
              /\ f[i].ack = e.ack /\ (f[i].you <=> e.game.inBazaar)
              /\ f[i].opp <=> e.opBazaar
              /\ f[i].keyframe # <<>> => f[i].keyframe[1] = e.game
    BY <1>13, <2>2
  <2>6. l = moves.count + 1 \/ (l = moves.count /\ e.game = bout.game)
    BY <2>1, <2>2
  <2>7. PICK now : now = moves'.at
    OBVIOUS
  <2>8. now = l => moves.at = moves.count /\ l = moves.count
    BY <1>11, <2>2, <2>7
  <2>9. Together(client, e, f, l, now)
    BY <1>1, <1>2, <2>3, <2>4, <2>5, <2>6, <2>8, FrameTogether
  <2> QED
    BY <2>2, <2>7, <2>9
<1>15. Pending(client, bout', up, 0)
  BY <1>2, <1>7 DEF Pending
<1> QED
  BY <1>3, <1>14, <1>15 DEF Replayed

\* The other player leaves the bazaar.
LEMMA OpponentReplayed == NInv /\ Replayed /\ OpponentLeaves => Replayed'
<1> SUFFICES ASSUME NInv, Replayed, OpponentLeaves PROVE Replayed'
  OBVIOUS
<1>1. /\ bout' = [bout EXCEPT !.opBazaar = FALSE] /\ bout \in BoutType
      /\ driver' = driver /\ up' = up /\ down' = down /\ client' = client /\ moves' = moves
  BY DEF OpponentLeaves, NInv, NetTyped
<1>2. bout'.game = bout.game /\ bout'.ack = bout.ack /\ ~bout'.opBazaar
  BY <1>1 DEF BoutType
<1>3. Together(client, bout', down, moves.count, moves.at)
  BY <1>2, SameBout DEF Replayed
<1>4. Pending(client, bout', up, 0)
  BY <1>2 DEF Replayed, Pending
<1> QED
  BY <1>1, <1>3, <1>4 DEF Replayed

\* The client's game or bookkeeping moves, nothing is sent and no frame heard: a
\* game that moved by itself follows no keyframe.
LEMMA QuietReplayed ==
    ASSUME NInv, Replayed, bout' = bout, up' = up,
           down' = down \/ (down # <<>> /\ down' = Tail(down)),
           client'.inputSeq = client.inputSeq, client'.unacked = client.unacked,
           client'.acked = client.acked, client'.you = client.you, client'.opp = client.opp,
           moves' = IF client'.game = client.game THEN moves ELSE [moves EXCEPT !.at = -1]
    PROVE  Replayed'
<1>1. /\ down \in Seq(EventMsg \cup SnapshotMsg) /\ moves \in [count : Nat, at : Int]
      /\ moves.count \in Nat
  BY NetOrdered, NetFacts DEF NInv
<1>2. /\ Together(client, bout, down, moves.count, moves.at)
      /\ Pending(client, bout, up, 0)
  BY DEF Replayed
<1>3. Together(client, bout, down', moves.count, moves.at)
  <2>1. CASE down' = down
    BY <1>2, <2>1
  <2>2. CASE down # <<>> /\ down' = Tail(down)
    BY <1>1, <1>2, <2>2, TailTogether
  <2> QED
    BY <2>1, <2>2
<1>4. /\ moves'.count = moves.count
      /\ moves'.at = moves.count => moves.at = moves.count /\ client'.game = client.game
  <2>1. CASE client'.game = client.game
    BY <2>1
  <2>2. CASE client'.game # client.game
    <3>1. moves'.count = moves.count /\ moves'.at = -1
      BY <1>1, <2>2
    <3> QED
      BY <1>1, <3>1
  <2> QED
    BY <2>1, <2>2
<1>5. PICK e, f, now : e = client' /\ f = down' /\ now = moves'.at
  OBVIOUS
<1>6. Together(e, bout, f, moves.count, now)
  <2>1. /\ e.inputSeq = client.inputSeq /\ e.unacked = client.unacked
        /\ e.acked = client.acked /\ e.you = client.you /\ e.opp = client.opp
    BY <1>5
  <2>2. now = moves.count => moves.at = moves.count /\ e.game = client.game
    BY <1>4, <1>5
  <2>3. Together(client, bout, f, moves.count, moves.at)
    BY <1>3, <1>5
  <2> QED
    BY <2>1, <2>2, <2>3, SameClient
<1>7. Pending(client', bout, up, 0)
  BY <1>2 DEF Pending
<1> QED
  BY <1>4, <1>5, <1>6, <1>7 DEF Replayed

\* The client hears an event.
LEMMA HearEventReplayed ==
    ASSUME NInv, Replayed, ClientReceive, Head(down).type = "event"
    PROVE  Replayed'
<1> DEFINE m == Head(down)
           moved == [client EXCEPT !.game = Apply(@, m.input)]
<1>1. /\ down # <<>> /\ down' = Tail(down) /\ client' = NoteLock(moved)
      /\ bout' = bout /\ up' = up
      /\ moves' = IF client'.game = client.game THEN moves ELSE [moves EXCEPT !.at = -1]
  BY DEF ClientReceive, Drifts, None
<1>2. /\ client \in ClientType /\ client.game \in GameType /\ Client(client)
      /\ m \in EventMsg \cup SnapshotMsg
  <2>1. down \in Seq(EventMsg \cup SnapshotMsg)
    BY NetFacts DEF NInv
  <2>2. m \in EventMsg \cup SnapshotMsg
    BY <1>1, <2>1
  <2> QED
    BY <2>2, NetFacts DEF NInv, NetTyped
<1>3. m.input \in InputType
  BY <1>2, MessageKinds
<1> HIDE DEF m
<1>4. Unnoted(moved) /\ Wire(moved) = Wire(client)
  <2> DEFINE g == Apply(client.game, m.input)
  <2>1. g \in GameType /\ LockSeq(g) = LockSeq(client.game)
    BY <1>2, <1>3, ApplyKeeps
  <2>2. moved = [client EXCEPT !.game = g]
    BY <1>2 DEF ClientType
  <2> HIDE DEF g
  <2>3. moved \in ClientType
    BY <1>2, <2>1, <2>2, GameIsTyped
  <2>4. /\ Wire(moved) = Wire(client) /\ moved.game = g
        /\ moved.history = client.history /\ moved.seen = client.seen
    BY <1>2, <2>2 DEF ClientType, Wire
  <2>5. Unnoted(client)
    BY <1>2, ClientIsUnnoted
  <2> QED
    BY <2>1, <2>3, <2>4, <2>5 DEF Unnoted, Wire
<1> HIDE DEF moved
<1>5. Wire(client') = Wire(client)
  BY <1>1, <1>4, NoteLockNotes
<1> QED
  BY <1>1, <1>5, QuietReplayed DEF Wire

\* The client hears a snapshot.
LEMMA HearSnapshotReplayed ==
    ASSUME NInv, Replayed, ClientReceive, Head(down).type = "snapshot"
    PROVE  Replayed'
<1> DEFINE m == Head(down)
           read == OnSnapshot(client, m)
           c == OnLockHash(read, m)[1]
           asked == [c EXCEPT !.asked = TRUE, !.asks = @ + 1]
<1>1. /\ down # <<>> /\ down' = Tail(down) /\ client' \in {c, asked}
      /\ bout' = bout
      /\ up' = up \/ up' = Append(up, [type |-> "resync"])
      /\ m.keyframe = <<>> => moves' = moves
      /\ m.keyframe # <<>> => moves' = [moves EXCEPT !.at = m.keyframe[2]]
  BY DEF ClientReceive
<1>2. /\ Ordered(client, bout, down) /\ Client(client) /\ moves \in [count : Nat, at : Int]
      /\ down \in Seq(EventMsg \cup SnapshotMsg) /\ up \in Seq(InputMsg \cup ResyncMsg)
      /\ Len(up) \in Nat /\ bout.ack \in Nat /\ client.inputSeq \in Nat
      /\ client.acked <= bout.ack /\ bout.ack <= client.inputSeq
  BY NetOrdered, NetFacts DEF NInv, Ordered
<1>3. m = down[1] /\ m.type = "snapshot" /\ 1 \in Shots(down)
  BY <1>1, <1>2 DEF Shots
<1>4. /\ m \in SnapshotMsg /\ m.ack \in Nat /\ client.acked <= m.ack /\ m.ack <= bout.ack
      /\ m.ack <= client.inputSeq
  <2>1. m \in SnapshotMsg /\ m.ack \in Nat /\ client.acked <= m.ack /\ m.ack <= bout.ack
    BY <1>2, <1>3, OrderedFacts DEF Ordered
  <2> QED
    BY <1>2, <2>1
<1> HIDE DEF m
<1>5. /\ Client(read) /\ read.inputSeq = client.inputSeq /\ read.acked = m.ack
      /\ read.you = m.you /\ read.opp = m.opp /\ read.unacked = Retain(client.unacked, m.ack)
      /\ m.keyframe # <<>> => read.game = Caught(client, m.ack, m.keyframe[1])
      /\ m.keyframe = <<>> => read.game = IF client.you /\ ~m.you
                                          THEN [client.game EXCEPT !.inBazaar = FALSE]
                                          ELSE client.game
  BY <1>2, <1>4, SnapshotKeeps DEF Caught
<1> HIDE DEF read
<1>6. Client(c) /\ Wire(c) = Wire(read) /\ c.game = read.game
  BY <1>4, <1>5, LockHashKeeps
<1> HIDE DEF c
<1>7. /\ client'.inputSeq = c.inputSeq /\ client'.acked = c.acked /\ client'.you = c.you
      /\ client'.opp = c.opp /\ client'.unacked = c.unacked /\ client'.game = c.game
  <2>1. CASE client' = c
    BY <2>1
  <2>2. CASE client' = asked
    <3>1. c \in ClientType
      BY <1>6 DEF Client
    <3> QED
      BY <2>2, <3>1 DEF ClientType
  <2> QED
    BY <1>1, <2>1, <2>2
<1>8. Client(client')
  <2>1. NInv'
    BY HearSnapshotStep
  <2> QED
    BY <2>1 DEF NInv, NetTyped
<1>9. PICK e, f : e = client' /\ f = moves'
  OBVIOUS
<1>10. /\ Client(e) /\ e.inputSeq = client.inputSeq /\ e.acked = m.ack /\ e.you = m.you
       /\ e.opp = m.opp /\ e.unacked = Retain(client.unacked, m.ack)
       /\ m.keyframe # <<>> => e.game = Caught(client, m.ack, m.keyframe[1])
       /\ m.keyframe = <<>> => e.game = IF client.you /\ ~m.you
                                        THEN [client.game EXCEPT !.inBazaar = FALSE]
                                        ELSE client.game
  BY <1>5, <1>6, <1>7, <1>8, <1>9 DEF Wire
<1>11. /\ f.count = moves.count
       /\ f.at = moves.count /\ m.keyframe = <<>> => moves.at = moves.count
       /\ f.at = moves.count /\ m.keyframe # <<>> => m.keyframe[2] = moves.count
  <2>1. CASE m.keyframe = <<>>
    BY <1>1, <1>9, <2>1
  <2>2. CASE m.keyframe # <<>>
    <3>1. f.count = moves.count /\ f.at = m.keyframe[2]
      BY <1>1, <1>2, <1>9, <2>2
    <3> QED
      BY <2>2, <3>1
  <2> QED
    BY <2>1, <2>2
<1>12. Together(client, bout, down, moves.count, moves.at) /\ Pending(client, bout, up, 0)
  BY DEF Replayed
<1>13. Together(e, bout, Tail(down), moves.count, f.at)
  <2>1. PICK n, at, now : n = moves.count /\ at = moves.at /\ now = f.at
    OBVIOUS
  <2>2. /\ now = n /\ m.keyframe = <<>> => at = n
        /\ now = n /\ m.keyframe # <<>> => m.keyframe[2] = n
    BY <1>11, <2>1
  <2>3. Together(client, bout, down, n, at)
    BY <1>12, <2>1
  <2>4. Together(e, bout, Tail(down), n, now)
    <3>1. Hears(client, m, e)
      BY <1>10 DEF Hears
    <3> QED
      BY <1>1, <1>2, <1>3, <2>2, <2>3, <3>1, HearTogether
  <2> QED
    BY <2>1, <2>4
<1>14. PICK v : v = up'
  OBVIOUS
<1>15. /\ Len(v) \in Nat /\ Len(up) <= Len(v)
       /\ \A i \in 1 .. Len(up) : v[i] = up[i] /\ i \in 1 .. Len(v)
       /\ \A i \in 1 .. Len(v) : v[i].type = "input" => i \in 1 .. Len(up) /\ v[i] = up[i]
  <2>1. v = up \/ v = Append(up, [type |-> "resync"])
    BY <1>1, <1>14
  <2>2. \A i \in 1 .. Len(v) : v[i].type = "input" => i \in 1 .. Len(up) /\ v[i] = up[i]
    BY <1>2, <2>1, AskKeeps
  <2>3. Len(v) \in Nat /\ Len(up) <= Len(v) /\ \A i \in 1 .. Len(up) : v[i] = up[i]
    <3>1. CASE v = up
      BY <1>2, <3>1
    <3>2. CASE v = Append(up, [type |-> "resync"])
      <4>1. PICK r : r = [type |-> "resync"]
        OBVIOUS
      <4>2. v = Append(up, r)
        BY <3>2, <4>1
      <4> QED
        BY <1>2, <4>2
    <3> QED
      BY <2>1, <3>1, <3>2
  <2>4. \A i \in 1 .. Len(up) : i \in 1 .. Len(v)
    BY <1>2, <2>3
  <2> QED
    BY <2>2, <2>3, <2>4
<1>16. Pending(e, bout, v, 0)
  <2>1. /\ PlayersQueue(client) /\ LeaveIsLast(client) /\ 0 + 1 = 1
    BY <1>12 DEF Together
  <2>2. /\ \A i \in 1 .. Len(up) : up[i].type = "input" =>
              /\ bout.ack < up[i].seq /\ up[i].seq <= client.inputSeq
              /\ up[i] = client.unacked[up[i].seq - client.acked]
        /\ \A i, j \in 1 .. Len(up) :
              i < j /\ up[i].type = "input" /\ up[j].type = "input" => up[i].seq < up[j].seq
        /\ \A q \in bout.ack + 1 .. client.inputSeq :
              \E i \in 1 .. Len(up) : up[i].type = "input" /\ up[i].seq = q
    BY <1>12, <2>1 DEF Pending
  <2>3. ASSUME NEW i \in 1 .. Len(up), up[i].type = "input"
        PROVE  up[i] = e.unacked[up[i].seq - e.acked]
    <3>1. PICK q : q = up[i].seq
      OBVIOUS
    <3>2. q \in Nat /\ bout.ack < q /\ q <= client.inputSeq
      <4>1. up[i] \in InputMsg \cup ResyncMsg
        BY <1>2
      <4>2. up[i].seq \in Nat
        BY <2>3, <4>1, MessageKinds
      <4> QED
        BY <2>2, <2>3, <3>1, <4>2
    <3>3. /\ client.acked \in Nat /\ Len(e.unacked) = client.inputSeq - m.ack
      BY <1>2, <1>10, ClientFacts DEF Client
    <3>4. /\ q - m.ack \in 1 .. Len(e.unacked)
          /\ m.ack - client.acked + (q - m.ack) = q - client.acked
      <4>1. PICK a \in Nat, o \in Nat, b \in Nat, l \in Nat :
               a = m.ack /\ o = client.acked /\ b = bout.ack /\ l = client.inputSeq
        BY <1>2, <1>4, <3>3
      <4>2. q \in Nat /\ a <= b /\ b < q /\ q <= l
        BY <1>4, <3>2, <4>1
      <4>3. q - a \in 1 .. l - a /\ a - o + (q - a) = q - o
        BY <4>2
      <4>4. Len(e.unacked) = l - a
        BY <3>3, <4>1
      <4> QED
        BY <4>1, <4>3, <4>4
    <3>5. \A j \in 1 .. Len(e.unacked) :
             e.unacked[j] = client.unacked[e.acked - client.acked + j]
      BY <1>2, <1>4, <1>10, <2>1, HeardQueue, SMTT(30)
    <3>6. e.unacked[q - m.ack] = client.unacked[q - client.acked]
      BY <1>10, <3>4, <3>5
    <3> QED
      BY <1>10, <2>2, <2>3, <3>1, <3>6
  <2>4. \A i \in 1 .. Len(v) : v[i].type = "input" =>
           /\ bout.ack < v[i].seq /\ v[i].seq <= e.inputSeq
           /\ v[i] = e.unacked[v[i].seq - e.acked]
    BY <1>10, <1>15, <2>2, <2>3
  <2>5. \A i, j \in 1 .. Len(v) :
           i < j /\ v[i].type = "input" /\ v[j].type = "input" => v[i].seq < v[j].seq
    BY <1>15, <2>2
  <2>6. \A q \in bout.ack + 1 .. e.inputSeq :
           \E i \in 1 .. Len(v) : v[i].type = "input" /\ v[i].seq = q
    BY <1>10, <1>15, <2>2
  <2> QED
    BY <2>1, <2>4, <2>5, <2>6 DEF Pending
<1> QED
  BY <1>1, <1>9, <1>11, <1>13, <1>14, <1>16 DEF Replayed

LEMMA ClientReceiveReplayed == NInv /\ Replayed /\ ClientReceive => Replayed'
<1> SUFFICES ASSUME NInv, Replayed, ClientReceive PROVE Replayed'
  OBVIOUS
<1>1. Head(down) \in EventMsg \cup SnapshotMsg
  <2>1. down # <<>> /\ down \in Seq(EventMsg \cup SnapshotMsg)
    BY NetFacts DEF NInv, ClientReceive
  <2> QED
    BY <2>1
<1>2. Head(down).type = "event" \/ Head(down).type = "snapshot"
  BY <1>1, MessageKinds
<1> QED
  BY <1>2, HearEventReplayed, HearSnapshotReplayed

LEMMA WindowPassesReplayed == NInv /\ Replayed /\ WindowPasses => Replayed'
<1> SUFFICES ASSUME NInv, Replayed, WindowPasses PROVE Replayed'
  OBVIOUS
<1>1. client' = [client EXCEPT !.asked = FALSE] /\ client \in ClientType
      /\ UNCHANGED <<bout, up, down, moves>>
  BY DEF WindowPasses, NInv, NetTyped, Client
<1>2. /\ client'.inputSeq = client.inputSeq /\ client'.unacked = client.unacked
      /\ client'.acked = client.acked /\ client'.you = client.you
      /\ client'.opp = client.opp /\ client'.game = client.game
  BY <1>1 DEF ClientType
<1> QED
  BY <1>1, <1>2, QuietReplayed

LEMMA BrowserTickReplayed == NInv /\ Replayed /\ BrowserTick => Replayed'
<1> SUFFICES ASSUME NInv, Replayed, BrowserTick PROVE Replayed'
  OBVIOUS
<1> DEFINE c == NoteLock([client EXCEPT !.game = TickGame(@)])
<1>1. Client(client)
  BY DEF NInv, NetTyped
<1>2. Extends(client, c) /\ c.inputSeq = client.inputSeq /\ c.unacked = client.unacked
  BY <1>1, TickedExtends
<1>3. /\ client' = c /\ UNCHANGED <<bout, up, down>>
      /\ moves' = IF client'.game = client.game THEN moves ELSE [moves EXCEPT !.at = -1]
  BY DEF BrowserTick, Drifts, None
<1> HIDE DEF c
<1> QED
  BY <1>2, <1>3, QuietReplayed DEF Extends

\* The client sends what it predicted.
LEMMA SendReplayed ==
    ASSUME NInv, Replayed, NEW c, Extends(client, c), client' = c,
           up' = up \o Sent(client, c), bout' = bout, down' = down,
           moves'.count = moves.count,
           Together(c, bout, down, moves.count, moves'.at)
    PROVE  Replayed'
<1>1. /\ Client(client) /\ bout.ack \in Nat /\ client.acked <= bout.ack
      /\ bout.ack <= client.inputSeq /\ up \in Seq(InputMsg \cup ResyncMsg)
  BY NetFacts DEF NInv, NetTyped, Downward
<1>2. Pending(client, bout, up, 0)
  BY DEF Replayed
<1>3. Pending(c, bout, up \o Sent(client, c), 0)
  BY <1>1, <1>2, SentPending
<1> QED
  BY <1>3 DEF Replayed

\* The keys and the buttons.
LEMMA BrowserInputReplayed ==
    ASSUME NInv, Replayed,
           NEW kind \in {"MoveRight", "BeginDrop", "BuyWeapon", "LaunchWeapon", "LeaveBazaar"},
           BrowserInput(In(kind))
    PROVE  Replayed'
<1> DEFINE c == Predicted(client, In(kind))
<1>1. /\ Client(client) /\ In(kind) \in InputType /\ In(kind).kind = kind
      /\ In(kind) \in PlayerInput /\ client.unacked \in Seq(InputMsg)
  BY InputsTyped, ClientFacts DEF NInv, NetTyped, Kinds, PlayerInput, Client
<1>2. /\ UNCHANGED <<bout, down, moves>>
      /\ Accepted(client, In(kind))
      /\ kind = "LeaveBazaar" => client.you /\ ~Left
      /\ kind = "BuyWeapon" => ~Left
      /\ Becomes(Predict(client, In(kind)))
  BY <1>1 DEF BrowserInput
<1>3. /\ Ordered(client, bout, down)
      /\ Together(client, bout, down, moves.count, moves.at)
  BY NetOrdered DEF Replayed
<1>4. ~Leaving(client)
  <2> SUFFICES ASSUME Leaving(client) PROVE FALSE
    OBVIOUS
  <2>1. client.you
    BY <1>1, <1>3, LeaveFacts DEF Together
  <2>2. Left
    BY <1>1 DEF Leaving, Left
  <2>3. kind = "BuyWeapon" \/ kind = "LeaveBazaar"
    BY <1>1, <1>2, <2>1 DEF Accepted, Held, BazaarInput, Shopping
  <2> QED
    BY <1>2, <2>2, <2>3
<1>5. client' = c /\ up' = up \o Sent(client, c)
  BY <1>2 DEF Becomes, Predict
<1>6. Extends(client, c)
  BY <1>1, PredictedExtends
<1>7. Together(c, bout, down, moves.count, moves.at)
  <2>1. PICK e : e = c
    OBVIOUS
  <2> HIDE DEF c
  <2>2. Together(e, bout, down, moves.count, moves.at)
    BY <1>1, <1>2, <1>3, <1>4, <2>1, PredictTogether DEF c
  <2> QED
    BY <2>1, <2>2
<1> HIDE DEF c
<1> QED
  BY <1>2, <1>5, <1>6, <1>7, SendReplayed

\* A bot that has heard of all it sent has nothing in its queue.
LEMMA NothingLeaves ==
    ASSUME NInv, Decide(client) # "WaitAck", Decide(client) # "End"
    PROVE  /\ ~Leaving(client)
           /\ Client(client) /\ Ordered(client, bout, down)
<1>1. /\ Client(client) /\ client.acked <= client.inputSeq /\ client.acked \in Nat
      /\ client.inputSeq \in Nat /\ Len(client.unacked) = client.inputSeq - client.acked
  BY ClientFacts DEF NInv, NetTyped, Client
<1>2. ~ (client.acked < client.inputSeq)
  BY DEF Decide
<1>3. Len(client.unacked) = 0
  BY <1>1, <1>2
<1> QED
  BY <1>1, <1>3, NetOrdered DEF Leaving

LEMMA BotLeavesAgainReplayed == NInv /\ Replayed /\ BotLeavesAgain => Replayed'
<1> SUFFICES ASSUME NInv, Replayed, BotLeavesAgain PROVE Replayed'
  OBVIOUS
<1> DEFINE c == Predict(client, In("LeaveBazaar"))
<1>1. /\ UNCHANGED <<bout, down, moves>> /\ client.you
      /\ client' = c /\ up' = up \o Sent(client, c) /\ Decide(client) = "WaitBazaar"
  BY DEF BotLeavesAgain, Becomes
<1>2. ~Leaving(client) /\ Client(client) /\ Ordered(client, bout, down)
  BY <1>1, NothingLeaves
<1>3. /\ In("LeaveBazaar") \in InputType /\ In("LeaveBazaar") \in PlayerInput
  BY InputsTyped DEF Kinds, PlayerInput
<1>4. Extends(client, c)
  BY <1>2, <1>3, PredictOne
<1>5. Still(client, c, bout, down, moves.count, moves.at)
  <2>1. client.inputSeq \in Nat
    BY <1>2, ClientFacts DEF Client
  <2>2. Still(client, client, bout, down, moves.count, moves.at)
    BY <1>2, <2>1 DEF Replayed, Still
  <2> QED
    BY <1>1, <1>2, <1>3, <2>2, PredictStill
<1> HIDE DEF c
<1> QED
  BY <1>1, <1>4, <1>5, SendReplayed DEF Still

LEMMA BotShopsReplayed == NInv /\ Replayed /\ BotShops => Replayed'
<1> SUFFICES ASSUME NInv, Replayed, BotShops PROVE Replayed'
  OBVIOUS
<1>1. PICK plan \in {<<>>, <<In("BuyWeapon")>>} :
           Becomes([PredictAll(client, plan \o <<In("LeaveBazaar")>>) EXCEPT !.bought = TRUE])
  BY DEF BotShops
<1> DEFINE inputs == plan \o <<In("LeaveBazaar")>>
           c == PredictAll(client, inputs)
           d == [c EXCEPT !.bought = TRUE]
<1>2. UNCHANGED <<bout, down, moves>> /\ Decide(client) = "Shop" /\ Becomes(d)
  BY <1>1 DEF BotShops
<1>3. ~Leaving(client) /\ Client(client) /\ Ordered(client, bout, down) /\ client.you
  <2>1. client.you
    BY <1>2 DEF Decide
  <2> QED
    BY <1>2, <2>1, NothingLeaves
<1>4. /\ In("LeaveBazaar") \in InputType /\ In("BuyWeapon") \in InputType
      /\ In("LeaveBazaar") \in PlayerInput /\ In("BuyWeapon") \in PlayerInput
      /\ In("BuyWeapon").kind = "BuyWeapon"
  BY InputsTyped DEF Kinds, PlayerInput
<1>5. /\ inputs \in Seq(InputType) /\ Len(inputs) \in Nat
      /\ \A j \in 1 .. Len(inputs) : /\ inputs[j] \in PlayerInput
                                     /\ inputs[j].kind = "LeaveBazaar" => j = Len(inputs)
  <2>1. PICK buy, leave : buy = In("BuyWeapon") /\ leave = In("LeaveBazaar")
    OBVIOUS
  <2>2. /\ buy \in InputType /\ leave \in InputType /\ buy \in PlayerInput
        /\ leave \in PlayerInput /\ buy.kind # "LeaveBazaar"
    BY <1>4, <2>1
  <2>3. CASE plan = <<>>
    <3>1. inputs = <<leave>>
      BY <2>1, <2>3
    <3> HIDE DEF inputs
    <3> QED
      BY <2>2, <3>1
  <2>4. CASE plan = <<In("BuyWeapon")>>
    <3>1. plan = <<buy>> /\ plan \in Seq(InputType) /\ inputs = plan \o <<leave>>
      BY <2>1, <2>2, <2>4
    <3> HIDE DEF inputs
    <3>2. inputs = Append(plan, leave)
      BY <2>2, <3>1, AppendIsConcat
    <3>3. inputs \in Seq(InputType) /\ Len(inputs) = 2 /\ inputs[1] = buy /\ inputs[2] = leave
      BY <2>2, <3>1, <3>2
    <3>4. \A j \in 1 .. 2 : j = 1 \/ j = 2
      OBVIOUS
    <3> QED
      BY <2>2, <3>3, <3>4
  <2> QED
    BY <2>3, <2>4
<1> HIDE DEF inputs
<1>6. Extends(client, c)
  <2>1. \A j \in 1 .. Len(inputs) - 1 : inputs[j].kind # "LeaveBazaar"
    BY <1>5
  <2> QED
    BY <1>3, <1>5, <2>1, PredictAllExtends
<1>7. Together(c, bout, down, moves.count, moves.at)
  <2>1. Together(client, bout, down, moves.count, moves.at)
    BY DEF Replayed
  <2>2. Still(client, c, bout, down, moves.count, moves.at)
    BY <1>3, <1>5, <2>1, PredictAllStill
  <2> QED
    BY <2>2 DEF Still
<1> HIDE DEF c
<1>8. /\ d \in ClientType /\ d.inputSeq = c.inputSeq /\ d.unacked = c.unacked
      /\ d.acked = c.acked /\ d.you = c.you /\ d.opp = c.opp /\ d.history = c.history
      /\ d.seen = c.seen /\ d.game = c.game
  BY <1>6 DEF Extends, Client, ClientType
<1> HIDE DEF d
<1>9. Extends(client, d)
  BY <1>6, <1>8 DEF Extends, Client, Ring
<1>10. Together(d, bout, down, moves.count, moves.at)
  BY <1>7, <1>8, SameClient
<1> QED
  BY <1>2, <1>9, <1>10, SendReplayed DEF Becomes

\* A turn of the bot: its tick moves the game by itself, its inputs do not.
LEMMA BotPlaysReplayed == NInv /\ Replayed /\ BotPlays => Replayed'
<1> SUFFICES ASSUME NInv, Replayed, BotPlays PROVE Replayed'
  OBVIOUS
<1> DEFINE c == NoteLock([client EXCEPT !.game = TickGame(@)])
<1>1. PICK launch \in {<<>>, <<In("LaunchWeapon")>>},
           place \in {<<>>, <<In("BeginDrop")>>, <<In("MoveRight"), In("BeginDrop")>>} :
           /\ Becomes(IF c.game.over THEN c ELSE PredictAll(c, launch \o place))
           /\ Drifts(c)
  BY DEF BotPlays
<1> DEFINE inputs == launch \o place
           d == IF c.game.over THEN c ELSE PredictAll(c, inputs)
<1>2. /\ UNCHANGED <<bout, down>> /\ Decide(client) = "Play" /\ Becomes(d)
      /\ moves' = IF c.game = client.game THEN moves ELSE [moves EXCEPT !.at = -1]
  BY <1>1 DEF BotPlays, Drifts, None
<1>3. ~Leaving(client) /\ Client(client) /\ Ordered(client, bout, down)
  BY <1>2, NothingLeaves
<1>4. Extends(client, c) /\ c.inputSeq = client.inputSeq /\ c.unacked = client.unacked
  BY <1>3, TickedExtends
<1>5. inputs \in Seq(InputType) /\ Len(inputs) \in Nat
      /\ \A j \in 1 .. Len(inputs) : inputs[j] \in PlayerInput /\ inputs[j].kind # "LeaveBazaar"
  <2> DEFINE Turns == {i \in PlayerInput : i.kind # "LeaveBazaar"}
  <2>1. In("LaunchWeapon") \in Turns /\ In("BeginDrop") \in Turns /\ In("MoveRight") \in Turns
    BY InputsTyped DEF Kinds, PlayerInput
  <2>2. launch \in Seq(Turns) /\ place \in Seq(Turns)
    <3> HIDE DEF Turns
    <3>1. /\ <<>> \in Seq(Turns) /\ <<In("LaunchWeapon")>> \in Seq(Turns)
          /\ <<In("BeginDrop")>> \in Seq(Turns)
          /\ <<In("MoveRight"), In("BeginDrop")>> \in Seq(Turns)
      BY <2>1
    <3> QED
      BY <3>1
  <2>3. inputs \in Seq(Turns)
    <3> HIDE DEF Turns
    <3> QED
      BY <2>2
  <2> HIDE DEF inputs
  <2>4. Turns \subseteq InputType
    BY DEF PlayerInput
  <2>5. Len(inputs) \in Nat /\ \A j \in 1 .. Len(inputs) : inputs[j] \in Turns
    <3> HIDE DEF Turns
    <3> QED
      BY <2>3
  <2>6. inputs \in Seq(InputType)
    <3> HIDE DEF Turns
    <3> QED
      BY <2>3, <2>4
  <2> QED
    BY <2>5, <2>6
<1> HIDE DEF c, inputs
<1>6. /\ moves'.count = moves.count
      /\ moves'.at = moves.count => moves.at = moves.count /\ c.game = client.game
  <2>1. moves \in [count : Nat, at : Int] /\ moves.count \in Nat
    BY NetOrdered
  <2>2. CASE c.game = client.game
    BY <1>2, <2>2
  <2>3. CASE c.game # client.game
    <3>1. moves'.count = moves.count /\ moves'.at = -1
      BY <1>2, <2>1, <2>3
    <3> QED
      BY <2>1, <3>1
  <2> QED
    BY <2>2, <2>3
<1>7. PICK now : now = moves'.at
  OBVIOUS
<1>8. Together(c, bout, down, moves.count, now)
  <2>1. Together(client, bout, down, moves.count, moves.at)
    BY DEF Replayed
  <2>2. /\ c.inputSeq = client.inputSeq /\ c.unacked = client.unacked
        /\ c.acked = client.acked /\ c.you = client.you /\ c.opp = client.opp
    BY <1>4 DEF Extends
  <2>3. now = moves.count => moves.at = moves.count /\ c.game = client.game
    BY <1>6, <1>7
  <2> QED
    BY <2>1, <2>2, <2>3, SameClient
<1>9. Client(c) /\ Ordered(c, bout, down) /\ ~Leaving(c)
  BY <1>3, <1>4 DEF Extends, Ordered, Leaving
<1>10. Together(d, bout, down, moves.count, now) /\ Extends(c, d)
  <2>1. CASE c.game.over
    BY <1>8, <1>9, <2>1, ExtendsItself
  <2>2. CASE ~c.game.over
    <3>1. d = PredictAll(c, inputs)
      BY <2>2
    <3>2. \A j \in 1 .. Len(inputs) : /\ inputs[j] \in PlayerInput
                                      /\ inputs[j].kind = "LeaveBazaar" =>
                                            j = Len(inputs) /\ c.you
      BY <1>5
    <3>3. Still(c, PredictAll(c, inputs), bout, down, moves.count, now)
      BY <1>5, <1>8, <1>9, <3>2, PredictAllStill
    <3>4. \A j \in 1 .. Len(inputs) - 1 : inputs[j].kind # "LeaveBazaar"
      BY <1>5
    <3> QED
      BY <1>5, <1>9, <3>1, <3>3, <3>4, PredictAllExtends DEF Still
  <2> QED
    BY <2>1, <2>2
<1> HIDE DEF d
<1>11. Extends(client, d)
  BY <1>4, <1>10 DEF Extends
<1> QED
  BY <1>2, <1>6, <1>7, <1>10, <1>11, SendReplayed DEF Becomes

LEMMA StutterReplayed == Replayed /\ UNCHANGED vars => Replayed'
BY DEF Replayed, vars

\* A keyframe with the queue replayed over it is the server's game once the server
\* has taken what is in flight, for every size of the system and every number of
\* inputs, events and resyncs (on_snapshot, replay_input, apply_input): Replayed
\* is inductive beside NInv.
THEOREM KeyframeIsTheGame == Spec => []KeyframeAgrees
<1>1. NInv /\ Replayed /\ [Next]_vars => Replayed'
  <2> SUFFICES ASSUME NInv, Replayed, [Next]_vars PROVE Replayed'
    OBVIOUS
  <2>1. CASE ServerReceive
    BY <2>1, ReceiveReplayed
  <2>2. CASE \E opLine, weapon, sends \in BOOLEAN : ServerFrame(opLine, weapon, sends)
    BY <2>2, FrameReplayed
  <2>3. CASE OpponentLeaves
    BY <2>3, OpponentReplayed
  <2>4. CASE ClientReceive
    BY <2>4, ClientReceiveReplayed
  <2>5. CASE WindowPasses
    BY <2>5, WindowPassesReplayed
  <2>6. CASE BrowserTick
    BY <2>6, BrowserTickReplayed
  <2>7. CASE \E kind \in {"MoveRight", "BeginDrop", "BuyWeapon", "LaunchWeapon",
                          "LeaveBazaar"} : BrowserInput(In(kind))
    BY <2>7, BrowserInputReplayed
  <2>8. CASE BotShops
    BY <2>8, BotShopsReplayed
  <2>9. CASE BotLeavesAgain
    BY <2>9, BotLeavesAgainReplayed
  <2>10. CASE BotPlays
    BY <2>10, BotPlaysReplayed
  <2>11. CASE UNCHANGED vars
    BY <2>11, StutterReplayed
  <2> QED
    BY <2>1, <2>2, <2>3, <2>4, <2>5, <2>6, <2>7, <2>8, <2>9, <2>10, <2>11 DEF Next
<1>2. NInv /\ Replayed => KeyframeAgrees
  <2> SUFFICES ASSUME NInv, Replayed, moves.at = moves.count
               PROVE  Out(Settled(bout, up).game) = Out(client.game)
    BY DEF KeyframeAgrees
  <2>1. /\ PlayersQueue(client) /\ LeaveIsLast(client) /\ Gate(client, bout)
        /\ ClientLeads(client, bout, down) /\ Pending(client, bout, up, 0)
    BY DEF Replayed, Together
  <2>2. /\ Client(client) /\ bout \in BoutType /\ client.acked <= bout.ack
        /\ bout.ack <= client.inputSeq /\ up \in Seq(InputMsg \cup ResyncMsg)
    BY DEF NInv, NetTyped, Downward
  <2>3. Out(Settled(bout, up).game) = Out(Caught(client, bout.ack, bout.game))
    BY <2>1, <2>2, SettledIsCaught
  <2> QED
    BY <2>1, <2>3 DEF ClientLeads
<1>3. Spec => []NInv
  BY NetplayInvariant
<1> QED
  BY <1>1, <1>2, <1>3, InitReplayed, PTL DEF Spec
=============================================================================
