------------------------------ MODULE Netplay ------------------------------
(***************************************************************************)
(* Client-side prediction of one side of a match: the Predictor of         *)
(* bt-netcode, the two programs that drive it (the browser's loop and the  *)
(* bot's), and the authoritative Bout they predict, with the inputs on     *)
(* their way up and the events and snapshots on their way down.  The other *)
(* player is the environment: it clears lines, sends weapons, and leaves   *)
(* the bazaar when it likes.                                               *)
(*                                                                         *)
(* The engine is reduced to what keeps two copies of it together: the      *)
(* column of the falling piece, when it locks, what the lock makes of the  *)
(* board, and the bazaar.  A piece that locks in column 1 clears a line    *)
(* unless a weapon waited for the lock.                                    *)
(***************************************************************************)
EXTENDS Integers, SequencesExt, FiniteSetsExt

CONSTANTS
    Drivers,     \* who may play this side: "bot" or "browser", whose player
                 \* buys nothing after the Done button
    MaxLocks,    \* locks that top a side out
    Fall,        \* ticks a piece falls before it locks, 1 once it is dropped
    LinesTilBaz, \* BT_LINES_TIL_BAZ
    LockHistory, \* LOCK_HISTORY
    MaxEvents,   \* bound: lines the opponent clears and weapons it sends
    MaxInputs,   \* bound: inputs of the browser
    MaxResyncs,  \* bound: resync requests
    MaxDown      \* bound: frames on their way down

ASSUME NetplayAssumption ==
    /\ Drivers \subseteq {"bot", "browser"}
    /\ {MaxLocks, Fall, LinesTilBaz, LockHistory} \subseteq Nat \ {0}
    /\ {MaxEvents, MaxInputs, MaxResyncs, MaxDown} \subseteq Nat

VARIABLES
    driver, \* who plays this side
    bout,   \* the server: both sides of the Bout, and run_bout's keyframe flag
    up,     \* inputs and resync requests on their way to the server
    down,   \* events and snapshots on their way to the client
    client, \* the Predictor and the bookkeeping of its driver
    moves   \* ghost: the authoritative game has moved so many times; and the
            \* count at the keyframe the client's game follows, or -1

vars == <<driver, bout, up, down, client, moves>>

None == -1

-----------------------------------------------------------------------------
(* The engine.                                                             *)

NewGame == [x |-> 0, y |-> 0, drop |-> FALSE, stack |-> <<>>, struck |-> FALSE,
            opLines |-> 0, inBazaar |-> FALSE, armed |-> FALSE, over |-> FALSE]

Lines(g) == Len(SelectSeq(g.stack, LAMBDA row : row = 1))
Visits(g) == (Lines(g) + g.opLines) \div LinesTilBaz
\* update_bazaar
EnterBazaar(g, before) == [g EXCEPT !.inBazaar = @ \/ Visits(g) > Visits(before)]
LockSeq(g) == Len(g.stack)
LockHash(g) == g.stack

\* Game::tick, with the lock it may bring.
TickGame(g) ==
    IF g.inBazaar \/ g.over THEN g
    ELSE IF g.y < (IF g.drop THEN 1 ELSE Fall) THEN [g EXCEPT !.y = @ + 1]
    ELSE LET row == IF g.struck THEN 2 ELSE g.x
             locked == [g EXCEPT !.stack = Append(@, row), !.x = 0, !.y = 0,
                                 !.drop = FALSE, !.struck = FALSE] IN
         EnterBazaar([locked EXCEPT !.over = LockSeq(locked) = MaxLocks], g)

\* Input::apply_to_game: what a player's input or a relayed event does.
Apply(g, input) ==
    CASE input.kind = "MoveRight" -> IF g.over \/ g.drop THEN g ELSE [g EXCEPT !.x = 1]
      [] input.kind = "BeginDrop" -> IF g.over \/ g.inBazaar THEN g
                                     ELSE [g EXCEPT !.drop = TRUE]
      [] input.kind = "LaunchWeapon" -> IF g.over \/ g.inBazaar THEN g
                                        ELSE [g EXCEPT !.armed = FALSE]
      [] input.kind = "BuyWeapon" -> IF g.inBazaar THEN [g EXCEPT !.armed = TRUE] ELSE g
      [] input.kind = "LeaveBazaar" -> [g EXCEPT !.inBazaar = FALSE]
      [] input.kind = "ReceiveWeapon" -> [g EXCEPT !.struck = TRUE]
      [] input.kind = "ReceiveOpScore" -> EnterBazaar([g EXCEPT !.opLines = input.n], g)
In(kind) == [kind |-> kind, n |-> 0]
Mirror(lines) == [kind |-> "ReceiveOpScore", n |-> lines]

-----------------------------------------------------------------------------
(* The server: Bout::apply_input, Bout::tick and the frames of run_bout.   *)

Shopping(input) == input.kind \in {"BuyWeapon", "SellWeapon"}
BazaarInput(input) == Shopping(input) \/ input.kind = "LeaveBazaar"
Barrier(b) == b.game.inBazaar \/ b.opBazaar

\* Mutant: an input the barrier drops is not acknowledged.
AckWhenApplied(b, m) ==
    IF m.seq <= b.ack \/ (Barrier(b) /\ ~BazaarInput(m.input)) THEN b
    ELSE [b EXCEPT !.ack = m.seq, !.game = Apply(@, m.input)]

\* A fresh input is acknowledged even if the barrier then drops it.
ApplyInput(b, m) ==
    IF m.seq <= b.ack THEN b
    ELSE [b EXCEPT !.ack = m.seq,
                   !.game = IF Barrier(b) /\ ~BazaarInput(m.input) THEN @
                            ELSE Apply(@, m.input)]


ServerReceive ==
    /\ up # <<>> /\ ~bout.ended
    /\ up' = Tail(up)
    /\ bout' = IF Head(up).type = "resync" THEN [bout EXCEPT !.keyframe = TRUE]
               ELSE ApplyInput(bout, Head(up))
    /\ UNCHANGED <<driver, down, client, moves>>

Event(input) == [type |-> "event", input |-> input]
Snapshot(b, full) ==
    [type |-> "snapshot", ack |-> b.ack, you |-> b.game.inBazaar, opp |-> b.opBazaar,
     over |-> b.game.over, lockSeq |-> LockSeq(b.game), lockHash |-> LockHash(b.game),
     keyframe |-> IF full THEN <<b.game, moves'.count>> ELSE <<>>]

\* One frame: the tick and the relay, the events, and on every other frame a
\* snapshot.  Neither game ticks while either side shops.  Entering the bazaar
\* (both sides do together) and the end of the match owe a keyframe.
ServerFrame(opLine, weapon, sends) ==
    LET ticked == IF Barrier(bout) THEN bout.game ELSE TickGame(bout.game)
        mirrored == IF opLine THEN Apply(ticked, Mirror(bout.opLines + 1)) ELSE ticked
        struck == IF weapon THEN Apply(mirrored, In("ReceiveWeapon")) ELSE mirrored
        entered == struck.inBazaar /\ ~bout.game.inBazaar
        events == (IF opLine THEN <<Event(Mirror(bout.opLines + 1))>> ELSE <<>>)
                  \o (IF weapon THEN <<Event(In("ReceiveWeapon"))>> ELSE <<>>)
        next == [bout EXCEPT !.game = struck,
                             !.opLines = IF opLine THEN @ + 1 ELSE @,
                             !.weapons = IF weapon THEN @ + 1 ELSE @,
                             !.opBazaar = @ \/ entered,
                             !.keyframe = @ \/ entered,
                             !.ended = struck.over] IN
    /\ ~bout.ended
    /\ sends \/ events # <<>> => Len(down) <= MaxDown
    /\ opLine \/ weapon => ~Barrier(bout)
    /\ opLine \/ weapon => next.opLines + next.weapons <= MaxEvents
    /\ struck.over => sends
    /\ moves' = IF struck = bout.game THEN moves ELSE [moves EXCEPT !.count = @ + 1]
    /\ bout' = IF sends THEN [next EXCEPT !.keyframe = FALSE] ELSE next
    /\ down' = down \o events \o
               (IF sends THEN <<Snapshot(next, next.keyframe \/ struck.over)>> ELSE <<>>)
    /\ UNCHANGED <<driver, up, client>>

\* The other player is done shopping.
OpponentLeaves ==
    /\ bout.opBazaar /\ ~bout.ended
    /\ bout' = [bout EXCEPT !.opBazaar = FALSE]
    /\ UNCHANGED <<driver, up, down, client, moves>>

-----------------------------------------------------------------------------
(* The Predictor.                                                          *)

NewClient == [game |-> NewGame, inputSeq |-> 0, unacked |-> <<>>,
              you |-> FALSE, opp |-> FALSE, history |-> <<>>, mismatches |-> 0,
              judged |-> None, seen |-> 0,
              acked |-> 0, bought |-> FALSE, over |-> FALSE, asked |-> FALSE, asks |-> 0]

Held(c) == c.you \/ c.opp

\* note_lock: the ring of the last locks of the local game.
NoteLock(c) ==
    IF LockSeq(c.game) = c.seen THEN c
    ELSE LET ring == Append(c.history, <<LockSeq(c.game), LockHash(c.game)>>) IN
         [c EXCEPT !.seen = LockSeq(c.game),
                   !.history = IF Len(ring) > LockHistory THEN Tail(ring) ELSE ring]

\* predict: whether the input goes out, and the Predictor after it.
Accepted(c, input) ==
    /\ Held(c) => BazaarInput(input)
    /\ input.kind = "BuyWeapon" => c.game.inBazaar /\ ~c.game.armed
Predicted(c, input) ==
    NoteLock([c EXCEPT !.inputSeq = @ + 1,
                       !.unacked = Append(@, [type |-> "input", seq |-> c.inputSeq + 1,
                                                   input |-> input]),
                       !.game = IF input.kind = "LeaveBazaar" THEN @ ELSE Apply(@, input)])
Predict(c, input) == IF Accepted(c, input) THEN Predicted(c, input) ELSE c
PredictAll(c, inputs) ==
    LET after[i \in 0 .. Len(inputs)] ==
            IF i = 0 THEN c ELSE Predict(after[i - 1], inputs[i]) IN
    after[Len(inputs)]

\* Mutant: a movement is replayed into the shop.
ReplayUngated(g, m) == IF m.input.kind = "LeaveBazaar" THEN g ELSE Apply(g, m.input)

\* replay_input
Replay(g, m) == IF m.input.kind = "LeaveBazaar" \/ (g.inBazaar /\ ~Shopping(m.input)) THEN g
                ELSE Apply(g, m.input)

ReplayAll(g, msgs) ==
    LET after[i \in 0 .. Len(msgs)] == IF i = 0 THEN g ELSE Replay(after[i - 1], msgs[i]) IN
    after[Len(msgs)]

\* Vec::retain: the inputs after a sequence number.
Retain(msgs, seq) ==
    LET kept[i \in 0 .. Len(msgs)] ==
            IF i = 0 THEN <<>>
            ELSE IF msgs[i].seq > seq THEN Append(kept[i - 1], msgs[i]) ELSE kept[i - 1] IN
    kept[Len(msgs)]

\* Mutant: the acknowledged input stays in the queue.
OnSnapshotKeepsAcked(c, s) ==
    LET tail == Retain(c.unacked, s.ack - 1) IN
    [c EXCEPT !.you = s.you, !.opp = s.opp, !.unacked = tail, !.acked = s.ack, !.over = s.over]

\* on_snapshot, with the driver's own reading of the frame.
OnSnapshot(c, s) ==
    LET tail == Retain(c.unacked, s.ack)
        read == [c EXCEPT !.you = s.you, !.opp = s.opp, !.unacked = tail,
                          !.acked = s.ack, !.over = s.over,
                          !.bought = @ /\ s.you]
        restored == ReplayAll(s.keyframe[1], tail) IN
    IF s.keyframe # <<>>
    THEN [read EXCEPT !.game = restored, !.history = <<>>, !.mismatches = 0,
                      !.judged = None, !.seen = LockSeq(restored)]
    ELSE NoteLock(IF c.you /\ ~s.you THEN [read EXCEPT !.game.inBazaar = FALSE] ELSE read)

\* on_lock_hash: the Predictor after a verdict, and whether to ask for a resync.
OnLockHash(c, s) ==
    LET mine == {i \in DOMAIN c.history : c.history[i][1] = s.lockSeq}
        agrees == \A i \in mine : c.history[i][2] = s.lockHash
        fires == ~agrees /\ c.mismatches + 1 >= 2 IN
    IF c.judged = s.lockSeq \/ mine = {} THEN <<c, FALSE>>
    ELSE <<[c EXCEPT !.judged = s.lockSeq,
                     !.mismatches = IF agrees \/ fires THEN 0 ELSE @ + 1], fires>>

-----------------------------------------------------------------------------
(* The clients.                                                            *)

\* What the client sent since `before`.
Sent(before, after) == Retain(after.unacked, before.inputSeq)

\* A client that went from `client` to c: its new inputs go up.
Becomes(c) == client' = c /\ up' = up \o Sent(client, c)

\* The local game no longer follows the last keyframe once it moves by itself.
Drifts(c) == moves' = IF c.game = client.game THEN moves ELSE [moves EXCEPT !.at = None]

\* A frame from the server.  A mismatch on two locks, or a local game that is
\* over while the match is not, asks for a keyframe, at most one per window.
ClientReceive ==
    LET m == Head(down)
        verdict == IF m.type = "event" THEN <<client, FALSE>>
                   ELSE OnLockHash(OnSnapshot(client, m), m)
        c == verdict[1]
        due == verdict[2] \/ (~m.over /\ c.game.over)
        asks == due /\ ~c.asked /\ c.asks < MaxResyncs
        event == NoteLock([client EXCEPT !.game = Apply(@, m.input)]) IN
    /\ down # <<>> /\ ~client.over
    /\ down' = Tail(down)
    /\ IF m.type = "event"
       THEN /\ client' = event
            /\ Drifts(event)
            /\ UNCHANGED up
       ELSE /\ client' = IF asks THEN [c EXCEPT !.asked = TRUE, !.asks = @ + 1] ELSE c
            /\ up' = IF asks THEN Append(up, [type |-> "resync"]) ELSE up
            /\ moves' = IF m.keyframe = <<>> THEN moves
                        ELSE [moves EXCEPT !.at = m.keyframe[2]]
    /\ UNCHANGED <<driver, bout>>

\* shouldSendResync, resync_due: two seconds after the last request.
WindowPasses ==
    /\ client.asked
    /\ client' = [client EXCEPT !.asked = FALSE]
    /\ UNCHANGED <<driver, bout, up, down, moves>>

\* gameLoop: the browser ticks its game whatever the barrier.
BrowserTick ==
    LET c == NoteLock([client EXCEPT !.game = TickGame(@)]) IN
    /\ driver # "bot" /\ ~client.over /\ ~client.game.over
    /\ client' = c
    /\ Drifts(c)
    /\ UNCHANGED <<driver, bout, up, down>>

\* The Done button was pressed and the server has not been heard to act on it;
\* it is disabled from then on.
Left == \E i \in DOMAIN client.unacked : client.unacked[i].input.kind = "LeaveBazaar"

\* A key, or a button of the bazaar, which shows while either side shops.
BrowserInput(input) ==
    /\ driver # "bot" /\ ~client.over /\ client.inputSeq < MaxInputs
    /\ input.kind = "LeaveBazaar" => client.you /\ ~Left
    /\ input.kind = "BuyWeapon" => ~Left
    /\ Accepted(client, input)
    /\ Becomes(Predict(client, input))
    /\ UNCHANGED <<driver, bout, down, moves>>

\* Mutant: the bot shops on its own prediction of the bazaar.
DecideLocally(c) ==
    IF c.over THEN "End"
    ELSE IF c.acked < c.inputSeq THEN "WaitAck"
    ELSE IF c.game.inBazaar /\ ~c.bought THEN "Shop"
    ELSE IF c.you \/ c.opp \/ c.game.inBazaar THEN "WaitBazaar"
    ELSE "Play"

\* sync::decide
Decide(c) ==
    IF c.over THEN "End"
    ELSE IF c.acked < c.inputSeq THEN "WaitAck"
    ELSE IF c.you /\ c.game.inBazaar /\ ~c.bought THEN "Shop"
    ELSE IF c.you \/ c.opp \/ c.game.inBazaar THEN "WaitBazaar"
    ELSE "Play"

\* shop_bazaar: what the plan can pay for, then the leave.
BotShops ==
    /\ driver = "bot" /\ Decide(client) = "Shop"
    /\ \E plan \in {<<>>, <<In("BuyWeapon")>>} :
           Becomes([PredictAll(client, plan \o <<In("LeaveBazaar")>>) EXCEPT !.bought = TRUE])
    /\ UNCHANGED <<driver, bout, down, moves>>

\* Still shopping by the server's word, although it sent its leave.
BotLeavesAgain ==
    /\ driver = "bot" /\ Decide(client) = "WaitBazaar" /\ client.you /\ client.bought
    /\ Becomes(Predict(client, In("LeaveBazaar")))
    /\ UNCHANGED <<driver, bout, down, moves>>

\* play: a tick; then a weapon and a placement, each when its cooldown is over.
BotPlays ==
    /\ driver = "bot" /\ Decide(client) = "Play"
    /\ LET c == NoteLock([client EXCEPT !.game = TickGame(@)]) IN
       \E launch \in {<<>>, <<In("LaunchWeapon")>>},
          place \in {<<>>, <<In("BeginDrop")>>, <<In("MoveRight"), In("BeginDrop")>>} :
           /\ launch # <<>> => c.game.armed
           /\ Becomes(IF c.game.over THEN c ELSE PredictAll(c, launch \o place))
           /\ Drifts(c)
    /\ UNCHANGED <<driver, bout, down>>

Init ==
    /\ driver \in Drivers
    /\ bout = [game |-> NewGame, ack |-> 0, opLines |-> 0, weapons |-> 0,
               opBazaar |-> FALSE, keyframe |-> TRUE, ended |-> FALSE]
    /\ up = <<>> /\ down = <<>>
    /\ client = NewClient
    /\ moves = [count |-> 0, at |-> 0]

Next ==
    \/ ServerReceive
    \/ \E opLine, weapon, sends \in BOOLEAN : ServerFrame(opLine, weapon, sends)
    \/ OpponentLeaves
    \/ ClientReceive \/ WindowPasses
    \/ BrowserTick
    \/ \E kind \in {"MoveRight", "BeginDrop", "BuyWeapon", "LaunchWeapon", "LeaveBazaar"} :
           BrowserInput(In(kind))
    \/ BotShops \/ BotLeavesAgain \/ BotPlays

Spec == Init /\ [][Next]_vars

\* The server's loop, the sockets and the bot's loop run on; nobody has to
\* press a key or leave the shop.
FairSpec ==
    /\ Spec
    /\ WF_vars(ServerReceive) /\ WF_vars(ServerFrame(FALSE, FALSE, TRUE))
    /\ WF_vars(ClientReceive)
    /\ WF_vars(BotShops) /\ WF_vars(BotLeavesAgain)

-----------------------------------------------------------------------------
(* Properties.                                                             *)

Seqs(s) == {s[i].seq : i \in DOMAIN s}

\* The Predictor's queue is what it sent and the server has not been heard to
\* acknowledge, the server never acknowledges what was not sent, and the ring
\* stays within LOCK_HISTORY, oldest lock first.
TypeOK ==
    /\ driver \in Drivers /\ moves.at \in -1 .. moves.count
    /\ bout.ack <= client.inputSeq /\ client.acked <= bout.ack
    /\ Seqs(client.unacked) = client.acked + 1 .. client.inputSeq
    /\ Len(client.history) <= LockHistory
    /\ \A i \in 2 .. Len(client.history) : client.history[i - 1][1] < client.history[i][1]

\* The server once it has taken the inputs in msgs, and a game but for the bazaar.
Settled(b, msgs) ==
    LET after[i \in 0 .. Len(msgs)] ==
            IF i = 0 THEN b
            ELSE IF msgs[i].type = "input" THEN ApplyInput(after[i - 1], msgs[i])
            ELSE after[i - 1] IN
    after[Len(msgs)]
Out(g) == [g EXCEPT !.inBazaar = FALSE]

\* A keyframe and the replayed tail: as long as neither side has moved by itself
\* since, the server, once it has taken the inputs in flight, has the client's
\* game (on_snapshot, replay_input, apply_input).  Only the release from the
\* bazaar comes later to the client.
KeyframeAgrees ==
    moves.at = moves.count => Out(Settled(bout, up).game) = Out(client.game)

\* The bot never sends a leave that the server takes for a no-op: whenever one
\* arrives, the authoritative game is in the bazaar (sync.rs P2).
LeaveIsReal ==
    [][driver = "bot" /\ bout'.ack # bout.ack /\ Head(up).input.kind = "LeaveBazaar"
       => bout.game.inBazaar]_vars

\* The bot always leaves the shop it is in, whatever was in flight when it
\* opened (sync.rs P5).
BotLeaves ==
    driver = "bot" /\ bout.game.inBazaar /\ ~bout.ended ~> ~bout.game.inBazaar

=============================================================================
