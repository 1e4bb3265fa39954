------------------------------ MODULE RunBout ------------------------------
(***************************************************************************)
(* One server-authoritative match: the tick loop run_bout of bt-server,    *)
(* the two bounded channels that feed it, the sockets of the two players   *)
(* and the part of the lobby registry that concerns this match.            *)
(*                                                                         *)
(* The loop is one task; the sockets' read loops (inputs, rejoin, leave,   *)
(* resync), their writer tasks and the admin endpoints are others, so a    *)
(* message can enter a channel, or a socket die, between any two steps of  *)
(* the loop.  The engine is abstract here: a tick may raise the dirty      *)
(* flag and may end the game (module Versus models what it does).          *)
(***************************************************************************)
EXTENDS Integers, Sequences, FiniteSets

CONSTANTS
    Human,        \* the sides played by a human (the others are bots)
    MaxConns,     \* bound: connections one player opens during the match
    MaxSeq,       \* bound: inputs one connection sends
    MaxAsks,      \* bound: resync, spectate, grant and leave requests
    InputCap,     \* BOUT_INPUT_CAP
    ControlCap,   \* capacity of the control channel (4)
    GraceTicks,   \* REJOIN_GRACE, in iterations of the frozen loop
    ProbeEvery    \* frames between two heartbeat probes (32)

Side == {"A", "B"}
Other(s) == IF s = "A" THEN "B" ELSE "A"
Conn == 1 .. MaxConns

NoGrace == -1          \* grace_until = None

ASSUME ConstantsAssumption ==
    /\ Human \subseteq Side
    /\ MaxConns \in Nat \ {0}
    /\ MaxSeq \in Nat
    /\ MaxAsks \in Nat
    /\ InputCap \in Nat \ {0}
    /\ ControlCap \in Nat \ {0}
    /\ GraceTicks \in Nat
    /\ ProbeEvery \in Nat \ {0} /\ ProbeEvery % 2 = 0

Control ==
    [kind : {"Reattach"}, side : Side, conn : Conn]
        \cup [kind : {"Forfeit", "Resync", "DebugGrant"}, side : Side]
        \cup [kind : {"AddSpectator"}]
\* An input of the channel, with a ghost: the connection that sent it.
Input == [side : Side, seq : 1 .. MaxSeq, conn : Conn]

VARIABLES
    made,       \* made[s]: connections s's player has opened so far
    open,       \* open[s]: connections whose writer task still accepts sends
    bound,      \* bound[s]: registered clients whose `bout` is this match
    started,    \* started[s]: connections handed a matchStart
    seq,        \* seq[s][k]: the last input seq the client on k has sent
    asks,       \* requests (other than rejoins) made of the match so far
    inputs,     \* the input channel
    control,    \* the control channel
    pc,         \* where the loop's task is
    owner,      \* owner[s]: the connection behind id_a/tx_a, id_b/tx_b
    connected,  \* the loop's belief that the side's socket is attached
    grace,      \* grace_until, as iterations left
    frame,      \* the frame counter, modulo ProbeEvery
    wantKeyframe,
    granted,    \* granted[s]: resync_last_grant[s] is set
    forfeitBy,  \* the control drain's local
    outcome,    \* the value the loop breaks with
    over,       \* bout.is_over()
    ack,        \* Bout::ack
    stale,      \* ghost: the client on owner[s] misses an unpredictable effect
    told        \* ghost: the client on owner[s] was sent the end of the match

netVars == <<made, open, bound, started, seq, asks>>
loopVars == <<pc, owner, connected, grace, frame, wantKeyframe, granted,
              forfeitBy, outcome, over, ack, stale, told>>
vars == <<netVars, inputs, control, loopVars>>

Running == pc \in {"control", "inputs", "send"}
Frozen == \E s \in Side : ~connected[s]

NextFrame == (frame + 1) % ProbeEvery

\* What a send to the side's writer returns.
AttachedByRegistry(s) == owner[s] \in bound[s]
Attached(s) == owner[s] \in open[s]

-----------------------------------------------------------------------------
(* start_bout has paired two clients and spawned the loop.                 *)
Init ==
    /\ made = [s \in Side |-> 1]
    /\ open = [s \in Side |-> {1}]
    /\ bound = [s \in Side |-> {1}]
    /\ started = [s \in Side |-> {1}]
    /\ seq = [s \in Side |-> [k \in Conn |-> 0]]
    /\ asks = 0
    /\ inputs = <<>>
    /\ control = <<>>
    /\ pc = "control"
    /\ owner = [s \in Side |-> 1]
    /\ connected = [s \in Side |-> TRUE]
    /\ grace = NoGrace
    /\ frame = 0
    /\ wantKeyframe = [s \in Side |-> TRUE]
    /\ granted = [s \in Side |-> FALSE]
    /\ forfeitBy = "none"
    /\ outcome = "none"
    /\ over = FALSE
    /\ ack = [s \in Side |-> 0]
    /\ stale = [s \in Side |-> TRUE]
    /\ told = [s \in Side |-> FALSE]

-----------------------------------------------------------------------------
(* The sockets, up to the end of the match.  A connection's reader and     *)
(* writer are two tasks: either may stop first.                            *)

\* The writer task of k ends (a failed socket write, or writer.abort()).
WriterStops(s, k) ==
    /\ pc # "done" /\ k \in open[s]
    /\ open' = [open EXCEPT ![s] = @ \ {k}]
    /\ UNCHANGED <<made, bound, started, seq, asks, inputs, control, loopVars>>

\* The read loop of k ends and handle_socket removes the client.
ReaderStops(s, k) ==
    /\ pc # "done" /\ k \in bound[s]
    /\ bound' = [bound EXCEPT ![s] = @ \ {k}]
    /\ UNCHANGED <<made, open, started, seq, asks, inputs, control, loopVars>>

\* "input": forwarded to the match with try_send, dropped when it is full.
SendInput(s, k) ==
    /\ k \in bound[s] \cap started[s]
    /\ seq[s][k] < MaxSeq
    /\ seq' = [seq EXCEPT ![s][k] = @ + 1]
    /\ inputs' = IF pc # "done" /\ Len(inputs) < InputCap
                 THEN Append(inputs, [side |-> s, seq |-> seq[s][k] + 1, conn |-> k])
                 ELSE inputs
    /\ UNCHANGED <<made, open, bound, started, asks, control, loopVars>>

\* try_send on the control channel: it is refused when full, and the handler
\* finds no handle once the match has left App::bouts.
TrySendUnbounded(m) ==
    control' = IF pc # "done" THEN Append(control, m) ELSE control
TrySend(m) ==
    control' = IF pc # "done" /\ Len(control) < ControlCap
               THEN Append(control, m) ELSE control

\* "rejoin" from a fresh connection of s's player (a refresh, a reconnect
\* or a second tab).  Accepted iff the Reattach entered the channel.
Rejoin(s) ==
    LET k == made[s] + 1 IN
    /\ s \in Human
    /\ made[s] < MaxConns
    /\ made' = [made EXCEPT ![s] = k]
    /\ open' = [open EXCEPT ![s] = @ \cup {k}]
    /\ TrySend([kind |-> "Reattach", side |-> s, conn |-> k])
    /\ bound' = IF control' # control
                THEN [bound EXCEPT ![s] = @ \cup {k}] ELSE bound
    /\ UNCHANGED <<started, seq, asks, inputs, loopVars>>

\* One request of the match, up to the bound on their number.
Ask(m) ==
    /\ asks < MaxAsks
    /\ asks' = asks + 1
    /\ TrySend(m)
    /\ UNCHANGED <<made, open, bound, started, seq, inputs, loopVars>>

\* "leaveMatch": the in-app Leave button, from any client bound to the side.
LeaveMatch(s) == bound[s] # {} /\ Ask([kind |-> "Forfeit", side |-> s])

\* "resync": the client saw its lock hash disagree with the server's.
Resync(s) == bound[s] # {} /\ Ask([kind |-> "Resync", side |-> s])

\* "spectate" and POST /admin/grant, from outside the match.
Spectate == Ask([kind |-> "AddSpectator"])
AdminGrant(s) == Ask([kind |-> "DebugGrant", side |-> s])

-----------------------------------------------------------------------------
(* The control drain at the head of an iteration, one message a step.      *)

\* The deadline after a reattach: cleared when both sides are back.
GraceKept(resumed) == grace
GraceAfter(resumed) == IF resumed THEN NoGrace ELSE grace

\* matchStart goes out on the socket that just came back.
HandoverToOld(m) == [started EXCEPT ![m.side] = @ \cup {owner[m.side]}]
Handover(m) == [started EXCEPT ![m.side] = @ \cup {m.conn}]

\* Swap in the new socket, drop the ack baseline, hand over matchStart and a
\* keyframe; if nobody is missing any more, lift the freeze for both.
Reattach(m) ==
    LET back == [connected EXCEPT ![m.side] = TRUE]
        resumed == \A s \in Side : back[s] IN
    /\ owner' = [owner EXCEPT ![m.side] = m.conn]
    /\ connected' = back
    /\ ack' = [ack EXCEPT ![m.side] = 0]
    /\ started' = Handover(m)
    /\ stale' = [s \in Side |-> IF s = m.side \/ resumed THEN FALSE ELSE stale[s]]
    /\ grace' = GraceAfter(resumed)
    /\ wantKeyframe' = IF resumed THEN [s \in Side |-> TRUE] ELSE wantKeyframe
    /\ UNCHANGED <<granted, forfeitBy>>

Forfeit(m) ==
    /\ forfeitBy' = m.side
    /\ UNCHANGED <<owner, connected, ack, started, stale, grace, wantKeyframe, granted>>

\* The grant changes the authoritative game, so both clients owe a resync.
DebugGrant(m) ==
    /\ wantKeyframe' = [s \in Side |-> TRUE]
    /\ stale' = [stale EXCEPT ![m.side] = TRUE]
    /\ UNCHANGED <<owner, connected, ack, started, grace, granted, forfeitBy>>

\* resync_grant_allowed: the first request of a side is granted, a later one
\* iff a second (by the clock, not modelled) has passed since its last grant.
GrantResync(m) ==
    /\ \E late \in BOOLEAN :
          wantKeyframe' = [wantKeyframe EXCEPT ![m.side] = @ \/ ~granted[m.side] \/ late]
    /\ granted' = [granted EXCEPT ![m.side] = TRUE]
    /\ UNCHANGED <<owner, connected, ack, started, stale, grace, forfeitBy>>

AddSpectator(m) ==
    UNCHANGED <<owner, connected, ack, started, stale, grace, wantKeyframe,
                granted, forfeitBy>>

HandleControl ==
    /\ pc = "control"
    /\ control # <<>>
    /\ control' = Tail(control)
    /\ LET m == Head(control) IN
          \/ m.kind = "Reattach" /\ Reattach(m)
          \/ m.kind = "Forfeit" /\ Forfeit(m)
          \/ m.kind = "DebugGrant" /\ DebugGrant(m)
          \/ m.kind = "Resync" /\ GrantResync(m)
          \/ m.kind = "AddSpectator" /\ AddSpectator(m)
    /\ UNCHANGED <<made, open, bound, seq, asks, inputs, pc, frame, outcome, over, told>>

-----------------------------------------------------------------------------
(* The rest of an iteration.                                               *)

Break(result) ==
    /\ outcome' = result
    /\ pc' = "closing"

\* An intentional leave: the leaver loses, with no grace.
BreakForfeit ==
    /\ pc = "control" /\ control = <<>> /\ forfeitBy # "none"
    /\ Break(Other(forfeitBy))
    /\ UNCHANGED <<netVars, inputs, control, owner, connected, grace, frame,
                   wantKeyframe, granted, forfeitBy, over, ack, stale, told>>

Idle == pc = "control" /\ control = <<>> /\ forfeitBy = "none"

Absentee == IF ~connected["A"] THEN "A" ELSE IF ~connected["B"] THEN "B" ELSE "none"
Stayer == IF connected["A"] THEN "A" ELSE IF connected["B"] THEN "B" ELSE "none"

\* Frozen and out of time: whoever is still attached wins.
GraceExpires ==
    /\ Idle /\ Frozen /\ grace = 0
    /\ Break(Stayer)
    /\ UNCHANGED <<netVars, inputs, control, owner, connected, grace, frame,
                   wantKeyframe, granted, forfeitBy, over, ack, stale, told>>

\* Frozen: hold the simulation and the inputs, probe the attached side.
FrozenIteration ==
    /\ Idle /\ Frozen /\ grace # 0
    /\ grace' = IF grace = NoGrace THEN NoGrace ELSE grace - 1
    /\ connected' = IF frame = 0
                    THEN [s \in Side |-> connected[s] /\ Attached(s)]
                    ELSE connected
    /\ frame' = NextFrame
    /\ UNCHANGED <<netVars, inputs, control, pc, owner, wantKeyframe, granted,
                   forfeitBy, outcome, over, ack, stale, told>>

BeginTick ==
    /\ Idle /\ ~Frozen
    /\ pc' = "inputs"
    /\ UNCHANGED <<netVars, inputs, control, owner, connected, grace, frame,
                   wantKeyframe, granted, forfeitBy, outcome, over, ack, stale, told>>

\* Bout::apply_input's sequence check: only a seq above the ack is taken.
ApplyInput(m) ==
    ack' = [ack EXCEPT ![m.side] = IF m.seq > @ THEN m.seq ELSE @]

DrainInput ==
    /\ pc = "inputs" /\ inputs # <<>>
    /\ ApplyInput(Head(inputs))
    /\ inputs' = Tail(inputs)
    /\ UNCHANGED <<netVars, control, pc, owner, connected, grace, frame,
                   wantKeyframe, granted, forfeitBy, outcome, over, stale, told>>

\* bout.tick and take_dirty: dirty marks a cross-player effect that no client
\* could predict.
EngineTick(dirty) ==
    /\ pc = "inputs" /\ inputs = <<>>
    /\ pc' = "send"
    /\ wantKeyframe' = [s \in Side |-> wantKeyframe[s] \/ dirty]
    /\ stale' = [s \in Side |-> stale[s] \/ dirty]
    /\ UNCHANGED <<netVars, inputs, control, owner, connected, grace, frame,
                   granted, forfeitBy, outcome, over, ack, told>>

\* The tick latched a winner: a final keyframe to both, then break.
GameOver(winner) ==
    /\ pc = "inputs" /\ inputs = <<>>
    /\ over' = TRUE
    /\ Break(winner)
    /\ stale' = [s \in Side |-> FALSE]
    /\ told' = [s \in Side |-> TRUE]
    /\ UNCHANGED <<netVars, inputs, control, owner, connected, grace, frame,
                   wantKeyframe, granted, forfeitBy, ack>>

\* The freeze deadline, armed by the first human drop.
GraceUnarmed == grace
GraceOnDrop == IF grace = NoGrace THEN GraceTicks ELSE grace

\* Every other frame the snapshots go out, which is also how a drop is seen.
SendSnapshots ==
    LET ok == [s \in Side |-> Attached(s)]
        down == {s \in Side : ~ok[s]} IN
    /\ pc = "send"
    /\ frame % 2 = 0
    /\ wantKeyframe' = [s \in Side |-> FALSE]
    /\ stale' = [s \in Side |-> IF wantKeyframe[s] /\ ok[s] THEN FALSE ELSE stale[s]]
    /\ connected' = ok
    /\ \/ /\ down = {}
          /\ pc' = "control"
          /\ UNCHANGED <<grace, outcome>>
       \/ /\ down # {} /\ down \cap Human = {}
          /\ Break(IF ok["A"] THEN "A" ELSE "B")
          /\ UNCHANGED grace
       \/ /\ down \cap Human # {}
          /\ grace' = GraceOnDrop
          /\ pc' = "control"
          /\ UNCHANGED outcome
    /\ frame' = NextFrame
    /\ UNCHANGED <<netVars, inputs, control, owner, granted, forfeitBy, over, ack, told>>

SkipSendAndClear ==
    /\ pc = "send"
    /\ frame % 2 # 0
    /\ pc' = "control"
    /\ frame' = NextFrame
    /\ wantKeyframe' = [s \in Side |-> FALSE]
    /\ UNCHANGED <<netVars, inputs, control, owner, connected, grace,
                   granted, forfeitBy, outcome, over, ack, stale, told>>

SkipSend ==
    /\ pc = "send"
    /\ frame % 2 # 0
    /\ pc' = "control"
    /\ frame' = NextFrame
    /\ UNCHANGED <<netVars, inputs, control, owner, connected, grace, wantKeyframe,
                   granted, forfeitBy, outcome, over, ack, stale, told>>

\* opponentLeft is due: somebody won, and not by a top-out.
AnnounceLeaveOnly == forfeitBy # "none"
AnnounceLeft == outcome # "none" /\ ~over

\* After the loop: the app lock is taken (after the replay upload), the match
\* leaves the registry, the two owners are unbound, and a forfeit is announced.
Settle ==
    /\ pc = "closing"
    /\ pc' = "done"
    /\ bound' = [s \in Side |-> bound[s] \ {owner[s]}]
    /\ told' = IF AnnounceLeft THEN [s \in Side |-> TRUE] ELSE told
    /\ UNCHANGED <<made, open, started, seq, asks, inputs, control, owner, connected,
                   grace, frame, wantKeyframe, granted, forfeitBy, outcome, over,
                   ack, stale>>

-----------------------------------------------------------------------------
Loop ==
    \/ HandleControl
    \/ BreakForfeit
    \/ GraceExpires
    \/ FrozenIteration
    \/ BeginTick
    \/ DrainInput
    \/ \E dirty \in BOOLEAN : EngineTick(dirty)
    \/ \E winner \in Side : GameOver(winner)
    \/ SendSnapshots
    \/ SkipSend
    \/ Settle

Environment ==
    \/ \E s \in Side, k \in Conn :
          WriterStops(s, k) \/ ReaderStops(s, k) \/ SendInput(s, k)
    \/ \E s \in Side :
          Rejoin(s) \/ LeaveMatch(s) \/ Resync(s) \/ AdminGrant(s)
    \/ Spectate

\* The task has returned; only this state may stop.
Ended == pc = "done" /\ UNCHANGED vars

Next == Loop \/ Environment \/ Ended

Spec == Init /\ [][Next]_vars

\* The interval timer keeps firing and the post-loop awaits return.
FairSpec == Spec /\ WF_vars(Loop)

-----------------------------------------------------------------------------
(* Properties.                                                             *)

\* Types, and the channels within their capacities, whatever the requests.
TypeOK ==
    /\ made \in [Side -> Conn]
    /\ open \in [Side -> SUBSET Conn]
    /\ bound \in [Side -> SUBSET Conn]
    /\ started \in [Side -> SUBSET Conn]
    /\ seq \in [Side -> [Conn -> 0 .. MaxSeq]]
    /\ asks \in 0 .. MaxAsks
    /\ inputs \in Seq(Input) /\ Len(inputs) <= InputCap
    /\ control \in Seq(Control) /\ Len(control) <= ControlCap
    /\ pc \in {"control", "inputs", "send", "closing", "done"}
    /\ owner \in [Side -> Conn]
    /\ connected \in [Side -> BOOLEAN]
    /\ grace \in {NoGrace} \cup 0 .. GraceTicks
    /\ frame \in 0 .. ProbeEvery - 1
    /\ wantKeyframe \in [Side -> BOOLEAN]
    /\ granted \in [Side -> BOOLEAN]
    /\ forfeitBy \in Side \cup {"none"}
    /\ outcome \in Side \cup {"none"}
    /\ over \in BOOLEAN
    /\ ack \in [Side -> 0 .. MaxSeq]
    /\ stale \in [Side -> BOOLEAN]
    /\ told \in [Side -> BOOLEAN]

\* The frozen branch of run_bout relies on "`grace_until` is always set here":
\* a freeze with no deadline would hold the match for ever, and a deadline
\* left over from an earlier freeze would cut the next one short.
FreezeHasDeadline == Running => (Frozen <=> grace # NoGrace)

\* The verdict of a freeze is taken from `connected`: a side the loop counts
\* as away has no live socket behind it, whatever reattached meanwhile.
OnlyDeadSocketsAreDown ==
    \A s \in Side : ~connected[s] => owner[s] \notin open[s]

\* Keyframes are only sent on a trigger, so a client that misses an effect it
\* could not predict (dirty tick, admin grant) still has one coming.
KeyframeOwed ==
    Running => \A s \in Side : connected[s] /\ stale[s] => wantKeyframe[s]

\* After the settle section every player still attached has been told that
\* the match is over, by the final snapshot or by opponentLeft; a match that
\* ends with no verdict has nobody attached.
EndIsAnnounced ==
    pc = "done" => \A s \in Side : owner[s] \in open[s] => told[s]

\* The loop implements the life of a match promised by module BoutLife.
Phase == CASE pc = "done" -> "settled"
           [] pc = "closing" -> "decided"
           [] Running -> IF Frozen THEN "frozen" ELSE "playing"
Reason == IF Running THEN "none"
          ELSE IF over THEN "topout"
          ELSE IF forfeitBy # "none" THEN "leave" ELSE "drop"
Life == INSTANCE BoutLife WITH
            phase <- Phase,
            down <- {s \in Side : ~connected[s]},
            winner <- outcome,
            reason <- Reason
ImplementsLife == Life!LifeSpec

\* A freeze does not last: the player returns or the match is decided.
FreezeResolves == (Running /\ Frozen) ~> (~Frozen \/ ~Running)

\* A rejoin accepted by a live loop is handed its matchStart, unless the match
\* is decided first.
RejoinHonoured ==
    \A s \in Side : \A k \in Conn :
        (Running /\ [kind |-> "Reattach", side |-> s, conn |-> k] \in
                        {control[i] : i \in DOMAIN control})
            ~> (k \in started[s] \/ ~Running)

-----------------------------------------------------------------------------
(* What a comment of the code claims, and the code does not do (see README). *)

\* "The reconnecting client's old in-flight inputs are gone (its socket closed;
\* the input channel was drained ticks ago), so dropping the baseline to 0 is
\* safe" (reset_ack): when a side that was away reattaches, no input of an
\* earlier connection of its player is left in the channel.
OldInputsGone ==
    [][\A s \in Side : ~connected[s] /\ connected'[s] =>
          \A i \in DOMAIN inputs' :
              inputs'[i].side = s => inputs'[i].conn = owner'[s]]_vars

=============================================================================
