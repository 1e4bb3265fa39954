------------------------------- MODULE Replay -------------------------------
(***************************************************************************)
(* The recording of a game and its playback (bt-replay, the recorders in   *)
(* bt-wasm and bt-server's bout.rs).  The engine is deterministic, so a    *)
(* game is taken for the sequence of all it was told: the inputs of its    *)
(* sides, in order, and the ticks.  Two games are the same exactly if      *)
(* these are.  A game against the computer is told of its player alone:    *)
(* the computer's moves are part of the tick.                              *)
(***************************************************************************)
EXTENDS Integers, SequencesExt, FiniteSetsExt

CONSTANTS
    Modes,    \* the kinds of games: "Practice", "VsComputer", "Online"
    Keys,     \* the inputs a side may send
    MaxTicks, \* bound: ticks of the game
    MaxFrames \* bound: inputs recorded

ASSUME ReplayAssumption ==
    /\ Modes \subseteq {"Practice", "VsComputer", "Online"}
    /\ MaxTicks \in Nat \ {0} /\ MaxFrames \in Nat
    /\ {"tick", "relay", "grant", "funds"} \cap Keys = {}

VARIABLES
    mode,     \* the kind of game
    live,     \* the game as it is played: all it was told
    rec,      \* the Recorder: its clock and its frames
    playback  \* the player of a recording, once there is one

replayVars == <<mode, live, rec, playback>>

-----------------------------------------------------------------------------
(* Recording.                                                              *)

Sides == IF mode = "Online" THEN {0, 1} ELSE {0}
Told(side, input) == [side |-> side, input |-> input]
Tock == Told(-1, "tick")  \* a tick, which is of no side

\* Recorder::record, of each of the inputs in turn.
Record(r, told) ==
    [r EXCEPT !.frames = @ \o [i \in DOMAIN told |-> [tick |-> r.tick, told |-> told[i]]]]

\* An input reaches the engine and the recording, the one as often as the
\* other, whether the engine makes anything of it or not.
Give(told) ==
    /\ Len(rec.frames) + Len(told) <= MaxFrames
    /\ live' = live \o told
    /\ rec' = Record(rec, told)
    /\ UNCHANGED <<mode, playback>>

\* The inputs of WasmGame and of WasmVsComputer.
PracticePlay(key) == mode = "Practice" /\ Give(<<Told(0, key)>>)
ComputerPlay(key) == mode = "VsComputer" /\ Give(<<Told(0, key)>>)

\* Bout::apply_input, for an input that is fresh and that the bazaar lets
\* through.  What a match refuses leaves no trace in either.
MatchPlay(side, key) ==
    mode = "Online" /\ side \in Sides /\ Give(<<Told(side, key)>>)

\* What the host tells a practice game of an opponent: WasmGame's
\* receive_weapon, receive_op_score and add_funds.
HearOpponent == mode = "Practice" /\ Give(<<Told(0, "relay")>>)

\* Bout::debug_grant: a weapon, then funds, whichever of them land.
Grant(side, parts) ==
    /\ mode = "Online" /\ side \in Sides
    /\ Give([i \in DOMAIN parts |-> Told(side, parts[i])])

\* WasmGame::tick, WasmVsComputer::tick, Bout::tick.
Ticked ==
    /\ rec.tick < MaxTicks
    /\ live' = Append(live, Tock)
    /\ rec' = [rec EXCEPT !.tick = @ + 1]
    /\ UNCHANGED <<mode, playback>>

\* to_replay, at any moment of the game.
ToReplay(r) == [mode |-> mode, tickCount |-> r.tick, frames |-> r.frames]

-----------------------------------------------------------------------------
(* Playback.                                                               *)

\* ReplayPlayer::new, VersusReplayPlayer::new
NewPlayer(replay) == [game |-> <<>>, replay |-> replay, executed |-> 0, cursor |-> 1]

\* The frames a step applies: from the cursor on, as long as they carry the
\* tick that is about to run.
Due(p) ==
    LET frames == p.replay.frames
        stop == {i \in p.cursor .. Len(frames) : frames[i].tick # p.executed} IN
    SubSeq(frames, p.cursor, IF stop = {} THEN Len(frames) ELSE Min(stop) - 1)

\* ReplayPlayer::apply: a lone game hears its one player only.
Heard(p, frames) ==
    [i \in DOMAIN frames |-> IF p.replay.mode = "Online" THEN frames[i].told
                             ELSE Told(0, frames[i].told.input)]

\* step: the frames that are due, then the tick; nothing past the end.  A match's
\* player also drains both games' events, which no recorded match does: an event
\* left over changes the opponent's score mirrors only (see README).
Step(p) ==
    IF p.executed >= p.replay.tickCount THEN p
    ELSE [p EXCEPT !.game = (@ \o Heard(p, Due(p))) \o <<Tock>>,
                   !.executed = @ + 1, !.cursor = @ + Len(Due(p))]

Stepped(p, n) ==
    LET run[k \in 0 .. n] == IF k = 0 THEN p ELSE Step(run[k - 1]) IN run[n]

\* run_to_end
RunToEnd(p) == Stepped(p, p.replay.tickCount)

\* Mutant: a seek backward rewinds the clock and not the engine.
Rewound(p, to) == [p EXCEPT !.executed = to]
\* The player a seek starts from: a fresh one if it goes backward.
SeekFrom(p, to) == IF to < p.executed THEN NewPlayer(p.replay) ELSE p

\* seek
SeekTo(p, to) ==
    LET target == Min({to, p.replay.tickCount})
        from == SeekFrom(p, target) IN
    Stepped(from, target - from.executed)

\* The viewer's buttons and its seek bar, a little past the end too.
StepOnce == playback' = {Step(p) : p \in playback}
Finish == playback' = {RunToEnd(p) : p \in playback}
Seek(to) == playback' = {SeekTo(p, to) : p \in playback}
View ==
    /\ StepOnce \/ Finish \/ \E to \in 0 .. MaxTicks + 1 : Seek(to)
    /\ UNCHANGED <<mode, live, rec>>

\* The game's inputs and ticks, and the viewer.
Recording ==
    \/ \E key \in Keys : PracticePlay(key) \/ ComputerPlay(key)
    \/ \E side \in Sides, key \in Keys : MatchPlay(side, key)
    \/ HearOpponent
    \/ \E side \in Sides, parts \in {<<"grant">>, <<"funds">>, <<"grant", "funds">>} :
           Grant(side, parts)
    \/ Ticked

ReplayInit ==
    /\ mode \in Modes
    /\ live = <<>>
    /\ rec = [tick |-> 0, frames |-> <<>>]
    /\ playback = {}

-----------------------------------------------------------------------------
(* Properties.                                                             *)

Tocks(i) == {j \in 1 .. i : live[j] = Tock}

\* The game as it was right after its n-th tick.
Past(n) ==
    LET ends == {i \in DOMAIN live : live[i] = Tock /\ Cardinality(Tocks(i)) = n} IN
    IF n = 0 THEN <<>> ELSE SubSeq(live, 1, Min(ends))

\* However a viewer steps and seeks through a recording, from wherever it was
\* loaded and even if it was exported in mid-game, at each tick it shows the
\* game as it was played at that tick, input for input.
PlaybackAgrees == \A p \in playback : p.game = Past(p.executed)
=============================================================================
