------------------------------- MODULE Lobby -------------------------------
(***************************************************************************)
(* The shared App state of bt-server: connected clients and their          *)
(* presence, the waiting list, directed challenges and their timers, the   *)
(* registry of live bouts, ratings, and the quiesce-in-place deploy.       *)
(*                                                                         *)
(* Every action is one critical section of the App mutex, so the actions   *)
(* interleave where the code releases it: a matchmaking message is one     *)
(* section for the drain gate and another for the handler, a challenge     *)
(* timer and a bout's settle section run whenever they get the lock.       *)
(* A bout's loop (module RunBout) is reduced to what the lobby sees of it. *)
(***************************************************************************)
EXTENDS Naturals, Sequences, FiniteSets

CONSTANTS
    Conns,        \* connection ids, each used once (new_id)
    Present,      \* the connections already up when the behaviour starts
    Ident,        \* Ident[c]: the name c's signed token carries; NoName without one
    Bots,         \* the connections that announce themselves as bots
    MaxMatches,   \* bound: matches started
    MaxStamp,     \* bound: challenges issued
    MaxDrains,    \* bound: drains begun
    MaxEvents,    \* bound: challenges issued and drains begun, together
    ControlCap,   \* capacity of a bout's control channel
    NoPeer        \* no connection

Side == {"A", "B"}
Match == 1 .. MaxMatches
NoName == "unnamed"       \* the empty name of a client that has not given one
Names == {Ident[c] : c \in Conns} \cup {NoName, "anon"}
NoBout == [match |-> 0, side |-> "none"]

Stamp == 1 .. MaxStamp
Status == {"none", "available", "searching", "ingame"}

ASSUME LobbyAssumption ==
    /\ Present \subseteq Conns
    /\ DOMAIN Ident = Conns
    /\ Bots \subseteq Conns
    /\ NoPeer \notin Conns
    /\ MaxMatches \in Nat /\ MaxStamp \in Nat /\ MaxDrains \in Nat
    /\ MaxEvents \in Nat /\ ControlCap \in Nat

VARIABLES
    seen,         \* connection ids handed out
    clients,      \* App::clients, its keys
    name, status, prev, bout, peer,   \* the fields of each Client
    past,         \* past[c]: c's task is past the drain gate of a message
    waiting,      \* App::waiting
    challenges,   \* App::challenges: challenger -> [target, stamp]
    timers,       \* sleeping challenge timers
    stamps,       \* challenges issued so far (deadlines are distinct)
    bouts,        \* App::bouts, its keys
    rating,       \* rating[n]: the matches n's stored rating has absorbed
    settled,      \* App::settled
    draining,
    drains,       \* drains begun so far
    swap,         \* the deploy script: "idle", "polled" or "swapped"
    started,      \* matches started so far
    loop,         \* loop[m]: "idle", "running", "closing" or "done"
    sides,        \* sides[m][s]: id_a, id_b of m's loop
    names,        \* names[m][s]: the participants' names
    captured,     \* captured[m][s]: state_a, state_b taken by start_bout
    control,      \* control[m]: Reattach messages queued for m's loop
    rated         \* rated[m]: m's loop broke with a winner

clientVars == <<name, status, prev, bout, peer>>
challengeVars == <<challenges, timers, stamps>>
matchVars == <<started, loop, sides, names, captured, control, rated>>
deployVars == <<draining, drains, swap>>
vars == <<seen, clients, clientVars, past, waiting, challengeVars, bouts, rating,
          settled, deployVars, matchVars>>

Init ==
    /\ seen = Present /\ clients = Present
    /\ name = [c \in Conns |-> NoName]
    /\ status = [c \in Conns |-> "none"]
    /\ prev = [c \in Conns |-> "none"]
    /\ bout = [c \in Conns |-> NoBout]
    /\ peer = [c \in Conns |-> NoPeer]
    /\ past = [c \in Conns |-> FALSE]
    /\ waiting = {}
    /\ challenges = <<>>
    /\ timers = {}
    /\ stamps = 0
    /\ bouts = {}
    /\ rating = [n \in Names |-> {}]
    /\ settled = {}
    /\ draining = FALSE /\ drains = 0
    /\ swap = "idle"
    /\ started = 0
    /\ loop = [m \in Match |-> "idle"]
    /\ sides = [m \in Match |-> [s \in Side |-> NoPeer]]
    /\ names = [m \in Match |-> [s \in Side |-> NoName]]
    /\ captured = [m \in Match |-> [s \in Side |-> {}]]
    /\ control = [m \in Match |-> <<>>]
    /\ rated = [m \in Match |-> FALSE]

Up == swap # "swapped"
Free(c) == bout[c] = NoBout
Idle(c) == Up /\ c \in clients /\ ~past[c]

\* One more challenge or drain is within the bound on both.
MoreEvents == stamps + drains < MaxEvents

Without(f, S) == [x \in DOMAIN f \ S |-> f[x]]

-----------------------------------------------------------------------------
(* Starting a match.                                                       *)

\* The challenges start_bout keeps: those that involve neither player.
KeepUnlessIssuer(a, b) == {c \in DOMAIN challenges : c \notin {a, b}}
KeepUninvolved(a, b) ==
    {c \in DOMAIN challenges : {c, challenges[c].target} \cap {a, b} = {}}

\* start_bout refuses while the machine drains.
NeverPaused == FALSE
Paused == draining

\* start_bout(a, b), with the names and presences the caller has just set.
StartBout(a, b, nm, st) ==
    IF Paused
    THEN /\ name' = nm /\ status' = st
         /\ UNCHANGED <<prev, bout, peer, waiting, challengeVars, bouts, matchVars>>
    ELSE LET m == started + 1
             pair == [s \in Side |-> IF s = "A" THEN a ELSE b]
             keep == KeepUninvolved(a, b) IN
         /\ started < MaxMatches
         /\ started' = m
         /\ waiting' = waiting \ {a, b}
         /\ challenges' = [c \in keep |-> challenges[c]]
         /\ UNCHANGED <<timers, stamps>>
         /\ peer' = [peer EXCEPT ![a] = b, ![b] = a]
         /\ name' = nm
         /\ bout' = [bout EXCEPT ![a] = [match |-> m, side |-> "A"],
                                 ![b] = [match |-> m, side |-> "B"]]
         /\ prev' = [prev EXCEPT ![a] = st[a], ![b] = st[b]]
         /\ status' = [st EXCEPT ![a] = "ingame", ![b] = "ingame"]
         /\ bouts' = bouts \cup {m}
         /\ loop' = [loop EXCEPT ![m] = "running"]
         /\ sides' = [sides EXCEPT ![m] = pair]
         /\ names' = [names EXCEPT ![m] = [s \in Side |-> nm[pair[s]]]]
         /\ captured' = [captured EXCEPT ![m] = [s \in Side |-> rating[nm[pair[s]]]]]
         /\ UNCHANGED <<control, rated>>

\* is_match_candidate, the presences being those the caller has just set.
Candidate(c, d, st) ==
    /\ d \in clients \ {c}
    /\ {c, d} \cap Bots = {}
    /\ Free(d)
    /\ d \in waiting \/ st[d] \in {"available", "searching"}

\* try_match: pair c with an open opponent (the quality order is data), or
\* leave it waiting.
TryMatch(c, nm, st) ==
    \/ \E d \in Conns : Candidate(c, d, st) /\ StartBout(d, c, nm, st)
    \/ /\ \A d \in Conns : ~Candidate(c, d, st)
       /\ waiting' = waiting \cup {c}
       /\ name' = nm /\ status' = st
       /\ UNCHANGED <<prev, bout, peer, challengeVars, bouts, matchVars>>

-----------------------------------------------------------------------------
(* Messages.                                                               *)

Connect(c) ==
    /\ Up /\ c \notin seen
    /\ seen' = seen \cup {c}
    /\ clients' = clients \cup {c}
    /\ UNCHANGED <<clientVars, past, waiting, challengeVars, bouts, rating,
                   settled, deployVars, matchVars>>

\* reject_if_draining is a lock section of its own before queue, available
\* and challenge: a drain may begin between it and the handler's.  With no
\* drain to come, the two sections are as good as one (Handle).
PassGate(c) ==
    /\ Idle(c)
    /\ ~draining /\ drains < MaxDrains /\ MoreEvents
    /\ past' = [past EXCEPT ![c] = TRUE]
    /\ UNCHANGED <<seen, clients, clientVars, waiting, challengeVars, bouts,
                   rating, settled, deployVars, matchVars>>

\* The handler's section; with nothing in between, both happen at once.
Handle(c) ==
    /\ Up /\ c \in clients
    /\ past[c] \/ ~draining
    /\ past' = [past EXCEPT ![c] = FALSE]
    /\ UNCHANGED <<seen, clients, rating, settled, deployVars>>

Unchanged ==
    UNCHANGED <<clientVars, waiting, challengeVars, bouts, matchVars>>

\* "queue" (Find Match).
Queue(c) ==
    /\ Handle(c)
    /\ \/ ~Free(c) /\ Unchanged
       \/ /\ Free(c)
          /\ TryMatch(c, [name EXCEPT ![c] = IF Ident[c] = NoName THEN "anon" ELSE Ident[c]],
                      [status EXCEPT ![c] = "searching"])

\* "available": the open-to-matches switch.
Available(c, on) ==
    LET nm == [name EXCEPT ![c] = IF Ident[c] = NoName THEN @ ELSE Ident[c]] IN
    /\ Handle(c)
    /\ \/ ~Free(c) /\ Unchanged
       \/ /\ Free(c) /\ on /\ nm[c] # NoName
          /\ TryMatch(c, nm, [status EXCEPT ![c] = "available"])
       \/ /\ Free(c) /\ ~(on /\ nm[c] # NoName)
          /\ name' = nm
          /\ status' = [status EXCEPT ![c] = "none"]
          /\ waiting' = waiting \ {c}
          /\ UNCHANGED <<prev, bout, peer, challengeVars, bouts, matchVars>>

\* "challenge": aimed at an Available connection of the target's name; a new
\* challenge replaces the challenger's earlier one, whose timer sleeps on.
Challenge(c, target) ==
    LET nm == [name EXCEPT ![c] = IF Ident[c] = NoName THEN @ ELSE Ident[c]]
        found == {d \in clients : nm[d] = target /\ status[d] = "available"} IN
    /\ Handle(c)
    /\ name' = nm
    /\ \/ \E d \in found \ {c} :
             /\ stamps < MaxStamp /\ MoreEvents
             /\ stamps' = stamps + 1
             /\ challenges' = [x \in DOMAIN challenges \cup {c} |->
                                 IF x = c THEN [target |-> d, stamp |-> stamps + 1]
                                 ELSE challenges[x]]
             /\ timers' = timers \cup {[from |-> c, target |-> d, stamp |-> stamps + 1]}
       \/ /\ found = {} \/ c \in found
          /\ UNCHANGED <<challenges, timers, stamps>>
    /\ UNCHANGED <<status, prev, bout, peer, waiting, bouts, matchVars>>

\* A pending challenge aimed at c by a client named n.
AimedAt(c, n) ==
    {x \in DOMAIN challenges :
        challenges[x].target = c /\ x \in clients /\ name[x] = n}

\* "challengeAccept" of the challenge of a client named n.
AcceptorFree(x, c) == Free(c)
BothFree(x, c) == Free(x) /\ Free(c)
ChallengeAccept(c, n) ==
    /\ Idle(c)
    /\ \E x \in AimedAt(c, n) :
          /\ BothFree(x, c)
          /\ IF Paused
             THEN /\ challenges' = Without(challenges, {x})
                  /\ UNCHANGED <<clientVars, waiting, timers, stamps, bouts,
                                 matchVars>>
             ELSE StartBout(x, c, name, status)
    /\ UNCHANGED <<seen, clients, past, rating, settled, deployVars>>

\* "challengeDecline".
ChallengeDecline(c, n) ==
    /\ Idle(c)
    /\ \E x \in AimedAt(c, n) :
          /\ challenges' = Without(challenges, {x})
    /\ UNCHANGED <<seen, clients, clientVars, past, waiting, timers, stamps, bouts,
                   rating, settled, deployVars, matchVars>>

\* Thirty seconds on, the timer of a challenge: it clears the challenge only
\* if the entry still has its own target and deadline.
SameTarget(x) ==
    /\ x.from \in DOMAIN challenges
    /\ challenges[x.from].target = x.target
PendingAndOpen(x) ==
    /\ x.from \in DOMAIN challenges
    /\ challenges[x.from] = [target |-> x.target, stamp |-> x.stamp]
    /\ status[x.target] = "available"
StillPending(x) ==
    /\ x.from \in DOMAIN challenges
    /\ challenges[x.from] = [target |-> x.target, stamp |-> x.stamp]

ChallengeTimeout(x) ==
    /\ Up /\ x \in timers
    /\ timers' = timers \ {x}
    /\ IF StillPending(x)
       THEN challenges' = Without(challenges, {x.from})
       ELSE UNCHANGED challenges
    /\ UNCHANGED <<seen, clients, clientVars, past, waiting, stamps, bouts, rating,
                   settled, deployVars, matchVars>>

\* "rejoin" of match m: the handler takes it from any connection whose token
\* names one of the match's players.
SideOf(m, n) == IF names[m]["A"] = n THEN "A" ELSE "B"
ReattachCrossed(c, s) == [side |-> IF s = "A" THEN "B" ELSE "A", conn |-> c]
Reattach(c, s) == [side |-> s, conn |-> c]
Rejoin(c, m) ==
    LET n == Ident[c]
        s == SideOf(m, n) IN
    /\ Idle(c) /\ n # NoName
    /\ m \in bouts /\ n \in {names[m][t] : t \in Side}
    /\ Len(control[m]) < ControlCap
    /\ control' = [control EXCEPT ![m] = Append(@, Reattach(c, s))]
    /\ name' = [name EXCEPT ![c] = n]
    /\ prev' = [prev EXCEPT ![c] = status[c]]
    /\ status' = [status EXCEPT ![c] = "ingame"]
    /\ bout' = [bout EXCEPT ![c] = [match |-> m, side |-> s]]
    /\ UNCHANGED <<seen, clients, peer, past, waiting, challengeVars, bouts, rating,
                   settled, deployVars, started, loop, sides, names, captured,
                   rated>>

\* The web client sends a rejoin when a fresh socket opens (its URL carries
\* the match), before any message that names the client.
FirstMessage(c) == name[c] = NoName

\* handle_socket's cleanup.
LeftInQueue(c) == waiting
OutOfQueue(c) == waiting \ {c}
Disconnect(c) ==
    LET aimed == {x \in DOMAIN challenges : challenges[x].target = c}
        linked == peer[c] # NoPeer /\ Free(c) IN
    /\ Idle(c)
    /\ clients' = clients \ {c}
    /\ waiting' = OutOfQueue(c)
    /\ challenges' = Without(challenges, aimed \cup {c})
    /\ peer' = [x \in Conns |->
                  IF x = c \/ (linked /\ x = peer[c]) THEN NoPeer ELSE peer[x]]
    /\ name' = [name EXCEPT ![c] = NoName]
    /\ status' = [status EXCEPT ![c] = "none"]
    /\ prev' = [prev EXCEPT ![c] = "none"]
    /\ bout' = [bout EXCEPT ![c] = NoBout]
    /\ UNCHANGED <<seen, past, timers, stamps, bouts, rating, settled, deployVars, matchVars>>

-----------------------------------------------------------------------------
(* The bouts' loops, as the lobby sees them.                               *)

\* The loop takes a Reattach: id_a or id_b becomes the new connection.
LoopReattach(m) ==
    /\ Up /\ loop[m] = "running" /\ control[m] # <<>>
    /\ sides' = [sides EXCEPT ![m][Head(control[m]).side] = Head(control[m]).conn]
    /\ control' = [control EXCEPT ![m] = Tail(@)]
    /\ UNCHANGED <<seen, clients, clientVars, past, waiting, challengeVars, bouts,
                   rating, settled, deployVars, started, loop, names, captured,
                   rated>>

\* The loop breaks: a top-out, a leave, an expired grace or a bot's drop.
LoopEndsUnregistered(m, won) ==
    /\ Up /\ loop[m] = "running"
    /\ loop' = [loop EXCEPT ![m] = "closing"]
    /\ rated' = [rated EXCEPT ![m] = won]
    /\ bouts' = bouts \ {m}
    /\ UNCHANGED <<seen, clients, clientVars, past, waiting, challengeVars,
                   rating, settled, deployVars, started, sides, names,
                   captured, control>>
LoopEnds(m, won) ==
    /\ Up /\ loop[m] = "running"
    /\ loop' = [loop EXCEPT ![m] = "closing"]
    /\ rated' = [rated EXCEPT ![m] = won]
    /\ UNCHANGED <<seen, clients, clientVars, past, waiting, challengeVars, bouts,
                   rating, settled, deployVars, started, sides, names,
                   captured, control>>

PostBoutStatus(p) == IF p = "none" THEN "none" ELSE "available"

\* settle_bout, once per match: each name's rating becomes the one captured
\* at the start, updated with this match.
SettledRating(m) ==
    IF ~rated[m] \/ m \in settled THEN rating
    ELSE [n \in Names |->
            IF names[m]["B"] = n THEN captured[m]["B"] \cup {m}
            ELSE IF names[m]["A"] = n THEN captured[m]["A"] \cup {m}
            ELSE rating[n]]

\* The connections behind id_a and id_b that are still there.
OwnersLinked(m) == {c \in {sides[m][s] : s \in Side} \cap clients : peer[c] # NoPeer}
Owners(m) == {sides[m][s] : s \in Side} \cap clients

\* The section of run_bout after its loop.
Settle(m) ==
    LET owners == Owners(m) IN
    /\ Up /\ loop[m] = "closing"
    /\ loop' = [loop EXCEPT ![m] = "done"]
    /\ bouts' = bouts \ {m}
    /\ bout' = [c \in Conns |-> IF c \in owners THEN NoBout ELSE bout[c]]
    /\ peer' = [c \in Conns |-> IF c \in owners THEN NoPeer ELSE peer[c]]
    /\ status' = [c \in Conns |-> IF c \in owners /\ name[c] # NoName
                                  THEN PostBoutStatus(prev[c]) ELSE status[c]]
    /\ prev' = [c \in Conns |-> IF c \in owners THEN "none" ELSE prev[c]]
    /\ rating' = SettledRating(m)
    /\ settled' = IF ~rated[m] THEN settled ELSE settled \cup {m}
    /\ UNCHANGED <<seen, clients, name, past, waiting, challengeVars, deployVars,
                   started, sides, names, captured, control, rated>>

-----------------------------------------------------------------------------
(* The deploy: drain, poll the match list until it is empty, swap the      *)
(* machine; or resume when the script aborts.                              *)

lobbyVars == <<seen, clients, clientVars, past, waiting, challengeVars, bouts,
               rating, settled, matchVars>>

AdminDrain ==
    /\ Up /\ drains < MaxDrains /\ MoreEvents
    /\ draining' = TRUE /\ drains' = drains + 1
    /\ UNCHANGED <<lobbyVars, swap>>
AdminResume ==
    /\ Up /\ draining
    /\ draining' = FALSE /\ swap' = "idle"
    /\ UNCHANGED <<lobbyVars, drains>>
Poll ==
    /\ Up /\ draining /\ bouts = {}
    /\ swap' = "polled"
    /\ UNCHANGED <<lobbyVars, draining, drains>>
Swap ==
    /\ swap = "polled"
    /\ swap' = "swapped"
    /\ UNCHANGED <<lobbyVars, draining, drains>>

-----------------------------------------------------------------------------
Next ==
    \/ \E c \in Conns :
          \/ Connect(c) \/ Disconnect(c)
          \/ PassGate(c)
          \/ Queue(c)
          \/ \E on \in BOOLEAN : Available(c, on)
          \/ \E n \in Names : Challenge(c, n) \/ ChallengeAccept(c, n)
                                \/ ChallengeDecline(c, n)
          \/ FirstMessage(c) /\ \E m \in Match : Rejoin(c, m)
    \/ \E x \in timers : ChallengeTimeout(x)
    \/ \E m \in Match :
          \/ LoopReattach(m) \/ Settle(m)
          \/ \E won \in BOOLEAN : LoopEnds(m, won)
    \/ AdminDrain \/ AdminResume \/ Poll \/ Swap

Spec == Init /\ [][Next]_vars

-----------------------------------------------------------------------------
(* Properties.                                                             *)

TypeOK ==
    /\ clients \subseteq seen /\ seen \subseteq Conns
    /\ name \in [Conns -> Names]
    /\ status \in [Conns -> Status] /\ prev \in [Conns -> Status]
    /\ bout \in [Conns -> {NoBout} \cup [match : Match, side : Side]]
    /\ peer \in [Conns -> Conns \cup {NoPeer}]
    /\ past \in [Conns -> BOOLEAN]
    /\ waiting \subseteq clients
    /\ DOMAIN challenges \subseteq clients
    /\ \A c \in DOMAIN challenges : challenges[c] \in [target : Conns, stamp : Stamp]
    /\ timers \subseteq [from : Conns, target : Conns, stamp : Stamp]
    /\ stamps \in 0 .. MaxStamp
    /\ bouts \subseteq Match /\ settled \subseteq Match
    /\ rating \in [Names -> SUBSET Match]
    /\ draining \in BOOLEAN
    /\ swap \in {"idle", "polled", "swapped"}
    /\ started \in 0 .. MaxMatches
    /\ loop \in [Match -> {"idle", "running", "closing", "done"}]
    /\ sides \in [Match -> [Side -> Conns \cup {NoPeer}]]
    /\ names \in [Match -> [Side -> Names]]
    /\ captured \in [Match -> [Side -> SUBSET Match]]
    /\ control \in [Match -> Seq([side : Side, conn : Conns])]
    /\ rated \in [Match -> BOOLEAN]

Live(m) == loop[m] \in {"running", "closing"}

\* A connection in a match is never pulled into another one: not by the
\* matcher, nor by a challenge issued during a match and accepted later.
NoDoubleBooking ==
    [][\A c \in Conns : ~Free(c) /\ bout'[c] # NoBout => bout'[c] = bout[c]]_vars

\* The connection a live loop plays with for a side is bound to that match
\* and that side, across rejoins, so its inputs and its leave reach its game.
OwnersBound ==
    \A m \in Match, s \in Side :
        Live(m) /\ sides[m][s] \in clients =>
            bout[sides[m][s]] = [match |-> m, side |-> s]

\* start_bout drops the challenges of both players "so a stale accept must
\* not later kick off a second, unwanted bout": the target of a pending
\* challenge is connected and free.
ChallengesAreLive ==
    \A c \in DOMAIN challenges :
        challenges[c].target \in clients /\ Free(challenges[c].target)

\* "Compare the exact deadline so an earlier timer can't clear a re-issued
\* challenge": a timer that fires leaves a younger challenge alone.
OldTimerHarmless ==
    [][\A x \in timers \ timers' :
          x.from \in DOMAIN challenges /\ challenges[x.from].stamp # x.stamp
              => challenges' = challenges]_vars

\* The deploy swaps the machine only when every match that ever started has
\* been settled ("no live game is killed"), whatever was in flight when the
\* drain began.
NoGameKilled == swap = "swapped" => \A m \in Match : ~Live(m)

\* While draining nothing new starts.
DrainHolds == [][draining /\ draining' => started' = started]_vars

\* A client shows as in a game exactly while it is bound to a match, as the
\* player that side of it is named for.  The settle section frees whatever
\* connections the loop ended with: a client still bound after it is not one of
\* them, but one its player replaced, or one whose rejoin came too late for the
\* loop to take (both stay in their game until they disconnect, see README).
InGameIffBound ==
    \A c \in clients :
        /\ name[c] # NoName => (status[c] = "ingame" <=> ~Free(c))
        /\ ~Free(c) =>
              LET m == bout[c].match
                  s == bout[c].side IN
              /\ name[c] = names[m][s]
              /\ ~Live(m) => sides[m][s] # c

\* Every challenge is over after its thirty seconds at the latest: as long as
\* it is pending, the timer that will end it is running.
ChallengesExpire ==
    \A c \in DOMAIN challenges :
        \E x \in timers : x.from = c /\ x.stamp = challenges[c].stamp

-----------------------------------------------------------------------------
(* What comments of the code claim, and the code does not do (see README). *)

\* start_bout settles "against each name's CURRENT stored rating", so as not
\* to "overwrite their real one": a rating never loses a match it absorbed.
RatingKeepsMatches ==
    [][\A n \in Names : rating[n] \subseteq rating'[n]]_vars
=============================================================================
