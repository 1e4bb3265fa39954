---------------------------- MODULE LobbyProofs ----------------------------
(***************************************************************************)
(* Proofs about Lobby for every value of its constants: any number of      *)
(* connections, players, bots, matches, challenges and drains, and any     *)
(* capacity of a match's control channel.                                  *)
(***************************************************************************)
EXTENDS Lobby, SequenceTheorems, TLAPS

-----------------------------------------------------------------------------
(* The invariant.  The parts about clients are stated of the values a      *)
(* handler has set before it pairs anybody as well as of the state itself. *)

\* A client without a name is not open to matches and nobody's target; if its
\* token has a name, so that it might rejoin, it has done nothing at all yet.
Named(nm, st, bt, wt, ch) ==
    \A c \in Conns : nm[c] = NoName =>
        /\ st[c] # "available"
        /\ \A x \in DOMAIN ch : ch[x].target # c
        /\ Ident[c] # NoName =>
             bt[c] = NoBout /\ st[c] = "none" /\ c \notin wt /\ c \notin DOMAIN ch

\* Presence and binding agree.
Shown(nm, st, bt) ==
    \A c \in Conns :
        /\ bt[c] # NoBout => st[c] = "ingame"
        /\ st[c] = "ingame" /\ nm[c] # NoName => bt[c] # NoBout

\* Every pending challenge aims at another client, connected and free.
Aimed(cl, bt, ch) ==
    \A x \in DOMAIN ch :
        ch[x].target \in cl /\ ch[x].target # x /\ bt[ch[x].target] = NoBout

\* The timer of every pending challenge is asleep.
TimersRun ==
    \A c \in DOMAIN challenges :
        [from |-> c, target |-> challenges[c].target, stamp |-> challenges[c].stamp]
            \in timers

\* Nothing has happened to a match that has not started.
Fresh ==
    \A m \in Match : m > started =>
        control[m] = <<>> /\ m \notin bouts /\ loop[m] = "idle"

\* A reattach on its way to a live loop is of a connection bound to it.
Queued ==
    \A m \in Match : Live(m) =>
        \A i \in DOMAIN control[m] :
            control[m][i].conn \in clients =>
                bout[control[m][i].conn] = [match |-> m, side |-> control[m][i].side]

\* The loops know only connections there have been.
Known ==
    \A m \in Match :
        /\ \A s \in Side : sides[m][s] \in seen \cup {NoPeer}
        /\ \A i \in DOMAIN control[m] : control[m][i].conn \in seen

\* A live match is registered, and the script that saw no match saw none.
Registered == \A m \in Match : Live(m) => m \in bouts
Quiet == swap \in {"polled", "swapped"} => draining /\ bouts = {}

Tables ==
    /\ Named(name, status, bout, waiting, challenges)
    /\ Shown(name, status, bout)
    /\ Aimed(clients, bout, challenges)
    /\ TimersRun
    /\ Fresh /\ OwnersBound /\ Queued /\ Known
    /\ Registered /\ Quiet

IInv == TypeOK /\ Tables

-----------------------------------------------------------------------------
(* Types.                                                                  *)

\* The types of what start_bout and the handlers around it change.
PairTypes ==
    /\ name \in [Conns -> Names]
    /\ status \in [Conns -> Status] /\ prev \in [Conns -> Status]
    /\ bout \in [Conns -> {NoBout} \cup [match : Match, side : Side]]
    /\ peer \in [Conns -> Conns \cup {NoPeer}]
    /\ waiting \subseteq clients
    /\ DOMAIN challenges \subseteq clients
    /\ \A c \in DOMAIN challenges : challenges[c] \in [target : Conns, stamp : Stamp]
    /\ timers \subseteq [from : Conns, target : Conns, stamp : Stamp]
    /\ stamps \in 0 .. MaxStamp
    /\ bouts \subseteq Match
    /\ started \in 0 .. MaxMatches
    /\ loop \in [Match -> {"idle", "running", "closing", "done"}]
    /\ sides \in [Match -> [Side -> Conns \cup {NoPeer}]]
    /\ names \in [Match -> [Side -> Names]]
    /\ captured \in [Match -> [Side -> SUBSET Match]]
    /\ control \in [Match -> Seq([side : Side, conn : Conns])]
    /\ rated \in [Match -> BOOLEAN]

RestTypes ==
    /\ clients \subseteq seen /\ seen \subseteq Conns
    /\ past \in [Conns -> BOOLEAN]
    /\ settled \subseteq Match
    /\ rating \in [Names -> SUBSET Match]
    /\ draining \in BOOLEAN
    /\ swap \in {"idle", "polled", "swapped"}

\* TypeOK, split as the handlers change it: what a pairing touches and the rest.
LEMMA TypeParts == TypeOK <=> PairTypes /\ RestTypes
BY DEF TypeOK, PairTypes, RestTypes

\* The same split of the next state.
LEMMA TypePartsNext == TypeOK' <=> PairTypes' /\ RestTypes'
BY DEF TypeOK, PairTypes, RestTypes

\* A server that has just started is well typed.
LEMMA TypeInit == Init => TypeOK
<1> SUFFICES ASSUME Init PROVE TypeOK
  OBVIOUS
<1>1. Present \subseteq Conns /\ 0 \in 0 .. MaxStamp /\ 0 \in 0 .. MaxMatches
  BY LobbyAssumption
<1>2. DOMAIN challenges = {}
  <2>1. DOMAIN <<>> = 1 .. 0 /\ 1 .. 0 = {}
    BY EmptySeq, LenProperties
  <2> QED
    BY <2>1 DEF Init
<1>3. control \in [Match -> Seq([side : Side, conn : Conns])]
  <2>1. <<>> \in Seq([side : Side, conn : Conns])
    BY EmptySeq
  <2>2. control = [m \in Match |-> <<>>]
    BY DEF Init
  <2> QED
    BY <2>1, <2>2
<1>4. RestTypes
  BY <1>1 DEF Init, RestTypes
<1>5. PairTypes
  <2>1. /\ name \in [Conns -> Names]
        /\ status \in [Conns -> Status] /\ prev \in [Conns -> Status]
        /\ names \in [Match -> [Side -> Names]]
    BY DEF Init, Names, Status
  <2>2. /\ waiting \subseteq clients /\ bouts \subseteq Match
        /\ timers \subseteq [from : Conns, target : Conns, stamp : Stamp]
        /\ stamps \in 0 .. MaxStamp /\ started \in 0 .. MaxMatches
    BY <1>1 DEF Init
  <2>3. /\ bout \in [Conns -> {NoBout} \cup [match : Match, side : Side]]
        /\ peer \in [Conns -> Conns \cup {NoPeer}]
        /\ loop \in [Match -> {"idle", "running", "closing", "done"}]
        /\ sides \in [Match -> [Side -> Conns \cup {NoPeer}]]
        /\ captured \in [Match -> [Side -> SUBSET Match]]
        /\ rated \in [Match -> BOOLEAN]
    BY DEF Init
  <2> QED
    BY <1>2, <1>3, <2>1, <2>2, <2>3 DEF PairTypes
<1> QED
  BY <1>4, <1>5, TypeParts

\* A message leaves the caller with a name of the roster and a presence.
LEMMA ClaimTypes ==
    ASSUME TypeOK, NEW c \in Conns
    PROVE  /\ [name EXCEPT ![c] = IF Ident[c] = NoName THEN "anon" ELSE Ident[c]]
                  \in [Conns -> Names]
           /\ [name EXCEPT ![c] = IF Ident[c] = NoName THEN @ ELSE Ident[c]] \in [Conns -> Names]
           /\ \A p \in Status : [status EXCEPT ![c] = p] \in [Conns -> Status]
BY DEF TypeOK, Names

\* start_bout keeps the types, whoever it pairs.
LEMMA StartTypes ==
    ASSUME TypeOK, NEW a \in clients, NEW b \in clients,
           NEW nm \in [Conns -> Names], NEW st \in [Conns -> Status],
           StartBout(a, b, nm, st), UNCHANGED clients
    PROVE  PairTypes'
<1> USE DEF TypeOK, PairTypes, matchVars, challengeVars
<1>1. CASE Paused
  BY <1>1 DEF StartBout
<1>2. CASE ~Paused
  <2> DEFINE m == started + 1
             pair == [s \in Side |-> IF s = "A" THEN a ELSE b]
  <2>1. m \in Match /\ started' = m /\ m \in 0 .. MaxMatches
    BY <1>2, LobbyAssumption DEF StartBout, Match
  <2>2. pair \in [Side -> Conns] /\ a \in Conns /\ b \in Conns
    OBVIOUS
  <2>3. /\ [match |-> m, side |-> "A"] \in [match : Match, side : Side]
        /\ [match |-> m, side |-> "B"] \in [match : Match, side : Side]
    BY <2>1 DEF Side
  <2>4. /\ sides' = [sides EXCEPT ![m] = pair]
        /\ names' = [names EXCEPT ![m] = [s \in Side |-> nm[pair[s]]]]
        /\ captured' = [captured EXCEPT ![m] = [s \in Side |-> rating[nm[pair[s]]]]]
        /\ loop' = [loop EXCEPT ![m] = "running"]
        /\ bouts' = bouts \cup {m}
        /\ bout' = [bout EXCEPT ![a] = [match |-> m, side |-> "A"],
                                ![b] = [match |-> m, side |-> "B"]]
        /\ UNCHANGED <<control, rated, timers, stamps>>
    BY <1>2 DEF StartBout
  <2> HIDE DEF m, pair
  <2>5. /\ name' \in [Conns -> Names] /\ status' \in [Conns -> Status]
        /\ prev' \in [Conns -> Status] /\ peer' \in [Conns -> Conns \cup {NoPeer}]
        /\ waiting' \subseteq clients'
    <3>1. /\ name' = nm /\ waiting' = waiting \ {a, b}
          /\ status' = [st EXCEPT ![a] = "ingame", ![b] = "ingame"]
          /\ prev' = [prev EXCEPT ![a] = st[a], ![b] = st[b]]
          /\ peer' = [peer EXCEPT ![a] = b, ![b] = a]
      BY <1>2 DEF StartBout
    <3>2. "ingame" \in Status
      BY DEF Status
    <3> QED
      BY <2>2, <3>1, <3>2
  <2>6. /\ DOMAIN challenges' \subseteq clients'
        /\ \A c \in DOMAIN challenges' : challenges'[c] \in [target : Conns, stamp : Stamp]
    BY <1>2 DEF StartBout, KeepUninvolved
  <2>7. bout' \in [Conns -> {NoBout} \cup [match : Match, side : Side]]
    BY <2>2, <2>3, <2>4
  <2>8. /\ sides' \in [Match -> [Side -> Conns \cup {NoPeer}]]
        /\ names' \in [Match -> [Side -> Names]]
    <3>1. pair \in [Side -> Conns \cup {NoPeer}] /\ [s \in Side |-> nm[pair[s]]] \in [Side -> Names]
      BY <2>2
    <3> QED
      BY <2>1, <2>4, <3>1
  <2>9. captured' \in [Match -> [Side -> SUBSET Match]]
    <3>1. [s \in Side |-> rating[nm[pair[s]]]] \in [Side -> SUBSET Match]
      BY <2>2
    <3> QED
      BY <2>1, <2>4, <3>1
  <2>10. loop' \in [Match -> {"idle", "running", "closing", "done"}]
    BY <2>1, <2>4
  <2> QED
    BY <2>1, <2>4, <2>5, <2>6, <2>7, <2>8, <2>9, <2>10
<1> QED
  BY <1>1, <1>2

\* try_match pairs the caller or leaves it waiting.
LEMMA TryMatchTypes ==
    ASSUME TypeOK, NEW c \in clients,
           NEW nm \in [Conns -> Names], NEW st \in [Conns -> Status],
           TryMatch(c, nm, st), UNCHANGED clients
    PROVE  PairTypes'
<1>1. CASE \E d \in Conns : Candidate(c, d, st) /\ StartBout(d, c, nm, st)
  BY <1>1, StartTypes DEF Candidate
<1>2. CASE /\ waiting' = waiting \cup {c}
           /\ name' = nm /\ status' = st
           /\ UNCHANGED <<prev, bout, peer, challengeVars, bouts, matchVars>>
  BY <1>2 DEF TypeOK, PairTypes, challengeVars, matchVars
<1> QED
  BY <1>1, <1>2 DEF TryMatch

\* Taking challenges out leaves the others as they are.
LEMMA FewerChallenges ==
    ASSUME TypeOK, NEW S, challenges' = Without(challenges, S)
    PROVE  /\ DOMAIN challenges' = DOMAIN challenges \ S
           /\ \A x \in DOMAIN challenges' : challenges'[x] = challenges[x]
           /\ \A x \in DOMAIN challenges' :
                challenges'[x] \in [target : Conns, stamp : Stamp]
<1>1. challenges' = [x \in DOMAIN challenges \ S |-> challenges[x]]
  BY DEF Without
<1>2. \A x \in DOMAIN challenges : challenges[x] \in [target : Conns, stamp : Stamp]
  BY DEF TypeOK
<1> QED
  BY <1>1, <1>2

\* The messages that may start a match.
LEMMA PairingTypes ==
    ASSUME TypeOK, NEW c \in Conns,
           \/ Queue(c) \/ \E on \in BOOLEAN : Available(c, on)
           \/ \E n \in Names : ChallengeAccept(c, n)
    PROVE  PairTypes' /\ UNCHANGED <<seen, clients, rating, settled, deployVars>>
                      /\ past' \in [Conns -> BOOLEAN]
<1> USE DEF TypeOK, Handle, deployVars
<1>1. CASE Queue(c)
  <2>1. c \in clients /\ "searching" \in Status
    BY <1>1 DEF Queue, Status
  <2>2. CASE Unchanged
    BY <1>1, <2>2 DEF Queue, Unchanged, PairTypes, challengeVars, clientVars, matchVars
  <2> QED
    BY <1>1, <2>1, <2>2, ClaimTypes, TryMatchTypes DEF Queue
<1>2. ASSUME NEW on \in BOOLEAN, Available(c, on)
      PROVE  PairTypes' /\ UNCHANGED <<seen, clients, rating, settled, deployVars>>
                      /\ past' \in [Conns -> BOOLEAN]
  <2> DEFINE nm == [name EXCEPT ![c] = IF Ident[c] = NoName THEN @ ELSE Ident[c]]
  <2>1. c \in clients /\ "available" \in Status /\ "none" \in Status
    BY <1>2 DEF Available, Status
  <2>2. nm \in [Conns -> Names]
    BY ClaimTypes
  <2>3. /\ UNCHANGED <<seen, clients, rating, settled, deployVars>>
        /\ past' \in [Conns -> BOOLEAN]
    BY <1>2 DEF Available
  <2>4. CASE Unchanged
    BY <2>3, <2>4 DEF Unchanged, PairTypes, challengeVars, clientVars, matchVars
  <2>5. CASE TryMatch(c, nm, [status EXCEPT ![c] = "available"])
    BY <2>1, <2>2, <2>3, <2>5, ClaimTypes, TryMatchTypes
  <2>6. CASE /\ name' = nm
             /\ status' = [status EXCEPT ![c] = "none"]
             /\ waiting' = waiting \ {c}
             /\ UNCHANGED <<prev, bout, peer, challengeVars, bouts, matchVars>>
    BY <2>1, <2>2, <2>3, <2>6 DEF PairTypes, challengeVars, matchVars
  <2> QED
    BY <1>2, <2>3, <2>4, <2>5, <2>6 DEF Available
<1>3. ASSUME NEW n \in Names, ChallengeAccept(c, n)
      PROVE  PairTypes' /\ UNCHANGED <<seen, clients, rating, settled, deployVars>>
                      /\ past' \in [Conns -> BOOLEAN]
  <2>1. PICK x \in AimedAt(c, n) :
          IF Paused
          THEN /\ challenges' = Without(challenges, {x})
               /\ UNCHANGED <<clientVars, waiting, timers, stamps, bouts, matchVars>>
          ELSE StartBout(x, c, name, status)
    BY <1>3 DEF ChallengeAccept
  <2>2. c \in clients /\ x \in clients
    BY <1>3 DEF ChallengeAccept, Idle, AimedAt
  <2>3. UNCHANGED <<seen, clients, rating, settled, deployVars, past>>
    BY <1>3 DEF ChallengeAccept
  <2>4. CASE Paused
    <3>1. /\ UNCHANGED <<name, status, prev, bout, peer, waiting, timers, stamps, bouts>>
          /\ UNCHANGED <<started, loop, sides, names, captured, control, rated>>
          /\ challenges' = Without(challenges, {x})
      BY <2>1, <2>4 DEF clientVars, matchVars
    <3>2. UNCHANGED clients
      BY <2>3
    <3>3. /\ DOMAIN challenges' \subseteq DOMAIN challenges
          /\ \A y \in DOMAIN challenges' : challenges'[y] \in [target : Conns, stamp : Stamp]
      BY <3>1, FewerChallenges
    <3> QED
      BY <2>3, <3>1, <3>2, <3>3 DEF PairTypes
  <2>5. CASE ~Paused
    BY <2>1, <2>2, <2>3, <2>5, StartTypes
  <2> QED
    BY <2>3, <2>4, <2>5
<1> QED
  BY <1>1, <1>2, <1>3

\* Every step of the lobby keeps the types.
LEMMA TypeStep == TypeOK /\ [Next]_vars => TypeOK'
<1> SUFFICES ASSUME TypeOK, [Next]_vars PROVE TypeOK'
  OBVIOUS
<1> USE DEF TypeOK
<1>1. ASSUME NEW c \in Conns, Connect(c) PROVE TypeOK'
  BY <1>1 DEF Connect, clientVars, challengeVars, deployVars, matchVars
<1>2. ASSUME NEW c \in Conns, Disconnect(c) PROVE TypeOK'
  <2> DEFINE S == {x \in DOMAIN challenges : challenges[x].target = c} \cup {c}
  <2>1. challenges' = Without(challenges, S) /\ c \in S
    BY <1>2 DEF Disconnect
  <2> HIDE DEF S
  <2>2. /\ DOMAIN challenges' \subseteq clients' 
        /\ \A y \in DOMAIN challenges' : challenges'[y] \in [target : Conns, stamp : Stamp]
    <3>1. clients' = clients \ {c}
      BY <1>2 DEF Disconnect
    <3>2. /\ DOMAIN challenges' = DOMAIN challenges \ S
          /\ \A y \in DOMAIN challenges' : challenges'[y] \in [target : Conns, stamp : Stamp]
      BY <2>1, FewerChallenges
    <3> QED
      BY <2>1, <3>1, <3>2
  <2>3. NoName \in Names /\ "none" \in Status
    BY DEF Names, Status
  <2>4. /\ waiting' \subseteq clients' /\ clients' \subseteq seen'
        /\ peer' \in [Conns -> Conns \cup {NoPeer}]
    BY <1>2 DEF Disconnect, OutOfQueue
  <2>5. /\ name' \in [Conns -> Names] /\ status' \in [Conns -> Status]
        /\ prev' \in [Conns -> Status]
        /\ bout' \in [Conns -> {NoBout} \cup [match : Match, side : Side]]
    BY <1>2, <2>3 DEF Disconnect
  <2> QED
    BY <1>2, <2>2, <2>4, <2>5 DEF Disconnect, deployVars, matchVars
<1>3. ASSUME NEW c \in Conns, PassGate(c) PROVE TypeOK'
  BY <1>3 DEF PassGate, clientVars, challengeVars, deployVars, matchVars
<1>4. ASSUME NEW c \in Conns,
             \/ Queue(c) \/ \E on \in BOOLEAN : Available(c, on)
             \/ \E n \in Names : ChallengeAccept(c, n)
      PROVE  TypeOK'
  <2>1. RestTypes'
    BY <1>4, PairingTypes DEF RestTypes, deployVars
  <2> QED
    BY <1>4, <2>1, PairingTypes, TypePartsNext
<1>5. ASSUME NEW c \in Conns, NEW n \in Names, Challenge(c, n) PROVE TypeOK'
  <2> DEFINE nm == [name EXCEPT ![c] = IF Ident[c] = NoName THEN @ ELSE Ident[c]]
             found == {d \in clients : nm[d] = n /\ status[d] = "available"}
  <2>1. /\ name' = nm /\ c \in clients
        /\ past' = [past EXCEPT ![c] = FALSE]
        /\ UNCHANGED <<seen, clients, rating, settled, draining, drains, swap>>
        /\ UNCHANGED <<status, prev, bout, peer, waiting, bouts>>
        /\ UNCHANGED <<started, loop, sides, names, captured, control, rated>>
    BY <1>5 DEF Challenge, Handle, deployVars, matchVars
  <2>2. nm \in [Conns -> Names]
    BY ClaimTypes
  <2>3. CASE UNCHANGED <<challenges, timers, stamps>>
    BY <2>1, <2>2, <2>3
  <2>4. ASSUME NEW d \in found \ {c}, stamps < MaxStamp, stamps' = stamps + 1,
               challenges' = [x \in DOMAIN challenges \cup {c} |->
                                 IF x = c THEN [target |-> d, stamp |-> stamps + 1]
                                 ELSE challenges[x]],
               timers' = timers \cup {[from |-> c, target |-> d, stamp |-> stamps + 1]}
        PROVE  TypeOK'
    <3>1. stamps + 1 \in Stamp /\ stamps + 1 \in 0 .. MaxStamp /\ d \in Conns
      BY <2>4, LobbyAssumption DEF Stamp
    <3>2. /\ DOMAIN challenges' \subseteq clients'
          /\ \A y \in DOMAIN challenges' :
                challenges'[y] \in [target : Conns, stamp : Stamp]
      BY <2>1, <2>4, <3>1
    <3>3. timers' \subseteq [from : Conns, target : Conns, stamp : Stamp]
      BY <2>4, <3>1
    <3> QED
      BY <2>1, <2>2, <2>4, <3>1, <3>2, <3>3
  <2> QED
    BY <1>5, <2>3, <2>4 DEF Challenge
<1>6. ASSUME NEW c \in Conns, NEW n \in Names, ChallengeDecline(c, n) PROVE TypeOK'
  <2>1. PICK S : challenges' = Without(challenges, S)
    BY <1>6 DEF ChallengeDecline
  <2>2. /\ DOMAIN challenges' \subseteq clients
        /\ \A y \in DOMAIN challenges' : challenges'[y] \in [target : Conns, stamp : Stamp]
    BY <2>1, FewerChallenges
  <2> QED
    BY <1>6, <2>2 DEF ChallengeDecline, clientVars, deployVars, matchVars
<1>7. ASSUME NEW c \in Conns, NEW m \in Match, Rejoin(c, m) PROVE TypeOK'
  <2>1. SideOf(m, Ident[c]) \in Side /\ Ident[c] \in Names /\ "ingame" \in Status
    BY DEF SideOf, Side, Names, Status
  <2>2. control' \in [Match -> Seq([side : Side, conn : Conns])]
    <3> DEFINE Wire == [side : Side, conn : Conns]
               r == Reattach(c, SideOf(m, Ident[c]))
    <3>1. r \in Wire /\ control[m] \in Seq(Wire)
      BY <2>1 DEF Reattach
    <3>2. control' = [control EXCEPT ![m] = Append(@, r)] /\ control \in [Match -> Seq(Wire)]
      BY <1>7 DEF Rejoin
    <3> HIDE DEF Wire, r
    <3>3. Append(control[m], r) \in Seq(Wire)
      BY <3>1
    <3>4. control' \in [Match -> Seq(Wire)]
      BY <3>2, <3>3
    <3> QED
      BY <3>4 DEF Wire
  <2>3. /\ name' \in [Conns -> Names] /\ status' \in [Conns -> Status]
        /\ prev' \in [Conns -> Status]
        /\ bout' \in [Conns -> {NoBout} \cup [match : Match, side : Side]]
    BY <1>7, <2>1 DEF Rejoin
  <2> QED
    BY <1>7, <2>2, <2>3 DEF Rejoin, challengeVars, deployVars
<1>8. ASSUME NEW x \in timers, ChallengeTimeout(x) PROVE TypeOK'
  <2>1. /\ DOMAIN challenges' \subseteq clients
        /\ \A y \in DOMAIN challenges' : challenges'[y] \in [target : Conns, stamp : Stamp]
    <3>1. CASE UNCHANGED challenges
      BY <3>1
    <3>2. CASE challenges' = Without(challenges, {x.from})
      BY <3>2, FewerChallenges
    <3> QED
      BY <1>8, <3>1, <3>2 DEF ChallengeTimeout
  <2> QED
    BY <1>8, <2>1 DEF ChallengeTimeout, clientVars, deployVars, matchVars
<1>9. ASSUME NEW m \in Match, LoopReattach(m) PROVE TypeOK'
  <2>1. Head(control[m]) \in [side : Side, conn : Conns]
        /\ Tail(control[m]) \in Seq([side : Side, conn : Conns])
    <3> DEFINE Wire == [side : Side, conn : Conns]
    <3>1. control[m] \in Seq(Wire) /\ control[m] # <<>>
      BY <1>9 DEF LoopReattach
    <3> HIDE DEF Wire
    <3>2. Head(control[m]) \in Wire /\ Tail(control[m]) \in Seq(Wire)
      BY <3>1
    <3> QED
      BY <3>2 DEF Wire
  <2>2. control' \in [Match -> Seq([side : Side, conn : Conns])]
    BY <1>9, <2>1 DEF LoopReattach
  <2>3. sides' \in [Match -> [Side -> Conns \cup {NoPeer}]]
    BY <1>9, <2>1 DEF LoopReattach
  <2> QED
    BY <1>9, <2>2, <2>3 DEF LoopReattach, clientVars, challengeVars, deployVars
<1>10. ASSUME NEW m \in Match, NEW won \in BOOLEAN, LoopEnds(m, won) PROVE TypeOK'
  BY <1>10 DEF LoopEnds, clientVars, challengeVars, deployVars
<1>11. ASSUME NEW m \in Match, Settle(m) PROVE TypeOK'
  <2>1. rating' \in [Names -> SUBSET Match]
    <3>1. captured[m]["A"] \in SUBSET Match /\ captured[m]["B"] \in SUBSET Match
      BY DEF Side
    <3> QED
      BY <1>11, <3>1 DEF Settle, SettledRating
  <2>2. /\ bout' \in [Conns -> {NoBout} \cup [match : Match, side : Side]]
        /\ peer' \in [Conns -> Conns \cup {NoPeer}]
    BY <1>11 DEF Settle
  <2>3. status' \in [Conns -> Status] /\ prev' \in [Conns -> Status]
    BY <1>11 DEF Settle, PostBoutStatus, Status
  <2>4. /\ loop' \in [Match -> {"idle", "running", "closing", "done"}]
        /\ bouts' \subseteq Match /\ settled' \subseteq Match
    BY <1>11 DEF Settle
  <2> QED
    BY <1>11, <2>1, <2>2, <2>3, <2>4 DEF Settle, challengeVars, deployVars
<1>12. CASE AdminDrain \/ AdminResume \/ Poll \/ Swap
  BY <1>12 DEF AdminDrain, AdminResume, Poll, Swap, lobbyVars, clientVars, challengeVars,
     matchVars
<1>13. CASE UNCHANGED vars
  BY <1>13 DEF vars, clientVars, challengeVars, deployVars, matchVars
<1> QED
  BY <1>1, <1>2, <1>3, <1>4, <1>5, <1>6, <1>7, <1>8, <1>9, <1>10, <1>11, <1>12, <1>13
     DEF Next

\* No sequence of messages, timers, ends of matches and deploys leads the lobby
\* to a state its tables were not made for.
THEOREM TypeCorrect == Spec => []TypeOK
BY TypeInit, TypeStep, PTL DEF Spec

-----------------------------------------------------------------------------
(* Pairing: what a message that may start a match comes to.                *)

\* The two a handler may pair, with the names and presences it has set.
Pairs(a, b, nm, st) ==
    /\ a \in clients /\ b \in clients /\ a # b
    /\ bout[a] = NoBout /\ bout[b] = NoBout
    /\ nm \in [Conns -> Names] /\ st \in [Conns -> Status]
    /\ nm[a] = NoName => Ident[a] = NoName
    /\ nm[b] = NoName => Ident[b] = NoName
    /\ Named(nm, st, bout, waiting, challenges)
    /\ Shown(nm, st, bout)

\* Nobody is paired: the caller is renamed, waits or not, or takes back a challenge.
NobodyPaired ==
    /\ UNCHANGED <<bout, bouts, started, loop, sides, names, control, timers, stamps>>
    /\ DOMAIN challenges' \subseteq DOMAIN challenges
    /\ \A x \in DOMAIN challenges' : challenges'[x] = challenges[x]
    /\ Named(name', status', bout, waiting', challenges')
    /\ Shown(name', status', bout)

SomebodyPaired ==
    \E a \in Conns, b \in Conns, nm \in [Conns -> Names], st \in [Conns -> Status] :
        Pairs(a, b, nm, st) /\ ~draining /\ StartBout(a, b, nm, st)

\* A free caller that names itself keeps the tables in order.
LEMMA Claimed ==
    ASSUME IInv, NEW c \in clients, bout[c] = NoBout,
           NEW n \in Names, NEW p \in Status, p # "ingame",
           n = NoName => name[c] = NoName /\ Ident[c] = NoName /\ p = "none"
    PROVE  /\ Named([name EXCEPT ![c] = n], [status EXCEPT ![c] = p], bout, waiting, challenges)
           /\ Shown([name EXCEPT ![c] = n], [status EXCEPT ![c] = p], bout)
<1> DEFINE nm == [name EXCEPT ![c] = n]
           st == [status EXCEPT ![c] = p]
<1>1. c \in Conns /\ nm[c] = n /\ st[c] = p
  BY DEF IInv, Tables, TypeOK
<1>2. \A d \in Conns \ {c} : nm[d] = name[d] /\ st[d] = status[d]
  BY DEF IInv, Tables, TypeOK
<1> HIDE DEF nm, st
<1>3. Named(nm, st, bout, waiting, challenges)
  BY <1>1, <1>2 DEF IInv, Tables, Named
<1>4. Shown(nm, st, bout)
  BY <1>1, <1>2 DEF IInv, Tables, Shown
<1> QED
  BY <1>3, <1>4 DEF nm, st

\* try_match, for a caller that has named itself and is open.
LEMMA TryMatchPairs ==
    ASSUME IInv, NEW c \in clients, bout[c] = NoBout,
           NEW n \in Names, NEW p \in Status, p # "ingame", n # NoName,
           UNCHANGED clients,
           TryMatch(c, [name EXCEPT ![c] = n], [status EXCEPT ![c] = p])
    PROVE  NobodyPaired \/ SomebodyPaired
<1> DEFINE nm == [name EXCEPT ![c] = n]
           st == [status EXCEPT ![c] = p]
<1>1. /\ Named(nm, st, bout, waiting, challenges) /\ Shown(nm, st, bout)
      /\ nm \in [Conns -> Names] /\ st \in [Conns -> Status]
      /\ c \in Conns /\ nm[c] = n
  <2>1. nm \in [Conns -> Names] /\ st \in [Conns -> Status] /\ c \in Conns /\ nm[c] = n
    BY DEF IInv, Tables, TypeOK
  <2>2. Named(nm, st, bout, waiting, challenges) /\ Shown(nm, st, bout)
    BY Claimed
  <2> QED
    BY <2>1, <2>2
<1>t. TryMatch(c, nm, st)
  OBVIOUS
<1> HIDE DEF nm, st
<1>2. ASSUME NEW d \in Conns, Candidate(c, d, st), StartBout(d, c, nm, st)
      PROVE  NobodyPaired \/ SomebodyPaired
  <2>1. d \in clients /\ d # c /\ bout[d] = NoBout
    BY <1>2 DEF Candidate, Free
  <2>2. nm[d] = NoName => Ident[d] = NoName
    BY <1>1, <1>2 DEF Candidate, Named
  <2>3. Pairs(d, c, nm, st)
    BY <1>1, <2>1, <2>2 DEF Pairs
  <2>4. CASE draining
    BY <1>1, <1>2, <2>4 DEF StartBout, Paused, NobodyPaired, challengeVars, matchVars
  <2>5. CASE ~draining
    BY <1>1, <1>2, <2>3, <2>5 DEF SomebodyPaired
  <2> QED
    BY <2>4, <2>5
<1>3. CASE /\ waiting' = waiting \cup {c}
           /\ name' = nm /\ status' = st
           /\ UNCHANGED <<prev, bout, peer, challengeVars, bouts, matchVars>>
  <2>1. Named(nm, st, bout, waiting', challenges)
    BY <1>1, <1>3 DEF Named
  <2> QED
    BY <1>1, <1>3, <2>1 DEF NobodyPaired, challengeVars, matchVars
<1> QED
  BY <1>t, <1>2, <1>3 DEF TryMatch

\* What a message that may start a match comes to.
LEMMA PairingOutcome ==
    ASSUME IInv, NEW c \in Conns,
           \/ Queue(c) \/ \E on \in BOOLEAN : Available(c, on)
           \/ \E n \in Names : ChallengeAccept(c, n)
    PROVE  NobodyPaired \/ SomebodyPaired
<1>1. ASSUME Unchanged PROVE NobodyPaired
  BY <1>1 DEF Unchanged, NobodyPaired, IInv, Tables, clientVars, challengeVars, matchVars
<1>2. CASE Queue(c)
  <2> DEFINE n == IF Ident[c] = NoName THEN "anon" ELSE Ident[c]
  <2>1. n \in Names /\ n # NoName /\ c \in clients /\ UNCHANGED clients
    BY <1>2 DEF Queue, Handle, Names, NoName
  <2>2. "searching" \in Status /\ "searching" # "ingame"
    BY DEF Status
  <2>3. CASE Unchanged
    BY <1>1, <2>3
  <2>4. CASE /\ bout[c] = NoBout
             /\ TryMatch(c, [name EXCEPT ![c] = n], [status EXCEPT ![c] = "searching"])
    <3> HIDE DEF n
    <3> QED
      BY <2>1, <2>2, <2>4, TryMatchPairs
  <2> QED
    BY <1>2, <2>3, <2>4 DEF Queue, Free
<1>3. ASSUME NEW on \in BOOLEAN, Available(c, on) PROVE NobodyPaired \/ SomebodyPaired
  <2> DEFINE n == IF Ident[c] = NoName THEN name[c] ELSE Ident[c]
             nm == [name EXCEPT ![c] = n]
  <2>1. /\ n \in Names /\ c \in clients /\ UNCHANGED clients
        /\ nm[c] = n /\ (n = NoName => name[c] = NoName /\ Ident[c] = NoName)
    BY <1>3 DEF Available, Handle, Names, IInv, Tables, TypeOK
  <2>2. /\ "available" \in Status /\ "available" # "ingame"
        /\ "none" \in Status /\ "none" # "ingame"
    BY DEF Status
  <2>3. \/ Unchanged
        \/ Free(c) /\ on /\ nm[c] # NoName /\ TryMatch(c, nm, [status EXCEPT ![c] = "available"])
        \/ /\ Free(c)
           /\ name' = nm
           /\ status' = [status EXCEPT ![c] = "none"]
           /\ waiting' = waiting \ {c}
           /\ UNCHANGED <<prev, bout, peer, challengeVars, bouts, matchVars>>
    BY <1>3 DEF Available
  <2> HIDE DEF n
  <2>4. CASE Unchanged
    BY <1>1, <2>4
  <2>5. CASE /\ bout[c] = NoBout /\ n # NoName
             /\ TryMatch(c, nm, [status EXCEPT ![c] = "available"])
    BY <2>1, <2>2, <2>5, TryMatchPairs
  <2>6. CASE /\ bout[c] = NoBout
             /\ name' = nm
             /\ status' = [status EXCEPT ![c] = "none"]
             /\ waiting' = waiting \ {c}
             /\ UNCHANGED <<prev, bout, peer, challengeVars, bouts, matchVars>>
    <3>1. /\ Named(name', status', bout, waiting, challenges)
          /\ Shown(name', status', bout)
      BY <2>1, <2>2, <2>6, Claimed
    <3>2. Named(name', status', bout, waiting', challenges)
      BY <2>6, <3>1 DEF Named
    <3> QED
      BY <2>6, <3>1, <3>2 DEF NobodyPaired, challengeVars, matchVars
  <2> QED
    BY <2>1, <2>3, <2>4, <2>5, <2>6 DEF Free
<1>4. ASSUME NEW n \in Names, ChallengeAccept(c, n) PROVE NobodyPaired \/ SomebodyPaired
  <2>1. PICK x \in AimedAt(c, n) :
          /\ Free(x) /\ Free(c)
          /\ IF Paused
             THEN /\ challenges' = Without(challenges, {x})
                  /\ UNCHANGED <<clientVars, waiting, timers, stamps, bouts, matchVars>>
             ELSE StartBout(x, c, name, status)
    BY <1>4 DEF ChallengeAccept, BothFree
  <2>2. x \in DOMAIN challenges /\ challenges[x].target = c /\ x \in clients
    BY DEF AimedAt
  <2>3. CASE Paused
    <3>1. /\ DOMAIN challenges' \subseteq DOMAIN challenges
          /\ \A y \in DOMAIN challenges' : challenges'[y] = challenges[y]
      BY <2>1, <2>3, FewerChallenges DEF IInv, Tables
    <3>2. UNCHANGED <<name, status, bout, waiting, timers, stamps, bouts, started, loop,
                      sides, names, control>>
      BY <2>1, <2>3 DEF clientVars, matchVars
    <3>3. Named(name, status, bout, waiting, challenges')
      BY <3>1 DEF IInv, Tables, Named
    <3> QED
      BY <3>1, <3>2, <3>3 DEF NobodyPaired, IInv, Tables
  <2>4. CASE ~Paused
    <3>1. x \in Conns /\ x # c /\ c \in clients
      BY <1>4, <2>2 DEF ChallengeAccept, Idle, IInv, Tables, TypeOK, Aimed
    <3>2. /\ name[x] = NoName => Ident[x] = NoName
          /\ name[c] = NoName => Ident[c] = NoName
      BY <2>2, <3>1 DEF IInv, Tables, Named
    <3>3. Pairs(x, c, name, status)
      BY <2>1, <2>2, <3>1, <3>2 DEF Pairs, Free, IInv, Tables, TypeOK
    <3>4. ~draining /\ StartBout(x, c, name, status)
      BY <2>1, <2>4 DEF Paused
    <3> QED
      BY <3>1, <3>3, <3>4 DEF SomebodyPaired, Pairs
  <2> QED
    BY <2>3, <2>4
<1> QED
  BY <1>2, <1>3, <1>4

-----------------------------------------------------------------------------
(* The invariant is inductive: one lemma for each kind of step.            *)

\* A binding to a match is a binding.
LEMMA BindingIsOne ==
    \A k \in Match, s \in Side : [match |-> k, side |-> s] # NoBout
BY DEF NoBout, Side

\* What a control channel holds.
LEMMA ControlHolds ==
    ASSUME TypeOK, NEW k \in Match, NEW i \in DOMAIN control[k]
    PROVE  control[k][i].side \in Side /\ control[k][i].conn \in Conns
<1> DEFINE Wire == [side : Side, conn : Conns]
<1>1. control[k] \in Seq(Wire)
  BY DEF TypeOK
<1> HIDE DEF Wire
<1>2. control[k][i] \in Wire
  BY <1>1, ElementOfSeq, LenProperties
<1> QED
  BY <1>2 DEF Wire

\* The tables of a server that has just started are in order.
LEMMA TablesInit == Init => IInv
<1> SUFFICES ASSUME Init PROVE Tables
  BY TypeInit DEF IInv
<1>1. DOMAIN challenges = {}
  <2>1. DOMAIN <<>> = 1 .. 0 /\ 1 .. 0 = {}
    BY EmptySeq, LenProperties
  <2> QED
    BY <2>1 DEF Init
<1>2. \A m \in Match : control[m] = <<>> /\ DOMAIN control[m] = {}
  <2>1. DOMAIN <<>> = 1 .. 0 /\ 1 .. 0 = {}
    BY EmptySeq, LenProperties
  <2> QED
    BY <2>1 DEF Init
<1>3. \A m \in Match : loop[m] = "idle" /\ ~Live(m) /\ \A s \in Side : sides[m][s] = NoPeer
  BY DEF Init, Live
<1>4. Named(name, status, bout, waiting, challenges) /\ Shown(name, status, bout)
  BY <1>1 DEF Init, Named, Shown
<1>5. Aimed(clients, bout, challenges) /\ TimersRun
  BY <1>1 DEF Aimed, TimersRun
<1>6. Fresh /\ Quiet
  BY <1>2, <1>3 DEF Fresh, Quiet, Init
<1>7. OwnersBound /\ Queued /\ Known /\ Registered
  BY <1>2, <1>3 DEF OwnersBound, Queued, Known, Registered
<1> QED
  BY <1>4, <1>5, <1>6, <1>7 DEF Tables

\* A pairing that comes to nothing.
LEMMA NobodyStep ==
    ASSUME IInv, NobodyPaired, UNCHANGED <<seen, clients, deployVars>>
    PROVE  Tables'
<1>1. Named(name, status, bout, waiting, challenges)' /\ Shown(name, status, bout)'
  BY DEF NobodyPaired
<1>2. Aimed(clients, bout, challenges)' /\ TimersRun'
  BY DEF NobodyPaired, IInv, Tables, Aimed, TimersRun
<1>3. Fresh' /\ Quiet' /\ OwnersBound' /\ Queued' /\ Known' /\ Registered'
  BY DEF NobodyPaired, IInv, Tables, Fresh, Quiet, OwnersBound, Queued, Known, Registered, Live,
     deployVars
<1> QED
  BY <1>1, <1>2, <1>3 DEF Tables

\* start_bout: both players were free, so no live loop knew them.
LEMMA SomebodyStep ==
    ASSUME IInv, SomebodyPaired, UNCHANGED <<seen, clients, deployVars>>
    PROVE  /\ Tables'
           /\ ~draining
           /\ \A c \in Conns : bout[c] # NoBout => bout'[c] = bout[c]
           /\ UNCHANGED timers
<1>1. PICK a \in Conns, b \in Conns, nm \in [Conns -> Names], st \in [Conns -> Status] :
        Pairs(a, b, nm, st) /\ ~draining /\ StartBout(a, b, nm, st)
  BY DEF SomebodyPaired
<1> DEFINE m == started + 1
           pair == [s \in Side |-> IF s = "A" THEN a ELSE b]
<1>2. /\ a \in clients /\ b \in clients /\ a # b
      /\ bout[a] = NoBout /\ bout[b] = NoBout
      /\ nm[a] = NoName => Ident[a] = NoName
      /\ nm[b] = NoName => Ident[b] = NoName
      /\ Named(nm, st, bout, waiting, challenges)
      /\ Shown(nm, st, bout)
  BY <1>1 DEF Pairs
<1>3. /\ name' = nm /\ status' = [st EXCEPT ![a] = "ingame", ![b] = "ingame"]
      /\ bout' = [bout EXCEPT ![a] = [match |-> m, side |-> "A"],
                              ![b] = [match |-> m, side |-> "B"]]
      /\ waiting' = waiting \ {a, b}
      /\ challenges' = [c \in KeepUninvolved(a, b) |-> challenges[c]]
      /\ UNCHANGED <<timers, stamps, control>>
  BY <1>1 DEF StartBout, Paused
<1>4. /\ started < MaxMatches /\ started' = m
      /\ bouts' = bouts \cup {m}
      /\ loop' = [loop EXCEPT ![m] = "running"]
      /\ sides' = [sides EXCEPT ![m] = pair]
  BY <1>1 DEF StartBout, Paused
<1>5. m \in Match /\ m > started /\ started \in Nat
  BY <1>4, LobbyAssumption DEF IInv, TypeOK, Match
<1>6. /\ control[m] = <<>> /\ m \notin bouts /\ loop[m] = "idle"
      /\ DOMAIN control[m] = {}
  <2>1. control[m] = <<>> /\ m \notin bouts /\ loop[m] = "idle"
    BY <1>5 DEF IInv, Tables, Fresh
  <2>2. DOMAIN <<>> = 1 .. 0 /\ 1 .. 0 = {}
    BY EmptySeq, LenProperties
  <2> QED
    BY <2>1, <2>2
<1>7. /\ bout'[a] = [match |-> m, side |-> "A"] /\ bout'[b] = [match |-> m, side |-> "B"]
      /\ \A c \in Conns \ {a, b} : bout'[c] = bout[c]
      /\ status'[a] = "ingame" /\ status'[b] = "ingame"
      /\ \A c \in Conns \ {a, b} : status'[c] = st[c]
      /\ bout'[a] # NoBout /\ bout'[b] # NoBout
  BY <1>2, <1>3 DEF IInv, TypeOK, NoBout
<1>8. /\ DOMAIN challenges' \subseteq DOMAIN challenges \ {a, b}
      /\ \A x \in DOMAIN challenges' :
            challenges'[x] = challenges[x] /\ challenges[x].target \notin {a, b}
  BY <1>3 DEF KeepUninvolved
<1>9. /\ sides'[m]["A"] = a /\ sides'[m]["B"] = b /\ loop'[m] = "running"
      /\ \A k \in Match \ {m} : sides'[k] = sides[k] /\ loop'[k] = loop[k]
  BY <1>4, <1>5 DEF IInv, TypeOK, Side
<1> HIDE DEF m, pair
<1>10. Named(name, status, bout, waiting, challenges)'
  <2> SUFFICES ASSUME NEW c \in Conns, name'[c] = NoName
               PROVE  /\ status'[c] # "available"
                      /\ \A x \in DOMAIN challenges' : challenges'[x].target # c
                      /\ Ident[c] # NoName =>
                           /\ bout'[c] = NoBout /\ status'[c] = "none"
                           /\ c \notin waiting' /\ c \notin DOMAIN challenges'
    BY DEF Named
  <2>1. /\ st[c] # "available"
        /\ \A x \in DOMAIN challenges : challenges[x].target # c
        /\ Ident[c] # NoName =>
             bout[c] = NoBout /\ st[c] = "none" /\ c \notin waiting /\ c \notin DOMAIN challenges
    BY <1>2, <1>3 DEF Named
  <2>2. Ident[c] # NoName => c \notin {a, b}
    BY <1>2, <1>3
  <2>3. status'[c] # "available"
    BY <1>7, <2>1
  <2>4. \A x \in DOMAIN challenges' : challenges'[x].target # c
    BY <1>8, <2>1
  <2> QED
    BY <1>3, <1>7, <1>8, <2>1, <2>2, <2>3, <2>4
<1>11. Shown(name, status, bout)'
  BY <1>2, <1>3, <1>7, ZenonT(60) DEF Shown
<1>12. Aimed(clients, bout, challenges)'
  BY <1>7, <1>8 DEF IInv, TypeOK, Tables, Aimed
<1>13. TimersRun'
  BY <1>3, <1>8 DEF IInv, Tables, TimersRun
<1>14. Fresh'
  BY <1>3, <1>4, <1>5, <1>9 DEF IInv, Tables, TypeOK, Fresh, Match, m
<1>15. \A k \in Match : Live(k)' => k = m \/ Live(k)
  BY <1>9 DEF Live
<1>16. OwnersBound'
  <2> SUFFICES ASSUME NEW k \in Match, NEW s \in Side, Live(k)', sides'[k][s] \in clients
               PROVE  bout'[sides'[k][s]] = [match |-> k, side |-> s]
    BY DEF OwnersBound
  <2>1. CASE k = m
    BY <1>7, <1>9, <2>1 DEF Side
  <2>2. CASE k # m
    <3>1. bout[sides[k][s]] = [match |-> k, side |-> s] /\ sides'[k] = sides[k]
      BY <1>9, <1>15, <2>2 DEF IInv, Tables, OwnersBound
    <3>2. sides[k][s] \in Conns /\ sides[k][s] \notin {a, b}
      BY <1>2, <3>1, BindingIsOne, ZenonT(60) DEF IInv, TypeOK
    <3> QED
      BY <1>7, <3>1, <3>2
  <2> QED
    BY <2>1, <2>2
<1>17. Queued'
  <2> SUFFICES ASSUME NEW k \in Match, Live(k)',
                      NEW i \in DOMAIN control[k], control[k][i].conn \in clients
               PROVE  bout'[control[k][i].conn] = [match |-> k, side |-> control[k][i].side]
    <3>1. control' = control /\ clients' = clients
      BY <1>3
    <3> QED
      BY <3>1 DEF Queued
  <2>1. k # m /\ Live(k)
    BY <1>6, <1>15
  <2>2. bout[control[k][i].conn] = [match |-> k, side |-> control[k][i].side]
    BY <2>1 DEF IInv, Tables, Queued
  <2>3. control[k][i].side \in Side /\ control[k][i].conn \in Conns
    BY ControlHolds DEF IInv
  <2>4. control[k][i].conn \in Conns \ {a, b}
    BY <1>2, <2>2, <2>3, BindingIsOne
  <2> QED
    BY <1>7, <2>2, <2>4
<1>18. Known'
  <2>1. a \in seen /\ b \in seen
    BY <1>2 DEF IInv, TypeOK
  <2> QED
    BY <1>3, <1>9, <2>1 DEF IInv, Tables, Known, Side
<1>19. Registered' /\ Quiet'
  BY <1>1, <1>4, <1>15 DEF IInv, Tables, Registered, Quiet, deployVars
<1> QED
  BY <1>1, <1>2, <1>3, <1>7, <1>10, <1>11, <1>12, <1>13, <1>14, <1>16, <1>17, <1>18, <1>19
     DEF Tables

\* A pending challenge aims at a connection.
LEMMA ChallengeHolds ==
    ASSUME TypeOK, NEW x \in DOMAIN challenges
    PROVE  /\ x \in Conns /\ challenges[x].target \in Conns
           /\ challenges[x] = [target |-> challenges[x].target, stamp |-> challenges[x].stamp]
BY DEF TypeOK

\* What is left of the challenges is as sound as the whole.
LEMMA FewerTables ==
    ASSUME IInv, DOMAIN challenges' \subseteq DOMAIN challenges,
           \A x \in DOMAIN challenges' : challenges'[x] = challenges[x]
    PROVE  /\ Named(name, status, bout, waiting, challenges')
           /\ Aimed(clients, bout, challenges')
<1>1. Named(name, status, bout, waiting, challenges')
  BY DEF IInv, Tables, Named
<1>2. Aimed(clients, bout, challenges')
  BY DEF IInv, Tables, Aimed
<1> QED
  BY <1>1, <1>2

\* A new connection has an id no loop and no message knows.
LEMMA ConnectStep ==
    ASSUME IInv, NEW c \in Conns, Connect(c)
    PROVE  Tables'
<1>1. /\ c \notin seen /\ seen' = seen \cup {c} /\ clients' = clients \cup {c}
      /\ UNCHANGED <<name, status, bout, waiting, challenges, timers, bouts, draining, swap>>
      /\ UNCHANGED <<started, loop, sides, control>>
  BY DEF Connect, clientVars, challengeVars, deployVars, matchVars
<1>2. /\ Named(name, status, bout, waiting, challenges)' /\ Shown(name, status, bout)'
      /\ Aimed(clients, bout, challenges)' /\ TimersRun' /\ Fresh' /\ Registered' /\ Quiet'
  BY <1>1, ZenonT(60) DEF IInv, Tables, Named, Shown, Aimed, TimersRun, Fresh, Registered, Quiet, Live
<1>3. c # NoPeer
  BY LobbyAssumption
<1>4. OwnersBound'
  BY <1>1, <1>3 DEF IInv, Tables, OwnersBound, Known, Live
<1>5. Queued'
  BY <1>1 DEF IInv, Tables, Queued, Known, Live
<1>6. Known'
  BY <1>1 DEF IInv, Tables, Known
<1> QED
  BY <1>2, <1>4, <1>5, <1>6 DEF Tables

\* A connection that closes leaves nothing of itself in the tables.
LEMMA DisconnectStep ==
    ASSUME IInv, NEW c \in Conns, Disconnect(c)
    PROVE  /\ Tables'
           /\ \A d \in Conns : bout'[d] = bout[d] \/ bout'[d] = NoBout
<1> DEFINE S == {x \in DOMAIN challenges : challenges[x].target = c} \cup {c}
<1>1. /\ clients' = clients \ {c} /\ waiting' = waiting \ {c}
      /\ challenges' = Without(challenges, S)
      /\ name' = [name EXCEPT ![c] = NoName] /\ status' = [status EXCEPT ![c] = "none"]
      /\ bout' = [bout EXCEPT ![c] = NoBout]
      /\ UNCHANGED <<seen, timers, bouts, draining, swap, started, loop, sides, control>>
  BY DEF Disconnect, OutOfQueue, deployVars, matchVars
<1>2. /\ name'[c] = NoName /\ status'[c] = "none" /\ bout'[c] = NoBout
      /\ \A d \in Conns \ {c} : /\ name'[d] = name[d] /\ status'[d] = status[d]
                                 /\ bout'[d] = bout[d]
  BY <1>1 DEF IInv, TypeOK
<1>3. /\ DOMAIN challenges' \subseteq DOMAIN challenges \ {c}
      /\ \A x \in DOMAIN challenges' :
            challenges'[x] = challenges[x] /\ challenges[x].target # c
  <2>1. /\ DOMAIN challenges' = DOMAIN challenges \ S
        /\ \A x \in DOMAIN challenges' : challenges'[x] = challenges[x]
    BY <1>1, FewerChallenges DEF IInv
  <2> QED
    BY <2>1
<1> HIDE DEF S
<1>4. Named(name, status, bout, waiting, challenges)'
  <2>1. Named(name, status, bout, waiting, challenges')
    BY <1>3, FewerTables
  <2> SUFFICES ASSUME NEW d \in Conns, name'[d] = NoName
               PROVE  /\ status'[d] # "available"
                      /\ \A x \in DOMAIN challenges' : challenges'[x].target # d
                      /\ Ident[d] # NoName =>
                           /\ bout'[d] = NoBout /\ status'[d] = "none"
                           /\ d \notin waiting' /\ d \notin DOMAIN challenges'
    BY DEF Named
  <2>2. CASE d = c
    BY <1>1, <1>2, <1>3, <2>2
  <2>3. CASE d # c
    <3>1. name[d] = NoName /\ status'[d] = status[d] /\ bout'[d] = bout[d]
      BY <1>2, <2>3
    <3>2. /\ status[d] # "available"
          /\ \A x \in DOMAIN challenges' : challenges'[x].target # d
          /\ Ident[d] # NoName => /\ bout[d] = NoBout /\ status[d] = "none"
                             /\ d \notin waiting /\ d \notin DOMAIN challenges'
      BY <2>1, <3>1 DEF Named
    <3>3. d \notin waiting => d \notin waiting'
      BY <1>1
    <3> QED
      BY <3>1, <3>2, <3>3
  <2> QED
    BY <2>2, <2>3
<1>9. Shown(name, status, bout)'
  BY <1>2 DEF IInv, Tables, Shown
<1>5. Aimed(clients, bout, challenges)'
  <2>1. Aimed(clients, bout, challenges')
    BY <1>3, FewerTables
  <2>2. \A x \in DOMAIN challenges' :
            challenges'[x].target # c /\ challenges'[x].target \in Conns
    BY <1>3, ChallengeHolds DEF IInv
  <2> QED
    BY <1>1, <1>2, <2>1, <2>2 DEF Aimed
<1>6. TimersRun'
  BY <1>1, <1>3 DEF IInv, Tables, TimersRun
<1>7. Fresh' /\ Known' /\ Registered' /\ Quiet'
  BY <1>1 DEF IInv, Tables, Fresh, Known, Registered, Quiet, Live
<1>8. clients' \subseteq Conns \ {c} /\ clients' \subseteq clients
  BY <1>1 DEF IInv, TypeOK
<1>10. OwnersBound'
  BY <1>1, <1>2, <1>8 DEF IInv, Tables, OwnersBound, Live
<1>11. Queued'
  <2> SUFFICES ASSUME NEW m \in Match, Live(m),
                      NEW i \in DOMAIN control[m], control[m][i].conn \in clients'
               PROVE  bout'[control[m][i].conn] = [match |-> m, side |-> control[m][i].side]
    <3>1. control' = control /\ loop' = loop
      BY <1>1
    <3> QED
      BY <3>1 DEF Queued, Live
  <2>1. control[m][i].conn \in Conns \ {c} /\ control[m][i].conn \in clients
    BY <1>8
  <2>2. bout[control[m][i].conn] = [match |-> m, side |-> control[m][i].side]
    BY <2>1 DEF IInv, Tables, Queued
  <2> QED
    BY <1>2, <2>1, <2>2
<1> QED
  BY <1>2, <1>4, <1>5, <1>6, <1>7, <1>9, <1>10, <1>11 DEF Tables

\* A challenge aims at a client that shows itself open, so it is free.
LEMMA ChallengeStep ==
    ASSUME IInv, NEW c \in Conns, NEW n \in Names, Challenge(c, n)
    PROVE  Tables' /\ timers \subseteq timers' /\ UNCHANGED <<bout, started>>
<1> DEFINE nm == [name EXCEPT ![c] = IF Ident[c] = NoName THEN @ ELSE Ident[c]]
           found == {d \in clients : nm[d] = n /\ status[d] = "available"}
<1>1. /\ name' = nm /\ c \in clients
      /\ UNCHANGED <<seen, clients, status, bout, waiting, bouts, draining, swap>>
      /\ UNCHANGED <<started, loop, sides, control>>
  BY DEF Challenge, Handle, deployVars, matchVars
<1>2. /\ nm[c] = NoName => name[c] = NoName /\ Ident[c] = NoName
      /\ \A d \in Conns \ {c} : nm[d] = name[d]
  BY DEF IInv, TypeOK
<1>3. Shown(name, status, bout)'
  <2> SUFFICES ASSUME NEW d \in Conns
               PROVE  /\ bout[d] # NoBout => status[d] = "ingame"
                      /\ status[d] = "ingame" /\ nm[d] # NoName => bout[d] # NoBout
    BY <1>1 DEF Shown
  <2>1. /\ bout[d] # NoBout => status[d] = "ingame"
        /\ status[d] = "ingame" /\ name[d] # NoName => bout[d] # NoBout
        /\ name[d] = NoName /\ Ident[d] # NoName => status[d] = "none"
    BY DEF IInv, Tables, Shown, Named
  <2> HIDE DEF nm
  <2>2. CASE d = c
    <3>1. nm[c] # NoName => name[c] # NoName \/ Ident[c] # NoName
      BY DEF nm, IInv, TypeOK
    <3> QED
      BY <2>1, <2>2, <3>1
  <2>3. CASE d # c
    BY <1>2, <2>1, <2>3
  <2> QED
    BY <2>2, <2>3
<1>4. Fresh' /\ Known' /\ Registered' /\ Quiet' /\ OwnersBound' /\ Queued'
  BY <1>1 DEF IInv, Tables, Fresh, Known, Registered, Quiet, OwnersBound, Queued, Live
<1>5. CASE UNCHANGED <<challenges, timers, stamps>>
  <2>1. Named(name, status, bout, waiting, challenges)'
    BY <1>1, <1>2, <1>5 DEF IInv, Tables, Named
  <2>2. Aimed(clients, bout, challenges)' /\ TimersRun'
    BY <1>1, <1>5 DEF IInv, Tables, Aimed, TimersRun
  <2> QED
    BY <1>1, <1>3, <1>4, <1>5, <2>1, <2>2 DEF Tables
<1>6. ASSUME NEW d \in found \ {c},
             challenges' = [x \in DOMAIN challenges \cup {c} |->
                                 IF x = c THEN [target |-> d, stamp |-> stamps + 1]
                                 ELSE challenges[x]],
             timers' = timers \cup {[from |-> c, target |-> d, stamp |-> stamps + 1]}
      PROVE  Tables' /\ timers \subseteq timers' /\ UNCHANGED <<bout, started>>
  <2>1. d \in clients /\ d \in Conns /\ d # c /\ status[d] = "available"
    BY <1>6 DEF IInv, TypeOK
  <2>2. name[d] # NoName /\ bout[d] = NoBout
    BY <2>1 DEF IInv, Tables, Named, Shown
  <2>3. /\ DOMAIN challenges' = DOMAIN challenges \cup {c}
        /\ challenges'[c] = [target |-> d, stamp |-> stamps + 1]
        /\ \A x \in DOMAIN challenges' \ {c} :
              x \in DOMAIN challenges /\ challenges'[x] = challenges[x]
    BY <1>6
  <2>7. challenges'[c].target = d
    BY <2>3
  <2> HIDE DEF nm
  <2>4. Named(name, status, bout, waiting, challenges)'
    <3> SUFFICES ASSUME NEW e \in Conns, nm[e] = NoName
                 PROVE  /\ status[e] # "available"
                        /\ \A x \in DOMAIN challenges' : challenges'[x].target # e
                        /\ Ident[e] # NoName =>
                             /\ bout[e] = NoBout /\ status[e] = "none"
                             /\ e \notin waiting /\ e \notin DOMAIN challenges'
      BY <1>1 DEF Named
    <3>1. name[e] = NoName /\ (e = c => Ident[e] = NoName) /\ e # d
      BY <1>2, <2>2
    <3>2. /\ status[e] # "available"
          /\ \A x \in DOMAIN challenges : challenges[x].target # e
          /\ Ident[e] # NoName =>
               bout[e] = NoBout /\ status[e] = "none" /\ e \notin waiting /\ e \notin DOMAIN challenges
      BY <3>1 DEF IInv, Tables, Named
    <3>4. ASSUME NEW x \in DOMAIN challenges' PROVE challenges'[x].target # e
      <4>1. CASE x = c
        BY <2>7, <3>1, <4>1
      <4>2. CASE x # c
        <5>1. x \in DOMAIN challenges /\ challenges'[x] = challenges[x]
          BY <2>3, <4>2
        <5> QED
          BY <3>2, <5>1
      <4> QED
        BY <4>1, <4>2
    <3>5. Ident[e] # NoName => e \notin DOMAIN challenges'
      BY <2>3, <3>1, <3>2
    <3> QED
      BY <3>2, <3>4, <3>5
  <2>5. Aimed(clients, bout, challenges)'
    BY <1>1, <2>1, <2>2, <2>3, <2>7 DEF IInv, Tables, Aimed
  <2>6. TimersRun'
    BY <1>6, <2>3 DEF IInv, Tables, TimersRun
  <2> QED
    BY <1>1, <1>3, <1>4, <1>6, <2>4, <2>5, <2>6 DEF Tables
<1> QED
  BY <1>5, <1>6 DEF Challenge

\* A declined challenge is gone, the others are as they were.
LEMMA DeclineStep ==
    ASSUME IInv, NEW c \in Conns, NEW n \in Names, ChallengeDecline(c, n)
    PROVE  Tables' /\ UNCHANGED <<timers, bout, started>>
<1>1. PICK S : challenges' = Without(challenges, S)
  BY DEF ChallengeDecline
<1>2. /\ DOMAIN challenges' \subseteq DOMAIN challenges
      /\ \A x \in DOMAIN challenges' : challenges'[x] = challenges[x]
  BY <1>1, FewerChallenges DEF IInv
<1>3. /\ UNCHANGED <<seen, clients, name, status, bout, waiting, timers, bouts, draining, swap>>
      /\ UNCHANGED <<started, loop, sides, control>>
  BY DEF ChallengeDecline, clientVars, deployVars, matchVars
<1>4. Named(name, status, bout, waiting, challenges)' /\ Aimed(clients, bout, challenges)'
  BY <1>2, <1>3, FewerTables
<1>6. TimersRun'
  BY <1>2, <1>3 DEF IInv, Tables, TimersRun
<1>5. Shown(name, status, bout)' /\ Fresh' /\ Known' /\ Registered' /\ Quiet' /\ OwnersBound'
      /\ Queued'
  BY <1>3, ZenonT(60) DEF IInv, Tables, Shown, Fresh, Known, Registered, Quiet, OwnersBound, Queued, Live
<1> QED
  BY <1>3, <1>4, <1>5, <1>6 DEF Tables

\* A timer that fires ends its own challenge or none.
LEMMA TimeoutStep ==
    ASSUME IInv, NEW x \in timers, ChallengeTimeout(x)
    PROVE  Tables' /\ UNCHANGED <<bout, started>>
<1>1. /\ UNCHANGED <<seen, clients, name, status, bout, waiting, bouts, draining, swap>>
      /\ UNCHANGED <<started, loop, sides, control>>
      /\ timers' = timers \ {x}
  BY DEF ChallengeTimeout, clientVars, deployVars, matchVars
<1>2. /\ DOMAIN challenges' \subseteq DOMAIN challenges
      /\ \A y \in DOMAIN challenges' : challenges'[y] = challenges[y]
      /\ StillPending(x) => x.from \notin DOMAIN challenges'
  <2>1. CASE ~StillPending(x)
    <3>1. challenges' = challenges
      BY <2>1 DEF ChallengeTimeout
    <3> QED
      BY <2>1, <3>1
  <2>2. CASE StillPending(x)
    <3>1. challenges' = Without(challenges, {x.from})
      BY <2>2 DEF ChallengeTimeout
    <3>2. DOMAIN challenges' = DOMAIN challenges \ {x.from}
          /\ \A y \in DOMAIN challenges' : challenges'[y] = challenges[y]
      BY <3>1 DEF Without
    <3> QED
      BY <3>2
  <2> QED
    BY <2>1, <2>2
<1>3. Named(name, status, bout, waiting, challenges)' /\ Aimed(clients, bout, challenges)'
  BY <1>1, <1>2, FewerTables
<1>4. TimersRun'
  <2> SUFFICES ASSUME NEW y \in DOMAIN challenges'
               PROVE  [from |-> y, target |-> challenges[y].target, stamp |-> challenges[y].stamp]
                          \in timers'
    BY <1>2 DEF TimersRun
  <2>1. [from |-> y, target |-> challenges[y].target, stamp |-> challenges[y].stamp] \in timers
    BY <1>2 DEF IInv, Tables, TimersRun
  <2>2. challenges[y] \in [target : Conns, stamp : Stamp]
    BY <1>2 DEF IInv, TypeOK
  <2>3. challenges[y] = [target |-> challenges[y].target, stamp |-> challenges[y].stamp]
    BY <2>2
  <2>4. x # [from |-> y, target |-> challenges[y].target, stamp |-> challenges[y].stamp]
    BY <1>2, <2>3 DEF StillPending
  <2> QED
    BY <1>1, <2>1, <2>4
<1>5. Shown(name, status, bout)' /\ Fresh' /\ Known' /\ Registered' /\ Quiet' /\ OwnersBound'
      /\ Queued'
  BY <1>1 DEF IInv, Tables, Shown, Fresh, Known, Registered, Quiet, OwnersBound, Queued, Live
<1> QED
  BY <1>1, <1>3, <1>4, <1>5 DEF Tables

\* A rejoining connection is fresh: without a name, so bound to nothing, aimed
\* at by nobody and known to no live loop.
LEMMA RejoinStep ==
    ASSUME IInv, NEW c \in Conns, NEW m \in Match, FirstMessage(c), Rejoin(c, m)
    PROVE  /\ Tables'
           /\ bout[c] = NoBout /\ \A d \in Conns \ {c} : bout'[d] = bout[d]
           /\ UNCHANGED <<timers, started>>
<1> DEFINE s == SideOf(m, Ident[c])
           r == Reattach(c, s)
<1>1. /\ c \in clients /\ name[c] = NoName /\ Ident[c] # NoName /\ m \in bouts
      /\ control' = [control EXCEPT ![m] = Append(@, r)]
      /\ name' = [name EXCEPT ![c] = Ident[c]]
      /\ status' = [status EXCEPT ![c] = "ingame"]
      /\ bout' = [bout EXCEPT ![c] = [match |-> m, side |-> s]]
      /\ UNCHANGED <<seen, clients, waiting, challenges, timers, bouts, draining, swap>>
      /\ UNCHANGED <<started, loop, sides>>
  BY DEF Rejoin, FirstMessage, Idle, challengeVars, deployVars
<1>2. s \in Side /\ r = [side |-> s, conn |-> c]
  BY DEF SideOf, Side, Reattach
<1> HIDE DEF s, r
<1>3. /\ bout[c] = NoBout /\ c \notin waiting /\ c \notin DOMAIN challenges
      /\ \A x \in DOMAIN challenges : challenges[x].target # c
  BY <1>1 DEF IInv, Tables, Named
<1>4. /\ name'[c] # NoName /\ status'[c] = "ingame"
      /\ bout'[c] = [match |-> m, side |-> s] /\ bout'[c] # NoBout
      /\ \A d \in Conns \ {c} : /\ name'[d] = name[d] /\ status'[d] = status[d]
                                 /\ bout'[d] = bout[d]
  BY <1>1, <1>2, BindingIsOne DEF IInv, TypeOK
<1>5. Named(name, status, bout, waiting, challenges)' 
  <2> SUFFICES ASSUME NEW d \in Conns, name'[d] = NoName
               PROVE  /\ status'[d] # "available"
                      /\ \A x \in DOMAIN challenges : challenges[x].target # d
                      /\ Ident[d] # NoName =>
                           /\ bout'[d] = NoBout /\ status'[d] = "none"
                           /\ d \notin waiting /\ d \notin DOMAIN challenges
    BY <1>1 DEF Named
  <2>1. d # c
    BY <1>4
  <2> QED
    BY <1>4, <2>1 DEF IInv, Tables, Named
<1>6. Shown(name, status, bout)'
  BY <1>4 DEF IInv, Tables, Shown
<1>7. Aimed(clients, bout, challenges)'
  <2>1. \A x \in DOMAIN challenges : challenges[x].target \in Conns \ {c}
    BY <1>3, ChallengeHolds DEF IInv
  <2> QED
    BY <1>1, <1>4, <2>1 DEF IInv, Tables, Aimed
<1>8. TimersRun' /\ Registered' /\ Quiet'
  BY <1>1 DEF IInv, Tables, TimersRun, Registered, Quiet, Live
<1>9. /\ Len(control'[m]) = Len(control[m]) + 1 /\ Len(control[m]) \in Nat
      /\ DOMAIN control[m] = 1 .. Len(control[m])
      /\ DOMAIN control'[m] = 1 .. Len(control[m]) + 1
      /\ control'[m][Len(control[m]) + 1] = r
      /\ \A i \in DOMAIN control[m] : control'[m][i] = control[m][i]
      /\ \A k \in Match \ {m} : control'[k] = control[k]
  <2> DEFINE Wire == [side : Side, conn : Conns]
  <2>1. control[m] \in Seq(Wire) /\ r \in Wire
    BY <1>2 DEF IInv, TypeOK
  <2>2. control'[m] = Append(control[m], r) /\ \A k \in Match \ {m} : control'[k] = control[k]
    BY <1>1 DEF IInv, TypeOK
  <2> HIDE DEF Wire
  <2>3. /\ Append(control[m], r) \in Seq(Wire)
        /\ Len(Append(control[m], r)) = Len(control[m]) + 1
        /\ \A i \in 1 .. Len(control[m]) : Append(control[m], r)[i] = control[m][i]
        /\ Append(control[m], r)[Len(control[m]) + 1] = r
    BY <2>1, AppendProperties
  <2>4. Len(control[m]) \in Nat /\ DOMAIN control[m] = 1 .. Len(control[m])
        /\ DOMAIN Append(control[m], r) = 1 .. Len(Append(control[m], r))
    BY <2>1, <2>3, LenProperties
  <2> QED
    BY <2>2, <2>3, <2>4
<1>10. Fresh'
  BY <1>1, <1>9 DEF IInv, Tables, Fresh
<1>11. OwnersBound'
  <2> SUFFICES ASSUME NEW k \in Match, NEW t \in Side, Live(k), sides[k][t] \in clients
               PROVE  bout'[sides[k][t]] = [match |-> k, side |-> t]
    BY <1>1 DEF OwnersBound, Live
  <2>1. bout[sides[k][t]] = [match |-> k, side |-> t] /\ sides[k][t] \in Conns
    BY DEF IInv, Tables, TypeOK, OwnersBound
  <2> QED
    BY <1>3, <1>4, <2>1, BindingIsOne
<1>12. Queued'
  <2> SUFFICES ASSUME NEW k \in Match, Live(k),
                      NEW i \in DOMAIN control'[k], control'[k][i].conn \in clients
               PROVE  bout'[control'[k][i].conn] = [match |-> k, side |-> control'[k][i].side]
    BY <1>1, ZenonT(60) DEF Queued, Live
  <2>1. CASE i \in DOMAIN control[k] /\ control'[k][i] = control[k][i]
    <3>1. bout[control[k][i].conn] = [match |-> k, side |-> control[k][i].side]
      BY <2>1 DEF IInv, Tables, Queued
    <3>2. control[k][i].side \in Side /\ control[k][i].conn \in Conns
      BY <2>1, ControlHolds DEF IInv
    <3> QED
      BY <1>3, <1>4, <2>1, <3>1, <3>2, BindingIsOne, ZenonT(60)
  <2>2. CASE k = m /\ control'[k][i] = r
    <3>1. r.conn = c /\ r.side = s
      BY <1>2
    <3> QED
      BY <1>4, <2>2, <3>1
  <2>3. \/ i \in DOMAIN control[k] /\ control'[k][i] = control[k][i]
        \/ k = m /\ control'[k][i] = r
    BY <1>9
  <2> QED
    BY <2>1, <2>2, <2>3
<1>13. Known'
  <2>1. c \in seen /\ r.conn = c
    BY <1>1, <1>2 DEF IInv, TypeOK
  <2>2. ASSUME NEW k \in Match, NEW i \in DOMAIN control'[k] PROVE control'[k][i].conn \in seen
    <3>1. \/ i \in DOMAIN control[k] /\ control'[k][i] = control[k][i]
          \/ k = m /\ control'[k][i] = r
      BY <1>9
    <3> QED
      BY <2>1, <3>1 DEF IInv, Tables, Known
  <2> QED
    BY <1>1, <2>2 DEF IInv, Tables, Known
<1> QED
  BY <1>1, <1>3, <1>4, <1>5, <1>6, <1>7, <1>8, <1>10, <1>11, <1>12, <1>13 DEF Tables

\* A loop that takes a reattach plays with a connection bound to it.
LEMMA ReattachStep ==
    ASSUME IInv, NEW m \in Match, LoopReattach(m)
    PROVE  Tables' /\ UNCHANGED <<timers, bout, started>>
<1>1. /\ loop[m] = "running" /\ control[m] # <<>>
      /\ sides' = [sides EXCEPT ![m][Head(control[m]).side] = Head(control[m]).conn]
      /\ control' = [control EXCEPT ![m] = Tail(@)]
      /\ UNCHANGED <<seen, clients, name, status, bout, waiting, challenges, timers, bouts>>
      /\ UNCHANGED <<draining, swap, started, loop>>
  BY DEF LoopReattach, clientVars, challengeVars, deployVars
<1>2. /\ Named(name, status, bout, waiting, challenges)' /\ Shown(name, status, bout)'
      /\ Aimed(clients, bout, challenges)' /\ TimersRun' /\ Registered' /\ Quiet'
  BY <1>1 DEF IInv, Tables, Named, Shown, Aimed, TimersRun, Registered, Quiet, Live
<1>3. /\ 1 \in DOMAIN control[m] /\ Head(control[m]) = control[m][1]
      /\ \A i \in DOMAIN control'[m] :
            i + 1 \in DOMAIN control[m] /\ control'[m][i] = control[m][i + 1]
      /\ \A k \in Match \ {m} : control'[k] = control[k]
  <2> DEFINE Wire == [side : Side, conn : Conns]
  <2>1. control[m] \in Seq(Wire)
    BY DEF IInv, TypeOK
  <2>2. control'[m] = Tail(control[m]) /\ \A k \in Match \ {m} : control'[k] = control[k]
    BY <1>1 DEF IInv, TypeOK
  <2> HIDE DEF Wire
  <2>3. /\ Tail(control[m]) \in Seq(Wire)
        /\ Len(Tail(control[m])) = Len(control[m]) - 1
        /\ \A i \in 1 .. Len(Tail(control[m])) : Tail(control[m])[i] = control[m][i + 1]
    BY <1>1, <2>1, HeadTailProperties
  <2>4. /\ Len(control[m]) \in Nat /\ DOMAIN control[m] = 1 .. Len(control[m])
        /\ Len(control[m]) # 0
        /\ DOMAIN Tail(control[m]) = 1 .. Len(Tail(control[m]))
    BY <1>1, <2>1, <2>3, LenProperties, EmptySeq
  <2>5. Head(control[m]) = control[m][1]
    BY <2>1
  <2> QED
    BY <2>2, <2>3, <2>4, <2>5
<1>4. /\ control[m][1].side \in Side /\ control[m][1].conn \in Conns
      /\ control[m][1].conn \in seen
      /\ control[m][1].conn \in clients =>
            bout[control[m][1].conn] = [match |-> m, side |-> control[m][1].side]
  BY <1>1, <1>3, ControlHolds DEF IInv, Tables, Queued, Known, Live
<1>5. \A k \in Match, s \in Side :
        \/ sides'[k][s] = sides[k][s]
        \/ k = m /\ s = control[m][1].side /\ sides'[k][s] = control[m][1].conn
  BY <1>1, <1>3 DEF IInv, TypeOK
<1>6. OwnersBound'
  BY <1>1, <1>4, <1>5 DEF IInv, Tables, OwnersBound, Live
<1>7. \A k \in Match : \A i \in DOMAIN control'[k] : \E j \in DOMAIN control[k] :
        control'[k][i] = control[k][j]
  BY <1>3
<1>8. Queued'
  <2> SUFFICES ASSUME NEW k \in Match, Live(k),
                      NEW i \in DOMAIN control'[k], control'[k][i].conn \in clients
               PROVE  bout[control'[k][i].conn] = [match |-> k, side |-> control'[k][i].side]
    BY <1>1 DEF Queued, Live
  <2>1. PICK j \in DOMAIN control[k] : control'[k][i] = control[k][j]
    BY <1>7
  <2> QED
    BY <2>1 DEF IInv, Tables, Queued
<1>9. Known'
  BY <1>1, <1>4, <1>5, <1>7 DEF IInv, Tables, Known
<1>10. Fresh'
  <2>1. ~(m > started)
    BY <1>1 DEF IInv, Tables, Fresh
  <2> QED
    BY <1>1, <1>3, <2>1 DEF IInv, Tables, Fresh
<1> QED
  BY <1>1, <1>2, <1>6, <1>8, <1>9, <1>10 DEF Tables

\* A loop that breaks stays registered, its players bound, until it settles.
LEMMA EndsStep ==
    ASSUME IInv, NEW m \in Match, NEW won \in BOOLEAN, LoopEnds(m, won)
    PROVE  Tables' /\ UNCHANGED <<timers, bout, started>>
<1>1. /\ loop[m] = "running" /\ loop' = [loop EXCEPT ![m] = "closing"]
      /\ UNCHANGED <<seen, clients, name, status, bout, waiting, challenges, timers, bouts>>
      /\ UNCHANGED <<draining, swap, started, sides, control>>
  BY DEF LoopEnds, clientVars, challengeVars, deployVars
<1>2. loop'[m] = "closing" /\ \A k \in Match \ {m} : loop'[k] = loop[k]
  BY <1>1 DEF IInv, TypeOK
<1>3. \A k \in Match : Live(k)' <=> Live(k)
  BY <1>1, <1>2 DEF Live
<1>4. /\ Named(name, status, bout, waiting, challenges)' /\ Shown(name, status, bout)'
      /\ Aimed(clients, bout, challenges)' /\ TimersRun' /\ Quiet' /\ Known'
  BY <1>1, ZenonT(60) DEF IInv, Tables, Named, Shown, Aimed, TimersRun, Quiet, Known
<1>5. OwnersBound' /\ Queued' /\ Registered'
  BY <1>1, <1>3 DEF IInv, Tables, OwnersBound, Queued, Registered
<1>6. Fresh'
  <2>1. ~(m > started)
    BY <1>1 DEF IInv, Tables, Fresh
  <2> QED
    BY <1>1, <1>2, <2>1 DEF IInv, Tables, Fresh
<1> QED
  BY <1>1, <1>4, <1>5, <1>6 DEF Tables

\* The section after a loop frees exactly clients bound to its match.
LEMMA SettleStep ==
    ASSUME IInv, NEW m \in Match, Settle(m)
    PROVE  /\ Tables'
           /\ \A d \in Conns : bout'[d] = bout[d] \/ bout'[d] = NoBout
           /\ UNCHANGED <<timers, started>>
<1> DEFINE owners == Owners(m)
<1>1. /\ loop[m] = "closing" /\ loop' = [loop EXCEPT ![m] = "done"]
      /\ bouts' = bouts \ {m}
      /\ bout' = [c \in Conns |-> IF c \in owners THEN NoBout ELSE bout[c]]
      /\ status' = [c \in Conns |-> IF c \in owners /\ name[c] # NoName
                                    THEN PostBoutStatus(prev[c]) ELSE status[c]]
      /\ UNCHANGED <<seen, clients, name, waiting, challenges, timers, draining, swap>>
      /\ UNCHANGED <<started, sides, control>>
  BY DEF Settle, challengeVars, deployVars
<1>2. ASSUME NEW c \in owners PROVE \E s \in Side : bout[c] = [match |-> m, side |-> s]
  <2>1. PICK s \in Side : c = sides[m][s] /\ sides[m][s] \in clients
    BY DEF Owners
  <2>2. bout[c] = [match |-> m, side |-> s]
    BY <1>1, <2>1 DEF IInv, Tables, OwnersBound, Live
  <2> QED
    BY <2>2
<1> HIDE DEF owners
<1>3. /\ \A c \in Conns : bout'[c] = IF c \in owners THEN NoBout ELSE bout[c]
      /\ \A c \in Conns : \/ status'[c] = status[c] /\ (c \in owners => name[c] = NoName)
                          \/ /\ c \in owners /\ name[c] # NoName
                             /\ status'[c] \in {"none", "available"}
  BY <1>1 DEF PostBoutStatus
<1>4. /\ loop'[m] = "done" /\ \A k \in Match \ {m} : loop'[k] = loop[k]
      /\ \A k \in Match : Live(k)' <=> k # m /\ Live(k)
  <2>1. loop'[m] = "done" /\ \A k \in Match \ {m} : loop'[k] = loop[k]
    BY <1>1 DEF IInv, TypeOK
  <2> QED
    BY <2>1 DEF Live
<1>5. Named(name, status, bout, waiting, challenges)'
  <2> SUFFICES ASSUME NEW c \in Conns, name[c] = NoName
               PROVE  /\ status'[c] # "available"
                      /\ \A x \in DOMAIN challenges : challenges[x].target # c
                      /\ Ident[c] # NoName =>
                           /\ bout'[c] = NoBout /\ status'[c] = "none"
                           /\ c \notin waiting /\ c \notin DOMAIN challenges
    BY <1>1 DEF Named
  <2> QED
    BY <1>3 DEF IInv, Tables, Named
<1>6. Shown(name, status, bout)'
  <2> SUFFICES ASSUME NEW c \in Conns
               PROVE  /\ bout'[c] # NoBout => status'[c] = "ingame"
                      /\ status'[c] = "ingame" /\ name[c] # NoName => bout'[c] # NoBout
    BY <1>1 DEF Shown
  <2> QED
    BY <1>3 DEF IInv, Tables, Shown
<1>7. Aimed(clients, bout, challenges)'
  <2>1. \A x \in DOMAIN challenges : challenges[x].target \in Conns
    BY ChallengeHolds DEF IInv
  <2> QED
    BY <1>1, <1>3, <2>1 DEF IInv, Tables, Aimed
<1>8. TimersRun' /\ Known'
  BY <1>1 DEF IInv, Tables, TimersRun, Known
<1>9. Fresh'
  <2>1. ~(m > started)
    BY <1>1 DEF IInv, Tables, Fresh
  <2> QED
    BY <1>1, <1>4, <2>1 DEF IInv, Tables, Fresh
<1>10. Registered' /\ Quiet'
  BY <1>1, <1>4 DEF IInv, Tables, Registered, Quiet
<1>11. ASSUME NEW k \in Match, k # m, NEW s \in Side, NEW c \in Conns,
              bout[c] = [match |-> k, side |-> s]
       PROVE  bout'[c] = bout[c]
  <2>1. \A s2 \in Side : [match |-> m, side |-> s2] # [match |-> k, side |-> s]
    BY <1>11
  <2>2. c \notin owners
    BY <1>2, <1>11, <2>1
  <2> QED
    BY <1>3, <2>2
<1>12. OwnersBound'
  <2> SUFFICES ASSUME NEW k \in Match, NEW s \in Side, Live(k)', sides[k][s] \in clients
               PROVE  bout'[sides[k][s]] = [match |-> k, side |-> s]
    BY <1>1 DEF OwnersBound
  <2>1. k # m /\ sides[k][s] \in Conns /\ bout[sides[k][s]] = [match |-> k, side |-> s]
    BY <1>4 DEF IInv, TypeOK, Tables, OwnersBound
  <2> QED
    BY <1>11, <2>1
<1>13. Queued'
  <2> SUFFICES ASSUME NEW k \in Match, Live(k)',
                      NEW i \in DOMAIN control[k], control[k][i].conn \in clients
               PROVE  bout'[control[k][i].conn] = [match |-> k, side |-> control[k][i].side]
    <3>1. control' = control /\ clients' = clients
      BY <1>1
    <3> QED
      BY <3>1 DEF Queued
  <2>1. k # m /\ bout[control[k][i].conn] = [match |-> k, side |-> control[k][i].side]
    BY <1>4 DEF IInv, Tables, Queued
  <2>2. control[k][i].side \in Side /\ control[k][i].conn \in Conns
    BY ControlHolds DEF IInv
  <2> QED
    BY <1>11, <2>1, <2>2
<1> QED
  BY <1>1, <1>3, <1>5, <1>6, <1>7, <1>8, <1>9, <1>10, <1>12, <1>13 DEF Tables

\* The drain gate and the deploy change no table of the lobby; a poll that
\* sees no match is forgotten by a resume.
LEMMA DeployStep ==
    ASSUME IInv,
           (\E c \in Conns : PassGate(c)) \/ AdminDrain \/ AdminResume \/ Poll \/ Swap
               \/ UNCHANGED vars
    PROVE  Tables' /\ UNCHANGED <<timers, bout, started, challenges>>
<1>1. /\ UNCHANGED <<seen, clients, name, status, bout, waiting, challenges, timers, bouts>>
      /\ UNCHANGED <<started, loop, sides, control>>
      /\ Quiet'
  <2>1. CASE (\E c \in Conns : PassGate(c)) \/ UNCHANGED vars
    BY <2>1 DEF PassGate, vars, clientVars, challengeVars, deployVars, matchVars, IInv, Tables,
       Quiet
  <2>2. CASE AdminDrain \/ AdminResume \/ Poll \/ Swap
    BY <2>2 DEF AdminDrain, AdminResume, Poll, Swap, lobbyVars, clientVars, challengeVars,
       matchVars, IInv, Tables, Quiet
  <2> QED
    BY <2>1, <2>2
<1>2. /\ Named(name, status, bout, waiting, challenges)' /\ Shown(name, status, bout)'
      /\ Aimed(clients, bout, challenges)' /\ TimersRun'
  BY <1>1 DEF IInv, Tables, Named, Shown, Aimed, TimersRun
<1>3. Fresh' /\ Known' /\ Registered' /\ OwnersBound' /\ Queued'
  BY <1>1 DEF IInv, Tables, Fresh, Known, Registered, OwnersBound, Queued, Live
<1> QED
  BY <1>1, <1>2, <1>3 DEF Tables

\* One step of the lobby: the tables stay in order; a binding is kept, ended or
\* made of nothing; and the matches started grow only while nothing drains.
LEMMA InvStep ==
    ASSUME IInv, [Next]_vars
    PROVE  /\ IInv'
           /\ \A c \in Conns : bout[c] # NoBout /\ bout'[c] # NoBout => bout'[c] = bout[c]
           /\ draining => started' = started
           /\ timers \subseteq timers' \/ \E x \in timers : ChallengeTimeout(x)
<1> DEFINE Goal == /\ Tables'
                   /\ \A c \in Conns : bout[c] # NoBout /\ bout'[c] # NoBout
                                           => bout'[c] = bout[c]
                   /\ draining => started' = started
                   /\ timers \subseteq timers' \/ \E x \in timers : ChallengeTimeout(x)
<1>1. ASSUME NEW c \in Conns, Connect(c) PROVE Goal
  BY <1>1, ConnectStep DEF Connect, clientVars, challengeVars, matchVars
<1>2. ASSUME NEW c \in Conns, Disconnect(c) PROVE Goal
  BY <1>2, DisconnectStep DEF Disconnect, matchVars
<1>3. ASSUME NEW c \in Conns,
             \/ Queue(c) \/ \E on \in BOOLEAN : Available(c, on)
             \/ \E n \in Names : ChallengeAccept(c, n)
      PROVE  Goal
  <2>1. UNCHANGED <<seen, clients, deployVars>>
    BY <1>3, PairingTypes DEF IInv
  <2>2. CASE NobodyPaired
    <3>1. UNCHANGED <<bout, started, timers>>
      BY <2>2 DEF NobodyPaired
    <3> QED
      BY <2>1, <2>2, <3>1, NobodyStep
  <2>3. CASE SomebodyPaired
    BY <2>1, <2>3, SomebodyStep
  <2> QED
    BY <1>3, <2>2, <2>3, PairingOutcome
<1>4. ASSUME NEW c \in Conns, NEW n \in Names, Challenge(c, n) PROVE Goal
  BY <1>4, ChallengeStep
<1>5. ASSUME NEW c \in Conns, NEW n \in Names, ChallengeDecline(c, n) PROVE Goal
  BY <1>5, DeclineStep
<1>6. ASSUME NEW c \in Conns, NEW m \in Match, FirstMessage(c), Rejoin(c, m) PROVE Goal
  BY <1>6, RejoinStep
<1>7. ASSUME NEW x \in timers, ChallengeTimeout(x) PROVE Goal
  BY <1>7, TimeoutStep
<1>8. ASSUME NEW m \in Match, LoopReattach(m) PROVE Goal
  BY <1>8, ReattachStep
<1>9. ASSUME NEW m \in Match, NEW won \in BOOLEAN, LoopEnds(m, won) PROVE Goal
  BY <1>9, EndsStep
<1>10. ASSUME NEW m \in Match, Settle(m) PROVE Goal
  BY <1>10, SettleStep
<1>11. ASSUME (\E c \in Conns : PassGate(c)) \/ AdminDrain \/ AdminResume \/ Poll \/ Swap
                  \/ UNCHANGED vars
       PROVE  Goal
  BY <1>11, DeployStep
<1> HIDE DEF Goal
<1>12. Goal
  BY <1>1, <1>2, <1>3, <1>4, <1>5, <1>6, <1>7, <1>8, <1>9, <1>10, <1>11 DEF Next
<1>13. TypeOK'
  BY TypeStep DEF IInv
<1> QED
  BY <1>12, <1>13 DEF Goal, IInv

\* The tables are in order in every reachable state.
LEMMA Invariant == Spec => []IInv
<1>1. IInv /\ [Next]_vars => IInv'
  BY InvStep
<1> QED
  BY <1>1, TablesInit, PTL DEF Spec

-----------------------------------------------------------------------------
(* Bindings: whom a match keeps, while it is live and after it has ended.  *)

\* Only live matches are registered, a client goes by the name of its token,
\* and a client bound to a match is there, as the player its side is named
\* for; if the match is over it is not the connection the loop ended with.
Bindings ==
    /\ \A m \in bouts : Live(m)
    /\ \A c \in Conns : Ident[c] # NoName => name[c] \in {NoName, Ident[c]}
    /\ \A c \in Conns, m \in Match, s \in Side :
          bout[c] = [match |-> m, side |-> s] =>
              /\ c \in clients /\ m <= started
              /\ name[c] = names[m][s]
              /\ ~Live(m) => sides[m][s] # c

\* A client keeps the name it is bound with.
LEMMA NamesStay ==
    ASSUME IInv, Bindings, NEW c \in Conns,
           \/ Queue(c) \/ \E on \in BOOLEAN : Available(c, on)
           \/ \E n \in Names : Challenge(c, n) \/ ChallengeAccept(c, n)
    PROVE  /\ \A d \in Conns : bout[d] # NoBout => name'[d] = name[d]
           /\ \A d \in Conns : Ident[d] # NoName => name'[d] \in {NoName, Ident[d]}
<1> DEFINE anon == [name EXCEPT ![c] = IF Ident[c] = NoName THEN "anon" ELSE Ident[c]]
           nm == [name EXCEPT ![c] = IF Ident[c] = NoName THEN @ ELSE Ident[c]]
<1>1. /\ name \in [Conns -> Names]
      /\ \A d \in Conns : Ident[d] # NoName => name[d] \in {NoName, Ident[d]}
      /\ \A d \in Conns : bout[d] # NoBout /\ Ident[d] # NoName => name[d] = Ident[d]
  BY DEF IInv, TypeOK, Tables, Named, Bindings
<1>2. /\ anon[c] = IF Ident[c] = NoName THEN "anon" ELSE Ident[c]
      /\ nm[c] = IF Ident[c] = NoName THEN name[c] ELSE Ident[c]
      /\ \A d \in Conns \ {c} : anon[d] = name[d] /\ nm[d] = name[d]
  BY <1>1
<1> HIDE DEF anon, nm
<1>3. \/ name' = name
      \/ name' = nm
      \/ bout[c] = NoBout /\ name' = anon
  <2>1. ASSUME NEW a, NEW b, NEW x, NEW st, StartBout(a, b, x, st) PROVE name' = x
    BY <2>1 DEF StartBout
  <2>2. ASSUME NEW x, NEW st, TryMatch(c, x, st) PROVE name' = x
    BY <2>1, <2>2 DEF TryMatch
  <2>3. CASE Queue(c)
    BY <2>2, <2>3 DEF Queue, Unchanged, clientVars, Free, anon
  <2>4. ASSUME NEW on \in BOOLEAN, Available(c, on) PROVE name' = name \/ name' = nm
    BY <2>2, <2>4 DEF Available, Unchanged, clientVars, nm
  <2>5. ASSUME NEW n \in Names, Challenge(c, n) PROVE name' = nm
    BY <2>5 DEF Challenge, nm
  <2>6. ASSUME NEW n \in Names, ChallengeAccept(c, n) PROVE name' = name
    BY <2>1, <2>6 DEF ChallengeAccept, clientVars
  <2> QED
    BY <2>3, <2>4, <2>5, <2>6
<1> QED
  BY <1>1, <1>2, <1>3

\* What keeps the bindings: names, clients and presence may change around them,
\* and nothing starts or ends.
LEMMA BindingsFrame ==
    ASSUME Bindings, clients \subseteq clients',
           UNCHANGED <<bout, bouts, started, loop, sides, names>>,
           \A d \in Conns : bout[d] # NoBout => name'[d] = name[d],
           \A d \in Conns : Ident[d] # NoName => name'[d] \in {NoName, Ident[d]}
    PROVE  Bindings'
<1>1. \A m \in Match : Live(m)' <=> Live(m)
  BY DEF Live
<1>2. \A m \in bouts' : Live(m)'
  BY DEF Bindings, Live
<1>3. ASSUME NEW c \in Conns, NEW m \in Match, NEW s \in Side,
             bout'[c] = [match |-> m, side |-> s]
      PROVE  /\ c \in clients' /\ m <= started'
             /\ name'[c] = names'[m][s]
             /\ ~Live(m)' => sides'[m][s] # c
  BY <1>1, <1>3, BindingIsOne DEF Bindings
<1> QED
  BY <1>2, <1>3 DEF Bindings

\* start_bout makes a binding of both players under the names it records.
LEMMA BindingsStart ==
    ASSUME IInv, Bindings, SomebodyPaired, UNCHANGED clients,
           \A d \in Conns : bout[d] # NoBout => name'[d] = name[d],
           \A d \in Conns : Ident[d] # NoName => name'[d] \in {NoName, Ident[d]}
    PROVE  Bindings'
<1>1. PICK a \in Conns, b \in Conns, nm \in [Conns -> Names], st \in [Conns -> Status] :
        Pairs(a, b, nm, st) /\ ~draining /\ StartBout(a, b, nm, st)
  BY DEF SomebodyPaired
<1>2. PICK m \in Nat : m = started + 1
  BY DEF IInv, TypeOK
<1> DEFINE pair == [s \in Side |-> IF s = "A" THEN a ELSE b]
<1>a. a \in clients /\ b \in clients /\ a # b
  BY <1>1 DEF Pairs
<1>3. /\ started < MaxMatches /\ started' = m /\ bouts' = bouts \cup {m}
      /\ name' = nm
      /\ bout' = [bout EXCEPT ![a] = [match |-> m, side |-> "A"],
                              ![b] = [match |-> m, side |-> "B"]]
      /\ loop' = [loop EXCEPT ![m] = "running"]
      /\ sides' = [sides EXCEPT ![m] = pair]
      /\ names' = [names EXCEPT ![m] = [s \in Side |-> nm[pair[s]]]]
  BY <1>1, <1>2 DEF StartBout, Paused
<1>4. started \in Nat /\ m \in Match /\ \A k \in Match : k <= started => k # m /\ k <= m
  BY <1>2, <1>3, LobbyAssumption DEF IInv, TypeOK, Match
<1>5. /\ loop'[m] = "running" /\ \A k \in Match \ {m} : loop'[k] = loop[k]
      /\ \A k \in Match \ {m} : sides'[k] = sides[k] /\ names'[k] = names[k]
      /\ names'[m]["A"] = nm[a] /\ names'[m]["B"] = nm[b]
  BY <1>3, <1>4 DEF IInv, TypeOK, Side
<1>6. /\ bout'[a] = [match |-> m, side |-> "A"] /\ bout'[b] = [match |-> m, side |-> "B"]
      /\ \A c \in Conns \ {a, b} : bout'[c] = bout[c]
  BY <1>3, <1>a DEF IInv, TypeOK
<1>7. m <= m
  BY <1>4
<1> HIDE DEF pair
<1>8. Live(m)' /\ \A k \in Match \ {m} : Live(k)' <=> Live(k)
  BY <1>5 DEF Live
<1>9. \A k \in bouts' : Live(k)'
  BY <1>3, <1>8 DEF Bindings, IInv, TypeOK
<1>10. ASSUME NEW c \in Conns, NEW k \in Match, NEW s \in Side,
              bout'[c] = [match |-> k, side |-> s]
       PROVE  /\ c \in clients' /\ k <= started'
              /\ name'[c] = names'[k][s]
              /\ ~Live(k)' => sides'[k][s] # c
  <2>1. CASE c \in {a, b}
    <3>1. k = m /\ ((c = a /\ s = "A") \/ (c = b /\ s = "B"))
      BY <1>6, <1>10, <1>a, <2>1
    <3> QED
      BY <1>3, <1>5, <1>7, <1>8, <1>a, <3>1
  <2>2. CASE c \notin {a, b}
    <3>1. bout[c] = [match |-> k, side |-> s] /\ bout[c] # NoBout
      BY <1>6, <1>10, <2>2, BindingIsOne
    <3>2. /\ c \in clients /\ k <= started /\ name[c] = names[k][s]
          /\ ~Live(k) => sides[k][s] # c
      BY <3>1 DEF Bindings
    <3> QED
      BY <1>3, <1>4, <1>5, <1>8, <3>1, <3>2
  <2> QED
    BY <2>1, <2>2
<1> QED
  BY <1>9, <1>10 DEF Bindings

\* A rejoin binds its connection to a live match, under a name of that match.
LEMMA BindingsRejoin ==
    ASSUME IInv, Bindings, NEW c \in Conns, NEW m \in Match, FirstMessage(c), Rejoin(c, m)
    PROVE  Bindings'
<1> DEFINE s == SideOf(m, Ident[c])
<1>1. /\ c \in clients /\ Ident[c] # NoName /\ m \in bouts
      /\ \E t \in Side : Ident[c] = names[m][t]
      /\ name' = [name EXCEPT ![c] = Ident[c]]
      /\ bout' = [bout EXCEPT ![c] = [match |-> m, side |-> s]]
      /\ UNCHANGED <<clients, bouts, started, loop, sides, names>>
  BY DEF Rejoin, Idle
<1>2. s \in Side /\ names[m][s] = Ident[c]
  BY <1>1 DEF SideOf, Side
<1> HIDE DEF s
<1>3. \A k \in Match : Live(k)' <=> Live(k)
  BY <1>1 DEF Live
<1>4. \A k \in bouts' : Live(k)'
  BY <1>1 DEF Bindings, Live
<1>5. m <= started
  BY <1>1 DEF IInv, Tables, Fresh, TypeOK, Match
<1>6. /\ bout'[c] = [match |-> m, side |-> s] /\ name'[c] = Ident[c]
      /\ \A d \in Conns \ {c} : bout'[d] = bout[d] /\ name'[d] = name[d]
  BY <1>1 DEF IInv, TypeOK
<1>7. ASSUME NEW d \in Conns, NEW k \in Match, NEW t \in Side,
             bout'[d] = [match |-> k, side |-> t]
      PROVE  /\ d \in clients' /\ k <= started'
             /\ name'[d] = names'[k][t]
             /\ ~Live(k)' => sides'[k][t] # d
  <2>1. CASE d = c
    <3>1. k = m /\ t = s
      BY <1>6, <1>7, <2>1
    <3>2. Live(m)
      BY <1>1 DEF Bindings
    <3> QED
      BY <1>1, <1>2, <1>3, <1>5, <1>6, <2>1, <3>1, <3>2
  <2>2. CASE d # c
    BY <1>1, <1>3, <1>6, <1>7, <2>2 DEF Bindings
  <2> QED
    BY <2>1, <2>2
<1> QED
  BY <1>4, <1>6, <1>7 DEF Bindings

\* A connection that closes is bound to nothing.
LEMMA BindingsDisconnect ==
    ASSUME IInv, Bindings, NEW c \in Conns, Disconnect(c)
    PROVE  Bindings'
<1>1. /\ clients' = clients \ {c}
      /\ name' = [name EXCEPT ![c] = NoName] /\ bout' = [bout EXCEPT ![c] = NoBout]
      /\ UNCHANGED <<bouts, started, loop, sides, names>>
  BY DEF Disconnect, matchVars
<1>2. /\ name'[c] = NoName /\ bout'[c] = NoBout
      /\ \A d \in Conns \ {c} : name'[d] = name[d] /\ bout'[d] = bout[d]
  BY <1>1 DEF IInv, TypeOK
<1>3. \A k \in Match : Live(k)' <=> Live(k)
  BY <1>1 DEF Live
<1>4. \A k \in bouts' : Live(k)'
  BY <1>1 DEF Bindings, Live
<1>5. ASSUME NEW d \in Conns, NEW k \in Match, NEW t \in Side,
             bout'[d] = [match |-> k, side |-> t]
      PROVE  /\ d \in clients' /\ k <= started'
             /\ name'[d] = names'[k][t]
             /\ ~Live(k)' => sides'[k][t] # d
  <2>1. d # c
    BY <1>2, <1>5, BindingIsOne
  <2> QED
    BY <1>1, <1>2, <1>3, <1>5, <2>1 DEF Bindings
<1> QED
  BY <1>2, <1>4, <1>5 DEF Bindings

\* The loop of a live match changes its sides, and breaking leaves it live.
LEMMA BindingsLoop ==
    ASSUME IInv, Bindings, NEW m \in Match,
           LoopReattach(m) \/ \E won \in BOOLEAN : LoopEnds(m, won)
    PROVE  Bindings'
<1>1. UNCHANGED <<clients, name, bout, bouts, started, names>>
  BY DEF LoopReattach, LoopEnds, clientVars
<1>2. Live(m) /\ \A k \in Match : Live(k)' <=> Live(k)
  BY DEF LoopReattach, LoopEnds, Live, IInv, TypeOK
<1>3. \A k \in Match \ {m} : sides'[k] = sides[k]
  BY DEF LoopReattach, LoopEnds, IInv, TypeOK
<1>4. \A k \in bouts' : Live(k)'
  BY <1>1, <1>2 DEF Bindings, IInv, TypeOK
<1>5. ASSUME NEW d \in Conns, NEW k \in Match, NEW t \in Side,
             bout'[d] = [match |-> k, side |-> t]
      PROVE  /\ d \in clients' /\ k <= started'
             /\ name'[d] = names'[k][t]
             /\ ~Live(k)' => sides'[k][t] # d
  BY <1>1, <1>2, <1>3, <1>5 DEF Bindings
<1> QED
  BY <1>1, <1>4, <1>5 DEF Bindings

\* The section after a loop leaves nobody it played with bound to the match.
LEMMA BindingsSettle ==
    ASSUME IInv, Bindings, NEW m \in Match, Settle(m)
    PROVE  Bindings'
<1>1. /\ loop[m] = "closing" /\ loop' = [loop EXCEPT ![m] = "done"]
      /\ bouts' = bouts \ {m}
      /\ bout' = [c \in Conns |-> IF c \in Owners(m) THEN NoBout ELSE bout[c]]
      /\ UNCHANGED <<clients, name, started, sides, names>>
  BY DEF Settle
<1>2. loop'[m] = "done" /\ \A k \in Match \ {m} : loop'[k] = loop[k]
  BY <1>1 DEF IInv, TypeOK
<1>3. \A k \in Match \ {m} : Live(k)' <=> Live(k)
  BY <1>2 DEF Live
<1>4. \A k \in bouts' : Live(k)'
  BY <1>1, <1>3 DEF Bindings, IInv, TypeOK
<1>5. ASSUME NEW d \in Conns, NEW k \in Match, NEW t \in Side,
             bout'[d] = [match |-> k, side |-> t]
      PROVE  /\ d \in clients' /\ k <= started'
             /\ name'[d] = names'[k][t]
             /\ ~Live(k)' => sides'[k][t] # d
  <2>1. d \notin Owners(m) /\ bout[d] = [match |-> k, side |-> t]
    BY <1>1, <1>5, BindingIsOne
  <2>2. d \in clients /\ k <= started /\ name[d] = names[k][t] /\ (~Live(k) => sides[k][t] # d)
    BY <2>1 DEF Bindings
  <2>3. k = m => sides[k][t] # d
    BY <2>1, <2>2 DEF Owners
  <2> QED
    BY <1>1, <1>3, <2>2, <2>3
<1> QED
  BY <1>1, <1>4, <1>5 DEF Bindings

\* Every step of the lobby keeps the bindings.
LEMMA BindingsStep == IInv /\ Bindings /\ [Next]_vars => Bindings'
<1> SUFFICES ASSUME IInv, Bindings, [Next]_vars PROVE Bindings'
  OBVIOUS
<1>1. ASSUME \/ \E c \in Conns : Connect(c) \/ PassGate(c)
                                   \/ \E n \in Names : ChallengeDecline(c, n)
             \/ \E x \in timers : ChallengeTimeout(x)
             \/ AdminDrain \/ AdminResume \/ Poll \/ Swap
             \/ UNCHANGED vars
      PROVE  Bindings'
  <2>1. /\ clients \subseteq clients'
        /\ UNCHANGED <<name, bout, bouts, started, loop, sides, names>>
    BY <1>1 DEF Connect, PassGate, ChallengeDecline, ChallengeTimeout, AdminDrain,
       AdminResume, Poll, Swap, lobbyVars, clientVars, matchVars, vars
  <2>2. \A d \in Conns : Ident[d] # NoName => name'[d] \in {NoName, Ident[d]}
    BY <2>1 DEF Bindings
  <2> QED
    BY <2>1, <2>2, BindingsFrame
<1>2. ASSUME NEW c \in Conns, NEW n \in Names, Challenge(c, n) PROVE Bindings'
  <2>1. UNCHANGED <<clients, bout, bouts, started, loop, sides, names>>
    BY <1>2 DEF Challenge, Handle, matchVars
  <2> QED
    BY <1>2, <2>1, NamesStay, BindingsFrame
<1>3. ASSUME NEW c \in Conns,
             \/ Queue(c) \/ \E on \in BOOLEAN : Available(c, on)
             \/ \E n \in Names : ChallengeAccept(c, n)
      PROVE  Bindings'
  <2>1. UNCHANGED clients
    BY <1>3, PairingTypes DEF IInv
  <2>2. /\ \A d \in Conns : bout[d] # NoBout => name'[d] = name[d]
        /\ \A d \in Conns : Ident[d] # NoName => name'[d] \in {NoName, Ident[d]}
    BY <1>3, NamesStay
  <2>3. CASE SomebodyPaired
    BY <2>1, <2>2, <2>3, BindingsStart
  <2>4. CASE NobodyPaired
    <3>1. UNCHANGED <<bout, bouts, started, loop, sides, names>>
      BY <2>4 DEF NobodyPaired
    <3> QED
      BY <2>1, <2>2, <3>1, BindingsFrame
  <2> QED
    BY <1>3, <2>3, <2>4, PairingOutcome
<1>4. ASSUME NEW c \in Conns, NEW m \in Match, FirstMessage(c), Rejoin(c, m) PROVE Bindings'
  BY <1>4, BindingsRejoin
<1>5. ASSUME NEW c \in Conns, Disconnect(c) PROVE Bindings'
  BY <1>5, BindingsDisconnect
<1>6. ASSUME NEW m \in Match, LoopReattach(m) \/ \E won \in BOOLEAN : LoopEnds(m, won)
      PROVE  Bindings'
  BY <1>6, BindingsLoop
<1>7. ASSUME NEW m \in Match, Settle(m) PROVE Bindings'
  BY <1>7, BindingsSettle
<1> QED
  BY <1>1, <1>2, <1>3, <1>4, <1>5, <1>6, <1>7 DEF Next

\* The bindings are in order in every reachable state.
LEMMA BindingsInvariant == Spec => []Bindings
<1>1. Init => Bindings
  BY BindingIsOne DEF Init, Bindings
<1> QED
  BY <1>1, BindingsStep, Invariant, PTL DEF Spec

-----------------------------------------------------------------------------
(* What the lobby promises.                                                *)

\* The connection a live loop plays with for a side is bound to that match and
\* that side, however often the side has been rejoined.
THEOREM LoopsOwnTheirClients == Spec => []OwnersBound
<1>1. IInv => OwnersBound
  BY DEF IInv, Tables
<1> QED
  BY <1>1, Invariant, PTL

\* The target of every pending challenge is connected and free: start_bout and
\* the cleanup of a connection drop the others, so no stale accept is left.
THEOREM ChallengesStayLive == Spec => []ChallengesAreLive
<1>1. IInv => ChallengesAreLive
  BY DEF IInv, Tables, Aimed, ChallengesAreLive, Free
<1> QED
  BY <1>1, Invariant, PTL

\* As long as a challenge is pending, the timer that will end it is asleep.
THEOREM ChallengesDoExpire == Spec => []ChallengesExpire
<1>1. IInv => ChallengesExpire
  <2> SUFFICES ASSUME IInv, NEW c \in DOMAIN challenges
               PROVE  \E x \in timers : x.from = c /\ x.stamp = challenges[c].stamp
    BY DEF ChallengesExpire
  <2> DEFINE x == [from |-> c, target |-> challenges[c].target, stamp |-> challenges[c].stamp]
  <2>1. x \in timers
    BY DEF IInv, Tables, TimersRun
  <2> QED
    BY <2>1
<1> QED
  BY <1>1, Invariant, PTL

\* The roster shows a client as in a game exactly while it is bound to one, as
\* the player its side is named for, and nobody the loop ended with is left in
\* a match that is over.
THEOREM RosterIsTrue == Spec => []InGameIffBound
<1>1. IInv /\ Bindings => InGameIffBound
  BY DEF IInv, Tables, TypeOK, Shown, Bindings, InGameIffBound, Free
<1> QED
  BY <1>1, Invariant, BindingsInvariant, PTL

\* The machine is swapped only when no match is live, whatever was past the
\* drain gate when the drain began: registration outlives the loop until its
\* settle section, and the poll reads the registry.
THEOREM DeployKillsNoGame == Spec => []NoGameKilled
<1>1. IInv => NoGameKilled
  BY DEF IInv, Tables, Registered, Quiet, NoGameKilled
<1> QED
  BY <1>1, Invariant, PTL

\* No step moves a connection from one match into another.
THEOREM NeverDoubleBooked == Spec => NoDoubleBooking
<1>1. IInv /\ [Next]_vars
        => [\A c \in Conns : ~Free(c) /\ bout'[c] # NoBout => bout'[c] = bout[c]]_vars
  BY InvStep DEF Free
<1> QED
  BY <1>1, Invariant, PTL DEF Spec, NoDoubleBooking

\* While the machine drains no step starts a match.
THEOREM DrainDoesHold == Spec => DrainHolds
<1>1. IInv /\ [Next]_vars => [draining /\ draining' => started' = started]_vars
  BY InvStep
<1> QED
  BY <1>1, Invariant, PTL DEF Spec, DrainHolds

\* The timer of a challenge that has been replaced fires in vain.
THEOREM OldTimersAreHarmless == Spec => OldTimerHarmless
<1>1. IInv /\ [Next]_vars
        => [\A x \in timers \ timers' :
              x.from \in DOMAIN challenges /\ challenges[x.from].stamp # x.stamp
                  => challenges' = challenges]_vars
  <2> SUFFICES ASSUME IInv, [Next]_vars, NEW x \in timers \ timers',
                      x.from \in DOMAIN challenges, challenges[x.from].stamp # x.stamp
               PROVE  challenges' = challenges
    OBVIOUS
  <2>1. PICK y \in timers : ChallengeTimeout(y)
    BY InvStep
  <2>2. x = y
    BY <2>1 DEF ChallengeTimeout
  <2>3. ~StillPending(x)
    BY DEF StillPending
  <2> QED
    BY <2>1, <2>2, <2>3 DEF ChallengeTimeout
<1> QED
  BY <1>1, Invariant, PTL DEF Spec, OldTimerHarmless

=============================================================================
