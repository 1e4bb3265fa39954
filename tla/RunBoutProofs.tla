--------------------------- MODULE RunBoutProofs ---------------------------
(***************************************************************************)
(* Proofs about RunBout for every value of its constants: any number of    *)
(* connections, inputs and requests, any channel capacities, grace and     *)
(* probe interval, and any mix of humans and bots.                         *)
(***************************************************************************)
EXTENDS RunBout, SequenceTheorems, TLAPS

-----------------------------------------------------------------------------
(* Messages.                                                               *)

\* The fields a handler of the control drain may read.
LEMMA ControlFields ==
    ASSUME NEW m \in Control
    PROVE  /\ m.kind \in {"Reattach", "Forfeit", "Resync", "DebugGrant", "AddSpectator"}
           /\ m.kind # "AddSpectator" => m.side \in Side
           /\ m.kind = "Reattach" => m.conn \in Conn
BY DEF Control

\* The fields apply_input reads.
LEMMA InputFields ==
    ASSUME NEW m \in Input
    PROVE  m.side \in Side /\ m.seq \in 0 .. MaxSeq
<1>1. m.side \in Side /\ m.seq \in 1 .. MaxSeq
  BY DEF Input
<1> QED
  BY <1>1, ConstantsAssumption

\* What the sockets may put into the channel is a control message.
LEMMA ControlMessages ==
    ASSUME NEW s \in Side
    PROVE  /\ \A k \in Conn : [kind |-> "Reattach", side |-> s, conn |-> k] \in Control
           /\ [kind |-> "Forfeit", side |-> s] \in Control
           /\ [kind |-> "Resync", side |-> s] \in Control
           /\ [kind |-> "DebugGrant", side |-> s] \in Control
           /\ [kind |-> "AddSpectator"] \in Control
BY DEF Control

\* Appending to a channel that is not full leaves it within its capacity, and
\* taking its head does so too.
LEMMA WithinCapacity ==
    ASSUME NEW S, NEW q \in Seq(S), NEW e \in S, NEW cap \in Nat, Len(q) <= cap
    PROVE  /\ Len(q) < cap => Append(q, e) \in Seq(S) /\ Len(Append(q, e)) <= cap
           /\ q # <<>> => Tail(q) \in Seq(S) /\ Len(Tail(q)) <= cap
<1>1. Append(q, e) \in Seq(S) /\ Len(Append(q, e)) = Len(q) + 1
  OBVIOUS
<1>2. q # <<>> => Tail(q) \in Seq(S) /\ Len(Tail(q)) = Len(q) - 1
  OBVIOUS
<1> QED
  BY <1>1, <1>2

\* A try_send leaves a channel of control messages, within its capacity.
LEMMA TrySendType ==
    ASSUME control \in Seq(Control), Len(control) <= ControlCap,
           NEW m \in Control, TrySend(m)
    PROVE  control' \in Seq(Control) /\ Len(control') <= ControlCap
BY WithinCapacity, ConstantsAssumption DEF TrySend

\* The frame counter stays below the probe interval.
LEMMA NextFrameType ==
    ASSUME frame \in 0 .. ProbeEvery - 1
    PROVE  NextFrame \in 0 .. ProbeEvery - 1
BY ConstantsAssumption DEF NextFrame

-----------------------------------------------------------------------------
(* Types.                                                                  *)

\* A match that has just started is well typed.
LEMMA TypeInit == Init => TypeOK
<1> SUFFICES ASSUME Init PROVE TypeOK
  OBVIOUS
<1>1. 1 \in Conn /\ 0 \in 0 .. ProbeEvery - 1 /\ 0 \in 0 .. MaxSeq /\ 0 \in 0 .. MaxAsks
  BY ConstantsAssumption DEF Conn
<1>2. /\ inputs \in Seq(Input) /\ Len(inputs) <= InputCap
      /\ control \in Seq(Control) /\ Len(control) <= ControlCap
  BY ConstantsAssumption DEF Init
<1> QED
  BY <1>1, <1>2 DEF Init, TypeOK, Side, NoGrace

\* Every step of the match and of its sockets keeps the types.
LEMMA TypeStep == TypeOK /\ [Next]_vars => TypeOK'
<1> SUFFICES ASSUME TypeOK, [Next]_vars PROVE TypeOK'
  OBVIOUS
<1> USE DEF TypeOK, netVars, loopVars, vars
<1>1. ASSUME NEW s \in Side, NEW k \in Conn, WriterStops(s, k) \/ ReaderStops(s, k)
      PROVE  TypeOK'
  <2>1. open[s] \ {k} \in SUBSET Conn /\ bound[s] \ {k} \in SUBSET Conn
    OBVIOUS
  <2>2. CASE WriterStops(s, k)
    BY <2>1, <2>2 DEF WriterStops
  <2>3. CASE ReaderStops(s, k)
    BY <2>1, <2>3 DEF ReaderStops
  <2> QED
    BY <1>1, <2>2, <2>3
<1>2. ASSUME NEW s \in Side, NEW k \in Conn, SendInput(s, k) PROVE TypeOK'
  <2>1. seq[s][k] + 1 \in 1 .. MaxSeq /\ seq[s][k] + 1 \in 0 .. MaxSeq
    BY <1>2, ConstantsAssumption DEF SendInput
  <2>2. [side |-> s, seq |-> seq[s][k] + 1, conn |-> k] \in Input
    BY <2>1 DEF Input
  <2>3. inputs' \in Seq(Input) /\ Len(inputs') <= InputCap
    BY <1>2, <2>2, WithinCapacity, ConstantsAssumption DEF SendInput
  <2>4. seq' \in [Side -> [Conn -> 0 .. MaxSeq]]
    BY <1>2, <2>1 DEF SendInput
  <2> QED
    BY <1>2, <2>3, <2>4 DEF SendInput
<1>3. ASSUME NEW s \in Side, Rejoin(s) PROVE TypeOK'
  <2>1. made[s] + 1 \in Conn
    BY <1>3, ConstantsAssumption DEF Rejoin, Conn
  <2>2. control' \in Seq(Control) /\ Len(control') <= ControlCap
    BY <1>3, <2>1, ControlMessages, TrySendType DEF Rejoin
  <2>3. bound' \in [Side -> SUBSET Conn]
    <3>1. bound' = bound \/ bound' = [bound EXCEPT ![s] = @ \cup {made[s] + 1}]
      BY <1>3 DEF Rejoin
    <3>2. bound[s] \cup {made[s] + 1} \in SUBSET Conn
      BY <2>1
    <3> QED
      BY <3>1, <3>2
  <2> QED
    BY <1>3, <2>1, <2>2, <2>3 DEF Rejoin
<1>4. ASSUME NEW m \in Control, Ask(m) PROVE TypeOK'
  <2>1. control' \in Seq(Control) /\ Len(control') <= ControlCap
    BY <1>4, TrySendType DEF Ask
  <2>2. asks' \in 0 .. MaxAsks
    BY <1>4, ConstantsAssumption DEF Ask
  <2> QED
    BY <1>4, <2>1, <2>2 DEF Ask
<1>5. CASE HandleControl
  <2> DEFINE m == Head(control)
  <2>1. m \in Control /\ control' \in Seq(Control) /\ Len(control') <= ControlCap
    BY <1>5, WithinCapacity, ConstantsAssumption DEF HandleControl
  <2> HIDE DEF m
  <2>2. CASE m.kind = "Reattach" /\ Reattach(m)
    <3>1. m.side \in Side /\ m.conn \in Conn
      BY <2>1, <2>2, ControlFields
    <3>2. started' \in [Side -> SUBSET Conn]
      <4>1. started[m.side] \cup {m.conn} \in SUBSET Conn
        BY <3>1
      <4> QED
        BY <2>2, <3>1, <4>1 DEF Reattach, Handover
    <3>3. /\ owner' \in [Side -> Conn]
          /\ connected' \in [Side -> BOOLEAN]
      BY <2>2, <3>1 DEF Reattach
    <3>4. ack' \in [Side -> 0 .. MaxSeq]
      BY <2>2, <3>1, ConstantsAssumption DEF Reattach
    <3>5. grace' \in {NoGrace} \cup 0 .. GraceTicks
      BY <2>2 DEF Reattach, GraceAfter
    <3>6. stale' \in [Side -> BOOLEAN]
      BY <2>2 DEF Reattach
    <3>7. wantKeyframe' \in [Side -> BOOLEAN]
      BY <2>2 DEF Reattach
    <3> QED
      BY <1>5, <2>1, <2>2, <3>2, <3>3, <3>4, <3>5, <3>6, <3>7
         DEF HandleControl, Reattach
  <2>3. CASE m.kind = "Forfeit" /\ Forfeit(m)
    BY <1>5, <2>1, <2>3, ControlFields DEF HandleControl, Forfeit
  <2>4. CASE m.kind = "DebugGrant" /\ DebugGrant(m)
    BY <1>5, <2>1, <2>4, ControlFields DEF HandleControl, DebugGrant
  <2>5. CASE m.kind = "Resync" /\ GrantResync(m)
    BY <1>5, <2>1, <2>5, ControlFields DEF HandleControl, GrantResync
  <2>6. CASE m.kind = "AddSpectator" /\ AddSpectator(m)
    BY <1>5, <2>1, <2>6 DEF HandleControl, AddSpectator
  <2> QED
    BY <1>5, <2>2, <2>3, <2>4, <2>5, <2>6 DEF HandleControl, m
<1>6. CASE BreakForfeit
  BY <1>6 DEF BreakForfeit, Break, Other, Side
<1>7. CASE GraceExpires
  BY <1>7 DEF GraceExpires, Break, Stayer, Side
<1>8. CASE FrozenIteration
  <2>1. grace' \in {NoGrace} \cup 0 .. GraceTicks
    BY <1>8, ConstantsAssumption DEF FrozenIteration, NoGrace
  <2>2. connected' \in [Side -> BOOLEAN]
    BY <1>8 DEF FrozenIteration, Attached
  <2>3. frame' \in 0 .. ProbeEvery - 1
    BY <1>8, NextFrameType DEF FrozenIteration
  <2> QED
    BY <1>8, <2>1, <2>2, <2>3 DEF FrozenIteration
<1>9. CASE BeginTick
  BY <1>9 DEF BeginTick
<1>10. CASE DrainInput
  <2>1. Head(inputs) \in Input /\ inputs' \in Seq(Input) /\ Len(inputs') <= InputCap
    BY <1>10, WithinCapacity, ConstantsAssumption DEF DrainInput
  <2>2. ack' \in [Side -> 0 .. MaxSeq]
    <3>1. PICK i \in Side, n \in 0 .. MaxSeq : ack' = [ack EXCEPT ![i] = n]
      <4>1. Head(inputs).side \in Side /\ Head(inputs).seq \in 0 .. MaxSeq
        BY <2>1, InputFields
      <4> QED
        BY <1>10, <4>1 DEF DrainInput, ApplyInput
    <3> QED
      BY <3>1
  <2> QED
    BY <1>10, <2>1, <2>2 DEF DrainInput
<1>11. ASSUME NEW dirty \in BOOLEAN, EngineTick(dirty) PROVE TypeOK'
  BY <1>11 DEF EngineTick
<1>12. ASSUME NEW winner \in Side, GameOver(winner) PROVE TypeOK'
  BY <1>12 DEF GameOver, Break
<1>13. CASE SendSnapshots
  <2>1. pc' \in {"control", "closing"} /\ outcome' \in Side \cup {"none"}
    BY <1>13 DEF SendSnapshots, Break, Side
  <2>2. grace' \in {NoGrace} \cup 0 .. GraceTicks
    BY <1>13, ConstantsAssumption DEF SendSnapshots, GraceOnDrop
  <2>3. frame' \in 0 .. ProbeEvery - 1
    BY <1>13, NextFrameType DEF SendSnapshots
  <2>4. /\ wantKeyframe' \in [Side -> BOOLEAN]
        /\ stale' \in [Side -> BOOLEAN]
        /\ connected' \in [Side -> BOOLEAN]
    <3>1. wantKeyframe' \in [Side -> BOOLEAN]
      BY <1>13 DEF SendSnapshots
    <3>2. stale' \in [Side -> BOOLEAN]
      BY <1>13 DEF SendSnapshots
    <3>3. connected' \in [Side -> BOOLEAN]
      <4>1. connected' = [s \in Side |-> owner[s] \in open[s]]
        BY <1>13 DEF SendSnapshots, Attached
      <4>2. \A s \in Side : (owner[s] \in open[s]) \in BOOLEAN
        OBVIOUS
      <4> QED
        BY <4>1, <4>2
    <3> QED
      BY <3>1, <3>2, <3>3
  <2> QED
    <3>1. UNCHANGED <<netVars, inputs, control, owner, granted, forfeitBy, over, ack, told>>
      BY <1>13 DEF SendSnapshots
    <3> QED
      BY <2>1, <2>2, <2>3, <2>4, <3>1
<1>14. CASE SkipSend
  BY <1>14, NextFrameType DEF SkipSend
<1>15. CASE Settle
  BY <1>15 DEF Settle
<1>16. CASE UNCHANGED vars
  BY <1>16
<1> QED
  <2>1. ASSUME NEW s \in Side, LeaveMatch(s) \/ Resync(s) \/ AdminGrant(s) \/ Spectate
        PROVE  TypeOK'
    BY <1>4, <2>1, ControlMessages DEF LeaveMatch, Resync, AdminGrant, Spectate
  <2>2. Spectate => TypeOK'
    BY <2>1 DEF Side
  <2>3. CASE Environment
    BY <1>1, <1>2, <1>3, <2>1, <2>2, <2>3 DEF Environment
  <2>4. CASE Loop
    BY <1>5, <1>6, <1>7, <1>8, <1>9, <1>10, <1>11, <1>12, <1>13, <1>14, <1>15, <2>4
       DEF Loop
  <2> QED
    BY <1>16, <2>3, <2>4 DEF Next, Ended

\* Every reachable state of the match is well typed.
THEOREM TypeCorrect == Spec => []TypeOK
BY TypeInit, TypeStep, PTL DEF Spec

-----------------------------------------------------------------------------
(* What the sockets can do to the loop: nothing but fill its channels,     *)
(* close connections and open ones with numbers never used before.         *)

Fresh(s) == {k \in Conn : k > made[s]}

\* What everything outside the loop may touch: channels grow at their end,
\* sockets close, fresh ones open, and no variable of the loop changes.
LEMMA EnvironmentFrame ==
    ASSUME TypeOK, Environment
    PROVE  /\ UNCHANGED loopVars
           /\ \A s \in Side : made[s] <= made'[s]
           /\ \A s \in Side : open'[s] \subseteq open[s] \cup Fresh(s)
           /\ \/ control' = control
              \/ \E m \in Control :
                    /\ control' = Append(control, m)
                    /\ m.kind = "Reattach" =>
                          m.side \in Human /\ m.conn <= made'[m.side]
<1> USE DEF TypeOK
<1>a. made \in [Side -> Nat]
  BY DEF Conn
<1>1. ASSUME NEW s \in Side, NEW k \in Conn, WriterStops(s, k)
      PROVE  /\ UNCHANGED <<loopVars, made, control>>
             /\ \A t \in Side : open'[t] \subseteq open[t]
  BY <1>1 DEF WriterStops
<1>2. ASSUME NEW s \in Side, NEW k \in Conn, ReaderStops(s, k) \/ SendInput(s, k)
      PROVE  UNCHANGED <<loopVars, made, open, control>>
  BY <1>2 DEF ReaderStops, SendInput
<1>3. ASSUME NEW m \in Control, m.kind # "Reattach", Ask(m)
      PROVE  /\ UNCHANGED <<loopVars, made, open>>
             /\ control' = control \/ control' = Append(control, m)
  BY <1>3 DEF Ask, TrySend
<1>4. ASSUME NEW s \in Side, Rejoin(s)
      PROVE  /\ UNCHANGED loopVars
             /\ \A t \in Side : made[t] <= made'[t]
             /\ \A t \in Side : open'[t] \subseteq open[t] \cup Fresh(t)
             /\ \/ control' = control
                \/ \E m \in Control :
                      /\ control' = Append(control, m)
                      /\ m.side \in Human /\ m.conn <= made'[m.side]
  <2>1. made[s] + 1 \in Fresh(s)
    BY <1>4, ConstantsAssumption DEF Rejoin, Fresh, Conn
  <2>2. made' = [made EXCEPT ![s] = made[s] + 1]
    BY <1>4 DEF Rejoin
  <2>3. \A t \in Side : made[t] <= made'[t]
    <3> SUFFICES ASSUME NEW t \in Side PROVE made[t] <= made'[t]
      OBVIOUS
    <3>1. made[t] \in Nat
      BY <1>a
    <3>2. made'[t] = made[t] \/ made'[t] = made[t] + 1
      BY <2>2, <1>a
    <3> QED
      BY <3>1, <3>2, SMTT(30)
  <2>4. open' = [open EXCEPT ![s] = @ \cup {made[s] + 1}]
    BY <1>4 DEF Rejoin
  <2>5. \A t \in Side : open'[t] \subseteq open[t] \cup Fresh(t)
    BY <2>1, <2>4
  <2> DEFINE m == [kind |-> "Reattach", side |-> s, conn |-> made[s] + 1]
  <2>6. m \in Control /\ m.side \in Human /\ m.conn <= made'[m.side]
    <3>1. made[s] + 1 \in Conn
      BY <2>1 DEF Fresh
    <3>2. m \in Control
      BY <3>1, ControlMessages
    <3>3. s \in Human
      BY <1>4 DEF Rejoin
    <3>4. made'[s] = made[s] + 1 /\ made[s] + 1 <= made[s] + 1
      BY <2>2, <1>a
    <3> QED
      BY <3>2, <3>3, <3>4
  <2>7. control' = control \/ control' = Append(control, m)
    BY <1>4 DEF Rejoin, TrySend
  <2>8. UNCHANGED loopVars
    BY <1>4 DEF Rejoin
  <2> QED
    BY <2>3, <2>5, <2>6, <2>7, <2>8
<1>5. \A t \in Side : made[t] <= made[t]
  BY <1>a
<1>6. ASSUME NEW s \in Side, LeaveMatch(s) \/ Resync(s) \/ AdminGrant(s) \/ Spectate
      PROVE  \E m \in Control : m.kind # "Reattach" /\ Ask(m)
  BY <1>6, ControlMessages DEF LeaveMatch, Resync, AdminGrant, Spectate
<1>7. Spectate => \E m \in Control : m.kind # "Reattach" /\ Ask(m)
  BY <1>6 DEF Side
<1> QED
  BY <1>1, <1>2, <1>3, <1>4, <1>5, <1>6, <1>7 DEF Environment

\* The loop makes no connection and closes none.
LEMMA LoopFrame == Loop => UNCHANGED <<made, open>>
BY DEF Loop, HandleControl, BreakForfeit, GraceExpires, FrozenIteration, BeginTick,
       DrainInput, EngineTick, GameOver, SendSnapshots, SkipSend, Settle, netVars

-----------------------------------------------------------------------------
(* The strengthening.                                                      *)

\* The connections the loop and its channel name have all been opened, so a
\* connection opened later is none of them; only humans rejoin.
ConnsMade ==
    /\ \A s \in Side : owner[s] <= made[s]
    /\ \A i \in DOMAIN control : control[i].kind = "Reattach" =>
          control[i].side \in Human /\ control[i].conn <= made[control[i].side]

\* Connections stay numbered as they are made.
LEMMA ConnsMadeStep == TypeOK /\ ConnsMade /\ [Next]_vars => ConnsMade'
<1> SUFFICES ASSUME TypeOK, ConnsMade, [Next]_vars PROVE ConnsMade'
  OBVIOUS
<1>a. /\ made \in [Side -> Nat] /\ owner \in [Side -> Nat]
      /\ control \in Seq(Control)
      /\ \A m \in Control : m.kind = "Reattach" => m.side \in Side /\ m.conn \in Nat
  <2>1. Conn \subseteq Nat
    BY DEF Conn
  <2>2. /\ made \in [Side -> Conn] /\ owner \in [Side -> Conn]
        /\ control \in Seq(Control)
    BY DEF TypeOK
  <2>3. \A m \in Control : m.kind = "Reattach" => m.side \in Side /\ m.conn \in Conn
    BY ControlFields
  <2> QED
    BY <2>1, <2>2, <2>3
<1>b. made' \in [Side -> Nat]
  <2>1. TypeOK'
    BY TypeStep
  <2>2. made' \in [Side -> Conn]
    BY <2>1 DEF TypeOK
  <2> QED
    BY <2>2 DEF Conn
<1>1. CASE Environment
  <2>1. \A s \in Side : made[s] <= made'[s]
    BY <1>1, EnvironmentFrame
  <2>2. owner' = owner
    BY <1>1, EnvironmentFrame DEF loopVars
  <2>3. \A s \in Side : owner'[s] <= made'[s]
    BY <1>a, <1>b, <2>1, <2>2 DEF ConnsMade
  <2>4. \A i \in DOMAIN control : control[i].kind = "Reattach" =>
           control[i].side \in Human /\ control[i].conn <= made'[control[i].side]
    <3> SUFFICES ASSUME NEW i \in DOMAIN control, control[i].kind = "Reattach"
                 PROVE  control[i].side \in Human
                          /\ control[i].conn <= made'[control[i].side]
      OBVIOUS
    <3>1. control[i] \in Control
      BY <1>a
    <3>2. control[i].side \in Side /\ control[i].conn \in Nat
      BY <1>a, <3>1
    <3>3. control[i].side \in Human /\ control[i].conn <= made[control[i].side]
      BY DEF ConnsMade
    <3>4. made[control[i].side] <= made'[control[i].side]
      BY <2>1, <3>2
    <3>5. made[control[i].side] \in Nat /\ made'[control[i].side] \in Nat
      BY <1>a, <1>b, <3>2
    <3> QED
      BY <3>2, <3>3, <3>4, <3>5
  <2>5. CASE control' = control
    BY <2>3, <2>4, <2>5 DEF ConnsMade
  <2>6. ASSUME NEW m \in Control, control' = Append(control, m),
               m.kind = "Reattach" => m.side \in Human /\ m.conn <= made'[m.side]
        PROVE  ConnsMade'
    <3>1. \A i \in DOMAIN control' :
             (i \in DOMAIN control /\ control'[i] = control[i]) \/ control'[i] = m
      BY <1>a, <2>6
    <3> QED
      BY <2>3, <2>4, <2>6, <3>1 DEF ConnsMade
  <2> QED
    BY <1>1, <2>5, <2>6, EnvironmentFrame
<1>2. CASE HandleControl
  <2>1. /\ control # <<>> /\ control' = Tail(control) /\ made' = made
        /\ Head(control) = control[1] /\ 1 \in DOMAIN control /\ control[1] \in Control
    BY <1>2, <1>a DEF HandleControl
  <2>2. \A i \in DOMAIN control' : i + 1 \in DOMAIN control /\ control'[i] = control[i + 1]
    BY <1>a, <2>1
  <2>3. \/ owner' = owner
        \/ /\ control[1].kind = "Reattach"
           /\ owner' = [owner EXCEPT ![control[1].side] = control[1].conn]
    BY <1>2, <2>1 DEF HandleControl, Reattach, Forfeit, DebugGrant, GrantResync, AddSpectator
  <2>4. \A s \in Side : owner'[s] <= made'[s]
    BY <1>a, <2>1, <2>3 DEF ConnsMade
  <2> QED
    BY <2>1, <2>2, <2>4 DEF ConnsMade
<1>3. CASE Loop /\ ~HandleControl
  <2>1. UNCHANGED <<made, owner, control>>
    BY <1>3 DEF Loop, BreakForfeit, GraceExpires, FrozenIteration, BeginTick, DrainInput,
       EngineTick, GameOver, SendSnapshots, SkipSend, Settle, netVars
  <2> QED
    BY <2>1 DEF ConnsMade
<1>4. CASE UNCHANGED vars
  BY <1>4 DEF ConnsMade, vars, netVars, loopVars
<1> QED
  BY <1>1, <1>2, <1>3, <1>4 DEF Next, Ended

\* The connection a side plays with is none of its fresh ones.
LEMMA OwnerNotFresh ==
    ASSUME TypeOK, ConnsMade, NEW s \in Side
    PROVE  owner[s] \notin Fresh(s)
<1>1. owner[s] \in Conn /\ made[s] \in Conn
  BY DEF TypeOK
<1>2. owner[s] \in Nat /\ made[s] \in Nat
  BY <1>1 DEF Conn
<1>3. owner[s] <= made[s]
  BY DEF ConnsMade
<1> QED
  BY <1>2, <1>3 DEF Fresh

\* Past the head of an iteration nobody is missing and nobody has left.
AttachedInTick ==
    pc \in {"inputs", "send"} => forfeitBy = "none" /\ \A s \in Side : connected[s]

\* Inside a tick both sides stay connected and nobody has forfeited.
LEMMA AttachedInTickStep == AttachedInTick /\ TypeOK /\ [Next]_vars => AttachedInTick'
<1> SUFFICES ASSUME AttachedInTick, TypeOK, [Next]_vars PROVE AttachedInTick'
  OBVIOUS
<1>1. CASE Environment
  BY <1>1, EnvironmentFrame DEF AttachedInTick, loopVars
<1>2. CASE HandleControl
  BY <1>2 DEF HandleControl, AttachedInTick
<1>3. CASE BreakForfeit \/ GraceExpires \/ Settle \/ \E winner \in Side : GameOver(winner)
  BY <1>3 DEF BreakForfeit, GraceExpires, Settle, GameOver, Break, AttachedInTick
<1>4. CASE FrozenIteration \/ SkipSend
  BY <1>4 DEF FrozenIteration, SkipSend, Idle, AttachedInTick
<1>5. CASE BeginTick
  BY <1>5 DEF BeginTick, Idle, Frozen, AttachedInTick
<1>6. CASE DrainInput \/ \E dirty \in BOOLEAN : EngineTick(dirty)
  BY <1>6 DEF DrainInput, EngineTick, AttachedInTick
<1>7. CASE SendSnapshots
  BY <1>7 DEF SendSnapshots, Break, AttachedInTick
<1>8. CASE UNCHANGED vars
  BY <1>8 DEF vars, loopVars, AttachedInTick
<1> QED
  BY <1>1, <1>2, <1>3, <1>4, <1>5, <1>6, <1>7, <1>8 DEF Next, Loop, Ended

\* The verdict: none while the loop runs, and its absence means nobody stayed;
\* a top-out has been sent to both.
VerdictKnown ==
    /\ Running => outcome = "none" /\ ~over
    /\ over => \A s \in Side : told[s]
    /\ pc = "closing" /\ outcome = "none" => \A s \in Side : ~connected[s]

\* A verdict is given where the loop breaks, and a top-out tells both.
LEMMA VerdictKnownStep == VerdictKnown /\ TypeOK /\ [Next]_vars => VerdictKnown'
<1> SUFFICES ASSUME VerdictKnown, TypeOK, [Next]_vars PROVE VerdictKnown'
  OBVIOUS
<1> USE DEF VerdictKnown, Running
<1>1. CASE Environment
  BY <1>1, EnvironmentFrame DEF loopVars
<1>2. CASE HandleControl
  BY <1>2 DEF HandleControl
<1>3. CASE BreakForfeit
  BY <1>3 DEF BreakForfeit, Break, Other
<1>4. CASE GraceExpires
  BY <1>4 DEF GraceExpires, Idle, Break, Stayer, Side
<1>5. CASE FrozenIteration \/ SkipSend \/ BeginTick \/ DrainInput
                \/ \E dirty \in BOOLEAN : EngineTick(dirty)
  BY <1>5 DEF FrozenIteration, SkipSend, BeginTick, DrainInput, EngineTick, Idle
<1>6. ASSUME NEW winner \in Side, GameOver(winner) PROVE VerdictKnown'
  BY <1>6 DEF GameOver, Break, Side
<1>7. CASE SendSnapshots
  BY <1>7 DEF SendSnapshots, Break
<1>8. CASE Settle
  BY <1>8 DEF Settle
<1>9. CASE UNCHANGED vars
  BY <1>9 DEF vars, loopVars
<1> QED
  BY <1>1, <1>2, <1>3, <1>4, <1>5, <1>6, <1>7, <1>8, <1>9 DEF Next, Loop, Ended

-----------------------------------------------------------------------------
(* The safety invariants, each with the parts of the strengthening its     *)
(* step needs.                                                             *)

\* Every step keeps a freeze and its deadline together.
LEMMA FreezeStep ==
    FreezeHasDeadline /\ AttachedInTick /\ TypeOK /\ [Next]_vars => FreezeHasDeadline'
<1> SUFFICES ASSUME FreezeHasDeadline, AttachedInTick, TypeOK, [Next]_vars
             PROVE  FreezeHasDeadline'
  OBVIOUS
<1> USE DEF FreezeHasDeadline, Running, Frozen
<1>1. CASE Environment
  BY <1>1, EnvironmentFrame DEF loopVars
<1>2. CASE HandleControl
  <2> DEFINE m == Head(control)
  <2>1. m \in Control /\ pc = "control" /\ pc' = pc
    BY <1>2 DEF HandleControl, TypeOK
  <2>2. CASE UNCHANGED <<connected, grace>>
    BY <2>1, <2>2
  <2>3. CASE m.kind = "Reattach" /\ Reattach(m)
    <3>1. connected' = [connected EXCEPT ![m.side] = TRUE]
      BY <2>3 DEF Reattach
    <3>2. m.side \in Side /\ connected'[m.side]
           /\ \A s \in Side \ {m.side} : connected'[s] = connected[s]
      BY <2>1, <2>3, <3>1, ControlFields DEF TypeOK
    <3>3. grace' = IF \A s \in Side : connected'[s] THEN NoGrace ELSE grace
      BY <2>3, <3>1 DEF Reattach, GraceAfter
    <3>4. CASE \A s \in Side : connected'[s]
      BY <3>3, <3>4
    <3>5. CASE \E s \in Side : ~connected'[s]
      BY <2>1, <3>2, <3>3, <3>5
    <3> QED
      BY <3>4, <3>5
  <2> QED
    BY <1>2, <2>2, <2>3
       DEF HandleControl, Forfeit, DebugGrant, GrantResync, AddSpectator
<1>3. CASE BreakForfeit \/ GraceExpires \/ Settle \/ \E winner \in Side : GameOver(winner)
  BY <1>3 DEF BreakForfeit, GraceExpires, Settle, GameOver, Break
<1>4. CASE FrozenIteration
  <2>1. pc = "control" /\ Frozen /\ grace \in 1 .. GraceTicks /\ grace' = grace - 1
    BY <1>4, ConstantsAssumption DEF FrozenIteration, Idle, TypeOK, NoGrace
  <2>2. \A s \in Side : connected'[s] => connected[s]
    BY <1>4 DEF FrozenIteration
  <2> QED
    BY <2>1, <2>2, ConstantsAssumption DEF NoGrace
<1>5. CASE BeginTick \/ DrainInput \/ SkipSend \/ \E dirty \in BOOLEAN : EngineTick(dirty)
  BY <1>5 DEF BeginTick, DrainInput, SkipSend, EngineTick, Idle
<1>6. CASE SendSnapshots
  <2>1. grace = NoGrace
    BY <1>6 DEF SendSnapshots, AttachedInTick
  <2>2. connected' = [s \in Side |-> Attached(s)]
    BY <1>6 DEF SendSnapshots
  <2>3. CASE \A s \in Side : Attached(s)
    BY <1>6, <2>1, <2>2, <2>3 DEF SendSnapshots
  <2>4. CASE pc' = "closing"
    BY <2>4
  <2>5. CASE (\E s \in Side : ~Attached(s)) /\ pc' # "closing"
    <3>1. grace' = GraceOnDrop
      BY <1>6, <2>5 DEF SendSnapshots, Break
    <3>2. grace' # NoGrace
      BY <2>1, <3>1, ConstantsAssumption DEF GraceOnDrop, NoGrace
    <3> QED
      BY <2>2, <2>5, <3>2
  <2> QED
    BY <2>3, <2>4, <2>5
<1>7. CASE UNCHANGED vars
  BY <1>7 DEF vars, loopVars
<1> QED
  BY <1>1, <1>2, <1>3, <1>4, <1>5, <1>6, <1>7 DEF Next, Loop, Ended

\* Every step counts as away only a side whose socket is dead.
LEMMA OnlyDeadStep ==
    OnlyDeadSocketsAreDown /\ ConnsMade /\ TypeOK /\ [Next]_vars => OnlyDeadSocketsAreDown'
<1> SUFFICES ASSUME OnlyDeadSocketsAreDown, ConnsMade, TypeOK, [Next]_vars
             PROVE  OnlyDeadSocketsAreDown'
  OBVIOUS
<1> USE DEF OnlyDeadSocketsAreDown
<1>1. CASE Environment
  <2> SUFFICES ASSUME NEW s \in Side, owner[s] \notin open[s]
               PROVE  owner[s] \notin open'[s]
    BY <1>1, EnvironmentFrame DEF loopVars
  <2>1. owner[s] \notin Fresh(s)
    BY OwnerNotFresh
  <2> QED
    BY <1>1, <2>1, EnvironmentFrame
<1>2. CASE HandleControl
  <2> DEFINE m == Head(control)
  <2>1. m \in Control /\ open' = open
    BY <1>2, LoopFrame DEF HandleControl, TypeOK, Loop
  <2>2. CASE m.kind = "Reattach" /\ Reattach(m)
    <3>1. m.side \in Side
      BY <2>1, <2>2, ControlFields
    <3>2. /\ owner' = [owner EXCEPT ![m.side] = m.conn]
          /\ connected' = [connected EXCEPT ![m.side] = TRUE]
      BY <2>2 DEF Reattach
    <3>3. \A s \in Side : ~connected'[s] => ~connected[s] /\ owner'[s] = owner[s]
      BY <3>1, <3>2 DEF TypeOK
    <3> QED
      BY <2>1, <3>3
  <2>3. CASE UNCHANGED <<owner, connected>>
    BY <2>1, <2>3
  <2> QED
    BY <1>2, <2>2, <2>3
       DEF HandleControl, Forfeit, DebugGrant, GrantResync, AddSpectator
<1>3. CASE FrozenIteration
  <2>1. UNCHANGED <<owner, open>>
    BY <1>3, LoopFrame DEF FrozenIteration, Loop
  <2>2. \A s \in Side : ~connected'[s] => ~connected[s] \/ owner[s] \notin open[s]
    BY <1>3 DEF FrozenIteration, Attached
  <2> QED
    BY <2>1, <2>2
<1>4. CASE SendSnapshots
  <2>1. UNCHANGED <<owner, open>>
    BY <1>4, LoopFrame DEF SendSnapshots, Loop
  <2>2. \A s \in Side : connected'[s] <=> owner[s] \in open[s]
    BY <1>4 DEF SendSnapshots, Attached
  <2> QED
    BY <2>1, <2>2
<1>5. CASE Loop /\ ~HandleControl /\ ~FrozenIteration /\ ~SendSnapshots
  <2>1. UNCHANGED <<owner, open, connected>>
    BY <1>5 DEF Loop, BreakForfeit, GraceExpires, BeginTick, DrainInput, EngineTick,
       GameOver, SkipSend, Settle, netVars
  <2> QED
    BY <2>1
<1>6. CASE UNCHANGED vars
  BY <1>6 DEF vars, netVars, loopVars
<1> QED
  BY <1>1, <1>2, <1>3, <1>4, <1>5, <1>6 DEF Next, Ended

\* Every step keeps the keyframe a side is owed.
LEMMA KeyframeStep ==
    KeyframeOwed /\ AttachedInTick /\ TypeOK /\ [Next]_vars => KeyframeOwed'
<1> SUFFICES ASSUME KeyframeOwed, AttachedInTick, TypeOK, [Next]_vars
             PROVE  KeyframeOwed'
  OBVIOUS
<1> USE DEF KeyframeOwed, Running
<1>1. CASE Environment
  BY <1>1, EnvironmentFrame DEF loopVars
<1>2. CASE HandleControl
  <2> DEFINE m == Head(control)
  <2>1. m \in Control /\ pc = "control"
    BY <1>2 DEF HandleControl, TypeOK
  <2>2. CASE m.kind = "Reattach" /\ Reattach(m)
    <3>1. m.side \in Side /\ \A s \in Side : s # m.side => connected'[s] = connected[s]
      BY <2>1, <2>2, ControlFields DEF Reattach, TypeOK
    <3>2. CASE wantKeyframe' = [s \in Side |-> TRUE]
      BY <3>2
    <3>3. CASE wantKeyframe' = wantKeyframe
      <4>1. \A s \in Side : stale'[s] => s # m.side /\ stale[s]
        BY <2>2 DEF Reattach
      <4> QED
        BY <2>1, <3>1, <3>3, <4>1
    <3> QED
      BY <2>2, <3>2, <3>3 DEF Reattach
  <2>3. CASE m.kind = "DebugGrant" /\ DebugGrant(m)
    BY <2>3 DEF DebugGrant
  <2>4. CASE m.kind = "Resync" /\ GrantResync(m)
    <3>1. UNCHANGED <<connected, stale>>
      BY <2>4 DEF GrantResync
    <3>2. \A s \in Side : wantKeyframe[s] => wantKeyframe'[s]
      BY <2>4 DEF GrantResync, TypeOK
    <3> QED
      BY <2>1, <3>1, <3>2
  <2>5. CASE UNCHANGED <<connected, stale, wantKeyframe>>
    BY <2>1, <2>5
  <2> QED
    BY <1>2, <2>2, <2>3, <2>4, <2>5 DEF HandleControl, Forfeit, AddSpectator
<1>3. CASE BreakForfeit \/ GraceExpires \/ Settle \/ \E winner \in Side : GameOver(winner)
  BY <1>3 DEF BreakForfeit, GraceExpires, Settle, GameOver, Break
<1>4. CASE FrozenIteration
  <2>1. \A s \in Side : connected'[s] => connected[s]
    BY <1>4 DEF FrozenIteration
  <2> QED
    BY <1>4, <2>1 DEF FrozenIteration, Idle
<1>5. CASE BeginTick \/ DrainInput \/ SkipSend
  BY <1>5 DEF BeginTick, DrainInput, SkipSend, Idle
<1>6. ASSUME NEW dirty \in BOOLEAN, EngineTick(dirty) PROVE KeyframeOwed'
  <2>1. pc = "inputs" /\ connected' = connected
    BY <1>6 DEF EngineTick
  <2>2. \A s \in Side : /\ stale'[s] <=> (stale[s] \/ dirty)
                        /\ wantKeyframe'[s] <=> (wantKeyframe[s] \/ dirty)
    BY <1>6 DEF EngineTick
  <2> QED
    BY <2>1, <2>2
<1>7. CASE SendSnapshots
  <2>1. pc = "send" /\ \A s \in Side : connected[s]
    BY <1>7 DEF SendSnapshots, AttachedInTick
  <2>2. \A s \in Side : connected'[s] /\ stale'[s] => stale[s] /\ ~wantKeyframe[s]
    BY <1>7 DEF SendSnapshots
  <2> QED
    BY <2>1, <2>2
<1>8. CASE UNCHANGED vars
  BY <1>8 DEF vars, loopVars
<1> QED
  BY <1>1, <1>2, <1>3, <1>4, <1>5, <1>6, <1>7, <1>8 DEF Next, Loop, Ended

\* The steps to the end of the task tell every player still attached.
LEMMA AnnouncedStep ==
    EndIsAnnounced /\ OnlyDeadSocketsAreDown /\ ConnsMade /\ VerdictKnown /\ TypeOK
        /\ [Next]_vars => EndIsAnnounced'
<1> SUFFICES ASSUME EndIsAnnounced, OnlyDeadSocketsAreDown, ConnsMade, VerdictKnown,
                    TypeOK, [Next]_vars
             PROVE  EndIsAnnounced'
  OBVIOUS
<1> USE DEF EndIsAnnounced
<1>1. CASE Environment
  <2> SUFFICES ASSUME NEW s \in Side, pc = "done", owner[s] \in open'[s]
               PROVE  told[s]
    BY <1>1, EnvironmentFrame DEF loopVars
  <2>1. owner[s] \notin Fresh(s)
    BY OwnerNotFresh
  <2> QED
    BY <1>1, <2>1, EnvironmentFrame
<1>2. CASE Settle
  <2>1. UNCHANGED <<owner, open>> /\ pc = "closing"
    BY <1>2 DEF Settle
  <2>2. CASE AnnounceLeft
    BY <1>2, <2>2 DEF Settle
  <2>3. CASE ~AnnounceLeft /\ over
    BY <1>2, <2>3 DEF Settle, VerdictKnown
  <2>4. CASE ~AnnounceLeft /\ ~over
    BY <2>1, <2>4 DEF AnnounceLeft, VerdictKnown, OnlyDeadSocketsAreDown
  <2> QED
    BY <2>2, <2>3, <2>4
<1>3. CASE Loop /\ ~Settle
  BY <1>3 DEF Loop, HandleControl, BreakForfeit, GraceExpires, FrozenIteration, BeginTick,
     DrainInput, EngineTick, GameOver, SendSnapshots, SkipSend, Break, Idle
<1>4. CASE UNCHANGED vars
  BY <1>4 DEF vars, netVars, loopVars
<1> QED
  BY <1>1, <1>2, <1>3, <1>4 DEF Next, Ended

-----------------------------------------------------------------------------
(* The inductive invariant.                                                *)

IInv ==
    /\ TypeOK
    /\ ConnsMade
    /\ AttachedInTick
    /\ VerdictKnown
    /\ FreezeHasDeadline
    /\ OnlyDeadSocketsAreDown
    /\ KeyframeOwed
    /\ EndIsAnnounced

\* A match that has just started satisfies the invariant.
LEMMA InvInit == Init => IInv
<1> SUFFICES ASSUME Init PROVE IInv
  OBVIOUS
<1>1. ConnsMade
  BY DEF Init, ConnsMade
<1>2. AttachedInTick /\ VerdictKnown /\ KeyframeOwed /\ EndIsAnnounced
  BY DEF Init, AttachedInTick, VerdictKnown, KeyframeOwed, EndIsAnnounced, Running
<1>3. FreezeHasDeadline /\ OnlyDeadSocketsAreDown
  BY DEF Init, FreezeHasDeadline, Running, Frozen, OnlyDeadSocketsAreDown
<1> QED
  BY <1>1, <1>2, <1>3, TypeInit DEF IInv

\* Every step keeps the invariant.
LEMMA InvStep == IInv /\ [Next]_vars => IInv'
BY TypeStep, ConnsMadeStep, AttachedInTickStep, VerdictKnownStep, FreezeStep,
   OnlyDeadStep, KeyframeStep, AnnouncedStep DEF IInv

\* The invariant holds in every reachable state.
LEMMA InvAlways == Spec => []IInv
BY InvInit, InvStep, PTL DEF Spec

\* A freeze always has its deadline and a running match none: the assumption
\* the frozen branch of run_bout states in its comment.
THEOREM FreezeAlwaysHasDeadline == Spec => []FreezeHasDeadline
<1>1. IInv => FreezeHasDeadline
  BY DEF IInv
<1> QED
  BY <1>1, InvAlways, PTL

\* A side the loop counts as away, and may declare the loser, has no live
\* socket, however many connections its player opens.
THEOREM NoLiveSocketIsDown == Spec => []OnlyDeadSocketsAreDown
<1>1. IInv => OnlyDeadSocketsAreDown
  BY DEF IInv
<1> QED
  BY <1>1, InvAlways, PTL

\* A client that missed an effect it could not predict is owed a keyframe:
\* keyframes are sent on a trigger only, and no trigger is lost.
THEOREM KeyframesAreNotLost == Spec => []KeyframeOwed
<1>1. IInv => KeyframeOwed
  BY DEF IInv
<1> QED
  BY <1>1, InvAlways, PTL

\* When the task of a match returns, every player attached to it has been
\* told how it ended.
THEOREM EndReachesEveryone == Spec => []EndIsAnnounced
<1>1. IInv => EndIsAnnounced
  BY DEF IInv
<1> QED
  BY <1>1, InvAlways, PTL

-----------------------------------------------------------------------------
(* The loop implements BoutLife.                                           *)

Away == {s \in Side : ~connected[s]}

\* A match that has just started is the start of a life.
LEMMA LifeOfInit == Init => Life!LifeInit
BY DEF Init, Life!LifeInit, Phase, Reason, Running, Frozen

\* Only the verdict and the loop's own beliefs show in the life of a match.
LEMMA QuietStep ==
    ASSUME UNCHANGED <<connected, outcome>>,
           Running /\ Running'
    PROVE  UNCHANGED Life!lifeVars
BY DEF Life!lifeVars, Phase, Reason, Running, Frozen

\* Every step of a match is a step of its life or a stutter.
LEMMA LifeStep == IInv /\ [Next]_vars => [Life!LifeNext]_(Life!lifeVars)
<1> SUFFICES ASSUME IInv, [Next]_vars PROVE [Life!LifeNext]_(Life!lifeVars)
  OBVIOUS
<1>t. TypeOK /\ Life!Sides = Side /\ \A s : Life!Opponent(s) = Other(s)
  BY DEF IInv, Life!Sides, Side, Life!Opponent, Other
<1>1. CASE Environment \/ UNCHANGED vars
  <2>1. UNCHANGED loopVars
    BY <1>1, <1>t, EnvironmentFrame DEF vars
  <2> QED
    <3>1. UNCHANGED <<connected, outcome, forfeitBy, over>> /\ pc' = pc
      BY <2>1 DEF loopVars
    <3>2. UNCHANGED Life!lifeVars
      BY <3>1 DEF Life!lifeVars, Phase, Reason, Running, Frozen
    <3> QED
      BY <3>2
<1>2. CASE HandleControl
  <2> DEFINE m == Head(control)
  <2>1. /\ m \in Control /\ pc = "control" /\ pc' = "control" /\ outcome' = outcome
        /\ m = control[1] /\ 1 \in DOMAIN control
    BY <1>2, <1>t DEF HandleControl, TypeOK
  <2>2. CASE UNCHANGED connected
    BY <2>1, <2>2, QuietStep DEF Running
  <2>3. CASE m.kind = "Reattach" /\ Reattach(m)
    <3>1. m.side \in Human /\ m.side \in Side
      BY <2>1, <2>3, ControlFields DEF IInv, ConnsMade
    <3>2. connected' = [connected EXCEPT ![m.side] = TRUE]
      BY <2>3 DEF Reattach
    <3>3. Away' = Away \ {m.side}
      BY <3>1, <3>2, <1>t DEF Away, TypeOK
    <3>4. CASE Frozen
      <4>1. PICK s \in Human \cap Side : s = m.side
        BY <3>1
      <4>2. Life!Return(s)
        BY <2>1, <3>3, <3>4, <4>1 DEF Life!Return, Phase, Reason, Running, Frozen, Away
      <4> QED
        BY <1>t, <4>2 DEF Life!LifeNext
    <3>5. CASE ~Frozen
      <4>1. connected' = connected
        BY <3>1, <3>2, <3>5, <1>t DEF Frozen, TypeOK
      <4> QED
        BY <2>2, <4>1
    <3> QED
      BY <3>4, <3>5
  <2> QED
    BY <1>2, <2>2, <2>3
       DEF HandleControl, Forfeit, DebugGrant, GrantResync, AddSpectator
<1>3. CASE BreakForfeit
  <2>1. forfeitBy \in Side /\ ~over /\ pc = "control" /\ pc' = "closing"
        /\ outcome' = Other(forfeitBy) /\ UNCHANGED <<connected, forfeitBy, over>>
    BY <1>3, <1>t DEF BreakForfeit, Break, IInv, VerdictKnown, Running, TypeOK
  <2>2. Life!Leave(forfeitBy)
    BY <2>1, <1>t DEF Life!Leave, Life!Live, Life!Decide, Phase, Reason, Running, Side
  <2> QED
    BY <2>1, <2>2, <1>t DEF Life!LifeNext
<1>4. CASE GraceExpires
  <2>1. /\ forfeitBy = "none" /\ ~over /\ pc = "control" /\ pc' = "closing" /\ Frozen
        /\ outcome' = Stayer /\ UNCHANGED <<connected, forfeitBy, over>>
    BY <1>4 DEF GraceExpires, Idle, Break, IInv, VerdictKnown, Running
  <2>2. Stayer \in Side \ Away \/ (Stayer = "none" /\ Away = Side)
    <3>1. CASE connected["A"]
      <4>1. Stayer = "A"
        BY <3>1 DEF Stayer
      <4>2. "A" \in Side /\ "A" \notin Away
        BY <3>1 DEF Away, Side
      <4>3. Stayer \in Side \ Away
        BY <4>1, <4>2
      <4> QED
        BY <4>3
    <3>2. CASE ~connected["A"] /\ connected["B"]
      <4>1. Stayer = "B"
        BY <3>2 DEF Stayer
      <4>2. "B" \in Side /\ "B" \notin Away
        BY <3>2 DEF Away, Side
      <4>3. Stayer \in Side \ Away
        BY <4>1, <4>2
      <4> QED
        BY <4>3
    <3>3. CASE ~connected["A"] /\ ~connected["B"]
      BY <3>3 DEF Stayer, Away, Side
    <3> QED
      BY <3>1, <3>2, <3>3
  <2>3. Life!GiveUp
    BY <2>1, <2>2, <1>t DEF Life!GiveUp, Life!Decide, Phase, Reason, Running, Away
  <2> QED
    BY <2>3 DEF Life!LifeNext
<1>5. CASE FrozenIteration
  <2>1. /\ pc = "control" /\ pc' = "control" /\ Frozen
        /\ UNCHANGED <<outcome, forfeitBy, over>>
    BY <1>5 DEF FrozenIteration, Idle
  <2>2. Away' \in SUBSET Side /\ Away \subseteq Away'
    BY <1>5 DEF FrozenIteration, Away
  <2>3. Away' = Away \cup Away' /\ Frozen'
    BY <2>1, <2>2 DEF Away, Frozen
  <2>4. PICK S \in SUBSET Side : S = Away'
    BY <2>2
  <2>5. Life!AlsoDrop(S)
    BY <2>1, <2>3, <2>4 DEF Life!AlsoDrop, Phase, Reason, Running, Away
  <2> QED
    BY <2>5, <1>t DEF Life!LifeNext
<1>6. CASE BeginTick \/ DrainInput \/ SkipSend \/ \E dirty \in BOOLEAN : EngineTick(dirty)
  <2>1. UNCHANGED <<connected, outcome>> /\ Running /\ Running'
    BY <1>6 DEF BeginTick, DrainInput, SkipSend, EngineTick, Idle, Running
  <2> QED
    BY <2>1, QuietStep
<1>7. ASSUME NEW w \in Side, GameOver(w) PROVE [Life!LifeNext]_(Life!lifeVars)
  <2>1. /\ pc = "inputs" /\ pc' = "closing" /\ over' /\ outcome' = w
        /\ connected' = connected /\ ~Frozen
    BY <1>7 DEF GameOver, Break, IInv, AttachedInTick, Frozen
  <2>2. Life!TopOut(w)
    BY <2>1 DEF Life!TopOut, Life!Decide, Phase, Reason, Running
  <2> QED
    BY <2>2, <1>t DEF Life!LifeNext
<1>8. CASE SendSnapshots
  <2>1. /\ pc = "send" /\ forfeitBy = "none" /\ ~over /\ outcome = "none"
        /\ ~Frozen /\ Away = {} /\ Phase = "playing"
        /\ UNCHANGED <<forfeitBy, over>>
    BY <1>8 DEF SendSnapshots, IInv, AttachedInTick, VerdictKnown, Running, Frozen,
       Away, Phase
  <2>2. Away' = {s \in Side : ~Attached(s)} /\ Away' \in SUBSET Side
    BY <1>8 DEF SendSnapshots, Away
  <2>3. CASE Away' = {} /\ pc' = "control" /\ outcome' = outcome
    <3>1. Phase' = Phase /\ Reason' = Reason /\ Away' = Away
      BY <2>1, <2>3 DEF Phase, Reason, Running, Frozen, Away
    <3> QED
      BY <2>3, <3>1 DEF Life!lifeVars, Away
  <2>4. CASE /\ Away' # {} /\ Away' \cap Human = {} /\ pc' = "closing"
             /\ outcome' = IF "A" \in Away' THEN "B" ELSE "A"
    <3>1. PICK S \in SUBSET Side : S = Away'
      BY <2>2
    <3>2. Life!BotsGone(S)
      BY <2>1, <2>4, <3>1 DEF Life!BotsGone, Life!Decide, Phase, Reason, Running, Away
    <3> QED
      BY <3>2, <1>t DEF Life!LifeNext
  <2>5. CASE Away' \cap Human # {} /\ pc' = "control" /\ outcome' = outcome
    <3>1. Frozen'
      BY <2>5 DEF Away, Frozen
    <3>2. PICK S \in SUBSET Side : S = Away'
      BY <2>2
    <3>3. Life!Drop(S)
      BY <2>1, <2>5, <3>1, <3>2 DEF Life!Drop, Phase, Reason, Running, Away
    <3> QED
      BY <3>3, <1>t DEF Life!LifeNext
  <2> QED
    BY <1>8, <2>2, <2>3, <2>4, <2>5 DEF SendSnapshots, Break, Side
<1>9. CASE Settle
  <2>1. /\ pc = "closing" /\ pc' = "done"
        /\ UNCHANGED <<connected, outcome, forfeitBy, over>>
    BY <1>9 DEF Settle
  <2>2. Life!Close
    BY <2>1 DEF Life!Close, Phase, Reason, Running
  <2> QED
    BY <2>2 DEF Life!LifeNext
<1> QED
  BY <1>1, <1>2, <1>3, <1>4, <1>5, <1>6, <1>7, <1>8, <1>9 DEF Next, Loop, Ended

\* The tick loop of run_bout, with its channels, sockets and timers, keeps the
\* promise of BoutLife: freeze while a human is away, resume when nobody is,
\* end with exactly one verdict that never goes to a side counted as away.
THEOREM LoopImplementsLife == Spec => ImplementsLife
<1>1. Init => Life!LifeInit
  BY LifeOfInit
<1>2. IInv /\ [Next]_vars => [Life!LifeNext]_(Life!lifeVars)
  BY LifeStep
<1> QED
  BY <1>1, <1>2, InvAlways, PTL DEF Spec, ImplementsLife, Life!LifeSpec
=============================================================================
