------------------------ MODULE BroadcastServerProofs ------------------------
(* Theorems of BroadcastServer, for every number of connections, frames and  *)
(* every flow-control limit.                                                 *)
EXTENDS BroadcastServer, FiniteSetTheorems, TLAPS

\* A set of connections has a size, and so the loop over one is well formed.
LEMMA LoopOverType ==
  ASSUME NEW S \in SUBSET Conns
  PROVE  LoopOver(S) \in Loop
<1>1. Cardinality(S) \in Nat
  BY RelayAssumption, FS_Subset, FS_CardinalityType
<1> QED BY <1>1 DEF LoopOver, Loop

\* Replacing the set of clients keeps it and the loops well formed.
LEMMA SetClientsType ==
  ASSUME TypeOK, NEW h \in Conns, NEW new \in SUBSET Conns,
         SetClients(h, new)
  PROVE  clients' \subseteq Conns /\ loop' \in [Conns -> Loop] /\ churned' \subseteq Conns
<1>1. NoLoop \in Loop
  BY LoopOverType DEF NoLoop
<1> QED BY <1>1 DEF SetClients, TypeOK

LEMMA LeaveType ==
  ASSUME TypeOK, NEW h \in Conns, Leave(h)
  PROVE  TypeOK'
<1>1. clients \ {h} \in SUBSET Conns
  BY DEF TypeOK
<1>2. clients' \subseteq Conns /\ loop' \in [Conns -> Loop] /\ churned' \subseteq Conns
  BY <1>1, SetClientsType DEF Leave
<1> QED BY <1>2 DEF TypeOK, Leave, peerVars

LEMMA LoopUpdate ==
  ASSUME NEW l \in Loop, NEW R \in SUBSET Conns, NEW n \in Nat, NEW F \in SUBSET Conns
  PROVE  [l EXCEPT !.reached = R, !.yields = n, !.failed = F] \in Loop
BY DEF Loop

LEMMA YieldType ==
  ASSUME TypeOK, NEW h \in Conns, NEW c \in Conns, NEW fails \in BOOLEAN,
         Yield(h, c, fails)
  PROVE  loop' \in [Conns -> Loop]
<1> DEFINE R == loop[h].reached \cup {c}
           n == loop[h].yields + 1
           F == loop[h].failed \cup (IF fails THEN {c} ELSE {})
<1>1. loop[h] \in Loop /\ R \in SUBSET Conns /\ n \in Nat /\ F \in SUBSET Conns
  BY DEF TypeOK, Loop
<1>2. loop' = [loop EXCEPT ![h] =
                 [loop[h] EXCEPT !.reached = R, !.yields = n, !.failed = F]]
  BY DEF Yield
<1> HIDE DEF R, n, F
<1>3. [loop[h] EXCEPT !.reached = R, !.yields = n, !.failed = F] \in Loop
  BY <1>1, LoopUpdate
<1> QED BY <1>2, <1>3 DEF TypeOK

LEMMA WakeType ==
  ASSUME TypeOK, NEW c \in Conns, WakeWriters(c)
  PROVE  pc' \in [Conns -> Broadcasting \cup {"none", "receive", "done"}]
BY DEF TypeOK, WakeWriters, Broadcasting

\* What SendWrites does to the handler, the buffer and the writer.
LEMMA WriteFacts ==
  ASSUME NEW h \in Conns, NEW c \in Conns, SendWrites(h, c)
  PROVE  /\ outbuf' = [outbuf EXCEPT ![c] = Append(outbuf[c], <<h, taken[h]>>)]
         /\ unchecked' = [unchecked EXCEPT ![c] = IF Asks(c) THEN 0 ELSE unchecked[c] + 1]
         /\ paused' = IF Len(outbuf[c]) >= HighWater THEN paused \cup {c} ELSE paused
         /\ pc' = pc \/ pc' = [pc EXCEPT ![h] = "drain"] \/ pc' = [pc EXCEPT ![h] = "ready"]
         /\ UNCHANGED target \/ target' = [target EXCEPT ![h] = c]
         /\ pc[h] = "iterate" /\ c \notin lost
         /\ UNCHANGED <<clients, churned, taken, lost, seen>>
BY DEF SendWrites, Write, Counts, Yield

LEMMA TypeOKStep ==
  TypeOK /\ [Next]_vars => TypeOK'
<1> SUFFICES ASSUME TypeOK, [Next]_vars PROVE TypeOK'
  OBVIOUS
<1>1. CASE UNCHANGED vars
  BY <1>1 DEF vars, peerVars, TypeOK
<1>2. ASSUME NEW c \in Conns, Connect(c) PROVE TypeOK'
  <2>1. clients \cup {c} \in SUBSET Conns
    BY DEF TypeOK
  <2>2. clients' \subseteq Conns /\ loop' \in [Conns -> Loop] /\ churned' \subseteq Conns
    BY <1>2, <2>1, SetClientsType DEF Connect
  <2> QED BY <1>2, <2>2 DEF TypeOK, Connect, peerVars
<1>3. ASSUME NEW h \in Conns, TakeMessage(h) PROVE TypeOK'
  <2>1. LoopOver(clients) \in Loop
    BY LoopOverType DEF TypeOK
  <2>2. taken[h] + 1 \in 0..MaxMsgs
    BY <1>3, RelayAssumption DEF TypeOK, TakeMessage
  <2> QED BY <1>3, <2>1, <2>2 DEF TypeOK, TakeMessage, peerVars, Broadcasting
<1>4. ASSUME NEW h \in Conns, RejectFrame(h) \/ EndOfFrames(h) \/ IterationRaises(h)
      PROVE  TypeOK'
  BY <1>4, LeaveType DEF RejectFrame, EndOfFrames, IterationRaises
<1>5. ASSUME NEW h \in Conns, SendReturns(h) PROVE TypeOK'
  <2>1. ASSUME NEW d \in Conns
        PROVE  [loop EXCEPT ![h].failed = @ \cup {d}] \in [Conns -> Loop]
    BY DEF TypeOK, Loop
  <2>2. ASSUME target[h] \in lost,
               loop' = [loop EXCEPT ![h].failed = @ \cup {target[h]}]
        PROVE  loop' \in [Conns -> Loop]
    <3>1. target[h] \in Conns
      BY <2>2 DEF TypeOK
    <3> QED BY <2>1, <2>2, <3>1
  <2>3. loop' \in [Conns -> Loop]
    BY <1>5, <2>2 DEF TypeOK, SendReturns
  <2> QED BY <1>5, <2>3 DEF TypeOK, SendReturns, peerVars, Broadcasting
<1>6. ASSUME NEW h \in Conns, FinishBroadcast(h) PROVE TypeOK'
  <2>1. clients \ loop[h].failed \in SUBSET Conns
    BY DEF TypeOK
  <2>2. clients' \subseteq Conns /\ loop' \in [Conns -> Loop] /\ churned' \subseteq Conns
    BY <1>6, <2>1, SetClientsType DEF FinishBroadcast
  <2> QED BY <1>6, <2>2 DEF TypeOK, FinishBroadcast, peerVars
<1>7. ASSUME NEW h \in Conns, NEW c \in Conns, SendFails(h, c) PROVE TypeOK'
  <2>1. loop' \in [Conns -> Loop]
    BY <1>7, YieldType DEF SendFails
  <2> QED BY <1>7, <2>1 DEF TypeOK, SendFails, Yield, peerVars
<1>8. ASSUME NEW h \in Conns, NEW c \in Conns, SendWrites(h, c) PROVE TypeOK'
  <2>1. loop' \in [Conns -> Loop]
    BY <1>8, YieldType DEF SendWrites
  <2>2. outbuf' \in [Conns -> Seq(Msg)]
    <3>1. <<h, taken[h]>> \in Msg
      BY DEF TypeOK, Msg
    <3>2. Append(outbuf[c], <<h, taken[h]>>) \in Seq(Msg)
      BY <3>1 DEF TypeOK
    <3> QED BY <1>8, <3>2 DEF SendWrites, Write, TypeOK
  <2>3. paused' \subseteq Conns
    BY <1>8 DEF SendWrites, Write, TypeOK
  <2>4. pc' \in [Conns -> Broadcasting \cup {"none", "receive", "done"}]
    BY <1>8 DEF SendWrites, TypeOK, Broadcasting
  <2>5. target' \in [Conns -> Conns \cup {NoConn}]
    <3>1. UNCHANGED target \/ target' = [target EXCEPT ![h] = c]
      BY <1>8 DEF SendWrites
    <3> QED BY <3>1 DEF TypeOK
  <2>6. unchecked' \in [Conns -> 0..DrainLimit]
    <3>1. unchecked[c] \in 0..DrainLimit /\ DrainLimit \in Nat
      BY RelayAssumption DEF TypeOK, RelayAssumption
    <3>2. (IF Asks(c) THEN 0 ELSE unchecked[c] + 1) \in 0..DrainLimit
      BY <3>1 DEF Asks
    <3>3. unchecked' = [unchecked EXCEPT ![c] = IF Asks(c) THEN 0 ELSE unchecked[c] + 1]
      BY <1>8 DEF SendWrites, Counts
    <3> QED BY <3>2, <3>3 DEF TypeOK
  <2> QED BY <1>8, <2>1, <2>2, <2>3, <2>4, <2>5, <2>6 DEF TypeOK, SendWrites, Yield
<1>9. ASSUME NEW c \in Conns, PeerReads(c) PROVE TypeOK'
  <2>0. pc \in [Conns -> Broadcasting \cup {"none", "receive", "done"}]
    BY DEF TypeOK
  <2>1. outbuf[c] \in Seq(Msg) /\ outbuf[c] # <<>>
    BY <1>9 DEF TypeOK, PeerReads
  <2>2. Head(outbuf[c]) \in Msg /\ Tail(outbuf[c]) \in Seq(Msg)
    BY <2>1
  <2>3. outbuf' \in [Conns -> Seq(Msg)]
    BY <1>9, <2>2 DEF TypeOK, PeerReads
  <2>4. seen' \in [Conns -> [Conns -> 0..MaxMsgs]]
    BY <1>9, <2>2 DEF TypeOK, PeerReads, Msg
  <2>5. pc' \in [Conns -> Broadcasting \cup {"none", "receive", "done"}]
    BY <1>9, <2>0, WakeType DEF PeerReads
  <2> QED BY <1>9, <2>3, <2>4, <2>5 DEF TypeOK, PeerReads
<1>10. ASSUME NEW c \in Conns, PeerLost(c) PROVE TypeOK'
  <2>1. pc' \in [Conns -> Broadcasting \cup {"none", "receive", "done"}]
    BY <1>10, WakeType DEF PeerLost
  <2>2. outbuf' \in [Conns -> Seq(Msg)]
    BY <1>10 DEF TypeOK, PeerLost
  <2> QED BY <1>10, <2>1, <2>2 DEF TypeOK, PeerLost
<1> QED
  BY <1>1, <1>2, <1>3, <1>4, <1>5, <1>6, <1>7, <1>8, <1>9, <1>10 DEF Next, RunsOn

LEMMA TypeOKInit == Init => TypeOK
<1>1. NoLoop \in Loop
  BY LoopOverType DEF NoLoop
<1> QED BY <1>1, RelayAssumption DEF Init, TypeOK

\* The state of the relay keeps its types: broadcasts, joins and losses in any
\* order leave every loop, buffer and registry entry well formed.
THEOREM TypeCorrect == Spec => []TypeOK
<1> QED BY TypeOKInit, TypeOKStep, PTL DEF Spec

-----------------------------------------------------------------------------
(* The registry.  RegistrySound is not inductive by itself: line 45 removes  *)
(* other connections, so it needs that a send fails on lost ones only.       *)
FailedAreLost == \A h \in Conns : loop[h].failed \subseteq lost
RegistryInv == TypeOK /\ RegistrySound /\ FailedAreLost

LEMMA ClearLoop ==
  ASSUME TypeOK, FailedAreLost, NEW h \in Conns, NEW new, SetClients(h, new), lost' = lost
  PROVE  FailedAreLost'
BY DEF SetClients, NoLoop, LoopOver, FailedAreLost, TypeOK

LEMMA LeaveRegistry ==
  ASSUME RegistryInv, NEW h \in Conns, Leave(h)
  PROVE  RegistrySound' /\ FailedAreLost'
<1>1. FailedAreLost'
  BY ClearLoop DEF RegistryInv, Leave, peerVars
<1>2. RegistrySound'
  BY DEF RegistryInv, RegistrySound, Alive, TypeOK, Leave, SetClients, peerVars, Broadcasting
<1> QED BY <1>1, <1>2

LEMMA YieldFailed ==
  ASSUME RegistryInv, NEW h \in Conns, NEW c \in Conns, NEW fails \in BOOLEAN,
         Yield(h, c, fails), fails => c \in lost, lost' = lost
  PROVE  FailedAreLost'
<1> DEFINE new == [loop[h] EXCEPT !.reached = loop[h].reached \cup {c},
                                  !.yields = loop[h].yields + 1,
                                  !.failed = loop[h].failed \cup (IF fails THEN {c} ELSE {})]
<1>1. loop' = [loop EXCEPT ![h] = new]
  BY DEF Yield
<1>2. loop[h] \in Loop
  BY DEF RegistryInv, TypeOK
<1>3. new.failed = loop[h].failed \cup (IF fails THEN {c} ELSE {})
  BY <1>2 DEF Loop
<1>4. new.failed \subseteq lost
  BY <1>3 DEF RegistryInv, FailedAreLost
<1> HIDE DEF new
<1> QED BY <1>1, <1>4 DEF RegistryInv, FailedAreLost, TypeOK

LEMMA WakeRegistry ==
  ASSUME TypeOK, RegistrySound, NEW d \in Conns, WakeWriters(d) \/ pc' = pc,
         clients' = clients, lost \subseteq lost'
  PROVE  RegistrySound'
BY DEF TypeOK, RegistrySound, Alive, WakeWriters, Broadcasting

LEMMA RegistryStep == RegistryInv /\ [Next]_vars => RegistryInv'
<1> SUFFICES ASSUME RegistryInv, [Next]_vars PROVE RegistrySound' /\ FailedAreLost'
  BY TypeOKStep DEF RegistryInv
<1>1. CASE UNCHANGED vars
  BY <1>1 DEF vars, peerVars, RegistryInv, RegistrySound, FailedAreLost, Alive
<1>2. ASSUME NEW c \in Conns, Connect(c)
      PROVE  RegistrySound' /\ FailedAreLost'
  <2>1. FailedAreLost'
    BY <1>2, ClearLoop DEF RegistryInv, Connect, peerVars
  <2>2. RegistrySound'
    BY <1>2 DEF RegistryInv, RegistrySound, Alive, TypeOK, Connect, SetClients, peerVars,
                Broadcasting
  <2> QED BY <2>1, <2>2
<1>3. ASSUME NEW h \in Conns, TakeMessage(h)
      PROVE  RegistrySound' /\ FailedAreLost'
  <2>1. RegistrySound'
    BY <1>3 DEF RegistryInv, RegistrySound, Alive, TypeOK, TakeMessage, peerVars, Broadcasting
  <2>2. FailedAreLost'
    BY <1>3 DEF RegistryInv, FailedAreLost, TypeOK, TakeMessage, LoopOver, peerVars
  <2> QED BY <2>1, <2>2
<1>4. ASSUME NEW h \in Conns, RejectFrame(h) \/ EndOfFrames(h) \/ IterationRaises(h)
      PROVE  RegistrySound' /\ FailedAreLost'
  BY <1>4, LeaveRegistry DEF RejectFrame, EndOfFrames, IterationRaises
<1>5. ASSUME NEW h \in Conns, SendReturns(h)
      PROVE  RegistrySound' /\ FailedAreLost'
  <2>1. RegistrySound'
    BY <1>5 DEF RegistryInv, RegistrySound, Alive, TypeOK, SendReturns, peerVars, Broadcasting
  <2>2. ASSUME NEW d \in lost, loop' = [loop EXCEPT ![h].failed = @ \cup {d}]
        PROVE  FailedAreLost'
    <3>1. loop'[h].failed = loop[h].failed \cup {d}
      BY <2>2 DEF RegistryInv, TypeOK, Loop
    <3>2. \A g \in Conns \ {h} : loop'[g] = loop[g]
      BY <2>2 DEF RegistryInv, TypeOK
    <3> QED BY <1>5, <3>1, <3>2 DEF RegistryInv, FailedAreLost, SendReturns, peerVars
  <2>3. ASSUME UNCHANGED loop PROVE FailedAreLost'
    BY <1>5, <2>3 DEF RegistryInv, FailedAreLost, SendReturns, peerVars
  <2> QED BY <1>5, <2>1, <2>2, <2>3 DEF SendReturns
<1>6. ASSUME NEW h \in Conns, FinishBroadcast(h)
      PROVE  RegistrySound' /\ FailedAreLost'
  <2>1. FailedAreLost'
    BY <1>6, ClearLoop DEF RegistryInv, FinishBroadcast, peerVars
  <2>2. RegistrySound'
    BY <1>6 DEF RegistryInv, RegistrySound, FailedAreLost, Alive, TypeOK, FinishBroadcast,
                SetClients, peerVars, Broadcasting
  <2> QED BY <2>1, <2>2
<1>7. ASSUME NEW h \in Conns, NEW c \in Conns, SendFails(h, c)
      PROVE  RegistrySound' /\ FailedAreLost'
  <2>1. FailedAreLost'
    BY <1>7, YieldFailed DEF SendFails, peerVars
  <2>2. RegistrySound'
    BY <1>7, WakeRegistry DEF RegistryInv, SendFails, Yield, peerVars
  <2> QED BY <2>1, <2>2
<1>8. ASSUME NEW h \in Conns, NEW c \in Conns, SendWrites(h, c)
      PROVE  RegistrySound' /\ FailedAreLost'
  <2>1. FailedAreLost'
    BY <1>8, YieldFailed DEF SendWrites
  <2>2. clients' = clients /\ lost' = lost /\ pc[h] = "iterate"
    BY <1>8 DEF SendWrites, Yield
  <2>3. pc' = pc \/ pc' = [pc EXCEPT ![h] = "drain"] \/ pc' = [pc EXCEPT ![h] = "ready"]
    BY <1>8 DEF SendWrites
  <2>4. RegistrySound'
    BY <2>2, <2>3 DEF RegistryInv, RegistrySound, Alive, TypeOK, Broadcasting
  <2> QED BY <2>1, <2>4
<1>9. ASSUME NEW c \in Conns, PeerReads(c) \/ PeerLost(c)
      PROVE  RegistrySound' /\ FailedAreLost'
  <2>1. clients' = clients /\ lost \subseteq lost' /\ loop' = loop
    BY <1>9 DEF PeerReads, PeerLost
  <2>2. WakeWriters(c) \/ pc' = pc
    BY <1>9 DEF PeerReads, PeerLost
  <2>3. RegistrySound'
    BY <2>1, <2>2, WakeRegistry DEF RegistryInv
  <2>4. FailedAreLost'
    BY <2>1 DEF RegistryInv, FailedAreLost
  <2> QED BY <2>3, <2>4
<1> QED
  BY <1>1, <1>2, <1>3, <1>4, <1>5, <1>6, <1>7, <1>8, <1>9 DEF Next, RunsOn

LEMMA RegistryInit == Init => RegistryInv
<1> SUFFICES ASSUME Init PROVE RegistrySound /\ FailedAreLost
  BY TypeOKInit DEF RegistryInv
<1> QED BY DEF Init, RegistrySound, FailedAreLost, Alive, NoLoop, LoopOver, Broadcasting

\* Broadcasts that fail, joins and losses never desynchronise
\* websocket_clients from the handlers that serve: a dead handler is not
\* written to, and a live connection is never dropped by someone's clean-up.
THEOREM RegistryCorrect == Spec => []RegistrySound
<1>1. RegistryInv => RegistrySound
  BY DEF RegistryInv
<1> QED BY <1>1, RegistryInit, RegistryStep, PTL DEF Spec

-----------------------------------------------------------------------------
(* Flow control.  The bound is inductive: a frame over the mark is counted   *)
(* by the writer or comes with one more handler that waits, which clears a   *)
(* full count, and the handlers that wait for a transport are woken together *)
(* when its buffer is below the mark again.                                  *)
LEMMA WaitingSize ==
  ASSUME NEW c \in Conns
  PROVE  IsFiniteSet(Waiting(c)) /\ Cardinality(Waiting(c)) \in Nat
BY RelayAssumption, FS_Subset, FS_CardinalityType DEF RelayAssumption, Waiting

\* What n waiting handlers have written: one more brings DrainLimit + 1 frames.
LEMMA WaitersCost ==
  ASSUME NEW n \in Nat
  PROVE  /\ (DrainLimit + 1) * n \in Nat
         /\ (DrainLimit + 1) * (n + 1) = (DrainLimit + 1) * n + DrainLimit + 1
<1>1. DrainLimit \in Nat
  BY RelayAssumption DEF RelayAssumption
<1>2. (DrainLimit + 1) * n \in Nat
  BY <1>1
<1>3. (DrainLimit + 1) * (n + 1) = (DrainLimit + 1) * n + DrainLimit + 1
  BY <1>1
<1> QED BY <1>2, <1>3

\* A step that suspends and wakes nobody, and writes nothing.
LEMMA WaitingKept ==
  ASSUME Backpressure, UNCHANGED <<outbuf, unchecked>>,
         \A h \in Conns : pc'[h] = "drain" <=> pc[h] = "drain",
         \A h \in Conns : pc[h] = "drain" => target'[h] = target[h]
  PROVE  Backpressure'
<1>1. ASSUME NEW c \in Conns PROVE Waiting(c)' = Waiting(c)
  BY DEF Waiting
<1> QED BY <1>1 DEF Backpressure

\* The buffer of c shrinks below the mark or is dropped, and its writers wake.
LEMMA WaitingWoken ==
  ASSUME TypeOK, Backpressure, NEW c \in Conns, NEW q \in Seq(Msg),
         outbuf' = [outbuf EXCEPT ![c] = q], Len(q) <= HighWater,
         UNCHANGED <<target, unchecked>>, WakeWriters(c)
  PROVE  Backpressure'
<1> SUFFICES ASSUME NEW d \in Conns
             PROVE  Len(outbuf'[d]) <= HighWater
                      + (DrainLimit + 1) * Cardinality(Waiting(d)') + unchecked'[d]
  BY DEF Backpressure
<1>1. CASE d = c
  <2>1. Waiting(d)' = {}
    BY <1>1 DEF Waiting, WakeWriters
  <2>2. outbuf'[d] = q /\ Len(q) \in Nat
    BY <1>1 DEF TypeOK
  <2>3. HighWater \in Nat /\ DrainLimit \in Nat /\ unchecked'[d] \in Nat
    BY RelayAssumption DEF RelayAssumption, TypeOK
  <2>4. Cardinality(Waiting(d)') = 0
    BY <2>1, FS_EmptySet
  <2> QED BY <2>2, <2>3, <2>4
<1>2. CASE d # c
  <2>1. Waiting(d)' = Waiting(d)
    BY <1>2 DEF Waiting, WakeWriters
  <2>2. outbuf'[d] = outbuf[d]
    BY <1>2 DEF TypeOK
  <2> QED BY <2>1, <2>2 DEF Backpressure
<1> QED BY <1>1, <1>2

LEMMA WriteBounded ==
  ASSUME TypeOK, Backpressure, NEW h \in Conns, NEW c \in Conns, SendWrites(h, c)
  PROVE  Backpressure'
<1> SUFFICES ASSUME NEW d \in Conns
             PROVE  Len(outbuf'[d]) <= HighWater
                      + (DrainLimit + 1) * Cardinality(Waiting(d)') + unchecked'[d]
  BY DEF Backpressure
<1> DEFINE waits == Asks(c) /\ c \in paused'
           n == Cardinality(Waiting(d))
           cost == (DrainLimit + 1) * n
<1>1. /\ HighWater \in Nat /\ DrainLimit \in Nat
      /\ outbuf \in [Conns -> Seq(Msg)] /\ Len(outbuf[c]) \in Nat
      /\ unchecked \in [Conns -> 0..DrainLimit] /\ unchecked[c] \in 0..DrainLimit
  <2>1. HighWater \in Nat /\ DrainLimit \in Nat
    BY RelayAssumption
  <2>2. outbuf \in [Conns -> Seq(Msg)] /\ unchecked \in [Conns -> 0..DrainLimit]
    BY DEF TypeOK
  <2>3. outbuf[c] \in Seq(Msg) /\ unchecked[c] \in 0..DrainLimit
    BY <2>2
  <2>4. Len(outbuf[c]) \in Nat
    BY <2>3
  <2> QED BY <2>1, <2>2, <2>3, <2>4
<1>2. Len(outbuf[d]) <= HighWater + cost + unchecked[d]
  BY DEF Backpressure
<1>3. n \in Nat
  BY WaitingSize
<1>4. cost \in Nat /\ (DrainLimit + 1) * (n + 1) = cost + DrainLimit + 1
  BY <1>3, WaitersCost
<1>5. pc[h] = "iterate" /\ h \notin Waiting(d)
  BY WriteFacts DEF Waiting
<1>6. Len(outbuf'[c]) = Len(outbuf[c]) + 1
  <2>1. <<h, taken[h]>> \in Msg
    BY DEF TypeOK, Msg
  <2> QED BY <1>1, <2>1, WriteFacts
<1>7. \/ ~waits /\ UNCHANGED <<pc, target>>
      \/ /\ pc' = [pc EXCEPT ![h] = IF waits THEN "drain" ELSE "ready"]
         /\ target' = [target EXCEPT ![h] = c]
  BY Zenon DEF SendWrites
<1>8. c \in paused' \/ Len(outbuf[c]) < HighWater
  BY <1>1, WriteFacts
<1>9. ASSUME waits
      PROVE  pc' = [pc EXCEPT ![h] = "drain"] /\ target' = [target EXCEPT ![h] = c]
  BY <1>7, <1>9
<1>10. ASSUME ~waits PROVE Waiting(d)' = Waiting(d)
  <2>1. \/ pc' = pc /\ target' = target
        \/ pc' = [pc EXCEPT ![h] = "ready"] /\ target' = [target EXCEPT ![h] = c]
    BY <1>7, <1>10
  <2> QED BY <1>5, <2>1 DEF Waiting, TypeOK
<1> HIDE DEF waits, n, cost
<1>11. CASE d # c
  <2>1. outbuf'[d] = outbuf[d] /\ unchecked'[d] = unchecked[d]
    BY <1>1, <1>11, WriteFacts
  <2>2. Waiting(d)' = Waiting(d)
    BY <1>5, <1>9, <1>10, <1>11 DEF Waiting, TypeOK
  <2> QED BY <1>2, <2>1, <2>2 DEF cost, n
<1>12. CASE d = c /\ ~waits
  <2>1. Waiting(d)' = Waiting(d)
    BY <1>10, <1>12
  <2>2. (DrainLimit + 1) * Cardinality(Waiting(d)') = cost
    BY <2>1 DEF cost, n
  <2>3. CASE Asks(c)
    <3>1. Len(outbuf[c]) < HighWater
      BY <1>8, <1>12, <2>3 DEF waits
    <3>2. unchecked'[c] = 0
      BY <1>1, <2>3, WriteFacts
    <3> QED BY <1>1, <1>4, <1>6, <1>12, <2>2, <3>1, <3>2
  <2>4. CASE ~Asks(c)
    <3>1. unchecked'[c] = unchecked[c] + 1
      BY <1>1, <2>4, WriteFacts
    <3> QED BY <1>1, <1>2, <1>4, <1>6, <1>12, <2>2, <3>1
  <2> QED BY <2>3, <2>4
<1>13. CASE d = c /\ waits
  <2>1. Waiting(d)' = Waiting(d) \cup {h}
    BY <1>9, <1>13 DEF Waiting, TypeOK
  <2>2. Cardinality(Waiting(d)') = n + 1
    BY <1>5, <2>1, WaitingSize, FS_AddElement DEF n
  <2>3. unchecked'[c] = 0 /\ unchecked[c] = DrainLimit
    BY <1>1, <1>13, WriteFacts DEF waits, Asks
  <2>4. (DrainLimit + 1) * Cardinality(Waiting(d)') = cost + DrainLimit + 1
    BY <1>4, <2>2
  <2> QED BY <1>1, <1>2, <1>4, <1>6, <1>13, <2>3, <2>4
<1> QED BY <1>11, <1>12, <1>13

LEMMA BackpressureStep == TypeOK /\ Backpressure /\ [Next]_vars => Backpressure'
<1> SUFFICES ASSUME TypeOK, Backpressure, [Next]_vars PROVE Backpressure'
  OBVIOUS
<1>1. CASE UNCHANGED vars
  BY <1>1, WaitingKept DEF vars, peerVars
<1>2. ASSUME NEW h \in Conns,
             Connect(h) \/ TakeMessage(h) \/ RejectFrame(h) \/ EndOfFrames(h)
               \/ IterationRaises(h) \/ FinishBroadcast(h) \/ SendReturns(h)
      PROVE  Backpressure'
  <2>1. UNCHANGED <<outbuf, unchecked>> /\ pc[h] # "drain"
    BY <1>2 DEF Connect, TakeMessage, RejectFrame, EndOfFrames, IterationRaises,
                FinishBroadcast, SendReturns, Leave, peerVars
  <2>2. \E to \in {"receive", "iterate", "done"} : pc' = [pc EXCEPT ![h] = to]
    BY <1>2 DEF Connect, TakeMessage, RejectFrame, EndOfFrames, IterationRaises,
                FinishBroadcast, SendReturns, Leave
  <2>3. target' = target \/ target' = [target EXCEPT ![h] = NoConn]
    BY <1>2 DEF Connect, TakeMessage, RejectFrame, EndOfFrames, IterationRaises,
                FinishBroadcast, SendReturns, Leave
  <2> QED BY <2>1, <2>2, <2>3, WaitingKept DEF TypeOK
<1>3. ASSUME NEW h \in Conns, NEW c \in Conns, SendFails(h, c) PROVE Backpressure'
  BY <1>3, WaitingKept DEF SendFails, peerVars
<1>4. ASSUME NEW h \in Conns, NEW c \in Conns, SendWrites(h, c) PROVE Backpressure'
  BY <1>4, WriteBounded
<1>5. ASSUME NEW c \in Conns, PeerReads(c) PROVE Backpressure'
  <2>1. outbuf[c] \in Seq(Msg) /\ outbuf[c] # <<>>
    BY <1>5 DEF TypeOK, PeerReads
  <2>2. Tail(outbuf[c]) \in Seq(Msg) /\ Len(Tail(outbuf[c])) = Len(outbuf[c]) - 1
        /\ Len(outbuf[c]) \in Nat
    BY <2>1
  <2>3. outbuf' = [outbuf EXCEPT ![c] = Tail(outbuf[c])] /\ UNCHANGED <<target, unchecked>>
    BY <1>5 DEF PeerReads
  <2>4. HighWater \in Nat /\ LowWater \in 0..HighWater
    BY RelayAssumption DEF RelayAssumption
  <2>5. CASE Len(outbuf[c]) - 1 <= LowWater
    <3>1. WakeWriters(c)
      BY <1>5, <2>5 DEF PeerReads
    <3>2. Len(Tail(outbuf[c])) <= HighWater
      BY <2>2, <2>4, <2>5
    <3> QED BY <2>2, <2>3, <3>1, <3>2, WaitingWoken
  <2>6. CASE ~(Len(outbuf[c]) - 1 <= LowWater)
    <3>1. pc' = pc
      BY <1>5, <2>6 DEF PeerReads
    <3>2. ASSUME NEW d \in Conns
          PROVE  Waiting(d)' = Waiting(d) /\ Len(outbuf'[d]) <= Len(outbuf[d])
                 /\ Len(outbuf'[d]) \in Nat /\ Len(outbuf[d]) \in Nat
      BY <2>2, <2>3, <3>1 DEF Waiting, TypeOK
    <3>3. ASSUME NEW d \in Conns
          PROVE  Len(outbuf'[d]) <= HighWater
                   + (DrainLimit + 1) * Cardinality(Waiting(d)') + unchecked'[d]
      <4> DEFINE cost == (DrainLimit + 1) * Cardinality(Waiting(d))
      <4>1. cost \in Nat /\ unchecked[d] \in Nat
        BY WaitingSize, WaitersCost DEF TypeOK
      <4>2. Len(outbuf[d]) <= HighWater + cost + unchecked[d]
        BY DEF Backpressure
      <4>3. (DrainLimit + 1) * Cardinality(Waiting(d)') = cost /\ unchecked'[d] = unchecked[d]
        BY <2>3, <3>2
      <4> HIDE DEF cost
      <4> QED BY <2>4, <3>2, <4>1, <4>2, <4>3
    <3> QED BY <3>3 DEF Backpressure
  <2> QED BY <2>5, <2>6
<1>6. ASSUME NEW c \in Conns, PeerLost(c) PROVE Backpressure'
  <2>1. <<>> \in Seq(Msg) /\ Len(<<>>) <= HighWater
    BY RelayAssumption DEF RelayAssumption
  <2> QED BY <1>6, <2>1, WaitingWoken DEF PeerLost
<1> QED BY <1>1, <1>2, <1>3, <1>4, <1>5, <1>6 DEF Next, RunsOn

\* A slow peer costs the server at most the high-water mark, what its writer
\* takes between two drains for each handler that waits for it, and what was
\* written since the last drain, with any number of producers.
THEOREM BackpressureCorrect == Spec => []Backpressure
<1>1. Init => Backpressure
  <2> SUFFICES ASSUME Init, NEW c \in Conns
               PROVE  Len(outbuf[c]) <= HighWater
                        + (DrainLimit + 1) * Cardinality(Waiting(c)) + unchecked[c]
    BY DEF Backpressure
  <2> DEFINE cost == (DrainLimit + 1) * Cardinality(Waiting(c))
  <2>1. Len(outbuf[c]) = 0 /\ unchecked[c] = 0
    BY DEF Init
  <2>2. cost \in Nat /\ HighWater \in Nat
    BY WaitingSize, WaitersCost, RelayAssumption DEF RelayAssumption
  <2> HIDE DEF cost
  <2>3. Len(outbuf[c]) <= HighWater + cost + unchecked[c]
    BY <2>1, <2>2
  <2> QED BY <2>3 DEF cost
<1> QED BY <1>1, TypeOKInit, TypeOKStep, BackpressureStep, PTL DEF Spec

-----------------------------------------------------------------------------
(* Order.  A frame is written with the number its handler took last, so the  *)
(* order of a queue needs that no number in it, or read from it, is beyond   *)
(* that one.                                                                 *)
QueueOrdered(queue, read, count) ==
  /\ \A s \in Conns : read[s] <= count[s]
  /\ \A i \in 1..Len(queue) :
       /\ queue[i][2] <= count[queue[i][1]]
       /\ read[queue[i][1]] <= queue[i][2]
       /\ \A j \in i..Len(queue) :
            queue[j][1] = queue[i][1] => queue[i][2] <= queue[j][2]
OrderInv == TypeOK /\ \A c \in Conns : QueueOrdered(outbuf[c], seen[c], taken)

LEMMA OrderParts ==
  (\A c \in Conns : QueueOrdered(outbuf[c], seen[c], taken)) => SenderOrder
BY DEF QueueOrdered, SenderOrder

\* The number of one sender grows.
LEMMA CountGrows ==
  ASSUME NEW queue \in Seq(Msg), NEW read \in [Conns -> 0..MaxMsgs],
         NEW count \in [Conns -> 0..MaxMsgs], NEW h \in Conns, NEW n \in 0..MaxMsgs,
         count[h] <= n, QueueOrdered(queue, read, count)
  PROVE  QueueOrdered(queue, read, [count EXCEPT ![h] = n])
<1>1. \A s \in Conns : count[s] <= [count EXCEPT ![h] = n][s]
                       /\ [count EXCEPT ![h] = n][s] \in Int /\ count[s] \in Int
  BY RelayAssumption DEF RelayAssumption
<1>2. \A i \in 1..Len(queue) : queue[i][1] \in Conns /\ queue[i][2] \in Int
  BY RelayAssumption DEF RelayAssumption, Msg
<1>3. \A s \in Conns : read[s] \in Int
  BY RelayAssumption DEF RelayAssumption
<1> DEFINE more == [count EXCEPT ![h] = n]
<1> HIDE DEF more
<1> QED BY <1>1, <1>2, <1>3 DEF QueueOrdered, more

\* The newest frame of a sender goes to the end of the queue.
LEMMA AppendOrdered ==
  ASSUME NEW queue \in Seq(Msg), NEW read \in [Conns -> 0..MaxMsgs],
         NEW count \in [Conns -> 0..MaxMsgs], NEW h \in Conns,
         QueueOrdered(queue, read, count)
  PROVE  QueueOrdered(Append(queue, <<h, count[h]>>), read, count)
<1> DEFINE longer == Append(queue, <<h, count[h]>>)
           n == Len(queue)
<1>1. n \in Nat /\ Len(longer) = n + 1
  BY DEF Msg
<1>2. \A i \in 1..n : longer[i] = queue[i]
  BY DEF Msg
<1>3. longer[n + 1] = <<h, count[h]>>
  BY DEF Msg
<1>4. \A i \in 1..n : queue[i][1] \in Conns /\ queue[i][2] \in Int
  BY DEF Msg
<1>5. read[h] <= count[h] /\ count[h] \in Int
  BY DEF QueueOrdered
<1> HIDE DEF longer, n
<1>6. ASSUME NEW i \in 1..(n + 1)
      PROVE  longer[i][2] <= count[longer[i][1]] /\ read[longer[i][1]] <= longer[i][2]
  <2>1. CASE i \in 1..n
    BY <1>2, <2>1 DEF QueueOrdered, n
  <2>2. CASE i = n + 1
    BY <1>3, <1>5, <2>2
  <2> QED BY <1>1, <2>1, <2>2
<1>7. ASSUME NEW i \in 1..(n + 1), NEW j \in i..(n + 1), longer[j][1] = longer[i][1]
      PROVE  longer[i][2] <= longer[j][2]
  <2>1. CASE j \in 1..n
    <3>1. i \in 1..n /\ j \in i..n
      BY <1>1, <2>1
    <3> QED BY <1>2, <1>7, <2>1, <3>1 DEF QueueOrdered, n
  <2>2. CASE i \in 1..n /\ j = n + 1
    BY <1>2, <1>3, <1>7, <2>2 DEF QueueOrdered, n
  <2>3. CASE i = n + 1 /\ j = n + 1
    BY <1>3, <1>5, <2>3
  <2> QED BY <1>1, <2>1, <2>2, <2>3
<1> QED BY <1>1, <1>6, <1>7 DEF QueueOrdered, longer

\* The peer reads the first frame of the queue.
LEMMA ReadOrdered ==
  ASSUME NEW queue \in Seq(Msg), queue # <<>>, NEW read \in [Conns -> 0..MaxMsgs],
         NEW count \in [Conns -> 0..MaxMsgs], QueueOrdered(queue, read, count)
  PROVE  QueueOrdered(Tail(queue), [read EXCEPT ![Head(queue)[1]] = Head(queue)[2]], count)
<1> DEFINE rest == Tail(queue)
           n == Len(queue)
           after == [read EXCEPT ![Head(queue)[1]] = Head(queue)[2]]
<1>1. n \in Nat \ {0} /\ Len(rest) = n - 1 /\ Head(queue) = queue[1]
  BY DEF Msg
<1>2. \A i \in 1..(n - 1) : rest[i] = queue[i + 1]
  BY DEF Msg
<1>3. \A i \in 1..n : queue[i][1] \in Conns /\ queue[i][2] \in Int
  BY DEF Msg
<1>4. \A s \in Conns : after[s] = IF s = queue[1][1] THEN queue[1][2] ELSE read[s]
  BY <1>1
<1> HIDE DEF rest, n, after
<1>5. ASSUME NEW s \in Conns PROVE after[s] <= count[s]
  BY <1>1, <1>4 DEF QueueOrdered, n
<1>6. ASSUME NEW i \in 1..(n - 1)
      PROVE  /\ rest[i][2] <= count[rest[i][1]] /\ after[rest[i][1]] <= rest[i][2]
             /\ \A j \in i..(n - 1) :
                  rest[j][1] = rest[i][1] => rest[i][2] <= rest[j][2]
  <2>1. i + 1 \in 1..n /\ 1 \in 1..n /\ i + 1 \in 1..n
    BY <1>1
  <2>2. \A j \in i..(n - 1) : rest[j] = queue[j + 1] /\ j + 1 \in (i + 1)..n
    BY <1>1, <1>2
  <2>3. rest[i] = queue[i + 1]
    BY <1>2
  <2>4. rest[i][2] <= count[rest[i][1]] /\ read[rest[i][1]] <= rest[i][2]
    BY <2>1, <2>3 DEF QueueOrdered, n
  <2>5. queue[i + 1][1] = queue[1][1] => queue[1][2] <= queue[i + 1][2]
    BY <1>1, <2>1 DEF QueueOrdered, n
  <2>6. after[rest[i][1]] <= rest[i][2]
    BY <1>3, <1>4, <2>1, <2>3, <2>4, <2>5
  <2>7. ASSUME NEW j \in i..(n - 1), rest[j][1] = rest[i][1]
        PROVE  rest[i][2] <= rest[j][2]
    BY <2>1, <2>2, <2>3, <2>7 DEF QueueOrdered, n
  <2> QED BY <2>4, <2>6, <2>7
<1>7. QueueOrdered(rest, after, count)
  BY <1>1, <1>5, <1>6 DEF QueueOrdered
<1> QED BY <1>7 DEF rest, after

LEMMA OrderStep == OrderInv /\ [Next]_vars => OrderInv'
<1> SUFFICES ASSUME OrderInv, [Next]_vars, NEW d \in Conns
             PROVE  QueueOrdered(outbuf'[d], seen'[d], taken')
  BY TypeOKStep DEF OrderInv
<1> USE DEF OrderInv
<1>0. /\ outbuf \in [Conns -> Seq(Msg)] /\ taken \in [Conns -> 0..MaxMsgs]
      /\ seen \in [Conns -> [Conns -> 0..MaxMsgs]]
      /\ QueueOrdered(outbuf[d], seen[d], taken)
  BY DEF TypeOK
<1>1. CASE UNCHANGED <<outbuf, seen, taken>>
  BY <1>0, <1>1
<1>2. ASSUME NEW h \in Conns, TakeMessage(h)
      PROVE  QueueOrdered(outbuf'[d], seen'[d], taken')
  <2>1. /\ taken' = [taken EXCEPT ![h] = taken[h] + 1]
        /\ taken[h] + 1 \in 0..MaxMsgs /\ taken[h] <= taken[h] + 1
        /\ UNCHANGED <<outbuf, seen>>
    BY <1>0, <1>2, RelayAssumption DEF RelayAssumption, TakeMessage, peerVars
  <2> QED BY <1>0, <2>1, CountGrows
<1>3. ASSUME NEW h \in Conns, NEW c \in Conns, SendWrites(h, c)
      PROVE  QueueOrdered(outbuf'[d], seen'[d], taken')
  <2>1. outbuf' = [outbuf EXCEPT ![c] = Append(outbuf[c], <<h, taken[h]>>)]
        /\ UNCHANGED <<seen, taken>>
    BY <1>3, WriteFacts
  <2> QED BY <1>0, <2>1, AppendOrdered
<1>4. ASSUME NEW c \in Conns, PeerReads(c)
      PROVE  QueueOrdered(outbuf'[d], seen'[d], taken')
  <2>1. /\ outbuf' = [outbuf EXCEPT ![c] = Tail(outbuf[c])]
        /\ seen' = [seen EXCEPT ![c] =
                      [seen[c] EXCEPT ![Head(outbuf[c])[1]] = Head(outbuf[c])[2]]]
        /\ outbuf[c] # <<>> /\ UNCHANGED taken
    BY <1>4 DEF PeerReads
  <2> QED BY <1>0, <2>1, ReadOrdered
<1>5. ASSUME NEW c \in Conns, PeerLost(c)
      PROVE  QueueOrdered(outbuf'[d], seen'[d], taken')
  <2>1. outbuf' = [outbuf EXCEPT ![c] = <<>>] /\ UNCHANGED <<seen, taken>>
    BY <1>5 DEF PeerLost
  <2>2. QueueOrdered(<<>>, seen[d], taken)
    BY <1>0 DEF QueueOrdered
  <2> QED BY <1>0, <2>1, <2>2
<1>6. ASSUME NEW c \in Conns, Connect(c) \/ RejectFrame(c) \/ EndOfFrames(c)
               \/ IterationRaises(c) \/ FinishBroadcast(c) \/ SendReturns(c)
               \/ \E e \in Conns : SendFails(c, e)
      PROVE  UNCHANGED <<outbuf, seen, taken>>
  BY <1>6 DEF Connect, RejectFrame, EndOfFrames, IterationRaises, FinishBroadcast,
              SendReturns, SendFails, Yield, Leave, peerVars
<1>7. CASE UNCHANGED vars
  BY <1>1, <1>7 DEF vars, peerVars
<1> QED BY <1>1, <1>2, <1>3, <1>4, <1>5, <1>6, <1>7 DEF Next, RunsOn

LEMMA OrderInit == Init => OrderInv
<1> SUFFICES ASSUME Init, NEW c \in Conns PROVE QueueOrdered(outbuf[c], seen[c], taken)
  BY TypeOKInit DEF OrderInv
<1> QED BY DEF Init, QueueOrdered

\* Whatever broadcasts interleave and iterators repeat or skip, each peer sees
\* the frames of one sender in the order they were sent.
THEOREM SenderOrderCorrect == Spec => []SenderOrder
<1>1. OrderInv => SenderOrder
  BY OrderParts DEF OrderInv
<1> QED BY <1>1, OrderInit, OrderStep, PTL DEF Spec

-----------------------------------------------------------------------------
(* Delivery.  As long as nobody saw the set change, the loop still runs over *)
(* the members it began with, and a member it has yielded has the frame, in  *)
(* its buffer or read: what the peer reads next never takes it back.         *)
InLoop(h) ==
  pc[h] \in Broadcasting =>
    /\ h \notin churned => loop[h].base = clients
    /\ \A c \in loop[h].reached : c \in lost \/ Delivered(h, c)
DeliveryInv == \A h \in Conns : InLoop(h)

\* Delivered, of one queue.
Holds(queue, read, count, h) ==
  read[h] = count[h] \/ \E i \in 1..Len(queue) : queue[i] = <<h, count[h]>>

LEMMA AppendHolds ==
  ASSUME NEW queue \in Seq(Msg), NEW m \in Msg, NEW read, NEW count, NEW h
  PROVE  /\ Holds(queue, read, count, h) => Holds(Append(queue, m), read, count, h)
         /\ m = <<h, count[h]>> => Holds(Append(queue, m), read, count, h)
<1> DEFINE longer == Append(queue, m)
           n == Len(queue)
<1>1. n \in Nat /\ Len(longer) = n + 1 /\ longer[n + 1] = m
      /\ \A i \in 1..n : longer[i] = queue[i]
  OBVIOUS
<1> HIDE DEF longer, n
<1>2. 1..n \subseteq 1..(n + 1) /\ n + 1 \in 1..(n + 1)
  BY <1>1
<1>3. Holds(queue, read, count, h) => Holds(longer, read, count, h)
  BY <1>1, <1>2 DEF Holds, n
<1>4. m = <<h, count[h]>> => Holds(longer, read, count, h)
  BY <1>1, <1>2 DEF Holds
<1> QED BY <1>3, <1>4 DEF longer

LEMMA ReadHolds ==
  ASSUME NEW queue \in Seq(Msg), queue # <<>>, NEW read \in [Conns -> 0..MaxMsgs],
         NEW count \in [Conns -> 0..MaxMsgs], NEW h \in Conns,
         QueueOrdered(queue, read, count), Holds(queue, read, count, h)
  PROVE  Holds(Tail(queue), [read EXCEPT ![Head(queue)[1]] = Head(queue)[2]], count, h)
<1> DEFINE rest == Tail(queue)
           n == Len(queue)
           after == [read EXCEPT ![Head(queue)[1]] = Head(queue)[2]]
<1>1. n \in Nat \ {0} /\ Len(rest) = n - 1 /\ Head(queue) = queue[1]
      /\ \A i \in 1..(n - 1) : rest[i] = queue[i + 1]
  BY DEF Msg
<1>2. queue[1][1] \in Conns /\ queue[1][2] \in Int /\ count[h] \in Int /\ read[h] \in Int
  BY <1>1, RelayAssumption DEF Msg, RelayAssumption
<1>3. after[h] = IF h = queue[1][1] THEN queue[1][2] ELSE read[h]
  BY <1>1
<1>4. queue[1][2] <= count[queue[1][1]] /\ read[queue[1][1]] <= queue[1][2]
  BY <1>1 DEF QueueOrdered
<1> HIDE DEF rest, n, after
<1>5. CASE read[h] = count[h]
  <2>1. after[h] = count[h]
    BY <1>2, <1>3, <1>4, <1>5
  <2> QED BY <2>1 DEF Holds, rest, after
<1>6. CASE \E i \in 1..n : queue[i] = <<h, count[h]>>
  <2>1. PICK i \in 1..n : queue[i] = <<h, count[h]>>
    BY <1>6
  <2>2. CASE i = 1
    <3>1. after[h] = count[h]
      BY <1>3, <2>1, <2>2
    <3> QED BY <3>1 DEF Holds, rest, after
  <2>3. CASE i # 1
    <3>1. i - 1 \in 1..(n - 1) /\ rest[i - 1] = queue[(i - 1) + 1] /\ (i - 1) + 1 = i
      BY <1>1, <2>3
    <3>2. i - 1 \in 1..Len(rest) /\ rest[i - 1] = <<h, count[h]>>
      BY <1>1, <2>1, <3>1
    <3> QED BY <3>2 DEF Holds, rest, after
  <2> QED BY <2>2, <2>3
<1> QED BY <1>5, <1>6 DEF Holds, n

LEMMA DeliveredHolds ==
  ASSUME NEW h, NEW c
  PROVE  Delivered(h, c) <=> Holds(outbuf[c], seen[c], taken, h)
BY DEF Delivered, Holds

\* The set of clients changes, by a handler that is not in a broadcast then.
LEMMA SetClientsDelivery ==
  ASSUME TypeOK, DeliveryInv, NEW h \in Conns, NEW new, NEW to \in {"receive", "done"},
         SetClients(h, new), pc' = [pc EXCEPT ![h] = to],
         UNCHANGED <<lost, outbuf, seen, taken>>
  PROVE  DeliveryInv'
<1> SUFFICES ASSUME NEW g \in Conns, pc'[g] \in Broadcasting
             PROVE  /\ g \notin churned' => loop'[g].base = clients'
                    /\ \A c \in loop'[g].reached : c \in lost' \/ Delivered(g, c)'
  BY DEF DeliveryInv, InLoop
<1>1. g # h /\ pc[g] \in Broadcasting
  BY DEF TypeOK, Broadcasting
<1>2. loop'[g] = loop[g]
  BY <1>1 DEF TypeOK, SetClients
<1>3. g \notin churned' => g \notin churned /\ clients' = clients
  BY <1>1 DEF SetClients
<1>4. \A c \in Conns : Delivered(g, c)' = Delivered(g, c)
  BY DEF Delivered
<1>5. loop[g].reached \subseteq Conns
  BY DEF TypeOK, Loop
<1> QED BY <1>1, <1>2, <1>3, <1>4, <1>5 DEF DeliveryInv, InLoop

\* Neither the set nor the loops change: handlers stay in their broadcasts, and
\* nothing that was delivered is lost but with the transport.
LEMMA TransportDelivery ==
  ASSUME TypeOK, DeliveryInv, UNCHANGED <<clients, churned>>, lost \subseteq lost',
         \A g \in Conns : pc'[g] \in Broadcasting =>
           /\ pc[g] \in Broadcasting
           /\ loop'[g].base = loop[g].base /\ loop'[g].reached = loop[g].reached
           /\ \A c \in Conns : Delivered(g, c) => c \in lost' \/ Delivered(g, c)'
  PROVE  DeliveryInv'
<1> SUFFICES ASSUME NEW g \in Conns, pc'[g] \in Broadcasting
             PROVE  /\ g \notin churned' => loop'[g].base = clients'
                    /\ \A c \in loop'[g].reached : c \in lost' \/ Delivered(g, c)'
  BY DEF DeliveryInv, InLoop
<1>1. loop[g].reached \subseteq Conns
  BY DEF TypeOK, Loop
<1> QED BY <1>1 DEF DeliveryInv, InLoop

\* The loop yields c: its transport is gone, or has the frame now.
LEMMA YieldDelivery ==
  ASSUME TypeOK, DeliveryInv, NEW h \in Conns, NEW c \in Conns,
         SendFails(h, c) \/ SendWrites(h, c)
  PROVE  DeliveryInv'
<1> SUFFICES ASSUME NEW g \in Conns, pc'[g] \in Broadcasting
             PROVE  /\ g \notin churned' => loop'[g].base = clients'
                    /\ \A d \in loop'[g].reached : d \in lost' \/ Delivered(g, d)'
  BY DEF DeliveryInv, InLoop
<1>1. PICK fails \in BOOLEAN : Yield(h, c, fails)
  BY DEF SendFails, SendWrites
<1>2. /\ pc[h] = "iterate" /\ UNCHANGED <<clients, churned, taken, lost, seen>>
      /\ loop' = [loop EXCEPT ![h] =
           [loop[h] EXCEPT !.reached = loop[h].reached \cup {c}, !.yields = loop[h].yields + 1,
                           !.failed = loop[h].failed \cup (IF fails THEN {c} ELSE {})]]
  BY <1>1, WriteFacts DEF Yield, SendFails, peerVars
<1>3. pc[g] \in Broadcasting
  <2>1. pc' = pc \/ pc' = [pc EXCEPT ![h] = "drain"] \/ pc' = [pc EXCEPT ![h] = "ready"]
    BY WriteFacts DEF SendFails
  <2> QED BY <1>2, <2>1 DEF TypeOK, Broadcasting
<1>4. /\ loop'[g].base = loop[g].base
      /\ loop'[g].reached = IF g = h THEN loop[h].reached \cup {c} ELSE loop[g].reached
  BY <1>2 DEF TypeOK, Loop
<1>5. loop[g].reached \subseteq Conns
  BY DEF TypeOK, Loop
<1>6. ASSUME NEW d \in Conns
      PROVE  /\ Delivered(g, d) => Delivered(g, d)'
             /\ g = h /\ d = c => d \in lost \/ Delivered(g, d)'
  <2>1. CASE SendFails(h, c)
    BY <2>1 DEF SendFails, Delivered, Yield, peerVars
  <2>2. CASE SendWrites(h, c)
    <3>1. outbuf' = [outbuf EXCEPT ![c] = Append(outbuf[c], <<h, taken[h]>>)]
      BY <2>2, WriteFacts
    <3>2. /\ outbuf[c] \in Seq(Msg) /\ <<h, taken[h]>> \in Msg
          /\ outbuf'[d] = IF d = c THEN Append(outbuf[c], <<h, taken[h]>>) ELSE outbuf[d]
      BY <3>1 DEF TypeOK, Msg
    <3>3. /\ Delivered(g, d) <=> Holds(outbuf[d], seen[d], taken, g)
          /\ Delivered(g, d)' <=> Holds(outbuf'[d], seen[d], taken, g)
      BY <1>2 DEF Delivered, Holds
    <3> QED BY <3>2, <3>3, AppendHolds
  <2> QED BY <2>1, <2>2
<1> QED BY <1>2, <1>3, <1>4, <1>5, <1>6 DEF DeliveryInv, InLoop

LEMMA DeliveryStep == OrderInv /\ DeliveryInv /\ [Next]_vars => DeliveryInv'
<1> SUFFICES ASSUME OrderInv, TypeOK, DeliveryInv, [Next]_vars PROVE DeliveryInv'
  BY DEF OrderInv
<1>1. CASE UNCHANGED vars
  BY <1>1 DEF vars, peerVars, DeliveryInv, InLoop, Delivered
<1>2. ASSUME NEW h \in Conns,
             Connect(h) \/ RejectFrame(h) \/ EndOfFrames(h) \/ IterationRaises(h)
               \/ FinishBroadcast(h)
      PROVE  DeliveryInv'
  <2>1. PICK new : SetClients(h, new)
    BY <1>2 DEF Connect, RejectFrame, EndOfFrames, IterationRaises, FinishBroadcast, Leave
  <2>2. PICK to \in {"receive", "done"} : pc' = [pc EXCEPT ![h] = to]
    BY <1>2 DEF Connect, RejectFrame, EndOfFrames, IterationRaises, FinishBroadcast, Leave
  <2>3. UNCHANGED <<lost, outbuf, seen, taken>>
    BY <1>2 DEF Connect, RejectFrame, EndOfFrames, IterationRaises, FinishBroadcast, Leave,
                peerVars
  <2> QED BY <2>1, <2>2, <2>3, SetClientsDelivery
<1>3. ASSUME NEW h \in Conns, TakeMessage(h) PROVE DeliveryInv'
  <2> SUFFICES ASSUME NEW g \in Conns, pc'[g] \in Broadcasting
               PROVE  /\ g \notin churned' => loop'[g].base = clients'
                      /\ \A c \in loop'[g].reached : c \in lost' \/ Delivered(g, c)'
    BY DEF DeliveryInv, InLoop
  <2>1. /\ pc' = [pc EXCEPT ![h] = "iterate"] /\ taken' = [taken EXCEPT ![h] = taken[h] + 1]
        /\ loop' = [loop EXCEPT ![h] = LoopOver(clients)]
        /\ UNCHANGED <<clients, churned, lost, outbuf, seen>>
    BY <1>3 DEF TakeMessage, peerVars
  <2>2. CASE g = h
    <3>1. loop'[g] = LoopOver(clients)
      BY <2>1, <2>2 DEF TypeOK
    <3> QED BY <2>1, <3>1 DEF LoopOver
  <2>3. CASE g # h
    <3>1. loop'[g] = loop[g] /\ pc'[g] = pc[g] /\ taken'[g] = taken[g]
      BY <2>1, <2>3 DEF TypeOK
    <3>2. \A c : Delivered(g, c)' = Delivered(g, c)
      BY <2>1, <3>1 DEF Delivered
    <3> QED BY <2>1, <3>1, <3>2 DEF DeliveryInv, InLoop
  <2> QED BY <2>2, <2>3
<1>4. ASSUME NEW h \in Conns, NEW c \in Conns, SendFails(h, c) \/ SendWrites(h, c)
      PROVE  DeliveryInv'
  BY <1>4, YieldDelivery
<1>5. ASSUME NEW h \in Conns, SendReturns(h) PROVE DeliveryInv'
  <2>1. /\ pc' = [pc EXCEPT ![h] = "iterate"] /\ pc[h] = "ready"
        /\ UNCHANGED <<clients, churned, lost, outbuf, seen, taken>>
    BY <1>5 DEF SendReturns, peerVars
  <2>2. \A g \in Conns : pc'[g] \in Broadcasting => pc[g] \in Broadcasting
    BY <2>1 DEF TypeOK, Broadcasting
  <2>3. \A g \in Conns : loop'[g].base = loop[g].base /\ loop'[g].reached = loop[g].reached
    <3> SUFFICES ASSUME NEW g \in Conns
                 PROVE  loop'[g].base = loop[g].base /\ loop'[g].reached = loop[g].reached
      OBVIOUS
    <3>1. PICK set : loop' = loop
                     \/ loop' = [loop EXCEPT ![h] = [loop[h] EXCEPT !.failed = set]]
      BY <1>5 DEF SendReturns
    <3>2. loop \in [Conns -> Loop]
      BY DEF TypeOK
    <3> QED BY <3>1, <3>2 DEF Loop
  <2>4. \A g, c \in Conns : Delivered(g, c)' = Delivered(g, c)
    BY <2>1 DEF Delivered
  <2> QED BY <2>1, <2>2, <2>3, <2>4, TransportDelivery
<1>6. ASSUME NEW c \in Conns, PeerReads(c) PROVE DeliveryInv'
  <2>1. /\ outbuf' = [outbuf EXCEPT ![c] = Tail(outbuf[c])] /\ outbuf[c] # <<>>
        /\ seen' = [seen EXCEPT ![c] =
                      [seen[c] EXCEPT ![Head(outbuf[c])[1]] = Head(outbuf[c])[2]]]
        /\ UNCHANGED <<clients, churned, lost, taken, loop>>
        /\ WakeWriters(c) \/ pc' = pc
    BY <1>6 DEF PeerReads
  <2>2. \A g \in Conns : pc'[g] \in Broadcasting => pc[g] \in Broadcasting
    BY <2>1 DEF TypeOK, Broadcasting, WakeWriters
  <2>3. ASSUME NEW g \in Conns, NEW d \in Conns, Delivered(g, d) PROVE Delivered(g, d)'
    <3>1. CASE d # c
      <4>1. outbuf'[d] = outbuf[d] /\ seen'[d] = seen[d]
        BY <2>1, <3>1 DEF TypeOK
      <4> QED BY <2>1, <2>3, <4>1 DEF Delivered
    <3>2. CASE d = c
      <4>1. /\ outbuf[c] \in Seq(Msg) /\ seen[c] \in [Conns -> 0..MaxMsgs]
            /\ taken \in [Conns -> 0..MaxMsgs] /\ QueueOrdered(outbuf[c], seen[c], taken)
        BY DEF OrderInv, TypeOK
      <4>2. Holds(outbuf[c], seen[c], taken, g)
        BY <2>3, <3>2, DeliveredHolds
      <4>3. Holds(Tail(outbuf[c]), [seen[c] EXCEPT ![Head(outbuf[c])[1]] = Head(outbuf[c])[2]],
                  taken, g)
        BY <2>1, <4>1, <4>2, ReadHolds
      <4>4. /\ outbuf'[c] = Tail(outbuf[c])
            /\ seen'[c] = [seen[c] EXCEPT ![Head(outbuf[c])[1]] = Head(outbuf[c])[2]]
        BY <2>1 DEF TypeOK
      <4>5. Holds(outbuf'[c], seen'[c], taken, g)
        BY <4>3, <4>4
      <4> QED BY <2>1, <3>2, <4>5 DEF Delivered, Holds
    <3> QED BY <3>1, <3>2
  <2> QED BY <2>1, <2>2, <2>3, TransportDelivery
<1>7. ASSUME NEW c \in Conns, PeerLost(c) PROVE DeliveryInv'
  <2>1. /\ outbuf' = [outbuf EXCEPT ![c] = <<>>] /\ lost' = lost \cup {c}
        /\ UNCHANGED <<clients, churned, seen, taken, loop>> /\ WakeWriters(c)
    BY <1>7 DEF PeerLost
  <2>2. \A g \in Conns : pc'[g] \in Broadcasting => pc[g] \in Broadcasting
    BY <2>1 DEF TypeOK, Broadcasting, WakeWriters
  <2>3. ASSUME NEW g \in Conns, NEW d \in Conns, Delivered(g, d)
        PROVE  d \in lost' \/ Delivered(g, d)'
    <3>1. d # c => outbuf'[d] = outbuf[d]
      BY <2>1 DEF TypeOK
    <3> QED BY <2>1, <2>3, <3>1 DEF Delivered
  <2> QED BY <2>1, <2>2, <2>3, TransportDelivery
<1> QED BY <1>1, <1>2, <1>3, <1>4, <1>5, <1>6, <1>7 DEF Next, RunsOn

\* A broadcast during which nobody joined or left, and that ends without an
\* exception, has put its frame into the hands or the buffer of everybody who
\* is still up, whatever the other broadcasts and the peers did meanwhile.
THEOREM DeliveryCorrect == Spec => StableBroadcastDelivers
<1>1. Init => DeliveryInv
  BY DEF Init, DeliveryInv, InLoop, Broadcasting
<1>2. TypeOK /\ DeliveryInv /\ [Next]_vars =>
        [\A h \in Conns :
           pc[h] = "iterate" /\ pc'[h] = "receive" /\ h \notin churned
             => \A c \in loop[h].base : c \in lost \/ Delivered(h, c)]_vars
  <2> SUFFICES ASSUME TypeOK, DeliveryInv, Next, NEW h \in Conns,
                      pc[h] = "iterate", pc'[h] = "receive", h \notin churned,
                      NEW c \in loop[h].base
               PROVE  c \in lost \/ Delivered(h, c)
    OBVIOUS
  <2>1. FinishBroadcast(h)
    <3>1. ~LoopFree
      BY DEF LoopFree
    <3>2. PICK g \in Conns : RunsOn(g)
      BY <3>1 DEF Next, Connect, TakeMessage, RejectFrame, EndOfFrames, SendReturns,
                  PeerReads, PeerLost
    <3>3. CASE IterationRaises(g)
      BY <3>3 DEF IterationRaises, Leave, TypeOK
    <3>4. CASE FinishBroadcast(g)
      BY <3>4 DEF FinishBroadcast, TypeOK
    <3>5. ASSUME NEW d \in Conns, SendFails(g, d) \/ SendWrites(g, d) PROVE FALSE
      <4>1. pc' = pc \/ pc' = [pc EXCEPT ![g] = "drain"] \/ pc' = [pc EXCEPT ![g] = "ready"]
        BY <3>5, WriteFacts DEF SendFails
      <4> QED BY <4>1 DEF TypeOK
    <3> QED BY <3>2, <3>3, <3>4, <3>5 DEF RunsOn
  <2>2. clients \subseteq loop[h].reached
    BY <2>1 DEF FinishBroadcast, MayStop
  <2>3. /\ loop[h].base = clients
        /\ \A d \in loop[h].reached : d \in lost \/ Delivered(h, d)
    BY DEF DeliveryInv, InLoop, Broadcasting
  <2> QED BY <2>2, <2>3
<1> QED
  BY <1>1, <1>2, OrderInit, OrderStep, DeliveryStep, TypeOKInit, TypeOKStep, PTL
     DEF Spec, StableBroadcastDelivers

-----------------------------------------------------------------------------
(* The relay implements FanOut.                                            *)

\* The connections whose handler has returned.
Over == {c \in Conns : pc[c] = "done"}

\* A handler that ends removes itself; one whose loop is exhausted removes
\* members that are gone.
LEMMA LeaveMaps ==
  ASSUME NEW h \in Conns, RegistryInv,
         Leave(h) \/ FinishBroadcast(h)
  PROVE  Promise!Next
<1>1. CASE Leave(h)
  <2>1. /\ clients' = clients \ {h} /\ UNCHANGED <<lost, seen, taken>>
        /\ pc' = [pc EXCEPT ![h] = "done"]
    BY <1>1 DEF Leave, SetClients, peerVars
  <2>2. Over' = Over \cup {h}
    BY <2>1 DEF Over, RegistryInv, TypeOK
  <2>3. Promise!Leave(h)
    BY <2>1, <2>2 DEF Promise!Leave, Over
  <2> QED BY <2>3 DEF Promise!Next
<1>2. CASE FinishBroadcast(h)
  <2>1. /\ clients' = clients \ loop[h].failed
        /\ UNCHANGED <<lost, seen, taken>>
        /\ pc[h] = "iterate" /\ pc' = [pc EXCEPT ![h] = "receive"]
    BY <1>2 DEF FinishBroadcast, SetClients, peerVars
  <2>2. loop[h].failed \in SUBSET Conns /\ loop[h].failed \subseteq lost
    BY DEF RegistryInv, FailedAreLost, TypeOK
  <2>3. Over' = Over
    BY <2>1 DEF Over, RegistryInv, TypeOK
  <2>4. Promise!Forget(loop[h].failed)
    BY <2>1, <2>2, <2>3 DEF Promise!Forget, Over
  <2> QED BY <2>2, <2>4 DEF Promise!Next
<1> QED BY <1>1, <1>2

\* Waking writers starts and ends no handler.
LEMMA WakeOver ==
  ASSUME TypeOK, NEW c \in Conns, WakeWriters(c) \/ pc' = pc
  PROVE  Over' = Over
BY DEF TypeOK, WakeWriters, Over

\* What a peer reads is the head of its queue, which is not older than what it
\* read before and not newer than what was sent.
LEMMA ReadMaps ==
  ASSUME NEW c \in Conns, OrderInv, PeerReads(c)
  PROVE  Promise!Next
<1> DEFINE m == Head(outbuf[c])
<1>1. /\ seen' = [seen EXCEPT ![c] = [seen[c] EXCEPT ![m[1]] = m[2]]]
      /\ outbuf[c] # <<>> /\ c \notin lost
      /\ UNCHANGED <<clients, lost, taken>>
      /\ WakeWriters(c) \/ pc' = pc
  BY DEF PeerReads
<1>2. outbuf[c] \in Seq(Msg) /\ 1 \in 1..Len(outbuf[c]) /\ m = outbuf[c][1]
  BY <1>1 DEF OrderInv, TypeOK
<1>3. m[1] \in Conns /\ m[2] \in seen[c][m[1]]..taken[m[1]]
  <2>1. m[1] \in Conns /\ m[2] \in Nat
    BY <1>2 DEF Msg
  <2>2. QueueOrdered(outbuf[c], seen[c], taken)
    BY DEF OrderInv
  <2>3. m[2] <= taken[m[1]] /\ seen[c][m[1]] <= m[2]
    BY <1>2, <2>2 DEF QueueOrdered
  <2>4. taken[m[1]] \in Int /\ seen[c][m[1]] \in Int
    BY <2>1 DEF OrderInv, TypeOK
  <2> QED BY <2>1, <2>3, <2>4
<1>4. Over' = Over
  BY <1>1, WakeOver DEF OrderInv
<1>5. Promise!Read(c, m[1])
  <2>1. \E n \in seen[c][m[1]]..taken[m[1]] : seen' = [seen EXCEPT ![c][m[1]] = n]
    BY <1>1, <1>3
  <2>2. UNCHANGED <<clients, lost, taken>> /\ c \notin lost
    BY <1>1
  <2> HIDE DEF m
  <2>3. Over' = Over => Promise!Read(c, m[1])
    BY <2>1, <2>2 DEF Promise!Read, Over
  <2> QED BY <1>4, <2>3
<1> QED BY <1>3, <1>5 DEF Promise!Next

\* Every other step is one of FanOut's or changes nothing that FanOut knows.
LEMMA PromiseStep ==
  ASSUME RegistryInv, OrderInv, [Next]_vars
  PROVE  [Promise!Next]_(Promise!vars)
<1> USE DEF Promise!vars
<1>1. ASSUME NEW c \in Conns, Connect(c)
      PROVE  Promise!Next
  <2>1. Over' = Over /\ c \notin Over
    BY <1>1 DEF Connect, Over, RegistryInv, TypeOK
  <2>2. Promise!Join(c)
    BY <1>1, <2>1 DEF Connect, SetClients, peerVars, Promise!Join, Over
  <2> QED BY <2>2 DEF Promise!Next
<1>2. ASSUME NEW c \in Conns, TakeMessage(c)
      PROVE  Promise!Next
  <2>1. c \in (clients \cup lost) \ Over /\ Over' = Over
    BY <1>2 DEF TakeMessage, RegistryInv, RegistrySound, Alive, TypeOK, Over
  <2>2. Promise!Publish(c)
    BY <1>2, <2>1 DEF TakeMessage, peerVars, Promise!Publish, Over
  <2> QED BY <2>2 DEF Promise!Next
<1>3. ASSUME NEW c \in Conns,
             RejectFrame(c) \/ EndOfFrames(c) \/ IterationRaises(c) \/ FinishBroadcast(c)
      PROVE  Promise!Next
  BY <1>3, LeaveMaps DEF RejectFrame, EndOfFrames, IterationRaises
<1>4. ASSUME NEW c \in Conns,
             SendReturns(c) \/ \E d \in Conns : SendFails(c, d) \/ SendWrites(c, d)
      PROVE  UNCHANGED <<clients, lost, taken, seen, Over>>
  <2>1. /\ UNCHANGED <<clients, lost, taken, seen>>
        /\ pc[c] # "done"
        /\ pc' = pc \/ \E to \in {"iterate", "drain", "ready"} : pc' = [pc EXCEPT ![c] = to]
    BY <1>4, WriteFacts DEF SendReturns, SendFails, Yield, peerVars
  <2>2. Over' = Over
    BY <2>1 DEF Over, RegistryInv, TypeOK
  <2> QED BY <2>1, <2>2
<1>5. ASSUME NEW c \in Conns, PeerReads(c)
      PROVE  Promise!Next
  BY <1>5, ReadMaps
<1>6. ASSUME NEW c \in Conns, PeerLost(c)
      PROVE  Promise!Next
  <2>1. Over' = Over
    BY <1>6, WakeOver DEF PeerLost, RegistryInv
  <2>2. Promise!Lose(c)
    BY <1>6, <2>1 DEF PeerLost, Promise!Lose, Over
  <2> QED BY <2>2 DEF Promise!Next
<1>7. CASE UNCHANGED vars
  BY <1>7 DEF vars, peerVars
<1> QED BY <1>1, <1>2, <1>3, <1>4, <1>5, <1>6, <1>7 DEF Next, RunsOn, Over

\* For every number of connections and frames, the relay implements FanOut.
THEOREM KeepsPromiseCorrect == Spec => KeepsPromise
<1>1. Init => Promise!Init
  BY DEF Init, Promise!Init
<1>2. Init => RegistryInv /\ OrderInv
  BY RegistryInit, OrderInit
<1>3. RegistryInv /\ OrderInv /\ [Next]_vars => RegistryInv' /\ OrderInv'
  BY RegistryStep, OrderStep
<1>4. RegistryInv /\ OrderInv /\ [Next]_vars => [Promise!Next]_(Promise!vars)
  BY PromiseStep
<1> QED BY <1>1, <1>2, <1>3, <1>4, PTL DEF Spec, KeepsPromise, Promise!Spec
=============================================================================
