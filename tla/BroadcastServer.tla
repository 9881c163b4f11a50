--------------------------- MODULE BroadcastServer ---------------------------
(***************************************************************************)
(* The WebSocket relay of server/server.py (websocket_handler): every      *)
(* connection has a handler coroutine on one asyncio event loop; a text    *)
(* frame read by a handler is written to every member of the shared set    *)
(* websocket_clients, one awaited send at a time.                          *)
(*                                                                         *)
(* A coroutine runs until it awaits something that is not ready, so the    *)
(* state "iterate" means: this handler holds the event loop.  Every other  *)
(* action needs the loop to be free.  The hazard of the code is that the   *)
(* set is iterated across awaits while other handlers add and discard.     *)
(*                                                                         *)
(* aiohttp (transports, flow control, close handshake) and CPython's set   *)
(* iterator are modelled from the way the handler uses them.               *)
(***************************************************************************)
EXTENDS Naturals, Sequences, FiniteSets

CONSTANTS
  Conns,      \* connections; a peer that reconnects is a new connection
  Producers,  \* the connections whose peer sends text frames
  MaxMsgs,    \* bound: text frames taken from one producer
  HighWater,  \* frames a transport buffers before its writer is paused
  LowWater,   \* frames left when a paused writer is resumed
  DrainLimit, \* frames a writer takes without asking if it is paused
  MaxYields,  \* bound: elements yielded by an iterator whose set was mutated
  NoConn      \* not a connection: the handler awaits no send

ASSUME RelayAssumption ==
  /\ IsFiniteSet(Conns)
  /\ Producers \subseteq Conns
  /\ MaxMsgs \in Nat
  /\ HighWater \in Nat
  /\ LowWater \in 0..HighWater
  /\ DrainLimit \in Nat
  /\ MaxYields \in Nat
  /\ NoConn \notin Conns

VARIABLES
  pc,        \* where the handler of each connection is
  clients,   \* websocket_clients
  lost,      \* connections whose transport the server knows to be gone
  outbuf,    \* frames written to a transport and not yet read by its peer
  paused,    \* transports above the high-water mark
  unchecked, \* frames written to each since its writer last asked (_output_size)
  seen,      \* history: the last frame of each sender that each peer read
  taken,     \* number of frames each handler has taken from its peer
  loop,      \* the broadcast loop of each handler
  churned,   \* handlers whose loop saw websocket_clients mutated
  target     \* connection whose send the handler awaits

peerVars == <<lost, outbuf, paused, unchecked, seen>>
vars == <<pc, clients, peerVars, taken, loop, churned, target>>

Msg == Conns \X (0..MaxMsgs)

\* One run of the loop of lines 36-45: the set size its iterator remembers,
\* websocket_clients when it began, what the iterator has yielded and how
\* often, and disconnected_clients.
Loop == [size : Nat, base : SUBSET Conns, reached : SUBSET Conns,
         yields : Nat, failed : SUBSET Conns]
LoopOver(set) ==
  [size |-> Cardinality(set), base |-> set, reached |-> {},
   yields |-> 0, failed |-> {}]
NoLoop == LoopOver({})

-----------------------------------------------------------------------------
Broadcasting == {"iterate", "drain", "ready"}
Alive(c) == pc[c] \in Broadcasting \cup {"receive"}
LoopFree == \A c \in Conns : pc[c] # "iterate"

\* websocket_clients becomes new.  Handler h is not in a broadcast any more;
\* a real change is seen by the iterators that are in progress elsewhere.
SetClients(h, new) ==
  /\ clients' = new
  /\ loop' = [loop EXCEPT ![h] = NoLoop]
  /\ churned' = (IF new = clients THEN churned
                 ELSE churned \cup {g \in Conns : pc[g] \in Broadcasting}) \ {h}

Init ==
  /\ pc = [c \in Conns |-> "none"]
  /\ clients = {}
  /\ lost = {}
  /\ outbuf = [c \in Conns |-> <<>>]
  /\ paused = {}
  /\ unchecked = [c \in Conns |-> 0]
  /\ seen = [c \in Conns |-> [s \in Conns |-> 0]]
  /\ taken = [c \in Conns |-> 0]
  /\ loop = [c \in Conns |-> NoLoop]
  /\ churned = {}
  /\ target = [c \in Conns |-> NoConn]

-----------------------------------------------------------------------------
(* The handler.                                                            *)

\* ws.prepare returned: the connection is registered and awaits a frame.
Connect(c) ==
  /\ LoopFree
  /\ pc[c] = "none"
  /\ pc' = [pc EXCEPT ![c] = "receive"]
  /\ SetClients(c, clients \cup {c})
  /\ UNCHANGED <<peerVars, taken, target>>

\* A text frame arrived and parsed: the loop over websocket_clients begins.
\* Frames buffered before the peer went away are still delivered.
TakeMessage(h) ==
  /\ LoopFree
  /\ pc[h] = "receive"
  /\ h \in Producers /\ taken[h] < MaxMsgs
  /\ pc' = [pc EXCEPT ![h] = "iterate"]
  /\ taken' = [taken EXCEPT ![h] = @ + 1]
  /\ loop' = [loop EXCEPT ![h] = LoopOver(clients)]
  /\ UNCHANGED <<clients, churned, peerVars, target>>

\* Fault: no finally clause.
LeaveRegistered(h) ==
  /\ pc' = [pc EXCEPT ![h] = "done"]
  /\ loop' = [loop EXCEPT ![h] = NoLoop]
  /\ churned' = churned \ {h}
  /\ UNCHANGED <<clients, peerVars, taken, target>>

\* The finally clause: the handler unregisters itself and returns.
Leave(h) ==
  /\ pc' = [pc EXCEPT ![h] = "done"]
  /\ SetClients(h, clients \ {h})
  /\ UNCHANGED <<peerVars, taken, target>>

\* A close frame of the peer, a text frame that is not JSON, or an ERROR frame
\* ends the handler while its transport is still up.
RejectFrame(h) ==
  /\ LoopFree
  /\ pc[h] = "receive"
  /\ Leave(h)

\* The peer is gone: the async iteration over frames ends.
EndOfFrames(h) ==
  /\ LoopFree
  /\ pc[h] = "receive"
  /\ h \in lost
  /\ Leave(h)

\* What the set iterator may yield next.  An undisturbed iterator yields each
\* element once; after a mutation that kept the size, the hash table may have
\* been rebuilt, and an element may be yielded again or skipped.
SizeChanged(h) == Cardinality(clients) # loop[h].size
MayYield(h) ==
  IF h \in churned THEN {c \in clients : loop[h].yields < MaxYields}
                     ELSE clients \ loop[h].reached
MayStop(h) == h \in churned \/ clients \subseteq loop[h].reached

\* The iterator yields c to handler h, whose send fails or not.
Yield(h, c, fails) ==
  LET l == loop[h] IN
  /\ pc[h] = "iterate"
  /\ ~SizeChanged(h)
  /\ c \in MayYield(h)
  /\ loop' = [loop EXCEPT ![h] =
       [l EXCEPT !.reached = l.reached \cup {c}, !.yields = l.yields + 1,
                 !.failed = l.failed \cup (IF fails THEN {c} ELSE {})]]
  /\ UNCHANGED <<clients, churned, taken>>

\* Fault: a client with frames in its buffer is taken for a broken one.
SendGivesUp(h, c) ==
  /\ Yield(h, c, TRUE)
  /\ c \in lost \/ outbuf[c] # <<>>
  /\ UNCHANGED <<pc, peerVars, target>>

\* send_str raises on a transport that is gone.
SendFails(h, c) ==
  /\ Yield(h, c, TRUE)
  /\ c \in lost
  /\ UNCHANGED <<pc, peerVars, target>>

\* The frame enters the buffer of c; over the mark, the transport is paused.
Write(h, c) ==
  /\ outbuf' = [outbuf EXCEPT ![c] = Append(@, <<h, taken[h]>>)]
  /\ paused' = IF Len(outbuf[c]) >= HighWater THEN paused \cup {c} ELSE paused

\* The writer counts what it has written.  Only when that exceeds DrainLimit
\* does it ask for the transport, and then it waits if that is paused.
Asks(c) == unchecked[c] = DrainLimit
Counts(c) == unchecked' = [unchecked EXCEPT ![c] = IF Asks(c) THEN 0 ELSE @ + 1]

\* Fault: a send that should suspend the handler is not awaited.
SendWithoutAwait(h, c) ==
  /\ Yield(h, c, FALSE)
  /\ c \notin lost
  /\ Write(h, c) /\ Counts(c)
  /\ UNCHANGED <<pc, target, lost, seen>>

\* Fault: the newest frame goes to the head of the queue.
SendNewestFirst(h, c) ==
  /\ Yield(h, c, FALSE)
  /\ c \notin lost
  /\ outbuf' = [outbuf EXCEPT ![c] = <<<<h, taken[h]>>>> \o @]
  /\ Counts(c)
  /\ UNCHANGED <<pc, target, lost, paused, seen>>

\* Fault: the handler waits for its own transport, not for the client's.
SendWaitsForOwn(h, c) ==
  LET waits == Asks(c) /\ c \in paused' IN
  /\ Yield(h, c, FALSE)
  /\ c \notin lost
  /\ Write(h, c) /\ Counts(c)
  /\ \/ ~waits /\ UNCHANGED <<pc, target>>
     \/ /\ pc' = [pc EXCEPT ![h] = IF waits THEN "drain" ELSE "ready"]
        /\ target' = [target EXCEPT ![h] = h]
  /\ UNCHANGED <<lost, seen>>

\* send_str writes the frame and returns at once, or suspends the handler:
\* when the writer waits, and also when aiohttp hands a large frame to its
\* compression worker.
SendWrites(h, c) ==
  LET waits == Asks(c) /\ c \in paused' IN
  /\ Yield(h, c, FALSE)
  /\ c \notin lost
  /\ Write(h, c) /\ Counts(c)
  /\ \/ ~waits /\ UNCHANGED <<pc, target>>
     \/ /\ pc' = [pc EXCEPT ![h] = IF waits THEN "drain" ELSE "ready"]
        /\ target' = [target EXCEPT ![h] = c]
  /\ UNCHANGED <<lost, seen>>

\* Fault: the client is forgotten before it is recorded as failed.
SendReturnsStale(h) ==
  /\ LoopFree
  /\ pc[h] = "ready"
  /\ pc' = [pc EXCEPT ![h] = "iterate"]
  /\ target' = [target EXCEPT ![h] = NoConn]
  /\ \/ UNCHANGED loop
     \/ /\ target[h] \in lost
        /\ loop' = [loop EXCEPT ![h].failed = @ \cup {target'[h]}]
  /\ UNCHANGED <<clients, churned, peerVars, taken>>

\* The awaited send returns; on a transport that was lost meanwhile it may
\* raise instead (connection_lost with or without an exception).
SendReturns(h) ==
  /\ LoopFree
  /\ pc[h] = "ready"
  /\ pc' = [pc EXCEPT ![h] = "iterate"]
  /\ target' = [target EXCEPT ![h] = NoConn]
  /\ \/ UNCHANGED loop
     \/ /\ target[h] \in lost
        /\ loop' = [loop EXCEPT ![h].failed = @ \cup {target[h]}]
  /\ UNCHANGED <<clients, churned, peerVars, taken>>

\* RuntimeError "Set changed size during iteration" leaves the loop through
\* the outer except clause: the sender's own handler ends.
IterationRaises(h) ==
  /\ pc[h] = "iterate"
  /\ SizeChanged(h)
  /\ Leave(h)

\* Fault: the loop ends early, at the first client whose send failed.
FinishAtFailure(h) ==
  /\ pc[h] = "iterate"
  /\ ~SizeChanged(h)
  /\ MayStop(h) \/ loop[h].failed # {}
  /\ pc' = [pc EXCEPT ![h] = "receive"]
  /\ SetClients(h, clients \ loop[h].failed)
  /\ UNCHANGED <<peerVars, taken, target>>

\* The loop is exhausted: the failed connections are removed.
FinishBroadcast(h) ==
  /\ pc[h] = "iterate"
  /\ ~SizeChanged(h)
  /\ MayStop(h)
  /\ pc' = [pc EXCEPT ![h] = "receive"]
  /\ SetClients(h, clients \ loop[h].failed)
  /\ UNCHANGED <<peerVars, taken, target>>

-----------------------------------------------------------------------------
(* The peers and their transports (aiohttp, asyncio).                      *)

\* Handlers that wait for the transport of c are scheduled again.
WakeWriters(c) ==
  pc' = [h \in Conns |-> IF pc[h] = "drain" /\ target[h] = c THEN "ready" ELSE pc[h]]

PeerReads(c) ==
  /\ LoopFree
  /\ c \notin lost
  /\ outbuf[c] # <<>>
  /\ seen' = [seen EXCEPT ![c][Head(outbuf[c])[1]] = Head(outbuf[c])[2]]
  /\ outbuf' = [outbuf EXCEPT ![c] = Tail(@)]
  /\ IF Len(outbuf[c]) - 1 <= LowWater
       THEN paused' = paused \ {c} /\ WakeWriters(c)
       ELSE UNCHANGED <<paused, pc>>
  /\ UNCHANGED <<clients, churned, lost, unchecked, taken, loop, target>>

\* connection_lost: frames not read yet are gone, waiting writers wake up.
\* aiohttp also ends the transport of a handler that has returned.
PeerLost(c) ==
  /\ LoopFree
  /\ pc[c] # "none"
  /\ c \notin lost
  /\ lost' = lost \cup {c}
  /\ outbuf' = [outbuf EXCEPT ![c] = <<>>]
  /\ paused' = paused \ {c}
  /\ WakeWriters(c)
  /\ UNCHANGED <<clients, churned, unchecked, seen, taken, loop, target>>

-----------------------------------------------------------------------------
\* A handler that holds the event loop runs on.
RunsOn(h) ==
  \/ IterationRaises(h)
  \/ FinishBroadcast(h)
  \/ \E c \in Conns : SendFails(h, c) \/ SendWrites(h, c)

Next ==
  \E c \in Conns :
    \/ Connect(c)
    \/ TakeMessage(c)
    \/ RejectFrame(c)
    \/ EndOfFrames(c)
    \/ SendReturns(c)
    \/ RunsOn(c)
    \/ PeerReads(c)
    \/ PeerLost(c)

Spec == Init /\ [][Next]_vars

\* The event loop keeps scheduling handlers, peers that are up keep reading,
\* and aiohttp ends the transport of a handler that has returned.
Fairness ==
  \A c \in Conns :
    /\ WF_vars(EndOfFrames(c))
    /\ WF_vars(SendReturns(c))
    /\ WF_vars(RunsOn(c))
    /\ WF_vars(PeerReads(c))
    /\ WF_vars(pc[c] = "done" /\ PeerLost(c))

FairSpec == Spec /\ Fairness

-----------------------------------------------------------------------------
(* Properties.                                                             *)

\* Types of the state of the relay.
TypeOK ==
  /\ pc \in [Conns -> Broadcasting \cup {"none", "receive", "done"}]
  /\ clients \subseteq Conns
  /\ lost \subseteq Conns
  /\ outbuf \in [Conns -> Seq(Msg)]
  /\ paused \subseteq Conns
  /\ unchecked \in [Conns -> 0..DrainLimit]
  /\ seen \in [Conns -> [Conns -> 0..MaxMsgs]]
  /\ taken \in [Conns -> 0..MaxMsgs]
  /\ loop \in [Conns -> Loop]
  /\ churned \subseteq Conns
  /\ target \in [Conns -> Conns \cup {NoConn}]

\* websocket_clients names exactly the handlers that serve: no entry outlives
\* its handler (lines 52-53), and a connection whose transport is up is never
\* dropped from it by somebody else's broadcast (line 45).
RegistrySound ==
  \A c \in Conns :
    /\ c \in clients => Alive(c)
    /\ Alive(c) /\ c \notin lost => c \in clients

\* Awaiting each send (line 40) bounds what the server buffers for a slow
\* peer: the mark, what its writer takes between two questions for each handler
\* that waits for it, and what was written since the last question.
Waiting(c) == {h \in Conns : pc[h] = "drain" /\ target[h] = c}
Backpressure ==
  \A c \in Conns :
    Len(outbuf[c]) <= HighWater + (DrainLimit + 1) * Cardinality(Waiting(c)) + unchecked[c]

\* A peer sees the frames of one sender in the order they were sent, however
\* many broadcasts interleave and whatever their iterators repeat or skip.
SenderOrder ==
  \A c \in Conns : \A i \in 1..Len(outbuf[c]) :
    LET s == outbuf[c][i][1] IN
    /\ seen[c][s] <= outbuf[c][i][2]
    /\ \A j \in i..Len(outbuf[c]) :
         outbuf[c][j][1] = s => outbuf[c][i][2] <= outbuf[c][j][2]

\* A broadcast that ends without an exception (line 45) and during which
\* nobody joined or left has delivered its frame to every connection still up.
Delivered(h, c) ==
  \/ seen[c][h] = taken[h]
  \/ \E i \in 1..Len(outbuf[c]) : outbuf[c][i] = <<h, taken[h]>>
StableBroadcastDelivers ==
  [][\A h \in Conns :
       pc[h] = "iterate" /\ pc'[h] = "receive" /\ h \notin churned
         => \A c \in loop[h].base : c \in lost \/ Delivered(h, c)]_vars

\* The comment of line 36: a message is broadcast to all connected clients.
\* However the loop ends, whoever was connected all along was reached.
BroadcastReachesAll ==
  [][\A h \in Conns :
       pc[h] = "iterate" /\ pc'[h] \in {"receive", "done"}
         => (loop[h].base \cap clients) \ lost \subseteq loop[h].reached]_vars

\* No handler waits for ever on a transport: a suspended send (line 40) ends
\* once its peer reads or goes away.
SendsEnd == \A h \in Conns : pc[h] = "drain" ~> pc[h] # "drain"

\* A dead connection does not stay in websocket_clients (lines 45, 53).
LostIsForgotten == \A c \in Conns : c \in lost ~> c \notin clients

\* The relay keeps the promise of FanOut: what a broadcast skips, repeats or
\* drops (lines 36-53), no peer reads a sender's frames out of order or after
\* its connection was lost, and a live member is removed when its own handler
\* ends, never by somebody else's broadcast.
Promise == INSTANCE FanOut WITH
  members <- clients, gone <- lost, sent <- taken, read <- seen,
  over <- {c \in Conns : pc[c] = "done"}
KeepsPromise == Promise!Spec
=============================================================================
