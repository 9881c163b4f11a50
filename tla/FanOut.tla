-------------------------------- MODULE FanOut --------------------------------
(***************************************************************************)
(* What the relay of server/server.py promises to the connections it       *)
(* serves, without handlers, queues and iterators: frames of each sender   *)
(* reach each peer in the order they were sent, never before they were     *)
(* sent, and never through a connection that is gone; and a member is      *)
(* forgotten only when it leaves by itself or when it is gone.             *)
(*                                                                         *)
(* It does not promise that a peer gets every frame, nor that it gets one  *)
(* only once: the loop over the shared set may skip and repeat members     *)
(* that it should not.                                                     *)
(***************************************************************************)
EXTENDS Naturals

CONSTANT Conns  \* connections

VARIABLES
  members,  \* connections that are served
  gone,     \* connections that are lost
  over,     \* connections that have left by themselves
  sent,     \* number of frames each member has published
  read      \* the last frame of each sender that each peer has read

vars == <<members, gone, over, sent, read>>

Init ==
  /\ members = {} /\ gone = {} /\ over = {}
  /\ sent = [c \in Conns |-> 0]
  /\ read = [c \in Conns |-> [s \in Conns |-> 0]]

\* A connection becomes a member.
Join(c) ==
  /\ c \notin over
  /\ members' = members \cup {c}
  /\ UNCHANGED <<gone, over, sent, read>>

\* A member leaves for good.
Leave(c) ==
  /\ over' = over \cup {c}
  /\ members' = members \ {c}
  /\ UNCHANGED <<gone, sent, read>>

\* Members that are gone are forgotten by somebody who found out.
Forget(set) ==
  /\ set \subseteq gone
  /\ members' = members \ set
  /\ UNCHANGED <<gone, over, sent, read>>

Lose(c) ==
  /\ gone' = gone \cup {c}
  /\ UNCHANGED <<members, over, sent, read>>

\* What a member sent before it was lost may still be published.
Publish(c) ==
  /\ c \in (members \cup gone) \ over
  /\ sent' = [sent EXCEPT ![c] = @ + 1]
  /\ UNCHANGED <<members, gone, over, read>>

\* A peer reads a frame of a sender, one after those it read before.
Read(c, s) ==
  /\ c \notin gone
  /\ \E n \in read[c][s]..sent[s] : read' = [read EXCEPT ![c][s] = n]
  /\ UNCHANGED <<members, gone, over, sent>>

Next ==
  \/ \E c \in Conns : Join(c) \/ Leave(c) \/ Lose(c) \/ Publish(c)
  \/ \E set \in SUBSET Conns : Forget(set)
  \/ \E c, s \in Conns : Read(c, s)

Spec == Init /\ [][Next]_vars
=============================================================================
