---------------------------- MODULE ByteChannel ----------------------------
(***************************************************************************)
(* What a link cable promises to the programs at its two ends: every byte  *)
(* one end writes is read once by the other end, unchanged and in order,   *)
(* and at most Capacity bytes are under way in one direction.  The promise *)
(* ends for a cable when a program at one of its ends disturbs it.         *)
(***************************************************************************)
EXTENDS Integers, Sequences

CONSTANTS End,       \* the ends of the cables
          Peer,      \* the end at the other side of the cable
          Data,      \* what can be sent
          Capacity   \* the most bytes under way in one direction

VARIABLES sent,      \* sent[e]: everything end e has written
          got,       \* got[e]: everything end e has read
          disturbed  \* disturbed[e]: end e has disturbed its cable

vars == <<sent, got, disturbed>>

UnderWay(e) == Len(sent[e]) - Len(got[Peer[e]])

Init ==
  /\ sent = [e \in End |-> <<>>]
  /\ got  = [e \in End |-> <<>>]
  /\ disturbed = [e \in End |-> FALSE]

Send(e) ==
  /\ UnderWay(e) < Capacity
  /\ \E d \in Data : sent' = [sent EXCEPT ![e] = Append(@, d)]
  /\ UNCHANGED <<got, disturbed>>

Receive(e) ==
  /\ UnderWay(Peer[e]) > 0
  /\ got' = [got EXCEPT ![e] = Append(@, sent[Peer[e]][Len(@) + 1])]
  /\ UNCHANGED <<sent, disturbed>>

(* From the step in which e disturbs its cable on, anything may happen at  *)
(* its two ends, but at no other.                                          *)
Disturb(e) ==
  /\ disturbed'[e]
  /\ \A d \in End \ {e, Peer[e]} :
       /\ sent'[d] = sent[d] /\ got'[d] = got[d]
       /\ disturbed'[d] = disturbed[d]

Next == \E e \in End : Send(e) \/ Receive(e) \/ Disturb(e)

Spec == Init /\ [][Next]_vars

=============================================================================
