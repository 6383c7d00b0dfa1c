---------------------------- MODULE MCLinkCable ----------------------------
(* Two calculators on one cable. *)
EXTENDS LinkCable

CONSTANTS c1, c2

MCCalc == {c1, c2}

MCPeer == [c \in MCCalc |-> IF c = c1 THEN c2 ELSE c1]

(* One end sends enough to fill out, working and in; the other answers. *)
MCMaxBytes == [c \in MCCalc |-> IF c = c1 THEN 3 ELSE 1]

(* What is promised of the bytes ends with the first disturbance.  What     *)
(* follows it is explored for cables on which each end has written one     *)
(* byte at most.  No step that fairness asks for disturbs a byte, so that  *)
(* every fair behaviour without a disturbance is explored whole.           *)
SmallDisturbance ==
  (\E c \in MCCalc : disturbed[c]) => \A c \in MCCalc : Len(sent[c]) <= 1

=============================================================================
