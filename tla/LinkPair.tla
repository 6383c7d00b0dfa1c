------------------------------ MODULE LinkPair ------------------------------
(***************************************************************************)
(* How the link ports at the two ends of one cable agree while bytes pass  *)
(* between them: the phases of the handshake, and which registers hold the *)
(* bytes that are under way.                                               *)
(***************************************************************************)
EXTENDS LinkAssist, Sequences

(***************************************************************************)
(* The phases of one byte on its way from port p, whose assist is sending, *)
(* to port q at the other end, whose assist is not.                        *)
(***************************************************************************)
(* The bits q has shifted in so far are the first bits of the byte. *)
Prefix(p, q) ==
  \A i \in 0 .. q.bit - 1 : q.working[Width - q.bit + i] = p.out[i]

(* p announces its next bit or is about to. *)
Announcing(p) == p.host \in {{}, {p.out[p.bit]}}

(* q has heard nothing of the byte; it may still hold the one before. *)
Fresh(p, q) ==
  /\ p.bit = 0 /\ Announcing(p)
  /\ q.host = {}
  /\ q.receiving => q.bit = Width

Between(p, q) ==
  /\ p.bit \in 1 .. Width - 1 /\ Announcing(p)
  /\ q.receiving /\ q.host = {} /\ q.bit = p.bit
  /\ Prefix(p, q)

(* q holds the other line low to acknowledge the bit p announces. *)
Heard(p, q) ==
  /\ p.bit < Width
  /\ p.host = {p.out[p.bit]}
  /\ q.host = {1 - p.out[p.bit]}
  /\ q.receiving /\ q.bit = p.bit + 1
  /\ Prefix(p, q)

(* p has seen the acknowledgement; q still holds its line. *)
Released(p, q) ==
  /\ p.bit > 0 /\ p.host = {}
  /\ q.host = {1 - p.out[p.bit - 1]}
  /\ q.receiving /\ q.bit = p.bit
  /\ Prefix(p, q)

(* All bits are through; p has yet to see the idle cable. *)
Through(p, q) ==
  /\ p.bit = Width /\ p.host = {}
  /\ q.host = {}
  /\ q.receiving => q.bit = Width /\ Prefix(p, q)

Transfer(p, q) ==
  \/ Fresh(p, q)
  \/ Between(p, q)
  \/ Heard(p, q)
  \/ Released(p, q)
  \/ Through(p, q)

(***************************************************************************)
(* Both programs wrote a byte at an idle cable.  Nothing is lost: each     *)
(* byte is either still whole at its sender or already through, and at     *)
(* most one end holds a line.                                              *)
(***************************************************************************)
WholeByte(p) ==
  /\ p.bit \in {0, Width}
  /\ p.host # {} => p.bit = 0 /\ p.host = {p.out[0]}

Clash(p, q) ==
  /\ WholeByte(p) /\ WholeByte(q)
  /\ p.host = {} \/ q.host = {}
  /\ p.bit = 0 \/ q.bit = 0

NoBitInHand(p) == p.host = {} /\ (p.receiving => p.bit = Width)

(* How two ports on one cable agree, in every combination of modes. *)
Agree(p, q) ==
  /\ p.sending /\ ~q.sending  => Transfer(p, q)
  /\ ~p.sending /\ q.sending  => Transfer(q, p)
  /\ p.sending /\ q.sending   => Clash(p, q)
  /\ ~p.sending /\ ~q.sending => NoBitInHand(p) /\ NoBitInHand(q)

(* An assist that announces a bit has one left to announce, and ready says *)
(* that it is not sending.                                                 *)
Fits(p) ==
  /\ p.sending /\ p.host # {} => p.bit < Width
  /\ p.ready => ~p.sending

(* What the status flags say of the engine they belong to. *)
Flags(p) ==
  /\ p.ready => ~p.sending /\ ~p.receiving
  /\ p.receiving => ~p.sending /\ p.bit > 0
  /\ ~p.receiving /\ ~p.sending => p.bit = 0 /\ p.host = {}

(* A whole byte in working, waiting for in to be read. *)
Held(q) == ~q.sending /\ q.bit = Width

(* The byte in p.out has not been heard to its end by q. *)
Unheard(p, q) == p.sending /\ p.bit < Width /\ ~(Held(q) /\ q.host # {})

(* How many bytes in, working and out hold for the reader at q. *)
InRead(q)    == IF q.read THEN 1 ELSE 0
InWorking(q) == IF Held(q) THEN 1 ELSE 0
InOut(p, q)  == IF Unheard(p, q) THEN 1 ELSE 0

(* S was written at port p and G read at port q: S is G, then what in,     *)
(* working and out hold.                                                   *)
Lossless(S, G, p, q) ==
  /\ Len(S) = Len(G) + InRead(q) + InWorking(q) + InOut(p, q)
  /\ \A i \in 1 .. Len(G) : G[i] = S[i]
  /\ q.read => S[Len(G) + 1] = q.in
  /\ Held(q) => S[Len(G) + InRead(q) + 1] = q.working
  /\ Unheard(p, q) => S[Len(S)] = p.out

(***************************************************************************)
(* The whole cable, seen from one end: the registers of both ends agree    *)
(* and both directions are lossless.  S was written at p, T at q; G was    *)
(* read at q, H at p.                                                      *)
(***************************************************************************)
Safe(p, q, S, G, T, H) ==
  /\ p \in Port /\ q \in Port
  /\ Flags(p) /\ Flags(q) /\ Agree(p, q)
  /\ Lossless(S, G, p, q) /\ Lossless(T, H, q, p)

=============================================================================
