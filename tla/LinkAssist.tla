----------------------------- MODULE LinkAssist -----------------------------
(***************************************************************************)
(* The byte engine of the Silver Edition link port: LINKASSIST_t, the link *)
(* port latch link_t.host, the handlers of ports 08, 0A and 0D and the     *)
(* part of port 09 that runs on every interrupt poll.                      *)
(*                                                                         *)
(* The two wires of the port are modelled by the lines that are held low.  *)
(* Line b is the line that announces a bit of value b: the source's        *)
(* host = 2 is {1}, host = 1 is {0}, and host = 0 is {}.  LinkRead, the    *)
(* complement of the wired OR of the two ends, is then the union of what   *)
(* the two ends hold low: LinkRead = 3 is {}, LinkRead = 0 is Line,        *)
(* LinkRead = 1 is {1} and LinkRead = 2 is {0}.                            *)
(*                                                                         *)
(* A byte is a function from bit positions to bits, so that shifting it is *)
(* what the source's >> does.  Width is 8 in the source.                   *)
(***************************************************************************)
EXTENDS Integers

CONSTANT Width

ASSUME WidthAssumption == Width \in Nat \ {0}

Line == {0, 1}

Byte == [0 .. Width - 1 -> Line]

(* The registers of one calculator's link port. *)
Port == [enabled   : BOOLEAN,      \* link_enable bit 7 clear
         in        : Byte,
         out       : Byte,
         working   : Byte,
         receiving : BOOLEAN,
         read      : BOOLEAN,
         ready     : BOOLEAN,
         sending   : BOOLEAN,
         bit       : 0 .. Width,
         host      : SUBSET Line]  \* the lines this calculator holds low

ZeroByte == [i \in 0 .. Width - 1 |-> 0]

(* SE_AUX_init clears the registers and disables the assist. *)
PowerOn == [enabled |-> FALSE, in |-> ZeroByte, out |-> ZeroByte,
            working |-> ZeroByte, receiving |-> FALSE, read |-> FALSE,
            ready |-> FALSE, sending |-> FALSE, bit |-> 0, host |-> {}]

(* The definitions named Wrong... are what a plausible slip would make of    *)
(* the definition that follows them; they show which property notices it.  *)

(* shifting the wrong way *)
WrongShiftIn(w, b) ==
  [i \in 0 .. Width - 1 |-> IF i = 0 THEN b ELSE w[i - 1]]

(* working = (working >> 1) + 128 * b *)
ShiftIn(w, b) ==
  [i \in 0 .. Width - 1 |-> IF i = Width - 1 THEN b ELSE w[i + 1]]

(* The byte in working is handed to the program. *)
Complete(p) ==
  [p EXCEPT !.receiving = FALSE, !.read = TRUE, !.in = p.working, !.bit = 0]

(* the line is released without waiting for the acknowledgement *)
WrongSendTick(p, low) ==
  CASE low # {} ->
         [p EXCEPT !.ready = FALSE,
                   !.bit   = IF p.host # {} THEN @ + 1 ELSE @,
                   !.host  = {}]
    [] low = {} /\ p.bit >= Width ->
         [p EXCEPT !.sending = FALSE, !.ready = TRUE, !.bit = 0]
    [] OTHER ->
         [p EXCEPT !.ready = FALSE, !.host = {p.out[p.bit]}]

(***************************************************************************)
(* One poll of port 09 while a byte is being sent; low is what both ends   *)
(* hold low.                                                               *)
(***************************************************************************)
SendTick(p, low) ==
  CASE low = Line ->
         [p EXCEPT !.ready = FALSE,
                   !.bit   = IF p.host # {} THEN @ + 1 ELSE @,
                   !.host  = {}]
    [] low = {} /\ p.bit >= Width ->
         [p EXCEPT !.sending = FALSE, !.ready = TRUE, !.bit = 0]
    [] low = {} /\ p.bit < Width ->
         [p EXCEPT !.ready = FALSE, !.host = {p.out[p.bit]}]
    [] OTHER ->
         [p EXCEPT !.ready = FALSE]

(***************************************************************************)
(* One poll of port 09 while no byte is being sent.  HearBit is the case   *)
(* of one line low and an incomplete byte, HearFull the case of one line   *)
(* low and Width bits in hand, HearIdle the case of an idle cable.         *)
(***************************************************************************)
HearBit(p, b) ==
  LET start == IF p.receiving THEN p.bit ELSE 0
  IN  IF p.host = {}
        THEN [p EXCEPT !.receiving = TRUE, !.working = ShiftIn(@, b),
                       !.bit = start + 1, !.host = {1 - b}]
        ELSE [p EXCEPT !.receiving = TRUE, !.bit = start, !.host = {}]

(* in is overwritten whether or not the program has read it *)
WrongHearFull(p) == Complete([p EXCEPT !.host = {}])

HearFull(p) ==
  LET released == [p EXCEPT !.host = {}]
  IN  IF p.read THEN released ELSE Complete(released)

(* the same slip on an idle cable *)
WrongHearIdle(p) ==
  CASE p.bit >= Width -> Complete(p)
    [] p.bit = 0      -> [p EXCEPT !.ready = TRUE]
    [] OTHER          -> p

(* a whole byte in working waits for the next bit *)
StuckHearIdle(p) == IF p.bit = 0 THEN [p EXCEPT !.ready = TRUE] ELSE p

HearIdle(p) ==
  CASE p.bit >= Width /\ ~p.read -> Complete(p)
    [] p.bit = 0                 -> [p EXCEPT !.ready = TRUE]
    [] OTHER                     -> p

ReceiveTick(p, low) ==
  LET busy == [p EXCEPT !.ready = FALSE]
  IN  CASE low = {}   -> HearIdle(p)
        [] low = Line -> busy
        [] OTHER      -> LET b == CHOOSE l \in Line : low = {l}
                         IN  IF p.bit < Width THEN HearBit(busy, b)
                                              ELSE HearFull(busy)

Tick(p, low) ==
  IF ~p.enabled THEN p
  ELSE IF p.sending THEN SendTick(p, low) ELSE ReceiveTick(p, low)

-----------------------------------------------------------------------------
(* OUT (8): bit 7 clear starts the polls of port 09. *)
Enable(p) == [p EXCEPT !.enabled = TRUE]

(* OUT (8) with bit 7 set: neither the bit counter nor the latch is reset. *)
Disable(p) ==
  [p EXCEPT !.enabled = FALSE, !.receiving = FALSE, !.read = FALSE,
            !.ready = TRUE, !.sending = FALSE]

(* Nothing is under way in the assist.  Disable leaves the bit counter and *)
(* the latch as they are, and drops a byte that has not been read.         *)
Quiet(p) == ~p.sending /\ ~p.receiving /\ ~p.read /\ p.bit = 0 /\ p.host = {}

(* IN A,(0Ah), which returns p.in, and OUT (0Ah),A *)
TakeByte(p) == [p EXCEPT !.read = FALSE]

(* OUT (0Dh),A *)
PutByte(p, x) ==
  [p EXCEPT !.out = x, !.ready = FALSE, !.sending = TRUE, !.bit = 0]

(* IN A,(0Dh), which returns p.out *)
PeekOut(p) == [p EXCEPT !.ready = FALSE]

=============================================================================
