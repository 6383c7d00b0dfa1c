--------------------------- MODULE LinkPairProofs ---------------------------
(***************************************************************************)
(* What every poll and port access of a link assist keeps true of the two  *)
(* ends of its cable, for every width of a byte.  LinkCableProofs takes    *)
(* both ends from here, VirtualLinkProofs one of them.                     *)
(***************************************************************************)
EXTENDS LinkPair, TLAPS

-----------------------------------------------------------------------------
(***************************************************************************)
(* What one poll does, case by case: the registers that change, and that   *)
(* the result is again a port.                                             *)
(***************************************************************************)
SameData(p, q) ==
  /\ q.enabled = p.enabled /\ q.in = p.in /\ q.out = p.out /\ q.read = p.read

SameEngine(p, q) ==
  /\ q.sending = p.sending /\ q.receiving = p.receiving
  /\ q.working = p.working /\ q.bit = p.bit /\ q.host = p.host

LEMMA BitCounts ==
  /\ 0 \in 0 .. Width
  /\ \A k \in 0 .. Width : k < Width => k + 1 \in 0 .. Width
  /\ \A b \in Line : 1 - b \in Line /\ {b} \in SUBSET Line /\ {b} # Line
  /\ {} \in SUBSET Line /\ {} # Line
BY WidthAssumption DEF Line

LEMMA ShiftInType ==
  ASSUME NEW w \in Byte, NEW b \in Line
  PROVE  ShiftIn(w, b) \in Byte
BY WidthAssumption DEF ShiftIn, Byte, Line

LEMMA OnlyLine ==
  ASSUME NEW b \in Line
  PROVE  (CHOOSE l \in Line : {b} = {l}) = b
OBVIOUS

(* The other end acknowledges the announced bit. *)
LEMMA SendAck ==
  ASSUME NEW p \in Port, p.enabled, p.sending, p.host # {}, p.bit < Width
  PROVE  LET q == Tick(p, Line)
         IN  /\ q \in Port /\ SameData(p, q)
             /\ q.working = p.working
             /\ q.sending /\ q.receiving = p.receiving /\ ~q.ready
             /\ q.bit = p.bit + 1 /\ q.host = {}
<1> DEFINE q == [p EXCEPT !.ready = FALSE, !.bit = p.bit + 1, !.host = {}]
<1>1. p.bit + 1 \in 0 .. Width
  BY BitCounts, Zenon DEF Port
<1>2. Tick(p, Line) = q
  BY BitCounts DEF Tick, SendTick, Port
<1>3. q \in Port
  BY <1>1, BitCounts, Zenon DEF Port
<1>4. QED
  BY <1>2, <1>3 DEF Port, SameData

(* The announced line has gone up and the cable is idle: the byte is sent. *)
LEMMA SendDone ==
  ASSUME NEW p \in Port, p.enabled, p.sending, p.bit = Width
  PROVE  LET q == Tick(p, {})
         IN  /\ q \in Port /\ SameData(p, q)
             /\ q.working = p.working /\ q.host = p.host
             /\ ~q.sending /\ q.receiving = p.receiving /\ q.ready
             /\ q.bit = 0
<1> DEFINE q == [p EXCEPT !.sending = FALSE, !.ready = TRUE, !.bit = 0]
<1>2. Tick(p, {}) = q
  BY BitCounts, WidthAssumption DEF Tick, SendTick
<1>3. q \in Port
  BY BitCounts, Zenon DEF Port
<1>4. QED
  BY <1>2, <1>3 DEF Port, SameData

LEMMA SendAnnounce ==
  ASSUME NEW p \in Port, p.enabled, p.sending, p.bit < Width
  PROVE  LET q == Tick(p, {})
         IN  /\ q \in Port /\ SameData(p, q)
             /\ q.working = p.working /\ q.bit = p.bit
             /\ q.sending /\ q.receiving = p.receiving /\ ~q.ready
             /\ q.host = {p.out[p.bit]}
<1> DEFINE q == [p EXCEPT !.ready = FALSE, !.host = {p.out[p.bit]}]
<1>1. p.out[p.bit] \in Line
  BY WidthAssumption DEF Port, Byte
<1>2. Tick(p, {}) = q
  BY BitCounts, WidthAssumption DEF Tick, SendTick, Port
<1>3. q \in Port
  BY <1>1, BitCounts, Zenon DEF Port
<1>4. QED
  BY <1>2, <1>3 DEF Port, SameData

LEMMA SendWait ==
  ASSUME NEW p \in Port, p.enabled, p.sending, NEW b \in Line
  PROVE  LET q == Tick(p, {b})
         IN  q \in Port /\ SameData(p, q) /\ SameEngine(p, q) /\ ~q.ready
<1> DEFINE q == [p EXCEPT !.ready = FALSE]
<1>2. Tick(p, {b}) = q
  BY BitCounts DEF Tick, SendTick
<1>3. q \in Port
  BY Zenon DEF Port
<1>4. QED
  BY <1>2, <1>3 DEF Port, SameData, SameEngine

(* A whole byte moves from working to in once in has been read. *)
LEMMA CompleteByte ==
  ASSUME NEW p \in Port
  PROVE  LET q == Complete(p)
         IN  /\ q \in Port
             /\ q.enabled = p.enabled /\ q.out = p.out /\ q.working = p.working
             /\ q.sending = p.sending /\ ~q.receiving /\ q.ready = p.ready
             /\ q.read /\ q.in = p.working /\ q.bit = 0 /\ q.host = p.host
<1>1. Complete(p) \in Port
  BY BitCounts, Zenon DEF Port, Complete
<1>2. QED
  BY <1>1 DEF Port, Complete

LEMMA HearNothing ==
  ASSUME NEW p \in Port, p.enabled, ~p.sending
  PROVE  LET q == Tick(p, {})
         IN  /\ p.bit = Width /\ ~p.read => q = Complete(p)
             /\ ~(p.bit = Width /\ ~p.read) =>
                  /\ q \in Port /\ SameData(p, q) /\ SameEngine(p, q)
                  /\ q.ready => p.ready \/ p.bit = 0
<1> DEFINE r == [p EXCEPT !.ready = TRUE]
<1>1. Tick(p, {}) = HearIdle(p)
  BY BitCounts DEF Tick, ReceiveTick
<1>2. r \in Port
  BY Zenon DEF Port
<1>3. CASE p.bit = Width /\ ~p.read
  BY <1>1, <1>3, WidthAssumption DEF HearIdle
<1>4. CASE ~(p.bit = Width /\ ~p.read) /\ p.bit = 0
  <2>1. Tick(p, {}) = r
    BY <1>1, <1>4, WidthAssumption DEF HearIdle
  <2>2. QED
    BY <1>2, <1>4, <2>1 DEF Port, SameData, SameEngine
<1>5. CASE ~(p.bit = Width /\ ~p.read) /\ p.bit # 0
  <2>1. Tick(p, {}) = p
    BY <1>1, <1>5, WidthAssumption DEF HearIdle, Port
  <2>2. QED
    BY <1>5, <2>1 DEF SameData, SameEngine
<1>6. QED
  BY <1>3, <1>4, <1>5

LEMMA HearBoth ==
  ASSUME NEW p \in Port, p.enabled, ~p.sending
  PROVE  LET q == Tick(p, Line)
         IN  q \in Port /\ SameData(p, q) /\ SameEngine(p, q) /\ ~q.ready
<1> DEFINE q == [p EXCEPT !.ready = FALSE]
<1>1. Tick(p, Line) = q
  BY BitCounts DEF Tick, ReceiveTick
<1>2. q \in Port
  BY Zenon DEF Port
<1>3. QED
  BY <1>1, <1>2 DEF Port, SameData, SameEngine

(* The other end announces a bit. *)
LEMMA HearNewBit ==
  ASSUME NEW p \in Port, p.enabled, ~p.sending, p.bit < Width, p.host = {},
         p.receiving \/ p.bit = 0, NEW b \in Line
  PROVE  LET q == Tick(p, {b})
         IN  /\ q \in Port /\ SameData(p, q)
             /\ ~q.sending /\ q.receiving /\ ~q.ready
             /\ q.working = ShiftIn(p.working, b)
             /\ q.bit = p.bit + 1 /\ q.host = {1 - b}
<1> DEFINE q == [p EXCEPT !.ready = FALSE, !.receiving = TRUE,
                          !.working = ShiftIn(p.working, b),
                          !.bit = p.bit + 1, !.host = {1 - b}]
<1>1. Tick(p, {b}) = HearBit([p EXCEPT !.ready = FALSE], b)
  BY BitCounts, OnlyLine DEF Tick, ReceiveTick, Port
<1>2. Tick(p, {b}) = q
  BY <1>1 DEF HearBit, Port
<1>3. /\ p.bit + 1 \in 0 .. Width /\ ShiftIn(p.working, b) \in Byte
      /\ {1 - b} \in SUBSET Line
  BY BitCounts, ShiftInType, Zenon DEF Port
<1>4. q \in Port
  BY <1>3, Zenon DEF Port
<1>5. QED
  BY <1>2, <1>4 DEF Port, SameData

(* The other end has let go of its line. *)
LEMMA HearRelease ==
  ASSUME NEW p \in Port, p.enabled, ~p.sending, p.bit < Width, p.host # {},
         p.receiving, NEW b \in Line
  PROVE  LET q == Tick(p, {b})
         IN  /\ q \in Port /\ SameData(p, q)
             /\ ~q.sending /\ q.receiving /\ ~q.ready
             /\ q.working = p.working /\ q.bit = p.bit /\ q.host = {}
<1> DEFINE q == [p EXCEPT !.ready = FALSE, !.receiving = TRUE,
                          !.bit = p.bit, !.host = {}]
<1>1. Tick(p, {b}) = HearBit([p EXCEPT !.ready = FALSE], b)
  BY BitCounts, OnlyLine DEF Tick, ReceiveTick, Port
<1>2. Tick(p, {b}) = q
  BY <1>1 DEF HearBit, Port
<1>3. p.bit \in 0 .. Width
  BY DEF Port
<1>4. q \in Port
  BY <1>3, BitCounts, Zenon DEF Port
<1>5. QED
  BY <1>2, <1>4 DEF Port, SameData

LEMMA HearWhenFull ==
  ASSUME NEW p \in Port, p.enabled, ~p.sending, p.bit = Width, NEW b \in Line
  PROVE  LET q == Tick(p, {b})
             r == [p EXCEPT !.ready = FALSE, !.host = {}]
         IN  /\ r \in Port /\ SameData(p, r) /\ r.host = {} /\ ~r.ready
             /\ r.sending = p.sending /\ r.receiving = p.receiving
             /\ r.working = p.working /\ r.bit = p.bit
             /\ q = IF p.read THEN r ELSE Complete(r)
<1> DEFINE r == [p EXCEPT !.ready = FALSE, !.host = {}]
<1>1. Tick(p, {b}) = HearFull([p EXCEPT !.ready = FALSE])
  BY BitCounts, OnlyLine DEF Tick, ReceiveTick, Port
<1>2. Tick(p, {b}) = IF p.read THEN r ELSE Complete(r)
  BY <1>1 DEF HearFull, Port
<1>3. r \in Port
  BY BitCounts, Zenon DEF Port
<1>4. QED
  BY <1>2, <1>3 DEF Port, SameData

-----------------------------------------------------------------------------
(***************************************************************************)
(* What needs no agreement of the two ends: a poll and the port accesses   *)
(* leave a port a port, even when a byte has been disturbed.               *)
(***************************************************************************)
LEMMA HearBitFits ==
  ASSUME NEW p \in Port, ~p.sending, p.bit < Width, NEW b \in Line
  PROVE  LET q == HearBit([p EXCEPT !.ready = FALSE], b)
         IN  q \in Port /\ q.enabled = p.enabled /\ ~q.sending
<1> DEFINE s == IF p.receiving THEN p.bit ELSE 0
           q1 == [p EXCEPT !.ready = FALSE, !.receiving = TRUE,
                           !.working = ShiftIn(p.working, b),
                           !.bit = s + 1, !.host = {1 - b}]
           q2 == [p EXCEPT !.ready = FALSE, !.receiving = TRUE, !.bit = s,
                           !.host = {}]
<1>1. s \in 0 .. Width /\ s + 1 \in 0 .. Width
  BY BitCounts, WidthAssumption DEF Port
<1>2. ShiftIn(p.working, b) \in Byte /\ {1 - b} \in SUBSET Line
  BY BitCounts, ShiftInType DEF Port
<1>3. HearBit([p EXCEPT !.ready = FALSE], b) = IF p.host = {} THEN q1 ELSE q2
  BY DEF HearBit, Port
<1> HIDE DEF s
<1>4. q1 \in Port /\ q2 \in Port
  BY <1>1, <1>2, BitCounts, Zenon DEF Port
<1>5. /\ q1.enabled = p.enabled /\ ~q1.sending
      /\ q2.enabled = p.enabled /\ ~q2.sending
  BY DEF Port
<1> HIDE DEF q1, q2
<1>6. QED
  BY <1>3, <1>4, <1>5

LEMMA TickFits ==
  ASSUME NEW p \in Port, Fits(p), NEW low \in SUBSET Line
  PROVE  LET q == Tick(p, low)
         IN  /\ q \in Port /\ Fits(q) /\ q.enabled = p.enabled
             /\ q.sending => p.sending
<1> DEFINE q == Tick(p, low)
<1>1. low = {} \/ low = Line \/ \E b \in Line : low = {b}
  BY DEF Line
<1>2. CASE ~p.enabled
  BY <1>2 DEF Tick
<1>3. CASE p.enabled /\ p.sending
  <2>1. ASSUME low = Line
        PROVE  q \in Port /\ Fits(q) /\ q.enabled = p.enabled
    <3> DEFINE k == IF p.host # {} THEN p.bit + 1 ELSE p.bit
               r == [p EXCEPT !.ready = FALSE, !.bit = k, !.host = {}]
    <3>1. k \in 0 .. Width
      BY <1>3, WidthAssumption DEF Port, Fits
    <3>2. q = r
      BY <1>3, <2>1, BitCounts DEF Tick, SendTick, Port
    <3> HIDE DEF k
    <3>3. r \in Port
      BY <3>1, BitCounts, Zenon DEF Port
    <3>4. r.host = {} /\ ~r.ready /\ r.enabled = p.enabled
      BY DEF Port
    <3>5. QED
      BY <3>2, <3>3, <3>4 DEF Fits
  <2>2. ASSUME low = {}, p.bit = Width
        PROVE  q \in Port /\ Fits(q) /\ q.enabled = p.enabled
    BY <1>3, <2>2, SendDone DEF SameData, Fits
  <2>3. ASSUME low = {}, p.bit # Width
        PROVE  q \in Port /\ Fits(q) /\ q.enabled = p.enabled
    <3>1. p.bit < Width
      BY <2>3, WidthAssumption DEF Port
    <3>2. /\ q \in Port /\ SameData(p, q) /\ q.bit = p.bit /\ ~q.ready
      BY <1>3, <2>3, <3>1, SendAnnounce
    <3> HIDE DEF q
    <3>3. QED
      BY <3>1, <3>2 DEF SameData, Fits
  <2>4. ASSUME NEW b \in Line, low = {b}
        PROVE  q \in Port /\ Fits(q) /\ q.enabled = p.enabled
    <3>1. q \in Port /\ SameData(p, q) /\ SameEngine(p, q) /\ ~q.ready
      BY <1>3, <2>4, SendWait
    <3> HIDE DEF q
    <3>2. QED
      BY <3>1 DEF SameData, SameEngine, Fits
  <2>5. QED
    BY <1>1, <1>3, <2>1, <2>2, <2>3, <2>4
<1>4. CASE p.enabled /\ ~p.sending
  <2>1. ASSUME low = Line
        PROVE  q \in Port /\ q.enabled = p.enabled /\ ~q.sending
    BY <1>4, <2>1, HearBoth DEF SameData, SameEngine
  <2>2. ASSUME low = {}
        PROVE  q \in Port /\ q.enabled = p.enabled /\ ~q.sending
    BY <1>4, <2>2, HearNothing, CompleteByte DEF SameData, SameEngine
  <2>3. ASSUME NEW b \in Line, low = {b}, p.bit < Width
        PROVE  q \in Port /\ q.enabled = p.enabled /\ ~q.sending
    <3>1. q = HearBit([p EXCEPT !.ready = FALSE], b)
      BY <1>4, <2>3, BitCounts, OnlyLine DEF Tick, ReceiveTick, Port
    <3>2. QED
      BY <1>4, <2>3, <3>1, HearBitFits
  <2>4. ASSUME NEW b \in Line, low = {b}, p.bit = Width
        PROVE  q \in Port /\ q.enabled = p.enabled /\ ~q.sending
    <3> DEFINE r == [p EXCEPT !.ready = FALSE, !.host = {}]
    <3>1. /\ r \in Port /\ SameData(p, r) /\ r.sending = p.sending
          /\ q = IF p.read THEN r ELSE Complete(r)
      BY <1>4, <2>4, HearWhenFull
    <3> HIDE DEF r, q
    <3>2. /\ Complete(r) \in Port /\ Complete(r).enabled = r.enabled
          /\ Complete(r).sending = r.sending
      BY <3>1, CompleteByte
    <3>3. QED
      BY <1>4, <3>1, <3>2 DEF SameData
  <2>5. p.bit < Width \/ p.bit = Width
    BY WidthAssumption DEF Port
  <2>6. q \in Port /\ q.enabled = p.enabled /\ ~q.sending
    BY <1>1, <2>1, <2>2, <2>3, <2>4, <2>5
  <2> HIDE DEF q
  <2>7. QED
    BY <2>6 DEF Fits, q
<1>5. QED
  BY <1>2, <1>3, <1>4

LEMMA AccessFits ==
  ASSUME NEW p \in Port, Fits(p)
  PROVE  /\ \A x \in Byte : PutByte(p, x) \in Port /\ Fits(PutByte(p, x))
         /\ TakeByte(p) \in Port /\ Fits(TakeByte(p))
         /\ PeekOut(p) \in Port /\ Fits(PeekOut(p))
         /\ Disable(p) \in Port /\ Fits(Disable(p))
         /\ Enable(p) \in Port /\ Fits(Enable(p))
<1>1. /\ \A x \in Byte : PutByte(p, x) \in Port
      /\ TakeByte(p) \in Port /\ PeekOut(p) \in Port
      /\ Disable(p) \in Port /\ Enable(p) \in Port
  BY BitCounts, Zenon DEF PutByte, TakeByte, PeekOut, Disable, Enable, Port
<1>2. /\ \A x \in Byte : PutByte(p, x).bit = 0 /\ ~PutByte(p, x).ready
      /\ TakeByte(p).sending = p.sending /\ TakeByte(p).host = p.host
      /\ TakeByte(p).bit = p.bit /\ TakeByte(p).ready = p.ready
      /\ PeekOut(p).sending = p.sending /\ PeekOut(p).host = p.host
      /\ PeekOut(p).bit = p.bit /\ ~PeekOut(p).ready
      /\ ~Disable(p).sending
      /\ Enable(p).sending = p.sending /\ Enable(p).host = p.host
      /\ Enable(p).bit = p.bit /\ Enable(p).ready = p.ready
  BY DEF PutByte, TakeByte, PeekOut, Disable, Enable, Port
<1>3. QED
  BY <1>1, <1>2, WidthAssumption DEF Fits

-----------------------------------------------------------------------------
(* Lemmas about Safe, the cable seen from one end. *)
LEMMA SafeSymmetric ==
  ASSUME NEW p, NEW q, NEW S, NEW G, NEW T, NEW H, Safe(p, q, S, G, T, H)
  PROVE  Safe(q, p, T, H, S, G)
<1>1. Agree(q, p)
  BY DEF Safe, Agree, Clash
<1>2. QED
  BY <1>1 DEF Safe

(* Changing nothing but ready and enabled is harmless while ready stays    *)
(* false during a transfer.                                                *)
LEMMA SameEngineSafe ==
  ASSUME NEW p, NEW q, NEW S, NEW G, NEW T, NEW H, Safe(p, q, S, G, T, H),
         NEW r \in Port, r.in = p.in, r.out = p.out, r.read = p.read,
         SameEngine(p, r), r.ready => ~p.sending /\ ~p.receiving
  PROVE  Safe(r, q, S, G, T, H)
<1> USE DEF Safe, SameEngine
<1>1. Flags(r)
  BY DEF Flags
<1>2. Agree(r, q)
  <2>1. /\ Transfer(p, q) => Transfer(r, q)
        /\ Transfer(q, p) => Transfer(q, r)
    BY DEF Transfer, Fresh, Between, Heard, Released, Through, Prefix, Announcing
  <2>2. /\ Clash(p, q) => Clash(r, q)
        /\ NoBitInHand(p) => NoBitInHand(r)
    BY DEF Clash, WholeByte, NoBitInHand
  <2>3. QED
    BY <2>1, <2>2 DEF Agree
<1>3. Lossless(S, G, r, q) /\ Lossless(T, H, q, r)
  BY DEF Lossless, Held, Unheard, InRead, InWorking, InOut
<1>4. QED
  BY <1>1, <1>2, <1>3

(* Moving a whole byte from working to in. *)
LEMMA CompleteSafe ==
  ASSUME NEW p, NEW q, NEW S, NEW G, NEW T \in Seq(Byte), NEW H \in Seq(Byte),
         Safe(p, q, S, G, T, H),
         ~p.sending, p.bit = Width, p.host = {}, ~p.read
  PROVE  Safe(Complete(p), q, S, G, T, H)
<1> DEFINE r == Complete(p)
<1>0. /\ r \in Port
      /\ r.enabled = p.enabled /\ r.out = p.out /\ r.working = p.working
      /\ ~r.sending /\ ~r.receiving /\ r.ready = p.ready
      /\ r.read /\ r.in = p.working /\ r.bit = 0 /\ r.host = {}
  BY CompleteByte DEF Safe
<1> HIDE DEF r
<1>1. Flags(r)
  BY <1>0, WidthAssumption DEF Flags, Safe
<1>2. Agree(r, q)
  <2>1. CASE q.sending
    <3>1. Fresh(q, p) \/ Through(q, p)
      <4>1. Transfer(q, p)
        BY <2>1 DEF Safe, Agree
      <4>2. ~Heard(q, p) /\ ~Released(q, p)
        BY DEF Heard, Released
      <4>3. ~Between(q, p)
        BY WidthAssumption DEF Between
      <4>4. QED
        BY <4>1, <4>2, <4>3 DEF Transfer
    <3>2. Fresh(q, r) \/ Through(q, r)
      BY <3>1, <1>0 DEF Fresh, Through
    <3>3. QED
      BY <3>2, <2>1, <1>0 DEF Agree, Transfer
  <2>2. CASE ~q.sending
    BY <2>2, <1>0 DEF Safe, Agree, NoBitInHand
  <2>3. QED
    BY <2>1, <2>2 DEF Safe, Flags
<1>3. Lossless(S, G, r, q)
  BY <1>0, WidthAssumption DEF Safe, Lossless, Unheard, Held, InRead, InWorking, InOut
<1>4. Lossless(T, H, q, r)
  <2>1. Held(p) /\ ~Held(r) /\ (Unheard(q, r) <=> Unheard(q, p))
    BY <1>0, WidthAssumption DEF Held, Unheard
  <2>2. InRead(p) = 0 /\ InRead(r) = 1 /\ InWorking(p) = 1
        /\ InWorking(r) = 0 /\ InOut(q, r) = InOut(q, p)
    BY <1>0, <2>1 DEF InRead, InWorking, InOut
  <2>3. Lossless(T, H, q, p) /\ Len(H) \in Nat /\ InOut(q, p) \in Nat
    BY DEF Safe, InOut
  <2>4. QED
    BY <1>0, <2>1, <2>2, <2>3 DEF Lossless
<1>5. QED
  BY <1>0, <1>1, <1>2, <1>3, <1>4 DEF Safe, r

-----------------------------------------------------------------------------
(***************************************************************************)
(* One poll at p keeps the cable safe, mode by mode.                       *)
(***************************************************************************)
LEMMA IdlePollSafe ==
  ASSUME NEW p, NEW q, NEW S, NEW G, NEW T \in Seq(Byte), NEW H \in Seq(Byte),
         Safe(p, q, S, G, T, H), p.enabled, ~p.sending, p.host = {}
  PROVE  Safe(Tick(p, {}), q, S, G, T, H)
<1> p \in Port /\ Flags(p)
  BY DEF Safe
<1>1. CASE p.bit = Width /\ ~p.read
  BY <1>1, HearNothing, CompleteSafe
<1>2. CASE ~(p.bit = Width /\ ~p.read)
  <2> DEFINE r == Tick(p, {})
  <2>1. /\ r \in Port /\ SameData(p, r) /\ SameEngine(p, r)
        /\ r.ready => p.ready \/ p.bit = 0
    BY <1>2, HearNothing
  <2>2. r.ready => ~p.sending /\ ~p.receiving
    BY <2>1 DEF Flags
  <2> HIDE DEF r
  <2>3. Safe(r, q, S, G, T, H)
    BY <2>1, <2>2, SameEngineSafe DEF SameData
  <2>4. QED
    BY <2>3 DEF r
<1>3. QED
  BY <1>1, <1>2

(* A poll that only clears ready. *)
LEMMA WaitingPollSafe ==
  ASSUME NEW p, NEW q, NEW S, NEW G, NEW T, NEW H, Safe(p, q, S, G, T, H),
         NEW r, r \in Port /\ SameData(p, r) /\ SameEngine(p, r) /\ ~r.ready
  PROVE  Safe(r, q, S, G, T, H)
BY SameEngineSafe DEF SameData

LEMMA WholePrefix ==
  ASSUME NEW p \in Port, NEW q \in Port, Prefix(p, q), q.bit = Width
  PROVE  q.working = p.out
<1>1. q.working \in Byte /\ p.out \in Byte
  BY DEF Port
<1>2. \A i \in 0 .. Width - 1 : q.working[i] = p.out[i]
  BY WidthAssumption DEF Prefix
<1>3. /\ q.working = [i \in 0 .. Width - 1 |-> q.working[i]]
      /\ p.out = [i \in 0 .. Width - 1 |-> p.out[i]]
  BY <1>1 DEF Byte
<1>4. QED
  BY <1>2, <1>3, Zenon

LEMMA LongerPrefix ==
  ASSUME NEW p \in Port, NEW q \in Port, NEW r \in Port,
         Prefix(p, q), q.bit = p.bit, p.bit < Width,
         r.bit = q.bit + 1, r.working = ShiftIn(q.working, p.out[p.bit])
  PROVE  Prefix(p, r)
<1> SUFFICES ASSUME NEW i \in 0 .. r.bit - 1
             PROVE  r.working[Width - r.bit + i] = p.out[i]
  BY DEF Prefix
<1> p.bit \in 0 .. Width /\ Width \in Nat \ {0}
  BY WidthAssumption DEF Port
<1>1. CASE i = p.bit
  BY <1>1 DEF ShiftIn
<1>2. CASE i # p.bit
  <2>1. /\ i \in 0 .. q.bit - 1
        /\ Width - r.bit + i \in 0 .. Width - 1
        /\ Width - r.bit + i # Width - 1
        /\ Width - r.bit + i + 1 = Width - q.bit + i
    BY <1>2
  <2>2. r.working[Width - r.bit + i] = q.working[Width - q.bit + i]
    BY <2>1 DEF ShiftIn
  <2>3. QED
    BY <2>1, <2>2 DEF Prefix
<1>3. QED
  BY <1>1, <1>2

(* p hears the bit that q announces. *)
LEMMA NewBitSafe ==
  ASSUME NEW p, NEW q, NEW S, NEW G, NEW T \in Seq(Byte), NEW H \in Seq(Byte),
         Safe(p, q, S, G, T, H), p.enabled, ~p.sending, q.sending,
         p.host = {}, p.receiving \/ p.bit = 0, p.bit = q.bit, q.bit < Width,
         q.host = {q.out[q.bit]}, Prefix(q, p)
  PROVE  Safe(Tick(p, q.host), q, S, G, T, H)
<1> DEFINE b == q.out[q.bit]
           r == Tick(p, {b})
<1> p \in Port /\ q \in Port /\ Width \in Nat \ {0}
  BY WidthAssumption DEF Safe
<1>1. b \in Line /\ q.bit \in 0 .. Width - 1
  BY DEF Port, Byte
<1>2. /\ r \in Port /\ SameData(p, r)
      /\ ~r.sending /\ r.receiving /\ ~r.ready
      /\ r.working = ShiftIn(p.working, b)
      /\ r.bit = p.bit + 1 /\ r.host = {1 - b}
  BY <1>1, HearNewBit
<1> HIDE DEF r
<1>3. Prefix(q, r)
  BY <1>2, LongerPrefix
<1>4. Flags(r) /\ Flags(q)
  BY <1>1, <1>2 DEF Flags, Safe
<1>5. Agree(r, q)
  BY <1>1, <1>2, <1>3 DEF Agree, Transfer, Heard
<1>6. Lossless(S, G, r, q)
  BY <1>2 DEF Safe, Lossless, Unheard, Held, InRead, InWorking, InOut
<1>7. Lossless(T, H, q, r)
  <2>1. Lossless(T, H, q, p)
    BY DEF Safe
  <2>2. ~Held(p) /\ Unheard(q, p)
    BY DEF Held, Unheard
  <2>3. /\ Held(r) <=> r.bit = Width
        /\ Unheard(q, r) <=> r.bit # Width
    BY <1>2 DEF Held, Unheard
  <2>4. r.bit = Width => r.working = q.out
    BY <1>2, <1>3, WholePrefix
  <2>5. /\ InRead(r) = InRead(p) /\ InWorking(p) = 0 /\ InOut(q, p) = 1
        /\ InWorking(r) + InOut(q, r) = 1 /\ InRead(p) \in Nat
        /\ InWorking(r) \in Nat /\ InOut(q, r) \in Nat
    BY <1>2, <2>2, <2>3 DEF SameData, InRead, InWorking, InOut
  <2>6. Len(T) = Len(H) + InRead(p) + 1 /\ Len(H) \in Nat
    BY <2>1, <2>5 DEF Lossless
  <2>7. Len(T) = Len(H) + InRead(r) + InWorking(r) + InOut(q, r)
    BY <2>5, <2>6
  <2>8. T[Len(T)] = q.out
    BY <2>1, <2>2 DEF Lossless
  <2>9. Held(r) => T[Len(H) + InRead(r) + 1] = r.working
    BY <2>3, <2>4, <2>5, <2>6, <2>8
  <2>10. QED
    BY <1>2, <2>1, <2>5, <2>7, <2>8, <2>9 DEF Lossless, SameData
<1>8. Safe(r, q, S, G, T, H)
  BY <1>2, <1>4, <1>5, <1>6, <1>7 DEF Safe
<1>9. QED
  BY <1>8 DEF r

(* p lets go of the acknowledgement of a bit that was not the last. *)
LEMMA ReleaseSafe ==
  ASSUME NEW p, NEW q, NEW S, NEW G, NEW T \in Seq(Byte), NEW H \in Seq(Byte),
         Safe(p, q, S, G, T, H), p.enabled, ~p.sending, q.sending,
         p.bit < Width, Released(q, p)
  PROVE  Safe(Tick(p, p.host), q, S, G, T, H)
<1> DEFINE b == 1 - q.out[q.bit - 1]
           r == Tick(p, {b})
<1> p \in Port /\ q \in Port /\ Width \in Nat \ {0}
  BY WidthAssumption DEF Safe
<1>1. b \in Line /\ q.bit \in 1 .. Width - 1 /\ p.host = {b} /\ p.receiving
  <2>1. q.bit \in 1 .. Width - 1
    BY DEF Released, Port
  <2>2. q.out[q.bit - 1] \in Line
    BY <2>1 DEF Port, Byte
  <2>3. QED
    BY <2>1, <2>2 DEF Released, Line
<1>2. /\ r \in Port /\ SameData(p, r)
      /\ ~r.sending /\ r.receiving /\ ~r.ready
      /\ r.working = p.working /\ r.bit = p.bit /\ r.host = {}
  <2>1. p.host # {}
    BY <1>1
  <2>2. QED
    BY <1>1, <2>1, HearRelease
<1> HIDE DEF r
<1>3. Prefix(q, r)
  BY <1>2 DEF Released, Prefix
<1>4. Flags(r) /\ Flags(q)
  BY <1>1, <1>2 DEF Flags, Safe, Released
<1>5. Agree(r, q)
  BY <1>1, <1>2, <1>3 DEF Agree, Transfer, Between, Released, Announcing
<1>6. Lossless(S, G, r, q)
  BY <1>2 DEF Safe, Lossless, Unheard, Held, InRead, InWorking, InOut
<1>7. Lossless(T, H, q, r)
  <2>1. ~Held(r) /\ ~Held(p)
    BY <1>2 DEF Held
  <2>2. Unheard(q, r) <=> Unheard(q, p)
    BY <2>1 DEF Unheard
  <2>3. QED
    BY <1>2, <2>1, <2>2 DEF Safe, Lossless, InRead, InWorking, InOut, SameData
<1>8. Safe(r, q, S, G, T, H)
  BY <1>2, <1>4, <1>5, <1>6, <1>7 DEF Safe
<1>9. QED
  BY <1>1, <1>8 DEF r

(* p holds a whole byte in working and sees a line low. *)
LEMMA FullPollSafe ==
  ASSUME NEW p, NEW q, NEW S, NEW G, NEW T \in Seq(Byte), NEW H \in Seq(Byte),
         Safe(p, q, S, G, T, H), p.enabled, ~p.sending, q.sending,
         p.bit = Width, Fresh(q, p) \/ Released(q, p), NEW b \in Line
  PROVE  Safe(Tick(p, {b}), q, S, G, T, H)
<1> DEFINE r == [p EXCEPT !.ready = FALSE, !.host = {}]
<1> p \in Port /\ q \in Port /\ Width \in Nat \ {0}
  BY WidthAssumption DEF Safe
<1>1. /\ r \in Port /\ SameData(p, r) /\ r.host = {} /\ ~r.ready
      /\ r.sending = p.sending /\ r.receiving = p.receiving
      /\ r.working = p.working /\ r.bit = p.bit
      /\ Tick(p, {b}) = IF p.read THEN r ELSE Complete(r)
  BY HearWhenFull
<1> HIDE DEF r
<1>2. p.receiving
  BY DEF Safe, Flags
<1>3. Flags(r) /\ Flags(q)
  BY <1>1, <1>2 DEF Flags, Safe
<1>4. Agree(r, q)
  <2>1. CASE Fresh(q, p)
    BY <1>1, <2>1 DEF Agree, Transfer, Fresh, Announcing
  <2>2. CASE Released(q, p)
    BY <1>1, <2>2 DEF Agree, Transfer, Released, Through, Prefix
  <2>3. QED
    BY <2>1, <2>2
<1>5. Lossless(S, G, r, q)
  BY <1>1 DEF Safe, Lossless, Unheard, Held, InRead, InWorking, InOut
<1>6. Lossless(T, H, q, r)
  <2>1. Unheard(q, r) <=> Unheard(q, p)
    BY <1>1 DEF Unheard, Held, Fresh, Released
  <2>2. Held(r) <=> Held(p)
    BY <1>1 DEF Held
  <2>3. QED
    BY <1>1, <2>1, <2>2 DEF Safe, Lossless, InRead, InWorking, InOut, SameData
<1>7. Safe(r, q, S, G, T, H)
  BY <1>1, <1>3, <1>4, <1>5, <1>6 DEF Safe
<1>8. CASE p.read
  BY <1>1, <1>7, <1>8
<1>9. CASE ~p.read
  <2>1. Safe(Complete(r), q, S, G, T, H)
    BY <1>1, <1>7, <1>9, CompleteSafe DEF SameData
  <2>2. QED
    BY <1>1, <1>9, <2>1
<1>10. QED
  BY <1>8, <1>9

(* p listens while q sends. *)
LEMMA HearPollSafe ==
  ASSUME NEW p, NEW q, NEW S, NEW G, NEW T \in Seq(Byte), NEW H \in Seq(Byte),
         Safe(p, q, S, G, T, H), p.enabled, ~p.sending, q.sending
  PROVE  Safe(Tick(p, p.host \cup q.host), q, S, G, T, H)
<1> p \in Port /\ q \in Port /\ Flags(p) /\ Width \in Nat \ {0}
  BY WidthAssumption DEF Safe
<1>1. Transfer(q, p)
  BY DEF Safe, Agree
<1>2. CASE Fresh(q, p)
  <2>1. CASE q.host = {}
    BY <1>2, <2>1, IdlePollSafe DEF Fresh
  <2>2. CASE q.host # {}
    <3>1. q.host = {q.out[0]} /\ q.out[0] \in Line /\ q.bit = 0 /\ p.host = {}
      BY <1>2, <2>2 DEF Fresh, Announcing, Port, Byte
    <3>2. CASE p.bit = Width
      BY <1>2, <3>1, <3>2, FullPollSafe
    <3>3. CASE p.bit # Width
      <4>1. p.bit = 0
        BY <1>2, <3>3 DEF Fresh, Flags
      <4>2. Prefix(q, p)
        BY <4>1 DEF Prefix
      <4>3. /\ p.host \cup q.host = q.host /\ q.bit < Width /\ p.bit = q.bit
            /\ q.host = {q.out[q.bit]}
        BY <3>1, <4>1
      <4>4. QED
        BY <3>1, <4>1, <4>2, <4>3, NewBitSafe
    <3>4. QED
      BY <3>2, <3>3
  <2>3. QED
    BY <2>1, <2>2
<1>3. CASE Between(q, p)
  <2>1. CASE q.host = {}
    BY <1>3, <2>1, IdlePollSafe DEF Between
  <2>2. CASE q.host # {}
    BY <1>3, <2>2, NewBitSafe DEF Between, Announcing
  <2>3. QED
    BY <2>1, <2>2
<1>4. CASE Heard(q, p)
  <2>1. q.out[q.bit] \in Line
    BY <1>4 DEF Heard, Port, Byte
  <2>2. p.host \cup q.host = Line
    BY <1>4, <2>1 DEF Heard, Line
  <2>3. QED
    BY <2>2, HearBoth, WaitingPollSafe
<1>5. CASE Released(q, p)
  <2>1. q.host = {} /\ p.host = {1 - q.out[q.bit - 1]} /\ q.bit \in 1 .. Width
    BY <1>5 DEF Released, Port
  <2>2. 1 - q.out[q.bit - 1] \in Line
    BY <2>1 DEF Port, Byte, Line
  <2>3. CASE p.bit = Width
    BY <1>5, <2>1, <2>2, <2>3, FullPollSafe
  <2>4. CASE p.bit # Width
    <3>1. p.bit < Width /\ p.host \cup q.host = p.host
      BY <2>1, <2>4 DEF Port
    <3>2. QED
      BY <1>5, <3>1, ReleaseSafe
  <2>5. QED
    BY <2>3, <2>4
<1>6. CASE Through(q, p)
  BY <1>6, IdlePollSafe DEF Through
<1>7. QED
  BY <1>1, <1>2, <1>3, <1>4, <1>5, <1>6 DEF Transfer

(* p sends and q listens. *)
LEMMA AnnounceSafe ==
  ASSUME NEW p, NEW q, NEW S, NEW G, NEW T, NEW H, Safe(p, q, S, G, T, H),
         p.enabled, p.sending, p.bit < Width, p.host = {}, q.host = {},
         ~q.sending => Fresh(p, q) \/ Between(p, q)
  PROVE  Safe(Tick(p, {}), q, S, G, T, H)
<1> DEFINE r == Tick(p, {})
<1> p \in Port /\ q \in Port /\ Width \in Nat \ {0}
  BY WidthAssumption DEF Safe
<1>1. /\ r \in Port /\ SameData(p, r)
      /\ r.working = p.working /\ r.bit = p.bit
      /\ r.sending /\ r.receiving = p.receiving /\ ~r.ready
      /\ r.host = {r.out[r.bit]}
  BY SendAnnounce DEF SameData
<1> HIDE DEF r
<1>2. Flags(r) /\ Flags(q)
  BY <1>1 DEF Flags, Safe
<1>3. Agree(r, q)
  <2>1. CASE q.sending
    <3>1. Clash(p, q)
      BY <2>1 DEF Safe, Agree
    <3>2. p.bit = 0
      BY <3>1 DEF Clash, WholeByte
    <3>3. Clash(r, q)
      BY <1>1, <3>1, <3>2 DEF Clash, WholeByte, SameData
    <3>4. QED
      BY <1>1, <2>1, <3>3 DEF Agree
  <2>2. CASE ~q.sending
    <3>1. Fresh(r, q) \/ Between(r, q)
      BY <1>1, <2>2 DEF Fresh, Between, Announcing, Prefix, SameData
    <3>2. QED
      BY <1>1, <2>2, <3>1 DEF Agree, Transfer
  <2>3. QED
    BY <2>1, <2>2
<1>4. Lossless(S, G, r, q)
  <2>1. Unheard(r, q) <=> Unheard(p, q)
    BY <1>1 DEF Unheard
  <2>2. QED
    BY <1>1, <2>1 DEF Safe, Lossless, InOut, SameData
<1>5. Lossless(T, H, q, r)
  <2>1. ~Held(r) /\ ~Held(p)
    BY <1>1 DEF Held
  <2>2. Unheard(q, r) <=> Unheard(q, p)
    BY <2>1 DEF Unheard
  <2>3. QED
    BY <1>1, <2>1, <2>2 DEF Safe, Lossless, InRead, InWorking, InOut, SameData
<1>6. Safe(r, q, S, G, T, H)
  BY <1>1, <1>2, <1>3, <1>4, <1>5 DEF Safe
<1>7. QED
  BY <1>6 DEF r

LEMMA AcknowledgedSafe ==
  ASSUME NEW p, NEW q, NEW S, NEW G, NEW T, NEW H, Safe(p, q, S, G, T, H),
         p.enabled, p.sending, ~q.sending, Heard(p, q)
  PROVE  Safe(Tick(p, Line), q, S, G, T, H)
<1> DEFINE r == Tick(p, Line)
<1> p \in Port /\ q \in Port /\ Width \in Nat \ {0}
  BY WidthAssumption DEF Safe
<1>1. /\ r \in Port /\ SameData(p, r)
      /\ r.working = p.working
      /\ r.sending /\ r.receiving = p.receiving /\ ~r.ready
      /\ r.bit = p.bit + 1 /\ r.host = {}
  BY SendAck DEF Heard
<1> HIDE DEF r
<1>2. Flags(r) /\ Flags(q)
  BY <1>1 DEF Flags, Safe
<1>3. Agree(r, q)
  <2>1. p.bit \in 0 .. Width - 1 /\ r.bit - 1 = p.bit
    BY <1>1 DEF Heard, Port
  <2>2. Released(r, q)
    BY <1>1, <2>1 DEF Released, Heard, Prefix, SameData
  <2>3. QED
    BY <1>1, <2>2 DEF Agree, Transfer
<1>4. Lossless(S, G, r, q)
  <2>1. Unheard(r, q) <=> Unheard(p, q)
    BY <1>1 DEF Unheard, Held, Heard, Port
  <2>2. QED
    BY <1>1, <2>1 DEF Safe, Lossless, InOut, SameData
<1>5. Lossless(T, H, q, r)
  <2>1. ~Held(r) /\ ~Held(p)
    BY <1>1 DEF Held
  <2>2. Unheard(q, r) <=> Unheard(q, p)
    BY <2>1 DEF Unheard
  <2>3. QED
    BY <1>1, <2>1, <2>2 DEF Safe, Lossless, InRead, InWorking, InOut, SameData
<1>6. Safe(r, q, S, G, T, H)
  BY <1>1, <1>2, <1>3, <1>4, <1>5 DEF Safe
<1>7. QED
  BY <1>6 DEF r

(* p sees the cable idle after its last bit, whatever q is doing. *)
LEMMA DoneSafe ==
  ASSUME NEW p, NEW q, NEW S, NEW G, NEW T, NEW H, Safe(p, q, S, G, T, H),
         p.enabled, p.sending, p.bit = Width, p.host = {}, q.host = {}
  PROVE  Safe(Tick(p, {}), q, S, G, T, H)
<1> DEFINE r == Tick(p, {})
<1> p \in Port /\ q \in Port /\ Width \in Nat \ {0}
  BY WidthAssumption DEF Safe
<1>1. /\ r \in Port /\ SameData(p, r)
      /\ r.working = p.working /\ r.host = {}
      /\ ~r.sending /\ ~r.receiving /\ r.ready
      /\ r.bit = 0
  BY SendDone DEF Safe, Flags
<1> HIDE DEF r
<1>2. Flags(r) /\ Flags(q)
  BY <1>1 DEF Flags, Safe
<1>3. Agree(r, q)
  <2>1. CASE q.sending
    <3>1. Clash(p, q)
      BY <2>1 DEF Safe, Agree
    <3>2. Fresh(q, r)
      BY <1>1, <3>1 DEF Clash, WholeByte, Fresh, Announcing
    <3>3. QED
      BY <1>1, <2>1, <3>2 DEF Agree, Transfer
  <2>2. CASE ~q.sending
    <3>1. Transfer(p, q)
      BY <2>2 DEF Safe, Agree
    <3>2. Through(p, q) \/ Released(p, q)
      BY <3>1 DEF Transfer, Fresh, Between, Heard
    <3>3. NoBitInHand(q)
      BY <3>2 DEF NoBitInHand, Through, Released
    <3>4. QED
      BY <1>1, <2>2, <3>3 DEF Agree, NoBitInHand
  <2>3. QED
    BY <2>1, <2>2
<1>4. Lossless(S, G, r, q)
  <2>1. ~Unheard(r, q) /\ ~Unheard(p, q)
    BY <1>1 DEF Unheard
  <2>2. QED
    BY <1>1, <2>1 DEF Safe, Lossless, InOut
<1>5. Lossless(T, H, q, r)
  <2>1. ~Held(r) /\ ~Held(p)
    BY <1>1 DEF Held
  <2>2. Unheard(q, r) <=> Unheard(q, p)
    BY <2>1 DEF Unheard
  <2>3. QED
    BY <1>1, <2>1, <2>2 DEF Safe, Lossless, InRead, InWorking, InOut, SameData
<1>6. Safe(r, q, S, G, T, H)
  BY <1>1, <1>2, <1>3, <1>4, <1>5 DEF Safe
<1>7. QED
  BY <1>6 DEF r

LEMMA SendPollSafe ==
  ASSUME NEW p, NEW q, NEW S, NEW G, NEW T, NEW H, Safe(p, q, S, G, T, H),
         p.enabled, p.sending
  PROVE  Safe(Tick(p, p.host \cup q.host), q, S, G, T, H)
<1> p \in Port /\ q \in Port /\ Width \in Nat \ {0}
  BY WidthAssumption DEF Safe
<1>1. ASSUME NEW b \in Line, p.host \cup q.host = {b}
      PROVE  Safe(Tick(p, p.host \cup q.host), q, S, G, T, H)
  BY <1>1, SendWait, WaitingPollSafe
<1>2. ASSUME p.host = {}, q.host = {}
      PROVE  Safe(Tick(p, p.host \cup q.host), q, S, G, T, H)
  <2>1. CASE p.bit = Width
    BY <1>2, <2>1, DoneSafe
  <2>2. CASE p.bit # Width
    <3>1. p.bit < Width
      BY <2>2 DEF Port
    <3>2. ~q.sending => Fresh(p, q) \/ Between(p, q)
      BY <1>2, <2>2 DEF Safe, Agree, Transfer, Heard, Released, Through
    <3>3. QED
      BY <1>2, <3>1, <3>2, AnnounceSafe
  <2>3. QED
    BY <2>1, <2>2
<1>3. CASE q.sending
  <2>1. Clash(p, q)
    BY <1>3 DEF Safe, Agree
  <2>2. p.out[0] \in Line /\ q.out[0] \in Line
    BY DEF Port, Byte
  <2>3. \/ p.host = {} /\ q.host = {}
        \/ \E b \in Line : p.host \cup q.host = {b}
    BY <2>1, <2>2 DEF Clash, WholeByte
  <2>4. QED
    BY <1>1, <1>2, <2>3
<1>4. CASE ~q.sending
  <2>1. Transfer(p, q)
    BY <1>4 DEF Safe, Agree
  <2>2. CASE Heard(p, q)
    <3>1. p.out[p.bit] \in Line
      BY <2>2 DEF Heard, Port, Byte
    <3>2. p.host \cup q.host = Line
      BY <2>2, <3>1 DEF Heard, Line
    <3>3. QED
      BY <1>4, <2>2, <3>2, AcknowledgedSafe
  <2>3. CASE Released(p, q)
    <3>1. p.bit - 1 \in 0 .. Width - 1
      BY <2>3 DEF Released, Port
    <3>2. 1 - p.out[p.bit - 1] \in Line
      BY <3>1 DEF Port, Byte, Line
    <3>3. QED
      BY <1>1, <2>3, <3>2 DEF Released
  <2>4. CASE Fresh(p, q) \/ Between(p, q)
    <3>1. p.bit \in 0 .. Width - 1 /\ q.host = {} /\ Announcing(p)
      BY <2>4 DEF Fresh, Between
    <3>2. p.out[p.bit] \in Line
      BY <3>1 DEF Port, Byte
    <3>3. QED
      BY <1>1, <1>2, <3>1, <3>2 DEF Announcing
  <2>5. CASE Through(p, q)
    BY <1>2, <2>5 DEF Through
  <2>6. QED
    BY <2>1, <2>2, <2>3, <2>4, <2>5 DEF Transfer
<1>5. QED
  BY <1>3, <1>4

LEMMA PollSafe ==
  ASSUME NEW p, NEW q, NEW S, NEW G, NEW T \in Seq(Byte), NEW H \in Seq(Byte),
         Safe(p, q, S, G, T, H)
  PROVE  Safe(Tick(p, p.host \cup q.host), q, S, G, T, H)
<1>1. CASE ~p.enabled
  BY <1>1 DEF Tick
<1>2. CASE p.enabled /\ p.sending
  BY <1>2, SendPollSafe
<1>3. CASE p.enabled /\ ~p.sending /\ q.sending
  BY <1>3, HearPollSafe
<1>4. CASE p.enabled /\ ~p.sending /\ ~q.sending
  <2>1. p.host = {} /\ q.host = {}
    BY <1>4 DEF Safe, Agree, NoBitInHand
  <2>2. QED
    BY <1>4, <2>1, IdlePollSafe
<1>5. QED
  BY <1>1, <1>2, <1>3, <1>4

-----------------------------------------------------------------------------
(***************************************************************************)
(* The program's port accesses at p.                                       *)
(***************************************************************************)
LEMMA WriteSafe ==
  ASSUME NEW p, NEW q, NEW S \in Seq(Byte), NEW G \in Seq(Byte), NEW T, NEW H,
         Safe(p, q, S, G, T, H), ~p.sending, ~p.receiving, NEW x \in Byte
  PROVE  Safe(PutByte(p, x), q, Append(S, x), G, T, H)
<1> DEFINE r == PutByte(p, x)
           S2 == Append(S, x)
<1> p \in Port /\ q \in Port /\ Width \in Nat \ {0}
  BY WidthAssumption DEF Safe
<1>1. ~p.sending /\ ~p.receiving /\ p.bit = 0 /\ p.host = {}
  BY DEF Safe, Flags
<1>2. r \in Port
  BY BitCounts, Zenon DEF PutByte, Port
<1>3. /\ r.enabled = p.enabled /\ r.in = p.in /\ r.out = x
      /\ r.working = p.working /\ r.receiving = p.receiving
      /\ r.read = p.read /\ ~r.ready /\ r.sending /\ r.bit = 0
      /\ r.host = {}
  BY <1>1 DEF PutByte, Port
<1>4. S2 \in Seq(Byte) /\ Len(S2) = Len(S) + 1 /\ S2[Len(S) + 1] = x
      /\ \A i \in 1 .. Len(S) : S2[i] = S[i]
  OBVIOUS
<1> HIDE DEF r, S2
<1>5. Flags(r) /\ Flags(q)
  BY <1>1, <1>3 DEF Flags, Safe
<1>6. Agree(r, q)
  <2>1. CASE q.sending
    <3>1. Fresh(q, p) \/ Through(q, p)
      <4>1. Transfer(q, p)
        BY <1>1, <2>1 DEF Safe, Agree
      <4>2. QED
        BY <1>1, <4>1 DEF Transfer, Between, Heard, Released
    <3>2. Clash(r, q)
      BY <1>3, <3>1 DEF Clash, WholeByte, Fresh, Through, Announcing
    <3>3. QED
      BY <1>3, <2>1, <3>2 DEF Agree
  <2>2. CASE ~q.sending
    <3>1. NoBitInHand(q)
      BY <1>1, <2>2 DEF Safe, Agree
    <3>2. Fresh(r, q)
      BY <1>3, <3>1 DEF NoBitInHand, Fresh, Announcing
    <3>3. QED
      BY <1>3, <2>2, <3>2 DEF Agree, Transfer
  <2>3. QED
    BY <2>1, <2>2
<1>7. Lossless(S2, G, r, q)
  <2>1. ~Held(q) \/ q.host = {}
    BY <1>1 DEF Safe, Agree, NoBitInHand, Held
  <2>2. Unheard(r, q) /\ ~Unheard(p, q)
    BY <1>1, <1>3, <2>1 DEF Unheard
  <2>3. /\ InOut(p, q) = 0 /\ InOut(r, q) = 1
        /\ InRead(q) \in {0, 1} /\ InWorking(q) \in {0, 1}
    BY <2>2 DEF InOut, InRead, InWorking
  <2>4. /\ Lossless(S, G, p, q) /\ Len(G) \in Nat /\ Len(S) \in Nat
        /\ q.read => InRead(q) = 1
        /\ Held(q) => InWorking(q) = 1
    BY DEF Safe, InRead, InWorking
  <2>5. Len(S) = Len(G) + InRead(q) + InWorking(q)
    BY <2>3, <2>4 DEF Lossless
  <2>6. \A i \in 1 .. Len(G) : G[i] = S2[i]
    BY <1>4, <2>3, <2>4, <2>5 DEF Lossless
  <2>7. q.read => S2[Len(G) + 1] = q.in
    BY <1>4, <2>3, <2>4, <2>5 DEF Lossless
  <2>8. Held(q) => S2[Len(G) + InRead(q) + 1] = q.working
    BY <1>4, <2>3, <2>4, <2>5 DEF Lossless
  <2>9. QED
    BY <1>3, <1>4, <2>3, <2>4, <2>5, <2>6, <2>7, <2>8 DEF Lossless
<1>8. Lossless(T, H, q, r)
  <2>1. ~Held(r) /\ ~Held(p)
    BY <1>1, <1>3 DEF Held
  <2>2. Unheard(q, r) <=> Unheard(q, p)
    BY <2>1 DEF Unheard
  <2>3. QED
    BY <1>3, <2>1, <2>2 DEF Safe, Lossless, InRead, InWorking, InOut
<1>9. Safe(r, q, S2, G, T, H)
  BY <1>2, <1>5, <1>6, <1>7, <1>8 DEF Safe
<1>10. QED
  BY <1>9 DEF r, S2

(* What port 0A returns is the next byte the other program wrote. *)
LEMMA ByteToRead ==
  ASSUME NEW p, NEW q, NEW S, NEW G, NEW T \in Seq(Byte), NEW H \in Seq(Byte),
         Safe(p, q, S, G, T, H), p.read
  PROVE  p.in = T[Len(H) + 1] /\ Len(H) + 1 <= Len(T)
<1>1. InRead(p) = 1 /\ InWorking(p) \in Nat /\ InOut(q, p) \in Nat
  BY DEF InRead, InWorking, InOut
<1>2. QED
  BY <1>1 DEF Safe, Lossless

LEMMA ReadSafe ==
  ASSUME NEW p, NEW q, NEW S, NEW G, NEW T \in Seq(Byte), NEW H \in Seq(Byte),
         Safe(p, q, S, G, T, H), p.read
  PROVE  Safe(TakeByte(p), q, S, G, T, Append(H, p.in))
<1> DEFINE r == TakeByte(p)
           H2 == Append(H, p.in)
<1> p \in Port /\ q \in Port
  BY DEF Safe
<1>1. r \in Port
  BY Zenon DEF TakeByte, Port
<1>2. r.in = p.in /\ r.out = p.out /\ ~r.read /\ r.ready = p.ready /\ SameEngine(p, r)
  BY DEF TakeByte, Port, SameEngine
<1>3. p.in \in Byte
  BY DEF Port
<1>4. /\ H2 \in Seq(Byte) /\ Len(H2) = Len(H) + 1 /\ H2[Len(H) + 1] = p.in
      /\ \A i \in 1 .. Len(H) : H2[i] = H[i]
  BY <1>3
<1> HIDE DEF r, H2
<1>5. Flags(r) /\ Flags(q)
  BY <1>2 DEF Flags, SameEngine, Safe
<1>6. Agree(r, q)
  <2>1. /\ Transfer(p, q) => Transfer(r, q)
        /\ Transfer(q, p) => Transfer(q, r)
    BY <1>2 DEF SameEngine, Transfer, Fresh, Between, Heard, Released, Through,
                Prefix, Announcing
  <2>2. /\ Clash(p, q) => Clash(r, q)
        /\ NoBitInHand(p) => NoBitInHand(r)
    BY <1>2 DEF SameEngine, Clash, WholeByte, NoBitInHand
  <2>3. QED
    BY <1>2, <2>1, <2>2 DEF Safe, Agree, SameEngine
<1>7. Lossless(S, G, r, q)
  BY <1>2 DEF Safe, Lossless, Unheard, InOut, SameEngine
<1>8. Lossless(T, H2, q, r)
  <2>1. /\ Held(r) <=> Held(p)
        /\ Unheard(q, r) <=> Unheard(q, p)
    BY <1>2 DEF Held, Unheard, SameEngine
  <2>2. /\ InRead(p) = 1 /\ InRead(r) = 0 /\ InWorking(r) = InWorking(p)
        /\ InOut(q, r) = InOut(q, p)
        /\ InWorking(p) \in Nat /\ InOut(q, p) \in Nat
    BY <1>2, <2>1 DEF InRead, InWorking, InOut
  <2>3. Lossless(T, H, q, p) /\ Len(H) \in Nat
    BY DEF Safe
  <2>4. \A i \in 1 .. Len(H2) : H2[i] = T[i]
    <3>1. p.in = T[Len(H) + 1]
      BY ByteToRead
    <3>2. \A i \in 1 .. Len(H) : H[i] = T[i]
      BY <2>3 DEF Lossless
    <3>3. QED
      BY <1>4, <2>3, <3>1, <3>2
  <2>5. Len(H2) + InRead(r) + 1 = Len(H) + InRead(p) + 1
    BY <1>4, <2>2, <2>3
  <2>6. Held(r) => T[Len(H2) + InRead(r) + 1] = r.working
    BY <1>2, <2>1, <2>3, <2>5 DEF Lossless, SameEngine
  <2>7. Len(T) = Len(H2) + InRead(r) + InWorking(r) + InOut(q, r)
    BY <1>4, <2>2, <2>3 DEF Lossless
  <2>8. QED
    BY <1>2, <2>1, <2>3, <2>4, <2>6, <2>7 DEF Lossless
<1>9. Safe(r, q, S, G, T, H2)
  BY <1>1, <1>5, <1>6, <1>7, <1>8 DEF Safe
<1>10. QED
  BY <1>9 DEF r, H2

LEMMA ReadBackSafe ==
  ASSUME NEW p, NEW q, NEW S, NEW G, NEW T, NEW H, Safe(p, q, S, G, T, H)
  PROVE  Safe(PeekOut(p), q, S, G, T, H)
<1> p \in Port
  BY DEF Safe
<1>1. PeekOut(p) \in Port
  BY Zenon DEF PeekOut, Port
<1>2. SameData(p, PeekOut(p)) /\ SameEngine(p, PeekOut(p)) /\ ~PeekOut(p).ready
  BY DEF PeekOut, Port, SameData, SameEngine
<1>3. QED
  BY <1>1, <1>2, WaitingPollSafe

LEMMA SwitchSafe ==
  ASSUME NEW p, NEW q, NEW S, NEW G, NEW T, NEW H, Safe(p, q, S, G, T, H)
  PROVE  /\ Quiet(p) => Safe(Disable(p), q, S, G, T, H)
         /\ Safe(Enable(p), q, S, G, T, H)
<1> p \in Port /\ Flags(p)
  BY DEF Safe
<1>1. ASSUME Quiet(p)
      PROVE  Safe(Disable(p), q, S, G, T, H)
  <2> DEFINE r == Disable(p)
  <2>1. r \in Port
    BY Zenon DEF Disable, Port
  <2>2. /\ r.in = p.in /\ r.out = p.out /\ ~r.read
        /\ ~r.sending /\ ~r.receiving /\ r.working = p.working
        /\ r.bit = p.bit /\ r.host = p.host
    BY DEF Disable, Port
  <2>3. ~p.sending /\ ~p.receiving /\ ~p.read
    BY <1>1 DEF Quiet
  <2>4. r.read = p.read /\ r.sending = p.sending /\ r.receiving = p.receiving
    BY <2>1, <2>2, <2>3 DEF Port
  <2> HIDE DEF r
  <2>5. Safe(r, q, S, G, T, H)
    BY <2>1, <2>2, <2>3, <2>4, SameEngineSafe DEF SameEngine
  <2>6. QED
    BY <2>5 DEF r
<1>2. Safe(Enable(p), q, S, G, T, H)
  <2>1. Enable(p) \in Port
    BY Zenon DEF Enable, Port
  <2>2. /\ Enable(p).in = p.in /\ Enable(p).out = p.out
        /\ Enable(p).read = p.read /\ Enable(p).ready = p.ready
        /\ SameEngine(p, Enable(p))
    BY DEF Enable, Port, SameEngine
  <2>3. QED
    BY <2>1, <2>2, SameEngineSafe DEF Flags
<1>3. QED
  BY <1>1, <1>2

-----------------------------------------------------------------------------
(***************************************************************************)
(* A port need not be the registers of an assist: code that does the same  *)
(* on the cable is as safe.                                                *)
(***************************************************************************)
(* No end looks at out unless its port is sending, nor at working unless   *)
(* its port has heard a bit.                                               *)
LEMMA AlikeSafe ==
  ASSUME NEW p, NEW q, NEW S, NEW G, NEW T, NEW H, Safe(p, q, S, G, T, H),
         NEW r \in Port,
         r.sending = p.sending, r.receiving = p.receiving,
         r.bit = p.bit, r.host = p.host, ~p.read, ~r.read,
         p.sending => r.out = p.out,
         ~p.sending /\ p.bit > 0 => r.working = p.working,
         r.ready => ~r.sending /\ ~r.receiving
  PROVE  Safe(r, q, S, G, T, H)
<1> p \in Port /\ q \in Port /\ Width \in Nat \ {0} /\ p.bit \in Nat
  BY WidthAssumption DEF Safe, Port
<1>1. Flags(r) /\ Flags(q)
  BY DEF Safe, Flags
<1>2. Agree(r, q)
  <2>1. p.sending /\ Transfer(p, q) => Transfer(r, q)
    BY DEF Transfer, Fresh, Between, Heard, Released, Through, Prefix, Announcing
  <2>2. ~p.sending /\ Prefix(q, p) => Prefix(q, r)
    <3>1. CASE p.bit > 0
      BY <3>1 DEF Prefix
    <3>2. CASE ~(p.bit > 0)
      <4>1. 0 .. r.bit - 1 = {}
        BY <3>2
      <4>2. QED
        BY <4>1 DEF Prefix
    <3>3. QED
      BY <3>1, <3>2
  <2>3. ~p.sending /\ Transfer(q, p) => Transfer(q, r)
    BY <2>2 DEF Transfer, Fresh, Between, Heard, Released, Through, Announcing
  <2>4. p.sending /\ Clash(p, q) => Clash(r, q)
    BY DEF Clash, WholeByte
  <2>5. NoBitInHand(p) => NoBitInHand(r)
    BY DEF NoBitInHand
  <2>6. QED
    BY <2>1, <2>3, <2>4, <2>5 DEF Safe, Agree
<1>3. Lossless(S, G, r, q)
  <2>1. (Unheard(r, q) <=> Unheard(p, q)) /\ (Unheard(p, q) => r.out = p.out)
    BY DEF Unheard
  <2>2. QED
    BY <2>1 DEF Safe, Lossless, InOut
<1>4. Lossless(T, H, q, r)
  <2>1. (Held(r) <=> Held(p)) /\ (Held(p) => r.working = p.working)
    BY DEF Held
  <2>2. Unheard(q, r) <=> Unheard(q, p)
    BY <2>1 DEF Unheard
  <2>3. InRead(r) = InRead(p) /\ InWorking(r) = InWorking(p) /\ InOut(q, r) = InOut(q, p)
    BY <2>1, <2>2 DEF InRead, InWorking, InOut
  <2>4. QED
    BY <2>1, <2>2, <2>3 DEF Safe, Lossless
<1>5. QED
  BY <1>1, <1>2, <1>3, <1>4 DEF Safe

(* An end that has not read announces the first bit of x. *)
Announces(r, x) ==
  /\ r.sending /\ ~r.receiving /\ ~r.read
  /\ r.bit = 0 /\ r.out = x /\ r.host = {x[0]}

(* An end at rest writes a byte and announces its first bit at once. *)
LEMMA FirstBitSafe ==
  ASSUME NEW p, NEW q, NEW S \in Seq(Byte), NEW G \in Seq(Byte),
         NEW T \in Seq(Byte), NEW H \in Seq(Byte), Safe(p, q, S, G, T, H),
         p.enabled, ~p.sending, ~p.receiving, ~p.read, q.host = {}, NEW x \in Byte
  PROVE  \E r : Announces(r, x) /\ Safe(r, q, Append(S, x), G, T, H)
<1> p \in Port /\ q \in Port /\ Width \in Nat \ {0} /\ p.host = {}
  BY WidthAssumption DEF Safe, Flags
<1> DEFINE p2 == PutByte(p, x)
<1>1. Safe(p2, q, Append(S, x), G, T, H)
  BY WriteSafe
<1>2. /\ p2.enabled = p.enabled /\ p2.out = x /\ p2.sending
      /\ p2.bit = 0 /\ p2.host = p.host /\ p2.read = p.read
      /\ p2.receiving = p.receiving
  BY DEF PutByte, Port
<1>3. p2 \in Port /\ p2.host \cup q.host = {}
  BY <1>1, <1>2 DEF Safe
<1> HIDE DEF p2
<1> DEFINE r == Tick(p2, {})
<1>4. Safe(r, q, Append(S, x), G, T, H)
  BY <1>1, <1>3, PollSafe
<1>5. /\ SameData(p2, r) /\ r.bit = p2.bit /\ r.sending
      /\ r.receiving = p2.receiving /\ r.host = {p2.out[p2.bit]}
  <2>1. p2.enabled /\ p2.sending /\ p2.bit < Width /\ p2 \in Port
    BY <1>2, <1>3
  <2>2. QED
    BY <2>1, SendAnnounce
<1> HIDE DEF r
<1>6. Announces(r, x)
  BY <1>2, <1>5 DEF Announces, SameData
<1>7. QED
  BY <1>4, <1>6

=============================================================================
