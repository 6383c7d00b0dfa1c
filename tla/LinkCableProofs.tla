-------------------------- MODULE LinkCableProofs --------------------------
(***************************************************************************)
(* Proofs about two connected link assists, for every width of a byte,     *)
(* every set of cables and every bound.                                    *)
(***************************************************************************)
EXTENDS LinkCable, LinkPairProofs

-----------------------------------------------------------------------------
(***************************************************************************)
(* From one cable to all of them.                                          *)
(***************************************************************************)
CableSafe(c) ==
  Safe(port[c], port[Peer[c]], sent[c], got[Peer[c]], sent[Peer[c]], got[c])

LEMMA InvariantOfCables ==
  IInv <=> /\ TypeOK /\ SeenFits
           /\ \A c \in Calc : Intact(c) => CableSafe(c)
<1> USE PeerAssumption DEF IInv, TypeOK, CableSafe, Safe, Intact
<1>1. IInv => /\ TypeOK /\ SeenFits
              /\ \A c \in Calc : Intact(c) => CableSafe(c)
  BY DEF FlagsAgree, PortsAgree, NothingLost
<1>2. (/\ TypeOK /\ SeenFits
       /\ \A c \in Calc : Intact(c) => CableSafe(c)) => IInv
  BY DEF FlagsAgree, PortsAgree, NothingLost
<1>3. QED
  BY <1>1, <1>2

(* A step of the calculator at c touches no other register; unless it      *)
(* disturbs the cable, it has to keep it safe.                             *)
StepAt(c, p, s, S, H, w) ==
  /\ port' = [port EXCEPT ![c] = p]
  /\ seen' = [seen EXCEPT ![c] = s]
  /\ sent' = [sent EXCEPT ![c] = S]
  /\ got'  = [got EXCEPT ![c] = H]
  /\ disturbed' = [disturbed EXCEPT ![c] = w]
  /\ p \in Port /\ s \in BOOLEAN /\ S \in Seq(Byte) /\ H \in Seq(Byte)
  /\ w \in BOOLEAN
  /\ Fits(p)
  /\ s => p.enabled /\ ~p.sending
  /\ disturbed[c] => w
  /\ Intact(c) /\ ~w =>
       Safe(p, port[Peer[c]], S, got[Peer[c]], sent[Peer[c]], H)

LEMMA LocalStep ==
  ASSUME IInv, NEW c \in Calc, NEW p, NEW s, NEW S, NEW H, NEW w,
         StepAt(c, p, s, S, H, w)
  PROVE  IInv'
<1> USE DEF StepAt
<1> TypeOK /\ SeenFits /\ Peer[c] \in Calc /\ Peer[c] # c /\ Peer[Peer[c]] = c
  BY PeerAssumption DEF IInv
<1>1. TypeOK'
  BY DEF TypeOK
<1>2. SeenFits'
  <2> SUFFICES ASSUME NEW d \in Calc
               PROVE  /\ seen'[d] => port'[d].enabled /\ ~port'[d].sending
                      /\ Fits(port'[d])
    BY DEF SeenFits, Fits
  <2>1. CASE d = c
    BY <2>1 DEF TypeOK
  <2>2. CASE d # c
    BY <2>2 DEF TypeOK, SeenFits
  <2>3. QED
    BY <2>1, <2>2
<1>3. ASSUME NEW d \in Calc, Intact(d)'
      PROVE  CableSafe(d)'
  <2>0. Peer[d] \in Calc /\ ~disturbed'[d] /\ ~disturbed'[Peer[d]]
    BY <1>3, PeerAssumption DEF Intact
  <2>1. CASE d = c
    <3>1. Intact(c) /\ ~w
      BY <2>0, <2>1 DEF TypeOK, Intact
    <3>2. QED
      BY <2>1, <3>1 DEF CableSafe, TypeOK
  <2>2. CASE d = Peer[c]
    <3>1. Intact(c) /\ ~w
      BY <2>0, <2>2 DEF TypeOK, Intact
    <3>2. Safe(port[d], p, sent[d], H, S, got[d])
      BY <2>2, <3>1, SafeSymmetric
    <3>3. QED
      BY <2>2, <3>2 DEF CableSafe, TypeOK
  <2>3. CASE d # c /\ d # Peer[c]
    <3>1. Peer[d] \in Calc /\ Peer[d] # c
      BY <2>3, PeerAssumption
    <3>2. Intact(d)
      BY <2>0, <2>3, <3>1 DEF TypeOK, Intact
    <3>3. CableSafe(d)
      BY <3>2, InvariantOfCables
    <3>4. QED
      BY <2>3, <3>1, <3>3 DEF CableSafe, TypeOK
  <2>4. QED
    BY <2>1, <2>2, <2>3
<1>4. PortsAgree' /\ FlagsAgree' /\ NothingLost'
  BY <1>3 DEF CableSafe, Safe, FlagsAgree, PortsAgree, NothingLost, Intact
<1>5. QED
  BY <1>1, <1>2, <1>4 DEF IInv

LEMMA InitSafe == Init => IInv
<1> SUFFICES ASSUME Init PROVE IInv
  OBVIOUS
<1>1. ZeroByte \in Byte
  BY WidthAssumption DEF ZeroByte, Byte, Line
<1>2. PowerOn \in Port
  BY <1>1, BitCounts, Zenon DEF PowerOn, Port
<1>3. TypeOK
  BY <1>2 DEF Init, TypeOK
<1>4. Flags(PowerOn) /\ Agree(PowerOn, PowerOn)
  BY DEF PowerOn, Flags, Agree, NoBitInHand
<1>5. Lossless(<<>>, <<>>, PowerOn, PowerOn)
  BY WidthAssumption
  DEF PowerOn, Lossless, Held, Unheard, InRead, InWorking, InOut
<1>6. SeenFits
  BY DEF Init, SeenFits, Fits, PowerOn
<1>7. QED
  BY <1>3, <1>4, <1>5, <1>6, PeerAssumption
  DEF Init, IInv, FlagsAgree, PortsAgree, NothingLost

LEMMA NextSafe == IInv /\ [Next]_vars => IInv'
<1> SUFFICES ASSUME IInv, [Next]_vars PROVE IInv'
  OBVIOUS
<1>1. ASSUME NEW c \in Calc
      PROVE  /\ Intact(c) => CableSafe(c)
             /\ Peer[c] \in Calc /\ Peer[c] # c
             /\ port[c] \in Port /\ sent[c] \in Seq(Byte) /\ got[c] \in Seq(Byte)
             /\ sent[Peer[c]] \in Seq(Byte) /\ got[Peer[c]] \in Seq(Byte)
             /\ seen[c] \in BOOLEAN /\ disturbed[c] \in BOOLEAN
             /\ sent = [sent EXCEPT ![c] = sent[c]]
             /\ got = [got EXCEPT ![c] = got[c]]
             /\ seen = [seen EXCEPT ![c] = seen[c]]
             /\ port = [port EXCEPT ![c] = port[c]]
             /\ disturbed = [disturbed EXCEPT ![c] = disturbed[c]]
             /\ seen[c] => port[c].enabled /\ ~port[c].sending
             /\ Fits(port[c])
  BY InvariantOfCables, PeerAssumption DEF IInv, TypeOK, SeenFits
<1>2. ASSUME NEW c \in Calc, Poll(c)
      PROVE  IInv'
  <2> DEFINE p == Tick(port[c], port[c].host \cup port[Peer[c]].host)
  <2>1. Intact(c) => Safe(p, port[Peer[c]], sent[c], got[Peer[c]], sent[Peer[c]], got[c])
    BY <1>1, PollSafe DEF CableSafe
  <2>2. port' = [port EXCEPT ![c] = p] /\ UNCHANGED <<seen, sent, got, disturbed>>
    BY <1>2 DEF Poll, LinkRead
  <2>3. port[c].host \cup port[Peer[c]].host \in SUBSET Line
    BY <1>1 DEF Port
  <2>4. p \in Port /\ Fits(p) /\ p.enabled = port[c].enabled /\ (p.sending => port[c].sending)
    BY <1>1, <2>3, TickFits
  <2> HIDE DEF p
  <2>5. StepAt(c, p, seen[c], sent[c], got[c], disturbed[c])
    BY <1>1, <2>1, <2>2, <2>4 DEF StepAt
  <2>6. QED
    BY <2>5, LocalStep
<1>3. ASSUME NEW c \in Calc, ReadStatus(c)
      PROVE  IInv'
  <2> DEFINE s == port[c].enabled /\ port[c].ready
  <2>1. seen' = [seen EXCEPT ![c] = s] /\ UNCHANGED <<port, sent, got, disturbed>>
    BY <1>3 DEF ReadStatus
  <2>2. s \in BOOLEAN /\ port[c].ready \in BOOLEAN /\ port[c].sending \in BOOLEAN
    BY <1>1 DEF Port
  <2>3. s => port[c].enabled /\ ~port[c].sending
    BY <1>1 DEF Fits
  <2> HIDE DEF s
  <2>4. StepAt(c, port[c], s, sent[c], got[c], disturbed[c])
    BY <1>1, <2>1, <2>2, <2>3 DEF StepAt, CableSafe
  <2>5. QED
    BY <2>4, LocalStep
<1>4. ASSUME NEW c \in Calc, WriteByte(c)
      PROVE  IInv'
  <2>1. PICK x \in Byte :
          /\ port' = [port EXCEPT ![c] = PutByte(port[c], x)]
          /\ sent' = [sent EXCEPT ![c] = Append(sent[c], x)]
    BY <1>4 DEF WriteByte
  <2> DEFINE w == disturbed[c] \/ port[c].receiving
  <2>2. /\ seen[c] /\ got' = got
        /\ seen' = [seen EXCEPT ![c] = FALSE]
        /\ disturbed' = [disturbed EXCEPT ![c] = w]
    BY <1>4 DEF WriteByte
  <2>3. Intact(c) /\ ~w =>
          Safe(PutByte(port[c], x), port[Peer[c]], Append(sent[c], x),
               got[Peer[c]], sent[Peer[c]], got[c])
    BY <1>1, <2>2, WriteSafe DEF CableSafe
  <2>4. w \in BOOLEAN /\ (disturbed[c] => w)
    BY <1>1 DEF Port
  <2>5. PutByte(port[c], x) \in Port /\ Fits(PutByte(port[c], x))
    BY <1>1, AccessFits
  <2>6. Append(sent[c], x) \in Seq(Byte)
    BY <1>1
  <2> HIDE DEF w
  <2>7. StepAt(c, PutByte(port[c], x), FALSE, Append(sent[c], x), got[c], w)
    BY <1>1, <2>1, <2>2, <2>3, <2>4, <2>5, <2>6 DEF StepAt
  <2>8. QED
    BY <2>7, LocalStep
<1>5. ASSUME NEW c \in Calc, ReadByte(c)
      PROVE  IInv'
  <2>1. Intact(c) =>
          Safe(TakeByte(port[c]), port[Peer[c]], sent[c], got[Peer[c]],
               sent[Peer[c]], Append(got[c], port[c].in))
    BY <1>1, <1>5, ReadSafe DEF CableSafe, ReadByte
  <2>2. Append(got[c], port[c].in) \in Seq(Byte)
    BY <1>1 DEF Port
  <2>3. /\ port' = [port EXCEPT ![c] = TakeByte(port[c])]
        /\ UNCHANGED <<seen, sent, disturbed>>
        /\ got' = [got EXCEPT ![c] = Append(got[c], port[c].in)]
    BY <1>5 DEF ReadByte
  <2>4. /\ TakeByte(port[c]) \in Port /\ Fits(TakeByte(port[c]))
        /\ TakeByte(port[c]).enabled = port[c].enabled
        /\ TakeByte(port[c]).sending = port[c].sending
    <3>1. TakeByte(port[c]) \in Port /\ Fits(TakeByte(port[c]))
      BY <1>1, AccessFits
    <3>2. /\ TakeByte(port[c]).enabled = port[c].enabled
          /\ TakeByte(port[c]).sending = port[c].sending
      BY <1>1 DEF TakeByte, Port
    <3>3. QED
      BY <3>1, <3>2
  <2>5. StepAt(c, TakeByte(port[c]), seen[c], sent[c],
               Append(got[c], port[c].in), disturbed[c])
    BY <1>1, <2>1, <2>2, <2>3, <2>4 DEF StepAt
  <2>6. QED
    BY <2>5, LocalStep
<1>6. ASSUME NEW c \in Calc, ReadBack(c)
      PROVE  IInv'
  <2>1. Intact(c) =>
          Safe(PeekOut(port[c]), port[Peer[c]], sent[c], got[Peer[c]],
               sent[Peer[c]], got[c])
    BY <1>1, ReadBackSafe DEF CableSafe
  <2>2. /\ port' = [port EXCEPT ![c] = PeekOut(port[c])]
        /\ UNCHANGED <<seen, sent, got, disturbed>>
    BY <1>6 DEF ReadBack
  <2>3. /\ PeekOut(port[c]) \in Port /\ Fits(PeekOut(port[c]))
        /\ PeekOut(port[c]).enabled = port[c].enabled
        /\ PeekOut(port[c]).sending = port[c].sending
    <3>1. PeekOut(port[c]) \in Port /\ Fits(PeekOut(port[c]))
      BY <1>1, AccessFits
    <3>2. /\ PeekOut(port[c]).enabled = port[c].enabled
          /\ PeekOut(port[c]).sending = port[c].sending
      BY <1>1 DEF PeekOut, Port
    <3>3. QED
      BY <3>1, <3>2
  <2>4. StepAt(c, PeekOut(port[c]), seen[c], sent[c], got[c], disturbed[c])
    BY <1>1, <2>1, <2>2, <2>3 DEF StepAt
  <2>5. QED
    BY <2>4, LocalStep
<1>7. ASSUME NEW c \in Calc, SwitchOff(c)
      PROVE  IInv'
  <2> DEFINE w == disturbed[c] \/ ~Quiet(port[c])
  <2>1. Intact(c) /\ ~w =>
          Safe(Disable(port[c]), port[Peer[c]], sent[c], got[Peer[c]],
               sent[Peer[c]], got[c])
    BY <1>1, SwitchSafe DEF CableSafe
  <2>2. /\ port' = [port EXCEPT ![c] = Disable(port[c])]
        /\ seen' = [seen EXCEPT ![c] = FALSE]
        /\ disturbed' = [disturbed EXCEPT ![c] = w]
        /\ UNCHANGED <<sent, got>>
    BY <1>7 DEF SwitchOff
  <2>3. w \in BOOLEAN /\ (disturbed[c] => w)
    BY <1>1
  <2>4. Disable(port[c]) \in Port /\ Fits(Disable(port[c]))
    BY <1>1, AccessFits
  <2> HIDE DEF w
  <2>5. StepAt(c, Disable(port[c]), FALSE, sent[c], got[c], w)
    BY <1>1, <2>1, <2>2, <2>3, <2>4 DEF StepAt
  <2>6. QED
    BY <2>5, LocalStep
<1>8. ASSUME NEW c \in Calc, SwitchOn(c)
      PROVE  IInv'
  <2>1. Intact(c) =>
          Safe(Enable(port[c]), port[Peer[c]], sent[c], got[Peer[c]],
               sent[Peer[c]], got[c])
    BY <1>1, SwitchSafe DEF CableSafe
  <2>2. /\ port' = [port EXCEPT ![c] = Enable(port[c])]
        /\ UNCHANGED <<seen, sent, got, disturbed>>
    BY <1>8 DEF SwitchOn
  <2>3. /\ Enable(port[c]) \in Port /\ Fits(Enable(port[c]))
        /\ Enable(port[c]).enabled
        /\ Enable(port[c]).sending = port[c].sending
    <3>1. Enable(port[c]) \in Port /\ Fits(Enable(port[c]))
      BY <1>1, AccessFits
    <3>2. /\ Enable(port[c]).enabled
          /\ Enable(port[c]).sending = port[c].sending
      BY <1>1 DEF Enable, Port
    <3>3. QED
      BY <3>1, <3>2
  <2>4. StepAt(c, Enable(port[c]), seen[c], sent[c], got[c], disturbed[c])
    BY <1>1, <2>1, <2>2, <2>3 DEF StepAt
  <2>5. QED
    BY <2>4, LocalStep
<1>9. CASE UNCHANGED vars
  BY <1>9 DEF vars, IInv, TypeOK, SeenFits, FlagsAgree, PortsAgree, NothingLost, Intact
<1>10. QED
  BY <1>2, <1>3, <1>4, <1>5, <1>6, <1>7, <1>8, <1>9 DEF Next

(* The registers of the ports keep their types: the bit counter, an int    *)
(* that the source increments without a check, never passes the width.     *)
THEOREM TypeCorrect == Spec => []TypeOK
<1>1. IInv => TypeOK
  BY DEF IInv
<1>2. QED
  BY InitSafe, NextSafe, <1>1, PTL DEF Spec

(* However the polls and port accesses of the two calculators interleave,  *)
(* what one program read is a prefix of what the other wrote and the rest  *)
(* is in the registers, as long as no program has written a byte while its *)
(* assist was hearing one or disabled it with something under way.         *)
THEOREM BytesAreNotLost == Spec => []NothingLost
<1>1. IInv => NothingLost
  BY DEF IInv
<1>2. QED
  BY InitSafe, NextSafe, <1>1, PTL DEF Spec

(* Up to the same steps the two ends agree on how far the transfer of a    *)
(* byte has come, also when both programs saw ready and both wrote.        *)
THEOREM EndsAgree == Spec => [](PortsAgree /\ FlagsAgree)
<1>1. IInv => PortsAgree /\ FlagsAgree
  BY DEF IInv
<1>2. QED
  BY InitSafe, NextSafe, <1>1, PTL DEF Spec

(* Port 09 moves a byte to in only when the program has read the last one. *)
LEMMA TickKeepsIn ==
  ASSUME NEW p \in Port, NEW low \in SUBSET Line, p.read
  PROVE  Tick(p, low).in = p.in
<1>1. SendTick(p, low).in = p.in
  BY DEF SendTick, Port
<1>2. HearIdle(p).in = p.in
  BY DEF HearIdle, Port
<1>3. ASSUME NEW b \in Line
      PROVE  /\ HearBit([p EXCEPT !.ready = FALSE], b).in = p.in
             /\ HearFull([p EXCEPT !.ready = FALSE]).in = p.in
  BY DEF HearBit, HearFull, Port
<1>4. low # {} /\ low # Line => \E l \in Line : low = {l}
  BY DEF Line
<1>5. ReceiveTick(p, low).in = p.in
  <2> DEFINE l == CHOOSE x \in Line : low = {x}
  <2>1. low # {} /\ low # Line => l \in Line
    BY <1>4
  <2> HIDE DEF l
  <2>2. l \in Line => /\ HearBit([p EXCEPT !.ready = FALSE], l).in = p.in
                      /\ HearFull([p EXCEPT !.ready = FALSE]).in = p.in
    BY <1>3
  <2>3. [p EXCEPT !.ready = FALSE].in = p.in
    BY DEF Port
  <2>4. ReceiveTick(p, low) =
          CASE low = {}   -> HearIdle(p)
            [] low = Line -> [p EXCEPT !.ready = FALSE]
            [] OTHER      -> IF p.bit < Width
                               THEN HearBit([p EXCEPT !.ready = FALSE], l)
                               ELSE HearFull([p EXCEPT !.ready = FALSE])
    BY DEF ReceiveTick, l
  <2>5. CASE low = {}
    BY <1>2, <2>4, <2>5
  <2>6. CASE low = Line
    <3>1. ReceiveTick(p, low) = [p EXCEPT !.ready = FALSE]
      BY <2>4, <2>6 DEF Line
    <3>2. QED
      BY <2>3, <3>1
  <2>7. CASE low # {} /\ low # Line
    BY <2>1, <2>2, <2>4, <2>7
  <2>8. QED
    BY <2>5, <2>6, <2>7
<1>6. QED
  BY <1>1, <1>5 DEF Tick

(* A byte that is waiting to be read survives every step of both ends      *)
(* until it is read.                                                       *)
THEOREM NeverOverrun == Spec => NoOverrun
<1>1. TypeOK /\ [Next]_vars =>
        [\A c \in Calc : port[c].read /\ port'[c].read => port'[c].in = port[c].in]_vars
  <2> SUFFICES ASSUME TypeOK, Next, NEW d \in Calc, port[d].read, port'[d].read
               PROVE  port'[d].in = port[d].in
    BY DEF vars
  <2>1. PICK c \in Calc : \/ Poll(c)
                          \/ ReadStatus(c)
                          \/ WriteByte(c)
                          \/ ReadByte(c)
                          \/ ReadBack(c)
                          \/ SwitchOff(c)
                          \/ SwitchOn(c)
    BY DEF Next
  <2>2. port \in [Calc -> Port] /\ port[c] \in Port
    BY DEF TypeOK
  <2>3. CASE Poll(c)
    <3>1. LinkRead(c) \in SUBSET Line
      BY <2>2, PeerAssumption DEF LinkRead, Port
    <3>2. port[c].read => Tick(port[c], LinkRead(c)).in = port[c].in
      BY <2>2, <3>1, TickKeepsIn
    <3>3. port' = [port EXCEPT ![c] = Tick(port[c], LinkRead(c))]
      BY <2>3 DEF Poll
    <3>4. QED
      BY <2>2, <3>2, <3>3
  <2>4. CASE WriteByte(c)
    BY <2>2, <2>4 DEF WriteByte, PutByte, Port
  <2>5. CASE ReadByte(c)
    BY <2>2, <2>5 DEF ReadByte, TakeByte, Port
  <2>6. CASE ReadBack(c)
    BY <2>2, <2>6 DEF ReadBack, PeekOut, Port
  <2>7. CASE SwitchOff(c)
    BY <2>2, <2>7 DEF SwitchOff, Disable, Port
  <2>8. CASE SwitchOn(c)
    BY <2>2, <2>8 DEF SwitchOn, Enable, Port
  <2>9. CASE ReadStatus(c)
    BY <2>9 DEF ReadStatus
  <2>10. QED
    BY <2>1, <2>3, <2>4, <2>5, <2>6, <2>7, <2>8, <2>9
<1>2. IInv => TypeOK
  BY DEF IInv
<1>3. QED
  BY InitSafe, NextSafe, <1>1, <1>2, PTL DEF Spec, NoOverrun

(***************************************************************************)
(* The abstract channel allows every step of the ports: a write that       *)
(* disturbs nothing happens only when out is empty, so that at most        *)
(* working and in are taken, and a read returns the oldest byte under way. *)
(***************************************************************************)
LEMMA StepRefines ==
  IInv /\ [Next]_vars => [Channel!Next]_<<sent, got, disturbed>>
<1> SUFFICES ASSUME IInv, Next
             PROVE  Channel!Next \/ UNCHANGED <<sent, got, disturbed>>
  BY DEF vars
<1>1. ASSUME NEW c \in Calc
      PROVE  /\ Intact(c) => CableSafe(c)
             /\ Peer[c] \in Calc /\ Peer[Peer[c]] = c
             /\ sent[c] \in Seq(Byte) /\ got[c] \in Seq(Byte)
             /\ sent[Peer[c]] \in Seq(Byte) /\ got[Peer[c]] \in Seq(Byte)
             /\ disturbed[c] \in BOOLEAN
             /\ seen[c] => ~port[c].sending
  BY InvariantOfCables, PeerAssumption DEF IInv, TypeOK, SeenFits
<1>2. ASSUME NEW c \in Calc, ~Intact(c)',
             \A d \in Calc : d # c /\ d # Peer[c] =>
               /\ sent'[d] = sent[d] /\ got'[d] = got[d]
               /\ disturbed'[d] = disturbed[d]
      PROVE  Channel!Next
  <2>1. CASE disturbed'[c]
    BY <1>2, <2>1 DEF Channel!Next, Channel!Disturb
  <2>2. CASE disturbed'[Peer[c]]
    <3>1. Channel!Disturb(Peer[c])
      BY <1>1, <1>2, <2>2 DEF Channel!Disturb
    <3>2. QED
      BY <1>1, <3>1 DEF Channel!Next
  <2>3. QED
    BY <1>2, <2>1, <2>2 DEF Intact
<1>3. ASSUME NEW c \in Calc, WriteByte(c), Intact(c)'
      PROVE  Channel!Send(c)
  <2> DEFINE S == sent[c]
             G == got[Peer[c]]
             p == port[c]
             q == port[Peer[c]]
  <2>1. disturbed' = [disturbed EXCEPT ![c] = disturbed[c] \/ p.receiving] /\ seen[c]
    BY <1>3 DEF WriteByte
  <2>2. Intact(c) /\ disturbed' = disturbed
    BY <1>1, <1>3, <2>1 DEF Intact, IInv, TypeOK
  <2>3. Lossless(S, G, p, q) /\ ~p.sending
    BY <1>1, <2>1, <2>2 DEF CableSafe, Safe
  <2>4. InRead(q) <= 1 /\ InWorking(q) <= 1 /\ InOut(p, q) = 0
        /\ InRead(q) \in Nat /\ InWorking(q) \in Nat
    BY <2>3 DEF InRead, InWorking, InOut, Unheard
  <2>5. Len(S) - Len(G) < 3
    <3>1. Len(S) = Len(G) + InRead(q) + InWorking(q) + InOut(p, q)
      BY <2>3 DEF Lossless
    <3>2. Len(S) \in Nat /\ Len(G) \in Nat
      BY <1>1
    <3>3. QED
      BY <2>4, <3>1, <3>2
  <2>6. (\E x \in Byte : sent' = [sent EXCEPT ![c] = Append(sent[c], x)]) /\ got' = got
    BY <1>3 DEF WriteByte
  <2>7. QED
    BY <2>2, <2>5, <2>6 DEF Channel!Send, Channel!UnderWay
<1>4. ASSUME NEW c \in Calc, ReadByte(c), Intact(c)
      PROVE  Channel!Receive(c)
  <2>1. port[c].in = sent[Peer[c]][Len(got[c]) + 1]
    BY <1>1, <1>4, ByteToRead DEF CableSafe, ReadByte
  <2>2. Len(got[c]) + 1 <= Len(sent[Peer[c]])
    BY <1>1, <1>4, ByteToRead DEF CableSafe, ReadByte
  <2>3. /\ got' = [got EXCEPT ![c] = Append(got[c], port[c].in)]
        /\ sent' = sent /\ disturbed' = disturbed
    BY <1>4 DEF ReadByte
  <2>4. Channel!UnderWay(Peer[c]) > 0
    <3>1. Channel!UnderWay(Peer[c]) = Len(sent[Peer[c]]) - Len(got[c])
      BY <1>1 DEF Channel!UnderWay
    <3>2. Len(sent[Peer[c]]) \in Nat /\ Len(got[c]) \in Nat
      BY <1>1
    <3> DEFINE m == Len(sent[Peer[c]])
               n == Len(got[c])
    <3>3. m \in Nat /\ n \in Nat /\ n + 1 <= m
      BY <2>2, <3>2, Zenon
    <3> HIDE DEF m, n
    <3>4. m - n > 0
      BY <3>3
    <3>5. QED
      BY <3>1, <3>4, Zenon DEF m, n
  <2>5. got' = [got EXCEPT ![c] = Append(got[c], sent[Peer[c]][Len(got[c]) + 1])]
    BY <2>1, <2>3
  <2>6. QED
    BY <2>3, <2>4, <2>5 DEF Channel!Receive
<1>5. ASSUME NEW c \in Calc, WriteByte(c)
      PROVE  Channel!Next
  <2>1. CASE Intact(c)'
    BY <1>3, <1>5, <2>1 DEF Channel!Next
  <2>2. CASE ~Intact(c)'
    BY <1>2, <1>5, <2>2 DEF WriteByte, IInv, TypeOK
  <2>3. QED
    BY <2>1, <2>2
<1>6. ASSUME NEW c \in Calc, ReadByte(c)
      PROVE  Channel!Next
  <2>1. CASE Intact(c)
    BY <1>4, <1>6, <2>1 DEF Channel!Next
  <2>2. CASE ~Intact(c)
    <3>1. ~Intact(c)'
      BY <1>6, <2>2 DEF ReadByte, Intact
    <3>2. QED
      BY <1>2, <1>6, <3>1 DEF ReadByte, IInv, TypeOK
  <2>3. QED
    BY <2>1, <2>2
<1>7. ASSUME NEW c \in Calc, SwitchOff(c)
      PROVE  Channel!Next \/ UNCHANGED <<sent, got, disturbed>>
  <2>1. /\ disturbed' = [disturbed EXCEPT ![c] = disturbed[c] \/ ~Quiet(port[c])]
        /\ UNCHANGED <<sent, got>>
    BY <1>7 DEF SwitchOff
  <2>2. CASE Quiet(port[c])
    BY <1>1, <2>1, <2>2 DEF IInv, TypeOK
  <2>3. CASE ~Quiet(port[c])
    <3>1. ~Intact(c)'
      BY <2>1, <2>3 DEF Intact, IInv, TypeOK
    <3>2. QED
      BY <1>2, <2>1, <3>1 DEF IInv, TypeOK
  <2>4. QED
    BY <2>2, <2>3
<1>8. ASSUME NEW c \in Calc,
             Poll(c) \/ ReadStatus(c) \/ ReadBack(c) \/ SwitchOn(c)
      PROVE  UNCHANGED <<sent, got, disturbed>>
  BY <1>8 DEF Poll, ReadStatus, ReadBack, SwitchOn
<1>9. QED
  BY <1>5, <1>6, <1>7, <1>8 DEF Next

(* Two link assists joined by a cable implement the lossless channel until *)
(* a program at one of its ends disturbs a byte.                           *)
THEOREM CableRefinesChannel == Spec => ImplementsChannel
<1>1. Init => Channel!Init
  BY DEF Init, Channel!Init
<1>2. QED
  BY InitSafe, NextSafe, StepRefines, <1>1, PTL
  DEF Spec, ImplementsChannel, Channel!Spec, Channel!vars

=============================================================================
