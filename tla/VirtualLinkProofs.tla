------------------------- MODULE VirtualLinkProofs -------------------------
(***************************************************************************)
(* Proofs about the virtual link, for every width of a byte, every timing  *)
(* and every program of the calculator.                                    *)
(*                                                                         *)
(* The PC's code does on the cable what a link assist would do: in each of *)
(* its loops it stands for an assist in a certain state, PcAs, and each    *)
(* of its steps for one or two polls and port accesses of that assist.  So *)
(* the lemmas about two ports on one cable hold for the virtual link too.  *)
(***************************************************************************)
EXTENDS VirtualLink, LinkPairProofs, NaturalFacts

(* The PC's code as a port: in phase, with locals k, holding lines v low. *)
PcAs(phase, k, v) ==
  [enabled   |-> TRUE,
   in        |-> ZeroByte,
   out       |-> k.byte,
   working   |-> k.byte,
   receiving |-> phase = "awaitRelease" \/ (phase = "awaitBit" /\ k.bit > 0),
   read      |-> FALSE,
   ready     |-> FALSE,
   sending   |-> phase \in {"awaitAck", "awaitIdle"},
   bit       |-> IF phase \in {"awaitAck", "awaitBit"} THEN k.bit
                 ELSE IF phase \in {"awaitIdle", "awaitRelease"} THEN k.bit + 1
                 ELSE 0,
   host      |-> v]

Joined(phase) ==
  Safe(PcAs(phase, pc, vout), port, sent["pc"], got["calc"], sent["calc"], got["pc"])

(* After a longjmp the cable is as the loop that failed had left it. *)
Phases == IF pc.phase = "failed" THEN Phase \ {"failed"} ELSE {pc.phase}

CableSafe == \E phase \in Phases : Joined(phase)

(* The lines the PC holds in each of its loops. *)
LineHeld ==
  /\ pc.phase \in {"between", "delay", "awaitIdle", "awaitBit"} => vout = {}
  /\ pc.phase = "awaitAck" => vout = {pc.byte[pc.bit]}
  /\ pc.phase = "awaitRelease" => vout # {}

(* Before it sends, the PC has read whatever the program has written. *)
InPlan ==
  /\ Len(sent["pc"]) <= plan.out /\ Len(sent["calc"]) <= plan.in
  /\ pc.phase = "delay" => Len(sent["pc"]) < plan.out
  /\ pc.phase = "between" => Len(sent["calc"]) = plan.in
  /\ pc.phase \in {"between", "delay"} => Len(got["pc"]) = Len(sent["calc"])

(* While nothing has disturbed the link. *)
Sound == TypeOK /\ CableSafe /\ LineHeld /\ InPlan

(* After a disturbance the registers and the PC's locals still fit.        *)
IInv == TypeOK /\ Fits(port) /\ (~disturbed => Sound)

(* An instruction that disturbs nothing. *)
InTurn == CpuStep /\ ~StrayByte /\ (SwitchOff => Quiet(port))

-----------------------------------------------------------------------------
PcState == [phase : Phase, bit : 0 .. Width - 1, byte : Byte, tries : 0 .. Patience,
            steps : Nat, err : LINK_ERR]

LEMMA Typed ==
  ASSUME TypeOK
  PROVE  /\ port \in Port /\ pc \in PcState /\ vout \in SUBSET Line
         /\ sent["pc"] \in Seq(Byte) /\ sent["calc"] \in Seq(Byte)
         /\ got["pc"] \in Seq(Byte) /\ got["calc"] \in Seq(Byte)
         /\ sent \in [End -> Seq(Byte)] /\ got \in [End -> Seq(Byte)]
         /\ plan.out \in Nat /\ plan.in \in Nat
BY DEF TypeOK, PcState, End

LEMMA PcPort ==
  ASSUME NEW phase, NEW k \in PcState, NEW v \in SUBSET Line
  PROVE  LET p == PcAs(phase, k, v)
         IN  /\ p \in Port
             /\ p.enabled /\ ~p.read /\ ~p.ready /\ p.host = v
             /\ p.out = k.byte /\ p.working = k.byte
             /\ p.sending <=> phase \in {"awaitAck", "awaitIdle"}
             /\ p.receiving <=> \/ phase = "awaitRelease"
                                \/ phase = "awaitBit" /\ k.bit > 0
             /\ p.bit = IF phase \in {"awaitAck", "awaitBit"} THEN k.bit
                        ELSE IF phase \in {"awaitIdle", "awaitRelease"} THEN k.bit + 1
                        ELSE 0
<1> DEFINE p == PcAs(phase, k, v)
<1>1. k.byte \in Byte /\ k.bit \in 0 .. Width - 1
  BY DEF PcState
<1>2. ZeroByte \in Byte
  BY WidthAssumption DEF ZeroByte, Byte, Line
<1> DEFINE n == IF phase \in {"awaitAck", "awaitBit"} THEN k.bit
                ELSE IF phase \in {"awaitIdle", "awaitRelease"} THEN k.bit + 1
                ELSE 0
           s == phase \in {"awaitAck", "awaitIdle"}
           h == phase = "awaitRelease" \/ (phase = "awaitBit" /\ k.bit > 0)
<1>3. n \in 0 .. Width /\ s \in BOOLEAN /\ h \in BOOLEAN
  BY <1>1, WidthAssumption
<1>4. p = [enabled |-> TRUE, in |-> ZeroByte, out |-> k.byte, working |-> k.byte,
           receiving |-> h, read |-> FALSE, ready |-> FALSE, sending |-> s,
           bit |-> n, host |-> v]
  BY DEF PcAs
<1> HIDE DEF p, n, s, h
<1>5. p.bit = n /\ (p.sending <=> s) /\ (p.receiving <=> h)
  BY <1>3, <1>4
<1>6. p \in Port
  BY <1>1, <1>2, <1>3, <1>4 DEF Port
<1>7. /\ p.enabled /\ ~p.read /\ ~p.ready /\ p.host = v
      /\ p.out = k.byte /\ p.working = k.byte
  BY <1>4
<1> QED
  BY <1>5, <1>6, <1>7, Zenon DEF p, n, s, h

(* Nobody has read more than was written. *)
LEMMA NoMoreRead ==
  ASSUME NEW p, NEW q, NEW S \in Seq(Byte), NEW G \in Seq(Byte),
         NEW T \in Seq(Byte), NEW H \in Seq(Byte), Safe(p, q, S, G, T, H)
  PROVE  Len(G) <= Len(S) /\ Len(H) <= Len(T)
<1>1. \A a, b : InRead(a) \in Nat /\ InWorking(a) \in Nat /\ InOut(a, b) \in Nat
  BY DEF InRead, InWorking, InOut
<1>2. /\ Len(S) = Len(G) + InRead(q) + InWorking(q) + InOut(p, q)
      /\ Len(T) = Len(H) + InRead(p) + InWorking(p) + InOut(q, p)
  BY DEF Safe, Lossless
<1> QED
  BY <1>1, <1>2

-----------------------------------------------------------------------------
(***************************************************************************)
(* The steps of the calculator.                                            *)
(***************************************************************************)
LEMMA StepSafe ==
  ASSUME NEW p, NEW q, NEW S \in Seq(Byte), NEW G \in Seq(Byte),
         NEW T \in Seq(Byte), NEW H \in Seq(Byte), Safe(p, q, S, G, T, H),
         p.host = vout, Step(q)
  PROVE  Safe(p, port', S, G, T, H)
<1>1. CASE q.enabled /\ skip = 0
  <2>1. Safe(q, p, T, H, S, G)
    BY SafeSymmetric
  <2>2. Safe(Tick(q, q.host \cup vout), p, T, H, S, G)
    BY <2>1, PollSafe
  <2>3. port' = Tick(q, q.host \cup vout)
    BY <1>1 DEF Step
  <2> QED
    BY <2>2, <2>3, SafeSymmetric
<1>2. CASE ~(q.enabled /\ skip = 0)
  BY <1>2 DEF Step
<1> QED
  BY <1>1, <1>2

LEMMA StepKeepsPc ==
  ASSUME TypeOK, NEW q, Step(q)
  PROVE  /\ vout' = vout /\ plan' = plan
         /\ pc' \in PcState
         /\ pc'.phase = pc.phase /\ pc'.bit = pc.bit /\ pc'.byte = pc.byte
         /\ pc'.tries = pc.tries
         /\ skip' \in 0 .. SkipFactor - 1
         /\ \A phase : PcAs(phase, pc, vout)' = PcAs(phase, pc, vout)
<1>1. /\ vout' = vout /\ plan' = plan
      /\ pc' = [pc EXCEPT !.steps = IF @ > 0 THEN @ - 1 ELSE 0]
      /\ skip' = IF q.enabled THEN (skip + 1) % SkipFactor ELSE skip
  BY DEF Step
<1>2. pc' \in PcState
  <2> DEFINE n == IF pc.steps > 0 THEN pc.steps - 1 ELSE 0
  <2>1. pc \in PcState /\ n \in Nat
    BY Typed DEF PcState
  <2>2. pc' = [pc EXCEPT !.steps = n]
    BY <1>1
  <2> HIDE DEF n
  <2> QED
    BY <2>1, <2>2 DEF PcState
<1>3. /\ pc'.phase = pc.phase /\ pc'.bit = pc.bit /\ pc'.byte = pc.byte
      /\ pc'.tries = pc.tries
  BY <1>1, Typed DEF PcState
<1>4. skip' \in 0 .. SkipFactor - 1
  BY <1>1, TimingAssumption DEF TypeOK
<1>5. \A phase : PcAs(phase, pc, vout)' = PcAs(phase, pc, vout)
  BY <1>1, <1>3 DEF PcAs
<1> QED
  BY <1>1, <1>2, <1>3, <1>4, <1>5

LEMMA CpuStepIsStep ==
  ASSUME CpuStep
  PROVE  \E q : Step(q)
BY DEF CpuStep, Compute, ReadBack, ReadByte, WriteByte, StrayByte, SwitchOff, SwitchOn

LEMMA CpuStepJoined ==
  ASSUME TypeOK, InTurn, NEW phase, Joined(phase)
  PROVE  Joined(phase)'
<1> DEFINE p == PcAs(phase, pc, vout)
           S == sent["pc"]
           G == got["calc"]
           T == sent["calc"]
           H == got["pc"]
<1>1. /\ S \in Seq(Byte) /\ G \in Seq(Byte) /\ T \in Seq(Byte) /\ H \in Seq(Byte)
      /\ port \in Port
      /\ sent \in [End -> Seq(Byte)] /\ got \in [End -> Seq(Byte)]
  BY Typed
<1>2. p.host = vout
  BY Typed, PcPort
<1>3. p' = p
  BY CpuStepIsStep, StepKeepsPc DEF InTurn
<1>4. Safe(p, port, S, G, T, H) /\ Safe(port, p, T, H, S, G)
  BY SafeSymmetric DEF Joined
<1>5. SUFFICES Safe(p, port', S', G', T', H')
  BY <1>3 DEF Joined
<1> HIDE DEF p
<1>6. CASE Compute
  <2>1. Step(port) /\ sent' = sent /\ got' = got
    BY <1>6 DEF Compute
  <2> QED
    BY <1>1, <1>2, <1>4, <2>1, StepSafe
<1>7. CASE ReadBack
  <2>1. Step(PeekOut(port)) /\ sent' = sent /\ got' = got
    BY <1>7 DEF ReadBack
  <2>2. Safe(p, PeekOut(port), S, G, T, H)
    BY <1>4, ReadBackSafe, SafeSymmetric
  <2> QED
    BY <1>1, <1>2, <2>1, <2>2, StepSafe
<1>8. CASE ReadByte
  <2>1. Step(TakeByte(port)) /\ sent' = sent /\ port.read
        /\ got' = [got EXCEPT !["calc"] = Append(G, port.in)]
    BY <1>8 DEF ReadByte
  <2>2. Safe(TakeByte(port), p, T, H, S, Append(G, port.in))
    BY <1>1, <1>4, <2>1, ReadSafe
  <2>3. Append(G, port.in) \in Seq(Byte)
    BY <1>1 DEF Port
  <2>4. S' = S /\ T' = T /\ H' = H /\ G' = Append(G, port.in)
    BY <1>1, <2>1 DEF End
  <2>5. Safe(p, TakeByte(port), S, Append(G, port.in), T, H)
    BY <2>2, SafeSymmetric
  <2> HIDE DEF S, G, T, H
  <2>6. Safe(p, port', S, Append(G, port.in), T, H)
    BY <1>1, <1>2, <2>1, <2>3, <2>5, StepSafe
  <2> QED
    BY <2>4, <2>6
<1>9. CASE WriteByte
  <2>1. PICK x \in Byte : Step(PutByte(port, x))
                          /\ sent' = [sent EXCEPT !["calc"] = Append(T, x)]
    BY <1>9 DEF WriteByte
  <2>2. port.ready /\ got' = got
    BY <1>9 DEF WriteByte
  <2>3. Safe(PutByte(port, x), p, Append(T, x), H, S, G)
    <3>1. ~port.sending /\ ~port.receiving
      BY <1>4, <2>2 DEF Safe, Flags
    <3> QED
      BY <1>1, <1>4, <3>1, WriteSafe
  <2>4. Append(T, x) \in Seq(Byte)
    BY <1>1
  <2>5. S' = S /\ G' = G /\ H' = H /\ T' = Append(T, x)
    BY <1>1, <2>1, <2>2 DEF End
  <2>6. Safe(p, PutByte(port, x), S, G, Append(T, x), H)
    BY <2>3, SafeSymmetric
  <2> HIDE DEF S, G, T, H
  <2>7. Safe(p, port', S, G, Append(T, x), H)
    BY <1>1, <1>2, <2>1, <2>4, <2>6, StepSafe
  <2> QED
    BY <2>5, <2>7
<1>10. CASE SwitchOff
  <2>1. Step(Disable(port)) /\ sent' = sent /\ got' = got /\ Quiet(port)
    BY <1>10 DEF SwitchOff, InTurn
  <2>2. Safe(p, Disable(port), S, G, T, H)
    BY <1>4, <2>1, SwitchSafe, SafeSymmetric
  <2> QED
    BY <1>1, <1>2, <2>1, <2>2, StepSafe
<1>11. CASE SwitchOn
  <2>1. Step(Enable(port)) /\ sent' = sent /\ got' = got
    BY <1>11 DEF SwitchOn
  <2>2. Safe(p, Enable(port), S, G, T, H)
    BY <1>4, SwitchSafe, SafeSymmetric
  <2> QED
    BY <1>1, <1>2, <2>1, <2>2, StepSafe
<1> QED
  BY <1>6, <1>7, <1>8, <1>9, <1>10, <1>11 DEF CpuStep, InTurn

(* The program's turn comes only when the PC is in one of its loops. *)
LEMMA TurnInsideExchange ==
  ASSUME Sound, MyTurn
  PROVE  pc.phase \notin {"between", "delay"}
<1> SUFFICES ASSUME pc.phase \in {"between", "delay"} PROVE FALSE
  OBVIOUS
<1>1. Joined(pc.phase)
  BY DEF Sound, CableSafe, Phases
<1>2. Len(got["calc"]) <= Len(sent["pc"])
  BY <1>1, Typed, NoMoreRead DEF Sound, Joined
<1>3. /\ Len(got["calc"]) \in Nat /\ Len(sent["pc"]) \in Nat
      /\ Len(sent["calc"]) \in Nat /\ plan.out \in Nat /\ plan.in \in Nat
  BY Typed DEF Sound
<1>4. Len(got["calc"]) = plan.out /\ Len(sent["calc"]) < plan.in
  BY DEF MyTurn
<1> DEFINE g == Len(got["calc"])
           s == Len(sent["pc"])
           t == Len(sent["calc"])
           o == plan.out
           i == plan.in
<1>5. /\ g <= s /\ g \in Nat /\ s \in Nat /\ t \in Nat /\ o \in Nat /\ i \in Nat
      /\ g = o /\ t < i
      /\ pc.phase = "delay" => s < o
      /\ pc.phase = "between" => t = i
  BY <1>2, <1>3, <1>4 DEF Sound, InPlan
<1> HIDE DEF g, s, t, o, i
<1> QED
  BY <1>5

LEMMA CpuStepKeeps ==
  ASSUME Sound, InTurn
  PROVE  Sound'
<1> TypeOK
  BY DEF Sound
<1>1. PICK q : Step(q)
  BY CpuStepIsStep DEF InTurn
<1>2. /\ vout' = vout /\ plan' = plan
      /\ pc' \in PcState
      /\ pc'.phase = pc.phase /\ pc'.bit = pc.bit /\ pc'.byte = pc.byte
      /\ skip' \in 0 .. SkipFactor - 1
  BY <1>1, StepKeepsPc
<1>3. PICK phase \in Phases : Joined(phase)
  BY DEF Sound, CableSafe
<1>4. Joined(phase)'
  BY <1>3, CpuStepJoined
<1>5. CableSafe'
  BY <1>2, <1>4 DEF CableSafe, Phases
<1>6. port' \in Port
  BY <1>4 DEF Joined, Safe
<1>7. idled' \in 0 .. Slow
  BY TimingAssumption
  DEF TypeOK, InTurn, CpuStep, Compute, ReadBack, ReadByte, WriteByte, SwitchOff,
      SwitchOn, Idling
<1>8. /\ sent' \in [End -> Seq(Byte)] /\ got' \in [End -> Seq(Byte)]
      /\ sent'["pc"] = sent["pc"] /\ got'["pc"] = got["pc"]
      /\ \/ sent'["calc"] = sent["calc"]
         \/ MyTurn /\ Len(sent'["calc"]) = Len(sent["calc"]) + 1
  <2> sent \in [End -> Seq(Byte)] /\ got \in [End -> Seq(Byte)] /\ port.in \in Byte
      /\ "pc" \in End /\ "calc" \in End
    BY Typed DEF Port, End
  <2>1. CASE ReadByte
    BY <2>1 DEF ReadByte
  <2>2. CASE WriteByte
    <3>1. PICK x \in Byte : sent' = [sent EXCEPT !["calc"] = Append(@, x)]
      BY <2>2 DEF WriteByte
    <3>2. got' = got /\ MyTurn
      BY <2>2 DEF WriteByte
    <3>3. /\ Append(sent["calc"], x) \in Seq(Byte)
          /\ Len(Append(sent["calc"], x)) = Len(sent["calc"]) + 1
      OBVIOUS
    <3> QED
      BY <3>1, <3>2, <3>3
  <2>3. CASE ~ReadByte /\ ~WriteByte
    BY <2>3 DEF InTurn, CpuStep, Compute, ReadBack, SwitchOff, SwitchOn
  <2> QED
    BY <2>1, <2>2, <2>3
<1>9. TypeOK'
  <2>1. disturbed' \in BOOLEAN
    BY DEF TypeOK, InTurn, CpuStep, Compute, ReadBack, ReadByte, WriteByte, SwitchOff,
           SwitchOn
  <2> QED
    BY <1>2, <1>6, <1>7, <1>8, <2>1 DEF TypeOK, PcState
<1>10. LineHeld'
  BY <1>2 DEF Sound, LineHeld
<1>11. InPlan'
  <2>1. CASE sent'["calc"] = sent["calc"]
    BY <1>2, <1>8, <2>1 DEF Sound, InPlan
  <2>2. CASE MyTurn /\ Len(sent'["calc"]) = Len(sent["calc"]) + 1
    <3>1. pc.phase \notin {"between", "delay"}
      BY <2>2, TurnInsideExchange
    <3>2. Len(sent["calc"]) + 1 <= plan.in
      BY <2>2, Typed DEF MyTurn
    <3> QED
      BY <1>2, <1>8, <2>2, <3>1, <3>2 DEF Sound, InPlan
  <2> QED
    BY <1>8, <2>1, <2>2
<1> QED
  BY <1>5, <1>9, <1>10, <1>11 DEF Sound

-----------------------------------------------------------------------------
(***************************************************************************)
(* The steps of the PC's code, as polls of the assist it stands for.       *)
(***************************************************************************)
LEMMA PcAlike ==
  ASSUME NEW p, NEW q, NEW S, NEW G, NEW T, NEW H, Safe(p, q, S, G, T, H),
         NEW phase, NEW k \in PcState, ~p.read,
         p.sending <=> phase \in {"awaitAck", "awaitIdle"},
         p.receiving <=> \/ phase = "awaitRelease"
                         \/ phase = "awaitBit" /\ k.bit > 0,
         p.bit = IF phase \in {"awaitAck", "awaitBit"} THEN k.bit
                 ELSE IF phase \in {"awaitIdle", "awaitRelease"} THEN k.bit + 1
                 ELSE 0,
         p.sending => p.out = k.byte,
         ~p.sending /\ p.bit > 0 => p.working = k.byte
  PROVE  Safe(PcAs(phase, k, p.host), q, S, G, T, H)
<1> DEFINE r == PcAs(phase, k, p.host)
<1>1. /\ p \in Port /\ p.host \in SUBSET Line
      /\ p.sending \in BOOLEAN /\ p.receiving \in BOOLEAN
  BY DEF Safe, Port
<1>2. /\ r \in Port /\ ~r.read /\ ~r.ready /\ r.host = p.host
      /\ r.out = k.byte /\ r.working = k.byte /\ r.bit = p.bit
      /\ r.sending <=> p.sending
      /\ r.receiving <=> p.receiving
  BY <1>1, PcPort
<1>3. r.sending = p.sending /\ r.receiving = p.receiving
  BY <1>1, <1>2 DEF Port
<1> HIDE DEF r
<1>4. Safe(r, q, S, G, T, H)
  BY <1>2, <1>3, AlikeSafe
<1> QED
  BY <1>4 DEF r

AtRest(p) ==
  ~p.read /\ ~p.sending /\ ~p.receiving /\ p.bit = 0 /\ p.host = {}

LEMMA PcAtRest ==
  ASSUME NEW p, NEW q, NEW S, NEW G, NEW T, NEW H, Safe(p, q, S, G, T, H), AtRest(p),
         NEW phase, phase \in {"between", "awaitBit"}, NEW k \in PcState, k.bit = 0
  PROVE  Safe(PcAs(phase, k, {}), q, S, G, T, H)
<1>1. /\ phase # "awaitRelease" /\ ~(phase = "awaitBit" /\ k.bit > 0)
      /\ phase \notin {"awaitAck", "awaitIdle"}
      /\ ~p.read /\ ~p.sending /\ ~p.receiving /\ p.host = {}
      /\ ~(~p.sending /\ p.bit > 0)
  BY DEF AtRest
<1>2. p.bit = IF phase \in {"awaitAck", "awaitBit"} THEN k.bit
              ELSE IF phase \in {"awaitIdle", "awaitRelease"} THEN k.bit + 1
              ELSE 0
  BY <1>1 DEF AtRest
<1>3. Safe(PcAs(phase, k, p.host), q, S, G, T, H)
  BY <1>1, <1>2, PcAlike
<1> QED
  BY <1>1, <1>3

(* When the PC is about to send, nothing is on the cable. *)
LEMMA QuietBeforeSending ==
  ASSUME Sound, pc.phase = "delay"
  PROVE  /\ port.host = {} /\ vout = {}
         /\ port.sending => port.bit = Width
<1> DEFINE p == PcAs("delay", pc, vout)
           T == sent["calc"]
           H == got["pc"]
<1>1. /\ p \in Port /\ ~p.read /\ p.host = vout /\ ~p.sending /\ ~p.receiving
      /\ p.bit = 0 /\ vout = {}
  <2>1. pc \in PcState /\ vout \in SUBSET Line /\ vout = {}
    BY Typed DEF Sound, LineHeld
  <2> QED
    BY <2>1, PcPort
<1>2. /\ Safe(p, port, sent["pc"], got["calc"], T, H) /\ Len(T) = Len(H)
      /\ Len(T) \in Nat /\ Len(H) \in Nat
  BY Typed DEF Sound, CableSafe, Phases, Joined, InPlan
<1> HIDE DEF p, T, H
<1>3. ~Unheard(port, p)
  <2>1. Len(T) = Len(H) + InRead(p) + InWorking(p) + InOut(port, p)
    BY <1>2 DEF Safe, Lossless
  <2>2. InRead(p) \in Nat /\ InWorking(p) \in Nat /\ InOut(port, p) \in Nat
    BY DEF InRead, InWorking, InOut
  <2>3. InOut(port, p) = 0
    BY <1>2, <2>1, <2>2
  <2> QED
    BY <2>3 DEF InOut
<1>4. CASE port.sending
  <2>1. Transfer(port, p)
    BY <1>1, <1>2, <1>4 DEF Safe, Agree
  <2>2. ~Held(p)
    BY <1>1, WidthAssumption DEF Held
  <2>3. port.bit = Width
    BY <1>2, <1>3, <1>4, <2>2, WidthAssumption DEF Unheard, Safe, Port
  <2> QED
    BY <1>1, <2>1, <2>3, WidthAssumption
    DEF Transfer, Fresh, Between, Heard, Released, Through
<1>5. CASE ~port.sending
  BY <1>1, <1>2, <1>5 DEF Safe, Agree, NoBitInHand
<1> QED
  BY <1>1, <1>4, <1>5

(* What every step of the PC's code begins with. *)
LEMMA PcBefore ==
  ASSUME Sound, pc.phase # "failed"
  PROVE  LET p == PcAs(pc.phase, pc, vout)
         IN  /\ Safe(p, port, sent["pc"], got["calc"], sent["calc"], got["pc"])
             /\ p \in Port /\ p.enabled /\ ~p.read /\ p.host = vout
             /\ p.out = pc.byte /\ p.working = pc.byte
             /\ p.sending <=> pc.phase \in {"awaitAck", "awaitIdle"}
             /\ p.receiving <=> \/ pc.phase = "awaitRelease"
                                \/ pc.phase = "awaitBit" /\ pc.bit > 0
             /\ p.bit = IF pc.phase \in {"awaitAck", "awaitBit"} THEN pc.bit
                        ELSE IF pc.phase \in {"awaitIdle", "awaitRelease"}
                               THEN pc.bit + 1
                        ELSE 0
             /\ pc.bit \in 0 .. Width - 1 /\ Width \in Nat \ {0}
<1>1. Joined(pc.phase)
  BY DEF Sound, CableSafe, Phases
<1>2. pc \in PcState /\ vout \in SUBSET Line /\ pc.bit \in 0 .. Width - 1
  BY Typed DEF Sound, PcState
<1> QED
  BY <1>1, <1>2, PcPort, WidthAssumption DEF Joined

LEMMA SendByteJoined ==
  ASSUME Sound, NEW p, ~p.read, p.enabled, ~p.sending, ~p.receiving,
         Safe(p, port, sent["pc"], got["calc"], sent["calc"], got["pc"]),
         port.host = {}, SendByte, port' = port, got' = got
  PROVE  Joined("awaitAck")' /\ LineHeld'
         /\ pc' \in PcState /\ pc'.phase = "awaitAck"
         /\ sent' \in [End -> Seq(Byte)] /\ sent'["calc"] = sent["calc"]
         /\ Len(sent'["pc"]) = Len(sent["pc"]) + 1
<1> TypeOK
  BY DEF Sound
<1>1. PICK x \in Byte :
        /\ pc' = [pc EXCEPT !.phase = "awaitAck", !.bit = 0, !.byte = x, !.tries = 0]
        /\ vout' = {x[0]}
        /\ sent' = [sent EXCEPT !["pc"] = Append(@, x)]
  BY DEF SendByte
<1>2. pc \in PcState /\ 0 \in 0 .. Width - 1 /\ 0 \in 0 .. Patience
      /\ "awaitAck" \in Phase
  BY Typed, WidthAssumption, TimingAssumption DEF Phase
<1>3. /\ pc' \in PcState
      /\ pc'.phase = "awaitAck" /\ pc'.bit = 0 /\ pc'.byte = x
  BY <1>1, <1>2 DEF PcState
<1> DEFINE S == sent["pc"]
           G == got["calc"]
           T == sent["calc"]
           H == got["pc"]
<1> DEFINE S2 == Append(S, x)
<1>4. /\ sent' \in [End -> Seq(Byte)] /\ sent'["pc"] = S2 /\ sent'["calc"] = T
      /\ S \in Seq(Byte) /\ G \in Seq(Byte) /\ T \in Seq(Byte) /\ H \in Seq(Byte)
      /\ Len(S2) = Len(S) + 1
  BY <1>1, Typed DEF End
<1>5. \E r : Announces(r, x) /\ Safe(r, port, S2, G, T, H)
  <2>1. /\ Safe(p, port, S, G, T, H) /\ x \in Byte /\ p.enabled /\ ~p.sending
        /\ ~p.receiving /\ ~p.read /\ port.host = {}
        /\ S \in Seq(Byte) /\ G \in Seq(Byte) /\ T \in Seq(Byte) /\ H \in Seq(Byte)
    BY <1>4
  <2> HIDE DEF S, G, T, H
  <2> QED
    BY <2>1, FirstBitSafe
<1>6. PICK r : Announces(r, x) /\ Safe(r, port, S2, G, T, H)
  BY <1>5
<1>7. Safe(PcAs("awaitAck", pc', r.host), port, S2, G, T, H)
  BY <1>3, <1>6, PcAlike DEF Announces
<1>8. Joined("awaitAck")'
  BY <1>1, <1>4, <1>6, <1>7 DEF Joined, Announces
<1>9. LineHeld'
  BY <1>1, <1>3 DEF LineHeld
<1> QED
  BY <1>3, <1>4, <1>8, <1>9

(* What is left to show of a step of the PC's code. *)
LEMMA PcStepCloses ==
  ASSUME Sound, NEW phase, Joined(phase)', phase \in Phases', pc' \in PcState, Unmoved,
         sent' \in [End -> Seq(Byte)], got' \in [End -> Seq(Byte)],
         plan' \in [out : Nat, in : Nat], LineHeld', InPlan'
  PROVE  Sound'
<1>1. vout' \in SUBSET Line
  <2>1. PcAs(phase, pc', vout') \in Port
    BY DEF Joined, Safe
  <2>2. PcAs(phase, pc', vout').host = vout'
    BY DEF PcAs
  <2> QED
    BY <2>1, <2>2 DEF Port
<1>2. port' = port /\ skip' = skip /\ idled' = idled /\ disturbed' \in BOOLEAN
  BY DEF Unmoved, Sound, TypeOK
<1>3. TypeOK'
  BY <1>1, <1>2 DEF Sound, TypeOK, PcState
<1> QED
  BY <1>3 DEF Sound, CableSafe

LEMMA SendPacketKeeps ==
  ASSUME Sound, SendPacket
  PROVE  Sound'
<1>1. PICK n \in 1 .. MaxPacket, m \in 0 .. MaxPacket, k \in DelayLens :
        /\ plan' = [out |-> plan.out + n, in |-> plan.in + m]
        /\ pc' = [pc EXCEPT !.phase = "delay", !.steps = k]
  BY DEF SendPacket
<1>2. /\ pc.phase = "between" /\ vout' = vout /\ sent' = sent /\ got' = got
      /\ port' = port /\ Unmoved
  BY DEF SendPacket, Unmoved
<1>3. /\ pc \in PcState /\ vout = {} /\ k \in Nat /\ n \in Nat \ {0} /\ m \in Nat
      /\ sent \in [End -> Seq(Byte)] /\ got \in [End -> Seq(Byte)]
      /\ plan.out \in Nat /\ plan.in \in Nat
  BY <1>2, Typed, TimingAssumption, BoundsAssumption DEF Sound, LineHeld
<1>4. /\ pc' \in PcState /\ pc'.phase = "delay" /\ pc'.byte = pc.byte
  BY <1>1, <1>3 DEF PcState, Phase
<1>5. PcAs("delay", pc', vout') = PcAs("between", pc, vout)
  BY <1>2, <1>4 DEF PcAs
<1>6. Joined("delay")'
  BY <1>2, <1>5 DEF Sound, CableSafe, Phases, Joined
<1>7. plan' \in [out : Nat, in : Nat] /\ plan'.out = plan.out + n /\ plan'.in = plan.in + m
  BY <1>1, <1>3
<1>8. LineHeld'
  BY <1>2, <1>3, <1>4 DEF LineHeld
<1>9. InPlan'
  <2>1. /\ Len(sent["pc"]) \in Nat /\ Len(sent["calc"]) \in Nat
    BY <1>3 DEF End
  <2>2. /\ Len(sent["pc"]) <= plan.out /\ Len(sent["calc"]) <= plan.in
        /\ Len(got["pc"]) = Len(sent["calc"])
    BY <1>2 DEF Sound, InPlan
  <2>3. /\ Len(sent["pc"]) < plan'.out /\ Len(sent["pc"]) <= plan'.out
        /\ Len(sent["calc"]) <= plan'.in
    BY <1>3, <1>7, <2>1, <2>2
  <2> QED
    BY <1>2, <1>4, <2>2, <2>3 DEF InPlan
<1> QED
  BY <1>2, <1>3, <1>4, <1>6, <1>7, <1>8, <1>9, PcStepCloses DEF Phases

LEMMA SendByteInPlan ==
  ASSUME Sound, Len(sent["pc"]) < plan.out, pc'.phase = "awaitAck", plan' = plan,
         sent'["calc"] = sent["calc"], Len(sent'["pc"]) = Len(sent["pc"]) + 1
  PROVE  InPlan'
<1>1. Len(sent["pc"]) \in Nat /\ plan.out \in Nat
  BY Typed DEF Sound
<1>2. Len(sent'["pc"]) <= plan.out
  BY <1>1
<1> QED
  BY <1>2 DEF Sound, InPlan

LEMMA FirstByteKeeps ==
  ASSUME Sound, FirstByte
  PROVE  Sound'
<1>1. /\ pc.phase = "delay" /\ SendByte /\ plan' = plan /\ got' = got /\ Unmoved
      /\ port' = port
  BY DEF FirstByte, At, Unmoved
<1> DEFINE p == PcAs("delay", pc, vout)
<1>2. /\ Safe(p, port, sent["pc"], got["calc"], sent["calc"], got["pc"])
      /\ p.enabled /\ ~p.read /\ ~p.sending /\ ~p.receiving
  BY <1>1, PcBefore
<1> HIDE DEF p
<1>3. port.host = {}
  BY <1>1, QuietBeforeSending
<1>4. /\ Joined("awaitAck")' /\ LineHeld' /\ pc' \in PcState /\ pc'.phase = "awaitAck"
      /\ sent' \in [End -> Seq(Byte)] /\ sent'["calc"] = sent["calc"]
      /\ Len(sent'["pc"]) = Len(sent["pc"]) + 1
  BY <1>1, <1>2, <1>3, SendByteJoined
<1>5. InPlan'
  BY <1>1, <1>4, SendByteInPlan DEF Sound, InPlan
<1>6. plan' \in [out : Nat, in : Nat] /\ got' \in [End -> Seq(Byte)]
  BY <1>1 DEF Sound, TypeOK
<1> QED
  BY <1>1, <1>4, <1>5, <1>6, PcStepCloses DEF Phases

LEMMA NextByteKeeps ==
  ASSUME Sound, NextByte
  PROVE  Sound'
<1>1. /\ pc.phase = "awaitIdle" /\ SendByte /\ plan' = plan /\ got' = got /\ Unmoved
      /\ port' = port /\ pc.bit = Width - 1 /\ port.host \cup vout = {}
      /\ Len(sent["pc"]) < plan.out
  BY DEF NextByte, At, Unmoved, low
<1> DEFINE p == PcAs("awaitIdle", pc, vout)
<1>2. /\ Safe(p, port, sent["pc"], got["calc"], sent["calc"], got["pc"])
      /\ p \in Port /\ p.enabled /\ ~p.read /\ p.sending /\ ~p.receiving
      /\ p.host = vout /\ p.bit = Width
  BY <1>1, PcBefore
<1> HIDE DEF p
<1> DEFINE r == Tick(p, {})
<1>3. Safe(r, port, sent["pc"], got["calc"], sent["calc"], got["pc"])
  <2>1. p.host \cup port.host = {}
    BY <1>1, <1>2
  <2> QED
    BY <1>2, <2>1, Typed, PollSafe DEF Sound
<1>4. r.enabled /\ ~r.read /\ ~r.sending /\ ~r.receiving /\ port.host = {}
  BY <1>1, <1>2, SendDone DEF SameData
<1> HIDE DEF r
<1>5. /\ Joined("awaitAck")' /\ LineHeld' /\ pc' \in PcState /\ pc'.phase = "awaitAck"
      /\ sent' \in [End -> Seq(Byte)] /\ sent'["calc"] = sent["calc"]
      /\ Len(sent'["pc"]) = Len(sent["pc"]) + 1
  BY <1>1, <1>3, <1>4, SendByteJoined
<1>6. InPlan'
  BY <1>1, <1>5, SendByteInPlan
<1>7. plan' \in [out : Nat, in : Nat] /\ got' \in [End -> Seq(Byte)]
  BY <1>1 DEF Sound, TypeOK
<1> QED
  BY <1>1, <1>5, <1>6, <1>7, PcStepCloses DEF Phases

(* Steps that neither send nor receive a byte. *)
LEMMA BitStepCloses ==
  ASSUME Sound, NEW p, ~p.read,
         Safe(p, port, sent["pc"], got["calc"], sent["calc"], got["pc"]),
         UNCHANGED <<plan, sent, got>>, Unmoved, pc' \in PcState,
         vout' = p.host, LineHeld', NEW phase, phase = pc'.phase,
         phase \in {"awaitAck", "awaitIdle", "awaitBit", "awaitRelease"},
         p.sending <=> phase \in {"awaitAck", "awaitIdle"},
         p.receiving <=> \/ phase = "awaitRelease"
                         \/ phase = "awaitBit" /\ pc'.bit > 0,
         p.bit = IF phase \in {"awaitAck", "awaitBit"} THEN pc'.bit ELSE pc'.bit + 1,
         p.sending => p.out = pc'.byte,
         ~p.sending /\ p.bit > 0 => p.working = pc'.byte
  PROVE  Sound'
<1>1. Safe(PcAs(phase, pc', p.host), port, sent["pc"], got["calc"], sent["calc"], got["pc"])
  BY PcAlike
<1>2. Joined(phase)'
  BY <1>1 DEF Joined, Unmoved
<1>3. InPlan'
  BY DEF Sound, InPlan
<1>4. /\ sent' \in [End -> Seq(Byte)] /\ got' \in [End -> Seq(Byte)]
      /\ plan' \in [out : Nat, in : Nat]
  BY DEF Sound, TypeOK
<1> QED
  BY <1>2, <1>3, <1>4, PcStepCloses DEF Phases

LEMMA AcknowledgedKeeps ==
  ASSUME Sound, Acknowledged
  PROVE  Sound'
<1>1. /\ pc.phase = "awaitAck" /\ port.host \cup vout = Line
      /\ pc' = [pc EXCEPT !.phase = "awaitIdle", !.tries = 0] /\ vout' = {}
      /\ UNCHANGED <<plan, sent, got>> /\ Unmoved
  BY DEF Acknowledged, At, low
<1> DEFINE p == PcAs("awaitAck", pc, vout)
<1>2. /\ Safe(p, port, sent["pc"], got["calc"], sent["calc"], got["pc"])
      /\ p \in Port /\ p.enabled /\ ~p.read /\ p.sending /\ ~p.receiving
      /\ p.host = vout /\ p.bit = pc.bit /\ p.bit < Width /\ p.out = pc.byte
  BY <1>1, PcBefore
<1>3. p.host # {}
  BY <1>1, <1>2 DEF Sound, LineHeld
<1> HIDE DEF p
<1> DEFINE r == Tick(p, Line)
<1>4. Safe(r, port, sent["pc"], got["calc"], sent["calc"], got["pc"])
  <2>1. p.host \cup port.host = Line
    BY <1>1, <1>2
  <2> QED
    BY <1>2, <2>1, Typed, PollSafe DEF Sound
<1>5. /\ ~r.read /\ r.sending /\ ~r.receiving /\ r.host = {}
      /\ r.bit = pc.bit + 1 /\ r.out = pc.byte
  BY <1>2, <1>3, SendAck DEF SameData
<1> HIDE DEF r
<1>6. /\ pc' \in PcState /\ pc'.phase = "awaitIdle" /\ pc'.bit = pc.bit
      /\ pc'.byte = pc.byte
  <2>1. pc \in PcState /\ 0 \in 0 .. Patience
    BY Typed, TimingAssumption DEF Sound
  <2> QED
    BY <1>1, <2>1 DEF PcState, Phase
<1>7. LineHeld'
  BY <1>1, <1>6 DEF LineHeld
<1> QED
  BY <1>1, <1>4, <1>5, <1>6, <1>7, BitStepCloses

LEMMA NextBitKeeps ==
  ASSUME Sound, NextBit
  PROVE  Sound'
<1>1. /\ pc.phase = "awaitIdle" /\ port.host \cup vout = {} /\ pc.bit < Width - 1
      /\ pc' = [pc EXCEPT !.phase = "awaitAck", !.bit = @ + 1, !.tries = 0]
      /\ vout' = {pc.byte[pc.bit + 1]}
      /\ UNCHANGED <<plan, sent, got>> /\ Unmoved
  BY DEF NextBit, At, low
<1> DEFINE p == PcAs("awaitIdle", pc, vout)
<1>2. /\ Safe(p, port, sent["pc"], got["calc"], sent["calc"], got["pc"])
      /\ p \in Port /\ p.enabled /\ ~p.read /\ p.sending /\ ~p.receiving
      /\ p.host = vout /\ p.bit = pc.bit + 1 /\ p.bit < Width /\ p.out = pc.byte
      /\ pc.bit \in 0 .. Width - 1 /\ Width \in Nat \ {0}
  BY <1>1, PcBefore
<1> HIDE DEF p
<1> DEFINE r == Tick(p, {})
<1>3. Safe(r, port, sent["pc"], got["calc"], sent["calc"], got["pc"])
  <2>1. p.host \cup port.host = {}
    BY <1>1, <1>2
  <2> QED
    BY <1>2, <2>1, Typed, PollSafe DEF Sound
<1>4. /\ ~r.read /\ r.sending /\ ~r.receiving /\ r.host = {pc.byte[pc.bit + 1]}
      /\ r.bit = pc.bit + 1 /\ r.out = pc.byte
  BY <1>2, SendAnnounce DEF SameData
<1> HIDE DEF r
<1>5. /\ pc' \in PcState /\ pc'.phase = "awaitAck" /\ pc'.bit = pc.bit + 1
      /\ pc'.byte = pc.byte
  <2>1. pc \in PcState /\ 0 \in 0 .. Patience /\ pc.bit + 1 \in 0 .. Width - 1
    BY <1>1, <1>2, Typed, TimingAssumption DEF Sound
  <2> QED
    BY <1>1, <2>1 DEF PcState, Phase
<1>6. LineHeld'
  BY <1>1, <1>5 DEF LineHeld
<1> QED
  BY <1>1, <1>3, <1>4, <1>5, <1>6, BitStepCloses

LEMMA PacketSentKeeps ==
  ASSUME Sound, PacketSent
  PROVE  Sound'
<1> PICK phase : phase = IF Len(got["pc"]) < plan.in THEN "awaitBit" ELSE "between"
  OBVIOUS
<1>1. /\ pc.phase = "awaitIdle" /\ port.host \cup vout = {} /\ pc.bit = Width - 1
      /\ pc' = [pc EXCEPT !.phase = phase, !.bit = 0, !.tries = 0]
      /\ UNCHANGED <<vout, plan, sent, got>> /\ Unmoved /\ port' = port
      /\ Len(sent["pc"]) = plan.out
  BY DEF PacketSent, At, low, Unmoved
<1> DEFINE p == PcAs("awaitIdle", pc, vout)
<1>2. /\ Safe(p, port, sent["pc"], got["calc"], sent["calc"], got["pc"])
      /\ p \in Port /\ p.enabled /\ ~p.read /\ p.sending /\ ~p.receiving
      /\ p.host = vout /\ p.bit = Width /\ Width \in Nat \ {0}
  BY <1>1, PcBefore
<1>3. vout = {}
  BY <1>1 DEF Sound, LineHeld
<1> HIDE DEF p
<1> DEFINE r == Tick(p, {})
<1>4. Safe(r, port, sent["pc"], got["calc"], sent["calc"], got["pc"])
  <2>1. p.host \cup port.host = {}
    BY <1>1, <1>2
  <2> QED
    BY <1>2, <2>1, Typed, PollSafe DEF Sound
<1>5. AtRest(r)
  BY <1>2, <1>3, SendDone DEF SameData, AtRest
<1> HIDE DEF r
<1>6. /\ pc' \in PcState /\ pc'.phase = phase /\ pc'.bit = 0
  <2>1. pc \in PcState /\ 0 \in 0 .. Patience /\ 0 \in 0 .. Width - 1 /\ phase \in Phase
    BY <1>2, Typed, TimingAssumption DEF Sound, Phase
  <2> QED
    BY <1>1, <2>1 DEF PcState
<1>7. phase \in {"awaitBit", "between"}
  OBVIOUS
<1>8. InPlan'
  <2> DEFINE t == Len(sent["calc"])
             h == Len(got["pc"])
             o == plan.in
  <2>1. h <= t /\ h \in Nat /\ t \in Nat /\ o \in Nat /\ t <= o
    BY <1>2, Typed, NoMoreRead DEF Sound, InPlan
  <2>2. phase = "between" => ~(h < o)
    OBVIOUS
  <2> HIDE DEF t, h, o
  <2>3. phase = "between" => t = o /\ h = t
    BY <2>1, <2>2
  <2> QED
    BY <1>1, <1>6, <1>7, <2>3 DEF t, h, o, Sound, InPlan
<1>9. Joined(phase)'
  <2>1. Safe(PcAs(phase, pc', {}), port, sent["pc"], got["calc"], sent["calc"], got["pc"])
    BY <1>4, <1>5, <1>6, <1>7, PcAtRest
  <2>2. vout' = {}
    BY <1>1, <1>3
  <2>3. Safe(PcAs(phase, pc', vout'), port', sent'["pc"], got'["calc"], sent'["calc"],
             got'["pc"])
    BY <1>1, <2>1, <2>2
  <2> QED
    BY <2>3 DEF Joined
<1>10. LineHeld'
  BY <1>1, <1>3, <1>6, <1>7 DEF LineHeld
<1>11. /\ sent' \in [End -> Seq(Byte)] /\ got' \in [End -> Seq(Byte)]
       /\ plan' \in [out : Nat, in : Nat]
  BY <1>1 DEF Sound, TypeOK
<1>12. phase \in Phases'
  BY <1>6, <1>7 DEF Phases
<1> QED
  BY <1>1, <1>6, <1>8, <1>9, <1>10, <1>11, <1>12, PcStepCloses

LEMMA BitHeardKeeps ==
  ASSUME Sound, BitHeard
  PROVE  Sound'
<1>1. /\ pc.phase = "awaitBit" /\ port.host \cup vout # {}
      /\ UNCHANGED <<plan, sent, got>> /\ Unmoved /\ port' = port
  BY DEF BitHeard, At, low, Unmoved
<1> DEFINE p == PcAs("awaitBit", pc, vout)
<1>2. /\ Safe(p, port, sent["pc"], got["calc"], sent["calc"], got["pc"])
      /\ p \in Port /\ p.enabled /\ ~p.read /\ ~p.sending
      /\ p.receiving <=> pc.bit > 0
      /\ p.host = vout /\ p.bit = pc.bit /\ p.bit < Width /\ p.working = pc.byte
      /\ pc.bit \in 0 .. Width - 1 /\ port.host \in SUBSET Line
  BY <1>1, PcBefore, Typed DEF Sound, Port
<1>3. vout = {} /\ pc \in PcState /\ 0 \in 0 .. Patience
  BY <1>1, Typed, TimingAssumption DEF Sound, LineHeld
<1>4. CASE port.host \cup vout = Line
  <2>1. /\ pc' = [pc EXCEPT !.phase = "failed", !.err = "LERR_LINK"] /\ vout' = vout
    BY <1>4 DEF BitHeard, low
  <2>2. /\ pc' \in PcState /\ pc'.phase = "failed" /\ pc'.bit = pc.bit
        /\ pc'.byte = pc.byte
    BY <1>3, <2>1 DEF PcState, Phase, LINK_ERR
  <2>3. PcAs("awaitBit", pc', vout') = PcAs("awaitBit", pc, vout)
    BY <2>1, <2>2 DEF PcAs
  <2>4. Joined("awaitBit")'
    BY <1>1, <1>2, <2>3 DEF Joined
  <2>5. "awaitBit" \in Phases'
    BY <2>2 DEF Phases, Phase
  <2>6. LineHeld' /\ InPlan'
    BY <1>1, <2>1, <2>2 DEF Sound, LineHeld, InPlan
  <2>7. /\ sent' \in [End -> Seq(Byte)] /\ got' \in [End -> Seq(Byte)]
        /\ plan' \in [out : Nat, in : Nat]
    BY <1>1 DEF Sound, TypeOK
  <2> QED
    BY <1>1, <2>2, <2>4, <2>5, <2>6, <2>7, PcStepCloses
<1>5. CASE port.host \cup vout # Line
  <2> DEFINE b == CHOOSE l \in Line : low = {l}
  <2>1. \E l \in Line : low = {l}
    BY <1>1, <1>2, <1>3, <1>5 DEF low, Line
  <2>2. b \in Line /\ low = {b}
    BY <2>1
  <2>3. /\ pc' = [pc EXCEPT !.phase = "awaitRelease", !.byte = ShiftIn(@, b), !.tries = 0]
        /\ vout' = {1 - b}
    BY <1>5 DEF BitHeard, low
  <2> HIDE DEF b, p
  <2> DEFINE r == Tick(p, {b})
  <2>4. Safe(r, port, sent["pc"], got["calc"], sent["calc"], got["pc"])
    <3>1. p.host \cup port.host = {b}
      BY <1>2, <2>2 DEF low
    <3> QED
      BY <1>2, <3>1, Typed, PollSafe DEF Sound
  <2>5. p.host = {} /\ (p.receiving \/ p.bit = 0)
    BY <1>2, <1>3
  <2>6. /\ ~r.read /\ ~r.sending /\ r.receiving /\ r.working = ShiftIn(pc.byte, b)
        /\ r.bit = pc.bit + 1 /\ r.host = {1 - b}
    BY <1>2, <2>2, <2>5, HearNewBit DEF SameData
  <2> HIDE DEF r
  <2>7. /\ pc' \in PcState /\ pc'.phase = "awaitRelease" /\ pc'.bit = pc.bit
        /\ pc'.byte = ShiftIn(pc.byte, b)
    <3>1. ShiftIn(pc.byte, b) \in Byte
      BY <1>3, <2>2, ShiftInType DEF PcState
    <3> QED
      BY <1>3, <2>3, <3>1 DEF PcState, Phase
  <2>8. LineHeld'
    BY <2>3, <2>7 DEF LineHeld
  <2> QED
    BY <1>1, <2>3, <2>4, <2>6, <2>7, <2>8, BitStepCloses
<1> QED
  BY <1>4, <1>5

LEMMA BitTakenKeeps ==
  ASSUME Sound, BitTaken
  PROVE  Sound'
<1>1. /\ pc.phase = "awaitRelease" /\ port.host \cup vout # Line /\ pc.bit < Width - 1
      /\ pc' = [pc EXCEPT !.phase = "awaitBit", !.bit = @ + 1, !.tries = 0]
      /\ vout' = {}
      /\ UNCHANGED <<plan, sent, got>> /\ Unmoved
  BY DEF BitTaken, At, low
<1> DEFINE p == PcAs("awaitRelease", pc, vout)
<1>2. /\ Safe(p, port, sent["pc"], got["calc"], sent["calc"], got["pc"])
      /\ p \in Port /\ p.enabled /\ ~p.read /\ ~p.sending /\ p.receiving
      /\ p.host = vout /\ p.bit = pc.bit + 1 /\ p.bit < Width /\ p.working = pc.byte
      /\ pc.bit \in 0 .. Width - 1 /\ Width \in Nat \ {0}
      /\ port.host \in SUBSET Line /\ vout \in SUBSET Line
  BY <1>1, PcBefore, Typed DEF Sound, Port
<1>3. vout # {}
  BY <1>1 DEF Sound, LineHeld
<1> HIDE DEF p
<1>4. PICK b \in Line : p.host \cup port.host = {b}
  BY <1>1, <1>2, <1>3 DEF Line
<1> DEFINE r == Tick(p, {b})
<1>5. Safe(r, port, sent["pc"], got["calc"], sent["calc"], got["pc"])
  BY <1>2, <1>4, Typed, PollSafe DEF Sound
<1>6. /\ ~r.read /\ ~r.sending /\ r.receiving /\ r.working = pc.byte
      /\ r.bit = pc.bit + 1 /\ r.host = {}
  BY <1>2, <1>3, HearRelease DEF SameData
<1> HIDE DEF r
<1>7. /\ pc' \in PcState /\ pc'.phase = "awaitBit" /\ pc'.bit = pc.bit + 1
      /\ pc'.byte = pc.byte
  <2>1. pc \in PcState /\ 0 \in 0 .. Patience /\ pc.bit + 1 \in 0 .. Width - 1
    BY <1>1, <1>2, Typed, TimingAssumption DEF Sound
  <2> QED
    BY <1>1, <2>1 DEF PcState, Phase
<1>8. LineHeld'
  BY <1>1, <1>7 DEF LineHeld
<1>9. pc'.bit > 0
  BY <1>2, <1>7
<1> QED
  BY <1>1, <1>5, <1>6, <1>7, <1>8, <1>9, BitStepCloses

(* What the PC reads is the next byte the program wrote. *)
LEMMA ByteRead ==
  ASSUME Sound, ByteTaken
  PROVE  /\ \E p : /\ AtRest(p)
                  /\ Safe(p, port, sent["pc"], got["calc"], sent["calc"],
                          Append(got["pc"], pc.byte))
         /\ pc.byte = sent["calc"][Len(got["pc"]) + 1]
         /\ Len(got["pc"]) + 1 <= Len(sent["calc"])
<1>1. /\ pc.phase = "awaitRelease" /\ port.host \cup vout # Line /\ pc.bit = Width - 1
  BY DEF ByteTaken, At, low
<1> DEFINE p == PcAs("awaitRelease", pc, vout)
<1>2. /\ Safe(p, port, sent["pc"], got["calc"], sent["calc"], got["pc"])
      /\ p \in Port /\ p.enabled /\ ~p.read /\ ~p.sending /\ p.receiving
      /\ p.host = vout /\ p.bit = Width /\ p.working = pc.byte
      /\ Width \in Nat \ {0}
      /\ port.host \in SUBSET Line /\ vout \in SUBSET Line
  BY <1>1, PcBefore, Typed DEF Sound, Port
<1>3. vout # {}
  BY <1>1 DEF Sound, LineHeld
<1> HIDE DEF p
<1>4. PICK b \in Line : p.host \cup port.host = {b}
  BY <1>1, <1>2, <1>3 DEF Line
<1> DEFINE r == Tick(p, {b})
<1>5. Safe(r, port, sent["pc"], got["calc"], sent["calc"], got["pc"])
  BY <1>2, <1>4, Typed, PollSafe DEF Sound
<1>6. /\ r \in Port /\ r.read /\ ~r.sending /\ ~r.receiving /\ r.in = pc.byte
      /\ r.working = pc.byte /\ r.bit = 0 /\ r.host = {}
  <2> DEFINE u == [p EXCEPT !.ready = FALSE, !.host = {}]
  <2>1. /\ u \in Port /\ u.host = {} /\ u.sending = p.sending /\ u.working = p.working
        /\ r = Complete(u)
    BY <1>2, HearWhenFull
  <2> HIDE DEF u, r
  <2> QED
    BY <1>2, <2>1, CompleteByte
<1> HIDE DEF r
<1>7. /\ pc.byte = sent["calc"][Len(got["pc"]) + 1]
      /\ Len(got["pc"]) + 1 <= Len(sent["calc"])
  BY <1>5, <1>6, Typed, ByteToRead DEF Sound
<1> PICK t : t = TakeByte(r)
  OBVIOUS
<1>8. Safe(t, port, sent["pc"], got["calc"], sent["calc"], Append(got["pc"], pc.byte))
  BY <1>5, <1>6, Typed, ReadSafe DEF Sound
<1>9. AtRest(t)
  BY <1>6 DEF TakeByte, Port, AtRest
<1> QED
  BY <1>7, <1>8, <1>9

LEMMA ByteTakenKeeps ==
  ASSUME Sound, ByteTaken
  PROVE  Sound'
<1>1. /\ got' = [got EXCEPT !["pc"] = Append(@, pc.byte)] /\ vout' = {}
      /\ UNCHANGED <<plan, sent>> /\ Unmoved /\ port' = port
  BY DEF ByteTaken, Unmoved
<1> PICK phase : phase = IF Len(got'["pc"]) < plan.in THEN "awaitBit" ELSE "between"
  OBVIOUS
<1>2. pc' = [pc EXCEPT !.phase = phase, !.bit = 0, !.tries = 0]
  BY DEF ByteTaken
<1>3. /\ pc' \in PcState /\ pc'.phase = phase /\ pc'.bit = 0
      /\ phase \in {"awaitBit", "between"} /\ pc.byte \in Byte
  <2>1. /\ pc \in PcState /\ 0 \in 0 .. Patience /\ 0 \in 0 .. Width - 1
        /\ phase \in Phase
    BY Typed, TimingAssumption, WidthAssumption DEF Sound, Phase
  <2> QED
    BY <1>2, <2>1 DEF PcState
<1> DEFINE H2 == Append(got["pc"], pc.byte)
<1>4. /\ got' \in [End -> Seq(Byte)] /\ got'["pc"] = H2 /\ got'["calc"] = got["calc"]
      /\ H2 \in Seq(Byte)
  <2>1. got \in [End -> Seq(Byte)] /\ got["pc"] \in Seq(Byte)
    BY Typed DEF Sound
  <2> QED
    BY <1>1, <1>3, <2>1 DEF End
<1>5. PICK p : AtRest(p) /\ Safe(p, port, sent["pc"], got["calc"], sent["calc"], H2)
  BY ByteRead
<1> HIDE DEF H2
<1>6. Joined(phase)'
  <2>1. Safe(PcAs(phase, pc', {}), port, sent["pc"], got["calc"], sent["calc"], H2)
    BY <1>3, <1>5, PcAtRest
  <2>2. Safe(PcAs(phase, pc', vout'), port', sent'["pc"], got'["calc"], sent'["calc"],
             got'["pc"])
    BY <1>1, <1>4, <2>1
  <2> QED
    BY <2>2 DEF Joined
<1>7. LineHeld'
  BY <1>1, <1>3 DEF LineHeld
<1>8. InPlan'
  <2> DEFINE t == Len(sent["calc"])
             h == Len(H2)
             o == plan.in
  <2>1. h <= t /\ h \in Nat /\ t \in Nat /\ o \in Nat /\ t <= o
    BY <1>4, <1>5, Typed, NoMoreRead DEF Sound, InPlan
  <2>2. phase = "between" => ~(h < o)
    BY <1>4
  <2> HIDE DEF t, h, o
  <2>3. phase = "between" => t = o /\ h = t
    BY <2>1, <2>2
  <2> QED
    BY <1>1, <1>3, <1>4, <2>3 DEF t, h, o, Sound, InPlan
<1>9. phase \in Phases' /\ sent' \in [End -> Seq(Byte)] /\ plan' \in [out : Nat, in : Nat]
  BY <1>1, <1>3 DEF Phases, Sound, TypeOK
<1> QED
  BY <1>1, <1>3, <1>4, <1>6, <1>7, <1>8, <1>9, PcStepCloses

LEMMA WaitKeeps ==
  ASSUME Sound, WaitStep \/ TimeOut
  PROVE  Sound'
<1>1. /\ UNCHANGED <<vout, plan, sent, got>> /\ Unmoved /\ port' = port
      /\ Waiting
  BY DEF WaitStep, TimeOut, Unmoved
<1>2. /\ pc.phase \in {"awaitAck", "awaitIdle", "awaitBit", "awaitRelease"}
      /\ pc \in PcState
  BY <1>1, Typed DEF Waiting, Sound
<1>3. /\ pc' \in PcState /\ pc'.bit = pc.bit /\ pc'.byte = pc.byte
      /\ pc'.phase \in {pc.phase, "failed"}
  <2>1. CASE WaitStep
    <3>1. PICK k \in StepLens : pc' = [pc EXCEPT !.steps = k, !.tries = pc.tries + 1]
      BY <2>1 DEF WaitStep
    <3>2. k \in Nat
      BY TimingAssumption
    <3>3. pc.tries + 1 \in 0 .. Patience
      <4>1. pc.tries \in 0 .. Patience /\ pc.tries < Patience
        BY <1>2, <2>1 DEF WaitStep, PcState
      <4> QED
        BY <4>1, TimingAssumption
    <3> QED
      BY <1>2, <3>1, <3>2, <3>3 DEF PcState
  <2>2. CASE TimeOut
    BY <1>2, <2>2 DEF TimeOut, PcState, Phase, LINK_ERR
  <2> QED
    BY <2>1, <2>2
<1> PICK phase : phase = pc.phase
  OBVIOUS
<1>4. Joined(phase)'
  <2>1. Joined(phase)
    BY <1>2 DEF Sound, CableSafe, Phases
  <2>2. PcAs(phase, pc', vout') = PcAs(phase, pc, vout)
    BY <1>1, <1>3 DEF PcAs
  <2> QED
    BY <1>1, <2>1, <2>2 DEF Joined
<1>5. phase \in Phases'
  BY <1>2, <1>3 DEF Phases, Phase
<1>6. LineHeld' /\ InPlan'
  BY <1>1, <1>2, <1>3 DEF Sound, LineHeld, InPlan
<1>7. /\ sent' \in [End -> Seq(Byte)] /\ got' \in [End -> Seq(Byte)]
      /\ plan' \in [out : Nat, in : Nat]
  BY <1>1 DEF Sound, TypeOK
<1> QED
  BY <1>1, <1>3, <1>4, <1>5, <1>6, <1>7, PcStepCloses

LEMMA InitSound == Init => Sound
<1> SUFFICES ASSUME Init PROVE Sound
  OBVIOUS
<1>1. /\ ZeroByte \in Byte /\ 0 \in 0 .. Width - 1 /\ 0 \in 0 .. Patience
      /\ 0 \in 0 .. Slow
  BY WidthAssumption, TimingAssumption DEF ZeroByte, Byte, Line
<1>2. pc \in PcState /\ pc.phase = "between"
  BY <1>1 DEF Init, PcState, Phase, LINK_ERR
<1>3. port \in Port
  <2>1. PowerOn \in Port
    BY <1>1, BitCounts, Zenon DEF PowerOn, Port
  <2> QED
    BY <2>1, Zenon DEF Init, Enable, Port
<1>4. /\ port.host = {} /\ ~port.sending /\ ~port.receiving /\ ~port.ready
      /\ ~port.read /\ port.bit = 0
  BY DEF Init, Enable, PowerOn
<1> DEFINE p == PcAs("between", pc, vout)
<1>5. /\ p \in Port /\ ~p.read /\ ~p.ready /\ ~p.sending /\ ~p.receiving
      /\ p.host = {} /\ p.bit = 0
  <2>1. vout = {} /\ vout \in SUBSET Line
    BY DEF Init
  <2> QED
    BY <1>2, <2>1, PcPort
<1> HIDE DEF p
<1>6. Safe(p, port, <<>>, <<>>, <<>>, <<>>)
  <2>1. Flags(p) /\ Flags(port) /\ Agree(p, port)
    BY <1>4, <1>5 DEF Flags, Agree, NoBitInHand
  <2>2. Lossless(<<>>, <<>>, p, port) /\ Lossless(<<>>, <<>>, port, p)
    BY <1>4, <1>5, WidthAssumption
    DEF Lossless, Held, Unheard, InRead, InWorking, InOut
  <2> QED
    BY <1>3, <1>5, <2>1, <2>2 DEF Safe
<1>7. CableSafe
  <2>1. /\ sent["pc"] = <<>> /\ sent["calc"] = <<>>
        /\ got["pc"] = <<>> /\ got["calc"] = <<>>
    BY DEF Init, End
  <2>2. Joined("between")
    BY <1>6, <2>1 DEF Joined, p
  <2> QED
    BY <1>2, <2>2 DEF CableSafe, Phases
<1>8. TypeOK
  <2>1. disturbed \in BOOLEAN
    BY Zenon DEF Init
  <2> QED
    BY <1>1, <1>2, <1>3, <2>1 DEF Init, TypeOK, PcState
<1>9. LineHeld /\ InPlan
  BY <1>2 DEF Init, LineHeld, InPlan, End
<1> QED
  BY <1>7, <1>8, <1>9 DEF Sound

(* One more byte of S, or none. *)
LEMMA LongerBy ==
  ASSUME NEW S \in Seq(Byte), NEW n \in Nat, n <= Len(S)
  PROVE  /\ n < Len(S) => SubSeq(S, 1, n) \o <<S[n + 1]>> = SubSeq(S, 1, n + 1)
         /\ SubSeq(S, 1, n) \o <<>> = SubSeq(S, 1, n)
OBVIOUS

(* Read, in in and in working is all that was sent but what is in out. *)
LEMMA ReceivedIsSent ==
  ASSUME TypeOK, NEW phase, Joined(phase)
  PROVE  LET p == PcAs(phase, pc, vout)
             S == sent["pc"]
         IN  /\ Received = SubSeq(S, 1, Len(S) - InOut(p, port))
             /\ Len(S) >= InOut(p, port)
<1> DEFINE p == PcAs(phase, pc, vout)
           S == sent["pc"]
           G == got["calc"]
           W == ~port.sending /\ port.bit = Width
<1>0. PICK s, g, a, b, c : /\ s = Len(S) /\ g = Len(G) /\ a = InRead(port)
                           /\ b = InWorking(port) /\ c = InOut(p, port)
  OBVIOUS
<1>1. S \in Seq(Byte) /\ G \in Seq(Byte) /\ Lossless(S, G, p, port)
  BY Typed DEF Joined, Safe
<1>2. /\ s \in Nat /\ g \in Nat /\ a \in Nat /\ b \in Nat /\ c \in Nat
      /\ a = IF port.read THEN 1 ELSE 0
      /\ b = IF W THEN 1 ELSE 0
  BY <1>0, <1>1 DEF InRead, InWorking, InOut, Held
<1>3. /\ s = g + a + b + c
      /\ \A i \in 1 .. g : G[i] = S[i]
      /\ port.read => S[g + 1] = port.in
      /\ W => S[g + a + 1] = port.working
  BY <1>0, <1>1 DEF Lossless, Held
<1> HIDE DEF p, S, G, W
<1>4. /\ g \in Nat /\ g <= s /\ g + a \in Nat /\ g + a <= s
      /\ a = 1 => g < s
      /\ b = 1 => g + a < s
      /\ g + a + b = s - c /\ s >= c
  BY <1>2, <1>3
<1>5. G = SubSeq(S, 1, g)
  BY <1>0, <1>1, <1>3, <1>4
<1> DEFINE R == G \o (IF port.read THEN <<port.in>> ELSE <<>>)
<1>6. R = SubSeq(S, 1, g + a)
  <2>1. CASE port.read
    BY <1>0, <1>1, <1>2, <1>3, <1>4, <1>5, <2>1, LongerBy
  <2>2. CASE ~port.read
    BY <1>0, <1>1, <1>2, <1>4, <1>5, <2>2, LongerBy
  <2> QED
    BY <2>1, <2>2
<1> HIDE DEF R
<1>7. R \o (IF W THEN <<port.working>> ELSE <<>>) = SubSeq(S, 1, s - c)
  <2> PICK m : m = g + a
    OBVIOUS
  <2>1. CASE W
    <3>1. /\ m \in Nat /\ m < s /\ m + 1 = s - c /\ S[m + 1] = port.working
          /\ R = SubSeq(S, 1, m)
      BY <1>2, <1>3, <1>4, <1>6, <2>1
    <3>2. SubSeq(S, 1, m) \o <<S[m + 1]>> = SubSeq(S, 1, m + 1)
      BY <1>0, <1>1, <3>1, LongerBy
    <3> QED
      BY <2>1, <3>1, <3>2
  <2>2. CASE ~W
    <3>1. m \in Nat /\ m <= s /\ m = s - c /\ R = SubSeq(S, 1, m)
      BY <1>2, <1>4, <1>6, <2>2
    <3> QED
      BY <1>0, <1>1, <2>2, <3>1, LongerBy
  <2> QED
    BY <2>1, <2>2
<1>8. Received = R \o (IF W THEN <<port.working>> ELSE <<>>)
  BY DEF Received, R, G, W
<1> QED
  BY <1>0, <1>4, <1>7, <1>8 DEF p, S

LEMMA PcStepKeeps ==
  ASSUME Sound, PCStep, ~NextFile
  PROVE  Sound'
BY SendPacketKeeps, FirstByteKeeps, AcknowledgedKeeps, NextBitKeeps,
   NextByteKeeps, PacketSentKeeps, BitHeardKeeps, BitTakenKeeps, ByteTakenKeeps,
   WaitKeeps
DEF PCStep

(* A file after a failure that has left nothing under way finds the cable  *)
(* as the first file did.                                                  *)
LEMMA NextFileKeeps ==
  ASSUME Sound, NextFile, NothingUnderWay
  PROVE  Sound'
<1> TypeOK
  BY DEF Sound
<1> DEFINE S == sent["pc"]
           G == got["calc"]
           T == sent["calc"]
           H == got["pc"]
           r == PcAs("between", pc', {})
<1>1. /\ pc' = [pc EXCEPT !.phase = "between", !.bit = 0, !.tries = 0,
                          !.err = "LERR_SUCCESS"]
      /\ vout' = {} /\ plan' = [out |-> Len(S), in |-> Len(H)]
      /\ port' = port /\ skip' = skip /\ idled' = idled /\ sent' = sent /\ got' = got
      /\ disturbed' = (disturbed \/ ~NothingUnderWay)
  BY DEF NextFile
<1>2. pc' \in PcState /\ pc'.phase = "between"
  <2>1. pc \in PcState /\ 0 \in 0 .. Width - 1 /\ 0 \in 0 .. Patience
    BY Typed, WidthAssumption, TimingAssumption
  <2> QED
    BY <1>1, <2>1 DEF PcState, Phase, LINK_ERR
<1>3. /\ r \in Port /\ ~r.read /\ ~r.ready /\ ~r.sending /\ ~r.receiving
      /\ r.host = {} /\ r.bit = 0
  BY <1>2, PcPort
<1>4. /\ Len(H) = Len(T) /\ port.host = {} /\ Len(Received) = Len(S)
      /\ port.sending \/ port.receiving => port.bit = Width
  BY DEF NothingUnderWay
<1>5. /\ S \in Seq(Byte) /\ G \in Seq(Byte) /\ T \in Seq(Byte) /\ H \in Seq(Byte)
      /\ Len(S) \in Nat /\ Len(H) \in Nat /\ Len(T) \in Nat /\ port \in Port
  BY Typed
<1>6. PICK phase \in Phases : Joined(phase)
  BY DEF Sound, CableSafe
<1> DEFINE p == PcAs(phase, pc, vout)
<1>7. /\ Safe(p, port, S, G, T, H)
      /\ Received = SubSeq(S, 1, Len(S) - InOut(p, port))
  BY <1>6, ReceivedIsSent DEF Joined
<1> HIDE DEF p, r
<1>8. Lossless(S, G, r, port)
  <2>1. InOut(p, port) = 0
    <3>1. CASE InOut(p, port) = 1
      <4>1. Len(S) - 1 <= Len(S) /\ (Len(S) > 0 => Len(SubSeq(S, 1, Len(S) - 1)) = Len(S) - 1)
        BY <1>5
      <4>2. Len(S) > 0
        BY <1>5, <1>6, <3>1, ReceivedIsSent DEF p
      <4> QED
        BY <1>4, <1>5, <1>7, <3>1, <4>1, <4>2
    <3> QED
      BY <3>1 DEF InOut
  <2>2. ~Unheard(r, port) /\ InOut(r, port) = 0
    BY <1>3 DEF Unheard, InOut
  <2>3. Lossless(S, G, p, port)
    BY <1>7 DEF Safe
  <2> QED
    BY <2>1, <2>2, <2>3 DEF Lossless
<1>9. Lossless(T, H, port, r)
  <2>1. ~Unheard(port, r) /\ InOut(port, r) = 0
    BY <1>4, <1>5, WidthAssumption DEF Unheard, InOut, Port
  <2>2. ~Held(r) /\ InWorking(r) = 0 /\ InRead(r) = 0
    BY <1>3, WidthAssumption DEF Held, InWorking, InRead
  <2>3. \A i \in 1 .. Len(H) : H[i] = T[i]
    BY <1>7 DEF Safe, Lossless
  <2> QED
    BY <1>3, <1>4, <1>5, <2>1, <2>2, <2>3 DEF Lossless
<1>10. Flags(port) /\ Flags(r)
  BY <1>3, <1>7 DEF Safe, Flags
<1>11. Agree(r, port)
  <2>1. CASE port.sending
    BY <1>3, <1>4, <2>1 DEF Agree, Transfer, Through
  <2>2. CASE ~port.sending
    BY <1>3, <1>4, <2>2 DEF Agree, NoBitInHand
  <2> QED
    BY <2>1, <2>2
<1>12. Safe(r, port, S, G, T, H)
  BY <1>3, <1>5, <1>8, <1>9, <1>10, <1>11 DEF Safe
<1>13. CableSafe'
  BY <1>1, <1>2, <1>12 DEF CableSafe, Phases, Joined, r
<1>14. LineHeld' /\ InPlan'
  BY <1>1, <1>2, <1>4, <1>5 DEF LineHeld, InPlan
<1>15. TypeOK'
  BY <1>1, <1>2, <1>5 DEF TypeOK, PcState
<1> QED
  BY <1>13, <1>14, <1>15 DEF Sound

LEMMA SoundStutters ==
  ASSUME Sound, UNCHANGED vars
  PROVE  Sound'
<1> USE DEF vars
<1>1. TypeOK' /\ LineHeld' /\ InPlan'
  BY DEF Sound, TypeOK, LineHeld, InPlan
<1>2. CableSafe'
  BY DEF Sound, CableSafe, Phases, Joined
<1> QED
  BY <1>1, <1>2 DEF Sound

(* What is disturbed stays disturbed. *)
LEMMA DisturbedForGood ==
  ASSUME TypeOK, Next
  PROVE  disturbed' \in BOOLEAN /\ (disturbed => disturbed')
BY DEF TypeOK, Next, CpuStep, PCStep, Compute, ReadBack, ReadByte, WriteByte, StrayByte,
       SwitchOff, SwitchOn, SendPacket, FirstByte, Acknowledged, NextBit, NextByte,
       PacketSent, BitHeard, BitTaken, ByteTaken, WaitStep, TimeOut, NextFile, Unmoved

-----------------------------------------------------------------------------
(***************************************************************************)
(* The types alone, which hold on a disturbed link as well.                *)
(***************************************************************************)
LEMMA StepFits ==
  ASSUME TypeOK, NEW q \in Port, Fits(q), Step(q)
  PROVE  port' \in Port /\ Fits(port)'
<1>1. q.host \cup vout \in SUBSET Line
  BY Typed DEF Port
<1>2. CASE q.enabled /\ skip = 0
  BY <1>1, <1>2, TickFits DEF Step
<1>3. CASE ~(q.enabled /\ skip = 0)
  BY <1>3 DEF Step
<1> QED
  BY <1>2, <1>3

LEMMA CpuStepTypes ==
  ASSUME TypeOK, Fits(port), CpuStep
  PROVE  TypeOK' /\ Fits(port)'
<1>1. /\ port \in Port /\ "calc" \in End
      /\ sent \in [End -> Seq(Byte)] /\ got \in [End -> Seq(Byte)] /\ port.in \in Byte
      /\ sent["calc"] \in Seq(Byte) /\ got["calc"] \in Seq(Byte)
  BY Typed DEF Port, End
<1>2. PICK q : Step(q) /\ q \in Port /\ Fits(q)
  <2>1. \A q : Fits(q) /\ q \in Port /\ Step(q) => \E c : Step(c) /\ c \in Port /\ Fits(c)
    OBVIOUS
  <2>2. CASE Compute \/ ReadBack \/ ReadByte
    BY <1>1, <2>1, <2>2, AccessFits DEF Compute, ReadBack, ReadByte
  <2>3. CASE WriteByte \/ StrayByte
    <3>1. PICK x \in Byte : Step(PutByte(port, x))
      BY <2>3 DEF WriteByte, StrayByte
    <3> QED
      BY <1>1, <2>1, <3>1, AccessFits
  <2>4. CASE SwitchOff \/ SwitchOn
    BY <1>1, <2>1, <2>4, AccessFits DEF SwitchOff, SwitchOn
  <2> QED
    BY <2>2, <2>3, <2>4 DEF CpuStep
<1>3. port' \in Port /\ Fits(port)'
  BY <1>2, StepFits
<1>4. /\ vout' = vout /\ plan' = plan /\ pc' \in PcState
      /\ skip' \in 0 .. SkipFactor - 1
  BY <1>2, StepKeepsPc
<1>5. idled' \in 0 .. Slow
  BY TimingAssumption
  DEF TypeOK, CpuStep, Compute, ReadBack, ReadByte, WriteByte, StrayByte, SwitchOff,
      SwitchOn, Idling
<1>6. sent' \in [End -> Seq(Byte)] /\ got' \in [End -> Seq(Byte)]
  <2>1. CASE ReadByte
    <3>1. Append(got["calc"], port.in) \in Seq(Byte)
      BY <1>1
    <3> QED
      BY <1>1, <2>1, <3>1 DEF ReadByte
  <2>2. CASE WriteByte \/ StrayByte
    <3>1. PICK x \in Byte : sent' = [sent EXCEPT !["calc"] = Append(@, x)]
      BY <2>2 DEF WriteByte, StrayByte
    <3>2. Append(sent["calc"], x) \in Seq(Byte)
      BY <1>1
    <3> QED
      BY <1>1, <2>2, <3>1, <3>2 DEF WriteByte, StrayByte
  <2>3. CASE Compute \/ ReadBack \/ SwitchOff \/ SwitchOn
    BY <1>1, <2>3 DEF Compute, ReadBack, SwitchOff, SwitchOn
  <2> QED
    BY <2>1, <2>2, <2>3 DEF CpuStep
<1>7. disturbed' \in BOOLEAN
  BY DisturbedForGood DEF Next
<1> QED
  BY <1>3, <1>4, <1>5, <1>6, <1>7 DEF TypeOK, PcState

LEMMA SendByteTypes ==
  ASSUME TypeOK, SendByte
  PROVE  /\ pc' \in PcState /\ vout' \in SUBSET Line
         /\ sent' \in [End -> Seq(Byte)]
<1>1. PICK x \in Byte :
        /\ pc' = [pc EXCEPT !.phase = "awaitAck", !.bit = 0, !.byte = x, !.tries = 0]
        /\ vout' = {x[0]}
        /\ sent' = [sent EXCEPT !["pc"] = Append(@, x)]
  BY DEF SendByte
<1>2. pc' \in PcState
  <2>1. pc \in PcState /\ 0 \in 0 .. Width - 1 /\ 0 \in 0 .. Patience
    BY Typed, WidthAssumption, TimingAssumption
  <2> QED
    BY <1>1, <2>1 DEF PcState, Phase
<1>3. x[0] \in Line
  BY WidthAssumption DEF Byte
<1>4. sent' \in [End -> Seq(Byte)]
  <2>1. Append(sent["pc"], x) \in Seq(Byte)
    BY Typed
  <2> QED
    BY <1>1, <2>1, Typed
<1> QED
  BY <1>1, <1>2, <1>3, <1>4

LEMMA PcStepTypes ==
  ASSUME TypeOK, PCStep
  PROVE  /\ pc' \in PcState /\ vout' \in SUBSET Line /\ plan' \in [out : Nat, in : Nat]
         /\ sent' \in [End -> Seq(Byte)] /\ got' \in [End -> Seq(Byte)]
<1>1. /\ pc \in PcState /\ vout \in SUBSET Line /\ plan \in [out : Nat, in : Nat]
      /\ sent \in [End -> Seq(Byte)] /\ got \in [End -> Seq(Byte)]
      /\ pc.byte \in Byte /\ pc.bit \in 0 .. Width - 1 /\ pc.tries \in 0 .. Patience
      /\ plan.out \in Nat /\ plan.in \in Nat /\ got["pc"] \in Seq(Byte)
  BY Typed DEF TypeOK, PcState
<1>2. Width \in Nat \ {0} /\ Patience \in Nat /\ 0 \in 0 .. Width - 1 /\ 0 \in 0 .. Patience
  BY WidthAssumption, TimingAssumption
<1>3. CASE SendPacket
  <2>1. PICK n \in 1 .. MaxPacket, m \in 0 .. MaxPacket, k \in DelayLens :
          /\ plan' = [out |-> plan.out + n, in |-> plan.in + m]
          /\ pc' = [pc EXCEPT !.phase = "delay", !.steps = k]
    BY <1>3 DEF SendPacket
  <2>2. k \in Nat /\ n \in Nat /\ m \in Nat
    BY TimingAssumption, BoundsAssumption
  <2>3. plan' \in [out : Nat, in : Nat]
    BY <1>1, <2>1, <2>2
  <2> QED
    BY <1>1, <1>3, <2>1, <2>2, <2>3 DEF SendPacket, PcState, Phase
<1>4. CASE FirstByte \/ NextByte
  BY <1>1, <1>4, SendByteTypes DEF FirstByte, NextByte
<1>5. CASE Acknowledged \/ PacketSent
  BY <1>1, <1>2, <1>5 DEF Acknowledged, PacketSent, PcState, Phase
<1>6. CASE NextBit
  <2>1. pc.bit + 1 \in 0 .. Width - 1
    BY <1>1, <1>2, <1>6 DEF NextBit
  <2>2. pc.byte[pc.bit + 1] \in Line
    BY <1>1, <2>1 DEF Byte
  <2> QED
    BY <1>1, <1>2, <1>6, <2>1, <2>2 DEF NextBit, PcState, Phase
<1>7. CASE BitHeard
  <2>1. CASE low = Line
    BY <1>1, <1>7, <2>1 DEF BitHeard, PcState, Phase, LINK_ERR
  <2>2. CASE low # Line
    <3> DEFINE b == CHOOSE l \in Line : low = {l}
    <3>1. /\ pc' = [pc EXCEPT !.phase = "awaitRelease", !.byte = ShiftIn(@, b), !.tries = 0]
          /\ vout' = {1 - b} /\ plan' = plan /\ sent' = sent /\ got' = got /\ low # {}
      BY <1>7, <2>2 DEF BitHeard
    <3>2. b \in Line
      <4>1. low \in SUBSET Line
        BY <1>1, Typed DEF low, Port
      <4>2. \E l \in Line : low = {l}
        BY <2>2, <3>1, <4>1 DEF Line
      <4> QED
        BY <4>2
    <3> HIDE DEF b
    <3>3. ShiftIn(pc.byte, b) \in Byte /\ 1 - b \in Line
      BY <1>1, <3>2, BitCounts, ShiftInType DEF Line
    <3> QED
      BY <1>1, <1>2, <3>1, <3>3 DEF PcState, Phase
  <2> QED
    BY <2>1, <2>2
<1>8. CASE BitTaken
  <2>1. pc.bit + 1 \in 0 .. Width - 1
    BY <1>1, <1>2, <1>8 DEF BitTaken
  <2> QED
    BY <1>1, <1>2, <1>8, <2>1 DEF BitTaken, PcState, Phase
<1>9. CASE ByteTaken
  <2>1. Append(got["pc"], pc.byte) \in Seq(Byte)
    BY <1>1
  <2> QED
    BY <1>1, <1>2, <1>9, <2>1 DEF ByteTaken, PcState, Phase
<1>10. CASE WaitStep
  <2>1. PICK k \in StepLens : pc' = [pc EXCEPT !.steps = k, !.tries = pc.tries + 1]
    BY <1>10 DEF WaitStep
  <2>2. k \in Nat /\ pc.tries + 1 \in 0 .. Patience
    BY <1>1, <1>2, <1>10, TimingAssumption DEF WaitStep
  <2> QED
    BY <1>1, <1>10, <2>1, <2>2 DEF WaitStep, PcState
<1>11. CASE TimeOut
  BY <1>1, <1>11 DEF TimeOut, PcState, Phase, LINK_ERR
<1>12. CASE NextFile
  <2>1. Len(sent["pc"]) \in Nat /\ Len(got["pc"]) \in Nat
    BY Typed
  <2> QED
    BY <1>1, <1>2, <1>12, <2>1 DEF NextFile, PcState, Phase, LINK_ERR
<1> QED
  BY <1>3, <1>4, <1>5, <1>6, <1>7, <1>8, <1>9, <1>10, <1>11, <1>12 DEF PCStep

LEMMA NextTypes ==
  ASSUME TypeOK, Fits(port), Next
  PROVE  TypeOK' /\ Fits(port)'
<1>1. CASE CpuStep
  BY <1>1, CpuStepTypes
<1>2. CASE PCStep
  <2>1. port' = port /\ skip' = skip /\ idled' = idled
    BY <1>2 DEF PCStep, SendPacket, FirstByte, Acknowledged, NextBit, NextByte,
         PacketSent, BitHeard, BitTaken, ByteTaken, WaitStep, TimeOut, NextFile, Unmoved
  <2>2. disturbed' \in BOOLEAN
    BY <1>2, DisturbedForGood DEF Next
  <2> QED
    BY <1>2, <2>1, <2>2, PcStepTypes DEF TypeOK, PcState
<1> QED
  BY <1>1, <1>2 DEF Next

-----------------------------------------------------------------------------
LEMMA InitSafe == Init => IInv
<1> SUFFICES ASSUME Init PROVE IInv
  OBVIOUS
<1>1. Sound /\ TypeOK
  BY InitSound DEF Sound
<1>2. Fits(port)
  BY DEF Init, Enable, PowerOn, Fits
<1> QED
  BY <1>1, <1>2 DEF IInv

LEMMA NextSafe == IInv /\ [Next]_vars => IInv'
<1> SUFFICES ASSUME IInv, [Next]_vars PROVE IInv'
  OBVIOUS
<1>1. CASE Next
  <2>1. TypeOK' /\ Fits(port)'
    BY <1>1, NextTypes DEF IInv
  <2>2. ASSUME ~disturbed' PROVE Sound'
    <3>1. Sound
      BY <1>1, <2>2, DisturbedForGood DEF IInv
    <3>2. CASE CpuStep
      <4>1. InTurn
        BY <2>2, <3>2 DEF InTurn, StrayByte, SwitchOff
      <4> QED
        BY <3>1, <4>1, CpuStepKeeps
    <3>3. CASE NextFile
      <4>1. NothingUnderWay
        BY <2>2, <3>3 DEF NextFile
      <4> QED
        BY <3>1, <3>3, <4>1, NextFileKeeps
    <3>4. CASE PCStep /\ ~NextFile
      BY <3>1, <3>4, PcStepKeeps
    <3> QED
      BY <1>1, <3>2, <3>3, <3>4 DEF Next
  <2> QED
    BY <2>1, <2>2 DEF IInv
<1>2. CASE UNCHANGED vars
  <2>1. TypeOK' /\ Fits(port)' /\ disturbed' = disturbed
    BY <1>2 DEF vars, IInv, TypeOK
  <2>2. Sound => Sound'
    BY <1>2, SoundStutters
  <2> QED
    BY <2>1, <2>2 DEF IInv
<1> QED
  BY <1>1, <1>2

-----------------------------------------------------------------------------
(* The PC's locals and the calculator's registers keep their types         *)
(* whatever the program does and whatever a failed file has left behind:   *)
(* no loop counts past LINK_TIMEOUT, and the bit counter stays in a byte.  *)
THEOREM LinkTypeCorrect == Spec => []TypeOK
<1>1. IInv => TypeOK
  BY DEF IInv
<1> QED
  BY InitSafe, NextSafe, <1>1, PTL DEF Spec

(* Until the link is disturbed, and however late the program reads or its  *)
(* polls come: what link_send_pkt has sent the calculator has, and a       *)
(* timeout leaves at most the last byte in doubt.  Disturbed is the link   *)
(* by a program that writes out of turn or switches its assist off in the  *)
(* middle of something, and by a file begun while a byte of the failed one *)
(* before it is under way.                                                 *)
THEOREM SentBytesAreReceived == Spec => []SentMeansReceived
<1>1. ASSUME Sound PROVE SentMeansReceived
  <2> DEFINE S == sent["pc"]
  <2> TypeOK
    BY <1>1 DEF Sound
  <2>1. S \in Seq(Byte) /\ Len(S) \in Nat
    BY Typed
  <2>2. SubSeq(S, 1, Len(S)) = S
    BY <2>1
  <2>3. ASSUME pc.phase \in {"between", "delay"}
        PROVE  Received = S
    <3> DEFINE p == PcAs(pc.phase, pc, vout)
    <3>1. Joined(pc.phase) /\ ~p.sending
      BY <1>1, <2>3, PcBefore DEF Sound, CableSafe, Phases
    <3>2. InOut(p, port) = 0
      BY <3>1 DEF InOut, Unheard
    <3>3. Received = SubSeq(S, 1, Len(S) - InOut(p, port))
      BY <3>1, ReceivedIsSent
    <3>4. Len(S) - InOut(p, port) = Len(S)
      BY <2>1, <3>2
    <3> QED
      BY <2>2, <3>3, <3>4
  <2>4. \/ Received = S
        \/ S # <<>> /\ Received = SubSeq(S, 1, Len(S) - 1)
    <3>1. PICK phase \in Phases : Joined(phase)
      BY <1>1 DEF Sound, CableSafe
    <3> DEFINE p == PcAs(phase, pc, vout)
    <3>2. /\ Received = SubSeq(S, 1, Len(S) - InOut(p, port))
          /\ Len(S) >= InOut(p, port)
      BY <3>1, ReceivedIsSent
    <3>3. InOut(p, port) \in {0, 1}
      BY DEF InOut
    <3> HIDE DEF p
    <3>4. CASE InOut(p, port) = 0
      <4>1. Len(S) - InOut(p, port) = Len(S)
        BY <2>1, <3>4
      <4> QED
        BY <2>2, <3>2, <4>1
    <3>5. CASE InOut(p, port) = 1
      <4>1. S # <<>>
        BY <3>2, <3>5
      <4> QED
        BY <3>2, <3>5, <4>1
    <3> QED
      BY <3>3, <3>4, <3>5
  <2> QED
    BY <2>3, <2>4 DEF SentMeansReceived
<1>2. IInv => SentMeansReceived
  BY <1>1 DEF IInv, SentMeansReceived
<1> QED
  BY InitSafe, NextSafe, <1>2, PTL DEF Spec

-----------------------------------------------------------------------------
(* A write at either end finds room on the channel. *)
LEMMA RoomToSend ==
  ASSUME NEW p, NEW q, NEW S \in Seq(Byte), NEW G \in Seq(Byte), NEW T, NEW H,
         Safe(p, q, S, G, T, H), ~Unheard(p, q)
  PROVE  Len(S) - Len(G) < 3
<1>1. Len(S) = Len(G) + InRead(q) + InWorking(q) + InOut(p, q)
  BY DEF Safe, Lossless
<1>2. InRead(q) \in {0, 1} /\ InWorking(q) \in {0, 1} /\ InOut(p, q) = 0
  BY DEF InRead, InWorking, InOut
<1> QED
  BY <1>1, <1>2

LEMMA PcSends ==
  ASSUME Sound, FirstByte \/ NextByte
  PROVE  Channel!Send("pc")
<1>1. /\ pc.phase = "delay" \/ (pc.phase = "awaitIdle" /\ pc.bit = Width - 1)
      /\ SendByte /\ got' = got
  <2>1. CASE FirstByte
    BY <2>1 DEF FirstByte, At
  <2>2. CASE NextByte
    BY <2>2 DEF NextByte, At
  <2> QED
    BY <2>1, <2>2
<1> DEFINE p == PcAs(pc.phase, pc, vout)
<1>2. /\ Safe(p, port, sent["pc"], got["calc"], sent["calc"], got["pc"])
      /\ ~p.sending \/ p.bit = Width
      /\ Width \in Nat
  BY <1>1, PcBefore
<1> HIDE DEF p
<1>3. ~Unheard(p, port)
  BY <1>2 DEF Unheard
<1>4. Len(sent["pc"]) - Len(got["calc"]) < 3
  BY <1>2, <1>3, Typed, RoomToSend DEF Sound
<1>5. \E x \in Byte : sent' = [sent EXCEPT !["pc"] = Append(@, x)]
  BY <1>1 DEF SendByte
<1>6. Peer["pc"] = "calc"
  BY DEF Peer, End
<1>7. disturbed' = disturbed
  BY DEF FirstByte, NextByte, Unmoved
<1> QED
  BY <1>1, <1>4, <1>5, <1>6, <1>7 DEF Channel!Send, Channel!UnderWay

LEMMA ProgramSends ==
  ASSUME Sound, WriteByte
  PROVE  Channel!Send("calc")
<1>1. PICK phase \in Phases : Joined(phase)
  BY DEF Sound, CableSafe
<1> DEFINE p == PcAs(phase, pc, vout)
<1>2. Safe(port, p, sent["calc"], got["pc"], sent["pc"], got["calc"])
  BY <1>1, SafeSymmetric DEF Joined
<1> HIDE DEF p
<1>3. ~Unheard(port, p)
  BY <1>2 DEF WriteByte, Safe, Flags, Unheard
<1>4. Len(sent["calc"]) - Len(got["pc"]) < 3
  BY <1>2, <1>3, Typed, RoomToSend DEF Sound
<1>5. (\E x \in Byte : sent' = [sent EXCEPT !["calc"] = Append(@, x)]) /\ got' = got
  BY DEF WriteByte
<1>6. Peer["calc"] = "pc"
  BY DEF Peer, End
<1>7. disturbed' = disturbed
  BY DEF WriteByte
<1> QED
  BY <1>4, <1>5, <1>6, <1>7 DEF Channel!Send, Channel!UnderWay

LEMMA ProgramReceives ==
  ASSUME Sound, ReadByte
  PROVE  Channel!Receive("calc")
<1>1. PICK phase \in Phases : Joined(phase)
  BY DEF Sound, CableSafe
<1> DEFINE p == PcAs(phase, pc, vout)
<1>2. Safe(port, p, sent["calc"], got["pc"], sent["pc"], got["calc"])
  BY <1>1, SafeSymmetric DEF Joined
<1> HIDE DEF p
<1>3. /\ port.read /\ sent' = sent
      /\ got' = [got EXCEPT !["calc"] = Append(@, port.in)]
  BY DEF ReadByte
<1>4. /\ port.in = sent["pc"][Len(got["calc"]) + 1]
      /\ Len(got["calc"]) + 1 <= Len(sent["pc"])
  BY <1>2, <1>3, Typed, ByteToRead DEF Sound
<1>5. Peer["calc"] = "pc" /\ Peer["pc"] = "calc"
  BY DEF Peer, End
<1>6. Len(sent["pc"]) - Len(got["calc"]) > 0
  <2>1. PICK m, n : m = Len(sent["pc"]) /\ n = Len(got["calc"])
    OBVIOUS
  <2>2. m \in Nat /\ n \in Nat /\ n + 1 <= m
    BY <1>4, <2>1, Typed DEF Sound
  <2>3. m - n > 0
    BY <2>2
  <2> QED
    BY <2>1, <2>3
<1>7. disturbed' = disturbed
  BY DEF ReadByte
<1> QED
  BY <1>3, <1>4, <1>5, <1>6, <1>7 DEF Channel!Receive, Channel!UnderWay

LEMMA PcReceives ==
  ASSUME Sound, ByteTaken
  PROVE  Channel!Receive("pc")
<1>1. /\ sent' = sent
      /\ got' = [got EXCEPT !["pc"] = Append(@, pc.byte)]
  BY DEF ByteTaken
<1>2. /\ pc.byte = sent["calc"][Len(got["pc"]) + 1]
      /\ Len(got["pc"]) + 1 <= Len(sent["calc"])
  BY ByteRead
<1>3. Peer["calc"] = "pc" /\ Peer["pc"] = "calc"
  BY DEF Peer, End
<1>4. Len(sent["calc"]) - Len(got["pc"]) > 0
  <2>1. PICK m, n : m = Len(sent["calc"]) /\ n = Len(got["pc"])
    OBVIOUS
  <2>2. m \in Nat /\ n \in Nat /\ n + 1 <= m
    BY <1>2, <2>1, Typed DEF Sound
  <2>3. m - n > 0
    BY <2>2
  <2> QED
    BY <2>1, <2>3
<1>5. disturbed' = disturbed
  BY DEF ByteTaken, Unmoved
<1> QED
  BY <1>1, <1>2, <1>3, <1>4, <1>5 DEF Channel!Receive, Channel!UnderWay

LEMMA StepRefines ==
  IInv /\ [Next]_vars =>
    [Channel!Next]_<<sent, got, [e \in End |-> disturbed]>>
<1> DEFINE D == [e \in End |-> disturbed]
<1> SUFFICES ASSUME IInv, Next
             PROVE  Channel!Next \/ UNCHANGED <<sent, got, D>>
  BY DEF vars
<1>1. "pc" \in End /\ "calc" \in End
  BY DEF End
<1>2. CASE disturbed'
  <2>1. D'["pc"]
    BY <1>1, <1>2, Zenon
  <2>2. End \ {"pc", Peer["pc"]} = {}
    BY <1>1 DEF End, Peer
  <2>3. Channel!Disturb("pc")
    BY <2>1, <2>2, Zenon DEF Channel!Disturb
  <2> QED
    BY <1>1, <2>3 DEF Channel!Next
<1>3. CASE ~disturbed'
  <2>0. TypeOK /\ disturbed \in BOOLEAN /\ disturbed' \in BOOLEAN
    BY DisturbedForGood DEF IInv, TypeOK
  <2>1. disturbed' = disturbed /\ ~disturbed /\ Sound /\ D' = D
    <3>1. ~disturbed
      BY <1>3, <2>0, DisturbedForGood
    <3>2. disturbed' = disturbed
      BY <1>3, <2>0, <3>1
    <3> QED
      BY <3>1, <3>2 DEF IInv
  <2>2. CASE FirstByte \/ NextByte \/ WriteByte
    BY <1>1, <2>1, <2>2, PcSends, ProgramSends DEF Channel!Next
  <2>3. CASE ReadByte \/ ByteTaken
    BY <1>1, <2>1, <2>3, PcReceives, ProgramReceives DEF Channel!Next
  <2>4. CASE \/ Compute \/ ReadBack \/ SwitchOff \/ SwitchOn
             \/ SendPacket \/ Acknowledged \/ NextBit \/ PacketSent
             \/ BitHeard \/ BitTaken \/ WaitStep \/ TimeOut \/ NextFile
    BY <2>1, <2>4 DEF Compute, ReadBack, SwitchOff, SwitchOn, SendPacket, Acknowledged,
                NextBit, PacketSent, BitHeard, BitTaken, WaitStep, TimeOut, NextFile
  <2>5. ~StrayByte
    BY <1>3 DEF StrayByte
  <2> QED
    BY <2>2, <2>3, <2>4, <2>5 DEF Next, CpuStep, PCStep
<1> QED
  BY <1>2, <1>3, DisturbedForGood DEF IInv

(* Until the link is disturbed, link_send and link_recv against a link     *)
(* assist are the two directions of a lossless channel, for every byte     *)
(* width and every timing of the polls.                                    *)
THEOREM VirtualLinkRefinesChannel == Spec => ImplementsChannel
<1>1. Init => Channel!Init
  BY DEF Init, Channel!Init
<1> QED
  BY InitSafe, NextSafe, StepRefines, <1>1, PTL
  DEF Spec, ImplementsChannel, Channel!Spec, Channel!vars

-----------------------------------------------------------------------------
(***************************************************************************)
(* An attentive program and the PC's patience: how long each loop can have *)
(* to wait, in instructions.  Every instruction brings what the loop waits *)
(* for nearer, and every link_wait of a loop is at least one instruction.  *)
(***************************************************************************)
Loops == {"awaitAck", "awaitIdle", "awaitBit", "awaitRelease"}

(* Instructions up to the next poll of port 09 and its own among them. *)
ToPoll == IF skip = 0 THEN 1 ELSE SkipFactor - skip + 1

(* What is left to the program before it has to serve the port. *)
Leisure == Slow - idled

(* A program that reads back its port every time it could write a byte     *)
(* waits each time for the poll that makes the port ready again.           *)
Waste(u) == u * SkipFactor

Writing == Waste(Slow) + 1 + SkipFactor

(* An upper bound of the instructions until what the PC waits for in phase *)
(* has arrived, when the calculator's port is q, the poll is t             *)
(* instructions away and the program may idle for u.                       *)
Rank(phase, q, t, u) ==
  IF phase = "awaitAck"
    THEN IF q.bit < Width THEN t
         ELSE IF q.read THEN u + 1 + 2 * SkipFactor
         ELSE t + SkipFactor
  ELSE IF phase = "awaitBit"
    THEN IF q.sending THEN IF q.bit < Width THEN t ELSE t + Writing
         ELSE IF q.bit = Width
           THEN IF q.read THEN u + 1 + SkipFactor + Slow + 1 + SkipFactor + Writing
                ELSE t + Slow + 1 + SkipFactor + Writing
         ELSE IF q.read THEN u + 1 + SkipFactor + Writing
         ELSE (IF q.ready THEN 0 ELSE t) + Waste(u) + 1 + SkipFactor
  ELSE t

Remaining == Rank(pc.phase, port, ToPoll, Leisure)

LongestWait == 2 * (Slow + 1) + 2 * SkipFactor + Writing

(* The PC looks once more before Patience is over.  What it does not look  *)
(* for in time is the idle cable before the program's answer: that lasts   *)
(* for more than one round of the skip count.                              *)
InTime ==
  /\ pc.steps <= SkipFactor
  /\ Arrived \/ pc.tries + Remaining <= Patience + pc.steps
  /\ port.sending => Len(got["calc"]) = plan.out

Served ==
  /\ port.enabled /\ pc.phase # "failed"
  /\ pc.phase = "delay" /\ port.sending => ToPoll <= pc.steps
  /\ pc.phase \in Loops => InTime
  /\ pc.phase = "awaitAck" => ~port.sending
  /\ pc.phase = "awaitIdle" /\ (port.sending \/ port.ready) =>
       port.host = {} /\ pc.steps < ToPoll
  /\ pc.phase \in {"awaitBit", "awaitRelease"} =>
       Len(sent["pc"]) = plan.out /\ Len(got["pc"]) < plan.in

-----------------------------------------------------------------------------
LEMMA WasteGrows ==
  /\ \A u \in Nat : Waste(u) \in Nat /\ Waste(u + 1) = Waste(u) + SkipFactor
  /\ \A u \in 0 .. Slow : Waste(u) <= Waste(Slow)
<1>1. SkipFactor \in Nat \ {0} /\ Slow \in Nat
  BY TimingAssumption
<1>2. \A u \in Nat : Waste(u) \in Nat /\ Waste(u + 1) = Waste(u) + SkipFactor
  <2> SUFFICES ASSUME NEW u \in Nat
               PROVE  Waste(u) \in Nat /\ Waste(u + 1) = Waste(u) + SkipFactor
    OBVIOUS
  <2> QED
    BY <1>1 DEF Waste
<1>3. ASSUME NEW u \in 0 .. Slow PROVE Waste(u) <= Waste(Slow)
  <2>1. CASE u = Slow
    BY <1>1, <1>2, <2>1
  <2>2. CASE u < Slow
    <3>1. SkipFactor * u + SkipFactor <= SkipFactor * Slow
      BY <1>1, <2>2, ProductOrder
    <3>2. Waste(u) = SkipFactor * u /\ Waste(Slow) = SkipFactor * Slow
      BY <1>1 DEF Waste
    <3>3. Waste(u) \in Nat /\ Waste(Slow) \in Nat
      BY <1>1, <1>2
    <3> QED
      BY <1>1, <3>1, <3>2, <3>3
  <2> QED
    BY <1>1, <2>1, <2>2
<1> QED
  BY <1>2, <1>3

LEMMA RankBound ==
  ASSUME NEW phase, NEW q \in Port, NEW t \in 1 .. SkipFactor, NEW u \in 0 .. Slow
  PROVE  Rank(phase, q, t, u) \in 1 .. LongestWait
<1>1. /\ SkipFactor \in Nat \ {0} /\ Slow \in Nat /\ u \in Nat
      /\ Waste(u) \in Nat /\ Waste(Slow) \in Nat /\ Waste(u) <= Waste(Slow)
  BY TimingAssumption, WasteGrows
<1> QED
  BY <1>1 DEF Rank, LongestWait, Writing

LEMMA Clock ==
  ASSUME TypeOK
  PROVE  /\ ToPoll \in 1 .. SkipFactor /\ Leisure \in 0 .. Slow
         /\ SkipFactor \in Nat \ {0} /\ Slow \in Nat
  BY TimingAssumption DEF TypeOK, ToPoll, Leisure

(* One instruction. *)
LEMMA StepTimes ==
  ASSUME TypeOK, NEW q, Step(q), q.enabled
  PROVE  /\ ToPoll' = IF ToPoll = 1 THEN SkipFactor ELSE ToPoll - 1
         /\ port' = IF ToPoll = 1 THEN Tick(q, q.host \cup vout) ELSE q
         /\ pc.steps > 0 => pc'.steps = pc.steps - 1
         /\ pc.steps \in Nat
         /\ pc.phase \in Loops \cup {"delay"} => pc.steps > 0
         /\ vout' = vout /\ plan' = plan
         /\ pc'.phase = pc.phase /\ pc'.bit = pc.bit /\ pc'.byte = pc.byte
         /\ pc'.tries = pc.tries
<1>1. /\ SkipFactor \in Nat \ {0} /\ skip \in 0 .. SkipFactor - 1
  BY TimingAssumption DEF TypeOK
<1>2. skip' = (skip + 1) % SkipFactor
  BY DEF Step
<1>3. ToPoll' = IF ToPoll = 1 THEN SkipFactor ELSE ToPoll - 1
  <2>1. CASE skip = SkipFactor - 1
    <3>1. skip' = 0
      BY <1>1, <1>2, <2>1
    <3> QED
      BY <1>1, <2>1, <3>1 DEF ToPoll
  <2>2. CASE skip # SkipFactor - 1
    <3>1. skip' = skip + 1
      BY <1>1, <1>2, <2>2
    <3> QED
      BY <1>1, <2>2, <3>1 DEF ToPoll
  <2> QED
    BY <2>1, <2>2
<1>4. skip = 0 <=> ToPoll = 1
  BY <1>1 DEF ToPoll
<1>5. port' = IF ToPoll = 1 THEN Tick(q, q.host \cup vout) ELSE q
  BY <1>4 DEF Step
<1>6. pc \in PcState /\ pc' = [pc EXCEPT !.steps = IF @ > 0 THEN @ - 1 ELSE 0]
  BY Typed DEF Step
<1>7. /\ pc.steps \in Nat /\ (pc.steps > 0 => pc'.steps = pc.steps - 1)
  BY <1>6 DEF PcState
<1>8. pc.phase \in Loops \cup {"delay"} => pc.steps > 0
  BY <1>6 DEF Step, Running, Loops
<1>9. /\ vout' = vout /\ plan' = plan
      /\ pc'.phase = pc.phase /\ pc'.bit = pc.bit /\ pc'.byte = pc.byte
      /\ pc'.tries = pc.tries
  BY StepKeepsPc
<1> QED
  BY <1>3, <1>5, <1>7, <1>8, <1>9

(* What the program does with its port in an instruction. *)
LEMMA Access ==
  ASSUME Sound, Served, Attentive, CpuStep
  PROVE  \E q :
           /\ Step(q)
           /\ \/ /\ q \in {port, PeekOut(port)} /\ sent' = sent /\ got' = got
                 /\ IF port.read \/ (MyTurn /\ port.ready)
                      THEN idled < Slow /\ idled' = idled + 1
                      ELSE idled' = idled
              \/ /\ q = TakeByte(port) /\ port.read /\ sent' = sent /\ idled' = 0
                 /\ got' = [got EXCEPT !["calc"] = Append(@, port.in)]
              \/ /\ \E x \in Byte :
                      /\ q = PutByte(port, x)
                      /\ sent' = [sent EXCEPT !["calc"] = Append(@, x)]
                 /\ MyTurn /\ port.ready /\ got' = got /\ idled' = 0
<1>1. CASE Compute
  BY <1>1 DEF Compute, Idling, WorkToDo
<1>2. CASE ReadBack
  BY <1>2 DEF ReadBack, Idling, WorkToDo
<1>3. CASE ReadByte
  BY <1>3 DEF ReadByte
<1>4. CASE WriteByte
  BY <1>4 DEF WriteByte
<1>5. ~SwitchOff /\ ~SwitchOn /\ ~StrayByte
  BY DEF SwitchOff, SwitchOn, StrayByte, Served
<1> QED
  BY <1>1, <1>2, <1>3, <1>4, <1>5 DEF CpuStep

LEMMA PeekOutDoes ==
  ASSUME NEW p \in Port
  PROVE  /\ PeekOut(p) \in Port /\ SameData(p, PeekOut(p)) /\ SameEngine(p, PeekOut(p))
         /\ ~PeekOut(p).ready
  BY BitCounts DEF PeekOut, Port, SameData, SameEngine

LEMMA TakeByteDoes ==
  ASSUME NEW p \in Port, NEW q, q = TakeByte(p)
  PROVE  /\ q \in Port /\ SameEngine(p, q) /\ ~q.read /\ q.ready = p.ready
         /\ q.enabled = p.enabled /\ q.out = p.out
  BY BitCounts DEF TakeByte, Port, SameEngine

LEMMA PutByteDoes ==
  ASSUME NEW p \in Port, NEW x \in Byte, NEW q, q = PutByte(p, x)
  PROVE  /\ q \in Port /\ q.enabled = p.enabled /\ q.sending /\ q.bit = 0
         /\ q.host = p.host /\ ~q.ready /\ q.read = p.read
  BY BitCounts DEF PutByte, Port

(* An idle cable and no bit in hand: the port is ready for a byte. *)
LEMMA HearReady ==
  ASSUME NEW p \in Port, p.enabled, ~p.sending, p.bit = 0
  PROVE  Tick(p, {}).ready
  BY BitCounts, WidthAssumption DEF Tick, ReceiveTick, HearIdle, Port

(* The bytes under way between the PC and the program. *)
LEMMA Account ==
  ASSUME Sound, pc.phase # "failed"
  PROVE  /\ Len(sent["pc"]) \in Nat /\ Len(got["calc"]) \in Nat
         /\ Len(sent["calc"]) \in Nat /\ Len(got["pc"]) \in Nat
         /\ plan.out \in Nat /\ plan.in \in Nat
         /\ Len(got["calc"]) <= Len(sent["pc"]) /\ Len(got["pc"]) <= Len(sent["calc"])
         /\ Len(sent["pc"]) <= plan.out
         /\ port.read => Len(got["calc"]) < Len(sent["pc"])
         /\ ~port.sending /\ port.bit = Width => Len(got["calc"]) < Len(sent["pc"])
         /\ pc.phase = "awaitAck" => Len(got["calc"]) < Len(sent["pc"])
         /\ pc.phase = "awaitBit" /\ ~port.sending => Len(sent["calc"]) = Len(got["pc"])
         /\ pc.phase = "awaitBit" /\ ~port.sending /\ ~port.read /\ port.bit # Width =>
              Len(got["calc"]) = Len(sent["pc"])
<1> DEFINE p == PcAs(pc.phase, pc, vout)
           s == Len(sent["pc"])
           g == Len(got["calc"])
           t == Len(sent["calc"])
           h == Len(got["pc"])
<1>1. /\ Safe(p, port, sent["pc"], got["calc"], sent["calc"], got["pc"])
      /\ p \in Port /\ ~p.read
      /\ p.sending <=> pc.phase \in {"awaitAck", "awaitIdle"}
      /\ pc.phase \in {"awaitAck", "awaitBit"} => p.bit < Width
  BY PcBefore
<1> HIDE DEF p
<1>2. /\ s = g + InRead(port) + InWorking(port) + InOut(p, port)
      /\ t = h + InRead(p) + InWorking(p) + InOut(port, p)
  BY <1>1 DEF Safe, Lossless
<1>3. s \in Nat /\ g \in Nat /\ t \in Nat /\ h \in Nat /\ plan.out \in Nat /\ plan.in \in Nat
      /\ s <= plan.out
  BY Typed DEF Sound, InPlan
<1> HIDE DEF s, g, t, h
<1>4. /\ InRead(port) \in Nat /\ InWorking(port) \in Nat /\ InOut(p, port) \in Nat
      /\ InRead(p) \in Nat /\ InWorking(p) \in Nat /\ InOut(port, p) \in Nat
  BY DEF InRead, InWorking, InOut
<1>5. port.read => InRead(port) = 1
  BY DEF InRead
<1>6. ~port.sending /\ port.bit = Width => InWorking(port) = 1
  BY DEF InWorking, Held
<1>7. pc.phase = "awaitAck" => InWorking(port) = 1 \/ InOut(p, port) = 1
  BY <1>1 DEF InWorking, InOut, Unheard
<1>8. pc.phase = "awaitBit" => InRead(p) = 0 /\ InWorking(p) = 0 /\ InOut(p, port) = 0
  <2> SUFFICES ASSUME pc.phase = "awaitBit"
               PROVE  InRead(p) = 0 /\ InWorking(p) = 0 /\ InOut(p, port) = 0
    OBVIOUS
  <2>1. ~p.read /\ ~p.sending /\ p.bit # Width
    BY <1>1, WidthAssumption DEF Port
  <2> QED
    BY <2>1 DEF InRead, InWorking, InOut, Held, Unheard
<1>9. ~port.sending => InOut(port, p) = 0
  BY DEF InOut, Unheard
<1>10. ~port.read /\ port.bit # Width => InRead(port) = 0 /\ InWorking(port) = 0
  BY DEF InRead, InWorking, Held
<1>11. g <= s /\ h <= t
  BY <1>2, <1>3, <1>4
<1>12. (port.read => g < s) /\ (~port.sending /\ port.bit = Width => g < s)
       /\ (pc.phase = "awaitAck" => g < s)
  BY <1>2, <1>3, <1>4, <1>5, <1>6, <1>7
<1>13. /\ pc.phase = "awaitBit" /\ ~port.sending => t = h
       /\ pc.phase = "awaitBit" /\ ~port.sending /\ ~port.read /\ port.bit # Width => g = s
  BY <1>2, <1>3, <1>8, <1>9, <1>10
<1> QED
  BY <1>3, <1>11, <1>12, <1>13 DEF s, g, t, h

(* What the calculator's port can be like in each of the PC's loops. *)
Single(L) == \E b \in Line : L = {b}

LEMMA ShapeOfAck ==
  ASSUME Sound, pc.phase = "awaitAck", ~port.sending
  PROVE  /\ Single(vout)
         /\ \/ low = Line
            \/ /\ port.host = {}
               /\ port.bit < Width => port.receiving \/ port.bit = 0
<1> DEFINE p == PcAs(pc.phase, pc, vout)
<1>1. /\ Safe(p, port, sent["pc"], got["calc"], sent["calc"], got["pc"])
      /\ p \in Port /\ p.host = vout /\ p.out = pc.byte /\ p.sending /\ p.bit = pc.bit
      /\ p.bit < Width /\ p.bit \in 0 .. Width - 1 /\ Width \in Nat \ {0}
  BY PcBefore
<1>2. p.host = {p.out[p.bit]} /\ p.out[p.bit] \in Line
  <2>1. vout = {pc.byte[pc.bit]}
    BY DEF Sound, LineHeld
  <2> QED
    BY <1>1, <2>1 DEF Port, Byte
<1> HIDE DEF p
<1>3. Transfer(p, port) /\ Flags(port) /\ port \in Port
  BY <1>1 DEF Safe, Agree
<1>4. CASE Heard(p, port)
  <2>1. \A b \in Line : {1 - b} \cup {b} = Line
    BY DEF Line
  <2> QED
    BY <1>1, <1>2, <1>4, <2>1 DEF Heard, low, Single
<1>5. CASE Fresh(p, port) \/ Between(p, port)
  <2>1. ~port.receiving /\ ~port.sending => port.bit = 0
    BY <1>3 DEF Flags
  <2> QED
    BY <1>1, <1>2, <1>5, <2>1 DEF Fresh, Between, Single
<1>6. CASE Released(p, port) \/ Through(p, port)
  BY <1>2, <1>6 DEF Released, Through
<1> QED
  BY <1>3, <1>4, <1>5, <1>6 DEF Transfer

LEMMA ShapeOfIdle ==
  ASSUME Sound, pc.phase = "awaitIdle"
  PROVE  /\ vout = {} /\ low = port.host
         /\ ~port.sending => \/ port.host = {}
                             \/ Single(port.host) /\ port.receiving
         /\ port.sending => pc.bit = Width - 1 /\ port.bit = 0
<1> DEFINE p == PcAs(pc.phase, pc, vout)
<1>1. /\ Safe(p, port, sent["pc"], got["calc"], sent["calc"], got["pc"])
      /\ p \in Port /\ p.host = vout /\ p.sending /\ p.bit = pc.bit + 1
      /\ pc.bit \in 0 .. Width - 1 /\ Width \in Nat \ {0}
  BY PcBefore
<1>2. vout = {} /\ low = port.host
  BY DEF Sound, LineHeld, low
<1> HIDE DEF p
<1>3. CASE ~port.sending
  <2>1. Transfer(p, port)
    BY <1>1, <1>3 DEF Safe, Agree
  <2>2. ~Fresh(p, port) /\ ~Heard(p, port)
    BY <1>1, <1>2 DEF Fresh, Heard
  <2>3. Released(p, port) => Single(port.host) /\ port.receiving
    <3>1. ASSUME Released(p, port) PROVE Single(port.host) /\ port.receiving
      <4>1. p.bit - 1 \in 0 .. Width - 1
        BY <1>1
      <4>2. p.out[p.bit - 1] \in Line
        BY <1>1, <4>1 DEF Port, Byte
      <4>3. 1 - p.out[p.bit - 1] \in Line
        BY <4>2, BitCounts
      <4> QED
        BY <3>1, <4>3 DEF Released, Single
    <3> QED
      BY <3>1
  <2>4. Between(p, port) \/ Through(p, port) => port.host = {}
    BY DEF Between, Through
  <2> QED
    BY <1>2, <1>3, <2>1, <2>2, <2>3, <2>4 DEF Transfer
<1>4. CASE port.sending
  <2>1. Clash(p, port)
    BY <1>1, <1>4 DEF Safe, Agree
  <2> QED
    BY <1>1, <1>2, <1>4, <2>1 DEF Clash, WholeByte
<1> QED
  BY <1>3, <1>4

LEMMA ShapeOfBit ==
  ASSUME Sound, pc.phase = "awaitBit"
  PROVE  /\ vout = {} /\ low = port.host
         /\ ~port.sending => port.host = {} /\ port.bit \in {0, Width}
         /\ port.sending => \/ port.host = {}
                            \/ Single(port.host) /\ port.bit < Width
<1> DEFINE p == PcAs(pc.phase, pc, vout)
<1>1. /\ Safe(p, port, sent["pc"], got["calc"], sent["calc"], got["pc"])
      /\ p \in Port /\ p.host = vout /\ ~p.sending /\ p.bit = pc.bit
      /\ pc.bit \in 0 .. Width - 1 /\ Width \in Nat \ {0}
  BY PcBefore
<1>2. vout = {} /\ low = port.host
  BY DEF Sound, LineHeld, low
<1> HIDE DEF p
<1>0. port \in Port /\ Flags(port)
  BY <1>1 DEF Safe
<1>3. CASE ~port.sending
  <2>1. NoBitInHand(port)
    BY <1>1, <1>3 DEF Safe, Agree
  <2> QED
    BY <1>0, <1>2, <1>3, <2>1 DEF NoBitInHand, Flags
<1>4. CASE port.sending
  <2>1. Transfer(port, p)
    BY <1>1, <1>4 DEF Safe, Agree
  <2>2. ~Heard(port, p) /\ ~Released(port, p)
    BY <1>1, <1>2 DEF Heard, Released
  <2>3. Fresh(port, p) \/ Between(port, p) =>
          port.bit < Width /\ port.host \in {{}, {port.out[port.bit]}}
    BY <1>1 DEF Fresh, Between, Announcing
  <2>4. port.bit < Width => port.out[port.bit] \in Line
    BY <1>0, <1>1 DEF Port, Byte
  <2> QED
    BY <1>2, <1>4, <2>1, <2>2, <2>3, <2>4 DEF Transfer, Through, Single
<1> QED
  BY <1>3, <1>4

LEMMA ShapeOfRelease ==
  ASSUME Sound, pc.phase = "awaitRelease"
  PROVE  /\ port.sending /\ Single(vout)
         /\ \/ low = Line /\ port.host # {} /\ port.bit < Width
            \/ Single(low)
<1> DEFINE p == PcAs(pc.phase, pc, vout)
<1>1. /\ Safe(p, port, sent["pc"], got["calc"], sent["calc"], got["pc"])
      /\ p \in Port /\ p.host = vout /\ ~p.sending /\ p.bit = pc.bit + 1
      /\ pc.bit \in 0 .. Width - 1 /\ Width \in Nat \ {0}
  BY PcBefore
<1>2. vout # {}
  BY DEF Sound, LineHeld
<1> HIDE DEF p
<1>0. port \in Port
  BY <1>1 DEF Safe
<1>3. port.sending
  BY <1>1, <1>2 DEF Safe, Agree, NoBitInHand
<1>4. Transfer(port, p)
  BY <1>1, <1>3 DEF Safe, Agree
<1>5. Heard(port, p) \/ Released(port, p)
  BY <1>1, <1>2, <1>4 DEF Transfer, Fresh, Between, Through
<1>6. CASE Heard(port, p)
  <2>1. port.out[port.bit] \in Line
    BY <1>0, <1>1, <1>6 DEF Heard, Port, Byte
  <2>2. \A b \in Line : {b} \cup {1 - b} = Line
    BY DEF Line
  <2> QED
    BY <1>1, <1>3, <1>6, <2>1, <2>2, BitCounts DEF Heard, Single, low
<1>7. CASE Released(port, p)
  <2>1. port.bit - 1 \in 0 .. Width - 1
    BY <1>0, <1>1, <1>7 DEF Released, Port
  <2>2. port.out[port.bit - 1] \in Line
    BY <1>0, <2>1 DEF Port, Byte
  <2>3. 1 - port.out[port.bit - 1] \in Line
    BY <2>2, BitCounts
  <2> QED
    BY <1>1, <1>3, <1>7, <2>3 DEF Released, Single, low
<1> QED
  BY <1>5, <1>6, <1>7

-----------------------------------------------------------------------------
(* The program's three kinds of instruction, by what they leave in q. *)
Idles(q) ==
  /\ SameData(port, q) /\ SameEngine(port, q) /\ q.ready \in {port.ready, FALSE}
  /\ sent' = sent /\ got' = got
  /\ IF port.read \/ (MyTurn /\ port.ready)
       THEN Leisure >= 1 /\ Leisure' = Leisure - 1
       ELSE Leisure' = Leisure

Takes(q) ==
  /\ port.read /\ SameEngine(port, q) /\ ~q.read /\ q.ready = port.ready
  /\ q.out = port.out
  /\ sent' = sent /\ Leisure' = Slow

Writes(q) ==
  /\ MyTurn /\ port.ready
  /\ q.sending /\ q.bit = 0 /\ q.host = port.host /\ ~q.ready /\ q.read = port.read
  /\ got' = got /\ Leisure' = Slow

Becomes(q) ==
  /\ q \in Port /\ q.enabled
  /\ port' = IF ToPoll = 1 THEN Tick(q, q.host \cup vout) ELSE q

LEMMA Instruction ==
  ASSUME Sound, Served, Attentive, CpuStep
  PROVE  /\ \E q : Becomes(q) /\ (Idles(q) \/ Takes(q) \/ Writes(q))
         /\ ToPoll' = IF ToPoll = 1 THEN SkipFactor ELSE ToPoll - 1
         /\ pc.steps > 0 => pc'.steps = pc.steps - 1
         /\ pc.steps \in Nat
         /\ pc.phase \in Loops \cup {"delay"} => pc.steps > 0
         /\ vout' = vout /\ plan' = plan
         /\ sent'["pc"] = sent["pc"] /\ got'["pc"] = got["pc"]
         /\ pc'.phase = pc.phase /\ pc'.bit = pc.bit /\ pc'.byte = pc.byte
         /\ pc'.tries = pc.tries
<1>1. /\ TypeOK /\ port \in Port /\ port.enabled /\ idled \in 0 .. Slow /\ Slow \in Nat
      /\ sent \in [End -> Seq(Byte)] /\ got \in [End -> Seq(Byte)]
      /\ "pc" \in End /\ "calc" \in End
  BY TimingAssumption DEF Sound, Served, TypeOK, End
<1>2. PICK q :
        /\ Step(q)
        /\ \/ /\ q \in {port, PeekOut(port)} /\ sent' = sent /\ got' = got
              /\ IF port.read \/ (MyTurn /\ port.ready)
                   THEN idled < Slow /\ idled' = idled + 1
                   ELSE idled' = idled
           \/ /\ q = TakeByte(port) /\ port.read /\ sent' = sent /\ idled' = 0
              /\ got' = [got EXCEPT !["calc"] = Append(@, port.in)]
           \/ /\ \E x \in Byte :
                   /\ q = PutByte(port, x)
                   /\ sent' = [sent EXCEPT !["calc"] = Append(@, x)]
              /\ MyTurn /\ port.ready /\ got' = got /\ idled' = 0
  BY Access
<1> DEFINE Done == /\ q \in Port /\ q.enabled /\ (Idles(q) \/ Takes(q) \/ Writes(q))
                   /\ sent'["pc"] = sent["pc"] /\ got'["pc"] = got["pc"]
<1>3. ASSUME /\ q \in {port, PeekOut(port)} /\ sent' = sent /\ got' = got
           /\ IF port.read \/ (MyTurn /\ port.ready)
                THEN idled < Slow /\ idled' = idled + 1
                ELSE idled' = idled
      PROVE  Done
  <2>1. /\ q \in Port /\ SameData(port, q) /\ SameEngine(port, q)
        /\ q.ready \in {port.ready, FALSE}
    <3>1. CASE q = port
      BY <1>1, <3>1 DEF SameData, SameEngine
    <3>2. CASE q = PeekOut(port)
      <4>1. q \in Port /\ SameData(port, q) /\ SameEngine(port, q) /\ ~q.ready
        BY <1>1, <3>2, PeekOutDoes, Zenon
      <4> QED
        BY <4>1 DEF Port
    <3> QED
      BY <1>3, <3>1, <3>2
  <2>2. IF port.read \/ (MyTurn /\ port.ready)
          THEN Leisure >= 1 /\ Leisure' = Leisure - 1
          ELSE Leisure' = Leisure
    BY <1>1, <1>3 DEF Leisure
  <2>3. Idles(q)
    BY <1>3, <2>1, <2>2, Zenon DEF Idles
  <2> QED
    BY <1>1, <1>3, <2>1, <2>3, Zenon DEF SameData
<1>4. ASSUME /\ q = TakeByte(port) /\ port.read /\ sent' = sent /\ idled' = 0
           /\ got' = [got EXCEPT !["calc"] = Append(@, port.in)]
      PROVE  Done
  <2>1. /\ q \in Port /\ SameEngine(port, q) /\ ~q.read /\ q.ready = port.ready
        /\ q.enabled = port.enabled /\ q.out = port.out
    BY <1>1, <1>4, TakeByteDoes, Zenon
  <2>2. Takes(q)
    BY <1>1, <1>4, <2>1 DEF Takes, Leisure
  <2>3. got'["pc"] = got["pc"]
    BY <1>1, <1>4
  <2> QED
    BY <1>1, <1>4, <2>1, <2>2, <2>3, Zenon
<1>5. ASSUME /\ \E x \in Byte :
                /\ q = PutByte(port, x)
                /\ sent' = [sent EXCEPT !["calc"] = Append(@, x)]
           /\ MyTurn /\ port.ready /\ got' = got /\ idled' = 0
      PROVE  Done
  <2>0. PICK x \in Byte : q = PutByte(port, x)
                          /\ sent' = [sent EXCEPT !["calc"] = Append(@, x)]
    BY <1>5
  <2>1. /\ q \in Port /\ q.enabled = port.enabled /\ q.sending /\ q.bit = 0
        /\ q.host = port.host /\ ~q.ready /\ q.read = port.read
    BY <1>1, <2>0, PutByteDoes, Zenon
  <2>2. Writes(q)
    BY <1>1, <1>5, <2>1 DEF Writes, Leisure
  <2>3. sent'["pc"] = sent["pc"]
    BY <1>1, <2>0
  <2> QED
    BY <1>1, <1>5, <2>1, <2>2, <2>3, Zenon
<1>6. /\ q \in Port /\ q.enabled /\ (Idles(q) \/ Takes(q) \/ Writes(q))
      /\ sent'["pc"] = sent["pc"] /\ got'["pc"] = got["pc"]
  BY <1>2, <1>3, <1>4, <1>5, Zenon
<1>7. /\ ToPoll' = IF ToPoll = 1 THEN SkipFactor ELSE ToPoll - 1
      /\ port' = IF ToPoll = 1 THEN Tick(q, q.host \cup vout) ELSE q
      /\ pc.steps > 0 => pc'.steps = pc.steps - 1
      /\ pc.steps \in Nat
      /\ pc.phase \in Loops \cup {"delay"} => pc.steps > 0
      /\ vout' = vout /\ plan' = plan
      /\ pc'.phase = pc.phase /\ pc'.bit = pc.bit /\ pc'.byte = pc.byte
      /\ pc'.tries = pc.tries
  BY <1>1, <1>2, <1>6, StepTimes
<1>8. Becomes(q)
  BY <1>6, <1>7 DEF Becomes
<1> QED
  BY <1>6, <1>7, <1>8

(* Whatever has arrived stays; what has not comes an instruction nearer. *)
Nearer == Arrived' \/ (~Arrived /\ Remaining' <= Remaining - 1)

LEMMA LoopTypes ==
  ASSUME Sound
  PROVE  /\ ToPoll \in 1 .. SkipFactor /\ Leisure \in 0 .. Slow
         /\ SkipFactor \in Nat \ {0} /\ Slow \in Nat
         /\ port \in Port /\ port.bit \in 0 .. Width /\ Width \in Nat \ {0}
         /\ Waste(Slow) \in Nat /\ Waste(Leisure) \in Nat
         /\ Waste(Leisure) <= Waste(Slow)
<1>1. TypeOK
  BY DEF Sound
<1>2. /\ ToPoll \in 1 .. SkipFactor /\ Leisure \in 0 .. Slow
      /\ SkipFactor \in Nat \ {0} /\ Slow \in Nat
  BY <1>1, Clock
<1>3. port \in Port /\ port.bit \in 0 .. Width
  BY <1>1 DEF TypeOK, Port
<1>4. /\ Waste(Slow) \in Nat /\ Waste(Leisure) \in Nat /\ Waste(Leisure) <= Waste(Slow)
  BY <1>2, WasteGrows
<1> QED
  BY <1>2, <1>3, <1>4, WidthAssumption

LEMMA CpuInAck ==
  ASSUME Sound, Served, Attentive, CpuStep, pc.phase = "awaitAck"
  PROVE  Nearer /\ port'.enabled /\ ~port'.sending
<1> DEFINE t == ToPoll
           u == Leisure
           N == SkipFactor
<1>1. PICK q : Becomes(q) /\ (Idles(q) \/ Takes(q) \/ Writes(q))
  BY Instruction
<1>2. /\ t \in 1 .. N /\ u \in 0 .. Slow /\ N \in Nat \ {0} /\ Slow \in Nat
      /\ port \in Port /\ port.bit \in 0 .. Width /\ Width \in Nat \ {0}
  BY LoopTypes
<1>3. /\ ~port.sending /\ Single(vout)
      /\ \/ low = Line
         \/ port.host = {} /\ (port.bit < Width => port.receiving \/ port.bit = 0)
  BY ShapeOfAck DEF Served
<1>4. ~Writes(q)
  BY Account DEF Writes, MyTurn
<1>5. /\ q \in Port /\ q.enabled /\ ~q.sending /\ q.bit = port.bit /\ q.host = port.host
      /\ q.receiving = port.receiving
      /\ \/ q.read = port.read /\ (port.read => u >= 1 /\ u' = u - 1)
         \/ port.read /\ ~q.read /\ u' = Slow
  BY <1>1, <1>3, <1>4 DEF Becomes, Idles, Takes, SameData, SameEngine
<1>6. /\ t' = IF t = 1 THEN N ELSE t - 1
      /\ port' = IF t = 1 THEN Tick(q, low) ELSE q
      /\ vout' = vout /\ pc'.phase = "awaitAck"
  BY <1>1, <1>5, Instruction DEF Becomes, low
<1>7. /\ Arrived <=> low = Line
      /\ Arrived' <=> port'.host \cup vout = Line
      /\ Remaining = Rank("awaitAck", port, t, u)
      /\ Remaining' = Rank("awaitAck", port', t', u')
  BY <1>6 DEF Arrived, low, Remaining
<1> HIDE DEF t, u, N
<1>8. CASE low = Line
  <2>1. port'.host = q.host /\ port'.enabled /\ ~port'.sending
    BY <1>5, <1>6, <1>8, HearBoth DEF SameData, SameEngine
  <2>2. port'.host \cup vout = Line
    BY <1>5, <1>8, <2>1 DEF low
  <2> QED
    BY <1>7, <2>1, <2>2 DEF Nearer
<1>9. CASE low # Line
  <2>1. PICK b \in Line : vout = {b} /\ low = {b}
    BY <1>3, <1>9 DEF Single, low
  <2>2. CASE t # 1
    <3>1. port' = q /\ t' = t - 1
      BY <1>6, <2>2
    <3>2. Remaining' <= Remaining - 1
      BY <1>2, <1>5, <1>7, <3>1 DEF Rank, N
    <3> QED
      BY <1>5, <1>7, <1>9, <3>1, <3>2 DEF Nearer
  <2>3. CASE t = 1
    <3>0. port' = Tick(q, {b}) /\ t' = N
      BY <1>6, <2>1, <2>3
    <3>1. CASE q.bit < Width
      <4>1. port'.enabled /\ ~port'.sending /\ port'.host = {1 - b}
        BY <1>3, <1>5, <1>9, <3>0, <3>1, HearNewBit DEF SameData
      <4>2. {1 - b} \cup {b} = Line
        BY DEF Line
      <4> QED
        BY <1>7, <2>1, <4>1, <4>2 DEF Nearer
    <3>2. CASE q.bit = Width
      <4> DEFINE r == [q EXCEPT !.ready = FALSE, !.host = {}]
      <4>1. /\ r \in Port /\ r.enabled /\ ~r.sending /\ r.bit = Width /\ r.read = q.read
            /\ port' = IF q.read THEN r ELSE Complete(r)
        BY <1>5, <3>0, <3>2, HearWhenFull DEF SameData
      <4> HIDE DEF r
      <4>2. CASE q.read
        <5>1. port' = r /\ u' = u - 1 /\ port.read
          BY <1>5, <4>1, <4>2
        <5>a. /\ ~(port.bit < Width) /\ port.read
              /\ ~(port'.bit < Width) /\ port'.read
          <6>1. port.bit = Width /\ port'.bit = Width /\ port.read
            BY <1>5, <3>2, <4>1, <5>1
          <6>2. port'.read
            BY <4>1, <4>2, <5>1, Zenon
          <6> QED
            BY <1>2, <6>1, <6>2
        <5>b. Remaining = u + 1 + 2 * SkipFactor /\ Remaining' = u' + 1 + 2 * SkipFactor
          BY <1>7, <5>a DEF Rank
        <5>2. Remaining' <= Remaining - 1
          BY <1>2, <5>1, <5>b DEF N
        <5> QED
          BY <1>7, <1>9, <4>1, <5>1, <5>2 DEF Nearer
      <4>3. CASE ~q.read
        <5>1. port'.enabled /\ ~port'.sending /\ port'.bit = 0
          BY <4>1, <4>3, CompleteByte
        <5>2. Remaining' = N
          BY <1>2, <1>7, <3>0, <5>1 DEF Rank
        <5>3. Remaining \in Int /\ Remaining >= 1 + N
          BY <1>2, <1>5, <1>7, <2>3, <3>2 DEF Rank, N
        <5> QED
          BY <1>2, <1>7, <1>9, <5>1, <5>2, <5>3 DEF Nearer
      <4> QED
        BY <4>2, <4>3
    <3> QED
      BY <1>2, <1>5, <3>1, <3>2
  <2> QED
    BY <2>2, <2>3
<1> QED
  BY <1>8, <1>9

LEMMA NotYetRead ==
  ASSUME Sound, Served, pc.phase \in Loops, port.sending
  PROVE  ~port.read /\ ~port.ready
<1>1. pc.phase # "failed" /\ Len(got["calc"]) = plan.out
  BY DEF Served, InTime, Loops
<1>2. ~port.read
  BY <1>1, Account
<1>3. Flags(port)
  BY <1>1, PcBefore DEF Safe
<1> QED
  BY <1>2, <1>3 DEF Flags

LEMMA CpuInIdle ==
  ASSUME Sound, Served, Attentive, CpuStep, pc.phase = "awaitIdle"
  PROVE  /\ Nearer /\ port'.enabled
         /\ port'.sending => Len(got'["calc"]) = plan.out
         /\ port'.sending \/ port'.ready => port'.host = {} /\ pc'.steps < ToPoll'
<1> DEFINE t == ToPoll
           N == SkipFactor
           n == pc.steps
<1>1. PICK q : Becomes(q) /\ (Idles(q) \/ Takes(q) \/ Writes(q))
  BY Instruction
<1>2. /\ t \in 1 .. N /\ N \in Nat \ {0}
      /\ port \in Port /\ port.bit \in 0 .. Width /\ Width \in Nat \ {0}
  BY LoopTypes
<1>3. /\ vout = {} /\ low = port.host
      /\ ~port.sending => \/ port.host = {}
                          \/ Single(port.host) /\ port.receiving
  BY ShapeOfIdle
<1>4. /\ n \in Nat /\ n >= 1 /\ n <= N
      /\ port.sending \/ port.ready => port.host = {} /\ n < t
      /\ port.sending => Len(got["calc"]) = plan.out
  BY Instruction DEF Served, InTime, Loops
<1>5. q \in Port /\ q.enabled /\ q.host = port.host
  BY <1>1 DEF Becomes, Idles, Takes, Writes, SameEngine
<1>6. /\ t' = IF t = 1 THEN N ELSE t - 1
      /\ port' = IF t = 1 THEN Tick(q, port.host) ELSE q
      /\ vout' = {} /\ pc'.phase = "awaitIdle" /\ pc'.steps = n - 1
  BY <1>1, <1>3, <1>4, <1>5, Instruction DEF Becomes
<1>7. /\ Arrived <=> port.host = {}
      /\ Arrived' <=> port'.host = {}
      /\ Remaining = t /\ Remaining' = t'
  BY <1>3, <1>6 DEF Arrived, low, Remaining, Rank
<1> HIDE DEF t, N, n
<1>8. CASE t # 1
  <2>1. port' = q /\ t' = t - 1
    BY <1>6, <1>8
  <2>2. Nearer
    BY <1>2, <1>5, <1>7, <2>1 DEF Nearer
  <2>3. port'.sending \/ port'.ready => port.sending \/ port.ready
    BY <1>1, <2>1 DEF Idles, Takes, Writes, SameEngine
  <2>4. port'.sending \/ port'.ready => port'.host = {} /\ pc'.steps < t'
    BY <1>2, <1>4, <1>5, <1>6, <2>1, <2>3
  <2>5. port'.sending => Len(got'["calc"]) = plan.out
    <3>1. CASE Writes(q)
      BY <3>1 DEF Writes, MyTurn
    <3>2. CASE ~Writes(q)
      <4> SUFFICES ASSUME port'.sending PROVE Len(got'["calc"]) = plan.out
        OBVIOUS
      <4>1. port.sending
        BY <1>1, <2>1, <3>2 DEF Idles, Takes, SameEngine
      <4>2. ~Takes(q)
        BY <4>1, NotYetRead DEF Takes, Loops
      <4> QED
        BY <1>1, <1>4, <3>2, <4>1, <4>2 DEF Idles
    <3> QED
      BY <3>1, <3>2
  <2> QED
    BY <1>5, <2>1, <2>2, <2>4, <2>5 DEF t
<1>9. CASE t = 1
  <2>1. ~port.sending /\ ~port.ready
    BY <1>4, <1>9
  <2>2. /\ ~q.sending /\ q.bit = port.bit /\ q.receiving = port.receiving
    BY <1>1, <2>1 DEF Idles, Takes, Writes, SameEngine
  <2>3. port' = Tick(q, port.host) /\ t' = N
    BY <1>6, <1>9
  <2>4. port'.host = {} /\ port'.enabled /\ ~port'.sending
    <3>1. CASE port.host = {}
      <4>1. CASE q.bit = Width /\ ~q.read
        BY <1>5, <2>2, <2>3, <3>1, <4>1, HearNothing, CompleteByte
      <4>2. CASE ~(q.bit = Width /\ ~q.read)
        BY <1>5, <2>2, <2>3, <3>1, <4>2, HearNothing DEF SameData, SameEngine
      <4> QED
        BY <4>1, <4>2
    <3>2. CASE port.host # {}
      <4>1. PICK b \in Line : port.host = {b}
        BY <1>3, <2>1, <3>2 DEF Single
      <4>2. q.receiving
        BY <1>3, <2>1, <2>2, <3>2
      <4>3. CASE q.bit < Width
        BY <1>5, <2>2, <2>3, <4>1, <4>2, <4>3, HearRelease DEF SameData
      <4>4. CASE q.bit = Width
        <5> DEFINE r == [q EXCEPT !.ready = FALSE, !.host = {}]
        <5>1. /\ r \in Port /\ r.enabled /\ ~r.sending /\ r.host = {}
              /\ port' = IF q.read THEN r ELSE Complete(r)
          <6>1. port' = Tick(q, {b})
            BY <2>3, <4>1
          <6> QED
            BY <1>5, <2>2, <4>4, <6>1, HearWhenFull DEF SameData
        <5> HIDE DEF r
        <5>2. Complete(r).host = {} /\ Complete(r).enabled /\ ~Complete(r).sending
          BY <5>1, CompleteByte
        <5> QED
          BY <5>1, <5>2
      <4> QED
        BY <1>2, <2>2, <4>3, <4>4
    <3> QED
      BY <3>1, <3>2
  <2> QED
    BY <1>2, <1>4, <1>6, <1>7, <2>3, <2>4 DEF Nearer, t
<1> QED
  BY <1>8, <1>9

LEMMA CpuInRelease ==
  ASSUME Sound, Served, Attentive, CpuStep, pc.phase = "awaitRelease"
  PROVE  /\ Nearer /\ port'.enabled
         /\ Len(got'["calc"]) = plan.out
<1> DEFINE t == ToPoll
           N == SkipFactor
<1>1. PICK q : Becomes(q) /\ (Idles(q) \/ Takes(q) \/ Writes(q))
  BY Instruction
<1>2. t \in 1 .. N /\ N \in Nat \ {0} /\ port \in Port
  BY LoopTypes
<1>3. /\ port.sending /\ Single(vout)
      /\ \/ low = Line /\ port.host # {} /\ port.bit < Width
         \/ Single(low)
  BY ShapeOfRelease
<1>4. Idles(q)
  BY <1>1, <1>3, NotYetRead DEF Takes, Writes, Loops
<1>5. /\ q \in Port /\ q.enabled /\ q.sending /\ q.host = port.host /\ q.bit = port.bit
      /\ got' = got
  BY <1>1, <1>3, <1>4 DEF Becomes, Idles, SameEngine
<1>6. /\ t' = IF t = 1 THEN N ELSE t - 1
      /\ port' = IF t = 1 THEN Tick(q, low) ELSE q
      /\ vout' = vout /\ pc'.phase = "awaitRelease"
  BY <1>1, <1>5, Instruction DEF Becomes, low
<1>7. /\ Arrived <=> low # Line
      /\ Arrived' <=> port'.host \cup vout # Line
      /\ Remaining = t /\ Remaining' = t'
  BY <1>6 DEF Arrived, low, Remaining, Rank
<1>8. Len(got'["calc"]) = plan.out
  BY <1>3, <1>5 DEF Served, InTime, Loops
<1> HIDE DEF t, N
<1>9. CASE t # 1
  BY <1>2, <1>5, <1>6, <1>7, <1>8, <1>9 DEF Nearer, low
<1>10. CASE t = 1 /\ low = Line
  <2>1. port'.host = {} /\ port'.enabled
    BY <1>3, <1>5, <1>6, <1>10, SendAck, BitCounts DEF SameData, Single
  <2>2. port'.host \cup vout # Line
    BY <1>3, <2>1, BitCounts DEF Single
  <2> QED
    BY <1>7, <1>8, <2>1, <2>2 DEF Nearer
<1>11. CASE t = 1 /\ low # Line
  <2>1. PICK b \in Line : low = {b}
    BY <1>3, <1>11 DEF Single
  <2>2. port'.host = port.host /\ port'.enabled
    BY <1>5, <1>6, <1>11, <2>1, SendWait DEF SameData, SameEngine
  <2> QED
    BY <1>7, <1>8, <1>11, <2>2 DEF Nearer, low
<1> QED
  BY <1>9, <1>10, <1>11

(* The PC waits for a bit of the answer. *)
LEMMA InBit ==
  ASSUME Sound, Served, Attentive, CpuStep, pc.phase = "awaitBit"
  PROVE  /\ \E q : /\ q \in Port /\ q.enabled /\ q.host = port.host
                   /\ port' = IF ToPoll = 1 THEN Tick(q, port.host) ELSE q
                   /\ Idles(q) \/ Takes(q) \/ Writes(q)
         /\ ToPoll' = IF ToPoll = 1 THEN SkipFactor ELSE ToPoll - 1
         /\ Arrived <=> port.host # {}
         /\ Arrived' <=> port'.host # {}
         /\ Remaining = Rank("awaitBit", port, ToPoll, Leisure)
         /\ Remaining' = Rank("awaitBit", port', ToPoll', Leisure')
         /\ ~port.sending => port.host = {} /\ port.bit \in {0, Width}
         /\ port.sending => /\ port.host = {} \/ (Single(port.host) /\ port.bit < Width)
                            /\ Len(got["calc"]) = plan.out /\ ~port.read /\ ~port.ready
         /\ Len(sent["pc"]) = plan.out /\ Len(got["pc"]) < plan.in
<1>1. PICK q : Becomes(q) /\ (Idles(q) \/ Takes(q) \/ Writes(q))
  BY Instruction
<1>2. /\ vout = {} /\ low = port.host
      /\ ~port.sending => port.host = {} /\ port.bit \in {0, Width}
      /\ port.sending => port.host = {} \/ (Single(port.host) /\ port.bit < Width)
  BY ShapeOfBit
<1>3. q \in Port /\ q.enabled /\ q.host = port.host
  BY <1>1 DEF Becomes, Idles, Takes, Writes, SameEngine
<1>4. /\ ToPoll' = IF ToPoll = 1 THEN SkipFactor ELSE ToPoll - 1
      /\ vout' = {} /\ pc'.phase = "awaitBit"
  BY <1>2, Instruction
<1>5. port' = IF ToPoll = 1 THEN Tick(q, port.host) ELSE q
  BY <1>1, <1>2, <1>3 DEF Becomes
<1>6. /\ Arrived <=> port.host # {}
      /\ Arrived' <=> port'.host # {}
      /\ Remaining = Rank("awaitBit", port, ToPoll, Leisure)
      /\ Remaining' = Rank("awaitBit", port', ToPoll', Leisure')
  BY <1>2, <1>4 DEF Arrived, low, Remaining
<1>7. port.sending => Len(got["calc"]) = plan.out /\ ~port.read /\ ~port.ready
  BY NotYetRead DEF Served, InTime, Loops
<1>8. Len(sent["pc"]) = plan.out /\ Len(got["pc"]) < plan.in
  BY DEF Served
<1> QED
  BY <1>1, <1>2, <1>3, <1>4, <1>5, <1>6, <1>7, <1>8

BitNearer ==
  /\ Nearer /\ port'.enabled
  /\ port'.sending => Len(got'["calc"]) = plan.out

LEMMA BitAnnounced ==
  ASSUME Sound, Served, Attentive, CpuStep, pc.phase = "awaitBit", port.sending
  PROVE  BitNearer
<1> DEFINE t == ToPoll
           N == SkipFactor
<1>1. PICK q : /\ q \in Port /\ q.enabled /\ q.host = port.host
               /\ port' = IF t = 1 THEN Tick(q, port.host) ELSE q
               /\ Idles(q) \/ Takes(q) \/ Writes(q)
  BY InBit
<1>2. /\ t \in 1 .. N /\ Leisure \in 0 .. Slow /\ N \in Nat \ {0} /\ Slow \in Nat
      /\ port.bit \in 0 .. Width /\ Width \in Nat \ {0}
      /\ Waste(Slow) \in Nat /\ Waste(Leisure) \in Nat /\ Waste(Leisure) <= Waste(Slow)
  BY LoopTypes
<1>3. /\ t' = IF t = 1 THEN N ELSE t - 1
      /\ Arrived <=> port.host # {}
      /\ Arrived' <=> port'.host # {}
      /\ Remaining = Rank("awaitBit", port, t, Leisure)
      /\ Remaining' = Rank("awaitBit", port', t', Leisure')
      /\ port.host = {} \/ (Single(port.host) /\ port.bit < Width)
      /\ Len(got["calc"]) = plan.out /\ ~port.read /\ ~port.ready
  BY InBit
<1>4. Idles(q)
  BY <1>1, <1>3 DEF Takes, Writes
<1>5. /\ q.sending /\ q.bit = port.bit /\ ~q.read /\ q.enabled
      /\ Len(got'["calc"]) = plan.out
  <2>1. SameEngine(port, q) /\ SameData(port, q) /\ got' = got
    BY <1>4 DEF Idles
  <2>2. q.sending /\ q.bit = port.bit /\ ~q.read
    BY <1>3, <2>1, Zenon DEF SameEngine, SameData
  <2>3. Len(got'["calc"]) = plan.out
    BY <1>3, <2>1
  <2> QED
    BY <1>1, <2>2, <2>3
<1>6. Leisure' = Leisure
  BY <1>3, <1>4 DEF Idles
<1> HIDE DEF t, N
<1>7. CASE t # 1
  <2>1. port' = q /\ t' = t - 1
    BY <1>1, <1>3, <1>7
  <2>2. CASE port.host = {}
    <3>1. Remaining' <= Remaining - 1
      BY <1>2, <1>3, <1>5, <2>1 DEF Rank, Writing, N
    <3> QED
      BY <1>1, <1>3, <1>5, <2>1, <2>2, <3>1 DEF BitNearer, Nearer
  <2>3. CASE port.host # {}
    BY <1>1, <1>3, <1>5, <2>1, <2>3 DEF BitNearer, Nearer
  <2> QED
    BY <2>2, <2>3
<1>8. CASE t = 1 /\ port.host # {}
  <2>1. PICK b \in Line : port.host = {b}
    BY <1>3, <1>8 DEF Single
  <2>2. port' = Tick(q, {b})
    BY <1>1, <1>8, <2>1
  <2>3. port'.host = port.host /\ port'.enabled
    BY <1>1, <1>5, <2>2, SendWait DEF SameData, SameEngine
  <2> QED
    BY <1>3, <1>5, <1>8, <2>3 DEF BitNearer, Nearer
<1>9. CASE t = 1 /\ port.host = {}
  <2>1. port' = Tick(q, {}) /\ t' = N
    BY <1>1, <1>3, <1>9
  <2>2. CASE port.bit < Width
    <3>1. port'.host = {q.out[q.bit]} /\ port'.enabled
      BY <1>1, <1>5, <2>1, <2>2, SendAnnounce DEF SameData
    <3> QED
      BY <1>3, <1>5, <3>1 DEF BitNearer, Nearer
  <2>3. CASE port.bit = Width
    <3>1. /\ port'.enabled /\ ~port'.sending /\ port'.bit = 0 /\ port'.ready
          /\ port'.read = q.read
      BY <1>1, <1>5, <2>1, <2>3, SendDone DEF SameData
    <3>2. Remaining' = Waste(Leisure) + 1 + N /\ Remaining = 1 + Writing
      BY <1>2, <1>3, <1>5, <1>6, <1>9, <2>3, <3>1 DEF Rank, N
    <3>3. Remaining' <= Remaining - 1
      BY <1>2, <3>2 DEF Writing, N
    <3> QED
      BY <1>3, <1>5, <1>9, <3>1, <3>3 DEF BitNearer, Nearer
  <2> QED
    BY <1>2, <2>2, <2>3
<1> QED
  BY <1>7, <1>8, <1>9

(* The program has yet to take a byte of the packet, or two of them. *)
LEMMA BitUnread ==
  ASSUME Sound, Served, Attentive, CpuStep, pc.phase = "awaitBit", ~port.sending,
         port.read \/ port.bit = Width
  PROVE  BitNearer
<1> DEFINE t == ToPoll
           u == Leisure
           N == SkipFactor
<1>1. PICK q : /\ q \in Port /\ q.enabled /\ q.host = port.host
               /\ port' = IF t = 1 THEN Tick(q, port.host) ELSE q
               /\ Idles(q) \/ Takes(q) \/ Writes(q)
  BY InBit
<1>2. /\ t \in 1 .. N /\ u \in 0 .. Slow /\ N \in Nat \ {0} /\ Slow \in Nat
      /\ port.bit \in 0 .. Width /\ Width \in Nat \ {0}
      /\ Waste(Slow) \in Nat /\ Waste(u) \in Nat /\ Waste(u) <= Waste(Slow)
  BY LoopTypes
<1>3. /\ t' = IF t = 1 THEN N ELSE t - 1
      /\ Arrived <=> port.host # {}
      /\ Arrived' <=> port'.host # {}
      /\ Remaining = Rank("awaitBit", port, t, u)
      /\ Remaining' = Rank("awaitBit", port', t', u')
      /\ port.host = {} /\ port.bit \in {0, Width}
      /\ Len(sent["pc"]) = plan.out
  BY InBit
<1>4. ~MyTurn
  <2>1. Len(got["calc"]) < Len(sent["pc"])
    BY Account
  <2>2. Len(got["calc"]) \in Nat /\ Len(sent["pc"]) \in Nat
    BY Account
  <2> QED
    BY <1>3, <2>1, <2>2 DEF MyTurn
<1>5. /\ ~q.sending /\ q.bit = port.bit
      /\ \/ q.read = port.read /\ (port.read => u >= 1 /\ u' = u - 1)
                               /\ (~port.read => u' = u)
         \/ port.read /\ ~q.read /\ u' = Slow
  BY <1>1, <1>4 DEF Idles, Takes, Writes, SameData, SameEngine
<1>6. \/ t # 1 /\ port' = q /\ t' = t - 1
      \/ t = 1 /\ port' = Tick(q, {}) /\ t' = N
  BY <1>1, <1>3
<1>7. /\ port'.enabled /\ ~port'.sending /\ port'.host = {}
      /\ \/ port'.bit = port.bit /\ port'.read = q.read
         \/ t = 1 /\ q.bit = Width /\ ~q.read /\ port'.bit = 0 /\ port'.read
      /\ t = 1 => ~(q.bit = Width /\ ~q.read /\ port'.bit = port.bit)
  <2>1. CASE port' = q /\ t # 1
    BY <1>1, <1>3, <1>5, <2>1
  <2>2. CASE port' = Tick(q, {}) /\ t = 1 /\ q.bit = Width /\ ~q.read
    <3>1. port' = Complete(q)
      BY <1>1, <1>5, <2>2, HearNothing
    <3> QED
      BY <1>1, <1>2, <1>3, <1>5, <2>2, <3>1, CompleteByte
  <2>3. CASE port' = Tick(q, {}) /\ ~(q.bit = Width /\ ~q.read)
    BY <1>1, <1>3, <1>5, <2>3, HearNothing DEF SameData, SameEngine
  <2> QED
    BY <1>6, <2>1, <2>2, <2>3
<1> HIDE DEF t, u, N
<1>8. /\ t' \in 1 .. N
      /\ t # 1 => t' = t - 1
  BY <1>2, <1>6
<1> DEFINE c == port.bit = Width
           d == port'.bit = Width
           G == N + Slow + 1 + N + Writing
<1>9. /\ c /\ port.read => Remaining = u + 1 + G
      /\ c /\ ~port.read => Remaining = t + Slow + 1 + N + Writing
      /\ ~c => Remaining = u + 1 + N + Writing
  BY <1>2, <1>3 DEF Rank, N, Writing
<1>10. /\ d /\ port'.read => Remaining' = u' + 1 + G
       /\ d /\ ~port'.read => Remaining' = t' + Slow + 1 + N + Writing
       /\ ~d /\ port'.read => Remaining' = u' + 1 + N + Writing
       /\ ~d /\ ~port'.read => Remaining' <= t' + Waste(u') + 1 + N
       /\ Remaining' \in Nat
  <2>1. /\ ~port'.sending /\ Remaining' = Rank("awaitBit", port', t', u')
        /\ t' \in Nat /\ u' \in 0 .. Slow /\ Waste(u') \in Nat /\ N \in Nat
        /\ Slow \in Nat /\ Waste(Slow) \in Nat
    <3>1. u' \in 0 .. Slow
      <4>1. port.read => (u' = u - 1 /\ u >= 1) \/ u' = Slow
        BY <1>5
      <4>2. ~port.read => u' = u
        BY <1>5
      <4> QED
        BY <1>2, <4>1, <4>2
    <3>2. u' \in Nat
      BY <1>2, <3>1
    <3>3. Waste(u') \in Nat
      BY <3>2, WasteGrows
    <3> QED
      BY <1>2, <1>3, <1>7, <1>8, <3>1, <3>3
  <2>2. CASE d
    <3>1. Remaining' = IF port'.read THEN u' + 1 + G ELSE t' + Slow + 1 + N + Writing
      BY <2>1, <2>2 DEF Rank, N, Writing
    <3> QED
      BY <2>1, <2>2, <3>1 DEF Writing, N
  <2>3. CASE ~d
    <3>1. CASE port'.read
      <4>1. Remaining' = u' + 1 + N + Writing
        BY <2>1, <2>3, <3>1 DEF Rank, N, Writing
      <4> QED
        BY <2>1, <2>3, <3>1, <4>1 DEF Writing, N
    <3>2. CASE ~port'.read
      <4>1. \/ Remaining' = t' + Waste(u') + 1 + N
            \/ Remaining' = 0 + Waste(u') + 1 + N
        BY <2>1, <2>3, <3>2 DEF Rank, N
      <4> HIDE DEF d, t, u, N
      <4> QED
        BY <2>1, <2>3, <3>2, <4>1
    <3> QED
      BY <3>1, <3>2
  <2> QED
    BY <2>2, <2>3
<1>11. Writing = Waste(Slow) + 1 + N
  BY DEF Writing, N
<1>12. Remaining' <= Remaining - 1
  <2>1. CASE port.read /\ q.read
    <3>1. u' = u - 1 /\ u >= 1 /\ port'.read /\ (d <=> c)
      BY <1>5, <1>7, <2>1
    <3> HIDE DEF c, d
    <3> QED
      BY <1>2, <1>9, <1>10, <1>11, <2>1, <3>1
  <2>2. CASE port.read /\ ~q.read
    <3>1. u' = Slow
      BY <1>5, <2>2
    <3>2. CASE ~c
      <4>1. ~d /\ ~port'.read
        BY <1>3, <1>5, <1>7, <2>2, <3>2
      <4>2. Remaining' <= t' + Waste(Slow) + 1 + N
        BY <1>2, <1>8, <1>10, <3>1, <4>1
      <4>3. Remaining = u + 1 + N + Writing
        BY <1>9, <3>2
      <4>4. Remaining' \in Int
        BY <1>2, <1>8, <1>10, <3>1, <4>1
      <4> HIDE DEF c, d, G
      <4> QED
        BY <1>2, <1>8, <1>11, <4>2, <4>3, <4>4
    <3>3. CASE c
      <4>1. CASE d
        <5>1. ~port'.read /\ t # 1
          BY <1>2, <1>5, <1>7, <2>2, <3>3, <4>1
        <5> HIDE DEF c, d
        <5> QED
          BY <1>2, <1>8, <1>9, <1>10, <1>11, <2>2, <3>3, <4>1, <5>1
      <4>2. CASE ~d
        <5>1. port'.read
          BY <1>7, <3>3, <4>2
        <5> HIDE DEF c, d
        <5> QED
          BY <1>2, <1>8, <1>9, <1>10, <1>11, <2>2, <3>1, <3>3, <4>2, <5>1
      <4> QED
        BY <4>1, <4>2
    <3> QED
      BY <3>2, <3>3
  <2>3. CASE ~port.read
    <3>1. c /\ ~q.read /\ u' = u
      BY <1>5, <2>3
    <3>2. CASE d
      <4>1. ~port'.read /\ t # 1
        BY <1>2, <1>5, <1>7, <3>1, <3>2
      <4> HIDE DEF c, d
      <4> QED
        BY <1>2, <1>8, <1>9, <1>10, <1>11, <2>3, <3>1, <3>2, <4>1
    <3>3. CASE ~d
      <4>1. port'.read /\ t = 1
        BY <1>7, <3>1, <3>3
      <4> HIDE DEF c, d
      <4> QED
        BY <1>2, <1>8, <1>9, <1>10, <1>11, <2>3, <3>1, <3>3, <4>1
    <3> QED
      BY <3>2, <3>3
  <2> QED
    BY <1>5, <2>1, <2>2, <2>3
<1> QED
  BY <1>3, <1>7, <1>12 DEF BitNearer, Nearer
(* It is the program's turn to write a byte of the answer. *)
LEMMA BitTurn ==
  ASSUME Sound, Served, Attentive, CpuStep, pc.phase = "awaitBit", ~port.sending,
         ~port.read, port.bit # Width
  PROVE  BitNearer
<1> DEFINE t == ToPoll
           u == Leisure
           N == SkipFactor
           R(x, v) == x + Waste(v) + 1 + N
<1>1. PICK q : /\ q \in Port /\ q.enabled /\ q.host = port.host
               /\ port' = IF t = 1 THEN Tick(q, port.host) ELSE q
               /\ Idles(q) \/ Takes(q) \/ Writes(q)
  BY InBit
<1>2. /\ t \in 1 .. N /\ u \in 0 .. Slow /\ N \in Nat \ {0} /\ Slow \in Nat
      /\ Width \in Nat \ {0} /\ Waste(u) \in Nat
  BY LoopTypes
<1>3. /\ t' = IF t = 1 THEN N ELSE t - 1
      /\ Arrived <=> port.host # {}
      /\ Arrived' <=> port'.host # {}
      /\ Remaining = Rank("awaitBit", port, t, u)
      /\ Remaining' = Rank("awaitBit", port', t', u')
      /\ port.host = {} /\ port.bit = 0
      /\ Len(sent["pc"]) = plan.out /\ Len(got["pc"]) < plan.in
  BY InBit
<1>4. Len(got["calc"]) = plan.out /\ MyTurn
  <2>1. Len(got["calc"]) = Len(sent["pc"]) /\ Len(sent["calc"]) = Len(got["pc"])
    BY Account
  <2> QED
    BY <1>3, <2>1 DEF MyTurn
<1>5. \/ t # 1 /\ port' = q /\ t' = t - 1
      \/ t = 1 /\ port' = Tick(q, {}) /\ t' = N
  BY <1>1, <1>3
<1> HIDE DEF t, u, N
<1>6. /\ port.ready => Remaining = R(0, u)
      /\ ~port.ready => Remaining = R(t, u)
  <2>1. Remaining = (IF port.ready THEN 0 ELSE t) + Waste(u) + 1 + N
    BY <1>2, <1>3 DEF Rank, N
  <2> QED
    BY <2>1
<1>7. CASE Writes(q)
  <2>1. q.sending /\ q.bit = 0 /\ port.ready /\ got' = got
    BY <1>7 DEF Writes
  <2>2. CASE t # 1
    <3>1. port' = q /\ Remaining' = t - 1
      BY <1>2, <1>3, <1>5, <2>1, <2>2 DEF Rank
    <3>2. Remaining' <= Remaining - 1
      BY <1>2, <1>6, <2>1, <3>1
    <3> QED
      BY <1>1, <1>3, <1>4, <2>1, <3>1, <3>2 DEF BitNearer, Nearer
  <2>3. CASE t = 1
    <3>1. port' = Tick(q, {})
      BY <1>5, <2>3
    <3>2. port'.host = {q.out[q.bit]} /\ port'.enabled
      BY <1>1, <1>2, <2>1, <3>1, SendAnnounce DEF SameData
    <3> QED
      BY <1>3, <1>4, <2>1, <3>2 DEF BitNearer, Nearer
  <2> QED
    BY <2>2, <2>3
<1>8. CASE Idles(q)
  <2>1. SameData(port, q) /\ SameEngine(port, q)
    BY <1>8 DEF Idles
  <2>2. ~q.sending /\ ~q.read /\ q.bit = 0
    BY <1>3, <2>1, Zenon DEF SameData, SameEngine
  <2>3. /\ port.ready => u >= 1 /\ u' = u - 1
        /\ ~port.ready => u' = u
    BY <1>4, <1>8 DEF Idles, u
  <2>4. u' \in Nat /\ Waste(u') \in Nat
    <3>1. u' \in Nat
      BY <1>2, <2>3
    <3> QED
      BY <3>1, WasteGrows
  <2>5. port.ready => Waste(u) = Waste(u') + N
    <3> SUFFICES ASSUME port.ready PROVE Waste(u) = Waste(u') + N
      OBVIOUS
    <3>1. Waste(u' + 1) = Waste(u') + SkipFactor
      BY <2>4, WasteGrows
    <3>2. u = u' + 1
      BY <1>2, <2>3
    <3> QED
      BY <3>1, <3>2 DEF N
  <2>6. /\ port'.enabled /\ ~port'.sending /\ ~port'.read /\ port'.bit = 0
        /\ port'.host = {} /\ (t = 1 => port'.ready)
    <3>1. CASE t # 1
      BY <1>1, <1>3, <1>5, <2>2, <3>1
    <3>2. CASE t = 1
      <4>1. port' = Tick(q, {})
        BY <1>5, <3>2
      <4>2. ~(q.bit = Width /\ ~q.read)
        BY <1>2, <2>2
      <4>3. SameData(q, port') /\ SameEngine(q, port')
        BY <1>1, <2>2, <4>1, <4>2, HearNothing
      <4>4. port'.ready
        BY <1>1, <2>2, <4>1, HearReady
      <4> QED
        BY <1>1, <1>3, <2>2, <4>3, <4>4, Zenon DEF SameData, SameEngine
    <3> QED
      BY <3>1, <3>2
  <2>7. Remaining' = (IF port'.ready THEN 0 ELSE t') + Waste(u') + 1 + N
    BY <1>2, <1>3, <2>6 DEF Rank, N
  <2>8. CASE t = 1
    <3>1. Remaining' = R(0, u')
      BY <2>6, <2>7, <2>8
    <3>2. Remaining' <= Remaining - 1
      BY <1>2, <1>6, <2>3, <2>4, <2>5, <2>8, <3>1
    <3> QED
      BY <1>3, <2>6, <3>2 DEF BitNearer, Nearer
  <2>9. CASE t # 1
    <3>1. t' = t - 1 /\ t - 1 \in Nat
      BY <1>2, <1>5, <2>9
    <3>2. Remaining' \in Int /\ Remaining' <= R(t - 1, u')
      BY <1>2, <2>4, <2>7, <3>1
    <3>3. Remaining' <= Remaining - 1
      BY <1>2, <1>6, <2>3, <2>4, <2>5, <2>9, <3>1, <3>2
    <3> QED
      BY <1>3, <2>6, <3>3 DEF BitNearer, Nearer
  <2> QED
    BY <2>8, <2>9
<1> QED
  BY <1>1, <1>7, <1>8 DEF Takes
LEMMA CpuInBit ==
  ASSUME Sound, Served, Attentive, CpuStep, pc.phase = "awaitBit"
  PROVE  BitNearer
BY BitAnnounced, BitUnread, BitTurn

LEMMA TickEnabled ==
  ASSUME NEW p \in Port, NEW L \in SUBSET Line
  PROVE  Tick(p, L).enabled = p.enabled
<1>1. SendTick(p, L).enabled = p.enabled
  BY DEF SendTick, Port
<1>2. /\ \A q : HearIdle(q).enabled = q.enabled
      /\ \A q : HearFull(q).enabled = q.enabled
      /\ \A q, b : HearBit(q, b).enabled = q.enabled
  BY DEF HearIdle, HearFull, HearBit, Complete
<1>3. ReceiveTick(p, L).enabled = p.enabled
  BY <1>2 DEF ReceiveTick, Port
<1> QED
  BY <1>1, <1>3 DEF Tick

LEMMA CpuEnabled ==
  ASSUME Sound, Served, Attentive, CpuStep
  PROVE  port'.enabled
<1>1. PICK q : Becomes(q)
  BY Instruction
<1>2. q.host \cup vout \in SUBSET Line
  BY <1>1, Typed DEF Becomes, Port, Sound
<1> QED
  BY <1>1, <1>2, TickEnabled DEF Becomes

(* The wait before a packet gives the assist the poll that ends its own    *)
(* sending.                                                                *)
LEMMA CpuInDelay ==
  ASSUME Sound, Served, Attentive, CpuStep, pc.phase = "delay"
  PROVE  port'.sending => ToPoll' <= pc'.steps
<1> DEFINE t == ToPoll
           n == pc.steps
<1>1. PICK q : Becomes(q) /\ (Idles(q) \/ Takes(q) \/ Writes(q))
  BY Instruction
<1>2. ~Writes(q)
  BY TurnInsideExchange DEF Writes
<1>3. /\ q \in Port /\ q.enabled /\ q.sending = port.sending
      /\ q.bit = port.bit /\ q.host = port.host
  BY <1>1, <1>2 DEF Becomes, Idles, Takes, SameEngine
<1>4. port.host = {} /\ vout = {} /\ (port.sending => port.bit = Width)
  BY QuietBeforeSending
<1>5. /\ t' = IF t = 1 THEN SkipFactor ELSE t - 1
      /\ port' = IF t = 1 THEN Tick(q, {}) ELSE q
      /\ pc'.steps = n - 1 /\ n \in Nat /\ t \in 1 .. SkipFactor
  BY <1>1, <1>3, <1>4, Instruction, LoopTypes DEF Becomes
<1>6. port.sending => t <= n
  BY DEF Served
<1> HIDE DEF t, n
<1>7. CASE t = 1
  <2>1. port' = Tick(q, {})
    BY <1>5, <1>7
  <2>2. CASE q.sending
    BY <1>3, <1>4, <2>1, <2>2, SendDone
  <2>3. CASE ~q.sending /\ q.bit = Width /\ ~q.read
    BY <1>3, <2>1, <2>3, HearNothing, CompleteByte
  <2>4. CASE ~q.sending /\ ~(q.bit = Width /\ ~q.read)
    BY <1>3, <2>1, <2>4, HearNothing DEF SameEngine
  <2> QED
    BY <2>2, <2>3, <2>4
<1>8. CASE t # 1
  BY <1>3, <1>5, <1>6, <1>8 DEF t
<1> QED
  BY <1>7, <1>8
LEMMA RemainingBound ==
  Sound => Remaining \in 1 .. LongestWait /\ LongestWait \in Nat
<1> SUFFICES ASSUME Sound PROVE Remaining \in 1 .. LongestWait /\ LongestWait \in Nat
  OBVIOUS
<1>1. Remaining \in 1 .. LongestWait
  BY LoopTypes, RankBound DEF Remaining
<1>2. LongestWait \in Nat
  BY LoopTypes DEF LongestWait, Writing
<1> QED
  BY <1>1, <1>2

(* An attentive program disturbs nothing. *)
LEMMA AttentiveInTurn ==
  ASSUME Attentive, CpuStep
  PROVE  InTurn
BY DEF InTurn, StrayByte, SwitchOff

LEMMA CpuKeepsServed ==
  ASSUME Sound, Served, Attentive, CpuStep
  PROVE  Served'
<1>1. /\ pc.steps \in Nat
      /\ pc.phase \in Loops \cup {"delay"} => pc.steps > 0 /\ pc'.steps = pc.steps - 1
      /\ plan' = plan
      /\ sent'["pc"] = sent["pc"] /\ got'["pc"] = got["pc"]
      /\ pc'.phase = pc.phase /\ pc'.tries = pc.tries
  BY Instruction
<1>2. port'.enabled /\ pc'.phase # "failed"
  BY <1>1, CpuEnabled DEF Served
<1>3. pc'.phase = "delay" /\ port'.sending => ToPoll' <= pc'.steps
  BY <1>1, CpuInDelay
<1>4. pc'.phase \in Loops => InTime'
  <2> SUFFICES ASSUME pc.phase \in Loops PROVE InTime'
    BY <1>1
  <2>1. Nearer /\ (port'.sending => Len(got'["calc"]) = plan.out)
    BY CpuInAck, CpuInIdle, CpuInBit, CpuInRelease DEF Loops, BitNearer
  <2>2. /\ pc.steps <= SkipFactor
        /\ Arrived \/ pc.tries + Remaining <= Patience + pc.steps
    BY DEF Served, InTime
  <2>3. Remaining \in Nat /\ Remaining' \in Nat /\ Patience \in Nat /\ SkipFactor \in Nat
    <3>1. Sound'
      BY AttentiveInTurn, CpuStepKeeps
    <3>2. (Remaining \in 1 .. LongestWait /\ LongestWait \in Nat)'
      BY <3>1, RemainingBound, PTL
    <3>3. LongestWait' = LongestWait
      BY DEF LongestWait, Writing, Waste
    <3>4. Remaining \in 1 .. LongestWait /\ LongestWait \in Nat
      BY RemainingBound
    <3> QED
      BY <3>2, <3>3, <3>4, TimingAssumption
  <2>4. pc.tries \in Nat
    BY Typed DEF Sound, PcState
  <2>5. pc'.steps <= SkipFactor
    BY <1>1, <2>2, <2>3
  <2>6. Arrived' \/ pc'.tries + Remaining' <= Patience + pc'.steps
    <3>1. CASE Arrived'
      BY <3>1
    <3>2. CASE ~Arrived /\ Remaining' <= Remaining - 1
      <4>1. pc.tries + Remaining <= Patience + pc.steps
        BY <2>2, <3>2
      <4>2. pc.tries + Remaining' <= Patience + (pc.steps - 1)
        BY <1>1, <2>3, <2>4, <3>2, <4>1
      <4> QED
        BY <1>1, <4>2
    <3> QED
      BY <2>1, <3>1, <3>2 DEF Nearer
  <2> QED
    BY <1>1, <2>1, <2>5, <2>6 DEF InTime
<1>5. pc'.phase = "awaitAck" => ~port'.sending
  BY <1>1, CpuInAck
<1>6. pc'.phase = "awaitIdle" /\ (port'.sending \/ port'.ready) =>
        port'.host = {} /\ pc'.steps < ToPoll'
  BY <1>1, CpuInIdle
<1>7. pc'.phase \in {"awaitBit", "awaitRelease"} =>
        Len(sent'["pc"]) = plan'.out /\ Len(got'["pc"]) < plan'.in
  BY <1>1 DEF Served
<1> QED
  BY <1>2, <1>3, <1>4, <1>5, <1>6, <1>7 DEF Served
-----------------------------------------------------------------------------
(***************************************************************************)
(* The steps of the PC's code: every loop is entered with all its patience *)
(* and left before it is over.                                             *)
(***************************************************************************)
LEMMA PcMoves ==
  ASSUME Sound, Served, PCStep
  PROVE  /\ Sound' /\ pc \in PcState /\ pc.phase # "failed"
         /\ port' = port /\ port \in Port /\ port.enabled /\ Flags(port)
         /\ ToPoll' = ToPoll /\ ToPoll \in 1 .. SkipFactor
         /\ Leisure' = Leisure
         /\ got'["calc"] = got["calc"]
<1>1. port' = port /\ skip' = skip /\ idled' = idled
  BY DEF PCStep, SendPacket, FirstByte, Acknowledged, NextBit, NextByte, PacketSent,
         BitHeard, BitTaken, ByteTaken, WaitStep, TimeOut, NextFile, Unmoved
<1>2. Sound'
  BY PcStepKeeps DEF NextFile, Served
<1>3. /\ TypeOK /\ port \in Port /\ pc \in PcState /\ got \in [End -> Seq(Byte)]
      /\ "calc" \in End
  BY Typed DEF Sound, End
<1>4. Flags(port) /\ port.enabled /\ pc.phase # "failed"
  BY PcBefore DEF Safe, Served
<1>5. ToPoll \in 1 .. SkipFactor
  BY LoopTypes
<1>6. got'["calc"] = got["calc"]
  BY <1>3
  DEF PCStep, SendPacket, FirstByte, Acknowledged, NextBit, NextByte, PacketSent,
      BitHeard, BitTaken, ByteTaken, WaitStep, TimeOut, NextFile
<1> QED
  BY <1>1, <1>2, <1>3, <1>4, <1>5, <1>6 DEF ToPoll, Leisure

LEMMA EntersInTime ==
  ASSUME Sound', Patience >= LongestWait, pc'.tries = 0, pc'.steps = 0,
         port'.sending => Len(got'["calc"]) = plan'.out
  PROVE  InTime'
<1>1. (Remaining \in 1 .. LongestWait /\ LongestWait \in Nat)'
  BY RemainingBound, PTL
<1>2. LongestWait' = LongestWait
  BY DEF LongestWait, Writing, Waste
<1>3. Patience \in Nat /\ SkipFactor \in Nat
  BY TimingAssumption
<1>4. Remaining' <= Patience /\ Remaining' \in Nat
  BY <1>1, <1>2, <1>3
<1>5. /\ 0 <= SkipFactor
      /\ 0 + Remaining' <= Patience + 0
  <2>1. \A r, P, N \in Nat : r <= P => 0 <= N /\ 0 + r <= P + 0
    OBVIOUS
  <2> QED
    BY <1>3, <1>4, <2>1, Zenon
<1> QED
  BY <1>5 DEF InTime

LEMMA SendPacketServed ==
  ASSUME Sound, Served, SendPacket
  PROVE  Served'
<1>1. PICK k \in DelayLens : pc' = [pc EXCEPT !.phase = "delay", !.steps = k]
  BY DEF SendPacket
<1>2. PCStep
  BY DEF PCStep
<1>3. pc'.phase = "delay" /\ pc'.steps = k /\ port'.enabled
  BY <1>1, <1>2, PcMoves DEF PcState
<1>4. k \in Nat /\ k >= SkipFactor /\ SkipFactor \in Nat
  BY TimingAssumption
<1>5. ToPoll' <= pc'.steps
  BY <1>2, <1>3, <1>4, PcMoves
<1> QED
  BY <1>3, <1>5 DEF Served, Loops

(* Every loop that waits for the calculator to listen. *)
LEMMA AckServed ==
  ASSUME Sound, Served, PCStep, Patience >= LongestWait,
         pc'.phase = "awaitAck", pc'.tries = 0, pc'.steps = 0, ~port.sending
  PROVE  Served'
<1>1. port' = port /\ port.enabled /\ Sound'
  BY PcMoves
<1>2. InTime'
  BY <1>1, EntersInTime
<1> QED
  BY <1>1, <1>2 DEF Served

LEMMA FirstByteServed ==
  ASSUME Sound, Served, FirstByte, Patience >= LongestWait
  PROVE  Served'
<1>1. PCStep
  BY DEF PCStep
<1>2. pc.phase = "delay" /\ pc.steps = 0 /\ SendByte
  BY DEF FirstByte, At
<1>3. pc'.phase = "awaitAck" /\ pc'.tries = 0 /\ pc'.steps = 0
  BY <1>1, <1>2, PcMoves DEF SendByte, PcState
<1>4. ~port.sending
  BY <1>1, <1>2, PcMoves, TimingAssumption DEF Served
<1> QED
  BY <1>1, <1>3, <1>4, AckServed

LEMMA AcknowledgedServed ==
  ASSUME Sound, Served, Acknowledged, Patience >= LongestWait
  PROVE  Served'
<1>1. PCStep
  BY DEF PCStep
<1>2. pc.phase = "awaitAck" /\ pc.steps = 0 /\ low = Line
  BY DEF Acknowledged, At
<1>3. pc'.phase = "awaitIdle" /\ pc'.tries = 0 /\ pc'.steps = 0
  BY <1>1, <1>2, PcMoves DEF Acknowledged, PcState
<1>4. ~port.sending
  BY <1>2 DEF Served
<1>5. port.host # {}
  <2>1. Single(vout)
    BY <1>2, <1>4, ShapeOfAck
  <2> QED
    BY <1>2, <2>1, BitCounts DEF Single, low
<1>6. ~port.ready
  BY <1>1, <1>4, <1>5, PcMoves DEF Flags
<1>7. port' = port /\ port.enabled /\ Sound'
  BY <1>1, PcMoves
<1>8. InTime'
  BY <1>3, <1>4, <1>7, EntersInTime
<1> QED
  BY <1>3, <1>4, <1>6, <1>7, <1>8 DEF Served

LEMMA NextBitServed ==
  ASSUME Sound, Served, NextBit, Patience >= LongestWait
  PROVE  Served'
<1>1. PCStep
  BY DEF PCStep
<1>2. pc.phase = "awaitIdle" /\ pc.steps = 0 /\ pc.bit < Width - 1
  BY DEF NextBit, At
<1>3. pc'.phase = "awaitAck" /\ pc'.tries = 0 /\ pc'.steps = 0
  BY <1>1, <1>2, PcMoves DEF NextBit, PcState
<1>4. ~port.sending
  BY <1>2, ShapeOfIdle, WidthAssumption
<1> QED
  BY <1>1, <1>3, <1>4, AckServed

LEMMA NextByteServed ==
  ASSUME Sound, Served, NextByte, Patience >= LongestWait
  PROVE  Served'
<1>1. PCStep
  BY DEF PCStep
<1>2. pc.phase = "awaitIdle" /\ pc.steps = 0 /\ SendByte /\ Len(sent["pc"]) < plan.out
  BY DEF NextByte, At
<1>3. pc'.phase = "awaitAck" /\ pc'.tries = 0 /\ pc'.steps = 0
  BY <1>1, <1>2, PcMoves DEF SendByte, PcState
<1>4. ~port.sending
  <2>1. port.sending => Len(got["calc"]) = plan.out
    BY <1>2 DEF Served, InTime, Loops
  <2>2. /\ Len(got["calc"]) \in Nat /\ Len(sent["pc"]) \in Nat /\ plan.out \in Nat
        /\ Len(got["calc"]) <= Len(sent["pc"])
    BY <1>2, Account
  <2> QED
    BY <1>2, <2>1, <2>2
<1> QED
  BY <1>1, <1>3, <1>4, AckServed

(* The loops in which the PC receives the answer. *)
LEMMA AnswerServed ==
  ASSUME Sound, Served, PCStep, Patience >= LongestWait,
         pc.phase \in Loops \ {"awaitAck"},
         pc'.tries = 0, pc'.steps = 0, plan' = plan, sent' = sent,
         Len(sent["pc"]) = plan.out,
         \/ pc'.phase \in {"awaitBit", "awaitRelease"} /\ Len(got'["pc"]) < plan.in
         \/ pc'.phase = "between"
  PROVE  Served'
<1>1. port' = port /\ port.enabled /\ Sound' /\ got'["calc"] = got["calc"]
  BY PcMoves
<1>2. port.sending => Len(got["calc"]) = plan.out
  BY DEF Served, InTime
<1>3. InTime'
  BY <1>1, <1>2, EntersInTime
<1> QED
  BY <1>1, <1>3 DEF Served, Loops

LEMMA PacketSentServed ==
  ASSUME Sound, Served, PacketSent, Patience >= LongestWait
  PROVE  Served'
<1>1. PCStep
  BY DEF PCStep
<1>2. /\ pc.phase = "awaitIdle" /\ pc.steps = 0 /\ Len(sent["pc"]) = plan.out
      /\ plan' = plan /\ sent' = sent /\ got' = got
  BY DEF PacketSent, At
<1>3. /\ pc'.phase = IF Len(got["pc"]) < plan.in THEN "awaitBit" ELSE "between"
      /\ pc'.tries = 0 /\ pc'.steps = 0
  BY <1>1, <1>2, PcMoves DEF PacketSent, PcState
<1> QED
  BY <1>1, <1>2, <1>3, AnswerServed DEF Loops

LEMMA BitHeardServed ==
  ASSUME Sound, Served, BitHeard, Patience >= LongestWait
  PROVE  Served'
<1>1. PCStep
  BY DEF PCStep
<1>2. /\ pc.phase = "awaitBit" /\ pc.steps = 0 /\ low # {}
      /\ plan' = plan /\ sent' = sent /\ got' = got
  BY DEF BitHeard, At
<1>3. low # Line
  BY <1>2, ShapeOfBit, BitCounts DEF Single
<1>4. pc'.phase = "awaitRelease" /\ pc'.tries = 0 /\ pc'.steps = 0
  BY <1>1, <1>2, <1>3, PcMoves DEF BitHeard, PcState
<1>5. Len(sent["pc"]) = plan.out /\ Len(got["pc"]) < plan.in
  BY <1>2 DEF Served
<1> QED
  BY <1>1, <1>2, <1>4, <1>5, AnswerServed DEF Loops

LEMMA BitTakenServed ==
  ASSUME Sound, Served, BitTaken, Patience >= LongestWait
  PROVE  Served'
<1>1. PCStep
  BY DEF PCStep
<1>2. /\ pc.phase = "awaitRelease" /\ pc.steps = 0
      /\ plan' = plan /\ sent' = sent /\ got' = got
  BY DEF BitTaken, At
<1>3. pc'.phase = "awaitBit" /\ pc'.tries = 0 /\ pc'.steps = 0
  BY <1>1, <1>2, PcMoves DEF BitTaken, PcState
<1>4. Len(sent["pc"]) = plan.out /\ Len(got["pc"]) < plan.in
  BY <1>2 DEF Served
<1> QED
  BY <1>1, <1>2, <1>3, <1>4, AnswerServed DEF Loops

LEMMA ByteTakenServed ==
  ASSUME Sound, Served, ByteTaken, Patience >= LongestWait
  PROVE  Served'
<1>1. PCStep
  BY DEF PCStep
<1>2. /\ pc.phase = "awaitRelease" /\ pc.steps = 0 /\ plan' = plan /\ sent' = sent
  BY DEF ByteTaken, At
<1>3. /\ pc'.phase = IF Len(got'["pc"]) < plan.in THEN "awaitBit" ELSE "between"
      /\ pc'.tries = 0 /\ pc'.steps = 0
  BY <1>1, <1>2, PcMoves DEF ByteTaken, PcState
<1>4. Len(sent["pc"]) = plan.out
  BY <1>2 DEF Served
<1> QED
  BY <1>1, <1>2, <1>3, <1>4, AnswerServed DEF Loops
LEMMA WaitServed ==
  ASSUME Sound, Served, WaitStep
  PROVE  Served'
<1>1. PCStep
  BY DEF PCStep
<1>2. /\ pc.phase \in Loops /\ pc.steps = 0 /\ ~Arrived
      /\ plan' = plan /\ sent' = sent /\ got' = got /\ vout' = vout
  BY DEF WaitStep, Waiting, Loops
<1>3. PICK k \in StepLens : pc' = [pc EXCEPT !.steps = k, !.tries = @ + 1]
  BY DEF WaitStep
<1>4. /\ pc'.phase = pc.phase /\ pc'.tries = pc.tries + 1 /\ pc'.steps = k
      /\ pc.tries \in Nat
  BY <1>1, <1>3, PcMoves DEF PcState
<1>5. k \in 1 .. SkipFactor /\ SkipFactor \in Nat /\ Patience \in Nat
  BY TimingAssumption
<1>6. /\ port' = port /\ port.enabled /\ ToPoll' = ToPoll /\ Leisure' = Leisure
      /\ pc.phase # "failed"
  BY <1>1, PcMoves
<1>7. InTime'
  <2>1. /\ pc.tries + Remaining <= Patience + 0
        /\ port.sending => Len(got["calc"]) = plan.out
    BY <1>2 DEF Served, InTime
  <2>2. Remaining' = Remaining /\ Remaining \in Nat
    <3>1. Remaining' = Remaining
      BY <1>4, <1>6 DEF Remaining, Rank, Writing, Waste
    <3> QED
      BY <3>1, RemainingBound
  <2>3. pc'.tries + Remaining' <= Patience + pc'.steps
    BY <1>4, <1>5, <2>1, <2>2
  <2> QED
    BY <1>2, <1>4, <1>5, <1>6, <2>1, <2>3 DEF InTime
<1>8. pc.phase = "awaitIdle" => ~port.sending /\ ~port.ready
  <2> SUFFICES ASSUME pc.phase = "awaitIdle" PROVE ~port.sending /\ ~port.ready
    OBVIOUS
  <2>1. low # {} /\ low = port.host
    BY <1>2, ShapeOfIdle DEF Arrived
  <2> QED
    BY <2>1 DEF Served
<1> QED
  BY <1>2, <1>4, <1>6, <1>7, <1>8 DEF Served, Loops

LEMMA NeverOver ==
  ASSUME Sound, Served
  PROVE  ~TimeOut
<1> SUFFICES ASSUME TimeOut PROVE FALSE
  OBVIOUS
<1>1. pc.phase \in Loops /\ pc.steps = 0 /\ ~Arrived /\ pc.tries = Patience
  BY DEF TimeOut, Waiting, Loops
<1>2. Patience + Remaining <= Patience + 0
  BY <1>1 DEF Served, InTime
<1>3. Remaining \in 1 .. LongestWait /\ LongestWait \in Nat /\ Patience \in Nat
  BY RemainingBound, TimingAssumption
<1> QED
  BY <1>2, <1>3

LEMMA InitServed == Init => Served
BY DEF Init, Served, Enable, PowerOn, Loops

LEMMA NextServed ==
  ASSUME Attentive, Patience >= LongestWait
  PROVE  Sound /\ Served /\ [Next]_vars => Sound' /\ Served'
<1> SUFFICES ASSUME Sound, Served, [Next]_vars PROVE Sound' /\ Served'
  OBVIOUS
<1>1. CASE CpuStep
  BY <1>1, AttentiveInTurn, CpuStepKeeps, CpuKeepsServed
<1>2. CASE PCStep
  <2>1. ~NextFile
    BY DEF NextFile, Served
  <2> QED
    BY <1>2, <2>1, PcMoves, SendPacketServed, FirstByteServed,
       AcknowledgedServed, NextBitServed, NextByteServed, PacketSentServed,
       BitHeardServed, BitTakenServed, ByteTakenServed, WaitServed, NeverOver
    DEF PCStep
<1>3. CASE UNCHANGED vars
  BY <1>3, SoundStutters DEF vars, Served, InTime, Arrived, low, Remaining, Rank, ToPoll, Leisure,
              Writing, Waste
<1> QED
  BY <1>1, <1>2, <1>3 DEF Next

(***************************************************************************)
(* link_send and link_recv never throw LERR_TIMEOUT, nor LERR_LINK, when   *)
(* the program serves its link port: for every width of a byte, every      *)
(* round of the skip count and every length of the waits, as long as       *)
(* LINK_TIMEOUT allows as many link_waits as the longest wait for the      *)
(* program has instructions.                                               *)
(***************************************************************************)
THEOREM ServedNeverTimesOut ==
  ASSUME Attentive, Patience >= LongestWait
  PROVE  Spec => []NoTimeOut
<1>1. Init => Sound /\ Served
  BY InitSound, InitServed
<1>2. Sound /\ Served /\ [Next]_vars => Sound' /\ Served'
  BY NextServed
<1>3. Served => NoTimeOut
  BY DEF Served, NoTimeOut
<1> QED
  BY <1>1, <1>2, <1>3, PTL DEF Spec

=============================================================================
