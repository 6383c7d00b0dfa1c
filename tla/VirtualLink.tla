---------------------------- MODULE VirtualLink ----------------------------
(***************************************************************************)
(* The virtual link between the PC and a calculator: link_send, link_recv  *)
(* and link_wait talk to the link assist bit by bit.  PC and CPU share one *)
(* thread: the PC's code looks at the cable only between two link_waits,   *)
(* the CPU runs only inside one.  Time is counted in instructions, since   *)
(* handle_pio polls port 09 every SkipFactor instructions.                 *)
(*                                                                         *)
(* The PC's side makes exchanges, the shape of link_send_var: one packet   *)
(* to the calculator and the bytes of the calculator's answer, if any.     *)
(*                                                                         *)
(* An exchange that fails leaves the cable as it is; the next file starts  *)
(* with link_init, which lets go of the PC's line and sends again.         *)
(*                                                                         *)
(* sent, got and disturbed are history variables, as in LinkCable: the     *)
(* link is disturbed when the program writes out of turn or disables its   *)
(* assist in the middle of something, and when the PC begins the next file *)
(* while a byte of the failed one is still under way.                      *)
(***************************************************************************)
EXTENDS LinkAssist, Sequences

CONSTANTS SkipFactor,  \* instructions from one poll to the next, 3
          StepLens,    \* how many instructions LINK_STEP may last
          DelayLens,   \* how many instructions LINK_DELAY may last
          Patience,    \* LINK_TIMEOUT / LINK_STEP
          Slow,        \* instructions an attentive program leaves work undone
          Attentive,   \* whether the program serves its link port
          MaxPacket,   \* bound on the bytes of a packet and of its answer
          MaxSent      \* bound on the bytes the PC sends

ASSUME TimingAssumption ==
  /\ SkipFactor \in Nat \ {0} /\ Patience \in Nat /\ Slow \in Nat
  /\ StepLens \subseteq 1 .. SkipFactor
  /\ DelayLens \subseteq Nat /\ \A k \in DelayLens : k >= SkipFactor

ASSUME BoundsAssumption ==
  Attentive \in BOOLEAN /\ MaxPacket \in Nat \ {0} /\ MaxSent \in Nat

VARIABLES port,   \* the calculator's link assist
          skip,   \* skip_count of the entry of port 09
          idled,  \* instructions an attentive program left work undone
          pc,     \* where the PC's code is, and its locals
          vout,   \* the lines the PC holds low
          plan,   \* bytes sent to and by the calculator after this exchange
          sent, got, disturbed

vars == <<port, skip, idled, pc, vout, plan, sent, got, disturbed>>

End == {"pc", "calc"}

Peer == [e \in End |-> IF e = "pc" THEN "calc" ELSE "pc"]

(* Between two packets, in link_wait(LINK_DELAY), in the first and second  *)
(* loop of link_send, in those of link_recv, and after a longjmp.          *)
Phase == {"between", "delay", "awaitAck", "awaitIdle", "awaitBit",
          "awaitRelease", "failed"}

LINK_ERR == {"LERR_SUCCESS", "LERR_LINK", "LERR_TIMEOUT"}

TypeOK ==
  /\ port \in Port
  /\ skip \in 0 .. SkipFactor - 1
  /\ idled \in 0 .. Slow
  /\ pc \in [phase : Phase, bit : 0 .. Width - 1, byte : Byte, tries : 0 .. Patience,
             steps : Nat, err : LINK_ERR]
  /\ vout \in SUBSET Line
  /\ plan \in [out : Nat, in : Nat]
  /\ sent \in [End -> Seq(Byte)]
  /\ got \in [End -> Seq(Byte)]
  /\ disturbed \in BOOLEAN

(* A transfer begins when the program has its link assist on. *)
Init ==
  /\ port = Enable(PowerOn)
  /\ skip \in 0 .. SkipFactor - 1
  /\ idled = 0
  /\ pc = [phase |-> "between", bit |-> 0, byte |-> ZeroByte, tries |-> 0,
           steps |-> 0, err |-> "LERR_SUCCESS"]
  /\ vout = {}
  /\ plan = [out |-> 0, in |-> 0]
  /\ sent = [e \in End |-> <<>>]
  /\ got = [e \in End |-> <<>>]
  /\ disturbed = FALSE

-----------------------------------------------------------------------------
(* The CPU runs inside link_wait and, outside a transfer, in the run loop. *)
Running == pc.steps > 0 \/ pc.phase \in {"between", "failed"}

(***************************************************************************)
(* One CPU_step: the instruction leaves the port as p, then handle_pio     *)
(* polls port 09 when its skip count says so.                              *)
(***************************************************************************)
Step(p) ==
  /\ Running
  /\ port' = IF p.enabled /\ skip = 0 THEN Tick(p, p.host \cup vout) ELSE p
  /\ skip' = IF p.enabled THEN (skip + 1) % SkipFactor ELSE skip
  /\ pc' = [pc EXCEPT !.steps = IF @ > 0 THEN @ - 1 ELSE 0]
  /\ UNCHANGED <<vout, plan>>

(* The program knows from the packets' lengths when it has to answer. *)
MyTurn == Len(got["calc"]) = plan.out /\ Len(sent["calc"]) < plan.in

WorkToDo == port.read \/ (MyTurn /\ port.ready)

(* An instruction that does not serve the link port. *)
Idling ==
  IF Attentive /\ WorkToDo THEN idled < Slow /\ idled' = idled + 1
                           ELSE idled' = idled

Compute ==
  /\ Idling
  /\ Step(port)
  /\ UNCHANGED <<sent, got, disturbed>>

ReadBack ==
  /\ Idling
  /\ Step(PeekOut(port))
  /\ UNCHANGED <<sent, got, disturbed>>

ReadByte ==
  /\ port.read
  /\ Step(TakeByte(port))
  /\ idled' = 0
  /\ got' = [got EXCEPT !["calc"] = Append(@, port.in)]
  /\ UNCHANGED <<sent, disturbed>>

(* OUT (0Dh),A after a status that said ready.  While it is the program's  *)
(* turn the PC holds no line, so that no poll makes that status stale.     *)
WriteByte ==
  /\ MyTurn /\ port.ready /\ port.enabled
  /\ \E x \in Byte :
       /\ Step(PutByte(port, x))
       /\ sent' = [sent EXCEPT !["calc"] = Append(@, x)]
  /\ idled' = 0
  /\ UNCHANGED <<got, disturbed>>

(* OUT (0Dh),A at any other moment: in the middle of the PC's packet, into *)
(* a transfer the program has lost count of, or on a status that is stale. *)
StrayByte ==
  /\ ~Attentive /\ port.enabled /\ ~(MyTurn /\ port.ready)
  /\ Len(sent["calc"]) < MaxSent
  /\ \E x \in Byte :
       /\ Step(PutByte(port, x))
       /\ sent' = [sent EXCEPT !["calc"] = Append(@, x)]
  /\ disturbed' = TRUE
  /\ UNCHANGED <<idled, got>>

SwitchOff ==
  /\ ~Attentive /\ port.enabled
  /\ Step(Disable(port))
  /\ disturbed' = (disturbed \/ ~Quiet(port))
  /\ UNCHANGED <<idled, sent, got>>

SwitchOn ==
  /\ ~port.enabled
  /\ Step(Enable(port))
  /\ UNCHANGED <<idled, sent, got, disturbed>>

CpuStep ==
  \/ Compute \/ ReadBack \/ ReadByte \/ WriteByte \/ StrayByte
  \/ SwitchOff \/ SwitchOn

-----------------------------------------------------------------------------
(* The PC's code, which runs while no instruction of a link_wait is left.  *)
low == port.host \cup vout

At(phase) == pc.phase = phase /\ pc.steps = 0

Unmoved == UNCHANGED <<port, skip, idled, disturbed>>

(* The next exchange begins with a packet without the wait before it. *)
HastySendPacket ==
  /\ pc.phase = "between"
  /\ \E n \in 1 .. MaxPacket, m \in 0 .. MaxPacket :
       /\ plan.out + n <= MaxSent
       /\ plan' = [out |-> plan.out + n, in |-> plan.in + m]
       /\ pc' = [pc EXCEPT !.phase = "delay"]
  /\ UNCHANGED <<vout, sent, got>> /\ Unmoved

(* link_send_pkt up to its link_wait(LINK_DELAY) *)
SendPacket ==
  /\ pc.phase = "between"
  /\ \E n \in 1 .. MaxPacket, m \in 0 .. MaxPacket, k \in DelayLens :
       /\ plan.out + n <= MaxSent
       /\ plan' = [out |-> plan.out + n, in |-> plan.in + m]
       /\ pc' = [pc EXCEPT !.phase = "delay", !.steps = k]
  /\ UNCHANGED <<vout, sent, got>> /\ Unmoved

(* link_send announces the first bit of a byte. *)
SendByte ==
  \E x \in Byte :
    /\ pc' = [pc EXCEPT !.phase = "awaitAck", !.bit = 0, !.byte = x, !.tries = 0]
    /\ vout' = {x[0]}
    /\ sent' = [sent EXCEPT !["pc"] = Append(@, x)]

FirstByte ==
  /\ At("delay")
  /\ SendByte
  /\ UNCHANGED <<plan, got>> /\ Unmoved

(* vlink = 0: the bit was acknowledged. *)
Acknowledged ==
  /\ At("awaitAck") /\ low = Line
  /\ pc' = [pc EXCEPT !.phase = "awaitIdle", !.tries = 0]
  /\ vout' = {}
  /\ UNCHANGED <<plan, sent, got>> /\ Unmoved

(* The next bit does not wait for the idle cable. *)
HastyNextBit ==
  /\ At("awaitIdle") /\ pc.bit < Width - 1
  /\ pc' = [pc EXCEPT !.phase = "awaitAck", !.bit = @ + 1, !.tries = 0]
  /\ vout' = {pc.byte[pc.bit + 1]}
  /\ UNCHANGED <<plan, sent, got>> /\ Unmoved

(* vlink = 3: the bit is through. *)
NextBit ==
  /\ At("awaitIdle") /\ low = {} /\ pc.bit < Width - 1
  /\ pc' = [pc EXCEPT !.phase = "awaitAck", !.bit = @ + 1, !.tries = 0]
  /\ vout' = {pc.byte[pc.bit + 1]}
  /\ UNCHANGED <<plan, sent, got>> /\ Unmoved

NextByte ==
  /\ At("awaitIdle") /\ low = {} /\ pc.bit = Width - 1
  /\ Len(sent["pc"]) < plan.out
  /\ SendByte
  /\ UNCHANGED <<plan, got>> /\ Unmoved

(* The packet is sent; link_recv_pkt follows when there is an answer. *)
PacketSent ==
  /\ At("awaitIdle") /\ low = {} /\ pc.bit = Width - 1
  /\ Len(sent["pc"]) = plan.out
  /\ pc' = [pc EXCEPT !.phase = IF Len(got["pc"]) < plan.in THEN "awaitBit" ELSE "between",
                      !.bit = 0, !.tries = 0]
  /\ UNCHANGED <<vout, plan, sent, got>> /\ Unmoved

(* A line is low: the bit is acknowledged with the other line.  Both lines *)
(* low is LERR_LINK.                                                       *)
BitHeard ==
  /\ At("awaitBit") /\ low # {}
  /\ IF low = Line
       THEN pc' = [pc EXCEPT !.phase = "failed", !.err = "LERR_LINK"] /\ UNCHANGED vout
       ELSE LET b == CHOOSE l \in Line : low = {l}
            IN  /\ pc' = [pc EXCEPT !.phase = "awaitRelease", !.byte = ShiftIn(@, b),
                                    !.tries = 0]
                /\ vout' = {1 - b}
  /\ UNCHANGED <<plan, sent, got>> /\ Unmoved

(* The line is released whether or not the calculator did. *)
HastyBitTaken ==
  /\ At("awaitRelease") /\ pc.bit < Width - 1
  /\ pc' = [pc EXCEPT !.phase = "awaitBit", !.bit = @ + 1, !.tries = 0]
  /\ vout' = {}
  /\ UNCHANGED <<plan, sent, got>> /\ Unmoved

(* The calculator released its line, so the PC releases its own. *)
BitTaken ==
  /\ At("awaitRelease") /\ low # Line /\ pc.bit < Width - 1
  /\ pc' = [pc EXCEPT !.phase = "awaitBit", !.bit = @ + 1, !.tries = 0]
  /\ vout' = {}
  /\ UNCHANGED <<plan, sent, got>> /\ Unmoved

ByteTaken ==
  /\ At("awaitRelease") /\ low # Line /\ pc.bit = Width - 1
  /\ got' = [got EXCEPT !["pc"] = Append(@, pc.byte)]
  /\ pc' = [pc EXCEPT !.phase = IF Len(got'["pc"]) < plan.in THEN "awaitBit" ELSE "between",
                      !.bit = 0, !.tries = 0]
  /\ vout' = {}
  /\ UNCHANGED <<plan, sent>> /\ Unmoved

(* What each of the four loops waits for. *)
Arrived ==
  \/ pc.phase = "awaitAck" /\ low = Line
  \/ pc.phase = "awaitIdle" /\ low = {}
  \/ pc.phase = "awaitBit" /\ low # {}
  \/ pc.phase = "awaitRelease" /\ low # Line

Waiting ==
  /\ pc.phase \in {"awaitAck", "awaitIdle", "awaitBit", "awaitRelease"}
  /\ pc.steps = 0 /\ ~Arrived

(* The loop forgets to count. *)
EndlessWait ==
  /\ Waiting
  /\ \E k \in StepLens : pc' = [pc EXCEPT !.steps = k]
  /\ UNCHANGED <<vout, plan, sent, got>> /\ Unmoved

(* i < LINK_TIMEOUT: another link_wait(LINK_STEP) *)
WaitStep ==
  /\ Waiting /\ pc.tries < Patience
  /\ \E k \in StepLens : pc' = [pc EXCEPT !.steps = k, !.tries = @ + 1]
  /\ UNCHANGED <<vout, plan, sent, got>> /\ Unmoved

(* longjmp(exc_byte, LERR_TIMEOUT); vout keeps holding its line. *)
TimeOut ==
  /\ Waiting /\ pc.tries = Patience
  /\ pc' = [pc EXCEPT !.phase = "failed", !.err = "LERR_TIMEOUT"]
  /\ UNCHANGED <<vout, plan, sent, got>> /\ Unmoved

(* What the calculator has of the PC's bytes: read, in in, or in working. *)
Received ==
  got["calc"] \o (IF port.read THEN <<port.in>> ELSE <<>>)
             \o (IF ~port.sending /\ port.bit = Width THEN <<port.working>> ELSE <<>>)

(* The failed exchange has left no byte half way: all that was sent has    *)
(* been received, and the assist holds no line and no bit.                 *)
NothingUnderWay ==
  /\ Len(Received) = Len(sent["pc"]) /\ Len(got["pc"]) = Len(sent["calc"])
  /\ port.host = {}
  /\ port.sending \/ port.receiving => port.bit = Width

(* link_init of the next file, after one that failed.  The assist is not   *)
(* told: if a byte is half way in it, the next one is appended to it.      *)
NextFile ==
  /\ pc.phase = "failed"
  /\ pc' = [pc EXCEPT !.phase = "between", !.bit = 0, !.tries = 0,
                      !.err = "LERR_SUCCESS"]
  /\ vout' = {}
  /\ plan' = [out |-> Len(sent["pc"]), in |-> Len(got["pc"])]
  /\ disturbed' = (disturbed \/ ~NothingUnderWay)
  /\ UNCHANGED <<port, skip, idled, sent, got>>

PCStep ==
  \/ SendPacket \/ FirstByte \/ Acknowledged \/ NextBit \/ NextByte \/ PacketSent
  \/ BitHeard \/ BitTaken \/ ByteTaken
  \/ WaitStep \/ TimeOut \/ NextFile

Next == CpuStep \/ PCStep

Spec == Init /\ [][Next]_vars

(* One thread runs both sides: it never stops inside a transfer. *)
FairSpec == Spec /\ WF_vars(Next)

-----------------------------------------------------------------------------
(***************************************************************************)
(* While nothing has disturbed the link: when link_send_pkt has returned,  *)
(* the calculator has every byte of the packet; after a timeout it has all *)
(* but the byte that failed, or even that one.  The files after a failure  *)
(* are covered as long as none of them begins in the middle of a byte.     *)
(***************************************************************************)
SentMeansReceived ==
  ~disturbed =>
    /\ pc.phase \in {"between", "delay"} => Received = sent["pc"]
    /\ pc.phase = "failed" =>
         \/ Received = sent["pc"]
         \/ sent["pc"] # <<>> /\ Received = SubSeq(sent["pc"], 1, Len(sent["pc"]) - 1)

(***************************************************************************)
(* A calculator whose program serves the port never makes the PC time out: *)
(* the PC looks at the cable at least once between two polls, and          *)
(* LINK_DELAY gives the assist the poll that ends its own sending before   *)
(* the PC announces the next bit.                                          *)
(***************************************************************************)
NoTimeOut == pc.phase # "failed"

(* Whatever the program does and whatever an earlier file has left in the  *)
(* assist, link_send and link_recv return or throw.                        *)
AlwaysReturns == (pc.phase # "between") ~> (pc.phase \in {"between", "failed"})

(* The two directions of the virtual link are the same lossless channel as *)
(* the cable between two calculators, until something disturbs the link.   *)
Channel == INSTANCE ByteChannel
             WITH Data <- Byte, Capacity <- 3,
                  disturbed <- [e \in End |-> disturbed]

ImplementsChannel == Channel!Spec

=============================================================================
