----------------------------- MODULE LinkCable -----------------------------
(***************************************************************************)
(* Two calculators whose link ports are joined by link_connect: each       *)
(* reads the other's latch through its client pointer.  The steps of the   *)
(* two CPUs interleave in any order; a step is either a port access by the *)
(* program or one poll of port 09.                                         *)
(*                                                                         *)
(* A program reads the status with one instruction and writes the byte     *)
(* with a later one, and port 0D does not look at the status again.  A     *)
(* poll between the two may hear a bit of the other end; the write then    *)
(* disturbs the byte that is arriving.  So does port 08 when it disables   *)
(* the assist in the middle of something.                                  *)
(*                                                                         *)
(* sent, got and disturbed are history variables: the bytes each program   *)
(* wrote to port 0D and took from port 0A, and whether it has disturbed a  *)
(* byte under way.                                                         *)
(***************************************************************************)
EXTENDS LinkPair

CONSTANTS Calc,        \* the calculators
          Peer,        \* the calculator at the other end of the cable
          MaxBytes     \* MaxBytes[c] bounds the bytes the program at c writes

ASSUME PeerAssumption ==
  /\ Peer \in [Calc -> Calc]
  /\ \A c \in Calc : Peer[c] # c /\ Peer[Peer[c]] = c

ASSUME MaxBytesAssumption == MaxBytes \in [Calc -> Nat]

VARIABLES port,
          seen,        \* seen[c]: the last status c's program read says ready
          sent, got, disturbed

vars == <<port, seen, sent, got, disturbed>>

(* LinkRead as calculator c sees it: the lines either end holds low. *)
LinkRead(c) == port[c].host \cup port[Peer[c]].host

TypeOK ==
  /\ port \in [Calc -> Port]
  /\ sent \in [Calc -> Seq(Byte)]
  /\ got  \in [Calc -> Seq(Byte)]
  /\ seen \in [Calc -> BOOLEAN]
  /\ disturbed \in [Calc -> BOOLEAN]

Init ==
  /\ port = [c \in Calc |-> PowerOn]
  /\ sent = [c \in Calc |-> <<>>]
  /\ got  = [c \in Calc |-> <<>>]
  /\ seen = [c \in Calc |-> FALSE]
  /\ disturbed = [c \in Calc |-> FALSE]

-----------------------------------------------------------------------------
(* One poll of port 09. *)
Poll(c) ==
  /\ port' = [port EXCEPT ![c] = Tick(@, LinkRead(c))]
  /\ UNCHANGED <<seen, sent, got, disturbed>>

(* IN A,(9): the status is 0 while the assist is off. *)
ReadStatus(c) ==
  /\ seen' = [seen EXCEPT ![c] = port[c].enabled /\ port[c].ready]
  /\ UNCHANGED <<port, sent, got, disturbed>>

(* OUT (0Dh),A some time after the status said ready, without another look *)
(* at it.                                                                  *)
WriteByte(c) ==
  /\ seen[c]
  /\ Len(sent[c]) < MaxBytes[c]
  /\ \E x \in Byte :
       /\ port' = [port EXCEPT ![c] = PutByte(@, x)]
       /\ sent' = [sent EXCEPT ![c] = Append(@, x)]
  /\ seen' = [seen EXCEPT ![c] = FALSE]
  /\ disturbed' = [disturbed EXCEPT ![c] = @ \/ port[c].receiving]
  /\ UNCHANGED got

ReadByte(c) ==
  /\ port[c].read
  /\ port' = [port EXCEPT ![c] = TakeByte(@)]
  /\ got'  = [got EXCEPT ![c] = Append(@, port[c].in)]
  /\ UNCHANGED <<seen, sent, disturbed>>

ReadBack(c) ==
  /\ port[c].enabled
  /\ port' = [port EXCEPT ![c] = PeekOut(@)]
  /\ UNCHANGED <<seen, sent, got, disturbed>>

(* What the program saw of the status is no use to it any more. *)
SwitchOff(c) ==
  /\ port[c].enabled
  /\ port' = [port EXCEPT ![c] = Disable(@)]
  /\ seen' = [seen EXCEPT ![c] = FALSE]
  /\ disturbed' = [disturbed EXCEPT ![c] = @ \/ ~Quiet(port[c])]
  /\ UNCHANGED <<sent, got>>

SwitchOn(c) ==
  /\ ~port[c].enabled
  /\ port' = [port EXCEPT ![c] = Enable(@)]
  /\ UNCHANGED <<seen, sent, got, disturbed>>

Next ==
  \E c \in Calc :
    \/ Poll(c)
    \/ ReadStatus(c)
    \/ WriteByte(c)
    \/ ReadByte(c)
    \/ ReadBack(c)
    \/ SwitchOff(c)
    \/ SwitchOn(c)

Spec == Init /\ [][Next]_vars

(* handle_pio polls an enabled port 09 of a running calculator every third *)
(* instruction, and a program that sees the read status takes the byte.    *)
Fairness == \A c \in Calc : WF_vars(Poll(c)) /\ WF_vars(ReadByte(c))

FairSpec == Spec /\ Fairness

-----------------------------------------------------------------------------
(* Neither program at the ends of c's cable has disturbed a byte. *)
Intact(c) == ~disturbed[c] /\ ~disturbed[Peer[c]]

(* While no program disturbs a byte, the two ends of every cable agree how *)
(* far a byte has come, whichever of them sends and even when both do.     *)
PortsAgree == \A c \in Calc : Intact(c) => Agree(port[c], port[Peer[c]])

FlagsAgree == \A c \in Calc : Intact(c) => Flags(port[c])

(***************************************************************************)
(* Until a program disturbs a byte, no byte is lost, duplicated, changed   *)
(* or overtaken on the way through the registers of the two assists.  A    *)
(* write disturbs only while its own assist is receiving (it has heard a   *)
(* bit since the program read the status), a switch-off only when          *)
(* something is under way.                                                 *)
(***************************************************************************)
NothingLost ==
  \A c \in Calc :
     Intact(c) => Lossless(sent[c], got[Peer[c]], port[c], port[Peer[c]])

(* A program that has seen ready has written nothing since, and an assist  *)
(* that announces a bit has one left: true of disturbed cables as well.    *)
SeenFits ==
  \A c \in Calc :
    /\ seen[c] => port[c].enabled /\ ~port[c].sending
    /\ Fits(port[c])

(* The inductive invariant. *)
IInv == TypeOK /\ SeenFits /\ FlagsAgree /\ PortsAgree /\ NothingLost

(***************************************************************************)
(* Out, working and in: three bytes can be under way in one direction.     *)
(***************************************************************************)
Channel == INSTANCE ByteChannel WITH End <- Calc, Data <- Byte, Capacity <- 3

(* Each cable is the byte channel until a program disturbs a byte on it. *)
ImplementsChannel == Channel!Spec

(* A byte the program has not read is never overwritten by the next one    *)
(* (port 09 moves working to in only after port 0A cleared read), disturbed *)
(* or not.                                                                 *)
NoOverrun ==
  [][\A c \in Calc : port[c].read /\ port'[c].read => port'[c].in = port[c].in]_vars

(* Both ends send and one holds a line: it waits for an acknowledgement,   *)
(* the other for an idle cable, and neither comes.                         *)
Locked(c) ==
  /\ port[c].sending /\ port[Peer[c]].sending
  /\ LinkRead(c) # {}

(***************************************************************************)
(* When both ends leave the assist on in the end, every byte written to    *)
(* port 0D is read from port 0A of the other calculator, whoever writes    *)
(* and reads when.  There are two ways in which it does not arrive: a      *)
(* program disturbs a byte, or both ends send and lock each other out.     *)
(***************************************************************************)
EveryByteArrives ==
  <>[](\A c \in Calc : port[c].enabled) =>
     \A c \in Calc : \A n \in 1 .. MaxBytes[c] :
        Len(sent[c]) >= n ~> \/ Len(got[Peer[c]]) >= n
                             \/ Locked(c) \/ ~Intact(c)

=============================================================================
