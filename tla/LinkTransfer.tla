---------------------------- MODULE LinkTransfer ----------------------------
(***************************************************************************)
(* Sending files to a calculator: link_send_var and link_send_app over     *)
(* link_send_pkt and link_recv_pkt, called for one file after the other by *)
(* the transfer sheet.  Every sheet has a thread and a calculator of its   *)
(* own, but exc_pkt and exc_byte are static: there is one of each.         *)
(*                                                                         *)
(* A byte either gets across or throws (module VirtualLink).  How the      *)
(* calculator's OS answers is not in this repository: what is here are the *)
(* answers the code is written for, a complaint instead of any of them,    *)
(* and a calculator that gives up.                                         *)
(***************************************************************************)
EXTENDS Integers, Sequences, Functions

CONSTANTS Sender,   \* the transfer sheets
          Files,    \* the files each of them sends
          Models,   \* the models of calculator
          Wrap      \* vlink_send is a number below Wrap (size_t)

(* A file is variables, the blocks of an application, or neither.          *)
ASSUME FilesAssumption ==
  /\ Files \in Seq([kind : {"var", "app", "other"}, parts : Seq(Nat)])
  /\ \A i \in DOMAIN Files : Files[i].kind # "other" => Files[i].parts # <<>>
  /\ Models \subseteq {"TI_82", "TI_83", "TI_85", "TI_86", "TI_83P"}
  /\ Wrap \in Nat \ {0}

VARIABLES model,      \* of the calculators
          step,       \* where the function for the current file is, 0: between files
          sent,       \* bytes of the packet under way already across, or Idle
          refused,    \* whether it is acknowledging a CID_EXIT
          vlink_send,
          exc_pkt,    \* whose frames the jump buffers hold
          exc_byte,
          astray,     \* whether the thread has jumped into another's stack
          results,    \* what the functions have returned
          calc,       \* the calculators
          stored      \* history: the parts they have stored

vars == <<model, step, sent, refused, vlink_send, exc_pkt, exc_byte, astray,
          results, calc, stored>>

Idle == -1

Nobody == "nobody"

-----------------------------------------------------------------------------
Say(c) == <<"send", c>>

Hear(c) == <<"recv", c>>

(* One variable: link_RTS and the rest of the loop's body. *)
VarSteps(m) ==
  <<Say("RTS"), Hear("ACK"), Hear("CTS"), Say("ACK"), Say("DATA"), Hear("ACK")>>
  \o IF m \in {"TI_82", "TI_85"} THEN <<>> ELSE <<Say("EOT")>>

AppOpening ==
  <<Say("VER"), Hear("ACK"), Say("CTS"), Hear("ACK"), Hear("any"), Say("ACK"),
    Say("RDY"), Hear("ACK")>>

BlockSteps ==
  <<Say("VAR"), Hear("ACK"), Hear("CTS"), Say("ACK"), Say("DATA"), Hear("ACK")>>

Closing == <<Say("EOT"), Hear("ACK")>>

File(s) == Files[Len(results[s]) + 1]

Opening(s) == IF File(s).kind = "app" THEN AppOpening ELSE <<>>

Body(s) == IF File(s).kind = "app" THEN BlockSteps ELSE VarSteps(model[s])

EndIsAcked(s) == File(s).kind = "app" \/ model[s] = "TI_85"

Length(s) ==
  Len(Opening(s)) + Len(Body(s)) * Len(File(s).parts)
  + IF EndIsAcked(s) THEN Len(Closing) ELSE 0

(* The part that is sent at step n, and the step itself. *)
Part(s, n) == (n - Len(Opening(s)) - 1) \div Len(Body(s)) + 1

Step(s, n) ==
  LET k == n - Len(Opening(s))
  IN  IF k <= 0 THEN Opening(s)[n]
      ELSE IF Part(s, n) <= Len(File(s).parts) THEN Body(s)[((k - 1) % Len(Body(s))) + 1]
      ELSE Closing[k - Len(Body(s)) * Len(File(s).parts)]

Saying(s) == Step(s, step[s])[1] = "send" \/ refused[s]

Command(s) == IF refused[s] THEN "ACK" ELSE Step(s, step[s])[2]

(* An application's transfer has none of its own. *)
WrongTries(s) == File(s).kind = "var" /\ (step[s] - 1) % Len(Body(s)) = 0

(* setjmp(exc_pkt) is before a variable's first packet, or an application's. *)
Tries(s) ==
  IF File(s).kind = "app" THEN step[s] = 1
  ELSE Part(s, step[s]) <= Len(File(s).parts) /\ (step[s] - 1) % Len(Body(s)) = 0

-----------------------------------------------------------------------------
(* Bytes of a packet's data: a TI_VARHDR as the model has it, a TI_FLASHHDR *)
(* or what CID_DATA carries.                                               *)
Payload(s) ==
  LET m == model[s]
  IN  CASE Command(s) = "RTS"  -> IF m = "TI_83P" THEN 13
                                  ELSE IF m \in {"TI_85", "TI_86"} THEN 12 ELSE 11
        [] Command(s) = "VAR"  -> 10
        [] Command(s) = "DATA" -> File(s).parts[Part(s, step[s])]
        [] OTHER               -> 0

(* What is taken off vlink_send before and after the packet is sent. *)
Before(s) == 4 + IF Command(s) = "DATA" THEN 0 ELSE Payload(s)

(* The checksum is counted as data. *)
WrongAfter(s) == 0

After(s) == IF Payload(s) # 0 THEN 2 ELSE 0

Total(s) == 4 + Payload(s) + IF Payload(s) # 0 THEN 2 ELSE 0

-----------------------------------------------------------------------------
(* The calculator: its answers to a packet, and what it then waits for. *)
Quiet == [state |-> "ready", out |-> <<>>]

Complaint == [state |-> "ready", out |-> <<"ERR">>]

Answers(s, c) ==
  LET st == calc[s].state
  IN  IF st = "ready" /\ c \in {"RTS", "VAR"}
        THEN {[state |-> "clear", out |-> <<"ACK", "CTS">>],
              [state |-> "refusing", out |-> <<"ACK", "EXIT">>], Complaint}
      ELSE IF st = "clear" /\ c = "ACK" THEN {[state |-> "data", out |-> <<>>]}
      ELSE IF st = "data" /\ c = "DATA" THEN {[state |-> "ready", out |-> <<"ACK">>], Complaint}
      ELSE IF st = "ready" /\ c = "VER" THEN {[state |-> "version", out |-> <<"ACK">>], Complaint}
      ELSE IF st = "version" /\ c = "CTS"
        THEN {[state |-> "told", out |-> <<"ACK", "VERSION">>], Complaint}
      ELSE IF st = "ready" /\ (c = "RDY" \/ (c = "EOT" /\ EndIsAcked(s)))
        THEN {[state |-> "ready", out |-> <<"ACK">>], Complaint}
      ELSE {Quiet}

(* It has had enough: a key was pressed, or it has waited too long.  In    *)
(* the middle of a packet that is seen as a Throw first.                   *)
GiveUp(s) ==
  /\ calc[s] # Quiet /\ sent[s] <= 0
  /\ calc' = [calc EXCEPT ![s] = Quiet]
  /\ UNCHANGED <<model, step, sent, refused, vlink_send, exc_pkt, exc_byte, astray,
                 results, stored>>

-----------------------------------------------------------------------------
Init ==
  /\ model \in [Sender -> Models]
  /\ step = [s \in Sender |-> 0]
  /\ sent = [s \in Sender |-> Idle]
  /\ refused = [s \in Sender |-> FALSE]
  /\ vlink_send = [s \in Sender |-> 0]
  /\ exc_pkt = Nobody /\ exc_byte = Nobody
  /\ astray = [s \in Sender |-> FALSE]
  /\ results = [s \in Sender |-> <<>>]
  /\ calc = [s \in Sender |-> Quiet]
  /\ stored = [s \in Sender |-> <<>>]

Return(s, r) ==
  /\ results' = [results EXCEPT ![s] = Append(@, r)]
  /\ step' = [step EXCEPT ![s] = 0]
  /\ refused' = [refused EXCEPT ![s] = FALSE]

Advance(s) ==
  IF step[s] < Length(s)
    THEN step' = [step EXCEPT ![s] = @ + 1] /\ UNCHANGED <<results, refused>>
    ELSE Return(s, "LERR_SUCCESS")

(***************************************************************************)
(* The sheet calls link_send_var for its next file.  The function goes no  *)
(* further if it cannot turn the calculator on or if the file is neither   *)
(* of variables nor an application.                                        *)
(***************************************************************************)
Start(s) ==
  /\ step[s] = 0 /\ Len(results[s]) < Len(Files)
  /\ vlink_send' = [vlink_send EXCEPT ![s] = 0]
  /\ \/ /\ Return(s, "LERR_LINK")
     \/ /\ File(s).kind = "other"
        /\ Return(s, "LERR_FILE")
     \/ /\ File(s).kind # "other"
        /\ step' = [step EXCEPT ![s] = 1]
        /\ UNCHANGED <<results, refused>>
  /\ UNCHANGED <<model, sent, exc_pkt, exc_byte, astray, calc, stored>>

(* Up to the first byte of a packet, sent or received. *)
Begin(s) ==
  /\ step[s] > 0 /\ sent[s] = Idle
  /\ sent' = [sent EXCEPT ![s] = 0]
  /\ exc_byte' = s
  /\ exc_pkt' = IF Tries(s) THEN s ELSE exc_pkt
  /\ vlink_send' = IF Saying(s) THEN [vlink_send EXCEPT ![s] = (@ - Before(s)) % Wrap]
                                ELSE vlink_send
  /\ UNCHANGED <<model, step, refused, astray, results, calc, stored>>

Underway(s) == step[s] > 0 /\ sent[s] # Idle /\ ~astray[s]

(* A byte gets across only to a calculator that is not sending itself. *)
SendByte(s) ==
  /\ Underway(s) /\ Saying(s) /\ calc[s].out = <<>>
  /\ sent[s] < Total(s) - 1
  /\ sent' = [sent EXCEPT ![s] = @ + 1]
  /\ vlink_send' = [vlink_send EXCEPT ![s] = (@ + 1) % Wrap]
  /\ UNCHANGED <<model, step, refused, exc_pkt, exc_byte, astray, results, calc, stored>>

(* The last byte.  What the calculator makes of the packet, it answers. *)
PacketSent(s) ==
  /\ Underway(s) /\ Saying(s) /\ calc[s].out = <<>>
  /\ sent[s] = Total(s) - 1
  /\ sent' = [sent EXCEPT ![s] = Idle]
  /\ vlink_send' = [vlink_send EXCEPT ![s] = (@ + 1 - After(s)) % Wrap]
  /\ \E a \in Answers(s, Command(s)) :
       /\ calc' = [calc EXCEPT ![s] = a]
       /\ stored' = IF Command(s) = "DATA" /\ a.out = <<"ACK">>
                      THEN [stored EXCEPT ![s] = Append(@, <<Len(results[s]) + 1, Part(s, step[s])>>)]
                      ELSE stored
  /\ IF refused[s] THEN Return(s, "LERR_MEM") ELSE Advance(s)
  /\ UNCHANGED <<model, exc_pkt, exc_byte, astray>>

(* A packet other than CID_ACK is taken for one. *)
DeafHeard(s, c) ==
  LET want == Command(s)
  IN  IF want \in {c, "any", "ACK"} THEN Advance(s)
      ELSE IF want = "CTS" /\ c = "EXIT"
        THEN IF File(s).kind = "app"
               THEN Return(s, "LERR_MEM")
               ELSE /\ refused' = [refused EXCEPT ![s] = TRUE]
                    /\ UNCHANGED <<step, results>>
      ELSE Return(s, "LERR_LINK")

(* The refusal is not acknowledged. *)
WrongHeard(s, c) ==
  LET want == Command(s)
  IN  IF want \in {c, "any"} THEN Advance(s)
      ELSE IF want = "CTS" /\ c = "EXIT" THEN Return(s, "LERR_MEM")
      ELSE Return(s, "LERR_LINK")

(* CID_EXIT in the place of CID_CTS is acknowledged for a variable, but    *)
(* not for an application.                                                 *)
Heard(s, c) ==
  LET want == Command(s)
  IN  IF want \in {c, "any"} THEN Advance(s)
      ELSE IF want = "CTS" /\ c = "EXIT"
        THEN IF File(s).kind = "app"
               THEN Return(s, "LERR_MEM")
               ELSE /\ refused' = [refused EXCEPT ![s] = TRUE]
                    /\ UNCHANGED <<step, results>>
      ELSE Return(s, "LERR_LINK")

Receive(s) ==
  /\ Underway(s) /\ ~Saying(s) /\ calc[s].out # <<>>
  /\ sent' = [sent EXCEPT ![s] = Idle]
  /\ Heard(s, Head(calc[s].out))
  /\ calc' = [calc EXCEPT ![s].out = Tail(@)]
  /\ UNCHANGED <<model, vlink_send, exc_pkt, exc_byte, astray, stored>>

(* A packet that does not come is waited for again, for ever. *)
WrongThrow(s) ==
  /\ Underway(s)
  /\ sent' = [sent EXCEPT ![s] = Idle]
  /\ IF Saying(s) THEN Return(s, "LERR_SYSTEM") ELSE UNCHANGED <<step, refused, results>>
  /\ UNCHANGED <<model, vlink_send, exc_pkt, exc_byte, astray, calc, stored>>

(***************************************************************************)
(* link_send or link_recv has waited too long: longjmp to exc_byte and     *)
(* from there to exc_pkt, where every error becomes LERR_SYSTEM.  In the   *)
(* frame of another thread what happens is undefined.                      *)
(***************************************************************************)
Throw(s) ==
  /\ Underway(s)
  /\ IF exc_byte = s /\ exc_pkt = s
       THEN /\ Return(s, "LERR_SYSTEM")
            /\ sent' = [sent EXCEPT ![s] = Idle]
            /\ UNCHANGED astray
       ELSE /\ astray' = [astray EXCEPT ![s] = TRUE]
            /\ UNCHANGED <<step, sent, refused, results>>
  /\ UNCHANGED <<model, vlink_send, exc_pkt, exc_byte, calc, stored>>

Send(s) == Start(s) \/ Begin(s) \/ SendByte(s) \/ PacketSent(s) \/ Receive(s) \/ Throw(s)

Next == \E s \in Sender : Send(s) \/ GiveUp(s)

Spec == Init /\ [][Next]_vars

(* A thread goes on: it waits for a bit only for LINK_TIMEOUT. *)
FairSpec == Spec /\ \A s \in Sender : WF_vars(Send(s))

-----------------------------------------------------------------------------
TypeOK ==
  /\ model \in [Sender -> Models]
  /\ \A s \in Sender : step[s] \in 0 .. IF Len(results[s]) < Len(Files) THEN Length(s) ELSE 0
  /\ sent \in [Sender -> Idle .. Wrap]
  /\ refused \in [Sender -> BOOLEAN] /\ astray \in [Sender -> BOOLEAN]
  /\ vlink_send \in [Sender -> 0 .. Wrap - 1]
  /\ exc_pkt \in Sender \cup {Nobody} /\ exc_byte \in Sender \cup {Nobody}

(***************************************************************************)
(* A transfer is what FileTransfer promises, whatever the calculator does: *)
(* a file reported as sent is stored whole, its variables in order and     *)
(* each once, and a failure leaves nothing behind in the functions that    *)
(* makes the next file go wrong.  What a byte that fails half way leaves   *)
(* in the link assist is in VirtualLink (NextFile), not here.              *)
(***************************************************************************)
Transfer ==
  INSTANCE FileTransfer WITH
    Parts <- [i \in DOMAIN Files |-> Len(Files[i].parts)],
    Failures <- {"LERR_LINK", "LERR_MEM", "LERR_FILE", "LERR_SYSTEM"}

ImplementsTransfer == Transfer!Spec

(***************************************************************************)
(* vlink_send is "amount already sent over vlink": between two packets it  *)
(* is the length of the data sent for this file, headers and checksums     *)
(* taken off again.  In the middle of a packet it is less than that, and   *)
(* at a file's first packet less than 0.                                   *)
(***************************************************************************)
DataOf(s) ==
  [n \in {k \in 1 .. step[s] - 1 : Step(s, k) = Say("DATA")} |-> File(s).parts[Part(s, n)]]

DataSent(s) == SumFunction(DataOf(s))

CounterExact ==
  \A s \in Sender :
    step[s] > 0 /\ sent[s] = Idle => vlink_send[s] = DataSent(s) % Wrap

(***************************************************************************)
(* When a variable is refused for want of memory the calculator is ready   *)
(* for the next file: its CID_EXIT has been acknowledged.                  *)
(***************************************************************************)
RefusalsEnd ==
  [][\A s \in Sender :
       /\ step[s] > 0 /\ File(s).kind = "var"
       /\ results'[s] = Append(results[s], "LERR_MEM")
       => calc'[s] = Quiet]_vars

(***************************************************************************)
(* Every file gets its result: no calculator can keep the sheet open.      *)
(***************************************************************************)
EveryFileReturns == \A s \in Sender : <>(Len(results[s]) = Len(Files))

(***************************************************************************)
(* "On error: Returns an error code" (link.c): a byte that fails ends the  *)
(* transfer it belongs to.                                                 *)
(***************************************************************************)
ErrorsReturn == \A s \in Sender : ~astray[s]

=============================================================================
