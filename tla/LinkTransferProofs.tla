------------------------- MODULE LinkTransferProofs -------------------------
(***************************************************************************)
(* For all files, all models and every calculator: the jump buffers are    *)
(* safe as long as there is one transfer at a time; any number of          *)
(* transfers implement FileTransfer, count what they send and end a        *)
(* refusal.                                                                *)
(***************************************************************************)
EXTENDS LinkTransfer, NaturalFacts

OneTransfer == \A s, t \in Sender : s = t

Sending == {"var", "app"}

Result == {"LERR_SUCCESS", "LERR_LINK", "LERR_MEM", "LERR_FILE", "LERR_SYSTEM"}

(***************************************************************************)
(* Between setjmp and the end of a packet both buffers are the thread's    *)
(* own, and after a file's first packet exc_pkt stays so.                  *)
(***************************************************************************)
Framed(s) ==
  /\ sent[s] # Idle => exc_byte = s /\ exc_pkt = s
  /\ step[s] > 1 => exc_pkt = s

Typed ==
  /\ model \in [Sender -> Models]
  /\ step \in [Sender -> Nat]
  /\ sent \in [Sender -> Int]
  /\ refused \in [Sender -> BOOLEAN]
  /\ astray \in [Sender -> BOOLEAN]
  /\ results \in [Sender -> Seq(Result)]

(* Only a file that is sent has steps. *)
HasFile(s) ==
  step[s] > 0 => Len(results[s]) < Len(Files) /\ File(s).kind \in Sending

IInv ==
  /\ Typed
  /\ \A s \in Sender : Framed(s) /\ HasFile(s) /\ ~astray[s]

-----------------------------------------------------------------------------
LEMMA Element ==
  \A S : \A q \in Seq(S) : \A i \in DOMAIN q : q[i] \in S
OBVIOUS

LEMMA FileShape ==
  ASSUME NEW n \in Nat, n < Len(Files)
  PROVE  /\ Files[n + 1].kind \in Sending \cup {"other"}
         /\ Files[n + 1].parts \in Seq(Nat)
         /\ Files[n + 1].kind # "other" => Len(Files[n + 1].parts) >= 1
<1>1. Files \in Seq([kind : {"var", "app", "other"}, parts : Seq(Nat)])
  BY FilesAssumption
<1>2. n + 1 \in DOMAIN Files
  BY <1>1
<1>3. Files[n + 1] \in [kind : {"var", "app", "other"}, parts : Seq(Nat)]
  BY <1>1, <1>2, Element, Zenon
<1>4. Files[n + 1].kind # "other" => Files[n + 1].parts # <<>>
  BY <1>2, FilesAssumption
<1>5. \A q \in Seq(Nat) : q # <<>> => Len(q) >= 1
  OBVIOUS
<1>6. QED
  BY <1>3, <1>4, <1>5 DEF Sending

LEMMA VarStepsLength == \A m : Len(VarSteps(m)) \in {6, 7}
<1> SUFFICES ASSUME NEW m PROVE Len(VarSteps(m)) \in {6, 7}
  OBVIOUS
<1>1. CASE m \in {"TI_82", "TI_85"}
  BY <1>1 DEF VarSteps, Say, Hear
<1>2. CASE m \notin {"TI_82", "TI_85"}
  BY <1>2 DEF VarSteps, Say, Hear
<1>3. QED
  BY <1>1, <1>2

(* The first packet of every file is sent after a setjmp(exc_pkt). *)
LEMMA FirstPacketTries ==
  ASSUME NEW s \in Sender, Typed, HasFile(s), step[s] = 1
  PROVE  Tries(s)
<1>1. CASE File(s).kind = "app"
  BY <1>1 DEF Tries
<1>2. CASE File(s).kind = "var"
  <2>1. /\ Len(results[s]) \in Nat /\ Len(results[s]) < Len(Files)
    BY DEF Typed, HasFile
  <2>2. Len(File(s).parts) \in Nat /\ Len(File(s).parts) >= 1
    BY <2>1, <1>2, FileShape DEF File
  <2>3. Len(Opening(s)) = 0
    BY <1>2 DEF Opening
  <2>4. Len(Body(s)) \in {6, 7}
    BY <1>2, VarStepsLength DEF Body
  <2>5. (1 - 0 - 1) \div Len(Body(s)) + 1 = 1 /\ (1 - 1) % Len(Body(s)) = 0
    <3>1. \A l \in {6, 7} : (1 - 0 - 1) \div l + 1 = 1 /\ (1 - 1) % l = 0
      <4>1. (1 - 0 - 1) \div 6 + 1 = 1 /\ (1 - 1) % 6 = 0
        OBVIOUS
      <4>2. (1 - 0 - 1) \div 7 + 1 = 1 /\ (1 - 1) % 7 = 0
        OBVIOUS
      <4>3. QED
        BY <4>1, <4>2, Zenon
    <3>2. QED
      BY <2>4, <3>1, Zenon
  <2>6. Part(s, 1) = 1
    BY <2>3, <2>5 DEF Part
  <2>7. QED
    BY <1>2, <2>2, <2>5, <2>6 DEF Tries
<1>3. QED
  BY <1>1, <1>2 DEF HasFile, Sending

LEMMA Inductive == ASSUME OneTransfer, IInv, [Next]_vars PROVE IInv'
<1> USE DEF IInv
<1>1. CASE UNCHANGED vars
  BY <1>1 DEF vars, Typed, Framed, HasFile, File
<1>2. ASSUME NEW s \in Sender, Send(s) \/ GiveUp(s) PROVE IInv'
  <2>0. /\ \A t \in Sender : t = s
        /\ Typed /\ Framed(s) /\ HasFile(s) /\ ~astray[s]
    BY DEF OneTransfer
  <2> SUFFICES Typed' /\ Framed(s)' /\ HasFile(s)' /\ (~astray[s])'
    BY <2>0
  <2>1. CASE Start(s)
    <3>1. ASSUME NEW r \in Result, Return(s, r) PROVE Typed' /\ Framed(s)' /\ HasFile(s)' /\ (~astray[s])'
      BY <2>0, <2>1, <3>1 DEF Start, Return, Typed, Framed, HasFile
    <3>2. CASE File(s).kind # "other" /\ step' = [step EXCEPT ![s] = 1] /\ UNCHANGED <<results, refused>>
      <4>1. File(s).kind \in Sending
        BY <2>0, <2>1, <3>2, FileShape DEF Start, Typed, File
      <4>2. QED
        BY <2>0, <2>1, <3>2, <4>1 DEF Start, Typed, Framed, HasFile, File
    <3>3. QED
      BY <2>1, <3>1, <3>2, Zenon DEF Result, Start
  <2>2. CASE Begin(s)
    <3>1. exc_pkt' = s
      BY <2>0, <2>2, FirstPacketTries DEF Begin, Framed, Typed
    <3>2. QED
      BY <2>0, <2>2, <3>1 DEF Begin, Typed, Framed, HasFile, File
  <2>3. CASE SendByte(s)
    BY <2>0, <2>3 DEF SendByte, Underway, Typed, Framed, HasFile, File
  <2>a. ASSUME Underway(s), UNCHANGED <<model, exc_pkt, exc_byte, astray>>,
               sent' = [sent EXCEPT ![s] = Idle],
               \/ \E r \in Result : Return(s, r)
               \/ Advance(s)
               \/ refused' = [refused EXCEPT ![s] = TRUE] /\ UNCHANGED <<step, results>>
        PROVE  Typed' /\ Framed(s)' /\ HasFile(s)' /\ (~astray[s])'
    <3>1. exc_pkt' = s /\ sent'[s] = Idle /\ Idle \in Int
      BY <2>0, <2>a DEF Underway, Framed, Typed, Idle
    <3>2. ASSUME NEW r \in Result, Return(s, r) PROVE Typed' /\ HasFile(s)'
      BY <2>0, <2>a, <3>1, <3>2 DEF Return, Typed, HasFile
    <3>3. ASSUME step' = [step EXCEPT ![s] = @ + 1], UNCHANGED <<results, refused>>
          PROVE  Typed' /\ HasFile(s)'
      BY <2>0, <2>a, <3>1, <3>3 DEF Underway, Typed, HasFile, File
    <3>4. ASSUME refused' = [refused EXCEPT ![s] = TRUE], UNCHANGED <<step, results>>
          PROVE  Typed' /\ HasFile(s)'
      BY <2>0, <2>a, <3>1, <3>4 DEF Typed, HasFile, File
    <3>5. Typed' /\ HasFile(s)'
      BY <2>a, <3>2, <3>3, <3>4, Zenon DEF Result, Advance
    <3>6. QED
      BY <2>0, <2>a, <3>1, <3>5 DEF Framed
  <2>4. CASE PacketSent(s)
    BY <2>4, <2>a, Zenon DEF Result, PacketSent
  <2>5. CASE Receive(s)
    BY <2>5, <2>a, Zenon DEF Result, Receive, Heard
  <2>6. CASE Throw(s)
    <3>1. exc_byte = s /\ exc_pkt = s
      BY <2>0, <2>6 DEF Throw, Underway, Framed
    <3>2. QED
      BY <2>6, <2>a, <3>1, Zenon DEF Result, Throw
  <2>7. CASE GiveUp(s)
    BY <2>0, <2>7 DEF GiveUp, Typed, Framed, HasFile, File
  <2>8. QED
    BY <1>2, <2>1, <2>2, <2>3, <2>4, <2>5, <2>6, <2>7 DEF Send
<1>3. QED
  BY <1>1, <1>2 DEF Next

(***************************************************************************)
(* With one transfer at a time every byte that fails ends the function     *)
(* that sends it: link_send_var's "On error: Returns an error code".       *)
(***************************************************************************)
THEOREM OneTransferReturns ==
  ASSUME OneTransfer
  PROVE  Spec => []ErrorsReturn
<1>1. Init => IInv
  BY DEF Init, IInv, Typed, Framed, HasFile, Idle
<1>2. IInv /\ [Next]_vars => IInv'
  BY Inductive
<1>3. IInv => ErrorsReturn
  BY DEF IInv, ErrorsReturn
<1>4. QED
  BY <1>1, <1>2, <1>3, PTL DEF Spec

-----------------------------------------------------------------------------
(***************************************************************************)
(* A transfer implements FileTransfer, with any number of sheets: at every *)
(* step of the function for a file it is known how many of the file's      *)
(* parts are stored.                                                       *)
(***************************************************************************)
Parts(s) == Len(File(s).parts)

(* Where step[s] is in the body for its part. *)
Offset(s) == (step[s] - Len(Opening(s)) - 1) % Len(Body(s))

StoredNow(s) == Transfer!StoredOf(s, Len(results[s]) + 1)

(* The calculator's answer to the data is there or not yet. *)
Confirmed(s) == calc[s].out # <<>> /\ Head(calc[s].out) = "ACK"

StoredSoFar(s) ==
  IF step[s] <= Len(Opening(s)) THEN StoredNow(s) = 0
  ELSE IF Part(s, step[s]) > Parts(s) THEN StoredNow(s) = Parts(s)
  ELSE IF Offset(s) < 5 THEN StoredNow(s) = Part(s, step[s]) - 1
  ELSE IF Offset(s) = 5
    THEN /\ StoredNow(s) \in {Part(s, step[s]) - 1, Part(s, step[s])}
         /\ Confirmed(s) => StoredNow(s) = Part(s, step[s])
  ELSE StoredNow(s) = Part(s, step[s])

(* Nothing is stored yet of the files after the current one. *)
NothingAhead(s) ==
  stored[s] # <<>> =>
    stored[s][Len(stored[s])][1] <= Len(results[s]) + (IF step[s] > 0 THEN 1 ELSE 0)

Answering ==
  /\ calc = [s \in Sender |-> calc[s]]
  /\ stored \in [Sender -> Seq(Int \X Int)]

AInv ==
  /\ Typed /\ Answering
  /\ \A s \in Sender :
       /\ HasFile(s) /\ NothingAhead(s)
       /\ step[s] > 0 => step[s] <= Length(s) /\ StoredSoFar(s)

-----------------------------------------------------------------------------
(* The step of a file under way is one of its opening, of a body or of its *)
(* closing.                                                                *)
LEMMA FileGeometry ==
  ASSUME NEW s \in Sender, Typed, Len(results[s]) < Len(Files), File(s).kind \in Sending
  PROVE  /\ Len(Opening(s)) \in {0, 8} /\ Len(Body(s)) \in {6, 7}
         /\ Parts(s) \in Nat /\ Parts(s) >= 1
         /\ Length(s) \in {Len(Opening(s)) + Len(Body(s)) * Parts(s),
                           Len(Opening(s)) + Len(Body(s)) * Parts(s) + 2}
         /\ File(s).kind = "app" => Len(Opening(s)) = 8 /\ Body(s) = BlockSteps
         /\ File(s).kind = "var" => Len(Opening(s)) = 0 /\ Body(s) = VarSteps(model[s])
         /\ File(s).kind \in Sending
<1>1. File(s).kind \in Sending /\ Len(results[s]) \in Nat /\ Len(results[s]) < Len(Files)
  BY DEF Typed
<1>2. Parts(s) \in Nat /\ Parts(s) >= 1
  BY <1>1, FileShape DEF Parts, File, Sending
<1>3. Len(AppOpening) = 8 /\ Len(BlockSteps) = 6 /\ Len(Closing) = 2
  BY DEF AppOpening, BlockSteps, Closing, Say, Hear
<1>4. CASE File(s).kind = "app"
  <2>1. Len(Opening(s)) = 8 /\ Body(s) = BlockSteps /\ Len(Body(s)) = 6
    BY <1>3, <1>4 DEF Opening, Body
  <2> QED
    BY <1>1, <1>2, <1>3, <1>4, <2>1 DEF Length, EndIsAcked, Parts
<1>5. CASE File(s).kind = "var"
  <2>1. Len(Opening(s)) = 0 /\ Body(s) = VarSteps(model[s]) /\ Len(Body(s)) \in {6, 7}
    BY <1>5, VarStepsLength DEF Opening, Body
  <2>2. Length(s) = Len(Opening(s)) + Len(Body(s)) * Parts(s) + (IF EndIsAcked(s) THEN 2 ELSE 0)
    BY <1>3 DEF Length, Parts
  <2> DEFINE L == Len(Opening(s)) + Len(Body(s)) * Parts(s)
  <2>3. L \in Int
    BY <1>2, <2>1
  <2>4. Length(s) = L + (IF EndIsAcked(s) THEN 2 ELSE 0)
    BY <2>2
  <2> HIDE DEF L
  <2>5. Length(s) \in {L, L + 2}
    BY <2>3, <2>4
  <2> QED
    BY <1>1, <1>2, <1>5, <2>1, <2>5 DEF L
<1> QED
  BY <1>1, <1>4, <1>5 DEF Sending

LEMMA Geometry ==
  ASSUME NEW s \in Sender, Typed, HasFile(s), step[s] > 0
  PROVE  /\ Len(Opening(s)) \in {0, 8} /\ Len(Body(s)) \in {6, 7}
         /\ Parts(s) \in Nat /\ Parts(s) >= 1
         /\ Length(s) \in {Len(Opening(s)) + Len(Body(s)) * Parts(s),
                           Len(Opening(s)) + Len(Body(s)) * Parts(s) + 2}
         /\ File(s).kind = "app" => Len(Opening(s)) = 8 /\ Body(s) = BlockSteps
         /\ File(s).kind = "var" => Len(Opening(s)) = 0 /\ Body(s) = VarSteps(model[s])
         /\ File(s).kind \in Sending
<1>1. Len(results[s]) < Len(Files) /\ File(s).kind \in Sending
  BY DEF HasFile
<1> QED
  BY <1>1, FileGeometry

(* Division, for the two lengths a body has. *)
LEMMA BodyDivision ==
  ASSUME NEW k \in Nat, NEW b \in {6, 7}
  PROVE  /\ k \div b \in Nat /\ k % b \in 0 .. b - 1
         /\ k = b * (k \div b) + (k % b)
<1>1. CASE b = 6
  BY <1>1
<1>2. CASE b = 7
  BY <1>2
<1> QED
  BY <1>1, <1>2

LEMMA DivisionUnique ==
  ASSUME NEW b \in {6, 7}, NEW q \in Nat, NEW r \in 0 .. b - 1
  PROVE  (b * q + r) \div b = q /\ (b * q + r) % b = r
<1>1. CASE b = 6
  BY <1>1
<1>2. CASE b = 7
  BY <1>2
<1> QED
  BY <1>1, <1>2

LEMMA PartOffset ==
  ASSUME NEW s \in Sender, Typed, HasFile(s), step[s] > Len(Opening(s)), step[s] > 0
  PROVE  /\ Part(s, step[s]) \in Nat /\ Part(s, step[s]) >= 1
         /\ Offset(s) \in 0 .. Len(Body(s)) - 1
         /\ step[s] = Len(Opening(s)) + Len(Body(s)) * (Part(s, step[s]) - 1) + Offset(s) + 1
<1> DEFINE k == step[s] - Len(Opening(s)) - 1
           b == Len(Body(s))
<1>1. b \in {6, 7} /\ Len(Opening(s)) \in {0, 8} /\ step[s] \in Nat
  BY Geometry DEF Typed
<1>2. k \in Nat
  BY <1>1
<1>3. Part(s, step[s]) = k \div b + 1 /\ Offset(s) = k % b
  BY DEF Part, Offset
<1>4. step[s] = Len(Opening(s)) + k + 1
  BY <1>1
<1> HIDE DEF k, b
<1>5. k \div b \in Nat /\ k % b \in 0 .. b - 1 /\ k = b * (k \div b) + (k % b)
  BY <1>1, <1>2, BodyDivision
<1>6. k \div b = Part(s, step[s]) - 1
  BY <1>3, <1>5
<1>7. k = b * (Part(s, step[s]) - 1) + Offset(s)
  BY <1>3, <1>5, <1>6
<1>8. b * (Part(s, step[s]) - 1) \in Int
  BY <1>1, <1>5, <1>6
<1>9. step[s] = Len(Opening(s)) + b * (Part(s, step[s]) - 1) + Offset(s) + 1
  BY <1>1, <1>3, <1>4, <1>5, <1>7, <1>8
<1>10. Part(s, step[s]) \in Nat /\ Part(s, step[s]) >= 1 /\ Offset(s) \in 0 .. b - 1
  BY <1>3, <1>5
<1> QED
  BY <1>9, <1>10 DEF b

(* In the last of a file's steps its last part is or has been sent. *)
LEMMA LastStep ==
  ASSUME NEW s \in Sender, Typed, HasFile(s), step[s] > 0, step[s] = Length(s)
  PROVE  /\ step[s] > Len(Opening(s))
         /\ \/ Part(s, step[s]) > Parts(s)
            \/ Part(s, step[s]) = Parts(s) /\ Offset(s) >= 5
<1> DEFINE o == Len(Opening(s))
           b == Len(Body(s))
           p == Part(s, step[s])
           j == Offset(s)
           c == Parts(s)
<1>1. /\ o \in {0, 8} /\ b \in {6, 7} /\ c \in Nat /\ c >= 1 /\ step[s] \in Nat
      /\ step[s] \in {o + b * c, o + b * c + 2}
  BY Geometry DEF Typed
<1> HIDE DEF o, b, c
<1>2. step[s] > o
  <2>1. CASE b = 6
    BY <1>1, <2>1
  <2>2. CASE b = 7
    BY <1>1, <2>2
  <2> QED
    BY <1>1, <2>1, <2>2
<1>3. p \in Nat /\ p >= 1 /\ j \in 0 .. b - 1 /\ step[s] = o + b * (p - 1) + j + 1
  BY <1>2, PartOffset DEF o, b
<1> HIDE DEF p, j
<1>4. p > c \/ (p = c /\ j >= 5)
  <2>1. CASE b = 6
    BY <1>1, <1>3, <2>1
  <2>2. CASE b = 7
    BY <1>1, <1>3, <2>2
  <2> QED
    BY <1>1, <2>1, <2>2
<1> QED
  BY <1>2, <1>4 DEF o, p, j, c

(* Data is said at offset 4 of a body and answered at offset 5, and at no *)
(* other step.                                                             *)
LEMMA WhatIsSaid ==
  ASSUME NEW s \in Sender, Typed, HasFile(s), step[s] > 0, step[s] <= Length(s)
  PROVE  /\ step[s] > Len(Opening(s)) /\ Part(s, step[s]) <= Parts(s) =>
              /\ Offset(s) = 4 => Step(s, step[s]) = Say("DATA")
              /\ Offset(s) = 5 => Step(s, step[s]) = Hear("ACK")
              /\ Offset(s) = 6 => Step(s, step[s]) = Say("EOT")
         /\ Step(s, step[s])[2] = "DATA" =>
              /\ step[s] > Len(Opening(s)) /\ Part(s, step[s]) <= Parts(s) /\ Offset(s) = 4
<1> DEFINE n == step[s]
           o == Len(Opening(s))
           b == Len(Body(s))
           p == Part(s, n)
           j == Offset(s)
           c == Parts(s)
<1>0. n \in Nat /\ n >= 1
  BY DEF Typed
<1>1. /\ o \in {0, 8} /\ b \in {6, 7} /\ c \in Nat /\ c >= 1 /\ n \in Nat /\ n >= 1
      /\ Length(s) \in {o + b * c, o + b * c + 2}
  BY <1>0, Geometry
<1>2. CASE n <= o
  <2>1. o = 8 /\ n \in 1 .. 8 /\ File(s).kind = "app"
    <3>1. o = 8 /\ n \in 1 .. 8
      <4> HIDE DEF n, o, b, p, j, c
      <4> QED
        BY <1>1, <1>2
    <3>2. File(s).kind \in {"var", "app"} /\ (File(s).kind = "var" => o = 0)
      BY <1>0, Geometry DEF Sending
    <3> QED
      BY <3>1, <3>2
  <2>2. Step(s, n) = AppOpening[n]
    BY <1>1, <1>2, <2>1 DEF Step, Opening
  <2>3. \A i \in 1 .. 8 : AppOpening[i][2] # "DATA"
    BY DEF AppOpening, Say, Hear
  <2> QED
    BY <1>1, <1>2, <2>1, <2>2, <2>3
<1>3. ASSUME n > o
      PROVE  /\ p \in Nat /\ p >= 1 /\ j \in 0 .. b - 1
             /\ n = o + b * (p - 1) + j + 1
  BY <1>1, <1>3, PartOffset
<1>4. CASE n > o /\ p <= c
  <2>1. Step(s, n) = Body(s)[j + 1]
    <3>1. ~(n - o <= 0) /\ (n - o) - 1 = n - o - 1
      BY <1>1, <1>4
    <3>2. Part(s, n) <= Len(File(s).parts)
      BY <1>4 DEF Parts
    <3>3. Step(s, n) = Body(s)[(((n - o) - 1) % Len(Body(s))) + 1]
      BY <3>1, <3>2, Zenon DEF Step
    <3> QED
      BY <3>1, <3>3 DEF Offset
  <2>2. j \in 0 .. b - 1
    BY <1>3, <1>4
  <2>3. CASE File(s).kind = "app"
    <3>1. Body(s) = BlockSteps /\ b = 6
      BY <2>3, Geometry DEF BlockSteps, Say, Hear
    <3>2. BlockSteps[5] = Say("DATA") /\ BlockSteps[6] = Hear("ACK")
      BY DEF BlockSteps
    <3>3. \A i \in 0 .. 5 : i # 4 => BlockSteps[i + 1][2] # "DATA"
      BY DEF BlockSteps, Say, Hear
    <3>4. j \in 0 .. 5 /\ j # 6
      BY <2>2, <3>1
    <3>5. /\ j = 4 => Step(s, n) = Say("DATA")
          /\ j = 5 => Step(s, n) = Hear("ACK")
      BY <2>1, <3>1, <3>2
    <3>6. j # 4 => Step(s, n)[2] # "DATA"
      BY <2>1, <3>1, <3>3, <3>4
    <3> QED
      BY <1>4, <3>4, <3>5, <3>6
  <2>4. CASE File(s).kind = "var"
    <3>1. Body(s) = VarSteps(model[s])
      BY <2>4, Geometry
    <3>2. /\ VarSteps(model[s])[5] = Say("DATA") /\ VarSteps(model[s])[6] = Hear("ACK")
          /\ Len(VarSteps(model[s])) = 7 => VarSteps(model[s])[7] = Say("EOT")
          /\ \A i \in 0 .. Len(VarSteps(model[s])) - 1 : i # 4 => VarSteps(model[s])[i + 1][2] # "DATA"
      <4>1. CASE model[s] \in {"TI_82", "TI_85"}
        BY <4>1 DEF VarSteps, Say, Hear
      <4>2. CASE model[s] \notin {"TI_82", "TI_85"}
        BY <4>2 DEF VarSteps, Say, Hear
      <4> QED
        BY <4>1, <4>2
    <3>3. /\ j = 4 => Step(s, n) = Say("DATA")
          /\ j = 5 => Step(s, n) = Hear("ACK")
      BY <2>1, <3>1, <3>2
    <3>4. j = 6 => Step(s, n) = Say("EOT")
      <4>1. j = 6 => b = 7
        <5> HIDE DEF n, o, b, p, j, c
        <5> QED
          BY <1>1, <2>2
      <4>2. j = 6 => Len(VarSteps(model[s])) = 7 /\ j + 1 = 7
        BY <3>1, <4>1
      <4> QED
        BY <2>1, <3>1, <3>2, <4>2
    <3>5. j # 4 => Step(s, n)[2] # "DATA"
      BY <2>1, <2>2, <3>1, <3>2
    <3> QED
      BY <1>4, <3>3, <3>4, <3>5
  <2> QED
    BY <2>3, <2>4, Geometry DEF Sending
<1>5. CASE n > o /\ p > c
  <2>1. Step(s, n) = Closing[(n - o) - b * c]
    <3>1. ~(n - o <= 0) /\ ~(Part(s, n) <= Len(File(s).parts))
      BY <1>1, <1>3, <1>5 DEF Parts
    <3> QED
      BY <3>1, Zenon DEF Step, Parts
  <2>2. (n - o) - b * c \in {1, 2}
    <3> HIDE DEF n, o, b, p, j, c
    <3>0. n <= Length(s)
      BY DEF n
    <3>1. CASE b = 6
      BY <1>1, <1>3, <1>5, <3>0, <3>1
    <3>2. CASE b = 7
      BY <1>1, <1>3, <1>5, <3>0, <3>2
    <3> QED
      BY <1>1, <3>1, <3>2
  <2>3. \A i \in {1, 2} : Closing[i][2] # "DATA"
    BY DEF Closing, Say, Hear
  <2>4. Step(s, n)[2] # "DATA"
    BY <2>1, <2>2, <2>3
  <2>5. ~(p <= c)
    BY <1>1, <1>3, <1>5
  <2> QED
    BY <1>5, <2>4, <2>5
<1> HIDE DEF p
<1>6. n <= o \/ (n > o /\ p <= c) \/ (n > o /\ p > c)
  BY <1>1, <1>3
<1> QED
  BY <1>2, <1>4, <1>5, <1>6 DEF p

(* From one step to the next within a file. *)
LEMMA NextStep ==
  ASSUME NEW s \in Sender, Typed, HasFile(s), step[s] > 0, step[s] < Length(s),
         UNCHANGED <<model, results>>, step'[s] = step[s] + 1,
         Typed', HasFile(s)',
         StoredSoFar(s), (StoredNow(s))' = StoredNow(s),
         ~(step[s] > Len(Opening(s)) /\ Part(s, step[s]) <= Parts(s) /\ Offset(s) = 4),
         step[s] > Len(Opening(s)) /\ Part(s, step[s]) <= Parts(s) /\ Offset(s) = 5
           => StoredNow(s) = Part(s, step[s])
  PROVE  (StoredSoFar(s))'
<1> DEFINE o == Len(Opening(s))
           b == Len(Body(s))
           c == Parts(s)
           n == step[s]
           p == Part(s, step[s])
           j == Offset(s)
           q == StoredNow(s)
<1>0. n \in Nat /\ n >= 1
  BY DEF Typed
<1>1. /\ o \in {0, 8} /\ b \in {6, 7} /\ c \in Nat /\ c >= 1 /\ n \in Nat /\ n >= 1
  BY <1>0, Geometry
<1>2. Len(Opening(s))' = o /\ Len(Body(s))' = b /\ Parts(s)' = c
  BY DEF Opening, Body, Parts, File
<1>3. n > o =>
        /\ p \in Nat /\ p >= 1 /\ j \in 0 .. b - 1
        /\ n = o + b * (p - 1) + j + 1
  BY <1>1, PartOffset
<1> DEFINE pp == (Part(s, step[s]))'
           jj == Offset(s)'
<1>4. \/ /\ n + 1 > o /\ pp \in Nat /\ pp >= 1 /\ jj \in 0 .. b - 1
         /\ n + 1 = o + b * (pp - 1) + jj + 1
      \/ n + 1 <= o
  <2>1. CASE n + 1 > o
    <3>1. (step[s] > Len(Opening(s)))' /\ (step[s] > 0)'
      BY <1>1, <1>2, <2>1
    <3>2. pp = (((n + 1) - o - 1) \div b) + 1 /\ jj = ((n + 1) - o - 1) % b
      BY <1>2 DEF Part, Offset, Opening, Body, File
    <3> HIDE DEF pp, jj, o, b
    <3> DEFINE k == (n + 1) - o - 1
    <3>3. k \in Nat /\ n + 1 = o + k + 1
      BY <1>1, <2>1
    <3>4. pp = (k \div b) + 1 /\ jj = k % b
      BY <3>2
    <3> HIDE DEF k
    <3>5. k \div b \in Nat /\ k % b \in 0 .. b - 1 /\ k = b * (k \div b) + (k % b)
      BY <1>1, <3>3, BodyDivision
    <3>6. pp \in Nat /\ pp >= 1 /\ pp - 1 = k \div b /\ jj \in 0 .. b - 1
      BY <3>4, <3>5
    <3>7. k = b * (pp - 1) + jj
      BY <3>4, <3>5, <3>6
    <3>8. b * (pp - 1) \in Int
      BY <1>1, <3>6
    <3>9. n + 1 = o + b * (pp - 1) + jj + 1
      BY <1>1, <3>3, <3>6, <3>7, <3>8
    <3> QED
      BY <2>1, <3>6, <3>9
  <2> QED
    BY <1>1, <2>1
<1>5. (StoredSoFar(s))' <=>
        IF n + 1 <= o THEN q = 0
        ELSE IF pp > c THEN q = c
        ELSE IF jj < 5 THEN q = pp - 1
        ELSE IF jj = 5 THEN q \in {pp - 1, pp} /\ (Confirmed(s)' => q = pp)
        ELSE q = pp
  BY <1>2 DEF StoredSoFar
<1>6. StoredSoFar(s) <=>
        IF n <= o THEN q = 0
        ELSE IF p > c THEN q = c
        ELSE IF j < 5 THEN q = p - 1
        ELSE IF j = 5 THEN q \in {p - 1, p} /\ (Confirmed(s) => q = p)
        ELSE q = p
  BY DEF StoredSoFar
<1>7. /\ ~(n > o /\ p <= c /\ j = 4)
      /\ n > o /\ p <= c /\ j = 5 => q = p
      /\ StoredSoFar(s)
  OBVIOUS
<1> HIDE DEF o, b, c, n, p, j, q, pp, jj
<1>8. CASE n + 1 <= o
  BY <1>1, <1>5, <1>6, <1>7, <1>8
<1>9. CASE n = o
  <2>1. b * (pp - 1) + jj = 0 /\ n + 1 > o
    BY <1>1, <1>4, <1>9
  <2>2. pp = 1 /\ jj = 0
    <3>1. CASE b = 6
      BY <2>1, <1>1, <1>4, <3>1
    <3>2. CASE b = 7
      BY <2>1, <1>1, <1>4, <3>2
    <3> QED
      BY <1>1, <3>1, <3>2
  <2> QED
    BY <1>1, <1>5, <1>6, <1>7, <1>9, <2>2
<1>10. CASE n > o
  <2>1. IF j = b - 1 THEN pp = p + 1 /\ jj = 0 ELSE pp = p /\ jj = j + 1
    <3>1. CASE b = 6
      <4>1. /\ p \in Nat /\ j \in 0 .. 5 /\ n = o + 6 * (p - 1) + j + 1
            /\ pp \in Nat /\ jj \in 0 .. 5 /\ n + 1 = o + 6 * (pp - 1) + jj + 1
        BY <1>1, <1>3, <1>4, <1>10, <3>1
      <4>2. 6 * pp + jj = 6 * p + j + 1
        BY <1>1, <4>1
      <4> QED
        BY <3>1, <4>1, <4>2
    <3>2. CASE b = 7
      <4>1. /\ p \in Nat /\ j \in 0 .. 6 /\ n = o + 7 * (p - 1) + j + 1
            /\ pp \in Nat /\ jj \in 0 .. 6 /\ n + 1 = o + 7 * (pp - 1) + jj + 1
        BY <1>1, <1>3, <1>4, <1>10, <3>2
      <4>2. 7 * pp + jj = 7 * p + j + 1
        BY <1>1, <4>1
      <4> QED
        BY <3>2, <4>1, <4>2
    <3> QED
      BY <1>1, <3>1, <3>2
  <2>2. p \in Nat /\ j \in 0 .. b - 1
    BY <1>3, <1>10
  <2>3. CASE p > c
    BY <1>1, <1>5, <1>6, <1>7, <1>10, <2>1, <2>2, <2>3
  <2>4. CASE p <= c /\ j < 4
    BY <1>1, <1>5, <1>6, <1>7, <1>10, <2>1, <2>2, <2>4
  <2>5. CASE p <= c /\ j >= 5
    <3>1. q = p
      BY <1>1, <1>6, <1>7, <1>10, <2>2, <2>5
    <3> QED
      BY <1>1, <1>5, <1>10, <2>1, <2>2, <2>5, <3>1
  <2> QED
    BY <1>1, <1>7, <1>10, <2>2, <2>3, <2>4, <2>5
<1> QED
  BY <1>1, <1>8, <1>9, <1>10

-----------------------------------------------------------------------------
(* The steps of FileTransfer, for the files of a sheet. *)
LEMMA Current ==
  ASSUME NEW s \in Sender, Typed, Len(results[s]) < Len(Files)
  PROVE  /\ Transfer!Succeed(s) <=>
              /\ StoredNow(s) = Parts(s)
              /\ results' = [results EXCEPT ![s] = Append(@, "LERR_SUCCESS")]
              /\ UNCHANGED stored
         /\ Transfer!Fail(s) <=>
              /\ \E r \in Result \ {"LERR_SUCCESS"} :
                   results' = [results EXCEPT ![s] = Append(@, r)]
              /\ UNCHANGED stored
         /\ Transfer!Store(s) <=>
              /\ StoredNow(s) + 1 <= Parts(s)
              /\ stored' = [stored EXCEPT ![s] = Append(@, <<Len(results[s]) + 1, StoredNow(s) + 1>>)]
              /\ UNCHANGED results
<1> DEFINE P == [i \in DOMAIN Files |-> Len(Files[i].parts)]
           f == Len(results[s]) + 1
<1>1. Files \in Seq([kind : {"var", "app", "other"}, parts : Seq(Nat)])
  BY FilesAssumption
<1>2. f \in 1 .. Len(Files) /\ f \in DOMAIN Files
  BY <1>1 DEF Typed
<1>3. P[f] = Parts(s)
  BY <1>2 DEF Parts, File
<1>4. Len(P) = Len(Files)
  <2>1. P \in Seq(Nat)
    <3>1. \A i \in DOMAIN Files : Len(Files[i].parts) \in Nat
      <4> SUFFICES ASSUME NEW i \in DOMAIN Files PROVE Len(Files[i].parts) \in Nat
        OBVIOUS
      <4>1. Files[i] \in [kind : {"var", "app", "other"}, parts : Seq(Nat)]
        BY <1>1, Element, Zenon
      <4> QED
        BY <4>1
    <3>2. DOMAIN Files = 1 .. Len(Files) /\ Len(Files) \in Nat
      BY <1>1
    <3> QED
      BY <3>1, <3>2
  <2>2. DOMAIN P = 1 .. Len(Files) /\ Len(Files) \in Nat
    BY <1>1
  <2>3. DOMAIN P = 1 .. Len(P) /\ Len(P) \in Nat
    BY <2>1
  <2> HIDE DEF P
  <2> QED
    BY <2>2, <2>3
<1>5. f <= Len(P)
  BY <1>2, <1>4
<1>6. /\ Transfer!Succeed(s) <=>
           /\ f <= Len(P) /\ Transfer!StoredOf(s, f) = P[f]
           /\ results' = [results EXCEPT ![s] = Append(@, "LERR_SUCCESS")]
           /\ UNCHANGED stored
      /\ Transfer!Fail(s) <=>
           /\ f <= Len(P)
           /\ \E r \in {"LERR_LINK", "LERR_MEM", "LERR_FILE", "LERR_SYSTEM"} :
                results' = [results EXCEPT ![s] = Append(@, r)]
           /\ UNCHANGED stored
      /\ Transfer!Store(s) <=>
           /\ f <= Len(P) /\ Transfer!StoredOf(s, f) + 1 <= P[f]
           /\ stored' = [stored EXCEPT ![s] = Append(@, <<f, Transfer!StoredOf(s, f) + 1>>)]
           /\ UNCHANGED results
  BY Zenon DEF Transfer!Succeed, Transfer!Fail, Transfer!Store, Transfer!Current
<1>7. Result \ {"LERR_SUCCESS"} = {"LERR_LINK", "LERR_MEM", "LERR_FILE", "LERR_SYSTEM"}
  BY DEF Result
<1> HIDE DEF P
<1> QED
  BY <1>3, <1>5, <1>6, <1>7, Zenon DEF StoredNow

(* What every step of a sheet leaves as it is, or in its type. *)
Around(s) ==
  /\ model' = model
  /\ sent' \in [Sender -> Int] /\ astray' \in [Sender -> BOOLEAN]
  /\ calc' = [t \in Sender |-> calc'[t]]
  /\ \A t \in Sender : t # s => calc'[t] = calc[t]

LEMMA Assemble ==
  ASSUME AInv, NEW s \in Sender, Around(s), Typed', Answering',
         \A t \in Sender : t # s => /\ step'[t] = step[t] /\ results'[t] = results[t]
                                    /\ stored'[t] = stored[t],
         HasFile(s)', NothingAhead(s)',
         step'[s] > 0 => step'[s] <= Length(s)' /\ StoredSoFar(s)'
  PROVE  AInv'
<1> SUFFICES ASSUME NEW t \in Sender, t # s
             PROVE  /\ HasFile(t)' /\ NothingAhead(t)'
                    /\ step'[t] > 0 => step'[t] <= Length(t)' /\ StoredSoFar(t)'
  BY DEF AInv
<1>1. /\ model' = model /\ calc'[t] = calc[t] /\ step'[t] = step[t]
      /\ results'[t] = results[t] /\ stored'[t] = stored[t]
  BY DEF Around
<1>2. /\ HasFile(t) /\ NothingAhead(t)
      /\ step[t] > 0 => step[t] <= Length(t) /\ StoredSoFar(t)
  BY DEF AInv
<1>3. File(t)' = File(t)
  BY <1>1 DEF File
<1>4. /\ Opening(t)' = Opening(t) /\ Body(t)' = Body(t) /\ Parts(t)' = Parts(t)
      /\ EndIsAcked(t)' = EndIsAcked(t)
  BY <1>1, <1>3 DEF Opening, Body, Parts, EndIsAcked
<1>5. Length(t)' = Length(t)
  BY <1>3, <1>4 DEF Length
<1>6. (Part(t, step[t]))' = Part(t, step[t]) /\ Offset(t)' = Offset(t)
  BY <1>1, <1>4 DEF Part, Offset
<1>7. StoredNow(t)' = StoredNow(t) /\ Confirmed(t)' = Confirmed(t)
  BY <1>1 DEF StoredNow, Transfer!StoredOf, Confirmed
<1>8. StoredSoFar(t)' <=> StoredSoFar(t)
  BY <1>1, <1>4, <1>6, <1>7, Zenon DEF StoredSoFar
<1> QED
  BY <1>1, <1>2, <1>3, <1>5, <1>8 DEF HasFile, NothingAhead

(* A function returns: the file has failed, or all of it is stored. *)
LEMMA Returns ==
  ASSUME AInv, NEW s \in Sender, Around(s), Len(results[s]) < Len(Files),
         NEW r \in Result, Return(s, r), UNCHANGED stored,
         r = "LERR_SUCCESS" => StoredNow(s) = Parts(s)
  PROVE  AInv' /\ Transfer!Next
<1>1. /\ results' = [results EXCEPT ![s] = Append(@, r)]
      /\ step' = [step EXCEPT ![s] = 0] /\ refused' = [refused EXCEPT ![s] = FALSE]
  BY DEF Return
<1>2. Typed /\ Answering /\ NothingAhead(s)
  BY DEF AInv
<1>3. Typed' /\ Answering'
  BY <1>1, <1>2 DEF Around, Typed, Answering
<1>4. step'[s] = 0 /\ Len(results'[s]) = Len(results[s]) + 1 /\ Len(results[s]) \in Nat
  BY <1>1, <1>2 DEF Typed
<1>5. NothingAhead(s)'
  <2> SUFFICES ASSUME stored[s] # <<>>
               PROVE  stored[s][Len(stored[s])][1] <= Len(results[s]) + 1
    BY <1>4 DEF NothingAhead
  <2>1. stored[s] \in Seq(Int \X Int)
    BY <1>2 DEF Answering
  <2>2. Len(stored[s]) \in DOMAIN stored[s]
    BY <2>1
  <2>3. stored[s][Len(stored[s])] \in Int \X Int
    BY <2>1, <2>2, Element, Zenon
  <2>4. stored[s][Len(stored[s])][1] \in Int
    BY <2>3
  <2>5. stored[s][Len(stored[s])][1] <= Len(results[s]) + (IF step[s] > 0 THEN 1 ELSE 0)
    BY <1>2 DEF NothingAhead
  <2>6. (IF step[s] > 0 THEN 1 ELSE 0) \in {0, 1}
    OBVIOUS
  <2> DEFINE last == stored[s][Len(stored[s])][1]
             more == IF step[s] > 0 THEN 1 ELSE 0
  <2>7. last \in Int /\ last <= Len(results[s]) + more /\ more \in {0, 1}
    BY <2>4, <2>5, <2>6
  <2> HIDE DEF last, more
  <2>8. last <= Len(results[s]) + 1
    BY <1>4, <2>7
  <2> QED
    BY <2>8 DEF last
<1>6. HasFile(s)'
  BY <1>4 DEF HasFile
<1>7. \A t \in Sender : t # s => /\ step'[t] = step[t] /\ results'[t] = results[t]
                                 /\ stored'[t] = stored[t]
  BY <1>1, <1>2 DEF Typed
<1>8. AInv'
  BY <1>3, <1>4, <1>5, <1>6, <1>7, Assemble
<1>9. Transfer!Succeed(s) \/ Transfer!Fail(s)
  <2>1. CASE r = "LERR_SUCCESS"
    BY <1>1, <1>2, <2>1, Current, Zenon
  <2>2. CASE r # "LERR_SUCCESS"
    <3>1. r \in Result \ {"LERR_SUCCESS"}
      BY <2>2
    <3> QED
      BY <1>1, <1>2, <3>1, Current, Zenon
  <2> QED
    BY <2>1, <2>2
<1> QED
  BY <1>8, <1>9, Zenon DEF Transfer!Next

(* The function stays where it is. *)
LEMMA Stays ==
  ASSUME AInv, NEW s \in Sender, Around(s), UNCHANGED <<step, results, stored>>,
         refused' \in [Sender -> BOOLEAN],
         step[s] > Len(Opening(s)) /\ Part(s, step[s]) <= Parts(s) /\ Offset(s) = 5
           => (Confirmed(s)' => Confirmed(s))
  PROVE  AInv' /\ UNCHANGED <<stored, results>>
<1>1. /\ Typed /\ Answering /\ HasFile(s) /\ NothingAhead(s)
      /\ step[s] > 0 => step[s] <= Length(s) /\ StoredSoFar(s)
  BY DEF AInv
<1>2. Typed' /\ Answering'
  BY <1>1 DEF Around, Typed, Answering
<1>3. File(s)' = File(s) /\ model' = model
  BY DEF File, Around
<1>4. /\ Opening(s)' = Opening(s) /\ Body(s)' = Body(s) /\ Parts(s)' = Parts(s)
      /\ EndIsAcked(s)' = EndIsAcked(s)
  BY <1>3 DEF Opening, Body, Parts, EndIsAcked
<1>5. Length(s)' = Length(s)
  BY <1>3, <1>4 DEF Length
<1>6. (Part(s, step[s]))' = Part(s, step[s]) /\ Offset(s)' = Offset(s)
  BY <1>4 DEF Part, Offset
<1>7. StoredNow(s)' = StoredNow(s)
  BY DEF StoredNow, Transfer!StoredOf
<1>8. ASSUME step[s] > 0 PROVE StoredSoFar(s)'
  <2> DEFINE o == Len(Opening(s))
             p == Part(s, step[s])
             j == Offset(s)
             q == StoredNow(s)
             c == Parts(s)
  <2>1. step[s] > o => p \in Nat /\ j \in Int
    BY <1>1, <1>8, PartOffset, Geometry
  <2>2. c \in Nat /\ o \in Nat /\ step[s] \in Nat
    <3>1. c \in Nat /\ o \in {0, 8}
      BY <1>1, <1>8, Geometry
    <3> QED
      BY <1>1, <3>1 DEF Typed
  <2>3. IF step[s] <= o THEN q = 0
        ELSE IF p > c THEN q = c
        ELSE IF j < 5 THEN q = p - 1
        ELSE IF j = 5 THEN q \in {p - 1, p} /\ (Confirmed(s) => q = p)
        ELSE q = p
    BY <1>1, <1>8 DEF StoredSoFar
  <2>4. StoredSoFar(s)' <=>
          IF step[s] <= o THEN q = 0
          ELSE IF p > c THEN q = c
          ELSE IF j < 5 THEN q = p - 1
          ELSE IF j = 5 THEN q \in {p - 1, p} /\ (Confirmed(s)' => q = p)
          ELSE q = p
    BY <1>4, <1>6, <1>7 DEF StoredSoFar
  <2>5. step[s] > o /\ p <= c /\ j = 5 => (Confirmed(s)' => Confirmed(s))
    OBVIOUS
  <2> HIDE DEF o, p, j, q, c
  <2> QED
    BY <2>1, <2>2, <2>3, <2>4, <2>5
<1>9. HasFile(s)' /\ NothingAhead(s)'
  BY <1>1, <1>3 DEF HasFile, NothingAhead
<1>10. step'[s] > 0 => step'[s] <= Length(s)' /\ StoredSoFar(s)'
  BY <1>1, <1>5, <1>8
<1>11. \A t \in Sender : t # s => /\ step'[t] = step[t] /\ results'[t] = results[t]
                                  /\ stored'[t] = stored[t]
  OBVIOUS
<1> QED
  BY <1>2, <1>9, <1>10, <1>11, Assemble

(* The function goes on from a step that is not that of the data. *)
LEMMA Advances ==
  ASSUME AInv, NEW s \in Sender, Around(s), step[s] > 0, Advance(s), UNCHANGED stored,
         refused' \in [Sender -> BOOLEAN],
         ~(step[s] > Len(Opening(s)) /\ Part(s, step[s]) <= Parts(s) /\ Offset(s) = 4),
         step[s] > Len(Opening(s)) /\ Part(s, step[s]) <= Parts(s) /\ Offset(s) = 5
           => StoredNow(s) = Part(s, step[s])
  PROVE  AInv' /\ (Transfer!Next \/ UNCHANGED <<stored, results>>)
<1>1. /\ Typed /\ Answering /\ HasFile(s) /\ NothingAhead(s)
      /\ step[s] <= Length(s) /\ StoredSoFar(s)
  BY DEF AInv
<1>2. step[s] \in Nat /\ Length(s) \in Int
  <2>1. step[s] \in Nat
    BY <1>1 DEF Typed
  <2>2. /\ Len(Opening(s)) \in {0, 8} /\ Len(Body(s)) \in {6, 7} /\ Parts(s) \in Nat
        /\ Length(s) \in {Len(Opening(s)) + Len(Body(s)) * Parts(s),
                          Len(Opening(s)) + Len(Body(s)) * Parts(s) + 2}
    BY <1>1, Geometry
  <2>3. Len(Body(s)) * Parts(s) \in Int
    BY <2>2
  <2> QED
    BY <2>1, <2>2, <2>3
<1>3. CASE step[s] < Length(s)
  <2>1. step' = [step EXCEPT ![s] = @ + 1] /\ UNCHANGED <<results, refused>>
    BY <1>3 DEF Advance
  <2>2. Typed' /\ Answering'
    BY <1>1, <2>1 DEF Around, Typed, Answering
  <2>3. step'[s] = step[s] + 1 /\ UNCHANGED <<model, results>>
    BY <1>1, <2>1 DEF Typed, Around
  <2>4. File(s)' = File(s)
    BY <2>1 DEF File
  <2>5. HasFile(s)' /\ NothingAhead(s)'
    <3>1. HasFile(s)'
      BY <1>1, <2>3, <2>4 DEF HasFile
    <3>2. (IF step'[s] > 0 THEN 1 ELSE 0) = 1 /\ (IF step[s] > 0 THEN 1 ELSE 0) = 1
      BY <1>2, <2>3
    <3>3. NothingAhead(s)'
      BY <1>1, <2>3, <3>2 DEF NothingAhead
    <3> QED
      BY <3>1, <3>3
  <2>6. Length(s)' = Length(s)
    BY <2>3, <2>4 DEF Length, Opening, Body, EndIsAcked
  <2>7. (StoredNow(s))' = StoredNow(s)
    BY <2>3 DEF StoredNow, Transfer!StoredOf
  <2>8. StoredSoFar(s)'
    BY <1>1, <1>3, <2>2, <2>3, <2>5, <2>7, NextStep
  <2>9. step'[s] <= Length(s)'
    BY <1>2, <1>3, <2>3, <2>6
  <2>10. \A t \in Sender : t # s => /\ step'[t] = step[t] /\ results'[t] = results[t]
                                    /\ stored'[t] = stored[t]
    BY <1>1, <2>1 DEF Typed
  <2> QED
    BY <2>1, <2>2, <2>5, <2>8, <2>9, <2>10, Assemble
<1>4. CASE step[s] = Length(s)
  <2>1. Return(s, "LERR_SUCCESS")
    BY <1>2, <1>4 DEF Advance
  <2>2. StoredNow(s) = Parts(s)
    <3> DEFINE p == Part(s, step[s])
               j == Offset(s)
               q == StoredNow(s)
               c == Parts(s)
               o == Len(Opening(s))
    <3>1. step[s] > o /\ (p > c \/ (p = c /\ j >= 5))
      BY <1>1, <1>4, LastStep
    <3>2. p \in Nat /\ j \in 0 .. Len(Body(s)) - 1 /\ Len(Body(s)) \in {6, 7}
          /\ o \in {0, 8} /\ c \in Nat
      BY <1>1, <3>1, PartOffset, Geometry
    <3>3. IF step[s] <= o THEN q = 0
          ELSE IF p > c THEN q = c
          ELSE IF j < 5 THEN q = p - 1
          ELSE IF j = 5 THEN q \in {p - 1, p} /\ (Confirmed(s) => q = p)
          ELSE q = p
      BY <1>1 DEF StoredSoFar
    <3>4. step[s] > o /\ p <= c /\ j = 5 => q = p
      OBVIOUS
    <3> HIDE DEF p, j, q, c, o
    <3>5. q = c
      BY <1>2, <3>1, <3>2, <3>3, <3>4
    <3> QED
      BY <3>5 DEF q, c
  <2>3. "LERR_SUCCESS" \in Result /\ Len(results[s]) < Len(Files)
    BY <1>1 DEF Result, HasFile
  <2> QED
    BY <2>1, <2>2, <2>3, Returns
<1> QED
  BY <1>1, <1>2, <1>3, <1>4

(* The data of a part is across, and the calculator keeps it or complains. *)
LEMMA DataIsStored ==
  ASSUME AInv, NEW s \in Sender, Around(s), step[s] > 0, ~refused[s], Advance(s),
         Step(s, step[s])[2] = "DATA", refused' \in [Sender -> BOOLEAN],
         calc'[s].out = <<"ACK">> \/ calc'[s].out = <<>> \/ Head(calc'[s].out) # "ACK",
         stored' = IF calc'[s].out = <<"ACK">>
                     THEN [stored EXCEPT ![s] = Append(@, <<Len(results[s]) + 1, Part(s, step[s])>>)]
                     ELSE stored
  PROVE  AInv' /\ (Transfer!Next \/ UNCHANGED <<stored, results>>)
<1> DEFINE p == Part(s, step[s])
           j == Offset(s)
           q == StoredNow(s)
           c == Parts(s)
           o == Len(Opening(s))
           f == Len(results[s]) + 1
<1>1. /\ Typed /\ Answering /\ HasFile(s) /\ NothingAhead(s)
      /\ step[s] <= Length(s) /\ StoredSoFar(s)
  BY DEF AInv
<1>2. step[s] > o /\ p <= c /\ j = 4
  BY <1>1, WhatIsSaid
<1>3. /\ p \in Nat /\ p >= 1 /\ c \in Nat /\ o \in {0, 8} /\ Len(Body(s)) \in {6, 7}
      /\ step[s] = o + Len(Body(s)) * (p - 1) + 5
      /\ Length(s) \in {o + Len(Body(s)) * c, o + Len(Body(s)) * c + 2}
  <2>1. /\ c \in Nat /\ o \in {0, 8} /\ Len(Body(s)) \in {6, 7}
        /\ Length(s) \in {o + Len(Body(s)) * c, o + Len(Body(s)) * c + 2}
    BY <1>1, Geometry
  <2>2. /\ p \in Nat /\ p >= 1 /\ j \in 0 .. Len(Body(s)) - 1
        /\ step[s] = o + Len(Body(s)) * (p - 1) + j + 1
    BY <1>1, <1>2, PartOffset
  <2> DEFINE m == Len(Body(s)) * (p - 1)
  <2>3. m \in Int
    BY <2>1, <2>2
  <2>4. step[s] = o + m + j + 1
    BY <2>2
  <2> HIDE DEF m, p, c, o, j
  <2>5. step[s] = o + m + 5
    BY <1>2, <2>1, <2>3, <2>4
  <2> QED
    BY <2>1, <2>2, <2>5 DEF m
<1>4. step[s] < Length(s) /\ step[s] \in Nat /\ Length(s) \in Int
  <2>1. step[s] \in Nat
    BY <1>1 DEF Typed
  <2> DEFINE b == Len(Body(s))
  <2> HIDE DEF p, c, o, j, b
  <2>2. CASE b = 6
    BY <1>2, <1>3, <2>1, <2>2 DEF b
  <2>3. CASE b = 7
    BY <1>2, <1>3, <2>1, <2>3 DEF b
  <2> QED
    BY <1>3, <2>2, <2>3 DEF b
<1>5. step' = [step EXCEPT ![s] = @ + 1] /\ UNCHANGED <<results, refused>>
  BY <1>4 DEF Advance
<1>6. step'[s] = step[s] + 1 /\ UNCHANGED <<model, results>>
  BY <1>1, <1>5 DEF Typed, Around
<1>7. q = p - 1
  <2>1. ~(step[s] <= o) /\ ~(p > c) /\ j < 5
    BY <1>2, <1>3, <1>4
  <2> QED
    BY <1>1, <2>1 DEF StoredSoFar
<1>8. f \in Nat /\ f >= 1 /\ Len(results[s]) < Len(Files)
  BY <1>1 DEF Typed, HasFile
<1>9. Typed' /\ Answering'
  <2>1. <<f, p>> \in Int \X Int
    BY <1>3, <1>8
  <2>2. stored' \in [Sender -> Seq(Int \X Int)]
    <3> HIDE DEF f, p
    <3>1. stored \in [Sender -> Seq(Int \X Int)]
      BY <1>1 DEF Answering
    <3>2. stored' = [stored EXCEPT ![s] = Append(@, <<f, p>>)] \/ stored' = stored
      BY DEF f, p
    <3> QED
      BY <2>1, <3>1, <3>2
  <2>3. Answering'
    BY <2>2 DEF Around, Answering
  <2> HIDE DEF p, j, q, c, o, f
  <2>4. Typed'
    BY <1>1, <1>5 DEF Around, Typed
  <2> QED
    BY <2>3, <2>4
<1>10. File(s)' = File(s) /\ Opening(s)' = Opening(s) /\ Body(s)' = Body(s) /\ Parts(s)' = Parts(s)
  BY <1>6 DEF File, Opening, Body, Parts
<1>11. Length(s)' = Length(s) /\ HasFile(s)'
  BY <1>1, <1>6, <1>10 DEF Length, EndIsAcked, HasFile, Parts
<1>12. (Part(s, step[s]))' = p /\ Offset(s)' = 5
  <2> DEFINE b == Len(Body(s))
             k == (step[s] + 1) - o - 1
  <2>1. (Part(s, step[s]))' = (k \div b) + 1 /\ Offset(s)' = k % b
    BY <1>6, <1>10 DEF Part, Offset
  <2>2. b * (p - 1) \in Int
    BY <1>3
  <2>3. k = b * (p - 1) + 5
    <3> DEFINE m == b * (p - 1)
    <3>1. step[s] = o + m + 5 /\ m \in Int /\ o \in {0, 8}
      BY <1>3, <2>2
    <3> HIDE DEF m, o
    <3>2. (step[s] + 1) - o - 1 = m + 5
      BY <3>1
    <3>3. k = m + 5
      BY <3>2, Zenon DEF o
    <3> QED
      BY <3>3, Zenon DEF m
  <2>4. b \in {6, 7} /\ p - 1 \in Nat /\ 5 \in 0 .. b - 1
    <3>1. b \in {6, 7} /\ p \in Nat /\ p >= 1
      BY <1>3, Zenon
    <3> HIDE DEF b, p
    <3> QED
      BY <3>1
  <2> HIDE DEF k, b, p
  <2>5. k \div b = p - 1 /\ k % b = 5
    BY <2>3, <2>4, DivisionUnique
  <2>6. p - 1 + 1 = p
    BY <1>3
  <2> QED
    BY <2>1, <2>5, <2>6
<1>13. StoredNow(s)' = (IF calc'[s].out = <<"ACK">> THEN p ELSE q)
  <2>1. CASE calc'[s].out = <<"ACK">>
    <3>1. stored'[s] = Append(stored[s], <<f, p>>) /\ stored[s] \in Seq(Int \X Int)
      BY <1>1, <2>1 DEF Answering
    <3>2. <<f, p>>[1] = f /\ <<f, p>>[2] = p /\ <<f, p>> \in Int \X Int
      BY <1>3, <1>8
    <3>3. Len(stored'[s]) > 0 /\ stored'[s][Len(stored'[s])] = <<f, p>>
      <4> DEFINE e == <<f, p>>
      <4> HIDE DEF e
      <4> QED
        BY <3>1, <3>2 DEF e
    <3>4. StoredNow(s)' = p
      BY <1>6, <3>2, <3>3 DEF StoredNow, Transfer!StoredOf
    <3> QED
      BY <2>1, <3>4
  <2>2. CASE calc'[s].out # <<"ACK">>
    BY <1>6, <2>2 DEF StoredNow, Transfer!StoredOf
  <2> QED
    BY <2>1, <2>2
<1>14. Confirmed(s)' => calc'[s].out = <<"ACK">>
  BY DEF Confirmed
<1>15. StoredSoFar(s)'
  <2>1. StoredSoFar(s)' <=>
          IF step'[s] <= o THEN StoredNow(s)' = 0
          ELSE IF p > c THEN StoredNow(s)' = c
          ELSE /\ StoredNow(s)' \in {p - 1, p}
               /\ Confirmed(s)' => StoredNow(s)' = p
    BY <1>10, <1>12 DEF StoredSoFar
  <2>2. ~(step'[s] <= o) /\ ~(p > c)
    BY <1>2, <1>3, <1>4, <1>6
  <2> QED
    BY <1>7, <1>13, <1>14, <2>1, <2>2
<1>16. NothingAhead(s)'
  <2>1. (IF step'[s] > 0 THEN 1 ELSE 0) = 1 /\ (IF step[s] > 0 THEN 1 ELSE 0) = 1
    BY <1>4, <1>6
  <2>2. CASE calc'[s].out = <<"ACK">>
    <3>1. stored'[s] = Append(stored[s], <<f, p>>) /\ stored[s] \in Seq(Int \X Int)
      BY <1>1, <2>2 DEF Answering
    <3>2. <<f, p>>[1] = f /\ <<f, p>> \in Int \X Int
      BY <1>3, <1>8
    <3>3. stored'[s][Len(stored'[s])] = <<f, p>>
      <4> DEFINE e == <<f, p>>
      <4> HIDE DEF e
      <4> QED
        BY <3>1, <3>2 DEF e
    <3>4. stored'[s][Len(stored'[s])][1] = f
      BY <3>2, <3>3
    <3>5. f <= Len(results'[s]) + 1
      BY <1>6, <1>8
    <3> QED
      BY <2>1, <3>4, <3>5 DEF NothingAhead
  <2>3. CASE calc'[s].out # <<"ACK">>
    BY <1>1, <1>6, <2>1, <2>3 DEF NothingAhead
  <2> QED
    BY <2>2, <2>3
<1>17. step'[s] <= Length(s)'
  BY <1>4, <1>6, <1>11
<1>18. \A t \in Sender : t # s => /\ step'[t] = step[t] /\ results'[t] = results[t]
                                  /\ stored'[t] = stored[t]
  BY <1>1, <1>5 DEF Typed, Answering
<1>19. AInv'
  BY <1>9, <1>11, <1>15, <1>16, <1>17, <1>18, Assemble
<1>20. CASE calc'[s].out = <<"ACK">>
  <2>1. q + 1 = p
    BY <1>3, <1>7
  <2>2. Transfer!Store(s)
    BY <1>1, <1>2, <1>5, <1>8, <1>20, <2>1, Current
  <2> QED
    BY <1>19, <2>2, Zenon DEF Transfer!Next
<1>21. CASE calc'[s].out # <<"ACK">>
  BY <1>5, <1>19, <1>21
<1> QED
  BY <1>20, <1>21

-----------------------------------------------------------------------------
(* The calculator's answer to data is to keep it, or not. *)
LEMMA DataAnswers ==
  ASSUME NEW s \in Sender, NEW a \in Answers(s, "DATA")
  PROVE  a.out = <<"ACK">> \/ a.out = <<>> \/ Head(a.out) # "ACK"
<1>1. a \in {[state |-> "ready", out |-> <<"ACK">>], Complaint, Quiet}
  BY DEF Answers
<1> QED
  BY <1>1 DEF Complaint, Quiet

LEMMA SheetStep ==
  ASSUME AInv, NEW s \in Sender, Send(s) \/ GiveUp(s)
  PROVE  AInv' /\ (Transfer!Next \/ UNCHANGED <<stored, results>>)
<1>1. /\ Typed /\ Answering /\ HasFile(s) /\ NothingAhead(s)
      /\ step[s] > 0 => step[s] <= Length(s) /\ StoredSoFar(s)
  BY DEF AInv
<1>2. Idle \in Int /\ 0 \in Int
  BY DEF Idle
<1>3. CASE Start(s)
  <2>1. /\ step[s] = 0 /\ Len(results[s]) < Len(Files) /\ Around(s) /\ UNCHANGED stored
    BY <1>1, <1>3 DEF Start, Around, Typed, Answering
  <2>2. CASE \E r \in Result \ {"LERR_SUCCESS"} : Return(s, r)
    BY <2>1, <2>2, Returns
  <2>3. CASE /\ File(s).kind # "other" /\ step' = [step EXCEPT ![s] = 1]
             /\ UNCHANGED <<results, refused>>
    <3>1. step'[s] = 1 /\ Typed' /\ Answering' /\ UNCHANGED <<model, results>>
      BY <1>1, <2>1, <2>3 DEF Around, Typed, Answering
    <3>2. File(s).kind \in Sending /\ File(s)' = File(s)
      <4>1. Len(results[s]) \in Nat
        BY <1>1 DEF Typed
      <4>2. File(s).kind \in Sending \cup {"other"}
        BY <2>1, <4>1, FileShape DEF File
      <4> QED
        BY <2>3, <4>2 DEF File
    <3>3. HasFile(s)'
      BY <2>1, <3>1, <3>2 DEF HasFile
    <3> DEFINE o == Len(Opening(s))
               b == Len(Body(s))
               c == Parts(s)
    <3>4. /\ o \in {0, 8} /\ b \in {6, 7} /\ c \in Nat /\ c >= 1
          /\ Length(s) \in {o + b * c, o + b * c + 2}
      BY <1>1, <2>1, <3>2, FileGeometry
    <3>5. /\ Opening(s)' = Opening(s) /\ Body(s)' = Body(s) /\ Parts(s)' = c
          /\ EndIsAcked(s)' = EndIsAcked(s)
      BY <3>1, <3>2 DEF Opening, Body, Parts, EndIsAcked
    <3>6. Length(s)' = Length(s)
      BY <3>2, <3>5 DEF Length
    <3>7. 1 <= Length(s)
      <4> HIDE DEF o, b, c
      <4>1. CASE b = 6
        BY <3>4, <4>1
      <4>2. CASE b = 7
        BY <3>4, <4>2
      <4> QED
        BY <3>4, <4>1, <4>2
    <3>8. StoredNow(s)' = 0
      <4>1. stored[s] \in Seq(Int \X Int) /\ Len(results[s]) \in Nat
        BY <1>1 DEF Typed, Answering
      <4>2. CASE Len(stored[s]) > 0
        <5>1. stored[s][Len(stored[s])] \in Int \X Int
          <6>1. Len(stored[s]) \in DOMAIN stored[s]
            BY <4>1, <4>2
          <6> QED
            BY <4>1, <6>1, Element, Zenon
        <5>2. stored[s][Len(stored[s])][1] \in Int
          BY <5>1
        <5>3. stored[s] # <<>> /\ (IF step[s] > 0 THEN 1 ELSE 0) = 0
          BY <2>1, <4>2
        <5>4. stored[s][Len(stored[s])][1] <= Len(results[s]) + 0
          BY <1>1, <5>3 DEF NothingAhead
        <5>5. stored[s][Len(stored[s])][1] # Len(results[s]) + 1
          BY <4>1, <5>2, <5>4
        <5> QED
          BY <2>1, <3>1, <5>5 DEF StoredNow, Transfer!StoredOf
      <4>3. CASE ~(Len(stored[s]) > 0)
        BY <2>1, <3>1, <4>3 DEF StoredNow, Transfer!StoredOf
      <4> QED
        BY <4>2, <4>3
    <3>9. StoredSoFar(s)'
      <4>1. CASE o = 8
        <5>1. step'[s] <= Len(Opening(s))'
          BY <3>1, <3>5, <4>1
        <5> QED
          BY <3>8, <5>1 DEF StoredSoFar
      <4>2. CASE o = 0
        <5>1. (Part(s, step[s]))' = ((1 - o - 1) \div b) + 1 /\ Offset(s)' = (1 - o - 1) % b
          BY <3>1, <3>5 DEF Part, Offset
        <5>2. 1 - o - 1 = b * 0 + 0 /\ 0 \in 0 .. b - 1
          <6> HIDE DEF o, b
          <6> QED
            BY <3>4, <4>2
        <5> HIDE DEF o, b, c
        <5>3. (1 - o - 1) \div b = 0 /\ (1 - o - 1) % b = 0
          BY <3>4, <5>2, DivisionUnique
        <5>4. (Part(s, step[s]))' = 1 /\ Offset(s)' = 0
          BY <5>1, <5>3
        <5>5. ~(step'[s] <= Len(Opening(s))')
          BY <3>1, <3>5, <4>2 DEF o
        <5>6. ~((Part(s, step[s]))' > Parts(s)') /\ Offset(s)' < 5
          BY <3>4, <3>5, <5>4
        <5>7. StoredNow(s)' = (Part(s, step[s]))' - 1
          BY <3>8, <5>4
        <5> QED
          BY <5>5, <5>6, <5>7 DEF StoredSoFar
      <4> QED
        BY <3>4, <4>1, <4>2
    <3>10. NothingAhead(s)'
      <4>1. (IF step[s] > 0 THEN 1 ELSE 0) = 0 /\ (IF step'[s] > 0 THEN 1 ELSE 0) = 1
        BY <2>1, <3>1
      <4> SUFFICES ASSUME stored[s] # <<>>
                   PROVE  stored[s][Len(stored[s])][1] <= Len(results[s]) + 1
        BY <2>1, <3>1, <4>1 DEF NothingAhead
      <4>2. stored[s] \in Seq(Int \X Int) /\ Len(results[s]) \in Nat
        BY <1>1 DEF Typed, Answering
      <4>3. stored[s][Len(stored[s])] \in Int \X Int
        <5>1. Len(stored[s]) \in DOMAIN stored[s]
          BY <4>2
        <5> QED
          BY <4>2, <5>1, Element, Zenon
      <4>4. stored[s][Len(stored[s])][1] \in Int
        BY <4>3
      <4>5. stored[s][Len(stored[s])][1] <= Len(results[s]) + 0
        BY <1>1, <4>1 DEF NothingAhead
      <4> QED
        BY <4>2, <4>4, <4>5
    <3>11. \A t \in Sender : t # s => /\ step'[t] = step[t] /\ results'[t] = results[t]
                                       /\ stored'[t] = stored[t]
      BY <1>1, <2>1, <2>3 DEF Typed
    <3>12. step'[s] <= Length(s)'
      BY <3>1, <3>6, <3>7
    <3> QED
      BY <2>1, <2>3, <3>1, <3>3, <3>9, <3>10, <3>11, <3>12, Assemble
  <2> QED
    BY <1>3, <2>2, <2>3, Zenon DEF Start, Result
<1>4. CASE Begin(s)
  <2>1. Around(s) /\ UNCHANGED <<step, results, stored, calc, refused>>
    BY <1>1, <1>2, <1>4 DEF Begin, Around, Typed, Answering
  <2>2. refused' \in [Sender -> BOOLEAN] /\ (Confirmed(s)' => Confirmed(s))
    BY <1>1, <2>1 DEF Typed, Confirmed
  <2> QED
    BY <2>1, <2>2, Stays
<1>5. CASE SendByte(s)
  <2>1. Around(s) /\ UNCHANGED <<step, results, stored, calc, refused>>
    BY <1>1, <1>5 DEF SendByte, Around, Typed, Answering
  <2>2. refused' \in [Sender -> BOOLEAN] /\ (Confirmed(s)' => Confirmed(s))
    BY <1>1, <2>1 DEF Typed, Confirmed
  <2> QED
    BY <2>1, <2>2, Stays
<1>6. CASE PacketSent(s)
  <2>1. PICK a \in Answers(s, Command(s)) :
          /\ calc' = [calc EXCEPT ![s] = a]
          /\ stored' = IF Command(s) = "DATA" /\ a.out = <<"ACK">>
                         THEN [stored EXCEPT ![s] = Append(@, <<Len(results[s]) + 1, Part(s, step[s])>>)]
                         ELSE stored
    BY <1>6 DEF PacketSent
  <2>2. /\ step[s] > 0 /\ Saying(s) /\ UNCHANGED <<model, astray>>
        /\ sent' = [sent EXCEPT ![s] = Idle]
        /\ IF refused[s] THEN Return(s, "LERR_MEM") ELSE Advance(s)
    BY <1>6 DEF PacketSent, Underway
  <2>3. Around(s) /\ calc'[s] = a
    <3>1. calc' = [t \in Sender |-> calc'[t]] /\ calc'[s] = a /\ \A t \in Sender : t # s => calc'[t] = calc[t]
      BY <1>1, <2>1 DEF Answering
    <3>2. sent' \in [Sender -> Int] /\ astray' \in [Sender -> BOOLEAN]
      BY <1>1, <1>2, <2>2 DEF Typed
    <3> QED
      BY <2>2, <3>1, <3>2 DEF Around
  <2>5. refused' \in [Sender -> BOOLEAN]
    BY <1>1, <2>2 DEF Return, Advance, Typed
  <2>6. Len(results[s]) < Len(Files)
    BY <1>1, <2>2 DEF HasFile
  <2>7. CASE refused[s]
    <3>1. Command(s) # "DATA"
      BY <2>7 DEF Command
    <3>2. Return(s, "LERR_MEM") /\ UNCHANGED stored /\ "LERR_MEM" \in Result
      BY <2>1, <2>2, <2>7, <3>1 DEF Result
    <3> QED
      BY <2>3, <2>6, <3>2, Returns
  <2>8. CASE ~refused[s] /\ Command(s) = "DATA"
    <3>1. Step(s, step[s])[2] = "DATA" /\ Advance(s)
      BY <2>2, <2>8 DEF Command
    <3>2. a.out = <<"ACK">> \/ a.out = <<>> \/ Head(a.out) # "ACK"
      BY <2>8, DataAnswers
    <3>3. stored' = IF calc'[s].out = <<"ACK">>
                      THEN [stored EXCEPT ![s] = Append(@, <<Len(results[s]) + 1, Part(s, step[s])>>)]
                      ELSE stored
      BY <2>1, <2>3, <2>8
    <3> QED
      BY <2>2, <2>3, <2>5, <2>8, <3>1, <3>2, <3>3, DataIsStored
  <2>9. CASE ~refused[s] /\ Command(s) # "DATA"
    <3>1. Advance(s) /\ UNCHANGED stored
      BY <2>1, <2>2, <2>9
    <3>2. Step(s, step[s])[1] = "send" /\ Step(s, step[s])[2] # "DATA"
      BY <2>2, <2>9 DEF Saying, Command
    <3>3. ~(step[s] > Len(Opening(s)) /\ Part(s, step[s]) <= Parts(s) /\ Offset(s) \in {4, 5})
      BY <1>1, <2>2, <3>2, WhatIsSaid DEF Say, Hear
    <3> QED
      BY <2>2, <2>3, <2>5, <3>1, <3>3, Advances
  <2> QED
    BY <2>7, <2>8, <2>9
<1>7. CASE Receive(s)
  <2> DEFINE h == Head(calc[s].out)
  <2>1. /\ step[s] > 0 /\ ~Saying(s) /\ calc[s].out # <<>> /\ Heard(s, h)
        /\ UNCHANGED <<model, astray, stored>>
        /\ sent' = [sent EXCEPT ![s] = Idle]
        /\ calc' = [calc EXCEPT ![s].out = Tail(@)]
    BY <1>7 DEF Receive, Underway
  <2>2. ~refused[s] /\ Step(s, step[s])[1] # "send" /\ Command(s) = Step(s, step[s])[2]
    BY <2>1 DEF Saying, Command
  <2>3. Around(s)
    <3>3. calc' = [t \in Sender |-> calc'[t]]
      BY <1>1, <2>1 DEF Answering
    <3>4. \A t \in Sender : t # s => calc'[t] = calc[t]
      BY <1>1, <2>1 DEF Answering
    <3> QED
      BY <1>1, <1>2, <2>1, <3>3, <3>4 DEF Around, Typed
  <2>4. Len(results[s]) < Len(Files)
    BY <1>1, <2>1 DEF HasFile
  <2>5. CASE Command(s) \in {h, "any"} /\ Advance(s)
    <3>1. ~(step[s] > Len(Opening(s)) /\ Part(s, step[s]) <= Parts(s) /\ Offset(s) = 4)
      BY <1>1, <2>1, <2>2, WhatIsSaid DEF Say, Hear
    <3>2. ASSUME step[s] > Len(Opening(s)), Part(s, step[s]) <= Parts(s), Offset(s) = 5
          PROVE  StoredNow(s) = Part(s, step[s])
      <4>1. Command(s) = "ACK"
        BY <1>1, <2>1, <2>2, <3>2, WhatIsSaid DEF Hear
      <4>2. Confirmed(s)
        BY <2>1, <2>5, <4>1 DEF Confirmed
      <4>3. Part(s, step[s]) \in Nat /\ Parts(s) \in Nat
        BY <1>1, <2>1, <3>2, PartOffset, Geometry
      <4>4. Len(Opening(s)) \in {0, 8} /\ step[s] \in Nat
        <5>1. Len(Opening(s)) \in {0, 8}
          BY <1>1, <2>1, Geometry
        <5> QED
          BY <1>1, <5>1 DEF Typed
      <4>5. ~(step[s] <= Len(Opening(s))) /\ ~(Part(s, step[s]) > Parts(s)) /\ ~(Offset(s) < 5)
        BY <3>2, <4>3, <4>4
      <4> QED
        BY <1>1, <2>1, <3>2, <4>2, <4>5 DEF StoredSoFar
    <3>3. refused' \in [Sender -> BOOLEAN]
      BY <1>1, <2>5 DEF Return, Advance, Typed
    <3> QED
      BY <2>1, <2>3, <2>5, <3>1, <3>2, <3>3, Advances
  <2>6. CASE \E r \in {"LERR_MEM", "LERR_LINK"} : Return(s, r)
    <3>1. {"LERR_MEM", "LERR_LINK"} \subseteq Result \ {"LERR_SUCCESS"}
      BY DEF Result
    <3> QED
      BY <2>1, <2>3, <2>4, <2>6, <3>1, Returns
  <2>7. CASE /\ Command(s) = "CTS" /\ refused' = [refused EXCEPT ![s] = TRUE]
             /\ UNCHANGED <<step, results>>
    <3>1. Step(s, step[s])[2] # "ACK"
      BY <2>2, <2>7
    <3>2. Hear("ACK")[2] = "ACK"
      BY DEF Hear
    <3>3. ~(step[s] > Len(Opening(s)) /\ Part(s, step[s]) <= Parts(s) /\ Offset(s) = 5)
      BY <1>1, <2>1, <3>1, <3>2, WhatIsSaid
    <3>4. refused' \in [Sender -> BOOLEAN]
      BY <1>1, <2>7 DEF Typed
    <3> QED
      BY <2>1, <2>3, <2>7, <3>3, <3>4, Stays
  <2> QED
    BY <2>1, <2>5, <2>6, <2>7, Zenon DEF Heard
<1>8. CASE Throw(s)
  <2>1. step[s] > 0 /\ UNCHANGED <<model, calc, stored>>
    BY <1>8 DEF Throw, Underway
  <2>2. CASE /\ Return(s, "LERR_SYSTEM") /\ sent' = [sent EXCEPT ![s] = Idle]
             /\ UNCHANGED astray
    <3>1. Around(s) /\ "LERR_SYSTEM" \in Result
      BY <1>1, <1>2, <2>1, <2>2 DEF Around, Typed, Answering, Result
    <3>2. Len(results[s]) < Len(Files)
      BY <1>1, <2>1 DEF HasFile
    <3> QED
      BY <2>1, <2>2, <3>1, <3>2, Returns
  <2>3. CASE /\ astray' = [astray EXCEPT ![s] = TRUE]
             /\ UNCHANGED <<step, sent, refused, results>>
    <3>1. Around(s)
      BY <1>1, <2>1, <2>3 DEF Around, Typed, Answering
    <3>2. refused' \in [Sender -> BOOLEAN] /\ (Confirmed(s)' => Confirmed(s))
      BY <1>1, <2>1, <2>3 DEF Typed, Confirmed
    <3> QED
      BY <2>1, <2>3, <3>1, <3>2, Stays
  <2> QED
    BY <1>8, <2>2, <2>3, Zenon DEF Throw
<1>9. CASE GiveUp(s)
  <2>1. /\ calc' = [calc EXCEPT ![s] = Quiet]
        /\ UNCHANGED <<model, step, sent, refused, astray, results, stored>>
    BY <1>9 DEF GiveUp
  <2>2. Around(s) /\ refused' \in [Sender -> BOOLEAN]
    BY <1>1, <2>1 DEF Around, Typed, Answering
  <2>3. ~Confirmed(s)'
    BY <1>1, <2>1 DEF Answering, Confirmed, Quiet
  <2> QED
    BY <2>1, <2>2, <2>3, Stays
<1> QED
  BY <1>3, <1>4, <1>5, <1>6, <1>7, <1>8, <1>9 DEF Send

LEMMA TransferInit == Init => AInv /\ Transfer!Init
<1> SUFFICES ASSUME Init PROVE AInv /\ Transfer!Init
  OBVIOUS
<1>1. Typed
  BY DEF Init, Typed, Idle
<1>2. Answering
  BY DEF Init, Answering
<1>3. ASSUME NEW s \in Sender PROVE HasFile(s) /\ NothingAhead(s) /\ ~(step[s] > 0)
  <2>1. step[s] = 0 /\ stored[s] = <<>>
    BY DEF Init
  <2> QED
    BY <2>1 DEF HasFile, NothingAhead
<1>4. Transfer!Init
  BY DEF Init, Transfer!Init
<1> QED
  BY <1>1, <1>2, <1>3, <1>4, Zenon DEF AInv

LEMMA TransferNext ==
  AInv /\ [Next]_vars => AInv' /\ [Transfer!Next]_<<stored, results>>
<1> SUFFICES ASSUME AInv, [Next]_vars
             PROVE  AInv' /\ (Transfer!Next \/ UNCHANGED <<stored, results>>)
  OBVIOUS
<1>1. CASE UNCHANGED vars
  <2>1. UNCHANGED <<model, step, results, calc, stored, sent, refused, astray>>
    BY <1>1 DEF vars
  <2>2. \A s \in Sender : HasFile(s)' = HasFile(s) /\ NothingAhead(s)' = NothingAhead(s)
                          /\ Length(s)' = Length(s) /\ StoredSoFar(s)' = StoredSoFar(s)
    BY <2>1 DEF HasFile, NothingAhead, Length, StoredSoFar, File, Opening, Body, EndIsAcked,
                Parts, Part, Offset, StoredNow, Transfer!StoredOf, Confirmed
  <2>3. Typed' /\ Answering'
    BY <2>1 DEF AInv, Typed, Answering
  <2> QED
    BY <2>1, <2>2, <2>3 DEF AInv
<1>2. CASE \E s \in Sender : Send(s) \/ GiveUp(s)
  BY <1>2, SheetStep
<1> QED
  BY <1>1, <1>2 DEF Next

(***************************************************************************)
(* For all files, models and numbers of sheets, and whatever the           *)
(* calculators do, a transfer keeps the promise of FileTransfer: parts are *)
(* stored in order and once, and a file reported as sent is stored whole.  *)
(***************************************************************************)
THEOREM TransferKeepsPromise == Spec => ImplementsTransfer
<1>1. AInv /\ [Next]_vars => AInv' /\ [Transfer!Next]_<<stored, results>>
  BY TransferNext
<1>2. Init => AInv /\ Transfer!Init
  BY TransferInit
<1> QED
  BY <1>1, <1>2, PTL DEF Spec, ImplementsTransfer, Transfer!Spec, Transfer!vars

-----------------------------------------------------------------------------
(***************************************************************************)
(* vlink_send.  In the middle of a packet it differs from the length of    *)
(* the data sent by what of the packet is not yet across, its header       *)
(* counted; a packet that fails leaves it so.                              *)
(***************************************************************************)
Ahead(s) == IF sent[s] = Idle \/ ~Saying(s) THEN 0 ELSE Before(s) - sent[s]

Counted(s) ==
  /\ \A n \in DOMAIN DataOf(s) : DataOf(s)[n] \in Nat
  /\ sent[s] = Idle \/ sent[s] \in Nat
  /\ vlink_send[s] = (DataSent(s) - Ahead(s)) % Wrap

CInv ==
  /\ AInv
  /\ vlink_send \in [Sender -> Nat]
  /\ \A s \in Sender :
       /\ step[s] > 0 => Counted(s)
       /\ step[s] = 0 => sent[s] = Idle

LEMMA DataDomain ==
  ASSUME NEW s \in Sender, Typed
  PROVE  /\ IsFiniteSet(DOMAIN DataOf(s))
         /\ (\A n \in DOMAIN DataOf(s) : DataOf(s)[n] \in Nat) => DataSent(s) \in Nat
<1>1. IsFiniteSet(1 .. step[s] - 1)
  BY FS_Interval DEF Typed
<1>2. DOMAIN DataOf(s) \in SUBSET (1 .. step[s] - 1)
  BY DEF DataOf
<1>3. IsFiniteSet(DOMAIN DataOf(s))
  BY <1>1, <1>2, FS_Subset
<1>4. ASSUME \A n \in DOMAIN DataOf(s) : DataOf(s)[n] \in Nat
      PROVE  DataSent(s) \in Nat
  <2> DEFINE f == DataOf(s)
  <2>1. f = [n \in DOMAIN f |-> f[n]]
    BY DEF DataOf
  <2> HIDE DEF f
  <2>2. f \in [DOMAIN f -> Nat]
    BY <1>4, <2>1 DEF f
  <2>3. SumFunction(f) \in Nat
    BY <1>3, <2>2, SumType DEF f
  <2> QED
    BY <2>3 DEF f, DataSent
<1> QED
  BY <1>3, <1>4

(* What depends on nothing but the file. *)
LEMMA SameFile ==
  ASSUME NEW s \in Sender, model' = model, results'[s] = results[s]
  PROVE  /\ File(s)' = File(s)
         /\ \A n : Part(s, n)' = Part(s, n) /\ Step(s, n)' = Step(s, n)
<1>1. File(s)' = File(s)
  BY DEF File
<1>2. Opening(s)' = Opening(s) /\ Body(s)' = Body(s)
  BY <1>1 DEF Opening, Body
<1>3. \A n : Part(s, n)' = Part(s, n)
  BY <1>2 DEF Part
<1>4. ASSUME NEW n PROVE Step(s, n)' = Step(s, n)
  <2>1. (n - Len(Opening(s)))' = n - Len(Opening(s)) /\ Part(s, n)' = Part(s, n)
    BY <1>2, <1>3
  <2> QED
    BY <1>1, <1>2, <2>1 DEF Step
<1> QED
  BY <1>1, <1>3, <1>4

(* What depends on the step as well. *)
LEMMA SameStep ==
  ASSUME NEW s \in Sender, model' = model, results'[s] = results[s], step'[s] = step[s]
  PROVE  /\ DataOf(s)' = DataOf(s) /\ DataSent(s)' = DataSent(s)
         /\ refused'[s] = refused[s] =>
              Saying(s)' = Saying(s) /\ Before(s)' = Before(s)
<1>1. /\ File(s)' = File(s)
      /\ \A n : Part(s, n)' = Part(s, n) /\ Step(s, n)' = Step(s, n)
  BY SameFile
<1>2. DataOf(s)' = DataOf(s)
  <2>1. DataOf(s)' = [n \in {m \in 1 .. step'[s] - 1 : Step(s, m)' = Say("DATA")}
                        |-> File(s)'.parts[(Part(s, n)')]]
    BY Zenon DEF DataOf
  <2>2. DataOf(s)' = [n \in {m \in 1 .. step[s] - 1 : Step(s, m) = Say("DATA")}
                        |-> File(s).parts[Part(s, n)]]
    BY <1>1, <2>1, Zenon
  <2> QED
    BY <2>2, Zenon DEF DataOf
<1>3. DataSent(s)' = DataSent(s)
  BY <1>2, Zenon DEF DataSent
<1>4. ASSUME refused'[s] = refused[s]
      PROVE  Saying(s)' = Saying(s) /\ Before(s)' = Before(s)
  <2>1. (Step(s, step[s]))' = Step(s, step[s]) /\ (Part(s, step[s]))' = Part(s, step[s])
    BY <1>1
  <2>2. Command(s)' = Command(s) /\ Saying(s)' = Saying(s)
    BY <1>4, <2>1 DEF Command, Saying
  <2>3. Payload(s)' = Payload(s)
    BY <1>1, <2>1, <2>2, Zenon DEF Payload
  <2> QED
    BY <2>2, <2>3 DEF Before
<1> QED
  BY <1>2, <1>3, <1>4

(* The data of one more step. *)
LEMMA DataGrows ==
  ASSUME NEW s \in Sender, Typed, HasFile(s), step[s] > 0, step[s] <= Length(s),
         model' = model, results'[s] = results[s], step'[s] = step[s] + 1,
         \A n \in DOMAIN DataOf(s) : DataOf(s)[n] \in Nat
  PROVE  /\ \A n \in DOMAIN DataOf(s)' : DataOf(s)'[n] \in Nat
         /\ Step(s, step[s]) # Say("DATA") => DataSent(s)' = DataSent(s)
         /\ Step(s, step[s]) = Say("DATA") =>
              DataSent(s)' = DataSent(s) + File(s).parts[Part(s, step[s])]
<1> DEFINE k == step[s]
           f == DataOf(s)
           D == DOMAIN f
           e == DataOf(s)'
           v == File(s).parts[Part(s, k)]
<1>1. /\ File(s)' = File(s)
      /\ \A n : Part(s, n)' = Part(s, n) /\ Step(s, n)' = Step(s, n)
  BY SameFile
<1>2. k \in Nat \ {0}
  BY DEF Typed
<1>3. /\ D = {n \in 1 .. k - 1 : Step(s, n) = Say("DATA")}
      /\ \A n \in D : f[n] = File(s).parts[Part(s, n)]
      /\ f = [n \in D |-> f[n]]
  BY DEF DataOf
<1>4. /\ DOMAIN e = {n \in 1 .. (k + 1) - 1 : Step(s, n) = Say("DATA")}
      /\ \A n \in DOMAIN e : e[n] = File(s).parts[Part(s, n)]
      /\ e = [n \in DOMAIN e |-> e[n]]
  <2>1. e = [n \in {m \in 1 .. (k + 1) - 1 : Step(s, m)' = Say("DATA")}
               |-> File(s)'.parts[(Part(s, n)')]]
    BY Zenon DEF DataOf
  <2>2. e = [n \in {m \in 1 .. (k + 1) - 1 : Step(s, m) = Say("DATA")}
               |-> File(s).parts[Part(s, n)]]
    BY <1>1, <2>1, Zenon
  <2> QED
    BY <2>2, Zenon
<1>5. IsFiniteSet(D)
  BY DataDomain
<1> HIDE DEF f, e
<1>6. 1 .. (k + 1) - 1 = (1 .. k - 1) \cup {k} /\ k \notin 1 .. k - 1
  BY <1>2
<1>7. CASE Step(s, k) # Say("DATA")
  <2>1. DOMAIN e = D
    BY <1>3, <1>4, <1>6, <1>7
  <2>2. e = f
    BY <1>3, <1>4, <2>1, Zenon
  <2> QED
    BY <1>7, <2>2, Zenon DEF e, f, DataSent
<1>8. CASE Step(s, k) = Say("DATA")
  <2>1. DOMAIN e = D \cup {k} /\ k \notin D
    BY <1>3, <1>4, <1>6, <1>8
  <2>2. v \in Nat
    <3>1. Step(s, k)[2] = "DATA"
      BY <1>8 DEF Say
    <3>2. k > Len(Opening(s)) /\ Part(s, k) <= Parts(s)
      BY <3>1, WhatIsSaid
    <3>3. Part(s, k) \in Nat /\ Part(s, k) >= 1
      BY <3>2, PartOffset
    <3>4. File(s).parts \in Seq(Nat)
      <4>1. Len(results[s]) \in Nat /\ Len(results[s]) < Len(Files)
        BY DEF Typed, HasFile
      <4> QED
        BY <4>1, FileShape DEF File
    <3>5. Part(s, k) \in DOMAIN File(s).parts
      BY <3>2, <3>3, <3>4 DEF Parts
    <3> QED
      BY <3>4, <3>5, Element, Zenon
  <2>3. e[k] = v /\ \A n \in D : e[n] = f[n]
    BY <1>3, <1>4, <2>1, Zenon
  <2>4. \A n \in DOMAIN e : e[n] \in Nat
    <3>1. \A n \in D : f[n] \in Nat
      BY DEF f
    <3> QED
      BY <2>1, <2>2, <2>3, <3>1
  <2>5. f \in [D -> Nat] /\ e \in [D \cup {k} -> Nat]
    <3>1. \A n \in D : f[n] \in Nat
      BY DEF f
    <3>2. f \in [D -> Nat]
      BY <1>3, <3>1, Zenon
    <3>3. e \in [DOMAIN e -> Nat]
      BY <1>4, <2>4, Zenon
    <3> QED
      BY <2>1, <3>2, <3>3, Zenon
  <2>6. SumFunction(e) = SumFunction(f) + e[k]
    <3> HIDE DEF D, k
    <3> QED
      BY <1>5, <2>1, <2>3, <2>5, SumGrows
  <2> QED
    BY <1>8, <2>3, <2>4, <2>6 DEF e, f, DataSent
<1> QED
  BY <1>7, <1>8

(* The bytes of a packet, and which of them vlink_send counts. *)
LEMMA PacketSize ==
  ASSUME NEW s \in Sender, Typed, HasFile(s), step[s] > 0, step[s] <= Length(s)
  PROVE  /\ Before(s) \in Nat /\ After(s) \in Nat /\ Total(s) \in Nat
         /\ Command(s) = "DATA" =>
              /\ ~refused[s] /\ Step(s, step[s]) = Say("DATA")
              /\ File(s).parts[Part(s, step[s])] \in Nat
              /\ Total(s) = Before(s) + After(s) + File(s).parts[Part(s, step[s])]
         /\ Command(s) # "DATA" =>
              /\ Total(s) = Before(s) + After(s)
              /\ ~refused[s] => Step(s, step[s]) # Say("DATA")
<1> DEFINE k == step[s]
           v == File(s).parts[Part(s, k)]
<1>1. ASSUME Command(s) = "DATA"
      PROVE  ~refused[s] /\ Step(s, k) = Say("DATA") /\ v \in Nat
  <2>1. ~refused[s] /\ Step(s, k)[2] = "DATA"
    BY <1>1 DEF Command
  <2>2. k > Len(Opening(s)) /\ Part(s, k) <= Parts(s) /\ Step(s, k) = Say("DATA")
    BY <2>1, WhatIsSaid
  <2>3. Part(s, k) \in Nat /\ Part(s, k) >= 1
    BY <2>2, PartOffset
  <2>4. File(s).parts \in Seq(Nat)
    <3>1. Len(results[s]) \in Nat /\ Len(results[s]) < Len(Files)
      BY DEF Typed, HasFile
    <3> QED
      BY <3>1, FileShape DEF File
  <2>5. Part(s, k) \in DOMAIN File(s).parts
    BY <2>2, <2>3, <2>4 DEF Parts
  <2> QED
    BY <2>1, <2>2, <2>4, <2>5, Element, Zenon
<1>2. Command(s) # "DATA" /\ ~refused[s] => Step(s, k) # Say("DATA")
  BY DEF Command, Say
<1>3. Payload(s) \in Nat /\ (Command(s) = "DATA" => Payload(s) = v)
  <2>1. CASE Command(s) = "DATA"
    BY <1>1, <2>1 DEF Payload
  <2>2. CASE Command(s) # "DATA"
    BY <2>2 DEF Payload
  <2> QED
    BY <2>1, <2>2
<1>4. /\ Before(s) = 4 + (IF Command(s) = "DATA" THEN 0 ELSE Payload(s))
      /\ After(s) = IF Payload(s) # 0 THEN 2 ELSE 0
      /\ Total(s) = 4 + Payload(s) + (IF Payload(s) # 0 THEN 2 ELSE 0)
  BY DEF Before, After, Total
<1> HIDE DEF k, v
<1>5. Command(s) = "DATA" => Total(s) = Before(s) + After(s) + v
  BY <1>1, <1>3, <1>4
<1>6. Command(s) # "DATA" => Total(s) = Before(s) + After(s)
  BY <1>3, <1>4
<1>7. Before(s) \in Nat /\ After(s) \in Nat /\ Total(s) \in Nat
  BY <1>3, <1>4
<1> QED
  BY <1>1, <1>2, <1>5, <1>6, <1>7 DEF k, v

(* The counter wraps around, both ways. *)
LEMMA CountedOn ==
  ASSUME NEW c \in Nat, NEW n \in Int, NEW d \in Int, c = n % Wrap
  PROVE  (c + d) % Wrap = (n + d) % Wrap /\ (c + d) % Wrap \in Nat
<1>1. Wrap \in Nat \ {0} /\ c + d \in Int
  BY FilesAssumption
<1>2. ((n % Wrap) + d) % Wrap = (n + d) % Wrap
  BY <1>1, RemainderMoved
<1>3. (c + d) % Wrap \in 0 .. Wrap - 1
  BY <1>1, QuotientRemainder
<1> QED
  BY <1>2, <1>3

LEMMA CountedAside ==
  ASSUME NEW s \in Sender, model' = model, Counted(s),
         step'[s] = step[s], results'[s] = results[s], refused'[s] = refused[s],
         sent'[s] = sent[s], vlink_send'[s] = vlink_send[s]
  PROVE  Counted(s)'
<1>1. /\ DataOf(s)' = DataOf(s) /\ DataSent(s)' = DataSent(s)
      /\ Saying(s)' = Saying(s) /\ Before(s)' = Before(s)
  BY SameStep
<1>2. Ahead(s)' = Ahead(s)
  BY <1>1, Zenon DEF Ahead
<1> QED
  BY <1>1, <1>2, Zenon DEF Counted

(* A packet is over: the function goes on, stays or returns. *)
LEMMA CountedAfter ==
  ASSUME CInv, NEW s \in Sender, Typed', model' = model, sent'[s] = Idle, step[s] > 0,
         \/ Advance(s)
         \/ \E r \in Result : Return(s, r)
         \/ UNCHANGED <<step, results>> /\ ~Saying(s),
         ~Saying(s) => vlink_send'[s] = vlink_send[s] /\ Ahead(s) = 0,
         Saying(s) => /\ vlink_send'[s] = (vlink_send[s] + (1 - After(s))) % Wrap
                      /\ Ahead(s) = Before(s) - (Total(s) - 1),
         refused[s] => \E r \in Result : Return(s, r)
  PROVE  step'[s] > 0 => Counted(s)'
<1> SUFFICES ASSUME step'[s] > 0 PROVE Counted(s)'
  OBVIOUS
<1>1. /\ Typed /\ HasFile(s) /\ step[s] <= Length(s) /\ Counted(s)
      /\ vlink_send[s] \in Nat
  BY DEF CInv, AInv
<1>2. ~\E r \in Result : Return(s, r)
  BY <1>1 DEF Return, Typed
<1>3. /\ ~refused[s] /\ results' = results
      /\ step'[s] = step[s] + 1 \/ (step' = step /\ ~Saying(s))
  <2>1. CASE Advance(s)
    BY <1>1, <1>2, <2>1 DEF Advance, Typed, Result
  <2> QED
    BY <1>2, <2>1
<1>4. Ahead(s)' = 0
  BY DEF Ahead
<1>5. DataSent(s) \in Nat
  BY <1>1, DataDomain DEF Counted
<1>6. vlink_send[s] = (DataSent(s) - Ahead(s)) % Wrap
  BY <1>1 DEF Counted
<1>7. CASE step' = step /\ ~Saying(s)
  <2>1. DataOf(s)' = DataOf(s) /\ DataSent(s)' = DataSent(s)
    BY <1>3, <1>7, SameStep
  <2> QED
    BY <1>1, <1>4, <1>6, <1>7, <2>1 DEF Counted
<1>8. CASE step'[s] = step[s] + 1
  <2>1. /\ \A n \in DOMAIN DataOf(s)' : DataOf(s)'[n] \in Nat
        /\ Step(s, step[s]) # Say("DATA") => DataSent(s)' = DataSent(s)
        /\ Step(s, step[s]) = Say("DATA") =>
             DataSent(s)' = DataSent(s) + File(s).parts[Part(s, step[s])]
    BY <1>1, <1>3, <1>8, DataGrows DEF Counted
  <2>2. vlink_send'[s] = DataSent(s)' % Wrap
    <3>1. CASE ~Saying(s)
      <4>1. Step(s, step[s]) # Say("DATA")
        BY <3>1 DEF Saying, Say
      <4> QED
        BY <1>5, <1>6, <2>1, <3>1, <4>1
    <3>2. CASE Saying(s)
      <4> DEFINE a == Ahead(s)
                 d == 1 - After(s)
                 b == Before(s)
                 v == File(s).parts[Part(s, step[s])]
                 n == DataSent(s) - a
      <4>1. /\ b \in Nat /\ After(s) \in Nat /\ Total(s) \in Nat
            /\ a = b - (Total(s) - 1)
        BY <1>1, <3>2, PacketSize
      <4>2. DataSent(s)' = n + d
        <5>1. CASE Command(s) = "DATA"
          <6>1. /\ v \in Nat /\ Total(s) = b + After(s) + v
                /\ DataSent(s)' = DataSent(s) + v
            BY <1>1, <2>1, <5>1, PacketSize
          <6> HIDE DEF v, a, b
          <6> QED
            BY <1>5, <4>1, <6>1
        <5>2. CASE Command(s) # "DATA"
          <6>1. /\ Total(s) = b + After(s)
                /\ DataSent(s)' = DataSent(s)
            BY <1>1, <1>3, <2>1, <5>2, PacketSize
          <6> HIDE DEF v, a, b
          <6> QED
            BY <1>5, <4>1, <6>1
        <5> QED
          BY <5>1, <5>2
      <4>3. n \in Int /\ d \in Int
        <5> HIDE DEF a, b
        <5> QED
          BY <1>5, <4>1
      <4>4. vlink_send'[s] = (vlink_send[s] + d) % Wrap
        BY <3>2
      <4>5. vlink_send[s] = n % Wrap
        BY <1>6
      <4> HIDE DEF n, d, a, b, v
      <4>6. (vlink_send[s] + d) % Wrap = (n + d) % Wrap
        BY <1>1, <4>3, <4>5, CountedOn
      <4> QED
        BY <4>2, <4>4, <4>6
    <3> QED
      BY <3>1, <3>2
  <2>3. DataSent(s)' - 0 = DataSent(s)'
    <3>1. DataSent(s)' \in Nat
      <4>1. /\ Step(s, step[s]) = Say("DATA") => File(s).parts[Part(s, step[s])] \in Nat
        <5>1. Step(s, step[s]) = Say("DATA") => Command(s) = "DATA"
          BY <1>3 DEF Command, Say
        <5> QED
          BY <1>1, <5>1, PacketSize
      <4> QED
        BY <1>5, <2>1, <4>1
    <3> QED
      BY <3>1
  <2> QED
    BY <1>4, <2>1, <2>2, <2>3 DEF Counted
<1> QED
  BY <1>3, <1>7, <1>8

LEMMA CountedStep ==
  ASSUME CInv, AInv', NEW s \in Sender, Send(s) \/ GiveUp(s)
  PROVE  /\ vlink_send' \in [Sender -> Nat]
         /\ step'[s] > 0 => Counted(s)'
         /\ step'[s] = 0 => sent'[s] = Idle
<1>1. /\ Typed /\ HasFile(s) /\ Typed'
      /\ step[s] > 0 => step[s] <= Length(s) /\ Counted(s)
      /\ step[s] = 0 => sent[s] = Idle
      /\ vlink_send \in [Sender -> Nat]
  BY DEF CInv, AInv
<1>2. Wrap \in Nat \ {0}
  BY FilesAssumption
<1>3. CASE Start(s)
  <2>1. vlink_send' = [vlink_send EXCEPT ![s] = 0] /\ UNCHANGED <<model, sent>>
    BY <1>3 DEF Start
  <2>2. ASSUME step'[s] > 0 PROVE Counted(s)'
    <3>1. step'[s] = 1 /\ vlink_send'[s] = 0
      BY <1>1, <1>3, <2>1, <2>2 DEF Start, Return, Typed
    <3>2. sent'[s] = Idle
      BY <1>1, <1>3, <2>1 DEF Start
    <3>3. DataOf(s)' = [n \in {k \in 1 .. 1 - 1 : Step(s, k)' = Say("DATA")}
                          |-> File(s)'.parts[(Part(s, n)')]]
      BY <3>1, Zenon DEF DataOf
    <3>4. {k \in 1 .. 1 - 1 : Step(s, k)' = Say("DATA")} = {}
      OBVIOUS
    <3>5. DOMAIN DataOf(s)' = {}
      BY <3>3, <3>4
    <3>6. DataSent(s)' = 0
      <4>1. SumFunction(DataOf(s)') = 0
        BY <3>5, SumEmpty
      <4> QED
        BY <4>1, Zenon DEF DataSent
    <3>7. Ahead(s)' = 0
      BY <3>2 DEF Ahead
    <3>8. (0 - 0) % Wrap = 0
      BY <1>2
    <3> QED
      BY <3>1, <3>2, <3>5, <3>6, <3>7, <3>8 DEF Counted
  <2>3. sent'[s] = sent[s] /\ step[s] = 0
    BY <1>3 DEF Start
  <2> QED
    BY <1>1, <2>1, <2>2, <2>3
<1>4. CASE Begin(s)
  <2>1. /\ step[s] > 0 /\ sent[s] = Idle /\ sent' = [sent EXCEPT ![s] = 0]
        /\ vlink_send' = IF Saying(s) THEN [vlink_send EXCEPT ![s] = (@ - Before(s)) % Wrap]
                                      ELSE vlink_send
        /\ UNCHANGED <<model, step, refused, results>>
    BY <1>4 DEF Begin
  <2>2. /\ DataOf(s)' = DataOf(s) /\ DataSent(s)' = DataSent(s)
        /\ Saying(s)' = Saying(s) /\ Before(s)' = Before(s)
    BY <2>1, SameStep
  <2>3. DataSent(s) \in Nat /\ Before(s) \in Nat
    BY <1>1, <2>1, DataDomain, PacketSize DEF Counted
  <2>4. sent'[s] = 0 /\ 0 # Idle /\ Ahead(s) = 0
    BY <1>1, <2>1 DEF Typed, Idle, Ahead
  <2>5. Ahead(s)' = IF Saying(s) THEN Before(s) - 0 ELSE 0
    BY <2>2, <2>4 DEF Ahead
  <2>6. vlink_send[s] = (DataSent(s) - 0) % Wrap
    BY <1>1, <2>1, <2>4 DEF Counted
  <2>7. CASE Saying(s)
    <3> DEFINE n == DataSent(s) - 0
               d == 0 - Before(s)
    <3>0. n \in Int /\ d \in Int /\ vlink_send[s] \in Nat /\ vlink_send[s] = n % Wrap
      BY <1>1, <2>3, <2>6
    <3> HIDE DEF n, d
    <3>a. /\ (vlink_send[s] + d) % Wrap = (n + d) % Wrap
          /\ (vlink_send[s] + d) % Wrap \in Nat
      BY <3>0, CountedOn
    <3>1. /\ (vlink_send[s] + (0 - Before(s))) % Wrap = (DataSent(s) - 0 + (0 - Before(s))) % Wrap
          /\ (vlink_send[s] + (0 - Before(s))) % Wrap \in Nat
      BY <3>a DEF n, d
    <3>2. /\ vlink_send[s] + (0 - Before(s)) = vlink_send[s] - Before(s)
          /\ DataSent(s) - 0 + (0 - Before(s)) = DataSent(s) - (Before(s) - 0)
      BY <1>1, <2>3
    <3>3. vlink_send' = [vlink_send EXCEPT ![s] = (@ - Before(s)) % Wrap]
      BY <2>1, <2>7
    <3>4. vlink_send'[s] = (DataSent(s) - (Before(s) - 0)) % Wrap
      BY <1>1, <3>1, <3>2, <3>3
    <3>5. vlink_send' \in [Sender -> Nat]
      BY <1>1, <3>1, <3>2, <3>3
    <3> QED
      BY <1>1, <2>1, <2>2, <2>4, <2>5, <2>7, <3>4, <3>5 DEF Counted
  <2>8. CASE ~Saying(s)
    BY <1>1, <2>1, <2>2, <2>4, <2>5, <2>6, <2>8 DEF Counted
  <2>9. step'[s] > 0 /\ ~(step'[s] = 0)
    BY <2>1
  <2> QED
    BY <2>7, <2>8, <2>9
<1>5. CASE SendByte(s)
  <2>1. /\ step[s] > 0 /\ sent[s] # Idle /\ Saying(s)
        /\ sent' = [sent EXCEPT ![s] = @ + 1]
        /\ vlink_send' = [vlink_send EXCEPT ![s] = (@ + 1) % Wrap]
        /\ UNCHANGED <<model, step, refused, results>>
    BY <1>5 DEF SendByte, Underway
  <2>2. /\ DataOf(s)' = DataOf(s) /\ DataSent(s)' = DataSent(s)
        /\ Saying(s)' = Saying(s) /\ Before(s)' = Before(s)
    BY <2>1, SameStep
  <2>3. DataSent(s) \in Nat /\ Before(s) \in Nat /\ sent[s] \in Nat
    BY <1>1, <2>1, DataDomain, PacketSize DEF Counted
  <2>4. sent'[s] = sent[s] + 1 /\ sent'[s] \in Nat /\ sent'[s] # Idle
    BY <1>1, <2>1, <2>3 DEF Typed, Idle
  <2> DEFINE n == DataSent(s) - (Before(s) - sent[s])
  <2>5. Ahead(s) = Before(s) - sent[s] /\ Ahead(s)' = Before(s) - (sent[s] + 1)
    BY <2>1, <2>2, <2>4 DEF Ahead
  <2>6. vlink_send[s] = n % Wrap /\ n \in Int
    BY <1>1, <2>1, <2>3, <2>5 DEF Counted
  <2>7. n + 1 = DataSent(s) - (Before(s) - (sent[s] + 1))
    BY <2>3
  <2> HIDE DEF n
  <2>8. (vlink_send[s] + 1) % Wrap = (n + 1) % Wrap /\ (vlink_send[s] + 1) % Wrap \in Nat
    <3>1. vlink_send[s] \in Nat /\ 1 \in Int
      BY <1>1
    <3> QED
      BY <2>6, <3>1, CountedOn
  <2>9. vlink_send' \in [Sender -> Nat] /\ vlink_send'[s] = (n + 1) % Wrap
    BY <1>1, <2>1, <2>8
  <2> QED
    BY <1>1, <2>1, <2>2, <2>4, <2>5, <2>7, <2>9 DEF Counted
<1>6. CASE PacketSent(s)
  <2>1. /\ step[s] > 0 /\ sent[s] # Idle /\ Saying(s) /\ sent[s] = Total(s) - 1
        /\ sent' = [sent EXCEPT ![s] = Idle]
        /\ vlink_send' = [vlink_send EXCEPT ![s] = (@ + 1 - After(s)) % Wrap]
        /\ IF refused[s] THEN Return(s, "LERR_MEM") ELSE Advance(s)
        /\ model' = model
    BY <1>6 DEF PacketSent, Underway
  <2>2. After(s) \in Nat
    BY <1>1, <2>1, PacketSize
  <2>3. vlink_send[s] + 1 - After(s) = vlink_send[s] + (1 - After(s)) /\ 1 - After(s) \in Int
    BY <1>1, <2>2
  <2>4. Ahead(s) = Before(s) - (Total(s) - 1) /\ sent'[s] = Idle
    BY <1>1, <2>1 DEF Ahead, Typed
  <2>5. vlink_send'[s] = (vlink_send[s] + (1 - After(s))) % Wrap
    BY <1>1, <2>1, <2>3
  <2>6. vlink_send' \in [Sender -> Nat]
    <3>1. vlink_send[s] + (1 - After(s)) \in Int
      BY <1>1, <2>2
    <3>2. (vlink_send[s] + (1 - After(s))) % Wrap \in Nat
      BY <1>2, <3>1, QuotientRemainder
    <3> QED
      BY <1>1, <2>1, <2>3, <3>2
  <2>7. \/ Advance(s)
        \/ \E r \in Result : Return(s, r)
    BY <2>1 DEF Result
  <2>8. refused[s] => \E r \in Result : Return(s, r)
    BY <2>1 DEF Result
  <2> QED
    BY <1>1, <2>1, <2>4, <2>5, <2>6, <2>7, <2>8, CountedAfter
<1>7. CASE Receive(s)
  <2>1. /\ step[s] > 0 /\ ~Saying(s)
        /\ sent' = [sent EXCEPT ![s] = Idle]
        /\ Heard(s, Head(calc[s].out)) /\ UNCHANGED <<model, vlink_send>>
    BY <1>7 DEF Receive, Underway
  <2>2. ~refused[s] /\ Ahead(s) = 0 /\ sent'[s] = Idle
    BY <1>1, <2>1 DEF Saying, Ahead, Typed
  <2>3. \/ Advance(s)
        \/ \E r \in Result : Return(s, r)
        \/ UNCHANGED <<step, results>> /\ ~Saying(s)
    BY <2>1 DEF Heard, Result
  <2> QED
    BY <1>1, <2>1, <2>2, <2>3, CountedAfter
<1>8. CASE Throw(s)
  <2>1. /\ step[s] > 0 /\ UNCHANGED <<model, vlink_send>>
        /\ \/ Return(s, "LERR_SYSTEM") /\ sent' = [sent EXCEPT ![s] = Idle]
           \/ UNCHANGED <<step, sent, refused, results>>
    BY <1>8 DEF Throw, Underway
  <2>2. CASE Return(s, "LERR_SYSTEM") /\ sent' = [sent EXCEPT ![s] = Idle]
    BY <1>1, <2>1, <2>2 DEF Return, Typed
  <2>3. CASE UNCHANGED <<step, sent, refused, results>>
    BY <1>1, <2>1, <2>3, CountedAside
  <2> QED
    BY <2>1, <2>2, <2>3
<1>9. CASE GiveUp(s)
  BY <1>1, <1>9, CountedAside DEF GiveUp
<1> QED
  BY <1>3, <1>4, <1>5, <1>6, <1>7, <1>8, <1>9 DEF Send


LEMMA CountedNext == CInv /\ [Next]_vars => CInv'
<1> SUFFICES ASSUME CInv, [Next]_vars PROVE CInv'
  OBVIOUS
<1>1. AInv'
  BY TransferNext DEF CInv
<1>2. CASE UNCHANGED vars
  <2>1. \A s \in Sender : step[s] > 0 => Counted(s)'
    BY <1>2, CountedAside DEF vars, CInv
  <2> QED
    BY <1>1, <1>2, <2>1 DEF vars, CInv
<1>3. ASSUME NEW s \in Sender, Send(s) \/ GiveUp(s) PROVE CInv'
  <2>1. /\ vlink_send' \in [Sender -> Nat]
        /\ step'[s] > 0 => Counted(s)'
        /\ step'[s] = 0 => sent'[s] = Idle
    BY <1>1, <1>3, CountedStep
  <2>2. ASSUME NEW t \in Sender, t # s
        PROVE  /\ step'[t] = step[t] /\ results'[t] = results[t] /\ refused'[t] = refused[t]
               /\ sent'[t] = sent[t] /\ vlink_send'[t] = vlink_send[t] /\ model' = model
    <3>1. Typed /\ vlink_send \in [Sender -> Nat]
      BY DEF CInv, AInv
    <3>2. CASE Start(s)
      BY <2>2, <3>1, <3>2 DEF Start, Return, Typed
    <3>3. CASE Begin(s)
      BY <2>2, <3>1, <3>3 DEF Begin, Typed
    <3>4. CASE SendByte(s)
      BY <2>2, <3>1, <3>4 DEF SendByte, Typed
    <3>5. CASE PacketSent(s)
      BY <2>2, <3>1, <3>5 DEF PacketSent, Advance, Return, Typed
    <3>6. CASE Receive(s)
      BY <2>2, <3>1, <3>6 DEF Receive, Heard, Advance, Return, Typed
    <3>7. CASE Throw(s)
      BY <2>2, <3>1, <3>7 DEF Throw, Return, Typed
    <3>8. CASE GiveUp(s)
      BY <3>8 DEF GiveUp
    <3> QED
      BY <1>3, <3>2, <3>3, <3>4, <3>5, <3>6, <3>7, <3>8 DEF Send
  <2>3. ASSUME NEW t \in Sender, t # s
        PROVE  /\ step'[t] > 0 => Counted(t)'
               /\ step'[t] = 0 => sent'[t] = Idle
    <3>1. /\ step[t] > 0 => Counted(t)
          /\ step[t] = 0 => sent[t] = Idle
      BY DEF CInv
    <3> QED
      BY <2>2, <2>3, <3>1, CountedAside
  <2> QED
    BY <1>1, <2>1, <2>3 DEF CInv
<1> QED
  BY <1>2, <1>3 DEF Next

(***************************************************************************)
(* For all files, models and numbers of sheets, whatever fails and however *)
(* far the counter wraps around: between two packets vlink_send is the     *)
(* length of the data sent for the current file.                           *)
(***************************************************************************)
THEOREM CounterIsExact == Spec => []CounterExact
<1>1. Init => CInv
  <2> SUFFICES ASSUME Init PROVE CInv
    OBVIOUS
  <2>1. AInv
    BY TransferInit
  <2>2. vlink_send \in [Sender -> Nat]
        /\ \A s \in Sender : step[s] = 0 /\ sent[s] = Idle
    BY DEF Init
  <2> QED
    BY <2>1, <2>2 DEF CInv
<1>2. CInv /\ [Next]_vars => CInv'
  BY CountedNext
<1>3. CInv => CounterExact
  <2> SUFFICES ASSUME CInv, NEW s \in Sender, step[s] > 0, sent[s] = Idle
               PROVE  vlink_send[s] = DataSent(s) % Wrap
    BY DEF CounterExact
  <2>1. Counted(s) /\ Typed
    BY DEF CInv, AInv
  <2>2. DataSent(s) \in Nat
    BY <2>1, DataDomain DEF Counted
  <2>3. Ahead(s) = 0
    BY DEF Ahead
  <2>4. DataSent(s) - 0 = DataSent(s)
    BY <2>2
  <2> QED
    BY <2>1, <2>3, <2>4 DEF Counted
<1> QED
  BY <1>1, <1>2, <1>3, PTL DEF Spec

-----------------------------------------------------------------------------
(***************************************************************************)
(* A calculator that has said CID_CTS and waits for it to be acknowledged  *)
(* has not refused the file, nor is about to.                              *)
(***************************************************************************)
Packet == {"ACK", "CTS", "EXIT", "VERSION", "ERR"}

Calculator ==
  [state : {"ready", "clear", "refusing", "data", "version", "told"}, out : Seq(Packet)]

Clear(s) ==
  calc[s].state = "clear" =>
    ~refused[s] /\ (calc[s].out # <<>> => calc[s].out \in {<<"ACK", "CTS">>, <<"CTS">>})

RInv ==
  /\ AInv /\ calc \in [Sender -> Calculator]
  /\ \A s \in Sender : Clear(s)

LEMMA AnswerShape ==
  ASSUME NEW s \in Sender, NEW c, NEW a \in Answers(s, c)
  PROVE  /\ a \in Calculator
         /\ a.state = "clear" => c \in {"RTS", "VAR"} /\ a.out = <<"ACK", "CTS">>
         /\ c = "ACK" /\ calc[s].state # "clear" => a = Quiet
<1>1. /\ <<>> \in Seq(Packet) /\ <<"ACK">> \in Seq(Packet) /\ <<"ERR">> \in Seq(Packet)
      /\ <<"ACK", "CTS">> \in Seq(Packet) /\ <<"ACK", "EXIT">> \in Seq(Packet)
      /\ <<"ACK", "VERSION">> \in Seq(Packet)
  BY DEF Packet
<1>2. \/ a = [state |-> "clear", out |-> <<"ACK", "CTS">>] /\ c \in {"RTS", "VAR"}
      \/ a = [state |-> "refusing", out |-> <<"ACK", "EXIT">>] /\ c \in {"RTS", "VAR"}
      \/ a = Complaint /\ c # "ACK"
      \/ a = [state |-> "data", out |-> <<>>] /\ calc[s].state = "clear"
      \/ a = [state |-> "ready", out |-> <<"ACK">>] /\ c # "ACK"
      \/ a = [state |-> "version", out |-> <<"ACK">>] /\ c # "ACK"
      \/ a = [state |-> "told", out |-> <<"ACK", "VERSION">>] /\ c # "ACK"
      \/ a = Quiet
  BY Zenon DEF Answers
<1>3. a \in Calculator
  <2>1. \A st \in {"ready", "clear", "refusing", "data", "version", "told"} :
          \A q \in Seq(Packet) : [state |-> st, out |-> q] \in Calculator
    BY DEF Calculator
  <2> QED
    BY <1>1, <1>2, <2>1, Zenon DEF Quiet, Complaint
<1> QED
  BY <1>2, <1>3 DEF Quiet, Complaint

LEMMA ClearStep ==
  ASSUME RInv, AInv', NEW s \in Sender, Send(s) \/ GiveUp(s)
  PROVE  /\ calc' \in [Sender -> Calculator]
         /\ Clear(s)'
<1>1. Typed /\ calc \in [Sender -> Calculator] /\ Clear(s) /\ HasFile(s)
  BY DEF RInv, AInv
<1>2. CASE Start(s)
  BY <1>1, <1>2 DEF Start, Return, Typed, Clear
<1>3. CASE Begin(s) \/ SendByte(s) \/ Throw(s)
  BY <1>1, <1>3 DEF Begin, SendByte, Throw, Return, Typed, Clear
<1>4. CASE PacketSent(s)
  <2>2. PICK a \in Answers(s, Command(s)) : calc' = [calc EXCEPT ![s] = a]
    BY <1>4 DEF PacketSent
  <2>3. /\ a \in Calculator
        /\ a.state = "clear" => a.out = <<"ACK", "CTS">>
    BY AnswerShape
  <2>4. ~refused'[s]
    BY <1>1, <1>4 DEF PacketSent, Advance, Return, Typed
  <2> QED
    BY <1>1, <2>2, <2>3, <2>4 DEF Clear
<1>5. CASE Receive(s)
  <2>1. /\ calc[s].out # <<>> /\ calc' = [calc EXCEPT ![s].out = Tail(@)]
        /\ Heard(s, Head(calc[s].out))
    BY <1>5 DEF Receive
  <2>2. /\ calc' \in [Sender -> Calculator] /\ calc'[s].state = calc[s].state
        /\ calc'[s].out = Tail(calc[s].out)
    <3>1. /\ calc[s] \in Calculator
          /\ Tail(calc[s].out) \in Seq(Packet)
      BY <1>1, <2>1 DEF Calculator
    <3>2. calc' = [calc EXCEPT ![s] = [calc[s] EXCEPT !.out = Tail(calc[s].out)]]
      BY <1>1, <2>1
    <3>3. [calc[s] EXCEPT !.out = Tail(calc[s].out)]
            = [state |-> calc[s].state, out |-> Tail(calc[s].out)]
      BY <3>1 DEF Calculator
    <3> QED
      BY <1>1, <3>1, <3>2, <3>3 DEF Calculator
  <2>3. ASSUME calc[s].state = "clear"
        PROVE  ~refused'[s] /\ (Tail(calc[s].out) # <<>> => Tail(calc[s].out) = <<"CTS">>)
    <3>1. ~refused[s] /\ calc[s].out \in {<<"ACK", "CTS">>, <<"CTS">>}
      BY <1>1, <2>1, <2>3 DEF Clear
    <3>2. Head(calc[s].out) # "EXIT"
      BY <3>1
    <3>3. ~refused'[s]
      BY <1>1, <2>1, <3>1, <3>2 DEF Heard, Advance, Return, Typed
    <3>4. /\ Tail(<<"ACK", "CTS">>) = <<"CTS">>
          /\ Tail(<<"CTS">>) = <<>>
      OBVIOUS
    <3> QED
      BY <3>1, <3>3, <3>4
  <2> QED
    BY <2>2, <2>3 DEF Clear
<1>6. CASE GiveUp(s)
  BY <1>1, <1>6 DEF GiveUp, Clear, Quiet, Calculator
<1> QED
  BY <1>2, <1>3, <1>4, <1>5, <1>6 DEF Send

LEMMA ClearNext == RInv /\ [Next]_vars => RInv'
<1> SUFFICES ASSUME RInv, [Next]_vars PROVE RInv'
  OBVIOUS
<1>1. AInv'
  BY TransferNext DEF RInv
<1>2. CASE UNCHANGED vars
  BY <1>1, <1>2 DEF vars, RInv, Clear
<1>3. ASSUME NEW s \in Sender, Send(s) \/ GiveUp(s) PROVE RInv'
  <2>1. calc' \in [Sender -> Calculator] /\ Clear(s)'
    BY <1>1, <1>3, ClearStep
  <2>2. ASSUME NEW t \in Sender, t # s PROVE Clear(t)'
    <3>1. Typed /\ calc \in [Sender -> Calculator] /\ Clear(t)
      BY DEF RInv, AInv
    <3>2. CASE Start(s)
      BY <2>2, <3>1, <3>2 DEF Start, Return, Typed, Clear
    <3>3. CASE Begin(s) \/ SendByte(s) \/ Throw(s)
      BY <2>2, <3>1, <3>3 DEF Begin, SendByte, Throw, Return, Typed, Clear
    <3>5. CASE PacketSent(s)
      BY <2>2, <3>1, <3>5 DEF PacketSent, Advance, Return, Typed, Clear
    <3>6. CASE Receive(s)
      BY <2>2, <3>1, <3>6 DEF Receive, Heard, Advance, Return, Typed, Clear
    <3>8. CASE GiveUp(s)
      BY <2>2, <3>1, <3>8 DEF GiveUp, Clear
    <3> QED
      BY <1>3, <3>2, <3>3, <3>5, <3>6, <3>8 DEF Send
  <2> QED
    BY <1>1, <2>1, <2>2 DEF RInv
<1> QED
  BY <1>2, <1>3 DEF Next

(* LERR_MEM is returned for a variable only with the acknowledgement, and  *)
(* by the sheet whose variable it is.                                      *)
LEMMA RefusalStep ==
  ASSUME RInv, NEW s \in Sender, NEW t \in Sender, Send(t) \/ GiveUp(t),
         step[s] > 0, File(s).kind = "var",
         results'[s] = Append(results[s], "LERR_MEM")
  PROVE  calc'[s] = Quiet
<1>1. Typed /\ calc \in [Sender -> Calculator] /\ Clear(s) /\ results[s] \in Seq(Result)
  BY DEF RInv, AInv, Typed
<1>2. /\ results'[s] # results[s]
      /\ \A r \in Result : results'[s] = Append(results[s], r) => r = "LERR_MEM"
  BY <1>1 DEF Result
<1>3. t = s
  <2>1. ASSUME t # s PROVE results'[s] = results[s]
    <3>2. CASE Start(t)
      BY <2>1, <1>1, <3>2 DEF Start, Return, Typed
    <3>3. CASE Begin(t) \/ SendByte(t) \/ GiveUp(t)
      BY <3>3 DEF Begin, SendByte, GiveUp
    <3>4. CASE PacketSent(t)
      BY <2>1, <1>1, <3>4 DEF PacketSent, Advance, Return, Typed
    <3>5. CASE Receive(t)
      BY <2>1, <1>1, <3>5 DEF Receive, Heard, Advance, Return, Typed
    <3>6. CASE Throw(t)
      BY <2>1, <1>1, <3>6 DEF Throw, Return, Typed
    <3> QED
      BY <3>2, <3>3, <3>4, <3>5, <3>6 DEF Send
  <2> QED
    BY <1>2, <2>1
<1>4. \A r \in Result : Return(s, r) => r = "LERR_MEM"
  BY <1>1, <1>2 DEF Return, Typed
<1>5. ASSUME Advance(s) PROVE FALSE
  BY <1>1, <1>2, <1>4, <1>5 DEF Advance, Result
<1>6. CASE Start(s)
  BY <1>6 DEF Start
<1>7. CASE Begin(s) \/ SendByte(s) \/ GiveUp(s)
  BY <1>2, <1>7 DEF Begin, SendByte, GiveUp
<1>8. CASE Receive(s)
  BY <1>2, <1>4, <1>5, <1>8, Zenon DEF Receive, Heard, Result
<1>9. CASE Throw(s)
  BY <1>2, <1>4, <1>9, Zenon DEF Throw, Result
<1>10. CASE PacketSent(s)
  <2>1. refused[s]
    BY <1>5, <1>10 DEF PacketSent
  <2>2. Command(s) = "ACK" /\ calc[s].state # "clear"
    BY <1>1, <2>1 DEF Command, Clear
  <2>3. PICK a \in Answers(s, "ACK") : calc' = [calc EXCEPT ![s] = a]
    BY <1>10, <2>2 DEF PacketSent
  <2>4. a = Quiet
    BY <2>2, <2>3, AnswerShape
  <2> QED
    BY <1>1, <2>3, <2>4
<1> QED
  BY <1>3, <1>6, <1>7, <1>8, <1>9, <1>10 DEF Send

(***************************************************************************)
(* For all files and models, whatever the calculators answer: when a       *)
(* variable is reported as refused its CID_EXIT has been acknowledged, and *)
(* the calculator waits for nothing more of it.                            *)
(***************************************************************************)
THEOREM RefusalsAreEnded == Spec => RefusalsEnd
<1>1. Init => RInv
  <2> SUFFICES ASSUME Init PROVE RInv
    OBVIOUS
  <2>1. AInv
    BY TransferInit
  <2> QED
    BY <2>1 DEF Init, RInv, Clear, Quiet, Calculator
<1>2. RInv /\ [Next]_vars => RInv'
  BY ClearNext
<1>3. RInv /\ [Next]_vars =>
        [\A s \in Sender :
           /\ step[s] > 0 /\ File(s).kind = "var"
           /\ results'[s] = Append(results[s], "LERR_MEM")
           => calc'[s] = Quiet]_vars
  <2> SUFFICES ASSUME RInv, Next, NEW s \in Sender,
                      step[s] > 0, File(s).kind = "var",
                      results'[s] = Append(results[s], "LERR_MEM")
               PROVE  calc'[s] = Quiet
    OBVIOUS
  <2> QED
    BY RefusalStep DEF Next
<1> QED
  BY <1>1, <1>2, <1>3, PTL DEF Spec, RefusalsEnd

=============================================================================
