---------------------------- MODULE MemoryProofs ----------------------------
(***************************************************************************)
(* The proofs about the calculator's memory.  Of the flash chip, for every *)
(* size of chip, every content and every program: the decoder does not run *)
(* ahead of the program (FlashTypeOK and Progress together are inductive), *)
(* so flash changes only by commands the program wrote; and the sectors an *)
(* erase picks are the blocks the chip is divided into.  Of the memory     *)
(* map, for every size of memory and every program: what the processor     *)
(* sees agrees with what the ports selected, no opcode comes from where    *)
(* none may be executed, and a saved map returns.                          *)
(***************************************************************************)
EXTENDS FlashChip, MemoryMap, TLAPS

LEMMA CodesDiffer ==
  /\ hAA # h55 /\ hAA # hF0 /\ h55 # hF0
  /\ hA0 # h80 /\ hA0 # h20 /\ hA0 # h90 /\ hA0 # {} /\ h80 # {}
  /\ h20 # {} /\ h90 # {} /\ h20 # h80 /\ h20 # h90
  /\ hA0 # hF0 /\ h90 # hF0
  /\ hF0 \in Byte /\ hFF = 0 .. 7 /\ hFF \in Byte
<1>1. 7 \in hAA /\ 7 \notin h55 /\ 6 \in hF0 /\ 6 \notin hAA /\ 6 \in h55 /\ 7 \in hF0
  BY SMT DEF hAA, h55, hF0
<1>2. 7 \in hA0 /\ 5 \in hA0 /\ 7 \in h80 /\ 5 \notin h80 /\ 5 \in h20 /\ 7 \notin h20
      /\ 7 \in h90 /\ 5 \notin h90 /\ 4 \in hF0 /\ 4 \notin hA0 /\ 5 \in hF0
  BY SMT DEF hA0, h80, h20, h90, hF0
<1>3. hF0 \in Byte /\ hFF = 0 .. 7 /\ hFF \in Byte
  BY SMT DEF hF0, hFF, Byte
<1> QED
  BY <1>1, <1>2, <1>3

LEMMA LengthsFit ==
  ASSUME NEW s \in Seq(Write), Len(s) <= 2, NEW x \in Write
  PROVE  LET t == IF s = <<>> THEN <<x>> ELSE <<s[Len(s)], x>>
         IN  t \in Seq(Write) /\ Len(t) <= 2 /\ t # <<>> /\ t[Len(t)] = x
<1>1. CASE s = <<>>
  BY <1>1, SMT
<1>2. CASE s # <<>>
  <2>1. s[Len(s)] \in Write
    BY <1>2, SMT
  <2> QED
    BY <1>2, <2>1, SMT
<1> QED
  BY <1>1, <1>2

-----------------------------------------------------------------------------
(* The history and the contents keep their types under any write. *)
LEMMA WritesAreWrites ==
  ASSUME NEW x \in Writes
  PROVE  x \in Write /\ x.off \in Offset /\ x.data \in Byte
         /\ w(x.off, x.data) \in Write
<1>1. x \in Write
  BY ProgramAssumption
<1> QED
  BY <1>1, SMT DEF Write, w

LEMMA FlashKept ==
  ASSUME flash \in [Half \X Offset -> Byte],
         NEW h \in Half, NEW o \in Offset, NEW d \in Byte
  PROVE  /\ Programmed(h, o, d) \in [Half \X Offset -> Byte]
         /\ \A halves : Erased(halves) \in [Half \X Offset -> Byte]
<1>1. flash[<<h, o>>] \cap d \in Byte
  <2>1. <<h, o>> \in Half \X Offset
    OBVIOUS
  <2>2. flash[<<h, o>>] \in Byte
    BY <2>1
  <2> QED
    BY <2>2, Zenon DEF Byte
<1>2. Programmed(h, o, d) \in [Half \X Offset -> Byte]
  BY <1>1, Zenon DEF Programmed
<1>3. ASSUME NEW halves
      PROVE  Erased(halves) \in [Half \X Offset -> Byte]
  BY CodesDiffer, Zenon DEF Erased
<1> QED
  BY <1>2, <1>3

FlashInv == FlashTypeOK /\ Progress

LEMMA FlashInitInv == FlashInit => FlashInv
<1> SUFFICES ASSUME FlashInit PROVE FlashInv
  OBVIOUS
<1>1. PICK d \in Contents : flash = [x \in Half \X Offset |-> d]
  BY DEF FlashInit
<1>2. d \in Byte
  BY <1>1, ProgramAssumption
<1>3. flash \in [Half \X Offset -> Byte]
  BY <1>1, <1>2, Zenon
<1> QED
  BY <1>3, SMT DEF FlashInit, FlashInv, FlashTypeOK, Progress

-----------------------------------------------------------------------------
(***************************************************************************)
(* A write, cycle by cycle: the type of the contents, and where the        *)
(* decoder goes next.                                                      *)
(***************************************************************************)
Decoded(o, d) ==
  /\ step' \in 0 .. 8
  /\ cmd' \in {{}, hA0, h80, h20, h90}
  /\ step' = 1 => o = "0AAA" /\ d = hAA
  /\ step' = 2 => step = 1 /\ o = "0555" /\ d = h55
  /\ step' = 3 => /\ cmd' \in {hA0, h80, h90}
                  /\ \/ step = 2 /\ o = "0AAA" /\ d = cmd'
                     \/ step = 3 /\ cmd' = cmd /\ cmd # hA0
  /\ step' \in 4 .. 5 => step \in 3 .. 5 /\ cmd' = cmd /\ cmd # hA0
  /\ step' = 5 => o = "0555" /\ d = h55
  /\ step' \in 6 .. 8 => /\ HasFastMode
                       /\ \/ step \in 6 .. 8
                          \/ step = 2 /\ o = "0AAA" /\ d = h20
  /\ step' = 8 => d = hA0

LEMMA CyclesDecode ==
  ASSUME FlashTypeOK, Progress, NEW h \in Half, NEW o \in Offset, NEW d \in Byte,
         flashwrite(h, o, d)
  PROVE  Decoded(o, d) /\ flash' \in [Half \X Offset -> Byte]
<1> USE ProgramAssumption
<1>0. /\ step \in 0 .. 8
      /\ cmd \in {{}, hA0, h80, h20, h90}
      /\ flash \in [Half \X Offset -> Byte]
  BY DEF FlashTypeOK
<1>p. /\ step \in 3 .. 5 => cmd \in {hA0, h80, h90}
      /\ step \in 4 .. 5 => cmd # hA0
      /\ step \in 6 .. 8 => HasFastMode
  BY <1>0, SMT DEF Progress
<1>f. /\ Programmed(h, o, d) \in [Half \X Offset -> Byte]
      /\ \A halves : Erased(halves) \in [Half \X Offset -> Byte]
  BY <1>0, FlashKept
<1>1. CASE Unlock1(o, d)
  BY <1>1, <1>0, SMT DEF Unlock1, Cycle, Decoded
<1>2. CASE Unlock2(o, d)
  BY <1>2, <1>0, SMT DEF Unlock2, Cycle, Decoded
<1>3. CASE Command(o, d)
  <2>1. step = 2 /\ flash' = flash
    BY <1>3 DEF Command
  <2>2. CASE o = "0AAA" /\ d \in {hA0, h80, h90}
    <3>1. step' = 3 /\ cmd' = d
      BY <1>3, <2>2 DEF Command
    <3> QED
      BY <2>1, <2>2, <3>1, <1>0, SMT DEF Decoded
  <2>3. CASE ~(o = "0AAA" /\ d \in {hA0, h80, h90}) /\ o = "0AAA" /\ d = h20 /\ HasFastMode
    <3>1. step' = 6 /\ cmd' = d
      BY <1>3, <2>3 DEF Command
    <3> QED
      BY <2>1, <2>3, <3>1, <1>0, SMT DEF Decoded
  <2>4. CASE /\ ~(o = "0AAA" /\ d \in {hA0, h80, h90})
             /\ ~(o = "0AAA" /\ d = h20 /\ HasFastMode)
    <3>1. step' = 0 /\ cmd' = cmd
      BY <1>3, <2>4, Zenon DEF Command
    <3> QED
      BY <2>1, <3>1, <1>0, SMT DEF Decoded
  <2> QED
    BY <2>2, <2>3, <2>4
<1>4. CASE Fourth(h, o, d)
  <2>1. step = 3 /\ cmd' = cmd /\ flash' \in [Half \X Offset -> Byte]
    BY <1>4, <1>0, <1>f DEF Fourth
  <2>2. CASE cmd = hA0
    <3>1. step' \in {0, 1} /\ (step' = 1 => o = "0AAA" /\ d = hAA)
      BY <1>4, <2>2, SMT DEF Fourth
    <3> QED
      BY <2>1, <3>1, <1>0, SMT DEF Decoded
  <2>3. CASE cmd # hA0
    <3>1. step' \in {0, 3, 4}
      BY <1>4, <2>3, SMT DEF Fourth
    <3> QED
      BY <2>1, <2>3, <3>1, <1>0, <1>p, SMT DEF Decoded
  <2> QED
    BY <2>2, <2>3
<1>5. CASE Fifth(o, d)
  BY <1>5, <1>0, <1>p, SMT DEF Fifth, Decoded
<1>6. CASE Sixth(h, o, d)
  <2>1. step' = 0 /\ cmd' = cmd
    BY <1>6 DEF Sixth
  <2>2. flash' \in [Half \X Offset -> Byte]
    <3>1. \/ flash' = Erased(Half)
          \/ flash' = Erased(Sector(h))
          \/ flash' = flash
      BY <1>6, Zenon DEF Sixth
    <3> QED
      BY <3>1, <1>0, <1>f
  <2> QED
    BY <2>1, <2>2, <1>0, SMT DEF Decoded
<1>7. CASE Fast(d)
  BY <1>7, <1>0, <1>p, SMT DEF Fast, Decoded
<1>8. CASE LeaveFast(d)
  BY <1>8, <1>0, <1>p, SMT DEF LeaveFast, Decoded
<1>9. CASE FastProgram(h, o, d)
  <2>1. step = 8 /\ step' = 6 /\ cmd' = cmd /\ flash' \in [Half \X Offset -> Byte]
    BY <1>9, <1>f DEF FastProgram
  <2> QED
    BY <2>1, <1>0, <1>p, SMT DEF Decoded
<1> QED
  BY <1>1, <1>2, <1>3, <1>4, <1>5, <1>6, <1>7, <1>8, <1>9,
     Zenon DEF flashwrite, Unlock1, Unlock2, Command, Fourth, Fifth, Sixth, Fast,
     LeaveFast, FastProgram

LEMMA WriteKeeps ==
  ASSUME FlashTypeOK, Progress, NEW h \in Half, NEW o \in Offset, NEW d \in Byte,
         ProgramWrite(h, o, d)
  PROVE  FlashTypeOK' /\ Progress'
<1>0. /\ log \in Seq(Write) /\ Len(log) <= 2
      /\ ready \subseteq {hA0, h80, h20, h90}
      /\ changes \in Nat
  BY DEF FlashTypeOK
<1>1. Decoded(o, d) /\ flash' \in [Half \X Offset -> Byte]
  BY CyclesDecode DEF ProgramWrite
<1>w. w(o, d) \in Write
  BY SMT DEF w, Write
<1>2. /\ log' \in Seq(Write) /\ Len(log') <= 2
      /\ log' # <<>> /\ log'[Len(log')] = w(o, d)
  BY <1>0, <1>w, LengthsFit, Zenon DEF ProgramWrite
<1>3. ready' = (ready \ {hA0}) \cup Began(o, d) /\ ready' \subseteq {hA0, h80, h20, h90}
  <2>1. Began(o, d) \subseteq {hA0, h80, h20, h90}
    BY Zenon DEF Began
  <2>2. ready' = (ready \ {hA0}) \cup Began(o, d)
    BY DEF ProgramWrite
  <2> QED
    BY <2>1, <2>2, <1>0
<1>4. changes' \in Nat
  BY <1>0, SMT DEF ProgramWrite
<1>5. FlashTypeOK'
  BY <1>1, <1>2, <1>3, <1>4, Zenon DEF FlashTypeOK, Decoded
<1>6. Progress'
  <2>1. step' = 1 => LastIs(w("0AAA", hAA))'
    BY <1>1, <1>2, Zenon DEF Decoded, LastIs
  <2>2. step' = 2 => log' = Unlocking
    <3> SUFFICES ASSUME step' = 2 PROVE log' = Unlocking
      OBVIOUS
    <3>1. step = 1 /\ o = "0555" /\ d = h55
      BY <1>1 DEF Decoded
    <3>2. log # <<>> /\ log[Len(log)] = w("0AAA", hAA)
      BY <3>1 DEF Progress, LastIs
    <3>3. log' = <<log[Len(log)], w(o, d)>>
      BY <3>2, Zenon DEF ProgramWrite
    <3> QED
      BY <3>1, <3>2, <3>3, Zenon DEF Unlocking
  <2>3. step' \in 3 .. 5 => cmd' \in ready' \cap {hA0, h80, h90}
    <3> SUFFICES ASSUME step' \in 3 .. 5 PROVE cmd' \in ready' \cap {hA0, h80, h90}
      OBVIOUS
    <3>0. step' = 3 \/ step' \in 4 .. 5
      BY SMT
    <3>1. CASE step' = 3 /\ step = 2 /\ o = "0AAA" /\ d = cmd' /\ cmd' \in {hA0, h80, h90}
      <4>1. log = Unlocking
        BY <3>1 DEF Progress
      <4>2. cmd' \in Began(o, d)
        BY <4>1, <3>1, Zenon DEF Began
      <4> QED
        BY <4>2, <1>3, <3>1
    <3>2. CASE step \in 3 .. 5 /\ cmd' = cmd /\ cmd # hA0
      <4>1. cmd \in ready \cap {hA0, h80, h90}
        BY <3>2 DEF Progress
      <4> QED
        BY <4>1, <3>2, <1>3
    <3>3. step = 3 => step \in 3 .. 5
      BY SMT
    <3> QED
      BY <3>0, <3>1, <3>2, <3>3, <1>1, Zenon DEF Decoded
  <2>4. step' \in 4 .. 5 => cmd' # hA0
    BY <1>1, Zenon DEF Decoded
  <2>5. step' = 5 => LastIs(w("0555", h55))'
    BY <1>1, <1>2, Zenon DEF Decoded, LastIs
  <2>6. step' \in 6 .. 8 => HasFastMode /\ h20 \in ready'
    <3> SUFFICES ASSUME step' \in 6 .. 8 PROVE HasFastMode /\ h20 \in ready'
      OBVIOUS
    <3>1. CASE step \in 6 .. 8
      <4>1. h20 \in ready
        BY <3>1 DEF Progress
      <4> QED
        BY <4>1, <1>1, <1>3, CodesDiffer, Zenon DEF Decoded
    <3>2. CASE step = 2 /\ o = "0AAA" /\ d = h20
      <4>1. log = Unlocking
        BY <3>2 DEF Progress
      <4>2. h20 \in Began(o, d)
        BY <4>1, <3>2, Zenon DEF Began
      <4> QED
        BY <4>2, <1>1, <1>3, Zenon DEF Decoded
    <3> QED
      BY <3>1, <3>2, <1>1, Zenon DEF Decoded
  <2>7. step' = 8 => \E u \in Offset : LastIs(w(u, hA0))'
    BY <1>1, <1>2, Zenon DEF Decoded, LastIs
  <2> QED
    BY <2>1, <2>2, <2>3, <2>4, <2>5, <2>6, <2>7, Zenon DEF Progress
<1> QED
  BY <1>5, <1>6

-----------------------------------------------------------------------------
LEMMA FlashStepKeeps == FlashInv /\ [FlashNext]_flashVars => FlashInv'
<1> SUFFICES ASSUME FlashInv, [FlashNext]_flashVars PROVE FlashInv'
  OBVIOUS
<1>0. FlashTypeOK /\ Progress
  BY DEF FlashInv
<1>1. ASSUME NEW h \in Probed, NEW x \in Writes, ProgramWrite(h, x.off, x.data)
      PROVE  FlashInv'
  <2>1. h \in Half /\ x.off \in Offset /\ x.data \in Byte
    BY ProgramAssumption, WritesAreWrites
  <2> QED
    BY <1>0, <1>1, <2>1, WriteKeeps, Zenon DEF FlashInv
<1>2. CASE FlashFetch
  <2>1. <<>> \in Seq(Write) /\ Len(<<>>) <= 2
    BY SMT
  <2>2. FlashTypeOK'
    BY <1>0, <1>2, <2>1, SMT DEF FlashFetch, FlashTypeOK
  <2>3. Progress'
    BY <1>2, SMT DEF FlashFetch, Progress
  <2> QED
    BY <2>2, <2>3 DEF FlashInv
<1>3. CASE Read
  <2>1. FlashTypeOK'
    BY <1>0, <1>3, SMT DEF Read, FlashTypeOK
  <2>2. Progress'
    BY <1>3, SMT DEF Read, Progress
  <2> QED
    BY <2>1, <2>2 DEF FlashInv
<1>4. CASE UNCHANGED flashVars
  BY <1>0, <1>4, Zenon DEF flashVars, FlashInv, FlashTypeOK, Progress, LastIs
<1> QED
  BY <1>1, <1>2, <1>3, <1>4 DEF FlashNext

LEMMA FlashInvariance == FlashSpec => []FlashInv
<1> QED
  BY FlashInitInv, FlashStepKeeps, PTL DEF FlashSpec

(* The decoder's registers and the contents keep their types (flashwrite). *)
THEOREM FlashTypeCorrect == FlashSpec => []FlashTypeOK
<1>1. FlashInv => FlashTypeOK
  BY DEF FlashInv
<1> QED
  BY <1>1, FlashInvariance, PTL

(* The decoder never runs ahead of the cycles the program wrote since the  *)
(* last fetch from flash (flashwrite, endflash in CPU_opcode_fetch).       *)
THEOREM DecoderFollows == FlashSpec => []Progress
<1>1. FlashInv => Progress
  BY DEF FlashInv
<1> QED
  BY <1>1, FlashInvariance, PTL

(***************************************************************************)
(* Whatever the program writes, flash changes only by the last cycle of a  *)
(* command begun since the last fetch from flash (flashwrite).             *)
(***************************************************************************)
THEOREM OnlyCommandsChange == FlashSpec => ChangesAreCommands
<1> DEFINE Commanded ==
      \/ hA0 \in ready
      \/ h20 \in ready /\ (\E o \in Offset : LastIs(w(o, hA0)))
      \/ /\ ready \cap {h80, h90} # {}
         /\ LastIs(w("0555", h55))
         /\ log'[Len(log')] \in {w(o, h30) : o \in Offset} \cup {w("0AAA", h10)}
<1>1. FlashInv /\ [FlashNext]_flashVars => (flash' # flash => Commanded)
  <2> SUFFICES ASSUME FlashInv, [FlashNext]_flashVars, flash' # flash PROVE Commanded
    OBVIOUS
  <2>0. PICK h \in Probed, x \in Writes : ProgramWrite(h, x.off, x.data)
    BY Zenon DEF FlashNext, FlashFetch, Read, flashVars
  <2> DEFINE o == x.off
             d == x.data
  <2>1. o \in Offset /\ d \in Byte /\ w(o, d) \in Write
    BY WritesAreWrites
  <2>2. log'[Len(log')] = w(o, d)
    <3>1. log \in Seq(Write) /\ Len(log) <= 2
      BY DEF FlashInv, FlashTypeOK
    <3> QED
      BY <3>1, <2>1, <2>0, LengthsFit, Zenon DEF ProgramWrite
  <2>3. CASE Fourth(h, o, d)
    <3>1. cmd = hA0 /\ step \in 3 .. 5
      BY <2>3, SMT DEF Fourth
    <3> QED
      BY <3>1 DEF FlashInv, Progress
  <2>4. CASE Sixth(h, o, d)
    <3>1. step = 5 /\ step \in 3 .. 5 /\ step \in 4 .. 5
      BY <2>4, SMT DEF Sixth
    <3>2. cmd \in ready \cap {h80, h90} /\ LastIs(w("0555", h55))
      BY <3>1 DEF FlashInv, Progress
    <3>3. (o = "0AAA" /\ d = h10) \/ d = h30
      BY <2>4 DEF Sixth
    <3>4. w(o, d) \in {w(u, h30) : u \in Offset} \cup {w("0AAA", h10)}
      BY <3>3, <2>1
    <3> QED
      BY <3>2, <3>4, <2>2
  <2>5. CASE FastProgram(h, o, d)
    <3>1. step = 8 /\ step \in 6 .. 8
      BY <2>5, SMT DEF FastProgram
    <3> QED
      BY <3>1 DEF FlashInv, Progress
  <2> QED
    BY <2>0, <2>3, <2>4, <2>5, Zenon DEF ProgramWrite, flashwrite, Unlock1, Unlock2,
       Cycle, Command, Fifth, Fast, LeaveFast
<1> HIDE DEF Commanded
<1>2. [][flash' # flash => Commanded]_flashVars <=> ChangesAreCommands
  BY DEF ChangesAreCommands, Commanded
<1>3. FlashInv /\ [FlashNext]_flashVars => [flash' # flash => Commanded]_flashVars
  BY <1>1
<1> QED
  BY <1>2, <1>3, FlashInvariance, PTL DEF FlashSpec

-----------------------------------------------------------------------------
(* The block that begins the chip at half page 8i. *)
Large(i) == 8 * i .. 8 * i + 7

LEMMA ChipSize == \E k \in 1 .. 32 : Pages = 4 * k
<1>1. Pages \in Int /\ Pages = 4 * (Pages \div 4) /\ Pages \div 4 \in 1 .. 32
  BY PagesAssumption, SMT
<1> QED
  BY <1>1

(***************************************************************************)
(* The sector an erase picks for an address (flashwrite, cycle six) is a   *)
(* block of the chip, and the one the address is in.                       *)
(***************************************************************************)
THEOREM SectorIsBlock ==
  ASSUME NEW h \in Half
  PROVE  Sector(h) \in Block /\ h \in Sector(h)
<1>1. PICK k \in 1 .. 32 : Pages = 4 * k
  BY ChipSize
<1>2. h \in 0 .. 8 * k - 1 /\ Pages \div 4 - 2 = k - 2 /\ 2 * Pages = 8 * k
  BY <1>1, SMT DEF Half
<1> DEFINE i == h \div 8
           T == 8 * k
<1>3. i \in Nat /\ h \in Large(i) /\ (h < T - 8 => i \in 0 .. k - 2)
  BY <1>2, SMT DEF Large
<1>4. CASE h < T - 8
  <2>1. Sector(h) = Large(i)
    BY <1>4, <1>2, SMT DEF Sector, Large
  <2>2. Large(i) \in Block
    BY <1>3, <1>4, <1>2, Zenon DEF Block, Large
  <2> QED
    BY <2>1, <2>2, <1>3
<1>5. CASE h \in T - 8 .. T - 5
  <2>1. Sector(h) = T - 8 .. T - 5
    BY <1>5, <1>2, SMT DEF Sector
  <2> QED
    BY <2>1, <1>5, <1>2, Zenon DEF Block
<1>6. CASE h = T - 4
  <2>1. Sector(h) = {T - 4}
    BY <1>6, <1>2, SMT DEF Sector
  <2> QED
    BY <2>1, <1>6, <1>2, Zenon DEF Block
<1>7. CASE h = T - 3
  <2>1. Sector(h) = {T - 3}
    BY <1>7, <1>2, SMT DEF Sector
  <2> QED
    BY <2>1, <1>7, <1>2, Zenon DEF Block
<1>8. CASE h \in {T - 2, T - 1}
  <2>1. Sector(h) = {T - 2, T - 1}
    BY <1>8, <1>2, SMT DEF Sector
  <2> QED
    BY <2>1, <1>8, <1>2, Zenon DEF Block
<1> QED
  BY <1>2, <1>4, <1>5, <1>6, <1>7, <1>8, SMT

(***************************************************************************)
(* No two blocks overlap, so that erasing one address's sector (flashwrite,*)
(* cycle six) leaves every other sector as it was.                         *)
(***************************************************************************)
THEOREM BlocksDisjoint ==
  ASSUME NEW B \in Block, NEW C \in Block, B # C
  PROVE  B \cap C = {}
<1>1. PICK k \in 1 .. 32 : Pages = 4 * k
  BY ChipSize
<1>2. Pages \div 4 - 2 = k - 2 /\ 2 * Pages = 8 * k
  BY <1>1, SMT
<1> DEFINE T == 8 * k
           Upper == {T - 8 .. T - 5, {T - 4}, {T - 3}, {T - 2, T - 1}}
<1>3. \A X \in Block : (\E i \in 0 .. k - 2 : X = Large(i)) \/ X \in Upper
  BY <1>2, Zenon DEF Block, Large
<1>4. ASSUME NEW i \in 0 .. k - 2, NEW j \in 0 .. k - 2, Large(i) # Large(j)
      PROVE  Large(i) \cap Large(j) = {}
  <2>1. i # j
    BY <1>4
  <2> QED
    BY <2>1, SMT DEF Large
<1>5. ASSUME NEW i \in 0 .. k - 2, NEW X \in Upper
      PROVE  Large(i) \cap X = {}
  BY <1>5, SMT DEF Large
<1>6. ASSUME NEW X \in Upper, NEW Y \in Upper, X # Y
      PROVE  X \cap Y = {}
  <2>1. CASE X = T - 8 .. T - 5
    BY <1>6, <2>1, SMT
  <2>2. CASE X = {T - 4}
    BY <1>6, <2>2, SMT
  <2>3. CASE X = {T - 3}
    BY <1>6, <2>3, SMT
  <2>4. CASE X = {T - 2, T - 1}
    BY <1>6, <2>4, SMT
  <2> QED
    BY <2>1, <2>2, <2>3, <2>4
<1> HIDE DEF Upper
<1>7. CASE \E i \in 0 .. k - 2 : B = Large(i)
  BY <1>3, <1>4, <1>5, <1>7
<1>8. CASE B \in Upper
  <2>1. CASE C \in Upper
    BY <1>6, <1>8, <2>1
  <2>2. CASE \E i \in 0 .. k - 2 : C = Large(i)
    BY <1>5, <1>8, <2>2
  <2> QED
    BY <1>3, <2>1, <2>2
<1> QED
  BY <1>3, <1>7, <1>8

(***************************************************************************)
(* Programming clears bits of one byte; only erases set bits, those of a   *)
(* whole sector or of the chip (flashwrite).                               *)
(***************************************************************************)
THEOREM OnlyErasesSetBits == FlashSpec => OnlyErasesSet
<1>1. FlashInv /\ [FlashNext]_flashVars => (flash' # flash => OneByteCleared \/ BlocksErased)
  <2> SUFFICES ASSUME FlashInv, [FlashNext]_flashVars, flash' # flash
               PROVE  OneByteCleared \/ BlocksErased
    OBVIOUS
  <2>0. PICK h \in Probed, x \in Writes : ProgramWrite(h, x.off, x.data)
    BY Zenon DEF FlashNext, FlashFetch, Read, flashVars
  <2> DEFINE o == x.off
             d == x.data
  <2>1. h \in Half /\ o \in Offset /\ d \in Byte
    BY WritesAreWrites, ProgramAssumption
  <2>2. flash \in [Half \X Offset -> Byte] /\ <<h, o>> \in Half \X Offset
    BY <2>1 DEF FlashInv, FlashTypeOK
  <2>3. ASSUME flash' = Programmed(h, o, d) PROVE OneByteCleared
    <3>1. flash' = [flash EXCEPT ![<<h, o>>] = flash[<<h, o>>] \cap d]
      BY <2>3 DEF Programmed
    <3>2. flash'[<<h, o>>] = flash[<<h, o>>] \cap d
      BY <3>1, <2>2
    <3> QED
      BY <3>1, <3>2, <2>2, Zenon DEF OneByteCleared
  <2>4. ASSUME NEW B \in Block \cup {Half}, flash' = Erased(B) PROVE BlocksErased
    BY <2>4, Zenon DEF Erased, BlocksErased
  <2>5. CASE Fourth(h, o, d)
    BY <2>3, <2>5, Zenon DEF Fourth
  <2>6. CASE Sixth(h, o, d)
    <3>1. flash' = Erased(Half) \/ flash' = Erased(Sector(h))
      BY <2>6, Zenon DEF Sixth
    <3>2. Sector(h) \in Block
      BY <2>1, SectorIsBlock
    <3> QED
      BY <3>1, <3>2, <2>4
  <2>7. CASE FastProgram(h, o, d)
    BY <2>3, <2>7 DEF FastProgram
  <2> QED
    BY <2>0, <2>5, <2>6, <2>7, Zenon DEF ProgramWrite, flashwrite, Unlock1, Unlock2,
       Cycle, Command, Fifth, Fast, LeaveFast
<1>2. FlashInv /\ [FlashNext]_flashVars => [flash' # flash => OneByteCleared \/ BlocksErased]_flashVars
  BY <1>1
<1> QED
  BY <1>2, FlashInvariance, PTL DEF FlashSpec, OnlyErasesSet

-----------------------------------------------------------------------------
(* The memory map. *)
LEMMA PagesFit ==
  /\ \A p \in 0 .. 127 : Flash(p) \in [page : 0 .. 127, ram : BOOLEAN]
                         /\ Ram(p) \in [page : 0 .. 127, ram : BOOLEAN]
  /\ \A p : Flash(p).page = p /\ ~Flash(p).ram /\ Ram(p).page = p /\ Ram(p).ram
BY SMT DEF Flash, Ram

LEMMA PowerOnFits == PowerOnBanks \in Banks /\ InRange(PowerOnBanks)
<1>1. /\ BootPage \in 0 .. 127 /\ BootPage < FlashPages
      /\ 0 \in 0 .. 127 /\ 0 < FlashPages /\ 0 < RamPages
  BY MapAssumption, SMT DEF BootPage
<1>0. /\ Flash(0) \in [page : 0 .. 127, ram : BOOLEAN]
      /\ Flash(BootPage) \in [page : 0 .. 127, ram : BOOLEAN]
      /\ Ram(0) \in [page : 0 .. 127, ram : BOOLEAN]
  BY <1>1, PagesFit, Zenon
<1>2. PowerOnBanks \in Banks
  BY <1>1, <1>0, Zenon DEF PowerOnBanks, Banks
<1>3. \A b \in Bank : PowerOnBanks[b] \in {Flash(0), Flash(BootPage), Ram(0)}
  BY Zenon DEF PowerOnBanks
<1>4. \A m \in {Flash(0), Flash(BootPage), Ram(0)} :
        m.page < IF m.ram THEN RamPages ELSE FlashPages
  <2>1. /\ Flash(0).page < FlashPages /\ ~Flash(0).ram
        /\ Flash(BootPage).page < FlashPages /\ ~Flash(BootPage).ram
        /\ Ram(0).page < RamPages /\ Ram(0).ram
    BY <1>1, PagesFit, Zenon
  <2> QED
    BY <2>1, Zenon
<1>5. InRange(PowerOnBanks)
  BY <1>3, <1>4, Zenon DEF InRange
<1> QED
  BY <1>2, <1>5

LEMMA Remainder == \A a \in Nat, b \in 1 .. 128 : a % b \in 0 .. b - 1
  BY SMT

LEMMA SelectedFits ==
  ASSUME NEW d \in 0 .. 255
  PROVE  /\ Selected(d) \in [page : 0 .. 127, ram : BOOLEAN]
         /\ Selected(d).page < IF Selected(d).ram THEN RamPages ELSE FlashPages
         /\ Ram((d % 128) % RamPages) \in [page : 0 .. 127, ram : BOOLEAN]
         /\ (d % 128) % RamPages < RamPages
<1>1. /\ (d % 128) % RamPages \in 0 .. 127 /\ (d % 128) % RamPages < RamPages
      /\ d % FlashPages \in 0 .. 127 /\ d % FlashPages < FlashPages
  <2>1. d \in Nat /\ d % 128 \in Nat
    BY SMT
  <2>2. RamPages \in 1 .. 128 /\ FlashPages \in 1 .. 128
    BY MapAssumption, SMT
  <2>3. (d % 128) % RamPages \in 0 .. RamPages - 1 /\ d % FlashPages \in 0 .. FlashPages - 1
    BY <2>1, <2>2, Remainder, Zenon
  <2> QED
    BY <2>2, <2>3, SMT
<1> DEFINE r == (d % 128) % RamPages
           f == d % FlashPages
<1> HIDE DEF r, f
<1>2. /\ Ram(r) \in [page : 0 .. 127, ram : BOOLEAN] /\ Ram(r).page < RamPages /\ Ram(r).ram
      /\ Flash(f) \in [page : 0 .. 127, ram : BOOLEAN] /\ Flash(f).page < FlashPages
      /\ ~Flash(f).ram
  <2>1. r \in 0 .. 127 /\ r < RamPages /\ f \in 0 .. 127 /\ f < FlashPages
    BY <1>1 DEF r, f
  <2>2. Ram(r).page = r /\ Flash(f).page = f
    BY PagesFit, Zenon
  <2> QED
    BY <2>1, <2>2, PagesFit, Zenon
<1>3. Selected(d) = Ram(r) \/ Selected(d) = Flash(f)
  BY DEF Selected, r, f
<1>4. /\ Selected(d) \in [page : 0 .. 127, ram : BOOLEAN]
      /\ Selected(d).page < IF Selected(d).ram THEN RamPages ELSE FlashPages
  <2>1. CASE Selected(d) = Ram(r)
    BY <1>2, <2>1
  <2>2. CASE Selected(d) = Flash(f)
    BY <1>2, <2>2
  <2> QED
    BY <1>3, <2>1, <2>2
<1> QED
  BY <1>1, <1>2, <1>4, Zenon DEF r

LEMMA BootMapFits ==
  ASSUME NEW n \in Banks
  PROVE  BootMap(n) \in Banks
<1> DEFINE odd == IF FlashVersion = 0 /\ n[1].page % 2 = 0 THEN 1 ELSE 0
<1>1. \A b \in Bank : n[b] \in [page : 0 .. 127, ram : BOOLEAN]
  BY DEF Banks
<1>2. 0 \in Bank /\ 1 \in Bank /\ 2 \in Bank
  BY SMT DEF Bank
<1>3. n[1].page \in 0 .. 127 /\ n[1].page - (n[1].page % 2) \in 0 .. 127
      /\ n[1].page + odd \in 0 .. 127
  BY <1>1, <1>2, SMT
<1> HIDE DEF odd
<1>4. [n[1] EXCEPT !.page = @ - (@ % 2)] \in [page : 0 .. 127, ram : BOOLEAN]
      /\ [n[1] EXCEPT !.page = @ + odd] \in [page : 0 .. 127, ram : BOOLEAN]
  BY <1>1, <1>2, <1>3, SMT
<1> QED
  BY <1>1, <1>2, <1>4 DEF BootMap, Banks, odd

LEMMA BootMapBanks ==
  ASSUME NEW n, NEW o, n[1] = o[1]
  PROVE  BootMap(n)[1] = BootMap(o)[1] /\ BootMap(n)[2] = BootMap(o)[2]
<1>1. 1 \in Bank /\ 2 \in Bank
  BY SMT DEF Bank
<1> QED
  BY <1>1, SMT DEF BootMap

LEMMA ChangeFits ==
  ASSUME TypeOK, NEW b \in Bank, NEW m \in [page : 0 .. 127, ram : BOOLEAN],
         m.page < IF m.ram THEN RamPages ELSE FlashPages
  PROVE  LET n == [normal EXCEPT ![b] = m] IN n \in Banks /\ InRange(n)
<1> DEFINE n == [normal EXCEPT ![b] = m]
<1>1. normal \in Banks /\ InRange(normal)
  BY DEF TypeOK
<1>2. n \in Banks
  BY <1>1 DEF Banks
<1>3. \A c \in Bank : n[c] = IF c = b THEN m ELSE normal[c]
  BY <1>1 DEF Banks
<1>4. InRange(n)
  BY <1>1, <1>3 DEF InRange
<1> QED
  BY <1>2, <1>4

-----------------------------------------------------------------------------
(* A saved state remembers the map that loading it makes. *)
SavedInv ==
  \A s \in saved : s.seen = IF s.bootMapped THEN BootMap(s.normal) ELSE s.normal

SavedTypes ==
  \A s \in saved :
    /\ s.normal \in Banks /\ InRange(s.normal)
    /\ s.bootMapped \in BOOLEAN /\ s.locked \in BOOLEAN
    /\ s.prot \in Prot /\ s.remap \in [{27, 28} -> 0 .. 255] /\ s.pc \in Places

IInv == TypeOK /\ SavedTypes /\ SavedInv /\ MapsAgree /\ NoForbiddenCode

LEMMA InitEstablishes == Init => IInv
<1> SUFFICES ASSUME Init PROVE IInv
  OBVIOUS
<1>1. PowerOnProt \in Prot /\ NoRemap \in [{27, 28} -> 0 .. 255]
  BY MapAssumption, SMT DEF PowerOnProt, Prot, NoRemap
<1>2. <<0, 0>> \in Places /\ 0 \in 0 .. MaxOutputs
  BY MapAssumption, SMT
<1>3. BootMap(PowerOnBanks) \in Banks
  BY PowerOnFits, BootMapFits
<1> QED
  BY <1>1, <1>2, <1>3, PowerOnFits DEF Init, IInv, TypeOK, SavedTypes, SavedInv, MapsAgree,
     NoForbiddenCode

-----------------------------------------------------------------------------
Records(A, B, C, D, E, F, G) ==
  [flashLower : A, flashUpper : B, ramLower : C, ramUpper : D, enabled : E, disabled : F,
   mode : G]

LEMMA ProtFits ==
  ASSUME NEW p \in Prot
  PROVE  /\ \A l, u \in 0 .. 255, rl, ru \in 0 .. 63 :
              [p EXCEPT !.flashLower = l, !.flashUpper = u,
                        !.ramLower = rl, !.ramUpper = ru] \in Prot
         /\ \A rl, ru \in 0 .. 63 : [p EXCEPT !.ramLower = rl, !.ramUpper = ru] \in Prot
         /\ \A e, f \in BOOLEAN : [p EXCEPT !.enabled = e, !.disabled = f] \in Prot
         /\ \A m \in 0 .. 3 : [p EXCEPT !.mode = m] \in Prot
         /\ \A l \in 0 .. 255 : /\ [p EXCEPT !.flashLower = l] \in Prot
                                /\ [p EXCEPT !.flashUpper = l] \in Prot
         /\ \A l \in 0 .. 63 : /\ [p EXCEPT !.ramLower = l] \in Prot
                               /\ [p EXCEPT !.ramUpper = l] \in Prot
<1> DEFINE A == 0 .. 255
           C == 0 .. 63
           E == BOOLEAN
           G == 0 .. 3
<1>1. Prot = Records(A, A, C, C, E, E, G)
  BY DEF Prot, Records
<1> HIDE DEF A, C, E, G
<1>2. \A l, u \in A, rl, ru \in C : [p EXCEPT !.flashLower = l, !.flashUpper = u,
                                            !.ramLower = rl, !.ramUpper = ru] \in Prot
  BY <1>1, Zenon DEF Records
<1>3. \A rl, ru \in C : [p EXCEPT !.ramLower = rl, !.ramUpper = ru] \in Prot
  BY <1>1, Zenon DEF Records
<1>4. \A e, f \in E : [p EXCEPT !.enabled = e, !.disabled = f] \in Prot
  BY <1>1, Zenon DEF Records
<1>5. \A m \in G : [p EXCEPT !.mode = m] \in Prot
  BY <1>1, Zenon DEF Records
<1>6. \A l \in A : [p EXCEPT !.flashLower = l] \in Prot /\ [p EXCEPT !.flashUpper = l] \in Prot
  BY <1>1, Zenon DEF Records
<1>7. \A l \in C : [p EXCEPT !.ramLower = l] \in Prot /\ [p EXCEPT !.ramUpper = l] \in Prot
  BY <1>1, Zenon DEF Records
<1> QED
  BY <1>2, <1>3, <1>4, <1>5, <1>6, <1>7, Zenon DEF A, C, E, G

LEMMA SomeBounds ==
  /\ 0 \in 0 .. 255 /\ 0 \in 0 .. 63 /\ 0 \in 0 .. 3
  /\ \A d \in 0 .. 255 : d % 64 \in 0 .. 63
BY SMT

LEMMA ProtFields ==
  ASSUME NEW p \in Prot
  PROVE  /\ p.flashLower \in 0 .. 255 /\ p.flashUpper \in 0 .. 255
         /\ p.ramLower \in 0 .. 63 /\ p.ramUpper \in 0 .. 63
BY SMT DEF Prot

(* change_page leaves the two maps in agreement. *)
LEMMA ChangeKeeps ==
  ASSUME TypeOK, NEW b \in Bank, NEW m \in [page : 0 .. 127, ram : BOOLEAN],
         m.page < IF m.ram THEN RamPages ELSE FlashPages,
         change_page(b, m)
  PROVE  /\ normal' \in Banks /\ InRange(normal')
         /\ boot' = BootMap(normal') /\ boot' \in Banks
BY ChangeFits, BootMapFits, Zenon DEF change_page

(* An output that ends the instruction and keeps the rest of the state in  *)
(* its types keeps the invariant.                                          *)
LEMMA OutputKeeps ==
  ASSUME IInv, Output,
         normal' \in Banks, InRange(normal'), boot' \in Banks,
         bootMapped' \in BOOLEAN, locked' \in BOOLEAN, changed0' \in BOOLEAN, prot' \in Prot,
         remap' \in [{27, 28} -> 0 .. 255],
         bootMapped' => boot' = BootMap(normal')
  PROVE  IInv'
<1>1. op' = {} /\ pc' = pc /\ saved' = saved /\ outputs' = outputs + 1 /\ outputs < MaxOutputs
  BY DEF Output
<1>2. outputs' \in 0 .. MaxOutputs
  BY <1>1, MapAssumption, SMT DEF IInv, TypeOK
<1>3. TypeOK'
  BY <1>1, <1>2, Zenon DEF IInv, TypeOK
<1>4. SavedTypes' /\ SavedInv'
  BY <1>1, Zenon DEF IInv, SavedTypes, SavedInv
<1>5. MapsAgree' /\ NoForbiddenCode'
  BY <1>1, Zenon DEF MapsAgree, NoForbiddenCode
<1> QED
  BY <1>3, <1>4, <1>5 DEF IInv

(* Loading a saved state, wherever it goes. *)
LEMMA LoadKeeps ==
  ASSUME IInv, NEW s \in saved, NEW b \in Banks, Load(s, b),
         NEW p \in Prot, prot' = Restored(p, s), changed0' \in BOOLEAN,
         op = {}, UNCHANGED <<op, saved, outputs>>
  PROVE  IInv' /\ Map' = s.seen
<1>1. /\ s.normal \in Banks /\ InRange(s.normal)
      /\ s.bootMapped \in BOOLEAN /\ s.locked \in BOOLEAN
      /\ s.prot \in Prot /\ s.remap \in [{27, 28} -> 0 .. 255] /\ s.pc \in Places
  BY DEF IInv, SavedTypes
<1>2. /\ normal' = s.normal /\ bootMapped' = s.bootMapped
      /\ boot' = (IF s.bootMapped THEN BootMap(s.normal) ELSE b)
      /\ locked' = s.locked /\ remap' = s.remap /\ pc' = s.pc
  BY DEF Load
<1>3. boot' \in Banks
  BY <1>1, <1>2, BootMapFits
<1>4. prot' \in Prot
  BY <1>1, ProtFits, ProtFields, SomeBounds, Zenon DEF Restored
<1>5. TypeOK'
  BY <1>1, <1>2, <1>3, <1>4, Zenon DEF IInv, TypeOK
<1>6. SavedTypes' /\ SavedInv'
  BY Zenon DEF IInv, SavedTypes, SavedInv
<1>7. MapsAgree' /\ NoForbiddenCode'
  BY <1>2, Zenon DEF MapsAgree, NoForbiddenCode
<1>8. Map' = s.seen
  BY <1>2, Zenon DEF IInv, SavedInv, Map
<1> QED
  BY <1>5, <1>6, <1>7, <1>8 DEF IInv

LEMMA LoadsKeep ==
  ASSUME IInv, NEW s \in saved, Restore(s) \/ Open(s)
  PROVE  IInv' /\ Map' = s.seen
<1>1. CASE Restore(s)
  <2>1. /\ op = {} /\ Load(s, boot) /\ prot' = Restored(prot, s)
        /\ UNCHANGED <<changed0, op, saved, outputs>>
    BY <1>1 DEF Restore
  <2>2. boot \in Banks /\ prot \in Prot /\ changed0' \in BOOLEAN
    BY <2>1 DEF IInv, TypeOK
  <2> QED
    BY <2>1, <2>2, LoadKeeps
<1>2. CASE Open(s)
  <2>1. /\ op = {} /\ Load(s, BootMap(PowerOnBanks)) /\ prot' = Restored(PowerOnProt, s)
        /\ changed0' = FALSE /\ UNCHANGED <<op, saved, outputs>>
    BY <1>2 DEF Open
  <2>2. BootMap(PowerOnBanks) \in Banks
    BY PowerOnFits, BootMapFits
  <2>3. PowerOnProt \in Prot
    BY MapAssumption, SMT DEF PowerOnProt, Prot
  <2> DEFINE b == BootMap(PowerOnBanks)
             p == PowerOnProt
  <2>4. b \in Banks /\ p \in Prot /\ Load(s, b) /\ prot' = Restored(p, s)
    BY <2>1, <2>2, <2>3
  <2> HIDE DEF b, p
  <2> QED
    BY <2>1, <2>4, LoadKeeps
<1> QED
  BY <1>1, <1>2

(* After a reset the boot page is at 0, and may be executed. *)
LEMMA ResetKeeps ==
  ASSUME TypeOK, CPU_reset
  PROVE  /\ normal' \in Banks /\ InRange(normal')
         /\ ~bootMapped' /\ changed0' \in BOOLEAN /\ locked' \in BOOLEAN
         /\ prot' \in Prot /\ remap' \in [{27, 28} -> 0 .. 255]
         /\ pc' = <<0, 0>> /\ pc' \in Places
         /\ Allowed(Map[0], <<0, 0>>)'
<1>1. /\ normal' = PowerOnBanks /\ ~bootMapped' /\ changed0' = FALSE /\ locked' = locked
      /\ prot' = [prot EXCEPT !.ramLower = 0, !.ramUpper = 0] /\ remap' = NoRemap
      /\ pc' = <<0, 0>>
  BY DEF CPU_reset
<1>2. prot' \in Prot
  <2>1. prot \in Prot
    BY DEF TypeOK
  <2> QED
    BY <1>1, <2>1, ProtFits, SomeBounds, Zenon
<1>3. NoRemap \in [{27, 28} -> 0 .. 255]
  BY SMT DEF NoRemap
<1>4. Map'[0] = Flash(BootPage)
  <2>1. Map' = PowerOnBanks /\ 0 \in Bank
    BY <1>1, SMT DEF Map, Bank
  <2> QED
    BY <2>1, Zenon DEF PowerOnBanks
<1>5. Privileged(Flash(BootPage)) /\ ~Flash(BootPage).ram
  BY MapAssumption, SMT DEF Privileged, Flash, BootPage
<1>6. Allowed(Map[0], <<0, 0>>)'
  BY <1>4, <1>5, Zenon DEF Allowed
<1> QED
  BY <1>1, <1>2, <1>3, <1>6, PowerOnFits, MapAssumption, Zenon DEF TypeOK

(* A fetch: the page put at 0 changes no other bank the processor sees. *)
LEMMA FetchKeeps ==
  ASSUME IInv, Fetch
  PROVE  IInv'
<1> DEFINE b       == pc[1]
           m       == Map[b]
           touches == ~changed0 /\ ~m.ram /\ b \in (IF bootMapped THEN {1, 2} ELSE {1})
           n       == IF touches THEN [normal EXCEPT ![0] = Flash(0)] ELSE normal
<1>0. /\ op = {} /\ boot' = (IF touches THEN BootMap(n) ELSE boot)
      /\ saved' = saved /\ outputs' = outputs
      /\ \/ /\ Allowed(m, pc) /\ normal' = n /\ changed0' = (changed0 \/ touches)
            /\ op' = {pc} /\ pc' \in Onward(pc) \cap Places
            /\ UNCHANGED <<bootMapped, locked, prot, remap>>
         \/ CPU_reset /\ op' = {pc'}
  BY Zenon DEF Fetch
<1>1. /\ TypeOK /\ MapsAgree /\ pc \in Places /\ normal \in Banks /\ boot \in Banks
      /\ pc \in Place /\ b \in Bank
  <2>1. pc \in Places /\ Places \subseteq Place
    BY MapAssumption DEF IInv, TypeOK
  <2> QED
    BY <2>1 DEF IInv, TypeOK, Place
<1>2. n \in Banks /\ InRange(n)
  <2>1. Flash(0) \in [page : 0 .. 127, ram : BOOLEAN] /\ 0 \in Bank
    <3>1. 0 \in 0 .. 127 /\ 0 \in Bank
      BY SMT DEF Bank
    <3> QED
      BY <3>1, PagesFit, Zenon
  <2>2. Flash(0).page < FlashPages /\ ~Flash(0).ram
    <3>1. 0 < FlashPages
      BY MapAssumption, SMT
    <3>2. Flash(0).page = 0 /\ ~Flash(0).ram
      BY PagesFit, Zenon
    <3> QED
      BY <3>1, <3>2, Zenon
  <2>3. Flash(0).page < IF Flash(0).ram THEN RamPages ELSE FlashPages
    BY <2>2, Zenon
  <2>4. [normal EXCEPT ![0] = Flash(0)] \in Banks /\ InRange([normal EXCEPT ![0] = Flash(0)])
    BY <1>1, <2>1, <2>3, ChangeFits, Zenon
  <2> QED
    BY <1>1, <2>4, Zenon DEF TypeOK
<1>3. BootMap(n) \in Banks /\ boot' \in Banks
  BY <1>0, <1>1, <1>2, BootMapFits
<1>4. SavedTypes' /\ SavedInv'
  BY <1>0, Zenon DEF IInv, SavedTypes, SavedInv
<1>5. outputs' \in 0 .. MaxOutputs
  BY <1>0, <1>1 DEF TypeOK
<1>6. CASE CPU_reset /\ op' = {pc'}
  <2>1. /\ normal' \in Banks /\ InRange(normal')
        /\ ~bootMapped' /\ changed0' \in BOOLEAN /\ locked' \in BOOLEAN
        /\ prot' \in Prot /\ remap' \in [{27, 28} -> 0 .. 255]
        /\ pc' = <<0, 0>> /\ pc' \in Places
        /\ Allowed(Map[0], <<0, 0>>)'
    BY <1>1, <1>6, ResetKeeps, Zenon
  <2>2. bootMapped' = FALSE
    BY <1>6 DEF CPU_reset
  <2>3. TypeOK'
    BY <1>0, <1>3, <1>5, <1>6, <2>1, <2>2, <1>1, Zenon DEF IInv, SavedTypes, TypeOK
  <2>4. <<0, 0>>[1] = 0
    OBVIOUS
  <2>5. NoForbiddenCode'
    BY <1>6, <2>1, <2>4, Zenon DEF NoForbiddenCode
  <2>6. MapsAgree'
    BY <2>1 DEF MapsAgree
  <2> QED
    BY <1>4, <2>3, <2>5, <2>6 DEF IInv
<1>7. CASE /\ Allowed(m, pc) /\ normal' = n /\ changed0' = (changed0 \/ touches)
           /\ op' = {pc} /\ pc' \in Onward(pc) \cap Places
           /\ UNCHANGED <<bootMapped, locked, prot, remap>>
  <2>1. changed0' \in BOOLEAN
    BY <1>7, <1>1 DEF TypeOK
  <2>2. TypeOK'
    BY <1>0, <1>1, <1>2, <1>3, <1>5, <1>7, <2>1, Zenon DEF TypeOK
  <2>3. MapsAgree'
    BY <1>0, <1>1, <1>7, Zenon DEF MapsAgree
  <2>4. Map'[b] = m
    <3>1. CASE ~touches
      BY <1>0, <1>7, <3>1, Zenon DEF Map
    <3>2. CASE touches
      <4>1. b \in {1, 2} /\ (b = 2 => bootMapped)
        <5>1. b \in (IF bootMapped THEN {1, 2} ELSE {1})
          BY <3>2
        <5>2. CASE bootMapped
          BY <5>1, <5>2
        <5>3. CASE ~bootMapped
          BY <5>1, <5>3, 1 # 2
        <5> QED
          BY <5>2, <5>3
      <4>2. n = [normal EXCEPT ![0] = Flash(0)]
        BY <3>2
      <4>3. n[1] = normal[1] /\ n[2] = normal[2]
        BY <4>2, <1>1, SMT DEF Banks, Bank
      <4>4. BootMap(n)[b] = BootMap(normal)[b]
        <5>1. BootMap(n)[1] = BootMap(normal)[1] /\ BootMap(n)[2] = BootMap(normal)[2]
          BY <4>3, BootMapBanks
        <5> HIDE DEF n
        <5> QED
          BY <4>1, <5>1, Zenon
      <4>5. CASE bootMapped
        BY <4>4, <4>5, <1>0, <1>1, <1>7, <3>2, Zenon DEF Map, MapsAgree
      <4>6. CASE ~bootMapped
        BY <4>1, <4>3, <4>6, <1>7, Zenon DEF Map
      <4> QED
        BY <4>5, <4>6
    <3> QED
      BY <3>1, <3>2
  <2>5. ASSUME NEW p, NEW x, Allowed(x, p)
        PROVE  Allowed(x, p)'
    BY <1>7, <2>5, Zenon DEF Allowed, Behind
  <2>6. ASSUME NEW p \in op'
        PROVE  Allowed(Map[p[1]], p)'
    <3>1. p = pc
      BY <1>7
    <3>2. PICK x : x = m
      OBVIOUS
    <3>3. Allowed(x, p) /\ x = Map'[p[1]]
      BY <3>1, <3>2, <1>7, <2>4, Zenon
    <3>4. Allowed(x, p)'
      BY <3>3, <2>5
    <3> QED
      BY <3>3, <3>4, Zenon DEF Allowed, Behind
  <2>7. NoForbiddenCode'
    BY <2>6 DEF NoForbiddenCode
  <2> QED
    BY <1>4, <2>2, <2>3, <2>7 DEF IInv
<1> QED
  BY <1>0, <1>6, <1>7, Zenon

(* Every port's output. *)
LEMMA PortsKeep ==
  ASSUME IInv, Output,
         \/ \E x \in BOOLEAN : port4(x) \/ port14(x)
         \/ \E d \in Selects : port5(d) \/ port6(d) \/ port7(d)
         \/ \E m \in 0 .. 3 : port21(m)
         \/ \E d \in Bounds : port22(d) \/ port23(d) \/ port25(d) \/ port26(d)
         \/ \E e, d \in BOOLEAN : port24(e, d)
         \/ \E p \in {27, 28}, d \in Chunks : port_chunk_remap(p, d)
  PROVE  IInv'
<1>0. /\ TypeOK /\ normal \in Banks /\ InRange(normal) /\ boot \in Banks /\ prot \in Prot
      /\ bootMapped \in BOOLEAN /\ changed0 \in BOOLEAN /\ locked \in BOOLEAN
      /\ remap \in [{27, 28} -> 0 .. 255] /\ (bootMapped => boot = BootMap(normal))
  BY DEF IInv, TypeOK, MapsAgree
<1>1. ASSUME NEW x \in BOOLEAN, port4(x) PROVE IInv'
  <2>1. /\ bootMapped' = x /\ boot' = (IF x THEN BootMap(normal) ELSE boot)
        /\ normal' = normal /\ changed0' = changed0 /\ locked' = locked /\ prot' = prot
        /\ remap' = remap
    BY <1>1 DEF port4
  <2>2. boot' \in Banks
    BY <2>1, <1>0, BootMapFits
  <2>3. bootMapped' => boot' = BootMap(normal')
    BY <2>1
  <2> QED
    BY <2>1, <2>2, <2>3, <1>0, OutputKeeps, Zenon
<1>2. ASSUME NEW x \in BOOLEAN, port14(x) PROVE IInv'
  <2>1. locked' \in BOOLEAN
    BY <1>2, <1>0 DEF port14
  <2> QED
    BY <1>2, <2>1, <1>0, OutputKeeps, Zenon DEF port14
<1>3. ASSUME NEW b \in Bank, NEW m \in [page : 0 .. 127, ram : BOOLEAN],
             m.page < IF m.ram THEN RamPages ELSE FlashPages, change_page(b, m),
             UNCHANGED <<bootMapped, changed0, locked, prot, remap>>
      PROVE  IInv'
  <2>1. /\ normal' \in Banks /\ InRange(normal')
        /\ boot' = BootMap(normal') /\ boot' \in Banks
    BY <1>0, <1>3, ChangeKeeps, Zenon
  <2> QED
    BY <1>3, <2>1, <1>0, OutputKeeps, Zenon
<1>4. ASSUME NEW d \in Selects, port5(d) \/ port6(d) \/ port7(d) PROVE IInv'
  <2>1. d \in 0 .. 255 /\ 1 \in Bank /\ 2 \in Bank /\ 3 \in Bank
    BY MapAssumption, SMT DEF Bank
  <2> DEFINE r == Ram((d % 128) % RamPages)
  <2>2. r \in [page : 0 .. 127, ram : BOOLEAN]
    BY <2>1, SelectedFits, Zenon
  <2>3. r.page < IF r.ram THEN RamPages ELSE FlashPages
    <3>1. r.ram /\ r.page = (d % 128) % RamPages /\ (d % 128) % RamPages < RamPages
      BY <2>1, SelectedFits, PagesFit, Zenon
    <3> QED
      BY <3>1, Zenon
  <2>4. CASE port5(d)
    <3>1. change_page(3, r) /\ UNCHANGED <<bootMapped, changed0, locked, prot, remap>>
      BY <2>4 DEF port5
    <3> HIDE DEF r
    <3> QED
      BY <3>1, <2>1, <2>2, <2>3, <1>3
  <2> DEFINE u == Selected(d)
  <2>5. /\ u \in [page : 0 .. 127, ram : BOOLEAN]
        /\ u.page < IF u.ram THEN RamPages ELSE FlashPages
    BY <2>1, SelectedFits, Zenon
  <2>6. CASE port6(d)
    <3>1. change_page(1, u) /\ UNCHANGED <<bootMapped, changed0, locked, prot, remap>>
      BY <2>6 DEF port6
    <3> HIDE DEF u
    <3> QED
      BY <3>1, <2>1, <2>5, <1>3
  <2>7. CASE port7(d)
    <3>1. change_page(2, u) /\ UNCHANGED <<bootMapped, changed0, locked, prot, remap>>
      BY <2>7 DEF port7
    <3> HIDE DEF u
    <3> QED
      BY <3>1, <2>1, <2>5, <1>3
  <2> QED
    BY <1>4, <2>4, <2>6, <2>7
<1>5. ASSUME NEW p, p = prot', p \in Prot,
             UNCHANGED <<normal, boot, bootMapped, changed0, locked, remap>>
      PROVE  IInv'
  BY <1>5, <1>0, OutputKeeps, Zenon
<1>6. ASSUME NEW m \in 0 .. 3, port21(m) PROVE IInv'
  <2>1. prot' \in Prot
    BY <1>0, <1>6, ProtFits, SomeBounds, Zenon DEF port21, Protect
  <2> QED
    BY <2>1, <1>5, <1>6, Zenon DEF port21, Protect
<1>7. ASSUME NEW d \in Bounds, port22(d) \/ port23(d) \/ port25(d) \/ port26(d) PROVE IInv'
  <2>1. d \in 0 .. 255 /\ d % 64 \in 0 .. 63
    <3>1. d \in 0 .. 255
      BY MapAssumption
    <3> QED
      BY <3>1, SomeBounds, Zenon
  <2>2. /\ [prot EXCEPT !.flashLower = d] \in Prot
        /\ [prot EXCEPT !.flashUpper = d] \in Prot
        /\ [prot EXCEPT !.ramLower = d % 64] \in Prot
        /\ [prot EXCEPT !.ramUpper = d % 64] \in Prot
    <3>1. /\ [prot EXCEPT !.flashLower = d] \in Prot
          /\ [prot EXCEPT !.flashUpper = d] \in Prot
      BY <1>0, <2>1, ProtFits, SomeBounds, Zenon
    <3>2. /\ [prot EXCEPT !.ramLower = d % 64] \in Prot
          /\ [prot EXCEPT !.ramUpper = d % 64] \in Prot
      <4> DEFINE k == d % 64
      <4>1. k \in 0 .. 63
        BY <2>1
      <4> HIDE DEF k
      <4>2. [prot EXCEPT !.ramLower = k] \in Prot /\ [prot EXCEPT !.ramUpper = k] \in Prot
        BY <1>0, <4>1, ProtFits, SomeBounds, Zenon
      <4> QED
        BY <4>2, Zenon DEF k
    <3> QED
      BY <3>1, <3>2
  <2>3. prot' \in Prot /\ UNCHANGED <<normal, boot, bootMapped, changed0, locked, remap>>
    BY <1>7, <2>2, Zenon DEF port22, port23, port25, port26, Protect
  <2> QED
    BY <2>3, <1>5
<1>8. ASSUME NEW e \in BOOLEAN, NEW d \in BOOLEAN, port24(e, d) PROVE IInv'
  <2>1. prot' \in Prot
    BY <1>0, <1>8, ProtFits, SomeBounds, Zenon DEF port24, Protect
  <2> QED
    BY <2>1, <1>5, <1>8, Zenon DEF port24, Protect
<1>9. ASSUME NEW p \in {27, 28}, NEW d \in Chunks, port_chunk_remap(p, d) PROVE IInv'
  <2>1. d \in 0 .. 255
    BY MapAssumption
  <2>2. remap' \in [{27, 28} -> 0 .. 255]
    BY <1>9, <2>1, <1>0 DEF port_chunk_remap
  <2> QED
    BY <1>9, <2>2, <1>0, OutputKeeps, Zenon DEF port_chunk_remap
<1> QED
  BY <1>1, <1>2, <1>4, <1>6, <1>7, <1>8, <1>9, Zenon

LEMMA StepKeeps == IInv /\ [Next]_vars => IInv'
<1> SUFFICES ASSUME IInv, [Next]_vars PROVE IInv'
  OBVIOUS
<1>1. CASE Fetch
  BY <1>1, FetchKeeps
<1>2. CASE Jump
  <2>1. op' = {} /\ pc' \in Places /\ UNCHANGED <<machine, saved, outputs>>
    BY <1>2 DEF Jump
  <2> QED
    BY <2>1, Zenon DEF machine, IInv, TypeOK, SavedTypes, SavedInv, MapsAgree, NoForbiddenCode
<1>3. CASE \/ \E x \in BOOLEAN : port4(x) \/ port14(x)
           \/ \E d \in Selects : port5(d) \/ port6(d) \/ port7(d)
           \/ \E m \in 0 .. 3 : port21(m)
           \/ \E d \in Bounds : port22(d) \/ port23(d) \/ port25(d) \/ port26(d)
           \/ \E e, d \in BOOLEAN : port24(e, d)
           \/ \E p \in {27, 28}, d \in Chunks : port_chunk_remap(p, d)
  <2>1. Output
    BY <1>3, Zenon DEF port4, port5, port6, port7, port14, port21, port22, port23, port24,
       port25, port26, port_chunk_remap, Protect, Protected
  <2> QED
    BY <1>3, <2>1, PortsKeep, Zenon
<1>4. CASE calc_reset
  <2>1. CPU_reset /\ op = {} /\ UNCHANGED <<boot, op, saved, outputs>>
    BY <1>4 DEF calc_reset
  <2>2. /\ normal' \in Banks /\ InRange(normal')
        /\ ~bootMapped' /\ changed0' \in BOOLEAN /\ locked' \in BOOLEAN
        /\ prot' \in Prot /\ remap' \in [{27, 28} -> 0 .. 255]
        /\ pc' \in Places
    BY <2>1, ResetKeeps, Zenon DEF IInv
  <2>3. bootMapped' = FALSE
    BY <2>1 DEF CPU_reset
  <2>4. TypeOK'
    BY <2>1, <2>2, <2>3, Zenon DEF IInv, TypeOK
  <2> QED
    BY <2>1, <2>2, <2>4, Zenon DEF IInv, SavedTypes, SavedInv, MapsAgree, NoForbiddenCode
<1>5. CASE SaveSlot
  <2> DEFINE s == [normal |-> normal, bootMapped |-> bootMapped, locked |-> locked,
                   prot |-> prot, remap |-> remap, pc |-> pc, seen |-> Map]
  <2>1. saved' = {s} /\ op = {} /\ UNCHANGED <<machine, pc, op, outputs>>
    BY <1>5 DEF SaveSlot
  <2>2. /\ s.normal = normal /\ s.bootMapped = bootMapped /\ s.locked = locked
        /\ s.prot = prot /\ s.remap = remap /\ s.pc = pc /\ s.seen = Map
    OBVIOUS
  <2> HIDE DEF s
  <2>3. TypeOK' /\ SavedTypes' /\ MapsAgree' /\ NoForbiddenCode'
    BY <2>1, <2>2, Zenon DEF machine, IInv, TypeOK, SavedTypes, MapsAgree, NoForbiddenCode
  <2>4. Map = IF bootMapped THEN BootMap(normal) ELSE normal
    BY Zenon DEF IInv, MapsAgree, Map
  <2>5. SavedInv'
    BY <2>1, <2>2, <2>4, Zenon DEF SavedInv
  <2> QED
    BY <2>3, <2>5 DEF IInv
<1>6. ASSUME NEW s \in saved, Restore(s) \/ Open(s) PROVE IInv'
  BY <1>6, LoadsKeep
<1>7. CASE UNCHANGED vars
  <2>1. UNCHANGED <<machine, pc, op, saved, outputs>>
    BY <1>7 DEF vars, machine
  <2>2. TypeOK' /\ SavedTypes' /\ SavedInv' /\ MapsAgree'
    BY <2>1, Zenon DEF machine, IInv, TypeOK, SavedTypes, SavedInv, MapsAgree
  <2>3. NoForbiddenCode'
    <3>1. /\ op' = op /\ normal' = normal /\ boot' = boot /\ bootMapped' = bootMapped
          /\ prot' = prot /\ remap' = remap
      BY <2>1 DEF machine
    <3>2. ASSUME NEW p \in op, Allowed(Map[p[1]], p)
          PROVE  Allowed(Map[p[1]], p)'
      BY <3>1, <3>2, Zenon DEF Allowed, Behind, Map
    <3> QED
      BY <3>1, <3>2, Zenon DEF IInv, NoForbiddenCode
  <2> QED
    BY <2>2, <2>3 DEF IInv
<1> QED
  BY <1>1, <1>2, <1>3, <1>4, <1>5, <1>6, <1>7, Zenon DEF Next

LEMMA Invariance == Spec => []IInv
<1> QED
  BY InitEstablishes, StepKeeps, PTL DEF Spec

-----------------------------------------------------------------------------
(* Banks never hold a page the memory does not have (change_page and the   *)
(* ports that call it).                                                    *)
THEOREM MapTypeCorrect == Spec => []TypeOK
<1>1. IInv => TypeOK
  BY DEF IInv
<1> QED
  BY <1>1, Invariance, PTL

(* The boot map the processor sees is the one update_bootmap_pages would   *)
(* make now, whatever was selected, reset or loaded.                       *)
THEOREM BootMapFresh == Spec => []MapsAgree
<1>1. IInv => MapsAgree
  BY DEF IInv
<1> QED
  BY <1>1, Invariance, PTL

(* No opcode comes from where none may be executed (CPU_opcode_fetch,      *)
(* is_allowed_exec, CPU_reset).                                            *)
THEOREM CodeIsAllowed == Spec => []NoForbiddenCode
<1>1. IInv => NoForbiddenCode
  BY DEF IInv
<1> QED
  BY <1>1, Invariance, PTL

(* Loading a state, into the running slot or a new one, shows the program  *)
(* the memory it saw when the state was saved (SaveSlot, LoadSlot).        *)
THEOREM SavedMapIsSeen == Spec => SavedMapReturns
<1>1. IInv /\ [Next]_vars => (\A s \in saved : Restore(s) \/ Open(s) => Map' = s.seen)
  BY LoadsKeep
<1>2. IInv /\ [Next]_vars => [\A s \in saved : Restore(s) \/ Open(s) => Map' = s.seen]_vars
  BY <1>1
<1> QED
  BY <1>2, Invariance, PTL DEF Spec, SavedMapReturns

LEMMA BootPageMoves == Flash(0) # Flash(BootPage)
BY MapAssumption DEF Flash, BootPage

LEMMA FetchFlag == IInv /\ BootcodeFlag /\ Fetch => BootcodeFlag'
<1> SUFFICES ASSUME IInv, BootcodeFlag, Fetch PROVE BootcodeFlag'
  OBVIOUS
<1>1. normal \in Banks /\ 0 \in Bank
  BY DEF IInv, TypeOK, Bank
<1>2. CASE CPU_reset
  BY <1>2, <1>1 DEF CPU_reset, PowerOnBanks, BootcodeFlag, Bank
<1>3. CASE normal' = normal /\ changed0' = changed0
  BY <1>3 DEF BootcodeFlag
<1>4. CASE normal' = [normal EXCEPT ![0] = Flash(0)] /\ changed0' = TRUE
  BY <1>4, <1>1, BootPageMoves DEF BootcodeFlag, Banks
<1>5. changed0 \in BOOLEAN
  BY DEF IInv, TypeOK
<1> QED
  BY <1>2, <1>3, <1>4, <1>5 DEF Fetch

LEMMA OutputFlag ==
  ASSUME IInv, BootcodeFlag,
         NEW b \in {1, 2, 3}, NEW m, change_page(b, m), changed0' = changed0
  PROVE  BootcodeFlag'
<1>1. normal \in Banks /\ b \in Bank /\ b # 0
  BY DEF IInv, TypeOK, Bank
<1>2. normal'[0] = normal[0]
  BY <1>1 DEF change_page, Banks, Bank
<1> QED
  BY <1>2 DEF BootcodeFlag

(* hasChangedPage0 parts from page 0 only when a state is loaded, which    *)
(* does not hold it (CPU_opcode_fetch, CPU_reset, change_page, LoadMEM).   *)
THEOREM FlagFollows == Spec => FlagFollowsPage0
<1>1. IInv /\ [Next]_vars
        => [BootcodeFlag => BootcodeFlag' \/ \E s \in saved : Restore(s) \/ Open(s)]_vars
  <2> SUFFICES ASSUME IInv, Next, BootcodeFlag, ~ \E s \in saved : Restore(s) \/ Open(s)
               PROVE  BootcodeFlag'
    OBVIOUS
  <2>1. CASE Fetch
    BY <2>1, FetchFlag
  <2>2. CASE \E d \in Selects : port5(d) \/ port6(d) \/ port7(d)
    BY <2>2, OutputFlag DEF port5, port6, port7
  <2>3. CASE calc_reset
    BY <2>3 DEF calc_reset, CPU_reset, PowerOnBanks, BootcodeFlag, Bank
  <2>4. CASE normal' = normal /\ changed0' = changed0
    BY <2>4 DEF BootcodeFlag
  <2> QED
    BY <2>1, <2>2, <2>3, <2>4
       DEF Next, Jump, machine, port4, port14, port21, port22, port23, port24, port25, port26,
           Protect, port_chunk_remap, SaveSlot
<1> QED
  BY <1>1, Invariance, PTL DEF Spec, FlagFollowsPage0

=============================================================================
