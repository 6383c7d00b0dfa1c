----------------------------- MODULE FlashChip -----------------------------
(***************************************************************************)
(* The flash chip: flashwrite decodes the program's writes as the cycles   *)
(* of a command, CPU_opcode_fetch from flash (endflash) and an autoselect  *)
(* read in CPU_mem_read put the decoder back.                              *)
(*                                                                         *)
(* Flash is addressed by half pages of 8K, the smallest sector, and in     *)
(* each by what the low 12 bits of the address say to the decoder; one     *)
(* byte stands for all of a kind.  A byte is the set of its one bits, so   *)
(* that & is intersection.                                                 *)
(***************************************************************************)
EXTENDS Integers, Sequences

CONSTANTS Pages,       \* flash_pages
          HasFastMode, \* flash_version # 1
          Contents,    \* what the loaded ROM may fill the flash with
          Probed,      \* the half pages the program writes to
          Writes,      \* what it writes: offsets and bytes
          MaxChanges   \* bound on the writes that change the contents

ASSUME PagesAssumption == Pages \in 1 .. 128 /\ Pages % 4 = 0

Half == 0 .. 2 * Pages - 1

Offset == {"0AAA", "0555", "other"}

Byte == SUBSET (0 .. 7)

Write == [off : Offset, data : Byte]

ASSUME ProgramAssumption ==
  /\ HasFastMode \in BOOLEAN
  /\ Contents \subseteq Byte
  /\ Probed \subseteq Half
  /\ Writes \subseteq Write
  /\ MaxChanges \in Nat

hAA == {7, 5, 3, 1}
h55 == {6, 4, 2, 0}
hA0 == {7, 5}
h80 == {7}
h20 == {5}
h90 == {7, 4}
hF0 == {7, 6, 5, 4}
h10 == {4}
h30 == {5, 4}
hFF == 0 .. 7

VARIABLES step,   \* what cycle of a command comes next
          cmd,    \* the command of the third cycle
          flash,  \* the contents
          log,    \* history: the last two writes since the last fetch
          ready,  \* history: the commands begun since the last fetch;
                  \* one to program a byte is over with the next write
          changes

flashVars == <<step, cmd, flash, log, ready, changes>>

FlashTypeOK ==
  /\ step \in 0 .. 8
  /\ cmd \in {{}, hA0, h80, h20, h90}
  /\ flash \in [Half \X Offset -> Byte]
  /\ log \in Seq(Write) /\ Len(log) <= 2
  /\ ready \subseteq {hA0, h80, h20, h90}
  /\ changes \in Nat

FlashInit ==
  /\ step = 0
  /\ cmd = {}
  /\ \E d \in Contents : flash = [x \in Half \X Offset |-> d]
  /\ log = <<>> /\ ready = {}
  /\ changes = 0

-----------------------------------------------------------------------------
(* The half pages of the sector that holds half page h: 64K sectors, and   *)
(* in the last 64K sectors of 32K, 8K, 8K and 16K.                         *)
Sector(h) ==
  LET total == 2 * Pages
  IN  IF h < total - 8 THEN 8 * (h \div 8) .. 8 * (h \div 8) + 7
      ELSE IF h < total - 4 THEN total - 8 .. total - 5
      ELSE IF h < total - 2 THEN {h}
      ELSE {total - 2, total - 1}

Erased(halves) == [x \in Half \X Offset |-> IF x[1] \in halves THEN hFF ELSE flash[x]]

(* The byte replaces what is there. *)
Overwritten(h, o, d) == [flash EXCEPT ![<<h, o>>] = d]

Programmed(h, o, d) == [flash EXCEPT ![<<h, o>>] = @ \cap d]

(* The decoder accepts the cycle, or ends the command (endflash). *)
Cycle(accepted) ==
  /\ step' = IF accepted THEN step + 1 ELSE 0
  /\ UNCHANGED <<cmd, flash>>

Unlock1(o, d) == step = 0 /\ Cycle(o = "0AAA" /\ d = hAA)

Unlock2(o, d) == step = 1 /\ Cycle(o = "0555" /\ d = h55)

(* The third cycle does not look at its address. *)
WrongCommand(o, d) ==
  /\ step = 2
  /\ IF d \in {hA0, h80, h90}
       THEN step' = 3 /\ cmd' = d
       ELSE IF d = h20 /\ HasFastMode
              THEN step' = 6 /\ cmd' = d
              ELSE step' = 0 /\ cmd' = cmd
  /\ UNCHANGED flash

Command(o, d) ==
  /\ step = 2
  /\ IF o = "0AAA" /\ d \in {hA0, h80, h90}
       THEN step' = 3 /\ cmd' = d
       ELSE IF o = "0AAA" /\ d = h20 /\ HasFastMode
              THEN step' = 6 /\ cmd' = d
              ELSE step' = 0 /\ cmd' = cmd
  /\ UNCHANGED flash

(***************************************************************************)
(* The fourth cycle programs a byte.  After that, and in the other         *)
(* commands, the write is looked at as the fourth cycle of an erase; any   *)
(* other write leaves the decoder where it is.                             *)
(***************************************************************************)
Fourth(h, o, d) ==
  /\ step = 3
  /\ flash' = IF cmd = hA0 THEN Programmed(h, o, d) ELSE flash
  /\ LET at == IF cmd = hA0 THEN 0 ELSE 3
     IN  step' = CASE o = "0AAA" /\ d = hAA -> at + 1
                   [] d = hF0               -> 0
                   [] OTHER                 -> at
  /\ UNCHANGED cmd

Fifth(o, d) ==
  /\ step = 4
  /\ step' = CASE o = "0555" /\ d = h55 -> 5
               [] d = hF0               -> 0
               [] OTHER                 -> 4
  /\ UNCHANGED <<cmd, flash>>

(* The sixth cycle erases the chip or a sector. *)
Sixth(h, o, d) ==
  /\ step = 5
  /\ flash' = IF o = "0AAA" /\ d = h10
                THEN Erased(Half)
                ELSE IF d = h30 THEN Erased(Sector(h)) ELSE flash
  /\ step' = 0
  /\ UNCHANGED cmd

(* Fast mode: A0 announces a byte, 90 and F0 leave the mode. *)
Fast(d) ==
  /\ step = 6
  /\ step' = CASE d = h90 -> 7 [] d = hA0 -> 8 [] d = hF0 -> 0 [] OTHER -> 6
  /\ UNCHANGED <<cmd, flash>>

LeaveFast(d) ==
  /\ step = 7
  /\ step' = IF d = hF0 THEN 0 ELSE 6
  /\ UNCHANGED <<cmd, flash>>

FastProgram(h, o, d) ==
  /\ step = 8
  /\ flash' = Programmed(h, o, d)
  /\ step' = 6
  /\ UNCHANGED cmd

flashwrite(h, o, d) ==
  \/ Unlock1(o, d)
  \/ Unlock2(o, d)
  \/ Command(o, d)
  \/ Fourth(h, o, d)
  \/ Fifth(o, d)
  \/ Sixth(h, o, d)
  \/ Fast(d)
  \/ LeaveFast(d)
  \/ FastProgram(h, o, d)

-----------------------------------------------------------------------------
w(o, d) == [off |-> o, data |-> d]

Unlocking == <<w("0AAA", hAA), w("0555", h55)>>

LastIs(x) == log # <<>> /\ log[Len(log)] = x

Began(o, d) ==
  IF log = Unlocking /\ o = "0AAA" THEN {d} \cap {hA0, h80, h20, h90} ELSE {}

(* A write of the program to a page of flash that may be written. *)
ProgramWrite(h, o, d) ==
  /\ flashwrite(h, o, d)
  /\ log' = IF log = <<>> THEN <<w(o, d)>> ELSE <<log[Len(log)], w(o, d)>>
  /\ ready' = (ready \ {hA0}) \cup Began(o, d)
  /\ changes' = IF flash' # flash THEN changes + 1 ELSE changes
  /\ changes' <= MaxChanges

(* A fetch from flash leaves the decoder alone. *)
IdleFetch ==
  /\ log' = <<>> /\ ready' = {}
  /\ UNCHANGED <<step, cmd, flash, changes>>

(* CPU_opcode_fetch from a page of flash *)
FlashFetch ==
  /\ step' = 0
  /\ log' = <<>> /\ ready' = {}
  /\ UNCHANGED <<cmd, flash, changes>>

(* CPU_mem_read from flash answers an autoselect command. *)
Read ==
  /\ cmd = h90 /\ step = 3
  /\ cmd' = {} /\ step' = 0
  /\ UNCHANGED <<flash, log, ready, changes>>

FlashNext ==
  \/ \E h \in Probed, x \in Writes : ProgramWrite(h, x.off, x.data)
  \/ FlashFetch
  \/ Read

FlashSpec == FlashInit /\ [][FlashNext]_flashVars

-----------------------------------------------------------------------------
(* The decoder never runs ahead of the cycles the program wrote since the  *)
(* last fetch from flash.                                                  *)
Progress ==
  /\ step = 1 => LastIs(w("0AAA", hAA))
  /\ step = 2 => log = Unlocking
  /\ step \in 3 .. 5 => cmd \in ready \cap {hA0, h80, h90}
  /\ step \in 4 .. 5 => cmd # hA0
  /\ step = 5 => LastIs(w("0555", h55))
  /\ step \in 6 .. 8 => HasFastMode /\ h20 \in ready
  /\ step = 8 => \E o \in Offset : LastIs(w(o, hA0))

(***************************************************************************)
(* Flash changes only by the last cycle of a command the program wrote     *)
(* since the last fetch from flash: code that runs from flash, or that     *)
(* writes there by accident, changes nothing.                              *)
(***************************************************************************)
ChangesAreCommands ==
  [][flash' # flash =>
       \/ hA0 \in ready
       \/ h20 \in ready /\ \E o \in Offset : LastIs(w(o, hA0))
       \/ /\ ready \cap {h80, h90} # {}
          /\ LastIs(w("0555", h55))
          /\ log'[Len(log')] \in {w(o, h30) : o \in Offset} \cup {w("0AAA", h10)}]_flashVars

(* The sectors by their sizes: 64K each, then 32K, 8K, 8K and 16K. *)
Block ==
  {8 * i .. 8 * i + 7 : i \in 0 .. Pages \div 4 - 2} \cup
  {2 * Pages - 8 .. 2 * Pages - 5, {2 * Pages - 4}, {2 * Pages - 3},
   {2 * Pages - 2, 2 * Pages - 1}}

(***************************************************************************)
(* Programming clears bits of one byte; nothing but an erase sets bits,    *)
(* and an erase sets those of one sector, whole, or of the chip.           *)
(***************************************************************************)
OneByteCleared ==
  \E x \in Half \X Offset :
    flash' = [flash EXCEPT ![x] = flash'[x]] /\ flash'[x] \subseteq flash[x]

BlocksErased ==
  \E B \in Block \cup {Half} :
    \A x \in Half \X Offset : flash'[x] = IF x[1] \in B THEN hFF ELSE flash[x]

OnlyErasesSet == [][flash' # flash => OneByteCleared \/ BlocksErased]_flashVars

=============================================================================
