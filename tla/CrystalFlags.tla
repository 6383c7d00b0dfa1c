---------------------------- MODULE CrystalFlags ----------------------------
(***************************************************************************)
(* What the rest of a TI-83 Plus SE sees of one crystal timer: its flags.  *)
(* When the timer expires is left open.  CrystalTimer implements this, and *)
(* Interrupts takes it for the timers it has.                              *)
(***************************************************************************)
EXTENDS Integers

VARIABLE flags

Flags == [clocked   : BOOLEAN,   \* port 30 selects a clock
          active    : BOOLEAN,
          interrupt : BOOLEAN,
          underflow : BOOLEAN,
          generate  : BOOLEAN]   \* asks for an interrupt

FlagsOff == [clocked |-> FALSE, active |-> FALSE, interrupt |-> FALSE,
             underflow |-> FALSE, generate |-> FALSE]

(* The program writes the clock (30), the mode (31) or the count (32). *)
ClockWritten(f, c) == [f EXCEPT !.clocked = c, !.active = FALSE, !.generate = FALSE]

(* The request is not withdrawn. *)
KeptMode(f, i) == [f EXCEPT !.interrupt = i, !.underflow = FALSE]

ModeWritten(f, i) == [f EXCEPT !.interrupt = i, !.underflow = FALSE, !.generate = FALSE]

CountWritten(f) == [f EXCEPT !.active = @ \/ f.clocked]

(***************************************************************************)
(* The timer expires.  It may stop, but only when the program has          *)
(* acknowledged the expiry before this one.                                *)
(***************************************************************************)
Expired(f, stop) ==
  [f EXCEPT !.active = ~stop, !.underflow = TRUE, !.generate = @ \/ f.interrupt]

Polled(f) ==
  {f} \cup {Expired(f, stop) : stop \in {s \in BOOLEAN : f.active /\ (s => ~f.underflow)}}

(* One step: an instruction that may write a port, and the poll after it.  *)
WriteClock == \E c \in BOOLEAN : flags' = ClockWritten(flags, c)

WriteMode == \E i \in BOOLEAN : flags' \in Polled(ModeWritten(flags, i))

WriteCount == \E f \in Polled(flags) : flags' = CountWritten(f)

Poll == flags' \in Polled(flags)

FlagsSpec ==
  flags = FlagsOff /\ [][WriteClock \/ WriteMode \/ WriteCount \/ Poll]_flags

=============================================================================
