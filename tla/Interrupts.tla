----------------------------- MODULE Interrupts -----------------------------
(***************************************************************************)
(* The interrupts of a TI-83 Plus or TI-83 Plus SE: the two standard       *)
(* timers and the ON key behind ports 3 and 4, the crystal timers behind   *)
(* ports 30 to 38, and the processor that is halted, woken and             *)
(* interrupted.                                                            *)
(*                                                                         *)
(* A step is one CPU_step: the instruction or the halted processor's wait, *)
(* then handle_pio, which polls port 3 every Skip-th step and port 32 on   *)
(* every one, and then the interrupt, if one is asked for and taken.       *)
(* Between two steps a key may go up or down.                              *)
(*                                                                         *)
(* Times are in quarters of the fastest standard period; how long ago      *)
(* lastchk1 and lastchk2 were is kept instead of the time itself.  The     *)
(* program leaves the LCD's own on and off command alone.                  *)
(***************************************************************************)
EXTENDS CrystalFlags

CONSTANTS Masks,     \* what the program writes to port 3
          Periods,   \* the periods it may select by port 4
          LongStep,  \* how long an instruction may take
          Skip,      \* skip_factor of port 3: 8 or 1
          Sources    \* what may hold ON down: mouse, keyboard, virtual link

Bits == {"on", "timer1", "timer2", "power"}

ASSUME InterruptsAssumption ==
  /\ Masks \subseteq SUBSET Bits
  /\ Periods \subseteq Nat \ {0} /\ Periods # {} /\ \A p \in Periods : p % 4 = 0
  /\ LongStep \in Nat \ {0} /\ Skip \in Nat \ {0}

Longest == CHOOSE p \in Periods : \A q \in Periods : p % q = 0

(* The periods divide the longest, and no instruction takes as long. *)
ASSUME LongestAssumption ==
  /\ Longest \in Periods /\ LongStep <= Longest
  /\ \A p \in Periods : Longest % p = 0 /\ p <= Longest

VARIABLES std,   \* STDINT_t
          held,  \* on_pressed: who holds ON down
          lcd,   \* the LCD is active
          halt, iff,
          irq,   \* cpu->interrupt
          turn   \* skip_count of port 3

vars == <<flags, std, held, lcd, halt, iff, irq, turn>>

Std == [age1 : 0 .. 2 * Longest, age2 : -(Longest \div 4) .. 2 * Longest, period : Periods,
        mask : SUBSET Bits, latch : BOOLEAN, backup : BOOLEAN]

TypeOK ==
  /\ flags \in Flags
  /\ std \in Std
  /\ held \subseteq Sources
  /\ lcd \in BOOLEAN /\ halt \in BOOLEAN /\ iff \in BOOLEAN /\ irq \in BOOLEAN
  /\ turn \in 0 .. Skip - 1

Init ==
  /\ flags = FlagsOff
  /\ std = [age1 |-> 0, age2 |-> -(Longest \div 4), period |-> Longest,
            mask |-> {}, latch |-> FALSE, backup |-> FALSE]
  /\ held = {}
  /\ lcd = FALSE /\ halt = FALSE /\ iff = FALSE /\ irq = FALSE
  /\ turn = 0

-----------------------------------------------------------------------------
(* An age beyond two of the longest periods is taken back by one, which no *)
(* comparison with a period and no remainder can tell.                     *)
Fold(a) == IF a > 2 * Longest THEN a - Longest ELSE a

(* Time passes (tc_add). *)
Elapse(s, d) == [s EXCEPT !.age1 = Fold(@ + d), !.age2 = Fold(@ + d)]

Late1(s) == s.age1 > s.period

Late2(s) == s.age2 > s.period \div 2

(* A masked timer keeps ticking: the last check moves up by whole periods. *)
Settled(a, p) == IF a > p THEN 1 + ((a - 1) % p) ELSE a

(* Ages settle also when the timer is not masked. *)
DroppingPort3(s, keys) ==
  [s EXCEPT !.age1   = Settled(@, s.period),
            !.age2   = Settled(@, s.period \div 2),
            !.latch  = @ \/ ("on" \in s.mask /\ keys # {} /\ ~s.backup),
            !.backup = keys # {}]

(* on_backup is set before it is looked at. *)
BlindPort3(s, keys) ==
  [s EXCEPT !.age1   = IF "timer1" \in s.mask THEN @ ELSE Settled(@, s.period),
            !.age2   = IF "timer2" \in s.mask THEN @ ELSE Settled(@, s.period \div 2),
            !.backup = keys # {}]

(* port3, polled or after an input or output of the program *)
Port3(s, keys) ==
  [s EXCEPT !.age1   = IF "timer1" \in s.mask THEN @ ELSE Settled(@, s.period),
            !.age2   = IF "timer2" \in s.mask THEN @ ELSE Settled(@, s.period \div 2),
            !.latch  = @ \/ ("on" \in s.mask /\ keys # {} /\ ~s.backup),
            !.backup = keys # {}]

(* The second timer is forgotten. *)
WrongRequests(s) == ("timer1" \in s.mask /\ Late1(s)) \/ s.latch

(* The end of port3: what asks for an interrupt. *)
Requests(s) ==
  \/ "timer1" \in s.mask /\ Late1(s)
  \/ "timer2" \in s.mask /\ Late2(s)
  \/ s.latch

(* The program writes port 3. *)
Masked(s, m) == [s EXCEPT !.mask = m, !.latch = @ /\ "on" \in m]

(* The program writes port 4. *)
Rated(s, p) == [s EXCEPT !.period = p, !.age2 = s.age1 - p \div 4]

(* A halted processor is interrupted as well. *)
WakingCrystal(g, h) == g.generate

(* The end of handlextal: a crystal timer's request. *)
CrystalAsks(g, h) == g.generate /\ ~h

(***************************************************************************)
(* The end of every step, after the instruction has left the hardware in   *)
(* s, f and on, the processor in h and i, and perhaps already a request.   *)
(***************************************************************************)
Finish(s, f, on, h, i, asked, blocked) ==
  \E g \in Polled(f) :
    LET polled == turn = 0
        t      == IF polled THEN Port3(s, held) ELSE s
        taken  == irq' /\ ~blocked /\ i
    IN  /\ irq' = \/ asked
                  \/ CrystalAsks(g, h)
                  \/ polled /\ Requests(t)
        /\ flags' = g
        /\ std' = t
        /\ lcd' = (on /\ ~(polled /\ h /\ "power" \notin s.mask))
        /\ halt' = (h /\ ~taken)
        /\ iff' = (i /\ ~taken)
        /\ turn' = (turn + 1) % Skip
        /\ held' = held

(* An instruction that takes d. *)
Instruction(d) == ~halt /\ d \in 1 .. LongStep

Other(d) ==
  /\ Instruction(d)
  /\ Finish(Elapse(std, d), flags, lcd, FALSE, iff, FALSE, FALSE)

Wait ==
  /\ halt
  /\ Finish(Elapse(std, 1), flags, lcd, TRUE, iff, FALSE, FALSE)

Halt ==
  /\ Instruction(1)
  /\ Finish(Elapse(std, 1), flags, lcd, TRUE, iff, FALSE, FALSE)

Ei ==
  /\ Instruction(1)
  /\ Finish(Elapse(std, 1), flags, lcd, FALSE, TRUE, FALSE, TRUE)

Di ==
  /\ Instruction(1)
  /\ Finish(Elapse(std, 1), flags, lcd, FALSE, FALSE, FALSE, FALSE)

In3 ==
  /\ Instruction(1)
  /\ LET s == Port3(Elapse(std, 1), held)
     IN  Finish(s, flags, lcd, FALSE, iff, Requests(s), FALSE)

Out3(m) ==
  /\ Instruction(1)
  /\ LET s == Port3(Masked(Elapse(std, 1), m), held)
     IN  Finish(s, flags, lcd \/ ("power" \in m /\ "power" \notin std.mask),
                FALSE, iff, Requests(s), FALSE)

Out4(p) ==
  /\ Instruction(1)
  /\ Finish(Rated(Elapse(std, 1), p), flags, lcd, FALSE, iff, FALSE, FALSE)

Out30(c) ==
  /\ Instruction(1)
  /\ Finish(Elapse(std, 1), ClockWritten(flags, c), lcd, FALSE, iff, FALSE, FALSE)

Out31(i) ==
  /\ Instruction(1)
  /\ Finish(Elapse(std, 1), ModeWritten(flags, i), lcd, FALSE, iff, FALSE, FALSE)

(* handlextal runs before the count is read or written. *)
In32 ==
  /\ Instruction(1)
  /\ \E f \in Polled(flags) :
       Finish(Elapse(std, 1), f, lcd, FALSE, iff, CrystalAsks(f, FALSE), FALSE)

Out32 ==
  /\ Instruction(1)
  /\ \E f \in Polled(flags) :
       Finish(Elapse(std, 1), CountWritten(f), lcd, FALSE, iff, CrystalAsks(f, FALSE), FALSE)

CPU_step ==
  \/ Wait \/ Halt \/ Ei \/ Di \/ In3 \/ In32 \/ Out32
  \/ \E d \in 1 .. LongStep : Other(d)
  \/ \E m \in Masks : Out3(m)
  \/ \E p \in Periods : Out4(p)
  \/ \E x \in BOOLEAN : Out30(x) \/ Out31(x)

-----------------------------------------------------------------------------
Press(k) ==
  /\ held' = held \cup {k}
  /\ UNCHANGED <<flags, std, lcd, halt, iff, irq, turn>>

Release(k) ==
  /\ held' = held \ {k}
  /\ UNCHANGED <<flags, std, lcd, halt, iff, irq, turn>>

(* The user resets the calculator: only the processor is. *)
CPU_reset ==
  /\ halt' = FALSE /\ iff' = FALSE /\ irq' = FALSE
  /\ UNCHANGED <<flags, std, held, lcd, turn>>

Next ==
  \/ CPU_step
  \/ \E k \in Sources : Press(k) \/ Release(k)
  \/ CPU_reset

Spec == Init /\ [][Next]_vars

(* calc_run_all keeps a calculator that is switched on running. *)
FairSpec == Spec /\ WF_vars(CPU_step)

-----------------------------------------------------------------------------
(***************************************************************************)
(* A program that is interrupted finds out by whom: whenever an interrupt  *)
(* is asked for, port 4 shows a cause that the program has enabled.        *)
(***************************************************************************)
CauseShown == irq => Requests(std) \/ flags.underflow

(***************************************************************************)
(* A request of a standard timer or of ON is not dropped while the program *)
(* has interrupts off or does something else: it stays until the program   *)
(* itself masks it, or sets the rate, which starts the second timer anew.  *)
(***************************************************************************)
RequestsKept ==
  [][Requests(std) => \/ Requests(std')
                      \/ \E m \in Masks : Out3(m)
                      \/ \E p \in Periods : Out4(p)]_vars

(* A crystal timer does not wake the processor: only a standard timer, ON  *)
(* or the user does.                                                       *)
OnlyStandardWakes == [][halt /\ ~halt' => Requests(std') \/ CPU_reset]_vars

(* A processor halted with a standard timer enabled wakes up. *)
HaltEnds == halt /\ iff /\ std.mask \cap {"timer1", "timer2"} # {} ~> ~halt

(***************************************************************************)
(* A calculator switched off, which waits for ON with everything else      *)
(* masked, comes back when ON goes down and is not let go of at once.      *)
(***************************************************************************)
OnWakes ==
  halt /\ iff /\ "on" \in std.mask /\ ~std.backup /\ held # {} ~> ~halt \/ held = {}

=============================================================================
