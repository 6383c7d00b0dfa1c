---------------------------- MODULE CrystalTimer ----------------------------
(***************************************************************************)
(* One crystal timer of a TI-83 Plus SE: its clock is chosen by port 30,   *)
(* its mode by 31, its count by 32, and handlextal, polled after every     *)
(* instruction and before every access to port 32, counts the ticks that   *)
(* are due.  Time is counted in ticks of the selected clock.               *)
(*                                                                         *)
(* The crystal's ticks are longer than any instruction, so that the poll   *)
(* after each finds at most one.  The processor's clock, divided by 1 to   *)
(* 64, may tick several times in one instruction.                          *)
(***************************************************************************)
EXTENDS Integers

CONSTANTS Size,      \* the counts a register of 8 bits holds
          Burst,     \* the most ticks of the processor's clock in one step
          MaxWrites  \* bound on the program's writes

ASSUME TimerAssumption ==
  Size \in Nat /\ Size > 1 /\ Burst \in Nat \ {0} /\ MaxWrites \in Nat

Count == 0 .. Size - 1

Timer == [clock     : {"off", "crystal", "cpu"},
          active    : BOOLEAN,
          loop      : BOOLEAN,
          interrupt : BOOLEAN,
          underflow : BOOLEAN,
          generate  : BOOLEAN,
          count     : Count,
          max       : Count]

VARIABLES timer,
          phase,   \* history: ticks since the count was written, modulo max
          missed,  \* history: the timer has expired since then with the
                   \* expiry before not yet acknowledged
          counted, \* history: how many ticks the last poll counted
          writes

timerVars == <<timer, phase, missed, counted, writes>>

TimerTypeOK ==
  /\ timer \in Timer
  /\ phase \in 0 .. Size
  /\ missed \in BOOLEAN /\ counted \in 0 .. Burst /\ writes \in 0 .. MaxWrites

TimerInit ==
  /\ timer = [clock |-> "off", active |-> FALSE, loop |-> FALSE, interrupt |-> FALSE,
              underflow |-> FALSE, generate |-> FALSE, count |-> 0, max |-> 0]
  /\ phase = 0 /\ counted = 0 /\ writes = 0
  /\ missed = FALSE

-----------------------------------------------------------------------------
(* It asks for an interrupt the program has not enabled. *)
AskingExpire(t) ==
  [t EXCEPT !.count     = IF t.underflow THEN @ ELSE t.max,
            !.active    = @ /\ (t.loop \/ t.underflow),
            !.generate  = TRUE,
            !.underflow = TRUE]

(* The count is reloaded, and a timer that does not loop stopped, only if  *)
(* the program has acknowledged the last expiry.                           *)
Expire(t) ==
  [t EXCEPT !.count     = IF t.underflow THEN @ ELSE t.max,
            !.active    = @ /\ (t.loop \/ t.underflow),
            !.generate  = @ \/ t.interrupt,
            !.underflow = TRUE]

(* A count of 0 is not taken for the largest. *)
StuckTick(t) ==
  LET u == [t EXCEPT !.count = @ - 1]
  IN  IF t.count = 0 THEN t ELSE IF u.count = 0 THEN Expire(u) ELSE u

Tick(t) ==
  LET u == [t EXCEPT !.count = (@ - 1) % Size]
  IN  IF u.count = 0 THEN Expire(u) ELSE u

(* A timer that has stopped itself counts no more. *)
HaltingTicks(t, n) ==
  LET after[k \in 0 .. n] ==
        IF k = 0 THEN t ELSE IF after[k - 1].active THEN Tick(after[k - 1]) ELSE after[k - 1]
  IN  after[n]

(* n ticks in a row: a timer that stops itself on the way counts on. *)
Ticks(t, n) ==
  LET after[k \in 0 .. n] == IF k = 0 THEN t ELSE Tick(after[k - 1])
  IN  after[n]

(* One poll counts one tick, as for the crystal. *)
FewCounted(t, n) == IF ~t.active \/ t.clock = "off" \/ n = 0 THEN 0 ELSE 1

(* How many of the n ticks since the last poll count. *)
Counted(t, n) == IF t.active /\ t.clock # "off" THEN n ELSE 0

(* The ticks, of the n a poll counts, at which the timer expires. *)
Expiries(t, n) == {k \in 1 .. n : Ticks(t, k - 1).count = 1}

(* handlextal with the timer as t, n ticks after the last poll *)
handlextal(t, n) ==
  LET c == Counted(t, n)
      e == Expiries(t, c)
  IN  /\ timer' = Ticks(t, c)
      /\ counted' = c
      /\ missed' = (missed \/ (t.underflow /\ e # {}) \/ \E j, k \in e : j # k)

Elapsed == 0 .. (IF timer.clock = "cpu" THEN Burst ELSE 1)

Round(t) == IF t.max = 0 THEN Size ELSE t.max

(* An instruction that does not write to the timer, or a halted step. *)
Step ==
  \E n \in Elapsed :
    /\ handlextal(timer, n)
    /\ phase' = (phase + n) % Round(timer)
    /\ writes' = writes

(* An instruction that does. *)
Access == writes < MaxWrites /\ writes' = writes + 1

port30(c) ==
  /\ Access
  /\ timer' = [timer EXCEPT !.clock = c, !.active = FALSE, !.generate = FALSE]
  /\ counted' = 0
  /\ UNCHANGED <<phase, missed>>

port31(l, i) ==
  /\ Access
  /\ LET t == [timer EXCEPT !.loop = l, !.interrupt = i,
                            !.underflow = FALSE, !.generate = FALSE]
     IN  \E n \in Elapsed : handlextal(t, n) /\ phase' = (phase + n) % Round(t)

(* What is due is counted before the count is written. *)
port32(x) ==
  /\ Access
  /\ \E n \in Elapsed :
       LET t == Ticks(timer, Counted(timer, n))
       IN  timer' = [t EXCEPT !.count = x, !.max = x, !.active = @ \/ t.clock # "off"]
  /\ phase' = 0 /\ counted' = 0
  /\ missed' = FALSE

TimerNext ==
  \/ Step
  \/ \E c \in {"off", "crystal", "cpu"} : port30(c)
  \/ \E l, i \in BOOLEAN : port31(l, i)
  \/ \E x \in Count : port32(x)

TimerSpec == TimerInit /\ [][TimerNext]_timerVars

(* Time passes: the processor of a running calculator steps on, and among  *)
(* its steps there are always some in which the clock ticks.               *)
Ticking == Step /\ (timer.clock # "off" /\ timer.active => counted' > 0)

FairTimerSpec == TimerSpec /\ WF_timerVars(Ticking)

-----------------------------------------------------------------------------
(***************************************************************************)
(* A timer whose expiries the program acknowledges keeps time, however     *)
(* many ticks a poll finds and whether they reach 0 in the middle: its     *)
(* count is what the time since it was written says.                       *)
(***************************************************************************)
NoDrift ==
  timer.active /\ ~missed => (phase + timer.count) % Round(timer) = 0

(***************************************************************************)
(* A timer that stops itself is reloaded and then counts the ticks that    *)
(* the same poll had left: it is at max only when none were.               *)
(***************************************************************************)
StopsPastMax ==
  [][timer.active /\ ~timer'.active /\ timer'.clock = timer.clock /\ counted' > 0 =>
       timer'.count = (timer.max + timer.count - counted') % Size]_timerVars

(* Written with a clock and with interrupts enabled, a timer asks for one. *)
EveryTimerExpires ==
  timer.active /\ timer.interrupt ~> timer.generate \/ ~timer.active \/ ~timer.interrupt

(* What the processor and port 4 see of the timer. *)
Seen == INSTANCE CrystalFlags WITH flags <-
  [clocked |-> timer.clock # "off", active |-> timer.active,
   interrupt |-> timer.interrupt, underflow |-> timer.underflow,
   generate |-> timer.generate]

(* However many ticks a poll counts, the flags change as by one expiry. *)
ImplementsFlags == Seen!FlagsSpec

=============================================================================
