-------------------------- MODULE InterruptsProofs --------------------------
(***************************************************************************)
(* Proofs about Interrupts for any masks, periods, lengths of an           *)
(* instruction, intervals of the poll and sources of ON.                   *)
(*                                                                         *)
(* Every step ends in Finish, so the invariant is proved once for Finish,  *)
(* from what the instruction before it may leave behind.  It adds to the   *)
(* types that a crystal timer asks for an interrupt only with underflow    *)
(* set.                                                                    *)
(*                                                                         *)
(* The second half is about CrystalTimer: it keeps time and implements the *)
(* CrystalFlags that Interrupts EXTENDS.  Ticks is a recursive function,   *)
(* so every fact about a poll of n ticks is proved by induction on n.      *)
(***************************************************************************)
EXTENDS Interrupts, CrystalTimer, NaturalFacts

(* The crystal timer's flags, its request with its cause. *)
Caused(f) == f \in Flags /\ (f.generate => f.underflow)

IInv == TypeOK /\ Caused(flags) /\ CauseShown

-----------------------------------------------------------------------------
LEMMA PeriodFacts ==
  /\ Longest \in Nat \ {0}
  /\ Longest \div 4 \in Nat /\ Longest \div 4 <= Longest
  /\ \A p \in Periods : p \in Nat \ {0} /\ p <= Longest
<1>1. /\ Longest \in Nat \ {0}
      /\ \A p \in Periods : p \in Nat \ {0} /\ p <= Longest
  BY InterruptsAssumption, LongestAssumption
<1> QED
  BY <1>1

LEMMA HalfAndQuarter ==
  ASSUME NEW p \in Periods
  PROVE  /\ p \div 2 \in Nat \ {0} /\ p \div 2 <= Longest
         /\ p \div 4 \in Nat /\ p \div 4 <= Longest \div 4
<1>1. p % 4 = 0
  BY InterruptsAssumption
<1>2. p \in Nat \ {0} /\ p <= Longest /\ Longest \in Nat
  BY PeriodFacts
<1> QED
  BY <1>1, <1>2

LEMMA StepFacts == LongStep \in Nat \ {0} /\ LongStep <= Longest
BY InterruptsAssumption, LongestAssumption

(* What is left of an age after whole periods lies between 1 and a period. *)
LEMMA SettledRange ==
  ASSUME NEW lo \in Int, NEW hi \in Int, NEW a \in lo .. hi, NEW p \in Nat \ {0},
         lo <= 1, p <= hi
  PROVE  Settled(a, p) \in lo .. hi
<1>1. (a - 1) % p \in 0 .. p - 1
  OBVIOUS
<1> QED
  BY <1>1 DEF Settled

LEMMA ElapseType ==
  ASSUME NEW s \in Std, NEW d \in 1 .. LongStep
  PROVE  Elapse(s, d) \in Std
<1> DEFINE q == Longest \div 4
<1>1. q \in Nat /\ Longest \in Nat \ {0} /\ d \in Nat /\ d <= Longest
  BY PeriodFacts, StepFacts
<1>2. s.age1 \in 0 .. 2 * Longest /\ s.age2 \in -q .. 2 * Longest
  BY DEF Std
<1> HIDE DEF q
<1>3. Fold(s.age1 + d) \in 0 .. 2 * Longest /\ Fold(s.age2 + d) \in -q .. 2 * Longest
  BY <1>1, <1>2 DEF Fold
<1> QED
  BY <1>3 DEF Elapse, Std, q

LEMMA Port3Type ==
  ASSUME NEW s \in Std, NEW keys
  PROVE  Port3(s, keys) \in Std
<1>1. s.period \in Nat \ {0} /\ s.period <= Longest
  BY PeriodFacts DEF Std
<1> DEFINE half == s.period \div 2
<1> DEFINE q == Longest \div 4
<1>2. half \in Nat \ {0} /\ half <= Longest /\ q \in Nat /\ Longest \in Nat
  BY PeriodFacts, HalfAndQuarter DEF Std
<1>3. s.age1 \in 0 .. 2 * Longest /\ s.age2 \in -q .. 2 * Longest
  BY DEF Std
<1> HIDE DEF half, q
<1>4. Settled(s.age1, s.period) \in 0 .. 2 * Longest
  <2>1. 0 \in Int /\ 2 * Longest \in Int /\ 0 <= 1 /\ s.period <= 2 * Longest
    BY <1>1, <1>2
  <2> QED
    BY <2>1, <1>1, <1>3, SettledRange
<1>5. Settled(s.age2, half) \in -q .. 2 * Longest
  <2>1. -q \in Int /\ 2 * Longest \in Int /\ -q <= 1 /\ half <= 2 * Longest
    BY <1>2
  <2> QED
    BY <2>1, <1>2, <1>3, SettledRange
<1> QED
  BY <1>4, <1>5 DEF Port3, Std, half, q

LEMMA MaskedType ==
  ASSUME NEW s \in Std, NEW m \in Masks
  PROVE  Masked(s, m) \in Std
BY InterruptsAssumption DEF Masked, Std

LEMMA RatedType ==
  ASSUME NEW s \in Std, NEW p \in Periods
  PROVE  Rated(s, p) \in Std
<1> DEFINE q == Longest \div 4
<1> DEFINE r == p \div 4
<1>1. r \in Nat /\ r <= q /\ q \in Nat /\ Longest \in Nat
  BY PeriodFacts, HalfAndQuarter
<1>2. s.age1 \in 0 .. 2 * Longest
  BY DEF Std
<1> HIDE DEF q, r
<1>3. s.age1 - r \in -q .. 2 * Longest
  BY <1>1, <1>2
<1> QED
  BY <1>3 DEF Rated, Std, q, r

-----------------------------------------------------------------------------
(* Time does not take a request away, nor does the poll. *)
LEMMA ElapseKeeps ==
  ASSUME NEW s \in Std, NEW d \in 1 .. LongStep, Requests(s)
  PROVE  Requests(Elapse(s, d))
BY PeriodFacts DEF Elapse, Std, Fold, Requests, Late1, Late2

LEMMA Port3Keeps ==
  ASSUME NEW s \in Std, NEW keys, Requests(s)
  PROVE  Requests(Port3(s, keys))
BY DEF Port3, Std, Requests, Late1, Late2

-----------------------------------------------------------------------------
LEMMA PolledCaused ==
  ASSUME NEW f, Caused(f), NEW g \in Polled(f)
  PROVE  Caused(g) /\ (f.underflow => g.underflow)
BY DEF Caused, Polled, Expired, Flags

LEMMA WrittenCaused ==
  ASSUME NEW f, Caused(f), NEW x \in BOOLEAN
  PROVE  Caused(ClockWritten(f, x)) /\ Caused(ModeWritten(f, x))
BY DEF Caused, ClockWritten, ModeWritten, Flags

LEMMA CountCaused ==
  ASSUME NEW f, Caused(f)
  PROVE  Caused(CountWritten(f)) /\ CountWritten(f).underflow = f.underflow
BY DEF Caused, CountWritten, Flags

THEOREM InitInv == Init => IInv
<1> SUFFICES ASSUME Init PROVE IInv
  OBVIOUS
<1>1. std \in Std
  <2> DEFINE q == Longest \div 4
  <2>1. q \in Nat /\ Longest \in Nat
    BY PeriodFacts
  <2> HIDE DEF q
  <2>2. 0 \in 0 .. 2 * Longest /\ -q \in -q .. 2 * Longest
    BY <2>1
  <2> QED
    BY <2>2, LongestAssumption DEF Init, Std, q
<1>2. Caused(flags)
  BY DEF Init, Caused, Flags, FlagsOff
<1>3. 0 \in 0 .. Skip - 1
  BY InterruptsAssumption
<1> QED
  BY <1>1, <1>2, <1>3 DEF Init, IInv, TypeOK, CauseShown, Caused

(* A request the instruction itself has raised has its cause before the    *)
(* step ends, and the rest of the step does not take it away.              *)
LEMMA FinishInv ==
  ASSUME IInv, NEW s \in Std, NEW f, Caused(f),
         NEW on \in BOOLEAN, NEW h \in BOOLEAN, NEW i \in BOOLEAN,
         NEW asked \in BOOLEAN, NEW blocked \in BOOLEAN,
         asked => Requests(s) \/ f.underflow,
         Finish(s, f, on, h, i, asked, blocked)
  PROVE  IInv'
<1> DEFINE polled == turn = 0
<1> DEFINE t == IF polled THEN Port3(s, held) ELSE s
<1>1. PICK g \in Polled(f) :
        /\ irq' = (asked \/ CrystalAsks(g, h) \/ (polled /\ Requests(t)))
        /\ flags' = g
        /\ std' = t
        /\ lcd' = (on /\ ~(polled /\ h /\ "power" \notin s.mask))
        /\ halt' = (h /\ ~(irq' /\ ~blocked /\ i))
        /\ iff' = (i /\ ~(irq' /\ ~blocked /\ i))
        /\ turn' = (turn + 1) % Skip
        /\ held' = held
  BY DEF Finish
<1>2. t \in Std
  BY Port3Type
<1>3. Caused(g) /\ (f.underflow => g.underflow)
  BY PolledCaused
<1>4. Requests(s) => Requests(t)
  BY Port3Keeps
<1>5. turn' \in 0 .. Skip - 1
  BY <1>1, InterruptsAssumption DEF IInv, TypeOK
<1> HIDE DEF t, polled
<1>6. irq' => Requests(t) \/ g.underflow
  BY <1>1, <1>3, <1>4 DEF CrystalAsks, Caused
<1>7. irq' \in BOOLEAN /\ lcd' \in BOOLEAN /\ halt' \in BOOLEAN /\ iff' \in BOOLEAN
  BY <1>1
<1> QED
  BY <1>1, <1>2, <1>3, <1>5, <1>6, <1>7 DEF IInv, TypeOK, CauseShown, Caused

LEMMA StepInv ==
  ASSUME IInv, CPU_step
  PROVE  IInv'
<1>1. std \in Std /\ Caused(flags) /\ lcd \in BOOLEAN /\ iff \in BOOLEAN
  BY DEF IInv, TypeOK
<1>2. 1 \in 1 .. LongStep
  BY StepFacts
<1>3. Elapse(std, 1) \in Std
  BY <1>1, <1>2, ElapseType
<1> DEFINE e == Elapse(std, 1)
<1> HIDE DEF e
<1>4. e \in Std
  BY <1>3 DEF e
<1>5. CASE Wait \/ Halt \/ Ei \/ Di
  BY <1>1, <1>4, <1>5, FinishInv DEF Wait, Halt, Ei, Di, e
<1>6. ASSUME NEW d \in 1 .. LongStep, Other(d) PROVE IInv'
  BY <1>1, <1>6, ElapseType, FinishInv DEF Other
<1>7. CASE In3
  <2>1. Port3(e, held) \in Std
    BY <1>4, Port3Type
  <2>2. Requests(Port3(e, held)) \in BOOLEAN
    BY <2>1 DEF Requests, Std
  <2> QED
    BY <1>1, <1>7, <2>1, <2>2, FinishInv DEF In3, e
<1>8. ASSUME NEW m \in Masks, Out3(m) PROVE IInv'
  <2> DEFINE s == Port3(Masked(e, m), held)
  <2> DEFINE on == lcd \/ ("power" \in m /\ "power" \notin std.mask)
  <2>1. s \in Std /\ on \in BOOLEAN
    BY <1>1, <1>4, MaskedType, Port3Type
  <2>2. Requests(s) \in BOOLEAN
    BY <2>1 DEF Requests, Std
  <2>3. Finish(s, flags, on, FALSE, iff, Requests(s), FALSE)
    BY <1>8 DEF Out3, e
  <2> HIDE DEF s, on
  <2> QED
    BY <1>1, <2>1, <2>2, <2>3, FinishInv
<1>9. ASSUME NEW p \in Periods, Out4(p) PROVE IInv'
  BY <1>1, <1>4, <1>9, RatedType, FinishInv DEF Out4, e
<1>10. ASSUME NEW x \in BOOLEAN, Out30(x) \/ Out31(x) PROVE IInv'
  BY <1>1, <1>4, <1>10, WrittenCaused, FinishInv DEF Out30, Out31, e
<1>11. CASE In32
  <2>1. PICK f \in Polled(flags) : Finish(e, f, lcd, FALSE, iff, CrystalAsks(f, FALSE), FALSE)
    BY <1>11 DEF In32, e
  <2>2. Caused(f) /\ CrystalAsks(f, FALSE) \in BOOLEAN
    BY <1>1, PolledCaused DEF CrystalAsks, Caused, Flags
  <2>3. CrystalAsks(f, FALSE) => f.underflow
    BY <2>2 DEF CrystalAsks, Caused
  <2> QED
    BY <1>1, <1>4, <2>1, <2>2, <2>3, FinishInv
<1>12. CASE Out32
  <2>1. PICK f \in Polled(flags) :
          Finish(e, CountWritten(f), lcd, FALSE, iff, CrystalAsks(f, FALSE), FALSE)
    BY <1>12 DEF Out32, e
  <2>2. Caused(f) /\ CrystalAsks(f, FALSE) \in BOOLEAN
    BY <1>1, PolledCaused DEF CrystalAsks, Caused, Flags
  <2>3. Caused(CountWritten(f)) /\ (CrystalAsks(f, FALSE) => CountWritten(f).underflow)
    BY <2>2, CountCaused DEF CrystalAsks, Caused
  <2> QED
    BY <1>1, <1>4, <2>1, <2>2, <2>3, FinishInv
<1> QED
  BY <1>5, <1>6, <1>7, <1>8, <1>9, <1>10, <1>11, <1>12 DEF CPU_step

THEOREM NextInv == IInv /\ [Next]_vars => IInv'
<1> SUFFICES ASSUME IInv, [Next]_vars PROVE IInv'
  OBVIOUS
<1>1. CASE CPU_step
  BY <1>1, StepInv
<1>2. ASSUME NEW k \in Sources, Press(k) \/ Release(k) PROVE IInv'
  BY <1>2 DEF Press, Release, IInv, TypeOK, CauseShown
<1>3. CASE CPU_reset
  BY <1>3 DEF CPU_reset, IInv, TypeOK, CauseShown
<1>4. CASE UNCHANGED vars
  BY <1>4 DEF vars, IInv, TypeOK, CauseShown
<1> QED
  BY <1>1, <1>2, <1>3, <1>4 DEF Next

THEOREM Invariance == Spec => []IInv
BY InitInv, NextInv, PTL DEF Spec

(* No age runs away, however long a timer is masked or late. *)
THEOREM InterruptsTypeCorrect == Spec => []TypeOK
BY Invariance, PTL DEF IInv

(* Whatever a program does, an interrupt is never asked for without port 4 *)
(* showing a cause.                                                        *)
THEOREM EveryCauseShown == Spec => []CauseShown
BY Invariance, PTL DEF IInv

-----------------------------------------------------------------------------
(* The end of a step keeps what was requested before it. *)
LEMMA FinishKeeps ==
  ASSUME NEW s \in Std, NEW f, NEW on, NEW h, NEW i, NEW asked, NEW blocked,
         Requests(s), Finish(s, f, on, h, i, asked, blocked)
  PROVE  Requests(std')
<1>1. std' = s \/ std' = Port3(s, held)
  BY DEF Finish
<1> QED
  BY <1>1, Port3Keeps

LEMMA StepKeeps ==
  ASSUME IInv, Requests(std), CPU_step
  PROVE  \/ Requests(std')
         \/ \E m \in Masks : Out3(m)
         \/ \E p \in Periods : Out4(p)
<1>1. std \in Std /\ 1 \in 1 .. LongStep
  BY StepFacts DEF IInv, TypeOK
<1>2. Elapse(std, 1) \in Std /\ Requests(Elapse(std, 1))
  BY <1>1, ElapseType, ElapseKeeps
<1>3. CASE Wait \/ Halt \/ Ei \/ Di
  BY <1>2, <1>3, FinishKeeps DEF Wait, Halt, Ei, Di
<1>4. ASSUME NEW d \in 1 .. LongStep, Other(d) PROVE Requests(std')
  BY <1>1, <1>4, ElapseType, ElapseKeeps, FinishKeeps DEF Other
<1>5. CASE In3
  BY <1>2, <1>5, Port3Type, Port3Keeps, FinishKeeps DEF In3
<1>6. ASSUME NEW x \in BOOLEAN, Out30(x) \/ Out31(x) PROVE Requests(std')
  BY <1>2, <1>6, FinishKeeps DEF Out30, Out31
<1>7. CASE In32 \/ Out32
  BY <1>2, <1>7, FinishKeeps DEF In32, Out32
<1> QED
  BY <1>3, <1>4, <1>5, <1>6, <1>7 DEF CPU_step

(* Only the program itself takes a request of a standard timer or of ON    *)
(* away, by the mask or the rate it writes.                                *)
THEOREM RequestsAreKept == Spec => RequestsKept
<1>1. IInv /\ [Next]_vars
        => [Requests(std) => \/ Requests(std')
                             \/ \E m \in Masks : Out3(m)
                             \/ \E p \in Periods : Out4(p)]_vars
  <2> SUFFICES ASSUME IInv, Next, Requests(std)
               PROVE  \/ Requests(std')
                      \/ \E m \in Masks : Out3(m)
                      \/ \E p \in Periods : Out4(p)
    OBVIOUS
  <2>1. CASE CPU_step
    BY <2>1, StepKeeps
  <2>2. CASE std' = std
    BY <2>2 DEF Requests, Late1, Late2
  <2> QED
    BY <2>1, <2>2 DEF Next, Press, Release, CPU_reset
<1> QED
  BY <1>1, Invariance, PTL DEF Spec, RequestsKept

(* A halted processor is woken by a standard timer, by ON or by the user's *)
(* reset, never by a crystal timer.                                        *)
THEOREM CrystalsDoNotWake == Spec => OnlyStandardWakes
<1>1. [Next]_vars => [halt /\ ~halt' => Requests(std') \/ CPU_reset]_vars
  <2> SUFFICES ASSUME Next, halt, ~halt', ~CPU_reset PROVE Requests(std')
    OBVIOUS
  <2>1. Wait
    BY DEF Next, CPU_step, Instruction, Halt, Ei, Di, In3, In32, Out32, Other, Out3, Out4,
           Out30, Out31, Press, Release
  <2>2. Finish(Elapse(std, 1), flags, lcd, TRUE, iff, FALSE, FALSE)
    BY <2>1 DEF Wait
  <2> QED
    BY <2>2 DEF Finish, CrystalAsks
<1> QED
  BY <1>1, PTL DEF Spec, OnlyStandardWakes

-----------------------------------------------------------------------------
LEMMA MultipleMoved ==
  ASSUME NEW a \in Int, NEW b \in Nat \ {0}, a % b = 0
  PROVE  (a + b) % b = 0
<1> DEFINE q == a \div b
<1>1. q \in Int /\ a = b * q + 0
  BY QuotientRemainder
<1> HIDE DEF q
<1>2. a + b = b * (q + 1) + 0
  BY <1>1
<1>3. \A s \in Int : (b * s + 0) % b = 0
  BY RemainderUnique
<1> QED
  BY <1>1, <1>2, <1>3

-----------------------------------------------------------------------------
(***************************************************************************)
(* The crystal timer, which Interrupts takes for granted as CrystalFlags.  *)
(***************************************************************************)

(* What the recursive function in Ticks is. *)
IsTicking(f, t, n) ==
  f = [k \in 0 .. n |-> IF k = 0 THEN t ELSE Tick(f[k - 1])]

LEMMA TickingExists ==
  ASSUME NEW t, NEW n \in Nat
  PROVE  \E f : IsTicking(f, t, n)
<1> DEFINE S == {m \in Nat : \E f : IsTicking(f, t, m)}
<1>1. 0 \in S
  <2> DEFINE f == [k \in 0 .. 0 |-> t]
  <2>1. IsTicking(f, t, 0)
    BY DEF IsTicking
  <2> QED
    BY <2>1
<1>2. \A m \in S : m + 1 \in S
  <2> SUFFICES ASSUME NEW m \in S PROVE m + 1 \in S
    OBVIOUS
  <2>1. PICK f : IsTicking(f, t, m)
    OBVIOUS
  <2> DEFINE g == [k \in 0 .. m + 1 |-> IF k <= m THEN f[k] ELSE Tick(f[m])]
  <2>2. \A k \in 0 .. m + 1 : g[k] = IF k = 0 THEN t ELSE Tick(g[k - 1])
    BY <2>1 DEF IsTicking
  <2>3. IsTicking(g, t, m + 1)
    BY <2>2 DEF IsTicking
  <2> QED
    BY <2>3
<1>3. S \subseteq Nat
  OBVIOUS
<1> HIDE DEF S
<1>4. n \in S
  BY <1>1, <1>2, <1>3, SetInduction
<1> QED
  BY <1>4 DEF S

LEMMA TicksIsTicking ==
  ASSUME NEW t, NEW n \in Nat
  PROVE  \E f : IsTicking(f, t, n) /\ Ticks(t, n) = f[n]
<1> DEFINE g == CHOOSE f : IsTicking(f, t, n)
<1>1. IsTicking(g, t, n)
  BY TickingExists
<1>2. Ticks(t, n) = g[n]
  BY DEF Ticks, IsTicking
<1> QED
  BY <1>1, <1>2

(* The first ticks are the same however many follow. *)
LEMMA TickingUnique ==
  ASSUME NEW t, NEW n \in Nat, NEW m \in 0 .. n, NEW f, NEW g,
         IsTicking(f, t, n), IsTicking(g, t, m)
  PROVE  f[m] = g[m]
<1> DEFINE S == {k \in Nat : k <= m => f[k] = g[k]}
<1>1. 0 \in S
  BY DEF IsTicking
<1>2. \A k \in S : k + 1 \in S
  <2> SUFFICES ASSUME NEW k \in S, k + 1 <= m PROVE f[k + 1] = g[k + 1]
    OBVIOUS
  <2>1. f[k + 1] = Tick(f[k]) /\ g[k + 1] = Tick(g[k])
    BY DEF IsTicking
  <2> QED
    BY <2>1
<1>3. S \subseteq Nat
  OBVIOUS
<1> HIDE DEF S
<1>4. m \in S
  BY <1>1, <1>2, <1>3, SetInduction
<1> QED
  BY <1>4 DEF S

(* n ticks are one tick after n - 1. *)
LEMMA TicksOneByOne ==
  ASSUME NEW t
  PROVE  /\ Ticks(t, 0) = t
         /\ \A n \in Nat : Ticks(t, n + 1) = Tick(Ticks(t, n))
<1>1. Ticks(t, 0) = t
  BY TicksIsTicking DEF IsTicking
<1>2. ASSUME NEW n \in Nat
      PROVE  Ticks(t, n + 1) = Tick(Ticks(t, n))
  <2>1. PICK f : IsTicking(f, t, n + 1) /\ Ticks(t, n + 1) = f[n + 1]
    BY TicksIsTicking
  <2>2. PICK g : IsTicking(g, t, n) /\ Ticks(t, n) = g[n]
    BY TicksIsTicking
  <2>3. f[n] = g[n]
    BY <2>1, <2>2, TickingUnique
  <2>4. f[n + 1] = Tick(f[n])
    BY <2>1 DEF IsTicking
  <2> QED
    BY <2>1, <2>2, <2>3, <2>4
<1> QED
  BY <1>1, <1>2

LEMMA TickType ==
  ASSUME NEW t \in Timer
  PROVE  Tick(t) \in Timer
<1> DEFINE u == [t EXCEPT !.count = (@ - 1) % Size]
<1>1. (t.count - 1) % Size \in 0 .. Size - 1
  BY TimerAssumption DEF Timer, Count
<1>2. u \in Timer
  BY <1>1 DEF Timer, Count
<1>3. Expire(u) \in Timer
  BY <1>2 DEF Timer, Expire
<1> QED
  BY <1>2, <1>3 DEF Tick

LEMMA TicksType ==
  ASSUME NEW t \in Timer, NEW n \in Nat
  PROVE  Ticks(t, n) \in Timer
<1> DEFINE S == {k \in Nat : Ticks(t, k) \in Timer}
<1>1. 0 \in S /\ \A k \in S : k + 1 \in S
  BY TicksOneByOne, TickType
<1>2. S \subseteq Nat
  OBVIOUS
<1> HIDE DEF S
<1> QED
  BY <1>1, <1>2, SetInduction DEF S

(* What one tick does: it counts, from 0 to the largest count, and at 1    *)
(* the timer expires.                                                      *)
LEMMA OneTick ==
  ASSUME NEW t \in Timer
  PROVE  LET u == Tick(t)
         IN  /\ u.clock = t.clock /\ u.loop = t.loop /\ u.interrupt = t.interrupt
             /\ u.max = t.max
             /\ t.count # 1 => /\ u.count = IF t.count = 0 THEN Size - 1 ELSE t.count - 1
                               /\ (u.active <=> t.active) /\ (u.underflow <=> t.underflow)
                               /\ (u.generate <=> t.generate)
             /\ t.count = 1 => /\ u.count = IF t.underflow THEN 0 ELSE t.max
                               /\ u.active <=> (t.active /\ (t.loop \/ t.underflow))
                               /\ u.underflow
                               /\ u.generate <=> (t.generate \/ t.interrupt)
<1> DEFINE v == [t EXCEPT !.count = (@ - 1) % Size]
<1> DEFINE c == (t.count - 1) % Size
<1>1. t.count \in 0 .. Size - 1 /\ Size \in Nat /\ Size > 1
  BY TimerAssumption DEF Timer, Count
<1>2. c = IF t.count = 0 THEN Size - 1 ELSE t.count - 1
  BY <1>1
<1>3. v.count = c
  BY DEF Timer
<1> HIDE DEF c
<1>4. CASE t.count = 1
  <2>1. c = 0
    BY <1>1, <1>2, <1>4
  <2>2. Tick(t) = Expire(v)
    BY <1>3, <2>1 DEF Tick
  <2> QED
    BY <1>4, <2>1, <2>2, <1>3 DEF Expire, Timer
<1>5. CASE t.count # 1
  <2>1. c # 0
    BY <1>1, <1>2, <1>5
  <2>2. Tick(t) = v
    BY <1>3, <2>1 DEF Tick
  <2> QED
    BY <1>5, <2>2, <1>2, <1>3 DEF Timer
<1> QED
  BY <1>4, <1>5

Fixed(u, t) ==
  u.clock = t.clock /\ u.loop = t.loop /\ u.interrupt = t.interrupt /\ u.max = t.max

LEMMA TicksKeep ==
  ASSUME NEW t \in Timer, NEW n \in Nat
  PROVE  Fixed(Ticks(t, n), t)
<1> DEFINE S == {k \in Nat : Fixed(Ticks(t, k), t)}
<1>1. 0 \in S
  BY TicksOneByOne DEF Fixed
<1>2. ASSUME NEW k \in S PROVE k + 1 \in S
  <2> DEFINE u == Ticks(t, k)
  <2>1. u \in Timer /\ Fixed(u, t)
    BY TicksType
  <2>2. Ticks(t, k + 1) = Tick(u)
    BY TicksOneByOne
  <2> HIDE DEF u
  <2>3. Fixed(Tick(u), t)
    BY <2>1, OneTick DEF Fixed
  <2> QED
    BY <2>2, <2>3
<1>3. S \subseteq Nat
  OBVIOUS
<1> HIDE DEF S
<1>4. n \in S
  BY <1>1, <1>2, <1>3, SetInduction
<1> QED
  BY <1>4 DEF S

-----------------------------------------------------------------------------
(***************************************************************************)
(* Whatever the number of ticks, the flags of an active timer change as by *)
(* no expiry or by one: a second finds underflow set, stops nothing and    *)
(* asks for nothing new.                                                   *)
(***************************************************************************)
Unexpired(u, t) ==
  u.active /\ (u.underflow <=> t.underflow) /\ (u.generate <=> t.generate)

ExpiredOnce(u, t) ==
  /\ u.underflow /\ (~u.active => ~t.underflow)
  /\ u.generate <=> (t.generate \/ t.interrupt)

LEMMA TickSeen ==
  ASSUME NEW t \in Timer, NEW u \in Timer,
         Fixed(u, t), Unexpired(u, t) \/ ExpiredOnce(u, t)
  PROVE  Unexpired(Tick(u), t) \/ ExpiredOnce(Tick(u), t)
<1> DEFINE v == Tick(u)
<1>1. /\ u.count # 1 => /\ (v.active <=> u.active) /\ (v.underflow <=> u.underflow)
                        /\ (v.generate <=> u.generate)
      /\ u.count = 1 => /\ v.active <=> (u.active /\ (u.loop \/ u.underflow))
                        /\ v.underflow
                        /\ v.generate <=> (u.generate \/ u.interrupt)
  BY OneTick
<1>2. /\ u.interrupt = t.interrupt
      /\ {u.active, u.underflow, u.generate, u.interrupt, u.loop} \subseteq BOOLEAN
      /\ {t.underflow, t.generate, t.interrupt} \subseteq BOOLEAN
  BY DEF Fixed, Timer
<1> SUFFICES Unexpired(v, t) \/ ExpiredOnce(v, t)
  OBVIOUS
<1> HIDE DEF v
<1>3. CASE u.count # 1
  BY <1>1, <1>3 DEF Unexpired, ExpiredOnce
<1>4. CASE u.count = 1
  <2>1. CASE Unexpired(u, t)
    <3>1. (v.generate <=> (t.generate \/ t.interrupt)) /\ v.underflow
      BY <1>1, <1>2, <1>4, <2>1 DEF Unexpired
    <3>2. ~v.active => ~t.underflow
      BY <1>1, <1>4, <2>1 DEF Unexpired
    <3> QED
      BY <3>1, <3>2 DEF ExpiredOnce
  <2>2. CASE ExpiredOnce(u, t)
    <3>1. (v.generate <=> (t.generate \/ t.interrupt)) /\ v.underflow
      BY <1>1, <1>2, <1>4, <2>2 DEF ExpiredOnce
    <3>2. ~v.active => ~t.underflow
      BY <1>1, <1>4, <2>2 DEF ExpiredOnce
    <3> QED
      BY <3>1, <3>2 DEF ExpiredOnce
  <2> QED
    BY <2>1, <2>2
<1> QED
  BY <1>3, <1>4

LEMMA TicksSeen ==
  ASSUME NEW t \in Timer, t.active, NEW n \in Nat
  PROVE  Unexpired(Ticks(t, n), t) \/ ExpiredOnce(Ticks(t, n), t)
<1> DEFINE P(u) == Unexpired(u, t) \/ ExpiredOnce(u, t)
<1> DEFINE S == {k \in Nat : P(Ticks(t, k))}
<1>1. 0 \in S
  BY TicksOneByOne DEF Unexpired
<1>2. ASSUME NEW k \in S PROVE k + 1 \in S
  <2> DEFINE u == Ticks(t, k)
  <2>1. u \in Timer /\ P(u) /\ Fixed(u, t)
    BY TicksType, TicksKeep
  <2>2. Ticks(t, k + 1) = Tick(u)
    BY TicksOneByOne
  <2> HIDE DEF u
  <2>3. P(Tick(u))
    BY <2>1, TickSeen
  <2> QED
    BY <2>2, <2>3
<1>3. S \subseteq Nat
  OBVIOUS
<1> HIDE DEF S
<1>4. n \in S
  BY <1>1, <1>2, <1>3, SetInduction
<1> QED
  BY <1>4 DEF S

-----------------------------------------------------------------------------
LEMMA CountingDown ==
  ASSUME NEW c \in Count
  PROVE  (c - 1) % Size = IF c = 0 THEN Size - 1 ELSE c - 1
BY TimerAssumption DEF Count

(* The count of a timer that keeps time agrees with the ticks p since it   *)
(* was written, and is 0 only where 0 stands for the largest.              *)
Kept(u, p) ==
  (p + u.count) % Round(u) = 0 /\ (u.count = 0 => u.max = 0)

LEMMA RoundType ==
  ASSUME NEW t \in Timer
  PROVE  Round(t) \in Nat \ {0}
BY TimerAssumption DEF Timer, Count, Round

LEMMA TickKept ==
  ASSUME NEW u \in Timer, NEW p \in Nat, Kept(u, p),
         u.count = 1 => ~u.underflow
  PROVE  Kept(Tick(u), p + 1)
<1> DEFINE v == Tick(u)
           r == Round(u)
<1>1. /\ u.count \in 0 .. Size - 1 /\ u.max \in 0 .. Size - 1
      /\ Size \in Nat /\ Size > 1
      /\ r \in Nat \ {0} /\ r = IF u.max = 0 THEN Size ELSE u.max
  BY TimerAssumption DEF Timer, Count, Round
<1>2. Round(v) = r /\ v.max = u.max
  BY OneTick DEF Round
<1>3. v.count = IF u.count = 1 THEN u.max ELSE IF u.count = 0 THEN Size - 1 ELSE u.count - 1
  BY OneTick
<1>4. (p + u.count) % r = 0 /\ (u.count = 0 => u.max = 0)
  BY DEF Kept
<1> SUFFICES (p + 1 + v.count) % r = 0 /\ (v.count = 0 => v.max = 0)
  BY <1>2 DEF Kept
<1> HIDE DEF v, r
<1>5. CASE u.count = 0
  <2>1. p + 1 + v.count = p + r /\ (p + 0) % r = 0 /\ p + 0 = p
    BY <1>1, <1>3, <1>4, <1>5
  <2>2. (p + r) % r = 0
    BY <2>1, <1>1, MultipleMoved
  <2> QED
    BY <2>1, <2>2, <1>1, <1>3, <1>5
<1>6. CASE u.count = 1
  <2>1. v.count = u.max
    BY <1>3, <1>6
  <2>2. (p + 1) % r = 0 /\ p + 1 \in Int
    BY <1>4, <1>6
  <2>3. (p + 1 + r) % r = 0
    BY <2>2, <1>1, MultipleMoved
  <2> QED
    BY <2>1, <2>2, <2>3, <1>1, <1>2
<1>7. CASE u.count # 0 /\ u.count # 1
  <2>1. p + 1 + v.count = p + u.count /\ v.count # 0
    BY <1>1, <1>3, <1>7
  <2> QED
    BY <2>1, <1>4
<1> QED
  BY <1>5, <1>6, <1>7

(* n ticks lose track only if one expiry is not acknowledged at the next. *)
LostTrack(t, n) ==
  LET e == Expiries(t, n)
  IN  (t.underflow /\ e # {}) \/ \E j, k \in e : j # k

LEMMA TicksKept ==
  ASSUME NEW t \in Timer, NEW p \in Nat, Kept(t, p),
         NEW n \in Nat, ~LostTrack(t, n)
  PROVE  Kept(Ticks(t, n), p + n)
<1> DEFINE E(k) == Expiries(t, k)
           S == {k \in Nat : k <= n => /\ Kept(Ticks(t, k), p + k)
                                       /\ Ticks(t, k).underflow =>
                                            t.underflow \/ E(k) # {}}
<1>1. 0 \in S
  <2>1. Ticks(t, 0) = t /\ p + 0 = p
    BY TicksOneByOne
  <2> QED
    BY <2>1
<1>2. ASSUME NEW k \in S PROVE k + 1 \in S
  <2> SUFFICES ASSUME k + 1 <= n
               PROVE  /\ Kept(Ticks(t, k + 1), p + (k + 1))
                      /\ Ticks(t, k + 1).underflow => t.underflow \/ E(k + 1) # {}
    OBVIOUS
  <2> DEFINE u == Ticks(t, k)
  <2>1. u \in Timer
    BY TicksType
  <2>2. Ticks(t, k + 1) = Tick(u)
    BY TicksOneByOne
  <2>3. Kept(u, p + k) /\ (u.underflow => t.underflow \/ E(k) # {})
    OBVIOUS
  <2>4. E(k) \subseteq E(n) /\ E(k) \subseteq E(k + 1) /\ E(k + 1) \subseteq E(n)
    BY DEF Expiries
  <2>5. u.count = 1 => k + 1 \in E(k + 1) /\ k + 1 \notin E(k)
    BY DEF Expiries
  <2>6. ~(t.underflow /\ E(n) # {}) /\ ~\E i, j \in E(n) : i # j
    BY DEF LostTrack
  <2> HIDE DEF u, E
  <2>7. u.count = 1 => ~u.underflow
    BY <2>3, <2>4, <2>5, <2>6
  <2>8. Kept(Tick(u), p + k + 1)
    BY <2>1, <2>3, <2>7, TickKept
  <2>9. Tick(u).underflow => t.underflow \/ E(k + 1) # {}
    BY <2>1, <2>3, <2>4, <2>5, OneTick
  <2> QED
    BY <2>2, <2>8, <2>9
<1>3. S \subseteq Nat
  OBVIOUS
<1> HIDE DEF S
<1>4. n \in S
  BY <1>1, <1>2, <1>3, SetInduction
<1> QED
  BY <1>4 DEF S

(* Where the count of a timer that has stopped itself stands. *)
Past(u, t, k) ==
  \/ u.active /\ (u.loop \/ u.underflow)
  \/ u.active /\ u.count = (t.count - k) % Size
  \/ ~u.active /\ u.underflow /\ u.count = (t.max + t.count - k) % Size

LEMMA TickPast ==
  ASSUME NEW t \in Timer, NEW u \in Timer,
         Fixed(u, t), NEW k \in Nat, Past(u, t, k)
  PROVE  Past(Tick(u), t, k + 1)
<1> DEFINE v == Tick(u)
<1>1. /\ u.count \in 0 .. Size - 1 /\ u.max = t.max /\ t.max \in 0 .. Size - 1
      /\ t.count \in 0 .. Size - 1 /\ Size \in Nat /\ Size > 1
  BY TimerAssumption DEF Timer, Count, Fixed
<1>2. (u.count - 1) % Size = IF u.count = 0 THEN Size - 1 ELSE u.count - 1
  BY <1>1, CountingDown DEF Count
<1>3. /\ v.loop = u.loop
      /\ u.count # 1 => /\ v.count = (u.count - 1) % Size
                        /\ (v.active <=> u.active) /\ (v.underflow <=> u.underflow)
      /\ u.count = 1 => /\ v.count = IF u.underflow THEN (u.count - 1) % Size ELSE t.max
                        /\ v.active <=> (u.active /\ (u.loop \/ u.underflow))
                        /\ v.underflow
  BY <1>1, <1>2, OneTick
<1>4. ASSUME NEW a \in Int, u.count = a % Size
      PROVE  (u.count - 1) % Size = (a - 1) % Size
  BY <1>1, <1>4, RemainderMoved
<1> SUFFICES Past(v, t, k + 1)
  OBVIOUS
<1> HIDE DEF v
<1>5. CASE u.active /\ (u.loop \/ u.underflow)
  BY <1>3, <1>5 DEF Past
<1>6. CASE u.active /\ ~u.loop /\ ~u.underflow /\ u.count = (t.count - k) % Size
  <2>1. (u.count - 1) % Size = (t.count - (k + 1)) % Size
    <3>1. t.count - k \in Int /\ (t.count - k) - 1 = t.count - (k + 1)
      BY <1>1
    <3> QED
      BY <3>1, <1>4, <1>6
  <2>2. CASE u.count # 1
    BY <2>1, <2>2, <1>3, <1>6 DEF Past
  <2>3. CASE u.count = 1
    <3> DEFINE a == t.count - (k + 1)
               q == a \div Size
    <3>1. a \in Int /\ a % Size = 0 /\ t.max + a = t.max + t.count - (k + 1)
      BY <2>1, <2>3, <1>1, <1>2
    <3> HIDE DEF a
    <3>2. q \in Int /\ a = Size * q + 0
      BY <3>1, <1>1, QuotientRemainder
    <3> HIDE DEF q
    <3>3. Size * q + t.max = t.max + a
      BY <3>1, <3>2, <1>1
    <3>4. (Size * q + t.max) % Size = t.max
      BY <3>2, <1>1, RemainderUnique
    <3> QED
      BY <3>1, <3>3, <3>4, <2>3, <1>3, <1>6 DEF Past
  <2> QED
    BY <2>2, <2>3
<1>7. CASE ~u.active /\ u.underflow /\ u.count = (t.max + t.count - k) % Size
  <2>1. (u.count - 1) % Size = (t.max + t.count - (k + 1)) % Size
    <3>1. /\ t.max + t.count - k \in Int
          /\ (t.max + t.count - k) - 1 = t.max + t.count - (k + 1)
      BY <1>1
    <3> QED
      BY <3>1, <1>4, <1>7
  <2> QED
    BY <2>1, <1>3, <1>7 DEF Past
<1> QED
  BY <1>5, <1>6, <1>7 DEF Past

LEMMA TicksPast ==
  ASSUME NEW t \in Timer, t.active, NEW n \in Nat
  PROVE  Past(Ticks(t, n), t, n)
<1> DEFINE S == {k \in Nat : Past(Ticks(t, k), t, k)}
<1>1. 0 \in S
  <2>1. t.count \in 0 .. Size - 1 /\ Size \in Nat /\ Size > 1
    BY TimerAssumption DEF Timer, Count
  <2>2. (t.count - 0) % Size = t.count
    BY <2>1
  <2> QED
    BY <2>2, TicksOneByOne DEF Past
<1>2. ASSUME NEW k \in S PROVE k + 1 \in S
  <2> DEFINE u == Ticks(t, k)
  <2>1. u \in Timer /\ Fixed(u, t) /\ Past(u, t, k)
    BY TicksType, TicksKeep
  <2>2. Ticks(t, k + 1) = Tick(u)
    BY TicksOneByOne
  <2> HIDE DEF u
  <2>3. Past(Tick(u), t, k + 1)
    BY <2>1, TickPast
  <2> QED
    BY <2>2, <2>3
<1>3. S \subseteq Nat
  OBVIOUS
<1> HIDE DEF S
<1>4. n \in S
  BY <1>1, <1>2, <1>3, SetInduction
<1> QED
  BY <1>4 DEF S

-----------------------------------------------------------------------------
(***************************************************************************)
(* The invariant: an active timer has a clock, and as long as no expiry    *)
(* was missed its count agrees with the time.                              *)
(***************************************************************************)
CrystalInv ==
  /\ TimerTypeOK
  /\ timer.active => timer.clock # "off"
  /\ timer.active /\ ~missed => Kept(timer, phase)

LEMMA KeptByElapse ==
  ASSUME NEW t \in Timer, NEW p \in Nat, NEW n \in Nat,
         Kept(t, p + n)
  PROVE  Kept(t, (p + n) % Round(t))
<1> DEFINE r == Round(t)
<1>1. r \in Nat \ {0} /\ t.count \in Int
  BY RoundType, TimerAssumption DEF Timer, Count
<1> DEFINE a == p + n
<1>2. a \in Int
  OBVIOUS
<1>3. (a + t.count) % r = 0 /\ (t.count = 0 => t.max = 0)
  BY DEF Kept
<1> HIDE DEF r, a
<1>4. ((a % r) + t.count) % r = (a + t.count) % r
  BY <1>1, <1>2, RemainderMoved
<1> QED
  BY <1>3, <1>4 DEF Kept, r, a

(* A poll, after the instruction has left the timer as t. *)
LEMMA PollKeeps ==
  ASSUME NEW t \in Timer, phase \in Nat, missed \in BOOLEAN,
         t.active => t.clock # "off",
         t.active /\ ~missed => Kept(t, phase),
         NEW n \in Nat, n <= Burst, handlextal(t, n),
         phase' = (phase + n) % Round(t)
  PROVE  /\ timer' \in Timer /\ counted' \in 0 .. Burst /\ missed' \in BOOLEAN
         /\ phase' \in 0 .. Size
         /\ timer'.active => timer'.clock # "off"
         /\ timer'.active /\ ~missed' => Kept(timer', phase')
<1> DEFINE c == Counted(t, n)
<1>1. c \in Nat /\ c <= n /\ (t.active => c = n) /\ (~t.active => c = 0)
  BY DEF Counted
<1>2. /\ timer' = Ticks(t, c) /\ counted' = c
      /\ missed' = (missed \/ LostTrack(t, c))
  BY DEF handlextal, LostTrack
<1> HIDE DEF c
<1>3. timer' \in Timer /\ Fixed(timer', t)
  BY <1>1, <1>2, TicksType, TicksKeep
<1>4. phase' \in 0 .. Size
  <2>1. Round(t) \in Nat \ {0} /\ Round(t) <= Size /\ Size \in Nat
    BY TimerAssumption DEF Timer, Count, Round
  <2>2. (phase + n) % Round(t) \in 0 .. Round(t) - 1
    BY <2>1
  <2> QED
    BY <2>1, <2>2
<1>5. timer'.active => t.active
  BY <1>1, <1>2, TicksOneByOne
<1>6. timer'.active => timer'.clock # "off"
  BY <1>3, <1>5 DEF Fixed
<1>7. ASSUME timer'.active, ~missed' PROVE Kept(timer', phase')
  <2>1. Kept(t, phase) /\ ~LostTrack(t, c) /\ c = n
    BY <1>1, <1>2, <1>5, <1>7
  <2>2. Kept(timer', phase + n)
    BY <2>1, <1>1, <1>2, TicksKept
  <2>3. Round(timer') = Round(t)
    BY <1>3 DEF Fixed, Round
  <2> QED
    BY <2>2, <2>3, <1>3, KeptByElapse
<1>8. counted' \in 0 .. Burst /\ missed' \in BOOLEAN
  BY <1>1, <1>2, TimerAssumption
<1> QED
  BY <1>3, <1>4, <1>6, <1>7, <1>8

LEMMA ElapsedType ==
  ASSUME NEW n \in Elapsed
  PROVE  n \in Nat /\ n <= Burst
BY TimerAssumption DEF Elapsed

LEMMA CrystalInit == TimerInit => CrystalInv
<1> SUFFICES ASSUME TimerInit PROVE CrystalInv
  OBVIOUS
<1>1. Size \in Nat /\ Size > 1 /\ Burst \in Nat \ {0} /\ MaxWrites \in Nat
  BY TimerAssumption
<1>2. timer \in Timer
  BY <1>1 DEF TimerInit, Timer, Count
<1>3. phase = 0 /\ missed \in BOOLEAN /\ counted = 0 /\ writes = 0 /\ ~timer.active
  BY DEF TimerInit
<1> QED
  BY <1>1, <1>2, <1>3 DEF CrystalInv, TimerTypeOK

LEMMA CrystalNext ==
  CrystalInv /\ [TimerNext]_timerVars => CrystalInv'
<1> SUFFICES ASSUME CrystalInv, [TimerNext]_timerVars
             PROVE  CrystalInv'
  OBVIOUS
<1>1. /\ timer \in Timer /\ phase \in Nat /\ missed \in BOOLEAN
      /\ writes \in 0 .. MaxWrites /\ MaxWrites \in Nat /\ Size \in Nat /\ Size > 1
      /\ Burst \in Nat
      /\ timer.active => timer.clock # "off"
      /\ timer.active /\ ~missed => Kept(timer, phase)
  BY TimerAssumption DEF CrystalInv, TimerTypeOK
<1>2. CASE Step
  <2>1. PICK n \in Elapsed :
          /\ handlextal(timer, n)
          /\ phase' = (phase + n) % Round(timer)
    BY <1>2 DEF Step
  <2>2. n \in Nat /\ n <= Burst
    BY ElapsedType
  <2>3. writes' = writes
    BY <1>2 DEF Step
  <2> QED
    BY <1>1, <2>1, <2>2, <2>3, PollKeeps DEF CrystalInv, TimerTypeOK
<1>3. ASSUME NEW c \in {"off", "crystal", "cpu"}, port30(c) PROVE CrystalInv'
  <2>1. timer' = [timer EXCEPT !.clock = c, !.active = FALSE, !.generate = FALSE]
    BY <1>3 DEF port30
  <2>2. timer' \in Timer /\ ~timer'.active
    BY <1>1, <2>1 DEF Timer
  <2> QED
    BY <1>1, <1>3, <2>2 DEF port30, Access, CrystalInv, TimerTypeOK
<1>4. ASSUME NEW l \in BOOLEAN, NEW i \in BOOLEAN, port31(l, i) PROVE CrystalInv'
  <2> DEFINE t == [timer EXCEPT !.loop = l, !.interrupt = i,
                                !.underflow = FALSE, !.generate = FALSE]
  <2>1. t \in Timer
    BY <1>1 DEF Timer
  <2>2. /\ t.active = timer.active /\ t.clock = timer.clock
        /\ t.count = timer.count /\ t.max = timer.max
    BY <1>1 DEF Timer
  <2>3. PICK n \in Elapsed :
          /\ handlextal(t, n)
          /\ phase' = (phase + n) % Round(t)
    BY <1>4 DEF port31
  <2>4. n \in Nat /\ n <= Burst
    BY ElapsedType
  <2>5. writes' \in 0 .. MaxWrites
    BY <1>1, <1>4 DEF port31, Access
  <2>6. Kept(timer, phase) => Kept(t, phase)
    BY <2>2 DEF Kept, Round
  <2> HIDE DEF t
  <2> QED
    BY <1>1, <2>1, <2>2, <2>3, <2>4, <2>5, <2>6, PollKeeps DEF CrystalInv, TimerTypeOK
<1>5. ASSUME NEW x \in Count, port32(x) PROVE CrystalInv'
  <2>1. PICK n \in Elapsed :
          LET t == Ticks(timer, Counted(timer, n))
          IN  timer' = [t EXCEPT !.count = x, !.max = x, !.active = @ \/ t.clock # "off"]
    BY <1>5 DEF port32
  <2> DEFINE t == Ticks(timer, Counted(timer, n))
  <2>2. n \in Nat
    BY ElapsedType
  <2>3. Counted(timer, n) \in Nat /\ (~timer.active => Counted(timer, n) = 0)
    BY <2>2 DEF Counted
  <2>4. t \in Timer /\ Fixed(t, timer)
    BY <2>3, <1>1, TicksType, TicksKeep
  <2>5. t.active => timer.active
    BY <2>3, TicksOneByOne
  <2>6. timer' = [t EXCEPT !.count = x, !.max = x, !.active = @ \/ t.clock # "off"]
    BY <2>1
  <2> HIDE DEF t
  <2>7. timer' \in Timer
    BY <2>4, <2>6 DEF Timer
  <2>8. timer'.count = x /\ timer'.max = x /\ timer'.clock = t.clock
    BY <2>4, <2>6 DEF Timer
  <2>9. timer'.active => timer'.clock # "off"
    <3>1. timer'.active => t.active \/ t.clock # "off"
      BY <2>4, <2>6 DEF Timer
    <3> QED
      BY <3>1, <2>4, <2>5, <2>8, <1>1 DEF Fixed
  <2>10. Kept(timer', 0)
    <3>1. x \in 0 .. Size - 1
      BY DEF Count
    <3>2. 0 + x = x /\ x % (IF x = 0 THEN Size ELSE x) = 0
      <4>1. CASE x = 0
        BY <4>1, <1>1
      <4>2. CASE x # 0
        <5>1. x \in Nat \ {0} /\ x = x * 1 + 0
          BY <3>1, <4>2
        <5>2. (x * 1 + 0) % x = 0
          BY <5>1, RemainderUnique
        <5> QED
          BY <5>1, <5>2, <4>2
      <4> QED
        BY <4>1, <4>2, <3>1
    <3> QED
      BY <3>2, <2>8 DEF Kept, Round
  <2>11. phase' = 0 /\ counted' = 0 /\ missed' \in BOOLEAN /\ writes' \in 0 .. MaxWrites
    <3>1. missed' \in BOOLEAN
      BY <1>5, Zenon DEF port32
    <3> QED
      BY <3>1, <1>1, <1>5 DEF port32, Access
  <2>12. TimerTypeOK'
    BY <1>1, <2>7, <2>11 DEF TimerTypeOK
  <2>13. Kept(timer', phase')
    BY <2>10, <2>11
  <2> QED
    BY <2>9, <2>12, <2>13 DEF CrystalInv
<1>6. CASE UNCHANGED timerVars
  BY <1>6 DEF timerVars, CrystalInv, TimerTypeOK, Kept, Round
<1> QED
  BY <1>2, <1>3, <1>4, <1>5, <1>6 DEF TimerNext

(***************************************************************************)
(* A crystal timer whose expiries are acknowledged keeps time.             *)
(***************************************************************************)
THEOREM CrystalKeepsTime ==
  TimerSpec => []NoDrift
<1>1. CrystalInv => NoDrift
  BY DEF CrystalInv, NoDrift, Kept
<1> QED
  BY <1>1, CrystalInit, CrystalNext, PTL DEF TimerSpec

(***************************************************************************)
(* A timer that stops itself counts on for the rest of the poll.           *)
(***************************************************************************)
LEMMA PollStops ==
  ASSUME NEW t \in Timer, t.active, NEW n \in Nat,
         handlextal(t, n), ~timer'.active
  PROVE  timer'.count = (t.max + t.count - counted') % Size
<1> DEFINE c == Counted(t, n)
<1>1. c \in Nat /\ timer' = Ticks(t, c) /\ counted' = c
  BY DEF Counted, handlextal
<1> HIDE DEF c
<1> QED
  BY <1>1, TicksPast DEF Past

LEMMA StopsStep ==
  ASSUME CrystalInv, TimerNext,
         timer.active, ~timer'.active, timer'.clock = timer.clock, counted' > 0
  PROVE  timer'.count = (timer.max + timer.count - counted') % Size
<1>1. timer \in Timer
  BY DEF CrystalInv, TimerTypeOK
<1>2. CASE Step
  <2>1. PICK n \in Elapsed : handlextal(timer, n)
    BY <1>2 DEF Step
  <2> QED
    BY <1>1, <2>1, ElapsedType, PollStops
<1>3. ASSUME NEW c \in {"off", "crystal", "cpu"}, port30(c) PROVE FALSE
  BY <1>3 DEF port30
<1>4. ASSUME NEW l \in BOOLEAN, NEW i \in BOOLEAN, port31(l, i)
      PROVE  timer'.count = (timer.max + timer.count - counted') % Size
  <2> DEFINE t == [timer EXCEPT !.loop = l, !.interrupt = i,
                                !.underflow = FALSE, !.generate = FALSE]
  <2>1. /\ t \in Timer
        /\ t.active = timer.active /\ t.count = timer.count /\ t.max = timer.max
    BY <1>1 DEF Timer
  <2>2. PICK n \in Elapsed : handlextal(t, n)
    BY <1>4 DEF port31
  <2> HIDE DEF t
  <2> QED
    BY <2>1, <2>2, ElapsedType, PollStops
<1>5. ASSUME NEW x \in Count, port32(x) PROVE FALSE
  BY <1>5 DEF port32
<1> QED
  BY <1>2, <1>3, <1>4, <1>5 DEF TimerNext

THEOREM CrystalStopsPastMax ==
  TimerSpec => StopsPastMax
<1>1. CrystalInv /\ [TimerNext]_timerVars =>
        [timer.active /\ ~timer'.active /\ timer'.clock = timer.clock /\ counted' > 0 =>
           timer'.count = (timer.max + timer.count - counted') % Size]_timerVars
  BY StopsStep
<1> QED
  BY <1>1, CrystalInit, CrystalNext, PTL DEF TimerSpec, StopsPastMax

-----------------------------------------------------------------------------
(***************************************************************************)
(* The refinement: what CrystalFlags leaves open is what the timer does.   *)
(***************************************************************************)
See(t) ==
  [clocked |-> t.clock # "off", active |-> t.active, interrupt |-> t.interrupt,
   underflow |-> t.underflow, generate |-> t.generate]

LEMMA SeeType ==
  ASSUME NEW t \in Timer
  PROVE  See(t) \in Seen!Flags
BY DEF See, Timer, Seen!Flags

LEMMA SameFlags ==
  ASSUME NEW f \in Seen!Flags, NEW g \in Seen!Flags,
         f.clocked <=> g.clocked, f.active <=> g.active, f.interrupt <=> g.interrupt,
         f.underflow <=> g.underflow, f.generate <=> g.generate
  PROVE  f = g
<1>1. /\ f.clocked = g.clocked /\ f.active = g.active /\ f.interrupt = g.interrupt
      /\ f.underflow = g.underflow /\ f.generate = g.generate
  BY DEF Seen!Flags
<1> QED
  BY <1>1 DEF Seen!Flags

LEMMA ExpiredFlags ==
  ASSUME NEW f \in Seen!Flags, NEW stop \in BOOLEAN
  PROVE  LET e == Seen!Expired(f, stop)
         IN  /\ e \in Seen!Flags
             /\ e.clocked <=> f.clocked
             /\ e.active <=> ~stop
             /\ e.interrupt <=> f.interrupt
             /\ e.underflow
             /\ e.generate <=> (f.generate \/ f.interrupt)
BY DEF Seen!Flags, Seen!Expired

LEMMA PollSeen ==
  ASSUME NEW t \in Timer, NEW n \in Nat
  PROVE  See(Ticks(t, Counted(t, n))) \in Seen!Polled(See(t))
<1> DEFINE u == Ticks(t, Counted(t, n))
<1>1. Counted(t, n) \in Nat /\ (~t.active => Counted(t, n) = 0)
  BY DEF Counted
<1>2. u \in Timer /\ Fixed(u, t)
  BY <1>1, TicksType, TicksKeep
<1>3. ~t.active => u = t
  BY <1>1, TicksOneByOne
<1>4. t.active => Unexpired(u, t) \/ ExpiredOnce(u, t)
  BY <1>1, TicksSeen
<1> SUFFICES See(u) \in Seen!Polled(See(t))
  OBVIOUS
<1> HIDE DEF u
<1>5. CASE u = t
  BY <1>5 DEF Seen!Polled
<1>6. CASE t.active /\ Unexpired(u, t)
  <2>1. u.active = t.active /\ u.underflow = t.underflow /\ u.generate = t.generate
    BY <1>2, <1>6 DEF Unexpired, Timer
  <2>2. See(u) = See(t)
    BY <1>2, <2>1 DEF Fixed, See
  <2> QED
    BY <2>2 DEF Seen!Polled
<1>7. CASE t.active /\ ExpiredOnce(u, t)
  <2> DEFINE stop == ~u.active
             e == Seen!Expired(See(t), stop)
  <2>1. stop \in BOOLEAN /\ stop \in {s \in BOOLEAN : See(t).active /\ (s => ~See(t).underflow)}
    BY <1>2, <1>7 DEF ExpiredOnce, See, Timer
  <2>2. /\ e \in Seen!Flags /\ See(t) \in Seen!Flags
        /\ See(u) \in Seen!Flags
        /\ e.clocked <=> See(t).clocked
        /\ e.active <=> u.active
        /\ e.interrupt <=> See(t).interrupt
        /\ e.underflow
        /\ e.generate <=> (See(t).generate \/ See(t).interrupt)
    BY <1>2, <2>1, SeeType, ExpiredFlags
  <2> HIDE DEF stop, e
  <2>3. /\ See(u).clocked <=> e.clocked
        /\ See(u).active <=> e.active
        /\ See(u).interrupt <=> e.interrupt
        /\ See(u).underflow <=> e.underflow
        /\ See(u).generate <=> e.generate
    BY <1>2, <1>7, <2>2 DEF ExpiredOnce, Fixed, See, Timer
  <2>4. See(u) = e
    BY <2>2, <2>3, SameFlags
  <2> QED
    BY <2>1, <2>4 DEF Seen!Polled, e
<1> QED
  BY <1>3, <1>4, <1>5, <1>6, <1>7

LEMMA StepSeen ==
  ASSUME CrystalInv, TimerNext
  PROVE  LET f == See(timer)
             g == See(timer')
         IN  \/ \E c \in BOOLEAN : g = Seen!ClockWritten(f, c)
             \/ \E i \in BOOLEAN : g \in Seen!Polled(Seen!ModeWritten(f, i))
             \/ \E h \in Seen!Polled(f) : g = Seen!CountWritten(h)
             \/ g \in Seen!Polled(f)
<1>1. timer \in Timer
  BY DEF CrystalInv, TimerTypeOK
<1>2. CASE Step
  <2>1. PICK n \in Elapsed : handlextal(timer, n)
    BY <1>2 DEF Step
  <2>2. timer' = Ticks(timer, Counted(timer, n)) /\ n \in Nat
    BY <2>1, ElapsedType DEF handlextal
  <2> QED
    BY <1>1, <2>2, PollSeen
<1>3. ASSUME NEW c \in {"off", "crystal", "cpu"}, port30(c)
      PROVE  \E b \in BOOLEAN : See(timer') = Seen!ClockWritten(See(timer), b)
  <2> DEFINE b == c # "off"
             g == Seen!ClockWritten(See(timer), b)
  <2>1. timer' = [timer EXCEPT !.clock = c, !.active = FALSE, !.generate = FALSE]
    BY <1>3 DEF port30
  <2>2. timer' \in Timer
    BY <1>1, <2>1 DEF Timer
  <2>3. /\ g \in Seen!Flags /\ (g.clocked <=> b) /\ ~g.active
        /\ (g.interrupt <=> See(timer).interrupt)
        /\ (g.underflow <=> See(timer).underflow) /\ ~g.generate
    BY <1>1, SeeType DEF Seen!ClockWritten, Seen!Flags
  <2> HIDE DEF g
  <2>4. /\ (See(timer').clocked <=> b) /\ ~See(timer').active
        /\ (See(timer').interrupt <=> See(timer).interrupt)
        /\ (See(timer').underflow <=> See(timer).underflow) /\ ~See(timer').generate
    BY <1>1, <2>1 DEF See, Timer
  <2>5. See(timer') = g
    BY <2>2, <2>3, <2>4, SeeType, SameFlags
  <2> QED
    BY <2>5 DEF g
<1>4. ASSUME NEW l \in BOOLEAN, NEW i \in BOOLEAN, port31(l, i)
      PROVE  See(timer') \in Seen!Polled(Seen!ModeWritten(See(timer), i))
  <2> DEFINE t == [timer EXCEPT !.loop = l, !.interrupt = i,
                                !.underflow = FALSE, !.generate = FALSE]
             g == Seen!ModeWritten(See(timer), i)
  <2>1. t \in Timer
    BY <1>1 DEF Timer
  <2>2. PICK n \in Elapsed : handlextal(t, n)
    BY <1>4 DEF port31
  <2>3. timer' = Ticks(t, Counted(t, n)) /\ n \in Nat
    BY <2>2, ElapsedType DEF handlextal
  <2>4. See(timer') \in Seen!Polled(See(t))
    BY <2>1, <2>3, PollSeen
  <2>5. /\ g \in Seen!Flags /\ (g.clocked <=> See(timer).clocked)
        /\ (g.active <=> See(timer).active) /\ (g.interrupt <=> i)
        /\ ~g.underflow /\ ~g.generate
    BY <1>1, SeeType DEF Seen!ModeWritten, Seen!Flags
  <2>6. /\ (See(t).clocked <=> See(timer).clocked)
        /\ (See(t).active <=> See(timer).active) /\ (See(t).interrupt <=> i)
        /\ ~See(t).underflow /\ ~See(t).generate
    BY <1>1 DEF See, Timer
  <2> HIDE DEF g, t
  <2>7. See(t) = g
    BY <2>1, <2>5, <2>6, SeeType, SameFlags
  <2> QED
    BY <2>4, <2>7 DEF g
<1>5. ASSUME NEW x \in Count, port32(x)
      PROVE  \E h \in Seen!Polled(See(timer)) :
               See(timer') = Seen!CountWritten(h)
  <2>1. PICK n \in Elapsed :
          LET t == Ticks(timer, Counted(timer, n))
          IN  timer' = [t EXCEPT !.count = x, !.max = x, !.active = @ \/ t.clock # "off"]
    BY <1>5 DEF port32
  <2> DEFINE t == Ticks(timer, Counted(timer, n))
             g == Seen!CountWritten(See(t))
  <2>2. n \in Nat /\ Counted(timer, n) \in Nat
    BY ElapsedType DEF Counted
  <2>3. t \in Timer /\ See(t) \in Seen!Polled(See(timer))
    BY <2>2, <1>1, TicksType, PollSeen
  <2>4. timer' = [t EXCEPT !.count = x, !.max = x, !.active = @ \/ t.clock # "off"]
    BY <2>1
  <2> HIDE DEF t
  <2>5. timer' \in Timer
    BY <2>3, <2>4 DEF Timer
  <2>6. /\ g \in Seen!Flags /\ (g.clocked <=> See(t).clocked)
        /\ (g.active <=> See(t).active \/ See(t).clocked)
        /\ (g.interrupt <=> See(t).interrupt)
        /\ (g.underflow <=> See(t).underflow) /\ (g.generate <=> See(t).generate)
    BY <2>3, SeeType DEF Seen!CountWritten, Seen!Flags
  <2>7. /\ (See(timer').clocked <=> See(t).clocked)
        /\ (See(timer').active <=> See(t).active \/ See(t).clocked)
        /\ (See(timer').interrupt <=> See(t).interrupt)
        /\ (See(timer').underflow <=> See(t).underflow)
        /\ (See(timer').generate <=> See(t).generate)
    BY <2>3, <2>4 DEF See, Timer
  <2> HIDE DEF g
  <2>8. See(timer') = g
    BY <2>5, <2>6, <2>7, SeeType, SameFlags
  <2> QED
    BY <2>3, <2>8 DEF g
<1> QED
  BY <1>2, <1>3, <1>4, <1>5 DEF TimerNext

(***************************************************************************)
(* CrystalTimer implements CrystalFlags, which Interrupts builds upon.     *)
(***************************************************************************)
THEOREM CrystalRefinesFlags ==
  TimerSpec => ImplementsFlags
<1> DEFINE f == See(timer)
           A == \/ Seen!WriteClock \/ Seen!WriteMode
                \/ Seen!WriteCount \/ Seen!Poll
<1>1. TimerInit => f = Seen!FlagsOff
  <2> SUFFICES ASSUME TimerInit PROVE f = Seen!FlagsOff
    OBVIOUS
  <2>1. timer \in Timer
    BY CrystalInit DEF CrystalInv, TimerTypeOK
  <2>2. /\ timer.clock = "off" /\ ~timer.active /\ ~timer.interrupt
        /\ ~timer.underflow /\ ~timer.generate
    BY DEF TimerInit
  <2>3. Seen!FlagsOff \in Seen!Flags
    BY DEF Seen!FlagsOff, Seen!Flags
  <2> QED
    BY <2>1, <2>2, <2>3, SeeType, SameFlags DEF See, Seen!FlagsOff
<1>2. CrystalInv /\ [TimerNext]_timerVars => [A]_f
  <2> SUFFICES ASSUME CrystalInv, [TimerNext]_timerVars PROVE [A]_f
    OBVIOUS
  <2>1. CASE TimerNext
    BY <2>1, StepSeen DEF See, Seen!WriteClock, Seen!WriteMode,
       Seen!WriteCount, Seen!Poll
  <2>2. CASE UNCHANGED timerVars
    BY <2>2 DEF timerVars, See
  <2> QED
    BY <2>1, <2>2
<1> QED
  BY <1>1, <1>2, CrystalInit, CrystalNext, PTL
  DEF TimerSpec, ImplementsFlags, Seen!FlagsSpec, See

=============================================================================
