------------------------------ MODULE AppProofs ------------------------------
(***************************************************************************)
(* The proofs about what the two applications keep and show: WabbitEmu's   *)
(* displays (Lcd), for any operands, words and number of steps, and the    *)
(* slots of its calculators (CalcSlots), for any number of slots and any   *)
(* windows; and what WabbitCode knows of a source file (SourceScanner),    *)
(* for any number of edits.                                                *)
(***************************************************************************)
EXTENDS Lcd, CalcSlots, SourceScanner, TLAPS

(***************************************************************************)
(* Lcd.                                                                    *)
(*                                                                         *)
(* While the program has only written words that lie in their rows, every  *)
(* word it has written is a stretch of the display of its own: the bits of *)
(* word y of row x are those from 128 * x + word_len * y, wherever the     *)
(* bytes begin (PlaceIsPacked).  So a write leaves the others alone.       *)
(***************************************************************************)
USE DEF Height, MemWidth

Cell == (0 .. 63) \X (0 .. 31)

Types ==
  /\ word_len \in {6, 8} /\ cursor_mode \in Modes
  /\ x \in -63 .. 63 /\ y \in 0 .. 31

(* What is drawn lies in its row. *)
InRows ==
  ~odd => \A c \in DOMAIN drawn :
            /\ c \in Cell
            /\ c[2] * word_len + word_len <= 128

LcdInv == Types /\ InRows /\ WordsKept /\ (outside => ~InDisplay)

-----------------------------------------------------------------------------
(* Where a 6-bit word begins: in which byte and where in it. *)
LEMMA SixBits ==
  ASSUME NEW c \in 0 .. 31
  PROVE  /\ (6 * c) \div 8 \in 0 .. 23 /\ (6 * c) % 8 \in 0 .. 7
         /\ 8 * ((6 * c) \div 8) + ((6 * c) % 8) = 6 * c
         /\ (6 * c) % 8 <= 6
         /\ ((6 * c) \div 8) % 16 \in 0 .. 15
         /\ (6 * c) \div 8 <= 15 => ((6 * c) \div 8) % 16 = (6 * c) \div 8
         /\ ((6 * c) \div 8) % 16 = 15 => c \in {20, 21}
<1>1. (6 * c) \div 8 \in Nat /\ (6 * c) % 8 \in 0 .. 7
  OBVIOUS
<1>2. 8 * ((6 * c) \div 8) + ((6 * c) % 8) = 6 * c
  OBVIOUS
<1>3. (6 * c) \div 8 <= 23 /\ (6 * c) % 8 <= 6
  BY <1>1, <1>2
<1> DEFINE b == (6 * c) \div 8
<1>4. b \in 0 .. 23
  BY <1>1, <1>3
<1>5. b = 15 => c \in {20, 21}
  BY <1>1, <1>2
<1> HIDE DEF b
<1>6. b % 16 = IF b <= 15 THEN b ELSE b - 16
  BY <1>4
<1>7. b % 16 = 15 => b = 15
  BY <1>4, <1>6
<1> QED
  BY <1>1, <1>2, <1>3, <1>4, <1>5, <1>6, <1>7 DEF b

(* A row is 128 bits, and the cursor is at the first of one of its bytes. *)
LEMMA CursorRange ==
  ASSUME Types, NEW r \in Int, NEW c \in 0 .. 31
  PROVE  /\ Cursor(r, c) \in Int
         /\ Cursor(r, c) >= 128 * r /\ Cursor(r, c) <= 128 * r + 120
         /\ word_len = 6 /\ c \notin {20, 21} => Cursor(r, c) <= 128 * r + 112
<1>1. CASE word_len = 8
  <2> DEFINE b == c % 16
  <2>1. b \in 0 .. 15
    OBVIOUS
  <2>2. Cursor(r, c) = 8 * (r * 16 + b)
    BY <1>1 DEF Cursor
  <2> HIDE DEF b
  <2> QED
    BY <2>1, <2>2, <1>1
<1>2. CASE word_len = 6
  <2> DEFINE b == ((6 * c) \div 8) % 16
  <2>1. b \in 0 .. 15 /\ (b = 15 => c \in {20, 21})
    BY SixBits
  <2>2. Cursor(r, c) = 8 * (r * 16 + b)
    BY <1>2 DEF Cursor
  <2> HIDE DEF b
  <2> QED
    BY <2>1, <2>2
<1> QED
  BY <1>1, <1>2 DEF Types

(* The words of a row follow each other, whatever bytes they are in. *)
LEMMA PlaceIsPacked ==
  ASSUME Types, NEW r \in Int, NEW c \in 0 .. 31, c * word_len + word_len <= 128,
         NEW i \in 0 .. word_len - 1
  PROVE  /\ Place(r, c, i) = 128 * r + word_len * c + word_len - 1 - i
         /\ Place(r, c, i) \in Touched(r, c)
<1>1. CASE word_len = 8
  <2>1. c \in 0 .. 15 /\ c % 16 = c
    BY <1>1
  <2>2. Cursor(r, c) = 8 * (r * 16 + c)
    BY <1>1, <2>1 DEF Cursor
  <2>3. Place(r, c, i) = 8 * (r * 16 + c) + 7 - i
    BY <1>1, <2>2 DEF Place, Indent
  <2>4. Touched(r, c) = 8 * (r * 16 + c) .. 8 * (r * 16 + c) + 7
    BY <1>1, <2>2 DEF Touched
  <2> QED
    BY <1>1, <2>1, <2>3, <2>4
<1>2. CASE word_len = 6
  <2> DEFINE b == (6 * c) \div 8
             s == (6 * c) % 8
  <2>1. b \in 0 .. 15 /\ s \in 0 .. 6 /\ 8 * b + s = 6 * c /\ b % 16 = b
    <3>1. 6 * c <= 122
      BY <1>2
    <3>2. b \in 0 .. 23 /\ s \in 0 .. 7 /\ s <= 6 /\ 8 * b + s = 6 * c /\ (b <= 15 => b % 16 = b)
      BY SixBits
    <3> HIDE DEF b, s
    <3>3. b <= 15
      BY <3>1, <3>2
    <3> QED
      BY <3>2, <3>3
  <2>2. Cursor(r, c) = 8 * (r * 16 + b)
    BY <1>2, <2>1 DEF Cursor
  <2>3. Place(r, c, i) = 8 * (r * 16 + b) + s + 5 - i
    BY <1>2, <2>2 DEF Place, Indent
  <2>4. Touched(r, c) = 8 * (r * 16 + b) .. 8 * (r * 16 + b) + 15
    BY <1>2, <2>2 DEF Touched
  <2> HIDE DEF b, s
  <2> QED
    BY <1>2, <2>1, <2>3, <2>4
<1> QED
  BY <1>1, <1>2 DEF Types

(* What is read and written is in the display but at the two known places. *)
LEMMA DisplayBounds ==
  ASSUME Types
  PROVE  /\ InDisplay => x >= 0
         /\ ~InDisplay => x < 0 \/ (x = 63 /\ word_len = 6 /\ y \in {20, 21})
<1> DEFINE k == Cursor(x, y)
<1>1. /\ k \in Int /\ k >= 128 * x /\ k <= 128 * x + 120
      /\ word_len = 6 /\ y \notin {20, 21} => k <= 128 * x + 112
  <2>1. x \in Int /\ y \in 0 .. 31
    BY DEF Types
  <2> QED
    BY <2>1, CursorRange
<1>2. InDisplay <=> (k .. k + (IF word_len = 8 THEN 7 ELSE 15)) \subseteq 0 .. 8191
  BY DEF InDisplay, Touched
<1> HIDE DEF k
<1>3. InDisplay => x >= 0
  BY <1>1, <1>2 DEF Types
<1>4. ASSUME x >= 0, ~(x = 63 /\ word_len = 6 /\ y \in {20, 21}) PROVE InDisplay
  <2>1. k >= 0
    BY <1>1, <1>4 DEF Types
  <2>2. k + (IF word_len = 8 THEN 7 ELSE 15) <= 8191
    BY <1>1, <1>4 DEF Types
  <2> QED
    BY <1>1, <1>2, <2>1, <2>2
<1> QED
  BY <1>3, <1>4 DEF Types

(* The cursor moves to a word of the same display or above the first row. *)
LEMMA AdvanceTypes ==
  ASSUME Types, x >= 0, LCD_advance_cursor, UNCHANGED <<word_len, cursor_mode>>
  PROVE  Types'
<1>1. x \in 0 .. 63 /\ y \in 0 .. 31
  BY DEF Types
<1>2. Remainder(x + 1, 64) \in -63 .. 63 /\ Remainder(x - 1, 64) \in -63 .. 63
  BY <1>1 DEF Remainder
<1>3. x' \in -63 .. 63 /\ y' \in 0 .. 31
  <2>1. CASE cursor_mode = "X_UP"
    BY <2>1, <1>1, <1>2 DEF LCD_advance_cursor
  <2>2. CASE cursor_mode = "X_DOWN"
    BY <2>2, <1>1, <1>2 DEF LCD_advance_cursor
  <2>3. CASE cursor_mode = "Y_UP"
    BY <2>3, <1>1 DEF LCD_advance_cursor
  <2>4. CASE cursor_mode = "Y_DOWN"
    BY <2>4, <1>1 DEF LCD_advance_cursor
  <2> QED
    BY <2>1, <2>2, <2>3, <2>4 DEF Types, Modes
<1> QED
  BY <1>3 DEF Types

-----------------------------------------------------------------------------
THEOREM LcdInitInv == LcdInit => LcdInv
<1> SUFFICES ASSUME LcdInit PROVE LcdInv
  OBVIOUS
<1>1. Types
  BY DEF LcdInit, Types, Modes
<1>2. DOMAIN drawn = {}
  BY DEF LcdInit
<1> QED
  BY <1>1, <1>2 DEF LcdInit, LcdInv, InRows, WordsKept

(* A write changes its own word and no other that lies in its row. *)
LEMMA WriteInv ==
  ASSUME LcdInv, NEW bus \in Values, ~outside, Write(bus)
  PROVE  LcdInv'
<1>1. /\ InDisplay /\ display' = Written(x, y, bus)
      /\ drawn' = [c \in DOMAIN drawn \cup {<<x, y>>} |-> IF c = <<x, y>> THEN bus ELSE drawn[c]]
      /\ odd' = (odd \/ ~Regular(bus))
      /\ LCD_advance_cursor
      /\ UNCHANGED <<word_len, cursor_mode, last_read, outside>>
  BY DEF Write
<1>2. Types /\ x \in 0 .. 63 /\ y \in 0 .. 31
  BY <1>1, DisplayBounds DEF LcdInv, Types
<1>3. Types'
  BY <1>1, <1>2, AdvanceTypes
<1>4. ASSUME ~odd'
      PROVE  /\ ~odd /\ bus \subseteq 0 .. word_len - 1
             /\ y * word_len + word_len <= 128
             /\ \A c \in DOMAIN drawn : c \in Cell /\ c[2] * word_len + word_len <= 128
  <2>1. ~odd /\ Regular(bus)
    BY <1>1, <1>4, Zenon
  <2>2. \A c \in DOMAIN drawn : c \in Cell /\ c[2] * word_len + word_len <= 128
    BY <2>1 DEF LcdInv, InRows
  <2> QED
    BY <2>1, <2>2, 8 * 16 = 128 DEF Regular
<1>5. <<x, y>> \in Cell /\ <<x, y>>[1] = x /\ <<x, y>>[2] = y
  BY <1>2 DEF Cell
<1>6. DOMAIN drawn' = DOMAIN drawn \cup {<<x, y>>}
  BY <1>1
<1>7. InRows'
  BY <1>1, <1>4, <1>5, <1>6 DEF InRows
<1>8. WordsKept'
  <2> SUFFICES ASSUME ~odd', NEW c \in DOMAIN drawn'
               PROVE  Word(c[1], c[2])' = drawn'[c]
    BY DEF WordsKept
  <2>1. c \in Cell /\ c[2] * word_len + word_len <= 128
    BY <1>4, <1>5, <1>6
  <2>2. PICK r \in 0 .. 63, n \in 0 .. 31 : c = <<r, n>>
    BY <2>1 DEF Cell
  <2>3. n * word_len + word_len <= 128
    BY <2>1, <2>2
  <2>4. \A i \in 0 .. word_len - 1 :
          /\ Place(r, n, i) = 128 * r + word_len * n + word_len - 1 - i
          /\ Place(x, y, i) = 128 * x + word_len * y + word_len - 1 - i
          /\ Place(x, y, i) \in Touched(x, y)
    <3>1. x \in Int /\ y \in 0 .. 31 /\ r \in Int /\ n \in 0 .. 31
      BY <1>2
    <3>2. \A i \in 0 .. word_len - 1 : Place(r, n, i) = 128 * r + word_len * n + word_len - 1 - i
      BY <1>2, <2>3, <3>1, PlaceIsPacked
    <3>3. \A i \in 0 .. word_len - 1 :
            /\ Place(x, y, i) = 128 * x + word_len * y + word_len - 1 - i
            /\ Place(x, y, i) \in Touched(x, y)
      BY <1>2, <1>4, <3>1, PlaceIsPacked
    <3> QED
      BY <3>2, <3>3
  <2>5. Word(c[1], c[2])' = {i \in 0 .. word_len - 1 : Place(r, n, i) \in Written(x, y, bus)}
    BY <1>1, <2>2 DEF Word, Place, Cursor, Indent
  <2>6. CASE c = <<x, y>>
    <3>1. r = x /\ n = y /\ drawn'[c] = bus
      BY <2>2, <2>6, <1>1
    <3>2. \A i, j \in 0 .. word_len - 1 : Place(x, y, i) = Place(x, y, j) => i = j
      BY <2>4, <1>2 DEF Types
    <3>3. \A i \in 0 .. word_len - 1 : Place(x, y, i) \in Written(x, y, bus) <=> i \in bus
      BY <2>4, <3>2, <1>4 DEF Written
    <3> QED
      BY <2>5, <3>1, <3>3, <1>4
  <2>7. CASE c # <<x, y>>
    <3>1. (r # x \/ n # y) /\ c \in DOMAIN drawn /\ drawn'[c] = drawn[c]
      BY <2>2, <2>7, <1>1, <1>6
    <3>2. \A i, j \in 0 .. word_len - 1 : Place(r, n, i) # Place(x, y, j)
      <4> SUFFICES ASSUME NEW i \in 0 .. word_len - 1, NEW j \in 0 .. word_len - 1
                   PROVE  Place(r, n, i) # Place(x, y, j)
        OBVIOUS
      <4> DEFINE P == Place(r, n, i)
                 Q == Place(x, y, j)
      <4>1. /\ P = 128 * r + word_len * n + word_len - 1 - i
            /\ Q = 128 * x + word_len * y + word_len - 1 - j
        BY <2>4
      <4> HIDE DEF P, Q
      <4>2. ASSUME word_len = 8 PROVE P # Q
        <5>1. i \in 0 .. 7 /\ j \in 0 .. 7 /\ n <= 15 /\ y <= 15
          BY <4>2, <1>2, <1>4, <2>3
        <5>2. P = 128 * r + 8 * n + 7 - i /\ Q = 128 * x + 8 * y + 7 - j
          BY <4>1, <4>2, <5>1, <1>2
        <5> QED
          BY <5>1, <5>2, <3>1, <1>2
      <4>3. ASSUME word_len = 6 PROVE P # Q
        <5>1. i \in 0 .. 5 /\ j \in 0 .. 5 /\ n <= 20 /\ y <= 20
          BY <4>3, <1>2, <1>4, <2>3
        <5>2. P = 128 * r + 6 * n + 5 - i /\ Q = 128 * x + 6 * y + 5 - j
          BY <4>1, <4>3, <5>1, <1>2
        <5>3. P = Q => r = x
          BY <5>1, <5>2, <1>2
        <5>4. P = Q /\ r = x => 6 * (n - y) = i - j
          BY <5>1, <5>2, <1>2
        <5>5. P = Q => n = y
          BY <5>1, <5>3, <5>4, <1>2
        <5> QED
          BY <5>3, <5>5, <3>1
      <4>4. P # Q
        BY <4>2, <4>3, <1>2 DEF Types
      <4> QED
        BY <4>4 DEF P, Q
    <3>3. \A i \in 0 .. word_len - 1 :
            Place(r, n, i) \in Written(x, y, bus) <=> Place(r, n, i) \in display
      BY <3>2, <1>4 DEF Written
    <3>4. Word(c[1], c[2]) = {i \in 0 .. word_len - 1 : Place(r, n, i) \in display}
      BY <2>2 DEF Word
    <3>5. Word(c[1], c[2]) = drawn[c]
      BY <3>1, <1>4 DEF LcdInv, WordsKept
    <3> QED
      BY <2>5, <3>1, <3>3, <3>4, <3>5
  <2> QED
    BY <2>6, <2>7
<1> QED
  BY <1>1, <1>3, <1>7, <1>8 DEF LcdInv

LEMMA ReadInv ==
  ASSUME LcdInv, ~outside, Read
  PROVE  LcdInv'
<1>1. InDisplay /\ LCD_advance_cursor
      /\ UNCHANGED <<word_len, cursor_mode, display, outside, drawn, odd>>
  BY DEF Read
<1>2. Types'
  BY <1>1, DisplayBounds, AdvanceTypes DEF LcdInv
<1> QED
  BY <1>1, <1>2 DEF LcdInv, InRows, WordsKept, Word, Place, Cursor, Indent

LEMMA CommandInv ==
  ASSUME LcdInv, ~outside,
         \/ \E n \in {6, 8} : SetWordLength(n)
         \/ \E m \in Modes : SetMode(m)
         \/ \E r \in Rows : SetX(r)
         \/ \E c \in Columns : SetY(c)
  PROVE  LcdInv'
<1>1. CASE \E n \in {6, 8} : SetWordLength(n)
  <2>1. DOMAIN drawn' = {}
    BY <1>1 DEF SetWordLength
  <2>2. Types' /\ ~outside'
    BY <1>1 DEF SetWordLength, LcdInv, Types
  <2> QED
    BY <2>1, <2>2 DEF LcdInv, InRows, WordsKept
<1>2. ASSUME UNCHANGED <<word_len, display, drawn, odd, outside>>, Types'
      PROVE  LcdInv'
  BY <1>2 DEF LcdInv, InRows, WordsKept, Word, Place, Cursor, Indent
<1>3. CASE \E m \in Modes : SetMode(m)
  BY <1>2, <1>3 DEF SetMode, LcdInv, Types
<1>4. CASE \E r \in Rows : SetX(r)
  BY <1>2, <1>4, LcdAssumption DEF SetX, LcdInv, Types
<1>5. CASE \E c \in Columns : SetY(c)
  BY <1>2, <1>5, LcdAssumption DEF SetY, LcdInv, Types
<1> QED
  BY <1>1, <1>3, <1>4, <1>5

LEMMA StrayInv ==
  ASSUME LcdInv, Stray
  PROVE  LcdInv'
BY DEF Stray, LcdInv, Types, InRows, WordsKept, Word, Place, Cursor, Indent, InDisplay, Touched

THEOREM LcdNextInv == LcdInv /\ [LcdNext]_lcdVars => LcdInv'
<1> SUFFICES ASSUME LcdInv, [LcdNext]_lcdVars PROVE LcdInv'
  OBVIOUS
<1>1. CASE UNCHANGED lcdVars
  BY <1>1 DEF lcdVars, LcdInv, Types, InRows, WordsKept, Word, Place, Cursor, Indent, InDisplay, Touched
<1>2. CASE LcdNext
  <2>1. CASE \E bus \in Values : Write(bus)
    BY <1>2, <2>1, WriteInv DEF LcdNext
  <2>2. CASE Read
    BY <1>2, <2>2, ReadInv DEF LcdNext
  <2>3. CASE Stray
    BY <2>3, StrayInv
  <2> QED
    BY <1>2, <2>1, <2>2, <2>3, CommandInv DEF LcdNext
<1> QED
  BY <1>1, <1>2

THEOREM LcdInvariance == LcdSpec => []LcdInv
BY LcdInitInv, LcdNextInv, PTL DEF LcdSpec

(* For all operands and words: what a program has written in its row is    *)
(* what is there, however words share bytes.                               *)
THEOREM WordsAreKept == LcdSpec => []WordsKept
<1>1. LcdInv => WordsKept
  BY DEF LcdInv
<1> QED
  BY <1>1, LcdInvariance, PTL

(* For all operands: the cursor leaves the display only above the first    *)
(* row or in the two 6-bit words at the end of the last.                   *)
THEOREM StaysInside == LcdSpec => []Inside
<1>1. LcdInv => Inside
  BY DisplayBounds DEF LcdInv, Inside
<1> QED
  BY <1>1, LcdInvariance, PTL

-----------------------------------------------------------------------------
(***************************************************************************)
(* CalcSlots.                                                              *)
(*                                                                         *)
(* The inductive invariant says who may use a slot: what each window can   *)
(* still do with its slot (its sheet and its debugger belong to an open    *)
(* window), that two windows share a slot only if history says so, that    *)
(* what a thread sends to is inactive or shared, and that an open window   *)
(* without memory is one whose load failed or whose slot is shared.        *)
(***************************************************************************)
USE SlotsAssumption

SheetsOpen == \A w \in Windows : sheet[w] # "none" \/ w \in debugger => IsOpen(w)

SharedKnown ==
  \A v, w \in Windows : v # w /\ IsOpen(w) /\ own[v] = own[w] => own[w] \in shared

MemoryKnown ==
  \A w \in Windows :
    IsOpen(w) => calcs[own[w]].memory \/ own[w] \in failed \cup shared

(* What a thread sends to is inactive unless its slot has been given away, *)
(* and nothing is on record of a calculator that no thread sends to.       *)
WhileSending ==
  \A w \in Windows :
    /\ sheet[w] = "sending" /\ calcs[own[w]].active => own[w] \in shared
    /\ sheet[w] # "sending" => driven[w] = {}

IInv ==
  /\ TypeOK /\ SheetsOpen /\ SharedKnown /\ MemoryKnown
  /\ WhileSending /\ NoSlotLost /\ OneDriver /\ CrashExplained

LEMMA SlotFacts ==
  /\ None \notin Slots
  /\ Slots \subseteq Nat
BY DEF Slots, None

(* calc_slot_free and rom_load leave a calc_t. *)
LEMMA FreedType ==
  ASSUME NEW c \in Calc
  PROVE  /\ Freed(c) \in Calc
         /\ ~Freed(c).active
         /\ Freed(c).running = c.running
         /\ ~c.active => Freed(c) = c
BY DEF Freed, Calc

LEMMA LoadedType ==
  ASSUME NEW c \in Calc, NEW file \in Files
  PROVE  /\ Loaded(c, file) \in Calc
         /\ file = "good" => Loaded(c, file).memory
         /\ Loaded(c, file).active /\ ~c.active
              => file \in {"good", "bad savestate"}
BY FreedType DEF Loaded, Files, Freed, Calc

THEOREM InitInv == Init => IInv
<1> SUFFICES ASSUME Init PROVE IInv
  OBVIOUS
<1>1. TypeOK
  BY DEF Init, TypeOK, Calc, Zeroed
<1>2. SheetsOpen /\ SharedKnown /\ MemoryKnown
  BY DEF Init, SheetsOpen, SharedKnown, MemoryKnown, IsOpen
<1>3. WhileSending /\ NoSlotLost /\ OneDriver /\ CrashExplained
  BY SlotFacts
  DEF Init, WhileSending, NoSlotLost, OneDriver, CrashExplained, Zeroed
<1> QED
  BY <1>1, <1>2, <1>3 DEF IInv

LEMMA OpenInv ==
  ASSUME IInv, NEW w \in Windows, NEW s \in Slots, NEW file \in Files,
         crashed = None, Open(w, s, file)
  PROVE  IInv'
<1> DEFINE new == Loaded([Zeroed EXCEPT !.active = TRUE], file)
<1> DEFINE c == IF file = "good" THEN new ELSE Freed(new)
<1>1. /\ calcs' = [calcs EXCEPT ![s] = c]
      /\ own' = IF file = "good" THEN [own EXCEPT ![w] = s] ELSE own
      /\ failed' = failed \ {s}
      /\ shared' = IF Owners(s) = {} THEN shared \ {s} ELSE shared \cup {s}
      /\ sheet' = sheet /\ debugger' = debugger /\ driven' = driven
      /\ crashed' = crashed
      /\ ~IsOpen(w) /\ ~calcs[s].active
  BY DEF Open, FreeSlot
<1>2. /\ new \in Calc /\ c \in Calc
      /\ file = "good" => c.memory
      /\ file # "good" => ~c.active
  <2>1. [Zeroed EXCEPT !.active = TRUE] \in Calc
    BY DEF Zeroed, Calc
  <2> QED
    BY <2>1, LoadedType, FreedType
<1> HIDE DEF new, c
<1>3. TypeOK'
  BY <1>1, <1>2 DEF IInv, TypeOK
<1>4. SheetsOpen'
  BY <1>1, SlotFacts DEF IInv, TypeOK, SheetsOpen, IsOpen
<1>5. SharedKnown'
  BY <1>1, SlotFacts DEF IInv, TypeOK, SharedKnown, IsOpen, Owners
<1>6. MemoryKnown'
  BY <1>1, <1>2, SlotFacts DEF IInv, TypeOK, MemoryKnown, IsOpen, Owners
<1>7. NoSlotLost'
  BY <1>1, <1>2, SlotFacts DEF IInv, TypeOK, NoSlotLost, IsOpen, Owners
<1>8. WhileSending' /\ OneDriver'
  BY <1>1, <1>2, SlotFacts
  DEF IInv, TypeOK, WhileSending, OneDriver, IsOpen, Owners, SheetsOpen
<1>9. CrashExplained'
  BY <1>1 DEF CrashExplained
<1> QED
  BY <1>3, <1>4, <1>5, <1>6, <1>7, <1>8, <1>9 DEF IInv

LEMMA LoadInv ==
  ASSUME IInv, NEW w \in Windows, NEW file \in Files, crashed = None, Load(w, file)
  PROVE  IInv'
<1> DEFINE s == own[w]
<1> DEFINE c == Loaded(calcs[s], file)
<1>1. /\ s \in Slots /\ IsOpen(w) /\ sheet[w] = "none"
      /\ calcs' = [calcs EXCEPT ![s] = c]
      /\ failed' = IF file = "good" THEN failed \ {s} ELSE failed \cup {s}
      /\ own' = own /\ sheet' = sheet /\ debugger' = debugger
      /\ shared' = shared /\ driven' = driven /\ crashed' = crashed
  BY DEF Load, IInv, TypeOK, IsOpen
<1>2. c \in Calc /\ (file = "good" => c.memory)
  BY <1>1, LoadedType DEF IInv, TypeOK
<1> HIDE DEF c
<1>3. TypeOK'
  BY <1>1, <1>2 DEF IInv, TypeOK
<1>4. SheetsOpen' /\ SharedKnown'
  BY <1>1 DEF IInv, SheetsOpen, SharedKnown, IsOpen
<1>5. MemoryKnown'
  BY <1>1, <1>2 DEF IInv, TypeOK, MemoryKnown, IsOpen
<1>6. NoSlotLost'
  BY <1>1, <1>2 DEF IInv, TypeOK, NoSlotLost, Owners
<1>7. WhileSending' /\ OneDriver'
  <2>1. ASSUME NEW v \in Windows, sheet[v] = "sending", calcs'[own[v]].active
        PROVE  own[v] \in shared
    <3>1. IsOpen(v) /\ v # w
      BY <1>1, <2>1 DEF IInv, SheetsOpen
    <3>2. CASE own[v] = s
      BY <1>1, <3>1, <3>2 DEF IInv, SharedKnown
    <3>3. CASE own[v] # s
      <4>1. calcs'[own[v]] = calcs[own[v]]
        BY <1>1, <3>1, <3>3 DEF IInv, TypeOK, IsOpen
      <4> QED
        BY <2>1, <4>1 DEF IInv, WhileSending
    <3> QED
      BY <3>2, <3>3
  <2> QED
    BY <1>1, <2>1 DEF IInv, WhileSending, OneDriver
<1>8. CrashExplained'
  BY <1>1 DEF CrashExplained
<1> QED
  BY <1>3, <1>4, <1>5, <1>6, <1>7, <1>8 DEF IInv

LEMMA TransferInv ==
  ASSUME IInv, NEW w \in Windows, crashed = None, Transfer(w)
  PROVE  IInv'
<1> DEFINE s == own[w]
<1>1. /\ s \in Slots /\ IsOpen(w)
      /\ sheet' = [sheet EXCEPT ![w] = "sending"]
      /\ calcs' = [calcs EXCEPT ![s].active = FALSE, ![s].running = FALSE]
      /\ UNCHANGED <<own, debugger, failed, shared, driven, crashed>>
  BY DEF Transfer, IInv, TypeOK, IsOpen
<1>2. \A t \in Slots :
        /\ calcs'[t].active = (t # s /\ calcs[t].active)
        /\ calcs'[t].memory = calcs[t].memory
  BY <1>1 DEF IInv, TypeOK, Calc
<1>3. TypeOK'
  BY <1>1 DEF IInv, TypeOK, Calc
<1>4. SheetsOpen' /\ SharedKnown'
  BY <1>1 DEF IInv, TypeOK, SheetsOpen, SharedKnown, IsOpen
<1>5. MemoryKnown'
  BY <1>1, <1>2 DEF IInv, TypeOK, MemoryKnown, IsOpen
<1>6. NoSlotLost'
  BY <1>1, <1>2 DEF IInv, NoSlotLost, Owners
<1>7. WhileSending' /\ OneDriver'
  BY <1>1, <1>2, SlotFacts
  DEF IInv, TypeOK, WhileSending, OneDriver, SheetsOpen, SharedKnown, IsOpen
<1>8. CrashExplained'
  BY <1>1 DEF CrashExplained
<1> QED
  BY <1>3, <1>4, <1>5, <1>6, <1>7, <1>8 DEF IInv

LEMMA SendInv ==
  ASSUME IInv, NEW w \in Windows, crashed = None, Send(w)
  PROVE  IInv'
<1>1. /\ own[w] \in Slots /\ IsOpen(w) /\ sheet[w] = "sending"
      /\ UNCHANGED <<calcs, own, debugger, failed, shared>>
  BY DEF Send, IInv, TypeOK, IsOpen, SheetsOpen
<1>2. CASE calcs[own[w]].memory
  <2>1. /\ sheet' = [sheet EXCEPT ![w] = "sent"] /\ crashed' = crashed
        /\ driven' = [driven EXCEPT ![w] = {}]
    BY <1>2 DEF Send
  <2> QED
    BY <1>1, <2>1 DEF IInv, TypeOK, SheetsOpen, SharedKnown, MemoryKnown, NoSlotLost,
                      WhileSending, OneDriver, CrashExplained, Owners, IsOpen
<1>3. CASE ~calcs[own[w]].memory
  <2>1. crashed' = own[w] /\ sheet' = sheet /\ driven' = driven
    BY <1>3 DEF Send
  <2>2. own[w] \in failed \cup shared
    BY <1>1, <1>3 DEF IInv, MemoryKnown
  <2> QED
    BY <1>1, <2>1, <2>2 DEF IInv, TypeOK, SheetsOpen, SharedKnown, MemoryKnown, NoSlotLost,
                            WhileSending, OneDriver, CrashExplained, Owners, IsOpen
<1> QED
  BY <1>2, <1>3

(* The other windows of the slot of a sheet that ends are not alone. *)
LEMMA SheetDidEndInv ==
  ASSUME IInv, NEW w \in Windows, crashed = None, _sheetDidEnd(w)
  PROVE  IInv'
<1> DEFINE s == own[w]
<1>1. /\ s \in Slots /\ IsOpen(w)
      /\ sheet' = [sheet EXCEPT ![w] = "none"]
      /\ calcs' = [calcs EXCEPT ![s].active = TRUE, ![s].running = TRUE]
      /\ UNCHANGED <<own, debugger, failed, shared, driven, crashed>>
  BY DEF _sheetDidEnd, IInv, TypeOK, IsOpen, SheetsOpen
<1>2. \A t \in Slots :
        /\ calcs'[t].active = (t = s \/ calcs[t].active)
        /\ calcs'[t].memory = calcs[t].memory
  BY <1>1 DEF IInv, TypeOK, Calc
<1>3. TypeOK'
  BY <1>1 DEF IInv, TypeOK, Calc
<1>4. SheetsOpen' /\ SharedKnown'
  BY <1>1 DEF IInv, TypeOK, SheetsOpen, SharedKnown, IsOpen
<1>5. MemoryKnown'
  BY <1>1, <1>2 DEF IInv, TypeOK, MemoryKnown, IsOpen
<1>6. NoSlotLost'
  BY <1>1, <1>2 DEF IInv, NoSlotLost, Owners
<1>7. WhileSending' /\ OneDriver'
  <2>1. ASSUME NEW v \in Windows
        PROVE  /\ sheet'[v] = "sending" /\ calcs'[own[v]].active => own[v] \in shared
               /\ sheet'[v] # "sending" => driven[v] = {}
               /\ sheet'[v] = "sending" => v # w /\ sheet[v] = "sending"
    <3>1. sheet[w] = "sent" /\ sheet'[w] = "none" /\ (v # w => sheet'[v] = sheet[v])
      BY <1>1 DEF _sheetDidEnd, IInv, TypeOK
    <3>2. sheet[v] # "sending" => driven[v] = {}
      BY DEF IInv, WhileSending
    <3>3. ASSUME sheet'[v] = "sending", calcs'[own[v]].active
          PROVE  own[v] \in shared
      <4>1. v # w /\ sheet[v] = "sending" /\ IsOpen(v) /\ own[v] \in Slots
        BY <3>1, <3>3 DEF IInv, TypeOK, SheetsOpen, IsOpen
      <4>2. CASE own[v] = s
        BY <1>1, <4>1, <4>2 DEF IInv, SharedKnown
      <4>3. CASE own[v] # s
        BY <1>2, <3>3, <4>1, <4>3 DEF IInv, WhileSending
      <4> QED
        BY <4>2, <4>3
    <3> QED
      BY <3>1, <3>2, <3>3
  <2> QED
    BY <1>1, <2>1 DEF IInv, WhileSending, OneDriver
<1>8. CrashExplained'
  BY <1>1 DEF CrashExplained
<1> QED
  BY <1>3, <1>4, <1>5, <1>6, <1>7, <1>8 DEF IInv

(* The debugger and its breakpoints touch no more than running. *)
LEMMA DebuggerInv ==
  ASSUME IInv, NEW w \in Windows, crashed = None,
         showDebugger(w) \/ CloseDebugger(w) \/ Breakpoint(w)
  PROVE  IInv'
<1> DEFINE s == own[w]
<1>1. /\ s \in Slots /\ IsOpen(w)
      /\ debugger' \in {debugger \cup {w}, debugger \ {w}}
      /\ \E r \in BOOLEAN : calcs' = [calcs EXCEPT ![s].running = r]
      /\ UNCHANGED <<own, sheet, failed, shared, driven, crashed>>
  BY DEF showDebugger, CloseDebugger, Breakpoint, IInv, TypeOK, IsOpen, SheetsOpen
<1>2. \A t \in Slots :
        calcs'[t].active = calcs[t].active /\ calcs'[t].memory = calcs[t].memory
  BY <1>1 DEF IInv, TypeOK, Calc
<1>3. TypeOK'
  BY <1>1 DEF IInv, TypeOK, Calc
<1>4. SheetsOpen' /\ SharedKnown'
  BY <1>1 DEF IInv, TypeOK, SheetsOpen, SharedKnown, IsOpen
<1>5. MemoryKnown'
  BY <1>1, <1>2 DEF IInv, TypeOK, MemoryKnown, IsOpen
<1>6. NoSlotLost'
  BY <1>1, <1>2 DEF IInv, NoSlotLost, Owners
<1>7. WhileSending' /\ OneDriver'
  BY <1>1, <1>2, SlotFacts
  DEF IInv, TypeOK, WhileSending, OneDriver, SheetsOpen, SharedKnown, IsOpen
<1>8. CrashExplained'
  BY <1>1 DEF CrashExplained
<1> QED
  BY <1>3, <1>4, <1>5, <1>6, <1>7, <1>8 DEF IInv

(* A window that closes leaves an inactive slot behind, whoever shares it. *)
LEMMA CloseInv ==
  ASSUME IInv, NEW w \in Windows, crashed = None, Close(w)
  PROVE  IInv'
<1> DEFINE s == own[w]
<1> DEFINE c == Closed(calcs[s], w \in debugger)
<1>1. /\ s \in Slots /\ IsOpen(w) /\ sheet[w] = "none"
      /\ calcs' = [calcs EXCEPT ![s] = c]
      /\ own' = [own EXCEPT ![w] = None]
      /\ debugger' = debugger \ {w}
      /\ UNCHANGED <<sheet, failed, shared, driven, crashed>>
  BY DEF Close, IInv, TypeOK, IsOpen
<1>2. c \in Calc /\ ~c.active
  <2>1. [calcs[s] EXCEPT !.running = @ \/ w \in debugger] \in Calc
    BY <1>1 DEF IInv, TypeOK, Calc
  <2> QED
    BY <2>1, FreedType DEF Closed
<1> HIDE DEF c
<1>3. TypeOK'
  BY <1>1, <1>2, SlotFacts DEF IInv, TypeOK
<1>4. SheetsOpen' /\ SharedKnown'
  BY <1>1, SlotFacts DEF IInv, TypeOK, SheetsOpen, SharedKnown, IsOpen
<1>5. MemoryKnown'
  BY <1>1, <1>2, SlotFacts DEF IInv, TypeOK, MemoryKnown, SharedKnown, IsOpen
<1>6. NoSlotLost'
  BY <1>1, <1>2, SlotFacts DEF IInv, TypeOK, NoSlotLost, Owners
<1>7. WhileSending' /\ OneDriver'
  BY <1>1, <1>2, SlotFacts
  DEF IInv, TypeOK, WhileSending, OneDriver, SheetsOpen, SharedKnown, IsOpen
<1>8. CrashExplained'
  BY <1>1 DEF CrashExplained
<1> QED
  BY <1>3, <1>4, <1>5, <1>6, <1>7, <1>8 DEF IInv

(* The main thread runs a calculator, whose memory may not be there. *)
LEMMA DriveInv ==
  ASSUME IInv, NEW s \in Slots, NEW who \in {"timer", "debugger"},
         Owners(s) # {}, who = "timer" => calcs[s].active, Drive(s, who)
  PROVE  IInv'
<1>1. UNCHANGED <<calcs, own, sheet, debugger, failed, shared>>
  BY DEF Drive
<1>2. CASE calcs[s].memory
  <2>1. /\ crashed' = crashed
        /\ driven' = [w \in Windows |->
                        driven[w] \cup IF sheet[w] = "sending" /\ own[w] = s
                                       THEN {who} ELSE {}]
    BY <1>2 DEF Drive
  <2>2. driven' \in [Windows -> SUBSET {"timer", "debugger"}]
    BY <2>1 DEF IInv, TypeOK
  <2>3. ASSUME NEW w \in Windows, sheet[w] = "sending", "timer" \in driven'[w]
        PROVE  own[w] \in shared
    <3>1. CASE "timer" \in driven[w]
      BY <2>3, <3>1 DEF IInv, OneDriver
    <3>2. CASE own[w] = s /\ who = "timer"
      BY <2>3, <3>2 DEF IInv, WhileSending
    <3> QED
      BY <2>1, <2>3, <3>1, <3>2
  <2> QED
    BY <1>1, <2>1, <2>2, <2>3
    DEF IInv, TypeOK, SheetsOpen, SharedKnown, MemoryKnown, NoSlotLost,
        WhileSending, OneDriver, CrashExplained, Owners, IsOpen
<1>3. CASE ~calcs[s].memory
  <2>1. crashed' = s /\ driven' = driven
    BY <1>3 DEF Drive
  <2>2. s \in failed \cup shared
    BY <1>3, SlotFacts DEF IInv, MemoryKnown, Owners, IsOpen
  <2> QED
    BY <1>1, <2>1, <2>2
    DEF IInv, TypeOK, SheetsOpen, SharedKnown, MemoryKnown, NoSlotLost,
        WhileSending, OneDriver, CrashExplained, Owners, IsOpen
<1> QED
  BY <1>2, <1>3

LEMMA RunInv ==
  ASSUME IInv, NEW s \in Slots, calc_run_all(s)
  PROVE  IInv'
<1>1. Owners(s) # {} /\ calcs[s].active /\ Drive(s, "timer")
  BY DEF calc_run_all, IInv, NoSlotLost
<1> QED
  BY <1>1, DriveInv

LEMMA DebuggerStepInv ==
  ASSUME IInv, NEW w \in Windows, DebuggerStep(w)
  PROVE  IInv'
<1>1. own[w] \in Slots /\ Owners(own[w]) # {} /\ Drive(own[w], "debugger")
  BY DEF DebuggerStep, IInv, TypeOK, SheetsOpen, IsOpen, Owners
<1> QED
  BY <1>1, DriveInv

THEOREM NextInv == IInv /\ [Next]_vars => IInv'
<1> SUFFICES ASSUME IInv, [Next]_vars PROVE IInv'
  OBVIOUS
<1>1. CASE UNCHANGED vars
  BY <1>1 DEF vars, IInv, TypeOK, SheetsOpen, SharedKnown, MemoryKnown, NoSlotLost,
              WhileSending, OneDriver, CrashExplained, Owners, IsOpen
<1>2. ASSUME crashed = None, NEW w \in Windows, WindowStep(w) PROVE IInv'
  BY <1>2, OpenInv, LoadInv, TransferInv, SendInv, SheetDidEndInv, DebuggerInv,
     DebuggerStepInv, CloseInv
  DEF WindowStep
<1>3. ASSUME NEW s \in Slots, calc_run_all(s) PROVE IInv'
  BY <1>3, RunInv
<1> QED
  BY <1>1, <1>2, <1>3 DEF Next

THEOREM Invariance == Spec => []IInv
BY InitInv, NextInv, PTL DEF Spec

(* Slots, windows and their sheets stay what the code takes them for. *)
THEOREM SlotsTypeCorrect == Spec => []TypeOK
BY Invariance, PTL DEF IInv

(* An active slot belongs to an open window, for any MAX_CALCS. *)
THEOREM SlotsAreOwned == Spec => []NoSlotLost
BY Invariance, PTL DEF IInv

(***************************************************************************)
(* The frame timer never runs a calculator a transfer sends to, unless     *)
(* another window has been given its slot: what is left of the main thread *)
(* that can run it are the debugger's own steps.                           *)
(***************************************************************************)
THEOREM TimerLeavesTransfersAlone == Spec => []OneDriver
BY Invariance, PTL DEF IInv

(* Missing memory is used only after a failed load or in a shared slot. *)
THEOREM CrashesExplained == Spec => []CrashExplained
BY Invariance, PTL DEF IInv

-----------------------------------------------------------------------------
(***************************************************************************)
(* SourceScanner.                                                          *)
(*                                                                         *)
(* What makes the results fresh once nothing is left to do is that the     *)
(* operations of the newest scan have set them last, those superseded      *)
(* after their last look excepted: the invariant follows each operation of *)
(* the newest scan (Published), knows who still may set anything           *)
(* (Superseded), and that the symbols and folds start after the tokens     *)
(* (Waits).                                                                *)
(***************************************************************************)
(* The last scan's operations work on the text unless a timer is set. *)
Scanned ==
  /\ timer \in {"nil", "set"}
  /\ latest <= text + 1
  /\ timer = "set" => latest <= text
  /\ timer # "set" => copy[latest] = text

Future ==
  /\ \A g \in Scans, k \in Kinds : g > latest => op[g][k] = "none"
  /\ \A k \in Kinds : op[latest][k] # "none"
  /\ \A g \in Scans : op[g]["folds"] # "first"

Superseded ==
  /\ \A g \in Scans, k \in Kinds :
       op[g][k] \in {"first", "last"} /\ g < latest => <<g, k>> \in overtaken
  /\ \A k \in Kinds : <<latest, k>> \notin overtaken
  /\ \A g \in Scans, k \in Kinds : <<g, k>> \in overtaken => g < latest

Waits ==
  \A k \in {"symbols", "folds"} :
    op[latest][k] # "waiting" => op[latest]["tokens"] = "done"

Fresh(p) ==
  \/ p \in late
  \/ /\ results[p].text = copy[latest]
     /\ results[p].tokens = copy[latest] \/ "tokens" \in late

Published ==
  \A k \in Kinds :
    /\ op[latest][k] \in {"posting", "done"} => Fresh(First[k]) /\ Fresh(Last[k])
    /\ op[latest][k] = "last" /\ k # "folds" => Fresh(First[k])

ShownOrTold ==
  \/ shown = results["names"].text
  \/ pending
  \/ \E g \in Scans : op[g]["symbols"] = "posting"

ScannerInv ==
  /\ ScanTypeOK /\ Scanned /\ Future /\ Superseded /\ Waits
  /\ Published /\ TokensFit /\ ShownOrTold

-----------------------------------------------------------------------------
LEMMA NumberFacts ==
  /\ MaxEdits \in Nat /\ Texts \subseteq Nat /\ Scans \subseteq Nat
  /\ \A g \in Scans : g >= 1 /\ g <= MaxEdits + 1
BY EditsAssumption DEF Texts, Scans

LEMMA PartFacts ==
  /\ First \in [Kinds -> Parts] /\ Last \in [Kinds -> Parts]
  /\ First["folds"] = Last["folds"]
BY DEF First, Last, Kinds, Parts

LEMMA MoveFacts ==
  ASSUME ScanTypeOK, NEW g \in Scans, NEW k \in Kinds, NEW stage \in Stages, Move(g, k, stage)
  PROVE  /\ op' \in [Scans -> [Kinds -> Stages]]
         /\ op'[g][k] = stage
         /\ \A h \in Scans, j \in Kinds : h # g \/ j # k => op'[h][j] = op[h][j]
BY DEF ScanTypeOK, Move

THEOREM ScannerInitInv == ScanInit => ScannerInv
<1> SUFFICES ASSUME ScanInit PROVE ScannerInv
  OBVIOUS
<1>0. 1 \in Scans /\ 0 \in Texts
  BY EditsAssumption DEF Texts, Scans
<1>1. ScanTypeOK
  <2>1. op \in [Scans -> [Kinds -> Stages]]
    BY DEF ScanInit, Stages
  <2>2. results \in [Parts -> [text : Texts, tokens : Texts]]
    BY <1>0 DEF ScanInit
  <2> QED
    BY <1>0, <2>1, <2>2 DEF ScanInit, ScanTypeOK
<1>2. Scanned /\ Superseded /\ TokensFit /\ ShownOrTold
  BY <1>0, NumberFacts DEF ScanInit, Scanned, Superseded, TokensFit, ShownOrTold, Kinds, Parts
<1>3. Future /\ Waits /\ Published
  BY <1>0, NumberFacts DEF ScanInit, Future, Waits, Published, Kinds
<1> QED
  BY <1>1, <1>2, <1>3 DEF ScannerInv

LEMMA EditInv == ScannerInv /\ Edit => ScannerInv'
<1> SUFFICES ASSUME ScannerInv, Edit PROVE ScannerInv'
  OBVIOUS
<1>1. text' = text + 1 /\ text < MaxEdits /\ timer' = "set"
  BY DEF Edit, ScannerInv, Scanned
<1>2. UNCHANGED <<latest, copy, op, seen, results, pending, shown, overtaken, late>>
  BY DEF Edit
<1>3. ScanTypeOK' /\ Scanned'
  BY <1>1, <1>2, NumberFacts DEF ScannerInv, ScanTypeOK, Scanned, Texts
<1>4. Future' /\ Superseded' /\ Waits' /\ ShownOrTold'
  BY <1>2 DEF ScannerInv, Future, Superseded, Waits, ShownOrTold
<1>5. Published' /\ TokensFit'
  BY <1>2 DEF ScannerInv, Published, TokensFit, Fresh, isCancelled
<1> QED
  BY <1>3, <1>4, <1>5 DEF ScannerInv

LEMMA ScanInv == ScannerInv /\ scanTokens => ScannerInv'
<1> SUFFICES ASSUME ScannerInv, scanTokens PROVE ScannerInv'
  OBVIOUS
<1> DEFINE n == latest + 1
<1>1. /\ timer = "set" /\ timer' = "nil" /\ latest' = n
      /\ copy' = [copy EXCEPT ![n] = text]
      /\ op' = [op EXCEPT ![n] = [k \in Kinds |-> "waiting"]]
      /\ overtaken' = overtaken \cup Committed
      /\ UNCHANGED <<text, seen, results, pending, shown, late>>
  BY DEF scanTokens
<1>2. latest \in Scans /\ n \in Scans /\ latest \in Nat /\ text \in Nat /\ latest <= text
  BY <1>1, NumberFacts DEF ScannerInv, ScanTypeOK, Scanned, Texts, Scans
<1>3. /\ op' \in [Scans -> [Kinds -> Stages]]
      /\ \A k \in Kinds : op'[n][k] = "waiting"
      /\ \A g \in Scans, k \in Kinds : g # n => op'[g][k] = op[g][k]
  BY <1>1, <1>2 DEF ScannerInv, ScanTypeOK, Stages
<1> HIDE DEF n
<1>4. n > latest /\ \A g \in Scans : g < n => g <= latest
  BY <1>2, NumberFacts DEF n
<1>5. ScanTypeOK'
  BY <1>1, <1>2, <1>3 DEF ScannerInv, ScanTypeOK, Committed
<1>6. Scanned'
  BY <1>1, <1>2 DEF ScannerInv, ScanTypeOK, Scanned, n
<1>7. Future'
  BY <1>1, <1>2, <1>3, <1>4, NumberFacts DEF ScannerInv, Future, Kinds
<1>8. Superseded'
  <2>1. \A g \in Scans, k \in Kinds :
          <<g, k>> \in Committed <=> op[g][k] \in {"first", "last"}
    BY DEF Committed
  <2>2. \A g \in Scans, k \in Kinds : <<g, k>> \in Committed => g <= latest
    BY <2>1, <1>2, NumberFacts DEF ScannerInv, Future
  <2>3. \A g \in Scans, k \in Kinds : <<g, k>> \in overtaken' => g < n
    BY <1>1, <1>2, <1>4, <2>2, NumberFacts DEF ScannerInv, Superseded, n
  <2>4. \A g \in Scans, k \in Kinds :
          op'[g][k] \in {"first", "last"} /\ g < n => <<g, k>> \in overtaken'
    BY <1>1, <1>2, <1>3, <2>1, NumberFacts
  <2> QED
    BY <1>1, <1>2, <2>3, <2>4, NumberFacts DEF Superseded
<1>9. Waits' /\ Published'
  BY <1>1, <1>3 DEF Waits, Published, Kinds
<1>10. TokensFit'
  <2>1. \A g \in Scans, k \in Kinds :
          op'[g][k] \in {"running", "first", "last"} => g < latest'
    <3> SUFFICES ASSUME NEW g \in Scans, NEW k \in Kinds,
                        op'[g][k] \in {"running", "first", "last"}
                 PROVE  g < n
      BY <1>1
    <3>1. g # n /\ op[g][k] # "none"
      BY <1>3
    <3>2. ~(g > latest)
      BY <3>1 DEF ScannerInv, Future
    <3> QED
      BY <3>2, <1>2, <1>4, NumberFacts
  <2> QED
    BY <2>1 DEF TokensFit, isCancelled, Kinds
<1>11. ShownOrTold'
  <2>1. \A g \in Scans : op[g]["symbols"] = "posting" => op'[g]["symbols"] = "posting"
    BY <1>2, <1>3, <1>4, NumberFacts DEF ScannerInv, Future, Kinds
  <2> QED
    BY <1>1, <2>1 DEF ScannerInv, ShownOrTold
<1> QED
  BY <1>5, <1>6, <1>7, <1>8, <1>9, <1>10, <1>11 DEF ScannerInv

LEMMA StartInv ==
  ASSUME ScannerInv, NEW g \in Scans, NEW k \in Kinds, Start(g, k)
  PROVE  ScannerInv'
<1> DEFINE stage == IF isCancelled(g) THEN "done" ELSE "running"
<1>1. /\ op[g][k] = "waiting" /\ isReady(g, k) /\ Move(g, k, stage) /\ stage \in Stages
      /\ UNCHANGED <<text, timer, latest, copy, results, pending, shown, overtaken, late>>
  BY DEF Start, Stages
<1>2. /\ op' \in [Scans -> [Kinds -> Stages]]
      /\ op'[g][k] = stage
      /\ \A h \in Scans, j \in Kinds : h # g \/ j # k => op'[h][j] = op[h][j]
  BY <1>1, MoveFacts DEF ScannerInv
<1>3. seen' = IF k = "tokens" \/ isCancelled(g) THEN seen
              ELSE [seen EXCEPT ![g][k] = results["tokens"].text]
  BY DEF Start
<1>4. latest \in Scans /\ latest \in Nat /\ g \in Nat /\ g <= latest
  <2>1. ~(g > latest)
    BY <1>1 DEF ScannerInv, Future
  <2> QED
    BY <2>1, NumberFacts DEF ScannerInv, ScanTypeOK
<1>5. stage = "running" <=> g = latest
  BY <1>4 DEF isCancelled
<1>6. stage \in {"running", "done"}
  OBVIOUS
<1> HIDE DEF stage
<1>7. ScanTypeOK'
  <2>1. results["tokens"].text \in Texts
    BY DEF ScannerInv, ScanTypeOK, Parts
  <2>2. seen' \in [Scans -> [Kinds -> Texts]]
    BY <1>3, <2>1 DEF ScannerInv, ScanTypeOK
  <2> QED
    BY <1>1, <1>2, <2>2 DEF ScannerInv, ScanTypeOK
<1>8. Scanned' /\ Future' /\ Superseded'
  <2>1. Scanned'
    BY <1>1 DEF ScannerInv, Scanned
  <2>2. Future'
    BY <1>1, <1>2, <1>4, <1>6 DEF ScannerInv, Future, Kinds
  <2>3. Superseded'
    BY <1>1, <1>2, <1>6 DEF ScannerInv, Superseded
  <2> QED
    BY <2>1, <2>2, <2>3
<1>9. Waits'
  BY <1>1, <1>2, <1>4, <1>5, <1>6 DEF ScannerInv, Waits, isReady, isCancelled, Kinds
<1>10. Published'
  <2>1. \A p : Fresh(p)' <=> Fresh(p)
    BY <1>1 DEF Fresh
  <2>2. \A j \in Kinds : op'[latest][j] \in {"posting", "done", "last"} => op'[latest][j] = op[latest][j]
    BY <1>2, <1>4, <1>5, <1>6
  <2> QED
    BY <1>1, <2>1, <2>2 DEF ScannerInv, Published
<1>11. TokensFit'
  <2> SUFFICES ASSUME NEW h \in Scans, NEW j \in {"symbols", "folds"},
                      op'[h][j] \in {"running", "first", "last"}, ~(h < latest)
               PROVE  seen'[h][j] = copy[h] \/ "tokens" \in late
    BY <1>1 DEF TokensFit, isCancelled
  <2>1. CASE h = g /\ j = k
    <3>1. g = latest
      BY <2>1, <1>4
    <3>2. op[latest]["tokens"] = "done"
      BY <3>1, <2>1, <1>1, <1>4 DEF isReady, isCancelled
    <3>3. Fresh("tokens")
      BY <3>2 DEF ScannerInv, Published, First, Kinds
    <3>4. seen'[g][k] = results["tokens"].text
      BY <1>3, <1>4, <3>1, <2>1 DEF ScannerInv, ScanTypeOK, isCancelled
    <3> QED
      BY <3>1, <3>3, <3>4, <2>1 DEF Fresh
  <2>2. CASE h # g \/ j # k
    <3>1. op[h][j] = op'[h][j] /\ j \in Kinds
      BY <2>2, <1>2 DEF Kinds
    <3>2. seen'[h][j] = seen[h][j]
      BY <1>3, <2>2, <3>1 DEF ScannerInv, ScanTypeOK
    <3> QED
      BY <3>1, <3>2 DEF ScannerInv, TokensFit, isCancelled
  <2> QED
    BY <2>1, <2>2
<1>12. ShownOrTold'
  <2>1. \A h \in Scans : op[h]["symbols"] = "posting" => op'[h]["symbols"] = "posting"
    BY <1>1, <1>2 DEF Kinds
  <2> QED
    BY <1>1, <2>1 DEF ScannerInv, ShownOrTold
<1> QED
  BY <1>7, <1>8, <1>9, <1>10, <1>11, <1>12 DEF ScannerInv

LEMMA CheckInv ==
  ASSUME ScannerInv, NEW g \in Scans, NEW k \in Kinds, Check(g, k)
  PROVE  ScannerInv'
<1> DEFINE stage == IF isCancelled(g) THEN "posting" ELSE IF k = "folds" THEN "last" ELSE "first"
<1>1. /\ op[g][k] = "running" /\ Move(g, k, stage) /\ stage \in Stages
      /\ UNCHANGED <<text, timer, latest, copy, seen, results, pending, shown, overtaken, late>>
  BY DEF Check, Stages
<1>2. /\ op' \in [Scans -> [Kinds -> Stages]]
      /\ op'[g][k] = stage
      /\ \A h \in Scans, j \in Kinds : h # g \/ j # k => op'[h][j] = op[h][j]
  BY <1>1, MoveFacts DEF ScannerInv
<1>4. latest \in Scans /\ latest \in Nat /\ g \in Nat /\ g <= latest
  <2>1. ~(g > latest)
    BY <1>1 DEF ScannerInv, Future
  <2> QED
    BY <2>1, NumberFacts DEF ScannerInv, ScanTypeOK
<1>5. g < latest <=> stage = "posting"
  BY <1>4 DEF isCancelled
<1>6. stage \in {"posting", "last", "first"} /\ (k = "folds" => stage # "first") /\ (stage = "last" => k = "folds")
  OBVIOUS
<1> HIDE DEF stage
<1>7. ScanTypeOK'
  BY <1>1, <1>2 DEF ScannerInv, ScanTypeOK
<1>8. Scanned' /\ Future' /\ Superseded'
  <2>1. Scanned'
    BY <1>1 DEF ScannerInv, Scanned
  <2>2. Future'
    BY <1>1, <1>2, <1>4, <1>6 DEF ScannerInv, Future, Kinds
  <2>3. Superseded'
    BY <1>1, <1>2, <1>5, <1>6 DEF ScannerInv, Superseded
  <2> QED
    BY <2>1, <2>2, <2>3
<1>9. Waits'
  BY <1>1, <1>2, <1>4, <1>6 DEF ScannerInv, Waits, Kinds
<1>10. Published'
  <2>1. \A p : Fresh(p)' <=> Fresh(p)
    BY <1>1 DEF Fresh
  <2>2. \A j \in Kinds : j # "folds" /\ op'[latest][j] = "last" => op'[latest][j] = op[latest][j]
    BY <1>2, <1>4, <1>6
  <2>3. \A j \in Kinds : op'[latest][j] \in {"posting", "done"} => op'[latest][j] = op[latest][j]
    BY <1>2, <1>4, <1>5, <1>6
  <2> QED
    BY <1>1, <2>1, <2>2, <2>3 DEF ScannerInv, Published
<1>11. TokensFit'
  <2> SUFFICES ASSUME NEW h \in Scans, NEW j \in {"symbols", "folds"},
                      op'[h][j] \in {"running", "first", "last"}, ~(h < latest)
               PROVE  op[h][j] \in {"running", "first", "last"}
    BY <1>1 DEF TokensFit, isCancelled, ScannerInv
  <2> QED
    BY <1>1, <1>2 DEF Kinds
<1>12. ShownOrTold'
  <2>1. \A h \in Scans : op[h]["symbols"] = "posting" => op'[h]["symbols"] = "posting"
    BY <1>1, <1>2 DEF Kinds
  <2> QED
    BY <1>1, <2>1 DEF ScannerInv, ShownOrTold
<1> QED
  BY <1>7, <1>8, <1>9, <1>10, <1>11, <1>12 DEF ScannerInv

(* Whose results count: only the newest scan can be the last to set a part *)
(* and not be late.                                                        *)
LEMMA PublishInv ==
  ASSUME ScannerInv, NEW g \in Scans, NEW k \in Kinds, Publish(g, k)
  PROVE  ScannerInv'
<1>0. PICK p \in Parts : p = IF op[g][k] = "first" THEN First[k] ELSE Last[k]
  BY PartFacts
<1> DEFINE stage == IF op[g][k] = "first" THEN "last" ELSE "posting"
           from == IF k = "tokens" THEN copy[g] ELSE seen[g][k]
<1>1. /\ op[g][k] \in {"first", "last"} /\ Move(g, k, stage) /\ stage \in Stages
      /\ results' = [results EXCEPT ![p] = [text |-> copy[g], tokens |-> from]]
      /\ late' = IF <<g, k>> \in overtaken THEN late \cup {p} ELSE late \ {p}
      /\ UNCHANGED <<text, timer, latest, copy, seen, pending, shown, overtaken>>
  BY <1>0 DEF Publish, Stages
<1>2. /\ op' \in [Scans -> [Kinds -> Stages]]
      /\ op'[g][k] = stage
      /\ \A h \in Scans, j \in Kinds : h # g \/ j # k => op'[h][j] = op[h][j]
  BY <1>1, MoveFacts DEF ScannerInv
<1>3. p \in Parts /\ copy[g] \in Texts /\ from \in Texts
  BY DEF ScannerInv, ScanTypeOK
<1>4. latest \in Scans /\ latest \in Nat /\ g \in Nat /\ g <= latest
  <2>1. ~(g > latest)
    BY <1>1 DEF ScannerInv, Future
  <2> QED
    BY <2>1, NumberFacts DEF ScannerInv, ScanTypeOK
<1>5. p = "tokens" => k = "tokens"
  BY <1>0 DEF First, Last, Kinds
<1>6. stage \in {"posting", "last"} /\ (stage = "last" <=> op[g][k] = "first")
  OBVIOUS
<1>7. p = "names" => k = "symbols" /\ stage = "posting"
  BY <1>0, <1>1 DEF First, Last, Kinds
<1>8. /\ stage = "last" => p = First[k]
      /\ stage = "posting" => p = Last[k]
      /\ k = "folds" => First[k] = Last[k]
  BY <1>0, PartFacts DEF First, Last
<1>9. k = "tokens" => from = copy[g]
  OBVIOUS
<1>10. k # "tokens" => from = seen[g][k]
  OBVIOUS
<1> HIDE DEF stage, from
<1>11. /\ results'[p] = [text |-> copy[g], tokens |-> from]
       /\ \A q \in Parts : q # p => results'[q] = results[q]
  BY <1>1, <1>3 DEF ScannerInv, ScanTypeOK
<1>12. <<g, k>> \notin overtaken => g = latest
  BY <1>1, <1>4 DEF ScannerInv, Superseded
<1>13. g = latest => <<g, k>> \notin overtaken
  BY DEF ScannerInv, Superseded
(* The tokens of the newest scan are set before its others start. *)
<1>14. ASSUME p = "tokens", <<g, k>> \notin overtaken
       PROVE  \A j \in {"symbols", "folds"} : op[latest][j] = "waiting"
  BY <1>1, <1>5, <1>12, <1>14 DEF ScannerInv, Waits
<1>15. Fresh(p)'
  <2>1. CASE <<g, k>> \in overtaken
    BY <1>1, <2>1 DEF Fresh
  <2>2. CASE <<g, k>> \notin overtaken
    <3>1. results'[p].text = copy[latest]
      BY <1>11, <1>12, <2>2
    <3>2. results'[p].tokens = copy[latest] \/ "tokens" \in late'
      <4>1. CASE k = "tokens"
        BY <4>1, <1>9, <1>11, <1>12, <2>2
      <4>2. CASE k # "tokens"
        <5>1. seen[g][k] = copy[g] \/ "tokens" \in late
          BY <4>2, <1>1, <1>4, <1>12, <2>2 DEF ScannerInv, TokensFit, isCancelled, Kinds
        <5>2. p # "tokens"
          BY <4>2, <1>5
        <5> QED
          BY <5>1, <5>2, <4>2, <1>1, <1>10, <1>11, <1>12, <2>2
      <4> QED
        BY <4>1, <4>2
    <3> QED
      BY <3>1, <3>2, <1>1 DEF Fresh
  <2> QED
    BY <2>1, <2>2
<1>16. ASSUME NEW q \in Parts, q # p, Fresh(q),
              p = "tokens" => <<g, k>> \in overtaken
       PROVE  Fresh(q)'
  <2>1. results'[q] = results[q]
    BY <1>11, <1>16
  <2>2. "tokens" \in late => "tokens" \in late'
    BY <1>1, <1>16
  <2>3. q \in late => q \in late'
    BY <1>1, <1>16
  <2> QED
    BY <1>1, <1>16, <2>1, <2>2, <2>3 DEF Fresh
<1>17. ScanTypeOK'
  <2>1. results' \in [Parts -> [text : Texts, tokens : Texts]]
    BY <1>1, <1>3 DEF ScannerInv, ScanTypeOK
  <2>2. late' \subseteq Parts
    BY <1>1, <1>3 DEF ScannerInv, ScanTypeOK
  <2> QED
    BY <1>1, <1>2, <2>1, <2>2 DEF ScannerInv, ScanTypeOK
<1>18. Scanned' /\ Future' /\ Superseded'
  <2>1. Scanned'
    BY <1>1 DEF ScannerInv, Scanned
  <2>2. Future'
    BY <1>1, <1>2, <1>4, <1>6 DEF ScannerInv, Future, Kinds
  <2>3. Superseded'
    BY <1>1, <1>2, <1>6 DEF ScannerInv, Superseded
  <2> QED
    BY <2>1, <2>2, <2>3
<1>19. Waits'
  BY <1>1, <1>2, <1>4, <1>6 DEF ScannerInv, Waits, Kinds
<1>20. Published'
  <2> SUFFICES ASSUME NEW j \in Kinds
               PROVE  /\ op'[latest][j] \in {"posting", "done"} => Fresh(First[j])' /\ Fresh(Last[j])'
                      /\ op'[latest][j] = "last" /\ j # "folds" => Fresh(First[j])'
    BY <1>1 DEF Published
  <2>1. CASE g = latest /\ j = k
    <3>1. CASE stage = "last"
      BY <3>1, <2>1, <1>2, <1>8, <1>15
    <3>2. CASE stage = "posting"
      <4>1. op[g][k] = "last"
        BY <3>2, <1>1, <1>6
      <4>2. Fresh(Last[j])'
        BY <3>2, <2>1, <1>8, <1>15
      <4>3. CASE k = "folds"
        BY <4>2, <4>3, <3>2, <2>1, <1>2, <1>8
      <4>4. CASE k # "folds"
        <5>1. Fresh(First[j])
          BY <4>1, <4>4, <2>1 DEF ScannerInv, Published
        <5>2. p # "tokens" /\ First[j] \in Parts /\ First[j] # p
          BY <4>4, <2>1, <3>2, <1>8 DEF First, Last, Kinds, Parts
        <5>3. Fresh(First[j])'
          BY <5>1, <5>2, <1>16
        <5> QED
          BY <5>3, <4>2, <3>2, <2>1, <1>2
      <4> QED
        BY <4>3, <4>4
    <3> QED
      BY <3>1, <3>2, <1>6
  <2>2. CASE g # latest \/ j # k
    <3>1. op'[latest][j] = op[latest][j]
      BY <2>2, <1>2, <1>4
    <3>2. CASE p = "tokens" /\ <<g, k>> \notin overtaken
      <4>1. j \in {"symbols", "folds"}
        BY <3>2, <2>2, <1>5, <1>12 DEF Kinds
      <4> QED
        BY <4>1, <3>1, <3>2, <1>14
    <3>3. CASE ~(p = "tokens" /\ <<g, k>> \notin overtaken)
      <4>1. \A q \in Parts : Fresh(q) => Fresh(q)'
        BY <3>3, <1>15, <1>16
      <4>2. First[j] \in Parts /\ Last[j] \in Parts
        BY PartFacts
      <4> QED
        BY <4>1, <4>2, <3>1 DEF ScannerInv, Published
    <3> QED
      BY <3>2, <3>3
  <2> QED
    BY <2>1, <2>2
<1>21. TokensFit'
  <2> SUFFICES ASSUME NEW h \in Scans, NEW j \in {"symbols", "folds"},
                      op'[h][j] \in {"running", "first", "last"}, ~(h < latest)
               PROVE  seen[h][j] = copy[h] \/ "tokens" \in late'
    BY <1>1 DEF TokensFit, isCancelled
  <2>1. op[h][j] \in {"running", "first", "last"}
    BY <1>1, <1>2 DEF Kinds
  <2>2. seen[h][j] = copy[h] \/ "tokens" \in late
    BY <2>1 DEF ScannerInv, TokensFit, isCancelled
  <2>3. h = latest
    <3>1. ~(h > latest)
      BY <2>1 DEF ScannerInv, Future, Kinds
    <3> QED
      BY <3>1, <1>4, NumberFacts
  <2>4. p = "tokens" => <<g, k>> \in overtaken
    BY <2>1, <2>3, <1>14
  <2> QED
    BY <2>2, <2>4, <1>1
<1>22. ShownOrTold'
  <2>1. CASE p = "names"
    BY <2>1, <1>2, <1>7 DEF ShownOrTold
  <2>2. CASE p # "names"
    <3>1. results'["names"] = results["names"]
      BY <2>2, <1>11 DEF Parts
    <3>2. \A h \in Scans : op[h]["symbols"] = "posting" => op'[h]["symbols"] = "posting"
      BY <1>1, <1>2 DEF Kinds
    <3> QED
      BY <1>1, <3>1, <3>2 DEF ScannerInv, ShownOrTold
  <2> QED
    BY <2>1, <2>2
<1> QED
  BY <1>17, <1>18, <1>19, <1>20, <1>21, <1>22 DEF ScannerInv

LEMMA PostInv ==
  ASSUME ScannerInv, NEW g \in Scans, NEW k \in Kinds, Post(g, k)
  PROVE  ScannerInv'
<1>1. /\ op[g][k] = "posting" /\ Move(g, k, "done") /\ "done" \in Stages
      /\ pending' = (pending \/ k = "symbols")
      /\ seen' = [seen EXCEPT ![g][k] = 0]
      /\ UNCHANGED <<text, timer, latest, copy, results, shown, overtaken, late>>
  BY DEF Post, Stages
<1>2. /\ op' \in [Scans -> [Kinds -> Stages]]
      /\ op'[g][k] = "done"
      /\ \A h \in Scans, j \in Kinds : h # g \/ j # k => op'[h][j] = op[h][j]
  BY <1>1, MoveFacts DEF ScannerInv
<1>4. latest \in Scans /\ latest \in Nat /\ g \in Nat /\ g <= latest
  <2>1. ~(g > latest)
    BY <1>1 DEF ScannerInv, Future
  <2> QED
    BY <2>1, NumberFacts DEF ScannerInv, ScanTypeOK
<1>5. ScanTypeOK'
  <2>1. 0 \in Texts
    BY EditsAssumption DEF Texts
  <2>2. seen' \in [Scans -> [Kinds -> Texts]]
    BY <1>1, <2>1 DEF ScannerInv, ScanTypeOK
  <2>3. pending' \in BOOLEAN
    BY <1>1 DEF ScannerInv, ScanTypeOK
  <2> QED
    BY <1>1, <1>2, <2>2, <2>3 DEF ScannerInv, ScanTypeOK
<1>6. Scanned' /\ Future' /\ Superseded'
  <2>1. Scanned'
    BY <1>1 DEF ScannerInv, Scanned
  <2>2. Future'
    BY <1>1, <1>2, <1>4 DEF ScannerInv, Future, Kinds
  <2>3. Superseded'
    BY <1>1, <1>2 DEF ScannerInv, Superseded
  <2> QED
    BY <2>1, <2>2, <2>3
<1>7. Waits'
  BY <1>1, <1>2, <1>4 DEF ScannerInv, Waits, Kinds
<1>8. Published'
  <2>1. \A p : Fresh(p)' <=> Fresh(p)
    BY <1>1 DEF Fresh
  <2>2. \A j \in Kinds : op'[latest][j] \in {"posting", "done"} => op[latest][j] \in {"posting", "done"}
    BY <1>1, <1>2, <1>4
  <2>3. \A j \in Kinds : op'[latest][j] = "last" => op[latest][j] = "last"
    BY <1>2, <1>4
  <2> QED
    BY <1>1, <2>1, <2>2, <2>3 DEF ScannerInv, Published
<1>9. TokensFit'
  <2> SUFFICES ASSUME NEW h \in Scans, NEW j \in {"symbols", "folds"},
                      op'[h][j] \in {"running", "first", "last"}, ~(h < latest)
               PROVE  seen'[h][j] = copy[h] \/ "tokens" \in late
    BY <1>1 DEF TokensFit, isCancelled
  <2>1. j \in Kinds /\ (h # g \/ j # k)
    BY <1>2 DEF Kinds
  <2>2. op[h][j] = op'[h][j] /\ seen'[h][j] = seen[h][j]
    BY <2>1, <1>1, <1>2 DEF ScannerInv, ScanTypeOK
  <2> QED
    BY <2>2 DEF ScannerInv, TokensFit, isCancelled
<1>10. ShownOrTold'
  <2>1. CASE k = "symbols"
    BY <2>1, <1>1 DEF ShownOrTold
  <2>2. CASE k # "symbols"
    BY <2>2, <1>1, <1>2 DEF ScannerInv, ShownOrTold, Kinds
  <2> QED
    BY <2>1, <2>2
<1> QED
  BY <1>5, <1>6, <1>7, <1>8, <1>9, <1>10 DEF ScannerInv

LEMMA DidFinishInv == ScannerInv /\ DidFinishScanningSymbols => ScannerInv'
<1> SUFFICES ASSUME ScannerInv, DidFinishScanningSymbols PROVE ScannerInv'
  OBVIOUS
<1>1. /\ pending' = FALSE /\ shown' = results["names"].text
      /\ UNCHANGED <<text, timer, latest, copy, op, seen, results, overtaken, late>>
  BY DEF DidFinishScanningSymbols
<1>2. ScanTypeOK'
  <2>1. results["names"].text \in Texts
    BY DEF ScannerInv, ScanTypeOK, Parts
  <2> QED
    BY <1>1, <2>1 DEF ScannerInv, ScanTypeOK
<1>3. Scanned' /\ Future' /\ Superseded' /\ Waits'
  BY <1>1 DEF ScannerInv, Scanned, Future, Superseded, Waits
<1>4. Published' /\ TokensFit' /\ ShownOrTold'
  BY <1>1 DEF ScannerInv, Published, Fresh, TokensFit, isCancelled, ShownOrTold
<1> QED
  BY <1>2, <1>3, <1>4 DEF ScannerInv

THEOREM ScannerNextInv == ScannerInv /\ [ScanNext]_scanVars => ScannerInv'
<1> SUFFICES ASSUME ScannerInv, [ScanNext]_scanVars PROVE ScannerInv'
  OBVIOUS
<1>1. CASE Edit
  BY <1>1, EditInv
<1>2. CASE scanTokens
  BY <1>2, ScanInv
<1>3. CASE \E g \in Scans, k \in Kinds : Operation(g, k)
  BY <1>3, StartInv, CheckInv, PublishInv, PostInv DEF Operation
<1>4. CASE DidFinishScanningSymbols
  BY <1>4, DidFinishInv
<1>5. CASE UNCHANGED scanVars
  BY <1>5 DEF scanVars, ScannerInv, ScanTypeOK, Scanned, Future, Superseded, Waits, Published, Fresh,
              TokensFit, isCancelled, ShownOrTold
<1> QED
  BY <1>1, <1>2, <1>3, <1>4, <1>5 DEF ScanNext

THEOREM ScannerInvariance == ScanSpec => []ScannerInv
BY ScannerInitInv, ScannerNextInv, PTL DEF ScanSpec

(* The scanner's variables keep their types. *)
THEOREM ScannerTypeCorrect == ScanSpec => []ScanTypeOK
<1>1. ScannerInv => ScanTypeOK
  BY DEF ScannerInv
<1> QED
  BY <1>1, ScannerInvariance, PTL

(* For any number of edits: once nothing is left to do, everything the     *)
(* scanner holds is of the text on the screen, what a superseded operation *)
(* set after its last look excepted.                                       *)
THEOREM ResultsUpToDate == ScanSpec => []UpToDate
<1>1. ScannerInv => UpToDate
  <2> SUFFICES ASSUME ScannerInv, Quiet, NEW p \in Parts \ late
               PROVE  /\ results[p].text = text
                      /\ "tokens" \notin late => results[p].tokens = text
    BY DEF UpToDate
  <2>1. copy[latest] = text
    BY DEF ScannerInv, Scanned, Quiet
  <2>2. \A k \in Kinds : op[latest][k] = "done"
    BY DEF ScannerInv, ScanTypeOK, Future, Quiet
  <2>3. PICK k \in Kinds : p = First[k] \/ p = Last[k]
    BY DEF Parts, Kinds, First, Last
  <2>4. Fresh(p)
    BY <2>2, <2>3 DEF ScannerInv, Published
  <2> QED
    BY <2>1, <2>4 DEF Fresh
<1> QED
  BY <1>1, ScannerInvariance, PTL

(* The symbols and folds that are still wanted are looked up in the tokens *)
(* of their own text.                                                      *)
THEOREM TokensAlwaysFit == ScanSpec => []TokensFit
<1>1. ScannerInv => TokensFit
  BY DEF ScannerInv
<1> QED
  BY <1>1, ScannerInvariance, PTL

(* Once nothing is left to do the navigator shows what the scanner holds. *)
THEOREM NavigatorIsTold == ScanSpec => []NavigatorFollows
<1>1. ScannerInv => NavigatorFollows
  <2> SUFFICES ASSUME ScannerInv, Quiet PROVE shown = results["names"].text
    BY DEF NavigatorFollows
  <2>1. ~pending /\ \A g \in Scans : op[g]["symbols"] # "posting"
    BY DEF Quiet, Kinds
  <2> QED
    BY <2>1 DEF ScannerInv, ShownOrTold
<1> QED
  BY <1>1, ScannerInvariance, PTL

==============================================================================
