--------------------------------- MODULE Lcd ---------------------------------
(***************************************************************************)
(* The display memory of the LCD and the cursor that the two ports of the  *)
(* program move over it.  A word is the 8 bits of one byte, or 6 bits that *)
(* lie in one byte or in two: 6-bit words are packed, and each is written  *)
(* through a mask over the two bytes its first bit and the next ones are   *)
(* in.  A word is read one access late, through last_read.                 *)
(*                                                                         *)
(* The memory is the set of its bits that are on, counted from the left of *)
(* the top row; a word on the bus is the set of its bits, 0 the lowest.    *)
(* Accesses that come too early are ignored by the code and left out, as   *)
(* are contrast, z and the queue of frames that the window draws.          *)
(***************************************************************************)
EXTENDS Integers

CONSTANTS Rows,       \* operands of SXE, set X address
          Columns,    \* operands of SYE, set Y address
          Values,     \* words the program writes, each a set of bits
          MaxSteps    \* bound on the commands and accesses

Height == 64   \* LCD_HEIGHT

MemWidth == 16   \* LCD_MEM_WIDTH

ASSUME LcdAssumption ==
  /\ Rows \subseteq 0 .. 63 /\ Columns \subseteq 0 .. 31
  /\ Values \subseteq SUBSET (0 .. 7)
  /\ MaxSteps \in Nat

Modes == {"X_DOWN", "X_UP", "Y_DOWN", "Y_UP"}

VARIABLES word_len,     \* 8 or 6 bits
          cursor_mode,
          x, y,         \* the row, and the word in it
          display,      \* the bits that are on
          last_read,
          outside,      \* an access has left the display: anything may follow
          drawn,        \* history: what was last written where, in this word_len
          odd,          \* history: a write that was not one word inside a row
          steps         \* history: the steps taken

lcdVars == <<word_len, cursor_mode, x, y, display, last_read, outside, drawn, odd, steps>>

LcdTypeOK ==
  /\ word_len \in {6, 8} /\ cursor_mode \in Modes
  /\ x \in 1 - Height .. Height - 1 /\ y \in 0 .. 31
  /\ display \subseteq 0 .. 8 * MemWidth * Height - 1
  /\ last_read \subseteq 0 .. 7
  /\ outside \in BOOLEAN /\ odd \in BOOLEAN
  /\ DOMAIN drawn \subseteq (0 .. Height - 1) \X (0 .. 31)
  /\ \A c \in DOMAIN drawn : drawn[c] \subseteq 0 .. 7
  /\ steps \in 0 .. MaxSteps

(* LCD_reset. *)
LcdInit ==
  /\ word_len = 8 /\ cursor_mode = "Y_UP"
  /\ x = 0 /\ y = 0
  /\ display = {} /\ last_read = {}
  /\ outside = FALSE /\ drawn = << >> /\ odd = FALSE
  /\ steps = 0

-----------------------------------------------------------------------------
(* The byte of the y axis is not wrapped. *)
LongCursor(row, col) == 8 * (row * MemWidth + (IF word_len = 8 THEN col ELSE (6 * col) \div 8))

(* The first bit of the byte at the cursor.  The remainder of a negative   *)
(* row is the row itself.                                                  *)
Cursor(row, col) ==
  8 * (row * MemWidth + ((IF word_len = 8 THEN col ELSE (6 * col) \div 8) % MemWidth))

(* What the bits of a word are shifted by, from the left of the byte. *)
Indent(col) == IF word_len = 8 THEN 0 ELSE (6 * col) % 8

(* Where bit i of a word is: bits 6 and 7 of a 6-bit word are to its left. *)
Place(row, col, i) == Cursor(row, col) + Indent(col) + word_len - 1 - i

(* The bytes an access reads or writes. *)
Touched(row, col) ==
  Cursor(row, col) .. Cursor(row, col) + (IF word_len = 8 THEN 7 ELSE 15)

Word(row, col) == {i \in 0 .. word_len - 1 : Place(row, col, i) \in display}

(* The mask is the word's own bits, not shifted. *)
UnshiftedWritten(row, col, bus) ==
  (display \ {Cursor(row, col) + 15 - i : i \in 0 .. word_len - 1})
    \cup ({Place(row, col, i) : i \in bus} \cap Touched(row, col))

(* The mask clears the word's bits; what is put in is not masked. *)
Written(row, col, bus) ==
  (display \ {Place(row, col, i) : i \in 0 .. word_len - 1})
    \cup ({Place(row, col, i) : i \in bus} \cap Touched(row, col))

InDisplay == Touched(x, y) \subseteq 0 .. 8 * MemWidth * Height - 1

(* The word lies in its row, shares no bit with another, and is all of bus. *)
Regular(bus) == y * word_len + word_len <= 8 * MemWidth /\ bus \subseteq 0 .. word_len - 1

(* In C, the remainder of the sum with the sign of the sum. *)
Remainder(a, b) == IF a < 0 THEN -((-a) % b) ELSE a % b

LCD_advance_cursor ==
  LET bound == IF word_len = 8 THEN 15 ELSE 19
  IN  CASE cursor_mode = "X_UP"   -> x' = Remainder(x + 1, Height) /\ y' = y
        [] cursor_mode = "X_DOWN" -> x' = Remainder(x - 1, Height) /\ y' = y
        [] cursor_mode = "Y_UP"   -> x' = x /\ y' = IF y + 1 >= bound THEN 0 ELSE y + 1
        [] cursor_mode = "Y_DOWN" -> x' = x /\ y' = IF y <= 0 THEN bound - 1 ELSE y - 1

-----------------------------------------------------------------------------
(* LCD_command. *)
SetWordLength(n) ==
  /\ word_len' = n /\ drawn' = << >>
  /\ UNCHANGED <<cursor_mode, x, y, display, last_read, outside, odd>>

SetMode(m) ==
  /\ cursor_mode' = m
  /\ UNCHANGED <<word_len, x, y, display, last_read, outside, drawn, odd>>

SetX(r) ==
  /\ x' = r
  /\ UNCHANGED <<word_len, cursor_mode, y, display, last_read, outside, drawn, odd>>

SetY(c) ==
  /\ y' = c
  /\ UNCHANGED <<word_len, cursor_mode, x, display, last_read, outside, drawn, odd>>

(* LCD_data, for an output. *)
Write(bus) ==
  /\ InDisplay
  /\ display' = Written(x, y, bus)
  /\ drawn' = [c \in DOMAIN drawn \cup {<<x, y>>} |-> IF c = <<x, y>> THEN bus ELSE drawn[c]]
  /\ odd' = (odd \/ ~Regular(bus))
  /\ LCD_advance_cursor
  /\ UNCHANGED <<word_len, cursor_mode, last_read, outside>>

(* And for an input, which is given the word before. *)
Read ==
  /\ InDisplay
  /\ last_read' = Word(x, y)
  /\ LCD_advance_cursor
  /\ UNCHANGED <<word_len, cursor_mode, display, outside, drawn, odd>>

Stray ==
  /\ ~InDisplay
  /\ outside' = TRUE
  /\ UNCHANGED <<word_len, cursor_mode, x, y, display, last_read, drawn, odd>>

LcdNext ==
  /\ steps < MaxSteps /\ ~outside
  /\ steps' = steps + 1
  /\ \/ \E n \in {6, 8} : SetWordLength(n)
     \/ \E m \in Modes : SetMode(m)
     \/ \E r \in Rows : SetX(r)
     \/ \E c \in Columns : SetY(c)
     \/ \E bus \in Values : Write(bus)
     \/ Read
     \/ Stray

LcdSpec == LcdInit /\ [][LcdNext]_lcdVars

-----------------------------------------------------------------------------
(***************************************************************************)
(* The words a program has written are the words that are there, whatever  *)
(* it wrote next to them: 6-bit words that share bytes do not disturb each *)
(* other.  This is so until the program writes a word that is not inside   *)
(* its row, or one with its bits 6 and 7 set, which are not masked and run *)
(* into the word to the left.                                              *)
(***************************************************************************)
WordsKept == ~odd => \A c \in DOMAIN drawn : Word(c[1], c[2]) = drawn[c]

(***************************************************************************)
(* The cursor leaves the display only above the first row, where counting  *)
(* down takes it, or below the last row, in the two 6-bit words that begin *)
(* in the last byte of a row, which is accessed together with the next.    *)
(***************************************************************************)
Inside == outside => x < 0 \/ (x = Height - 1 /\ word_len = 6 /\ y \in {20, 21})

=============================================================================
