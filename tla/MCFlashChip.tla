---------------------------- MODULE MCFlashChip ----------------------------
(* The smallest chip with a 64K sector below the split one.  The program   *)
(* writes the cycles of every command, and some bytes also elsewhere.      *)
EXTENDS FlashChip

hBB == {7, 5, 4, 3, 1, 0}

MCContents == {hBB}

MCProbed == {1, 13}

MCWrites ==
  {w("0AAA", d) : d \in {hAA, hA0, h80, h90, h20, h10}} \cup
  {w("0555", h55)} \cup
  {w("other", d) : d \in {hA0, h90, h30, hF0}}

=============================================================================
