-------------------------------- MODULE MCLcd --------------------------------
(* The first and the last row, the ends of the rows in both word lengths,  *)
(* and a word with and one without the two highest bits.                   *)
EXTENDS Lcd

MCRows == {0, 63}

MCColumns == {0, 2, 14, 16, 20, 21}

MCValues == {{0, 2, 5}, 0 .. 7}

=============================================================================
