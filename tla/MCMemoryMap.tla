---------------------------- MODULE MCMemoryMap ----------------------------
(* A chip of 8 pages, where 0 and 1 are below the lower limit, 5 and up    *)
(* above the upper, 6 is not privileged; 4 pages of RAM.                   *)
EXTENDS MemoryMap

MCPlaces == {<<0, 0>>, <<1, 255>>, <<2, 0>>, <<3, 255>>}

MCSelects == {3, 6, 15, 128 + 1, 128 + 6}

MCBounds == {2, 70}

MCChunks == {20}

=============================================================================
