--------------------------- MODULE MCVirtualLink ---------------------------
(* Transfers of a few bytes between the PC and one calculator. *)
EXTENDS VirtualLink

(* LINK_STEP is one to three instructions; LINK_DELAY is at least one round *)
(* of the skip count.                                                       *)
MCStepLens == 1 .. SkipFactor

MCDelayLens == SkipFactor .. SkipFactor + 1

(* What is promised of the bytes ends with the first disturbance.  What     *)
(* follows it is explored for two bytes, sent by the PC or written out of  *)
(* turn: enough for a file after one that failed in the middle of a byte.  *)
SmallDisturbance == disturbed => Len(sent["calc"]) + Len(sent["pc"]) <= 2

=============================================================================
