---------------------------- MODULE MCInterrupts ----------------------------
(* Everything off but ON, one timer each with and without ON. *)
EXTENDS Interrupts

MCMasks == {{"on"}, {"timer1", "power"}, {"on", "timer2", "power"}}

=============================================================================
