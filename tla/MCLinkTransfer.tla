--------------------------- MODULE MCLinkTransfer ---------------------------
(* Two variables in a group, an application of two blocks, a certificate   *)
(* and a variable without data.                                            *)
EXTENDS LinkTransfer

MCFiles ==
  <<[kind |-> "var", parts |-> <<2, 1>>], [kind |-> "app", parts |-> <<2, 2>>],
    [kind |-> "other", parts |-> <<>>], [kind |-> "var", parts |-> <<0>>]>>

MCModels == {"TI_82", "TI_83", "TI_85", "TI_83P"}

(* Two transfers of one variable each. *)
MCVariable == <<[kind |-> "var", parts |-> <<1>>]>>

MCModel == {"TI_83P"}

=============================================================================
