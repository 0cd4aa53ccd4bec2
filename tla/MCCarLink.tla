----------------------------- MODULE MCCarLink -----------------------------
(***************************************************************************)
(* CarLink with one packet, whose set point looks like the 'I' that opens  *)
(* the link.                                                               *)
(* The write FIFO holds a version and a response and no byte more, the     *)
(* read FIFO a packet and what a reconnection puts before it.              *)
(***************************************************************************)
EXTENDS CarLink

MCByte    == {0, 1, InitChar, StartChar}
MCPayload == {<< 1, 1, InitChar >>}
=============================================================================
