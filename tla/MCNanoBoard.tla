----------------------------- MODULE MCNanoBoard -----------------------------
(***************************************************************************)
(* NanoBoard on a small board: two rounds to the timeout, two stalled      *)
(* rounds to a trip, FIFOs of a packet and a byte.  Three byte values are  *)
(* enough: 'I' and 'S' also occur inside payloads, where they are flags    *)
(* that are on and set points other than 0.                                *)
(***************************************************************************)
EXTENDS NanoBoard

MCByte == {0, InitChar, StartChar}
=============================================================================
