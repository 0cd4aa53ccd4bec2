---------------------------- MODULE MCCarHandler ----------------------------
(***************************************************************************)
(* CarHandler with half speed as the one step between 0 and 1, a distance  *)
(* in every region of the braking rule, a command out of range, and the    *)
(* sensors where carserver.cfg has them.                                   *)
(***************************************************************************)
EXTENDS CarHandler

MCSpeed    == {-3, -2, -1, 0, 2}
MCDistance == {-1, 0, 2, 4}
=============================================================================
