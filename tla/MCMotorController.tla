-------------------------- MODULE MCMotorController --------------------------
(***************************************************************************)
(* MotorController with small gains and an int of six bits: the integral *)
(* reaches the clamp in a few rounds of a standing wheel, and reaches the  *)
(* end of int when the wheel turns but never as fast as it should.         *)
(***************************************************************************)
EXTENDS MotorController

MCSetPoint == {-1, 0, 1}
MCSpeed    == {-1, 0, 1}
=============================================================================
