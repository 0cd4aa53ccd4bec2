----------------------------- MODULE MotorLatch -----------------------------
(***************************************************************************)
(* The enabling and stall logic of the motor section of the firmware's     *)
(* main loop (Nanoboard/main.c, lines 284-370), with the control law       *)
(* abstracted to the class of the duty cycle it asks for: "off" (0),       *)
(* "some", or "max" (the clamp at 99000 of a period of 100000).  Module    *)
(* MotorController computes the duty from the PID law and implements this  *)
(* specification; module NanoBoard uses these actions as its motor step.   *)
(***************************************************************************)
EXTENDS Integers

CONSTANT StallLimit      \* main.c compares connection_broken_counter to 100

ASSUME StallLimitAssumption == StallLimit \in Nat

VARIABLES
  enMotorController,          \* outdat.values.enMotorController
  setEnMotorwasoff,           \* setEn was seen off since the last enabling
  connection_broken_counter,  \* saturated rounds without rotation
  outConnBroken,              \* outdat.values.connBroken: a stall was seen
  pwm                         \* the duty class last given to motor_setting

motorVars == << enMotorController, setEnMotorwasoff,
                connection_broken_counter, outConnBroken, pwm >>

DutyClass == {"off", "some", "max"}

MotorTypeOK ==
  /\ enMotorController \in BOOLEAN
  /\ setEnMotorwasoff \in BOOLEAN
  /\ connection_broken_counter \in 0 .. StallLimit
  /\ outConnBroken \in BOOLEAN
  /\ pwm \in DutyClass

(* outdat.values.connBroken is never initialised: any value is possible.   *)
MotorInit ==
  /\ enMotorController = FALSE
  /\ setEnMotorwasoff = FALSE
  /\ connection_broken_counter = 0
  /\ outConnBroken \in BOOLEAN
  /\ pwm = "off"

-----------------------------------------------------------------------------

(* The counter after a round at this duty; it is frozen, not cleared,      *)
(* while enConnBrokenCtr is off.                                           *)
StallCount(enCBC, duty, still) ==
  IF ~enCBC THEN connection_broken_counter
  ELSE IF duty = "max" /\ still THEN connection_broken_counter + 1
  ELSE 0

(* The controller is enabled: drive the motor and look for a stall.  The   *)
(* round that trips still drives the motor.                                *)
Regulate(enCBC, duty, still) ==
  LET count == StallCount(enCBC, duty, still)
      trips == enCBC /\ count > StallLimit
  IN  /\ enMotorController
      /\ enMotorController' = ~trips
      /\ connection_broken_counter' = IF trips THEN 0 ELSE count
      /\ outConnBroken' = (outConnBroken \/ trips)
      /\ pwm' = duty
      /\ UNCHANGED setEnMotorwasoff

(* Mutants of Enables: without being asked, and without the latch. *)
EnablesUnasked(setEn)   == setEnMotorwasoff \/ ~setEn
EnablesUnlatched(setEn) == setEn

(* Lines 366-369: setEn is on after it was seen off. *)
Enables(setEn) == setEn /\ (setEnMotorwasoff \/ ~setEn)

(* The controller is disabled: stop the motor, and enable it again only    *)
(* when setEn is on after it was seen off.                                 *)
Rest(setEn) ==
  /\ ~enMotorController
  /\ enMotorController' = Enables(setEn)
  /\ setEnMotorwasoff' = ((setEnMotorwasoff \/ ~setEn) /\ ~Enables(setEn))
  /\ pwm' = "off"
  /\ UNCHANGED << connection_broken_counter, outConnBroken >>

MotorRound(enCBC, setEn, duty, still) ==
  Regulate(enCBC, duty, still) \/ Rest(setEn)

MotorNext ==
  \E enCBC, setEn, still \in BOOLEAN, duty \in DutyClass :
     MotorRound(enCBC, setEn, duty, still)

MotorSpec == MotorInit /\ [][MotorNext]_motorVars
=============================================================================
