--------------------------- MODULE MotorController ---------------------------
(***************************************************************************)
(* The motor section of the firmware's main loop with its control law      *)
(* (Nanoboard/main.c, lines 284-370): a PID controller in machine integers *)
(* with a dead zone, a clamp and a stall counter.  One Round is one        *)
(* execution of the section; between rounds the link may change the        *)
(* command, and the wheel turns as it likes.                               *)
(*                                                                         *)
(* The integral is bounded by nothing but the width of int: HalfRange is   *)
(* 2^31 in the code, and sums wrap around it.                              *)
(***************************************************************************)
EXTENDS Integers

CONSTANTS
  KP, KI, KD,    \* P_Parameter 30, I_Parameter 50, D_Parameter 1
  DeadDuty,      \* 10000: a duty up to it is switched off
  MaxDuty,       \* 99000: the clamp
  HalfRange,     \* 2^31: int is -HalfRange .. HalfRange-1
  SetPoint,      \* the set points W of the packets
  Speed,         \* what the encoder and the direction sensor can read
  StallLimit     \* 100

ASSUME ControllerAssumption ==
  /\ KP \in Nat /\ KI \in Nat /\ KD \in Nat
  /\ HalfRange \in Nat \ {0}
  /\ DeadDuty \in Nat /\ MaxDuty \in Nat
  /\ DeadDuty < MaxDuty /\ MaxDuty < HalfRange
  /\ SetPoint \subseteq Int /\ 0 \in SetPoint
  /\ Speed \subseteq Int /\ 0 \in Speed
  /\ StallLimit \in Nat

VARIABLES
  cmd,        \* the command: W and the two flags of the last packet
  X,          \* outdat.values.X: the wheel's speed as last read
  prevW,      \* the set point of the last regulated round
  I,          \* outdat.values.I: the integral part
  duty,       \* outdat.values.duty: what motor_setting was given
  enable,     \* the direction motor_setting was given: 1 or 2
  enMotorController, setEnMotorwasoff, connection_broken_counter,
  outConnBroken

plant == << X, prevW, I, duty, enable >>
latch == << enMotorController, setEnMotorwasoff, connection_broken_counter,
            outConnBroken >>
vars  == << cmd, plant, latch >>

Command == [W : SetPoint, enConnBrokenCtr : BOOLEAN,
            setEnMotorController : BOOLEAN]

IntRange == -HalfRange .. (HalfRange - 1)

TypeOK ==
  /\ cmd \in Command
  /\ X \in Speed /\ prevW \in SetPoint
  /\ I \in IntRange
  /\ duty \in {0} \cup (DeadDuty + 1) .. MaxDuty
  /\ enable \in {1, 2}
  /\ enMotorController \in BOOLEAN /\ setEnMotorwasoff \in BOOLEAN
  /\ connection_broken_counter \in 0 .. StallLimit
  /\ outConnBroken \in BOOLEAN

Init ==
  /\ cmd \in [W : {0}, enConnBrokenCtr : BOOLEAN,
              setEnMotorController : {FALSE}]
  /\ X = 0 /\ prevW = 0 /\ I = 0 /\ duty = 0 /\ enable = 2
  /\ enMotorController = FALSE /\ setEnMotorwasoff = FALSE
  /\ connection_broken_counter = 0
  /\ outConnBroken \in BOOLEAN

-----------------------------------------------------------------------------

(* int arithmetic of the build: two's complement. *)
Wrap(n) == ((n + HalfRange) % (2 * HalfRange)) - HalfRange

(* abs() of the least int is the least int. *)
AbsInt(n) == IF n >= 0 \/ n = -HalfRange THEN n ELSE -n

(* Mutant of Clamp: no upper clamp. *)
ClampLow(n) == IF n <= DeadDuty THEN 0 ELSE n

(* Lines 324-327. *)
Clamp(n) == IF n <= DeadDuty THEN 0 ELSE IF n >= MaxDuty THEN MaxDuty ELSE n

(* Lines 300-315: the integral after a round that reads speed x, and the   *)
(* sum of the parts.  The derivative takes the old speed X and set point.  *)
Diff(x)     == cmd.W - x
Integral(x) == Wrap(I + Diff(x) * KI)
Sum(x)      == Wrap(Diff(x) * KP + Integral(x) + (Diff(x) - (prevW - X)) * KD)

(* Mutant of StallCount: only a duty beyond the clamp counts. *)
StallCountBeyond(d, x) ==
  IF ~cmd.enConnBrokenCtr THEN connection_broken_counter
  ELSE IF d > MaxDuty /\ x = 0 THEN connection_broken_counter + 1
  ELSE 0

(* Lines 329-342. *)
StallCount(d, x) ==
  IF ~cmd.enConnBrokenCtr THEN connection_broken_counter
  ELSE IF d >= MaxDuty /\ x = 0 THEN connection_broken_counter + 1
  ELSE 0

(* Mutant of Trips: one round early. *)
TripsEarly(d, x) == cmd.enConnBrokenCtr /\ StallCount(d, x) >= StallLimit

Trips(d, x) == cmd.enConnBrokenCtr /\ StallCount(d, x) > StallLimit

(* Mutant of CountAfter: the counter survives the trip. *)
CountKept(d, x) == StallCount(d, x)

CountAfter(d, x) == IF Trips(d, x) THEN 0 ELSE StallCount(d, x)

Regulate(x) ==
  LET d == Clamp(AbsInt(Sum(x)))
  IN  /\ enMotorController
      /\ X' = x /\ prevW' = cmd.W
      /\ I' = Integral(x)
      /\ duty' = d
      /\ enable' = IF Sum(x) < 0 THEN 2 ELSE 1
      /\ enMotorController' = ~Trips(d, x)
      /\ connection_broken_counter' = CountAfter(d, x)
      /\ outConnBroken' = (outConnBroken \/ Trips(d, x))
      /\ UNCHANGED << cmd, setEnMotorwasoff >>

(* Lines 349-369: the controller is disabled. *)
Rest(x) ==
  LET setEn == cmd.setEnMotorController
      off   == setEnMotorwasoff \/ ~setEn
  IN  /\ ~enMotorController
      /\ X' = x
      /\ I' = 0 /\ duty' = 0
      /\ enMotorController' = (setEn /\ off)
      /\ setEnMotorwasoff' = (off /\ ~setEn)
      /\ UNCHANGED << cmd, prevW, enable, connection_broken_counter,
                      outConnBroken >>

Round == \E x \in Speed : Regulate(x) \/ Rest(x)

(* The link section of the loop replaces the command between two rounds.   *)
Receive(c) == cmd' = c /\ UNCHANGED << plant, latch >>

Next == Round \/ \E c \in Command : Receive(c)

Spec == Init /\ [][Next]_vars /\ WF_vars(Round)

-----------------------------------------------------------------------------

(* The duty as motor_setting's class. *)
DutyOf(d) == IF d = 0 THEN "off" ELSE IF d = MaxDuty THEN "max" ELSE "some"

Latch == INSTANCE MotorLatch WITH pwm <- DutyOf(duty)

(* The section with its arithmetic is the latch of MotorLatch: overflow,   *)
(* dead zone and clamp included, it enables, trips and stops the motor as  *)
(* that specification says.                                                *)
ImplementsLatch == Latch!MotorSpec

(* A wheel that stands still under a constant set point other than 0, with *)
(* the stall counter on, has its controller switched off: the integral     *)
(* carries the duty to the clamp and the counter carries it on from there  *)
(* (lines 304-305 and 328-342).                                            *)
StallEndsDrive ==
  (\E w \in SetPoint \ {0} :
      <>[](cmd.W = w /\ X = 0 /\ cmd.enConnBrokenCtr)) => []<>~enMotorController

(* Enabling starts from a fresh integral and a motor at rest (lines        *)
(* 352-354), whatever the integral was when the stall tripped: the duty    *)
(* before the first regulated round is 0 and that round cannot trip a      *)
(* counter left over from before.                                          *)
FreshStart ==
  [][~enMotorController /\ enMotorController'
       => I' = 0 /\ duty' = 0 /\ connection_broken_counter' = 0]_vars
=============================================================================
