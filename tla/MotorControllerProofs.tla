------------------------ MODULE MotorControllerProofs ------------------------
(***************************************************************************)
(* The motor section with its machine arithmetic implements the latch of   *)
(* MotorLatch, for every choice of gains, dead zone, clamp, width of int   *)
(* and stall limit.                                                        *)
(***************************************************************************)
EXTENDS MotorController, TLAPS

(* int arithmetic stays in int. *)
LEMMA WrapRange ==
  ASSUME NEW n \in Int
  PROVE  Wrap(n) \in IntRange
<1>1. HalfRange \in Nat \ {0}
  BY ControllerAssumption
<1>2. (n + HalfRange) % (2 * HalfRange) \in 0 .. (2 * HalfRange - 1)
  BY <1>1
<1>3. QED
  BY <1>1, <1>2 DEF Wrap, IntRange

(* A duty after the clamp is 0, MaxDuty or between the dead zone and it.   *)
LEMMA ClampRange ==
  ASSUME NEW n \in Int
  PROVE  Clamp(n) \in {0} \cup (DeadDuty + 1) .. MaxDuty
BY ControllerAssumption DEF Clamp

(* What the arithmetic works on. *)
LEMMA Ints ==
  ASSUME TypeOK
  PROVE  /\ KP \in Int /\ KI \in Int /\ KD \in Int
         /\ HalfRange \in Nat \ {0}
         /\ cmd.W \in Int /\ X \in Int /\ prevW \in Int /\ I \in Int
<1>1. /\ cmd \in Command /\ X \in Speed /\ prevW \in SetPoint
      /\ I \in IntRange
  BY DEF TypeOK
<1>2. cmd.W \in SetPoint
  BY <1>1 DEF Command
<1>3. SetPoint \subseteq Int /\ Speed \subseteq Int /\ HalfRange \in Nat \ {0}
  BY ControllerAssumption
<1>4. I \in Int
  BY <1>1, <1>3 DEF IntRange
<1>5. cmd.W \in Int /\ X \in Int /\ prevW \in Int
  BY <1>1, <1>2, <1>3
<1>6. QED
  BY <1>3, <1>4, <1>5, ControllerAssumption

LEMMA RoundInts ==
  ASSUME TypeOK, NEW x \in Speed
  PROVE  /\ Integral(x) \in IntRange
         /\ Sum(x) \in Int
         /\ AbsInt(Sum(x)) \in Int
<1>1. /\ KP \in Int /\ KI \in Int /\ KD \in Int /\ HalfRange \in Nat \ {0}
      /\ cmd.W \in Int /\ x \in Int /\ X \in Int /\ prevW \in Int /\ I \in Int
  BY Ints, ControllerAssumption
<1>2. Diff(x) \in Int
  BY <1>1 DEF Diff
<1>3. Integral(x) \in IntRange
  <2>1. I + Diff(x) * KI \in Int
    BY <1>1, <1>2
  <2>2. QED
    BY <2>1, WrapRange DEF Integral
<1>4. Sum(x) \in IntRange
  <2>1. Diff(x) * KP + Integral(x) + (Diff(x) - (prevW - X)) * KD \in Int
    BY <1>1, <1>2, <1>3 DEF IntRange
  <2>2. QED
    BY <2>1, WrapRange DEF Sum
<1>5. QED
  BY <1>1, <1>3, <1>4 DEF IntRange, AbsInt

-----------------------------------------------------------------------------

LEMMA TypeInit == Init => TypeOK
<1>1. 0 \in 0 .. StallLimit /\ 0 \in SetPoint /\ 0 \in Speed /\ 0 \in IntRange
  BY ControllerAssumption DEF IntRange
<1>2. Init => cmd \in Command
  BY <1>1 DEF Init, Command
<1>3. QED
  BY <1>1, <1>2, Zenon DEF Init, TypeOK

LEMMA TypeNext == TypeOK /\ [Next]_vars => TypeOK'
<1> SUFFICES ASSUME TypeOK, [Next]_vars
             PROVE  TypeOK'
  OBVIOUS
<1>1. ASSUME NEW x \in Speed, Regulate(x) PROVE TypeOK'
  <2>1. /\ I' \in IntRange
        /\ duty' \in {0} \cup (DeadDuty + 1) .. MaxDuty
    BY <1>1, RoundInts, ClampRange DEF Regulate
  <2>2. connection_broken_counter' \in 0 .. StallLimit
    <3>1. StallLimit \in Nat
      BY ControllerAssumption
    <3>2. QED
      BY <1>1, <3>1
      DEF Regulate, CountAfter, Trips, StallCount, TypeOK, Command
  <2>3. /\ X' \in Speed /\ prevW' \in SetPoint /\ enable' \in {1, 2}
        /\ enMotorController' \in BOOLEAN /\ outConnBroken' \in BOOLEAN
    BY <1>1 DEF Regulate, TypeOK, Command, Trips
  <2>4. UNCHANGED << cmd, setEnMotorwasoff >>
    BY <1>1 DEF Regulate
  <2>5. QED
    BY <2>1, <2>2, <2>3, <2>4 DEF TypeOK
<1>2. ASSUME NEW x \in Speed, Rest(x) PROVE TypeOK'
  <2>1. 0 \in IntRange
    BY ControllerAssumption DEF IntRange
  <2>2. enMotorController' \in BOOLEAN /\ setEnMotorwasoff' \in BOOLEAN
    BY <1>2 DEF Rest, TypeOK, Command
  <2>3. QED
    BY <1>2, <2>1, <2>2 DEF Rest, TypeOK
<1>3. ASSUME NEW c \in Command, Receive(c) PROVE TypeOK'
  BY <1>3 DEF Receive, plant, latch, TypeOK
<1>4. CASE UNCHANGED vars
  BY <1>4 DEF vars, plant, latch, TypeOK
<1>5. QED
  BY <1>1, <1>2, <1>3, <1>4 DEF Next, Round

(* The integral stays an int and the duty is 0 or between the dead zone    *)
(* and the clamp, whatever overflows on the way (lines 300-327).           *)
THEOREM TypeCorrect == Spec => []TypeOK
BY TypeInit, TypeNext, PTL DEF Spec

-----------------------------------------------------------------------------

(* One round is a round of the latch: its stall count sees the clamp       *)
(* exactly when the duty class is "max".                                   *)
LEMMA RegulateRefines ==
  ASSUME TypeOK, NEW x \in Speed, Regulate(x)
  PROVE  Latch!MotorNext
<1> DEFINE d == Clamp(AbsInt(Sum(x)))
<1>1. d \in {0} \cup (DeadDuty + 1) .. MaxDuty
  BY RoundInts, ClampRange
<1>2. (d >= MaxDuty) = (DutyOf(d) = "max")
  BY <1>1, ControllerAssumption DEF DutyOf
<1>3. DutyOf(d) \in Latch!DutyClass
  BY DEF DutyOf, Latch!DutyClass
<1>4. cmd.enConnBrokenCtr \in BOOLEAN
  BY DEF TypeOK, Command
<1>5. StallCount(d, x)
        = Latch!StallCount(cmd.enConnBrokenCtr, DutyOf(d), x = 0)
  BY <1>2 DEF StallCount, Latch!StallCount
<1>6. duty' = d /\ DutyOf(duty)' = DutyOf(d)
  BY DEF Regulate, DutyOf
<1>7. Latch!Regulate(cmd.enConnBrokenCtr, DutyOf(d), x = 0)
  BY <1>5, <1>6 DEF Regulate, CountAfter, Trips, Latch!Regulate
<1>8. QED
  BY <1>3, <1>4, <1>7 DEF Latch!MotorNext, Latch!MotorRound

LEMMA RestRefines ==
  ASSUME TypeOK, NEW x \in Speed, Rest(x)
  PROVE  Latch!MotorNext
<1>1. cmd.setEnMotorController \in BOOLEAN
  BY DEF TypeOK, Command
<1>2. DutyOf(duty)' = "off"
  BY DEF Rest, DutyOf
<1>3. Latch!Rest(cmd.setEnMotorController)
  BY <1>2 DEF Rest, Latch!Rest, Latch!Enables
<1>4. "off" \in Latch!DutyClass
  BY DEF Latch!DutyClass
<1>5. QED
  BY <1>1, <1>3, <1>4 DEF Latch!MotorNext, Latch!MotorRound

(* The motor section implements the latch (ImplementsLatch of              *)
(* MotorController): every round is a round of it, and a new command       *)
(* changes nothing it speaks of.                                           *)
THEOREM Refinement == Spec => ImplementsLatch
<1>1. Init => Latch!MotorInit
  BY DEF Init, Latch!MotorInit, DutyOf
<1>2. TypeOK /\ [Next]_vars => [Latch!MotorNext]_(Latch!motorVars)
  <2> SUFFICES ASSUME TypeOK, [Next]_vars
               PROVE  [Latch!MotorNext]_(Latch!motorVars)
    OBVIOUS
  <2>1. CASE Round
    BY <2>1, RegulateRefines, RestRefines DEF Round
  <2>2. ASSUME NEW c \in Command, Receive(c)
        PROVE  UNCHANGED Latch!motorVars
    BY <2>2 DEF Receive, plant, latch, Latch!motorVars, DutyOf
  <2>3. CASE UNCHANGED vars
    BY <2>3 DEF vars, plant, latch, Latch!motorVars, DutyOf
  <2>4. QED
    BY <2>1, <2>2, <2>3 DEF Next
<1>3. QED
  BY <1>1, <1>2, TypeCorrect, PTL DEF Spec, ImplementsLatch, Latch!MotorSpec

-----------------------------------------------------------------------------

(* The counter is 0 whenever the controller is off: only a trip switches   *)
(* it off, and a trip clears the counter.                                  *)
CounterAtRest == ~enMotorController => connection_broken_counter = 0

(* Every enabling starts from duty 0, a fresh integral and a cleared       *)
(* counter (FreshStart of MotorController).                                *)
THEOREM FreshStartHolds == Spec => FreshStart
<1>1. Init => CounterAtRest
  BY DEF Init, CounterAtRest
<1>2. CounterAtRest /\ [Next]_vars => CounterAtRest'
  <2> SUFFICES ASSUME CounterAtRest, [Next]_vars
               PROVE  CounterAtRest'
    OBVIOUS
  <2>1. ASSUME NEW x \in Speed, Regulate(x) PROVE CounterAtRest'
    BY <2>1 DEF Regulate, CountAfter, CounterAtRest
  <2>2. ASSUME NEW x \in Speed, Rest(x) PROVE CounterAtRest'
    BY <2>2 DEF Rest, CounterAtRest
  <2>3. CASE UNCHANGED latch
    BY <2>3 DEF latch, CounterAtRest
  <2>4. QED
    BY <2>1, <2>2, <2>3 DEF Next, Round, Receive, vars
<1>3. CounterAtRest /\ [Next]_vars
        => [~enMotorController /\ enMotorController'
              => I' = 0 /\ duty' = 0 /\ connection_broken_counter' = 0]_vars
  <2> SUFFICES ASSUME CounterAtRest, [Next]_vars,
                      ~enMotorController, enMotorController'
               PROVE  I' = 0 /\ duty' = 0 /\ connection_broken_counter' = 0
    OBVIOUS
  <2>1. PICK x \in Speed : Rest(x)
    BY DEF Next, Round, Regulate, Receive, latch, vars
  <2>2. QED
    BY <2>1 DEF Rest, CounterAtRest
<1>4. QED
  BY <1>1, <1>2, <1>3, PTL DEF Spec, FreshStart

-----------------------------------------------------------------------------
(* The variant behind StallEndsDrive.                                      *)

(* The wheel stands under a constant command that counts stalls. *)
Stalled ==
  /\ enMotorController /\ cmd.enConnBrokenCtr /\ cmd.W # 0
  /\ prevW = cmd.W /\ X = 0

(* The integral and the sum of the next round of such a wheel, as long as  *)
(* they are not too large for an int; and what the sum lacks to the clamp. *)
NextI == I + cmd.W * KI
Push  == cmd.W * KP + NextI
Roomy == NextI \in IntRange /\ Push \in IntRange \ {-HalfRange}
Far   == IF cmd.W > 0 THEN MaxDuty - Push ELSE MaxDuty + Push

(* Every round in which the wheel still stands brings the trip nearer:     *)
(* below the clamp the integral carries the sum on towards it, and does so *)
(* past the dead zone and from the other side of 0 as well, and from the   *)
(* clamp on every round counts (lines 300-342).                            *)
StallNears ==
  [][Round /\ Stalled /\ Roomy /\ X' = 0 =>
       \/ ~enMotorController'
       \/ /\ Stalled' /\ Far' < Far
          /\ Far <= 0 =>
               /\ duty' = MaxDuty
               /\ connection_broken_counter' =
                    connection_broken_counter + 1]_vars

LEMMA WrapFits ==
  ASSUME NEW n \in IntRange
  PROVE  Wrap(n) = n
<1>1. HalfRange \in Nat \ {0} /\ n \in Int
        /\ n + HalfRange \in 0 .. (2 * HalfRange - 1)
  BY ControllerAssumption DEF IntRange
<1>2. \A m \in Nat, k \in Nat : k < m => k % m = k
  OBVIOUS
<1>3. (n + HalfRange) % (2 * HalfRange) = n + HalfRange
  BY <1>1, <1>2
<1>4. QED
  BY <1>1, <1>3 DEF Wrap

(* What a round of a standing wheel computes. *)
LEMMA StalledRound ==
  ASSUME TypeOK, Stalled, Roomy
  PROVE  Integral(0) = NextI /\ Sum(0) = Push
<1>1. /\ cmd.W \in Int /\ I \in Int
      /\ KP \in Int /\ KI \in Int /\ KD \in Int
  BY Ints
<1>2. Diff(0) = cmd.W
  BY <1>1 DEF Diff
<1>3. Integral(0) = NextI
  BY <1>2, WrapFits DEF Integral, NextI, Roomy
<1>4. (Diff(0) - (prevW - X)) * KD = 0
  <2>1. Diff(0) - (prevW - X) = 0
    BY <1>1, <1>2 DEF Stalled
  <2>2. QED
    BY <1>1, <2>1
<1>5. NextI \in Int /\ cmd.W * KP \in Int
  BY <1>1 DEF NextI
<1>6. Sum(0) = Wrap(Push)
  BY <1>2, <1>3, <1>4, <1>5 DEF Sum, Push
<1>7. QED
  BY <1>3, <1>6, WrapFits DEF Roomy

LEMMA StallStep ==
  ASSUME KI > 0, TypeOK, Regulate(0), Stalled, Roomy
  PROVE  \/ ~enMotorController'
         \/ /\ Stalled' /\ Far' < Far
            /\ Far <= 0 =>
                 /\ duty' = MaxDuty
                 /\ connection_broken_counter' =
                      connection_broken_counter + 1
<1> DEFINE q == cmd.W * KI
           d == Clamp(AbsInt(Sum(0)))
<1>1. /\ cmd' = cmd /\ X' = 0 /\ prevW' = cmd.W /\ I' = NextI
      /\ duty' = d
      /\ enMotorController' = ~Trips(d, 0)
      /\ connection_broken_counter' = CountAfter(d, 0)
  BY StalledRound DEF Regulate
<1>2. cmd.W \in Int /\ I \in Int /\ KP \in Int /\ KI \in Int
  BY Ints
<1>3. /\ q \in Int /\ cmd.W * KP \in Int
      /\ NextI \in Int /\ Push \in Int
  BY <1>2 DEF NextI, Push
<1>4. (cmd.W > 0 => q > 0) /\ (cmd.W < 0 => q < 0)
  BY <1>2
<1>5. Push' = Push + q
  <2>1. NextI' = NextI + q
    BY <1>1 DEF NextI
  <2>2. Push' = cmd.W * KP + NextI'
    BY <1>1 DEF Push
  <2> HIDE DEF q
  <2>3. QED
    BY <1>3, <2>1, <2>2 DEF Push
<1>6. Far' < Far
  <2>1. cmd.W > 0 \/ cmd.W < 0
    BY <1>2 DEF Stalled
  <2>2. Far' = IF cmd.W > 0 THEN MaxDuty - Push' ELSE MaxDuty + Push'
    BY <1>1 DEF Far
  <2> HIDE DEF q
  <2>3. QED
    BY <1>2, <1>3, <1>4, <1>5, <2>1, <2>2, ControllerAssumption DEF Far
<1>7. ASSUME Far <= 0 PROVE d = MaxDuty
  <2>1. Push >= MaxDuty \/ -Push >= MaxDuty
    BY <1>3, <1>7, ControllerAssumption DEF Far
  <2>2. AbsInt(Push) >= MaxDuty /\ AbsInt(Push) \in Int
    BY <1>3, <2>1, ControllerAssumption DEF AbsInt, Roomy
  <2>3. Clamp(AbsInt(Push)) = MaxDuty
    BY <2>2, ControllerAssumption DEF Clamp
  <2>4. QED
    BY <2>3, StalledRound
<1>8. ASSUME Far <= 0, ~Trips(d, 0)
      PROVE  connection_broken_counter' = connection_broken_counter + 1
  <2>1. d = MaxDuty /\ MaxDuty >= MaxDuty
    BY <1>7, <1>8, ControllerAssumption
  <2> HIDE DEF d
  <2>2. QED
    BY <1>1, <1>8, <2>1 DEF CountAfter, StallCount, Stalled
<1>9. CASE Trips(d, 0)
  BY <1>1, <1>9
<1>10. CASE ~Trips(d, 0)
  <2>1. Stalled'
    BY <1>1, <1>10 DEF Stalled
  <2>2. QED
    BY <1>1, <1>6, <1>7, <1>8, <1>10, <2>1
<1>11. QED
  BY <1>9, <1>10

(* With an integral part at all, no wheel stands still for ever under a    *)
(* controller that is on and does not get nearer to be switched off.       *)
THEOREM StallNearsHolds ==
  ASSUME KI > 0
  PROVE  Spec => StallNears
<1>1. TypeOK /\ [Next]_vars =>
        [Round /\ Stalled /\ Roomy /\ X' = 0 =>
           \/ ~enMotorController'
           \/ /\ Stalled' /\ Far' < Far
              /\ Far <= 0 =>
                   /\ duty' = MaxDuty
                   /\ connection_broken_counter' =
                        connection_broken_counter + 1]_vars
  <2> SUFFICES ASSUME TypeOK, Round, Stalled, Roomy, X' = 0
               PROVE  \/ ~enMotorController'
                      \/ /\ Stalled' /\ Far' < Far
                         /\ Far <= 0 =>
                              /\ duty' = MaxDuty
                              /\ connection_broken_counter' =
                                   connection_broken_counter + 1
    OBVIOUS
  <2>1. Regulate(0)
    BY DEF Round, Regulate, Rest, Stalled
  <2>2. QED
    BY <2>1, StallStep
<1>2. QED
  BY <1>1, TypeCorrect, PTL DEF Spec, StallNears
=============================================================================
