-------------------------- MODULE UltrasoundProofs --------------------------
(***************************************************************************)
(* The safety properties of Ultrasound for every length of the trigger     *)
(* pulse and of an echo, and every gap between two calls.                  *)
(***************************************************************************)
EXTENDS Ultrasound, TLAPS

(* What tri_count says of the echo.  While the machine measures it is one  *)
(* behind the clocks the input has been high, and equal to them in the     *)
(* clock in which the echo is found to be over.                            *)
EchoInv ==
  /\ feedback_in1 = 1 <=> echo > 0
  /\ feedback_in1 = 1 /\ feedback_in2 = 0 => echo = 1
  /\ state = "wait_feedback" => tri_count = 0
  /\ state = "trigger" => tri_count <= TriggerLen
  /\ state = "measure_feedback" =>
       /\ tri_count \in 1 .. Limit
       /\ feedback_in1 = 1 => echo = tri_count + 1
       /\ feedback_in1 = 0 => lastEcho = tri_count

TypeInv == TypeOK /\ EchoInv

LEMMA TypeInit == Init => TypeInv
<1> SUFFICES ASSUME Init PROVE TypeInv
  OBVIOUS
<1>1. TypeOK
  <2>1. 0 \in 0 .. (IF TriggerLen > Limit THEN TriggerLen ELSE Limit)
    BY UltrasoundAssumption
  <2>2. 0 \in 0 .. Limit /\ 0 \in 0 .. Gap /\ 0 \in 0 .. EchoBound
    BY UltrasoundAssumption DEF EchoBound
  <2>3. QED
    BY <2>1, <2>2 DEF Init, TypeOK
<1>2. EchoInv
  BY DEF Init, EchoInv
<1>3. QED
  BY <1>1, <1>2 DEF TypeInv

(* A clock of the machine, whatever the driver does in it. *)
LEMMA MachineNext ==
  ASSUME TypeInv, Clock
  PROVE  /\ EchoInv'
         /\ (trig0 \in {0, 1} /\ trig1 \in {0, 1})'
         /\ (feedback_in \in {0, 1} /\ feedback_in1 \in {0, 1}
               /\ feedback_in2 \in {0, 1})'
         /\ (state \in {"idle", "trigger", "wait_feedback", "measure_feedback"})'
         /\ (tri_count \in 0 .. (IF TriggerLen > Limit THEN TriggerLen ELSE Limit))'
         /\ (trigger_out \in {0, 1} /\ state_reg \in {Busy, Ready})'
         /\ (distance_count \in {NoObstacle} \cup 0 .. Limit)'
         /\ (echo \in 0 .. EchoBound /\ lastEcho \in 0 .. EchoBound)'
         /\ (fresh \in BOOLEAN)'
<1> USE UltrasoundAssumption
        DEF TypeInv, TypeOK, EchoInv, Clock, Sample, EchoBound, Busy, Ready,
            NoObstacle
<1>1. (fresh \in BOOLEAN)'
  OBVIOUS
<1>2. /\ (trig0 \in {0, 1} /\ trig1 \in {0, 1})'
      /\ (feedback_in \in {0, 1} /\ feedback_in1 \in {0, 1}
            /\ feedback_in2 \in {0, 1})'
      /\ (echo \in 0 .. EchoBound /\ lastEcho \in 0 .. EchoBound)'
  OBVIOUS
<1>3. /\ (feedback_in1 = 1 <=> echo > 0)'
      /\ (feedback_in1 = 1 /\ feedback_in2 = 0 => echo = 1)'
  OBVIOUS
<1> HIDE DEF EchoInv
<1>4. CASE Idle
  BY <1>1, <1>2, <1>3, <1>4 DEF Idle, EchoInv
<1>5. CASE Trigger
  BY <1>1, <1>2, <1>3, <1>5 DEF Trigger, EchoInv
<1>6. CASE WaitFeedback
  BY <1>1, <1>2, <1>3, <1>6 DEF WaitFeedback, EchoStarts, EchoInv
<1>7. CASE MeasureOn
  BY <1>1, <1>2, <1>3, <1>7 DEF MeasureOn, TooLong, EchoInv
<1>8. CASE MeasureEnds
  BY <1>1, <1>2, <1>3, <1>8 DEF MeasureEnds, TooLong, EchoInv
<1>9. QED
  BY <1>4, <1>5, <1>6, <1>7, <1>8 DEF Machine

LEMMA DriverNext ==
  ASSUME TypeInv, Access \/ NoAccess
  PROVE  /\ (control \in {0, 1})'
         /\ (pc \in {"away", "clear", "set", "unset", "data"})'
         /\ (gap \in 0 .. Gap)'
         /\ (US_state \in {0, 1})'
         /\ (US_distance \in {NoObstacle} \cup 0 .. Limit)'
<1> USE UltrasoundAssumption DEF TypeInv, TypeOK
<1>1. CASE NoAccess
  BY <1>1 DEF NoAccess
<1>2. CASE ReadState
  BY <1>2 DEF ReadState, Called, Return
<1>3. CASE Clear \/ Set \/ Unset
  BY <1>3 DEF Clear, Set, Unset, WriteControl, Return
<1>4. CASE ReadData
  BY <1>4 DEF ReadData, Return
<1>5. QED
  BY <1>1, <1>2, <1>3, <1>4 DEF Access

LEMMA TypeNext == TypeInv /\ [Next]_vars => TypeInv'
<1> SUFFICES ASSUME TypeInv, [Next]_vars PROVE TypeInv'
  OBVIOUS
<1>1. CASE Next
  <2>1. Clock /\ (Access \/ NoAccess)
    BY <1>1 DEF Next
  <2>2. TypeOK'
    BY <2>1, MachineNext, DriverNext DEF TypeOK
  <2>3. QED
    BY <2>1, <2>2, MachineNext DEF TypeInv
<1>2. CASE UNCHANGED vars
  BY <1>2 DEF vars, inputs, machine, driver, history, TypeInv, TypeOK, EchoInv
<1>3. QED
  BY <1>1, <1>2

(* Type correctness, with what tri_count says of the echo: the counter     *)
(* needs no more bits than the longer of pulse and limit.                  *)
THEOREM TypeCorrect == Spec => [](TypeOK /\ EchoInv)
<1>1. QED
  BY TypeInit, TypeNext, PTL DEF Spec, TypeInv

(* Lines 112-163 of the machine: a measurement ends with the exact number  *)
(* of clocks of the echo, or with -1 exactly when that exceeds Limit.      *)
THEOREM EchoExactHolds == Spec => EchoExact
<1>1. TypeInv /\ [Next]_vars =>
        [state = "measure_feedback" /\ state' = "idle"
           => distance_count' = Measured]_vars
  <2> SUFFICES ASSUME TypeInv, Next,
                      state = "measure_feedback", state' = "idle"
               PROVE  distance_count' = Measured
    OBVIOUS
  <2>1. MeasureEnds
    BY DEF Next, Clock, Machine, Idle, Trigger, WaitFeedback, MeasureOn
  <2>2. QED
    BY <2>1, UltrasoundAssumption
       DEF MeasureEnds, Measured, TooLong, TypeInv, TypeOK, EchoInv, EchoBound
<1>2. QED
  BY <1>1, TypeCorrect, PTL DEF Spec, EchoExact, TypeInv

-----------------------------------------------------------------------------
(* The driver's reading is fresh. *)

(* No edge of the control bit is under way. *)
Settled ==
  /\ control = 1 => trig0 = 1
  /\ trig0 = 1 => trig1 = 1

Resting == state = "idle" /\ state_reg = Ready /\ Settled

(* A trigger on its way: to the first synchroniser, to the machine, through*)
(* the machine's first clock, in which its state register is still the     *)
(* old one, and then a machine that says it is busy.  Gap keeps the next   *)
(* call out of the first three.                                            *)
OnItsWay ==
  \/ pc = "unset" /\ trig0 = 0 /\ state = "idle"
  \/ /\ trig0 = 1 /\ trig1 = 0 /\ state = "idle"
     /\ pc = "away" => gap = 0
  \/ /\ Settled /\ state = "trigger"
     /\ pc = "away" => gap <= 1
  \/ Settled /\ state # "idle" /\ state_reg = Busy

FreshInv ==
  /\ control = IF pc = "unset" THEN 1 ELSE 0
  /\ US_state = 0 => pc \in {"away", "data"} /\ Resting
  /\ pc = "data" => US_state = 0 /\ fresh
  /\ pc \in {"clear", "set"} => US_state = 1 /\ Resting
  /\ US_state = 1 /\ pc \in {"unset", "away"} =>
       IF fresh THEN Resting ELSE OnItsWay

LEMMA RestingStays ==
  ASSUME TypeInv, FreshInv, Clock, Resting, control' = 0 \/ control' = control
  PROVE  Resting'
BY DEF Resting, Settled, Clock, Sample, Machine, Idle, Trigger, WaitFeedback,
       MeasureOn, MeasureEnds, TypeInv, TypeOK

LEMMA SettledStays ==
  ASSUME TypeInv, Clock, Settled, control' = 0 \/ control' = control
  PROVE  Settled'
BY DEF Settled, Clock, Sample, TypeInv, TypeOK

(* A trigger on its way goes on, and ends in a fresh measurement. *)
LEMMA OnItsWayNext ==
  ASSUME TypeInv, Clock, OnItsWay, ~fresh,
         \/ NoAccess /\ pc \in {"unset", "away"}
         \/ Unset
         \/ ReadState /\ US_state = 1,
         control = IF pc = "unset" THEN 1 ELSE 0
  PROVE  /\ pc' \in {"unset", "away"}
         /\ IF fresh' THEN Resting' ELSE OnItsWay'
<1> USE UltrasoundAssumption DEF TypeInv, TypeOK
<1>1. control' = 0 \/ control' = control
  BY DEF NoAccess, Unset, WriteControl, ReadState
<1>2. CASE pc = "unset" /\ trig0 = 0 /\ state = "idle"
  BY <1>2 DEF Clock, Sample, Machine, Idle, Trigger, WaitFeedback, MeasureOn,
              MeasureEnds, NoAccess, Unset, WriteControl, Return, ReadState,
              Called, OnItsWay
<1>3. CASE trig0 = 1 /\ trig1 = 0 /\ state = "idle" /\ (pc = "away" => gap = 0)
  BY <1>3 DEF Clock, Sample, Machine, Idle, Trigger, WaitFeedback, MeasureOn,
              MeasureEnds, NoAccess, Unset, WriteControl, Return, ReadState,
              Called, OnItsWay, Settled
<1>4. CASE Settled /\ state = "trigger" /\ (pc = "away" => gap <= 1)
  <2>1. state' # "idle" /\ state_reg' = Busy /\ ~fresh'
    BY <1>4 DEF Clock, Machine, Idle, Trigger, WaitFeedback, MeasureOn,
                MeasureEnds
  <2>2. pc' \in {"unset", "away"}
    BY <1>4 DEF NoAccess, Unset, WriteControl, Return, ReadState, Called
  <2>3. QED
    BY <1>1, <1>4, <2>1, <2>2, SettledStays DEF OnItsWay
<1>5. CASE Settled /\ state # "idle" /\ state_reg = Busy
  <2>1. \/ state' # "idle" /\ state_reg' = Busy /\ ~fresh'
        \/ state' = "idle" /\ state_reg' = Ready
             /\ state = "measure_feedback"
    BY <1>5 DEF Clock, Machine, Idle, Trigger, WaitFeedback, MeasureOn,
                MeasureEnds
  <2>2. pc' \in {"unset", "away"} /\ pc # "set"
    BY <1>5 DEF NoAccess, Unset, WriteControl, Return, ReadState, Called,
                MayTrigger, Busy, Ready
  <2>3. Settled'
    BY <1>1, <1>5, SettledStays
  <2>4. QED
    BY <2>1, <2>2, <2>3 DEF OnItsWay, Resting, Clock
<1>6. QED
  BY <1>2, <1>3, <1>4, <1>5 DEF OnItsWay

LEMMA FreshNext == TypeInv /\ FreshInv /\ [Next]_vars => FreshInv'
<1> SUFFICES ASSUME TypeInv, FreshInv, [Next]_vars PROVE FreshInv'
  OBVIOUS
<1> USE DEF TypeInv, TypeOK
<1>0. CASE UNCHANGED vars
  BY <1>0 DEF vars, inputs, machine, driver, history, FreshInv, Resting,
              Settled, OnItsWay
<1>1. ASSUME Clock, Resting, pc # "set" PROVE fresh' = fresh
  BY <1>1 DEF Clock, Resting
<1>2. ASSUME Clock, NoAccess PROVE FreshInv'
  <2>1. CASE US_state = 1 /\ pc \in {"unset", "away"} /\ ~fresh
    BY <1>2, <2>1, OnItsWayNext DEF FreshInv, NoAccess
  <2>2. CASE ~(US_state = 1 /\ pc \in {"unset", "away"} /\ ~fresh)
    <3>1. Resting /\ Resting'
      BY <1>2, <2>2, RestingStays DEF FreshInv, NoAccess
    <3>2. pc # "set" => fresh' = fresh
      BY <1>1, <1>2, <3>1
    <3>3. QED
      BY <1>2, <2>2, <3>1, <3>2 DEF FreshInv, NoAccess
  <2>3. QED
    BY <2>1, <2>2
<1>3. ASSUME Clock, ReadState PROVE FreshInv'
  <2>1. CASE US_state = 1 /\ ~fresh
    <3>1. OnItsWay /\ pc = "away"
      BY <1>3, <2>1 DEF FreshInv, ReadState, Called
    <3>2. state_reg # Ready
      BY <1>3, <3>1, UltrasoundAssumption
         DEF OnItsWay, ReadState, Called, Busy, Ready
    <3>3. US_state' = 1 /\ control' = control /\ pc' = "away"
      BY <1>3, <2>1, <3>2 DEF ReadState, MayTrigger, Return
    <3>4. IF fresh' THEN Resting' ELSE OnItsWay'
      BY <1>3, <2>1, <3>1, OnItsWayNext DEF FreshInv
    <3>5. QED
      BY <3>1, <3>3, <3>4 DEF FreshInv
  <2>2. CASE US_state = 0 \/ fresh
    <3>1. pc = "away" /\ Resting
      BY <1>3, <2>2 DEF FreshInv, ReadState, Called
    <3>2. Resting' /\ fresh' = fresh
      BY <1>1, <1>3, <3>1, RestingStays DEF ReadState
    <3>3. CASE US_state = 0
      BY <1>3, <3>1, <3>2, <3>3
         DEF FreshInv, ReadState, MayTrigger, Return, Resting, Busy, Ready
    <3>4. CASE US_state = 1
      BY <1>3, <2>2, <3>1, <3>2, <3>4
         DEF FreshInv, ReadState, MayTrigger, Return, Resting, Busy, Ready
    <3>5. QED
      BY <3>3, <3>4
  <2>3. QED
    BY <2>1, <2>2
<1>4. ASSUME Clock, Clear PROVE FreshInv'
  <2>1. Resting /\ Resting' /\ US_state = 1
    BY <1>4, RestingStays DEF FreshInv, Clear, WriteControl
  <2>2. QED
    BY <1>4, <2>1 DEF FreshInv, Clear, WriteControl
<1>5. ASSUME Clock, Set PROVE FreshInv'
  <2>1. Resting /\ US_state = 1 /\ pc = "set" /\ control = 0
    BY <1>5 DEF FreshInv, Set, WriteControl
  <2>2. trig0' = 0 /\ state' = "idle" /\ ~fresh'
    BY <1>5, <2>1 DEF Clock, Sample, Machine, Idle, Trigger, WaitFeedback,
                      MeasureOn, MeasureEnds, Resting, Settled
  <2>3. QED
    BY <1>5, <2>1, <2>2 DEF FreshInv, OnItsWay, Set, WriteControl
<1>6. ASSUME Clock, Unset PROVE FreshInv'
  <2>1. US_state = 1 /\ pc = "unset" /\ US_state' = 1 /\ pc' = "away"
          /\ control' = 0
    BY <1>6 DEF FreshInv, Unset, WriteControl, Return
  <2>2. CASE fresh
    BY <1>1, <1>6, <2>1, <2>2, RestingStays DEF FreshInv
  <2>3. CASE ~fresh
    BY <1>6, <2>1, <2>3, OnItsWayNext DEF FreshInv
  <2>4. QED
    BY <2>2, <2>3
<1>7. ASSUME Clock, ReadData PROVE FreshInv'
  <2>1. Resting /\ Resting' /\ US_state = 0
    BY <1>7, RestingStays DEF FreshInv, ReadData
  <2>2. QED
    BY <1>7, <2>1 DEF FreshInv, ReadData, Return
<1>8. QED
  BY <1>0, <1>2, <1>3, <1>4, <1>5, <1>6, <1>7 DEF Next, Access

(* Lines 73-91 of the driver: with two clocks or more between two calls,   *)
(* the driver never takes the reading of an earlier measurement for that   *)
(* of the one it has just triggered.                                       *)
THEOREM FreshReadingHolds == Spec => []FreshReading
<1>1. Init => FreshInv
  BY DEF Init, FreshInv, Resting, Settled
<1>2. FreshInv => FreshReading
  BY DEF FreshInv, FreshReading
<1>3. QED
  BY <1>1, <1>2, FreshNext, TypeCorrect, PTL DEF Spec, TypeInv

-----------------------------------------------------------------------------
(* The variant behind MeasuresOn: driver and machine turn one cycle.       *)

(* Where the cycle is: with the driver, then with the trigger on its way   *)
(* to the machine ("edge", "seen"), then with the machine ("trigger",      *)
(* "wait_feedback", "measure_feedback"), and "measured" until the driver   *)
(* asks again.                                                             *)
Stage ==
  IF pc \in {"data", "clear", "set"} THEN pc
  ELSE IF US_state = 0 THEN "asks"
  ELSE IF fresh THEN "measured"
  ELSE IF state # "idle" THEN state
  ELSE IF trig0 = 0 THEN "edge" ELSE "seen"

Turns ==
  { << "data", "asks" >>, << "asks", "clear" >>, << "clear", "set" >>,
    << "set", "edge" >>, << "edge", "seen" >>, << "seen", "trigger" >>,
    << "trigger", "wait_feedback" >>,
    << "wait_feedback", "measure_feedback" >>,
    << "measure_feedback", "measured" >>, << "measured", "data" >> }

Turned == << Stage, Stage' >> \in Turns

(* Driver and machine go round one cycle and never leave it, skip a stage  *)
(* or go back: every trigger of the driver begins exactly one measurement, *)
(* and every measurement gives exactly one reading (lines 73-91 of the     *)
(* driver, 80-163 of the machine).  A stage is left with the driver's next *)
(* access, with the next clock, when a counter reaches its end or with an  *)
(* echo that starts.  So echoes are all the cycle ever waits for.          *)
CycleTurns ==
  [][ /\ Turned \/ Stage' = Stage
      /\ Stage \in {"data", "asks", "clear", "set"} /\ Access => Turned
      /\ Stage = "measured" /\ pc = "away" /\ Access => Turned
      /\ Stage \in {"edge", "seen"} => Turned
      /\ Stage \in {"trigger", "measure_feedback"}
           => Turned \/ tri_count' = tri_count + 1
      /\ Stage = "wait_feedback" /\ EchoStarts => Turned ]_vars

(* The driver's part of the cycle. *)
LEMMA DriverTurns ==
  ASSUME TypeInv, FreshInv, Next, US_state = 0 \/ pc \in {"clear", "set"}
  PROVE  IF Access THEN Turned ELSE Stage' = Stage
<1>1. Clock /\ (Access \/ NoAccess)
  BY DEF Next
<1>2. Resting /\ pc \in {"away", "data", "clear", "set"}
  BY DEF FreshInv
<1>3. CASE ReadState
  <2>1. pc = "away" /\ US_state = 0 /\ state_reg # Busy
    BY <1>2, <1>3 DEF ReadState, Called, Resting, Busy, Ready
  <2>2. pc' = "clear"
    BY <1>3, <2>1 DEF ReadState, MayTrigger
  <2>3. Stage = "asks" /\ Stage' = "clear"
    BY <2>1, <2>2 DEF Stage
  <2>4. QED
    BY <1>3, <2>3 DEF Access, Turned, Turns
<1>4. CASE Clear
  <2>1. Stage = "clear" /\ Stage' = "set"
    BY <1>4 DEF Clear, WriteControl, Stage
  <2>2. QED
    BY <1>4, <2>1 DEF Access, Turned, Turns
<1>5. CASE Set
  <2>1. pc = "set" /\ pc' = "unset" /\ US_state' = 1 /\ control = 0
    BY <1>5 DEF Set, WriteControl, FreshInv, TypeInv, TypeOK
  <2>2. trig0' = 0 /\ state' = "idle" /\ ~fresh'
    BY <1>1, <1>2, <2>1
       DEF Clock, Sample, Machine, Idle, Trigger, WaitFeedback, MeasureOn,
           MeasureEnds, Resting, Settled, TypeInv, TypeOK
  <2>3. Stage = "set" /\ Stage' = "edge"
    BY <2>1, <2>2 DEF Stage
  <2>4. QED
    BY <1>5, <2>3 DEF Access, Turned, Turns
<1>6. CASE ReadData
  <2>1. Stage = "data" /\ pc' = "away" /\ US_state' = 0
    BY <1>6 DEF ReadData, Return, Stage, FreshInv
  <2>2. Stage' = "asks"
    BY <2>1 DEF Stage
  <2>3. QED
    BY <1>6, <2>1, <2>2 DEF Access, Turned, Turns
<1>7. CASE ~Access
  <2>1. pc' = pc /\ US_state' = US_state
    BY <1>1, <1>7 DEF NoAccess
  <2>2. QED
    BY <1>2, <1>7, <2>1 DEF Stage
<1>8. ~Unset
  BY <1>2 DEF Unset, WriteControl
<1>9. QED
  BY <1>3, <1>4, <1>5, <1>6, <1>7, <1>8 DEF Access

(* The reading waits until the driver asks for it. *)
LEMMA MeasuredTurns ==
  ASSUME TypeInv, FreshInv, Next,
         US_state = 1, pc \in {"unset", "away"}, fresh
  PROVE  /\ Stage = "measured"
         /\ IF Access /\ pc = "away" THEN Turned ELSE Stage' = Stage
<1>1. Clock /\ (Access \/ NoAccess) /\ Resting
  BY DEF Next, FreshInv
<1>2. Stage = "measured" /\ fresh'
  BY <1>1 DEF Stage, Clock
<1>3. CASE Access /\ pc = "away"
  <2>1. ReadState
    BY <1>3 DEF Access, Clear, Set, Unset, WriteControl, ReadData
  <2>2. pc' = "data"
    BY <1>1, <2>1 DEF ReadState, MayTrigger, Resting
  <2>3. Stage' = "data"
    BY <2>2 DEF Stage
  <2>4. QED
    BY <1>2, <1>3, <2>3 DEF Turned, Turns
<1>4. CASE ~(Access /\ pc = "away")
  <2>1. pc' \in {"unset", "away"} /\ US_state' = 1
    BY <1>1, <1>4 DEF Access, NoAccess, ReadState, Called, Clear, Set, Unset,
                      WriteControl, Return, ReadData
  <2>2. QED
    BY <1>2, <1>4, <2>1 DEF Stage
<1>5. QED
  BY <1>2, <1>3, <1>4

(* The trigger's way and the machine's part.                               *)
LEMMA MachineTurns ==
  ASSUME TypeInv, FreshInv, Next,
         US_state = 1, pc \in {"unset", "away"}, ~fresh
  PROVE  /\ Stage \in {"edge", "seen", "trigger", "wait_feedback",
                       "measure_feedback"}
         /\ Turned \/ Stage' = Stage
         /\ Stage \in {"edge", "seen"} => Turned
         /\ Stage \in {"trigger", "measure_feedback"}
              => Turned \/ tri_count' = tri_count + 1
         /\ Stage = "wait_feedback" /\ EchoStarts => Turned
<1>1. /\ Clock /\ OnItsWay /\ control = (IF pc = "unset" THEN 1 ELSE 0)
      /\ fresh' <=> state = "measure_feedback" /\ state' = "idle"
  BY DEF Next, FreshInv, Clock
<1>2. US_state' = 1 /\ pc' \in {"unset", "away"}
  <2>1. CASE ReadState
    <3>1. state_reg # Ready
      BY <1>1, <2>1, UltrasoundAssumption
         DEF OnItsWay, ReadState, Called, Busy, Ready, TypeInv, TypeOK
    <3>2. QED
      BY <2>1, <3>1 DEF ReadState, MayTrigger, Return
  <2>2. CASE NoAccess \/ Unset
    BY <2>2 DEF NoAccess, Unset, WriteControl, Return
  <2>3. QED
    BY <2>1, <2>2 DEF Next, Access, Clear, Set, WriteControl, ReadData
<1>3. state \in {"idle", "trigger", "wait_feedback", "measure_feedback"}
        /\ trig0 \in {0, 1}
  BY DEF TypeInv, TypeOK
<1>4. CASE state = "idle" /\ trig0 = 0
  <2>1. control = 1
    BY <1>1, <1>4 DEF OnItsWay
  <2>2. trig0' = 1 /\ state' = "idle" /\ ~fresh'
    BY <1>1, <1>4, <2>1 DEF Clock, Sample, Machine, Idle, Trigger,
                            WaitFeedback, MeasureOn, MeasureEnds
  <2>3. Stage = "edge" /\ Stage' = "seen"
    BY <1>2, <1>4, <2>2 DEF Stage
  <2>4. QED
    BY <2>3 DEF Turned, Turns
<1>5. CASE state = "idle" /\ trig0 = 1
  <2>1. trig1 = 0
    BY <1>1, <1>5 DEF OnItsWay
  <2>2. state' = "trigger" /\ ~fresh'
    BY <1>1, <1>5, <2>1 DEF Clock, Machine, Idle, Trigger, WaitFeedback,
                            MeasureOn, MeasureEnds
  <2>3. Stage = "seen" /\ Stage' = "trigger"
    BY <1>2, <1>5, <2>2 DEF Stage
  <2>4. QED
    BY <2>3 DEF Turned, Turns
<1>6. CASE state = "trigger"
  <2>1. /\ ~fresh'
        /\ \/ state' = "wait_feedback"
           \/ state' = "trigger" /\ tri_count' = tri_count + 1
    BY <1>1, <1>6 DEF Clock, Machine, Idle, Trigger, WaitFeedback, MeasureOn,
                      MeasureEnds
  <2>2. Stage = "trigger" /\ Stage' = state'
    BY <1>2, <1>6, <2>1 DEF Stage
  <2>3. QED
    BY <2>1, <2>2 DEF Turned, Turns
<1>7. CASE state = "wait_feedback"
  <2>1. ~fresh' /\ state' = IF EchoStarts THEN "measure_feedback"
                                          ELSE "wait_feedback"
    BY <1>1, <1>7 DEF Clock, Machine, Idle, Trigger, WaitFeedback, MeasureOn,
                      MeasureEnds
  <2>2. Stage = "wait_feedback" /\ Stage' = state'
    BY <1>2, <1>7, <2>1 DEF Stage
  <2>3. QED
    BY <2>1, <2>2 DEF Turned, Turns
<1>8. CASE state = "measure_feedback"
  <2>1. \/ state' = "idle" /\ fresh'
        \/ state' = "measure_feedback" /\ ~fresh'
             /\ tri_count' = tri_count + 1
    BY <1>1, <1>8 DEF Clock, Machine, Idle, Trigger, WaitFeedback, MeasureOn,
                      MeasureEnds
  <2>2. /\ Stage = "measure_feedback"
        /\ Stage' = IF fresh' THEN "measured" ELSE "measure_feedback"
    BY <1>2, <1>8, <2>1 DEF Stage
  <2>3. QED
    BY <2>1, <2>2 DEF Turned, Turns
<1>9. QED
  BY <1>3, <1>4, <1>5, <1>6, <1>7, <1>8

LEMMA FreshInvariance == Spec => [](TypeInv /\ FreshInv)
<1>1. Init => FreshInv
  BY DEF Init, FreshInv, Resting, Settled
<1>2. QED
  BY <1>1, TypeInit, TypeNext, FreshNext, PTL DEF Spec

(* No trigger is missed and no measurement is read twice, whatever lengths *)
(* pulse and echo have and whenever the main loop calls.                   *)
THEOREM CycleTurnsHolds == Spec => CycleTurns
<1>1. TypeInv /\ FreshInv /\ [Next]_vars =>
      [ /\ Turned \/ Stage' = Stage
        /\ Stage \in {"data", "asks", "clear", "set"} /\ Access => Turned
        /\ Stage = "measured" /\ pc = "away" /\ Access => Turned
        /\ Stage \in {"edge", "seen"} => Turned
        /\ Stage \in {"trigger", "measure_feedback"}
             => Turned \/ tri_count' = tri_count + 1
        /\ Stage = "wait_feedback" /\ EchoStarts => Turned ]_vars
  <2> SUFFICES
        ASSUME TypeInv, FreshInv, Next
        PROVE  /\ Turned \/ Stage' = Stage
               /\ Stage \in {"data", "asks", "clear", "set"} /\ Access
                    => Turned
               /\ Stage = "measured" /\ pc = "away" /\ Access => Turned
               /\ Stage \in {"edge", "seen"} => Turned
               /\ Stage \in {"trigger", "measure_feedback"}
                    => Turned \/ tri_count' = tri_count + 1
               /\ Stage = "wait_feedback" /\ EchoStarts => Turned
    OBVIOUS
  <2>1. CASE US_state = 0 \/ pc \in {"clear", "set"}
    <3>1. Stage \in {"data", "asks", "clear", "set"}
      BY <2>1 DEF Stage, FreshInv
    <3>2. QED
      BY <2>1, <3>1, DriverTurns
  <2>2. CASE US_state = 1 /\ pc \in {"unset", "away"} /\ fresh
    BY <2>2, MeasuredTurns
  <2>3. CASE US_state = 1 /\ pc \in {"unset", "away"} /\ ~fresh
    BY <2>3, MachineTurns
  <2>4. QED
    BY <2>1, <2>2, <2>3 DEF FreshInv, TypeInv, TypeOK
<1>2. QED
  BY <1>1, FreshInvariance, PTL DEF Spec, CycleTurns
=============================================================================
